----------------------------- MODULE Reputation -----------------------------
(***************************************************************************)
(* contracts/reputation: scores that authorised callers change, slash and  *)
(* decay, the level stored beside each score, the history and the total.   *)
(* Decay is computed when a score is used, from the ledgers since its last *)
(* update.                                                                 *)
(***************************************************************************)
EXTENDS Ledger, Sequences, Functions

CONSTANTS
  Changes,       \* score changes, of either sign
  Penalties,     \* amounts slashed
  Decays,        \* decay configurations: enabled, rate, interval
  FirstDecay,    \* the configuration initialize stores
  LevelTwo,      \* the first threshold above 0, 100 in the code
  MaxUpdates     \* bound on the history of a user

ASSUME ReputationAssumption ==
  /\ Changes \subseteq Int /\ Penalties \subseteq Int
  /\ LevelTwo \in Nat \ {0} /\ MaxUpdates \in Nat
  /\ FirstDecay \in Decays
  /\ Decays \subseteq [enabled : BOOLEAN, rate : Int, interval : Nat \ {0}]

VARIABLE reputation

NoRecord == [score |-> 0, level |-> 1, last |-> 0, stored |-> FALSE]

ReputationInit ==
  reputation = [callers |-> {}, decay |-> FirstDecay, total |-> 0,
                rep |-> [u \in Accounts |-> NoRecord],
                history |-> [u \in Accounts |-> <<>>],
                board |-> [u \in Accounts |-> 0]]     \* Leaderboard

is_authorized(a) == a = Admin \/ a \in reputation.callers

add_authorized_caller(a) ==
  reputation' = [reputation EXCEPT !.callers = @ \cup {a}]

remove_authorized_caller(a) ==
  reputation' = [reputation EXCEPT !.callers = @ \ {a}]

set_decay_config(d) == reputation' = [reputation EXCEPT !.decay = d]

NotNegative(n) == IF n < 0 THEN 0 ELSE n

calculate_level(score) == IF score >= LevelTwo THEN 2 ELSE 1

\* The record of a user, new at this ledger if there is none.
Record(u) ==
  IF reputation.rep[u].stored THEN reputation.rep[u]
  ELSE [NoRecord EXCEPT !.last = sequence, !.stored = TRUE]

apply_decay_internal(r) ==
  LET d == reputation.decay
      elapsed == sequence - r.last
  IN  IF ~d.enabled \/ elapsed < d.interval THEN r
      ELSE [r EXCEPT !.score = NotNegative(@ + d.rate * (elapsed \div d.interval)),
                     !.last = sequence]

update_reputation(caller, u, x) ==
  LET score == NotNegative(apply_decay_internal(Record(u)).score + x)
  IN  /\ is_authorized(caller)
      /\ Len(reputation.history[u]) < MaxUpdates
      /\ reputation' = [reputation EXCEPT
           !.rep[u] = [score |-> score, level |-> calculate_level(score),
                       last |-> sequence, stored |-> TRUE],
           !.history[u] = Append(@, x),
           !.total = @ + x,
           !.board[u] = IF @ = 0 THEN 1 ELSE @]

\* Stores the decayed record as it is: the level is not recomputed.
apply_decay(caller, u) ==
  LET old == reputation.rep[u]
      new == apply_decay_internal(old)
  IN  /\ is_authorized(caller)
      /\ old.stored
      /\ old.score # new.score
      /\ Len(reputation.history[u]) < MaxUpdates
      /\ reputation' = [reputation EXCEPT
           !.rep[u] = new,
           !.history[u] = Append(@, new.score - old.score),
           !.total = @ + new.score - old.score]

\* A mutant of slash: the score is not clamped.
slash_Unclamped(caller, u, x) ==
  LET score == Record(u).score - x
  IN  /\ is_authorized(caller)
      /\ reputation' = [reputation EXCEPT
           !.rep[u] = [score |-> score, level |-> calculate_level(score),
                       last |-> sequence, stored |-> TRUE]]

\* Neither decays first nor enters the history, the total or the leaderboard.
slash(caller, u, x) ==
  LET score == NotNegative(Record(u).score - x)
  IN  /\ is_authorized(caller)
      /\ reputation' = [reputation EXCEPT
           !.rep[u] = [score |-> score, level |-> calculate_level(score),
                       last |-> sequence, stored |-> TRUE]]

ReputationNext ==
  \/ \E a \in Accounts : add_authorized_caller(a) \/ remove_authorized_caller(a)
  \/ \E d \in Decays : set_decay_config(d)
  \/ \E a, u \in Accounts :
       \/ apply_decay(a, u)
       \/ \E x \in Changes : update_reputation(a, u, x)
       \/ \E x \in Penalties : slash(a, u, x)

ReputationTypeOK ==
  /\ reputation.callers \subseteq Accounts
  /\ reputation.decay \in Decays /\ reputation.total \in Int
  /\ reputation.rep \in [Accounts -> [score : Nat, level : {1, 2}, last : Clock,
                                      stored : BOOLEAN]]
  /\ reputation.board \in [Accounts -> Nat]
  /\ \A u \in Accounts : Len(reputation.history[u]) <= MaxUpdates

(* The total is what the histories of all users add up to, and a user is on *)
(* the leaderboard at most once and never without a history.  The total is  *)
(* not the sum of the scores: clamping, slashes and the decay inside an     *)
(* update change a score and not the total.                                 *)
HistoryAddsUp ==
  /\ reputation.total = SumFunction([u \in Accounts |-> SumFunction(reputation.history[u])])
  /\ \A u \in Accounts :
       reputation.board[u] <= IF reputation.history[u] = <<>> THEN 0 ELSE 1
=============================================================================
