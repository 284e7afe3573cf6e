----------------------------- MODULE Proposals ------------------------------
(***************************************************************************)
(* GovernanceProposalService, the backend's own record of proposals beside *)
(* the contract.  Each operation reads the row, decides, and patches the   *)
(* columns it names; a vote patches the count it read plus one.  The end   *)
(* of voting is checked by recordVote alone, and no voter is remembered.   *)
(***************************************************************************)
EXTENDS Requests

CONSTANTS
  MaxDrafts,    \* bound on the proposals
  MaxCast,      \* bound on the votes recorded on one
  Quorums       \* quorumRequired

AnyStatus == {"draft", "active", "cancelled", "executed", "rejected"}

Row == [status : AnyStatus \cup {"removed"},
        for : 0 .. MaxCast, against : 0 .. MaxCast, quorum : Quorums, ended : BOOLEAN,
        cast : [for : 0 .. MaxCast, against : 0 .. MaxCast]]  \* votes that were answered

ASSUME ProposalsAssumption ==
  /\ MaxDrafts \in Nat /\ MaxCast \in Nat /\ Quorums \subseteq Nat
  /\ None \notin Row

VARIABLE drafts     \* id -> row, or None before create; a removed row is a tombstone

DraftIds == 0 .. MaxDrafts - 1

ProposalsInit == drafts = [p \in DraftIds |-> None]

Kept == {p \in DraftIds : drafts[p] # None /\ drafts[p].status # "removed"}

create_proposal(c, p, q) ==
  /\ At(c, "idle")
  /\ drafts[p] = None
  /\ drafts' = [drafts EXCEPT ![p] = [status |-> "draft", for |-> 0, against |-> 0,
                                      quorum |-> q, ended |-> FALSE,
                                      cast |-> [for |-> 0, against |-> 0]]]
  /\ UNCHANGED reqVars

\* The columns of a row an operation reads or writes.
Columns(p) == [status |-> drafts[p].status, for |-> drafts[p].for,
               against |-> drafts[p].against]

\* findById, for an operation allowed in the given statuses.
FindById(c, p, statuses, step, a) ==
  /\ p \in Kept
  /\ drafts[p].status \in statuses
  /\ Reads(c, step, p, Columns(p), a)
  /\ UNCHANGED drafts

activate(c, p) == FindById(c, p, {"draft"}, "set_status", "active")
cancel(c, p) == FindById(c, p, {"draft", "active"}, "set_status", "cancelled")

recordVote(c, p, support) ==
  /\ p \in Kept /\ ~drafts[p].ended
  /\ FindById(c, p, {"active"}, "count", support)

\* A mutant of execute: a tie passes.
execute_TiePasses(c, p) ==
  /\ p \in Kept
  /\ drafts[p].for + drafts[p].against >= drafts[p].quorum
  /\ FindById(c, p, {"active"}, "set_status",
              IF drafts[p].for >= drafts[p].against THEN "executed" ELSE "rejected")

\* Quorum and outcome come from the counts read here.
execute(c, p) ==
  /\ p \in Kept
  /\ drafts[p].for + drafts[p].against >= drafts[p].quorum
  /\ FindById(c, p, {"active"}, "set_status",
              IF drafts[p].for > drafts[p].against THEN "executed" ELSE "rejected")

remove(c, p) == FindById(c, p, AnyStatus, "delete", None)

\* A patch of a row removed since changes nothing, and findOneOrFail throws.
SetStatus(c) ==
  /\ At(c, "set_status")
  /\ LET p == call[c].id IN
     IF p \notin Kept THEN UNCHANGED <<drafts, raced>>
     ELSE /\ drafts' = [drafts EXCEPT ![p].status = call[c].arg]
          /\ Trusts(c, Columns(p))
  /\ Ends(c)

recordVote_count(c) ==
  /\ At(c, "count")
  /\ LET p == call[c].id
         side == call[c].arg
         votes == [drafts[p].cast EXCEPT ![side] = @ + 1]
     IN IF p \notin Kept THEN UNCHANGED <<drafts, raced>>
        ELSE /\ drafts[p].cast[side] < MaxCast
             /\ drafts' = [drafts EXCEPT ![p] =
                             [@ EXCEPT ![side] = call[c].seen[side] + 1, !.cast = votes]]
             /\ Trusts(c, Columns(p))
  /\ Ends(c)

remove_delete(c) ==
  /\ At(c, "delete")
  /\ drafts' = [drafts EXCEPT ![call[c].id].status = "removed"]
  /\ Ends(c)
  /\ UNCHANGED raced

VotingEnds(p) ==
  /\ p \in Kept /\ ~drafts[p].ended
  /\ drafts' = [drafts EXCEPT ![p].ended = TRUE]
  /\ UNCHANGED reqVars

ProposalsNext ==
  \/ \E c \in Calls, p \in DraftIds :
       \/ \E q \in Quorums : create_proposal(c, p, q)
       \/ \E side \in {"for", "against"} : recordVote(c, p, side)
       \/ activate(c, p) \/ cancel(c, p) \/ execute(c, p) \/ remove(c, p)
  \/ \E c \in Calls :
       \/ SetStatus(c) \/ recordVote_count(c) \/ remove_delete(c)
       \/ Fails(c) /\ UNCHANGED drafts
  \/ \E p \in DraftIds : VotingEnds(p)

ProposalsTypeOK == \A p \in DraftIds : drafts[p] = None \/ drafts[p] \in Row

(* A vote can be lost to another, but none is counted that was not cast.    *)
NoVoteIsInvented ==
  \A p \in Kept, side \in {"for", "against"} : drafts[p][side] <= drafts[p].cast[side]

(* Without a race the counts are the votes answered.                        *)
VotesAreCounted ==
  ~raced => \A p \in Kept, side \in {"for", "against"} :
              drafts[p][side] = drafts[p].cast[side]

(* Without a race the outcome a closed proposal shows is the one its final  *)
(* counts give.                                                             *)
OutcomesMatchCounts ==
  ~raced => \A p \in Kept :
    LET r == drafts[p] IN
      r.status \in {"executed", "rejected"} =>
        /\ r.for + r.against >= r.quorum
        /\ r.status = "executed" <=> r.for > r.against

ClosedProposal(p) == p \in Kept /\ drafts[p].status \notin {"draft", "active"}
=============================================================================
