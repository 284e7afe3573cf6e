----------------------------- MODULE RateLimits ------------------------------
(***************************************************************************)
(* UserRateLimitService.checkRateLimit for one user, one endpoint and one  *)
(* day: a list of timestamps and a daily count in the cache, each read,    *)
(* changed and written back with an await between; and the places of a     *)
(* cohort, counted before a member is inserted.  Admins, the allow-list    *)
(* and the tables of limits decide only which limit applies.  A cached     *)
(* list outlives its timestamps, so its expiry changes no answer.          *)
(***************************************************************************)
EXTENDS Requests, Functions

CONSTANTS
  Limit, Window, DailyQuota,   \* RateLimitConfig; a quota of 0 is none
  LastMoment,                  \* bound on the time
  MaxMembers,                  \* maxMembers of the cohort; 0 is unlimited
  MaxJoins                     \* bound on the members
ASSUME RateAssumption ==
  /\ Limit \in Nat \ {0} /\ Window \in Nat \ {0} /\ DailyQuota \in Nat
  /\ LastMoment \in Nat /\ MaxMembers \in Nat /\ MaxJoins \in Nat

VARIABLES
  limits,    \* the cache, the time, and who was let in
  members    \* rows of cohort_members

Moments == 0 .. LastMoment

\* A list of moments is the number of times each occurs in it.
RateInit ==
  /\ limits = [now |-> 0, timestamps |-> [t \in Moments |-> 0], daily |-> 0,
               admitted |-> [t \in Moments |-> 0],    \* requests let in, by their moment
               charged |-> 0]                         \* daily counts written since a reset
  /\ members = 0

Recent(list) == [t \in Moments |-> IF t > limits.now - Window THEN list[t] ELSE 0]
Count(list) == SumFunction(list)

\* The list read and filtered; now is the moment the call began.
checkRateLimit(c) ==
  /\ Count(Recent(limits.timestamps)) < Limit
  /\ Reads(c, IF DailyQuota > 0 THEN "daily" ELSE "push",
           limits.now, limits.timestamps, Recent(limits.timestamps))
  /\ UNCHANGED limits

\* The count is read, and the call ends here when the quota is used up.
checkRateLimit_daily(c) ==
  /\ At(c, "daily")
  /\ IF limits.daily >= DailyQuota THEN Ends(c)
     ELSE call' = [call EXCEPT ![c].at = "count",
                               ![c].seen = [list |-> @, daily |-> limits.daily]]
  /\ UNCHANGED <<limits, raced>>

checkRateLimit_count(c) ==
  /\ At(c, "count")
  /\ limits' = [limits EXCEPT !.daily = call[c].seen.daily + 1,
                               !.charged = @ + 1]
  /\ raced' = (raced \/ limits.daily # call[c].seen.daily)
  /\ call' = [call EXCEPT ![c].at = "push", ![c].seen = @.list]

checkRateLimit_push(c) ==
  /\ At(c, "push")
  /\ LET t == call[c].id
     IN  limits' = [limits EXCEPT !.timestamps = [call[c].arg EXCEPT ![t] = @ + 1],
                                  !.admitted[t] = @ + 1]
  /\ Trusts(c, limits.timestamps)
  /\ Ends(c)

\* Clears the list without an endpoint, which the guard never fills, and the count.
resetUserLimit ==
  /\ limits.charged > 0
  /\ limits' = [limits EXCEPT !.daily = 0, !.charged = 0]
  /\ UNCHANGED reqVars

TimePasses ==
  /\ limits.now < LastMoment
  /\ limits' = [limits EXCEPT !.now = @ + 1]
  /\ UNCHANGED reqVars

RateNext ==
  \/ \E c \in Calls : \/ checkRateLimit(c) \/ checkRateLimit_daily(c)
                      \/ checkRateLimit_count(c) \/ checkRateLimit_push(c)
                      \/ Fails(c) /\ UNCHANGED limits
  \/ resetUserLimit
  \/ TimePasses

addMember(c) ==
  /\ MaxMembers > 0 => members < MaxMembers
  /\ Reads(c, "insert", None, members, None)
  /\ UNCHANGED members

addMember_insert(c) ==
  /\ At(c, "insert")
  /\ members < MaxJoins
  /\ members' = members + 1
  /\ Trusts(c, members)
  /\ Ends(c)

removeMember(c) ==
  /\ At(c, "idle")
  /\ members > 0
  /\ members' = members - 1
  /\ UNCHANGED reqVars

CohortNext ==
  \E c \in Calls : \/ addMember(c) \/ addMember_insert(c) \/ removeMember(c)
                   \/ Fails(c) /\ UNCHANGED members

RateTypeOK ==
  /\ limits.now \in Moments
  /\ {limits.timestamps, limits.admitted} \subseteq [Moments -> Nat]
  /\ limits.daily \in Nat /\ limits.charged \in Nat
  /\ members \in 0 .. MaxJoins

(* Unless calls race, no window of the configured length lets in more than  *)
(* the limit, the daily count is what was charged and within the quota, and *)
(* a cohort has no more members than places.                                *)
LimitsHold ==
  ~raced =>
    /\ \A m \in Moments :
         Count([t \in Moments |-> IF m - Window < t /\ t <= m THEN limits.admitted[t] ELSE 0])
           <= Limit
    /\ limits.daily = limits.charged /\ limits.daily <= DailyQuota
    /\ MaxMembers > 0 => members <= MaxMembers
=============================================================================
