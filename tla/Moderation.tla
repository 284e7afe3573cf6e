----------------------------- MODULE Moderation -----------------------------
(***************************************************************************)
(* ModerationService on one piece of content, and the disputes an admin    *)
(* resolves: two queues of rows that people decide on and save whole.      *)
(* Texts, scores and the log are left out.                                 *)
(***************************************************************************)
EXTENDS Requests

CONSTANTS
  MaxItems,      \* bound on the moderation items
  MaxComplaints  \* bound on the disputes
ASSUME ModerationAssumption == MaxItems \in Nat /\ MaxComplaints \in Nat

VARIABLE moderation

Items == 0 .. MaxItems - 1
Complaints == 0 .. MaxComplaints - 1

ModerationInit ==
  moderation = [next |-> 0,
                item |-> [i \in Items |-> [status |-> "pending", appealed |-> FALSE]],
                auto |-> {},                        \* items the analysis made
                appeals |-> [i \in Items |-> 0],    \* appeals that were accepted
                complaints |-> 0,
                complaint |-> [d \in Complaints |-> "open"]]

Flagged == 0 .. moderation.next - 1
PendingItems == {i \in Flagged : moderation.item[i].status = "pending"}
Opened == 0 .. moderation.complaints - 1

\* Content that scores as toxic gets an item whether or not one is pending.
analyzeContent(c) ==
  /\ At(c, "idle")
  /\ moderation.next < MaxItems
  /\ moderation' = [moderation EXCEPT !.next = @ + 1, !.auto = @ \cup {moderation.next}]
  /\ UNCHANGED reqVars

flagContent(c) ==
  /\ PendingItems = {}
  /\ Reads(c, "flag", None, PendingItems, None)
  /\ UNCHANGED moderation

flagContent_insert(c) ==
  /\ At(c, "flag")
  /\ moderation.next < MaxItems
  /\ moderation' = [moderation EXCEPT !.next = @ + 1]
  /\ Trusts(c, PendingItems)
  /\ Ends(c)

\* getItemOrThrow, the check of a handler, and the copy it changes.
Decide(c, i, statuses, step, status) ==
  /\ i \in Flagged
  /\ moderation.item[i].status \in statuses
  /\ Reads(c, step, i, moderation.item[i], status)
  /\ UNCHANGED moderation

reviewItem(c, i, status) == Decide(c, i, {"pending", "appealed"}, "save_item", status)
resolveAppeal(c, i, status) == Decide(c, i, {"appealed"}, "save_item", status)

submitAppeal(c, i) ==
  /\ ~moderation.item[i].appealed
  /\ Decide(c, i, {"rejected"}, "save_appeal", "appealed")

\* A review keeps the appeal of its copy.
SaveItem(c) ==
  /\ At(c, "save_item")
  /\ LET i == call[c].id IN
     /\ moderation' = [moderation EXCEPT
                         !.item[i] = [call[c].seen EXCEPT !.status = call[c].arg]]
     /\ Trusts(c, moderation.item[i])
  /\ Ends(c)

submitAppeal_save(c) ==
  /\ At(c, "save_appeal")
  /\ LET i == call[c].id IN
     /\ moderation.appeals[i] < 2
     /\ moderation' = [moderation EXCEPT
                         !.item[i] = [status |-> "appealed", appealed |-> TRUE],
                         !.appeals[i] = @ + 1]
     /\ Trusts(c, moderation.item[i])
  /\ Ends(c)

createDispute(c) ==
  /\ At(c, "idle")
  /\ moderation.complaints < MaxComplaints
  /\ moderation' = [moderation EXCEPT !.complaints = @ + 1]
  /\ UNCHANGED reqVars

resolveDispute(c, d, status) ==
  /\ d \in Opened
  /\ moderation.complaint[d] = "open"
  /\ Reads(c, "save_dispute", d, moderation.complaint[d], status)
  /\ UNCHANGED moderation

resolveDispute_save(c) ==
  /\ At(c, "save_dispute")
  /\ moderation' = [moderation EXCEPT !.complaint[call[c].id] = call[c].arg]
  /\ Trusts(c, moderation.complaint[call[c].id])
  /\ Ends(c)

ModerationNext ==
  \/ \E c \in Calls, i \in Items :
       \/ \E status \in {"approved", "rejected"} :
            reviewItem(c, i, status) \/ resolveAppeal(c, i, status)
       \/ submitAppeal(c, i)
  \/ \E c \in Calls, d \in Complaints, status \in {"resolved", "closed"} :
       resolveDispute(c, d, status)
  \/ \E c \in Calls :
       \/ analyzeContent(c) \/ flagContent(c) \/ flagContent_insert(c)
       \/ SaveItem(c) \/ submitAppeal_save(c)
       \/ createDispute(c) \/ resolveDispute_save(c)
       \/ Fails(c) /\ UNCHANGED moderation

ModerationTypeOK ==
  moderation \in
    [next : 0 .. MaxItems,
     item : [Items -> [status : {"pending", "approved", "rejected", "appealed"},
                       appealed : BOOLEAN]],
     auto : SUBSET Items, appeals : [Items -> 0 .. 2], complaints : 0 .. MaxComplaints,
     complaint : [Complaints -> {"open", "resolved", "closed"}]]

(* Unless calls race, one report of a content waits at a time (the automatic *)
(* ones apart) and one appeal is made per item, which its row remembers.     *)
OneReportOneAppeal ==
  ~raced =>
    /\ Cardinality(PendingItems \ moderation.auto) <= 1
    /\ \A i \in Flagged : moderation.appeals[i] = (IF moderation.item[i].appealed THEN 1 ELSE 0)

\* An approved item, and a rejected one whose appeal is spent.
ClosedItem(i) ==
  /\ i \in Flagged
  /\ \/ moderation.item[i].status = "approved"
     \/ moderation.item[i].status = "rejected" /\ moderation.item[i].appealed
ClosedComplaint(d) == moderation.complaint[d] # "open"
=============================================================================
