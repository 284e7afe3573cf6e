------------------------------- MODULE Services -------------------------------
(***************************************************************************)
(* The smaller services of the backend, and the queue the browser keeps    *)
(* for it, each with a few calls under way.                                *)
(* None of those below reads the rows of another, so, as for the contracts *)
(* (Contracts.tla), a behaviour of all of them interleaves behaviours of   *)
(* each; service names the one that is followed and never changes.         *)
(***************************************************************************)
EXTENDS Sessions, Bookings, Kyc, Proposals, Moderation, BatchJobs, Shutdown,
        EmailQueue, RateLimits, Accounts, Courses, OfflineQueue

CONSTANT Followed      \* the services followed
VARIABLE service

svcVars ==
  <<sessions, bookings, customer, provider, drafts, moderation, batches, server,
    emails, prefs, reminders, wish, notices, limits, members, user, resets, edits, told,
    course, catalog, forum, writes, browser, call, raced, service>>

ServicesInit ==
  /\ RequestsInit
  /\ service \in Followed
  /\ SessionsInit /\ BookingsInit /\ KycInit /\ ProposalsInit /\ ModerationInit
  /\ BatchInit /\ ShutdownInit /\ EmailInit /\ OptOutsInit /\ NoticesInit /\ RateInit
  /\ AccountsInit /\ CoursesInit /\ ForumInit /\ OfflineInit
  /\ service # "accounts" => user = Registered

\* The services a behaviour does not follow, and service, stay as they are.
Unfollowed ==
  /\ UNCHANGED service
  /\ service # "sessions" => UNCHANGED sessions
  /\ service # "bookings" => UNCHANGED bookings
  /\ service # "kyc" => UNCHANGED kycVars
  /\ service # "proposals" => UNCHANGED drafts
  /\ service # "moderation" => UNCHANGED moderation
  /\ service # "batch" => UNCHANGED batches
  /\ service # "shutdown" => UNCHANGED server
  /\ service # "email" => UNCHANGED emails
  /\ service # "optouts" => UNCHANGED optVars
  /\ service # "limits" => UNCHANGED limits
  /\ service # "cohort" => UNCHANGED members
  /\ service # "notices" => UNCHANGED notices
  /\ service # "accounts" => UNCHANGED accountVars
  /\ service # "courses" => UNCHANGED courseVars
  /\ service # "forum" => UNCHANGED forum
  /\ service # "offline" => UNCHANGED offlineVars

ServicesNext ==
  /\ Unfollowed
  /\ \/ service = "sessions" /\ SessionsNext
     \/ service = "bookings" /\ BookingsNext
     \/ service = "kyc" /\ KycNext
     \/ service = "proposals" /\ ProposalsNext
     \/ service = "moderation" /\ ModerationNext
     \/ service = "batch" /\ BatchNext
     \/ service = "shutdown" /\ ShutdownNext
     \/ service = "email" /\ EmailNext
     \/ service = "optouts" /\ OptOutsNext
     \/ service = "limits" /\ RateNext
     \/ service = "cohort" /\ CohortNext
     \/ service = "notices" /\ NoticesNext
     \/ service = "accounts" /\ AccountsNext
     \/ service = "courses" /\ CoursesNext
     \/ service = "forum" /\ ForumNext
     \/ service = "offline" /\ OfflineNext

ServicesSpec == ServicesInit /\ [][ServicesNext]_svcVars

\* Where TLC stops: what does not interact is not combined.  Log-outs and lapses
\* concern one token; a course has two dates, two versions, or one of each.
Explored ==
  /\ Cardinality(sessions.lapsed \cup sessions.answered) <= 1
  /\ catalog.plans + Len(catalog.versions) <= 2

-----------------------------------------------------------------------------
\* Where a call of one of the services may wait.
Awaits ==
  {"announce", "answer", "cache", "cancel", "code", "count", "create",
   "create_session", "daily", "deindex", "delete", "disable", "enable", "enqueue",
   "fetch", "finished", "flag", "flush", "handled", "hash", "idle", "index", "insert",
   "insert_reply", "issue", "link", "lookup", "make_reset", "mark", "name_answer",
   "persist", "push", "put_back", "regenerate", "register", "release", "remind",
   "remove", "resend", "revoke", "rotate", "save", "save_appeal", "save_code",
   "save_course", "save_dispute", "save_item", "save_password", "save_prefs",
   "save_publication", "save_reminder", "save_schedule", "send", "set_status", "spend",
   "three_seconds", "two_seconds", "unflag", "verify", "version"}

ServicesTypeOK ==
  /\ RequestsTypeOK /\ (\A c \in Calls : call[c].at \in Awaits) /\ service \in Followed
  /\ SessionsTypeOK /\ BookingsTypeOK /\ KycTypeOK /\ ProposalsTypeOK /\ ModerationTypeOK
  /\ BatchTypeOK /\ ShutdownTypeOK /\ EmailTypeOK /\ OptOutsTypeOK /\ NoticesTypeOK
  /\ RateTypeOK /\ AccountsTypeOK /\ CoursesTypeOK /\ ForumTypeOK /\ OfflineTypeOK

(* What no interleaving, failure or restart may break: a log-out that       *)
(* revokes its refresh token is final, KYC approvals come from the          *)
(* provider, the drain count is never too high, completed batches did       *)
(* something, a request the browser queued arrives once and once more for   *)
(* each arrival it did not learn of; and no write from a stale copy claims  *)
(* what never was: an exchange of a token that still counts, a vote nobody  *)
(* cast, a delivery, a notification or a publication that did not happen.   *)
SafeUnderRaces ==
  /\ RevokingLogoutIsFinal /\ ApprovalIsTheProviders /\ DrainIsOrderly /\ BatchCountsAreWhole
  /\ QueuedWritesArrive
  /\ ExchangedIsRevoked /\ NoVoteIsInvented /\ NoDeliveryIsInvented
  /\ NoShowingIsInvented /\ NoReleaseIsEarly

(* What only a write from a stale copy can break: refresh and reset tokens  *)
(* and backup codes are used once, requests over a confirmed booking fail,  *)
(* votes, reports, appeals, deliveries, notifications, publications and     *)
(* admissions are exact, a post has one answer, erased data stay erased,    *)
(* and users' choices stand.                                                *)
RowsAreExact ==
  /\ RotationIsSingleUse /\ DoubleBookingsWerePending /\ SessionStaysLinked
  /\ VotesAreCounted /\ OutcomesMatchCounts /\ OneReportOneAppeal /\ EndedBatchesShowIt
  /\ EmailsAreAccountedFor /\ WishesAreKept /\ NoticesAreAccountedFor
  /\ AccountsAreKept /\ CoursesFollowTheirPlan /\ OneAnswer
ExactWithoutRaces == RowsAreExact /\ LimitsHold

(* A row that was closed - a booking, a proposal, a moderation item, a      *)
(* dispute, an e-mail, a scheduled notification (which may be cancelled     *)
(* late) - changes status again only in a write from a stale copy.          *)
ClosedStaysClosed ==
  [][~raced' =>
       /\ \A b \in BookingIds : ClosedBooking(b) => bookings'.status[b] = bookings.status[b]
       /\ \A p \in DraftIds : ClosedProposal(p) =>
            drafts'[p].status \in {drafts[p].status, "removed"}
       /\ \A i \in Items : ClosedItem(i) => moderation'.item[i] = moderation.item[i]
       /\ \A d \in Complaints : ClosedComplaint(d) =>
            moderation'.complaint[d] = moderation.complaint[d]
       /\ \A e \in Queued : ClosedEmail(e) => emails'.row[e] = emails.row[e]
       /\ \A n \in Scheduled : ClosedNotice(n) =>
            notices'.status[n] \in {notices.status[n], "cancelled"}]_svcVars
=============================================================================
