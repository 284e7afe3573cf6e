----------------------------- MODULE EmailQueue -----------------------------
(***************************************************************************)
(* EmailService.processQueue: a pass loads the pending e-mails that are    *)
(* due, sends them one after the other and saves each.  `processing` keeps *)
(* the passes of one process apart, so a call stands for a process: it is  *)
(* idle when its flag is down.  A pass takes at most ten e-mails in the    *)
(* code and all of them here.  The mail server is external.                *)
(*                                                                         *)
(* A user's wishes about mail: the e-mail preferences, read before a mail  *)
(* is queued, and the reminders of a course, read before one is sent.  One *)
(* user, one course and one kind of mail stand for all: no call touches    *)
(* the rows of two.  Nothing keeps the pair from having several reminders: *)
(* each POST inserts one, and the cron job takes any of them.  wish keeps, *)
(* for the properties, the choice last answered, a POST being the choice   *)
(* to be reminded, and unwanted that a mail went out against it.           *)
(*                                                                         *)
(* Scheduled notifications (NotificationsService.processScheduled): the    *)
(* same loop without a flag, so that a pass may start before the last has  *)
(* ended.  The in-app channel is on, as it is by default.                  *)
(***************************************************************************)
EXTENDS Requests

CONSTANTS
  MaxEmails,      \* bound on the queue
  MaxAttempts,    \* MAX_ATTEMPTS
  MaxDelivered,   \* bound on the deliveries of one e-mail or notification
  MaxReminders,   \* bound on the reminders of the pair
  MaxNotices      \* bound on the notifications scheduled
ASSUME EmailAssumption == MaxEmails \in Nat /\ MaxAttempts \in Nat \ {0} /\ MaxDelivered \in Nat
ASSUME NoticesAssumption == MaxNotices \in Nat

EmailPreference == [enrollment : BOOLEAN, unsubscribedAll : BOOLEAN]
Reminder == [isActive : BOOLEAN, due : BOOLEAN]
ASSUME OptOutsAssumption ==
  MaxReminders \in Nat /\ None \notin EmailPreference \cup Reminder

VARIABLES
  emails,     \* the queue
  prefs,      \* the row of email_preferences, or None
  reminders,  \* the rows of reminders, None where there is none yet
  wish,       \* [enrollment, unsubscribedAll, isActive, unwanted]
  notices     \* scheduled_notifications

Emails == 0 .. MaxEmails - 1

EmailInit ==
  emails = [next |-> 0,
            row |-> [e \in Emails |-> [status |-> "pending", attempts |-> 0, waits |-> FALSE]],
            delivered |-> [e \in Emails |-> 0],    \* handed to the mail server
            unsaved |-> [e \in Emails |-> 0]]      \* of these, those no pass came to save

Queued == 0 .. emails.next - 1

enqueue ==
  /\ emails.next < MaxEmails
  /\ emails' = [emails EXCEPT !.next = @ + 1]
  /\ UNCHANGED reqVars

\* seen holds the rows of the pass, arg the e-mails still to be sent.
processQueue(c) ==
  LET due == {e \in Queued : emails.row[e].status = "pending" /\ ~emails.row[e].waits}
  IN  /\ due # {}
      /\ Reads(c, "send", None, emails.row, due)
      /\ UNCHANGED emails

Oldest(S) == CHOOSE e \in S : \A f \in S : e <= f

\* sendMail of the next one, and the row the pass will save for it.
sendJob(c, ok) ==
  /\ At(c, "send") /\ call[c].arg # {}
  /\ LET e == Oldest(call[c].arg)
         n == call[c].seen[e].attempts + 1
         row == IF ok THEN [status |-> "sent", attempts |-> n, waits |-> FALSE]
                ELSE IF n >= MaxAttempts
                THEN [status |-> "failed", attempts |-> n, waits |-> FALSE]
                ELSE [status |-> "pending", attempts |-> n, waits |-> TRUE]
     IN /\ ok => emails.delivered[e] < MaxDelivered
        /\ emails' = IF ok THEN [emails EXCEPT !.delivered[e] = @ + 1] ELSE emails
        /\ raced' = (raced \/ emails.row[e] # call[c].seen[e])
        /\ call' = [call EXCEPT ![c].at = "save", ![c].id = e, ![c].seen[e] = row]

sendJob_save(c) ==
  /\ At(c, "save")
  /\ LET e == call[c].id
         rest == call[c].arg \ {e}
        old == emails.row[e]
     IN /\ emails' = [emails EXCEPT !.row[e] = call[c].seen[e]]
        /\ IF rest = {} THEN Ends(c)
           ELSE call' = [call EXCEPT ![c].at = "send", ![c].id = None, ![c].arg = rest]
        /\ raced' = (raced \/ old.status # "pending"
                           \/ old.attempts + 1 # call[c].seen[e].attempts)

RetryComesDue(e) ==
  /\ e \in Queued
  /\ emails.row[e].waits
  /\ emails' = [emails EXCEPT !.row[e].waits = FALSE]
  /\ UNCHANGED reqVars

\* The save is refused or the process dies; a delivery may go unrecorded.
PassFails(c) ==
  /\ Fails(c)
  /\ emails' = IF At(c, "save") /\ call[c].seen[call[c].id].status = "sent"
               THEN [emails EXCEPT !.unsaved[call[c].id] = @ + 1] ELSE emails

EmailNext ==
  \/ enqueue
  \/ \E c \in Calls : \/ processQueue(c) \/ sendJob_save(c) \/ PassFails(c)
                      \/ \E ok \in BOOLEAN : sendJob(c, ok)
  \/ \E e \in Emails : RetryComesDue(e)

EmailTypeOK ==
  /\ emails.next \in 0 .. MaxEmails
  /\ emails.row \in [Emails -> [status : {"pending", "sent", "failed"},
                                attempts : 0 .. MaxAttempts, waits : BOOLEAN]]
  /\ emails.delivered \in [Emails -> 0 .. MaxDelivered]
  /\ emails.unsaved \in [Emails -> 0 .. MaxDelivered]

Sending(e) == {c \in Calls : /\ At(c, "save") /\ call[c].id = e
                              /\ call[c].seen[e].status = "sent"}

(* An e-mail marked sent was delivered and one given up shows every attempt, *)
(* though two processes write one row from copies of their own.              *)
NoDeliveryIsInvented ==
  \A e \in Queued :
    /\ emails.row[e].status = "sent" => emails.delivered[e] > 0
    /\ emails.row[e].status = "failed" => emails.row[e].attempts = MaxAttempts

(* Unless two processes race, an e-mail is delivered once: every further    *)
(* delivery is one that a failure kept from being saved.                    *)
EmailsAreAccountedFor ==
  ~raced => \A e \in Queued :
    emails.delivered[e] = emails.unsaved[e] + Cardinality(Sending(e))
                            + (IF emails.row[e].status = "sent" THEN 1 ELSE 0)

ClosedEmail(e) == emails.row[e].status # "pending"

-----------------------------------------------------------------------------
(* Preferences and reminders.                                              *)

optVars == <<prefs, reminders, wish>>

Reminders == 0 .. MaxReminders - 1

Default == [enrollment |-> TRUE, unsubscribedAll |-> FALSE]

OptOutsInit ==
  /\ prefs = None /\ reminders = [r \in Reminders |-> None]
  /\ wish = [enrollment |-> TRUE, unsubscribedAll |-> FALSE, isActive |-> TRUE,
             unwanted |-> FALSE]

Willing(p) == p.enrollment /\ ~p.unsubscribedAll
MailIsUnwanted == ~wish.enrollment \/ wish.unsubscribedAll

\* getOrCreatePrefs: userId is unique, so of two inserts the second fails.
getOrCreatePrefs(c) ==
  /\ At(c, "idle") /\ prefs = None
  /\ prefs' = Default
  /\ UNCHANGED <<reminders, wish, reqVars>>

\* onEnrollment and the like; arg: the user had already said no.
onEnrollment(c) ==
  /\ prefs # None /\ Willing(prefs)
  /\ Reads(c, "enqueue", None, prefs, MailIsUnwanted)
  /\ UNCHANGED optVars

onEnrollment_enqueue(c) ==
  /\ At(c, "enqueue")
  /\ wish' = [wish EXCEPT !.unwanted = @ \/ call[c].arg]
  /\ Ends(c)
  /\ UNCHANGED <<prefs, reminders, raced>>

updatePreferences(c, value) ==
  /\ prefs # None
  /\ Reads(c, "save_prefs", None, prefs, [prefs EXCEPT !.enrollment = value])
  /\ UNCHANGED optVars

unsubscribeByToken(c) ==
  /\ prefs # None
  /\ Reads(c, "save_prefs", None, prefs, [prefs EXCEPT !.unsubscribedAll = TRUE])
  /\ UNCHANGED optVars

\* prefRepo.save of either: every column of the copy.
SavePrefs(c) ==
  LET seen == call[c].seen
      new == call[c].arg
  IN  /\ At(c, "save_prefs")
      /\ prefs' = new
      /\ wish' = [wish EXCEPT
           !.enrollment = IF new.enrollment # seen.enrollment THEN new.enrollment ELSE @,
           !.unsubscribedAll = @ \/ (new.unsubscribedAll /\ ~seen.unsubscribedAll)]
      /\ Trusts(c, prefs)
      /\ Ends(c)
      /\ UNCHANGED reminders

createReminder(c, r) ==
  /\ At(c, "idle") /\ reminders[r] = None
  /\ reminders' = [reminders EXCEPT ![r] = [isActive |-> TRUE, due |-> FALSE]]
  /\ wish' = [wish EXCEPT !.isActive = TRUE]
  /\ UNCHANGED <<prefs, reqVars>>

\* disableReminder and enableReminder patch one column of every row of the pair.
SetReminders(c, active) ==
  /\ At(c, "idle")
  /\ reminders' = [r \in Reminders |->
       IF reminders[r] = None THEN None ELSE [reminders[r] EXCEPT !.isActive = active]]
  /\ wish' = [wish EXCEPT !.isActive = active]
  /\ UNCHANGED <<prefs, reqVars>>

disableReminder(c) == SetReminders(c, FALSE)
enableReminder(c) == SetReminders(c, TRUE)

ReminderComesDue(r) ==
  /\ reminders[r] # None /\ ~reminders[r].due
  /\ reminders' = [reminders EXCEPT ![r].due = TRUE]
  /\ UNCHANGED <<prefs, wish, reqVars>>

\* One enrollment of the cron job's loop, with the row findOne came upon; a mail
\* that fails ends the loop.
sendInactiveReminders(c, r) ==
  /\ reminders[r] # None /\ reminders[r].isActive /\ reminders[r].due
  /\ Reads(c, "remind", r, reminders[r], ~wish.isActive)
  /\ UNCHANGED optVars

sendInactiveReminders_mailed(c) ==
  /\ At(c, "remind")
  /\ wish' = [wish EXCEPT !.unwanted = @ \/ call[c].arg]
  /\ Moves(c, "save_reminder")
  /\ UNCHANGED <<prefs, reminders, raced>>

sendInactiveReminders_save(c) ==
  /\ At(c, "save_reminder")
  /\ reminders' = [reminders EXCEPT ![call[c].id] = [call[c].seen EXCEPT !.due = FALSE]]
  /\ Trusts(c, reminders[call[c].id])
  /\ Ends(c)
  /\ UNCHANGED <<prefs, wish>>

OptOutsNext ==
  \/ \E c \in Calls :
       \/ getOrCreatePrefs(c) \/ onEnrollment(c) \/ onEnrollment_enqueue(c)
       \/ unsubscribeByToken(c) \/ SavePrefs(c)
       \/ disableReminder(c) \/ enableReminder(c)
       \/ sendInactiveReminders_mailed(c) \/ sendInactiveReminders_save(c)
       \/ Fails(c) /\ UNCHANGED optVars
       \/ \E value \in BOOLEAN : updatePreferences(c, value)
       \/ \E r \in Reminders : createReminder(c, r) \/ sendInactiveReminders(c, r)
  \/ \E r \in Reminders : ReminderComesDue(r)

OptOutsTypeOK ==
  /\ prefs \in EmailPreference \cup {None}
  /\ reminders \in [Reminders -> Reminder \cup {None}]
  /\ wish \in [enrollment : BOOLEAN, unsubscribedAll : BOOLEAN, isActive : BOOLEAN,
               unwanted : BOOLEAN]

InPlace == {r \in Reminders : reminders[r] # None}
RemindersShowWish ==
  IF wish.isActive THEN InPlace # {} => \E r \in InPlace : reminders[r].isActive
  ELSE \A r \in InPlace : ~reminders[r].isActive

(* Unless a call writes from a stale copy, the rows say what the user last  *)
(* chose, all of them after a choice against reminders and one of them at   *)
(* least after a choice for them, and no mail is begun after the answer to  *)
(* a choice against it.                                                     *)
WishesAreKept ==
  ~raced =>
    /\ ~wish.unwanted
    /\ prefs # None => /\ prefs.enrollment = wish.enrollment
                       /\ prefs.unsubscribedAll = wish.unsubscribedAll
    /\ RemindersShowWish

-----------------------------------------------------------------------------
(* Scheduled notifications.                                                *)

Notices == 0 .. MaxNotices - 1

NoticesInit ==
  notices = [next |-> 0,
             due |-> {},
             status |-> [n \in Notices |-> "pending"],
             shown |-> [n \in Notices |-> 0],        \* in-app rows stored for the user
             unrecorded |-> [n \in Notices |-> 0],   \* of these, those no pass came to save
             recorded |-> {},                        \* saved as sent by some pass
             cancelled |-> {}]                       \* whose cancellation was answered

Scheduled == 0 .. notices.next - 1

schedule ==
  /\ notices.next < MaxNotices
  /\ notices' = [notices EXCEPT !.next = @ + 1]
  /\ UNCHANGED reqVars

NoticeComesDue(n) ==
  /\ n \in Scheduled \ notices.due
  /\ notices' = [notices EXCEPT !.due = @ \cup {n}]
  /\ UNCHANGED reqVars

\* seen holds the rows of the pass, arg the notifications it has still to create.
processScheduled(c) ==
  LET due == {n \in Scheduled \cap notices.due : notices.status[n] = "pending"}
  IN  /\ due # {}
      /\ Reads(c, "create", None, [n \in due |-> notices.status[n]], due)
      /\ UNCHANGED notices

\* create: the in-app row is stored or not (shown), and after that the query
\* for it may fail, which fails create (found).
processScheduled_create(c, n, shown, found) ==
  /\ At(c, "create") /\ n \in call[c].arg
  /\ found => shown
  /\ shown => notices.shown[n] < MaxDelivered
  /\ notices' = [notices EXCEPT !.shown[n] = IF shown THEN @ + 1 ELSE @,
                                !.unrecorded[n] = IF shown /\ ~found THEN @ + 1 ELSE @]
  /\ raced' = (raced \/ notices.status[n] # call[c].seen[n])
  /\ Waits(c, IF found THEN "mark" ELSE "put_back", n, call[c].seen, call[c].arg \ {n})

\* The row is saved in any case, with the status of the copy when create failed.
processScheduled_save(c) ==
  LET n == call[c].id
      sent == At(c, "mark")
  IN  /\ sent \/ At(c, "put_back")
      /\ notices' = [notices EXCEPT
           !.status[n] = IF sent THEN "sent" ELSE call[c].seen[n],
           !.recorded = IF sent THEN @ \cup {n} ELSE @]
      /\ raced' = (raced \/ notices.status[n] # call[c].seen[n])
      /\ IF call[c].arg = {} THEN Ends(c) ELSE Moves(c, "create")

cancelScheduled(c, n) ==
  /\ n \in Scheduled
  /\ Reads(c, "cancel", n, notices.status[n], None)
  /\ UNCHANGED notices

cancelScheduled_save(c) ==
  /\ At(c, "cancel")
  /\ notices' = [notices EXCEPT !.status[call[c].id] = "cancelled",
                                !.cancelled = @ \cup {call[c].id}]
  /\ Trusts(c, notices.status[call[c].id])
  /\ Ends(c)

\* A save that is refused ends the pass; so does the end of the process.
NoticeFails(c) ==
  /\ Fails(c)
  /\ notices' = IF At(c, "mark")
                THEN [notices EXCEPT !.unrecorded[call[c].id] = @ + 1] ELSE notices

NoticesNext ==
  \/ schedule
  \/ \E n \in Notices : NoticeComesDue(n)
  \/ \E c \in Calls :
       \/ processScheduled(c) \/ processScheduled_save(c) \/ cancelScheduled_save(c)
       \/ NoticeFails(c)
       \/ \E n \in Notices : \/ cancelScheduled(c, n)
                             \/ \E shown, found \in BOOLEAN :
                                  processScheduled_create(c, n, shown, found)

NoticesTypeOK ==
  /\ notices.next \in 0 .. MaxNotices
  /\ notices.due \subseteq Notices /\ notices.recorded \subseteq Notices
  /\ notices.cancelled \subseteq Notices
  /\ notices.status \in [Notices -> {"pending", "sent", "cancelled"}]
  /\ notices.shown \in [Notices -> 0 .. MaxDelivered]
  /\ notices.unrecorded \in [Notices -> 0 .. MaxDelivered]

Marking(n) == {c \in Calls : At(c, "mark") /\ call[c].id = n}

(* No notification is shown before it is due, and one marked sent was shown, *)
(* however many passes hold it.                                              *)
NoShowingIsInvented ==
  \A n \in Scheduled :
    /\ notices.shown[n] > 0 => n \in notices.due
    /\ notices.status[n] = "sent" => notices.shown[n] > 0

(* Unless passes or a cancellation race, a notification is shown once: every *)
(* further time is one that a failure kept from being saved; and a           *)
(* cancellation that was answered stands.                                    *)
NoticesAreAccountedFor ==
  ~raced => \A n \in Scheduled :
    /\ notices.shown[n] = notices.unrecorded[n] + Cardinality(Marking(n))
         + (IF n \in notices.recorded THEN 1 ELSE 0)
    /\ n \in notices.cancelled => notices.status[n] = "cancelled"

ClosedNotice(n) == notices.status[n] # "pending"
=============================================================================
