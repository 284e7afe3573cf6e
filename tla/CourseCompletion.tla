-------------------------- MODULE CourseCompletion --------------------------
(***************************************************************************)
(* What happens when a learner reports progress: POST /v1/progress runs    *)
(* ProgressService.record, which at 100 % calls                            *)
(* BadgeAwardService.awardOnCompletion, which calls                        *)
(* CredentialsService.issue and may reward the learner's referrer.  An     *)
(* administrator and the event indexer call CredentialsService.issue on    *)
(* their own.                                                              *)
(*                                                                         *)
(* Every call is a job.  The code between two awaits is one action, so     *)
(* jobs interleave at each database or Stellar call; any database call may *)
(* throw, a Stellar call may fail, or take effect and lose its reply, and  *)
(* the process may crash with jobs in flight.                              *)
(***************************************************************************)
EXTENDS FiniteSets, Naturals

CONSTANTS
    Learners,   \* user ids
    Courses,    \* course ids
    Records,    \* calls of ProgressService.record
    Issues,     \* calls of CredentialsService.issue by an admin or the indexer
    KycCourses, \* courses with requiresKyc
    Referred,   \* learners whose referrer exists and has a Stellar key
    None        \* a missing row, credential or ledger entry

ASSUME CompletionAssumption ==
    /\ Learners # {} /\ Courses # {}
    /\ KycCourses \subseteq Courses
    /\ Referred \subseteq Learners
    /\ Records \cap Issues = {}
    /\ None \notin Learners \cup Records \cup Issues

VARIABLES
    progress,     \* the progress table; a row is named by the job that inserted it
    credentials,  \* the credentials table: the job whose hash the row stores
    entry,        \* per course, the issuer account's ManageData entry
    minted,       \* jobs whose credential transaction is on the ledger
    rewards,      \* jobs that called mintReward(learner, 100)
    referrals,    \* jobs that called mintReward(referrer, 50)
    approved,     \* learners isApproved() holds for
    cleared,      \* history: learners that were approved at some time
    job           \* the calls

vars == <<progress, credentials, entry, minted, rewards, referrals,
          approved, cleared, job>>

Jobs == Records \cup Issues

ProgressRow == [learner : Learners, course : Courses,
                done : BOOLEAN]    \* completedAt is set

Steps == {"idle", "loading", "recording", "saving", "checking", "gating",
          "proving", "fallback", "minting", "rewarding", "storing",
          "counting", "referring", "answered", "failed"}

Job == [at : Steps, learner : Learners, course : Courses,
        full : BOOLEAN,            \* the request reports progressPct >= 100
        row : Records \cup {None}, \* the row its entity was loaded from
        done : BOOLEAN]            \* completedAt of its entity

TypeOK ==
    /\ progress \in [Records -> ProgressRow \cup {None}]
    /\ credentials \in [Learners \X Courses -> Jobs \cup {None}]
    /\ entry \in [Courses -> Learners \cup {None}]
    /\ minted \subseteq Jobs
    /\ rewards \subseteq Jobs
    /\ referrals \subseteq Records
    /\ approved \subseteq Learners
    /\ cleared \subseteq Learners
    /\ job \in [Jobs -> Job]

Init ==
    /\ progress = [r \in Records |-> None]
    /\ credentials = [p \in Learners \X Courses |-> None]
    /\ entry = [c \in Courses |-> None]
    /\ minted = {}
    /\ rewards = {}
    /\ referrals = {}
    /\ approved = {}
    /\ cleared = {}
    /\ job = [j \in Jobs |-> [at |-> "idle",
                              learner |-> CHOOSE l \in Learners : TRUE,
                              course |-> CHOOSE c \in Courses : TRUE,
                              full |-> FALSE, row |-> None, done |-> FALSE]]

-----------------------------------------------------------------------------
(* Helpers.                                                                *)

tables == <<progress, credentials>>
chain == <<entry, minted, rewards, referrals>>
kyc == <<approved, cleared>>

At(j, step) == job[j].at = step

GoTo(j, step) == job' = [job EXCEPT ![j].at = step]

Holding(j) == <<job[j].learner, job[j].course>>

\* The rows findByUserAndCourse can return: the index on (userId, courseId) is
\* not unique, and findOne has no order.
RowsOf(j) ==
    {r \in Records : /\ progress[r] # None
                     /\ progress[r].learner = job[j].learner
                     /\ progress[r].course = job[j].course}

CompletedBy(l) ==
    {r \in Records : /\ progress[r] # None
                     /\ progress[r].learner = l
                     /\ progress[r].done}

\* Mutant: an admin's issue() goes through the referral too.
AfterIssue_Counts(j) == "counting"

\* Where a job continues once issue() has returned.
AfterIssue(j) == IF j \in Records THEN "counting" ELSE "answered"

-----------------------------------------------------------------------------
(* ProgressService.record.                                                 *)

\* A request arrives; the learner and course of an idle job mean nothing.
StartRecord(j) ==
    /\ At(j, "idle")
    /\ \E l \in Learners, c \in Courses, full \in BOOLEAN :
         job' = [job EXCEPT ![j] = [at |-> "loading", learner |-> l,
                                    course |-> c, full |-> full,
                                    row |-> None, done |-> FALSE]]
    /\ UNCHANGED <<tables, chain, kyc>>

\* completedAt is set at 100 %, and otherwise keeps the loaded value.
Load(j) ==
    /\ At(j, "loading")
    /\ \/ /\ RowsOf(j) = {}
          /\ job' = [job EXCEPT ![j].at = "recording", ![j].row = None,
                                ![j].done = job[j].full]
       \/ \E r \in RowsOf(j) :
            job' = [job EXCEPT ![j].at = "recording", ![j].row = r,
                               ![j].done = job[j].full \/ progress[r].done]
    /\ UNCHANGED <<tables, chain, kyc>>

\* recordProgress on chain: whatever it answers, the row is saved.
RecordProgress(j) ==
    /\ At(j, "recording")
    /\ GoTo(j, "saving")
    /\ UNCHANGED <<tables, chain, kyc>>

\* save() writes every column of the entity: an insert if it has no id.
SaveProgress(j) ==
    /\ At(j, "saving")
    /\ LET r == IF job[j].row = None THEN j ELSE job[j].row
       IN  progress' = [progress EXCEPT ![r] =
                           [learner |-> job[j].learner,
                            course |-> job[j].course, done |-> job[j].done]]
    /\ job' = [job EXCEPT ![j].at = IF job[j].full THEN "checking" ELSE "answered",
                          ![j].row = None, ![j].done = FALSE] \* not used again
    /\ UNCHANGED <<credentials, chain, kyc>>

-----------------------------------------------------------------------------
(* CredentialsService.issue.                                               *)

StartIssue(j) ==
    /\ At(j, "idle")
    /\ \E l \in Learners, c \in Courses :
         job' = [job EXCEPT ![j].at = "checking", ![j].learner = l,
                            ![j].course = c]
    /\ UNCHANGED <<tables, chain, kyc>>

FindExisting(j) ==
    /\ At(j, "checking")
    /\ GoTo(j, IF credentials[Holding(j)] # None THEN AfterIssue(j) ELSE "gating")
    /\ UNCHANGED <<tables, chain, kyc>>

\* Mutant: requiresKyc is not looked at.
KycGate_Skipped(j) ==
    /\ At(j, "gating")
    /\ GoTo(j, "proving")
    /\ UNCHANGED <<tables, chain, kyc>>

\* Mutant: the gate waits for the approval instead of refusing.
KycGate_Waits(j) ==
    /\ At(j, "gating")
    /\ job[j].course \notin KycCourses \/ job[j].learner \in approved
    /\ GoTo(j, "proving")
    /\ UNCHANGED <<tables, chain, kyc>>

\* The course is read, then the KYC status; a refusal throws.
KycGate(j) ==
    /\ At(j, "gating")
    /\ GoTo(j, IF job[j].course \in KycCourses /\ job[j].learner \notin approved
               THEN "failed" ELSE "proving")
    /\ UNCHANGED <<tables, chain, kyc>>

\* StellarService.issueCredential first records the progress on Soroban.
ProveProgress(j) ==
    /\ At(j, "proving")
    /\ \/ GoTo(j, "minting")
       \/ GoTo(j, "fallback")
    /\ UNCHANGED <<tables, chain, kyc>>

\* The ManageData entry is named after the course alone and holds the recipient.
WriteEntry(j) == entry' = [entry EXCEPT ![job[j].course] = job[j].learner]

\* Without Soroban, a ManageData transaction of its own; failing, it throws.
IssueFallback(j) ==
    /\ At(j, "fallback")
    /\ \/ WriteEntry(j) /\ GoTo(j, "minting")
       \/ WriteEntry(j) /\ GoTo(j, "failed")      \* applied, the reply lost
       \/ UNCHANGED entry /\ GoTo(j, "failed")
    /\ UNCHANGED <<tables, minted, rewards, referrals, kyc>>

MintCredential(j) ==
    /\ At(j, "minting")
    /\ \/ /\ WriteEntry(j)
          /\ minted' = minted \cup {j}
          /\ GoTo(j, "rewarding") \/ GoTo(j, "failed")
       \/ /\ GoTo(j, "failed")
          /\ UNCHANGED <<entry, minted>>
    /\ UNCHANGED <<tables, rewards, referrals, kyc>>

\* mintReward(learner, 100): its failure is swallowed.
MintReward(j) ==
    /\ At(j, "rewarding")
    /\ rewards' = rewards \cup {j}
    /\ GoTo(j, "storing")
    /\ UNCHANGED <<tables, entry, minted, referrals, kyc>>

\* Mutant: the index on (userId, courseId) is not unique.
StoreCredential_Anyway(j) ==
    /\ At(j, "storing")
    /\ credentials' = [credentials EXCEPT ![Holding(j)] = j]
    /\ GoTo(j, AfterIssue(j))
    /\ UNCHANGED <<progress, chain, kyc>>

\* The insert; the index on (userId, courseId) is unique, so a second one throws.
StoreCredential(j) ==
    /\ At(j, "storing")
    /\ \/ /\ credentials[Holding(j)] = None
          /\ credentials' = [credentials EXCEPT ![Holding(j)] = j]
          /\ GoTo(j, AfterIssue(j))
       \/ /\ credentials[Holding(j)] # None
          /\ GoTo(j, "failed")
          /\ UNCHANGED credentials
    /\ UNCHANGED <<progress, chain, kyc>>

-----------------------------------------------------------------------------
(* BadgeAwardService.maybeMintReferralReward: nothing it does may fail the  *)
(* request.                                                                *)

CountCompleted(j) ==
    /\ At(j, "counting")
    /\ GoTo(j, IF /\ Cardinality(CompletedBy(job[j].learner)) = 1
                  /\ job[j].learner \in Referred
               THEN "referring" ELSE "answered")
    /\ UNCHANGED <<tables, chain, kyc>>

MintReferral(j) ==
    /\ At(j, "referring")
    /\ referrals' = referrals \cup {j}
    /\ GoTo(j, "answered")
    /\ UNCHANGED <<tables, entry, minted, rewards, kyc>>

-----------------------------------------------------------------------------
(* Failures and the outside.                                               *)

\* Mutant: awardOnCompletion swallows what issue() throws.
Throw_Swallowed(j) ==
    /\ \/ /\ job[j].at \in {"loading", "saving"}
          /\ GoTo(j, "failed")
       \/ /\ job[j].at \in {"checking", "gating", "storing", "counting"}
          /\ GoTo(j, "answered")
    /\ UNCHANGED <<tables, chain, kyc>>

\* A database call throws; during the referral the error is caught.
Throw(j) ==
    /\ \/ /\ job[j].at \in {"loading", "saving", "checking", "gating", "storing"}
          /\ GoTo(j, "failed")
       \/ /\ At(j, "counting")
          /\ GoTo(j, "answered")
    /\ UNCHANGED <<tables, chain, kyc>>

Settled(j) == job[j].at \in {"answered", "failed"}

\* The process dies: no job in flight is answered.
Crash ==
    /\ \E j \in Jobs : ~At(j, "idle") /\ ~Settled(j)
    /\ job' = [j \in Jobs |->
                 IF At(j, "idle") \/ Settled(j) THEN job[j]
                 ELSE [job[j] EXCEPT !.at = "failed"]]
    /\ UNCHANGED <<tables, chain, kyc>>

\* KycService writes a customer's status when the provider, or the customer,
\* calls: any status at any time.
ChangeKyc(l) ==
    /\ \/ approved' = approved \cup {l}
       \/ approved' = approved \ {l}
    /\ cleared' = cleared \cup approved'
    /\ UNCHANGED <<tables, chain, job>>

RecordStep(j) == Load(j) \/ RecordProgress(j) \/ SaveProgress(j)

ReferralStep(j) == CountCompleted(j) \/ MintReferral(j)

IssueStep(j) ==
    \/ FindExisting(j) \/ KycGate(j) \/ ProveProgress(j) \/ IssueFallback(j)
    \/ MintCredential(j) \/ MintReward(j) \/ StoreCredential(j)

Step(j) ==
    \/ j \in Records /\ RecordStep(j)
    \/ IssueStep(j)
    \/ ReferralStep(j)

Next ==
    \/ \E j \in Records : StartRecord(j)
    \/ \E j \in Issues : StartIssue(j)
    \/ \E j \in Jobs : Step(j) \/ Throw(j)
    \/ \E l \in Learners : ChangeKyc(l)
    \/ Crash

\* Every awaited call of the database or of Stellar returns or throws.
Fairness == \A j \in Jobs : WF_vars(Step(j))

Spec == Init /\ [][Next]_vars /\ Fairness

-----------------------------------------------------------------------------
(* Properties.                                                             *)

\* A stored credential names a transaction that is on the ledger, made for this
\* learner and course, after the learner reported 100 % there (unless an admin
\* or the indexer asked) and, where the course demands it, after the learner
\* passed KYC: no interleaving of jobs, failures and status changes stores or
\* mints one that was not earned (issue's gate, lines 29-38, comes before the
\* mint, line 40, and the save, line 50).
CredentialsWereEarned ==
    /\ \A p \in Learners \X Courses :
         credentials[p] # None =>
           credentials[p] \in minted /\ Holding(credentials[p]) = p
    /\ \A j \in minted :
         /\ j \in Records => job[j].full
         /\ job[j].course \in KycCourses => job[j].learner \in cleared

\* A caller that asked for a credential and was told of no error has one: a
\* record of 100 % or an issue() is answered only when the row is stored.
AnswersHoldCredential ==
    \A j \in Jobs :
      At(j, "answered") /\ (j \in Issues \/ job[j].full)
        => credentials[Holding(j)] # None

\* A transaction minted by a job that was answered is the one the credential
\* row stores: a second mint of overlapping jobs ends in an error its caller
\* sees (the unique index), never in a success that names no transaction of
\* its own.
AnsweredMintIsRecorded ==
    \A j \in minted : At(j, "answered") => credentials[Holding(j)] = j

\* Each call ends, in an answer or an error, whatever the other calls, the
\* ledger and the KYC provider do.
EveryJobSettles == \A j \in Jobs : ~At(j, "idle") ~> Settled(j)

\* BadgeAwardService promises the referrer 50 BST for the learner's first
\* completed course: once per learner.
ReferralMintedOnce ==
    \A i, j \in referrals : job[i].learner = job[j].learner => i = j
=============================================================================
