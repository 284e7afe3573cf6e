----------------------- MODULE CourseCompletion_proofs -----------------------
(***************************************************************************)
(* What holds of the awards for any learners, courses and number of        *)
(* overlapping calls.  The invariant says of each call what it has         *)
(* established by the time it reaches an await (JobOK): past the gate the  *)
(* learner was cleared, past the mint its transaction is on the ledger,    *)
(* past the store the row exists and, if the call minted, is its own.      *)
(* A step of call j leaves what the others have established alone, because *)
(* transactions and credential rows are only ever added (lemma Compose);   *)
(* so each action needs an argument about the call that takes it only.     *)
(***************************************************************************)
EXTENDS CourseCompletion, TLAPS

\* Before its mint no job has a transaction on the ledger.
BeforeMint == {"idle", "loading", "recording", "saving", "checking", "gating",
               "proving", "fallback", "minting"}

\* Steps a call of record reaches only with a report of 100 %.
PastRecord == Steps \ {"idle", "loading", "recording", "saving", "answered", "failed"}

\* What KYC demands of j's learner has been the case.
KycPassed(j) == job[j].course \in KycCourses => job[j].learner \in cleared

JobOK(j) ==
    /\ j \in Records /\ job[j].at \in PastRecord => job[j].full
    /\ j \in Issues =>
         job[j].at \notin {"loading", "recording", "saving", "counting", "referring"}
    /\ job[j].at \in {"proving", "fallback", "minting"} => KycPassed(j)
    /\ job[j].at \in {"rewarding", "storing"} => j \in minted
    /\ j \in minted =>
         /\ job[j].at \notin BeforeMint
         /\ j \in Records => job[j].full
         /\ KycPassed(j)
    /\ ( \/ job[j].at \in {"counting", "referring"}
         \/ job[j].at = "answered" /\ (j \in Issues \/ job[j].full) )
       => credentials[Holding(j)] # None
    /\ j \in minted /\ job[j].at \in {"counting", "referring", "answered"}
         => credentials[Holding(j)] = j

CredentialsMinted ==
    \A p \in Learners \X Courses :
      credentials[p] # None =>
        credentials[p] \in minted /\ Holding(credentials[p]) = p

IInv ==
    /\ TypeOK
    /\ approved \subseteq cleared
    /\ CredentialsMinted
    /\ \A j \in Jobs : JobOK(j)

-----------------------------------------------------------------------------
(* Steps of one job.                                                       *)

\* Job j alone moves, to one of the steps S, and keeps what it was asked for.
Moves(j, S) ==
    /\ job' \in [Jobs -> Job]
    /\ \A i \in Jobs \ {j} : job'[i] = job[i]
    /\ job'[j].learner = job[j].learner
    /\ job'[j].course = job[j].course
    /\ job'[j].full = job[j].full
    /\ job'[j].at \in S

\* Job j, idle so far, is given a learner and a course.
Starts(j, S) ==
    /\ job' \in [Jobs -> Job]
    /\ \A i \in Jobs \ {j} : job'[i] = job[i]
    /\ job[j].at = "idle"
    /\ job'[j].at \in S

\* Transactions are only added, by j; rows are only added, and hold j's own.
Adds(j) ==
    /\ minted \subseteq minted' /\ minted' \subseteq minted \cup {j}
    /\ approved' = approved /\ cleared' = cleared
    /\ \A p \in Learners \X Courses :
         \/ credentials'[p] = credentials[p]
         \/ /\ credentials[p] = None /\ credentials'[p] = j
            /\ j \in minted /\ p = Holding(j)

LEMMA GoToMoves ==
  ASSUME TypeOK, NEW j \in Jobs, NEW s \in Steps, GoTo(j, s)
  PROVE  Moves(j, {s})
<1>1. job \in [Jobs -> Job]
  BY DEF TypeOK
<1>2. [job[j] EXCEPT !.at = s] \in Job
  BY <1>1 DEF Job
<1>3. job' = [job EXCEPT ![j] = [job[j] EXCEPT !.at = s]]
  BY DEF GoTo
<1>4. QED BY <1>1, <1>2, <1>3 DEF Moves, Job

LEMMA HoldingType == ASSUME TypeOK, NEW j \in Jobs
                     PROVE  /\ job[j].learner \in Learners
                            /\ job[j].course \in Courses
                            /\ Holding(j) \in Learners \X Courses
<1>1. job[j] \in Job
  BY DEF TypeOK
<1>2. QED BY <1>1 DEF Job, Holding

\* Nothing another call has established is undone by a step of j.
LEMMA Compose ==
  ASSUME IInv, NEW j \in Jobs, TypeOK', Adds(j), JobOK(j)',
         Moves(j, Steps) \/ Starts(j, Steps)
  PROVE  IInv'
<1>1. \A i \in Jobs : Holding(i) \in Learners \X Courses
  BY HoldingType DEF IInv
<1>2. ASSUME NEW i \in Jobs \ {j} PROVE JobOK(i)'
  <2>1. /\ JobOK(i) /\ job'[i] = job[i] /\ Holding(i)' = Holding(i)
        /\ i \in minted' <=> i \in minted
    BY <1>2 DEF IInv, Moves, Starts, Adds, Holding
  <2>2. KycPassed(i)' <=> KycPassed(i)
    BY <2>1 DEF KycPassed, Adds
  <2>3. credentials[Holding(i)] # None => credentials'[Holding(i)] = credentials[Holding(i)]
    BY <1>1, <1>2 DEF Adds
  <2>4. credentials[Holding(i)] = i => i # None
    BY CompletionAssumption, <1>2 DEF Jobs
  <2>5. QED BY <2>1, <2>2, <2>3, <2>4 DEF JobOK
<1>3. CredentialsMinted'
  <2> SUFFICES ASSUME NEW p \in Learners \X Courses, credentials'[p] # None
               PROVE  /\ credentials'[p] \in minted'
                      /\ <<job'[credentials'[p]].learner,
                           job'[credentials'[p]].course>> = p
    BY DEF CredentialsMinted, Holding
  <2>1. PICK i \in Jobs : i = credentials'[p]
    BY DEF TypeOK
  <2>2. i \in minted /\ Holding(i) = p
    <3>1. CASE credentials'[p] = credentials[p]
      BY <2>1, <3>1 DEF IInv, CredentialsMinted
    <3>2. CASE credentials'[p] = j /\ j \in minted /\ p = Holding(j)
      BY <2>1, <3>2
    <3>3. QED BY <3>1, <3>2 DEF Adds
  <2>3. job[i].at # "idle"
    BY <2>2 DEF IInv, JobOK, BeforeMint
  <2>4. <<job'[i].learner, job'[i].course>> = p
    BY <2>2, <2>3 DEF Moves, Starts, Holding
  <2>5. i \in minted'
    BY <2>2 DEF Adds
  <2>6. QED BY <2>1, <2>4, <2>5
<1>4. (approved \subseteq cleared)'
  BY DEF IInv, Adds
<1>5. \A i \in Jobs : JobOK(i)'
  BY <1>2
<1>6. QED BY <1>3, <1>4, <1>5 DEF IInv

-----------------------------------------------------------------------------
(* The actions.                                                            *)

LEMMA StartRecordInv ==
  ASSUME IInv, NEW j \in Records, StartRecord(j) PROVE IInv'
<1> USE DEF Jobs
<1>1. TypeOK /\ JobOK(j)
  BY DEF IInv
<1>2. Starts(j, {"loading"})
  <2>1. job \in [Jobs -> Job]
    BY <1>1 DEF TypeOK
  <2>2. PICK new \in Job : new.at \in {"loading"} /\ job' = [job EXCEPT ![j] = new]
    <3>1. PICK l \in Learners, c \in Courses, full \in BOOLEAN :
             job' = [job EXCEPT ![j] = [at |-> "loading", learner |-> l,
                                        course |-> c, full |-> full,
                                        row |-> None, done |-> FALSE]]
      BY DEF StartRecord
    <3>2. [at |-> "loading", learner |-> l, course |-> c, full |-> full,
           row |-> None, done |-> FALSE] \in Job
      BY DEF Job, Steps
    <3>3. QED BY <3>1, <3>2
  <2>3. job[j].at = "idle"
    BY DEF StartRecord, At
  <2>4. QED BY <2>1, <2>2, <2>3 DEF Starts
<1>3. TypeOK'
  BY <1>1, <1>2 DEF StartRecord, tables, chain, kyc, Starts, TypeOK
<1>4. Adds(j)
  BY DEF StartRecord, tables, chain, kyc, Adds
<1>5. JobOK(j)'
  BY <1>1, <1>2, HoldingType, CompletionAssumption
     DEF StartRecord, tables, chain, kyc, At, Starts, JobOK, KycPassed, Holding, BeforeMint, PastRecord, Steps
<1>6. QED BY <1>2, <1>3, <1>4, <1>5, Compose DEF Starts, Steps

LEMMA LoadInv ==
  ASSUME IInv, NEW j \in Records, Load(j) PROVE IInv'
<1> USE DEF Jobs
<1>1. TypeOK /\ JobOK(j)
  BY DEF IInv
<1>2. Moves(j, {"recording"})
  <2>1. job \in [Jobs -> Job]
    BY <1>1 DEF TypeOK
  <2>2. PICK r \in Records \cup {None}, d \in BOOLEAN :
           job' = [job EXCEPT ![j].at = "recording", ![j].row = r, ![j].done = d]
    <3>1. CASE RowsOf(j) = {} /\ job' = [job EXCEPT ![j].at = "recording",
                                 ![j].row = None, ![j].done = job[j].full]
      BY <2>1, <3>1 DEF Job
    <3>2. ASSUME NEW r \in RowsOf(j),
                 job' = [job EXCEPT ![j].at = "recording", ![j].row = r,
                                    ![j].done = job[j].full \/ progress[r].done]
          PROVE  \E s \in Records \cup {None}, d \in BOOLEAN :
                   job' = [job EXCEPT ![j].at = "recording", ![j].row = s,
                                      ![j].done = d]
      <4>1. r \in Records /\ progress[r] \in ProgressRow
        BY <1>1 DEF RowsOf, TypeOK
      <4>2. job[j].full \in BOOLEAN /\ progress[r].done \in BOOLEAN
        BY <2>1, <4>1 DEF Job, ProgressRow
      <4>3. (job[j].full \/ progress[r].done) \in BOOLEAN
        BY <4>2
      <4>4. QED BY <3>2, <4>1, <4>3
    <3>3. QED BY <3>1, <3>2 DEF Load
  <2> DEFINE new == [job[j] EXCEPT !.at = "recording", !.row = r, !.done = d]
  <2>3. new \in Job /\ new.at = "recording" /\ new.learner = job[j].learner
        /\ new.course = job[j].course /\ new.full = job[j].full
    BY <2>1, <2>2 DEF Job, Steps
  <2>4. job' = [job EXCEPT ![j] = new]
    BY <2>1, <2>2 DEF Job
  <2> HIDE DEF new
  <2>5. QED BY <2>1, <2>2, <2>3, <2>4, ZenonT(60) DEF Moves
<1>3. TypeOK'
  BY <1>1, <1>2 DEF Load, tables, chain, kyc, Moves, TypeOK
<1>4. Adds(j)
  BY DEF Load, tables, chain, kyc, Adds
<1>5. JobOK(j)'
  BY <1>1, <1>2, HoldingType, CompletionAssumption
     DEF Load, tables, chain, kyc, At, Moves, JobOK, KycPassed, Holding, BeforeMint, PastRecord, Steps
<1>6. QED BY <1>2, <1>3, <1>4, <1>5, Compose DEF Moves, Steps

LEMMA RecordProgressInv ==
  ASSUME IInv, NEW j \in Records, RecordProgress(j) PROVE IInv'
<1> USE DEF Jobs
<1>1. TypeOK /\ JobOK(j)
  BY DEF IInv
<1>2. Moves(j, {"saving"})
  BY <1>1, GoToMoves DEF RecordProgress, AfterIssue, Moves, Steps
<1>3. TypeOK'
  BY <1>1, <1>2 DEF RecordProgress, tables, chain, kyc, Moves, TypeOK
<1>4. Adds(j)
  BY DEF RecordProgress, tables, chain, kyc, Adds
<1>5. JobOK(j)'
  BY <1>1, <1>2, HoldingType, CompletionAssumption
     DEF RecordProgress, tables, chain, kyc, At, Moves, JobOK, KycPassed, Holding, BeforeMint, PastRecord, Steps
<1>6. QED BY <1>2, <1>3, <1>4, <1>5, Compose DEF Moves, Steps

LEMMA SaveProgressInv ==
  ASSUME IInv, NEW j \in Records, SaveProgress(j) PROVE IInv'
<1> USE DEF Jobs
<1>1. TypeOK /\ JobOK(j)
  BY DEF IInv
<1>2. Moves(j, {"checking", "answered"})
  <2>1. job \in [Jobs -> Job]
    BY <1>1 DEF TypeOK
  <2>2. PICK to \in {"checking", "answered"} :
           job' = [job EXCEPT ![j].at = to, ![j].row = None, ![j].done = FALSE]
    BY DEF SaveProgress
  <2> DEFINE new == [job[j] EXCEPT !.at = to, !.row = None, !.done = FALSE]
  <2>3. new \in Job /\ new.at = to /\ new.learner = job[j].learner
        /\ new.course = job[j].course /\ new.full = job[j].full
    BY <2>1, <2>2 DEF Job, Steps
  <2>4. job' = [job EXCEPT ![j] = new]
    BY <2>1, <2>2 DEF Job
  <2> HIDE DEF new
  <2>5. QED BY <2>1, <2>2, <2>3, <2>4, ZenonT(60) DEF Moves
<1>3. TypeOK'
  <2>1. job[j] \in Job
    BY <1>1 DEF TypeOK
  <2>2. [learner |-> job[j].learner, course |-> job[j].course,
         done |-> job[j].done] \in ProgressRow
    BY <2>1 DEF Job, ProgressRow
  <2>3. progress' \in [Records -> ProgressRow \cup {None}]
    BY <1>1, <2>1, <2>2 DEF SaveProgress, TypeOK, Job
  <2>4. QED BY <1>1, <1>2, <2>3 DEF SaveProgress, Moves, TypeOK, chain, kyc
<1>4. Adds(j)
  BY DEF SaveProgress, tables, chain, kyc, Adds
<1>5. JobOK(j)'
  BY <1>1, <1>2, HoldingType, CompletionAssumption
     DEF SaveProgress, tables, chain, kyc, At, Moves, JobOK, KycPassed, Holding, BeforeMint, PastRecord, Steps
<1>6. QED BY <1>2, <1>3, <1>4, <1>5, Compose DEF Moves, Steps

LEMMA StartIssueInv ==
  ASSUME IInv, NEW j \in Issues, StartIssue(j) PROVE IInv'
<1> USE DEF Jobs
<1>1. TypeOK /\ JobOK(j)
  BY DEF IInv
<1>2. Starts(j, {"checking"})
  <2>1. job \in [Jobs -> Job]
    BY <1>1 DEF TypeOK
  <2>2. PICK new \in Job : new.at \in {"checking"} /\ job' = [job EXCEPT ![j] = new]
    <3>1. PICK l \in Learners, c \in Courses :
             job' = [job EXCEPT ![j].at = "checking", ![j].learner = l,
                                ![j].course = c]
      BY DEF StartIssue
    <3>2. [job[j] EXCEPT !.at = "checking", !.learner = l, !.course = c] \in Job
      BY <2>1 DEF Job, Steps
    <3>3. job' = [job EXCEPT ![j] = [job[j] EXCEPT !.at = "checking",
                                       !.learner = l, !.course = c]]
      BY <2>1, <3>1 DEF Job
    <3>4. [job[j] EXCEPT !.at = "checking", !.learner = l, !.course = c].at = "checking"
      BY <2>1 DEF Job
    <3>5. QED BY <3>2, <3>3, <3>4
  <2>3. job[j].at = "idle"
    BY DEF StartIssue, At
  <2>4. QED BY <2>1, <2>2, <2>3 DEF Starts
<1>3. TypeOK'
  BY <1>1, <1>2 DEF StartIssue, tables, chain, kyc, Starts, TypeOK
<1>4. Adds(j)
  BY DEF StartIssue, tables, chain, kyc, Adds
<1>5. JobOK(j)'
  BY <1>1, <1>2, HoldingType, CompletionAssumption
     DEF StartIssue, tables, chain, kyc, At, Starts, JobOK, KycPassed, Holding, BeforeMint, PastRecord, Steps
<1>6. QED BY <1>2, <1>3, <1>4, <1>5, Compose DEF Starts, Steps

LEMMA FindExistingInv ==
  ASSUME IInv, NEW j \in Jobs, FindExisting(j) PROVE IInv'
<1> USE DEF Jobs
<1>1. TypeOK /\ JobOK(j)
  BY DEF IInv
<1>2. Moves(j, {"counting", "answered", "gating"})
  BY <1>1, GoToMoves DEF FindExisting, AfterIssue, Moves, Steps
<1>3. TypeOK'
  BY <1>1, <1>2 DEF FindExisting, AfterIssue, tables, chain, kyc, Moves, TypeOK
<1>4. Adds(j)
  BY DEF FindExisting, AfterIssue, tables, chain, kyc, Adds
<1>5. JobOK(j)'
  <2>1. Holding(j)' = Holding(j) /\ (KycPassed(j)' <=> KycPassed(j))
    BY <1>2, <1>4 DEF Moves, Adds, Holding, KycPassed
  <2>2. /\ job[j].at = "checking" /\ credentials' = credentials /\ minted' = minted
        /\ job'[j].at # "gating" => credentials[Holding(j)] # None
        /\ job'[j].at = "counting" <=> (j \in Records /\ job'[j].at # "gating")
    BY <1>1 DEF FindExisting, AfterIssue, tables, chain, GoTo, At, TypeOK
  <2>3. QED BY <1>1, <1>2, <1>4, <2>1, <2>2, CompletionAssumption
    DEF Moves, Adds, JobOK, BeforeMint, PastRecord, Steps, chain, tables
<1>6. QED BY <1>2, <1>3, <1>4, <1>5, Compose DEF Moves, Steps

LEMMA KycGateInv ==
  ASSUME IInv, NEW j \in Jobs, KycGate(j) PROVE IInv'
<1> USE DEF Jobs
<1>1. TypeOK /\ JobOK(j)
  BY DEF IInv
<1>2. Moves(j, {"failed", "proving"})
  BY <1>1, GoToMoves DEF KycGate, AfterIssue, Moves, Steps
<1>3. TypeOK'
  BY <1>1, <1>2 DEF KycGate, tables, chain, kyc, Moves, TypeOK
<1>4. Adds(j)
  BY DEF KycGate, tables, chain, kyc, Adds
<1>5. JobOK(j)'
  <2>1. Holding(j)' = Holding(j) /\ (KycPassed(j)' <=> KycPassed(j))
    BY <1>2, <1>4 DEF Moves, Adds, Holding, KycPassed
  <2>2. /\ job[j].at = "gating" /\ credentials' = credentials /\ minted' = minted
        /\ job'[j].at = "proving" => KycPassed(j)
    BY <1>1 DEF KycGate, IInv, KycPassed, tables, chain, GoTo, At, TypeOK
  <2>3. QED BY <1>1, <1>2, <1>4, <2>1, <2>2, CompletionAssumption
    DEF Moves, Adds, JobOK, KycPassed, BeforeMint, PastRecord, Steps, chain, tables
<1>6. QED BY <1>2, <1>3, <1>4, <1>5, Compose DEF Moves, Steps

LEMMA ProveProgressInv ==
  ASSUME IInv, NEW j \in Jobs, ProveProgress(j) PROVE IInv'
<1> USE DEF Jobs
<1>1. TypeOK /\ JobOK(j)
  BY DEF IInv
<1>2. Moves(j, {"minting", "fallback"})
  BY <1>1, GoToMoves DEF ProveProgress, AfterIssue, Moves, Steps
<1>3. TypeOK'
  BY <1>1, <1>2 DEF ProveProgress, tables, chain, kyc, Moves, TypeOK
<1>4. Adds(j)
  BY DEF ProveProgress, tables, chain, kyc, Adds
<1>5. JobOK(j)'
  BY <1>1, <1>2, HoldingType, CompletionAssumption
     DEF ProveProgress, tables, chain, kyc, At, Moves, JobOK, KycPassed, Holding, BeforeMint, PastRecord, Steps
<1>6. QED BY <1>2, <1>3, <1>4, <1>5, Compose DEF Moves, Steps

LEMMA IssueFallbackInv ==
  ASSUME IInv, NEW j \in Jobs, IssueFallback(j) PROVE IInv'
<1> USE DEF Jobs
<1>1. TypeOK /\ JobOK(j)
  BY DEF IInv
<1>2. Moves(j, {"minting", "failed"})
  BY <1>1, GoToMoves DEF IssueFallback, AfterIssue, Moves, Steps
<1>3. TypeOK'
  BY <1>1, <1>2, HoldingType DEF IssueFallback, WriteEntry, tables, chain, kyc, Moves, TypeOK
<1>4. Adds(j)
  BY DEF IssueFallback, WriteEntry, tables, chain, kyc, Adds
<1>5. JobOK(j)'
  BY <1>1, <1>2, HoldingType, CompletionAssumption
     DEF IssueFallback, WriteEntry, tables, chain, kyc, At, Moves, JobOK, KycPassed, Holding, BeforeMint, PastRecord, Steps
<1>6. QED BY <1>2, <1>3, <1>4, <1>5, Compose DEF Moves, Steps

LEMMA MintCredentialInv ==
  ASSUME IInv, NEW j \in Jobs, MintCredential(j) PROVE IInv'
<1> USE DEF Jobs
<1>1. TypeOK /\ JobOK(j)
  BY DEF IInv
<1>2. Moves(j, {"rewarding", "failed"})
  BY <1>1, GoToMoves DEF MintCredential, AfterIssue, Moves, Steps
<1>3. TypeOK'
  BY <1>1, <1>2, HoldingType DEF MintCredential, WriteEntry, tables, chain, kyc, Moves, TypeOK
<1>4. Adds(j)
  BY DEF MintCredential, WriteEntry, tables, chain, kyc, Adds
<1>5. JobOK(j)'
  <2>1. Holding(j)' = Holding(j) /\ (KycPassed(j)' <=> KycPassed(j))
    BY <1>2, <1>4 DEF Moves, Adds, Holding, KycPassed
  <2>2. /\ job[j].at = "minting" /\ credentials' = credentials
        /\ job'[j].at = "rewarding" => j \in minted'
    BY <1>1 DEF MintCredential, WriteEntry, tables, GoTo, At, TypeOK, Job
  <2>3. QED BY <1>1, <1>2, <1>4, <2>1, <2>2, CompletionAssumption
    DEF Moves, Adds, JobOK, BeforeMint, PastRecord, Steps, chain, tables
<1>6. QED BY <1>2, <1>3, <1>4, <1>5, Compose DEF Moves, Steps

LEMMA MintRewardInv ==
  ASSUME IInv, NEW j \in Jobs, MintReward(j) PROVE IInv'
<1> USE DEF Jobs
<1>1. TypeOK /\ JobOK(j)
  BY DEF IInv
<1>2. Moves(j, {"storing"})
  BY <1>1, GoToMoves DEF MintReward, AfterIssue, Moves, Steps
<1>3. TypeOK'
  BY <1>1, <1>2 DEF MintReward, tables, chain, kyc, Moves, TypeOK
<1>4. Adds(j)
  BY DEF MintReward, tables, chain, kyc, Adds
<1>5. JobOK(j)'
  BY <1>1, <1>2, HoldingType, CompletionAssumption
     DEF MintReward, tables, chain, kyc, At, Moves, JobOK, KycPassed, Holding, BeforeMint, PastRecord, Steps
<1>6. QED BY <1>2, <1>3, <1>4, <1>5, Compose DEF Moves, Steps

LEMMA StoreCredentialInv ==
  ASSUME IInv, NEW j \in Jobs, StoreCredential(j) PROVE IInv'
<1> USE DEF Jobs
<1>1. TypeOK /\ JobOK(j)
  BY DEF IInv
<1>2. Moves(j, {"counting", "answered", "failed"})
  BY <1>1, GoToMoves DEF StoreCredential, AfterIssue, Moves, Steps
<1>3. TypeOK'
  BY <1>1, <1>2, HoldingType DEF StoreCredential, AfterIssue, tables, chain, kyc, Moves, TypeOK
<1>4. Adds(j)
  BY <1>1, HoldingType DEF StoreCredential, AfterIssue, tables, chain, kyc, Adds, At, TypeOK, JobOK
<1>5. JobOK(j)'
  <2>1. Holding(j)' = Holding(j) /\ (KycPassed(j)' <=> KycPassed(j))
    BY <1>2, <1>4 DEF Moves, Adds, Holding, KycPassed
  <2>2. /\ job[j].at = "storing" /\ minted' = minted
        /\ job'[j].at # "failed" => credentials'[Holding(j)] = j
        /\ job'[j].at = "counting" => j \in Records
    BY <1>1, HoldingType DEF StoreCredential, AfterIssue, chain, GoTo, At, TypeOK, Job
  <2>3. QED BY <1>1, <1>2, <1>4, <2>1, <2>2, CompletionAssumption
    DEF Moves, Adds, JobOK, BeforeMint, PastRecord, Steps, chain, tables
<1>6. QED BY <1>2, <1>3, <1>4, <1>5, Compose DEF Moves, Steps

LEMMA CountCompletedInv ==
  ASSUME IInv, NEW j \in Jobs, CountCompleted(j) PROVE IInv'
<1> USE DEF Jobs
<1>1. TypeOK /\ JobOK(j)
  BY DEF IInv
<1>2. Moves(j, {"referring", "answered"})
  BY <1>1, GoToMoves DEF CountCompleted, AfterIssue, Moves, Steps
<1>3. TypeOK'
  BY <1>1, <1>2 DEF CountCompleted, tables, chain, kyc, Moves, TypeOK
<1>4. Adds(j)
  BY DEF CountCompleted, tables, chain, kyc, Adds
<1>5. JobOK(j)'
  <2>1. Holding(j)' = Holding(j) /\ (KycPassed(j)' <=> KycPassed(j))
    BY <1>2, <1>4 DEF Moves, Adds, Holding, KycPassed
  <2>2. /\ job[j].at = "counting" /\ credentials' = credentials /\ minted' = minted
    BY <1>1 DEF CountCompleted, tables, chain, GoTo, At, TypeOK
  <2>3. QED BY <1>1, <1>2, <1>4, <2>1, <2>2, CompletionAssumption
    DEF Moves, Adds, JobOK, BeforeMint, PastRecord, Steps, chain, tables
<1>6. QED BY <1>2, <1>3, <1>4, <1>5, Compose DEF Moves, Steps

LEMMA MintReferralInv ==
  ASSUME IInv, NEW j \in Jobs, MintReferral(j) PROVE IInv'
<1> USE DEF Jobs
<1>1. TypeOK /\ JobOK(j)
  BY DEF IInv
<1>2. Moves(j, {"answered"})
  BY <1>1, GoToMoves DEF MintReferral, AfterIssue, Moves, Steps
<1>3. TypeOK'
  BY <1>1, <1>2 DEF MintReferral, tables, chain, kyc, At, Moves, TypeOK, JobOK
<1>4. Adds(j)
  BY DEF MintReferral, tables, chain, kyc, Adds
<1>5. JobOK(j)'
  <2>1. Holding(j)' = Holding(j) /\ (KycPassed(j)' <=> KycPassed(j))
    BY <1>2, <1>4 DEF Moves, Adds, Holding, KycPassed
  <2>2. /\ job[j].at = "referring" /\ credentials' = credentials /\ minted' = minted
    BY <1>1 DEF MintReferral, tables, GoTo, At, TypeOK
  <2>3. QED BY <1>1, <1>2, <1>4, <2>1, <2>2, CompletionAssumption
    DEF Moves, Adds, JobOK, BeforeMint, PastRecord, Steps, chain, tables
<1>6. QED BY <1>2, <1>3, <1>4, <1>5, Compose DEF Moves, Steps

LEMMA ThrowInv ==
  ASSUME IInv, NEW j \in Jobs, Throw(j) PROVE IInv'
<1> USE DEF Jobs
<1>1. TypeOK /\ JobOK(j)
  BY DEF IInv
<1>2. Moves(j, {"failed", "answered"})
  BY <1>1, GoToMoves DEF Throw, AfterIssue, Moves, Steps
<1>3. TypeOK'
  BY <1>1, <1>2 DEF Throw, tables, chain, kyc, Moves, TypeOK
<1>4. Adds(j)
  BY DEF Throw, tables, chain, kyc, Adds
<1>5. JobOK(j)'
  <2>1. Holding(j)' = Holding(j) /\ (KycPassed(j)' <=> KycPassed(j))
    BY <1>2, <1>4 DEF Moves, Adds, Holding, KycPassed
  <2>2. /\ credentials' = credentials /\ minted' = minted
        /\ \/ job'[j].at = "failed" /\ job[j].at # "idle"
           \/ job'[j].at = "answered" /\ job[j].at = "counting"
    BY <1>1 DEF Throw, tables, chain, GoTo, At, TypeOK, Job
  <2>3. QED BY <1>1, <1>2, <1>4, <2>1, <2>2, CompletionAssumption
    DEF Moves, Adds, JobOK, BeforeMint, PastRecord, Steps, chain, tables
<1>6. QED BY <1>2, <1>3, <1>4, <1>5, Compose DEF Moves, Steps

-----------------------------------------------------------------------------
(* A crash, the KYC provider, and the theorems.                            *)

LEMMA CrashInv == ASSUME IInv, Crash PROVE IInv'
<1>1. job \in [Jobs -> Job] /\ \A j \in Jobs : JobOK(j)
  BY DEF IInv, TypeOK
<1>2. job' \in [Jobs -> Job] /\ \A j \in Jobs :
        /\ job'[j] = job[j] \/ (job[j].at # "idle" /\ job'[j].at = "failed")
        /\ job'[j].learner = job[j].learner /\ job'[j].course = job[j].course
        /\ job'[j].full = job[j].full
  BY <1>1 DEF Crash, At, Job, Steps
<1>3. TypeOK'
  BY <1>2 DEF IInv, TypeOK, Crash, tables, chain, kyc
<1>4. \A j \in Jobs : Holding(j)' = Holding(j) /\ (KycPassed(j)' <=> KycPassed(j))
  BY <1>2 DEF Holding, KycPassed, Crash, kyc
<1>5. ASSUME NEW j \in Jobs PROVE JobOK(j)'
  <2>1. CASE job'[j] = job[j]
    BY <1>1, <1>4, <2>1 DEF JobOK, Crash, tables, chain
  <2>2. CASE job[j].at # "idle" /\ job'[j].at = "failed"
    BY <1>1, <1>2, <1>4, <2>2 DEF JobOK, BeforeMint, PastRecord, Crash, tables, chain
  <2>3. QED BY <1>2, <2>1, <2>2
<1>6. CredentialsMinted'
  <2>1. \A p \in Learners \X Courses : credentials[p] \in Jobs \cup {None}
    BY DEF IInv, TypeOK
  <2>2. credentials' = credentials /\ minted' = minted
    BY DEF Crash, tables, chain
  <2>3. QED BY <1>2, <2>1, <2>2 DEF IInv, CredentialsMinted, Holding
<1>7. QED BY <1>3, <1>5, <1>6 DEF IInv, Crash, kyc

LEMMA ChangeKycInv == ASSUME IInv, NEW l \in Learners, ChangeKyc(l) PROVE IInv'
<1>1. TypeOK'
  BY DEF IInv, TypeOK, ChangeKyc, tables, chain
<1>2. ASSUME NEW j \in Jobs PROVE JobOK(j)'
  BY <1>2 DEF IInv, JobOK, KycPassed, Holding, ChangeKyc, tables, chain
<1>3. CredentialsMinted'
  BY DEF IInv, CredentialsMinted, Holding, ChangeKyc, tables, chain
<1>4. (approved \subseteq cleared)'
  BY DEF IInv, ChangeKyc
<1>5. QED BY <1>1, <1>2, <1>3, <1>4 DEF IInv

LEMMA StutterInv == ASSUME IInv, UNCHANGED vars PROVE IInv'
BY DEF IInv, TypeOK, CredentialsMinted, JobOK, KycPassed, Holding, vars

LEMMA InitInv == Init => IInv
<1> SUFFICES ASSUME Init PROVE IInv
  OBVIOUS
<1>1. TypeOK
  BY CompletionAssumption DEF Init, TypeOK, Job, Steps, ProgressRow
<1>2. \A j \in Jobs : JobOK(j)
  BY DEF Init, JobOK, PastRecord, Steps
<1>3. QED BY <1>1, <1>2 DEF Init, IInv, CredentialsMinted

LEMMA NextInv == ASSUME IInv, [Next]_vars PROVE IInv'
<1>1. ASSUME NEW j \in Jobs, Step(j) PROVE IInv'
  <2>1. CASE j \in Records /\ RecordStep(j)
    BY <2>1, LoadInv, RecordProgressInv, SaveProgressInv DEF RecordStep
  <2>2. CASE IssueStep(j)
    BY <2>2, FindExistingInv, KycGateInv, ProveProgressInv, IssueFallbackInv,
       MintCredentialInv, MintRewardInv, StoreCredentialInv DEF IssueStep
  <2>3. CASE ReferralStep(j)
    BY <2>3, CountCompletedInv, MintReferralInv DEF ReferralStep
  <2>4. QED BY <1>1, <2>1, <2>2, <2>3 DEF Step
<1>2. QED
  BY <1>1, StartRecordInv, StartIssueInv, ThrowInv, ChangeKycInv, CrashInv,
     StutterInv DEF Next

LEMMA Invariant == Spec => []IInv
<1>1. QED BY InitInv, NextInv, PTL DEF Spec

\* The tables, the ledger and every call stay well typed; in particular only
\* calls of ProgressService.record ever pay a referral.
THEOREM TypeCorrect == Spec => []TypeOK
<1>1. IInv => TypeOK
  BY DEF IInv
<1>2. QED BY <1>1, Invariant, PTL

\* A stored credential is a transaction on the ledger for that learner and
\* course, and no transaction is made for a report below 100 % or, where the
\* course demands KYC, for a learner who never passed it.
THEOREM CredentialsEarned == Spec => []CredentialsWereEarned
<1>1. IInv => CredentialsWereEarned
  BY DEF IInv, TypeOK, CredentialsMinted, JobOK, KycPassed, CredentialsWereEarned
<1>2. QED BY <1>1, Invariant, PTL

\* A call that was answered without an error leaves its learner with a stored
\* credential, however calls overlap, fail or crash.
THEOREM AnswersHold == Spec => []AnswersHoldCredential
<1>1. IInv => AnswersHoldCredential
  BY DEF IInv, JobOK, At, AnswersHoldCredential
<1>2. QED BY <1>1, Invariant, PTL

\* A call that minted and was answered finds its own transaction in the row.
THEOREM AnsweredMints == Spec => []AnsweredMintIsRecorded
<1>1. IInv => AnsweredMintIsRecorded
  BY DEF IInv, TypeOK, JobOK, At, AnsweredMintIsRecorded
<1>2. QED BY <1>1, Invariant, PTL
=============================================================================
