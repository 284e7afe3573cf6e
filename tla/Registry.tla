------------------------------ MODULE Registry ------------------------------
(***************************************************************************)
(* contracts/registry with shared/src/pausable.rs: curators, verification  *)
(* levels, certified skills and the user list, under a pause that anybody  *)
(* may start or end (the account passed as admin only has to sign) and     *)
(* that the first guarded call after its end clears.  written and over keep,*)
(* for the property, the ledger of the last guarded write and that of the  *)
(* end of the last pause.                                                  *)
(***************************************************************************)
EXTENDS Ledger

CONSTANTS
  Skills,          \* certified skills
  Levels,          \* verification levels, Unverified among them
  PauseLedgers     \* the length of a pause, 100 ledgers in the code

ASSUME RegistryAssumption == PauseLedgers \in Nat /\ "Unverified" \in Levels

VARIABLE registry

RegistryInit ==
  registry = [curators |-> {},
              level |-> [u \in Accounts |-> "Unverified"],
              skills |-> EmptyIndex(Skills),                         \* CertifiedSkills
              expiry |-> [u \in Accounts |-> [k \in Skills |-> None]],    \* SkillExpiry
              users |-> [u \in Accounts |-> 0],                      \* UserList
              paused |-> FALSE, since |-> 0, until |-> 0, over |-> 0, written |-> 0]

pause ==
  /\ ~registry.paused
  /\ registry' = [registry EXCEPT !.paused = TRUE, !.since = sequence,
                                  !.until = sequence + PauseLedgers,
                                  !.over = sequence + PauseLedgers]

unpause ==
  /\ registry.paused
  /\ registry' = [registry EXCEPT !.paused = FALSE, !.over = sequence]

add_curator(a) == registry' = [registry EXCEPT !.curators = @ \cup {a}]
remove_curator(a) == registry' = [registry EXCEPT !.curators = @ \ {a}]

\* check_not_paused and assert_admin_or_curator; the call that passes the
\* first after the end of a pause stores that the contract is not paused.
check_not_paused == registry.paused => sequence >= registry.until
MayCurate(a) == a = Admin \/ a \in registry.curators
Resumed(r) == [r EXCEPT !.paused = FALSE, !.written = sequence]

\* set_verification_level for one user, batch_set_verification_levels for more.
set_verification_levels(setter, users, l) ==
  /\ check_not_paused /\ MayCurate(setter)
  /\ registry' = Resumed([registry EXCEPT
       !.level = [u \in Accounts |-> IF u \in users THEN l ELSE @[u]]])

\* A skill already listed only gets the new expiry; 0 is none.
add_certified_skill(setter, u, k, e) ==
  /\ check_not_paused /\ MayCurate(setter)
  /\ registry' = Resumed([registry EXCEPT
       !.skills = IF @[u][k] > 0 THEN @ ELSE Pushed(@, u, k),
       !.expiry[u][k] = e])

\* Rewrites the list without the skill, however often it is in it.
remove_certified_skill(setter, u, k) ==
  /\ check_not_paused /\ MayCurate(setter)
  /\ registry' = Resumed([registry EXCEPT !.skills[u][k] = 0, !.expiry[u][k] = None])

Listed(list, users) ==
  [u \in Accounts |-> IF u \in users /\ list[u] = 0 THEN 1 ELSE list[u]]

batch_register_users(users) ==
  /\ check_not_paused
  /\ registry' = Resumed([registry EXCEPT !.users = Listed(@, users)])

\* The single registration does not look at the pause.
register_user(u) == registry' = [registry EXCEPT !.users = Listed(@, {u})]

RegistryNext ==
  \/ pause \/ unpause
  \/ \E a \in Accounts : add_curator(a) \/ remove_curator(a) \/ register_user(a)
  \/ \E us \in SUBSET Accounts : batch_register_users(us)
  \/ \E a, u \in Accounts, k \in Skills :
       \/ \E e \in Clock : add_certified_skill(a, u, k, e)
       \/ remove_certified_skill(a, u, k)
  \/ \E a \in Accounts, us \in SUBSET Accounts, l \in Levels :
       set_verification_levels(a, us, l)

RegistryTypeOK ==
  registry \in [curators : SUBSET Accounts,
                level : [Accounts -> Levels],
                skills : [Accounts -> [Skills -> Nat]],
                expiry : [Accounts -> [Skills -> Clock \cup {None}]],
                users : [Accounts -> Nat], paused : BOOLEAN,
                since : Clock, until : Nat, over : Nat, written : Clock]

(* A skill is in its user's list once exactly while it has an expiry entry, *)
(* which get_certified_skills reads for every listed skill, and a user is   *)
(* listed at most once.                                                     *)
SkillListsAgree ==
  \A u \in Accounts :
    /\ registry.users[u] <= 1
    /\ \A k \in Skills :
         registry.skills[u][k] = IF registry.expiry[u][k] # None THEN 1 ELSE 0

(* Nothing guarded is written while a pause lasts: from the ledger it began *)
(* in until somebody ends it or its time is up.                             *)
PausesHold ==
  registry.written <= registry.since \/ registry.over <= registry.written

-----------------------------------------------------------------------------
(* contracts/analytics: progress records with two secondary indexes and    *)
(* the milestones they pass.  reached keeps, for the property, the best    *)
(* progress ever recorded.  The lifetime of entries is left out.           *)

CONSTANTS
  Courses,       \* course ids
  Percentages    \* progress percentages reported

ASSUME AnalyticsAssumption ==
  /\ Percentages \subseteq 0 .. 100
  /\ None \notin Courses

VARIABLE progress

Thresholds == {25, 50, 75, 100}

AnalyticsInit ==
  progress = [admin |-> Admin, callers |-> {},
              pct |-> [s \in Accounts |-> [c \in Courses |-> None]],
              index |-> EmptyIndex(Courses),                     \* StudentCourses
              students |-> [c \in Courses |-> {}],               \* CourseStudents
              achieved |-> [s \in Accounts |-> [c \in Courses |-> {}]],
              reached |-> [s \in Accounts |-> [c \in Courses |-> 0]]]

set_admin(a) == progress' = [progress EXCEPT !.admin = a]

\* The contract's authorize_caller and revoke_caller.
allow_caller(a) == progress' = [progress EXCEPT !.callers = @ \cup {a}]
revoke_caller(a) == progress' = [progress EXCEPT !.callers = @ \ {a}]

check_milestones(achieved, p) == achieved \cup {t \in Thresholds : p >= t}

record_progress(caller, s, c, p) ==
  /\ caller \in {s, progress.admin} \cup progress.callers
  /\ progress' = [progress EXCEPT
       !.pct[s][c] = p,
       !.index = IF @[s][c] > 0 THEN @ ELSE Pushed(@, s, c),
       !.students[c] = @ \cup {s},
       !.achieved[s][c] = check_milestones(@, p),
       !.reached[s][c] = IF p > @ THEN p ELSE @]

\* Leaves the reverse index and the milestones as they are.
reset_progress(s, c) ==
  progress' = [progress EXCEPT !.pct[s][c] = None, !.index = Dropped(@, s, c)]

AnalyticsNext ==
  \/ \E a \in Accounts : set_admin(a) \/ allow_caller(a) \/ revoke_caller(a)
  \/ \E s \in Accounts, c \in Courses :
       \/ reset_progress(s, c)
       \/ \E a \in Accounts, p \in Percentages : record_progress(a, s, c, p)

AnalyticsTypeOK ==
  progress \in [admin : Accounts, callers : SUBSET Accounts,
                pct : [Accounts -> [Courses -> Percentages \cup {None}]],
                index : [Accounts -> [Courses -> Nat]],
                students : [Courses -> SUBSET Accounts],
                achieved : [Accounts -> [Courses -> SUBSET Thresholds]],
                reached : [Accounts -> [Courses -> 0 .. 100]]]

(* A course is in a student's index once exactly while there is a record,   *)
(* every student with a record is in the course's index, and the milestones *)
(* are those of the best progress ever recorded, resets and lower reports   *)
(* notwithstanding.                                                         *)
ProgressIndexesAgree ==
  \A s \in Accounts, c \in Courses :
    /\ progress.index[s][c] = IF progress.pct[s][c] # None THEN 1 ELSE 0
    /\ progress.pct[s][c] # None => s \in progress.students[c]
    /\ progress.achieved[s][c] = {t \in Thresholds : progress.reached[s][c] >= t}
=============================================================================
