------------------------------- MODULE Courses -------------------------------
(***************************************************************************)
(* CoursesService and CourseSchedulerService: the row of one course and    *)
(* its document in the search index.  One course stands for all; no call   *)
(* touches two, but a pass of the scheduler that fails leaves the courses  *)
(* behind it to the next minute.  CourseVersioningService numbers the      *)
(* versions.  The controller's look-up of the owner precedes every call    *)
(* and decides nothing that changes.                                       *)
(*                                                                         *)
(* ForumsService.createReply: the accepted answer of one post, flagged in  *)
(* the replies and named in the post.                                      *)
(***************************************************************************)
EXTENDS Requests, Sequences

CONSTANTS
  MaxPlans,      \* bound on the dates set
  MaxReleases,   \* bound on the publications for one date
  MaxVersions,   \* bound on the versions
  MaxReplies     \* bound on the answers

ASSUME CoursesAssumption ==
  MaxPlans \in Nat /\ MaxReleases \in Nat /\ MaxVersions \in Nat /\ MaxReplies \in Nat

VARIABLES
  course,    \* the row, or None
  catalog,   \* [indexed, versions], and for the properties: see CoursesInit
  forum

courseVars == <<course, catalog>>

Plans == 1 .. MaxPlans
CourseRow == [status : {"draft", "scheduled", "published"}, scheduledAt : Plans \cup {None}]
ASSUME CourseRowAssumption == None \notin CourseRow

CoursesInit ==
  /\ course = None
  /\ catalog = [indexed |-> FALSE,     \* the search index has a document
                versions |-> <<>>,     \* the version numbers, in the order of insertion
                plans |-> 0,           \* dates set; scheduledAt names one of them
                past |-> {},           \* of these, those that have come
                wanted |-> "none",     \* what was last answered
                released |-> [s \in Plans |-> 0],    \* publications by the scheduler
                announced |-> [s \in Plans |-> 0],   \* of these, told to the students
                unindexed |-> FALSE]   \* a call of the index never took place

create(c) ==
  /\ catalog.wanted = "none"
  /\ LET row == [status |-> "draft", scheduledAt |-> None] IN
     /\ Reads(c, "index", None, None, None)
     /\ course' = row
  /\ catalog' = [catalog EXCEPT !.wanted = "draft"]

\* Columns that are not in the model.
update(c) ==
  /\ course # None
  /\ Reads(c, "save_course", None, course, course)
  /\ UNCHANGED courseVars
update_save(c) ==
  /\ At(c, "save_course")
  /\ course' = call[c].arg
  /\ Trusts(c, course)
  /\ Waits(c, "index", None, None, None)
  /\ UNCHANGED catalog

\* The document is written whether or not the course is still there.
indexCourse(c) ==
  /\ At(c, "index")
  /\ catalog' = [catalog EXCEPT !.indexed = TRUE]
  /\ raced' = (raced \/ course = None)
  /\ Ends(c)
  /\ UNCHANGED course

delete(c) ==
  /\ course # None
  /\ Reads(c, "remove", None, course, None)
  /\ UNCHANGED courseVars

\* The versions go with the course (ON DELETE CASCADE).
delete_remove(c) ==
  /\ At(c, "remove")
  /\ course' = None
  /\ catalog' = [catalog EXCEPT !.wanted = "removed", !.versions = <<>>]
  /\ Trusts(c, course)
  /\ Waits(c, "deindex", None, None, None)

deleteFromIndex(c) ==
  /\ At(c, "deindex")
  /\ catalog' = [catalog EXCEPT !.indexed = FALSE]
  /\ raced' = (raced \/ course # None)
  /\ Ends(c)
  /\ UNCHANGED course

scheduleCourse(c) ==
  /\ course # None
  /\ Reads(c, "save_schedule", None, course, None)
  /\ UNCHANGED courseVars
scheduleCourse_save(c) ==
  /\ At(c, "save_schedule")
  /\ catalog.plans < MaxPlans
  /\ course' = [status |-> "scheduled", scheduledAt |-> catalog.plans + 1]
  /\ catalog' = [catalog EXCEPT !.plans = @ + 1, !.wanted = "scheduled"]
  /\ Trusts(c, course)
  /\ Ends(c)

DateComes(s) ==
  /\ s \in 1 .. catalog.plans /\ s \notin catalog.past
  /\ catalog' = [catalog EXCEPT !.past = @ \cup {s}]
  /\ UNCHANGED <<course, reqVars>>

publishNow(c) ==
  /\ course # None
  /\ Reads(c, "save_publication", None, course, [course EXCEPT !.status = "published"])
  /\ UNCHANGED courseVars
publishNow_save(c) ==
  /\ At(c, "save_publication")
  /\ course' = call[c].arg
  /\ catalog' = [catalog EXCEPT !.wanted = "published"]
  /\ Trusts(c, course)
  /\ Ends(c)

\* A pass of the cron job that finds the course due.
publishScheduledCourses(c) ==
  /\ course # None
  /\ course.status = "scheduled" /\ course.scheduledAt \in catalog.past
  /\ Reads(c, "release", course.scheduledAt, course, [course EXCEPT !.status = "published"])
  /\ UNCHANGED courseVars
publishScheduledCourses_save(c) ==
  /\ At(c, "release")
  /\ catalog.released[call[c].id] < MaxReleases
  /\ course' = call[c].arg
  /\ catalog' = [catalog EXCEPT !.wanted = "published", !.released[call[c].id] = @ + 1]
  /\ Trusts(c, course)
  /\ Moves(c, "announce")
notifyEnrolledStudents(c) ==
  /\ At(c, "announce")
  /\ catalog' = [catalog EXCEPT !.announced[call[c].id] = @ + 1]
  /\ Ends(c)
  /\ UNCHANGED <<course, raced>>

\* createVersion: the rows are counted and one is inserted.
createVersion(c) ==
  /\ course # None
  /\ Len(catalog.versions) < MaxVersions
  /\ Reads(c, "version", None, Len(catalog.versions), None)
  /\ UNCHANGED courseVars
createVersion_insert(c) ==
  /\ At(c, "version")
  /\ course # None      \* a foreign key
  /\ Len(catalog.versions) < MaxVersions
  /\ catalog' = [catalog EXCEPT !.versions = Append(@, call[c].seen + 1)]
  /\ Trusts(c, Len(catalog.versions))
  /\ Ends(c)
  /\ UNCHANGED course

\* A failure of the index is ignored, and the call ends all the same.
CourseFails(c) ==
  /\ Fails(c)
  /\ catalog' = IF At(c, "index") \/ At(c, "deindex")
                THEN [catalog EXCEPT !.unindexed = TRUE] ELSE catalog
  /\ UNCHANGED course

CoursesNext ==
  \/ \E c \in Calls :
       \/ create(c) \/ update(c) \/ update_save(c) \/ delete(c) \/ delete_remove(c)
       \/ indexCourse(c) \/ deleteFromIndex(c) \/ CourseFails(c)
       \/ scheduleCourse(c) \/ scheduleCourse_save(c) \/ publishNow(c) \/ publishNow_save(c)
       \/ publishScheduledCourses(c) \/ publishScheduledCourses_save(c)
       \/ notifyEnrolledStudents(c)
       \/ createVersion(c) \/ createVersion_insert(c)
  \/ \E s \in Plans : DateComes(s)

CoursesTypeOK ==
  /\ course \in CourseRow \cup {None}
  /\ catalog.indexed \in BOOLEAN
  /\ catalog.plans \in 0 .. MaxPlans /\ catalog.past \subseteq Plans
  /\ Len(catalog.versions) <= MaxVersions

Indexing == \E c \in Calls : At(c, "index") \/ At(c, "deindex")

(* The scheduler publishes for a date only once that has come, and tells the *)
(* students only of what it has published, whatever is edited meanwhile.     *)
NoReleaseIsEarly ==
  \A s \in Plans : /\ catalog.released[s] > 0 => s \in catalog.past
                   /\ catalog.announced[s] <= catalog.released[s]

(* Unless calls race: a course is published at most once for each date; a    *)
(* removed one stays removed and has no document in the index once the calls *)
(* have ended and none of the index was lost; the status is the one last     *)
(* answered; the versions are numbered 1, 2, ...                             *)
CoursesFollowTheirPlan ==
  ~raced =>
    /\ \A s \in Plans : catalog.released[s] <= 1
    /\ course = None <=> catalog.wanted \in {"none", "removed"}
    /\ course # None => course.status = catalog.wanted
    /\ \A v \in 1 .. Len(catalog.versions) : catalog.versions[v] = v
    /\ ~Indexing /\ ~catalog.unindexed => (catalog.indexed <=> course # None)

-----------------------------------------------------------------------------
(* The accepted answer.                                                     *)

Replies == 0 .. MaxReplies - 1
ASSUME RepliesAssumption == None \notin Replies

ForumInit ==
  forum = [next |-> 0, flagged |-> {}, answerReplyId |-> None,
           broken |-> FALSE]     \* a call broke off between its steps

\* createReply with isAnswer; other replies touch none of this.
createReply(c) ==
  /\ Reads(c, "unflag", None, None, None)
  /\ UNCHANGED forum

\* seen, from here on: the flags as the call left them.
createReply_unflag(c) ==
  /\ At(c, "unflag")
  /\ forum' = [forum EXCEPT !.flagged = {}]
  /\ Waits(c, "insert_reply", None, forum'.flagged, None)
  /\ UNCHANGED raced

createReply_insert(c) ==
  LET n == forum.next
  IN  /\ At(c, "insert_reply")
      /\ n < MaxReplies
      /\ forum' = [forum EXCEPT !.next = n + 1, !.flagged = @ \cup {n}]
      /\ Trusts(c, forum.flagged)
      /\ Waits(c, "name_answer", n, forum.flagged \cup {n}, None)

createReply_save(c) ==
  /\ At(c, "name_answer")
  /\ forum' = [forum EXCEPT !.answerReplyId = call[c].id]
  /\ Trusts(c, forum.flagged)
  /\ Ends(c)

ReplyFails(c) ==
  /\ Fails(c)
  /\ forum' = IF At(c, "unflag") THEN forum ELSE [forum EXCEPT !.broken = TRUE]

ForumNext ==
  \E c \in Calls : \/ createReply(c) \/ createReply_unflag(c) \/ createReply_insert(c)
                   \/ createReply_save(c) \/ ReplyFails(c)

ForumTypeOK ==
  /\ forum.next \in 0 .. MaxReplies
  /\ forum.flagged \subseteq Replies /\ forum.answerReplyId \in Replies \cup {None}

Answering == \E c \in Calls : At(c, "insert_reply") \/ At(c, "name_answer")

(* Unless calls race or break off, at most one reply is flagged as the       *)
(* answer, and when no call is between its steps it is the one the post      *)
(* names.                                                                    *)
OneAnswer ==
  ~raced =>
    /\ \A m, n \in forum.flagged : m = n
    /\ ~forum.broken /\ ~Answering =>
         forum.flagged = IF forum.answerReplyId = None THEN {} ELSE {forum.answerReplyId}
=============================================================================
