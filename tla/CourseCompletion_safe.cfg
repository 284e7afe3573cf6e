SPECIFICATION Spec
CONSTANTS
  c1 = c1
  i1 = i1
  l1 = l1
  c2 = c2
  r1 = r1
  r2 = r2
  Learners = {l1}
  Courses = {c1, c2}
  Records = {r1, r2}
  Issues = {i1}
  KycCourses = {c1}
  Referred = {l1}
  None = None
INVARIANTS
  TypeOK
  CredentialsWereEarned
  AnswersHoldCredential
  AnsweredMintIsRecorded
PROPERTIES
  EveryJobSettles
CHECK_DEADLOCK FALSE
