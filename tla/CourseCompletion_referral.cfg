SPECIFICATION Spec
CONSTANTS
  c1 = c1
  c2 = c2
  i1 = i1
  l1 = l1
  r1 = r1
  r2 = r2
  Learners = {l1}
  Courses = {c1, c2}
  Records = {r1, r2}
  Issues = {i1}
  KycCourses = {c1}
  Referred = {l1}
  None = None
INVARIANTS
  ReferralMintedOnce
CHECK_DEADLOCK FALSE
