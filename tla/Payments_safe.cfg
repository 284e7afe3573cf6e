SPECIFICATION Spec
CONSTANTS
  c1 = c1
  l1 = l1
  l2 = l2
  t1 = t1
  t2 = t2
  s1 = s1
  u1 = u1
  i1 = i1
  Learners = {l1, l2}
  Courses = {c1}
  Sessions = {s1}
  Transactions = {t1, t2}
  Successful = {t1}
  Subscriptions = {u1}
  Invoices = {i1}
  Anonymous = {}
  MaxCalls = 3
  MaxFaults = 1
  None = None
INVARIANTS
  TypeOK
  PaymentFundsOneEnrollment
  GrantsWerePaid
  OnlyFaultsLoseGrants
  AnsweredInvoicesAreRecorded
  StatusWasReported
CHECK_DEADLOCK FALSE
