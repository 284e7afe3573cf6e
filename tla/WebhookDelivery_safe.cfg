\* Two sweeps and a replay over one row; and two rows that a sweep must choose from.
SPECIFICATION Spec
CONSTANTS
  e1 = e1
  h1 = h1
  h2 = h2
  s1 = s1
  s2 = s2
  r1 = r1
  Events = {e1}
  Hooks = {h1, h2}
  Sweeps = {s1, s2}
  Replays = {r1}
  Deployments = {{h1, s1, s2, r1}, {h1, h2, s1}}
  MaxAttempts = 2
  Take = 1
  MaxFaults = 1
  None = None
INVARIANTS
  TypeOK
  DeadLettersAreExhausted
  SuccessWasAcknowledged
PROPERTIES
  EveryDeliverySettles
CHECK_DEADLOCK FALSE
