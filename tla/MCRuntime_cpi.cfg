\* Two changes by the program, two CPIs, and two changes by their callees.
SPECIFICATION Spec
CONSTANTS
  vault = vault
  user = user
  self = self
  other = other
  Accounts = {vault, user, self, other}
  Slots <- MCSlots
  Program = self
  Owners = {self, other}
  PDAs = {vault}
  Inputs <- MCInputs
  Modes = {TRUE, FALSE}
  Calls <- MCCalls
  Targets = {vault, user}
  Increase = 1
  MaxLength = 2
  MaxU64 = 2
  MaxMoves = 2
  MaxCalls = 2
  MaxEffects = 2
CHECK_DEADLOCK FALSE
INVARIANTS TypeOK FailureIsAtomic CopiesAgree ChangesArePrivileged
PROPERTIES FailedCallsLeaveNoTrace CallsSettleAtOnce
