SPECIFICATION LoginSpec
CONSTANTS
  Workers = {w1}
  Tab = tab
  Others = {o1}
  MaxAttempts = 2
  Window = 2
  MaxResets = 2
  MaxCalls = 2
INVARIANTS
  AttemptsBounded
  ChatHasToken
PROPERTIES
  RefusalEarned
  LogoutCloses
CHECK_DEADLOCK FALSE
