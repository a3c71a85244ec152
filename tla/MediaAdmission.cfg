SPECIFICATION FairSpec
CONSTANTS
  Session = {s1}
  MaxConns = 2
  MaxTokens = 2
  None = None
CHECK_DEADLOCK FALSE
INVARIANTS GrantOnce GoneHasNoGrant
PROPERTY GoneLosesMedia
