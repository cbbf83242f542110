\* An administrator of accounts and an enrolled one with its session, every request
\* but no more than three, two at a time; a failing session store; one crash or
\* passage of time.
CONSTANTS
  r1 = r1
  r2 = r2
  Requests = {r1, r2}
  Ids = {"i1", "i2", "i3"}
  Names = {"a", "b", "c"}
  LoginNames = {"a", "b"}
  NameOf <- MCNameOf
  NBrowsers = 2
  Addrs = {"x"}
  AddrOf <- MCAddrOf
  Ops <- MCOps
  FirstChal <- MCFirstChal
  FirstUsers <- MCFirstUsers
  FirstMfa = {"i2"}
  FirstLogin <- MCFirstLogin
  Faults = {"session"}
  MaxAttempts = 1
  MaxTokens = 5
  MaxCalls = 3
  MaxEvents = 1
SPECIFICATION Spec
SYMMETRY Symmetry
INVARIANT AnAdminRemains
INVARIANT SetupIsOneTime
INVARIANT CredentialsAreUsedOnce
 
 
INVARIANT LocksComeBack
\* every request is made once: the system may stop
CHECK_DEADLOCK FALSE
