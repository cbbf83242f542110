\* An enrolled user logs in, verifies and lets the page refresh its session.
CONSTANTS
  r1 = r1
  r2 = r2
  Requests = {r1}
  Ids = {"i1", "i2", "i3"}
  Names = {"a", "b", "c"}
  LoginNames = {"a", "b"}
  NameOf <- MCNameOf
  NBrowsers = 2
  Addrs = {"x"}
  AddrOf <- MCAddrOf
  Ops <- MCPageOps
  FirstUsers <- MCFirstUsers
  FirstMfa = {"i2"}
  FirstLogin <- MCNobody
  FirstChal <- MCNobody
  Faults = {}
  MaxAttempts = 1
  MaxTokens = 5
  MaxCalls = 3
  MaxEvents = 0
SPECIFICATION Spec
INVARIANT SentCookieIsTheLatest
\* every request is made once: the system may stop
CHECK_DEADLOCK FALSE
