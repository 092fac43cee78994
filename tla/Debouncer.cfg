SPECIFICATION FairSpec
CONSTANTS
  Callers = {c1, c2}
  Groups = {g1}
  Api = {"users", "templates", "accounts"}
  MaxCalls = 3
INVARIANT Covered
INVARIANT Awake
PROPERTY Served
CHECK_DEADLOCK FALSE
