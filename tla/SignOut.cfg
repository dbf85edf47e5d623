\* One caller, no fault: two accounts sign in, then one sign-out.
SPECIFICATION Spec
CONSTANTS
  c1 = c1
  c2 = c2
  ann = ann
  bob = bob
  Calls = {c1}
  Accounts = {ann, bob}
  Tiers = {"free", "pro"}
  DefaultTier = "free"
  Faults = {}
PROPERTY
  SignOutSignsOut
CHECK_DEADLOCK FALSE
