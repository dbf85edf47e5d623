\* Two accounts, two tiers, two calls at once, crashes and a failing cipher.
SPECIFICATION Spec
CONSTANTS
  c1 = c1
  c2 = c2
  ann = ann
  bob = bob
  Calls = {c1, c2}
  Accounts = {ann, bob}
  Tiers = {"free", "pro"}
  DefaultTier = "free"
  Faults = {"crash", "cipher"}
INVARIANTS
  SessionHasAccount
  EntitledWasPlanned
PROPERTY
  RefreshRepairs
CHECK_DEADLOCK FALSE
