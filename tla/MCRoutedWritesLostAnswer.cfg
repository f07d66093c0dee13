CONSTANTS
  c1 = c1  c2 = c2  c3 = c3
  r1 = r1  r2 = r2
  k1 = k1  k2 = k2
  cheap = cheap  dear = dear
  owner = owner  token = token
  NoBody = NoBody
  Calls = {c1, c2, c3}
  Reconcilers = {r1, r2}
  Keys = {k1}
  Bodies = {cheap, dear}
  Principals = {owner}
  Tokens = {token}
  Cost <- MCCost
  InitBalance = 2
  TopUpUnits = 1
  MaxTopUps = 1
SPECIFICATION Spec
INVARIANTS FailedWasNotApplied
