SPECIFICATION Spec
CONSTANTS
  Usernames = {u, v}
  Passwords = {p, q}
  Costs = {pbkdf2, argon2id}
  Accounts = {i1, i2}
  Keys = {k1, k2}
  Legacy = Legacy
  NoPassword = NoPassword
  NoKey = NoKey
  NoRow = NoRow
  NoRecord = NoRecord
  NoEnvironment = NoEnvironment
SYMMETRY Symmetry
INVARIANTS
  TreeKeyIsKept
  NobodyHoldsAnotherKey
  ListeningOpensTheTree
