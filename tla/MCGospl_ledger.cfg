\* Two mints whose accounts may be confused, every privilege and alias; every
\* instruction of the oracle in every reachable state.
SPECIFICATION Spec
CONSTANTS
  m1 = m1
  m2 = m2
  t1 = t1
  t2 = t2
  k1 = k1
  k2 = k2
  NoKey = NoKey
  Mints = {m1, m2}
  Tokens = {t1, t2}
  Keys = {k1}
  NewKeys = {k1}
  U64 = 2
  Privileges <- MCPrivileges
SYMMETRY BothSwaps
VIEW AccountData
CHECK_DEADLOCK FALSE
INVARIANTS WellFormed SupplyIsBalances GuestMatchesOracle
PROPERTIES DisabledForever EveryChangeAuthorized
