\* The example programs: see the module for their instances.
SPECIFICATION Spec
CONSTANTS
  As = {a1, a2}
  Bs = {b1, b2}
  Cs = {c1}
  Roots = {r1}
  Wallets = {k1, k2}
  Visitor = visitor
  Odd = odd
  Treasury = treasury
  Contacts = {n1, n2, n3}
  Names = {x1, x2}
  Fees = {0, 1}
  sys = sys
  prog = prog
  other = other
  NoKey = NoKey
  MaxContacts = 2
  Rent = 1
  Funds <- TwoEach
  PayableU64 = 5
  Erc20U64 = 3
  Erc1155U64 = 3
  GosplU64 = 2
  Transactions <- SignedByWallet
  PhonebookTransactions <- SignedByOdd
  GosplTransactions <- SignedByAll
SYMMETRY Symmetry
VIEW State
CHECK_DEADLOCK FALSE
INVARIANTS VaultBooksBalance SuppliesAreBalances ContactsAreUnique GuestsMatchNatives InteractCallsWork
PROPERTIES SpendingIsGranted
