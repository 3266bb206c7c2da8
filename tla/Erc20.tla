-------------------------------- MODULE Erc20 --------------------------------
(***************************************************************************)
(* The ERC-20 program as compiled (examples/erc20/testdata/program.go).    *)
(* The program-owned accounts exist from the start, with zero bytes; name, *)
(* symbol and decimals are written once, compared with nothing and left    *)
(* out.  A state s is a record [mint, balance, allowance] of account data. *)
(***************************************************************************)
EXTENDS Checks, FiniteSets, Functions

CONSTANTS
  Mints, Balances, Allowances,  \* program-owned accounts, by their size
  Wallets,                      \* accounts the program does not own
  NoKey,                        \* 32 zero bytes
  U64,                          \* the modulus of u64 arithmetic
  Privileges                    \* what transactions sign and may write

Accounts == Mints \cup Balances \cup Allowances
Addresses == Accounts \cup Wallets
Amount == 0..(U64 - 1)

\* What the constants must satisfy; assumed where the module is instantiated.
Erc20Assumption ==
  /\ U64 \in Nat \ {0} /\ NoKey \notin Addresses /\ Accounts \cap Wallets = {}
  /\ IsFiniteSet(Balances)
  /\ Mints \cap Balances = {} /\ Mints \cap Allowances = {} /\ Balances \cap Allowances = {}

VARIABLES
  data,     \* the data of the accounts
  approved  \* history: what is left of the last amount an owner approved for a
            \* spender of a mint, over all the allowance accounts of the three

vars == <<data, approved>>

NewMint == [tag |-> 0, supply |-> 0, authority |-> NoKey]
NewBalance == [tag |-> 0, amount |-> 0, mint |-> NoKey, owner |-> NoKey]
NewAllowance == [tag |-> 0, amount |-> 0, mint |-> NoKey, owner |-> NoKey, spender |-> NoKey]

Init ==
  /\ data = [mint |-> [m \in Mints |-> NewMint],
             balance |-> [b \in Balances |-> NewBalance],
             allowance |-> [a \in Allowances |-> NewAllowance]]
  /\ approved = [x \in Mints \X Wallets \X Wallets |-> 0]

-----------------------------------------------------------------------------
(* The instructions: the checks in order, and what the instruction stores  *)
(* when all of them pass.  n is the number of accounts.                    *)

Owned(x, needsWritable, sized, p) == RequireOwned(x, Accounts, needsWritable, sized, p, 6)
Tagged(record, tag) == Require(record.tag = tag, 8)

ProcessInitializeMintChecks(s, n, m, p) ==
  RequireAccountCount(n, 1) ??
  Owned(m, TRUE, Mints, p) ??
  RequireSigner(m, p) ??
  Require(s.mint[m] = NewMint, 7)

ProcessInitializeMint(s, m, authority) ==
  [s EXCEPT !.mint[m].tag = 1, !.mint[m].authority = authority]

\* An initialized mint, where the code tells zero bytes from a wrong tag.
LiveMint(s, m) == Require(s.mint[m] # NewMint, 8) ?? Require(s.mint[m].tag = 1, 6)

ProcessInitializeBalanceChecks(s, n, b, m, p) ==
  RequireAccountCount(n, 2) ??
  Require(b # m, 9) ??
  Owned(b, TRUE, Balances, p) ??
  RequireSigner(b, p) ??
  Owned(m, FALSE, Mints, p) ??
  LiveMint(s, m) ??
  Require(s.balance[b] = NewBalance, 7)

ProcessInitializeBalance(s, b, m, owner) ==
  [s EXCEPT !.balance[b] = [tag |-> 2, amount |-> @.amount, mint |-> m, owner |-> owner]]

ProcessMintToChecks(s, n, m, b, authority, amount, p) ==
  RequireAccountCount(n, 3) ??
  Require(m # b, 9) ??
  Owned(m, TRUE, Mints, p) ??
  Owned(b, TRUE, Balances, p) ??
  Tagged(s.mint[m], 1) ??
  Tagged(s.balance[b], 2) ??
  Require(s.balance[b].mint = m, 10) ??
  RequireAuthority(authority, s.mint[m].authority, p, 14) ??
  RequireNoWrap(s.mint[m].supply, amount, U64, 13) ??
  RequireNoWrap(s.balance[b].amount, amount, U64, 13)

ProcessMintTo(s, m, b, amount) ==
  [s EXCEPT !.mint[m].supply = @ + amount, !.balance[b].amount = @ + amount]

\* Mutant: the mint burnt from is not compared with the balance's.
ProcessBurnChecksAnyMint(s, n, b, m, owner, amount, p) ==
  RequireAccountCount(n, 3) ??
  Owned(b, TRUE, Balances, p) ??
  Owned(m, TRUE, Mints, p) ??
  Tagged(s.balance[b], 2) ??
  Tagged(s.mint[m], 1) ??
  RequireAuthority(owner, s.balance[b].owner, p, 14) ??
  Require(s.balance[b].amount >= amount, 11) ??
  Require(s.mint[m].supply >= amount, 11)

ProcessBurnChecks(s, n, b, m, owner, amount, p) ==
  RequireAccountCount(n, 3) ??
  Require(b # m, 9) ??
  Owned(b, TRUE, Balances, p) ??
  Owned(m, TRUE, Mints, p) ??
  Tagged(s.balance[b], 2) ??
  Tagged(s.mint[m], 1) ??
  Require(s.balance[b].mint = m, 10) ??
  RequireAuthority(owner, s.balance[b].owner, p, 14) ??
  Require(s.balance[b].amount >= amount, 11) ??
  Require(s.mint[m].supply >= amount, 11)

ProcessBurn(s, b, m, amount) ==
  [s EXCEPT !.mint[m].supply = @ - amount, !.balance[b].amount = @ - amount]

Move(s, from, to, amount) ==
  [s EXCEPT !.balance[from].amount = @ - amount, !.balance[to].amount = @ + amount]

ProcessTransferChecks(s, n, from, to, owner, amount, p) ==
  RequireAccountCount(n, 3) ??
  Require(from # to, 9) ??
  Owned(from, TRUE, Balances, p) ??
  Owned(to, TRUE, Balances, p) ??
  Tagged(s.balance[from], 2) ??
  Tagged(s.balance[to], 2) ??
  Require(s.balance[from].mint = s.balance[to].mint, 10) ??
  RequireAuthority(owner, s.balance[from].owner, p, 14) ??
  Require(s.balance[from].amount >= amount, 11) ??
  RequireNoWrap(s.balance[to].amount, amount, U64, 13)

ProcessTransfer(s, from, to, amount) == Move(s, from, to, amount)

ProcessInitializeAllowanceChecks(s, n, a, m, owner, p) ==
  RequireAccountCount(n, 4) ??
  Require(a # m, 9) ??
  Owned(a, TRUE, Allowances, p) ??
  RequireSigner(a, p) ??
  Owned(m, FALSE, Mints, p) ??
  LiveMint(s, m) ??
  RequireSigner(owner, p) ??
  Require(s.allowance[a] = NewAllowance, 7)

ProcessInitializeAllowance(s, a, m, owner, spender) ==
  [s EXCEPT !.allowance[a] = [tag |-> 3, amount |-> @.amount, mint |-> m,
                              owner |-> owner, spender |-> spender]]

ProcessApproveChecks(s, n, a, owner, p) ==
  RequireAccountCount(n, 2) ??
  Owned(a, TRUE, Allowances, p) ??
  Tagged(s.allowance[a], 3) ??
  RequireAuthority(owner, s.allowance[a].owner, p, 14)

ProcessApprove(s, a, amount) == [s EXCEPT !.allowance[a].amount = amount]

ProcessTransferFromChecks(s, n, from, to, a, spender, amount, p) ==
  RequireAccountCount(n, 4) ??
  Require(from # to, 9) ??
  Owned(from, TRUE, Balances, p) ??
  Owned(to, TRUE, Balances, p) ??
  Owned(a, TRUE, Allowances, p) ??
  Tagged(s.balance[from], 2) ??
  Tagged(s.balance[to], 2) ??
  Tagged(s.allowance[a], 3) ??
  Require(s.balance[from].mint = s.balance[to].mint, 10) ??
  Require(s.balance[from].mint = s.allowance[a].mint, 10) ??
  Require(s.allowance[a].owner = s.balance[from].owner, 15) ??
  RequireAuthority(spender, s.allowance[a].spender, p, 14) ??
  Require(s.allowance[a].amount >= amount, 12) ??
  Require(s.balance[from].amount >= amount, 11) ??
  RequireNoWrap(s.balance[to].amount, amount, U64, 13)

\* Mutant: the allowance is compared and not spent.
ProcessTransferFromUnspent(s, from, to, a, amount) == Move(s, from, to, amount)

ProcessTransferFrom(s, from, to, a, amount) ==
  [Move(s, from, to, amount) EXCEPT !.allowance[a].amount = @ - amount]

-----------------------------------------------------------------------------
Execute(code, after) == code = 0 /\ data' = after /\ UNCHANGED approved

\* The history keeps one budget per mint, owner and spender, as the mapping
\* allowance[owner][spender] of the README does.
Budget(a) == <<data.allowance[a].mint, data.allowance[a].owner, data.allowance[a].spender>>

Process(p) ==
  \/ \E m \in Mints, k \in Wallets :
       Execute(ProcessInitializeMintChecks(data, 1, m, p), ProcessInitializeMint(data, m, k))
  \/ \E b \in Balances, m \in Mints, k \in Wallets :
       Execute(ProcessInitializeBalanceChecks(data, 2, b, m, p),
               ProcessInitializeBalance(data, b, m, k))
  \/ \E m \in Mints, b \in Balances, k \in Wallets, amount \in Amount :
       Execute(ProcessMintToChecks(data, 3, m, b, k, amount, p), ProcessMintTo(data, m, b, amount))
  \/ \E b \in Balances, m \in Mints, k \in Wallets, amount \in Amount :
       Execute(ProcessBurnChecks(data, 3, b, m, k, amount, p), ProcessBurn(data, b, m, amount))
  \/ \E from, to \in Balances, k \in Wallets, amount \in Amount :
       Execute(ProcessTransferChecks(data, 3, from, to, k, amount, p),
               ProcessTransfer(data, from, to, amount))
  \/ \E a \in Allowances, m \in Mints, owner, spender \in Wallets :
       Execute(ProcessInitializeAllowanceChecks(data, 4, a, m, owner, p),
               ProcessInitializeAllowance(data, a, m, owner, spender))
  \/ \E a \in Allowances, k \in Wallets, amount \in Amount :
       /\ ProcessApproveChecks(data, 2, a, k, p) = 0
       /\ data' = ProcessApprove(data, a, amount)
       /\ approved' = [approved EXCEPT ![Budget(a)] = amount]
  \/ \E from, to \in Balances, a \in Allowances, k \in Wallets, amount \in Amount :
       /\ ProcessTransferFromChecks(data, 4, from, to, a, k, amount, p) = 0
       /\ data' = ProcessTransferFrom(data, from, to, a, amount)
       /\ approved' = [approved EXCEPT ![Budget(a)] = @ - amount]

Next == \E p \in Privileges : Process(p)

Spec == Init /\ [][Next]_vars

-----------------------------------------------------------------------------
\* What the balance account d holds of the mint m.
Holding(d, m) == IF d.tag = 2 /\ d.mint = m THEN d.amount ELSE 0

\* "totalSupply" of a mint is the sum of its balances: MintTo, Burn and the two
\* transfers store the two sides separately, and take the accounts they are
\* given only after comparing their mints (program.go:216-229, 272-285).
SupplyIsBalances ==
  \A m \in Mints :
    data.mint[m].supply =
      SumFunctionOnSet([b \in Balances |-> Holding(data.balance[b], m)], Balances)

\* While there is one allowance account for each mint, owner and spender (the
\* README's "one account per (mint, owner, spender)", which the program leaves
\* to its clients), transfers on an owner's behalf never exceed what the owner
\* last approved, over any sequence of approvals and transfers.
ApprovalBoundsSpending ==
  (\A a, b \in {x \in Allowances : data.allowance[x].tag = 3} : Budget(a) = Budget(b) => a = b)
  => \A x \in DOMAIN approved : approved[x] >= 0
=============================================================================
