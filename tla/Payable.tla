------------------------------- MODULE Payable -------------------------------
(***************************************************************************)
(* The payable vault: the compiled program                                 *)
(* (examples/payable/testdata/program.go), the native model beside it      *)
(* (examples/payable/program.go) and, external to both, the System program *)
(* and the runtime that execute and commit their transactions.             *)
(*                                                                         *)
(* A state s is a record [open, lamports, vault, deposit]: the accounts    *)
(* that exist as accounts of the program, the lamports of vaults and       *)
(* wallets, and the data of vaults and deposit accounts.  The rent of      *)
(* deposit accounts is not modelled.                                       *)
(***************************************************************************)
EXTENDS Checks, FiniteSets, Functions

CONSTANTS
  Vaults, Deposits, Wallets,
  NoKey,       \* 32 zero bytes
  U64,         \* the modulus of u64 arithmetic
  Rent,        \* what a vault is created with
  Funds,       \* lamports of each wallet at the start
  Privileges,  \* what transactions sign and may write
  SystemProgram

Addresses == Vaults \cup Deposits \cup Wallets
Payers == Vaults \cup Wallets
Amount == 0..(U64 - 1)

\* What the constants must satisfy; assumed where the module is instantiated.
PayableAssumption ==
  /\ U64 \in Nat \ {0} /\ Rent \in Amount \ {0} /\ Funds \in [Wallets -> Amount]
  /\ Vaults \cap Deposits = {} /\ Vaults \cap Wallets = {} /\ Deposits \cap Wallets = {}
  /\ IsFiniteSet(Addresses)
  /\ SumFunctionOnSet(Funds, Wallets) \in Amount  \* all the lamports there are
  /\ NoKey \notin Addresses /\ SystemProgram \notin Addresses

VARIABLES
  ledger,   \* the state the transactions run on
  drained,  \* history: what EmergencyWithdraw took from each address and no new vault brought back
  used,     \* history: the addresses accounts were created at
  reused    \* history: the vaults created at an address that had been drained

vars == <<ledger, drained, used, reused>>

NewVault == [tag |-> 0, total |-> 0, authority |-> NoKey]
NewDeposit == [tag |-> 0, balance |-> 0, vault |-> NoKey, depositor |-> NoKey]

Init ==
  /\ ledger = [open |-> {},
               lamports |-> [x \in Payers |-> IF x \in Wallets THEN Funds[x] ELSE 0],
               vault |-> [v \in Vaults |-> NewVault],
               deposit |-> [d \in Deposits |-> NewDeposit]]
  /\ drained = [v \in Vaults |-> 0]
  /\ used = {}
  /\ reused = {}

-----------------------------------------------------------------------------
(* The compiled program: the checks in order, and what it stores when all  *)
(* of them pass.  n is the number of accounts of the instruction.          *)

Owned(s, x, needsWritable, sized, p) == RequireOwned(x, s.open, needsWritable, sized, p, 6)

ProcessInitializeVaultChecks(s, n, v, p) ==
  RequireAccountCount(n, 1) ??
  Owned(s, v, TRUE, Vaults, p) ??
  RequireSigner(v, p) ??
  Require(s.vault[v] = NewVault, 7)

ProcessInitializeVault(s, v, authority) ==
  [s EXCEPT !.vault[v] = [@ EXCEPT !.tag = 1, !.authority = authority]]

ProcessInitializeDepositChecks(s, n, d, v, p) ==
  RequireAccountCount(n, 2) ??
  Require(d # v, 9) ??
  Owned(s, d, TRUE, Deposits, p) ??
  RequireSigner(d, p) ??
  Owned(s, v, FALSE, Vaults, p) ??
  Require(s.vault[v] # NewVault, 8) ??
  Require(s.vault[v].tag = 1, 6) ??
  Require(s.deposit[d] = NewDeposit, 7)

ProcessInitializeDeposit(s, d, v, depositor) ==
  [s EXCEPT !.deposit[d] = [@ EXCEPT !.tag = 2, !.vault = v, !.depositor = depositor]]

\* The checks Deposit and Withdraw share once the privileges are in order.
RequireBinding(s, v, d, depositor) ==
  Require(s.vault[v].tag = 1, 8) ??
  Require(s.deposit[d].tag = 2, 8) ??
  Require(s.deposit[d].vault = v, 10) ??
  Require(s.deposit[d].depositor = depositor, 11)

\* System program, external: Transfer from an account that carries data fails.
TransferCPI(s, from, to, amount) ==
  [s EXCEPT !.lamports[from] = @ - amount, !.lamports[to] = @ + amount]

TransferCPIFails == 1000

ProcessDepositChecks(s, n, v, d, depositor, systemProgram, amount, p) ==
  RequireAccountCount(n, 4) ??
  Require(amount # 0, 1) ??
  Owned(s, v, TRUE, Vaults, p) ??
  Owned(s, d, TRUE, Deposits, p) ??
  Require(depositor \in p.writable, 4) ??
  RequireSigner(depositor, p) ??
  Require(systemProgram = SystemProgram, 6) ??
  RequireBinding(s, v, d, depositor) ??
  Require(s.lamports[depositor] >= amount, 12) ??
  RequireNoWrap(s.vault[v].total, amount, U64, 14) ??
  RequireNoWrap(s.deposit[d].balance, amount, U64, 14) ??
  Require(depositor \in Wallets, TransferCPIFails)

\* Mutant: the credit is stored before the CPI and only in the deposit account.
ProcessDepositNoTotal(s, v, d, depositor, amount) ==
  [TransferCPI(s, depositor, v, amount) EXCEPT !.deposit[d].balance = @ + amount]

ProcessDeposit(s, v, d, depositor, amount) ==
  [TransferCPI(s, depositor, v, amount)
    EXCEPT !.vault[v].total = s.vault[v].total + amount,
           !.deposit[d].balance = s.deposit[d].balance + amount]

ProcessWithdrawChecks(s, n, v, d, depositor, recipient, amount, p) ==
  RequireAccountCount(n, 4) ??
  Require(amount # 0, 1) ??
  Owned(s, v, TRUE, Vaults, p) ??
  Owned(s, d, TRUE, Deposits, p) ??
  RequireSigner(depositor, p) ??
  Require(recipient \in p.writable, 4) ??
  RequireBinding(s, v, d, depositor) ??
  Require(s.deposit[d].balance >= amount, 13) ??
  Require(s.lamports[v] >= amount, 13) ??
  RequireNoWrap(s.lamports[recipient], amount, U64, 14)

\* Two stores of balances that were both loaded before: into one account the
\* second wins.
StoreLamports(s, v, recipient, amount) ==
  [s EXCEPT !.lamports = [[@ EXCEPT ![v] = s.lamports[v] - amount]
                            EXCEPT ![recipient] = s.lamports[recipient] + amount]]

ProcessWithdraw(s, v, d, recipient, amount) ==
  [StoreLamports(s, v, recipient, amount)
    EXCEPT !.deposit[d].balance = @ - amount,
           !.vault[v].total = (@ + U64 - amount) % U64]

ProcessEmergencyWithdrawChecks(s, n, v, authority, recipient, amount, p) ==
  RequireAccountCount(n, 3) ??
  Require(amount # 0, 1) ??
  Owned(s, v, TRUE, Vaults, p) ??
  Require(recipient \in p.writable, 4) ??
  Require(s.vault[v].tag = 1, 8) ??
  RequireAuthority(authority, s.vault[v].authority, p, 15) ??
  Require(s.lamports[v] >= amount, 13) ??
  RequireNoWrap(s.lamports[recipient], amount, U64, 14)

ProcessEmergencyWithdraw(s, v, recipient, amount) == StoreLamports(s, v, recipient, amount)

-----------------------------------------------------------------------------
(* The runtime, external: a transaction whose instruction fails, or leaves *)
(* a different sum of lamports, changes nothing; an account left without   *)
(* lamports is gone when the transaction ends.                             *)

Lamports(s) == SumFunctionOnSet(s.lamports, Payers)

Commit(code, after) ==
  LET gone == {v \in Vaults \cap after.open : after.lamports[v] = 0}
  IN /\ code = 0
     /\ Lamports(after) = Lamports(ledger)
     /\ ledger' = [after EXCEPT !.open = @ \ gone,
                                !.vault = [v \in Vaults |-> IF v \in gone THEN NewVault ELSE @[v]]]

\* system.CreateAccount: the new address signs and has no lamports.  It may be the
\* address of a vault whose authority took everything.
CreateVault(payer, v) ==
  /\ v \notin ledger.open /\ ledger.lamports[v] = 0
  /\ ledger.lamports[payer] >= Rent
  /\ ledger' = [TransferCPI(ledger, payer, v, Rent) EXCEPT !.open = @ \cup {v}]
  /\ drained' = IF v \in used THEN [drained EXCEPT ![v] = @ - Rent] ELSE drained
  /\ used' = used \cup {v}
  /\ reused' = reused \cup (used \cap {v})

\* No instruction pays out the lamports of a deposit account: its address stays taken.
CreateDeposit(d) ==
  /\ d \notin used
  /\ ledger' = [ledger EXCEPT !.open = @ \cup {d}]
  /\ used' = used \cup {d}
  /\ UNCHANGED <<drained, reused>>

Execute(code, after) == Commit(code, after) /\ UNCHANGED <<drained, used, reused>>

Process(p) ==
  \/ \E v \in Vaults, k \in Wallets :
       Execute(ProcessInitializeVaultChecks(ledger, 1, v, p), ProcessInitializeVault(ledger, v, k))
  \/ \E d, v \in Addresses, k \in Payers :
       Execute(ProcessInitializeDepositChecks(ledger, 2, d, v, p),
               ProcessInitializeDeposit(ledger, d, v, k))
  \/ \E v \in Vaults, d \in Deposits, k \in Payers, program \in Addresses \cup {SystemProgram},
        amount \in Amount :
       Execute(ProcessDepositChecks(ledger, 4, v, d, k, program, amount, p),
               ProcessDeposit(ledger, v, d, k, amount))
  \/ \E v \in Vaults, d \in Deposits, k, to \in Payers, amount \in Amount :
       Execute(ProcessWithdrawChecks(ledger, 4, v, d, k, to, amount, p),
               ProcessWithdraw(ledger, v, d, to, amount))
  \/ \E v \in Vaults, k, to \in Payers, amount \in Amount :
       /\ Commit(ProcessEmergencyWithdrawChecks(ledger, 3, v, k, to, amount, p),
                 ProcessEmergencyWithdraw(ledger, v, to, amount))
       /\ drained' = [drained EXCEPT ![v] = @ + amount]
       /\ UNCHANGED <<used, reused>>

Next ==
  \/ \E payer \in Wallets, v \in Vaults : CreateVault(payer, v)
  \/ \E d \in Deposits : CreateDeposit(d)
  \/ \E p \in Privileges : Process(p)

Spec == Init /\ [][Next]_vars

-----------------------------------------------------------------------------
\* What the deposit account x holds in the vault v.
Holding(x, v) == IF x.tag = 2 /\ x.vault = v THEN x.balance ELSE 0

HeldIn(v) == SumFunctionOnSet([d \in Deposits |-> Holding(ledger.deposit[d], v)], Deposits)

\* "VaultState is the contract-level ledger for one vault: the running total of
\* every DepositState balance currently held" (types.go:107-109).  Not so of a vault
\* created where an earlier one was drained, rent included: its total begins at 0
\* while the deposit accounts bound to the address keep their balances.
TotalIsBalances ==
  \A v \in ledger.open \cap Vaults :
    ledger.vault[v].tag = 1 => ledger.vault[v].total = HeldIn(v)

\* The same of the first vault at an address: Deposit and Withdraw store the vault's
\* total and the account's balance separately, around a CPI (program.go:168-263).
FirstTotalIsBalances ==
  \A v \in (ledger.open \cap Vaults) \ reused : ledger.vault[v].total = HeldIn(v)

\* A vault, the first or a later one at its address, has its rent and every balance
\* bound to the address, less what its authority took, and more if another vault
\* paid it: only EmergencyWithdraw makes a vault owe more than it has.
VaultBacksDeposits ==
  \A v \in ledger.open \cap Vaults : ledger.lamports[v] + drained[v] >= Rent + HeldIn(v)
=============================================================================
