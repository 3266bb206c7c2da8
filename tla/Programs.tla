------------------------------ MODULE Programs ------------------------------
(***************************************************************************)
(* The example programs, one of them live in each behaviour, beside their  *)
(* native models.  The programs share the names of their accounts.         *)
(***************************************************************************)
EXTENDS Integers, FiniteSets

CONSTANTS
  As, Bs, Cs, Roots,                 \* accounts of the programs
  Wallets, Visitor, Odd, Treasury,   \* other accounts; Odd and Treasury are not the System program's
  Contacts, Names, Fees,             \* what a phonebook stores
  MaxContacts,                       \* its limit
  sys, prog, other, NoKey,           \* ids of programs, and 32 zero bytes
  Rent, Funds,                       \* lamports of a new vault and of the wallets
  PayableU64, Erc20U64, Erc1155U64, GosplU64,  \* the modulus of each program's amounts
  Transactions, PhonebookTransactions, GosplTransactions  \* what transactions sign and may write

VARIABLES
  live,                                      \* the program that runs
  ledger, drained, used, reused,             \* Payable
  erc20, approved,                           \* Erc20
  erc1155, granted, signed,                  \* Erc1155
  accounts,                                  \* Phonebook
  mint, token, authorized                    \* Gospl

Owned == Roots \cup As \cup Bs \cup Cs
Everything == Owned \cup Wallets \cup {Visitor, Odd, Treasury}

OwnerOf == [x \in {Visitor, Odd, Treasury, sys} |-> IF x \in {Odd, Treasury} THEN other ELSE NoKey]

Payable == INSTANCE Payable WITH
  Vaults <- Roots, Deposits <- As, U64 <- PayableU64, Privileges <- Transactions,
  SystemProgram <- sys
Erc20 == INSTANCE Erc20 WITH
  Mints <- As, Balances <- Bs, Allowances <- Cs, U64 <- Erc20U64,
  Privileges <- Transactions,
  data <- erc20
Erc1155 == INSTANCE Erc1155 WITH
  Collections <- Roots, TokenTypes <- As, Balances <- Bs, Approvals <- Cs, U64 <- Erc1155U64,
  Privileges <- Transactions, data <- erc1155
Phonebook == INSTANCE Phonebook WITH
  Configs <- Roots, Books <- Cs, Users <- {Visitor, Odd, Treasury}, SystemProgram <- sys,
  Program <- prog, Other <- other, Privileges <- PhonebookTransactions
Gospl == INSTANCE Gospl WITH
  Mints <- As, Tokens <- Bs, Keys <- {Odd}, NewKeys <- {Odd}, U64 <- GosplU64,
  Privileges <- GosplTransactions, signed <- authorized

ASSUME ProgramsAssumption ==
  /\ Payable!PayableAssumption
  /\ Erc20!Erc20Assumption
  /\ Erc1155!Erc1155Assumption
  /\ Phonebook!PhonebookAssumption
  /\ Gospl!GosplAssumption

payableVars == <<ledger, drained, used, reused>>
erc20Vars == <<erc20, approved>>
erc1155Vars == <<erc1155, granted, signed>>
phonebookVars == <<accounts>>
gosplVars == <<mint, token, authorized>>
vars == <<live, payableVars, erc20Vars, erc1155Vars, phonebookVars, gosplVars>>

Init ==
  /\ live \in {"payable", "erc20", "erc1155", "phonebook", "gospl"}
  /\ Payable!Init /\ Erc20!Init /\ Erc1155!Init /\ Phonebook!Init /\ Gospl!Init

Only(name, others) == live = name /\ UNCHANGED <<live, others>>

Next ==
  \/ Payable!Next /\ Only("payable", <<erc20Vars, erc1155Vars, phonebookVars, gosplVars>>)
  \/ Erc20!Next /\ Only("erc20", <<payableVars, erc1155Vars, phonebookVars, gosplVars>>)
  \/ Erc1155!Next /\ Only("erc1155", <<payableVars, erc20Vars, phonebookVars, gosplVars>>)
  \/ Phonebook!Next /\ Only("phonebook", <<payableVars, erc20Vars, erc1155Vars, gosplVars>>)
  \/ Gospl!Next /\ Only("gospl", <<payableVars, erc20Vars, erc1155Vars, phonebookVars>>)

Spec == Init /\ [][Next]_vars

-----------------------------------------------------------------------------
(* What the programs keep.                                                 *)

\* The lamports, the total and the deposits of the payable vault agree; the total
\* of the first vault at an address, the lamports of every one.
VaultBooksBalance == Payable!FirstTotalIsBalances /\ Payable!VaultBacksDeposits

\* What types.go:107-109 says of the total of every vault.
TotalIsBalances == Payable!TotalIsBalances

\* Every token program keeps supplies equal to the balances it stores beside
\* them, with two mints or two token types whose accounts may be confused.
SuppliesAreBalances ==
  /\ Erc20!SupplyIsBalances
  /\ Erc1155!SupplyIsBalances
  /\ Gospl!SupplyIsBalances

\* Nothing is spent on an owner's behalf that the owner did not grant.
SpendingIsGranted == []Erc20!ApprovalBoundsSpending /\ Erc1155!MovesAreAuthorized

\* A phonebook lists every contact once, within its limit.
ContactsAreUnique == Phonebook!ContactsAreUnique

-----------------------------------------------------------------------------
(* The compiled programs beside the native models.                         *)

PayableModel == INSTANCE PayableModel WITH Vaults <- Roots, Deposits <- As, U64 <- PayableU64
Erc20Model == INSTANCE Erc20Model WITH Mints <- As, Balances <- Bs, Allowances <- Cs, U64 <- Erc20U64

DecodedVaults(s) ==
  [s EXCEPT !.vault = [v \in Roots |-> PayableModel!DecodeVaultState(s.vault[v])],
            !.deposit = [d \in As |-> PayableModel!DecodeDepositState(s.deposit[d])]]

DecodedErc20(s) ==
  [mint |-> [m \in As |-> Erc20Model!DecodeMintState(s.mint[m])],
   balance |-> [b \in Bs |-> Erc20Model!DecodeBalanceState(s.balance[b])],
   allowance |-> [a \in Cs |-> Erc20Model!DecodeAllowanceState(s.allowance[a])]]

\* Transactions that ask for everything, that nobody signs, that write nothing.
Compared ==
  {[signers |-> Everything, writable |-> Everything],
   [signers |-> {}, writable |-> Everything], [signers |-> Everything, writable |-> {}]}

Agree(code, after, outcome) ==
  outcome.code = code /\ (code = 0 => outcome.state = after)

\* The depositor and the recipient are wallets: for a vault that pays itself the
\* program stores two balances and the model moves nothing.  The model lacks the
\* System program's account and its CPI.
VaultMatchesModel ==
  LET s == DecodedVaults(ledger) IN
  \A p \in Compared, v \in Roots, d \in As, k, to \in Wallets :
    /\ Agree(Payable!ProcessInitializeVaultChecks(ledger, 1, v, p),
             DecodedVaults(Payable!ProcessInitializeVault(ledger, v, k)),
             PayableModel!InitializeVault(s, v, k, p))
    /\ Agree(Payable!ProcessInitializeDepositChecks(ledger, 2, d, v, p),
             DecodedVaults(Payable!ProcessInitializeDeposit(ledger, d, v, k)),
             PayableModel!InitializeDepositAccount(s, d, v, k, p))
    /\ \A amount \in Payable!Amount :
         /\ Agree(Payable!ProcessDepositChecks(ledger, 4, v, d, k, sys, amount, p),
                  DecodedVaults(Payable!ProcessDeposit(ledger, v, d, k, amount)),
                  PayableModel!Deposit(s, v, d, k, amount, p))
         /\ Agree(Payable!ProcessWithdrawChecks(ledger, 4, v, d, k, to, amount, p),
                  DecodedVaults(Payable!ProcessWithdraw(ledger, v, d, to, amount)),
                  PayableModel!Withdraw(s, v, d, k, to, amount, p))
         /\ Agree(Payable!ProcessEmergencyWithdrawChecks(ledger, 3, v, k, to, amount, p),
                  DecodedVaults(Payable!ProcessEmergencyWithdraw(ledger, v, to, amount)),
                  PayableModel!EmergencyWithdraw(s, v, k, to, amount, p))

Erc20MatchesModel ==
  LET s == DecodedErc20(erc20) IN
  \A p \in Compared, k \in Wallets :
    /\ \A m \in As :
         Agree(Erc20!ProcessInitializeMintChecks(erc20, 1, m, p),
               DecodedErc20(Erc20!ProcessInitializeMint(erc20, m, k)),
               Erc20Model!InitializeMint(s, m, k, p))
    /\ \A b \in Bs, m \in As :
         Agree(Erc20!ProcessInitializeBalanceChecks(erc20, 2, b, m, p),
               DecodedErc20(Erc20!ProcessInitializeBalance(erc20, b, m, k)),
               Erc20Model!InitializeBalance(s, b, m, k, p))
    /\ \A a \in Cs, m \in As, spender \in Wallets :
         Agree(Erc20!ProcessInitializeAllowanceChecks(erc20, 4, a, m, k, p),
               DecodedErc20(Erc20!ProcessInitializeAllowance(erc20, a, m, k, spender)),
               Erc20Model!InitializeAllowance(s, a, m, k, spender, p))
    /\ \A amount \in Erc20!Amount :
         /\ \A m \in As, b \in Bs :
              /\ Agree(Erc20!ProcessMintToChecks(erc20, 3, m, b, k, amount, p),
                       DecodedErc20(Erc20!ProcessMintTo(erc20, m, b, amount)),
                       Erc20Model!MintTo(s, m, b, k, amount, p))
              /\ Agree(Erc20!ProcessBurnChecks(erc20, 3, b, m, k, amount, p),
                       DecodedErc20(Erc20!ProcessBurn(erc20, b, m, amount)),
                       Erc20Model!Burn(s, b, m, k, amount, p))
         /\ \A a \in Cs :
              Agree(Erc20!ProcessApproveChecks(erc20, 2, a, k, p),
                    DecodedErc20(Erc20!ProcessApprove(erc20, a, amount)),
                    Erc20Model!Approve(s, a, k, amount, p))
         /\ \A from, to \in Bs :
              /\ Agree(Erc20!ProcessTransferChecks(erc20, 3, from, to, k, amount, p),
                       DecodedErc20(Erc20!ProcessTransfer(erc20, from, to, amount)),
                       Erc20Model!Transfer(s, from, to, k, amount, p))
              /\ \A a \in Cs :
                   Agree(Erc20!ProcessTransferFromChecks(erc20, 4, from, to, a, k, amount, p),
                         DecodedErc20(Erc20!ProcessTransferFrom(erc20, from, to, a, amount)),
                         Erc20Model!TransferFrom(s, from, to, a, k, amount, p))

\* "cross-checks every result and every account's resulting data and lamports
\* against the native model" (README of examples/payable), which contract_test.go
\* does for single scenarios: here in every reachable state.
GuestsMatchNatives ==
  /\ live = "payable" => VaultMatchesModel
  /\ live = "erc20" => Erc20MatchesModel
=============================================================================
