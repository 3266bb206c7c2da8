----------------------------- MODULE MCPrograms -----------------------------
(***************************************************************************)
(* An instance of Programs for TLC, and the transactions the web server's  *)
(* "Use it" tab makes for the programs.                                    *)
(***************************************************************************)
EXTENDS Programs, Interact, TLC

\* Everything may be written; the accounts of the program sign, and one other key.
Signing(k) == [signers |-> Owned \cup {k}, writable |-> Everything]
SignedByWallet == {Signing(k) : k \in Wallets}
SignedByOdd == {Signing(Odd)}
SignedByAll == {[signers |-> As \cup Bs \cup {Odd}, writable |-> Everything]}

TwoEach == [k \in Wallets |-> 2]

Symmetry ==
  {f @@ g @@ h : f \in Permutations(As), g \in Permutations(Bs),
                 h \in Permutations(Wallets)}

\* Without who signed the last transaction.
State == <<live, ledger, drained, used, reused, erc20, approved, erc1155, granted, accounts,
           mint, token>>

-----------------------------------------------------------------------------
(* The transactions of the "Use it" tab.                                   *)

\* The wallet that pays: the account of a wallet role, or one the call does not name.
Payer(roles, accs) ==
  LET wallets == {i \in 1..Len(roles) : roles[i].from = "wallet"}
  IN IF wallets = {} THEN Odd ELSE accs[CHOOSE i \in wallets : \A j \in wallets : i <= j]

\* What comes of a call: the privileges the program is given, and whether the
\* message is sound.
Outcome(message, call, created, k) ==
  [received |-> Received(message),
   sound |-> Faithful(message, k, call) /\ OnlyTheWalletIsMissing(message, created, k)]

Made(call, created, k) == Outcome(CompileTransactionMessage(k, call), call, created, k)

EveryPrivilege == [signers |-> Everything, writable |-> Everything]

\* Every call the tab can make, made: it does not depend on the state.
Candidates(role) ==
  CASE role.from = "wallet" -> Wallets \cup {Visitor, Odd}
    [] role.from = "system" -> {sys}
    [] role.from = "new" -> Owned
    [] OTHER -> Everything

Assignments(roles) ==
  {accs \in [1..Len(roles) -> Everything \cup {sys}] :
     \A i \in 1..Len(roles) : accs[i] \in Candidates(roles[i])}

Schemas ==
  UNION {Range(PayableSchema), Range(Erc20Schema), Range(Erc1155Schema),
         Range(TokenProgramSchema), Range(PhonebookSchema)}

MadeCalls ==
  [c \in UNION {{roles} \X Assignments(roles) : roles \in Schemas} |->
     LET k == Payer(c[1], c[2])
     IN Made(Call(c[1], c[2], k, prog, sys), Created(c[1], c[2]), k)]

\* The call is sound, and fares in its program as it would with every privilege
\* there is: none the tab leaves out decides its code.
Works(roles, accs, Checks(_)) ==
  LET made == MadeCalls[<<roles, accs>>] IN
  /\ Resolves(roles, accs, Payer(roles, accs), sys)
  /\ made.sound
  /\ Checks(made.received) = Checks(EveryPrivilege)

PayableCallsWork ==
  \A v \in Roots, d \in As, k, to \in Wallets :
    /\ Works(PayableSchema.InitializeVault, <<v>>,
             LAMBDA p : Payable!ProcessInitializeVaultChecks(ledger, 1, v, p))
    /\ Works(PayableSchema.InitializeDepositAccount, <<d, v>>,
             LAMBDA p : Payable!ProcessInitializeDepositChecks(ledger, 2, d, v, p))
    /\ \A amount \in 1..4 :
         /\ Works(PayableSchema.Deposit, <<v, d, k, sys>>,
                  LAMBDA p : Payable!ProcessDepositChecks(ledger, 4, v, d, k, sys, amount, p))
         /\ Works(PayableSchema.Withdraw, <<v, d, k, to>>,
                  LAMBDA p : Payable!ProcessWithdrawChecks(ledger, 4, v, d, k, to, amount, p))
         /\ Works(PayableSchema.EmergencyWithdraw, <<v, k, to>>,
                  LAMBDA p : Payable!ProcessEmergencyWithdrawChecks(ledger, 3, v, k, to, amount, p))

Erc20CallsWork ==
  /\ \A m \in As :
       /\ Works(Erc20Schema.InitializeMint, <<m>>,
                LAMBDA p : Erc20!ProcessInitializeMintChecks(erc20, 1, m, p))
       /\ \A b \in Bs :
            Works(Erc20Schema.InitializeBalance, <<b, m>>,
                  LAMBDA p : Erc20!ProcessInitializeBalanceChecks(erc20, 2, b, m, p))
  /\ \A k \in Wallets, b \in Bs :
       /\ \A m \in As :
            /\ Works(Erc20Schema.MintTo, <<m, b, k>>,
                     LAMBDA p : Erc20!ProcessMintToChecks(erc20, 3, m, b, k, 1, p))
            /\ Works(Erc20Schema.Burn, <<b, m, k>>,
                     LAMBDA p : Erc20!ProcessBurnChecks(erc20, 3, b, m, k, 1, p))
       /\ \A to \in Bs :
            Works(Erc20Schema.Transfer, <<b, to, k>>,
                  LAMBDA p : Erc20!ProcessTransferChecks(erc20, 3, b, to, k, 1, p))
  /\ \A a \in Cs, k \in Wallets :
       /\ \A m \in As, spender \in Wallets :
            Works(Erc20Schema.InitializeAllowance, <<a, m, k, spender>>,
                  LAMBDA p : Erc20!ProcessInitializeAllowanceChecks(erc20, 4, a, m, k, p))
       /\ Works(Erc20Schema.Approve, <<a, k>>,
                LAMBDA p : Erc20!ProcessApproveChecks(erc20, 2, a, k, p))
       /\ \A b, to \in Bs :
            Works(Erc20Schema.TransferFrom, <<b, to, a, k>>,
                  LAMBDA p : Erc20!ProcessTransferFromChecks(erc20, 4, b, to, a, k, 1, p))

Erc1155CallsWork ==
  /\ \A c \in Roots :
       Works(Erc1155Schema.InitializeCollection, <<c>>,
             LAMBDA p : Erc1155!ProcessInitializeCollectionChecks(erc1155, 1, c, p))
  /\ \A t \in As, b \in Bs :
       Works(Erc1155Schema.InitializeBalance, <<b, t>>,
             LAMBDA p : Erc1155!ProcessInitializeBalanceChecks(erc1155, 2, b, t, p))
  /\ \A k \in Wallets, t \in As, c \in Roots :
       /\ Works(Erc1155Schema.CreateTokenType, <<t, c, k>>,
                LAMBDA p : Erc1155!ProcessCreateTokenTypeChecks(erc1155, 3, t, c, k, p))
       /\ \A b \in Bs :
            /\ Works(Erc1155Schema.MintTo, <<c, t, b, k>>,
                     LAMBDA p : Erc1155!ProcessMintToChecks(erc1155, 4, c, t, b, k, 1, p))
            /\ Works(Erc1155Schema.Burn, <<t, b, k>>,
                     LAMBDA p : Erc1155!ProcessBurnChecks(erc1155, 3, t, b, k, 1, p))
  /\ \A a \in Cs, k \in Wallets :
       /\ \A operator \in Wallets :
            Works(Erc1155Schema.InitializeApproval, <<a, k, operator>>,
                  LAMBDA p : Erc1155!ProcessInitializeApprovalChecks(erc1155, 3, a, k, operator, p))
       /\ Works(Erc1155Schema.SetApproval, <<a, k>>,
                LAMBDA p : Erc1155!ProcessSetApprovalChecks(erc1155, 2, a, k, p))
       /\ \A b, to \in Bs :
            /\ Works(Erc1155Schema.Transfer, <<b, to, k>>,
                     LAMBDA p : Erc1155!ProcessTransferChecks(erc1155, 3, b, to, k, 1, p))
            /\ Works(Erc1155Schema.TransferFrom, <<b, to, a, k>>,
                     LAMBDA p : Erc1155!ProcessTransferFromChecks(erc1155, 4, b, to, a, k, 1, p))

GosplCallsWork ==
  \A m \in As, s, t \in Bs : s # t =>
    /\ Works(TokenProgramSchema.InitializeMint, <<m>>, LAMBDA p : Gospl!InitializeMintChecks(m, p))
    /\ Works(TokenProgramSchema.InitializeAccount, <<t, m>>,
             LAMBDA p : Gospl!InitializeAccountChecks(t, m, p))
    /\ Works(TokenProgramSchema.Transfer, <<s, t, Odd>>,
             LAMBDA p : Gospl!TransferChecks(s, t, Odd, 1, p))
    /\ Works(TokenProgramSchema.MintTo, <<m, t, Odd>>,
             LAMBDA p : Gospl!MintToChecks(m, t, Odd, 1, p))
    /\ Works(TokenProgramSchema.Burn, <<s, m, Odd>>,
             LAMBDA p : Gospl!BurnChecks(s, m, Odd, 1, p))
    /\ Works(TokenProgramSchema.Approve, <<s, Odd, t>>, LAMBDA p : Gospl!OwnerChecks(s, Odd, p))
    /\ Works(TokenProgramSchema.Revoke, <<s, Odd>>, LAMBDA p : Gospl!OwnerChecks(s, Odd, p))
    /\ Works(TokenProgramSchema.SetAuthority, <<m, Odd>>,
             LAMBDA p : Gospl!SetMintAuthorityChecks(m, Odd, p))

PhonebookCallsWork ==
  \A b \in Cs, c \in Roots, k \in {Visitor, Odd}, x \in {Visitor, Odd, Treasury} :
    /\ Works(PhonebookSchema.InitConfig, <<c, k, k>>,
             LAMBDA p : Phonebook!ProcessInitConfigChecks(accounts, <<c, k, k>>, p))
    /\ Works(PhonebookSchema.InitPhonebook, <<b, k>>,
             LAMBDA p : Phonebook!InitPhonebookChecks(accounts, <<b, k>>, p))
    /\ \A target \in Contacts :
         Works(PhonebookSchema.AddContact, <<b, k, c, x, sys>>,
               LAMBDA p : Phonebook!ProcessAddContactChecks(accounts, <<b, k, c, x, sys>>, target, p))
    /\ \A amount \in 0..1 :
         Works(PhonebookSchema.Withdraw, <<c, k, x, sys>>,
               LAMBDA p : Phonebook!ProcessWithdrawChecks(accounts, <<c, k, x, sys>>, amount, p))

\* "the resolved metas in the instruction's declared order, every locally-held
\* signer PartialSignTransaction should sign with, any CreateAccount
\* instructions to prepend" (interact_engine.go:148-150): what the wallet gets to
\* sign says what the form asked for, lacks its signature only, and gives each
\* account the privileges the program asks for.  Not that the program accepts.
InteractCallsWork ==
  /\ live = "payable" => PayableCallsWork
  /\ live = "erc20" => Erc20CallsWork
  /\ live = "erc1155" => Erc1155CallsWork
  /\ live = "gospl" => GosplCallsWork
  /\ live = "phonebook" => PhonebookCallsWork
=============================================================================
