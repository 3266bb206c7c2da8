------------------------------ MODULE Interact ------------------------------
(***************************************************************************)
(* The "Use it" tab of the web server (web/interact_schema.go and          *)
(* web/interact_engine.go): what each schema says of the accounts of an    *)
(* instruction, and the transaction the engine makes of it.  A role is     *)
(* [from, signer, writable], from one of "new", "wallet", "system",        *)
(* "derived" and "given".  Fields and state layouts are left out.          *)
(***************************************************************************)
EXTENDS Message

Role(from, signer, writable) == [from |-> from, signer |-> signer, writable |-> writable]

New == Role("new", TRUE, TRUE)
Unsigned == Role("new", FALSE, TRUE)  \* a new account that only its creation signs
Wallet == Role("wallet", TRUE, FALSE)
WalletPays == Role("wallet", TRUE, TRUE)
Store == Role("given", FALSE, TRUE)
Read == Role("given", FALSE, FALSE)
System == Role("system", FALSE, FALSE)

TokenProgramSchema ==
  [InitializeMint |-> <<New>>, InitializeAccount |-> <<New, Read>>,
   Transfer |-> <<Store, Store, Wallet>>, MintTo |-> <<Store, Store, Wallet>>,
   Burn |-> <<Store, Store, Wallet>>, Approve |-> <<Store, Wallet, Read>>,
   Revoke |-> <<Store, Wallet>>, SetAuthority |-> <<Store, Wallet>>]

Erc1155Schema ==
  [InitializeCollection |-> <<New>>, CreateTokenType |-> <<New, Store, Wallet>>,
   InitializeBalance |-> <<New, Read>>, MintTo |-> <<Read, Store, Store, Wallet>>,
   Burn |-> <<Store, Store, Wallet>>, Transfer |-> <<Store, Store, Wallet>>,
   InitializeApproval |-> <<New, Wallet, Read>>, SetApproval |-> <<Store, Wallet>>,
   TransferFrom |-> <<Store, Store, Read, Wallet>>]

\* Mutant: the balance a spender draws on is the only account written.
Erc20SchemaReadsAllowance ==
  [InitializeMint |-> <<New>>, InitializeBalance |-> <<New, Read>>,
   MintTo |-> <<Store, Store, Wallet>>, Burn |-> <<Store, Store, Wallet>>,
   Transfer |-> <<Store, Store, Wallet>>,
   InitializeAllowance |-> <<New, Read, Wallet, Read>>, Approve |-> <<Store, Wallet>>,
   TransferFrom |-> <<Store, Store, Read, Wallet>>]

Erc20Schema ==
  [InitializeMint |-> <<New>>, InitializeBalance |-> <<New, Read>>,
   MintTo |-> <<Store, Store, Wallet>>, Burn |-> <<Store, Store, Wallet>>,
   Transfer |-> <<Store, Store, Wallet>>,
   InitializeAllowance |-> <<New, Read, Wallet, Read>>, Approve |-> <<Store, Wallet>>,
   TransferFrom |-> <<Store, Store, Store, Wallet>>]

PayableSchema ==
  [InitializeVault |-> <<New>>, InitializeDepositAccount |-> <<New, Read>>,
   Deposit |-> <<Store, Store, WalletPays, System>>,
   Withdraw |-> <<Store, Store, Wallet, Store>>,
   EmergencyWithdraw |-> <<Store, Wallet, Store>>]

PhonebookSchema ==
  [InitConfig |-> <<Unsigned, WalletPays, Role("wallet", FALSE, FALSE)>>,
   InitPhonebook |-> <<Unsigned, WalletPays>>,
   AddContact |-> <<Store, WalletPays, Read, Role("derived", FALSE, TRUE), System>>,
   Withdraw |-> <<Read, WalletPays, Store, System>>]

-----------------------------------------------------------------------------
(* resolveAccounts, for the accounts accs the roles resolve to: a wallet   *)
(* role can only be the fee payer, a new account is created and signs.     *)

Resolves(roles, accs, payer, systemProgram) ==
  /\ Len(accs) = Len(roles)
  /\ \A i \in 1..Len(roles) :
       /\ roles[i].from = "wallet" => accs[i] = payer
       /\ roles[i].from = "system" => accs[i] = systemProgram

Metas(roles, accs) ==
  [i \in 1..Len(roles) |->
     [key |-> accs[i], signer |-> roles[i].signer, writable |-> roles[i].writable]]

Created(roles, accs) == {accs[i] : i \in {i \in 1..Len(roles) : roles[i].from = "new"}}

\* One System::CreateAccount for each new account, before the call.
Creates(roles, accs, payer, systemProgram) ==
  LET new == SelectSeq([i \in 1..Len(roles) |-> i], LAMBDA i : roles[i].from = "new")
  IN [n \in 1..Len(new) |->
        [program |-> systemProgram,
         metas |-> <<Writable(payer, TRUE), Writable(accs[new[n]], TRUE)>>]]

Call(roles, accs, payer, program, systemProgram) ==
  Append(Creates(roles, accs, payer, systemProgram),
         [program |-> program, metas |-> Metas(roles, accs)])

\* The transaction as the wallet gets it lacks the signature of the wallet only.
OnlyTheWalletIsMissing(message, created, payer) ==
  \A i \in 1..message.required :
    PartialSign(message, created)[i] <=> message.keys[i] # payer
=============================================================================
