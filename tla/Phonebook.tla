------------------------------ MODULE Phonebook ------------------------------
(***************************************************************************)
(* The phonebook program (examples/phonebook/testdata/program.go) and its  *)
(* command line client (examples/phonebook/cmd/phonebook/main.go), which   *)
(* sends one transaction at a time and reads accounts in between.          *)
(*                                                                         *)
(* The program compares and stores the 32 bytes at offset 40 of an account *)
(* record: the program that owns the account, 32 zero bytes for a wallet.  *)
(* A state s is a record [open, config, book].                             *)
(***************************************************************************)
EXTENDS Checks, Sequences

CONSTANTS
  Configs, Books,  \* addresses for accounts of the program, by their size
  Users,           \* other accounts
  SystemProgram,
  Program, NoKey,  \* the program's id, and 32 zero bytes (the System program's)
  Other,           \* the id of another program
  OwnerOf,         \* the owner of each account that is not the program's
  Contacts, Names, \* what is stored in a book
  MaxContacts,     \* PhonebookMaxContacts
  Fees,            \* amounts of lamports
  Privileges       \* what transactions sign and may write

Keys == Configs \cup Books \cup Users \cup {SystemProgram}

\* What the constants must satisfy; assumed where the module is instantiated.
PhonebookAssumption ==
  /\ OwnerOf \in [Users \cup {SystemProgram} -> {NoKey, Program, Other}]
  /\ NoKey # Program /\ NoKey \notin Contacts /\ MaxContacts \in Nat /\ Fees \subseteq Nat

VARIABLE accounts  \* the state transactions run on

vars == <<accounts>>

NewConfig == [tag |-> 0, admin |-> NoKey, treasury |-> NoKey, fee |-> 0]
NewBook == [tag |-> 0, owner |-> NoKey, contacts |-> <<>>]

Init ==
  accounts = [open |-> {}, config |-> [c \in Configs |-> NewConfig],
              book |-> [b \in Books |-> NewBook]]

-----------------------------------------------------------------------------
(* The program.                                                            *)

Missing == "missing"  \* address 0, which AccountAt returns for want of a record
Fault == 1000         \* the runtime aborts the program, or the System program refuses

\* AccountAt walks the physical records and gives up at the first duplicate.
AccountAt(accs, i) ==
  IF i > Len(accs) \/ \E j, k \in 1..i : j < k /\ accs[j] = accs[k] THEN Missing ELSE accs[i]

ProgramOf(x) == IF x \in Configs \cup Books THEN Program ELSE OwnerOf[x]

OwnedBy(s, x, writable, sized, p) == RequireOwned(x, s.open, writable, sized, p, 7)
Count(accs, n, code) == Require(Len(accs) = n, code)
Signs(x, p) == Require(x # Missing /\ x \in p.signers, 5)
EnsureSystem(x, code) == Require(x = SystemProgram, code)

\* Every CPI of this program fails: WriteAccountInfo stores the first eight
\* bytes of the owner's key where the runtime expects the address of the key.
TransferSystemLamports(amount) == Require(amount = 0, Fault)

\* A code of a callee is replaced by the caller's own.
Else(code, own) == IF code # 0 THEN own ELSE 0

ProcessInitConfigChecks(s, accs, p) ==
  LET config == AccountAt(accs, 1)
      admin == AccountAt(accs, 2)
      treasury == AccountAt(accs, 3)
  IN Count(accs, 3, 2) ??
     Else(OwnedBy(s, config, TRUE, Configs, p), 3) ??
     Signs(admin, p) ??
     Require(ProgramOf(admin) # NoKey, 5) ??
     Require(treasury # Missing, Fault) ??
     Require(ProgramOf(treasury) # NoKey, 6) ??
     Require(s.config[config].tag = 0, 8)

ProcessInitConfig(s, accs, fee) ==
  [s EXCEPT !.config[accs[1]] =
     [tag |-> 1, admin |-> ProgramOf(accs[2]), treasury |-> ProgramOf(accs[3]), fee |-> fee]]

\* The instruction with tag 2, which Program handles itself.
InitPhonebookChecks(s, accs, p) ==
  LET book == AccountAt(accs, 1)
  IN Count(accs, 2, 2) ??
     Else(OwnedBy(s, book, TRUE, Books, p), 3) ??
     Signs(AccountAt(accs, 2), p) ??
     Require(s.book[book].tag = 0, 8)

InitPhonebook(s, accs) ==
  [s EXCEPT !.book[accs[1]] = [tag |-> 1, owner |-> ProgramOf(accs[2]), contacts |-> <<>>]]

IndexOf(contacts, target) == {i \in 1..Len(contacts) : contacts[i].address = target}

ProcessAddContactChecks(s, accs, target, p) ==
  LET book == AccountAt(accs, 1)
      owner == AccountAt(accs, 2)
      config == AccountAt(accs, 3)
      treasury == AccountAt(accs, 4)
  IN Count(accs, 5, 2) ??
     Else(OwnedBy(s, book, TRUE, Books, p), 3) ??
     Signs(owner, p) ??
     Else(OwnedBy(s, config, FALSE, Configs, p), 6) ??
     EnsureSystem(AccountAt(accs, 5), 7) ??
     Require(s.config[config].tag = 1, 8) ??
     Require(s.config[config].treasury = ProgramOf(treasury), 9) ??
     Require(s.book[book].tag = 1, 9) ??
     Require(s.book[book].owner = ProgramOf(owner), 10) ??
     Require(target # NoKey, 11) ??
     Require(Len(s.book[book].contacts) <= MaxContacts, 14) ??
     Require(IndexOf(s.book[book].contacts, target) # {} \/
             Len(s.book[book].contacts) < MaxContacts, 13) ??
     TransferSystemLamports(s.config[config].fee)

\* Mutant: the search for the contact stops before the last entry.
ProcessAddContactNotLast(s, accs, target, name) ==
  LET contacts == s.book[accs[1]].contacts
      found == IndexOf(contacts, target) \ {Len(contacts)}
      entry == [address |-> target, name |-> name]
  IN [s EXCEPT !.book[accs[1]].contacts =
        IF found = {} THEN Append(@, entry) ELSE [@ EXCEPT ![CHOOSE i \in found : TRUE] = entry]]

ProcessAddContact(s, accs, target, name) ==
  LET contacts == s.book[accs[1]].contacts
      found == IndexOf(contacts, target)
      entry == [address |-> target, name |-> name]
  IN [s EXCEPT !.book[accs[1]].contacts =
        IF found = {} THEN Append(@, entry)
        ELSE [@ EXCEPT ![CHOOSE i \in found : \A j \in found : i <= j] = entry]]

\* Withdraw changes nothing itself.  For amount 0 it takes eight bytes of the
\* admin's key for its balance: never 0.
ProcessWithdrawChecks(s, accs, amount, p) ==
  LET config == AccountAt(accs, 1)
      admin == AccountAt(accs, 2)
  IN Count(accs, 4, 2) ??
     Else(OwnedBy(s, config, FALSE, Configs, p), 3) ??
     Signs(admin, p) ??
     EnsureSystem(AccountAt(accs, 4), 6) ??
     Require(s.config[config].tag = 1, 7) ??
     Require(s.config[config].admin = ProgramOf(admin), 8) ??
     Require(s.config[config].treasury = ProgramOf(admin), 9) ??
     TransferSystemLamports(amount + 1)

-----------------------------------------------------------------------------
(* The client.  ensureProgramOwnedAccount creates the account unless it    *)
(* exists; a command reads what it needs, refuses, or sends its            *)
(* instruction.                                                            *)

Signed(k, writes) == [signers |-> {k}, writable |-> {k} \cup writes]

EnsureProgramOwnedAccount(x) ==
  /\ x \notin accounts.open
  /\ accounts' = [accounts EXCEPT !.open = @ \cup {x}]

Execute(code, after) == code = 0 /\ accounts' = after

RunInitConfig(config, admin, treasury, fee) ==
  LET accs == <<config, admin, treasury>> IN
  /\ fee > 0
  /\ config \in accounts.open
  /\ Execute(ProcessInitConfigChecks(accounts, accs, Signed(admin, {config})),
             ProcessInitConfig(accounts, accs, fee))

RunInitPhonebook(book, owner) ==
  LET accs == <<book, owner>> IN
  /\ book \in accounts.open
  /\ Execute(InitPhonebookChecks(accounts, accs, Signed(owner, {book})),
             InitPhonebook(accounts, accs))

-----------------------------------------------------------------------------
(* Transactions of any client.                                             *)

Process(p) ==
  \/ \E c \in Configs, admin, treasury \in Keys, fee \in Fees :
       LET accs == <<c, admin, treasury>>
       IN Execute(ProcessInitConfigChecks(accounts, accs, p), ProcessInitConfig(accounts, accs, fee))
  \/ \E b \in Books, owner \in Keys :
       Execute(InitPhonebookChecks(accounts, <<b, owner>>, p), InitPhonebook(accounts, <<b, owner>>))
  \/ \E b \in Books, c \in Configs, owner, treasury \in Keys, target \in Contacts, name \in Names :
       LET accs == <<b, owner, c, treasury, SystemProgram>>
       IN Execute(ProcessAddContactChecks(accounts, accs, target, p),
                  ProcessAddContact(accounts, accs, target, name))

Commands ==
  \/ \E x \in Configs \cup Books : EnsureProgramOwnedAccount(x)
  \/ \E c \in Configs, admin, treasury \in Users, fee \in Fees :
       RunInitConfig(c, admin, treasury, fee)
  \/ \E b \in Books, owner \in Users : RunInitPhonebook(b, owner)

Next == Commands \/ \E p \in Privileges : Process(p)

Spec == Init /\ [][Next]_vars

-----------------------------------------------------------------------------
\* A book lists a contact once and no more contacts than its limit, the update
\* of the last entry and of a full book included (the search of lines 343-350
\* and the count of lines 335 and 352).
ContactsAreUnique ==
  \A b \in Books :
    LET contacts == accounts.book[b].contacts
    IN /\ Len(contacts) <= MaxContacts
       /\ \A i, j \in 1..Len(contacts) : i # j => contacts[i].address # contacts[j].address

=============================================================================
