---------------------------- MODULE ProgramProofs ----------------------------
(***************************************************************************)
(* Theorems about the example programs, for any accounts, amounts and      *)
(* transactions: the books each of them keeps.                             *)
(***************************************************************************)
EXTENDS Programs, SumProofs, SequenceTheorems

-----------------------------------------------------------------------------
(* The phonebook.                                                          *)

Ids == {NoKey, prog, other}
Entry == [address: Contacts, name: Names]
Config == [tag: {0, 1}, admin: Ids, treasury: Ids, fee: Nat]
Book == [tag: {0, 1}, owner: Ids, contacts: Seq(Entry)]

\* No contact is listed twice.
Distinct(contacts) ==
  \A i, j \in 1..Len(contacts) : i # j => contacts[i].address # contacts[j].address

PhonebookInv ==
  /\ accounts \in [open: SUBSET (Roots \cup Cs), config: [Roots -> Config], book: [Cs -> Book]]
  /\ \A b \in Cs : /\ Len(accounts.book[b].contacts) <= MaxContacts
                   /\ Distinct(accounts.book[b].contacts)

\* A chain of checks passes when each of them does.
LEMMA PhonebookFirst == \A a, b : Phonebook!??(a, b) = 0 <=> a = 0 /\ b = 0
BY DEF Phonebook!??

\* The owners the program reads are ids of programs.
LEMMA ProgramOfTyped == \A x \in Phonebook!Keys : Phonebook!ProgramOf(x) \in Ids
BY DEF Phonebook!Keys, Phonebook!ProgramOf, OwnerOf, Ids

\* A contact that is added or renamed is listed once.
LEMMA AddedOnce ==
  ASSUME NEW contacts \in Seq(Entry), Distinct(contacts), Len(contacts) <= MaxContacts,
         NEW target \in Contacts, NEW name \in Names,
         Phonebook!IndexOf(contacts, target) # {} \/ Len(contacts) < MaxContacts
  PROVE  LET entry == [address |-> target, name |-> name]
             found == Phonebook!IndexOf(contacts, target)
             after == IF found = {} THEN Append(contacts, entry)
                      ELSE [contacts EXCEPT ![CHOOSE i \in found : \A j \in found : i <= j] = entry]
         IN after \in Seq(Entry) /\ Distinct(after) /\ Len(after) <= MaxContacts
<1>. DEFINE entry == [address |-> target, name |-> name]
            found == Phonebook!IndexOf(contacts, target)
            first == CHOOSE i \in found : \A j \in found : i <= j
            n == Len(contacts)
<1>1. n \in Nat /\ contacts \in [1..n -> Entry] /\ MaxContacts \in Nat /\ entry \in Entry
  BY LenProperties, ProgramsAssumption DEF Phonebook!PhonebookAssumption, Entry
<1>2. \A i : i \in found <=> i \in 1..n /\ contacts[i].address = target
  BY DEF Phonebook!IndexOf
<1>. HIDE DEF found
<1>3. ASSUME found = {}
      PROVE  LET after == Append(contacts, entry)
             IN after \in Seq(Entry) /\ Distinct(after) /\ Len(after) <= MaxContacts
  <2>. DEFINE after == Append(contacts, entry)
  <2>1. /\ after \in Seq(Entry) /\ Len(after) = n + 1 /\ after[n + 1] = entry
        /\ \A i \in 1..n : after[i] = contacts[i]
    BY <1>1, AppendProperties
  <2>2. n < MaxContacts
    BY <1>3 DEF found
  <2>. HIDE DEF after
  <2>3. entry.address = target
    OBVIOUS
  <2>. HIDE DEF entry, n
  <2>4. ASSUME NEW i \in 1..(n + 1), NEW j \in 1..(n + 1), i # j
        PROVE  after[i].address # after[j].address
    <3>1. CASE i \in 1..n /\ j \in 1..n
      BY <2>1, <2>4, <3>1 DEF Distinct, n
    <3>2. CASE i = n + 1
      <4>1. j \in 1..n
        BY <1>1, <2>4, <3>2
      <4>. QED
        BY <1>2, <1>3, <2>1, <2>3, <3>2, <4>1
    <3>3. CASE j = n + 1
      <4>1. i \in 1..n
        BY <1>1, <2>4, <3>3
      <4>. QED
        BY <1>2, <1>3, <2>1, <2>3, <3>3, <4>1
    <3>. QED
      BY <1>1, <2>4, <3>1, <3>2, <3>3
  <2>5. Distinct(after)
    BY <2>1, <2>4 DEF Distinct
  <2>6. Len(after) <= MaxContacts
    BY <1>1, <2>1, <2>2
  <2>. QED
    BY <2>1, <2>5, <2>6 DEF after
<1>4. ASSUME found # {}
      PROVE  LET after == [contacts EXCEPT ![first] = entry]
             IN after \in Seq(Entry) /\ Distinct(after) /\ Len(after) <= MaxContacts
  <2>1. found \subseteq Nat
    BY <1>1, <1>2
  <2>2. \E i \in found : \A j \in found : i <= j
    BY <1>4, <2>1, Least
  <2>3. first \in found
    BY <2>2
  <2>. HIDE DEF first
  <2>4. first \in 1..n /\ contacts[first].address = target
    BY <1>2, <2>3
  <2>. DEFINE after == [contacts EXCEPT ![first] = entry]
  <2>5. after \in [1..n -> Entry]
    BY <1>1
  <2>6. after \in Seq(Entry) /\ Len(after) = n
    BY <1>1, <2>5, LenProperties
  <2>7. \A i \in 1..n : after[i] = IF i = first THEN entry ELSE contacts[i]
    BY <1>1
  <2>8. entry.address = target
    OBVIOUS
  <2>. HIDE DEF after, entry
  <2>9. \A i \in 1..n : after[i].address = contacts[i].address
    BY <2>4, <2>7, <2>8
  <2>10. Distinct(after)
    BY <2>6, <2>9 DEF Distinct
  <2>. QED
    BY <2>6, <2>10 DEF after
<1>. QED
  BY <1>3, <1>4 DEF found

\* A book that changes leaves the others as they are.
LEMMA OneBook ==
  ASSUME PhonebookInv, NEW b \in Cs, NEW x \in Book, Len(x.contacts) <= MaxContacts,
         Distinct(x.contacts), accounts' = [accounts EXCEPT !.book[b] = x]
  PROVE  PhonebookInv'
<1>1. accounts' \in [open: SUBSET (Roots \cup Cs), config: [Roots -> Config], book: [Cs -> Book]]
  BY DEF PhonebookInv
<1>2. ASSUME NEW c \in Cs
      PROVE  Len(accounts'.book[c].contacts) <= MaxContacts /\ Distinct(accounts'.book[c].contacts)
  <2>1. accounts'.book[c] = IF c = b THEN x ELSE accounts.book[c]
    BY DEF PhonebookInv
  <2>. QED
    BY <2>1 DEF PhonebookInv
<1>. QED
  BY <1>1, <1>2 DEF PhonebookInv, Distinct

\* A new contact needs a place in the book, an old one has one.
LEMMA AddContactChecks ==
  ASSUME NEW b \in Cs, NEW c \in Roots, NEW owner, NEW treasury, NEW target, NEW p,
         Phonebook!ProcessAddContactChecks(accounts, <<b, owner, c, treasury, sys>>, target, p) = 0
  PROVE  \/ Phonebook!IndexOf(accounts.book[b].contacts, target) # {}
         \/ Len(accounts.book[b].contacts) < MaxContacts
<1>. DEFINE accs == <<b, owner, c, treasury, sys>>
           contacts == accounts.book[Phonebook!AccountAt(accs, 1)].contacts
<1>1. Phonebook!AccountAt(accs, 1) = b
  BY DEF Phonebook!AccountAt
<1>2. \A a, x, y : Phonebook!??(Phonebook!??(a, x), y) = 0 => x = 0
  BY PhonebookFirst
<1>3. \/ Phonebook!IndexOf(contacts, target) # {}
      \/ Len(contacts) < MaxContacts
  BY <1>2 DEF Phonebook!ProcessAddContactChecks, Phonebook!Require, Phonebook!OwnedBy,
              Phonebook!RequireOwned, Phonebook!Count
<1>. QED
  BY <1>1, <1>3

\* Every instruction and every command of the client keeps the books in order.
LEMMA PhonebookStep == PhonebookInv /\ Phonebook!Next => PhonebookInv'
<1>. SUFFICES ASSUME PhonebookInv, Phonebook!Next PROVE PhonebookInv'
  OBVIOUS
<1>. USE DEF Phonebook!Execute
<1>0. Phonebook!Keys = Roots \cup Cs \cup {Visitor, Odd, Treasury} \cup {sys}
  BY DEF Phonebook!Keys
<1>1. ASSUME NEW x \in Roots \cup Cs, Phonebook!EnsureProgramOwnedAccount(x)
      PROVE  PhonebookInv'
  BY <1>1 DEF PhonebookInv, Phonebook!EnsureProgramOwnedAccount, Distinct
<1>2. ASSUME NEW c \in Roots, NEW admin \in Phonebook!Keys, NEW treasury \in Phonebook!Keys,
             NEW fee \in Nat,
             accounts' = Phonebook!ProcessInitConfig(accounts, <<c, admin, treasury>>, fee)
      PROVE  PhonebookInv'
  <2>. DEFINE x == [tag |-> 1, admin |-> Phonebook!ProgramOf(admin),
                    treasury |-> Phonebook!ProgramOf(treasury), fee |-> fee]
  <2>1. x \in Config
    BY ProgramOfTyped DEF Config
  <2>2. accounts' = [accounts EXCEPT !.config[c] = x]
    BY <1>2 DEF Phonebook!ProcessInitConfig
  <2>. HIDE DEF x
  <2>. QED
    BY <2>1, <2>2 DEF PhonebookInv, Distinct
<1>3. ASSUME NEW b \in Cs, NEW owner \in Phonebook!Keys,
             accounts' = Phonebook!InitPhonebook(accounts, <<b, owner>>)
      PROVE  PhonebookInv'
  <2>. DEFINE x == [tag |-> 1, owner |-> Phonebook!ProgramOf(owner), contacts |-> <<>>]
  <2>1. x \in Book /\ Len(x.contacts) <= MaxContacts /\ Distinct(x.contacts)
    BY ProgramOfTyped, ProgramsAssumption DEF Book, Distinct, Phonebook!PhonebookAssumption
  <2>2. accounts' = [accounts EXCEPT !.book[b] = x]
    BY <1>3 DEF Phonebook!InitPhonebook
  <2>. HIDE DEF x
  <2>. QED
    BY <2>1, <2>2, OneBook
<1>4. ASSUME NEW b \in Cs, NEW c \in Roots, NEW owner, NEW treasury,
             NEW target \in Contacts, NEW name \in Names, NEW p,
             LET accs == <<b, owner, c, treasury, sys>> IN
             /\ Phonebook!ProcessAddContactChecks(accounts, accs, target, p) = 0
             /\ accounts' = Phonebook!ProcessAddContact(accounts, accs, target, name)
      PROVE  PhonebookInv'
  <2>. DEFINE old == accounts.book[b].contacts
              found == Phonebook!IndexOf(old, target)
              entry == [address |-> target, name |-> name]
              new == IF found = {} THEN Append(old, entry)
                     ELSE [old EXCEPT ![CHOOSE i \in found : \A j \in found : i <= j] = entry]
  <2>1. accounts.book[b] \in Book /\ old \in Seq(Entry) /\ Distinct(old) /\ Len(old) <= MaxContacts
    BY DEF PhonebookInv, Book
  <2>2. found # {} \/ Len(old) < MaxContacts
    BY <1>4, AddContactChecks
  <2>3. new \in Seq(Entry) /\ Distinct(new) /\ Len(new) <= MaxContacts
    BY <2>1, <2>2, AddedOnce
  <2>4. accounts' = [accounts EXCEPT !.book[b].contacts = new]
    BY <1>4 DEF Phonebook!ProcessAddContact
  <2>. HIDE DEF new
  <2>. DEFINE x == [accounts.book[b] EXCEPT !.contacts = new]
  <2>5. x \in Book /\ x.contacts = new
    BY <2>1, <2>3 DEF Book
  <2>6. accounts' = [accounts EXCEPT !.book[b] = x]
    BY <2>4
  <2>. HIDE DEF x
  <2>. QED
    BY <2>3, <2>5, <2>6, OneBook
<1>5. Fees \subseteq Nat
  BY ProgramsAssumption DEF Phonebook!PhonebookAssumption
<1>6. CASE Phonebook!Commands
  BY <1>0, <1>1, <1>2, <1>3, <1>5, <1>6
  DEF Phonebook!Commands, Phonebook!RunInitConfig, Phonebook!RunInitPhonebook
<1>7. ASSUME NEW p, Phonebook!Process(p) PROVE PhonebookInv'
  <2>1. CASE \E c \in Roots, admin, treasury \in Phonebook!Keys, fee \in Fees :
               accounts' = Phonebook!ProcessInitConfig(accounts, <<c, admin, treasury>>, fee)
    BY <1>2, <1>5, <2>1
  <2>2. CASE \E b \in Cs, owner \in Phonebook!Keys :
               accounts' = Phonebook!InitPhonebook(accounts, <<b, owner>>)
    BY <1>3, <2>2
  <2>3. CASE \E b \in Cs, c \in Roots, owner, treasury \in Phonebook!Keys, target \in Contacts,
               name \in Names : LET accs == <<b, owner, c, treasury, sys>> IN
               /\ Phonebook!ProcessAddContactChecks(accounts, accs, target, p) = 0
               /\ accounts' = Phonebook!ProcessAddContact(accounts, accs, target, name)
    BY <1>4, <2>3
  <2>. QED
    BY <1>7, <2>1, <2>2, <2>3 DEF Phonebook!Process
<1>. QED
  BY <1>6, <1>7 DEF Phonebook!Next

\* The books are empty at first.
LEMMA PhonebookInit == Phonebook!Init => PhonebookInv
BY ProgramsAssumption
DEF Phonebook!Init, PhonebookInv, Phonebook!NewConfig, Phonebook!NewBook, Config, Book, Ids,
    Distinct, Phonebook!PhonebookAssumption

-----------------------------------------------------------------------------
(* ERC-20: what the accounts may hold, and the supplies.                   *)

Mint20 == {Erc20!NewMint} \cup [tag: {1}, supply: Erc20!Amount, authority: Wallets]
Balance20 == {Erc20!NewBalance} \cup [tag: {2}, amount: Erc20!Amount, mint: As, owner: Wallets]
Allowance20 ==
  {Erc20!NewAllowance} \cup
  [tag: {3}, amount: Erc20!Amount, mint: As, owner: Wallets, spender: Wallets]

Typed20 == erc20 \in [mint: [As -> Mint20], balance: [Bs -> Balance20], allowance: [Cs -> Allowance20]]

\* What the balance accounts hold of a mint together.
Of20(m) == SumFunctionOnSet([b \in Bs |-> Erc20!Holding(erc20.balance[b], m)], Bs)

\* A chain of checks passes when each of them does.
LEMMA Erc20First == \A a, b : Erc20!??(a, b) = 0 <=> a = 0 /\ b = 0
BY DEF Erc20!??

\* What may be used of the assumptions.
LEMMA Erc20Constants ==
  /\ Erc20U64 \in Nat \ {0} /\ IsFiniteSet(Bs) /\ 0 \in Erc20!Amount
  /\ \A n \in Erc20!Amount : n \in Nat
  /\ NoKey \notin As /\ NoKey \notin Wallets
BY ProgramsAssumption
DEF Erc20!Erc20Assumption, Erc20!Addresses, Erc20!Accounts, Erc20!Amount,
    Erc20!IsFiniteSet, IsFiniteSet

\* A sum that is not below its operand did not wrap.
LEMMA Erc20Fits ==
  ASSUME NEW a \in Erc20!Amount, NEW b \in Erc20!Amount, Erc20!RequireNoWrap(a, b, Erc20U64, 13) = 0
  PROVE  a + b \in Erc20!Amount
<1>1. (a + b) % Erc20U64 >= a
  BY DEF Erc20!RequireNoWrap, Erc20!Plus, Erc20!Require
<1>2. CASE a + b < Erc20U64
  BY <1>2, Erc20Constants DEF Erc20!Amount
<1>3. CASE a + b >= Erc20U64
  <2>1. (a + b) % Erc20U64 = a + b - Erc20U64
    BY <1>3, Erc20Constants DEF Erc20!Amount
  <2>. QED
    BY <1>1, <2>1, Erc20Constants DEF Erc20!Amount
<1>. QED
  BY <1>2, <1>3, Erc20Constants DEF Erc20!Amount

\* An account holds a natural number of anything.
LEMMA Holding20 == ASSUME NEW d \in Balance20, NEW m PROVE Erc20!Holding(d, m) \in Nat
<1>1. CASE d = Erc20!NewBalance
  BY <1>1 DEF Erc20!NewBalance, Erc20!Holding
<1>2. CASE d.amount \in Erc20!Amount
  BY <1>2, Erc20Constants DEF Erc20!Holding
<1>. QED
  BY <1>1, <1>2 DEF Balance20

\* A balance that changes changes what is held of each mint by as much.
LEMMA Change20 ==
  ASSUME Typed20, Typed20', NEW b \in Bs,
         \A c \in Bs \ {b} : erc20'.balance[c] = erc20.balance[c]
  PROVE  \A m : /\ Of20(m) \in Int
                /\ Of20(m)' = Of20(m) - Erc20!Holding(erc20.balance[b], m)
                                      + Erc20!Holding(erc20'.balance[b], m)
<1>. TAKE m
<1>. DEFINE f == [c \in Bs |-> Erc20!Holding(erc20.balance[c], m)]
            h == [c \in Bs |-> Erc20!Holding(erc20'.balance[c], m)]
<1>1. \A c \in Bs : f[c] \in Int /\ h[c] \in Int
  BY Holding20 DEF Typed20
<1>2. /\ \A c \in Bs \ {b} : f[c] = h[c]
      /\ f[b] = Erc20!Holding(erc20.balance[b], m) /\ h[b] = Erc20!Holding(erc20'.balance[b], m)
  OBVIOUS
<1>3. Of20(m) = SumFunctionOnSet(f, Bs) /\ Of20(m)' = SumFunctionOnSet(h, Bs)
  BY DEF Of20
<1>. HIDE DEF f, h
<1>4. SumFunctionOnSet(h, Bs) = SumFunctionOnSet(f, Bs) - f[b] + h[b]
  BY <1>1, <1>2, Erc20Constants, SumChange
<1>5. SumFunctionOnSet(f, Bs) \in Int
  BY <1>1, Erc20Constants, SumInt
<1>. QED
  BY <1>2, <1>3, <1>4, <1>5
\* What moves between two balances stays held.
LEMMA Move20 ==
  ASSUME Typed20, Typed20', NEW from \in Bs, NEW to \in Bs, from # to,
         \A c \in Bs \ {from, to} : erc20'.balance[c] = erc20.balance[c],
         \A m : Erc20!Holding(erc20'.balance[from], m) + Erc20!Holding(erc20'.balance[to], m) =
                Erc20!Holding(erc20.balance[from], m) + Erc20!Holding(erc20.balance[to], m)
  PROVE  \A m : Of20(m)' = Of20(m)
<1>. TAKE m
<1>. DEFINE f == [c \in Bs |-> Erc20!Holding(erc20.balance[c], m)]
            h == [c \in Bs |-> Erc20!Holding(erc20'.balance[c], m)]
<1>1. \A c \in Bs : f[c] \in Int /\ h[c] \in Int
  BY Holding20 DEF Typed20
<1>2. (\A c \in Bs \ {from, to} : f[c] = h[c]) /\ h[from] + h[to] = f[from] + f[to]
  OBVIOUS
<1>3. Of20(m) = SumFunctionOnSet(f, Bs) /\ Of20(m)' = SumFunctionOnSet(h, Bs)
  BY DEF Of20
<1>. HIDE DEF f, h
<1>4. SumFunctionOnSet(h, Bs) = SumFunctionOnSet(f, Bs) - f[from] - f[to] + h[from] + h[to]
  BY <1>1, <1>2, Erc20Constants, SumMove
<1>5. SumFunctionOnSet(f, Bs) \in Int
  BY <1>1, Erc20Constants, SumInt
<1>. QED
  BY <1>1, <1>2, <1>3, <1>4, <1>5

-----------------------------------------------------------------------------
(* What the instructions of ERC-20 check and write.                        *)

\* A fresh mint.
LEMMA InitializeMint20 ==
  ASSUME Typed20, NEW m \in As, NEW k \in Wallets, NEW p,
         Erc20!ProcessInitializeMintChecks(erc20, 1, m, p) = 0
  PROVE  /\ erc20.mint[m] = Erc20!NewMint
         /\ Erc20!ProcessInitializeMint(erc20, m, k) =
              [erc20 EXCEPT !.mint[m] = [tag |-> 1, supply |-> 0, authority |-> k]]
<1>1. erc20.mint[m] = Erc20!NewMint
  BY Erc20First DEF Erc20!ProcessInitializeMintChecks, Erc20!Owned, Erc20!RequireOwned, Erc20!Tagged,
    Erc20!Require
<1>2. PICK s : s = erc20
  OBVIOUS
<1>3. /\ s \in [mint: [As -> Mint20], balance: [Bs -> Balance20], allowance: [Cs -> Allowance20]]
      /\ s.mint[m] = [tag |-> 0, supply |-> 0, authority |-> NoKey]
  BY <1>1, <1>2 DEF Typed20, Erc20!NewMint
<1>4. [s.mint[m] EXCEPT !.tag = 1, !.authority = k] = [tag |-> 1, supply |-> 0, authority |-> k]
  <2>1. PICK r : r = s.mint[m]
    OBVIOUS
  <2>2. r \in [tag: {0}, supply: {0}, authority: {NoKey}]
    BY <1>3, <2>1
  <2>. DEFINE q == [r EXCEPT !.tag = 1, !.authority = k]
  <2>3. q \in [tag: {1}, supply: {0}, authority: {k}]
    BY <2>2
  <2>. HIDE DEF q
  <2>4. q = [tag |-> 1, supply |-> 0, authority |-> k]
    BY <2>3
  <2>. QED
    BY <2>1, <2>4 DEF q
<1>5. Erc20!ProcessInitializeMint(s, m, k) =
        [s EXCEPT !.mint[m] = [s.mint[m] EXCEPT !.tag = 1, !.authority = k]]
  BY <1>3 DEF Erc20!ProcessInitializeMint
<1>. QED
  BY <1>1, <1>2, <1>4, <1>5

\* A fresh balance of a live mint.
LEMMA InitializeBalance20 ==
  ASSUME Typed20, NEW b \in Bs, NEW m \in As, NEW k \in Wallets, NEW p,
         Erc20!ProcessInitializeBalanceChecks(erc20, 2, b, m, p) = 0
  PROVE  /\ erc20.balance[b] = Erc20!NewBalance
         /\ Erc20!ProcessInitializeBalance(erc20, b, m, k) =
              [erc20 EXCEPT !.balance[b] = [tag |-> 2, amount |-> 0, mint |-> m, owner |-> k]]
<1>1. erc20.balance[b] = Erc20!NewBalance
  BY Erc20First DEF Erc20!ProcessInitializeBalanceChecks, Erc20!Owned, Erc20!RequireOwned, Erc20!Tagged,
    Erc20!Require
<1>. QED
  BY <1>1 DEF Erc20!ProcessInitializeBalance, Erc20!NewBalance, Typed20

\* What is minted fits into the supply and the balance, which is of the mint.
LEMMA MintTo20 ==
  ASSUME Typed20, NEW m \in As, NEW b \in Bs, NEW k, NEW amount \in Erc20!Amount, NEW p,
         Erc20!ProcessMintToChecks(erc20, 3, m, b, k, amount, p) = 0
  PROVE  /\ erc20.mint[m].tag = 1 /\ erc20.balance[b].tag = 2 /\ erc20.balance[b].mint = m
         /\ erc20.mint[m].supply + amount \in Erc20!Amount
         /\ erc20.balance[b].amount + amount \in Erc20!Amount
<1>1. /\ erc20.mint[m].tag = 1 /\ erc20.balance[b].tag = 2 /\ erc20.balance[b].mint = m
      /\ Erc20!RequireNoWrap(erc20.mint[m].supply, amount, Erc20U64, 13) = 0
      /\ Erc20!RequireNoWrap(erc20.balance[b].amount, amount, Erc20U64, 13) = 0
  BY Erc20First DEF Erc20!ProcessMintToChecks, Erc20!Owned, Erc20!RequireOwned, Erc20!Tagged,
    Erc20!Require
<1>2. erc20.mint[m].supply \in Erc20!Amount /\ erc20.balance[b].amount \in Erc20!Amount
  BY Erc20Constants DEF Typed20, Mint20, Balance20, Erc20!NewMint, Erc20!NewBalance
<1>. QED
  BY <1>1, <1>2, Erc20Fits

\* What is burnt is there, in the supply and in a balance of the mint.
LEMMA Burn20 ==
  ASSUME Typed20, NEW m \in As, NEW b \in Bs, NEW k, NEW amount \in Erc20!Amount, NEW p,
         Erc20!ProcessBurnChecks(erc20, 3, b, m, k, amount, p) = 0
  PROVE  /\ erc20.mint[m].tag = 1 /\ erc20.balance[b].tag = 2 /\ erc20.balance[b].mint = m
         /\ erc20.mint[m].supply - amount \in Erc20!Amount
         /\ erc20.balance[b].amount - amount \in Erc20!Amount
<1>1. /\ erc20.mint[m].tag = 1 /\ erc20.balance[b].tag = 2 /\ erc20.balance[b].mint = m
      /\ erc20.mint[m].supply >= amount /\ erc20.balance[b].amount >= amount
  BY Erc20First DEF Erc20!ProcessBurnChecks, Erc20!Owned, Erc20!RequireOwned, Erc20!Tagged,
    Erc20!Require
<1>2. erc20.mint[m].supply \in Erc20!Amount /\ erc20.balance[b].amount \in Erc20!Amount
  BY Erc20Constants DEF Typed20, Mint20, Balance20, Erc20!NewMint, Erc20!NewBalance
<1>. QED
  BY <1>1, <1>2, Erc20Constants DEF Erc20!Amount

\* What is transferred is there and fits, in two balances of a mint.
LEMMA Transfer20 ==
  ASSUME Typed20, NEW from \in Bs, NEW to \in Bs, NEW k, NEW amount \in Erc20!Amount, NEW p,
         Erc20!ProcessTransferChecks(erc20, 3, from, to, k, amount, p) = 0
  PROVE  /\ from # to /\ erc20.balance[from].tag = 2 /\ erc20.balance[to].tag = 2
         /\ erc20.balance[from].mint = erc20.balance[to].mint
         /\ erc20.balance[from].amount - amount \in Erc20!Amount
         /\ erc20.balance[to].amount + amount \in Erc20!Amount
<1>1. /\ from # to /\ erc20.balance[from].tag = 2 /\ erc20.balance[to].tag = 2
      /\ erc20.balance[from].mint = erc20.balance[to].mint
      /\ erc20.balance[from].amount >= amount
      /\ Erc20!RequireNoWrap(erc20.balance[to].amount, amount, Erc20U64, 13) = 0
  BY Erc20First DEF Erc20!ProcessTransferChecks, Erc20!Owned, Erc20!RequireOwned, Erc20!Tagged,
    Erc20!Require
<1>2. erc20.balance[from].amount \in Erc20!Amount /\ erc20.balance[to].amount \in Erc20!Amount
  BY Erc20Constants DEF Typed20, Balance20, Erc20!NewBalance
<1>3. erc20.balance[from].amount - amount \in Erc20!Amount
  BY <1>1, <1>2, Erc20Constants DEF Erc20!Amount
<1>. QED
  BY <1>1, <1>2, <1>3, Erc20Fits

\* And what is transferred for an owner is within the owner's allowance.
LEMMA TransferFrom20 ==
  ASSUME Typed20, NEW from \in Bs, NEW to \in Bs, NEW a \in Cs, NEW k,
         NEW amount \in Erc20!Amount, NEW p,
         Erc20!ProcessTransferFromChecks(erc20, 4, from, to, a, k, amount, p) = 0
  PROVE  /\ from # to /\ erc20.balance[from].tag = 2 /\ erc20.balance[to].tag = 2
         /\ erc20.balance[from].mint = erc20.balance[to].mint
         /\ erc20.balance[from].amount - amount \in Erc20!Amount
         /\ erc20.balance[to].amount + amount \in Erc20!Amount
         /\ erc20.allowance[a].tag = 3
         /\ erc20.allowance[a].amount - amount \in Erc20!Amount
<1>1. /\ from # to /\ erc20.balance[from].tag = 2 /\ erc20.balance[to].tag = 2
      /\ erc20.balance[from].mint = erc20.balance[to].mint
      /\ erc20.balance[from].amount >= amount
      /\ Erc20!RequireNoWrap(erc20.balance[to].amount, amount, Erc20U64, 13) = 0
      /\ erc20.allowance[a].tag = 3 /\ erc20.allowance[a].amount >= amount
  BY Erc20First DEF Erc20!ProcessTransferFromChecks, Erc20!Owned, Erc20!RequireOwned, Erc20!Tagged,
    Erc20!Require
<1>2. /\ erc20.balance[from].amount \in Erc20!Amount /\ erc20.balance[to].amount \in Erc20!Amount
      /\ erc20.allowance[a].amount \in Erc20!Amount
  BY Erc20Constants
  DEF Typed20, Balance20, Allowance20, Erc20!NewBalance, Erc20!NewAllowance
<1>3. /\ erc20.balance[from].amount - amount \in Erc20!Amount
      /\ erc20.allowance[a].amount - amount \in Erc20!Amount
  BY <1>1, <1>2, Erc20Constants DEF Erc20!Amount
<1>. QED
  BY <1>1, <1>2, <1>3, Erc20Fits

\* A fresh allowance of a live mint.
LEMMA InitializeAllowance20 ==
  ASSUME Typed20, NEW a \in Cs, NEW m \in As, NEW owner \in Wallets, NEW spender \in Wallets, NEW p,
         Erc20!ProcessInitializeAllowanceChecks(erc20, 4, a, m, owner, p) = 0
  PROVE  /\ erc20.allowance[a] = Erc20!NewAllowance
         /\ Erc20!ProcessInitializeAllowance(erc20, a, m, owner, spender) =
              [erc20 EXCEPT !.allowance[a] =
                 [tag |-> 3, amount |-> 0, mint |-> m, owner |-> owner, spender |-> spender]]
<1>1. erc20.allowance[a] = Erc20!NewAllowance
  BY Erc20First DEF Erc20!ProcessInitializeAllowanceChecks, Erc20!Owned, Erc20!RequireOwned, Erc20!Tagged,
    Erc20!Require
<1>. QED
  BY <1>1 DEF Erc20!ProcessInitializeAllowance, Erc20!NewAllowance, Typed20

\* Only an allowance in use is approved.
LEMMA Approve20 ==
  ASSUME NEW a, NEW k, NEW p, Erc20!ProcessApproveChecks(erc20, 2, a, k, p) = 0
  PROVE  erc20.allowance[a].tag = 3
<1>1. Erc20!Tagged(erc20.allowance[a], 3) = 0
  BY Erc20First DEF Erc20!ProcessApproveChecks, Erc20!Owned, Erc20!RequireOwned, Erc20!Require
<1>. QED
  BY <1>1 DEF Erc20!Tagged, Erc20!Require

-----------------------------------------------------------------------------
(* ERC-20: supplies and balances together.                                 *)

Backed20 == \A m \in As : erc20.mint[m].supply = Of20(m)

\* The program adds up as everybody does.
LEMMA Sum20 == Erc20!SupplyIsBalances <=> Backed20
<1>1. \A f, S : Erc20!SumFunctionOnSet(f, S) = SumFunctionOnSet(f, S)
  BY DEF Erc20!SumFunctionOnSet, Erc20!FoldFunctionOnSet, Erc20!MapThenFoldSet,
         SumFunctionOnSet, FoldFunctionOnSet, MapThenFoldSet
<1>. QED
  BY <1>1 DEF Erc20!SupplyIsBalances, Backed20, Of20

\* MintTo and Burn write the supply of a mint and a balance of it by the same amount.
LEMMA Issued20 ==
  ASSUME Typed20, Backed20, NEW m \in As, NEW b \in Bs, NEW x \in Mint20, NEW y \in Balance20,
         NEW n \in Int, x.supply = erc20.mint[m].supply + n,
         \A k : Erc20!Holding(y, k) =
                  Erc20!Holding(erc20.balance[b], k) + (IF k = m THEN n ELSE 0),
         erc20' = [erc20 EXCEPT !.mint[m] = x, !.balance[b] = y]
  PROVE  Typed20' /\ Backed20'
<1>1. /\ erc20' \in [mint: [As -> Mint20], balance: [Bs -> Balance20], allowance: [Cs -> Allowance20]]
      /\ \A k \in As : erc20'.mint[k] = IF k = m THEN x ELSE erc20.mint[k]
      /\ \A c \in Bs : erc20'.balance[c] = IF c = b THEN y ELSE erc20.balance[c]
  BY DEF Typed20
<1>2. Typed20'
  BY <1>1 DEF Typed20
<1>3. ASSUME NEW k \in As PROVE erc20'.mint[k].supply = Of20(k)'
  <2>1. Of20(k) \in Int /\
        Of20(k)' = Of20(k) - Erc20!Holding(erc20.balance[b], k) + Erc20!Holding(y, k)
    BY <1>1, <1>2, Change20
  <2>2. Erc20!Holding(erc20.balance[b], k) \in Int
    BY Holding20 DEF Typed20
  <2>3. Of20(k)' = Of20(k) + (IF k = m THEN n ELSE 0)
    BY <2>1, <2>2
  <2>4. erc20.mint[k].supply = Of20(k)
    BY DEF Backed20
  <2>. QED
    BY <1>1, <2>1, <2>3, <2>4
<1>. QED
  BY <1>2, <1>3 DEF Backed20

\* Transfers write two balances of a mint, and what one loses the other gains.
LEMMA Transferred20 ==
  ASSUME Typed20, Backed20, Typed20', NEW from \in Bs, NEW to \in Bs, from # to,
         \A m : Erc20!Holding(erc20'.balance[from], m) + Erc20!Holding(erc20'.balance[to], m) =
                Erc20!Holding(erc20.balance[from], m) + Erc20!Holding(erc20.balance[to], m),
         erc20'.mint = erc20.mint,
         \A b \in Bs \ {from, to} : erc20'.balance[b] = erc20.balance[b]
  PROVE  Backed20'
<1>1. \A m : Of20(m)' = Of20(m)
  BY Move20
<1>. QED
  BY <1>1 DEF Backed20

\* Whatever is written elsewhere changes neither.
LEMMA Elsewhere20 ==
  ASSUME Typed20, Backed20, Typed20',
         \A m \in As : erc20'.mint[m].supply = erc20.mint[m].supply,
         \A b \in Bs : \A m \in As :
           Erc20!Holding(erc20'.balance[b], m) = Erc20!Holding(erc20.balance[b], m)
  PROVE  Backed20'
<1>. SUFFICES ASSUME NEW m \in As PROVE erc20'.mint[m].supply = Of20(m)'
  BY DEF Backed20
<1>. DEFINE f == [b \in Bs |-> Erc20!Holding(erc20.balance[b], m)]
            h == [b \in Bs |-> Erc20!Holding(erc20'.balance[b], m)]
<1>1. f = h
  OBVIOUS
<1>2. Of20(m)' = SumFunctionOnSet(h, Bs) /\ Of20(m) = SumFunctionOnSet(f, Bs)
  BY DEF Of20
<1>. QED
  BY <1>1, <1>2 DEF Backed20

\* A balance after a transfer: of the same mint and owner.
LEMMA Paid20 ==
  ASSUME NEW d \in Balance20, d.tag = 2, NEW n \in Erc20!Amount
  PROVE  /\ [d EXCEPT !.amount = n] \in Balance20
         /\ d.mint \in As /\ d.amount \in Int /\ n \in Int
         /\ \A m : /\ Erc20!Holding([d EXCEPT !.amount = n], m) = IF d.mint = m THEN n ELSE 0
                   /\ Erc20!Holding(d, m) = IF d.mint = m THEN d.amount ELSE 0
<1>1. d \in [tag: {2}, amount: Erc20!Amount, mint: As, owner: Wallets]
  BY DEF Balance20, Erc20!NewBalance
<1>2. d.amount \in Erc20!Amount
  BY <1>1
<1>3. d.amount \in Nat /\ n \in Nat
  BY <1>2, Erc20Constants
<1>4. [d EXCEPT !.amount = n] \in [tag: {2}, amount: Erc20!Amount, mint: As, owner: Wallets]
  BY <1>1
<1>. QED
  BY <1>1, <1>3, <1>4 DEF Balance20, Erc20!Holding

\* The same of a mint.
LEMMA Issue20 ==
  ASSUME NEW d \in Mint20, d.tag = 1, NEW n \in Erc20!Amount
  PROVE  /\ [d EXCEPT !.supply = n] \in Mint20
         /\ [d EXCEPT !.supply = n].supply = n /\ d.supply \in Int /\ n \in Int
<1>1. d \in [tag: {1}, supply: Erc20!Amount, authority: Wallets]
  BY DEF Mint20, Erc20!NewMint
<1>2. d.supply \in Erc20!Amount
  BY <1>1
<1>3. d.supply \in Nat /\ n \in Nat
  BY <1>2, Erc20Constants
<1>4. [d EXCEPT !.supply = n] \in [tag: {1}, supply: Erc20!Amount, authority: Wallets]
  BY <1>1
<1>. QED
  BY <1>1, <1>3, <1>4 DEF Mint20

\* And of an allowance.
LEMMA Allow20 ==
  ASSUME NEW d \in Allowance20, d.tag = 3, NEW n \in Erc20!Amount
  PROVE  /\ [d EXCEPT !.amount = n] \in Allowance20
         /\ d.mint \in As /\ d.owner \in Wallets /\ d.spender \in Wallets /\ d.amount \in Int
<1>1. d \in [tag: {3}, amount: Erc20!Amount, mint: As, owner: Wallets, spender: Wallets]
  BY DEF Allowance20, Erc20!NewAllowance
<1>2. d.amount \in Erc20!Amount
  BY <1>1
<1>3. d.amount \in Nat
  BY <1>2, Erc20Constants
<1>4. [d EXCEPT !.amount = n] \in
        [tag: {3}, amount: Erc20!Amount, mint: As, owner: Wallets, spender: Wallets]
  BY <1>1
<1>. QED
  BY <1>1, <1>3, <1>4 DEF Allowance20

\* A transfer in the terms of Transferred20.
LEMMA Move20Step ==
  ASSUME Typed20, Backed20, NEW from \in Bs, NEW to \in Bs, NEW n \in Erc20!Amount, from # to,
         erc20.balance[from].tag = 2, erc20.balance[to].tag = 2,
         erc20.balance[from].mint = erc20.balance[to].mint,
         erc20.balance[from].amount - n \in Erc20!Amount,
         erc20.balance[to].amount + n \in Erc20!Amount,
         NEW c \in [Cs -> Allowance20],
         erc20' = [Erc20!Move(erc20, from, to, n) EXCEPT !.allowance = c]
  PROVE  Typed20' /\ Backed20'
<1>. DEFINE d == erc20.balance[from]
            e == erc20.balance[to]
            x == [d EXCEPT !.amount = d.amount - n]
            y == [e EXCEPT !.amount = e.amount + n]
<1>1. d \in Balance20 /\ e \in Balance20 /\ n \in Int
  BY Erc20Constants DEF Typed20
<1>2. /\ x \in Balance20
      /\ \A m : Erc20!Holding(x, m) = IF d.mint = m THEN d.amount - n ELSE 0
      /\ \A m : Erc20!Holding(d, m) = IF d.mint = m THEN d.amount ELSE 0
      /\ d.amount \in Int
  BY <1>1, Paid20
<1>3. /\ y \in Balance20
      /\ \A m : Erc20!Holding(y, m) = IF e.mint = m THEN e.amount + n ELSE 0
      /\ \A m : Erc20!Holding(e, m) = IF e.mint = m THEN e.amount ELSE 0
      /\ e.amount \in Int
  BY <1>1, Paid20
<1>4. \A m : Erc20!Holding(x, m) + Erc20!Holding(y, m) = Erc20!Holding(d, m) + Erc20!Holding(e, m)
  BY <1>1, <1>2, <1>3
<1>. DEFINE after == [erc20.balance EXCEPT ![from] = x, ![to] = y]
<1>5. erc20' = [mint |-> erc20.mint, balance |-> after, allowance |-> c]
  BY DEF Erc20!Move, Typed20
<1>6. x \in Balance20 /\ y \in Balance20
  BY <1>2, <1>3
<1>. HIDE DEF x, y
<1>10. /\ after \in [Bs -> Balance20] /\ after[from] = x /\ after[to] = y
       /\ \A b \in Bs \ {from, to} : after[b] = erc20.balance[b]
  BY <1>6 DEF Typed20
<1>. HIDE DEF after
<1>7. erc20'.mint = erc20.mint /\ erc20'.balance = after
  BY <1>5
<1>8. Typed20'
  <2>1. erc20.mint \in [As -> Mint20]
    BY DEF Typed20
  <2>2. [mint |-> erc20.mint, balance |-> after, allowance |-> c] \in
          [mint: [As -> Mint20], balance: [Bs -> Balance20], allowance: [Cs -> Allowance20]]
    BY <1>10, <2>1
  <2>. QED
    BY <1>5, <2>2 DEF Typed20
<1>. HIDE DEF d, e
<1>9. \A m : Erc20!Holding(erc20'.balance[from], m) + Erc20!Holding(erc20'.balance[to], m) =
             Erc20!Holding(erc20.balance[from], m) + Erc20!Holding(erc20.balance[to], m)
  BY <1>4, <1>7, <1>10 DEF d, e
<1>. QED
  BY <1>7, <1>8, <1>9, <1>10, Transferred20

\* Every instruction keeps accounts and supplies in order.
LEMMA Step20 ==
  ASSUME Typed20, Backed20, NEW p, Erc20!Process(p)
  PROVE  Typed20' /\ Backed20'
<1>. USE DEF Erc20!Execute
<1>1. ASSUME NEW m \in As, NEW k \in Wallets,
             Erc20!Execute(Erc20!ProcessInitializeMintChecks(erc20, 1, m, p),
                           Erc20!ProcessInitializeMint(erc20, m, k))
      PROVE  Typed20' /\ Backed20'
  <2>. DEFINE x == [tag |-> 1, supply |-> 0, authority |-> k]
  <2>1. erc20.mint[m].supply = x.supply /\ erc20' = [erc20 EXCEPT !.mint[m] = x]
    BY <1>1, InitializeMint20 DEF Erc20!NewMint
  <2>2. x \in Mint20
    BY Erc20Constants DEF Mint20
  <2>. HIDE DEF x
  <2>3. /\ erc20' \in [mint: [As -> Mint20], balance: [Bs -> Balance20],
                       allowance: [Cs -> Allowance20]]
        /\ erc20'.balance = erc20.balance
        /\ \A c \in As : erc20'.mint[c].supply = erc20.mint[c].supply
    BY <2>1, <2>2 DEF Typed20
  <2>. QED
    BY <2>3, Elsewhere20 DEF Typed20
<1>2. ASSUME NEW b \in Bs, NEW m \in As, NEW k \in Wallets,
             Erc20!Execute(Erc20!ProcessInitializeBalanceChecks(erc20, 2, b, m, p),
                           Erc20!ProcessInitializeBalance(erc20, b, m, k))
      PROVE  Typed20' /\ Backed20'
  <2>. DEFINE x == [tag |-> 2, amount |-> 0, mint |-> m, owner |-> k]
  <2>1. /\ erc20.balance[b] = Erc20!NewBalance
        /\ erc20' = [erc20 EXCEPT !.balance[b] = x]
    BY <1>2, InitializeBalance20
  <2>2. x \in Balance20
    BY Erc20Constants DEF Balance20
  <2>3. \A c \in As : Erc20!Holding(x, c) = 0 /\ Erc20!Holding(erc20.balance[b], c) = 0
    BY <2>1 DEF Erc20!Holding, Erc20!NewBalance
  <2>. HIDE DEF x
  <2>4. /\ erc20' \in [mint: [As -> Mint20], balance: [Bs -> Balance20],
                       allowance: [Cs -> Allowance20]]
        /\ erc20'.mint = erc20.mint
        /\ \A c \in Bs : erc20'.balance[c] = IF c = b THEN x ELSE erc20.balance[c]
    BY <2>1, <2>2 DEF Typed20
  <2>. QED
    BY <2>3, <2>4, Elsewhere20 DEF Typed20
<1>3. ASSUME NEW m \in As, NEW b \in Bs, NEW k \in Wallets, NEW n \in Erc20!Amount,
             Erc20!Execute(Erc20!ProcessMintToChecks(erc20, 3, m, b, k, n, p),
                           Erc20!ProcessMintTo(erc20, m, b, n))
      PROVE  Typed20' /\ Backed20'
  <2>. DEFINE d == erc20.mint[m]
              e == erc20.balance[b]
              x == [d EXCEPT !.supply = d.supply + n]
              y == [e EXCEPT !.amount = e.amount + n]
  <2>1. d \in Mint20 /\ e \in Balance20 /\ n \in Int
    BY Erc20Constants DEF Typed20
  <2>2. /\ d.tag = 1 /\ e.tag = 2 /\ e.mint = m
        /\ d.supply + n \in Erc20!Amount /\ e.amount + n \in Erc20!Amount
    BY <1>3, MintTo20
  <2>3. x \in Mint20 /\ x.supply = d.supply + n
    BY <2>1, <2>2, Issue20
  <2>4. y \in Balance20 /\ \A c : Erc20!Holding(y, c) = Erc20!Holding(e, c) + (IF c = m THEN n ELSE 0)
    BY <2>1, <2>2, Paid20
  <2>5. erc20' = [erc20 EXCEPT !.mint[m] = x, !.balance[b] = y]
    BY <1>3 DEF Erc20!ProcessMintTo, Typed20
  <2>. HIDE DEF x, y
  <2>. QED
    BY <2>1, <2>3, <2>4, <2>5, Issued20
<1>4. ASSUME NEW m \in As, NEW b \in Bs, NEW k \in Wallets, NEW n \in Erc20!Amount,
             Erc20!Execute(Erc20!ProcessBurnChecks(erc20, 3, b, m, k, n, p),
                           Erc20!ProcessBurn(erc20, b, m, n))
      PROVE  Typed20' /\ Backed20'
  <2>. DEFINE d == erc20.mint[m]
              e == erc20.balance[b]
              x == [d EXCEPT !.supply = d.supply - n]
              y == [e EXCEPT !.amount = e.amount - n]
  <2>1. d \in Mint20 /\ e \in Balance20 /\ n \in Int
    BY Erc20Constants DEF Typed20
  <2>2. /\ d.tag = 1 /\ e.tag = 2 /\ e.mint = m
        /\ d.supply - n \in Erc20!Amount /\ e.amount - n \in Erc20!Amount
    BY <1>4, Burn20
  <2>3. x \in Mint20 /\ x.supply = d.supply + (0 - n)
    BY <2>1, <2>2, Issue20
  <2>4. /\ y \in Balance20
        /\ \A c : Erc20!Holding(y, c) = Erc20!Holding(e, c) + (IF c = m THEN 0 - n ELSE 0)
    BY <2>1, <2>2, Paid20
  <2>5. erc20' = [erc20 EXCEPT !.mint[m] = x, !.balance[b] = y]
    BY <1>4 DEF Erc20!ProcessBurn, Typed20
  <2>6. 0 - n \in Int
    BY <2>1
  <2>. HIDE DEF x, y
  <2>. QED
    BY <2>3, <2>4, <2>5, <2>6, Issued20
<1>5. ASSUME NEW from \in Bs, NEW to \in Bs, NEW k \in Wallets, NEW n \in Erc20!Amount,
             Erc20!Execute(Erc20!ProcessTransferChecks(erc20, 3, from, to, k, n, p),
                           Erc20!ProcessTransfer(erc20, from, to, n))
      PROVE  Typed20' /\ Backed20'
  <2>1. /\ erc20.allowance \in [Cs -> Allowance20]
        /\ erc20' = [Erc20!Move(erc20, from, to, n) EXCEPT !.allowance = erc20.allowance]
    BY <1>5 DEF Erc20!ProcessTransfer, Erc20!Move, Typed20
  <2>. QED
    BY <1>5, <2>1, Transfer20, Move20Step
<1>6. ASSUME NEW a \in Cs, NEW m \in As, NEW owner \in Wallets, NEW spender \in Wallets,
             Erc20!Execute(Erc20!ProcessInitializeAllowanceChecks(erc20, 4, a, m, owner, p),
                           Erc20!ProcessInitializeAllowance(erc20, a, m, owner, spender))
      PROVE  Typed20' /\ Backed20'
  <2>. DEFINE x == [tag |-> 3, amount |-> 0, mint |-> m, owner |-> owner, spender |-> spender]
  <2>1. erc20' = [erc20 EXCEPT !.allowance[a] = x]
    BY <1>6, InitializeAllowance20
  <2>2. x \in Allowance20
    BY Erc20Constants DEF Allowance20
  <2>. HIDE DEF x
  <2>3. /\ erc20' \in [mint: [As -> Mint20], balance: [Bs -> Balance20],
                       allowance: [Cs -> Allowance20]]
        /\ erc20'.mint = erc20.mint /\ erc20'.balance = erc20.balance
    BY <2>1, <2>2 DEF Typed20
  <2>. QED
    BY <2>3, Elsewhere20 DEF Typed20
<1>7. ASSUME NEW a \in Cs, NEW k \in Wallets, NEW n \in Erc20!Amount,
             Erc20!ProcessApproveChecks(erc20, 2, a, k, p) = 0,
             erc20' = Erc20!ProcessApprove(erc20, a, n)
      PROVE  Typed20' /\ Backed20'
  <2>. DEFINE x == [erc20.allowance[a] EXCEPT !.amount = n]
  <2>1. erc20.allowance[a].tag = 3
    BY <1>7, Approve20
  <2>2. x \in Allowance20
    BY <2>1, Allow20 DEF Typed20
  <2>3. erc20' = [erc20 EXCEPT !.allowance[a] = x]
    BY <1>7 DEF Erc20!ProcessApprove, Typed20
  <2>. HIDE DEF x
  <2>4. /\ erc20' \in [mint: [As -> Mint20], balance: [Bs -> Balance20],
                       allowance: [Cs -> Allowance20]]
        /\ erc20'.mint = erc20.mint /\ erc20'.balance = erc20.balance
    BY <2>2, <2>3 DEF Typed20
  <2>. QED
    BY <2>4, Elsewhere20 DEF Typed20
<1>8. ASSUME NEW from \in Bs, NEW to \in Bs, NEW a \in Cs, NEW k \in Wallets,
             NEW n \in Erc20!Amount,
             Erc20!ProcessTransferFromChecks(erc20, 4, from, to, a, k, n, p) = 0,
             erc20' = Erc20!ProcessTransferFrom(erc20, from, to, a, n)
      PROVE  Typed20' /\ Backed20'
  <2>. DEFINE x == [erc20.allowance[a] EXCEPT !.amount = erc20.allowance[a].amount - n]
              c == [erc20.allowance EXCEPT ![a] = x]
  <2>1. /\ erc20.allowance[a].tag = 3
        /\ erc20.allowance[a].amount - n \in Erc20!Amount
    BY <1>8, TransferFrom20
  <2>2. x \in Allowance20
    BY <2>1, Allow20 DEF Typed20
  <2>3. erc20' = [Erc20!Move(erc20, from, to, n) EXCEPT !.allowance = c]
    BY <1>8 DEF Erc20!ProcessTransferFrom, Erc20!Move, Typed20
  <2>. HIDE DEF x
  <2>4. c \in [Cs -> Allowance20]
    BY <2>2 DEF Typed20
  <2>. HIDE DEF c
  <2>. QED
    BY <1>8, <2>3, <2>4, TransferFrom20, Move20Step
<1>. QED
  BY <1>1, <1>2, <1>3, <1>4, <1>5, <1>6, <1>7, <1>8 DEF Erc20!Process

-----------------------------------------------------------------------------
(* ERC-20: what is left of an approval is what the account still allows.   *)

Live20(a) == erc20.allowance[a].tag = 3

\* One allowance account for each mint, owner and spender.
Unique20 == \A a, b \in Cs : Live20(a) /\ Live20(b) /\ Erc20!Budget(a) = Erc20!Budget(b) => a = b

Approved20 ==
  /\ approved \in [As \X Wallets \X Wallets -> Int]
  /\ \A x \in As \X Wallets \X Wallets :
       (\A a \in Cs : Live20(a) => Erc20!Budget(a) # x) => approved[x] = 0
  /\ Unique20 => \A a \in Cs : Live20(a) => approved[Erc20!Budget(a)] = erc20.allowance[a].amount

Inv20 == Typed20 /\ Backed20 /\ Approved20

\* An account in use is for a mint, an owner and a spender.
LEMMA Budget20 ==
  ASSUME Typed20, NEW a \in Cs, Live20(a)
  PROVE  /\ Erc20!Budget(a) \in As \X Wallets \X Wallets
         /\ erc20.allowance[a].amount \in Nat
<1>1. erc20.allowance[a] \in
        [tag: {3}, amount: Erc20!Amount, mint: As, owner: Wallets, spender: Wallets]
  BY DEF Typed20, Live20, Allowance20, Erc20!NewAllowance
<1>. QED
  BY <1>1, Erc20Constants DEF Erc20!Budget

\* An instruction that writes no allowance.
LEMMA NoAllowance20 ==
  ASSUME Approved20, erc20'.allowance = erc20.allowance, approved' = approved
  PROVE  Approved20'
BY DEF Approved20, Unique20, Live20, Erc20!Budget

\* An amount that is written in an account in use, and left of its budget.
LEMMA Rewritten20 ==
  ASSUME Typed20, Approved20, NEW a \in Cs, Live20(a), NEW n \in Int, NEW left \in Int,
         Unique20 => left = n,
         erc20'.allowance = [erc20.allowance EXCEPT ![a] = [erc20.allowance[a] EXCEPT !.amount = n]],
         approved' = [approved EXCEPT ![Erc20!Budget(a)] = left]
  PROVE  Approved20'
<1>1. erc20.allowance \in [Cs -> Allowance20]
  BY DEF Typed20
<1>2. PICK r : r = erc20.allowance[a]
  OBVIOUS
<1>3. r \in [tag: {3}, amount: Erc20!Amount, mint: As, owner: Wallets, spender: Wallets]
  BY <1>1, <1>2 DEF Live20, Allowance20, Erc20!NewAllowance
<1>4. PICK q : q = [r EXCEPT !.amount = n]
  OBVIOUS
<1>5. q.tag = r.tag /\ q.mint = r.mint /\ q.owner = r.owner /\ q.spender = r.spender /\ q.amount = n
  BY <1>3, <1>4
<1>6. \A b \in Cs : erc20'.allowance[b] = IF b = a THEN q ELSE erc20.allowance[b]
  BY <1>1, <1>2, <1>4
<1>7. \A b \in Cs : /\ Live20(b)' <=> Live20(b)
                    /\ Erc20!Budget(b)' = Erc20!Budget(b)
  BY <1>2, <1>5, <1>6 DEF Live20, Erc20!Budget
<1>8. Unique20' <=> Unique20
  BY <1>7 DEF Unique20
<1>9. Erc20!Budget(a) \in As \X Wallets \X Wallets
  BY Budget20
<1>10. /\ approved' \in [As \X Wallets \X Wallets -> Int]
       /\ \A x \in As \X Wallets \X Wallets :
            approved'[x] = IF x = Erc20!Budget(a) THEN left ELSE approved[x]
  BY <1>9 DEF Approved20
<1>11. ASSUME NEW x \in As \X Wallets \X Wallets,
              \A b \in Cs : Live20(b)' => Erc20!Budget(b)' # x
       PROVE  approved'[x] = 0
  <2>1. Erc20!Budget(a) # x
    BY <1>7, <1>11
  <2>2. approved[x] = 0
    BY <1>7, <1>11 DEF Approved20
  <2>. QED
    BY <1>10, <2>1, <2>2
<1>12. ASSUME Unique20', NEW b \in Cs, Live20(b)'
       PROVE  approved'[Erc20!Budget(b)'] = erc20'.allowance[b].amount
  <2>1. Unique20 /\ Live20(b) /\ Erc20!Budget(b)' = Erc20!Budget(b)
    BY <1>7, <1>8, <1>12
  <2>2. Erc20!Budget(b) \in As \X Wallets \X Wallets
    BY <2>1, Budget20
  <2>3. CASE b = a
    BY <1>5, <1>6, <1>9, <1>10, <2>1, <2>3
  <2>4. CASE b # a
    <3>1. Erc20!Budget(b) # Erc20!Budget(a)
      BY <2>1, <2>4 DEF Unique20
    <3>2. approved[Erc20!Budget(b)] = erc20.allowance[b].amount
      BY <2>1 DEF Approved20
    <3>. QED
      BY <1>6, <1>10, <2>1, <2>2, <2>4, <3>1, <3>2
  <2>. QED
    BY <2>3, <2>4
<1>. QED
  BY <1>10, <1>11, <1>12 DEF Approved20

\* A fresh allowance.
LEMMA Opened20 ==
  ASSUME Typed20, Typed20', Approved20, NEW a \in Cs, ~Live20(a), Live20(a)',
         erc20'.allowance[a].amount = 0, approved' = approved,
         \A b \in Cs \ {a} : erc20'.allowance[b] = erc20.allowance[b]
  PROVE  Approved20'
<1>1. \A b \in Cs : Live20(b) => /\ b # a /\ Live20(b)'
                                 /\ Erc20!Budget(b)' = Erc20!Budget(b)
  BY DEF Live20, Erc20!Budget
<1>2. \A b \in Cs : Live20(b)' /\ b # a => Live20(b)
  BY DEF Live20
<1>3. Unique20' => Unique20
  BY <1>1 DEF Unique20
<1>4. ASSUME NEW x \in As \X Wallets \X Wallets, \A b \in Cs : Live20(b)' => Erc20!Budget(b)' # x
      PROVE  approved'[x] = 0
  BY <1>1, <1>4 DEF Approved20
<1>5. ASSUME Unique20', NEW b \in Cs, Live20(b)'
      PROVE  approved'[Erc20!Budget(b)'] = erc20'.allowance[b].amount
  <2>1. CASE b # a
    BY <1>1, <1>2, <1>3, <1>5, <2>1 DEF Approved20
  <2>2. CASE b = a
    <3>1. \A c \in Cs : Live20(c) => Erc20!Budget(c) # Erc20!Budget(a)'
      BY <1>1, <1>5, <2>2 DEF Unique20
    <3>2. Erc20!Budget(a)' \in As \X Wallets \X Wallets
      <4>1. erc20'.allowance[a] \in Allowance20 /\ erc20'.allowance[a].tag = 3
        BY DEF Typed20, Live20
      <4>2. erc20'.allowance[a] \in
              [tag: {3}, amount: Erc20!Amount, mint: As, owner: Wallets, spender: Wallets]
        BY <4>1 DEF Allowance20, Erc20!NewAllowance
      <4>. QED
        BY <4>2 DEF Erc20!Budget
    <3>. QED
      BY <2>2, <3>1, <3>2 DEF Approved20
  <2>. QED
    BY <2>1, <2>2
<1>. QED
  BY <1>4, <1>5 DEF Approved20

\* Approve and TransferFrom write the account and its budget, the others none.
LEMMA Approvals20 ==
  ASSUME Inv20, Typed20', NEW p, Erc20!Process(p)
  PROVE  Approved20'
<1>. USE DEF Erc20!Execute, Inv20
<1>1. ASSUME approved' = approved, erc20'.allowance = erc20.allowance PROVE Approved20'
  BY <1>1, NoAllowance20
<1>2. ASSUME NEW m \in As, NEW k, erc20' = Erc20!ProcessInitializeMint(erc20, m, k)
      PROVE  erc20'.allowance = erc20.allowance
  BY <1>2 DEF Erc20!ProcessInitializeMint, Typed20
<1>3. ASSUME NEW b, NEW m, NEW k, erc20' = Erc20!ProcessInitializeBalance(erc20, b, m, k)
      PROVE  erc20'.allowance = erc20.allowance
  BY <1>3 DEF Erc20!ProcessInitializeBalance, Typed20
<1>4. ASSUME NEW b, NEW m, NEW n, erc20' = Erc20!ProcessMintTo(erc20, m, b, n)
      PROVE  erc20'.allowance = erc20.allowance
  BY <1>4 DEF Erc20!ProcessMintTo, Typed20
<1>5. ASSUME NEW b, NEW m, NEW n, erc20' = Erc20!ProcessBurn(erc20, b, m, n)
      PROVE  erc20'.allowance = erc20.allowance
  BY <1>5 DEF Erc20!ProcessBurn, Typed20
<1>6. ASSUME NEW b, NEW c, NEW n, erc20' = Erc20!ProcessTransfer(erc20, b, c, n)
      PROVE  erc20'.allowance = erc20.allowance
  BY <1>6 DEF Erc20!ProcessTransfer, Erc20!Move, Typed20
<1>7. ASSUME NEW a \in Cs, NEW m \in As, NEW owner \in Wallets, NEW spender \in Wallets,
             Erc20!ProcessInitializeAllowanceChecks(erc20, 4, a, m, owner, p) = 0,
             erc20' = Erc20!ProcessInitializeAllowance(erc20, a, m, owner, spender),
             approved' = approved
      PROVE  Approved20'
  <2>1. /\ erc20.allowance[a] = Erc20!NewAllowance
        /\ erc20' = [erc20 EXCEPT !.allowance[a] =
             [tag |-> 3, amount |-> 0, mint |-> m, owner |-> owner, spender |-> spender]]
    BY <1>7, InitializeAllowance20
  <2>2. ~Live20(a)
    BY <2>1 DEF Live20, Erc20!NewAllowance
  <2>3. /\ Live20(a)' /\ erc20'.allowance[a].amount = 0
        /\ \A b \in Cs \ {a} : erc20'.allowance[b] = erc20.allowance[b]
    BY <2>1 DEF Live20, Typed20
  <2>. QED
    BY <1>7, <2>2, <2>3, Opened20
<1>8. ASSUME NEW a \in Cs, NEW k, NEW n \in Erc20!Amount,
             Erc20!ProcessApproveChecks(erc20, 2, a, k, p) = 0,
             erc20' = Erc20!ProcessApprove(erc20, a, n),
             approved' = [approved EXCEPT ![Erc20!Budget(a)] = n]
      PROVE  Approved20'
  <2>1. Live20(a) /\ n \in Int
    BY <1>8, Approve20, Erc20Constants DEF Live20
  <2>2. erc20'.allowance =
          [erc20.allowance EXCEPT ![a] = [erc20.allowance[a] EXCEPT !.amount = n]]
    BY <1>8 DEF Erc20!ProcessApprove, Typed20
  <2>. QED
    BY <1>8, <2>1, <2>2, Rewritten20
<1>9. ASSUME NEW from \in Bs, NEW to \in Bs, NEW a \in Cs, NEW k, NEW n \in Erc20!Amount,
             Erc20!ProcessTransferFromChecks(erc20, 4, from, to, a, k, n, p) = 0,
             erc20' = Erc20!ProcessTransferFrom(erc20, from, to, a, n),
             approved' = [approved EXCEPT ![Erc20!Budget(a)] = @ - n]
      PROVE  Approved20'
  <2>. DEFINE old == erc20.allowance[a].amount
              left == approved[Erc20!Budget(a)] - n
  <2>1. Live20(a) /\ n \in Int
    BY <1>9, TransferFrom20, Erc20Constants DEF Live20
  <2>2. old \in Int /\ Erc20!Budget(a) \in As \X Wallets \X Wallets
    BY <2>1, Budget20
  <2>3. approved[Erc20!Budget(a)] \in Int
    BY <2>2 DEF Approved20
  <2>4. old - n \in Int /\ left \in Int
    BY <2>1, <2>2, <2>3
  <2>5. Unique20 => left = old - n
    BY <2>1 DEF Approved20
  <2>6. erc20'.allowance =
          [erc20.allowance EXCEPT ![a] = [erc20.allowance[a] EXCEPT !.amount = old - n]]
    BY <1>9 DEF Erc20!ProcessTransferFrom, Erc20!Move, Typed20
  <2>7. approved' = [approved EXCEPT ![Erc20!Budget(a)] = left]
    BY <1>9
  <2>. HIDE DEF left, old
  <2>. QED
    BY <2>1, <2>4, <2>5, <2>6, <2>7, Rewritten20
<1>. QED
  BY <1>1, <1>2, <1>3, <1>4, <1>5, <1>6, <1>7, <1>8, <1>9 DEF Erc20!Process

\* ERC-20 keeps its books.
LEMMA Next20 == Inv20 /\ Erc20!Next => Inv20'
BY Step20, Approvals20 DEF Erc20!Next, Inv20

\* Nothing is issued or approved at first.
LEMMA Init20 == Erc20!Init => Inv20
<1>. SUFFICES ASSUME Erc20!Init PROVE Inv20
  OBVIOUS
<1>1. Typed20
  BY DEF Erc20!Init, Typed20, Mint20, Balance20, Allowance20
<1>2. ASSUME NEW m \in As PROVE erc20.mint[m].supply = Of20(m)
  <2>. DEFINE f == [b \in Bs |-> Erc20!Holding(erc20.balance[b], m)]
  <2>1. \A b \in Bs : f[b] = 0
    BY DEF Erc20!Init, Erc20!NewBalance, Erc20!Holding
  <2>. HIDE DEF f
  <2>2. SumFunctionOnSet(f, Bs) = 0
    BY <2>1, Erc20Constants, SumZero
  <2>. QED
    BY <2>2 DEF Of20, f, Erc20!Init, Erc20!NewMint
<1>3. \A a \in Cs : ~Live20(a)
  BY DEF Erc20!Init, Erc20!NewAllowance, Live20
<1>4. Approved20
  BY <1>3 DEF Approved20, Erc20!Init
<1>. QED
  BY <1>1, <1>2, <1>4 DEF Inv20, Backed20

\* What is left of an approval is not negative.
LEMMA Bounded20 == Inv20 => Erc20!ApprovalBoundsSpending
<1>. SUFFICES ASSUME Inv20, Unique20, NEW x \in As \X Wallets \X Wallets PROVE approved[x] >= 0
  BY DEF Erc20!ApprovalBoundsSpending, Inv20, Approved20, Unique20, Live20
<1>1. CASE \A a \in Cs : Live20(a) => Erc20!Budget(a) # x
  BY <1>1 DEF Inv20, Approved20
<1>2. ASSUME NEW a \in Cs, Live20(a), Erc20!Budget(a) = x PROVE approved[x] >= 0
  BY <1>2, Budget20 DEF Inv20, Approved20
<1>. QED
  BY <1>1, <1>2

-----------------------------------------------------------------------------
(* ERC-1155: what the accounts may hold, and the numbers of token types.   *)

Collection55 ==
  {Erc1155!NewCollection} \cup [tag: {1}, authority: Wallets, nextID: Nat]
TokenType55 ==
  {Erc1155!NewTokenType} \cup
  [tag: {2}, collection: Roots, id: Nat, supply: Erc1155!Amount]
Balance55 ==
  {Erc1155!NewBalance} \cup
  [tag: {3}, collection: Roots, id: Nat, owner: Wallets, amount: Erc1155!Amount]
Approval55 ==
  {Erc1155!NewApproval} \cup
  [tag: {4}, collection: Roots, owner: Wallets, operator: Wallets, approved: BOOLEAN]

Typed55 ==
  erc1155 \in [collection: [Roots -> Collection55], tokenType: [As -> TokenType55],
               balance: [Bs -> Balance55], approval: [Cs -> Approval55]]

\* A number the collection has given out.
Numbered(r) ==
  LET c == erc1155.collection[r.collection] IN c.tag = 1 /\ r.id < c.nextID

SameToken(r, q) == r.collection = q.collection /\ r.id = q.id

\* Token types and balances have numbers their collection gave out, each to
\* one token type.
Numbers55 ==
  /\ \A t \in As : erc1155.tokenType[t].tag = 2 => Numbered(erc1155.tokenType[t])
  /\ \A b \in Bs : erc1155.balance[b].tag = 3 => Numbered(erc1155.balance[b])
  /\ \A t, u \in As :
       /\ erc1155.tokenType[t].tag = 2 /\ erc1155.tokenType[u].tag = 2
       /\ SameToken(erc1155.tokenType[t], erc1155.tokenType[u])
       => t = u

\* What the balance accounts hold of the token type r together.
Of55(r) == SumFunctionOnSet([b \in Bs |-> Erc1155!Holding(erc1155.balance[b], r)], Bs)

Backed55 ==
  \A t \in As : erc1155.tokenType[t].tag = 2 =>
    erc1155.tokenType[t].supply = Of55(erc1155.tokenType[t])

\* An approval that stands was given and not taken back.
Granted55 ==
  \A a \in Cs : LET r == erc1155.approval[a] IN
    r.tag = 4 /\ r.approved => <<a, r.collection, r.owner, r.operator>> \in granted

Inv55 == Typed55 /\ Numbers55 /\ Backed55 /\ Granted55

\* A chain of checks passes when each of them does.
LEMMA Erc1155First == \A a, b : Erc1155!??(a, b) = 0 <=> a = 0 /\ b = 0
BY DEF Erc1155!??

\* What may be used of the assumptions.
LEMMA Erc1155Constants ==
  /\ Erc1155U64 \in Nat \ {0} /\ IsFiniteSet(Bs) /\ 0 \in Erc1155!Amount
  /\ \A n \in Erc1155!Amount : n \in Nat
BY ProgramsAssumption DEF Erc1155!Erc1155Assumption, Erc1155!Amount, Erc1155!IsFiniteSet, IsFiniteSet

\* A sum that is not below its operand did not wrap.
LEMMA Erc1155Fits ==
  ASSUME NEW a \in Erc1155!Amount, NEW b \in Erc1155!Amount,
         Erc1155!RequireNoWrap(a, b, Erc1155U64, 12) = 0
  PROVE  a + b \in Erc1155!Amount
<1>1. (a + b) % Erc1155U64 >= a
  BY DEF Erc1155!RequireNoWrap, Erc1155!Plus, Erc1155!Require
<1>2. CASE a + b < Erc1155U64
  BY <1>2, Erc1155Constants DEF Erc1155!Amount
<1>3. CASE a + b >= Erc1155U64
  <2>1. (a + b) % Erc1155U64 = a + b - Erc1155U64
    BY <1>3, Erc1155Constants DEF Erc1155!Amount
  <2>. QED
    BY <1>1, <2>1, <1>3, Erc1155Constants DEF Erc1155!Amount
<1>. QED
  BY <1>2, <1>3, Erc1155Constants DEF Erc1155!Amount

\* An account holds a natural number of anything.
LEMMA Holding55 == ASSUME NEW d \in Balance55, NEW r PROVE Erc1155!Holding(d, r) \in Nat
<1>1. CASE d = Erc1155!NewBalance
  BY <1>1 DEF Erc1155!NewBalance, Erc1155!Holding
<1>2. CASE d.amount \in Erc1155!Amount
  BY <1>2, Erc1155Constants DEF Erc1155!Holding
<1>. QED
  BY <1>1, <1>2 DEF Balance55

\* Two balances that change together change nothing that is held.
LEMMA Move55 ==
  ASSUME Typed55, Typed55', NEW from \in Bs, NEW to \in Bs, from # to,
         \A c \in Bs \ {from, to} : erc1155'.balance[c] = erc1155.balance[c],
         NEW r,
         Erc1155!Holding(erc1155'.balance[from], r) + Erc1155!Holding(erc1155'.balance[to], r) =
         Erc1155!Holding(erc1155.balance[from], r) + Erc1155!Holding(erc1155.balance[to], r)
  PROVE  SumFunctionOnSet([c \in Bs |-> Erc1155!Holding(erc1155'.balance[c], r)], Bs) = Of55(r)
<1>. DEFINE f == [c \in Bs |-> Erc1155!Holding(erc1155.balance[c], r)]
            h == [c \in Bs |-> Erc1155!Holding(erc1155'.balance[c], r)]
<1>1. \A c \in Bs : f[c] \in Int /\ h[c] \in Int
  BY Holding55 DEF Typed55
<1>2. (\A c \in Bs \ {from, to} : f[c] = h[c]) /\ h[from] + h[to] = f[from] + f[to]
  OBVIOUS
<1>3. Of55(r) = SumFunctionOnSet(f, Bs)
  BY DEF Of55
<1>. HIDE DEF f, h
<1>4. SumFunctionOnSet(h, Bs) = SumFunctionOnSet(f, Bs) - f[from] - f[to] + h[from] + h[to]
  BY <1>1, <1>2, Erc1155Constants, SumMove
<1>5. SumFunctionOnSet(f, Bs) \in Int
  BY <1>1, Erc1155Constants, SumInt
<1>. QED
  BY <1>1, <1>2, <1>3, <1>4, <1>5 DEF h

\* One balance that changes.
LEMMA Change55 ==
  ASSUME Typed55, Typed55', NEW b \in Bs,
         \A c \in Bs \ {b} : erc1155'.balance[c] = erc1155.balance[c], NEW r
  PROVE  /\ Of55(r) \in Int
         /\ SumFunctionOnSet([c \in Bs |-> Erc1155!Holding(erc1155'.balance[c], r)], Bs) =
              Of55(r) - Erc1155!Holding(erc1155.balance[b], r) + Erc1155!Holding(erc1155'.balance[b], r)
<1>. DEFINE f == [c \in Bs |-> Erc1155!Holding(erc1155.balance[c], r)]
            h == [c \in Bs |-> Erc1155!Holding(erc1155'.balance[c], r)]
<1>1. \A c \in Bs : f[c] \in Int /\ h[c] \in Int
  BY Holding55 DEF Typed55
<1>2. \A c \in Bs \ {b} : f[c] = h[c]
  OBVIOUS
<1>3. /\ f[b] = Erc1155!Holding(erc1155.balance[b], r)
      /\ h[b] = Erc1155!Holding(erc1155'.balance[b], r)
      /\ Of55(r) = SumFunctionOnSet(f, Bs)
  BY DEF Of55
<1>. HIDE DEF f, h
<1>4. SumFunctionOnSet(h, Bs) = SumFunctionOnSet(f, Bs) - f[b] + h[b]
  BY <1>1, <1>2, Erc1155Constants, SumChange
<1>5. SumFunctionOnSet(f, Bs) \in Int
  BY <1>1, Erc1155Constants, SumInt
<1>. QED
  BY <1>3, <1>4, <1>5 DEF h

\* The program adds up as everybody does.
LEMMA Sum55 == Erc1155!SupplyIsBalances <=> Backed55
<1>1. \A f, S : Erc1155!SumFunctionOnSet(f, S) = SumFunctionOnSet(f, S)
  BY DEF Erc1155!SumFunctionOnSet, Erc1155!FoldFunctionOnSet, Erc1155!MapThenFoldSet,
         SumFunctionOnSet, FoldFunctionOnSet, MapThenFoldSet
<1>. QED
  BY <1>1 DEF Erc1155!SupplyIsBalances, Backed55, Of55

-----------------------------------------------------------------------------
(* What the instructions of ERC-1155 check.                                *)

\* A fresh collection.
LEMMA InitializeCollection55 ==
  ASSUME NEW c, NEW p, Erc1155!ProcessInitializeCollectionChecks(erc1155, 1, c, p) = 0
  PROVE  erc1155.collection[c] = Erc1155!NewCollection
BY Erc1155First DEF Erc1155!ProcessInitializeCollectionChecks, Erc1155!Owned,
   Erc1155!RequireOwned, Erc1155!Require

\* A fresh token type of a live collection.
LEMMA CreateTokenType55 ==
  ASSUME NEW t, NEW c, NEW k, NEW p,
         Erc1155!ProcessCreateTokenTypeChecks(erc1155, 3, t, c, k, p) = 0
  PROVE  erc1155.collection[c].tag = 1 /\ erc1155.tokenType[t] = Erc1155!NewTokenType
BY Erc1155First DEF Erc1155!ProcessCreateTokenTypeChecks, Erc1155!Owned,
   Erc1155!RequireOwned, Erc1155!Tagged, Erc1155!Require

\* A fresh balance of a live token type.
LEMMA InitializeBalance55 ==
  ASSUME NEW b, NEW t, NEW p, Erc1155!ProcessInitializeBalanceChecks(erc1155, 2, b, t, p) = 0
  PROVE  erc1155.tokenType[t].tag = 2 /\ erc1155.balance[b] = Erc1155!NewBalance
BY Erc1155First DEF Erc1155!ProcessInitializeBalanceChecks, Erc1155!Owned,
   Erc1155!RequireOwned, Erc1155!Tagged, Erc1155!Require

\* The amounts of token types and balances.
LEMMA Amounts55 ==
  ASSUME Typed55
  PROVE  /\ \A t \in As : erc1155.tokenType[t].supply \in Erc1155!Amount
         /\ \A b \in Bs : erc1155.balance[b].amount \in Erc1155!Amount
<1>1. ASSUME NEW t \in As PROVE erc1155.tokenType[t].supply \in Erc1155!Amount
  <2>1. erc1155.tokenType[t] \in TokenType55
    BY DEF Typed55
  <2>. QED
    BY <2>1, Erc1155Constants DEF TokenType55, Erc1155!NewTokenType
<1>2. ASSUME NEW b \in Bs PROVE erc1155.balance[b].amount \in Erc1155!Amount
  <2>1. erc1155.balance[b] \in Balance55
    BY DEF Typed55
  <2>. QED
    BY <2>1, Erc1155Constants DEF Balance55, Erc1155!NewBalance
<1>. QED
  BY <1>1, <1>2

\* What is minted fits and goes to a balance of the token type.
LEMMA MintTo55 ==
  ASSUME Typed55, NEW c, NEW t \in As, NEW b \in Bs, NEW k, NEW n \in Erc1155!Amount, NEW p,
         Erc1155!ProcessMintToChecks(erc1155, 4, c, t, b, k, n, p) = 0
  PROVE  /\ erc1155.tokenType[t].tag = 2 /\ erc1155.balance[b].tag = 3
         /\ SameToken(erc1155.balance[b], erc1155.tokenType[t])
         /\ erc1155.tokenType[t].supply + n \in Erc1155!Amount
         /\ erc1155.balance[b].amount + n \in Erc1155!Amount
<1>1. /\ erc1155.tokenType[t].tag = 2 /\ erc1155.balance[b].tag = 3
      /\ SameToken(erc1155.balance[b], erc1155.tokenType[t])
      /\ Erc1155!RequireNoWrap(erc1155.tokenType[t].supply, n, Erc1155U64, 12) = 0
      /\ Erc1155!RequireNoWrap(erc1155.balance[b].amount, n, Erc1155U64, 12) = 0
  BY Erc1155First DEF Erc1155!ProcessMintToChecks, Erc1155!Owned, Erc1155!RequireOwned,
     Erc1155!Tagged, Erc1155!SameToken, Erc1155!Require, SameToken
<1>. QED
  BY <1>1, Amounts55, Erc1155Fits

\* What is burnt is there and the owner signs.
LEMMA Burn55 ==
  ASSUME Typed55, NEW t \in As, NEW b \in Bs, NEW k, NEW n \in Erc1155!Amount, NEW p,
         Erc1155!ProcessBurnChecks(erc1155, 3, t, b, k, n, p) = 0
  PROVE  /\ erc1155.tokenType[t].tag = 2 /\ erc1155.balance[b].tag = 3
         /\ SameToken(erc1155.balance[b], erc1155.tokenType[t])
         /\ erc1155.tokenType[t].supply - n \in Erc1155!Amount
         /\ erc1155.balance[b].amount - n \in Erc1155!Amount
         /\ erc1155.balance[b].owner \in p.signers
<1>1. /\ erc1155.tokenType[t].tag = 2 /\ erc1155.balance[b].tag = 3
      /\ SameToken(erc1155.balance[b], erc1155.tokenType[t])
      /\ erc1155.tokenType[t].supply >= n /\ erc1155.balance[b].amount >= n
      /\ erc1155.balance[b].owner \in p.signers
  BY Erc1155First DEF Erc1155!ProcessBurnChecks, Erc1155!Owned, Erc1155!RequireOwned,
     Erc1155!Tagged, Erc1155!SameToken, Erc1155!RequireAuthority, Erc1155!RequireSigner,
     Erc1155!Require, SameToken
<1>. QED
  BY <1>1, Amounts55, Erc1155Constants DEF Erc1155!Amount

\* What is transferred is there, fits, and the owner signs.
LEMMA Transfer55 ==
  ASSUME Typed55, NEW from \in Bs, NEW to \in Bs, NEW k, NEW n \in Erc1155!Amount, NEW p,
         Erc1155!ProcessTransferChecks(erc1155, 3, from, to, k, n, p) = 0
  PROVE  /\ from # to /\ erc1155.balance[from].tag = 3 /\ erc1155.balance[to].tag = 3
         /\ SameToken(erc1155.balance[from], erc1155.balance[to])
         /\ erc1155.balance[from].amount - n \in Erc1155!Amount
         /\ erc1155.balance[to].amount + n \in Erc1155!Amount
         /\ erc1155.balance[from].owner \in p.signers
<1>1. /\ from # to /\ erc1155.balance[from].tag = 3 /\ erc1155.balance[to].tag = 3
      /\ SameToken(erc1155.balance[from], erc1155.balance[to])
      /\ erc1155.balance[from].amount >= n
      /\ erc1155.balance[from].owner \in p.signers
      /\ Erc1155!RequireNoWrap(erc1155.balance[to].amount, n, Erc1155U64, 12) = 0
  BY Erc1155First DEF Erc1155!ProcessTransferChecks, Erc1155!Owned, Erc1155!RequireOwned,
     Erc1155!Tagged, Erc1155!SameToken, Erc1155!RequireAuthority, Erc1155!RequireSigner,
     Erc1155!Require, SameToken
<1>2. erc1155.balance[from].amount - n \in Erc1155!Amount
  BY <1>1, Amounts55, Erc1155Constants DEF Erc1155!Amount
<1>. QED
  BY <1>1, <1>2, Amounts55, Erc1155Fits

\* For an owner, an operator signs who has the owner's approval.
LEMMA TransferFrom55 ==
  ASSUME Typed55, NEW from \in Bs, NEW to \in Bs, NEW a \in Cs, NEW k,
         NEW n \in Erc1155!Amount, NEW p,
         Erc1155!ProcessTransferFromChecks(erc1155, 4, from, to, a, k, n, p) = 0
  PROVE  /\ from # to /\ erc1155.balance[from].tag = 3 /\ erc1155.balance[to].tag = 3
         /\ SameToken(erc1155.balance[from], erc1155.balance[to])
         /\ erc1155.balance[from].amount - n \in Erc1155!Amount
         /\ erc1155.balance[to].amount + n \in Erc1155!Amount
         /\ erc1155.approval[a].tag = 4 /\ erc1155.approval[a].approved
         /\ erc1155.approval[a].collection = erc1155.balance[from].collection
         /\ erc1155.approval[a].owner = erc1155.balance[from].owner
         /\ erc1155.approval[a].operator \in p.signers
<1>1. /\ from # to /\ erc1155.balance[from].tag = 3 /\ erc1155.balance[to].tag = 3
      /\ SameToken(erc1155.balance[from], erc1155.balance[to])
      /\ erc1155.approval[a].tag = 4 /\ erc1155.approval[a].approved
      /\ erc1155.approval[a].collection = erc1155.balance[from].collection
      /\ erc1155.approval[a].owner = erc1155.balance[from].owner
      /\ erc1155.approval[a].operator \in p.signers
      /\ erc1155.balance[from].amount >= n
      /\ Erc1155!RequireNoWrap(erc1155.balance[to].amount, n, Erc1155U64, 12) = 0
  BY Erc1155First DEF Erc1155!ProcessTransferFromChecks, Erc1155!Owned, Erc1155!RequireOwned,
     Erc1155!Tagged, Erc1155!SameToken, Erc1155!RequireAuthority, Erc1155!RequireSigner,
     Erc1155!Require, SameToken
<1>2. erc1155.balance[from].amount - n \in Erc1155!Amount
  BY <1>1, Amounts55, Erc1155Constants DEF Erc1155!Amount
<1>. QED
  BY <1>1, <1>2, Amounts55, Erc1155Fits

\* A fresh approval.
LEMMA InitializeApproval55 ==
  ASSUME NEW a, NEW owner, NEW operator, NEW p,
         Erc1155!ProcessInitializeApprovalChecks(erc1155, 3, a, owner, operator, p) = 0
  PROVE  erc1155.approval[a] = Erc1155!NewApproval
BY Erc1155First DEF Erc1155!ProcessInitializeApprovalChecks, Erc1155!Owned,
   Erc1155!RequireOwned, Erc1155!Require

\* An approval in use.
LEMMA SetApproval55 ==
  ASSUME NEW a, NEW k, NEW p, Erc1155!ProcessSetApprovalChecks(erc1155, 2, a, k, p) = 0
  PROVE  erc1155.approval[a].tag = 4
BY Erc1155First DEF Erc1155!ProcessSetApprovalChecks, Erc1155!Owned,
   Erc1155!RequireOwned, Erc1155!Tagged, Erc1155!Require

-----------------------------------------------------------------------------
(* ERC-1155: supplies and balances together.                               *)

\* The data that is written is typed.
Data55 == [collection: [Roots -> Collection55], tokenType: [As -> TokenType55],
           balance: [Bs -> Balance55], approval: [Cs -> Approval55]]

\* Amounts that change leave the numbers as they are.
LEMMA SameNumbers55 ==
  ASSUME Numbers55, erc1155'.collection = erc1155.collection,
         \A t \in As : /\ erc1155'.tokenType[t].tag = erc1155.tokenType[t].tag
                       /\ SameToken(erc1155'.tokenType[t], erc1155.tokenType[t]),
         \A b \in Bs : /\ erc1155'.balance[b].tag = erc1155.balance[b].tag
                       /\ SameToken(erc1155'.balance[b], erc1155.balance[b])
  PROVE  Numbers55'
BY DEF Numbers55, Numbered, SameToken

\* A token type after MintTo or Burn.
LEMMA Issue55 ==
  ASSUME NEW d \in TokenType55, d.tag = 2, NEW n \in Erc1155!Amount
  PROVE  /\ [d EXCEPT !.supply = n] \in TokenType55
         /\ [d EXCEPT !.supply = n].supply = n /\ [d EXCEPT !.supply = n].tag = 2
         /\ SameToken([d EXCEPT !.supply = n], d)
         /\ d.supply \in Int /\ n \in Int
<1>1. d \in [tag: {2}, collection: Roots, id: Nat, supply: Erc1155!Amount]
  BY DEF TokenType55, Erc1155!NewTokenType
<1>2. d.supply \in Erc1155!Amount
  BY <1>1
<1>3. d.supply \in Nat /\ n \in Nat
  BY <1>2, Erc1155Constants
<1>4. [d EXCEPT !.supply = n] \in [tag: {2}, collection: Roots, id: Nat, supply: Erc1155!Amount]
  BY <1>1
<1>. QED
  BY <1>1, <1>3, <1>4 DEF TokenType55, SameToken

\* A balance after any of them.
LEMMA Paid55 ==
  ASSUME NEW d \in Balance55, d.tag = 3, NEW n \in Erc1155!Amount
  PROVE  /\ [d EXCEPT !.amount = n] \in Balance55
         /\ [d EXCEPT !.amount = n].tag = 3 /\ SameToken([d EXCEPT !.amount = n], d)
         /\ [d EXCEPT !.amount = n].amount = n
         /\ d.amount \in Int /\ n \in Int
         /\ \A r : /\ Erc1155!Holding([d EXCEPT !.amount = n], r) = IF SameToken(d, r) THEN n ELSE 0
                   /\ Erc1155!Holding(d, r) = IF SameToken(d, r) THEN d.amount ELSE 0
<1>1. d \in [tag: {3}, collection: Roots, id: Nat, owner: Wallets, amount: Erc1155!Amount]
  BY DEF Balance55, Erc1155!NewBalance
<1>2. d.amount \in Erc1155!Amount
  BY <1>1
<1>3. d.amount \in Nat /\ n \in Nat
  BY <1>2, Erc1155Constants
<1>4. [d EXCEPT !.amount = n] \in
        [tag: {3}, collection: Roots, id: Nat, owner: Wallets, amount: Erc1155!Amount]
  BY <1>1
<1>. QED
  BY <1>1, <1>3, <1>4 DEF Balance55, Erc1155!Holding, SameToken

\* What a sum is of token types that are alike.
LEMMA Alike55 ==
  ASSUME NEW r, NEW q, SameToken(r, q)
  PROVE  \A d : Erc1155!Holding(d, r) = Erc1155!Holding(d, q)
BY DEF Erc1155!Holding, SameToken

\* MintTo and Burn write a token type and a balance of it by the same amount.
LEMMA Issued55 ==
  ASSUME Typed55, Numbers55, Backed55, NEW t \in As, NEW b \in Bs, NEW n \in Int,
         NEW u \in TokenType55, NEW w \in Balance55,
         erc1155.tokenType[t].tag = 2, erc1155.balance[b].tag = 3, u.tag = 2, w.tag = 3,
         SameToken(erc1155.balance[b], erc1155.tokenType[t]),
         SameToken(u, erc1155.tokenType[t]), SameToken(w, erc1155.balance[b]),
         u.supply = erc1155.tokenType[t].supply + n, w.amount = erc1155.balance[b].amount + n,
         erc1155' = [erc1155 EXCEPT !.tokenType[t] = u, !.balance[b] = w]
  PROVE  Typed55' /\ Numbers55' /\ Backed55'
<1>. DEFINE d == erc1155.tokenType[t]
            e == erc1155.balance[b]
<1>1. d \in TokenType55 /\ e \in Balance55
  BY DEF Typed55
<1>2. d.supply \in Int /\ e.amount \in Int
  BY Amounts55, Erc1155Constants
<1>3. \A r : /\ Erc1155!Holding(w, r) = IF SameToken(e, r) THEN w.amount ELSE 0
            /\ Erc1155!Holding(e, r) = IF SameToken(e, r) THEN e.amount ELSE 0
  BY DEF Erc1155!Holding, SameToken
<1>. DEFINE types == [erc1155.tokenType EXCEPT ![t] = u]
            after == [erc1155.balance EXCEPT ![b] = w]
<1>4. erc1155' = [collection |-> erc1155.collection, tokenType |-> types,
                  balance |-> after, approval |-> erc1155.approval]
  BY DEF Typed55
<1>9. /\ types \in [As -> TokenType55] /\ after \in [Bs -> Balance55]
      /\ \A v \in As : types[v] = IF v = t THEN u ELSE erc1155.tokenType[v]
      /\ \A c \in Bs : after[c] = IF c = b THEN w ELSE erc1155.balance[c]
  BY <1>2, <1>3 DEF Typed55
<1>. HIDE DEF types, after
<1>5. /\ erc1155' \in Data55
      /\ erc1155'.collection = erc1155.collection
      /\ \A v \in As : erc1155'.tokenType[v] = IF v = t THEN u ELSE erc1155.tokenType[v]
      /\ \A c \in Bs : erc1155'.balance[c] = IF c = b THEN w ELSE erc1155.balance[c]
  <2>1. /\ erc1155.collection \in [Roots -> Collection55]
        /\ erc1155.approval \in [Cs -> Approval55]
    BY DEF Typed55
  <2>2. [collection |-> erc1155.collection, tokenType |-> types, balance |-> after,
         approval |-> erc1155.approval] \in Data55
    BY <1>9, <2>1 DEF Data55
  <2>. DEFINE s == [collection |-> erc1155.collection, tokenType |-> types, balance |-> after,
                    approval |-> erc1155.approval]
  <2>3. s.collection = erc1155.collection /\ s.tokenType = types /\ s.balance = after
    OBVIOUS
  <2>4. erc1155' = s
    BY <1>4
  <2>. HIDE DEF s
  <2>5. s \in Data55
    BY <2>2 DEF s
  <2>. QED
    BY <1>9, <2>3, <2>4, <2>5
<1>6. Typed55'
  BY <1>5 DEF Typed55, Data55
<1>7. Numbers55'
  <2>1. \A v \in As : /\ erc1155'.tokenType[v].tag = erc1155.tokenType[v].tag
                      /\ SameToken(erc1155'.tokenType[v], erc1155.tokenType[v])
    BY <1>2, <1>5 DEF SameToken
  <2>2. \A c \in Bs : /\ erc1155'.balance[c].tag = erc1155.balance[c].tag
                      /\ SameToken(erc1155'.balance[c], erc1155.balance[c])
    BY <1>3, <1>5 DEF SameToken
  <2>. QED
    BY <1>5, <2>1, <2>2, SameNumbers55
<1>8. ASSUME NEW v \in As, erc1155'.tokenType[v].tag = 2
      PROVE  erc1155'.tokenType[v].supply = Of55(erc1155.tokenType[v])'
  <2>. DEFINE r == erc1155.tokenType[v]
  <2>1. SameToken(erc1155'.tokenType[v], r) /\ r.tag = 2
    BY <1>2, <1>5, <1>8 DEF SameToken
  <2>2. Of55(erc1155.tokenType[v])' =
          SumFunctionOnSet([c \in Bs |-> Erc1155!Holding(erc1155'.balance[c], r)], Bs)
    BY <2>1, Alike55 DEF Of55
  <2>3. Of55(r) \in Int /\
        Of55(erc1155.tokenType[v])' = Of55(r) - Erc1155!Holding(e, r) + Erc1155!Holding(w, r)
    BY <1>5, <1>6, <2>2, Change55
  <2>4. r.supply = Of55(r)
    BY <2>1 DEF Backed55
  <2>5. SameToken(e, r) <=> v = t
    BY <2>1 DEF Numbers55, SameToken
  <2>6. Of55(r) \in Int /\ n \in Int
    BY <2>3
  <2>7. CASE v = t
    <3>1. /\ Erc1155!Holding(e, r) = e.amount /\ Erc1155!Holding(w, r) = e.amount + n
          /\ erc1155'.tokenType[v].supply = r.supply + n
      BY <1>3, <1>5, <2>5, <2>7
    <3>. QED
      BY <1>2, <2>3, <2>4, <2>6, <3>1
  <2>8. CASE v # t
    <3>1. /\ Erc1155!Holding(e, r) = 0 /\ Erc1155!Holding(w, r) = 0 /\ erc1155'.tokenType[v] = r
      BY <1>3, <1>5, <2>5, <2>8
    <3>. QED
      BY <2>3, <2>4, <3>1
  <2>. QED
    BY <2>7, <2>8
<1>. QED
  BY <1>6, <1>7, <1>8 DEF Backed55

\* What a transfer takes from one balance it gives to another of the token type.
LEMMA Moved55 ==
  ASSUME Typed55, Numbers55, Backed55, NEW from \in Bs, NEW to \in Bs, from # to,
         NEW n \in Erc1155!Amount,
         erc1155.balance[from].tag = 3, erc1155.balance[to].tag = 3,
         SameToken(erc1155.balance[from], erc1155.balance[to]),
         erc1155.balance[from].amount - n \in Erc1155!Amount,
         erc1155.balance[to].amount + n \in Erc1155!Amount,
         erc1155' = Erc1155!Move(erc1155, from, to, n)
  PROVE  /\ Typed55' /\ Numbers55' /\ Backed55'
         /\ erc1155'.approval = erc1155.approval
         /\ \A b \in Bs : erc1155'.balance[b].amount < erc1155.balance[b].amount => b = from
<1>. DEFINE d == erc1155.balance[from]
            e == erc1155.balance[to]
            x == [d EXCEPT !.amount = d.amount - n]
            y == [e EXCEPT !.amount = e.amount + n]
            after == [erc1155.balance EXCEPT ![from] = x, ![to] = y]
<1>1. d \in Balance55 /\ e \in Balance55 /\ n \in Nat
  BY Erc1155Constants DEF Typed55
<1>2. /\ x \in Balance55 /\ x.tag = 3 /\ SameToken(x, d) /\ d.amount \in Int
      /\ \A r : /\ Erc1155!Holding(x, r) = IF SameToken(d, r) THEN d.amount - n ELSE 0
                /\ Erc1155!Holding(d, r) = IF SameToken(d, r) THEN d.amount ELSE 0
  BY <1>1, Paid55
<1>3. /\ y \in Balance55 /\ y.tag = 3 /\ SameToken(y, e) /\ e.amount \in Int
      /\ y.amount = e.amount + n
      /\ \A r : /\ Erc1155!Holding(y, r) = IF SameToken(e, r) THEN e.amount + n ELSE 0
                /\ Erc1155!Holding(e, r) = IF SameToken(e, r) THEN e.amount ELSE 0
  BY <1>1, Paid55
<1>4. erc1155' = [collection |-> erc1155.collection, tokenType |-> erc1155.tokenType,
                  balance |-> after, approval |-> erc1155.approval]
  BY DEF Erc1155!Move, Typed55
<1>. HIDE DEF x, y
<1>5. /\ after \in [Bs -> Balance55] /\ after[from] = x /\ after[to] = y
      /\ \A b \in Bs \ {from, to} : after[b] = erc1155.balance[b]
  BY <1>2, <1>3 DEF Typed55
<1>. HIDE DEF after
<1>6. /\ erc1155'.collection = erc1155.collection /\ erc1155'.tokenType = erc1155.tokenType
      /\ erc1155'.balance = after /\ erc1155'.approval = erc1155.approval
  BY <1>4
<1>7. Typed55'
  <2>1. /\ erc1155.collection \in [Roots -> Collection55] /\ erc1155.tokenType \in [As -> TokenType55]
        /\ erc1155.approval \in [Cs -> Approval55]
    BY DEF Typed55
  <2>2. [collection |-> erc1155.collection, tokenType |-> erc1155.tokenType, balance |-> after,
         approval |-> erc1155.approval] \in Data55
    BY <1>5, <2>1 DEF Data55
  <2>. QED
    BY <1>4, <2>2 DEF Typed55, Data55
<1>8. Numbers55'
  <2>1. \A b \in Bs : /\ erc1155'.balance[b].tag = erc1155.balance[b].tag
                      /\ SameToken(erc1155'.balance[b], erc1155.balance[b])
    BY <1>2, <1>3, <1>5, <1>6 DEF SameToken
  <2>2. \A t \in As : SameToken(erc1155'.tokenType[t], erc1155.tokenType[t])
    BY <1>6 DEF SameToken
  <2>. QED
    BY <1>6, <2>1, <2>2, SameNumbers55
<1>9. ASSUME NEW t \in As, erc1155'.tokenType[t].tag = 2
      PROVE  erc1155'.tokenType[t].supply = Of55(erc1155.tokenType[t])'
  <2>. DEFINE r == erc1155.tokenType[t]
  <2>1. erc1155'.tokenType[t] = r /\ r.tag = 2
    BY <1>6, <1>9
  <2>2. SameToken(d, r) <=> SameToken(e, r)
    BY DEF SameToken
  <2>3. Erc1155!Holding(x, r) + Erc1155!Holding(y, r) =
          Erc1155!Holding(d, r) + Erc1155!Holding(e, r)
    BY <1>1, <1>2, <1>3, <2>2
  <2>. HIDE DEF r
  <2>4. Of55(r) = SumFunctionOnSet([c \in Bs |-> Erc1155!Holding(erc1155'.balance[c], r)], Bs)
    BY <1>5, <1>6, <1>7, <2>3, Move55
  <2>5. Of55(erc1155.tokenType[t])' = Of55(r)
    BY <2>1, <2>4 DEF Of55
  <2>. QED
    BY <2>1, <2>5 DEF Backed55, r
<1>10. ASSUME NEW b \in Bs, erc1155'.balance[b].amount < erc1155.balance[b].amount
       PROVE  b = from
  <2>1. CASE b = to
    BY <1>1, <1>3, <1>5, <1>6, <1>10, <2>1
  <2>2. CASE b \notin {from, to}
    <3>1. erc1155.balance[b].amount \in Nat
      BY Amounts55, Erc1155Constants
    <3>. QED
      BY <1>5, <1>6, <1>10, <2>2, <3>1
  <2>. QED
    BY <2>1, <2>2
<1>. QED
  BY <1>6, <1>7, <1>8, <1>9, <1>10 DEF Backed55

-----------------------------------------------------------------------------
(* ERC-1155: every instruction.                                            *)

\* A balance shrinks with its owner's signature, or with that of an operator
\* who has the owner's approval.
Authorized55 ==
  \A b \in Bs : LET r == erc1155.balance[b] IN
    erc1155'.balance[b].amount < r.amount =>
      \/ r.owner \in signed'
      \/ \E a \in Cs, k \in signed' : <<a, r.collection, r.owner, k>> \in granted

\* An instruction that writes no approval.
LEMMA NoAnswer55 ==
  ASSUME Granted55, erc1155'.approval = erc1155.approval, granted' = granted
  PROVE  Granted55'
BY DEF Granted55

\* The answer that is stored.
LEMMA Answer55 ==
  /\ \A t, c, o, k, v :
       [tag |-> t, collection |-> c, owner |-> o, operator |-> k, approved |-> v].approved = v
  /\ \A r \in Approval55 : \A v \in BOOLEAN : r.tag = 4 =>
       /\ [r EXCEPT !.approved = v] \in Approval55
       /\ [r EXCEPT !.approved = v].approved = v
       /\ [r EXCEPT !.approved = v].collection = r.collection
       /\ [r EXCEPT !.approved = v].owner = r.owner
       /\ [r EXCEPT !.approved = v].operator = r.operator
<1>1. ASSUME NEW r \in Approval55, NEW v \in BOOLEAN, r.tag = 4
      PROVE  /\ [r EXCEPT !.approved = v] \in Approval55
             /\ [r EXCEPT !.approved = v].approved = v
             /\ [r EXCEPT !.approved = v].collection = r.collection
             /\ [r EXCEPT !.approved = v].owner = r.owner
             /\ [r EXCEPT !.approved = v].operator = r.operator
  <2>1. r \in [tag: {4}, collection: Roots, owner: Wallets, operator: Wallets, approved: BOOLEAN]
    BY <1>1 DEF Approval55, Erc1155!NewApproval
  <2>2. [r EXCEPT !.approved = v] \in
          [tag: {4}, collection: Roots, owner: Wallets, operator: Wallets, approved: BOOLEAN]
    BY <2>1
  <2>3. [r EXCEPT !.approved = v] \in Approval55
    BY <2>2 DEF Approval55
  <2>4. [r EXCEPT !.approved = v].approved = v
    BY <2>1
  <2>5. /\ [r EXCEPT !.approved = v].collection = r.collection
        /\ [r EXCEPT !.approved = v].owner = r.owner
        /\ [r EXCEPT !.approved = v].operator = r.operator
    BY <2>1
  <2>. QED
    BY <2>3, <2>4, <2>5
<1>. QED
  BY <1>1

\* An approval that is written is answered for.
LEMMA Answered55 ==
  ASSUME Typed55, Granted55, NEW a \in Cs, NEW c, NEW o, NEW k,
         LET r == erc1155'.approval[a] IN r.collection = c /\ r.owner = o /\ r.operator = k,
         \A b \in Cs \ {a} : erc1155'.approval[b] = erc1155.approval[b],
         \/ granted' = granted \cup {<<a, c, o, k>>}
         \/ granted' = granted \ {<<a, c, o, k>>} /\ ~erc1155'.approval[a].approved
  PROVE  Granted55'
<1>. SUFFICES ASSUME NEW b \in Cs, erc1155'.approval[b].tag = 4, erc1155'.approval[b].approved
              PROVE  LET r == erc1155'.approval[b] IN
                     <<b, r.collection, r.owner, r.operator>> \in granted'
  BY DEF Granted55
<1>. DEFINE r == erc1155'.approval[b]
<1>1. CASE b = a
  <2>1. r.collection = c /\ r.owner = o /\ r.operator = k
    BY <1>1
  <2>2. granted' = granted \cup {<<a, c, o, k>>}
    BY <1>1
  <2>. QED
    BY <1>1, <2>1, <2>2
<1>2. CASE b # a
  <2>1. <<b, r.collection, r.owner, r.operator>> \in granted
    BY <1>2 DEF Granted55
  <2>2. <<b, r.collection, r.owner, r.operator>> # <<a, c, o, k>>
    BY <1>2
  <2>3. granted' = granted \cup {<<a, c, o, k>>} \/ granted' = granted \ {<<a, c, o, k>>}
    OBVIOUS
  <2>. QED
    BY <2>1, <2>2, <2>3
<1>. QED
  BY <1>1, <1>2

\* Only approvals are written.
LEMMA OnlyApprovals55 ==
  ASSUME Inv55, NEW c \in [Cs -> Approval55], erc1155' = [erc1155 EXCEPT !.approval = c], Granted55'
  PROVE  Inv55' /\ Authorized55
<1>1. /\ erc1155' \in Data55
      /\ erc1155'.collection = erc1155.collection /\ erc1155'.tokenType = erc1155.tokenType
      /\ erc1155'.balance = erc1155.balance
  BY DEF Inv55, Typed55, Data55
<1>2. Typed55'
  BY <1>1 DEF Typed55, Data55
<1>3. Numbers55'
  BY <1>1, SameNumbers55 DEF Inv55, SameToken
<1>4. Backed55'
  BY <1>1 DEF Inv55, Backed55, Of55
<1>5. Authorized55
  BY <1>1, Amounts55, Erc1155Constants DEF Authorized55, Inv55
<1>. QED
  BY <1>2, <1>3, <1>4, <1>5 DEF Inv55

\* A collection starts with nothing.
LEMMA NewCollection55 ==
  ASSUME Inv55, NEW c \in Roots, NEW k \in Wallets, granted' = granted,
         erc1155.collection[c] = Erc1155!NewCollection,
         erc1155' = Erc1155!ProcessInitializeCollection(erc1155, c, k)
  PROVE  Inv55' /\ Authorized55
<1>. DEFINE x == [tag |-> 1, authority |-> k, nextID |-> 0]
<1>1. x \in Collection55
  BY DEF Collection55
<1>2. erc1155' = [erc1155 EXCEPT !.collection[c] = x]
  BY DEF Erc1155!ProcessInitializeCollection
<1>. HIDE DEF x
<1>3. /\ erc1155' \in Data55
      /\ erc1155'.tokenType = erc1155.tokenType
      /\ erc1155'.balance = erc1155.balance
      /\ erc1155'.approval = erc1155.approval
      /\ \A d \in Roots \ {c} : erc1155'.collection[d] = erc1155.collection[d]
  BY <1>1, <1>2 DEF Inv55, Typed55, Data55
<1>4. Typed55'
  BY <1>3 DEF Typed55, Data55
<1>5. Numbers55'
  <2>1. erc1155.collection[c].tag # 1
    BY DEF Erc1155!NewCollection
  <2>2. ASSUME NEW t \in As, erc1155.tokenType[t].tag = 2 PROVE erc1155.tokenType[t].collection \in Roots
    BY <2>2 DEF Inv55, Typed55, TokenType55, Erc1155!NewTokenType
  <2>3. ASSUME NEW b \in Bs, erc1155.balance[b].tag = 3 PROVE erc1155.balance[b].collection \in Roots
    BY <2>3 DEF Inv55, Typed55, Balance55, Erc1155!NewBalance
  <2>. QED
    BY <1>3, <2>1, <2>2, <2>3 DEF Inv55, Numbers55, Numbered, SameToken
<1>6. Backed55'
  BY <1>3 DEF Inv55, Backed55, Of55
<1>7. Granted55'
  BY <1>3, NoAnswer55 DEF Inv55
<1>8. Authorized55
  BY <1>3, Amounts55, Erc1155Constants DEF Authorized55, Inv55
<1>. QED
  BY <1>4, <1>5, <1>6, <1>7, <1>8 DEF Inv55

\* A token type gets the next number, of which nobody holds anything.
LEMMA NewTokenType55 ==
  ASSUME Inv55, NEW t \in As, NEW c \in Roots, granted' = granted,
         erc1155.collection[c].tag = 1, erc1155.tokenType[t] = Erc1155!NewTokenType,
         erc1155' = Erc1155!ProcessCreateTokenType(erc1155, t, c)
  PROVE  Inv55' /\ Authorized55
<1>. DEFINE d == erc1155.collection[c]
            x == [d EXCEPT !.nextID = @ + 1]
            y == [tag |-> 2, collection |-> c, id |-> d.nextID, supply |-> 0]
            after == [erc1155.collection EXCEPT ![c] = x]
            types == [erc1155.tokenType EXCEPT ![t] = y]
            s == [collection |-> after, tokenType |-> types, balance |-> erc1155.balance,
                  approval |-> erc1155.approval]
<1>1. d \in [tag: {1}, authority: Wallets, nextID: Nat]
  BY DEF Inv55, Typed55, Collection55, Erc1155!NewCollection
<1>2. x \in Collection55 /\ x.tag = 1 /\ x.nextID = d.nextID + 1 /\ d.nextID \in Nat
  <2>1. x \in [tag: {1}, authority: Wallets, nextID: Nat]
    BY <1>1
  <2>. QED
    BY <1>1, <2>1 DEF Collection55
<1>3. y \in TokenType55
  BY <1>1, Erc1155Constants DEF TokenType55
<1>4. erc1155' = s
  BY DEF Erc1155!ProcessCreateTokenType, Inv55, Typed55
<1>5. /\ s.collection = after /\ s.tokenType = types /\ s.balance = erc1155.balance
      /\ s.approval = erc1155.approval
  OBVIOUS
<1>6. y.tag = 2 /\ y.collection = c /\ y.id = d.nextID /\ y.supply = 0
  OBVIOUS
<1>. HIDE DEF x, y
<1>7. /\ after \in [Roots -> Collection55] /\ types \in [As -> TokenType55]
      /\ \A e \in Roots : after[e] = IF e = c THEN x ELSE erc1155.collection[e]
      /\ \A u \in As : types[u] = IF u = t THEN y ELSE erc1155.tokenType[u]
  BY <1>2, <1>3 DEF Inv55, Typed55
<1>. HIDE DEF after, types
<1>8. s \in Data55
  <2>1. /\ erc1155.balance \in [Bs -> Balance55] /\ erc1155.approval \in [Cs -> Approval55]
    BY DEF Inv55, Typed55
  <2>. QED
    BY <1>7, <2>1 DEF Data55
<1>. HIDE DEF s
<1>9. Typed55'
  BY <1>4, <1>8 DEF Typed55, Data55
<1>10. /\ erc1155'.collection = after /\ erc1155'.tokenType = types
       /\ erc1155'.balance = erc1155.balance /\ erc1155'.approval = erc1155.approval
  BY <1>4, <1>5
<1>11. ASSUME NEW r, Numbered(r), r.collection \in Roots, r.id \in Nat
       PROVE  /\ after[r.collection].tag = 1 /\ r.id < after[r.collection].nextID
              /\ ~SameToken(r, y)
  <2>1. erc1155.collection[r.collection].tag = 1 /\ r.id < erc1155.collection[r.collection].nextID
    BY <1>11 DEF Numbered
  <2>2. CASE r.collection = c
    <3>1. r.id < d.nextID
      BY <2>1, <2>2
    <3>. QED
      BY <1>2, <1>6, <1>7, <1>11, <2>2, <3>1 DEF SameToken
  <2>3. CASE r.collection # c
    BY <1>6, <1>7, <1>11, <2>1, <2>3 DEF SameToken
  <2>. QED
    BY <2>2, <2>3
<1>12. ASSUME NEW u \in As, erc1155.tokenType[u].tag = 2
       PROVE  /\ Numbered(erc1155.tokenType[u])
              /\ erc1155.tokenType[u].collection \in Roots /\ erc1155.tokenType[u].id \in Nat
  BY <1>12 DEF Inv55, Numbers55, Typed55, TokenType55, Erc1155!NewTokenType
<1>13. ASSUME NEW b \in Bs, erc1155.balance[b].tag = 3
       PROVE  /\ Numbered(erc1155.balance[b])
              /\ erc1155.balance[b].collection \in Roots /\ erc1155.balance[b].id \in Nat
  BY <1>13 DEF Inv55, Numbers55, Typed55, Balance55, Erc1155!NewBalance
<1>14. Numbers55'
  <2>1. ASSUME NEW u \in As, erc1155'.tokenType[u].tag = 2 PROVE Numbered(erc1155.tokenType[u])'
    <3>1. CASE u = t
      BY <1>2, <1>6, <1>7, <1>10, <3>1 DEF Numbered
    <3>2. CASE u # t
      BY <1>7, <1>10, <1>11, <1>12, <2>1, <3>2 DEF Numbered
    <3>. QED
      BY <3>1, <3>2
  <2>2. ASSUME NEW b \in Bs, erc1155'.balance[b].tag = 3 PROVE Numbered(erc1155.balance[b])'
    BY <1>10, <1>11, <1>13, <2>2 DEF Numbered
  <2>3. ASSUME NEW u \in As, NEW v \in As, types[u].tag = 2, types[v].tag = 2,
               SameToken(types[u], types[v])
        PROVE  u = v
    <3>1. CASE u # t /\ v # t
      BY <1>7, <2>3, <3>1 DEF Inv55, Numbers55
    <3>2. CASE u = t /\ v # t
      BY <1>7, <1>11, <1>12, <2>3, <3>2 DEF SameToken
    <3>3. CASE u # t /\ v = t
      BY <1>7, <1>11, <1>12, <2>3, <3>3 DEF SameToken
    <3>. QED
      BY <3>1, <3>2, <3>3
  <2>. QED
    BY <1>10, <2>1, <2>2, <2>3 DEF Numbers55
<1>15. Backed55'
  <2>1. ASSUME NEW u \in As, erc1155'.tokenType[u].tag = 2
        PROVE  erc1155'.tokenType[u].supply = Of55(erc1155.tokenType[u])'
    <3>1. CASE u # t
      BY <1>7, <1>10, <2>1, <3>1 DEF Inv55, Backed55, Of55
    <3>2. CASE u = t
      <4>. DEFINE f == [b \in Bs |-> Erc1155!Holding(erc1155.balance[b], y)]
      <4>1. ASSUME NEW b \in Bs PROVE f[b] = 0
        BY <1>11, <1>13 DEF Erc1155!Holding, SameToken
      <4>2. Of55(erc1155.tokenType[u])' = SumFunctionOnSet(f, Bs)
        BY <1>7, <1>10, <3>2 DEF Of55
      <4>. HIDE DEF f
      <4>3. SumFunctionOnSet(f, Bs) = 0
        BY <4>1, Erc1155Constants, SumZero
      <4>. QED
        BY <1>6, <1>7, <1>10, <3>2, <4>2, <4>3
    <3>. QED
      BY <3>1, <3>2
  <2>. QED
    BY <2>1 DEF Backed55
<1>16. Granted55'
  BY <1>10, NoAnswer55 DEF Inv55
<1>17. Authorized55
  BY <1>10, Amounts55, Erc1155Constants DEF Authorized55, Inv55
<1>. QED
  BY <1>9, <1>14, <1>15, <1>16, <1>17 DEF Inv55

\* A balance starts with nothing of a live token type.
LEMMA NewBalance55 ==
  ASSUME Inv55, NEW b \in Bs, NEW t \in As, NEW k \in Wallets, granted' = granted,
         erc1155.tokenType[t].tag = 2, erc1155.balance[b] = Erc1155!NewBalance,
         erc1155' = Erc1155!ProcessInitializeBalance(erc1155, b, t, k)
  PROVE  Inv55' /\ Authorized55
<1>. DEFINE d == erc1155.tokenType[t]
            x == [tag |-> 3, collection |-> d.collection, id |-> d.id, owner |-> k, amount |-> 0]
            after == [erc1155.balance EXCEPT ![b] = x]
            s == [collection |-> erc1155.collection, tokenType |-> erc1155.tokenType,
                  balance |-> after, approval |-> erc1155.approval]
<1>1. d \in [tag: {2}, collection: Roots, id: Nat, supply: Erc1155!Amount]
  BY DEF Inv55, Typed55, TokenType55, Erc1155!NewTokenType
<1>2. x \in Balance55 /\ x.tag = 3 /\ SameToken(x, d) /\ x.amount = 0
  <2>1. d.collection \in Roots /\ d.id \in Nat
    BY <1>1
  <2>. QED
    BY <2>1, Erc1155Constants DEF Balance55, SameToken
<1>3. erc1155' = s
  BY DEF Erc1155!ProcessInitializeBalance, Inv55, Typed55
<1>4. /\ s.collection = erc1155.collection /\ s.tokenType = erc1155.tokenType
      /\ s.balance = after /\ s.approval = erc1155.approval
  OBVIOUS
<1>. HIDE DEF x
<1>5. /\ after \in [Bs -> Balance55]
      /\ \A c \in Bs : after[c] = IF c = b THEN x ELSE erc1155.balance[c]
  BY <1>2 DEF Inv55, Typed55
<1>. HIDE DEF after
<1>6. s \in Data55
  <2>1. /\ erc1155.collection \in [Roots -> Collection55] /\ erc1155.tokenType \in [As -> TokenType55]
        /\ erc1155.approval \in [Cs -> Approval55]
    BY DEF Inv55, Typed55
  <2>. QED
    BY <1>5, <2>1 DEF Data55
<1>. HIDE DEF s
<1>7. Typed55'
  BY <1>3, <1>6 DEF Typed55, Data55
<1>8. /\ erc1155'.collection = erc1155.collection /\ erc1155'.tokenType = erc1155.tokenType
      /\ erc1155'.balance = after /\ erc1155'.approval = erc1155.approval
  BY <1>3, <1>4
<1>9. Numbers55'
  <2>1. Numbered(d)
    BY DEF Inv55, Numbers55
  <2>2. ASSUME NEW c \in Bs, erc1155'.balance[c].tag = 3 PROVE Numbered(erc1155.balance[c])'
    BY <1>2, <1>5, <1>8, <2>1, <2>2 DEF Inv55, Numbers55, Numbered, SameToken
  <2>. QED
    BY <1>8, <2>2 DEF Inv55, Numbers55, Numbered, SameToken
<1>10. ASSUME NEW r, NEW c \in Bs
       PROVE  Erc1155!Holding(erc1155'.balance[c], r) = Erc1155!Holding(erc1155.balance[c], r)
  <2>1. CASE c = b
    <3>1. Erc1155!Holding(erc1155.balance[b], r) = 0
      BY DEF Erc1155!Holding, Erc1155!NewBalance
    <3>2. Erc1155!Holding(x, r) = 0
      BY <1>2 DEF Erc1155!Holding
    <3>. QED
      BY <1>5, <1>8, <2>1, <3>1, <3>2
  <2>2. CASE c # b
    BY <1>5, <1>8, <2>2
  <2>. QED
    BY <2>1, <2>2
<1>11. Backed55'
  BY <1>8, <1>10 DEF Inv55, Backed55, Of55
<1>12. Granted55'
  BY <1>8, NoAnswer55 DEF Inv55
<1>13. Authorized55
  <2>1. ASSUME NEW c \in Bs PROVE ~(erc1155'.balance[c].amount < erc1155.balance[c].amount)
    <3>1. erc1155.balance[c].amount \in Nat
      BY Amounts55, Erc1155Constants DEF Inv55
    <3>2. CASE c = b
      BY <1>2, <1>5, <1>8, <3>2 DEF Erc1155!NewBalance
    <3>3. CASE c # b
      BY <1>5, <1>8, <3>1, <3>3
    <3>. QED
      BY <3>2, <3>3
  <2>. QED
    BY <2>1 DEF Authorized55
<1>. QED
  BY <1>7, <1>9, <1>11, <1>12, <1>13 DEF Inv55

\* Owner or operator sign for the one balance that shrinks.
LEMMA Signed55 ==
  ASSUME NEW from \in Bs,
         \A b \in Bs : erc1155'.balance[b].amount < erc1155.balance[b].amount => b = from,
         LET r == erc1155.balance[from] IN
           \/ r.owner \in signed'
           \/ \E a \in Cs, k \in signed' : <<a, r.collection, r.owner, k>> \in granted
  PROVE  Authorized55
BY DEF Authorized55

\* MintTo shrinks nothing.
LEMMA MintStep55 ==
  ASSUME Inv55, NEW c \in Roots, NEW t \in As, NEW b \in Bs, NEW k, NEW n \in Erc1155!Amount,
         NEW p, granted' = granted,
         Erc1155!ProcessMintToChecks(erc1155, 4, c, t, b, k, n, p) = 0,
         erc1155' = Erc1155!ProcessMintTo(erc1155, t, b, n)
  PROVE  Inv55' /\ Authorized55
<1>. DEFINE x == erc1155.tokenType[t].supply + n
            y == erc1155.balance[b].amount + n
<1>1. /\ erc1155.tokenType[t].tag = 2 /\ erc1155.balance[b].tag = 3
      /\ SameToken(erc1155.balance[b], erc1155.tokenType[t])
      /\ x \in Erc1155!Amount /\ y \in Erc1155!Amount
  BY MintTo55 DEF Inv55
<1>2. erc1155' = [erc1155 EXCEPT !.tokenType[t] = [erc1155.tokenType[t] EXCEPT !.supply = x],
                                 !.balance[b] = [erc1155.balance[b] EXCEPT !.amount = y]]
  BY DEF Erc1155!ProcessMintTo
<1>3. n \in Nat /\ erc1155.balance[b].amount \in Nat
  BY Erc1155Constants, Amounts55 DEF Inv55
<1>4. Typed55' /\ Numbers55' /\ Backed55'
  <2>. DEFINE z == x
              w == y
  <2>1. z = erc1155.tokenType[t].supply + n /\ w = erc1155.balance[b].amount + n /\ n \in Int
    BY <1>3
  <2>2. z \in Erc1155!Amount /\ w \in Erc1155!Amount
    BY <1>1
  <2>3. erc1155' = [erc1155 EXCEPT !.tokenType[t] = [erc1155.tokenType[t] EXCEPT !.supply = z],
                                   !.balance[b] = [erc1155.balance[b] EXCEPT !.amount = w]]
    BY <1>2
  <2>4. Typed55 /\ Numbers55 /\ Backed55
    BY DEF Inv55
  <2>5. /\ erc1155.tokenType[t].tag = 2 /\ erc1155.balance[b].tag = 3
        /\ SameToken(erc1155.balance[b], erc1155.tokenType[t])
    BY <1>1
  <2>. HIDE DEF z, w, x, y
  <2>. DEFINE u == [erc1155.tokenType[t] EXCEPT !.supply = z]
              v == [erc1155.balance[b] EXCEPT !.amount = w]
  <2>6. /\ u \in TokenType55 /\ u.supply = z /\ u.tag = 2 /\ SameToken(u, erc1155.tokenType[t])
        /\ v \in Balance55 /\ v.amount = w /\ v.tag = 3 /\ SameToken(v, erc1155.balance[b])
    BY <2>2, <2>5, Issue55, Paid55 DEF Inv55, Typed55
  <2>7. erc1155' = [erc1155 EXCEPT !.tokenType[t] = u, !.balance[b] = v]
    BY <2>3
  <2>. HIDE DEF u, v
  <2>. QED
    BY <2>1, <2>4, <2>5, <2>6, <2>7, Issued55
<1>5. /\ erc1155'.approval = erc1155.approval
      /\ \A e \in Bs : erc1155'.balance[e] =
           IF e = b THEN [erc1155.balance[b] EXCEPT !.amount = y] ELSE erc1155.balance[e]
  BY <1>2 DEF Inv55, Typed55
<1>6. [erc1155.balance[b] EXCEPT !.amount = y].amount = y
  BY <1>1, Paid55 DEF Inv55, Typed55
<1>7. Granted55'
  BY <1>5, NoAnswer55 DEF Inv55
<1>8. ASSUME NEW e \in Bs PROVE ~(erc1155'.balance[e].amount < erc1155.balance[e].amount)
  <2>1. erc1155.balance[e].amount \in Nat
    BY Erc1155Constants, Amounts55 DEF Inv55
  <2>2. CASE e = b
    <3>1. erc1155'.balance[e].amount = y
      BY <1>5, <1>6, <2>2
    <3>. QED
      BY <1>3, <2>2, <3>1
  <2>3. CASE e # b
    BY <1>5, <2>1, <2>3
  <2>. QED
    BY <2>2, <2>3
<1>9. Authorized55
  BY <1>8 DEF Authorized55
<1>. QED
  BY <1>4, <1>7, <1>9 DEF Inv55

\* Burn shrinks a balance whose owner signs.
LEMMA BurnStep55 ==
  ASSUME Inv55, NEW t \in As, NEW b \in Bs, NEW k, NEW n \in Erc1155!Amount,
         NEW p, granted' = granted, signed' = p.signers,
         Erc1155!ProcessBurnChecks(erc1155, 3, t, b, k, n, p) = 0,
         erc1155' = Erc1155!ProcessBurn(erc1155, t, b, n)
  PROVE  Inv55' /\ Authorized55
<1>. DEFINE x == erc1155.tokenType[t].supply - n
            y == erc1155.balance[b].amount - n
<1>1. /\ erc1155.tokenType[t].tag = 2 /\ erc1155.balance[b].tag = 3
      /\ SameToken(erc1155.balance[b], erc1155.tokenType[t])
      /\ x \in Erc1155!Amount /\ y \in Erc1155!Amount
      /\ erc1155.balance[b].owner \in signed'
  BY Burn55 DEF Inv55
<1>2. erc1155' = [erc1155 EXCEPT !.tokenType[t] = [erc1155.tokenType[t] EXCEPT !.supply = x],
                                 !.balance[b] = [erc1155.balance[b] EXCEPT !.amount = y]]
  BY DEF Erc1155!ProcessBurn
<1>3. /\ n \in Nat /\ erc1155.balance[b].amount \in Nat /\ erc1155.tokenType[t].supply \in Nat
  BY Erc1155Constants, Amounts55 DEF Inv55
<1>4. Typed55' /\ Numbers55' /\ Backed55'
  <2>. DEFINE m == 0 - n
              z == x
              w == y
  <2>1. z = erc1155.tokenType[t].supply + m /\ w = erc1155.balance[b].amount + m /\ m \in Int
    BY <1>3
  <2>2. z \in Erc1155!Amount /\ w \in Erc1155!Amount
    BY <1>1
  <2>3. erc1155' = [erc1155 EXCEPT !.tokenType[t] = [erc1155.tokenType[t] EXCEPT !.supply = z],
                                   !.balance[b] = [erc1155.balance[b] EXCEPT !.amount = w]]
    BY <1>2
  <2>4. Typed55 /\ Numbers55 /\ Backed55
    BY DEF Inv55
  <2>5. /\ erc1155.tokenType[t].tag = 2 /\ erc1155.balance[b].tag = 3
        /\ SameToken(erc1155.balance[b], erc1155.tokenType[t])
    BY <1>1
  <2>. HIDE DEF m, z, w, x, y
  <2>. DEFINE u == [erc1155.tokenType[t] EXCEPT !.supply = z]
              v == [erc1155.balance[b] EXCEPT !.amount = w]
  <2>6. /\ u \in TokenType55 /\ u.supply = z /\ u.tag = 2 /\ SameToken(u, erc1155.tokenType[t])
        /\ v \in Balance55 /\ v.amount = w /\ v.tag = 3 /\ SameToken(v, erc1155.balance[b])
    BY <2>2, <2>5, Issue55, Paid55 DEF Inv55, Typed55
  <2>7. erc1155' = [erc1155 EXCEPT !.tokenType[t] = u, !.balance[b] = v]
    BY <2>3
  <2>. HIDE DEF u, v
  <2>. QED
    BY <2>1, <2>4, <2>5, <2>6, <2>7, Issued55
<1>5. /\ erc1155'.approval = erc1155.approval
      /\ \A e \in Bs \ {b} : erc1155'.balance[e] = erc1155.balance[e]
  BY <1>2 DEF Inv55, Typed55
<1>6. Granted55'
  BY <1>5, NoAnswer55 DEF Inv55
<1>7. ASSUME NEW e \in Bs, erc1155'.balance[e].amount < erc1155.balance[e].amount PROVE e = b
  <2>1. erc1155.balance[e].amount \in Nat
    BY Erc1155Constants, Amounts55 DEF Inv55
  <2>. QED
    BY <1>5, <1>7, <2>1
<1>8. Authorized55
  BY <1>1, <1>7, Signed55
<1>. QED
  BY <1>4, <1>6, <1>8 DEF Inv55

\* A transfer moves what its owner, or the owner's operator, signs for.
LEMMA TransferStep55 ==
  ASSUME Inv55, NEW from \in Bs, NEW to \in Bs, from # to, NEW n \in Erc1155!Amount,
         erc1155.balance[from].tag = 3, erc1155.balance[to].tag = 3,
         SameToken(erc1155.balance[from], erc1155.balance[to]),
         erc1155.balance[from].amount - n \in Erc1155!Amount,
         erc1155.balance[to].amount + n \in Erc1155!Amount,
         erc1155' = Erc1155!Move(erc1155, from, to, n), granted' = granted,
         LET r == erc1155.balance[from] IN
           \/ r.owner \in signed'
           \/ \E a \in Cs, k \in signed' : <<a, r.collection, r.owner, k>> \in granted
  PROVE  Inv55' /\ Authorized55
<1>1. Typed55 /\ Numbers55 /\ Backed55
  BY DEF Inv55
<1>2. /\ Typed55' /\ Numbers55' /\ Backed55'
      /\ erc1155'.approval = erc1155.approval
      /\ \A b \in Bs : erc1155'.balance[b].amount < erc1155.balance[b].amount => b = from
  BY <1>1, Moved55
<1>3. Granted55'
  BY <1>2, NoAnswer55 DEF Inv55
<1>4. Authorized55
  BY <1>2, Signed55
<1>. QED
  BY <1>2, <1>3, <1>4 DEF Inv55

\* A new approval is answered for.
LEMMA NewApproval55 ==
  ASSUME Inv55, NEW a \in Cs, NEW c \in Roots, NEW o \in Wallets, NEW k \in Wallets,
         NEW v \in BOOLEAN,
         erc1155' = Erc1155!ProcessInitializeApproval(erc1155, a, o, k, c, v),
         Erc1155!Answer(<<a, c, o, k>>, v)
  PROVE  Inv55' /\ Authorized55
<1>. DEFINE x == [tag |-> 4, collection |-> c, owner |-> o, operator |-> k, approved |-> v]
            after == [erc1155.approval EXCEPT ![a] = x]
<1>1. x \in Approval55
  BY DEF Approval55
<1>2. x.collection = c /\ x.owner = o /\ x.operator = k
  OBVIOUS
<1>3. x.approved = v
  BY Answer55
<1>4. erc1155' = [erc1155 EXCEPT !.approval = after]
  BY DEF Erc1155!ProcessInitializeApproval
<1>. HIDE DEF x
<1>5. /\ after \in [Cs -> Approval55] /\ after[a] = x
      /\ \A b \in Cs \ {a} : after[b] = erc1155.approval[b]
  BY <1>1 DEF Inv55, Typed55
<1>. HIDE DEF after
<1>6. erc1155'.approval = after
  BY <1>4 DEF Inv55, Typed55
<1>7. erc1155'.approval[a].approved => v = TRUE
  BY <1>3, <1>5, <1>6
<1>8. Granted55'
  <2>1. Typed55 /\ Granted55
    BY DEF Inv55
  <2>2. /\ erc1155'.approval[a].collection = c /\ erc1155'.approval[a].owner = o
        /\ erc1155'.approval[a].operator = k
    BY <1>2, <1>5, <1>6
  <2>3. \A b \in Cs \ {a} : erc1155'.approval[b] = erc1155.approval[b]
    BY <1>5, <1>6
  <2>4. \/ granted' = granted \cup {<<a, c, o, k>>}
        \/ granted' = granted \ {<<a, c, o, k>>} /\ ~erc1155'.approval[a].approved
    BY <1>7 DEF Erc1155!Answer
  <2>. QED
    BY <2>1, <2>2, <2>3, <2>4, Answered55
<1>. QED
  BY <1>4, <1>5, <1>8, OnlyApprovals55

\* An approval that is given again or taken back is answered for.
LEMMA ChangedApproval55 ==
  ASSUME Inv55, NEW a \in Cs, NEW v \in BOOLEAN, erc1155.approval[a].tag = 4,
         erc1155' = Erc1155!ProcessSetApproval(erc1155, a, v),
         LET r == erc1155.approval[a]
         IN Erc1155!Answer(<<a, r.collection, r.owner, r.operator>>, v)
  PROVE  Inv55' /\ Authorized55
<1>. DEFINE r == erc1155.approval[a]
            x == [r EXCEPT !.approved = v]
            after == [erc1155.approval EXCEPT ![a] = x]
<1>1. r \in Approval55
  BY DEF Inv55, Typed55
<1>2. /\ x \in Approval55 /\ x.approved = v
      /\ x.collection = r.collection /\ x.owner = r.owner /\ x.operator = r.operator
  BY <1>1, Answer55
<1>4. erc1155' = [erc1155 EXCEPT !.approval = after]
  BY DEF Erc1155!ProcessSetApproval
<1>. HIDE DEF x
<1>5. /\ after \in [Cs -> Approval55] /\ after[a] = x
      /\ \A b \in Cs \ {a} : after[b] = erc1155.approval[b]
  BY <1>2 DEF Inv55, Typed55
<1>. HIDE DEF after
<1>6. erc1155'.approval = after
  BY <1>4 DEF Inv55, Typed55
<1>7. erc1155'.approval[a].approved => v = TRUE
  BY <1>2, <1>5, <1>6
<1>8. Granted55'
  <2>1. Typed55 /\ Granted55
    BY DEF Inv55
  <2>2. /\ erc1155'.approval[a].collection = r.collection /\ erc1155'.approval[a].owner = r.owner
        /\ erc1155'.approval[a].operator = r.operator
    BY <1>2, <1>5, <1>6
  <2>3. \A b \in Cs \ {a} : erc1155'.approval[b] = erc1155.approval[b]
    BY <1>5, <1>6
  <2>4. \/ granted' = granted \cup {<<a, r.collection, r.owner, r.operator>>}
        \/ granted' = granted \ {<<a, r.collection, r.owner, r.operator>>} /\ ~erc1155'.approval[a].approved
    BY <1>7 DEF Erc1155!Answer
  <2>. QED
    BY <2>1, <2>2, <2>3, <2>4, Answered55
<1>. QED
  BY <1>4, <1>5, <1>8, OnlyApprovals55

\* The instructions, one by one.
LEMMA Step55 ==
  ASSUME Inv55, NEW p, Erc1155!Process(p), signed' = p.signers
  PROVE  Inv55' /\ Authorized55
<1>. USE DEF Erc1155!Execute
<1>1. ASSUME NEW c \in Roots, NEW k \in Wallets,
             Erc1155!Execute(Erc1155!ProcessInitializeCollectionChecks(erc1155, 1, c, p),
                             Erc1155!ProcessInitializeCollection(erc1155, c, k))
      PROVE  Inv55' /\ Authorized55
  BY <1>1, InitializeCollection55, NewCollection55
<1>2. ASSUME NEW t \in As, NEW c \in Roots, NEW k \in Wallets,
             Erc1155!Execute(Erc1155!ProcessCreateTokenTypeChecks(erc1155, 3, t, c, k, p),
                             Erc1155!ProcessCreateTokenType(erc1155, t, c))
      PROVE  Inv55' /\ Authorized55
  <2>1. erc1155.collection[c].tag = 1 /\ erc1155.tokenType[t] = Erc1155!NewTokenType
    BY <1>2, CreateTokenType55
  <2>. QED
    BY <1>2, <2>1, NewTokenType55
<1>3. ASSUME NEW b \in Bs, NEW t \in As, NEW k \in Wallets,
             Erc1155!Execute(Erc1155!ProcessInitializeBalanceChecks(erc1155, 2, b, t, p),
                             Erc1155!ProcessInitializeBalance(erc1155, b, t, k))
      PROVE  Inv55' /\ Authorized55
  <2>1. erc1155.tokenType[t].tag = 2 /\ erc1155.balance[b] = Erc1155!NewBalance
    BY <1>3, InitializeBalance55
  <2>. QED
    BY <1>3, <2>1, NewBalance55
<1>4. ASSUME NEW c \in Roots, NEW t \in As, NEW b \in Bs, NEW k \in Wallets,
             NEW n \in Erc1155!Amount,
             Erc1155!Execute(Erc1155!ProcessMintToChecks(erc1155, 4, c, t, b, k, n, p),
                             Erc1155!ProcessMintTo(erc1155, t, b, n))
      PROVE  Inv55' /\ Authorized55
  BY <1>4, MintStep55
<1>5. ASSUME NEW t \in As, NEW b \in Bs, NEW k \in Wallets, NEW n \in Erc1155!Amount,
             Erc1155!Execute(Erc1155!ProcessBurnChecks(erc1155, 3, t, b, k, n, p),
                             Erc1155!ProcessBurn(erc1155, t, b, n))
      PROVE  Inv55' /\ Authorized55
  BY <1>5, BurnStep55
<1>6. ASSUME NEW from \in Bs, NEW to \in Bs, NEW k \in Wallets, NEW n \in Erc1155!Amount,
             Erc1155!Execute(Erc1155!ProcessTransferChecks(erc1155, 3, from, to, k, n, p),
                             Erc1155!Move(erc1155, from, to, n))
      PROVE  Inv55' /\ Authorized55
  <2>1. /\ from # to /\ erc1155.balance[from].tag = 3 /\ erc1155.balance[to].tag = 3
        /\ SameToken(erc1155.balance[from], erc1155.balance[to])
        /\ erc1155.balance[from].amount - n \in Erc1155!Amount
        /\ erc1155.balance[to].amount + n \in Erc1155!Amount
        /\ erc1155.balance[from].owner \in signed'
    BY <1>6, Transfer55 DEF Inv55
  <2>. QED
    BY <1>6, <2>1, TransferStep55
<1>7. ASSUME NEW a \in Cs, NEW c \in Roots, NEW o \in Wallets, NEW k \in Wallets, NEW v \in BOOLEAN,
             erc1155' = Erc1155!ProcessInitializeApproval(erc1155, a, o, k, c, v),
             Erc1155!Answer(<<a, c, o, k>>, v)
      PROVE  Inv55' /\ Authorized55
  BY <1>7, NewApproval55 DEF Erc1155!Answer, Erc1155!ProcessInitializeApproval
<1>8. ASSUME NEW a \in Cs, NEW o \in Wallets, NEW v \in BOOLEAN,
             Erc1155!ProcessSetApprovalChecks(erc1155, 2, a, o, p) = 0,
             erc1155' = Erc1155!ProcessSetApproval(erc1155, a, v),
             LET r == erc1155.approval[a]
             IN Erc1155!Answer(<<a, r.collection, r.owner, r.operator>>, v)
      PROVE  Inv55' /\ Authorized55
  <2>1. erc1155.approval[a].tag = 4
    BY <1>8, SetApproval55
  <2>. QED
    BY <1>8, <2>1, ChangedApproval55 DEF Erc1155!Answer, Erc1155!ProcessSetApproval
<1>9. ASSUME NEW from \in Bs, NEW to \in Bs, NEW a \in Cs, NEW k \in Wallets,
             NEW n \in Erc1155!Amount,
             Erc1155!Execute(Erc1155!ProcessTransferFromChecks(erc1155, 4, from, to, a, k, n, p),
                             Erc1155!Move(erc1155, from, to, n))
      PROVE  Inv55' /\ Authorized55
  <2>. DEFINE r == erc1155.approval[a]
  <2>1. /\ from # to /\ erc1155.balance[from].tag = 3 /\ erc1155.balance[to].tag = 3
        /\ SameToken(erc1155.balance[from], erc1155.balance[to])
        /\ erc1155.balance[from].amount - n \in Erc1155!Amount
        /\ erc1155.balance[to].amount + n \in Erc1155!Amount
        /\ r.tag = 4 /\ r.approved
        /\ r.collection = erc1155.balance[from].collection
        /\ r.owner = erc1155.balance[from].owner
        /\ r.operator \in signed'
    BY <1>9, TransferFrom55 DEF Inv55
  <2>2. <<a, r.collection, r.owner, r.operator>> \in granted
    BY <2>1 DEF Inv55, Granted55
  <2>3. \E e \in Cs, u \in signed' :
          <<e, erc1155.balance[from].collection, erc1155.balance[from].owner, u>> \in granted
    BY <2>1, <2>2
  <2>. HIDE DEF r
  <2>. QED
    BY <1>9, <2>1, <2>3, TransferStep55
<1>. QED
  BY <1>1, <1>2, <1>3, <1>4, <1>5, <1>6, <1>7, <1>8, <1>9 DEF Erc1155!Process

\* Transactions keep it all.
LEMMA Next55 == Inv55 /\ Erc1155!Next => Inv55' /\ Authorized55
BY Step55 DEF Erc1155!Next

\* Nothing is issued or approved at first.
LEMMA Init55 == Erc1155!Init => Inv55
<1>. SUFFICES ASSUME Erc1155!Init PROVE Inv55
  OBVIOUS
<1>1. Typed55
  BY DEF Erc1155!Init, Typed55, Collection55, TokenType55, Balance55, Approval55
<1>2. \A t \in As : erc1155.tokenType[t].tag # 2
  BY DEF Erc1155!Init, Erc1155!NewTokenType
<1>3. \A b \in Bs : erc1155.balance[b].tag # 3
  BY DEF Erc1155!Init, Erc1155!NewBalance
<1>4. \A a \in Cs : erc1155.approval[a].tag # 4
  BY DEF Erc1155!Init, Erc1155!NewApproval
<1>. QED
  BY <1>1, <1>2, <1>3, <1>4 DEF Inv55, Numbers55, Backed55, Granted55

-----------------------------------------------------------------------------
(* Payable: the books of a state s whose authorities took m, whose         *)
(* accounts were created at u, and whose vaults g are not the first ones   *)
(* at their addresses.                                                     *)

VaultP == {Payable!NewVault} \cup [tag: {1}, total: Payable!Amount, authority: Wallets]
DepositP ==
  {Payable!NewDeposit} \cup
  [tag: {2}, balance: Payable!Amount, vault: Roots, depositor: Payable!Payers]

LedgerP ==
  [open: SUBSET (Roots \cup As), lamports: [Payable!Payers -> Nat],
   vault: [Roots -> VaultP], deposit: [As -> DepositP]]

\* The balances kept for the vault v, and all the lamports.
Owed(s, v) == SumFunctionOnSet([d \in As |-> Payable!Holding(s.deposit[d], v)], As)
AllLamports(s) == SumFunctionOnSet(s.lamports, Payable!Payers)

\* An address not used yet is clean; so is one no deposit account names.
Clean(s, m, u) ==
  /\ s.open \subseteq u
  /\ \A v \in Roots \ u : s.vault[v] = Payable!NewVault /\ m[v] = 0
  /\ \A d \in As : s.deposit[d].tag = 2 => s.deposit[d].vault \in u

\* A closed vault keeps its debts: the next one at its address starts with them.
Kept(s, m, u, g) ==
  \A v \in Roots \cap u :
    /\ s.lamports[v] + m[v] >= Rent + Owed(s, v)
    /\ v \in s.open \ g => s.vault[v].total = Owed(s, v)

BooksP(s, m, u, g) ==
  s \in LedgerP /\ m \in [Roots -> Nat] /\ g \subseteq u /\ Clean(s, m, u) /\ Kept(s, m, u, g)

InvP ==
  BooksP(ledger, drained, used, reused) /\ AllLamports(ledger) = SumFunctionOnSet(Funds, Wallets)

\* A chain of checks passes when each of them does.
LEMMA PayableFirst == \A a, b : Payable!??(a, b) = 0 <=> a = 0 /\ b = 0
BY DEF Payable!??

\* What may be used of the assumptions.
LEMMA PayableConstants ==
  /\ PayableU64 \in Nat \ {0} /\ Rent \in Payable!Amount /\ Rent # 0
  /\ Funds \in [Wallets -> Payable!Amount]
  /\ Roots \cap Wallets = {} /\ Roots \cap As = {} /\ NoKey \notin Roots
  /\ IsFiniteSet(As) /\ IsFiniteSet(Roots) /\ IsFiniteSet(Wallets) /\ IsFiniteSet(Payable!Payers)
  /\ SumFunctionOnSet(Funds, Wallets) \in Payable!Amount
  /\ 0 \in Payable!Amount /\ \A n \in Payable!Amount : n \in Nat
  /\ Payable!Payers = Roots \cup Wallets
<1>1. IsFiniteSet(Payable!Addresses)
  BY ProgramsAssumption DEF Payable!PayableAssumption, Payable!IsFiniteSet, IsFiniteSet
<1>2. /\ As \subseteq Payable!Addresses /\ Roots \subseteq Payable!Addresses
      /\ Wallets \subseteq Payable!Addresses /\ Payable!Payers \subseteq Payable!Addresses
  BY DEF Payable!Addresses, Payable!Payers
<1>3. IsFiniteSet(As) /\ IsFiniteSet(Roots) /\ IsFiniteSet(Wallets) /\ IsFiniteSet(Payable!Payers)
  BY <1>1, <1>2, FS_Subset
<1>4. SumFunctionOnSet(Funds, Wallets) \in Payable!Amount
  BY ProgramsAssumption DEF Payable!PayableAssumption, Payable!SumFunctionOnSet,
     Payable!FoldFunctionOnSet, Payable!MapThenFoldSet,
     SumFunctionOnSet, FoldFunctionOnSet, MapThenFoldSet
<1>5. /\ PayableU64 \in Nat \ {0} /\ Rent \in Payable!Amount /\ Rent # 0
      /\ Funds \in [Wallets -> Payable!Amount]
      /\ Roots \cap Wallets = {} /\ Roots \cap As = {} /\ NoKey \notin Roots
  BY ProgramsAssumption DEF Payable!PayableAssumption, Payable!Addresses
<1>6. 0 \in Payable!Amount /\ \A n \in Payable!Amount : n \in Nat
  BY <1>5 DEF Payable!Amount
<1>. QED
  BY <1>3, <1>4, <1>5, <1>6 DEF Payable!Payers

\* The runtime adds up as everybody does.
LEMMA LamportsP == \A s : Payable!Lamports(s) = AllLamports(s)
BY DEF Payable!Lamports, AllLamports, Payable!SumFunctionOnSet, Payable!FoldFunctionOnSet,
   Payable!MapThenFoldSet, SumFunctionOnSet, FoldFunctionOnSet, MapThenFoldSet

\* The invariant says what the run checks.
LEMMA BooksBalance == InvP => VaultBooksBalance
<1>1. \A f, S : Payable!SumFunctionOnSet(f, S) = SumFunctionOnSet(f, S)
  BY DEF Payable!SumFunctionOnSet, Payable!FoldFunctionOnSet,
     Payable!MapThenFoldSet, SumFunctionOnSet, FoldFunctionOnSet, MapThenFoldSet
<1>. QED
  BY <1>1 DEF InvP, BooksP, Clean, Kept, Owed, VaultBooksBalance, Payable!HeldIn,
     Payable!FirstTotalIsBalances, Payable!VaultBacksDeposits

\* A sum that is not below its operand did not wrap.
LEMMA PayableFits ==
  ASSUME NEW a \in Payable!Amount, NEW b \in Payable!Amount, NEW c, c # 0,
         Payable!RequireNoWrap(a, b, PayableU64, c) = 0
  PROVE  a + b \in Payable!Amount
<1>1. (a + b) % PayableU64 >= a
  BY DEF Payable!RequireNoWrap, Payable!Plus, Payable!Require
<1>2. CASE a + b < PayableU64
  BY <1>2, PayableConstants DEF Payable!Amount
<1>3. CASE a + b >= PayableU64
  <2>1. (a + b) % PayableU64 = a + b - PayableU64
    BY <1>3, PayableConstants DEF Payable!Amount
  <2>. QED
    BY <1>1, <2>1, <1>3, PayableConstants DEF Payable!Amount
<1>. QED
  BY <1>2, <1>3, PayableConstants DEF Payable!Amount

\* A deposit account holds a natural number for a vault.
LEMMA HoldingP == ASSUME NEW x \in DepositP, NEW v PROVE Payable!Holding(x, v) \in Nat
<1>1. CASE x = Payable!NewDeposit
  BY <1>1 DEF Payable!NewDeposit, Payable!Holding
<1>2. CASE x.balance \in Payable!Amount
  BY <1>2, PayableConstants DEF Payable!Holding
<1>. QED
  BY <1>1, <1>2 DEF DepositP

\* One deposit account that changes.
LEMMA OwedP ==
  ASSUME NEW s \in LedgerP, NEW t \in LedgerP, NEW d \in As,
         \A e \in As \ {d} : t.deposit[e] = s.deposit[e], NEW v
  PROVE  /\ Owed(s, v) \in Nat /\ Owed(t, v) \in Nat
         /\ Owed(t, v) = Owed(s, v) - Payable!Holding(s.deposit[d], v) +
                           Payable!Holding(t.deposit[d], v)
         /\ Payable!Holding(s.deposit[d], v) <= Owed(s, v)
<1>. DEFINE f == [e \in As |-> Payable!Holding(s.deposit[e], v)]
            h == [e \in As |-> Payable!Holding(t.deposit[e], v)]
<1>1. \A e \in As : f[e] \in Nat /\ h[e] \in Nat
  BY HoldingP DEF LedgerP
<1>2. \A e \in As \ {d} : f[e] = h[e]
  OBVIOUS
<1>3. /\ f[d] = Payable!Holding(s.deposit[d], v) /\ h[d] = Payable!Holding(t.deposit[d], v)
      /\ Owed(s, v) = SumFunctionOnSet(f, As) /\ Owed(t, v) = SumFunctionOnSet(h, As)
  BY DEF Owed
<1>. HIDE DEF f, h
<1>4. SumFunctionOnSet(h, As) = SumFunctionOnSet(f, As) - f[d] + h[d]
  BY <1>1, <1>2, PayableConstants, SumChange
<1>5. SumFunctionOnSet(f, As) \in Nat /\ SumFunctionOnSet(h, As) \in Nat
  BY <1>1, PayableConstants, SumNat
<1>6. f[d] <= SumFunctionOnSet(f, As)
  BY <1>1, PayableConstants, SumBounds
<1>. QED
  BY <1>3, <1>4, <1>5, <1>6

-----------------------------------------------------------------------------
(* Payable: what each instruction writes.                                  *)

\* A ledger is its four parts.
LEMMA PartsP ==
  ASSUME NEW s \in LedgerP
  PROVE  /\ s = [open |-> s.open, lamports |-> s.lamports, vault |-> s.vault, deposit |-> s.deposit]
         /\ s.open \in SUBSET (Roots \cup As) /\ s.lamports \in [Payable!Payers -> Nat]
         /\ s.vault \in [Roots -> VaultP] /\ s.deposit \in [As -> DepositP]
BY DEF LedgerP

\* What is owed depends on the deposit accounts only.
LEMMA SameOwed ==
  ASSUME NEW s, NEW t, t.deposit = s.deposit PROVE \A v : Owed(t, v) = Owed(s, v)
BY DEF Owed

\* The end of a transaction: vaults without lamports go, the books stay.
LEMMA CommitP ==
  ASSUME NEW s, NEW m, NEW u, NEW g, BooksP(s, m, u, g), NEW c, Payable!Commit(c, s)
  PROVE  BooksP(ledger', m, u, g) /\ AllLamports(ledger') = AllLamports(ledger)
<1>. DEFINE gone == {v \in Roots \cap s.open : s.lamports[v] = 0}
            vaults == [v \in Roots |-> IF v \in gone THEN Payable!NewVault ELSE s.vault[v]]
            left == s.open \ gone
            t == [open |-> left, lamports |-> s.lamports, vault |-> vaults, deposit |-> s.deposit]
<1>1. s \in LedgerP
  BY DEF BooksP
<1>2. ledger' = [s EXCEPT !.open = left, !.vault = vaults] /\ Payable!Lamports(s) = Payable!Lamports(ledger)
  BY DEF Payable!Commit
<1>3. /\ vaults \in [Roots -> VaultP] /\ left \in SUBSET (Roots \cup As)
      /\ left \subseteq s.open
      /\ \A v \in Roots : vaults[v] = s.vault[v] \/ vaults[v] = Payable!NewVault
      /\ \A v \in left \cap Roots : vaults[v] = s.vault[v]
  BY <1>1, PartsP DEF VaultP
<1>. HIDE DEF vaults, left
<1>4. ledger' = t
  BY <1>1, <1>2 DEF LedgerP
<1>5. t \in LedgerP
  BY <1>1, <1>3, PartsP DEF LedgerP
<1>6. /\ t.open = left /\ t.lamports = s.lamports /\ t.vault = vaults /\ t.deposit = s.deposit
  OBVIOUS
<1>. HIDE DEF t
<1>7. Clean(t, m, u)
  BY <1>3, <1>6 DEF BooksP, Clean
<1>8. Kept(t, m, u, g)
  BY <1>3, <1>6, SameOwed DEF BooksP, Clean, Kept
<1>9. AllLamports(t) = AllLamports(ledger)
  BY <1>2, <1>6, LamportsP DEF AllLamports
<1>. QED
  BY <1>4, <1>5, <1>7, <1>8, <1>9 DEF BooksP

\* Fields that are written one after the other.
LEMMA OpenedVault ==
  ASSUME NEW y \in [tag: {0}, total: {0}, authority: {NoKey}], NEW k
  PROVE  [y EXCEPT !.tag = 1, !.authority = k] = [tag |-> 1, total |-> 0, authority |-> k]
<1>. DEFINE z == [y EXCEPT !.tag = 1]
<1>1. z \in [tag: {1}, total: {0}, authority: {NoKey}] /\ z.tag = 1 /\ z.total = 0
  OBVIOUS
<1>. HIDE DEF z
<1>2. [z EXCEPT !.authority = k] = [tag |-> z.tag, total |-> z.total, authority |-> k]
  BY <1>1
<1>. QED
  BY <1>1, <1>2 DEF z

LEMMA OpenedDeposit ==
  ASSUME NEW y \in [tag: {0}, balance: {0}, vault: {NoKey}, depositor: {NoKey}], NEW v, NEW k
  PROVE  [y EXCEPT !.tag = 2, !.vault = v, !.depositor = k] =
           [tag |-> 2, balance |-> 0, vault |-> v, depositor |-> k]
<1>. DEFINE z == [y EXCEPT !.tag = 2]
            w == [z EXCEPT !.vault = v]
<1>1. z \in [tag: {2}, balance: {0}, vault: {NoKey}, depositor: {NoKey}] /\ z.tag = 2 /\ z.balance = 0
  OBVIOUS
<1>. HIDE DEF z
<1>2. w \in [tag: {2}, balance: {0}, vault: {v}, depositor: {NoKey}] /\ w.tag = 2 /\ w.balance = 0 /\ w.vault = v
  BY <1>1
<1>. HIDE DEF w
<1>3. [w EXCEPT !.depositor = k] =
        [tag |-> w.tag, balance |-> w.balance, vault |-> w.vault, depositor |-> k]
  BY <1>2
<1>. QED
  BY <1>1, <1>2, <1>3 DEF z, w

\* A vault is told its authority.
LEMMA InitializeVaultP ==
  ASSUME NEW s, NEW m, NEW u, NEW g, BooksP(s, m, u, g), NEW v \in Roots, NEW k \in Wallets, NEW p,
         Payable!ProcessInitializeVaultChecks(s, 1, v, p) = 0
  PROVE  BooksP(Payable!ProcessInitializeVault(s, v, k), m, u, g)
<1>1. s \in LedgerP
  BY DEF BooksP
<1>2. v \in s.open /\ s.vault[v] = Payable!NewVault
  BY PayableFirst DEF Payable!ProcessInitializeVaultChecks, Payable!Owned,
     Payable!RequireOwned, Payable!Require
<1>. DEFINE x == [tag |-> 1, total |-> 0, authority |-> k]
            vaults == [s.vault EXCEPT ![v] = x]
            t == [open |-> s.open, lamports |-> s.lamports, vault |-> vaults, deposit |-> s.deposit]
<1>3. Payable!ProcessInitializeVault(s, v, k) = t
  <2>1. [s.vault[v] EXCEPT !.tag = 1, !.authority = k] = x
    <3>1. s.vault[v] \in [tag: {0}, total: {0}, authority: {NoKey}]
      BY <1>2 DEF Payable!NewVault
    <3>. QED
      BY <3>1, OpenedVault
  <2>. HIDE DEF x
  <2>. QED
    BY <1>1, <2>1 DEF Payable!ProcessInitializeVault, LedgerP
<1>4. x \in VaultP /\ x.total = s.vault[v].total
  BY <1>2, PayableConstants DEF VaultP, Payable!NewVault
<1>. HIDE DEF x
<1>5. /\ vaults \in [Roots -> VaultP] /\ vaults[v] = x
      /\ \A w \in Roots \ {v} : vaults[w] = s.vault[w]
  BY <1>1, <1>4, PartsP
<1>. HIDE DEF vaults
<1>6. t \in LedgerP
  BY <1>1, <1>5, PartsP DEF LedgerP
<1>7. t.open = s.open /\ t.lamports = s.lamports /\ t.vault = vaults /\ t.deposit = s.deposit
  OBVIOUS
<1>. HIDE DEF t
<1>8. Clean(t, m, u)
  BY <1>2, <1>5, <1>7 DEF BooksP, Clean
<1>9. Kept(t, m, u, g)
  <2>1. \A w \in Roots : vaults[w].total = s.vault[w].total
    BY <1>4, <1>5
  <2>. QED
    BY <1>7, <2>1, SameOwed DEF BooksP, Kept
<1>. QED
  BY <1>3, <1>6, <1>8, <1>9 DEF BooksP

\* A deposit account is told its vault, which is there, and owes nothing yet.
LEMMA InitializeDepositP ==
  ASSUME NEW s, NEW m, NEW u, NEW g, BooksP(s, m, u, g), NEW d, NEW v, NEW k \in Payable!Payers, NEW p,
         Payable!ProcessInitializeDepositChecks(s, 2, d, v, p) = 0
  PROVE  BooksP(Payable!ProcessInitializeDeposit(s, d, v, k), m, u, g)
<1>1. s \in LedgerP
  BY DEF BooksP
<1>2. d \in As /\ v \in s.open /\ v \in Roots /\ s.deposit[d] = Payable!NewDeposit
  BY PayableFirst DEF Payable!ProcessInitializeDepositChecks, Payable!Owned,
     Payable!RequireOwned, Payable!Require
<1>. DEFINE x == [tag |-> 2, balance |-> 0, vault |-> v, depositor |-> k]
            deposits == [s.deposit EXCEPT ![d] = x]
            t == [open |-> s.open, lamports |-> s.lamports, vault |-> s.vault, deposit |-> deposits]
<1>3. Payable!ProcessInitializeDeposit(s, d, v, k) = t
  <2>1. [s.deposit[d] EXCEPT !.tag = 2, !.vault = v, !.depositor = k] = x
    <3>1. s.deposit[d] \in [tag: {0}, balance: {0}, vault: {NoKey}, depositor: {NoKey}]
      BY <1>2 DEF Payable!NewDeposit
    <3>. QED
      BY <3>1, OpenedDeposit
  <2>. HIDE DEF x
  <2>. QED
    BY <1>1, <1>2, <2>1 DEF Payable!ProcessInitializeDeposit, LedgerP
<1>4. x \in DepositP /\ x.vault = v /\ \A w : Payable!Holding(x, w) = 0
  BY <1>2, PayableConstants DEF DepositP, Payable!Holding
<1>. HIDE DEF x
<1>5. /\ deposits \in [As -> DepositP] /\ deposits[d] = x
      /\ \A e \in As \ {d} : deposits[e] = s.deposit[e]
  BY <1>1, <1>2, <1>4, PartsP
<1>. HIDE DEF deposits
<1>6. t \in LedgerP
  BY <1>1, <1>5, PartsP DEF LedgerP
<1>7. t.open = s.open /\ t.lamports = s.lamports /\ t.vault = s.vault /\ t.deposit = deposits
  OBVIOUS
<1>. HIDE DEF t
<1>8. Clean(t, m, u)
  BY <1>2, <1>4, <1>5, <1>7 DEF BooksP, Clean
<1>9. \A w : Owed(t, w) = Owed(s, w)
  <2>. TAKE w
  <2>1. Payable!Holding(s.deposit[d], w) = 0
    BY <1>2 DEF Payable!Holding, Payable!NewDeposit
  <2>2. /\ Owed(s, w) \in Nat
        /\ Owed(t, w) = Owed(s, w) - Payable!Holding(s.deposit[d], w) +
                          Payable!Holding(t.deposit[d], w)
    BY <1>1, <1>2, <1>5, <1>6, <1>7, OwedP
  <2>. QED
    BY <1>4, <1>5, <1>7, <2>1, <2>2
<1>10. Kept(t, m, u, g)
  BY <1>7, <1>9 DEF BooksP, Kept
<1>. QED
  BY <1>3, <1>6, <1>8, <1>10 DEF BooksP

\* Lamports that go from one account to another.
LEMMA PayP ==
  ASSUME NEW f \in [Payable!Payers -> Nat], NEW from \in Payable!Payers, NEW to \in Payable!Payers,
         NEW n \in Nat, f[from] >= n,
         NEW g, g = [[f EXCEPT ![from] = f[from] - n] EXCEPT ![to] = f[to] + n]
  PROVE  /\ from # to =>
              /\ g \in [Payable!Payers -> Nat] /\ g[from] = f[from] - n /\ g[to] = f[to] + n
              /\ \A x \in Payable!Payers \ {from, to} : g[x] = f[x]
              /\ SumFunctionOnSet(g, Payable!Payers) = SumFunctionOnSet(f, Payable!Payers)
         /\ from = to /\ n # 0 =>
              SumFunctionOnSet(g, Payable!Payers) # SumFunctionOnSet(f, Payable!Payers)
<1>1. SumFunctionOnSet(f, Payable!Payers) \in Int
  BY PayableConstants, SumInt
<1>2. ASSUME from # to
      PROVE  /\ g \in [Payable!Payers -> Nat] /\ g[from] = f[from] - n /\ g[to] = f[to] + n
             /\ \A x \in Payable!Payers \ {from, to} : g[x] = f[x]
             /\ SumFunctionOnSet(g, Payable!Payers) = SumFunctionOnSet(f, Payable!Payers)
  <2>1. /\ g \in [Payable!Payers -> Nat] /\ g[from] = f[from] - n /\ g[to] = f[to] + n
        /\ \A x \in Payable!Payers \ {from, to} : g[x] = f[x]
    BY <1>2
  <2>2. \A x \in Payable!Payers : f[x] \in Int /\ g[x] \in Int
    BY <2>1
  <2>3. SumFunctionOnSet(g, Payable!Payers) =
          SumFunctionOnSet(f, Payable!Payers) - f[from] - f[to] + g[from] + g[to]
    <3>. DEFINE F == f
                G == g
    <3>1. IsFiniteSet(Payable!Payers)
      BY PayableConstants
    <3>2. /\ \A x \in Payable!Payers : F[x] \in Int /\ G[x] \in Int
          /\ \A x \in Payable!Payers \ {from, to} : F[x] = G[x]
      BY <2>1, <2>2
    <3>. HIDE DEF F, G
    <3>3. SumFunctionOnSet(G, Payable!Payers) =
            SumFunctionOnSet(F, Payable!Payers) - F[from] - F[to] + G[from] + G[to]
      BY <1>2, <3>1, <3>2, SumMove
    <3>. QED
      BY <3>3 DEF F, G
  <2>4. SumFunctionOnSet(g, Payable!Payers) = SumFunctionOnSet(f, Payable!Payers)
    BY <1>1, <2>1, <2>2, <2>3
  <2>. QED
    BY <2>1, <2>4
<1>3. ASSUME from = to, n # 0
      PROVE  SumFunctionOnSet(g, Payable!Payers) # SumFunctionOnSet(f, Payable!Payers)
  <2>1. /\ \A x \in Payable!Payers : f[x] \in Int /\ g[x] \in Int
        /\ \A x \in Payable!Payers \ {to} : f[x] = g[x]
        /\ g[to] = f[to] + n
    BY <1>3
  <2>2. SumFunctionOnSet(g, Payable!Payers) = SumFunctionOnSet(f, Payable!Payers) - f[to] + g[to]
    <3>. DEFINE F == f
                G == g
    <3>1. IsFiniteSet(Payable!Payers)
      BY PayableConstants
    <3>2. /\ \A x \in Payable!Payers : F[x] \in Int /\ G[x] \in Int
          /\ \A x \in Payable!Payers \ {to} : F[x] = G[x]
      BY <2>1
    <3>. HIDE DEF F, G
    <3>3. SumFunctionOnSet(G, Payable!Payers) = SumFunctionOnSet(F, Payable!Payers) - F[to] + G[to]
      BY <3>1, <3>2, SumChange
    <3>. QED
      BY <3>3 DEF F, G
  <2>3. f[to] \in Nat
    OBVIOUS
  <2>. QED
    BY <1>1, <1>3, <2>1, <2>2, <2>3
<1>. QED
  BY <1>2, <1>3

\* A vault with another total.
LEMMA TotalP ==
  ASSUME NEW x \in VaultP, x.tag = 1, NEW n \in Payable!Amount
  PROVE  /\ [x EXCEPT !.total = n] \in VaultP /\ [x EXCEPT !.total = n].total = n
         /\ [x EXCEPT !.total = n].tag = 1
<1>1. x \in [tag: {1}, total: Payable!Amount, authority: Wallets]
  BY DEF VaultP, Payable!NewVault
<1>2. [x EXCEPT !.total = n] \in [tag: {1}, total: Payable!Amount, authority: Wallets]
  BY <1>1
<1>. QED
  BY <1>1, <1>2 DEF VaultP

\* A deposit account with another balance.
LEMMA CreditP ==
  ASSUME NEW x \in DepositP, x.tag = 2, NEW n \in Payable!Amount
  PROVE  /\ [x EXCEPT !.balance = n] \in DepositP
         /\ [x EXCEPT !.balance = n].vault = x.vault /\ [x EXCEPT !.balance = n].tag = 2
         /\ x.balance \in Payable!Amount
         /\ \A v : /\ Payable!Holding([x EXCEPT !.balance = n], v) = IF x.vault = v THEN n ELSE 0
                   /\ Payable!Holding(x, v) = IF x.vault = v THEN x.balance ELSE 0
<1>1. x \in [tag: {2}, balance: Payable!Amount, vault: Roots, depositor: Payable!Payers]
  BY DEF DepositP, Payable!NewDeposit
<1>2. [x EXCEPT !.balance = n] \in
        [tag: {2}, balance: Payable!Amount, vault: Roots, depositor: Payable!Payers]
  BY <1>1
<1>. QED
  BY <1>1, <1>2 DEF DepositP, Payable!Holding

\* The books after an instruction wrote lamports, one vault and one deposit
\* account of it, and its authority may have taken something from the vault.
LEMMA WrittenP ==
  ASSUME NEW s, NEW m, NEW u, NEW g, BooksP(s, m, u, g), NEW v \in Roots, v \in s.open,
         NEW d \in As, NEW f \in [Payable!Payers -> Nat],
         NEW x \in VaultP, NEW y \in DepositP, s.deposit[d].tag = 2 => y.vault = s.deposit[d].vault,
         s.deposit[d].tag = y.tag,
         \A w \in Roots \ {v} : Payable!Holding(y, w) = Payable!Holding(s.deposit[d], w),
         \A w \in Roots \ {v} : f[w] >= s.lamports[w],
         v \notin g => x.total = Owed(s, v) - Payable!Holding(s.deposit[d], v) + Payable!Holding(y, v),
         f[v] + m[v] >= Rent + (Owed(s, v) - Payable!Holding(s.deposit[d], v) + Payable!Holding(y, v))
  PROVE  BooksP([open |-> s.open, lamports |-> f, vault |-> [s.vault EXCEPT ![v] = x],
                 deposit |-> [s.deposit EXCEPT ![d] = y]], m, u, g)
<1>. DEFINE t == [open |-> s.open, lamports |-> f, vault |-> [s.vault EXCEPT ![v] = x],
                  deposit |-> [s.deposit EXCEPT ![d] = y]]
<1>1. s \in LedgerP
  BY DEF BooksP
<1>2. /\ [s.vault EXCEPT ![v] = x] \in [Roots -> VaultP]
      /\ [s.deposit EXCEPT ![d] = y] \in [As -> DepositP]
  BY <1>1, PartsP
<1>3. t \in LedgerP
  BY <1>1, <1>2, PartsP DEF LedgerP
<1>4. /\ t.open = s.open /\ t.lamports = f
      /\ \A w \in Roots : t.vault[w] = IF w = v THEN x ELSE s.vault[w]
      /\ \A e \in As : t.deposit[e] = IF e = d THEN y ELSE s.deposit[e]
  BY <1>1, PartsP
<1>. HIDE DEF t
<1>5. Clean(t, m, u)
  BY <1>4 DEF BooksP, Clean
<1>6. ASSUME NEW w PROVE /\ Owed(s, w) \in Nat
                         /\ Owed(t, w) = Owed(s, w) - Payable!Holding(s.deposit[d], w) +
                                           Payable!Holding(y, w)
  <2>1. (\A e \in As \ {d} : t.deposit[e] = s.deposit[e]) /\ t.deposit[d] = y
    BY <1>4
  <2>. QED
    BY <1>1, <1>3, <2>1, OwedP
<1>7. ASSUME NEW w \in Roots \cap u
      PROVE  /\ t.lamports[w] + m[w] >= Rent + Owed(t, w)
             /\ w \in s.open \ g => t.vault[w].total = Owed(t, w)
  <2>1. CASE w = v
    BY <1>4, <1>6, <2>1
  <2>2. CASE w # v
    <3>1. Payable!Holding(s.deposit[d], w) \in Nat
      BY <1>1, HoldingP DEF LedgerP
    <3>2. Owed(t, w) = Owed(s, w) /\ t.vault[w] = s.vault[w]
      BY <1>4, <1>6, <2>2, <3>1
    <3>3. /\ s.lamports[w] + m[w] >= Rent + Owed(s, w)
          /\ w \in s.open \ g => s.vault[w].total = Owed(s, w)
      BY DEF BooksP, Kept
    <3>4. s.lamports[w] \in Nat /\ f[w] \in Nat /\ m[w] \in Nat /\ Rent \in Nat /\ Owed(s, w) \in Nat
      BY <1>1, <1>6, PartsP, PayableConstants DEF BooksP
    <3>. QED
      BY <1>4, <2>2, <3>2, <3>3, <3>4
  <2>. QED
    BY <2>1, <2>2
<1>8. BooksP(t, m, u, g)
  BY <1>3, <1>4, <1>5, <1>7 DEF BooksP, Kept
<1>. QED
  BY <1>8 DEF t

\* One part that is written.
LEMMA PartP ==
  ASSUME NEW s, NEW A, NEW B, NEW C, NEW D, s \in [open: A, lamports: B, vault: C, deposit: D], NEW g
  PROVE  /\ [s EXCEPT !.lamports = g] =
              [open |-> s.open, lamports |-> g, vault |-> s.vault, deposit |-> s.deposit]
         /\ [s EXCEPT !.vault = g] =
              [open |-> s.open, lamports |-> s.lamports, vault |-> g, deposit |-> s.deposit]
         /\ [s EXCEPT !.deposit = g] =
              [open |-> s.open, lamports |-> s.lamports, vault |-> s.vault, deposit |-> g]
OBVIOUS

\* What a deposit leaves.
Credited(s, v, d, k, n) ==
  [open |-> s.open, lamports |-> [s.lamports EXCEPT ![k] = @ - n, ![v] = @ + n],
   vault |-> [s.vault EXCEPT ![v] = [s.vault[v] EXCEPT !.total = s.vault[v].total + n]],
   deposit |-> [s.deposit EXCEPT ![d] = [s.deposit[d] EXCEPT !.balance = s.deposit[d].balance + n]]]

\* Lamports, then a total, then a balance that are written one after the other.
LEMMA CreditedP ==
  ASSUME NEW s \in LedgerP, NEW v, NEW d, NEW k, k # v, NEW n
  PROVE  Payable!ProcessDeposit(s, v, d, k, n) = Credited(s, v, d, k, n)
<1>. DEFINE f == [s.lamports EXCEPT ![k] = @ - n, ![v] = @ + n]
            i == s.vault[v].total + n
            j == s.deposit[d].balance + n
<1>10. Payable!ProcessDeposit(s, v, d, k, n) =
         [[[s EXCEPT !.lamports = f] EXCEPT !.vault[v].total = i] EXCEPT !.deposit[d].balance = j]
  <2>1. Payable!TransferCPI(s, k, v, n) = [s EXCEPT !.lamports = f]
    <3>. DEFINE g == [s.lamports EXCEPT ![k] = s.lamports[k] - n]
    <3>1. Payable!TransferCPI(s, k, v, n) =
            [[s EXCEPT !.lamports = g] EXCEPT
                !.lamports = [[s EXCEPT !.lamports = g].lamports EXCEPT
                                ![v] = s.lamports[v] + n]]
      BY DEF Payable!TransferCPI
    <3>. HIDE DEF g
    <3>2. /\ [s EXCEPT !.lamports = g].lamports = g
          /\ \A h : [[s EXCEPT !.lamports = g] EXCEPT !.lamports = h] = [s EXCEPT !.lamports = h]
      BY DEF LedgerP
    <3>3. f = [g EXCEPT ![v] = s.lamports[v] + n]
      BY DEF g
    <3>. HIDE DEF f
    <3>. QED
      BY <3>1, <3>2, <3>3
  <2>. HIDE DEF f
  <2>. QED
    BY <2>1 DEF Payable!ProcessDeposit
<1>. HIDE DEF f, i, j
<1>. DEFINE g == [s.vault EXCEPT ![v] = [s.vault[v] EXCEPT !.total = i]]
            h == [s.deposit EXCEPT ![d] = [s.deposit[d] EXCEPT !.balance = j]]
            a == [open |-> s.open, lamports |-> f, vault |-> s.vault, deposit |-> s.deposit]
            b == [open |-> s.open, lamports |-> f, vault |-> g, deposit |-> s.deposit]
<1>1. /\ a \in [open: {s.open}, lamports: {f}, vault: {s.vault}, deposit: {s.deposit}]
      /\ a.open = s.open /\ a.lamports = f /\ a.vault = s.vault /\ a.deposit = s.deposit
  OBVIOUS
<1>2. [s EXCEPT !.lamports = f] = a
  BY PartP DEF LedgerP
<1>. HIDE DEF a, g, h
<1>3. /\ b \in [open: {s.open}, lamports: {f}, vault: {g}, deposit: {s.deposit}]
      /\ b.open = s.open /\ b.lamports = f /\ b.vault = g /\ b.deposit = s.deposit
  OBVIOUS
<1>4. [a EXCEPT !.vault = g] = b
  <2>1. [a EXCEPT !.vault = g] =
          [open |-> a.open, lamports |-> a.lamports, vault |-> g, deposit |-> a.deposit]
    BY <1>1, PartP
  <2>. QED
    BY <1>1, <2>1
<1>. HIDE DEF b
<1>5. [b EXCEPT !.deposit = h] = [open |-> s.open, lamports |-> f, vault |-> g, deposit |-> h]
  <2>1. [b EXCEPT !.deposit = h] =
          [open |-> b.open, lamports |-> b.lamports, vault |-> b.vault, deposit |-> h]
    BY <1>3, PartP
  <2>. QED
    BY <1>3, <2>1
<1>6. [a EXCEPT !.vault[v].total = i] = b
  <2>1. [a EXCEPT !.vault[v].total = i] =
          [a EXCEPT !.vault = [a.vault EXCEPT ![v] = [a.vault[v] EXCEPT !.total = i]]]
    OBVIOUS
  <2>2. [a.vault EXCEPT ![v] = [a.vault[v] EXCEPT !.total = i]] = g
    BY <1>1 DEF g
  <2>. QED
    BY <1>4, <2>1, <2>2
<1>7. [b EXCEPT !.deposit[d].balance = j] = [b EXCEPT !.deposit = h]
  <2>1. [b EXCEPT !.deposit[d].balance = j] =
          [b EXCEPT !.deposit = [b.deposit EXCEPT ![d] = [b.deposit[d] EXCEPT !.balance = j]]]
    OBVIOUS
  <2>2. [b.deposit EXCEPT ![d] = [b.deposit[d] EXCEPT !.balance = j]] = h
    BY <1>3 DEF h
  <2>. QED
    BY <2>1, <2>2
<1>8. [[[s EXCEPT !.lamports = f] EXCEPT !.vault[v].total = i] EXCEPT !.deposit[d].balance = j] =
        [[a EXCEPT !.vault[v].total = i] EXCEPT !.deposit[d].balance = j]
  BY <1>2
<1>9. @ = [b EXCEPT !.deposit[d].balance = j]
  BY <1>6
<1>. QED
  BY <1>5, <1>7, <1>8, <1>9, <1>10 DEF f, g, h, i, j, Credited

\* Lamports, then a balance, then a total.
LEMMA DebitedP ==
  ASSUME NEW s \in LedgerP, NEW v, NEW d, NEW to, NEW n
  PROVE  Payable!ProcessWithdraw(s, v, d, to, n) =
           [open |-> s.open,
            lamports |-> [[s.lamports EXCEPT ![v] = s.lamports[v] - n]
                            EXCEPT ![to] = s.lamports[to] + n],
            vault |-> [s.vault EXCEPT ![v] = [s.vault[v] EXCEPT
                         !.total = (s.vault[v].total + PayableU64 - n) % PayableU64]],
            deposit |-> [s.deposit EXCEPT
                           ![d] = [s.deposit[d] EXCEPT !.balance = s.deposit[d].balance - n]]]
<1>. DEFINE f == [[s.lamports EXCEPT ![v] = s.lamports[v] - n] EXCEPT ![to] = s.lamports[to] + n]
            i == (s.vault[v].total + PayableU64 - n) % PayableU64
            j == s.deposit[d].balance - n
            Paid == [s EXCEPT !.lamports = f]
            Less == [Paid EXCEPT !.deposit[d].balance = Paid.deposit[d].balance - n]
<1>10. Payable!ProcessWithdraw(s, v, d, to, n) =
         [Less EXCEPT !.vault[v].total = (Less.vault[v].total + PayableU64 - n) % PayableU64]
  BY DEF Payable!ProcessWithdraw, Payable!StoreLamports
<1>. HIDE DEF f, i, j, Paid, Less
<1>. DEFINE g == [s.vault EXCEPT ![v] = [s.vault[v] EXCEPT !.total = i]]
            h == [s.deposit EXCEPT ![d] = [s.deposit[d] EXCEPT !.balance = j]]
            a == [open |-> s.open, lamports |-> f, vault |-> s.vault, deposit |-> s.deposit]
            b == [open |-> s.open, lamports |-> f, vault |-> s.vault, deposit |-> h]
<1>1. /\ a \in [open: {s.open}, lamports: {f}, vault: {s.vault}, deposit: {s.deposit}]
      /\ a.open = s.open /\ a.lamports = f /\ a.vault = s.vault /\ a.deposit = s.deposit
  OBVIOUS
<1>2. [s EXCEPT !.lamports = f] = a
  BY PartP DEF LedgerP
<1>. HIDE DEF a, g, h
<1>3. /\ b \in [open: {s.open}, lamports: {f}, vault: {s.vault}, deposit: {h}]
      /\ b.open = s.open /\ b.lamports = f /\ b.vault = s.vault /\ b.deposit = h
  OBVIOUS
<1>4. [a EXCEPT !.deposit = h] = b
  <2>1. [a EXCEPT !.deposit = h] =
          [open |-> a.open, lamports |-> a.lamports, vault |-> a.vault, deposit |-> h]
    BY <1>1, PartP
  <2>. QED
    BY <1>1, <2>1
<1>. HIDE DEF b
<1>5. [b EXCEPT !.vault = g] = [open |-> s.open, lamports |-> f, vault |-> g, deposit |-> h]
  <2>1. [b EXCEPT !.vault = g] =
          [open |-> b.open, lamports |-> b.lamports, vault |-> g, deposit |-> b.deposit]
    BY <1>3, PartP
  <2>. QED
    BY <1>3, <2>1
<1>6. [a EXCEPT !.deposit[d].balance = j] = b
  <2>1. [a EXCEPT !.deposit[d].balance = j] =
          [a EXCEPT !.deposit = [a.deposit EXCEPT ![d] = [a.deposit[d] EXCEPT !.balance = j]]]
    OBVIOUS
  <2>2. [a.deposit EXCEPT ![d] = [a.deposit[d] EXCEPT !.balance = j]] = h
    BY <1>1 DEF h
  <2>. QED
    BY <1>4, <2>1, <2>2
<1>7. [b EXCEPT !.vault[v].total = i] = [b EXCEPT !.vault = g]
  <2>1. [b EXCEPT !.vault[v].total = i] =
          [b EXCEPT !.vault = [b.vault EXCEPT ![v] = [b.vault[v] EXCEPT !.total = i]]]
    OBVIOUS
  <2>2. [b.vault EXCEPT ![v] = [b.vault[v] EXCEPT !.total = i]] = g
    BY <1>3 DEF g
  <2>. QED
    BY <2>1, <2>2
<1>8. Paid = a /\ Paid.deposit[d].balance - n = j
  BY <1>1, <1>2 DEF Paid, j
<1>9. Less = b /\ (Less.vault[v].total + PayableU64 - n) % PayableU64 = i
  <2>1. Less = b
    BY <1>6, <1>8 DEF Less
  <2>. QED
    BY <1>3, <2>1 DEF i
<1>11. Payable!ProcessWithdraw(s, v, d, to, n) = [b EXCEPT !.vault[v].total = i]
  BY <1>9, <1>10
<1>. QED
  BY <1>5, <1>7, <1>11 DEF f, g, h, i, j

\* What is owed is a number, and nothing where nobody holds anything.
LEMMA OwedNat ==
  ASSUME NEW s \in LedgerP, NEW v
  PROVE  /\ Owed(s, v) \in Nat
         /\ (\A d \in As : Payable!Holding(s.deposit[d], v) = 0) => Owed(s, v) = 0
<1>. DEFINE f == [e \in As |-> Payable!Holding(s.deposit[e], v)]
<1>1. \A e \in As : f[e] \in Nat /\ f[e] = Payable!Holding(s.deposit[e], v)
  BY HoldingP DEF LedgerP
<1>2. Owed(s, v) = SumFunctionOnSet(f, As)
  BY DEF Owed
<1>. HIDE DEF f
<1>. QED
  BY <1>1, <1>2, PayableConstants, SumNat, SumZero

\* A deposit pays the vault what it writes down twice.
LEMMA DepositStepP ==
  ASSUME NEW s, NEW m, NEW u, NEW g, BooksP(s, m, u, g), NEW v \in Roots, NEW d \in As,
         NEW k \in Payable!Payers, NEW q, NEW n \in Payable!Amount, NEW p,
         Payable!ProcessDepositChecks(s, 4, v, d, k, q, n, p) = 0
  PROVE  BooksP(Payable!ProcessDeposit(s, v, d, k, n), m, u, g)
<1>1. s \in LedgerP
  BY DEF BooksP
<1>2. /\ v \in s.open /\ s.vault[v].tag = 1 /\ s.deposit[d].tag = 2 /\ s.deposit[d].vault = v
      /\ s.lamports[k] >= n /\ k \in Wallets
      /\ Payable!RequireNoWrap(s.vault[v].total, n, PayableU64, 14) = 0
      /\ Payable!RequireNoWrap(s.deposit[d].balance, n, PayableU64, 14) = 0
  BY PayableFirst DEF Payable!ProcessDepositChecks, Payable!RequireBinding, Payable!Owned,
     Payable!RequireOwned, Payable!RequireSigner, Payable!Require, Payable!TransferCPIFails
<1>. DEFINE x0 == s.vault[v]
            y0 == s.deposit[d]
            i == x0.total + n
            j == y0.balance + n
            x == [x0 EXCEPT !.total = i]
            y == [y0 EXCEPT !.balance = j]
            f == [[s.lamports EXCEPT ![k] = s.lamports[k] - n] EXCEPT ![v] = s.lamports[v] + n]
            t == [open |-> s.open, lamports |-> f, vault |-> [s.vault EXCEPT ![v] = x],
                  deposit |-> [s.deposit EXCEPT ![d] = y]]
<1>3. /\ x0 \in VaultP /\ y0 \in DepositP /\ n \in Nat
      /\ k # v /\ v \in Payable!Payers
  BY <1>1, <1>2, PartsP, PayableConstants
<1>4. /\ x0.total \in Payable!Amount /\ y0.balance \in Payable!Amount
      /\ i \in Payable!Amount /\ j \in Payable!Amount
  <2>1. x0.total \in Payable!Amount /\ y0.balance \in Payable!Amount
    BY <1>3, PayableConstants DEF VaultP, DepositP, Payable!NewVault, Payable!NewDeposit
  <2>2. i \in Payable!Amount
    BY <1>2, <2>1, PayableFits
  <2>3. j \in Payable!Amount
    BY <1>2, <2>1, PayableFits
  <2>. QED
    BY <2>1, <2>2, <2>3
<1>5. f = [s.lamports EXCEPT ![k] = @ - n, ![v] = @ + n]
  BY <1>1, <1>3, PartsP
<1>6. /\ f \in [Payable!Payers -> Nat] /\ f[v] = s.lamports[v] + n
      /\ \A w \in Roots \ {v} : f[w] = s.lamports[w]
  BY <1>1, <1>2, <1>3, PartsP, PayP, PayableConstants
<1>. HIDE DEF f
<1>7. x \in VaultP /\ x.total = i
  BY <1>2, <1>3, <1>4, TotalP
<1>8. /\ y \in DepositP /\ y.vault = v /\ y.tag = 2
      /\ \A w : /\ Payable!Holding(y, w) = IF v = w THEN j ELSE 0
                /\ Payable!Holding(y0, w) = IF v = w THEN y0.balance ELSE 0
  <2>1. y0 \in DepositP /\ y0.tag = 2 /\ y0.vault = v /\ j \in Payable!Amount
    BY <1>2, <1>3, <1>4
  <2>. HIDE DEF y0, j
  <2>. QED
    BY <2>1, CreditP
<1>9. (v \notin g => x0.total = Owed(s, v)) /\ s.lamports[v] + m[v] >= Rent + Owed(s, v)
  BY <1>2 DEF BooksP, Clean, Kept
<1>10. /\ x0.total \in Nat /\ Owed(s, v) \in Nat /\ y0.balance \in Nat /\ s.lamports[v] \in Nat /\ m[v] \in Nat /\ Rent \in Nat
       /\ \A w \in Roots : s.lamports[w] \in Nat
  BY <1>1, <1>3, <1>4, PartsP, OwedNat, PayableConstants DEF BooksP
<1>11. /\ v \notin g => x.total = Owed(s, v) - Payable!Holding(y0, v) + Payable!Holding(y, v)
       /\ f[v] + m[v] >= Rent + (Owed(s, v) - Payable!Holding(y0, v) + Payable!Holding(y, v))
  BY <1>3, <1>6, <1>7, <1>8, <1>9, <1>10
<1>12. /\ \A w \in Roots \ {v} : Payable!Holding(y, w) = Payable!Holding(s.deposit[d], w)
       /\ \A w \in Roots \ {v} : f[w] >= s.lamports[w]
       /\ y.vault = s.deposit[d].vault /\ s.deposit[d].tag = y.tag
  BY <1>2, <1>6, <1>8, <1>10
<1>13. Payable!ProcessDeposit(s, v, d, k, n) = t
  <2>. DEFINE e == [s.lamports EXCEPT ![k] = @ - n, ![v] = @ + n]
  <2>1. k # v
    BY <1>3
  <2>2. Payable!ProcessDeposit(s, v, d, k, n) =
          [open |-> s.open, lamports |-> e, vault |-> [s.vault EXCEPT ![v] = x],
           deposit |-> [s.deposit EXCEPT ![d] = y]]
    <3>1. Payable!ProcessDeposit(s, v, d, k, n) = Credited(s, v, d, k, n)
      BY <1>1, <2>1, CreditedP
    <3>. QED
      BY <3>1 DEF Credited
  <2>3. e = f
    BY <1>5
  <2>. HIDE DEF e, x, y
  <2>. QED
    BY <2>2, <2>3
<1>. HIDE DEF x, y
<1>. QED
  BY <1>2, <1>13, <1>6, <1>7, <1>8, <1>11, <1>12, WrittenP

\* A withdrawal takes from both what it takes from the vault, and no vault pays itself.
LEMMA WithdrawStepP ==
  ASSUME NEW s, NEW m, NEW u, NEW g, BooksP(s, m, u, g), NEW v \in Roots, NEW d \in As,
         NEW k, NEW to \in Payable!Payers, NEW n \in Payable!Amount, NEW p,
         Payable!ProcessWithdrawChecks(s, 4, v, d, k, to, n, p) = 0,
         AllLamports(Payable!ProcessWithdraw(s, v, d, to, n)) = AllLamports(s)
  PROVE  BooksP(Payable!ProcessWithdraw(s, v, d, to, n), m, u, g)
<1>1. s \in LedgerP
  BY DEF BooksP
<1>2. /\ v \in s.open /\ s.vault[v].tag = 1 /\ s.deposit[d].tag = 2 /\ s.deposit[d].vault = v
      /\ s.lamports[v] >= n /\ s.deposit[d].balance >= n /\ n # 0
  BY PayableFirst DEF Payable!ProcessWithdrawChecks, Payable!RequireBinding, Payable!Owned,
     Payable!RequireOwned, Payable!RequireSigner, Payable!Require
<1>. DEFINE x0 == s.vault[v]
            y0 == s.deposit[d]
            i == (x0.total + PayableU64 - n) % PayableU64
            j == y0.balance - n
            x == [x0 EXCEPT !.total = i]
            y == [y0 EXCEPT !.balance = j]
            f == [[s.lamports EXCEPT ![v] = s.lamports[v] - n] EXCEPT ![to] = s.lamports[to] + n]
            t == [open |-> s.open, lamports |-> f, vault |-> [s.vault EXCEPT ![v] = x],
                  deposit |-> [s.deposit EXCEPT ![d] = y]]
<1>3. x0 \in VaultP /\ y0 \in DepositP /\ n \in Nat /\ v \in Payable!Payers
  BY <1>1, <1>2, PartsP, PayableConstants
<1>4. Payable!ProcessWithdraw(s, v, d, to, n) = t
  BY <1>1, DebitedP
<1>5. to # v
  <2>1. AllLamports(t) = SumFunctionOnSet(f, Payable!Payers)
    BY DEF AllLamports
  <2>2. SumFunctionOnSet(f, Payable!Payers) = SumFunctionOnSet(s.lamports, Payable!Payers)
    BY <1>4, <2>1 DEF AllLamports
  <2>. QED
    BY <1>1, <1>2, <1>3, <2>2, PartsP, PayP
<1>6. /\ f \in [Payable!Payers -> Nat] /\ f[v] = s.lamports[v] - n /\ f[to] = s.lamports[to] + n
      /\ \A w \in Payable!Payers \ {v, to} : f[w] = s.lamports[w]
  BY <1>1, <1>2, <1>3, <1>5, PartsP, PayP
<1>. HIDE DEF f
<1>7. /\ x0.total \in Payable!Amount /\ y0.balance \in Payable!Amount
      /\ v \notin g => Owed(s, v) = x0.total
      /\ s.lamports[v] + m[v] >= Rent + Owed(s, v)
  BY <1>2, <1>3, PayableConstants
     DEF BooksP, Clean, Kept, VaultP, DepositP, Payable!NewVault, Payable!NewDeposit
<1>8. y0.balance <= Owed(s, v)
  <2>1. Payable!Holding(y0, v) <= Owed(s, v)
    BY <1>1, OwedP
  <2>. QED
    BY <1>2, <2>1 DEF Payable!Holding
<1>9. /\ v \notin g => i = x0.total - n
      /\ i \in Payable!Amount /\ j \in Payable!Amount
  <2>1. x0.total \in 0..(PayableU64 - 1) /\ y0.balance \in 0..(PayableU64 - 1) /\ PayableU64 \in Nat \ {0}
    BY <1>7, PayableConstants DEF Payable!Amount
  <2>2. ASSUME v \notin g
        PROVE  x0.total + PayableU64 - n = (x0.total - n) + PayableU64 /\ x0.total - n \in 0..(PayableU64 - 1)
    BY <1>2, <1>3, <1>7, <1>8, <2>1, <2>2
  <2>3. ASSUME v \notin g PROVE (x0.total + PayableU64 - n) % PayableU64 = x0.total - n
    BY <2>1, <2>2, <2>3
  <2>4. (x0.total + PayableU64 - n) % PayableU64 \in 0..(PayableU64 - 1)
    BY <1>3, <2>1
  <2>. QED
    BY <1>2, <1>3, <2>1, <2>3, <2>4 DEF Payable!Amount
<1>10. x \in VaultP /\ x.total = i /\ (v \notin g => x.total = x0.total - n)
  BY <1>2, <1>3, <1>9, TotalP
<1>11. /\ y \in DepositP /\ y.vault = v /\ y.tag = 2
       /\ \A w : /\ Payable!Holding(y, w) = IF v = w THEN j ELSE 0
                 /\ Payable!Holding(y0, w) = IF v = w THEN y0.balance ELSE 0
  BY <1>2, <1>3, <1>9, CreditP
<1>12. /\ x0.total \in Nat /\ y0.balance \in Nat /\ Owed(s, v) \in Nat /\ m[v] \in Nat /\ Rent \in Nat
       /\ \A w \in Payable!Payers : s.lamports[w] \in Nat
  BY <1>1, <1>7, PartsP, OwedNat, PayableConstants DEF BooksP
<1>13. /\ v \notin g => x.total = Owed(s, v) - Payable!Holding(y0, v) + Payable!Holding(y, v)
       /\ f[v] + m[v] >= Rent + (Owed(s, v) - Payable!Holding(y0, v) + Payable!Holding(y, v))
  BY <1>3, <1>6, <1>7, <1>10, <1>11, <1>12
<1>14. /\ \A w \in Roots \ {v} : Payable!Holding(y, w) = Payable!Holding(s.deposit[d], w)
       /\ \A w \in Roots \ {v} : f[w] >= s.lamports[w]
       /\ y.vault = s.deposit[d].vault /\ s.deposit[d].tag = y.tag
  <2>1. ASSUME NEW w \in Roots \ {v} PROVE f[w] >= s.lamports[w]
    <3>1. w \in Payable!Payers
      BY PayableConstants
    <3>. QED
      BY <1>3, <1>6, <1>12, <3>1
  <2>. QED
    BY <1>2, <1>11, <2>1
<1>. HIDE DEF x, y
<1>. QED
  BY <1>2, <1>4, <1>6, <1>10, <1>11, <1>13, <1>14, WrittenP

\* What the authority takes from a vault is written down in the history; no vault pays itself.
LEMMA EmergencyStepP ==
  ASSUME NEW s, NEW m, NEW u, NEW g, BooksP(s, m, u, g), NEW v \in Roots,
         NEW k, NEW to \in Payable!Payers, NEW n \in Payable!Amount, NEW p,
         Payable!ProcessEmergencyWithdrawChecks(s, 3, v, k, to, n, p) = 0,
         AllLamports(Payable!ProcessEmergencyWithdraw(s, v, to, n)) = AllLamports(s)
  PROVE  BooksP(Payable!ProcessEmergencyWithdraw(s, v, to, n), [m EXCEPT ![v] = @ + n], u, g)
<1>1. s \in LedgerP /\ m \in [Roots -> Nat] /\ v \in Payable!Payers /\ n \in Nat
  BY PayableConstants DEF BooksP
<1>2. v \in s.open /\ s.lamports[v] >= n /\ n # 0
  BY PayableFirst DEF Payable!ProcessEmergencyWithdrawChecks, Payable!Owned,
     Payable!RequireOwned, Payable!Require
<1>. DEFINE f == [[s.lamports EXCEPT ![v] = s.lamports[v] - n] EXCEPT ![to] = s.lamports[to] + n]
            t == [open |-> s.open, lamports |-> f, vault |-> s.vault, deposit |-> s.deposit]
            l == [m EXCEPT ![v] = @ + n]
<1>3. Payable!ProcessEmergencyWithdraw(s, v, to, n) = t
  <2>1. Payable!ProcessEmergencyWithdraw(s, v, to, n) = [s EXCEPT !.lamports = f]
    BY DEF Payable!ProcessEmergencyWithdraw, Payable!StoreLamports
  <2>. HIDE DEF f
  <2>. QED
    BY <1>1, <2>1, PartP DEF LedgerP
<1>4. to # v
  <2>1. AllLamports(t) = SumFunctionOnSet(f, Payable!Payers)
    BY DEF AllLamports
  <2>2. SumFunctionOnSet(f, Payable!Payers) = SumFunctionOnSet(s.lamports, Payable!Payers)
    BY <1>3, <2>1 DEF AllLamports
  <2>. QED
    BY <1>1, <1>2, <2>2, PartsP, PayP
<1>5. /\ f \in [Payable!Payers -> Nat] /\ f[v] = s.lamports[v] - n /\ f[to] = s.lamports[to] + n
      /\ \A w \in Payable!Payers \ {v, to} : f[w] = s.lamports[w]
  BY <1>1, <1>2, <1>4, PartsP, PayP
<1>. HIDE DEF f
<1>6. l \in [Roots -> Nat] /\ l[v] = m[v] + n /\ \A w \in Roots \ {v} : l[w] = m[w]
  BY <1>1
<1>. HIDE DEF l
<1>7. t \in LedgerP
  BY <1>1, <1>5, PartsP DEF LedgerP
<1>8. t.open = s.open /\ t.lamports = f /\ t.vault = s.vault /\ t.deposit = s.deposit
  OBVIOUS
<1>. HIDE DEF t
<1>9. Clean(t, l, u)
  BY <1>2, <1>6, <1>8 DEF BooksP, Clean
<1>10. ASSUME NEW w \in Roots \cap u
       PROVE  /\ t.lamports[w] + l[w] >= Rent + Owed(t, w)
              /\ w \in s.open \ g => t.vault[w].total = Owed(t, w)
  <2>1. /\ s.lamports[w] + m[w] >= Rent + Owed(s, w)
        /\ w \in s.open \ g => s.vault[w].total = Owed(s, w)
        /\ Owed(t, w) = Owed(s, w)
    BY <1>8, SameOwed DEF BooksP, Kept
  <2>2. /\ w \in Payable!Payers /\ s.lamports[w] \in Nat /\ s.lamports[v] \in Nat
        /\ m[w] \in Nat /\ Rent \in Nat /\ Owed(s, w) \in Nat
    BY <1>1, PartsP, PayableConstants, OwedNat
  <2>3. CASE w = v
    BY <1>1, <1>2, <1>5, <1>6, <1>8, <2>1, <2>2, <2>3
  <2>4. CASE w = to
    BY <1>1, <1>4, <1>5, <1>6, <1>8, <2>1, <2>2, <2>4
  <2>5. CASE w # v /\ w # to
    BY <1>5, <1>6, <1>8, <2>1, <2>2, <2>5
  <2>. QED
    BY <2>3, <2>4, <2>5
<1>11. BooksP(t, l, u, g)
  BY <1>6, <1>7, <1>8, <1>9, <1>10 DEF BooksP, Kept
<1>. QED
  BY <1>3, <1>11 DEF l

\* Lamports that the System program moves.
LEMMA TransferP ==
  ASSUME NEW s \in LedgerP, NEW from, NEW to, from # to, NEW n
  PROVE  Payable!TransferCPI(s, from, to, n) =
           [s EXCEPT !.lamports = [[s.lamports EXCEPT ![from] = s.lamports[from] - n]
                                     EXCEPT ![to] = s.lamports[to] + n]]
<1>. DEFINE g == [s.lamports EXCEPT ![from] = s.lamports[from] - n]
            f == [g EXCEPT ![to] = s.lamports[to] + n]
<1>1. Payable!TransferCPI(s, from, to, n) =
        [[s EXCEPT !.lamports = g] EXCEPT
            !.lamports = [[s EXCEPT !.lamports = g].lamports EXCEPT ![to] = s.lamports[to] + n]]
  BY DEF Payable!TransferCPI
<1>. HIDE DEF g
<1>2. /\ [s EXCEPT !.lamports = g].lamports = g
      /\ \A h : [[s EXCEPT !.lamports = g] EXCEPT !.lamports = h] = [s EXCEPT !.lamports = h]
  BY DEF LedgerP
<1>3. Payable!TransferCPI(s, from, to, n) = [s EXCEPT !.lamports = f]
  BY <1>1, <1>2
<1>. QED
  BY <1>3 DEF g

-----------------------------------------------------------------------------
(* Payable: every step.                                                    *)

\* Lamports n moved.
Moved(f, from, to, n) == [[f EXCEPT ![from] = f[from] - n] EXCEPT ![to] = f[to] + n]

LEMMA MovedP ==
  ASSUME NEW f \in [Payable!Payers -> Nat], NEW from \in Payable!Payers, NEW to \in Payable!Payers,
         NEW n \in Nat, f[from] >= n, from # to
  PROVE  /\ Moved(f, from, to, n) \in [Payable!Payers -> Nat]
         /\ Moved(f, from, to, n)[to] = f[to] + n
         /\ \A x \in Payable!Payers \ {from, to} : Moved(f, from, to, n)[x] = f[x]
         /\ SumFunctionOnSet(Moved(f, from, to, n), Payable!Payers) =
              SumFunctionOnSet(f, Payable!Payers)
<1>. DEFINE g == Moved(f, from, to, n)
<1>1. /\ g \in [Payable!Payers -> Nat] /\ g[from] = f[from] - n /\ g[to] = f[to] + n
      /\ \A x \in Payable!Payers \ {from, to} : g[x] = f[x]
  BY DEF Moved
<1>. HIDE DEF g
<1>2. \A x \in Payable!Payers : f[x] \in Int /\ g[x] \in Int
  BY <1>1
<1>3. SumFunctionOnSet(g, Payable!Payers) =
        SumFunctionOnSet(f, Payable!Payers) - f[from] - f[to] + g[from] + g[to]
  <2>1. IsFiniteSet(Payable!Payers)
    BY PayableConstants
  <2>. QED
    BY <1>1, <1>2, <2>1, SumMove
<1>4. SumFunctionOnSet(f, Payable!Payers) \in Int
  BY <1>2, PayableConstants, SumInt
<1>. QED
  BY <1>1, <1>2, <1>3, <1>4 DEF g

\* A new vault at a new address owes nothing; at the address of a drained one it
\* owes what that one left, and its rent is part of what was taken.
LEMMA CreateVaultP ==
  ASSUME InvP, NEW k \in Wallets, NEW v \in Roots, Payable!CreateVault(k, v)
  PROVE  InvP'
<1>. DEFINE s == ledger
            m == drained
<1>1. BooksP(s, m, used, reused) /\ s \in LedgerP /\ m \in [Roots -> Nat]
  BY DEF InvP, BooksP
<1>2. /\ v \notin s.open /\ s.lamports[v] = 0 /\ s.lamports[k] >= Rent
      /\ ledger' = [Payable!TransferCPI(s, k, v, Rent) EXCEPT !.open = @ \cup {v}]
      /\ used' = used \cup {v} /\ reused' = reused \cup (used \cap {v})
      /\ drained' = IF v \in used THEN [m EXCEPT ![v] = @ - Rent] ELSE m
  BY DEF Payable!CreateVault
<1>. HIDE DEF s
<1>. DEFINE f == [[s.lamports EXCEPT ![k] = s.lamports[k] - Rent] EXCEPT ![v] = s.lamports[v] + Rent]
            t == [open |-> s.open \cup {v}, lamports |-> f, vault |-> s.vault, deposit |-> s.deposit]
<1>3. /\ k # v /\ k \in Payable!Payers /\ v \in Payable!Payers /\ Rent \in Nat
      /\ s.lamports \in [Payable!Payers -> Nat] /\ \A w \in Roots : w # k
  BY <1>1, PartsP, PayableConstants
<1>4. Payable!TransferCPI(s, k, v, Rent) = [s EXCEPT !.lamports = f]
  BY <1>1, <1>3, TransferP
<1>5. /\ f \in [Payable!Payers -> Nat] /\ f[v] = Rent
      /\ \A w \in Roots \ {v} : f[w] = s.lamports[w]
      /\ SumFunctionOnSet(f, Payable!Payers) = SumFunctionOnSet(s.lamports, Payable!Payers)
  <2>1. /\ f \in [Payable!Payers -> Nat] /\ f[v] = s.lamports[v] + Rent
        /\ \A w \in Payable!Payers \ {k, v} : f[w] = s.lamports[w]
        /\ SumFunctionOnSet(f, Payable!Payers) = SumFunctionOnSet(s.lamports, Payable!Payers)
    <3>1. f = Moved(s.lamports, k, v, Rent)
      BY DEF Moved
    <3>. HIDE DEF f
    <3>. QED
      BY <1>2, <1>3, <3>1, MovedP
  <2>. QED
    BY <1>2, <1>3, <2>1, PayableConstants
<1>. HIDE DEF f
<1>6. ledger' = t
  <2>1. [s EXCEPT !.lamports = f].open = s.open
    BY <1>1 DEF LedgerP
  <2>2. ledger' = [[s EXCEPT !.lamports = f] EXCEPT !.open = s.open \cup {v}]
    BY <1>2, <1>4, <2>1
  <2>. QED
    BY <1>1, <2>2 DEF LedgerP
<1>7. t \in LedgerP
  BY <1>1, <1>5, PartsP DEF LedgerP
<1>8. /\ t.open = s.open \cup {v} /\ t.lamports = f /\ t.vault = s.vault /\ t.deposit = s.deposit
      /\ AllLamports(t) = AllLamports(s)
  BY <1>5 DEF AllLamports
<1>. HIDE DEF t
<1>. DEFINE u == used \cup {v}
            g == reused \cup (used \cap {v})
            l == IF v \in used THEN [m EXCEPT ![v] = @ - Rent] ELSE m
<1>9. ASSUME NEW w \in Roots \cap used
      PROVE  /\ s.lamports[w] \in Nat /\ m[w] \in Nat /\ Owed(s, w) \in Nat
             /\ s.lamports[w] + m[w] >= Rent + Owed(s, w)
             /\ w \in s.open \ reused => s.vault[w].total = Owed(s, w)
  BY <1>1, PartsP, PayableConstants, OwedNat DEF BooksP, Kept
<1>10. /\ l \in [Roots -> Nat] /\ \A w \in Roots \ {v} : l[w] = m[w]
       /\ v \in used => l[v] = m[v] - Rent
       /\ v \notin used => l[v] = m[v]
  BY <1>1, <1>2, <1>3, <1>9
<1>11. g \subseteq u /\ reused \subseteq used
  BY <1>1 DEF BooksP
<1>. HIDE DEF l
<1>12. Clean(t, l, u)
  BY <1>1, <1>8, <1>10 DEF BooksP, Clean
<1>13. v \notin used => s.vault[v].total = 0 /\ Owed(s, v) = 0
  <2>. SUFFICES ASSUME v \notin used PROVE s.vault[v].total = 0 /\ Owed(s, v) = 0
    OBVIOUS
  <2>1. \A d \in As : Payable!Holding(s.deposit[d], v) = 0
    BY <1>1, <1>2 DEF BooksP, Clean, Payable!Holding
  <2>. QED
    BY <1>1, <1>2, <2>1, OwedNat DEF BooksP, Clean, Payable!NewVault
<1>15. ASSUME NEW w \in Roots \cap u
       PROVE  /\ t.lamports[w] + l[w] >= Rent + Owed(t, w)
              /\ w \in t.open \ g => t.vault[w].total = Owed(t, w)
  <2>1. Owed(t, w) = Owed(s, w) /\ t.vault[w] = s.vault[w] /\ m[w] \in Nat
    BY <1>1, <1>8, SameOwed
  <2>2. CASE w = v /\ v \in used
    BY <1>2, <1>3, <1>5, <1>8, <1>9, <1>10, <2>1, <2>2
  <2>3. CASE w = v /\ v \notin used
    BY <1>3, <1>5, <1>8, <1>10, <1>13, <2>1, <2>3
  <2>4. CASE w # v
    BY <1>5, <1>8, <1>9, <1>10, <2>1, <2>4
  <2>. QED
    BY <2>2, <2>3, <2>4
<1>16. BooksP(t, l, u, g)
  BY <1>7, <1>10, <1>11, <1>12, <1>15 DEF BooksP, Kept
<1>17. BooksP(ledger', drained', used', reused')
  BY <1>2, <1>6, <1>16 DEF l
<1>14. AllLamports(ledger') = AllLamports(ledger)
  BY <1>6, <1>8 DEF s
<1>. QED
  BY <1>17, <1>14 DEF InvP

\* A new deposit account does not touch the books.
LEMMA CreateDepositP ==
  ASSUME InvP, NEW d \in As, Payable!CreateDeposit(d)
  PROVE  InvP'
<1>. DEFINE s == ledger
            m == drained
            t == [open |-> s.open \cup {d}, lamports |-> s.lamports, vault |-> s.vault,
                  deposit |-> s.deposit]
            u == used \cup {d}
<1>1. BooksP(s, m, used, reused) /\ s \in LedgerP
  BY DEF InvP, BooksP
<1>2. ledger' = t /\ used' = u /\ drained' = drained /\ reused' = reused
  BY <1>1 DEF Payable!CreateDeposit, LedgerP
<1>. HIDE DEF s
<1>3. t \in LedgerP
  BY <1>1, PartsP DEF LedgerP
<1>4. /\ t.open = s.open \cup {d} /\ t.lamports = s.lamports /\ t.vault = s.vault
      /\ t.deposit = s.deposit /\ AllLamports(t) = AllLamports(s)
  BY DEF AllLamports
<1>. HIDE DEF t
<1>5. Clean(t, m, u)
  BY <1>1, <1>4 DEF BooksP, Clean
<1>6. Kept(t, m, u, reused)
  <2>1. /\ \A w \in t.open \cap Roots : w \in s.open
        /\ \A w \in Roots \cap u : w \in used
    BY <1>4, PayableConstants
  <2>. QED
    BY <1>1, <1>4, <2>1, SameOwed DEF BooksP, Kept
<1>7. BooksP(t, m, u, reused)
  BY <1>1, <1>3, <1>5, <1>6 DEF BooksP
<1>8. BooksP(ledger', drained', used', reused')
  BY <1>2, <1>7
<1>9. AllLamports(ledger') = AllLamports(ledger)
  BY <1>2, <1>4 DEF s
<1>. QED
  BY <1>8, <1>9 DEF InvP

\* What every instruction leaves is in order, and the runtime commits it.
LEMMA ExecuteP ==
  ASSUME InvP, NEW c, NEW s, Payable!Execute(c, s), c = 0 => BooksP(s, drained, used, reused)
  PROVE  InvP'
<1>1. Payable!Commit(c, s) /\ drained' = drained /\ used' = used /\ reused' = reused
  BY DEF Payable!Execute
<1>2. BooksP(s, drained, used, reused)
  BY <1>1 DEF Payable!Commit
<1>3. BooksP(ledger', drained, used, reused) /\ AllLamports(ledger') = AllLamports(ledger)
  BY <1>1, <1>2, CommitP
<1>. QED
  BY <1>1, <1>3 DEF InvP

LEMMA ProcessP == ASSUME InvP, NEW p, Payable!Process(p) PROVE InvP'
<1>0. BooksP(ledger, drained, used, reused)
  BY DEF InvP
<1>1. ASSUME NEW v \in Roots, NEW k \in Wallets,
             Payable!Execute(Payable!ProcessInitializeVaultChecks(ledger, 1, v, p),
                             Payable!ProcessInitializeVault(ledger, v, k))
      PROVE  InvP'
  <2>. DEFINE c == Payable!ProcessInitializeVaultChecks(ledger, 1, v, p)
              s == Payable!ProcessInitializeVault(ledger, v, k)
  <2>1. c = 0 => BooksP(s, drained, used, reused)
    BY <1>0, InitializeVaultP
  <2>2. Payable!Execute(c, s)
    BY <1>1
  <2>. HIDE DEF c, s
  <2>. QED
    BY <2>1, <2>2, ExecuteP
<1>2. ASSUME NEW d, NEW v, NEW k \in Payable!Payers,
             Payable!Execute(Payable!ProcessInitializeDepositChecks(ledger, 2, d, v, p),
                             Payable!ProcessInitializeDeposit(ledger, d, v, k))
      PROVE  InvP'
  <2>. DEFINE c == Payable!ProcessInitializeDepositChecks(ledger, 2, d, v, p)
              s == Payable!ProcessInitializeDeposit(ledger, d, v, k)
  <2>1. c = 0 => BooksP(s, drained, used, reused)
    BY <1>0, InitializeDepositP
  <2>2. Payable!Execute(c, s)
    BY <1>2
  <2>. HIDE DEF c, s
  <2>. QED
    BY <2>1, <2>2, ExecuteP
<1>3. ASSUME NEW v \in Roots, NEW d \in As, NEW k \in Payable!Payers, NEW q, NEW n \in Payable!Amount,
             Payable!Execute(Payable!ProcessDepositChecks(ledger, 4, v, d, k, q, n, p),
                             Payable!ProcessDeposit(ledger, v, d, k, n))
      PROVE  InvP'
  <2>. DEFINE c == Payable!ProcessDepositChecks(ledger, 4, v, d, k, q, n, p)
              s == Payable!ProcessDeposit(ledger, v, d, k, n)
  <2>1. c = 0 => BooksP(s, drained, used, reused)
    BY <1>0, DepositStepP
  <2>2. Payable!Execute(c, s)
    BY <1>3
  <2>. HIDE DEF c, s
  <2>. QED
    BY <2>1, <2>2, ExecuteP
<1>4. ASSUME NEW v \in Roots, NEW d \in As, NEW k \in Payable!Payers, NEW to \in Payable!Payers,
             NEW n \in Payable!Amount,
             Payable!Execute(Payable!ProcessWithdrawChecks(ledger, 4, v, d, k, to, n, p),
                             Payable!ProcessWithdraw(ledger, v, d, to, n))
      PROVE  InvP'
  <2>. DEFINE c == Payable!ProcessWithdrawChecks(ledger, 4, v, d, k, to, n, p)
              s == Payable!ProcessWithdraw(ledger, v, d, to, n)
  <2>1. c = 0 /\ AllLamports(s) = AllLamports(ledger) => BooksP(s, drained, used, reused)
    BY <1>0, WithdrawStepP
  <2>2. Payable!Execute(c, s)
    BY <1>4
  <2>. HIDE DEF c, s
  <2>3. AllLamports(s) = AllLamports(ledger)
    BY <2>2, LamportsP DEF Payable!Execute, Payable!Commit
  <2>. QED
    BY <2>1, <2>2, <2>3, ExecuteP
<1>5. ASSUME NEW v \in Roots, NEW k \in Payable!Payers, NEW to \in Payable!Payers,
             NEW n \in Payable!Amount,
             Payable!Commit(Payable!ProcessEmergencyWithdrawChecks(ledger, 3, v, k, to, n, p),
                            Payable!ProcessEmergencyWithdraw(ledger, v, to, n)),
             drained' = [drained EXCEPT ![v] = @ + n], used' = used, reused' = reused
      PROVE  InvP'
  <2>. DEFINE c == Payable!ProcessEmergencyWithdrawChecks(ledger, 3, v, k, to, n, p)
              s == Payable!ProcessEmergencyWithdraw(ledger, v, to, n)
              l == [drained EXCEPT ![v] = @ + n]
  <2>1. c = 0 /\ AllLamports(s) = AllLamports(ledger) => BooksP(s, l, used, reused)
    BY <1>0, EmergencyStepP
  <2>2. Payable!Commit(c, s) /\ drained' = l
    BY <1>5
  <2>. HIDE DEF c, s, l
  <2>3. AllLamports(s) = AllLamports(ledger) /\ c = 0
    BY <2>2, LamportsP DEF Payable!Commit
  <2>4. BooksP(ledger', l, used, reused) /\ AllLamports(ledger') = AllLamports(ledger)
    BY <2>1, <2>2, <2>3, CommitP
  <2>. QED
    BY <1>5, <2>2, <2>4 DEF InvP
<1>. QED
  BY <1>1, <1>2, <1>3, <1>4, <1>5 DEF Payable!Process

LEMMA NextP == InvP /\ Payable!Next => InvP'
BY CreateVaultP, CreateDepositP, ProcessP DEF Payable!Next

LEMMA InitP == Payable!Init => InvP
<1>. SUFFICES ASSUME Payable!Init PROVE InvP
  OBVIOUS
<1>. DEFINE f == [x \in Payable!Payers |-> IF x \in Wallets THEN Funds[x] ELSE 0]
            m == [v \in Roots |-> 0]
            s == [open |-> {}, lamports |-> f, vault |-> [v \in Roots |-> Payable!NewVault],
                  deposit |-> [d \in As |-> Payable!NewDeposit]]
<1>1. ledger = s /\ drained = m /\ used = {} /\ reused = {}
  BY DEF Payable!Init
<1>2. f \in [Payable!Payers -> Nat]
  BY PayableConstants
<1>3. SumFunctionOnSet(f, Payable!Payers) = SumFunctionOnSet(Funds, Wallets)
  <2>1. /\ \A x \in Wallets : f[x] = Funds[x] /\ f[x] \in Int
        /\ \A x \in Roots \ Wallets : f[x] = 0
        /\ \A x \in Wallets \cup Roots : f[x] \in Int
    BY PayableConstants
  <2>. HIDE DEF f
  <2>2. Payable!Payers = Wallets \cup Roots /\ IsFiniteSet(Wallets \cup Roots)
    BY PayableConstants
  <2>3. SumFunctionOnSet(f, Wallets \cup Roots) = SumFunctionOnSet(f, Wallets)
    BY <2>1, <2>2, SumPadded
  <2>4. SumFunctionOnSet(f, Wallets) = SumFunctionOnSet(Funds, Wallets)
    BY <2>1, PayableConstants, SumSame
  <2>. QED
    BY <2>2, <2>3, <2>4
<1>. HIDE DEF f
<1>4. s \in LedgerP
  BY <1>2 DEF LedgerP, VaultP, DepositP
<1>5. Clean(s, m, {}) /\ Kept(s, m, {}, {})
  BY DEF Clean, Kept, Payable!NewDeposit
<1>6. AllLamports(s) = SumFunctionOnSet(Funds, Wallets)
  BY <1>3 DEF AllLamports
<1>7. m \in [Roots -> Nat]
  OBVIOUS
<1>. HIDE DEF s, m
<1>. QED
  BY <1>1, <1>4, <1>5, <1>6, <1>7 DEF InvP, BooksP

-----------------------------------------------------------------------------
(* GOSPL: the theorems about the token program, for its instance here.     *)

G == INSTANCE GosplProofs WITH
  Mints <- As, Tokens <- Bs, Keys <- {Odd}, NewKeys <- {Odd}, U64 <- GosplU64,
  Privileges <- GosplTransactions, signed <- authorized

\* The two instances are of one program.
LEMMA SameAssumption == G!GosplAssumption
BY ProgramsAssumption DEF G!GosplAssumption, Gospl!GosplAssumption, G!Addresses, Gospl!Addresses, G!KeyBytes,
  Gospl!KeyBytes, G!IsFiniteSet, Gospl!IsFiniteSet

LEMMA SameInit == G!Init <=> Gospl!Init
BY DEF G!Init, Gospl!Init, G!ZeroMint, Gospl!ZeroMint, G!ZeroToken, Gospl!ZeroToken

\* The checks of an instruction are the same in both, and so is what it writes.
LEMMA SameChecks ==
  /\ \A m, p : G!InitializeMintChecks(m, p) = Gospl!InitializeMintChecks(m, p)
  /\ \A t, m, p : G!InitializeAccountChecks(t, m, p) = Gospl!InitializeAccountChecks(t, m, p)
  /\ \A m, t, a, n, p : G!MintToChecks(m, t, a, n, p) = Gospl!MintToChecks(m, t, a, n, p)
  /\ \A s, t, a, n, p : G!TransferChecks(s, t, a, n, p) = Gospl!TransferChecks(s, t, a, n, p)
  /\ \A s, m, a, n, p : G!BurnChecks(s, m, a, n, p) = Gospl!BurnChecks(s, m, a, n, p)
  /\ \A s, o, p : G!OwnerChecks(s, o, p) = Gospl!OwnerChecks(s, o, p)
  /\ \A m, c, p : G!SetMintAuthorityChecks(m, c, p) = Gospl!SetMintAuthorityChecks(m, c, p)
<1>1. \A a, b : G!??(a, b) = Gospl!??(a, b)
  BY DEF
    G!??, Gospl!??
<1>2. \A m, p : G!InitializeMintChecks(m, p) = Gospl!InitializeMintChecks(m, p)
  BY <1>1 DEF
    G!InitializeMintChecks, Gospl!InitializeMintChecks, G!RequireOwnedWritable,
    Gospl!RequireOwnedWritable, G!RequireOwned, Gospl!RequireOwned, G!RequireSigner,
    Gospl!RequireSigner, G!RequireZero, Gospl!RequireZero, G!MintAt, Gospl!MintAt,
    G!ValidateMint, Gospl!ValidateMint, G!ZeroMint, Gospl!ZeroMint
<1>3. \A t, m, p : G!InitializeAccountChecks(t, m, p) = Gospl!InitializeAccountChecks(t, m, p)
  BY <1>1 DEF
    G!InitializeAccountChecks, Gospl!InitializeAccountChecks, G!SameAccount,
    Gospl!SameAccount, G!RequireOwnedWritable, Gospl!RequireOwnedWritable,
    G!RequireSigner, Gospl!RequireSigner, G!RequireOwned, Gospl!RequireOwned,
    G!ValidateMint, Gospl!ValidateMint, G!MintAt, Gospl!MintAt, G!RequireZero,
    Gospl!RequireZero, G!TokenAt, Gospl!TokenAt, G!ValidateToken, Gospl!ValidateToken,
    G!ZeroMint, Gospl!ZeroMint, G!ZeroToken, Gospl!ZeroToken
<1>4. \A m, t, a, n, p : G!MintToChecks(m, t, a, n, p) = Gospl!MintToChecks(m, t, a, n, p)
  BY <1>1 DEF
    G!MintToChecks, Gospl!MintToChecks, G!SameAccount, Gospl!SameAccount,
    G!RequireOwnedWritable, Gospl!RequireOwnedWritable, G!RequireOwned,
    Gospl!RequireOwned, G!ValidateMint, Gospl!ValidateMint, G!ValidateToken,
    Gospl!ValidateToken, G!Same, Gospl!Same, G!RequireAuthority, Gospl!RequireAuthority,
    G!RequireSigner, Gospl!RequireSigner, G!Wraps, Gospl!Wraps, G!Plus, Gospl!Plus,
    G!MintAt, Gospl!MintAt, G!TokenAt, Gospl!TokenAt, G!ZeroMint, Gospl!ZeroMint,
    G!ZeroToken, Gospl!ZeroToken
<1>5. \A s, t, a, n, p : G!TransferChecks(s, t, a, n, p) = Gospl!TransferChecks(s, t, a, n, p)
  BY <1>1 DEF
    G!TransferChecks, Gospl!TransferChecks, G!SameAccount, Gospl!SameAccount,
    G!RequireOwnedWritable, Gospl!RequireOwnedWritable, G!RequireOwned,
    Gospl!RequireOwned, G!ValidateToken, Gospl!ValidateToken, G!Same, Gospl!Same,
    G!RequireSigner, Gospl!RequireSigner, G!Spendable, Gospl!Spendable, G!Enough,
    Gospl!Enough, G!Wraps, Gospl!Wraps, G!Plus, Gospl!Plus, G!TokenAt, Gospl!TokenAt,
    G!ZeroToken, Gospl!ZeroToken
<1>6. \A s, m, a, n, p : G!BurnChecks(s, m, a, n, p) = Gospl!BurnChecks(s, m, a, n, p)
  BY <1>1 DEF
    G!BurnChecks, Gospl!BurnChecks, G!SameAccount, Gospl!SameAccount,
    G!RequireOwnedWritable, Gospl!RequireOwnedWritable, G!RequireOwned,
    Gospl!RequireOwned, G!ValidateMint, Gospl!ValidateMint, G!ValidateToken,
    Gospl!ValidateToken, G!Same, Gospl!Same, G!RequireSigner, Gospl!RequireSigner,
    G!Spendable, Gospl!Spendable, G!Enough, Gospl!Enough, G!MintAt, Gospl!MintAt,
    G!TokenAt, Gospl!TokenAt, G!ZeroMint, Gospl!ZeroMint, G!ZeroToken, Gospl!ZeroToken
<1>7. \A s, o, p : G!OwnerChecks(s, o, p) = Gospl!OwnerChecks(s, o, p)
  BY <1>1 DEF
    G!OwnerChecks, Gospl!OwnerChecks, G!RequireOwnedWritable,
    Gospl!RequireOwnedWritable, G!RequireOwned, Gospl!RequireOwned, G!ValidateToken,
    Gospl!ValidateToken, G!RequireAuthority, Gospl!RequireAuthority, G!RequireSigner,
    Gospl!RequireSigner, G!TokenAt, Gospl!TokenAt, G!ZeroToken, Gospl!ZeroToken
<1>8. \A m, c, p : G!SetMintAuthorityChecks(m, c, p) = Gospl!SetMintAuthorityChecks(m, c, p)
  BY <1>1 DEF
    G!SetMintAuthorityChecks, Gospl!SetMintAuthorityChecks, G!RequireOwnedWritable,
    Gospl!RequireOwnedWritable, G!RequireOwned, Gospl!RequireOwned, G!ValidateMint,
    Gospl!ValidateMint, G!Same, Gospl!Same, G!RequireAuthority, Gospl!RequireAuthority,
    G!RequireSigner, Gospl!RequireSigner, G!MintAt, Gospl!MintAt, G!ZeroMint,
    Gospl!ZeroMint
<1>. QED
  BY <1>2, <1>3, <1>4, <1>5, <1>6, <1>7, <1>8

LEMMA SameEffects ==
  /\ \A m, k : G!InitializeMint(m, k) = Gospl!InitializeMint(m, k)
  /\ \A t, m, k : G!InitializeAccount(t, m, k) = Gospl!InitializeAccount(t, m, k)
  /\ \A m, t, n : G!MintTo(m, t, n) = Gospl!MintTo(m, t, n)
  /\ \A s, t, a, n : G!Transfer(s, t, a, n) = Gospl!Transfer(s, t, a, n)
  /\ \A s, m, a, n : G!Burn(s, m, a, n) = Gospl!Burn(s, m, a, n)
  /\ \A s, d, n : G!Approve(s, d, n) = Gospl!Approve(s, d, n)
  /\ \A s : G!Revoke(s) = Gospl!Revoke(s)
  /\ \A m, k : G!ReplaceMintAuthority(m, k) = Gospl!ReplaceMintAuthority(m, k)
  /\ \A m : G!DisableMintAuthority(m) = Gospl!DisableMintAuthority(m)
  /\ \A t, k : G!SetOwner(t, k) = Gospl!SetOwner(t, k)
<1>1. \A m, k : G!InitializeMint(m, k) = Gospl!InitializeMint(m, k)
  BY DEF
    G!InitializeMint, Gospl!InitializeMint, G!Wrote, Gospl!Wrote
<1>2. \A t, m, k : G!InitializeAccount(t, m, k) = Gospl!InitializeAccount(t, m, k)
  BY DEF
    G!InitializeAccount, Gospl!InitializeAccount, G!Wrote, Gospl!Wrote
<1>3. \A m, t, n : G!MintTo(m, t, n) = Gospl!MintTo(m, t, n)
  BY DEF
    G!MintTo, Gospl!MintTo, G!Plus, Gospl!Plus, G!Wrote, Gospl!Wrote
<1>4. \A s, t, a, n : G!Transfer(s, t, a, n) = Gospl!Transfer(s, t, a, n)
  BY DEF
    G!Transfer, Gospl!Transfer, G!Spend, Gospl!Spend, G!Plus, Gospl!Plus, G!Wrote,
    Gospl!Wrote
<1>5. \A s, m, a, n : G!Burn(s, m, a, n) = Gospl!Burn(s, m, a, n)
  BY DEF
    G!Burn, Gospl!Burn, G!Spend, Gospl!Spend, G!Wrote, Gospl!Wrote
<1>6. \A s, d, n : G!Approve(s, d, n) = Gospl!Approve(s, d, n)
  BY DEF
    G!Approve, Gospl!Approve, G!Wrote, Gospl!Wrote
<1>7. \A s : G!Revoke(s) = Gospl!Revoke(s)
  BY DEF
    G!Revoke, Gospl!Revoke, G!Wrote, Gospl!Wrote
<1>8. \A m, k : G!ReplaceMintAuthority(m, k) = Gospl!ReplaceMintAuthority(m, k)
  BY DEF
    G!ReplaceMintAuthority, Gospl!ReplaceMintAuthority, G!Wrote, Gospl!Wrote
<1>9. \A m : G!DisableMintAuthority(m) = Gospl!DisableMintAuthority(m)
  BY DEF
    G!DisableMintAuthority, Gospl!DisableMintAuthority, G!Wrote, Gospl!Wrote
<1>10. \A t, k : G!SetOwner(t, k) = Gospl!SetOwner(t, k)
  BY DEF
    G!SetOwner, Gospl!SetOwner, G!Wrote, Gospl!Wrote
<1>. QED
  BY <1>1, <1>2, <1>3, <1>4, <1>5, <1>6, <1>7, <1>8, <1>9, <1>10

LEMMA SameNext == G!Next <=> Gospl!Next
<1>. SUFFICES ASSUME NEW p PROVE G!Process(p) <=> Gospl!Process(p)
  BY DEF G!Next, Gospl!Next
<1>1. (\E m \in G!Addresses, k \in {Odd} :
          G!Perform(G!InitializeMintChecks(m, p), G!InitializeMint(m, k), p))
        <=> \E m \in Gospl!Addresses, k \in {Odd} :
              Gospl!Perform(Gospl!InitializeMintChecks(m, p), Gospl!InitializeMint(m, k), p)
  BY SameChecks, SameEffects
  DEF G!Perform, Gospl!Perform, G!Addresses, Gospl!Addresses
<1>2. (\E t, m \in G!Addresses, k \in {Odd} :
          G!Perform(G!InitializeAccountChecks(t, m, p), G!InitializeAccount(t, m, k), p))
        <=> \E t, m \in Gospl!Addresses, k \in {Odd} :
              Gospl!Perform(Gospl!InitializeAccountChecks(t, m, p), Gospl!InitializeAccount(t, m, k), p)
  BY SameChecks, SameEffects
  DEF G!Perform, Gospl!Perform, G!Addresses, Gospl!Addresses
<1>3. (\E m, t, a \in G!Addresses, n \in G!Amount :
          G!Perform(G!MintToChecks(m, t, a, n, p), G!MintTo(m, t, n), p))
        <=> \E m, t, a \in Gospl!Addresses, n \in Gospl!Amount :
              Gospl!Perform(Gospl!MintToChecks(m, t, a, n, p), Gospl!MintTo(m, t, n), p)
  BY SameChecks, SameEffects
  DEF G!Perform, Gospl!Perform, G!Addresses, Gospl!Addresses, G!Amount, Gospl!Amount
<1>4. (\E s, t, a \in G!Addresses, n \in G!Amount :
          G!Perform(G!TransferChecks(s, t, a, n, p), G!Transfer(s, t, a, n), p))
        <=> \E s, t, a \in Gospl!Addresses, n \in Gospl!Amount :
              Gospl!Perform(Gospl!TransferChecks(s, t, a, n, p), Gospl!Transfer(s, t, a, n), p)
  BY SameChecks, SameEffects
  DEF G!Perform, Gospl!Perform, G!Addresses, Gospl!Addresses, G!Amount, Gospl!Amount
<1>5. (\E s, m, a \in G!Addresses, n \in G!Amount :
          G!Perform(G!BurnChecks(s, m, a, n, p), G!Burn(s, m, a, n), p))
        <=> \E s, m, a \in Gospl!Addresses, n \in Gospl!Amount :
              Gospl!Perform(Gospl!BurnChecks(s, m, a, n, p), Gospl!Burn(s, m, a, n), p)
  BY SameChecks, SameEffects
  DEF G!Perform, Gospl!Perform, G!Addresses, Gospl!Addresses, G!Amount, Gospl!Amount
<1>6. (\E s, o, d \in G!Addresses, n \in G!Amount :
          G!Perform(G!OwnerChecks(s, o, p), G!Approve(s, d, n), p))
        <=> \E s, o, d \in Gospl!Addresses, n \in Gospl!Amount :
              Gospl!Perform(Gospl!OwnerChecks(s, o, p), Gospl!Approve(s, d, n), p)
  BY SameChecks, SameEffects
  DEF G!Perform, Gospl!Perform, G!Addresses, Gospl!Addresses, G!Amount, Gospl!Amount
<1>7. (\E s, o \in G!Addresses :
          G!Perform(G!OwnerChecks(s, o, p), G!Revoke(s), p))
        <=> \E s, o \in Gospl!Addresses :
              Gospl!Perform(Gospl!OwnerChecks(s, o, p), Gospl!Revoke(s), p)
  BY SameChecks, SameEffects
  DEF G!Perform, Gospl!Perform, G!Addresses, Gospl!Addresses
<1>8. (\E m, c \in G!Addresses, k \in {Odd} :
          G!Perform(G!SetMintAuthorityChecks(m, c, p), G!ReplaceMintAuthority(m, k), p))
        <=> \E m, c \in Gospl!Addresses, k \in {Odd} :
              Gospl!Perform(Gospl!SetMintAuthorityChecks(m, c, p), Gospl!ReplaceMintAuthority(m, k), p)
  BY SameChecks, SameEffects
  DEF G!Perform, Gospl!Perform, G!Addresses, Gospl!Addresses
<1>9. (\E m, c \in G!Addresses :
          G!Perform(G!SetMintAuthorityChecks(m, c, p), G!DisableMintAuthority(m), p))
        <=> \E m, c \in Gospl!Addresses :
              Gospl!Perform(Gospl!SetMintAuthorityChecks(m, c, p), Gospl!DisableMintAuthority(m), p)
  BY SameChecks, SameEffects
  DEF G!Perform, Gospl!Perform, G!Addresses, Gospl!Addresses
<1>10. (\E t, c \in G!Addresses, k \in {Odd} :
          G!Perform(G!OwnerChecks(t, c, p), G!SetOwner(t, k), p))
        <=> \E t, c \in Gospl!Addresses, k \in {Odd} :
              Gospl!Perform(Gospl!OwnerChecks(t, c, p), Gospl!SetOwner(t, k), p)
  BY SameChecks, SameEffects
  DEF G!Perform, Gospl!Perform, G!Addresses, Gospl!Addresses
<1>. QED
  BY <1>1, <1>2, <1>3, <1>4, <1>5, <1>6, <1>7, <1>8, <1>9, <1>10, Zenon
  DEF G!Process, Gospl!Process

LEMMA SameBalances == G!SupplyIsBalances <=> Gospl!SupplyIsBalances
BY DEF
  G!SupplyIsBalances, Gospl!SupplyIsBalances, G!Holding, Gospl!Holding, G!SumFunctionOnSet,
  Gospl!SumFunctionOnSet, G!FoldFunctionOnSet, Gospl!FoldFunctionOnSet, G!MapThenFoldSet,
  Gospl!MapThenFoldSet

InvG == G!IInv /\ G!Backed

LEMMA InitG == Gospl!Init => InvG
BY SameAssumption, SameInit, G!IInvInit, G!BackedInit DEF InvG

LEMMA NextG == InvG /\ Gospl!Next => InvG'
BY SameAssumption, SameNext, G!IInvNext, G!BackedNext DEF InvG

LEMMA SumG == InvG => Gospl!SupplyIsBalances
BY SameAssumption, SameBalances, G!BackedIs DEF InvG

-----------------------------------------------------------------------------
(* ERC-20: the program and its native model.                               *)

\* The decoded accounts of the ERC-20 program.
D20 == DecodedErc20(erc20)

\* What a decoded account says of the stored one.
LEMMA Decoded20 ==
  ASSUME Typed20
  PROVE  /\ \A m \in As :
              /\ D20.mint[m].initialized <=> erc20.mint[m].tag = 1
              /\ D20.mint[m].totalSupply = erc20.mint[m].supply
              /\ D20.mint[m].mintAuthority = erc20.mint[m].authority
              /\ erc20.mint[m] # Erc20!NewMint <=> erc20.mint[m].tag = 1
         /\ \A b \in Bs :
              /\ D20.balance[b].initialized <=> erc20.balance[b].tag = 2
              /\ D20.balance[b].mint = erc20.balance[b].mint
              /\ D20.balance[b].owner = erc20.balance[b].owner
              /\ D20.balance[b].amount = erc20.balance[b].amount
              /\ erc20.balance[b] # Erc20!NewBalance <=> erc20.balance[b].tag = 2
         /\ \A a \in Cs :
              /\ D20.allowance[a].initialized <=> erc20.allowance[a].tag = 3
              /\ D20.allowance[a].mint = erc20.allowance[a].mint
              /\ D20.allowance[a].owner = erc20.allowance[a].owner
              /\ D20.allowance[a].spender = erc20.allowance[a].spender
              /\ D20.allowance[a].amount = erc20.allowance[a].amount
              /\ erc20.allowance[a] # Erc20!NewAllowance <=> erc20.allowance[a].tag = 3
<1>. USE DEF D20, DecodedErc20
<1>1. ASSUME NEW m \in As
      PROVE  /\ D20.mint[m].initialized <=> erc20.mint[m].tag = 1
             /\ D20.mint[m].totalSupply = erc20.mint[m].supply
             /\ D20.mint[m].mintAuthority = erc20.mint[m].authority
  BY DEF Erc20Model!DecodeMintState, Erc20Model!MintState
<1>2. ASSUME NEW m \in As
      PROVE  erc20.mint[m] # Erc20!NewMint <=> erc20.mint[m].tag = 1
  BY DEF Typed20, Mint20, Erc20!NewMint
<1>3. ASSUME NEW b \in Bs
      PROVE  /\ D20.balance[b].initialized <=> erc20.balance[b].tag = 2
             /\ D20.balance[b].mint = erc20.balance[b].mint
             /\ D20.balance[b].owner = erc20.balance[b].owner
             /\ D20.balance[b].amount = erc20.balance[b].amount
  BY DEF Erc20Model!DecodeBalanceState, Erc20Model!BalanceState
<1>4. ASSUME NEW b \in Bs
      PROVE  erc20.balance[b] # Erc20!NewBalance <=> erc20.balance[b].tag = 2
  BY DEF Typed20, Balance20, Erc20!NewBalance
<1>5. ASSUME NEW a \in Cs
      PROVE  /\ D20.allowance[a].initialized <=> erc20.allowance[a].tag = 3
             /\ D20.allowance[a].mint = erc20.allowance[a].mint
             /\ D20.allowance[a].owner = erc20.allowance[a].owner
             /\ D20.allowance[a].spender = erc20.allowance[a].spender
             /\ D20.allowance[a].amount = erc20.allowance[a].amount
  BY DEF Erc20Model!DecodeAllowanceState, Erc20Model!AllowanceState
<1>6. ASSUME NEW a \in Cs
      PROVE  erc20.allowance[a] # Erc20!NewAllowance <=> erc20.allowance[a].tag = 3
  BY DEF Typed20, Allowance20, Erc20!NewAllowance
<1>. HIDE DEF D20
<1>. QED
  BY <1>1, <1>2, <1>3, <1>4, <1>5, <1>6

\* The links of a chain of checks, on both sides.
LEMMA Code20 ==
  /\ \A a, b : Erc20!??(a, b) = Erc20Model!??(a, b)
  /\ \A a : Erc20!??(0, a) = a
BY DEF Erc20!??, Erc20Model!??

\* A sum that wraps and one above the largest amount are one check.
LEMMA Wraps20 ==
  \A a, b \in Erc20!Amount : Erc20!Plus(a, b, Erc20U64) >= a <=> a <= Erc20Model!MaxUint64 - b
<1>. SUFFICES ASSUME NEW a \in Erc20!Amount, NEW b \in Erc20!Amount
              PROVE  Erc20!Plus(a, b, Erc20U64) >= a <=> a <= Erc20Model!MaxUint64 - b
  OBVIOUS
<1>0. a \in Nat /\ b \in Nat /\ Erc20U64 \in Nat \ {0} /\ a < Erc20U64 /\ b < Erc20U64
  BY Erc20Constants DEF Erc20!Amount
<1>1. CASE a + b < Erc20U64
  BY <1>0, <1>1 DEF Erc20!Plus, Erc20Model!MaxUint64
<1>2. CASE a + b >= Erc20U64
  <2>1. (a + b) % Erc20U64 = a + b - Erc20U64
    BY <1>0, <1>2
  <2>. QED
    BY <1>0, <1>2, <2>1 DEF Erc20!Plus, Erc20Model!MaxUint64
<1>. QED
  BY <1>0, <1>1, <1>2

\* Every stored amount is in range.
LEMMA Amounts20 ==
  ASSUME Typed20
  PROVE  /\ \A m \in As : erc20.mint[m].supply \in Erc20!Amount
         /\ \A b \in Bs : erc20.balance[b].amount \in Erc20!Amount
         /\ \A a \in Cs : erc20.allowance[a].amount \in Erc20!Amount
<1>1. \A m \in As : erc20.mint[m] \in Mint20
  BY DEF Typed20
<1>2. \A b \in Bs : erc20.balance[b] \in Balance20
  BY DEF Typed20
<1>3. \A a \in Cs : erc20.allowance[a] \in Allowance20
  BY DEF Typed20
<1>. QED
  BY <1>1, <1>2, <1>3, Erc20Constants
  DEF Mint20, Balance20, Allowance20, Erc20!NewMint, Erc20!NewBalance, Erc20!NewAllowance

\* The two checks of a live mint are the model's one.
LEMMA LiveMint20 ==
  ASSUME Typed20, NEW m \in As
  PROVE  Erc20!LiveMint(erc20, m) = IF D20.mint[m].initialized THEN 0 ELSE 8
BY Decoded20 DEF Erc20!LiveMint, Erc20!??, Erc20!Require

\* InitializeMint checks what its native method checks, in the same order.
LEMMA InitializeMintCode20 ==
  ASSUME Typed20, NEW m \in As, NEW k \in Wallets, NEW p
  PROVE  Erc20!ProcessInitializeMintChecks(erc20, 1, m, p) =
           Erc20Model!InitializeMint(D20, m, k, p).code
BY Decoded20, Amounts20, Code20, Wraps20
DEF
    Erc20!ProcessInitializeMintChecks, Erc20!RequireAccountCount, Erc20!Owned,
    Erc20!RequireOwned, Erc20!Require, Erc20!RequireSigner, Erc20!Accounts,
    Erc20Model!InitializeMint, Erc20Model!RequireProgramAccount, Erc20Model!RequireOwned,
    Erc20Model!Require, Erc20Model!RequireSigner, Erc20Model!Outcome, Erc20Model!Accounts

\* InitializeBalance checks what its native method checks, in the same order.
LEMMA InitializeBalanceCode20 ==
  ASSUME Typed20, NEW b \in Bs, NEW m \in As, NEW k \in Wallets, NEW p
  PROVE  Erc20!ProcessInitializeBalanceChecks(erc20, 2, b, m, p) =
           Erc20Model!InitializeBalance(D20, b, m, k, p).code
BY Decoded20, Amounts20, Code20, LiveMint20
DEF
    Erc20!ProcessInitializeBalanceChecks, Erc20!RequireAccountCount, Erc20!Owned,
    Erc20!RequireOwned, Erc20!Require, Erc20!RequireSigner, Erc20!Accounts, Erc20Model!InitializeBalance, Erc20Model!RequireProgramAccount, Erc20Model!RequireOwned,
    Erc20Model!Require, Erc20Model!RequireSigner, Erc20Model!Outcome, Erc20Model!Accounts,
    Erc20Model!Initialized

\* MintTo checks what its native method checks, in the same order.
LEMMA MintToCode20 ==
  ASSUME Typed20, NEW m \in As, NEW b \in Bs, NEW k \in Wallets, NEW n \in Erc20!Amount, NEW p
  PROVE  Erc20!ProcessMintToChecks(erc20, 3, m, b, k, n, p) =
           Erc20Model!MintTo(D20, m, b, k, n, p).code
<1>. DEFINE P == D20.mint[m].totalSupply <= Erc20Model!MaxUint64 - n
           Q == D20.balance[b].amount <= Erc20Model!MaxUint64 - n
<1>1. \A a : Erc20!??(Erc20!??(a, IF P THEN 0 ELSE 13), IF Q THEN 0 ELSE 13)
             = Erc20!??(a, IF P /\ Q THEN 0 ELSE 13)
  BY DEF Erc20!??
<1>. QED
  BY <1>1, Decoded20, Amounts20, Code20, Wraps20
DEF
    Erc20!ProcessMintToChecks, Erc20!RequireAccountCount, Erc20!Owned, Erc20!RequireOwned,
    Erc20!Require, Erc20!RequireSigner, Erc20!Accounts, Erc20!RequireAuthority,
    Erc20!Tagged, Erc20!RequireNoWrap, Erc20Model!MintTo, Erc20Model!RequireProgramAccount,
    Erc20Model!RequireOwned, Erc20Model!Require, Erc20Model!RequireSigner,
    Erc20Model!Outcome, Erc20Model!Accounts, Erc20Model!RequireAuthority,
    Erc20Model!Initialized

\* Burn checks what its native method checks, in the same order.
LEMMA BurnCode20 ==
  ASSUME Typed20, NEW b \in Bs, NEW m \in As, NEW k \in Wallets, NEW n \in Erc20!Amount, NEW p
  PROVE  Erc20!ProcessBurnChecks(erc20, 3, b, m, k, n, p) =
           Erc20Model!Burn(D20, b, m, k, n, p).code
<1>. DEFINE P == D20.balance[b].amount >= n
           Q == D20.mint[m].totalSupply >= n
<1>1. \A x : Erc20!??(Erc20!??(x, IF P THEN 0 ELSE 11), IF Q THEN 0 ELSE 11)
             = Erc20!??(x, IF P /\ Q THEN 0 ELSE 11)
  BY DEF Erc20!??
<1>. QED
  BY <1>1, Decoded20, Amounts20, Code20, Wraps20
DEF
    Erc20!ProcessBurnChecks, Erc20!RequireAccountCount, Erc20!Owned, Erc20!RequireOwned,
    Erc20!Require, Erc20!RequireSigner, Erc20!Accounts, Erc20!RequireAuthority,
    Erc20!Tagged, Erc20Model!Burn, Erc20Model!RequireProgramAccount,
    Erc20Model!RequireOwned, Erc20Model!Require, Erc20Model!RequireSigner,
    Erc20Model!Outcome, Erc20Model!Accounts, Erc20Model!RequireAuthority,
    Erc20Model!Initialized

\* Transfer checks what its native method checks, in the same order.
LEMMA TransferCode20 ==
  ASSUME Typed20, NEW from \in Bs, NEW to \in Bs, NEW k \in Wallets, NEW n \in Erc20!Amount, NEW p
  PROVE  Erc20!ProcessTransferChecks(erc20, 3, from, to, k, n, p) =
           Erc20Model!Transfer(D20, from, to, k, n, p).code
BY Decoded20, Amounts20, Code20, Wraps20
DEF
    Erc20!ProcessTransferChecks, Erc20!RequireAccountCount, Erc20!Owned, Erc20!RequireOwned,
    Erc20!Require, Erc20!RequireSigner, Erc20!Accounts, Erc20!RequireAuthority,
    Erc20!Tagged, Erc20!RequireNoWrap, Erc20Model!Transfer,
    Erc20Model!RequireProgramAccount, Erc20Model!RequireOwned, Erc20Model!Require,
    Erc20Model!RequireSigner, Erc20Model!Outcome, Erc20Model!Accounts,
    Erc20Model!RequireAuthority, Erc20Model!Initialized

\* InitializeAllowance checks what its native method checks, in the same order.
LEMMA InitializeAllowanceCode20 ==
  ASSUME Typed20, NEW a \in Cs, NEW m \in As, NEW k \in Wallets, NEW q \in Wallets, NEW p
  PROVE  Erc20!ProcessInitializeAllowanceChecks(erc20, 4, a, m, k, p) =
           Erc20Model!InitializeAllowance(D20, a, m, k, q, p).code
BY Decoded20, Amounts20, Code20, LiveMint20
DEF
    Erc20!ProcessInitializeAllowanceChecks, Erc20!RequireAccountCount, Erc20!Owned,
    Erc20!RequireOwned, Erc20!Require, Erc20!RequireSigner, Erc20!Accounts, Erc20Model!InitializeAllowance, Erc20Model!RequireProgramAccount,
    Erc20Model!RequireOwned, Erc20Model!Require, Erc20Model!RequireSigner,
    Erc20Model!Outcome, Erc20Model!Accounts, Erc20Model!Initialized

\* Approve checks what its native method checks, in the same order.
LEMMA ApproveCode20 ==
  ASSUME Typed20, NEW a \in Cs, NEW k \in Wallets, NEW n \in Erc20!Amount, NEW p
  PROVE  Erc20!ProcessApproveChecks(erc20, 2, a, k, p) =
           Erc20Model!Approve(D20, a, k, n, p).code
BY Decoded20, Amounts20, Code20, Wraps20
DEF
    Erc20!ProcessApproveChecks, Erc20!RequireAccountCount, Erc20!Owned, Erc20!RequireOwned,
    Erc20!Require, Erc20!RequireSigner, Erc20!Accounts, Erc20!RequireAuthority,
    Erc20!Tagged, Erc20Model!Approve, Erc20Model!RequireProgramAccount,
    Erc20Model!RequireOwned, Erc20Model!Require, Erc20Model!RequireSigner,
    Erc20Model!Outcome, Erc20Model!Accounts, Erc20Model!RequireAuthority,
    Erc20Model!Initialized

\* TransferFrom checks what its native method checks, in the same order.
LEMMA TransferFromCode20 ==
  ASSUME Typed20, NEW from \in Bs, NEW to \in Bs, NEW a \in Cs, NEW k \in Wallets, NEW n \in Erc20!Amount, NEW p
  PROVE  Erc20!ProcessTransferFromChecks(erc20, 4, from, to, a, k, n, p) =
           Erc20Model!TransferFrom(D20, from, to, a, k, n, p).code
<1>. DEFINE P == D20.balance[from].mint = D20.balance[to].mint
           Q == D20.balance[from].mint = D20.allowance[a].mint
<1>1. \A x : Erc20!??(Erc20!??(x, IF P THEN 0 ELSE 10), IF Q THEN 0 ELSE 10)
             = Erc20!??(x, IF P /\ Q THEN 0 ELSE 10)
  BY DEF Erc20!??
<1>. QED
  BY <1>1, Decoded20, Amounts20, Code20, Wraps20
DEF
    Erc20!ProcessTransferFromChecks, Erc20!RequireAccountCount, Erc20!Owned,
    Erc20!RequireOwned, Erc20!Require, Erc20!RequireSigner, Erc20!Accounts,
    Erc20!RequireAuthority, Erc20!Tagged, Erc20!RequireNoWrap, Erc20Model!TransferFrom,
    Erc20Model!RequireProgramAccount, Erc20Model!RequireOwned, Erc20Model!Require,
    Erc20Model!RequireSigner, Erc20Model!Outcome, Erc20Model!Accounts,
    Erc20Model!RequireAuthority, Erc20Model!Initialized

DecodedMints(f) == [m \in As |-> Erc20Model!DecodeMintState(f[m])]
DecodedBalances(f) == [b \in Bs |-> Erc20Model!DecodeBalanceState(f[b])]
DecodedAllowances(f) == [a \in Cs |-> Erc20Model!DecodeAllowanceState(f[a])]

\* Decoding keeps a new supply, and decodes a fresh mint.
LEMMA DecodesMint20 ==
  /\ \A d \in Mint20 : \A n : /\ Erc20Model!DecodeMintState([d EXCEPT !.supply = n])
                               = [Erc20Model!DecodeMintState(d) EXCEPT !.totalSupply = n]
  /\ \A k : Erc20Model!DecodeMintState([tag |-> 1, supply |-> 0, authority |-> k])
              = Erc20Model!MintState(TRUE, 0, k)
<1>1. ASSUME NEW d \in Mint20, NEW n
      PROVE  Erc20Model!DecodeMintState([d EXCEPT !.supply = n])
                               = [Erc20Model!DecodeMintState(d) EXCEPT !.totalSupply = n]
  BY DEF Mint20, Erc20!NewMint, Erc20Model!DecodeMintState, Erc20Model!MintState
<1>2. ASSUME NEW k PROVE Erc20Model!DecodeMintState([tag |-> 1, supply |-> 0, authority |-> k])
              = Erc20Model!MintState(TRUE, 0, k)
  BY DEF Erc20Model!DecodeMintState, Erc20Model!MintState
<1>. QED
  BY <1>1, <1>2

\* Decoding keeps a new amount, and decodes a fresh balance.
LEMMA DecodesBalance20 ==
  /\ \A d \in Balance20 : \A n : /\ Erc20Model!DecodeBalanceState([d EXCEPT !.amount = n])
                               = [Erc20Model!DecodeBalanceState(d) EXCEPT !.amount = n]
  /\ \A m, k : Erc20Model!DecodeBalanceState([tag |-> 2, amount |-> 0, mint |-> m, owner |-> k])
              = Erc20Model!BalanceState(TRUE, m, k, 0)
<1>1. ASSUME NEW d \in Balance20, NEW n
      PROVE  Erc20Model!DecodeBalanceState([d EXCEPT !.amount = n])
                               = [Erc20Model!DecodeBalanceState(d) EXCEPT !.amount = n]
  BY DEF Balance20, Erc20!NewBalance, Erc20Model!DecodeBalanceState, Erc20Model!BalanceState
<1>2. ASSUME NEW m, NEW k
      PROVE  Erc20Model!DecodeBalanceState([tag |-> 2, amount |-> 0, mint |-> m, owner |-> k])
              = Erc20Model!BalanceState(TRUE, m, k, 0)
  BY DEF Erc20Model!DecodeBalanceState, Erc20Model!BalanceState
<1>. QED
  BY <1>1, <1>2

\* Decoding keeps a new amount, and decodes a fresh allowance.
LEMMA DecodesAllowance20 ==
  /\ \A d \in Allowance20 : \A n : /\ Erc20Model!DecodeAllowanceState([d EXCEPT !.amount = n])
                               = [Erc20Model!DecodeAllowanceState(d) EXCEPT !.amount = n]
  /\ \A m, k, q : Erc20Model!DecodeAllowanceState(
                    [tag |-> 3, amount |-> 0, mint |-> m, owner |-> k, spender |-> q])
              = Erc20Model!AllowanceState(TRUE, m, k, q, 0)
<1>1. ASSUME NEW d \in Allowance20, NEW n
      PROVE  Erc20Model!DecodeAllowanceState([d EXCEPT !.amount = n])
                               = [Erc20Model!DecodeAllowanceState(d) EXCEPT !.amount = n]
  BY DEF Allowance20, Erc20!NewAllowance, Erc20Model!DecodeAllowanceState, Erc20Model!AllowanceState
<1>2. ASSUME NEW m, NEW k, NEW q
      PROVE  Erc20Model!DecodeAllowanceState(
                    [tag |-> 3, amount |-> 0, mint |-> m, owner |-> k, spender |-> q])
              = Erc20Model!AllowanceState(TRUE, m, k, q, 0)
  BY DEF Erc20Model!DecodeAllowanceState, Erc20Model!AllowanceState
<1>. QED
  BY <1>1, <1>2

\* One mint that changes, decoded.
LEMMA DecodesMints20 ==
  ASSUME NEW f \in [As -> Mint20], NEW m \in As, NEW e
  PROVE  DecodedMints([f EXCEPT ![m] = e])
           = [DecodedMints(f) EXCEPT ![m] = Erc20Model!DecodeMintState(e)]
BY DEF DecodedMints

\* One balance that changes, decoded.
LEMMA DecodesBalances20 ==
  ASSUME NEW f \in [Bs -> Balance20], NEW b \in Bs, NEW e
  PROVE  DecodedBalances([f EXCEPT ![b] = e])
           = [DecodedBalances(f) EXCEPT ![b] = Erc20Model!DecodeBalanceState(e)]
BY DEF DecodedBalances

\* One allowance that changes, decoded.
LEMMA DecodesAllowances20 ==
  ASSUME NEW f \in [Cs -> Allowance20], NEW a \in Cs, NEW e
  PROVE  DecodedAllowances([f EXCEPT ![a] = e])
           = [DecodedAllowances(f) EXCEPT ![a] = Erc20Model!DecodeAllowanceState(e)]
BY DEF DecodedAllowances

\* The decoded state, part by part.
LEMMA Parts20 ==
  ASSUME Typed20
  PROVE  /\ D20 = [mint |-> DecodedMints(erc20.mint), balance |-> DecodedBalances(erc20.balance),
                   allowance |-> DecodedAllowances(erc20.allowance)]
         /\ \A m \in As : D20.mint[m] = Erc20Model!DecodeMintState(erc20.mint[m])
         /\ \A b \in Bs : D20.balance[b] = Erc20Model!DecodeBalanceState(erc20.balance[b])
         /\ \A a \in Cs : D20.allowance[a] = Erc20Model!DecodeAllowanceState(erc20.allowance[a])
BY DEF D20, DecodedErc20, DecodedMints, DecodedBalances, DecodedAllowances

\* The stored state, part by part.
LEMMA Data20 ==
  ASSUME Typed20
  PROVE  /\ erc20 = [mint |-> erc20.mint, balance |-> erc20.balance, allowance |-> erc20.allowance]
         /\ erc20.mint \in [As -> Mint20] /\ erc20.balance \in [Bs -> Balance20]
         /\ erc20.allowance \in [Cs -> Allowance20]
         /\ \A m \in As : erc20.mint[m] \in Mint20
         /\ \A b \in Bs : erc20.balance[b] \in Balance20
         /\ \A a \in Cs : erc20.allowance[a] \in Allowance20
BY DEF Typed20

\* A state that is given by its parts, decoded.
LEMMA Whole20 ==
  \A f, g, h : DecodedErc20([mint |-> f, balance |-> g, allowance |-> h]) =
    [mint |-> DecodedMints(f), balance |-> DecodedBalances(g), allowance |-> DecodedAllowances(h)]
BY DEF DecodedErc20, DecodedMints, DecodedBalances, DecodedAllowances


\* One update of a mint and of a balance, on stored and on decoded accounts.
Three(f, g, h) == [mint |-> f, balance |-> g, allowance |-> h]
IssueStored(s, m, b, i, j) == [s EXCEPT !.mint[m].supply = i, !.balance[b].amount = j]
IssueDecoded(s, m, b, i, j) == [s EXCEPT !.mint[m].totalSupply = i, !.balance[b].amount = j]
Minted(s, m, b, n) == [s EXCEPT !.mint[m].totalSupply = @ + n, !.balance[b].amount = @ + n]
Burnt(s, m, b, n) == [s EXCEPT !.mint[m].totalSupply = @ - n, !.balance[b].amount = @ - n]

\* A new supply and a new amount, of stored accounts.
LEMMA IssueStored20 ==
  ASSUME NEW f, NEW g, NEW h, NEW m, NEW b, NEW i, NEW j
  PROVE  IssueStored(Three(f, g, h), m, b, i, j) =
         Three([f EXCEPT ![m] = [f[m] EXCEPT !.supply = i]],
               [g EXCEPT ![b] = [g[b] EXCEPT !.amount = j]], h)
<1>. DEFINE s == [mint |-> f, balance |-> g, allowance |-> h]
            x == [f EXCEPT ![m] = [f[m] EXCEPT !.supply = i]]
            t == [mint |-> x, balance |-> g, allowance |-> h]
<1>1. [s EXCEPT !.mint[m].supply = i, !.balance[b].amount = j] =
        [[s EXCEPT !.mint[m].supply = i] EXCEPT !.balance[b].amount = j]
  OBVIOUS
<1>2. [s EXCEPT !.mint[m].supply = i] = t
  OBVIOUS
<1>3. [t EXCEPT !.balance[b].amount = j] =
        [mint |-> x, balance |-> [g EXCEPT ![b] = [g[b] EXCEPT !.amount = j]], allowance |-> h]
  <2>. HIDE DEF x
  <2>. QED
    OBVIOUS
<1>. HIDE DEF s, t
<1>4. [s EXCEPT !.mint[m].supply = i, !.balance[b].amount = j] = [t EXCEPT !.balance[b].amount = j]
  BY <1>1, <1>2
<1>. QED
  BY <1>3, <1>4 DEF s, IssueStored, Three

\* And of the decoded ones.
LEMMA IssueDecoded20 ==
  ASSUME NEW f, NEW g, NEW h, NEW m, NEW b, NEW i, NEW j
  PROVE  IssueDecoded(Three(f, g, h), m, b, i, j) =
         Three([f EXCEPT ![m] = [f[m] EXCEPT !.totalSupply = i]],
               [g EXCEPT ![b] = [g[b] EXCEPT !.amount = j]], h)
<1>. DEFINE s == [mint |-> f, balance |-> g, allowance |-> h]
            x == [f EXCEPT ![m] = [f[m] EXCEPT !.totalSupply = i]]
            t == [mint |-> x, balance |-> g, allowance |-> h]
<1>1. [s EXCEPT !.mint[m].totalSupply = i, !.balance[b].amount = j] =
        [[s EXCEPT !.mint[m].totalSupply = i] EXCEPT !.balance[b].amount = j]
  OBVIOUS
<1>2. [s EXCEPT !.mint[m].totalSupply = i] = t
  OBVIOUS
<1>3. [t EXCEPT !.balance[b].amount = j] =
        [mint |-> x, balance |-> [g EXCEPT ![b] = [g[b] EXCEPT !.amount = j]], allowance |-> h]
  <2>. HIDE DEF x
  <2>. QED
    OBVIOUS
<1>. HIDE DEF s, t
<1>4. [s EXCEPT !.mint[m].totalSupply = i, !.balance[b].amount = j] = [t EXCEPT !.balance[b].amount = j]
  BY <1>1, <1>2
<1>. QED
  BY <1>3, <1>4 DEF s, IssueDecoded, Three

\* The stored and the decoded state as their three parts.
LEMMA Three20 ==
  ASSUME Typed20
  PROVE  /\ erc20 = Three(erc20.mint, erc20.balance, erc20.allowance)
         /\ D20 = Three(DecodedMints(erc20.mint), DecodedBalances(erc20.balance),
                        DecodedAllowances(erc20.allowance))
         /\ \A f, g, h : DecodedErc20(Three(f, g, h)) =
                           Three(DecodedMints(f), DecodedBalances(g), DecodedAllowances(h))
BY Data20, Parts20, Whole20 DEF Three

\* New supplies and amounts decode to themselves.
LEMMA IssueState20 ==
  ASSUME Typed20, NEW m \in As, NEW b \in Bs, NEW i, NEW j
  PROVE  DecodedErc20(IssueStored(erc20, m, b, i, j)) = IssueDecoded(D20, m, b, i, j)
<1>. DEFINE f == erc20.mint
            g == erc20.balance
            h == erc20.allowance
            e == [f[m] EXCEPT !.supply = i]
            x == [g[b] EXCEPT !.amount = j]
            afterF == [f EXCEPT ![m] = e]
            afterG == [g EXCEPT ![b] = x]
            newE == [DecodedMints(f)[m] EXCEPT !.totalSupply = i]
            newX == [DecodedBalances(g)[b] EXCEPT !.amount = j]
<1>1. /\ f \in [As -> Mint20] /\ g \in [Bs -> Balance20]
      /\ f[m] \in Mint20 /\ g[b] \in Balance20
  BY Data20
<1>2. /\ DecodedMints(f)[m] = Erc20Model!DecodeMintState(f[m])
      /\ DecodedBalances(g)[b] = Erc20Model!DecodeBalanceState(g[b])
  BY DEF DecodedMints, DecodedBalances
<1>. HIDE DEF f, g, h
<1>3. Erc20Model!DecodeMintState(e) = newE
  BY <1>1, <1>2, DecodesMint20
<1>4. Erc20Model!DecodeBalanceState(x) = newX
  BY <1>1, <1>2, DecodesBalance20
<1>5. IssueStored(erc20, m, b, i, j) = Three(afterF, afterG, h)
  BY Three20, IssueStored20 DEF f, g, h
<1>6. IssueDecoded(D20, m, b, i, j) =
        Three([DecodedMints(f) EXCEPT ![m] = newE], [DecodedBalances(g) EXCEPT ![b] = newX],
              DecodedAllowances(h))
  BY Three20, IssueDecoded20 DEF f, g, h
<1>. HIDE DEF e, x, newE, newX
<1>7. /\ DecodedMints(afterF) = [DecodedMints(f) EXCEPT ![m] = newE]
      /\ DecodedBalances(afterG) = [DecodedBalances(g) EXCEPT ![b] = newX]
  BY <1>1, <1>3, <1>4, DecodesMints20, DecodesBalances20
<1>. HIDE DEF afterF, afterG
<1>8. DecodedErc20(Three(afterF, afterG, h)) = Three(DecodedMints(afterF), DecodedBalances(afterG), DecodedAllowances(h))
  BY Three20
<1>. QED
  BY <1>5, <1>6, <1>7, <1>8

\* MintTo stores what its native method leaves.
LEMMA MintToState20 ==
  ASSUME Typed20, NEW m \in As, NEW b \in Bs, NEW n
  PROVE  DecodedErc20(Erc20!ProcessMintTo(erc20, m, b, n)) =
           Minted(D20, m, b, n)
<1>. DEFINE i == erc20.mint[m].supply + n
            j == erc20.balance[b].amount + n
<1>1. Erc20!ProcessMintTo(erc20, m, b, n) = IssueStored(erc20, m, b, i, j)
  BY DEF Erc20!ProcessMintTo, IssueStored
<1>2. /\ D20.mint[m].totalSupply + n = i
      /\ D20.balance[b].amount + n = j
  BY Decoded20
<1>3. Minted(D20, m, b, n) =
        IssueDecoded(D20, m, b, D20.mint[m].totalSupply + n, D20.balance[b].amount + n)
  BY DEF IssueDecoded, Minted
<1>. HIDE DEF i, j
<1>. QED
  BY <1>1, <1>2, <1>3, IssueState20

\* Burn stores what its native method leaves.
LEMMA BurnState20 ==
  ASSUME Typed20, NEW m \in As, NEW b \in Bs, NEW n
  PROVE  DecodedErc20(Erc20!ProcessBurn(erc20, b, m, n)) =
           Burnt(D20, m, b, n)
<1>. DEFINE i == erc20.mint[m].supply - n
            j == erc20.balance[b].amount - n
<1>1. Erc20!ProcessBurn(erc20, b, m, n) = IssueStored(erc20, m, b, i, j)
  BY DEF Erc20!ProcessBurn, IssueStored
<1>2. /\ D20.mint[m].totalSupply - n = i
      /\ D20.balance[b].amount - n = j
  BY Decoded20
<1>3. Burnt(D20, m, b, n) =
        IssueDecoded(D20, m, b, D20.mint[m].totalSupply - n, D20.balance[b].amount - n)
  BY DEF IssueDecoded, Burnt
<1>. HIDE DEF i, j
<1>. QED
  BY <1>1, <1>2, <1>3, IssueState20

\* The other updates: an account of each kind replaced, two balances, an allowance.
OpenMint(s, m, e) == [s EXCEPT !.mint[m] = e]
OpenBalance(s, b, e) == [s EXCEPT !.balance[b] = e]
OpenAllowance(s, a, e) == [s EXCEPT !.allowance[a] = e]
SetBalances(s, a, b, i, j) == [s EXCEPT !.balance[a].amount = i, !.balance[b].amount = j]
SetAllowance(s, a, i) == [s EXCEPT !.allowance[a].amount = i]

\* A value of a function, and the amount of an account, replaced.
Put(f, x, e) == [f EXCEPT ![x] = e]
Amounting(d, n) == [d EXCEPT !.amount = n]

\* An account that is replaced is a value of one part that is replaced.
LEMMA Opens20 ==
  \A f, g, h, x, e : /\ OpenMint(Three(f, g, h), x, e) = Three(Put(f, x, e), g, h)
                     /\ OpenBalance(Three(f, g, h), x, e) = Three(f, Put(g, x, e), h)
                     /\ OpenAllowance(Three(f, g, h), x, e) = Three(f, g, Put(h, x, e))
<1>1. ASSUME NEW f, NEW g, NEW h, NEW x, NEW e
      PROVE  OpenMint(Three(f, g, h), x, e) = Three(Put(f, x, e), g, h)
  BY DEF OpenMint, Three, Put
<1>2. ASSUME NEW f, NEW g, NEW h, NEW x, NEW e
      PROVE  OpenBalance(Three(f, g, h), x, e) = Three(f, Put(g, x, e), h)
  BY DEF OpenBalance, Three, Put
<1>3. ASSUME NEW f, NEW g, NEW h, NEW x, NEW e
      PROVE  OpenAllowance(Three(f, g, h), x, e) = Three(f, g, Put(h, x, e))
  BY DEF OpenAllowance, Three, Put
<1>. QED
  BY <1>1, <1>2, <1>3

\* So is an allowance with a new amount.
LEMMA SetAllowance20 ==
  \A f, g, h, x, n :
    SetAllowance(Three(f, g, h), x, n) = Three(f, g, Put(h, x, Amounting(h[x], n)))
<1>. TAKE f, g, h, x, n
<1>. QED
  BY DEF SetAllowance, Three, Put, Amounting

\* So are two balances with new amounts.
LEMMA SetBalances20 ==
  \A f, g, h, i, j, a, b : a # b =>
    SetBalances(Three(f, g, h), a, b, i, j) =
      Three(f, Put(Put(g, a, Amounting(g[a], i)), b, Amounting(g[b], j)), h)
<1>. SUFFICES ASSUME NEW f, NEW g, NEW h, NEW i, NEW j, NEW a, NEW b, a # b
              PROVE  SetBalances(Three(f, g, h), a, b, i, j) =
                     Three(f, Put(Put(g, a, Amounting(g[a], i)), b, Amounting(g[b], j)), h)
  OBVIOUS
<1>1. [[mint |-> f, balance |-> g, allowance |-> h] EXCEPT
         !.balance[a].amount = i, !.balance[b].amount = j] =
      [[mint |-> f, balance |-> g, allowance |-> h] EXCEPT
         !.balance = [g EXCEPT ![a].amount = i, ![b].amount = j]]
  OBVIOUS
<1>2. [g EXCEPT ![a].amount = i, ![b].amount = j] =
      [[g EXCEPT ![a] = [g[a] EXCEPT !.amount = i]] EXCEPT ![b] = [g[b] EXCEPT !.amount = j]]
  OBVIOUS
<1>. QED
  BY <1>1, <1>2 DEF SetBalances, Three, Put, Amounting

\* Decoding goes through a replaced value.
LEMMA Puts20 ==
  /\ \A f \in [As -> Mint20], m \in As : \A e :
       DecodedMints(Put(f, m, e)) = Put(DecodedMints(f), m, Erc20Model!DecodeMintState(e))
  /\ \A f \in [Bs -> Balance20], b \in Bs : \A e :
       DecodedBalances(Put(f, b, e)) = Put(DecodedBalances(f), b, Erc20Model!DecodeBalanceState(e))
  /\ \A f \in [Cs -> Allowance20], a \in Cs : \A e :
       DecodedAllowances(Put(f, a, e)) =
         Put(DecodedAllowances(f), a, Erc20Model!DecodeAllowanceState(e))
<1>1. ASSUME NEW f \in [As -> Mint20], NEW m \in As, NEW e
      PROVE  DecodedMints(Put(f, m, e)) = Put(DecodedMints(f), m, Erc20Model!DecodeMintState(e))
  BY DecodesMints20 DEF Put
<1>2. ASSUME NEW f \in [Bs -> Balance20], NEW b \in Bs, NEW e
      PROVE  DecodedBalances(Put(f, b, e)) =
               Put(DecodedBalances(f), b, Erc20Model!DecodeBalanceState(e))
  BY DecodesBalances20 DEF Put
<1>3. ASSUME NEW f \in [Cs -> Allowance20], NEW a \in Cs, NEW e
      PROVE  DecodedAllowances(Put(f, a, e)) =
               Put(DecodedAllowances(f), a, Erc20Model!DecodeAllowanceState(e))
  BY DecodesAllowances20 DEF Put
<1>. QED
  BY <1>1, <1>2, <1>3

\* A replaced account decodes to its decoded replacement.
LEMMA OpenState20 ==
  ASSUME Typed20
  PROVE  /\ \A m \in As : \A e : DecodedErc20(OpenMint(erc20, m, e)) =
                               OpenMint(D20, m, Erc20Model!DecodeMintState(e))
         /\ \A b \in Bs : \A e : DecodedErc20(OpenBalance(erc20, b, e)) =
                               OpenBalance(D20, b, Erc20Model!DecodeBalanceState(e))
         /\ \A a \in Cs : \A e : DecodedErc20(OpenAllowance(erc20, a, e)) =
                               OpenAllowance(D20, a, Erc20Model!DecodeAllowanceState(e))
<1>. DEFINE f == erc20.mint
            g == erc20.balance
            h == erc20.allowance
<1>1. /\ f \in [As -> Mint20] /\ g \in [Bs -> Balance20] /\ h \in [Cs -> Allowance20]
      /\ erc20 = Three(f, g, h)
      /\ D20 = Three(DecodedMints(f), DecodedBalances(g), DecodedAllowances(h))
      /\ \A x, y, z : DecodedErc20(Three(x, y, z)) =
                        Three(DecodedMints(x), DecodedBalances(y), DecodedAllowances(z))
  BY Data20, Three20
<1>. HIDE DEF f, g, h
<1>2. ASSUME NEW m \in As, NEW e
      PROVE  DecodedErc20(OpenMint(erc20, m, e)) = OpenMint(D20, m, Erc20Model!DecodeMintState(e))
  BY <1>1, Opens20, Puts20
<1>3. ASSUME NEW b \in Bs, NEW e
      PROVE  DecodedErc20(OpenBalance(erc20, b, e)) =
               OpenBalance(D20, b, Erc20Model!DecodeBalanceState(e))
  BY <1>1, Opens20, Puts20
<1>4. ASSUME NEW a \in Cs, NEW e
      PROVE  DecodedErc20(OpenAllowance(erc20, a, e)) =
               OpenAllowance(D20, a, Erc20Model!DecodeAllowanceState(e))
  BY <1>1, Opens20, Puts20
<1>. QED
  BY <1>2, <1>3, <1>4

\* New amounts of two balances decode to themselves.
LEMMA MovedState20 ==
  ASSUME NEW f, NEW g \in [Bs -> Balance20], NEW h, NEW a \in Bs, NEW b \in Bs, a # b, NEW i, NEW j
  PROVE  DecodedErc20(SetBalances(Three(f, g, h), a, b, i, j)) =
         SetBalances(DecodedErc20(Three(f, g, h)), a, b, i, j)
<1>. DEFINE x == Amounting(g[a], i)
            y == Amounting(g[b], j)
            newX == Amounting(DecodedBalances(g)[a], i)
            newY == Amounting(DecodedBalances(g)[b], j)
            afterG == Put(Put(g, a, x), b, y)
<1>0. \A u, v, w : DecodedErc20(Three(u, v, w)) =
                     Three(DecodedMints(u), DecodedBalances(v), DecodedAllowances(w))
  BY Whole20 DEF Three
<1>1. g[a] \in Balance20 /\ g[b] \in Balance20
  OBVIOUS
<1>2. /\ DecodedBalances(g)[a] = Erc20Model!DecodeBalanceState(g[a])
      /\ DecodedBalances(g)[b] = Erc20Model!DecodeBalanceState(g[b])
  BY DEF DecodedBalances
<1>3. Erc20Model!DecodeBalanceState(x) = newX /\ Erc20Model!DecodeBalanceState(y) = newY
  BY <1>1, <1>2, DecodesBalance20 DEF Amounting
<1>4. SetBalances(Three(f, g, h), a, b, i, j) = Three(f, afterG, h)
  BY SetBalances20
<1>5. SetBalances(DecodedErc20(Three(f, g, h)), a, b, i, j) =
        Three(DecodedMints(f), Put(Put(DecodedBalances(g), a, newX), b, newY), DecodedAllowances(h))
  BY <1>0, SetBalances20
<1>. HIDE DEF x, y, newX, newY
<1>6. DecodedBalances(afterG) = Put(Put(DecodedBalances(g), a, newX), b, newY)
  BY <1>3 DEF DecodedBalances, Put
<1>. QED
  BY <1>0, <1>4, <1>5, <1>6

\* A new amount of an allowance decodes to itself.
LEMMA AllowedState20 ==
  ASSUME NEW f, NEW g, NEW h \in [Cs -> Allowance20], NEW a \in Cs, NEW i
  PROVE  DecodedErc20(SetAllowance(Three(f, g, h), a, i)) = SetAllowance(DecodedErc20(Three(f, g, h)), a, i)
<1>. DEFINE x == Amounting(h[a], i)
            new == Amounting(DecodedAllowances(h)[a], i)
<1>0. \A u, v, w : DecodedErc20(Three(u, v, w)) =
                     Three(DecodedMints(u), DecodedBalances(v), DecodedAllowances(w))
  BY Whole20 DEF Three
<1>1. h[a] \in Allowance20
  OBVIOUS
<1>2. DecodedAllowances(h)[a] = Erc20Model!DecodeAllowanceState(h[a])
  BY DEF DecodedAllowances
<1>3. Erc20Model!DecodeAllowanceState(x) = new
  BY <1>1, <1>2, DecodesAllowance20 DEF Amounting
<1>4. SetAllowance(Three(f, g, h), a, i) = Three(f, g, Put(h, a, x))
  BY SetAllowance20
<1>5. SetAllowance(DecodedErc20(Three(f, g, h)), a, i) =
        Three(DecodedMints(f), DecodedBalances(g), Put(DecodedAllowances(h), a, new))
  BY <1>0, SetAllowance20
<1>. HIDE DEF x, new
<1>6. DecodedAllowances(Put(h, a, x)) = Put(DecodedAllowances(h), a, new)
  BY <1>3, Puts20
<1>. QED
  BY <1>0, <1>4, <1>5, <1>6

\* InitializeMint stores what its native method leaves.
LEMMA InitializeMintState20 ==
  ASSUME Typed20, NEW m \in As, NEW k, erc20.mint[m] = Erc20!NewMint
  PROVE  DecodedErc20(Erc20!ProcessInitializeMint(erc20, m, k)) =
           OpenMint(D20, m, Erc20Model!MintState(TRUE, 0, k))
<1>. DEFINE e == [tag |-> 1, supply |-> 0, authority |-> k]
<1>1. Erc20!ProcessInitializeMint(erc20, m, k) =
        OpenMint(erc20, m, [erc20.mint[m] EXCEPT !.tag = 1, !.authority = k])
  BY DEF Erc20!ProcessInitializeMint, OpenMint
<1>2. [erc20.mint[m] EXCEPT !.tag = 1, !.authority = k] = e
  <2>1. [Erc20!NewMint EXCEPT !.tag = 1] = [tag |-> 1, supply |-> 0, authority |-> NoKey]
    BY DEF Erc20!NewMint
  <2>2. [[tag |-> 1, supply |-> 0, authority |-> NoKey] EXCEPT !.authority = k] = e
    OBVIOUS
  <2>3. \A d : [d EXCEPT !.tag = 1, !.authority = k] = [[d EXCEPT !.tag = 1] EXCEPT !.authority = k]
    OBVIOUS
  <2>. QED
    BY <2>1, <2>2, <2>3
<1>3. Erc20Model!DecodeMintState(e) = Erc20Model!MintState(TRUE, 0, k)
  BY DecodesMint20
<1>. HIDE DEF e
<1>. QED
  BY <1>1, <1>2, <1>3, OpenState20

\* InitializeBalance stores what its native method leaves.
LEMMA InitializeBalanceState20 ==
  ASSUME Typed20, NEW b \in Bs, NEW m, NEW k, erc20.balance[b] = Erc20!NewBalance
  PROVE  DecodedErc20(Erc20!ProcessInitializeBalance(erc20, b, m, k)) =
           OpenBalance(D20, b, Erc20Model!BalanceState(TRUE, m, k, 0))
<1>. DEFINE e == [tag |-> 2, amount |-> 0, mint |-> m, owner |-> k]
<1>1. Erc20!ProcessInitializeBalance(erc20, b, m, k) =
        OpenBalance(erc20, b, [tag |-> 2, amount |-> erc20.balance[b].amount, mint |-> m, owner |-> k])
  BY DEF Erc20!ProcessInitializeBalance, OpenBalance
<1>2. [tag |-> 2, amount |-> erc20.balance[b].amount, mint |-> m, owner |-> k] = e
  BY DEF Erc20!NewBalance
<1>3. Erc20Model!DecodeBalanceState(e) = Erc20Model!BalanceState(TRUE, m, k, 0)
  BY DecodesBalance20
<1>. HIDE DEF e
<1>. QED
  BY <1>1, <1>2, <1>3, OpenState20

\* InitializeAllowance stores what its native method leaves.
LEMMA InitializeAllowanceState20 ==
  ASSUME Typed20, NEW a \in Cs, NEW m, NEW k, NEW q, erc20.allowance[a] = Erc20!NewAllowance
  PROVE  DecodedErc20(Erc20!ProcessInitializeAllowance(erc20, a, m, k, q)) =
           OpenAllowance(D20, a, Erc20Model!AllowanceState(TRUE, m, k, q, 0))
<1>. DEFINE e == [tag |-> 3, amount |-> 0, mint |-> m, owner |-> k, spender |-> q]
<1>1. Erc20!ProcessInitializeAllowance(erc20, a, m, k, q) =
        OpenAllowance(erc20, a, [tag |-> 3, amount |-> erc20.allowance[a].amount, mint |-> m,
                                 owner |-> k, spender |-> q])
  BY DEF Erc20!ProcessInitializeAllowance, OpenAllowance
<1>2. [tag |-> 3, amount |-> erc20.allowance[a].amount, mint |-> m, owner |-> k, spender |-> q] = e
  BY DEF Erc20!NewAllowance
<1>3. Erc20Model!DecodeAllowanceState(e) = Erc20Model!AllowanceState(TRUE, m, k, q, 0)
  BY DecodesAllowance20
<1>. HIDE DEF e
<1>. QED
  BY <1>1, <1>2, <1>3, OpenState20

\* Transfer stores what its native method leaves.
LEMMA TransferState20 ==
  ASSUME Typed20, NEW a \in Bs, NEW b \in Bs, a # b, NEW n
  PROVE  /\ DecodedErc20(Erc20!Move(erc20, a, b, n)) = Erc20Model!Moved(D20, a, b, n)
         /\ DecodedErc20(Erc20!ProcessTransfer(erc20, a, b, n)) = Erc20Model!Moved(D20, a, b, n)
<1>. DEFINE i == erc20.balance[a].amount - n
            j == erc20.balance[b].amount + n
<1>1. Erc20!Move(erc20, a, b, n) = SetBalances(erc20, a, b, i, j)
  BY Data20 DEF Erc20!Move, SetBalances
<1>2. D20.balance[a].amount - n = i /\ D20.balance[b].amount + n = j
  BY Decoded20
<1>3. Erc20Model!Moved(D20, a, b, n) =
        SetBalances(D20, a, b, D20.balance[a].amount - n, D20.balance[b].amount + n)
  BY Parts20 DEF Erc20Model!Moved, SetBalances
<1>4. DecodedErc20(erc20) = D20
  BY DEF D20
<1>. HIDE DEF i, j
<1>5. DecodedErc20(SetBalances(erc20, a, b, i, j)) = SetBalances(D20, a, b, i, j)
  BY <1>4, Data20, Three20, MovedState20
<1>. QED
  BY <1>1, <1>2, <1>3, <1>5 DEF Erc20!ProcessTransfer

\* Approve stores what its native method leaves.
LEMMA ApproveState20 ==
  ASSUME Typed20, NEW a \in Cs, NEW n
  PROVE  DecodedErc20(Erc20!ProcessApprove(erc20, a, n)) = [D20 EXCEPT !.allowance[a].amount = n]
<1>1. DecodedErc20(erc20) = D20
  BY DEF D20
<1>2. DecodedErc20(SetAllowance(erc20, a, n)) = SetAllowance(D20, a, n)
  BY <1>1, Data20, Three20, AllowedState20
<1>. QED
  BY <1>2 DEF Erc20!ProcessApprove, SetAllowance

\* TransferFrom stores what its native method leaves.
LEMMA TransferFromState20 ==
  ASSUME Typed20, NEW from \in Bs, NEW to \in Bs, from # to, NEW a \in Cs, NEW n
  PROVE  DecodedErc20(Erc20!ProcessTransferFrom(erc20, from, to, a, n)) =
           [Erc20Model!Moved(D20, from, to, n) EXCEPT !.allowance[a].amount = @ - n]
<1>. DEFINE s == Erc20!Move(erc20, from, to, n)
            t == Erc20Model!Moved(D20, from, to, n)
            i == erc20.allowance[a].amount - n
<1>1. PICK f, g : s = Three(f, g, erc20.allowance)
  <2>1. s = SetBalances(erc20, from, to, erc20.balance[from].amount - n, erc20.balance[to].amount + n)
    BY Data20 DEF Erc20!Move, SetBalances
  <2>. QED
    BY <2>1, Three20, SetBalances20
<1>2. DecodedErc20(s) = t
  BY TransferState20
<1>3. s.allowance = erc20.allowance /\ t.allowance[a].amount = erc20.allowance[a].amount
  BY <1>1, Decoded20, Parts20 DEF Three, Erc20Model!Moved
<1>4. Erc20!ProcessTransferFrom(erc20, from, to, a, n) = SetAllowance(s, a, s.allowance[a].amount - n)
  BY DEF Erc20!ProcessTransferFrom, SetAllowance
<1>5. [t EXCEPT !.allowance[a].amount = @ - n] = SetAllowance(t, a, t.allowance[a].amount - n)
  BY DEF SetAllowance
<1>. HIDE DEF s, t
<1>6. DecodedErc20(SetAllowance(s, a, i)) = SetAllowance(t, a, i)
  <2>. HIDE DEF i
  <2>. QED
    BY <1>1, <1>2, Data20, AllowedState20
<1>7. s.allowance[a].amount - n = i /\ t.allowance[a].amount - n = i
  BY <1>3
<1>. QED
  BY <1>4, <1>5, <1>6, <1>7 DEF t

\* InitializeMint agrees with its native method.
LEMMA InitializeMintAgrees20 ==
  ASSUME Typed20, NEW m \in As, NEW k \in Wallets, NEW p
  PROVE  Agree(Erc20!ProcessInitializeMintChecks(erc20, 1, m, p),
               DecodedErc20(Erc20!ProcessInitializeMint(erc20, m, k)), Erc20Model!InitializeMint(D20, m, k, p))
<1>. DEFINE code == Erc20!ProcessInitializeMintChecks(erc20, 1, m, p)
            outcome == Erc20Model!InitializeMint(D20, m, k, p)
            after == OpenMint(D20, m, Erc20Model!MintState(TRUE, 0, k))
<1>1. outcome.code = code
  BY InitializeMintCode20
<1>2. outcome.code = 0 => outcome.state = after
  BY DEF Erc20Model!InitializeMint, Erc20Model!Outcome, OpenMint
<1>3. ASSUME code = 0
      PROVE  DecodedErc20(Erc20!ProcessInitializeMint(erc20, m, k)) = after
  <2>1. erc20.mint[m] = Erc20!NewMint
    BY <1>3, InitializeMint20
  <2>. QED
    BY <2>1, InitializeMintState20
<1>. HIDE DEF code, outcome, after
<1>. QED
  BY <1>1, <1>2, <1>3 DEF Agree, code, outcome

\* InitializeBalance agrees with its native method.
LEMMA InitializeBalanceAgrees20 ==
  ASSUME Typed20, NEW b \in Bs, NEW m \in As, NEW k \in Wallets, NEW p
  PROVE  Agree(Erc20!ProcessInitializeBalanceChecks(erc20, 2, b, m, p),
               DecodedErc20(Erc20!ProcessInitializeBalance(erc20, b, m, k)), Erc20Model!InitializeBalance(D20, b, m, k, p))
<1>. DEFINE code == Erc20!ProcessInitializeBalanceChecks(erc20, 2, b, m, p)
            outcome == Erc20Model!InitializeBalance(D20, b, m, k, p)
            after == OpenBalance(D20, b, Erc20Model!BalanceState(TRUE, m, k, 0))
<1>1. outcome.code = code
  BY InitializeBalanceCode20
<1>2. outcome.code = 0 => outcome.state = after
  BY DEF Erc20Model!InitializeBalance, Erc20Model!Outcome, OpenBalance
<1>3. ASSUME code = 0
      PROVE  DecodedErc20(Erc20!ProcessInitializeBalance(erc20, b, m, k)) = after
  <2>1. erc20.balance[b] = Erc20!NewBalance
    BY <1>3, InitializeBalance20
  <2>. QED
    BY <2>1, InitializeBalanceState20
<1>. HIDE DEF code, outcome, after
<1>. QED
  BY <1>1, <1>2, <1>3 DEF Agree, code, outcome

\* MintTo agrees with its native method.
LEMMA MintToAgrees20 ==
  ASSUME Typed20, NEW m \in As, NEW b \in Bs, NEW k \in Wallets, NEW n \in Erc20!Amount, NEW p
  PROVE  Agree(Erc20!ProcessMintToChecks(erc20, 3, m, b, k, n, p),
               DecodedErc20(Erc20!ProcessMintTo(erc20, m, b, n)), Erc20Model!MintTo(D20, m, b, k, n, p))
<1>. DEFINE code == Erc20!ProcessMintToChecks(erc20, 3, m, b, k, n, p)
            outcome == Erc20Model!MintTo(D20, m, b, k, n, p)
            after == Minted(D20, m, b, n)
<1>1. outcome.code = code
  BY MintToCode20
<1>2. outcome.code = 0 => outcome.state = after
  BY DEF Erc20Model!MintTo, Erc20Model!Outcome, Minted
<1>3. ASSUME code = 0
      PROVE  DecodedErc20(Erc20!ProcessMintTo(erc20, m, b, n)) = after
  BY <1>3, MintToState20
<1>. HIDE DEF code, outcome, after
<1>. QED
  BY <1>1, <1>2, <1>3 DEF Agree, code, outcome

\* Burn agrees with its native method.
LEMMA BurnAgrees20 ==
  ASSUME Typed20, NEW b \in Bs, NEW m \in As, NEW k \in Wallets, NEW n \in Erc20!Amount, NEW p
  PROVE  Agree(Erc20!ProcessBurnChecks(erc20, 3, b, m, k, n, p),
               DecodedErc20(Erc20!ProcessBurn(erc20, b, m, n)), Erc20Model!Burn(D20, b, m, k, n, p))
<1>. DEFINE code == Erc20!ProcessBurnChecks(erc20, 3, b, m, k, n, p)
            outcome == Erc20Model!Burn(D20, b, m, k, n, p)
            after == Burnt(D20, m, b, n)
<1>1. outcome.code = code
  BY BurnCode20
<1>2. outcome.code = 0 => outcome.state = after
  BY DEF Erc20Model!Burn, Erc20Model!Outcome, Burnt
<1>3. ASSUME code = 0
      PROVE  DecodedErc20(Erc20!ProcessBurn(erc20, b, m, n)) = after
  BY <1>3, BurnState20
<1>. HIDE DEF code, outcome, after
<1>. QED
  BY <1>1, <1>2, <1>3 DEF Agree, code, outcome

\* Transfer agrees with its native method.
LEMMA TransferAgrees20 ==
  ASSUME Typed20, NEW from \in Bs, NEW to \in Bs, NEW k \in Wallets, NEW n \in Erc20!Amount, NEW p
  PROVE  Agree(Erc20!ProcessTransferChecks(erc20, 3, from, to, k, n, p),
               DecodedErc20(Erc20!ProcessTransfer(erc20, from, to, n)), Erc20Model!Transfer(D20, from, to, k, n, p))
<1>. DEFINE code == Erc20!ProcessTransferChecks(erc20, 3, from, to, k, n, p)
            outcome == Erc20Model!Transfer(D20, from, to, k, n, p)
            after == Erc20Model!Moved(D20, from, to, n)
<1>1. outcome.code = code
  BY TransferCode20
<1>2. outcome.code = 0 => outcome.state = after
  BY DEF Erc20Model!Transfer, Erc20Model!Outcome
<1>3. ASSUME code = 0
      PROVE  DecodedErc20(Erc20!ProcessTransfer(erc20, from, to, n)) = after
  BY <1>3, Transfer20, TransferState20
<1>. HIDE DEF code, outcome, after
<1>. QED
  BY <1>1, <1>2, <1>3 DEF Agree, code, outcome

\* InitializeAllowance agrees with its native method.
LEMMA InitializeAllowanceAgrees20 ==
  ASSUME Typed20, NEW a \in Cs, NEW m \in As, NEW k \in Wallets, NEW q \in Wallets, NEW p
  PROVE  Agree(Erc20!ProcessInitializeAllowanceChecks(erc20, 4, a, m, k, p),
               DecodedErc20(Erc20!ProcessInitializeAllowance(erc20, a, m, k, q)), Erc20Model!InitializeAllowance(D20, a, m, k, q, p))
<1>. DEFINE code == Erc20!ProcessInitializeAllowanceChecks(erc20, 4, a, m, k, p)
            outcome == Erc20Model!InitializeAllowance(D20, a, m, k, q, p)
            after == OpenAllowance(D20, a, Erc20Model!AllowanceState(TRUE, m, k, q, 0))
<1>1. outcome.code = code
  BY InitializeAllowanceCode20
<1>2. outcome.code = 0 => outcome.state = after
  BY DEF Erc20Model!InitializeAllowance, Erc20Model!Outcome, OpenAllowance
<1>3. ASSUME code = 0
      PROVE  DecodedErc20(Erc20!ProcessInitializeAllowance(erc20, a, m, k, q)) = after
  <2>1. erc20.allowance[a] = Erc20!NewAllowance
    BY <1>3, InitializeAllowance20
  <2>. QED
    BY <2>1, InitializeAllowanceState20
<1>. HIDE DEF code, outcome, after
<1>. QED
  BY <1>1, <1>2, <1>3 DEF Agree, code, outcome

\* Approve agrees with its native method.
LEMMA ApproveAgrees20 ==
  ASSUME Typed20, NEW a \in Cs, NEW k \in Wallets, NEW n \in Erc20!Amount, NEW p
  PROVE  Agree(Erc20!ProcessApproveChecks(erc20, 2, a, k, p),
               DecodedErc20(Erc20!ProcessApprove(erc20, a, n)), Erc20Model!Approve(D20, a, k, n, p))
<1>. DEFINE code == Erc20!ProcessApproveChecks(erc20, 2, a, k, p)
            outcome == Erc20Model!Approve(D20, a, k, n, p)
            after == [D20 EXCEPT !.allowance[a].amount = n]
<1>1. outcome.code = code
  BY ApproveCode20
<1>2. outcome.code = 0 => outcome.state = after
  BY DEF Erc20Model!Approve, Erc20Model!Outcome
<1>3. ASSUME code = 0
      PROVE  DecodedErc20(Erc20!ProcessApprove(erc20, a, n)) = after
  BY <1>3, ApproveState20
<1>. HIDE DEF code, outcome, after
<1>. QED
  BY <1>1, <1>2, <1>3 DEF Agree, code, outcome

\* TransferFrom agrees with its native method.
LEMMA TransferFromAgrees20 ==
  ASSUME Typed20, NEW from \in Bs, NEW to \in Bs, NEW a \in Cs, NEW k \in Wallets, NEW n \in Erc20!Amount, NEW p
  PROVE  Agree(Erc20!ProcessTransferFromChecks(erc20, 4, from, to, a, k, n, p),
               DecodedErc20(Erc20!ProcessTransferFrom(erc20, from, to, a, n)), Erc20Model!TransferFrom(D20, from, to, a, k, n, p))
<1>. DEFINE code == Erc20!ProcessTransferFromChecks(erc20, 4, from, to, a, k, n, p)
            outcome == Erc20Model!TransferFrom(D20, from, to, a, k, n, p)
            after == [Erc20Model!Moved(D20, from, to, n) EXCEPT !.allowance[a].amount = @ - n]
<1>1. outcome.code = code
  BY TransferFromCode20
<1>2. outcome.code = 0 => outcome.state = after
  BY DEF Erc20Model!TransferFrom, Erc20Model!Outcome
<1>3. ASSUME code = 0
      PROVE  DecodedErc20(Erc20!ProcessTransferFrom(erc20, from, to, a, n)) = after
  BY <1>3, TransferFrom20, TransferFromState20
<1>. HIDE DEF code, outcome, after
<1>. QED
  BY <1>1, <1>2, <1>3 DEF Agree, code, outcome

\* In every state of the right shape the ERC-20 program does what its model does.
LEMMA Agrees20 == Typed20 => Erc20MatchesModel
<1>. SUFFICES ASSUME Typed20 PROVE Erc20MatchesModel
  OBVIOUS
<1>1. ASSUME NEW p \in Compared, NEW k \in Wallets, NEW m \in As
      PROVE  Agree(Erc20!ProcessInitializeMintChecks(erc20, 1, m, p),
                   DecodedErc20(Erc20!ProcessInitializeMint(erc20, m, k)),
                   Erc20Model!InitializeMint(D20, m, k, p))
  BY InitializeMintAgrees20
<1>2. ASSUME NEW p \in Compared, NEW k \in Wallets, NEW b \in Bs, NEW m \in As
      PROVE  Agree(Erc20!ProcessInitializeBalanceChecks(erc20, 2, b, m, p),
                   DecodedErc20(Erc20!ProcessInitializeBalance(erc20, b, m, k)),
                   Erc20Model!InitializeBalance(D20, b, m, k, p))
  BY InitializeBalanceAgrees20
<1>3. ASSUME NEW p \in Compared, NEW k \in Wallets, NEW a \in Cs, NEW m \in As,
             NEW spender \in Wallets
      PROVE  Agree(Erc20!ProcessInitializeAllowanceChecks(erc20, 4, a, m, k, p),
                   DecodedErc20(Erc20!ProcessInitializeAllowance(erc20, a, m, k, spender)),
                   Erc20Model!InitializeAllowance(D20, a, m, k, spender, p))
  BY InitializeAllowanceAgrees20
<1>4. ASSUME NEW p \in Compared, NEW k \in Wallets, NEW amount \in Erc20!Amount,
             NEW m \in As, NEW b \in Bs
      PROVE  /\ Agree(Erc20!ProcessMintToChecks(erc20, 3, m, b, k, amount, p),
                      DecodedErc20(Erc20!ProcessMintTo(erc20, m, b, amount)),
                      Erc20Model!MintTo(D20, m, b, k, amount, p))
             /\ Agree(Erc20!ProcessBurnChecks(erc20, 3, b, m, k, amount, p),
                      DecodedErc20(Erc20!ProcessBurn(erc20, b, m, amount)),
                      Erc20Model!Burn(D20, b, m, k, amount, p))
  BY MintToAgrees20, BurnAgrees20
<1>5. ASSUME NEW p \in Compared, NEW k \in Wallets, NEW amount \in Erc20!Amount, NEW a \in Cs
      PROVE  Agree(Erc20!ProcessApproveChecks(erc20, 2, a, k, p),
                   DecodedErc20(Erc20!ProcessApprove(erc20, a, amount)),
                   Erc20Model!Approve(D20, a, k, amount, p))
  BY ApproveAgrees20
<1>6. ASSUME NEW p \in Compared, NEW k \in Wallets, NEW amount \in Erc20!Amount,
             NEW from \in Bs, NEW to \in Bs
      PROVE  Agree(Erc20!ProcessTransferChecks(erc20, 3, from, to, k, amount, p),
                   DecodedErc20(Erc20!ProcessTransfer(erc20, from, to, amount)),
                   Erc20Model!Transfer(D20, from, to, k, amount, p))
  BY TransferAgrees20
<1>7. ASSUME NEW p \in Compared, NEW k \in Wallets, NEW amount \in Erc20!Amount,
             NEW from \in Bs, NEW to \in Bs, NEW a \in Cs
      PROVE  Agree(Erc20!ProcessTransferFromChecks(erc20, 4, from, to, a, k, amount, p),
                   DecodedErc20(Erc20!ProcessTransferFrom(erc20, from, to, a, amount)),
                   Erc20Model!TransferFrom(D20, from, to, a, k, amount, p))
  BY TransferFromAgrees20
<1>. QED
  BY <1>1, <1>2, <1>3, <1>4, <1>5, <1>6, <1>7 DEF Erc20MatchesModel, D20
-----------------------------------------------------------------------------
(* Payable: the program and its native model.                              *)

\* The decoded vaults and deposit accounts.
DP == DecodedVaults(ledger)

\* What a decoded account says of the stored one.
LEMMA DecodedP ==
  ASSUME ledger \in LedgerP
  PROVE  /\ DP.open = ledger.open /\ DP.lamports = ledger.lamports
         /\ \A v \in Roots :
              /\ DP.vault[v].initialized <=> ledger.vault[v].tag = 1
              /\ DP.vault[v].totalDeposited = ledger.vault[v].total
              /\ DP.vault[v].authority = ledger.vault[v].authority
              /\ ledger.vault[v] # Payable!NewVault <=> ledger.vault[v].tag = 1
         /\ \A d \in As :
              /\ DP.deposit[d].initialized <=> ledger.deposit[d].tag = 2
              /\ DP.deposit[d].balance = ledger.deposit[d].balance
              /\ DP.deposit[d].vault = ledger.deposit[d].vault
              /\ DP.deposit[d].depositor = ledger.deposit[d].depositor
              /\ ledger.deposit[d] # Payable!NewDeposit <=> ledger.deposit[d].tag = 2
<1>0. /\ DP.open = ledger.open /\ DP.lamports = ledger.lamports
      /\ DP.vault = [v \in Roots |-> PayableModel!DecodeVaultState(ledger.vault[v])]
      /\ DP.deposit = [d \in As |-> PayableModel!DecodeDepositState(ledger.deposit[d])]
  BY DEF DP, DecodedVaults, LedgerP
<1>1. ASSUME NEW v \in Roots
      PROVE  /\ DP.vault[v].initialized <=> ledger.vault[v].tag = 1
             /\ DP.vault[v].totalDeposited = ledger.vault[v].total
             /\ DP.vault[v].authority = ledger.vault[v].authority
  <2>1. DP.vault[v] = PayableModel!DecodeVaultState(ledger.vault[v])
    BY <1>0
  <2>2. DP.vault[v] = [initialized |-> ledger.vault[v].tag = 1,
                       totalDeposited |-> ledger.vault[v].total,
                       authority |-> ledger.vault[v].authority]
    BY <2>1 DEF PayableModel!DecodeVaultState, PayableModel!VaultState
  <2>. DEFINE e == ledger.vault[v]
              x == DP.vault[v]
  <2>. HIDE DEF x
  <2>3. x = [initialized |-> e.tag = 1, totalDeposited |-> e.total, authority |-> e.authority]
    BY <2>2 DEF x
  <2>4. (x.initialized <=> e.tag = 1) /\ x.totalDeposited = e.total /\ x.authority = e.authority
    BY <2>3
  <2>. QED
    BY <2>4 DEF x
<1>2. ASSUME NEW v \in Roots
      PROVE  ledger.vault[v] # Payable!NewVault <=> ledger.vault[v].tag = 1
  BY DEF LedgerP, VaultP, Payable!NewVault
<1>3. ASSUME NEW d \in As
      PROVE  /\ DP.deposit[d].initialized <=> ledger.deposit[d].tag = 2
             /\ DP.deposit[d].balance = ledger.deposit[d].balance
             /\ DP.deposit[d].vault = ledger.deposit[d].vault
             /\ DP.deposit[d].depositor = ledger.deposit[d].depositor
  <2>1. DP.deposit[d] = PayableModel!DecodeDepositState(ledger.deposit[d])
    BY <1>0
  <2>2. DP.deposit[d] = [initialized |-> ledger.deposit[d].tag = 2,
                         balance |-> ledger.deposit[d].balance,
                         vault |-> ledger.deposit[d].vault,
                         depositor |-> ledger.deposit[d].depositor]
    BY <2>1 DEF PayableModel!DecodeDepositState, PayableModel!DepositState
  <2>. DEFINE e == ledger.deposit[d]
              x == DP.deposit[d]
  <2>. HIDE DEF x
  <2>3. x = [initialized |-> e.tag = 2, balance |-> e.balance, vault |-> e.vault,
             depositor |-> e.depositor]
    BY <2>2 DEF x
  <2>4. /\ x.initialized <=> e.tag = 2
        /\ x.balance = e.balance /\ x.vault = e.vault /\ x.depositor = e.depositor
    BY <2>3
  <2>. QED
    BY <2>4 DEF x
<1>4. ASSUME NEW d \in As
      PROVE  ledger.deposit[d] # Payable!NewDeposit <=> ledger.deposit[d].tag = 2
  BY DEF LedgerP, DepositP, Payable!NewDeposit
<1>. HIDE DEF DP
<1>. QED
  BY <1>0, <1>1, <1>2, <1>3, <1>4

\* The links of a chain of checks, on both sides.
LEMMA CodeP ==
  /\ \A a, b : Payable!??(a, b) = PayableModel!??(a, b)
  /\ \A a : Payable!??(0, a) = a
BY DEF Payable!??, PayableModel!??

\* A sum that wraps and one above the largest amount are one check.
LEMMA WrapsP ==
  \A a, b \in Payable!Amount :
    Payable!Plus(a, b, PayableU64) >= a <=> a <= PayableModel!MaxUint64 - b
<1>. SUFFICES ASSUME NEW a \in Payable!Amount, NEW b \in Payable!Amount
              PROVE  Payable!Plus(a, b, PayableU64) >= a <=> a <= PayableModel!MaxUint64 - b
  OBVIOUS
<1>0. a \in Nat /\ b \in Nat /\ PayableU64 \in Nat \ {0} /\ a < PayableU64 /\ b < PayableU64
  BY PayableConstants DEF Payable!Amount
<1>1. CASE a + b < PayableU64
  BY <1>0, <1>1 DEF Payable!Plus, PayableModel!MaxUint64
<1>2. CASE a + b >= PayableU64
  <2>1. (a + b) % PayableU64 = a + b - PayableU64
    BY <1>0, <1>2
  <2>. QED
    BY <1>0, <1>2, <2>1 DEF Payable!Plus, PayableModel!MaxUint64
<1>. QED
  BY <1>0, <1>1, <1>2

\* Amounts are in range, and what one account pays another fits into it: there
\* are no more lamports than an amount can say.
LEMMA AmountsP ==
  ASSUME InvP
  PROVE  /\ \A v \in Roots : ledger.vault[v].total \in Payable!Amount
         /\ \A d \in As : ledger.deposit[d].balance \in Payable!Amount
         /\ \A x \in Payable!Payers : ledger.lamports[x] \in Payable!Amount
         /\ \A x, y \in Payable!Payers :
              x # y => ledger.lamports[x] + ledger.lamports[y] \in Payable!Amount
<1>0. ledger \in LedgerP
  BY DEF InvP, BooksP
<1>1. \A v \in Roots : ledger.vault[v].total \in Payable!Amount
  <2>1. \A v \in Roots : ledger.vault[v] \in VaultP
    BY <1>0, PartsP
  <2>. QED
    BY <2>1, PayableConstants DEF VaultP, Payable!NewVault
<1>2. \A d \in As : ledger.deposit[d].balance \in Payable!Amount
  <2>1. \A d \in As : ledger.deposit[d] \in DepositP
    BY <1>0, PartsP
  <2>. QED
    BY <2>1, PayableConstants DEF DepositP, Payable!NewDeposit
<1>. DEFINE f == ledger.lamports
            S == Payable!Payers
<1>3. /\ IsFiniteSet(S) /\ \A x \in S : f[x] \in Nat
      /\ SumFunctionOnSet(f, S) \in Payable!Amount
  BY <1>0, PartsP, PayableConstants DEF InvP, AllLamports
<1>4. \A x \in S : f[x] <= SumFunctionOnSet(f, S)
  <2>. HIDE DEF f, S
  <2>. QED
    BY <1>3, SumBounds
<1>5. ASSUME NEW x \in S, NEW y \in S, x # y
      PROVE  f[x] + f[y] <= SumFunctionOnSet(f, S)
  <2>. HIDE DEF f, S
  <2>. DEFINE R == S \ {x}
  <2>1. /\ SumFunctionOnSet(f, R) \in Int
        /\ SumFunctionOnSet(f, S) = SumFunctionOnSet(f, R) + f[x]
    BY <1>3, SumRest
  <2>2. IsFiniteSet(R) /\ y \in R /\ \A z \in R : f[z] \in Nat
    BY <1>3, <1>5, FS_Subset
  <2>3. f[y] <= SumFunctionOnSet(f, R)
    <3>. HIDE DEF R
    <3>. QED
      BY <2>2, SumBounds
  <2>. QED
    BY <1>3, <2>1, <2>3
<1>6. ASSUME NEW n \in Nat, n <= SumFunctionOnSet(f, S) PROVE n \in Payable!Amount
  <2>. HIDE DEF f, S
  <2>. QED
    BY <1>3, <1>6, PayableConstants DEF Payable!Amount
<1>7. \A x \in S : f[x] \in Payable!Amount
  BY <1>3, <1>4, <1>6
<1>8. \A x, y \in S : x # y => f[x] + f[y] \in Payable!Amount
  BY <1>3, <1>5, <1>6
<1>. QED
  BY <1>1, <1>2, <1>7, <1>8

\* InitializeVault checks what its native method checks, in the same order.
LEMMA InitializeVaultCodeP ==
  ASSUME InvP, NEW v \in Roots, NEW k \in Wallets, NEW p
  PROVE  Payable!ProcessInitializeVaultChecks(ledger, 1, v, p) =
           PayableModel!InitializeVault(DP, v, k, p).code
<1>1. ledger \in LedgerP
  BY DEF InvP, BooksP
<1>. QED
  BY <1>1, DecodedP, CodeP
DEF Payable!ProcessInitializeVaultChecks, Payable!RequireAccountCount, Payable!Owned,
    Payable!RequireOwned, Payable!Require, Payable!RequireSigner,
    PayableModel!InitializeVault, PayableModel!RequireProgramAccount,
    PayableModel!RequireOwned, PayableModel!Require, PayableModel!RequireSigner,
    PayableModel!Outcome

\* InitializeDeposit checks what its native method checks, in the same order.
LEMMA InitializeDepositCodeP ==
  ASSUME InvP, NEW d \in As, NEW v \in Roots, NEW k \in Wallets, NEW p
  PROVE  Payable!ProcessInitializeDepositChecks(ledger, 2, d, v, p) =
           PayableModel!InitializeDepositAccount(DP, d, v, k, p).code
<1>1. ledger \in LedgerP
  BY DEF InvP, BooksP
<1>2. \A c : Payable!??(Payable!??(c, Payable!Require(ledger.vault[v] # Payable!NewVault, 8)),
                        Payable!Require(ledger.vault[v].tag = 1, 6))
               = Payable!??(c, PayableModel!Require(DP.vault[v].initialized, 8))
  BY <1>1, DecodedP DEF Payable!Require, Payable!??, PayableModel!Require
<1>3. Payable!Require(ledger.deposit[d] = Payable!NewDeposit, 7)
        = PayableModel!Require(~DP.deposit[d].initialized, 7)
  BY <1>1, DecodedP DEF Payable!Require, PayableModel!Require
<1>. DEFINE cLive == PayableModel!Require(DP.vault[v].initialized, 8)
            cNew == PayableModel!Require(~DP.deposit[d].initialized, 7)
            x == Payable!??(Payable!??(Payable!??(Payable!??(
                   Payable!RequireAccountCount(2, 2), Payable!Require(d # v, 9)),
                   Payable!Owned(ledger, d, TRUE, As, p)), Payable!RequireSigner(d, p)),
                   Payable!Owned(ledger, v, FALSE, Roots, p))
            y == PayableModel!??(PayableModel!??(PayableModel!??(
                   PayableModel!Require(d # v, 9),
                   PayableModel!RequireProgramAccount(DP, d, TRUE, As, p)),
                   PayableModel!RequireSigner(d, p)),
                   PayableModel!RequireProgramAccount(DP, v, FALSE, Roots, p))
<1>4. x = y
  BY <1>1, DecodedP, CodeP
  DEF Payable!RequireAccountCount, Payable!Owned, Payable!RequireOwned, Payable!Require,
      Payable!RequireSigner, PayableModel!RequireProgramAccount, PayableModel!RequireOwned,
      PayableModel!Require, PayableModel!RequireSigner
<1>5. Payable!ProcessInitializeDepositChecks(ledger, 2, d, v, p) =
        Payable!??(Payable!??(x, cLive), cNew)
  BY <1>2, <1>3 DEF Payable!ProcessInitializeDepositChecks
<1>6. PayableModel!InitializeDepositAccount(DP, d, v, k, p).code =
        PayableModel!??(PayableModel!??(y, cLive), cNew)
  BY DEF PayableModel!InitializeDepositAccount, PayableModel!Outcome
<1>. HIDE DEF x, y, cLive, cNew
<1>. QED
  BY <1>4, <1>5, <1>6, CodeP

\* Deposit checks what its native method checks, in the same order.
LEMMA DepositCodeP ==
  ASSUME InvP, NEW v \in Roots, NEW d \in As, NEW k \in Wallets, NEW n \in Payable!Amount, NEW p
  PROVE  Payable!ProcessDepositChecks(ledger, 4, v, d, k, sys, n, p) =
           PayableModel!Deposit(DP, v, d, k, n, p).code
<1>1. ledger \in LedgerP
  BY DEF InvP, BooksP
<1>. DEFINE A == ledger.lamports[k] >= n
            L == ledger.lamports[v] <= PayableModel!MaxUint64 - n
            T == ledger.vault[v].total <= PayableModel!MaxUint64 - n
            B == ledger.deposit[d].balance <= PayableModel!MaxUint64 - n
<1>2. A => L
  <2>1. /\ k \in Payable!Payers /\ v \in Payable!Payers /\ k # v
        /\ PayableU64 \in Nat /\ n \in Nat
    BY PayableConstants DEF Payable!Payers
  <2>2. /\ ledger.lamports[k] \in Nat /\ ledger.lamports[v] \in Nat
        /\ ledger.lamports[k] + ledger.lamports[v] < PayableU64
    BY <2>1, AmountsP DEF Payable!Amount
  <2>. QED
    BY <2>1, <2>2 DEF PayableModel!MaxUint64
<1>3. /\ Payable!RequireNoWrap(ledger.vault[v].total, n, PayableU64, 14) = IF T THEN 0 ELSE 14
      /\ Payable!RequireNoWrap(ledger.deposit[d].balance, n, PayableU64, 14) = IF B THEN 0 ELSE 14
  BY AmountsP, WrapsP DEF Payable!RequireNoWrap, Payable!Require
<1>. DEFINE cA == IF A THEN 0 ELSE 12
            cT == IF T THEN 0 ELSE 14
            cB == IF B THEN 0 ELSE 14
            cAll == IF L /\ T /\ B THEN 0 ELSE 14
            w == Payable!??(Payable!??(Payable!??(Payable!??(Payable!??(
                   Payable!RequireAccountCount(4, 4), Payable!Require(n # 0, 1)),
                   Payable!Owned(ledger, v, TRUE, Roots, p)), Payable!Owned(ledger, d, TRUE, As, p)),
                   Payable!Require(k \in p.writable, 4)), Payable!RequireSigner(k, p))
            x == Payable!??(w, Payable!RequireBinding(ledger, v, d, k))
            y == PayableModel!??(PayableModel!??(PayableModel!??(PayableModel!??(PayableModel!??(
                   PayableModel!Require(n # 0, 1),
                   PayableModel!RequireProgramAccount(DP, v, TRUE, Roots, p)),
                   PayableModel!RequireProgramAccount(DP, d, TRUE, As, p)),
                   PayableModel!Require(k \in p.writable, 4)), PayableModel!RequireSigner(k, p)),
                   PayableModel!Bound(DP, v, d, k))
<1>4. \A c : Payable!??(Payable!??(Payable!??(Payable!??(c, cA), cT), cB), 0)
               = PayableModel!??(PayableModel!??(c, cA), cAll)
  <2>. HIDE DEF A, L, T, B
  <2>. QED
    BY <1>2 DEF Payable!??, PayableModel!??
<1>5. PayableModel!Bound(DP, v, d, k) = Payable!RequireBinding(ledger, v, d, k)
  BY <1>1, DecodedP, CodeP DEF PayableModel!Bound, Payable!RequireBinding, PayableModel!Require,
     Payable!Require
<1>6. x = y
  BY <1>1, <1>5, DecodedP, CodeP
  DEF Payable!RequireAccountCount, Payable!Owned, Payable!RequireOwned, Payable!Require,
      Payable!RequireSigner, PayableModel!RequireProgramAccount, PayableModel!RequireOwned,
      PayableModel!Require, PayableModel!RequireSigner
<1>7. /\ Payable!Require(ledger.lamports[k] >= n, 12) = cA
      /\ Payable!Require(k \in Wallets, Payable!TransferCPIFails) = 0
      /\ PayableModel!Require(DP.lamports[k] >= n, 12) = cA
      /\ PayableModel!Require(DP.lamports[v] <= PayableModel!MaxUint64 - n /\
                              DP.vault[v].totalDeposited <= PayableModel!MaxUint64 - n /\
                              DP.deposit[d].balance <= PayableModel!MaxUint64 - n, 14) = cAll
  BY <1>1, DecodedP DEF Payable!Require, PayableModel!Require
<1>. HIDE DEF A, L, T, B, cA, cT, cB, cAll
<1>10. Payable!??(w, Payable!Require(sys = sys, 6)) = w
  <2>. HIDE DEF w
  <2>. QED
    BY DEF Payable!??, Payable!Require
<1>8. Payable!ProcessDepositChecks(ledger, 4, v, d, k, sys, n, p) =
        Payable!??(Payable!??(Payable!??(Payable!??(x, cA), cT), cB), 0)
  BY <1>3, <1>7, <1>10 DEF Payable!ProcessDepositChecks, cT, cB
<1>9. PayableModel!Deposit(DP, v, d, k, n, p).code =
        PayableModel!??(PayableModel!??(y, cA), cAll)
  BY <1>7 DEF PayableModel!Deposit, PayableModel!Outcome
<1>. HIDE DEF w, x, y
<1>. QED
  BY <1>4, <1>6, <1>8, <1>9

\* Withdraw checks what its native method checks, in the same order.
LEMMA WithdrawCodeP ==
  ASSUME InvP, NEW v \in Roots, NEW d \in As, NEW k \in Wallets, NEW to \in Wallets,
         NEW n \in Payable!Amount, NEW p
  PROVE  Payable!ProcessWithdrawChecks(ledger, 4, v, d, k, to, n, p) =
           PayableModel!Withdraw(DP, v, d, k, to, n, p).code
<1>1. ledger \in LedgerP
  BY DEF InvP, BooksP
<1>2. /\ to \in Payable!Payers
      /\ Payable!RequireNoWrap(ledger.lamports[to], n, PayableU64, 14) =
           PayableModel!Require(DP.lamports[to] <= PayableModel!MaxUint64 - n, 14)
  BY <1>1, DecodedP, AmountsP, WrapsP DEF Payable!RequireNoWrap, Payable!Require,
     PayableModel!Require, Payable!Payers
<1>3. PayableModel!Bound(DP, v, d, k) = Payable!RequireBinding(ledger, v, d, k)
  BY <1>1, DecodedP, CodeP DEF PayableModel!Bound, Payable!RequireBinding, PayableModel!Require,
     Payable!Require
<1>. QED
  BY <1>1, <1>2, <1>3, DecodedP, CodeP
DEF Payable!ProcessWithdrawChecks, Payable!RequireAccountCount, Payable!Owned,
    Payable!RequireOwned, Payable!Require, Payable!RequireSigner,
    PayableModel!Withdraw, PayableModel!RequireProgramAccount,
    PayableModel!RequireOwned, PayableModel!Require, PayableModel!RequireSigner,
    PayableModel!Outcome

\* EmergencyWithdraw checks what its native method checks, in the same order.
LEMMA EmergencyWithdrawCodeP ==
  ASSUME InvP, NEW v \in Roots, NEW k \in Wallets, NEW to \in Wallets, NEW n \in Payable!Amount,
         NEW p
  PROVE  Payable!ProcessEmergencyWithdrawChecks(ledger, 3, v, k, to, n, p) =
           PayableModel!EmergencyWithdraw(DP, v, k, to, n, p).code
<1>1. ledger \in LedgerP
  BY DEF InvP, BooksP
<1>2. /\ to \in Payable!Payers
      /\ Payable!RequireNoWrap(ledger.lamports[to], n, PayableU64, 14) =
           PayableModel!Require(DP.lamports[to] <= PayableModel!MaxUint64 - n, 14)
  BY <1>1, DecodedP, AmountsP, WrapsP DEF Payable!RequireNoWrap, Payable!Require,
     PayableModel!Require, Payable!Payers
<1>. QED
  BY <1>1, <1>2, DecodedP, CodeP
DEF Payable!ProcessEmergencyWithdrawChecks, Payable!RequireAccountCount, Payable!Owned,
    Payable!RequireOwned, Payable!Require, Payable!RequireSigner, Payable!RequireAuthority,
    PayableModel!EmergencyWithdraw, PayableModel!RequireProgramAccount,
    PayableModel!RequireOwned, PayableModel!Require, PayableModel!RequireSigner,
    PayableModel!RequireAuthority, PayableModel!Outcome

\* A ledger of its four parts, decoded part by part.
Four(o, l, f, g) == [open |-> o, lamports |-> l, vault |-> f, deposit |-> g]
VaultsOf(f) == [v \in Roots |-> PayableModel!DecodeVaultState(f[v])]
DepositsOf(g) == [d \in As |-> PayableModel!DecodeDepositState(g[d])]

\* The decoded ledger, as its four parts.
LEMMA FourP ==
  /\ \A o, l, f, g : DecodedVaults(Four(o, l, f, g)) = Four(o, l, VaultsOf(f), DepositsOf(g))
  /\ ledger \in LedgerP =>
       /\ ledger = Four(ledger.open, ledger.lamports, ledger.vault, ledger.deposit)
       /\ DP = Four(ledger.open, ledger.lamports, VaultsOf(ledger.vault), DepositsOf(ledger.deposit))
<1>1. ASSUME NEW o, NEW l, NEW f, NEW g
      PROVE  DecodedVaults(Four(o, l, f, g)) = Four(o, l, VaultsOf(f), DepositsOf(g))
  <2>. DEFINE s == [open |-> o, lamports |-> l, vault |-> f, deposit |-> g]
  <2>1. DecodedVaults(s) = [s EXCEPT !.vault = VaultsOf(s.vault), !.deposit = DepositsOf(s.deposit)]
    BY DEF DecodedVaults, VaultsOf, DepositsOf
  <2>2. ASSUME NEW x, NEW y
        PROVE  [s EXCEPT !.vault = x, !.deposit = y] = Four(o, l, x, y)
    <3>1. [s EXCEPT !.vault = x, !.deposit = y] = [[s EXCEPT !.vault = x] EXCEPT !.deposit = y]
      OBVIOUS
    <3>2. [s EXCEPT !.vault = x] = [open |-> o, lamports |-> l, vault |-> x, deposit |-> g]
      OBVIOUS
    <3>3. [[open |-> o, lamports |-> l, vault |-> x, deposit |-> g] EXCEPT !.deposit = y] =
            Four(o, l, x, y)
      BY DEF Four
    <3>. HIDE DEF s
    <3>. QED
      BY <3>1, <3>2, <3>3
  <2>3. s.vault = f /\ s.deposit = g
    OBVIOUS
  <2>. HIDE DEF s
  <2>4. DecodedVaults(s) = Four(o, l, VaultsOf(f), DepositsOf(g))
    BY <2>1, <2>2, <2>3
  <2>. QED
    BY <2>4 DEF s, Four
<1>2. ASSUME ledger \in LedgerP
      PROVE  ledger = Four(ledger.open, ledger.lamports, ledger.vault, ledger.deposit)
  BY <1>2, PartsP DEF Four
<1>. QED
  BY <1>1, <1>2 DEF DP

\* The native model's updates, on a ledger of its parts.
OpenVaultP(s, v, e) == [s EXCEPT !.vault[v] = e]
OpenDepositP(s, d, e) == [s EXCEPT !.deposit[d] = e]
BooksTo(s, v, d, i, j) == [s EXCEPT !.vault[v].totalDeposited = i, !.deposit[d].balance = j]
Totalled(e, i) == [e EXCEPT !.totalDeposited = i]
Balanced(e, j) == [e EXCEPT !.balance = j]

\* An account that is replaced is a value of one part that is replaced.
LEMMA OpensP ==
  \A o, l, f, g, x, e : /\ OpenVaultP(Four(o, l, f, g), x, e) = Four(o, l, Put(f, x, e), g)
                        /\ OpenDepositP(Four(o, l, f, g), x, e) = Four(o, l, f, Put(g, x, e))
<1>1. ASSUME NEW o, NEW l, NEW f, NEW g, NEW x, NEW e
      PROVE  OpenVaultP(Four(o, l, f, g), x, e) = Four(o, l, Put(f, x, e), g)
  BY DEF OpenVaultP, Four, Put
<1>2. ASSUME NEW o, NEW l, NEW f, NEW g, NEW x, NEW e
      PROVE  OpenDepositP(Four(o, l, f, g), x, e) = Four(o, l, f, Put(g, x, e))
  BY DEF OpenDepositP, Four, Put
<1>. QED
  BY <1>1, <1>2

\* So are a vault with a new total and a deposit with a new balance.
LEMMA BooksToP ==
  \A o, l, f, g, v, d, i, j :
    BooksTo(Four(o, l, f, g), v, d, i, j) =
      Four(o, l, Put(f, v, Totalled(f[v], i)), Put(g, d, Balanced(g[d], j)))
<1>. TAKE o, l, f, g, v, d, i, j
<1>. DEFINE s == [open |-> o, lamports |-> l, vault |-> f, deposit |-> g]
            x == [f EXCEPT ![v] = [f[v] EXCEPT !.totalDeposited = i]]
            t == [open |-> o, lamports |-> l, vault |-> x, deposit |-> g]
<1>1. [s EXCEPT !.vault[v].totalDeposited = i, !.deposit[d].balance = j] =
        [[s EXCEPT !.vault[v].totalDeposited = i] EXCEPT !.deposit[d].balance = j]
  OBVIOUS
<1>2. [s EXCEPT !.vault[v].totalDeposited = i] = t
  OBVIOUS
<1>3. [t EXCEPT !.deposit[d].balance = j] =
        [open |-> o, lamports |-> l, vault |-> x,
         deposit |-> [g EXCEPT ![d] = [g[d] EXCEPT !.balance = j]]]
  <2>. HIDE DEF x
  <2>. QED
    OBVIOUS
<1>. HIDE DEF s, t
<1>4. [s EXCEPT !.vault[v].totalDeposited = i, !.deposit[d].balance = j] =
      [t EXCEPT !.deposit[d].balance = j]
  BY <1>1, <1>2
<1>. QED
  BY <1>3, <1>4 DEF s, BooksTo, Four, Put, Totalled, Balanced

\* Lamports that move in the model.
LEMMA MoveModelP ==
  \A o, l, f, g, a, b, n : a # b =>
    PayableModel!Move(Four(o, l, f, g), a, b, n) =
      Four(o, Put(Put(l, a, l[a] - n), b, l[b] + n), f, g)
<1>. SUFFICES ASSUME NEW o, NEW l, NEW f, NEW g, NEW a, NEW b, NEW n, a # b
              PROVE  PayableModel!Move(Four(o, l, f, g), a, b, n) =
                     Four(o, Put(Put(l, a, l[a] - n), b, l[b] + n), f, g)
  OBVIOUS
<1>1. [[open |-> o, lamports |-> l, vault |-> f, deposit |-> g] EXCEPT
         !.lamports[a] = @ - n, !.lamports[b] = @ + n] =
      [[open |-> o, lamports |-> l, vault |-> f, deposit |-> g] EXCEPT
         !.lamports = [[l EXCEPT ![a] = l[a] - n] EXCEPT ![b] = l[b] + n]]
  OBVIOUS
<1>2. \A x : [[open |-> o, lamports |-> l, vault |-> f, deposit |-> g] EXCEPT !.lamports = x] =
               [open |-> o, lamports |-> x, vault |-> f, deposit |-> g]
  OBVIOUS
<1>. QED
  BY <1>1, <1>2 DEF PayableModel!Move, Four, Put

\* Decoding goes through a replaced value, and a replaced amount.
LEMMA PutsP ==
  /\ \A f \in [Roots -> VaultP], v \in Roots : \A e :
       VaultsOf(Put(f, v, e)) = Put(VaultsOf(f), v, PayableModel!DecodeVaultState(e))
  /\ \A g \in [As -> DepositP], d \in As : \A e :
       DepositsOf(Put(g, d, e)) = Put(DepositsOf(g), d, PayableModel!DecodeDepositState(e))
<1>1. ASSUME NEW f \in [Roots -> VaultP], NEW v \in Roots, NEW e
      PROVE  VaultsOf(Put(f, v, e)) = Put(VaultsOf(f), v, PayableModel!DecodeVaultState(e))
  BY DEF VaultsOf, Put
<1>2. ASSUME NEW g \in [As -> DepositP], NEW d \in As, NEW e
      PROVE  DepositsOf(Put(g, d, e)) = Put(DepositsOf(g), d, PayableModel!DecodeDepositState(e))
  BY DEF DepositsOf, Put
<1>. QED
  BY <1>1, <1>2

\* Decoding keeps new totals and balances, and decodes fresh accounts.
LEMMA DecodesP ==
  /\ \A e \in VaultP : \A i : PayableModel!DecodeVaultState([e EXCEPT !.total = i])
                                = Totalled(PayableModel!DecodeVaultState(e), i)
  /\ \A e \in DepositP : \A j : PayableModel!DecodeDepositState(Balanced(e, j))
                                  = Balanced(PayableModel!DecodeDepositState(e), j)
  /\ \A k : PayableModel!DecodeVaultState([tag |-> 1, total |-> 0, authority |-> k])
              = PayableModel!VaultState(TRUE, 0, k)
  /\ \A v, k : PayableModel!DecodeDepositState(
                 [tag |-> 2, balance |-> 0, vault |-> v, depositor |-> k])
              = PayableModel!DepositState(TRUE, 0, v, k)
<1>1. ASSUME NEW e \in VaultP, NEW i
      PROVE  PayableModel!DecodeVaultState([e EXCEPT !.total = i])
               = Totalled(PayableModel!DecodeVaultState(e), i)
  BY DEF VaultP, Payable!NewVault, PayableModel!DecodeVaultState, PayableModel!VaultState, Totalled
<1>2. ASSUME NEW e \in DepositP, NEW j
      PROVE  PayableModel!DecodeDepositState(Balanced(e, j))
               = Balanced(PayableModel!DecodeDepositState(e), j)
  BY DEF DepositP, Payable!NewDeposit, PayableModel!DecodeDepositState,
         PayableModel!DepositState, Balanced
<1>3. ASSUME NEW k
      PROVE  PayableModel!DecodeVaultState([tag |-> 1, total |-> 0, authority |-> k])
               = PayableModel!VaultState(TRUE, 0, k)
  BY DEF PayableModel!DecodeVaultState, PayableModel!VaultState
<1>4. ASSUME NEW v, NEW k
      PROVE  PayableModel!DecodeDepositState(
               [tag |-> 2, balance |-> 0, vault |-> v, depositor |-> k])
               = PayableModel!DepositState(TRUE, 0, v, k)
  BY DEF PayableModel!DecodeDepositState, PayableModel!DepositState
<1>. QED
  BY <1>1, <1>2, <1>3, <1>4

\* InitializeVault stores what its native method leaves.
LEMMA InitializeVaultStateP ==
  ASSUME ledger \in LedgerP, NEW v \in Roots, NEW k, ledger.vault[v] = Payable!NewVault
  PROVE  DecodedVaults(Payable!ProcessInitializeVault(ledger, v, k)) =
           OpenVaultP(DP, v, PayableModel!VaultState(TRUE, 0, k))
<1>. DEFINE e == [tag |-> 1, total |-> 0, authority |-> k]
<1>1. Payable!ProcessInitializeVault(ledger, v, k) =
        OpenVaultP(ledger, v, [ledger.vault[v] EXCEPT !.tag = 1, !.authority = k])
  BY DEF Payable!ProcessInitializeVault, OpenVaultP
<1>2. [ledger.vault[v] EXCEPT !.tag = 1, !.authority = k] = e
  <2>1. ledger.vault[v] \in [tag: {0}, total: {0}, authority: {NoKey}]
    BY DEF Payable!NewVault
  <2>. QED
    BY <2>1, OpenedVault
<1>3. PayableModel!DecodeVaultState(e) = PayableModel!VaultState(TRUE, 0, k)
  BY DecodesP
<1>. DEFINE o == ledger.open
            l == ledger.lamports
            f == ledger.vault
            g == ledger.deposit
            x == PayableModel!VaultState(TRUE, 0, k)
<1>4. /\ f \in [Roots -> VaultP] /\ ledger = Four(o, l, f, g)
      /\ DP = Four(o, l, VaultsOf(f), DepositsOf(g))
  BY PartsP, FourP
<1>. HIDE DEF e, o, l, f, g, x
<1>5. OpenVaultP(ledger, v, e) = Four(o, l, Put(f, v, e), g)
  BY <1>4, OpensP
<1>6. OpenVaultP(DP, v, x) = Four(o, l, Put(VaultsOf(f), v, x), DepositsOf(g))
  BY <1>4, OpensP
<1>7. VaultsOf(Put(f, v, e)) = Put(VaultsOf(f), v, x)
  BY <1>3, <1>4, PutsP DEF x
<1>8. DecodedVaults(Four(o, l, Put(f, v, e), g)) = Four(o, l, VaultsOf(Put(f, v, e)), DepositsOf(g))
  BY FourP
<1>. QED
  BY <1>1, <1>2, <1>5, <1>6, <1>7, <1>8 DEF x

\* InitializeDeposit stores what its native method leaves.
LEMMA InitializeDepositStateP ==
  ASSUME ledger \in LedgerP, NEW d \in As, NEW v, NEW k, ledger.deposit[d] = Payable!NewDeposit
  PROVE  DecodedVaults(Payable!ProcessInitializeDeposit(ledger, d, v, k)) =
           OpenDepositP(DP, d, PayableModel!DepositState(TRUE, 0, v, k))
<1>. DEFINE e == [tag |-> 2, balance |-> 0, vault |-> v, depositor |-> k]
<1>1. Payable!ProcessInitializeDeposit(ledger, d, v, k) =
        OpenDepositP(ledger, d, [ledger.deposit[d] EXCEPT !.tag = 2, !.vault = v, !.depositor = k])
  BY DEF Payable!ProcessInitializeDeposit, OpenDepositP
<1>2. [ledger.deposit[d] EXCEPT !.tag = 2, !.vault = v, !.depositor = k] = e
  <2>1. ledger.deposit[d] \in [tag: {0}, balance: {0}, vault: {NoKey}, depositor: {NoKey}]
    BY DEF Payable!NewDeposit
  <2>. QED
    BY <2>1, OpenedDeposit
<1>3. PayableModel!DecodeDepositState(e) = PayableModel!DepositState(TRUE, 0, v, k)
  BY DecodesP
<1>. DEFINE o == ledger.open
            l == ledger.lamports
            f == ledger.vault
            g == ledger.deposit
            x == PayableModel!DepositState(TRUE, 0, v, k)
<1>4. /\ g \in [As -> DepositP] /\ ledger = Four(o, l, f, g)
      /\ DP = Four(o, l, VaultsOf(f), DepositsOf(g))
  BY PartsP, FourP
<1>. HIDE DEF e, o, l, f, g, x
<1>5. OpenDepositP(ledger, d, e) = Four(o, l, f, Put(g, d, e))
  BY <1>4, OpensP
<1>6. OpenDepositP(DP, d, x) = Four(o, l, VaultsOf(f), Put(DepositsOf(g), d, x))
  BY <1>4, OpensP
<1>7. DepositsOf(Put(g, d, e)) = Put(DepositsOf(g), d, x)
  BY <1>3, <1>4, PutsP DEF x
<1>8. DecodedVaults(Four(o, l, f, Put(g, d, e))) = Four(o, l, VaultsOf(f), DepositsOf(Put(g, d, e)))
  BY FourP
<1>. QED
  BY <1>1, <1>2, <1>5, <1>6, <1>7, <1>8 DEF x

\* Books that are written decode to the books the model writes.
LEMMA BooksStateP ==
  ASSUME ledger \in LedgerP, NEW v \in Roots, NEW d \in As, NEW l, NEW i, NEW j
  PROVE  DecodedVaults(Four(ledger.open, l,
                            Put(ledger.vault, v, [ledger.vault[v] EXCEPT !.total = i]),
                            Put(ledger.deposit, d, Balanced(ledger.deposit[d], j)))) =
         BooksTo(Four(ledger.open, l, VaultsOf(ledger.vault), DepositsOf(ledger.deposit)),
                 v, d, i, j)
<1>. DEFINE f == ledger.vault
            g == ledger.deposit
            x == [f[v] EXCEPT !.total = i]
            y == Balanced(g[d], j)
<1>1. f \in [Roots -> VaultP] /\ g \in [As -> DepositP]
  BY PartsP
<1>2. f[v] \in VaultP /\ g[d] \in DepositP
  BY <1>1
<1>3. /\ VaultsOf(f)[v] = PayableModel!DecodeVaultState(f[v])
      /\ DepositsOf(g)[d] = PayableModel!DecodeDepositState(g[d])
  BY DEF VaultsOf, DepositsOf
<1>. HIDE DEF f, g
<1>4. /\ PayableModel!DecodeVaultState(x) = Totalled(VaultsOf(f)[v], i)
      /\ PayableModel!DecodeDepositState(y) = Balanced(DepositsOf(g)[d], j)
  BY <1>2, <1>3, DecodesP
<1>. HIDE DEF x, y
<1>5. /\ VaultsOf(Put(f, v, x)) = Put(VaultsOf(f), v, Totalled(VaultsOf(f)[v], i))
      /\ DepositsOf(Put(g, d, y)) = Put(DepositsOf(g), d, Balanced(DepositsOf(g)[d], j))
  BY <1>1, <1>4, PutsP
<1>6. DecodedVaults(Four(ledger.open, l, Put(f, v, x), Put(g, d, y))) =
        Four(ledger.open, l, VaultsOf(Put(f, v, x)), DepositsOf(Put(g, d, y)))
  BY FourP
<1>7. BooksTo(Four(ledger.open, l, VaultsOf(f), DepositsOf(g)), v, d, i, j) =
        Four(ledger.open, l, Put(VaultsOf(f), v, Totalled(VaultsOf(f)[v], i)),
             Put(DepositsOf(g), d, Balanced(DepositsOf(g)[d], j)))
  BY BooksToP
<1>8. DecodedVaults(Four(ledger.open, l, Put(f, v, x), Put(g, d, y))) =
        BooksTo(Four(ledger.open, l, VaultsOf(f), DepositsOf(g)), v, d, i, j)
  BY <1>5, <1>6, <1>7
<1>. QED
  BY <1>8 DEF f, g, x, y

\* What the native model leaves of a deposit and of a withdrawal.
ModelCredit(t, v, d, n) ==
  [t EXCEPT !.vault[v].totalDeposited = @ + n, !.deposit[d].balance = @ + n]
ModelDebit(t, v, d, n) ==
  [t EXCEPT !.vault[v].totalDeposited = (@ + PayableU64 - n) % PayableU64,
            !.deposit[d].balance = @ - n]
ModelDeposit(s, v, d, k, n) == ModelCredit(PayableModel!Move(s, k, v, n), v, d, n)
ModelWithdraw(s, v, d, to, n) == ModelDebit(PayableModel!Move(s, v, to, n), v, d, n)

\* The books the model writes, from what stood there.
LEMMA ModelBooksP ==
  \A t, v, d, n :
    /\ ModelCredit(t, v, d, n) =
         BooksTo(t, v, d, t.vault[v].totalDeposited + n, t.deposit[d].balance + n)
    /\ ModelDebit(t, v, d, n) =
         BooksTo(t, v, d, (t.vault[v].totalDeposited + PayableU64 - n) % PayableU64,
                 t.deposit[d].balance - n)
BY DEF BooksTo, ModelCredit, ModelDebit

\* What stands in the books after lamports moved in the model.
LEMMA MovedModelP ==
  ASSUME ledger \in LedgerP, NEW a, NEW b, a # b, NEW v \in Roots, NEW d \in As, NEW n
  PROVE  LET t == PayableModel!Move(DP, a, b, n) IN
         /\ t = Four(ledger.open, Moved(ledger.lamports, a, b, n),
                     VaultsOf(ledger.vault), DepositsOf(ledger.deposit))
         /\ t.vault[v].totalDeposited = ledger.vault[v].total
         /\ t.deposit[d].balance = ledger.deposit[d].balance
<1>. DEFINE t == PayableModel!Move(DP, a, b, n)
<1>1. t = Four(ledger.open, Moved(ledger.lamports, a, b, n),
               VaultsOf(ledger.vault), DepositsOf(ledger.deposit))
  BY FourP, MoveModelP DEF Moved, Put
<1>2. t.vault = DP.vault /\ t.deposit = DP.deposit
  BY <1>1, FourP DEF Four
<1>. HIDE DEF t
<1>3. t.vault[v].totalDeposited = ledger.vault[v].total
  BY <1>2, DecodedP
<1>4. t.deposit[d].balance = ledger.deposit[d].balance
  BY <1>2, DecodedP
<1>. QED
  BY <1>1, <1>3, <1>4 DEF t

\* Deposit stores what its native method leaves.
LEMMA DepositStateP ==
  ASSUME ledger \in LedgerP, NEW v \in Roots, NEW d \in As, NEW k, k # v, NEW n
  PROVE  DecodedVaults(Payable!ProcessDeposit(ledger, v, d, k, n)) = ModelDeposit(DP, v, d, k, n)
<1>. DEFINE i == ledger.vault[v].total + n
            j == ledger.deposit[d].balance + n
            l == [ledger.lamports EXCEPT ![k] = @ - n, ![v] = @ + n]
            t == PayableModel!Move(DP, k, v, n)
<1>1. Payable!ProcessDeposit(ledger, v, d, k, n) =
        Four(ledger.open, l, Put(ledger.vault, v, [ledger.vault[v] EXCEPT !.total = i]),
             Put(ledger.deposit, d, Balanced(ledger.deposit[d], j)))
  <2>1. Payable!ProcessDeposit(ledger, v, d, k, n) = Credited(ledger, v, d, k, n)
    BY CreditedP
  <2>. QED
    BY <2>1 DEF Credited, Four, Put, Balanced
<1>2. l = Moved(ledger.lamports, k, v, n)
  BY DEF Moved
<1>3. /\ t = Four(ledger.open, Moved(ledger.lamports, k, v, n),
                  VaultsOf(ledger.vault), DepositsOf(ledger.deposit))
      /\ t.vault[v].totalDeposited + n = i /\ t.deposit[d].balance + n = j
  BY MovedModelP
<1>. HIDE DEF i, j, l, t
<1>4. ModelDeposit(DP, v, d, k, n) =
        BooksTo(t, v, d, t.vault[v].totalDeposited + n, t.deposit[d].balance + n)
  BY ModelBooksP DEF ModelDeposit, t
<1>. QED
  BY <1>1, <1>2, <1>3, <1>4, BooksStateP

\* Withdraw stores what its native method leaves.
LEMMA WithdrawStateP ==
  ASSUME ledger \in LedgerP, NEW v \in Roots, NEW d \in As, NEW to, to # v, NEW n
  PROVE  DecodedVaults(Payable!ProcessWithdraw(ledger, v, d, to, n)) = ModelWithdraw(DP, v, d, to, n)
<1>. DEFINE i == (ledger.vault[v].total + PayableU64 - n) % PayableU64
            j == ledger.deposit[d].balance - n
            l == [[ledger.lamports EXCEPT ![v] = ledger.lamports[v] - n]
                    EXCEPT ![to] = ledger.lamports[to] + n]
            t == PayableModel!Move(DP, v, to, n)
<1>1. Payable!ProcessWithdraw(ledger, v, d, to, n) =
        Four(ledger.open, l, Put(ledger.vault, v, [ledger.vault[v] EXCEPT !.total = i]),
             Put(ledger.deposit, d, Balanced(ledger.deposit[d], j)))
  BY DebitedP DEF Four, Put, Balanced
<1>2. l = Moved(ledger.lamports, v, to, n)
  BY DEF Moved
<1>3. /\ t = Four(ledger.open, Moved(ledger.lamports, v, to, n),
                  VaultsOf(ledger.vault), DepositsOf(ledger.deposit))
      /\ (t.vault[v].totalDeposited + PayableU64 - n) % PayableU64 = i
      /\ t.deposit[d].balance - n = j
  BY MovedModelP
<1>. HIDE DEF i, j, l, t
<1>4. ModelWithdraw(DP, v, d, to, n) =
        BooksTo(t, v, d, (t.vault[v].totalDeposited + PayableU64 - n) % PayableU64,
                t.deposit[d].balance - n)
  BY ModelBooksP DEF ModelWithdraw, t
<1>. QED
  BY <1>1, <1>2, <1>3, <1>4, BooksStateP

\* EmergencyWithdraw stores what its native method leaves.
LEMMA EmergencyWithdrawStateP ==
  ASSUME ledger \in LedgerP, NEW v \in Roots, NEW to, to # v, NEW n
  PROVE  DecodedVaults(Payable!ProcessEmergencyWithdraw(ledger, v, to, n)) =
           PayableModel!Move(DP, v, to, n)
<1>. DEFINE f == [[ledger.lamports EXCEPT ![v] = ledger.lamports[v] - n]
                    EXCEPT ![to] = ledger.lamports[to] + n]
<1>1. Payable!ProcessEmergencyWithdraw(ledger, v, to, n) = [ledger EXCEPT !.lamports = f]
  BY DEF Payable!ProcessEmergencyWithdraw, Payable!StoreLamports
<1>2. f = Put(Put(ledger.lamports, v, ledger.lamports[v] - n), to, ledger.lamports[to] + n)
  BY DEF Put
<1>. HIDE DEF f
<1>3. [ledger EXCEPT !.lamports = f] = Four(ledger.open, f, ledger.vault, ledger.deposit)
  BY PartP DEF LedgerP, Four
<1>. QED
  BY <1>1, <1>2, <1>3, FourP, MoveModelP

\* InitializeVault agrees with its native method.
LEMMA InitializeVaultAgreesP ==
  ASSUME InvP, NEW v \in Roots, NEW k \in Wallets, NEW p
  PROVE  Agree(Payable!ProcessInitializeVaultChecks(ledger, 1, v, p),
               DecodedVaults(Payable!ProcessInitializeVault(ledger, v, k)), PayableModel!InitializeVault(DP, v, k, p))
<1>. DEFINE code == Payable!ProcessInitializeVaultChecks(ledger, 1, v, p)
            outcome == PayableModel!InitializeVault(DP, v, k, p)
            after == OpenVaultP(DP, v, PayableModel!VaultState(TRUE, 0, k))
<1>0. ledger \in LedgerP
  BY DEF InvP, BooksP
<1>1. outcome.code = code
  BY InitializeVaultCodeP
<1>2. outcome.code = 0 => outcome.state = after
  BY DEF PayableModel!InitializeVault, PayableModel!Outcome, OpenVaultP
<1>3. ASSUME code = 0
      PROVE  DecodedVaults(Payable!ProcessInitializeVault(ledger, v, k)) = after
  <2>1. ledger.vault[v] = Payable!NewVault
    BY <1>3, PayableFirst
    DEF Payable!ProcessInitializeVaultChecks, Payable!Owned,
       Payable!RequireOwned, Payable!Require
  <2>. QED
    BY <1>0, <2>1, InitializeVaultStateP
<1>. HIDE DEF code, outcome, after
<1>. QED
  BY <1>1, <1>2, <1>3 DEF Agree, code, outcome

\* InitializeDeposit agrees with its native method.
LEMMA InitializeDepositAgreesP ==
  ASSUME InvP, NEW d \in As, NEW v \in Roots, NEW k \in Wallets, NEW p
  PROVE  Agree(Payable!ProcessInitializeDepositChecks(ledger, 2, d, v, p),
               DecodedVaults(Payable!ProcessInitializeDeposit(ledger, d, v, k)), PayableModel!InitializeDepositAccount(DP, d, v, k, p))
<1>. DEFINE code == Payable!ProcessInitializeDepositChecks(ledger, 2, d, v, p)
            outcome == PayableModel!InitializeDepositAccount(DP, d, v, k, p)
            after == OpenDepositP(DP, d, PayableModel!DepositState(TRUE, 0, v, k))
<1>0. ledger \in LedgerP
  BY DEF InvP, BooksP
<1>1. outcome.code = code
  BY InitializeDepositCodeP
<1>2. outcome.code = 0 => outcome.state = after
  BY DEF PayableModel!InitializeDepositAccount, PayableModel!Outcome, OpenDepositP
<1>3. ASSUME code = 0
      PROVE  DecodedVaults(Payable!ProcessInitializeDeposit(ledger, d, v, k)) = after
  <2>1. ledger.deposit[d] = Payable!NewDeposit
    BY <1>3, PayableFirst
    DEF Payable!ProcessInitializeDepositChecks, Payable!Owned,
       Payable!RequireOwned, Payable!Require
  <2>. QED
    BY <1>0, <2>1, InitializeDepositStateP
<1>. HIDE DEF code, outcome, after
<1>. QED
  BY <1>1, <1>2, <1>3 DEF Agree, code, outcome

\* Deposit agrees with its native method.
LEMMA DepositAgreesP ==
  ASSUME InvP, NEW v \in Roots, NEW d \in As, NEW k \in Wallets,
         NEW n \in Payable!Amount, NEW p
  PROVE  Agree(Payable!ProcessDepositChecks(ledger, 4, v, d, k, sys, n, p),
               DecodedVaults(Payable!ProcessDeposit(ledger, v, d, k, n)), PayableModel!Deposit(DP, v, d, k, n, p))
<1>. DEFINE code == Payable!ProcessDepositChecks(ledger, 4, v, d, k, sys, n, p)
            outcome == PayableModel!Deposit(DP, v, d, k, n, p)
            after == ModelDeposit(DP, v, d, k, n)
<1>0. ledger \in LedgerP
  BY DEF InvP, BooksP
<1>1. outcome.code = code
  BY DepositCodeP
<1>2. outcome.code = 0 => outcome.state = after
  BY DEF PayableModel!Deposit, PayableModel!Outcome, ModelDeposit, ModelCredit
<1>3. ASSUME code = 0
      PROVE  DecodedVaults(Payable!ProcessDeposit(ledger, v, d, k, n)) = after
  <2>1. k # v
    BY PayableConstants
  <2>. QED
    BY <1>0, <2>1, DepositStateP
<1>. HIDE DEF code, outcome, after
<1>. QED
  BY <1>1, <1>2, <1>3 DEF Agree, code, outcome

\* Withdraw agrees with its native method.
LEMMA WithdrawAgreesP ==
  ASSUME InvP, NEW v \in Roots, NEW d \in As, NEW k \in Wallets, NEW to \in Wallets,
         NEW n \in Payable!Amount, NEW p
  PROVE  Agree(Payable!ProcessWithdrawChecks(ledger, 4, v, d, k, to, n, p),
               DecodedVaults(Payable!ProcessWithdraw(ledger, v, d, to, n)), PayableModel!Withdraw(DP, v, d, k, to, n, p))
<1>. DEFINE code == Payable!ProcessWithdrawChecks(ledger, 4, v, d, k, to, n, p)
            outcome == PayableModel!Withdraw(DP, v, d, k, to, n, p)
            after == ModelWithdraw(DP, v, d, to, n)
<1>0. ledger \in LedgerP
  BY DEF InvP, BooksP
<1>1. outcome.code = code
  BY WithdrawCodeP
<1>2. outcome.code = 0 => outcome.state = after
  BY DEF PayableModel!Withdraw, PayableModel!Outcome, ModelWithdraw, ModelDebit, PayableModel!MaxUint64
<1>3. ASSUME code = 0
      PROVE  DecodedVaults(Payable!ProcessWithdraw(ledger, v, d, to, n)) = after
  <2>1. to # v
    BY PayableConstants
  <2>. QED
    BY <1>0, <2>1, WithdrawStateP
<1>. HIDE DEF code, outcome, after
<1>. QED
  BY <1>1, <1>2, <1>3 DEF Agree, code, outcome

\* EmergencyWithdraw agrees with its native method.
LEMMA EmergencyWithdrawAgreesP ==
  ASSUME InvP, NEW v \in Roots, NEW k \in Wallets, NEW to \in Wallets,
         NEW n \in Payable!Amount, NEW p
  PROVE  Agree(Payable!ProcessEmergencyWithdrawChecks(ledger, 3, v, k, to, n, p),
               DecodedVaults(Payable!ProcessEmergencyWithdraw(ledger, v, to, n)), PayableModel!EmergencyWithdraw(DP, v, k, to, n, p))
<1>. DEFINE code == Payable!ProcessEmergencyWithdrawChecks(ledger, 3, v, k, to, n, p)
            outcome == PayableModel!EmergencyWithdraw(DP, v, k, to, n, p)
            after == PayableModel!Move(DP, v, to, n)
<1>0. ledger \in LedgerP
  BY DEF InvP, BooksP
<1>1. outcome.code = code
  BY EmergencyWithdrawCodeP
<1>2. outcome.code = 0 => outcome.state = after
  BY DEF PayableModel!EmergencyWithdraw, PayableModel!Outcome
<1>3. ASSUME code = 0
      PROVE  DecodedVaults(Payable!ProcessEmergencyWithdraw(ledger, v, to, n)) = after
  <2>1. to # v
    BY PayableConstants
  <2>. QED
    BY <1>0, <2>1, EmergencyWithdrawStateP
<1>. HIDE DEF code, outcome, after
<1>. QED
  BY <1>1, <1>2, <1>3 DEF Agree, code, outcome

\* And so does payable, as long as its books balance.
LEMMA AgreesP == InvP => VaultMatchesModel
<1>. SUFFICES ASSUME InvP PROVE VaultMatchesModel
  OBVIOUS
<1>1. ASSUME NEW p \in Compared, NEW v \in Roots, NEW d \in As, NEW k \in Wallets
      PROVE  /\ Agree(Payable!ProcessInitializeVaultChecks(ledger, 1, v, p),
                      DecodedVaults(Payable!ProcessInitializeVault(ledger, v, k)),
                      PayableModel!InitializeVault(DP, v, k, p))
             /\ Agree(Payable!ProcessInitializeDepositChecks(ledger, 2, d, v, p),
                      DecodedVaults(Payable!ProcessInitializeDeposit(ledger, d, v, k)),
                      PayableModel!InitializeDepositAccount(DP, d, v, k, p))
  BY InitializeVaultAgreesP, InitializeDepositAgreesP
<1>2. ASSUME NEW p \in Compared, NEW v \in Roots, NEW d \in As, NEW k \in Wallets,
             NEW to \in Wallets, NEW amount \in Payable!Amount
      PROVE  /\ Agree(Payable!ProcessDepositChecks(ledger, 4, v, d, k, sys, amount, p),
                      DecodedVaults(Payable!ProcessDeposit(ledger, v, d, k, amount)),
                      PayableModel!Deposit(DP, v, d, k, amount, p))
             /\ Agree(Payable!ProcessWithdrawChecks(ledger, 4, v, d, k, to, amount, p),
                      DecodedVaults(Payable!ProcessWithdraw(ledger, v, d, to, amount)),
                      PayableModel!Withdraw(DP, v, d, k, to, amount, p))
             /\ Agree(Payable!ProcessEmergencyWithdrawChecks(ledger, 3, v, k, to, amount, p),
                      DecodedVaults(Payable!ProcessEmergencyWithdraw(ledger, v, to, amount)),
                      PayableModel!EmergencyWithdraw(DP, v, k, to, amount, p))
  BY DepositAgreesP, WithdrawAgreesP, EmergencyWithdrawAgreesP
<1>. QED
  BY <1>1, <1>2 DEF VaultMatchesModel, DP

-----------------------------------------------------------------------------
(* The programs together: one of them runs, the others stay as they are.   *)

AllInv == PhonebookInv /\ Inv20 /\ Inv55 /\ InvP /\ InvG

\* A program that does not run keeps what it kept.
LEMMA PhonebookStays == PhonebookInv /\ UNCHANGED phonebookVars => PhonebookInv'
BY DEF PhonebookInv, phonebookVars

LEMMA Stays20 == Inv20 /\ UNCHANGED erc20Vars => Inv20'
BY DEF Inv20, Typed20, Backed20, Of20, Approved20, Unique20, Live20, Erc20!Budget, erc20Vars

LEMMA Stays55 == Inv55 /\ UNCHANGED erc1155Vars => Inv55'
BY DEF Inv55, Typed55, Numbers55, Numbered, Backed55, Of55, Granted55, erc1155Vars

LEMMA StaysP == InvP /\ UNCHANGED payableVars => InvP'
BY DEF InvP, payableVars

LEMMA StaysG == InvG /\ UNCHANGED gosplVars => InvG'
BY DEF InvG, gosplVars, G!IInv, G!TypeOK, G!MintSound, G!TokenSound, G!Backed, G!Held

LEMMA AllInit == Init => AllInv
BY PhonebookInit, Init20, Init55, InitP, InitG DEF Init, AllInv

LEMMA AllNext ==
  ASSUME AllInv, [Next]_vars
  PROVE  AllInv' /\ (Authorized55 \/ UNCHANGED erc1155Vars)
<1>0. PhonebookInv /\ Inv20 /\ Inv55 /\ InvP /\ InvG
  BY DEF AllInv
<1>1. ASSUME Payable!Next, UNCHANGED <<erc20Vars, erc1155Vars, phonebookVars, gosplVars>>
      PROVE  AllInv' /\ (Authorized55 \/ UNCHANGED erc1155Vars)
  BY <1>0, <1>1, NextP, Stays20, Stays55, PhonebookStays, StaysG DEF AllInv
<1>2. ASSUME Erc20!Next, UNCHANGED <<payableVars, erc1155Vars, phonebookVars, gosplVars>>
      PROVE  AllInv' /\ (Authorized55 \/ UNCHANGED erc1155Vars)
  BY <1>0, <1>2, Next20, StaysP, Stays55, PhonebookStays, StaysG DEF AllInv
<1>3. ASSUME Erc1155!Next, UNCHANGED <<payableVars, erc20Vars, phonebookVars, gosplVars>>
      PROVE  AllInv' /\ (Authorized55 \/ UNCHANGED erc1155Vars)
  BY <1>0, <1>3, Next55, StaysP, Stays20, PhonebookStays, StaysG DEF AllInv
<1>4. ASSUME Phonebook!Next, UNCHANGED <<payableVars, erc20Vars, erc1155Vars, gosplVars>>
      PROVE  AllInv' /\ (Authorized55 \/ UNCHANGED erc1155Vars)
  BY <1>0, <1>4, PhonebookStep, StaysP, Stays20, Stays55, StaysG DEF AllInv
<1>5. ASSUME Gospl!Next, UNCHANGED <<payableVars, erc20Vars, erc1155Vars, phonebookVars>>
      PROVE  AllInv' /\ (Authorized55 \/ UNCHANGED erc1155Vars)
  BY <1>0, <1>5, NextG, StaysP, Stays20, Stays55, PhonebookStays DEF AllInv
<1>6. ASSUME UNCHANGED vars
      PROVE  AllInv' /\ (Authorized55 \/ UNCHANGED erc1155Vars)
  <2>1. UNCHANGED <<payableVars, erc20Vars, erc1155Vars, phonebookVars, gosplVars>>
    BY <1>6 DEF vars
  <2>. QED
    BY <1>0, <2>1, StaysP, Stays20, Stays55, PhonebookStays, StaysG DEF AllInv
<1>. QED
  BY <1>1, <1>2, <1>3, <1>4, <1>5, <1>6 DEF Next, Only

\* The vault's books: the total of the first vault at an address is what its
\* depositors hold, and every vault, those created where one was drained too, has
\* what it owes but for what authorities took, whatever instructions run in whatever
\* order (ProcessDeposit, ProcessWithdraw and ProcessEmergencyWithdraw).
THEOREM BooksAreBalanced == Spec => []VaultBooksBalance
<1>1. AllInv => VaultBooksBalance
  BY BooksBalance DEF AllInv
<1>. QED
  BY AllInit, AllNext, <1>1, PTL DEF Spec

\* In each of the three token programs the supply a mint or a token type
\* records is the sum of the balances of its accounts (MintTo, Burn, Transfer
\* and TransferFrom write the two sides separately).
THEOREM SuppliesAreBacked == Spec => []SuppliesAreBalances
<1>1. AllInv => SuppliesAreBalances
  BY Sum20, Sum55, SumG DEF AllInv, Inv20, Inv55, SuppliesAreBalances
<1>. QED
  BY AllInit, AllNext, <1>1, PTL DEF Spec

\* Nothing is spent for an owner that the owner did not grant: transfers on an
\* allowance stay within what was approved, and a balance of ERC-1155 shrinks
\* by its owner or by an operator with a standing approval only.
THEOREM SpendersAreGranted == Spec => SpendingIsGranted
<1>1. AllInv => Erc20!ApprovalBoundsSpending
  BY Bounded20 DEF AllInv
<1>2. Spec => []Erc20!ApprovalBoundsSpending
  BY AllInit, AllNext, <1>1, PTL DEF Spec
<1>3. AllInv /\ [Next]_vars => [Authorized55]_erc1155Vars
  BY AllNext
<1>4. Spec => [][Authorized55]_erc1155Vars
  BY AllInit, AllNext, <1>3, PTL DEF Spec
<1>5. Spec => Erc1155!MovesAreAuthorized
  BY <1>4 DEF Erc1155!MovesAreAuthorized, Authorized55, erc1155Vars, Erc1155!vars
<1>. QED
  BY <1>2, <1>5 DEF SpendingIsGranted

\* A phonebook never lists a contact twice or more contacts than it has room
\* for (addContact, updateContact and removeContact rewrite the whole list).
THEOREM ContactsStayUnique == Spec => []ContactsAreUnique
<1>1. AllInv => ContactsAreUnique
  BY DEF AllInv, PhonebookInv, Distinct, ContactsAreUnique, Phonebook!ContactsAreUnique
<1>. QED
  BY AllInit, AllNext, <1>1, PTL DEF Spec

\* The compiled programs do what their native models do: in every reachable
\* state each instruction of payable and of ERC-20 returns the error of the
\* native method, and when it succeeds it stores what the method leaves
\* (the two implementations are written apart: testdata/program.go, program.go).
THEOREM GuestsAreNatives == Spec => []GuestsMatchNatives
<1>1. AllInv => GuestsMatchNatives
  BY Agrees20, AgreesP DEF AllInv, Inv20, GuestsMatchNatives
<1>. QED
  BY AllInit, AllNext, <1>1, PTL DEF Spec
=============================================================================
