------------------------------ MODULE ToolPlans ------------------------------
(* What the command line tools of the examples ask of the chain.            *)
(*                                                                           *)
(* Each command checks its arguments, works out the balance it needs, and    *)
(* then follows a fixed plan: transactions, each waited for until it is      *)
(* finalized, with reads of finalized accounts between them.  This module    *)
(* holds the plans and the effect of their transactions; Tool runs them.     *)
(*                                                                           *)
(* Lamports are counted in fees of one signature (5000 lamports), so the     *)
(* reserve of 100_000 lamports is twenty.  Accounts are named by their role; *)
(* their program, rent and byte layout, which only their program can change, *)
(* are part of their kind.                                                   *)
EXTENDS Integers, Sequences, SequencesExt, FiniteSets

CONSTANTS
  Rent,           \* what an account costs its creator
  AssociatedRent, \* what a token account with the ImmutableOwner extension does
  MetadataRent,   \* what a metadata account of Metaplex does
  CreateFee,      \* what Metaplex asks for creating one
  U64             \* stands for 2^64

ASSUME ToolAssumption ==
  /\ Rent \in Nat \ {0}
  /\ AssociatedRent \in Nat /\ AssociatedRent >= Rent
  /\ MetadataRent \in Nat \ {0} /\ CreateFee \in Nat
  /\ U64 \in Nat \ {0}

Reserve == 20
MetadataFee == MetadataRent + CreateFee

Mint == <<"mint", 0>>
Token == <<"token", 0>>
Collection == <<"collection", 0>>
TokenType == <<"type", 0>>
Metadata == <<"metadata", 0>>
Edition == <<"edition", 0>>
Storage == <<"storage", 0>>
Program == <<"program", 0>>
Recipient(i) == <<"recipient", i>>

Account(kind, authority, amount) == [kind |-> kind, authority |-> authority, amount |-> amount]
Absent == Account("absent", "nobody", 0)

-----------------------------------------------------------------------------
(* Amounts of --amount-ui, as the digits before and after the point.         *)

Number(digits) == FoldLeft(LAMBDA n, d : 10 * n + d, 0, digits)

\* The raw amount, or the reason there is none.
ParseUIAmount(text, decimals) ==
  LET raw == Number(text.whole) * 10^decimals
             + Number(text.fraction) * 10^(decimals - Len(text.fraction))
  IN IF Len(text.whole) = 0 \/ Len(text.fraction) > decimals \/ raw >= U64
     THEN [ok |-> FALSE, raw |-> 0]
     ELSE [ok |-> TRUE, raw |-> raw]

\* The digits of n in as many places as are asked for.
Digits(n, places) == [k \in 1..places |-> (n \div 10^(places - k)) % 10]

\* As many digits as the whole number has, and a fraction without trailing zeros.
FormatUIAmount(raw, decimals) ==
  LET whole == raw \div 10^decimals
      places == CHOOSE p \in 1..20 : whole < 10^p /\ (p = 1 \/ whole >= 10^(p - 1))
      shown == {k \in 1..decimals : raw % 10^(decimals - k + 1) # 0}
  IN [whole |-> Digits(whole, places),
      fraction |-> SubSeq(Digits(raw % 10^decimals, decimals), 1, Cardinality(shown))]

-----------------------------------------------------------------------------
(* Transactions.                                                             *)

Create(account, state) == [op |-> "create", on |-> account, to |-> account, state |-> state, n |-> 0]
Ensure(account, state) == [op |-> "ensure", on |-> account, to |-> account, state |-> state, n |-> 0]
MintTo(mint, to, n) == [op |-> "mint", on |-> mint, to |-> to, state |-> Absent, n |-> n]
Transfer(from, to, n) == [op |-> "transfer", on |-> from, to |-> to, state |-> Absent, n |-> n]
NextType == [op |-> "next", on |-> Collection, to |-> TokenType, state |-> Absent, n |-> 1]
Describe == [op |-> "describe", on |-> Mint, to |-> Metadata,
             state |-> Account("metadata", "payer", 0), n |-> 0]
Extend == [op |-> "extend", on |-> Mint, to |-> Mint, state |-> Account("mint+", "payer", 0), n |-> 0]
Seal == [op |-> "seal", on |-> Mint, to |-> Edition,
         state |-> Account("edition", "payer", 0), n |-> 0]
Call == [op |-> "call", on |-> Program, to |-> Program, state |-> Absent, n |-> 1]
Record(n) == [op |-> "record", on |-> Storage, to |-> Storage, state |-> Absent, n |-> n]

\* Program of examples/name-storage: one writable account of its own that signs.
RecordName(i, accounts) == accounts[Storage].kind = "storage"

CanApply(i, accounts) ==
  CASE i.op = "create" -> accounts[i.on] = Absent
    [] i.op = "ensure" -> accounts[i.on] \in {Absent, i.state}
    [] i.op = "mint" -> accounts[i.on].authority = "payer" /\ accounts[i.to] # Absent
    [] i.op = "transfer" -> accounts[i.on].amount >= i.n /\ accounts[i.to] # Absent
    [] i.op = "describe" -> accounts[i.on].authority = "payer" /\ accounts[i.to] = Absent
    [] i.op = "seal" -> /\ accounts[Mint].authority = "payer" /\ accounts[Mint].amount = 1
                        /\ accounts[Metadata] = Absent /\ accounts[Edition] = Absent
    [] i.op = "record" -> RecordName(i, accounts)
    [] OTHER -> accounts[i.on] # Absent

Credited(accounts, a, n) == [accounts EXCEPT ![a].amount = @ + n]

Applied(accounts, i) ==
  CASE i.op \in {"create", "ensure"} -> [accounts EXCEPT ![i.on] = i.state]
    [] i.op = "mint" -> Credited(Credited(accounts, i.on, i.n), i.to, i.n)
    [] i.op = "transfer" -> Credited(Credited(accounts, i.on, -i.n), i.to, i.n)
    [] i.op = "describe" -> [accounts EXCEPT ![Metadata] = i.state]
    [] i.op = "extend" -> [accounts EXCEPT ![Mint].kind = i.state.kind]
    [] i.op = "seal" -> [accounts EXCEPT ![Mint].authority = "edition", ![Edition] = i.state,
                                         ![Metadata] = Describe.state]
    [] i.op = "record" -> [accounts EXCEPT ![Storage].amount = i.n]
    [] OTHER -> Credited(accounts, i.on, i.n)

\* The extension makes an account longer, and rent goes by length.
RentOf(state) == IF state.kind = "token+" THEN AssociatedRent ELSE Rent

\* What instruction i takes from the payer.
Charge(i, accounts) ==
  CASE i.op = "create" -> RentOf(i.state)
    [] i.op = "ensure" -> IF accounts[i.on] = Absent THEN RentOf(i.state) ELSE 0
    [] i.op = "describe" -> MetadataFee
    [] i.op = "seal" -> MetadataFee + Rent
    [] OTHER -> 0

-----------------------------------------------------------------------------
(* Steps of a plan.                                                          *)

\* The payer signs every transaction; keys are the generated accounts that sign too.
SendNth(stage, i, keys, instructions) ==
  [op |-> "send", stage |-> <<stage, i>>, signatures |-> 1 + keys, instructions |-> instructions]

Send(stage, keys, instructions) == SendNth(stage, 0, keys, instructions)

\* Read an account until it is as wanted; only a patient read survives a timeout.
Check(account, state) == [op |-> "verify", account |-> account, want |-> state, patient |-> FALSE]
Verify(account, state) == [Check(account, state) EXCEPT !.patient = TRUE]

Probe == [op |-> "probe"]
Show == [op |-> "show", account |-> Storage]

\* An instruction of one transaction sees what those before it did.
Before(tx, k, accounts) == FoldLeft(Applied, accounts, SubSeq(tx.instructions, 1, k - 1))

Succeeds(tx, accounts) ==
  \A k \in DOMAIN tx.instructions : CanApply(tx.instructions[k], Before(tx, k, accounts))

After(tx, accounts) == FoldLeft(Applied, accounts, tx.instructions)

Cost(tx, accounts) ==
  FoldLeft(LAMBDA sum, i : sum + Charge(i, accounts), tx.signatures, tx.instructions)
=============================================================================
