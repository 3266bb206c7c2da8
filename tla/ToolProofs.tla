------------------------------ MODULE ToolProofs ------------------------------
(***************************************************************************)
(* What the command line tools may do to a chain, for every command line,  *)
(* balance and number of recipients: the journal accounts for every        *)
(* transaction, nothing is minted twice, and a payer who had what the      *)
(* command asked for at the start can pay for every transaction.           *)
(***************************************************************************)
EXTENDS ToolRun, SumProofs, SequenceTheorems

-----------------------------------------------------------------------------
(* Folds over a sequence.                                                  *)

\* The greatest of some numbers up to m is m when m is one of them.
LEMMA Greatest ==
  ASSUME NEW m \in Nat, NEW s, s \subseteq 1..m, m \in s PROVE Max(s) = m
<1>1. \A y \in s : y \in Int /\ m >= y
  OBVIOUS
<1>2. \A x \in s : (\A y \in s : x >= y) => x = m
  BY <1>1
<1>. QED
  BY <1>1, <1>2 DEF Max

LEMMA GreatestIn ==
  ASSUME NEW n \in Nat, NEW s, s \subseteq 1..n, s # {} PROVE Max(s) \in s
<1>. DEFINE below == {n - k : k \in s}
<1>1. below \subseteq Nat /\ below # {}
  <2>1. \A k \in s : n - k \in Nat
    OBVIOUS
  <2>2. PICK k \in s : TRUE
    OBVIOUS
  <2>3. n - k \in below
    BY <2>2
  <2>. QED
    BY <2>1, <2>3
<1>2. PICK d \in below : \A e \in below : d <= e
  <2>. HIDE DEF below
  <2>. QED
    BY <1>1, Least
<1>3. PICK m \in s : d = n - m
  BY <1>2
<1>4. \A k \in s : n - m <= n - k
  BY <1>2, <1>3
<1>5. m \in Nat /\ s \subseteq 1..m
  BY <1>4
<1>. QED
  BY <1>5, Greatest

LEMMA UpTo ==
  ASSUME NEW n \in Nat, NEW k \in 1..n
  PROVE  k \in 1..k /\ 1..k \subseteq 1..n /\ 1..k # {} /\ (1..k) \ {k} = 1..k - 1
<1>1. k \in 1..k /\ 1..k \subseteq 1..n
  OBVIOUS
<1>2. \A x \in Int : x \in (1..k) \ {k} <=> x \in 1..k - 1
  OBVIOUS
<1>3. (1..k) \ {k} \subseteq Int /\ 1..k - 1 \subseteq Int
  OBVIOUS
<1>4. (1..k) \ {k} = 1..k - 1
  BY <1>2, <1>3
<1>. QED
  BY <1>1, <1>4

\* What holds of 0 and of each number after one of which it holds, holds up to n.
LEMMA Climb ==
  ASSUME NEW n \in Nat, NEW S, 0 \in S, \A k \in 1..n : k - 1 \in S => k \in S
  PROVE  0..n \subseteq S
<1>. DEFINE Bad == {k \in 0..n : k \notin S}
<1>. SUFFICES ASSUME Bad # {} PROVE FALSE
  OBVIOUS
<1>1. Bad \subseteq Nat
  OBVIOUS
<1>2. PICK m \in Bad : \A k \in Bad : m <= k
  <2>. HIDE DEF Bad
  <2>. QED
    BY <1>1, Least
<1>3. m # 0 /\ m - 1 \in 0..n /\ m - 1 \notin Bad
  BY <1>2
<1>. QED
  BY <1>3

\* g holds the values of a fold over the subsets of 1..n.
Folds(g, n, base, next) ==
  \A s \in SUBSET (1..n) : g[s] = IF s = {} THEN base ELSE next[Max(s), g[s \ {Max(s)}]]

\* The values of a fold exist when every step keeps them in one set.
LEMMA Folding ==
  ASSUME NEW n \in Nat, NEW V, NEW base \in V, NEW next \in [(1..n) \X V -> V]
  PROVE  \E g \in [SUBSET (1..n) -> V] : Folds(g, n, base, next)
<1>. DEFINE Folded(g, s) == g[s] = IF s = {} THEN base ELSE next[Max(s), g[s \ {Max(s)}]]
            Upto(m) == \E g \in [SUBSET (1..n) -> V] : \A s \in SUBSET (1..m) : Folded(g, s)
            Bad == {m \in 0..n : ~Upto(m)}
<1>1. Upto(0)
  <2>. DEFINE g == [s \in SUBSET (1..n) |-> base]
  <2>1. g \in [SUBSET (1..n) -> V]
    OBVIOUS
  <2>2. \A s \in SUBSET (1..0) : s = {} /\ g[s] = base
    OBVIOUS
  <2>. QED
    BY <2>1, <2>2
<1>2. ASSUME NEW m \in 1..n, Upto(m - 1) PROVE Upto(m)
  <2>0. m \in Nat /\ 1..m \subseteq 1..n /\ 1..m - 1 \subseteq 1..n
    OBVIOUS
  <2>1. PICK g \in [SUBSET (1..n) -> V] : \A s \in SUBSET (1..m - 1) : Folded(g, s)
    BY <1>2
  <2>. DEFINE Short(s) == s \subseteq 1..m - 1
              h == [s \in SUBSET (1..n) |->
                      IF Short(s) THEN g[s]
                      ELSE IF Short(s \ {m}) THEN next[m, g[s \ {m}]] ELSE base]
  <2>2. h \in [SUBSET (1..n) -> V]
    <3>1. ASSUME NEW s \in SUBSET (1..n), Short(s \ {m}) PROVE next[m, g[s \ {m}]] \in V
      BY <1>2
    <3>. QED
      BY <3>1
  <2>3. ASSUME NEW s \in SUBSET (1..m) PROVE Folded(h, s)
    <3>1. CASE Short(s)
      <4>1. h[s] = g[s] /\ Folded(g, s)
        BY <2>1, <2>0, <3>1
      <4>2. Short(s \ {Max(s)}) /\ s \ {Max(s)} \in SUBSET (1..n)
        <5>1. \A r : r \subseteq s => Short(r) /\ r \in SUBSET (1..n)
          BY <2>0, <3>1
        <5>2. s \ {Max(s)} \subseteq s
          OBVIOUS
        <5>. QED
          BY <5>1, <5>2
      <4>3. h[s \ {Max(s)}] = g[s \ {Max(s)}]
        BY <4>2
      <4>. QED
        BY <4>1, <4>3
    <3>2. CASE ~Short(s)
      <4>1. m \in s
        BY <3>2
      <4>2. Max(s) = m
        BY <2>0, <4>1, Greatest
      <4>3. Short(s \ {m}) /\ s \in SUBSET (1..n) /\ s \ {m} \in SUBSET (1..n)
        OBVIOUS
      <4>4. h[s] = next[m, g[s \ {m}]] /\ h[s \ {m}] = g[s \ {m}]
        BY <3>2, <4>3
      <4>. QED
        BY <4>1, <4>2, <4>4
    <3>. QED
      BY <3>1, <3>2
  <2>. HIDE DEF h
  <2>. QED
    BY <2>2, <2>3
<1>3. Bad = {}
  <2>. SUFFICES ASSUME Bad # {} PROVE FALSE
    OBVIOUS
  <2>. HIDE DEF Upto
  <2>1. Bad \subseteq Nat
    OBVIOUS
  <2>2. PICK m \in Bad : \A k \in Bad : m <= k
    <3>. HIDE DEF Bad
    <3>. QED
      BY <2>1, Least
  <2>3. m # 0 /\ m - 1 \in 0..n /\ m - 1 \notin Bad
    BY <1>1, <2>2
  <2>. QED
    BY <1>2, <2>2, <2>3
<1>4. Upto(n)
  <2>. HIDE DEF Upto
  <2>. QED
    BY <1>3
<1>. QED
  BY <1>4 DEF Folds

\* Accounts, chains and instructions of the tools.
Kinds == {"absent", "mint", "mint+", "token", "token+", "collection", "type", "metadata",
          "edition", "storage", "short", "foreign", "program"}
Keys == {"nobody", "payer", "other", "recipient", "edition"}
Effects == {"create", "ensure", "mint", "transfer", "next", "describe", "extend", "seal",
            "call", "record"}
AccountStates == [kind : Kinds, authority : Keys, amount : Int]
Chains == [Accounts -> AccountStates]
Instructions == [op : Effects, on : Accounts, to : Accounts, state : AccountStates, n : Nat]

\* The accounts of the tools are different.
LEMMA Roles ==
  /\ {Mint, Token, Collection, TokenType, Metadata, Edition, Storage, Program} \subseteq Accounts
  /\ \A i \in 1..Recipients : Recipient(i) \in Accounts
BY DEF Accounts

\* An account gets another state.
Put(accounts, a, state) == [accounts EXCEPT ![a] = state]

LEMMA PutType ==
  ASSUME NEW accounts \in Chains, NEW a \in Accounts, NEW state \in AccountStates
  PROVE  /\ Put(accounts, a, state) \in Chains
         /\ Put(accounts, a, state)[a] = state
BY DEF Put, Chains

LEMMA PutElsewhere ==
  ASSUME NEW accounts \in Chains, NEW a \in Accounts, NEW b \in Accounts, b # a, NEW state
  PROVE  Put(accounts, a, state)[b] = accounts[b]
BY DEF Put, Chains

\* An account with another amount.
Amounting(state, n) == [state EXCEPT !.amount = n]

LEMMA AmountingType ==
  ASSUME NEW state \in AccountStates, NEW n \in Int
  PROVE  /\ Amounting(state, n) \in AccountStates
         /\ Amounting(state, n).amount = n
         /\ Amounting(state, n).kind = state.kind
         /\ Amounting(state, n).authority = state.authority
BY DEF Amounting, AccountStates

LEMMA CreditedType ==
  ASSUME NEW accounts \in Chains, NEW a \in Accounts, NEW n \in Int
  PROVE  /\ Credited(accounts, a, n) \in Chains
         /\ Credited(accounts, a, n)[a].amount = accounts[a].amount + n
<1>1. accounts[a] \in AccountStates /\ accounts[a].amount + n \in Int
  BY DEF Chains, AccountStates
<1>. DEFINE state == Amounting(accounts[a], accounts[a].amount + n)
<1>2. Credited(accounts, a, n) = Put(accounts, a, state)
  BY DEF Credited, Put, Amounting
<1>3. state \in AccountStates /\ state.amount = accounts[a].amount + n
  BY <1>1, AmountingType
<1>. HIDE DEF state
<1>. QED
  BY <1>2, <1>3, PutType

LEMMA CreditedElsewhere ==
  ASSUME NEW accounts \in Chains, NEW a \in Accounts, NEW b \in Accounts, b # a, NEW n
  PROVE  Credited(accounts, a, n)[b] = accounts[b]
BY DEF Credited, Chains

LEMMA AccountType ==
  ASSUME NEW kind \in Kinds, NEW authority \in Keys, NEW n \in Int
  PROVE  /\ Account(kind, authority, n) \in AccountStates
         /\ Account(kind, authority, n).amount = n
BY DEF Account, AccountStates

\* Every effect leaves accounts.
LEMMA AppliedType ==
  ASSUME NEW accounts \in Chains, NEW i \in Instructions
  PROVE  Applied(accounts, i) \in Chains
<1>1. /\ i.on \in Accounts /\ i.to \in Accounts /\ i.state \in AccountStates
      /\ i.n \in Int /\ -i.n \in Int
      /\ Mint \in Accounts /\ Metadata \in Accounts /\ Edition \in Accounts /\ Storage \in Accounts
  BY Roles DEF Instructions
<1>2. \A a \in Accounts : accounts[a] \in AccountStates
  BY DEF Chains
<1>3. Describe.state \in AccountStates
  BY AccountType DEF Describe, Kinds, Keys
<1>4. CASE i.op \in {"create", "ensure"}
  <2>1. Applied(accounts, i) = Put(accounts, i.on, i.state)
    BY <1>4 DEF Applied, Put
  <2>. QED
    BY <1>1, <2>1, PutType
<1>5. CASE i.op = "mint"
  <2>1. Applied(accounts, i) = Credited(Credited(accounts, i.on, i.n), i.to, i.n)
    BY <1>5 DEF Applied
  <2>2. Credited(accounts, i.on, i.n) \in Chains
    BY <1>1, CreditedType
  <2>. QED
    BY <1>1, <2>1, <2>2, CreditedType
<1>6. CASE i.op = "transfer"
  <2>1. Applied(accounts, i) = Credited(Credited(accounts, i.on, -i.n), i.to, i.n)
    BY <1>6 DEF Applied
  <2>2. Credited(accounts, i.on, -i.n) \in Chains
    BY <1>1, CreditedType
  <2>. QED
    BY <1>1, <2>1, <2>2, CreditedType
<1>7. CASE i.op = "describe"
  <2>1. Applied(accounts, i) = Put(accounts, Metadata, i.state)
    BY <1>7 DEF Applied, Put
  <2>. QED
    BY <1>1, <2>1, PutType
<1>8. CASE i.op = "extend"
  <2>1. [accounts[Mint] EXCEPT !.kind = i.state.kind] \in AccountStates
    BY <1>1, <1>2 DEF AccountStates
  <2>2. Applied(accounts, i) = Put(accounts, Mint, [accounts[Mint] EXCEPT !.kind = i.state.kind])
    BY <1>8 DEF Applied, Put
  <2>. QED
    BY <1>1, <2>1, <2>2, PutType
<1>9. CASE i.op = "seal"
  <2>1. [accounts[Mint] EXCEPT !.authority = "edition"] \in AccountStates
    BY <1>1, <1>2 DEF AccountStates, Keys
  <2>2. Applied(accounts, i)
          = Put(Put(Put(accounts, Mint, [accounts[Mint] EXCEPT !.authority = "edition"]),
                    Edition, i.state),
                Metadata, Describe.state)
    BY <1>9 DEF Applied, Put
  <2>3. Put(accounts, Mint, [accounts[Mint] EXCEPT !.authority = "edition"]) \in Chains
    BY <1>1, <2>1, PutType
  <2>4. Put(Put(accounts, Mint, [accounts[Mint] EXCEPT !.authority = "edition"]), Edition, i.state)
          \in Chains
    BY <1>1, <2>3, PutType
  <2>. QED
    BY <1>1, <1>3, <2>2, <2>4, PutType
<1>10. CASE i.op = "record"
  <2>1. Applied(accounts, i) = Put(accounts, Storage, Amounting(accounts[Storage], i.n))
    BY <1>10 DEF Applied, Put, Amounting
  <2>. QED
    BY <1>1, <1>2, <2>1, PutType, AmountingType
<1>11. CASE i.op \notin {"create", "ensure", "mint", "transfer", "describe", "extend", "seal", "record"}
  <2>1. Applied(accounts, i) = Credited(accounts, i.on, i.n)
    BY <1>11 DEF Applied
  <2>. QED
    BY <1>1, <2>1, CreditedType
<1>. QED
  BY <1>4, <1>5, <1>6, <1>7, <1>8, <1>9, <1>10, <1>11

-----------------------------------------------------------------------------
(* The transactions of a plan.                                             *)

\* f holds the accounts after each instruction, and what it has taken so far.
States(f, accounts, seq) ==
  /\ f[0] = accounts
  /\ \A k \in 1..Len(seq) : f[k] = Applied(f[k - 1], seq[k])
  /\ FoldLeft(Applied, accounts, seq) = f[Len(seq)]

Totals(f, fees, accounts, seq) ==
  /\ f[0] = fees
  /\ \A k \in 1..Len(seq) : f[k] = f[k - 1] + Charge(seq[k], accounts)
  /\ FoldLeft(LAMBDA sum, i : sum + Charge(i, accounts), fees, seq) = f[Len(seq)]

\* What a sequence of instructions does, one after the other.
LEMMA AfterFold ==
  ASSUME NEW accounts \in Chains, NEW seq \in Seq(Instructions)
  PROVE  \E f \in [0..Len(seq) -> Chains] : States(f, accounts, seq)
<1>. DEFINE n == Len(seq)
            Then(g, s) == IF s = {} THEN accounts ELSE Applied(g[s \ {Max(s)}], seq[Max(s)])
            Solves(g) == g = [s \in SUBSET (1..n) |-> Then(g, s)]
            next == [p \in (1..n) \X Chains |-> Applied(p[2], seq[p[1]])]
<1>0. n \in Nat
  OBVIOUS
<1>1. DOMAIN seq = 1..n /\ \A k \in 1..n : seq[k] \in Instructions
  OBVIOUS
<1>. HIDE DEF n
<1>2. next \in [(1..n) \X Chains -> Chains]
  BY <1>1, AppliedType
<1>16. \A k \in 1..n, v \in Chains : next[k, v] = Applied(v, seq[k])
  OBVIOUS
<1>. HIDE DEF next
<1>3. PICK g \in [SUBSET (1..n) -> Chains] : Folds(g, n, accounts, next)
  BY <1>0, <1>2, Folding
<1>15. \A s \in SUBSET (1..n) : g[s] = IF s = {} THEN accounts ELSE next[Max(s), g[s \ {Max(s)}]]
  BY <1>3 DEF Folds
<1>4. ASSUME NEW s \in SUBSET (1..n) PROVE g[s] = Then(g, s)
  <2>1. CASE s = {}
    BY <1>15, <2>1
  <2>2. CASE s # {}
    <3>1. Max(s) \in 1..n /\ s \ {Max(s)} \in SUBSET (1..n)
      BY <1>0, <2>2, GreatestIn
    <3>. QED
      BY <1>16, <1>15, <1>3, <2>2, <3>1
  <2>. QED
    BY <2>1, <2>2
<1>. DEFINE iter == CHOOSE h : Solves(h)
<1>5. Solves(g)
  BY <1>4
<1>6. Solves(iter)
  <2>. HIDE DEF Solves
  <2>. QED
    BY <1>5
<1>7. FoldLeft(Applied, accounts, seq) = iter[1..n]
  BY <1>1 DEF FoldLeft, MapThenFoldSet
<1>. HIDE DEF iter
<1>8. iter[{}] = accounts
  BY <1>6
<1>9. ASSUME NEW k \in 1..n PROVE iter[1..k] = Applied(iter[1..k - 1], seq[k])
  <2>1. k \in 1..k /\ 1..k \in SUBSET (1..n) /\ 1..k # {} /\ (1..k) \ {k} = 1..k - 1
    BY <1>0, UpTo
  <2>2. Max(1..k) = k
    BY <2>1, Greatest
  <2>. QED
    BY <1>6, <2>1, <2>2
<1>. DEFINE f == [k \in 0..n |-> iter[1..k]]
            Typed == {k \in 0..n : iter[1..k] \in Chains}
<1>10. iter[1..0] = accounts
  BY <1>8
<1>11. \A k \in 1..n : k - 1 \in Typed => k \in Typed
  BY <1>1, <1>9, AppliedType
<1>12. 0..n \subseteq Typed
  <2>1. 0 \in Typed
    BY <1>0, <1>10
  <2>. HIDE DEF Typed
  <2>. QED
    BY <1>0, <1>11, <2>1, Climb
<1>13. f \in [0..n -> Chains]
  BY <1>12
<1>14. f[0] = accounts /\ f[n] = iter[1..n] /\ \A k \in 1..n : f[k] = Applied(f[k - 1], seq[k])
  BY <1>0, <1>9, <1>10
<1>. HIDE DEF f
<1>. QED
  BY <1>7, <1>13, <1>14 DEF n, States

\* What an instruction takes is a number, and no more than its accounts cost.
LEMMA ChargeType ==
  ASSUME NEW accounts \in Chains, NEW i \in Instructions
  PROVE  /\ Charge(i, accounts) \in Nat
         /\ i.op \in {"create", "ensure"} => Charge(i, accounts) <= RentOf(i.state)
         /\ i.op = "describe" => Charge(i, accounts) = MetadataFee
         /\ i.op = "seal" => Charge(i, accounts) = MetadataFee + Rent
         /\ i.op \notin {"create", "ensure", "describe", "seal"} => Charge(i, accounts) = 0
BY ToolAssumption DEF Charge, RentOf, MetadataFee, ToolAssumption

\* What a sequence of instructions takes from the payer, on top of the fees.
LEMMA CostFold ==
  ASSUME NEW accounts \in Chains, NEW fees \in Nat, NEW seq \in Seq(Instructions)
  PROVE  \E f \in [0..Len(seq) -> Nat] : Totals(f, fees, accounts, seq)
<1>. DEFINE n == Len(seq)
            Then(g, s) == IF s = {} THEN fees ELSE g[s \ {Max(s)}] + Charge(seq[Max(s)], accounts)
            Solves(g) == g = [s \in SUBSET (1..n) |-> Then(g, s)]
            next == [p \in (1..n) \X Nat |-> p[2] + Charge(seq[p[1]], accounts)]
<1>0. n \in Nat
  OBVIOUS
<1>1. DOMAIN seq = 1..n /\ \A k \in 1..n : seq[k] \in Instructions
  OBVIOUS
<1>. HIDE DEF n
<1>2. next \in [(1..n) \X Nat -> Nat]
  BY <1>1, ChargeType
<1>16. \A k \in 1..n, v \in Nat : next[k, v] = v + Charge(seq[k], accounts)
  OBVIOUS
<1>. HIDE DEF next
<1>3. PICK g \in [SUBSET (1..n) -> Nat] : Folds(g, n, fees, next)
  BY <1>0, <1>2, Folding
<1>15. \A s \in SUBSET (1..n) : g[s] = IF s = {} THEN fees ELSE next[Max(s), g[s \ {Max(s)}]]
  BY <1>3 DEF Folds
<1>4. ASSUME NEW s \in SUBSET (1..n) PROVE g[s] = Then(g, s)
  <2>1. CASE s = {}
    BY <1>15, <2>1
  <2>2. CASE s # {}
    <3>1. Max(s) \in 1..n /\ s \ {Max(s)} \in SUBSET (1..n)
      BY <1>0, <2>2, GreatestIn
    <3>. QED
      BY <1>16, <1>15, <1>3, <2>2, <3>1
  <2>. QED
    BY <2>1, <2>2
<1>. DEFINE iter == CHOOSE h : Solves(h)
<1>5. Solves(g)
  BY <1>4
<1>6. Solves(iter)
  <2>. HIDE DEF Solves
  <2>. QED
    BY <1>5
<1>7. FoldLeft(LAMBDA sum, i : sum + Charge(i, accounts), fees, seq) = iter[1..n]
  BY <1>1 DEF FoldLeft, MapThenFoldSet
<1>. HIDE DEF iter
<1>8. iter[{}] = fees
  BY <1>6
<1>9. ASSUME NEW k \in 1..n PROVE iter[1..k] = iter[1..k - 1] + Charge(seq[k], accounts)
  <2>1. k \in 1..k /\ 1..k \in SUBSET (1..n) /\ 1..k # {} /\ (1..k) \ {k} = 1..k - 1
    BY <1>0, UpTo
  <2>2. Max(1..k) = k
    BY <2>1, Greatest
  <2>. QED
    BY <1>6, <2>1, <2>2
<1>. DEFINE f == [k \in 0..n |-> iter[1..k]]
            Typed == {k \in 0..n : iter[1..k] \in Nat}
<1>10. iter[1..0] = fees
  BY <1>8
<1>11. \A k \in 1..n : k - 1 \in Typed => k \in Typed
  BY <1>1, <1>9, ChargeType
<1>12. 0..n \subseteq Typed
  <2>1. 0 \in Typed
    BY <1>0, <1>10
  <2>. HIDE DEF Typed
  <2>. QED
    BY <1>0, <1>11, <2>1, Climb
<1>13. f \in [0..n -> Nat]
  BY <1>12
<1>14. f[0] = fees /\ f[n] = iter[1..n] /\ \A k \in 1..n : f[k] = f[k - 1] + Charge(seq[k], accounts)
  BY <1>0, <1>9, <1>10
<1>. HIDE DEF f
<1>. QED
  BY <1>7, <1>13, <1>14 DEF n, Totals

\* The first instruction sees the accounts as they are.
LEMMA BeforeFirst ==
  ASSUME NEW accounts \in Chains, NEW tx, tx.instructions \in Seq(Instructions)
  PROVE  Before(tx, 1, accounts) = accounts
<1>1. <<>> \in Seq(Instructions) /\ Len(<<>>) = 0
  OBVIOUS
<1>2. PICK f \in [0..0 -> Chains] : States(f, accounts, <<>>)
  BY <1>1, AfterFold
<1>3. FoldLeft(Applied, accounts, <<>>) = accounts
  BY <1>1, <1>2 DEF States
<1>4. SubSeq(tx.instructions, 1, 1 - 1) = <<>>
  OBVIOUS
<1>. QED
  BY <1>3, <1>4 DEF Before

\* Transactions of one instruction, and the longer ones.
LEMMA After1 ==
  ASSUME NEW accounts \in Chains, NEW i \in Instructions
  PROVE  FoldLeft(Applied, accounts, <<i>>) = Applied(accounts, i)
<1>1. <<i>> \in Seq(Instructions) /\ Len(<<i>>) = 1 /\ <<i>>[1] = i
  OBVIOUS
<1>2. PICK f \in [0..1 -> Chains] : States(f, accounts, <<i>>)
  BY <1>1, AfterFold
<1>. QED
  BY <1>1, <1>2 DEF States

LEMMA After2 ==
  ASSUME NEW accounts \in Chains, NEW i \in Instructions, NEW j \in Instructions
  PROVE  FoldLeft(Applied, accounts, <<i, j>>) = Applied(Applied(accounts, i), j)
<1>. DEFINE seq == <<i, j>>
<1>1. seq \in Seq(Instructions) /\ Len(seq) = 2 /\ seq[1] = i /\ seq[2] = j
  OBVIOUS
<1>. HIDE DEF seq
<1>2. PICK f \in [0..2 -> Chains] : States(f, accounts, seq)
  BY <1>1, AfterFold
<1>3. f[1] = Applied(accounts, i) /\ f[2] = Applied(f[1], j)
  BY <1>1, <1>2 DEF States
<1>4. FoldLeft(Applied, accounts, seq) = f[2]
  BY <1>1, <1>2 DEF States
<1>. QED
  BY <1>3, <1>4 DEF seq

LEMMA Cost1 ==
  ASSUME NEW accounts \in Chains, NEW fees \in Nat, NEW i \in Instructions
  PROVE  FoldLeft(LAMBDA sum, j : sum + Charge(j, accounts), fees, <<i>>)
           = fees + Charge(i, accounts)
<1>1. <<i>> \in Seq(Instructions) /\ Len(<<i>>) = 1 /\ <<i>>[1] = i
  OBVIOUS
<1>2. PICK f \in [0..1 -> Nat] : Totals(f, fees, accounts, <<i>>)
  BY <1>1, CostFold
<1>3. FoldLeft(LAMBDA sum, j : sum + Charge(j, accounts), fees, <<i>>) = f[1]
  BY <1>1, <1>2 DEF Totals
<1>4. f[0] = fees /\ \A k \in 1..1 : f[k] = f[k - 1] + Charge(<<i>>[k], accounts)
  BY <1>1, <1>2 DEF Totals
<1>5. f[1] = f[1 - 1] + Charge(<<i>>[1], accounts) /\ 1 - 1 = 0
  BY <1>4
<1>. QED
  BY <1>1, <1>3, <1>4, <1>5

LEMMA Cost2 ==
  ASSUME NEW accounts \in Chains, NEW fees \in Nat, NEW i \in Instructions, NEW j \in Instructions
  PROVE  FoldLeft(LAMBDA sum, k : sum + Charge(k, accounts), fees, <<i, j>>)
           = fees + Charge(i, accounts) + Charge(j, accounts)
<1>. DEFINE seq == <<i, j>>
<1>1. seq \in Seq(Instructions) /\ Len(seq) = 2 /\ seq[1] = i /\ seq[2] = j
  OBVIOUS
<1>. HIDE DEF seq
<1>2. PICK f \in [0..2 -> Nat] : Totals(f, fees, accounts, seq)
  BY <1>1, CostFold
<1>3. FoldLeft(LAMBDA sum, k : sum + Charge(k, accounts), fees, seq) = f[2]
  BY <1>1, <1>2 DEF Totals
<1>4. f[0] = fees /\ \A k \in 1..2 : f[k] = f[k - 1] + Charge(seq[k], accounts)
  BY <1>1, <1>2 DEF Totals
<1>5. f[1] = f[0] + Charge(i, accounts) /\ f[2] = f[1] + Charge(j, accounts)
  BY <1>1, <1>4
<1>. QED
  BY <1>3, <1>4, <1>5 DEF seq

\* The instructions of the tools.
LEMMA InstructionTypes ==
  /\ \A a \in Accounts, state \in AccountStates :
       Create(a, state) \in Instructions /\ Ensure(a, state) \in Instructions
  /\ \A a, b \in Accounts, n \in Nat :
       MintTo(a, b, n) \in Instructions /\ Transfer(a, b, n) \in Instructions
  /\ NextType \in Instructions /\ Describe \in Instructions /\ Extend \in Instructions
  /\ Seal \in Instructions /\ Call \in Instructions
  /\ \A n \in Nat : Record(n) \in Instructions
<1>1. Absent \in AccountStates
  BY AccountType DEF Absent, Kinds, Keys
<1>2. /\ Account("metadata", "payer", 0) \in AccountStates
      /\ Account("mint+", "payer", 0) \in AccountStates
      /\ Account("edition", "payer", 0) \in AccountStates
  BY AccountType DEF Kinds, Keys
<1>3. /\ Mint \in Accounts /\ Token \in Accounts /\ Collection \in Accounts
      /\ TokenType \in Accounts /\ Metadata \in Accounts /\ Edition \in Accounts
      /\ Storage \in Accounts /\ Program \in Accounts
  BY Roles
<1>4. \A a \in Accounts, state \in AccountStates :
        Create(a, state) \in Instructions /\ Ensure(a, state) \in Instructions
  BY DEF Create, Ensure, Instructions, Effects
<1>5. \A a, b \in Accounts, n \in Nat :
        MintTo(a, b, n) \in Instructions /\ Transfer(a, b, n) \in Instructions
  BY <1>1 DEF MintTo, Transfer, Instructions, Effects
<1>6. NextType \in Instructions /\ Call \in Instructions
  BY <1>1, <1>3 DEF NextType, Call, Instructions, Effects
<1>7. Describe \in Instructions /\ Extend \in Instructions /\ Seal \in Instructions
  BY <1>2, <1>3 DEF Describe, Extend, Seal, Instructions, Effects
<1>8. \A n \in Nat : Record(n) \in Instructions
  BY <1>1, <1>3 DEF Record, Instructions, Effects
<1>. QED
  BY <1>4, <1>5, <1>6, <1>7, <1>8

\* The accounts that count what is minted or called.
Counters == {Mint, TokenType, Program}

\* The accounts whose amount an instruction may change.
Moves(i) ==
  CASE i.op \in {"mint", "transfer"} -> {i.on, i.to}
    [] i.op \in {"describe", "extend", "seal"} -> {Metadata, Edition}
    [] i.op = "record" -> {Storage}
    [] OTHER -> {i.on}

\* An instruction leaves the amounts of all other accounts.
LEMMA Unmoved ==
  ASSUME NEW accounts \in Chains, NEW i \in Instructions, NEW a \in Accounts, a \notin Moves(i)
  PROVE  Applied(accounts, i)[a].amount = accounts[a].amount
<1>1. /\ i.on \in Accounts /\ i.to \in Accounts /\ i.state \in AccountStates
      /\ i.n \in Int /\ -i.n \in Int
      /\ Mint \in Accounts /\ Metadata \in Accounts /\ Edition \in Accounts /\ Storage \in Accounts
  BY Roles DEF Instructions
<1>2. \A b \in Accounts : accounts[b] \in AccountStates
  BY DEF Chains
<1>3. Describe.state \in AccountStates
  BY AccountType DEF Describe, Kinds, Keys
<1>4. CASE i.op \in {"create", "ensure"}
  <2>1. Applied(accounts, i) = Put(accounts, i.on, i.state) /\ a # i.on
    BY <1>4 DEF Applied, Put, Moves
  <2>2. Put(accounts, i.on, i.state)[a] = accounts[a]
    BY <1>1, <2>1, PutElsewhere
  <2>. QED
    BY <2>1, <2>2
<1>5. CASE i.op = "mint"
  <2>1. Applied(accounts, i) = Credited(Credited(accounts, i.on, i.n), i.to, i.n)
        /\ a # i.on /\ a # i.to
    BY <1>5 DEF Applied, Moves
  <2>2. Credited(accounts, i.on, i.n) \in Chains
    BY <1>1, CreditedType
  <2>3. Credited(accounts, i.on, i.n)[a] = accounts[a]
    BY <1>1, <2>1, CreditedElsewhere
  <2>4. Applied(accounts, i)[a] = Credited(accounts, i.on, i.n)[a]
    BY <1>1, <2>1, <2>2, CreditedElsewhere
  <2>. QED
    BY <2>3, <2>4
<1>6. CASE i.op = "transfer"
  <2>1. Applied(accounts, i) = Credited(Credited(accounts, i.on, -i.n), i.to, i.n)
        /\ a # i.on /\ a # i.to
    BY <1>6 DEF Applied, Moves
  <2>2. Credited(accounts, i.on, -i.n) \in Chains
    BY <1>1, CreditedType
  <2>3. Credited(accounts, i.on, -i.n)[a] = accounts[a]
    BY <1>1, <2>1, CreditedElsewhere
  <2>4. Applied(accounts, i)[a] = Credited(accounts, i.on, -i.n)[a]
    BY <1>1, <2>1, <2>2, CreditedElsewhere
  <2>. QED
    BY <2>3, <2>4
<1>7. CASE i.op = "describe"
  <2>1. Applied(accounts, i) = Put(accounts, Metadata, i.state) /\ a # Metadata
    BY <1>7 DEF Applied, Put, Moves
  <2>2. Put(accounts, Metadata, i.state)[a] = accounts[a]
    BY <1>1, <2>1, PutElsewhere
  <2>. QED
    BY <2>1, <2>2
<1>8. CASE i.op = "extend"
  <2>. DEFINE state == [accounts[Mint] EXCEPT !.kind = i.state.kind]
  <2>1. state \in AccountStates /\ state.amount = accounts[Mint].amount
    BY <1>1, <1>2 DEF AccountStates
  <2>2. Applied(accounts, i) = Put(accounts, Mint, state)
    BY <1>8 DEF Applied, Put
  <2>. HIDE DEF state
  <2>3. CASE a = Mint
    <3>1. Put(accounts, Mint, state)[Mint] = state
      BY <1>1, <2>1, PutType
    <3>. QED
      BY <2>1, <2>2, <2>3, <3>1
  <2>4. CASE a # Mint
    <3>1. Put(accounts, Mint, state)[a] = accounts[a]
      BY <1>1, <2>4, PutElsewhere
    <3>. QED
      BY <2>2, <3>1
  <2>. QED
    BY <2>3, <2>4
<1>9. CASE i.op = "seal"
  <2>. DEFINE state == [accounts[Mint] EXCEPT !.authority = "edition"]
  <2>1. state \in AccountStates /\ state.amount = accounts[Mint].amount
    BY <1>1, <1>2 DEF AccountStates, Keys
  <2>2. /\ Applied(accounts, i)
             = Put(Put(Put(accounts, Mint, state), Edition, i.state), Metadata, Describe.state)
        /\ a # Metadata /\ a # Edition
    BY <1>9 DEF Applied, Put, Moves
  <2>. HIDE DEF state
  <2>. DEFINE first == Put(accounts, Mint, state)
              second == Put(first, Edition, i.state)
  <2>3. first \in Chains /\ first[Mint] = state
    BY <1>1, <2>1, PutType
  <2>4. a # Mint => first[a] = accounts[a]
    BY <1>1, PutElsewhere
  <2>5. first[a].amount = accounts[a].amount
    BY <2>1, <2>3, <2>4
  <2>6. Applied(accounts, i) = Put(second, Metadata, Describe.state)
    BY <2>2
  <2>. HIDE DEF first
  <2>7. second \in Chains
    BY <1>1, <2>3, PutType
  <2>8. second[a] = first[a]
    BY <1>1, <2>2, <2>3, PutElsewhere
  <2>. HIDE DEF second
  <2>9. Put(second, Metadata, Describe.state)[a] = second[a]
    BY <1>1, <2>2, <2>7, PutElsewhere
  <2>. QED
    BY <2>5, <2>6, <2>8, <2>9
<1>10. CASE i.op = "record"
  <2>1. Applied(accounts, i) = Put(accounts, Storage, Amounting(accounts[Storage], i.n)) /\ a # Storage
    BY <1>10 DEF Applied, Put, Amounting, Moves
  <2>2. Put(accounts, Storage, Amounting(accounts[Storage], i.n))[a] = accounts[a]
    BY <1>1, <2>1, PutElsewhere
  <2>. QED
    BY <2>1, <2>2
<1>11. CASE i.op \notin {"create", "ensure", "mint", "transfer", "describe", "extend", "seal", "record"}
  <2>1. Applied(accounts, i) = Credited(accounts, i.on, i.n) /\ a # i.on
    BY <1>11 DEF Applied, Moves
  <2>2. Credited(accounts, i.on, i.n)[a] = accounts[a]
    BY <1>1, <2>1, CreditedElsewhere
  <2>. QED
    BY <2>1, <2>2
<1>. QED
  BY <1>4, <1>5, <1>6, <1>7, <1>8, <1>9, <1>10, <1>11

\* An account starts with nothing.
LEMMA CreatedEmpty ==
  ASSUME NEW accounts \in Chains, NEW i \in Instructions, NEW a \in Accounts,
         i.op \in {"create", "ensure"}, i.state.amount = 0, CanApply(i, accounts)
  PROVE  Applied(accounts, i)[a].amount = accounts[a].amount
<1>1. accounts[i.on].amount = 0
  BY DEF CanApply, Absent, Account
<1>2. Applied(accounts, i) = Put(accounts, i.on, i.state)
  BY DEF Applied, Put
<1>3. i.on \in Accounts /\ i.state \in AccountStates
  BY DEF Instructions
<1>. QED
  BY <1>1, <1>2, <1>3, PutType, PutElsewhere

\* Minting raises the supply by what it mints.
LEMMA MintsAmount ==
  ASSUME NEW accounts \in Chains, NEW a \in Accounts, NEW b \in Accounts, a # b, NEW n \in Nat
  PROVE  Applied(accounts, MintTo(a, b, n))[a].amount = accounts[a].amount + n
<1>1. Applied(accounts, MintTo(a, b, n)) = Credited(Credited(accounts, a, n), b, n)
  BY DEF Applied, MintTo
<1>. QED
  BY <1>1, CreditedType, CreditedElsewhere

-----------------------------------------------------------------------------
(* The steps of the plans.                                                 *)

\* The stages that mint, and that call a program.
MintStage(c) == <<IF c.tool = "token2022-init" /\ c.atomic THEN "atomic" ELSE "mint_to", 0>>
CallStage == <<"invoke", 0>>

Minted(c, stage) == IF stage = MintStage(c) THEN Wanted(c) ELSE 0
Called(stage) == IF stage = CallStage THEN 1 ELSE 0

\* What the associated token account costs on the cluster of the command.
AssociatedCost(c) == IF c.immutable THEN AssociatedRent ELSE Rent

\* The most a stage may cost, its fees with it.
Price(c, stage) ==
  CASE stage[1] \in {"create_mint", "create_collection", "create_token_type", "create_balance",
                     "create_recipient", "create_storage"} -> 2 + Rent
    [] stage[1] = "create_account" ->
         IF c.tool \in {"gospl-init", "hellogo-init"} THEN 2 + Rent ELSE 1 + AssociatedCost(c)
    [] stage[1] = "create_metadata" -> 1 + MetadataFee
    [] stage[1] = "create_nft" -> 1 + MetadataFee + Rent
    [] stage[1] = "atomic" -> 2 + Rent + AssociatedCost(c) + (IF c.metadata THEN MetadataFee ELSE 0)
    [] stage[1] = "write" -> 2
    [] OTHER -> 1

\* What a transaction costs, mints and calls is what its stage says.
Lawful(c, s) ==
  s.op = "send" =>
    \A accounts \in Chains :
      /\ Cost(s, accounts) \in Nat /\ Cost(s, accounts) <= Price(c, s.stage)
      /\ Succeeds(s, accounts) =>
           /\ After(s, accounts) \in Chains
           /\ After(s, accounts)[Supply(c)].amount
                = accounts[Supply(c)].amount + Minted(c, s.stage)
           /\ After(s, accounts)[Program].amount = accounts[Program].amount + Called(s.stage)

\* What an instruction mints and calls is what its stage says.
Keeps(c, i, stage) ==
  \A accounts \in Chains : CanApply(i, accounts) =>
    /\ Applied(accounts, i)[Supply(c)].amount = accounts[Supply(c)].amount + Minted(c, stage)
    /\ Applied(accounts, i)[Program].amount = accounts[Program].amount + Called(stage)

LEMMA SupplyIn == \A c : Supply(c) \in Accounts /\ Supply(c) \in Counters
BY Roles DEF Supply, Counters

LEMMA WantedNat == \A c \in CommandLines : Wanted(c) \in Nat
BY ToolRunAssumption DEF ToolRunAssumption, Wanted, Erc1155Amount, CommandLine

LEMMA SendFields ==
  \A stage, k, keys, instructions :
    LET s == SendNth(stage, k, keys, instructions)
    IN s.op = "send" /\ s.stage = <<stage, k>> /\ s.signatures = 1 + keys
       /\ s.instructions = instructions
BY DEF SendNth

\* A transaction of one instruction.
LEMMA OneLawful ==
  ASSUME NEW c, NEW i \in Instructions, NEW stage, NEW k, NEW keys \in Nat,
         \A accounts \in Chains : 1 + keys + Charge(i, accounts) <= Price(c, <<stage, k>>),
         Keeps(c, i, <<stage, k>>)
  PROVE  Lawful(c, SendNth(stage, k, keys, <<i>>))
<1>. DEFINE s == SendNth(stage, k, keys, <<i>>)
<1>1. s.stage = <<stage, k>> /\ s.signatures = 1 + keys /\ s.instructions = <<i>>
  BY SendFields
<1>. HIDE DEF s
<1>. SUFFICES ASSUME NEW accounts \in Chains
              PROVE  /\ Cost(s, accounts) \in Nat /\ Cost(s, accounts) <= Price(c, s.stage)
                     /\ Succeeds(s, accounts) =>
                          /\ After(s, accounts) \in Chains
                          /\ After(s, accounts)[Supply(c)].amount
                               = accounts[Supply(c)].amount + Minted(c, s.stage)
                          /\ After(s, accounts)[Program].amount
                               = accounts[Program].amount + Called(s.stage)
  BY DEF Lawful, s
<1>2. Cost(s, accounts) = 1 + keys + Charge(i, accounts)
  <2>1. 1 + keys \in Nat
    OBVIOUS
  <2>2. FoldLeft(LAMBDA sum, j : sum + Charge(j, accounts), 1 + keys, <<i>>)
          = 1 + keys + Charge(i, accounts)
    BY <2>1, Cost1
  <2>3. Cost(s, accounts) = FoldLeft(LAMBDA sum, j : sum + Charge(j, accounts), 1 + keys, <<i>>)
    BY <1>1 DEF Cost
  <2>. QED
    BY <2>2, <2>3
<1>3. Cost(s, accounts) \in Nat /\ Cost(s, accounts) <= Price(c, s.stage)
  BY <1>1, <1>2, ChargeType
<1>4. After(s, accounts) = Applied(accounts, i)
  BY <1>1, After1 DEF After
<1>5. ASSUME Succeeds(s, accounts) PROVE CanApply(i, accounts)
  <2>1. 1 \in DOMAIN s.instructions /\ s.instructions[1] = i
    BY <1>1
  <2>2. Before(s, 1, accounts) = accounts
    BY <1>1, BeforeFirst
  <2>. QED
    BY <1>5, <2>1, <2>2 DEF Succeeds
<1>. QED
  BY <1>1, <1>3, <1>4, <1>5, AppliedType DEF Keeps

\* A stage of another name mints and calls nothing.
LEMMA QuietStage ==
  ASSUME NEW c, NEW stage, NEW k, stage \notin {"atomic", "mint_to", "invoke"}
  PROVE  Minted(c, <<stage, k>>) = 0 /\ Called(<<stage, k>>) = 0
BY DEF Minted, Called, MintStage, CallStage

\* Neither does an instruction that creates an account or moves no counter.
LEMMA QuietInstruction ==
  ASSUME NEW c, NEW i \in Instructions, NEW stage, NEW k,
         stage \notin {"atomic", "mint_to", "invoke"},
         \/ i.op \in {"create", "ensure"} /\ i.state.amount = 0
         \/ Counters \cap Moves(i) = {}
  PROVE  Keeps(c, i, <<stage, k>>)
<1>. SUFFICES ASSUME NEW accounts \in Chains, CanApply(i, accounts), NEW a \in Counters
              PROVE  Applied(accounts, i)[a].amount = accounts[a].amount + 0
  <2>1. Minted(c, <<stage, k>>) = 0 /\ Called(<<stage, k>>) = 0
    BY QuietStage
  <2>2. Program \in Counters /\ Supply(c) \in Counters
    BY SupplyIn DEF Counters
  <2>. QED
    BY <2>1, <2>2 DEF Keeps
<1>1. a \in Accounts /\ accounts[a].amount \in Int
  BY Roles DEF Counters, Chains, AccountStates
<1>2. CASE i.op \in {"create", "ensure"} /\ i.state.amount = 0
  BY <1>1, <1>2, CreatedEmpty
<1>3. CASE Counters \cap Moves(i) = {}
  <2>1. a \notin Moves(i)
    BY <1>3
  <2>. QED
    BY <1>1, <2>1, Unmoved
<1>. QED
  BY <1>2, <1>3

LEMMA CreateLawful ==
  ASSUME NEW c, NEW stage, stage \notin {"atomic", "mint_to", "invoke"}, NEW k, NEW keys \in Nat,
         NEW a \in Accounts, NEW state \in AccountStates, state.amount = 0,
         1 + keys + RentOf(state) <= Price(c, <<stage, k>>), Price(c, <<stage, k>>) \in Nat
  PROVE  /\ Lawful(c, SendNth(stage, k, keys, <<Create(a, state)>>))
         /\ Lawful(c, SendNth(stage, k, keys, <<Ensure(a, state)>>))
<1>. SUFFICES ASSUME NEW i \in {Create(a, state), Ensure(a, state)}
              PROVE  Lawful(c, SendNth(stage, k, keys, <<i>>))
  OBVIOUS
<1>1. i \in Instructions /\ i.op \in {"create", "ensure"} /\ i.state = state
  <2>1. Create(a, state) \in Instructions /\ Ensure(a, state) \in Instructions
    BY InstructionTypes
  <2>2. /\ Create(a, state).op = "create" /\ Create(a, state).state = state
        /\ Ensure(a, state).op = "ensure" /\ Ensure(a, state).state = state
    BY DEF Create, Ensure
  <2>. QED
    BY <2>1, <2>2
<1>2. Keeps(c, i, <<stage, k>>)
  BY <1>1, QuietInstruction
<1>3. ASSUME NEW accounts \in Chains PROVE 1 + keys + Charge(i, accounts) <= Price(c, <<stage, k>>)
  <2>1. Charge(i, accounts) \in Nat /\ Charge(i, accounts) <= RentOf(state)
    BY <1>1, ChargeType
  <2>. QED
    BY <2>1, ToolAssumption DEF ToolAssumption, RentOf
<1>. QED
  BY <1>1, <1>2, <1>3, OneLawful

\* An instruction that is charged a fixed price.
LEMMA PricedLawful ==
  ASSUME NEW c, NEW stage, NEW k, NEW keys \in Nat, NEW i \in Instructions,
         NEW n \in Nat, \A accounts \in Chains : Charge(i, accounts) = n,
         1 + keys + n <= Price(c, <<stage, k>>), Keeps(c, i, <<stage, k>>)
  PROVE  Lawful(c, SendNth(stage, k, keys, <<i>>))
BY OneLawful

LEMMA OthersLawful ==
  ASSUME NEW c
  PROVE  /\ Lawful(c, Send("create_metadata", 0, <<Describe>>))
         /\ Lawful(c, Send("initialize_metadata", 0, <<Extend>>))
         /\ Lawful(c, Send("create_nft", 0, <<Seal>>))
         /\ \A n \in Nat : Lawful(c, Send("write", 1, <<Record(n)>>))
         /\ \A j \in 1..Recipients, n \in Nat :
              Lawful(c, SendNth("transfer", j, 0, <<Transfer(Token, Recipient(j), n)>>))
<1>. USE DEF Send
<1>0. Rent \in Nat /\ AssociatedRent \in Nat /\ MetadataFee \in Nat
  BY ToolAssumption DEF ToolAssumption, MetadataFee
<1>1. Lawful(c, Send("create_metadata", 0, <<Describe>>))
  <2>1. Describe \in Instructions /\ Describe.op = "describe" /\ Counters \cap Moves(Describe) = {}
    BY InstructionTypes DEF Describe, Moves, Counters, Mint, TokenType, Program, Metadata, Edition
  <2>2. Keeps(c, Describe, <<"create_metadata", 0>>)
    BY <2>1, QuietInstruction
  <2>3. Price(c, <<"create_metadata", 0>>) = 1 + MetadataFee
    BY DEF Price
  <2>4. \A accounts \in Chains : Charge(Describe, accounts) = MetadataFee
    BY <2>1, ChargeType
  <2>. QED
    BY <1>0, <2>1, <2>2, <2>3, <2>4, PricedLawful
<1>2. Lawful(c, Send("initialize_metadata", 0, <<Extend>>))
  <2>1. Extend \in Instructions /\ Extend.op = "extend" /\ Counters \cap Moves(Extend) = {}
    BY InstructionTypes DEF Extend, Moves, Counters, Mint, TokenType, Program, Metadata, Edition
  <2>2. Keeps(c, Extend, <<"initialize_metadata", 0>>)
    BY <2>1, QuietInstruction
  <2>3. Price(c, <<"initialize_metadata", 0>>) = 1
    BY DEF Price
  <2>4. \A accounts \in Chains : Charge(Extend, accounts) = 0
    BY <2>1, ChargeType
  <2>. QED
    BY <2>1, <2>2, <2>3, <2>4, PricedLawful
<1>3. Lawful(c, Send("create_nft", 0, <<Seal>>))
  <2>1. Seal \in Instructions /\ Seal.op = "seal" /\ Counters \cap Moves(Seal) = {}
    BY InstructionTypes DEF Seal, Moves, Counters, Mint, TokenType, Program, Metadata, Edition
  <2>2. Keeps(c, Seal, <<"create_nft", 0>>)
    BY <2>1, QuietInstruction
  <2>3. Price(c, <<"create_nft", 0>>) = 1 + MetadataFee + Rent
    BY DEF Price
  <2>4. \A accounts \in Chains : Charge(Seal, accounts) = MetadataFee + Rent
    BY <2>1, ChargeType
  <2>. QED
    BY <1>0, <2>1, <2>2, <2>3, <2>4, PricedLawful
<1>4. ASSUME NEW n \in Nat PROVE Lawful(c, Send("write", 1, <<Record(n)>>))
  <2>1. Record(n) \in Instructions /\ Record(n).op = "record" /\ Counters \cap Moves(Record(n)) = {}
    BY InstructionTypes DEF Record, Moves, Counters, Mint, TokenType, Program, Storage
  <2>2. Keeps(c, Record(n), <<"write", 0>>)
    BY <2>1, QuietInstruction
  <2>3. Price(c, <<"write", 0>>) = 2
    BY DEF Price
  <2>4. \A accounts \in Chains : Charge(Record(n), accounts) = 0
    BY <2>1, ChargeType
  <2>. QED
    BY <2>1, <2>2, <2>3, <2>4, PricedLawful
<1>5. ASSUME NEW j \in 1..Recipients, NEW n \in Nat
      PROVE  Lawful(c, SendNth("transfer", j, 0, <<Transfer(Token, Recipient(j), n)>>))
  <2>. DEFINE i == Transfer(Token, Recipient(j), n)
  <2>1. i \in Instructions
    BY Roles, InstructionTypes
  <2>2. i.op = "transfer" /\ Counters \cap Moves(i) = {}
    BY DEF Transfer, Moves, Counters, Mint, TokenType, Program, Token, Recipient
  <2>. HIDE DEF i
  <2>3. Keeps(c, i, <<"transfer", j>>)
    BY <2>1, <2>2, QuietInstruction
  <2>4. Price(c, <<"transfer", j>>) = 1
    BY DEF Price
  <2>5. \A accounts \in Chains : Charge(i, accounts) = 0
    BY <2>1, <2>2, ChargeType
  <2>6. Lawful(c, SendNth("transfer", j, 0, <<i>>))
    BY <2>1, <2>3, <2>4, <2>5, PricedLawful
  <2>. QED
    BY <2>6 DEF i
<1>. QED
  BY <1>1, <1>2, <1>3, <1>4, <1>5

LEMMA CallLawful == \A c : Lawful(c, Send("invoke", 0, <<Call>>))
<1>. USE DEF Send
<1>. TAKE c
<1>1. Call \in Instructions /\ Call.op = "call" /\ Call.on = Program /\ Call.n = 1
  BY InstructionTypes DEF Call
<1>2. Keeps(c, Call, <<"invoke", 0>>)
  <2>. SUFFICES ASSUME NEW accounts \in Chains
                PROVE  /\ Applied(accounts, Call)[Supply(c)].amount = accounts[Supply(c)].amount + 0
                       /\ Applied(accounts, Call)[Program].amount = accounts[Program].amount + 1
    <3>1. Minted(c, <<"invoke", 0>>) = 0 /\ Called(<<"invoke", 0>>) = 1
      BY DEF Minted, Called, MintStage, CallStage
    <3>. QED
      BY <3>1 DEF Keeps
  <2>1. Supply(c) \in Accounts /\ Supply(c) \notin Moves(Call) /\ Program \in Accounts
    BY <1>1, Roles DEF Supply, Moves, Mint, TokenType, Program
  <2>2. accounts[Supply(c)].amount \in Int
    BY <2>1 DEF Chains, AccountStates
  <2>3. Applied(accounts, Call) = Credited(accounts, Program, 1)
    BY <1>1 DEF Applied
  <2>4. Applied(accounts, Call)[Supply(c)].amount = accounts[Supply(c)].amount
    BY <1>1, <2>1, Unmoved
  <2>5. Credited(accounts, Program, 1)[Program].amount = accounts[Program].amount + 1
    BY <2>1, CreditedType
  <2>. QED
    BY <2>2, <2>3, <2>4, <2>5
<1>3. Price(c, <<"invoke", 0>>) = 1
  BY DEF Price
<1>4. \A accounts \in Chains : Charge(Call, accounts) = 0
  BY <1>1, ChargeType
<1>. QED
  BY <1>1, <1>2, <1>3, <1>4, PricedLawful

\* The stage that mints, when it is a transaction of its own.
LEMMA MintLawful ==
  ASSUME NEW c \in CommandLines, ~(c.tool = "token2022-init" /\ c.atomic)
  PROVE  Lawful(c, Send("mint_to", 0, <<MintTo(Supply(c), Token, Wanted(c))>>))
<1>. USE DEF Send
<1>. DEFINE i == MintTo(Supply(c), Token, Wanted(c))
<1>1. /\ Wanted(c) \in Nat /\ Supply(c) \in Accounts /\ Token \in Accounts
      /\ Program \in Accounts /\ Supply(c) # Token /\ Program \notin {Supply(c), Token}
  BY WantedNat, Roles DEF Supply, Mint, TokenType, Token, Program
<1>2. i \in Instructions /\ i.op = "mint" /\ i.on = Supply(c) /\ i.to = Token
  <2>1. i \in Instructions
    BY <1>1, InstructionTypes
  <2>. QED
    BY <2>1 DEF MintTo
<1>3. Keeps(c, i, <<"mint_to", 0>>)
  <2>. SUFFICES ASSUME NEW accounts \in Chains
                PROVE  /\ Applied(accounts, i)[Supply(c)].amount
                            = accounts[Supply(c)].amount + Wanted(c)
                       /\ Applied(accounts, i)[Program].amount = accounts[Program].amount + 0
    <3>1. Minted(c, <<"mint_to", 0>>) = Wanted(c) /\ Called(<<"mint_to", 0>>) = 0
      BY DEF Minted, Called, MintStage, CallStage
    <3>. HIDE DEF i
    <3>. QED
      BY <3>1 DEF Keeps
  <2>1. Applied(accounts, i)[Supply(c)].amount = accounts[Supply(c)].amount + Wanted(c)
    BY <1>1, MintsAmount
  <2>. HIDE DEF i
  <2>2. Program \notin Moves(i)
    BY <1>1, <1>2 DEF Moves
  <2>3. accounts[Program].amount \in Int
    BY <1>1 DEF Chains, AccountStates
  <2>4. Applied(accounts, i)[Program].amount = accounts[Program].amount
    BY <1>1, <1>2, <2>2, Unmoved
  <2>. QED
    BY <2>1, <2>3, <2>4
<1>. HIDE DEF i
<1>4. Price(c, <<"mint_to", 0>>) = 1
  BY DEF Price
<1>5. \A accounts \in Chains : Charge(i, accounts) = 0
  BY <1>2, ChargeType
<1>6. Lawful(c, SendNth("mint_to", 0, 0, <<i>>))
  BY <1>2, <1>3, <1>4, <1>5, PricedLawful
<1>. QED
  BY <1>6 DEF i

\* A token type is created and counted in one transaction.
LEMMA TypeLawful ==
  ASSUME NEW c, NEW state \in AccountStates, state.amount = 0, state.kind = "type"
  PROVE  Lawful(c, Send("create_token_type", 1, <<Create(TokenType, state), NextType>>))
<1>. DEFINE i == Create(TokenType, state)
            s == Send("create_token_type", 1, <<i, NextType>>)
<1>1. /\ i \in Instructions /\ NextType \in Instructions /\ i.op = "create" /\ i.state = state
      /\ NextType.op = "next" /\ Moves(NextType) = {Collection}
  <2>1. TokenType \in Accounts
    BY Roles
  <2>2. i \in Instructions /\ NextType \in Instructions
    BY <2>1, InstructionTypes
  <2>. QED
    BY <2>2 DEF Create, NextType, Moves
<1>. HIDE DEF i
<1>2. s.stage = <<"create_token_type", 0>> /\ s.signatures = 2 /\ s.instructions = <<i, NextType>>
  BY DEF Send, SendNth
<1>. HIDE DEF s
<1>3. ASSUME NEW accounts \in Chains
      PROVE  Cost(s, accounts) \in Nat /\ Cost(s, accounts) <= Price(c, s.stage)
  <2>1. Cost(s, accounts) = 2 + Charge(i, accounts) + Charge(NextType, accounts)
    <3>1. FoldLeft(LAMBDA sum, k : sum + Charge(k, accounts), 2, <<i, NextType>>)
            = 2 + Charge(i, accounts) + Charge(NextType, accounts)
      <4>1. 2 \in Nat
        OBVIOUS
      <4>. QED
        BY <1>1, <4>1, Cost2
    <3>2. Cost(s, accounts) = FoldLeft(LAMBDA sum, k : sum + Charge(k, accounts), 2, <<i, NextType>>)
      BY <1>2 DEF Cost
    <3>. QED
      BY <3>1, <3>2
  <2>2. /\ Charge(i, accounts) \in Nat /\ Charge(i, accounts) <= RentOf(i.state)
        /\ Charge(NextType, accounts) = 0
    BY <1>1, ChargeType
  <2>3. Price(c, s.stage) = 2 + Rent /\ Rent \in Nat /\ RentOf(i.state) = Rent
    BY <1>1, <1>2, ToolAssumption DEF Price, RentOf, ToolAssumption
  <2>. QED
    BY <2>1, <2>2, <2>3
<1>4. ASSUME NEW accounts \in Chains, Succeeds(s, accounts)
      PROVE  /\ After(s, accounts) \in Chains
             /\ \A a \in Counters : After(s, accounts)[a].amount = accounts[a].amount + 0
  <2>1. After(s, accounts) = Applied(Applied(accounts, i), NextType)
    BY <1>1, <1>2, After2 DEF After
  <2>2. CanApply(i, accounts)
    <3>1. 1 \in DOMAIN s.instructions /\ s.instructions[1] = i /\ s.instructions \in Seq(Instructions)
      BY <1>1, <1>2
    <3>2. Before(s, 1, accounts) = accounts
      BY <3>1, BeforeFirst
    <3>. QED
      BY <1>4, <3>1, <3>2 DEF Succeeds
  <2>3. Applied(accounts, i) \in Chains /\ Applied(Applied(accounts, i), NextType) \in Chains
    BY <1>1, AppliedType
  <2>4. ASSUME NEW a \in Counters PROVE After(s, accounts)[a].amount = accounts[a].amount + 0
    <3>1. a \in Accounts /\ a \notin Moves(NextType) /\ accounts[a].amount \in Int
      BY <1>1, Roles DEF Counters, Mint, TokenType, Program, Collection, Chains, AccountStates
    <3>2. Applied(accounts, i)[a].amount = accounts[a].amount
      BY <1>1, <2>2, <3>1, CreatedEmpty
    <3>3. Applied(Applied(accounts, i), NextType)[a].amount = Applied(accounts, i)[a].amount
      BY <1>1, <2>3, <3>1, Unmoved
    <3>. QED
      BY <2>1, <3>1, <3>2, <3>3
  <2>. QED
    BY <2>1, <2>3, <2>4
<1>5. Minted(c, s.stage) = 0 /\ Called(s.stage) = 0
  BY <1>2, QuietStage
<1>6. Lawful(c, s)
  BY <1>3, <1>4, <1>5, SupplyIn DEF Lawful, Counters
<1>. QED
  BY <1>6 DEF s, i

\* A token account and the amount minted to it.
LEMMA Funded ==
  ASSUME NEW accounts \in Chains, NEW e \in Instructions, e.op = "ensure", e.on = Token, NEW n \in Nat
  PROVE  LET x == Applied(Applied(accounts, e), MintTo(Mint, Token, n))
         IN  /\ x \in Chains
             /\ x[Mint].amount = accounts[Mint].amount + n
             /\ x[Program].amount = accounts[Program].amount
<1>. DEFINE m == MintTo(Mint, Token, n)
            y == Applied(accounts, e)
<1>1. /\ Mint \in Accounts /\ Token \in Accounts /\ Program \in Accounts
      /\ Mint # Token /\ Program \notin {Mint, Token}
  BY Roles DEF Mint, Token, Program
<1>2. m \in Instructions /\ Program \notin Moves(m)
  <2>1. m \in Instructions
    BY <1>1, InstructionTypes
  <2>. QED
    BY <1>1, <2>1 DEF Moves, MintTo
<1>3. Mint \notin Moves(e) /\ Program \notin Moves(e)
  BY <1>1 DEF Moves
<1>4. y \in Chains /\ y[Mint].amount = accounts[Mint].amount /\ y[Program].amount = accounts[Program].amount
  BY <1>1, <1>3, AppliedType, Unmoved
<1>. HIDE DEF y
<1>5. Applied(y, m)[Mint].amount = y[Mint].amount + n
  BY <1>1, <1>4, MintsAmount
<1>. HIDE DEF m
<1>6. Applied(y, m) \in Chains /\ Applied(y, m)[Program].amount = y[Program].amount
  BY <1>1, <1>2, <1>4, AppliedType, Unmoved
<1>. QED
  BY <1>4, <1>5, <1>6 DEF y, m

\* Short sequences, joined.
LEMMA Joins ==
  ASSUME NEW a, NEW b, NEW c, NEW d
  PROVE  /\ <<a>> \o <<>> \o <<b, c>> = <<a, b, c>>
         /\ <<a>> \o <<d>> \o <<b, c>> = <<a, d, b, c>>
<1>. DEFINE S == {a, b, c, d}
            one == <<a>>
            two == <<d>>
            end == <<b, c>>
<1>1. /\ one \in Seq(S) /\ Len(one) = 1 /\ one[1] = a
      /\ two \in Seq(S) /\ Len(two) = 1 /\ two[1] = d
      /\ end \in Seq(S) /\ Len(end) = 2 /\ end[1] = b /\ end[2] = c
  OBVIOUS
<1>2. <<a, b, c>> \in Seq(S) /\ <<a, d, b, c>> \in Seq(S)
  OBVIOUS
<1>. HIDE DEF S, one, two, end
<1>3. one \o <<>> = one
  BY <1>1, ConcatEmptySeq
<1>4. one \o end = <<a, b, c>>
  <2>0. /\ one \o end \in Seq(S) /\ Len(one \o end) = Len(one) + Len(end)
        /\ \A i \in 1..Len(one) + Len(end) :
             (one \o end)[i] = IF i <= Len(one) THEN one[i] ELSE end[i - Len(one)]
    BY <1>1, ConcatProperties
  <2>1. /\ one \o end \in Seq(S) /\ Len(one \o end) = 3
        /\ (one \o end)[1] = a /\ (one \o end)[2] = b /\ (one \o end)[3] = c
    BY <1>1, <2>0
  <2>2. \A i \in 1..3 : (one \o end)[i] = <<a, b, c>>[i]
    BY <2>1
  <2>. QED
    BY <1>2, <2>1, <2>2, SeqEqual
<1>5. /\ one \o two \in Seq(S) /\ Len(one \o two) = 2
      /\ (one \o two)[1] = a /\ (one \o two)[2] = d
  BY <1>1, ConcatProperties
<1>6. one \o two \o end = <<a, d, b, c>>
  <2>. DEFINE both == one \o two
  <2>. HIDE DEF both
  <2>1. /\ both \o end \in Seq(S) /\ Len(both \o end) = 4
        /\ \A i \in 1..4 : (both \o end)[i] = <<a, d, b, c>>[i]
    BY <1>1, <1>5, ConcatProperties DEF both
  <2>2. both \o end = <<a, d, b, c>>
    BY <1>2, <2>1, SeqEqual
  <2>. QED
    BY <2>2 DEF both
<1>. QED
  BY <1>3, <1>4, <1>6 DEF one, two, end

\* The one transaction of --atomic.
LEMMA AtomicLawful ==
  ASSUME NEW c \in CommandLines, c.tool = "token2022-init", c.atomic,
         NEW new \in AccountStates, new.amount = 0, RentOf(new) = Rent,
         NEW held \in AccountStates, held.amount = 0, RentOf(held) = AssociatedCost(c)
  PROVE  Lawful(c, Send("atomic", 1,
                        <<Create(Mint, new)>>
                        \o (IF c.metadata THEN <<Describe>> ELSE <<>>)
                        \o <<Ensure(Token, held), MintTo(Mint, Token, RawAmount(c))>>))
<1>. DEFINE i == Create(Mint, new)
            e == Ensure(Token, held)
            n == RawAmount(c)
            m == MintTo(Mint, Token, n)
            d == IF c.metadata THEN <<Describe>> ELSE <<>>
            seq == <<i>> \o d \o <<e, m>>
            s == Send("atomic", 1, seq)
<1>0. Rent \in Nat /\ AssociatedRent \in Nat /\ MetadataFee \in Nat
  BY ToolAssumption DEF ToolAssumption, MetadataFee
<1>1. Mint \in Accounts /\ Program \in Accounts /\ Token \in Accounts /\ n \in Nat
  BY Roles, ToolRunAssumption DEF ToolRunAssumption
<1>2. i \in Instructions /\ i.op = "create" /\ i.state = new
  <2>1. i \in Instructions
    BY <1>1, InstructionTypes
  <2>. QED
    BY <2>1 DEF Create
<1>3. e \in Instructions /\ e.op = "ensure" /\ e.on = Token /\ e.state = held
  <2>1. e \in Instructions
    BY <1>1, InstructionTypes
  <2>. QED
    BY <2>1 DEF Ensure
<1>4. m \in Instructions /\ m.op = "mint"
  <2>1. m \in Instructions
    BY <1>1, InstructionTypes
  <2>. QED
    BY <2>1 DEF MintTo
<1>5. /\ Describe \in Instructions /\ Describe.op = "describe"
      /\ Mint \notin Moves(Describe) /\ Program \notin Moves(Describe)
  BY InstructionTypes DEF Describe, Moves, Mint, Program, Metadata, Edition
<1>6. /\ Price(c, <<"atomic", 0>>)
           = 2 + Rent + AssociatedCost(c) + (IF c.metadata THEN MetadataFee ELSE 0)
      /\ AssociatedCost(c) \in Nat
  BY <1>0 DEF Price, AssociatedCost
<1>7. Supply(c) = Mint /\ Minted(c, <<"atomic", 0>>) = n /\ Called(<<"atomic", 0>>) = 0
  BY DEF Supply, Minted, Called, MintStage, CallStage, Wanted
<1>8. s.stage = <<"atomic", 0>> /\ s.signatures = 2 /\ s.instructions = seq /\ s.op = "send"
  BY DEF Send, SendNth
<1>. HIDE DEF i, e, n, s
<1>9. seq = IF c.metadata THEN <<i, Describe, e, m>> ELSE <<i, e, m>>
  <2>. HIDE DEF m
  <2>1. CASE c.metadata
    BY <2>1, Joins
  <2>2. CASE ~c.metadata
    BY <2>2, Joins
  <2>. QED
    BY <2>1, <2>2
<1>. HIDE DEF seq
<1>10. seq \in Seq(Instructions) /\ 1 \in DOMAIN seq /\ seq[1] = i
  <2>. HIDE DEF m
  <2>. QED
    BY <1>2, <1>3, <1>4, <1>5, <1>9
<1>11. ASSUME NEW accounts \in Chains
       PROVE  Cost(s, accounts) \in Nat /\ Cost(s, accounts) <= Price(c, s.stage)
  <2>. HIDE DEF m
  <2>1. PICK f \in [0..Len(seq) -> Nat] : Totals(f, 2, accounts, seq)
    BY <1>10, CostFold
  <2>2. /\ f[0] = 2
        /\ \A k \in 1..Len(seq) : f[k] = f[k - 1] + Charge(seq[k], accounts)
        /\ Cost(s, accounts) = f[Len(seq)]
    BY <1>8, <2>1 DEF Totals, Cost
  <2>3. /\ Charge(i, accounts) \in Nat /\ Charge(i, accounts) <= Rent
        /\ Charge(e, accounts) \in Nat /\ Charge(e, accounts) <= AssociatedCost(c)
        /\ Charge(m, accounts) = 0 /\ Charge(Describe, accounts) = MetadataFee
    BY <1>2, <1>3, <1>4, <1>5, ChargeType
  <2>4. CASE c.metadata
    <3>1. Len(seq) = 4 /\ seq[1] = i /\ seq[2] = Describe /\ seq[3] = e /\ seq[4] = m
      BY <1>9, <2>4
    <3>2. /\ f[1] = f[0] + Charge(i, accounts) /\ f[2] = f[1] + Charge(Describe, accounts)
          /\ f[3] = f[2] + Charge(e, accounts) /\ f[4] = f[3] + Charge(m, accounts)
      BY <2>2, <3>1
    <3>. QED
      BY <1>0, <1>6, <1>8, <2>2, <2>3, <2>4, <3>1, <3>2
  <2>5. CASE ~c.metadata
    <3>1. Len(seq) = 3 /\ seq[1] = i /\ seq[2] = e /\ seq[3] = m
      BY <1>9, <2>5
    <3>2. /\ f[1] = f[0] + Charge(i, accounts) /\ f[2] = f[1] + Charge(e, accounts)
          /\ f[3] = f[2] + Charge(m, accounts)
      BY <2>2, <3>1
    <3>. QED
      BY <1>0, <1>6, <1>8, <2>2, <2>3, <2>5, <3>1, <3>2
  <2>. QED
    BY <2>4, <2>5
<1>12. ASSUME NEW accounts \in Chains, Succeeds(s, accounts)
       PROVE  /\ After(s, accounts) \in Chains
              /\ After(s, accounts)[Mint].amount = accounts[Mint].amount + n
              /\ After(s, accounts)[Program].amount = accounts[Program].amount
  <2>. DEFINE x == Applied(accounts, i)
              y == IF c.metadata THEN Applied(x, Describe) ELSE x
  <2>1. PICK f \in [0..Len(seq) -> Chains] : States(f, accounts, seq)
    BY <1>10, AfterFold
  <2>2. /\ f[0] = accounts
        /\ \A k \in 1..Len(seq) : f[k] = Applied(f[k - 1], seq[k])
        /\ After(s, accounts) = f[Len(seq)]
    BY <1>8, <2>1 DEF States, After
  <2>3. After(s, accounts) = Applied(Applied(y, e), m)
    <3>. HIDE DEF m
    <3>1. CASE c.metadata
      <4>1. Len(seq) = 4 /\ seq[1] = i /\ seq[2] = Describe /\ seq[3] = e /\ seq[4] = m
        BY <1>9, <3>1
      <4>2. /\ f[1] = Applied(f[0], i) /\ f[2] = Applied(f[1], Describe)
            /\ f[3] = Applied(f[2], e) /\ f[4] = Applied(f[3], m)
        BY <2>2, <4>1
      <4>. QED
        BY <2>2, <3>1, <4>1, <4>2
    <3>2. CASE ~c.metadata
      <4>1. Len(seq) = 3 /\ seq[1] = i /\ seq[2] = e /\ seq[3] = m
        BY <1>9, <3>2
      <4>2. f[1] = Applied(f[0], i) /\ f[2] = Applied(f[1], e) /\ f[3] = Applied(f[2], m)
        BY <2>2, <4>1
      <4>. QED
        BY <2>2, <3>2, <4>1, <4>2
    <3>. QED
      BY <3>1, <3>2
  <2>4. CanApply(i, accounts)
    <3>1. Before(s, 1, accounts) = accounts
      BY <1>8, <1>10, BeforeFirst
    <3>. QED
      BY <1>8, <1>10, <1>12, <3>1 DEF Succeeds
  <2>5. /\ x \in Chains /\ x[Mint].amount = accounts[Mint].amount
        /\ x[Program].amount = accounts[Program].amount
    BY <1>1, <1>2, <2>4, AppliedType, CreatedEmpty
  <2>. HIDE DEF x
  <2>6. /\ Applied(x, Describe) \in Chains /\ Applied(x, Describe)[Mint].amount = x[Mint].amount
        /\ Applied(x, Describe)[Program].amount = x[Program].amount
    BY <1>1, <1>5, <2>5, AppliedType, Unmoved
  <2>7. /\ y \in Chains /\ y[Mint].amount = accounts[Mint].amount
        /\ y[Program].amount = accounts[Program].amount
    BY <2>5, <2>6
  <2>. HIDE DEF y
  <2>8. /\ Applied(Applied(y, e), m) \in Chains
        /\ Applied(Applied(y, e), m)[Mint].amount = y[Mint].amount + n
        /\ Applied(Applied(y, e), m)[Program].amount = y[Program].amount
    BY <1>1, <1>3, <2>7, Funded
  <2>. QED
    BY <2>3, <2>7, <2>8
<1>13. ASSUME NEW accounts \in Chains PROVE accounts[Program].amount \in Int
  BY <1>1 DEF Chains, AccountStates
<1>14. Lawful(c, s)
  BY <1>7, <1>8, <1>11, <1>12, <1>13 DEF Lawful
<1>. QED
  BY <1>14 DEF s, seq, i, e, n

-----------------------------------------------------------------------------
(* The plans.                                                              *)

\* The stages of the transactions of a plan.
Stages(p) == {p[k].stage : k \in {j \in DOMAIN p : p[j].op = "send"}}

\* No two transactions have the same stage.
Once(p) ==
  \A j, k \in DOMAIN p :
    p[j].op = "send" /\ p[k].op = "send" /\ p[j].stage = p[k].stage => j = k

\* A lawful plan, whose searches are followed by another step.
Fits(c, p) ==
  /\ \E S : p \in Seq(S) /\ \A s \in S : Lawful(c, s)
  /\ Once(p)
  /\ \A k \in DOMAIN p : p[k].op = "find" => k # Len(p)

\* No stage is in both plans.
Apart(p, q) == Stages(p) \cap Stages(q) = {}

\* What the plans p and q make together.
Joined(c, p, q) == Fits(c, p \o q) /\ Stages(p \o q) = Stages(p) \cup Stages(q)

LEMMA FitsJoin ==
  ASSUME NEW c, NEW p, NEW q, Fits(c, p), Fits(c, q), Apart(p, q)
  PROVE  Joined(c, p, q)
<1>1. PICK S : p \in Seq(S) /\ \A s \in S : Lawful(c, s)
  BY DEF Fits
<1>2. PICK T : q \in Seq(T) /\ \A s \in T : Lawful(c, s)
  BY DEF Fits
<1>. DEFINE U == S \cup T
            r == p \o q
            m == Len(p)
            n == Len(q)
<1>3. p \in Seq(U) /\ q \in Seq(U) /\ \A s \in U : Lawful(c, s)
  <2>1. S \subseteq U /\ T \subseteq U
    OBVIOUS
  <2>. HIDE DEF U
  <2>2. p \in Seq(U) /\ q \in Seq(U)
    BY <1>1, <1>2, <2>1, SeqMonotonic
  <2>. QED
    BY <1>1, <1>2, <2>2 DEF U
<1>. HIDE DEF U
<1>4. /\ m \in Nat /\ DOMAIN p = 1..m /\ n \in Nat /\ DOMAIN q = 1..n
  BY <1>3
<1>5. /\ r \in Seq(U) /\ Len(r) = m + n
      /\ \A i \in 1..m + n : r[i] = IF i <= m THEN p[i] ELSE q[i - m]
  BY <1>3, ConcatProperties
<1>6. DOMAIN r = 1..m + n
  BY <1>5
<1>. HIDE DEF r, m, n
<1>7. \A i \in 1..m : i \in DOMAIN r /\ r[i] = p[i]
  BY <1>4, <1>5, <1>6
<1>8. \A i \in 1..n : m + i \in DOMAIN r /\ r[m + i] = q[i]
  BY <1>4, <1>5, <1>6
<1>9. \A k \in DOMAIN r : k \in 1..m \/ \E i \in 1..n : k = m + i
  <2>. SUFFICES ASSUME NEW k \in 1..m + n, k \notin 1..m PROVE \E i \in 1..n : k = m + i
    BY <1>6
  <2>1. k - m \in 1..n /\ k = m + (k - m)
    BY <1>4
  <2>. QED
    BY <2>1
<1>10. Stages(r) = Stages(p) \cup Stages(q)
  <2>1. Stages(r) \subseteq Stages(p) \cup Stages(q)
    <3>. SUFFICES ASSUME NEW k \in DOMAIN r, r[k].op = "send"
                  PROVE  r[k].stage \in Stages(p) \cup Stages(q)
      BY DEF Stages
    <3>1. CASE k \in 1..m
      BY <1>4, <1>7, <3>1 DEF Stages
    <3>2. ASSUME NEW i \in 1..n, k = m + i PROVE r[k].stage \in Stages(q)
      BY <1>4, <1>8, <3>2 DEF Stages
    <3>. QED
      BY <1>9, <3>1, <3>2
  <2>2. Stages(p) \subseteq Stages(r)
    BY <1>4, <1>7 DEF Stages
  <2>3. Stages(q) \subseteq Stages(r)
    BY <1>4, <1>8 DEF Stages
  <2>. QED
    BY <2>1, <2>2, <2>3
<1>11. Once(r)
  <2>. SUFFICES ASSUME NEW j \in DOMAIN r, NEW k \in DOMAIN r, r[j].op = "send", r[k].op = "send",
                       r[j].stage = r[k].stage
                PROVE  j = k
    BY DEF Once
  <2>1. Once(p) /\ Once(q)
    BY DEF Fits
  <2>2. CASE j \in 1..m /\ k \in 1..m
    BY <1>4, <1>7, <2>1, <2>2 DEF Once
  <2>3. ASSUME NEW i \in 1..m, NEW h \in 1..n, p[i].op = "send", q[h].op = "send",
               p[i].stage = q[h].stage
        PROVE  FALSE
    <3>1. p[i].stage \in Stages(p) /\ q[h].stage \in Stages(q)
      BY <1>4, <2>3 DEF Stages
    <3>. QED
      BY <2>3, <3>1 DEF Apart
  <2>4. CASE j \in 1..m /\ k \notin 1..m
    <3>1. PICK h \in 1..n : k = m + h
      BY <1>9, <2>4
    <3>. QED
      BY <1>7, <1>8, <2>3, <2>4, <3>1
  <2>5. CASE j \notin 1..m /\ k \in 1..m
    <3>1. PICK h \in 1..n : j = m + h
      BY <1>9, <2>5
    <3>. QED
      BY <1>7, <1>8, <2>3, <2>5, <3>1
  <2>6. CASE j \notin 1..m /\ k \notin 1..m
    <3>1. PICK i \in 1..n : j = m + i
      BY <1>9, <2>6
    <3>2. PICK h \in 1..n : k = m + h
      BY <1>9, <2>6
    <3>3. q[i].op = "send" /\ q[h].op = "send" /\ q[i].stage = q[h].stage
      BY <1>8, <3>1, <3>2
    <3>4. i = h
      BY <1>4, <2>1, <3>3 DEF Once
    <3>. QED
      BY <3>1, <3>2, <3>4
  <2>. QED
    BY <2>2, <2>4, <2>5, <2>6
<1>12. ASSUME NEW k \in DOMAIN r, r[k].op = "find" PROVE k # Len(r)
  <2>1. CASE k \in 1..m
    <3>1. k # m
      BY <1>4, <1>7, <1>12, <2>1 DEF Fits, m
    <3>. QED
      BY <1>4, <1>5, <2>1, <3>1
  <2>2. ASSUME NEW i \in 1..n, k = m + i PROVE k # Len(r)
    <3>1. i # n
      BY <1>4, <1>8, <1>12, <2>2 DEF Fits, n
    <3>. QED
      BY <1>4, <1>5, <2>2, <3>1
  <2>. QED
    BY <1>9, <2>1, <2>2
<1>13. Fits(c, r)
  BY <1>3, <1>5, <1>11, <1>12 DEF Fits
<1>. QED
  BY <1>10, <1>13 DEF r, Joined

\* Nothing, and a step that sends nothing.
LEMMA FitsNone == \A c : Fits(c, <<>>) /\ Stages(<<>>) = {}
<1>. TAKE c
<1>1. <<>> \in Seq({}) /\ DOMAIN <<>> = {}
  OBVIOUS
<1>. QED
  BY <1>1 DEF Fits, Once, Stages

Reads(s) == s.op \in {"verify", "probe", "show"}

LEMMA FitsRead ==
  ASSUME NEW c, NEW s, Reads(s) PROVE Fits(c, <<s>>) /\ Stages(<<s>>) = {}
<1>1. <<s>> \in Seq({s}) /\ DOMAIN <<s>> = {1} /\ <<s>>[1] = s
  OBVIOUS
<1>2. Lawful(c, s) /\ s.op # "send" /\ s.op # "find"
  BY DEF Reads, Lawful
<1>. DEFINE S == {s}
<1>3. <<s>> \in Seq(S) /\ \A t \in S : Lawful(c, t)
  BY <1>1, <1>2
<1>. HIDE DEF S
<1>4. Once(<<s>>) /\ \A k \in DOMAIN <<s>> : <<s>>[k].op = "find" => k # Len(<<s>>)
  BY <1>1, <1>2 DEF Once
<1>5. Stages(<<s>>) = {}
  BY <1>1, <1>2 DEF Stages
<1>. QED
  BY <1>3, <1>4, <1>5 DEF Fits

\* A transaction.
LEMMA FitsSend ==
  ASSUME NEW c, NEW s, s.op = "send", Lawful(c, s)
  PROVE  Fits(c, <<s>>) /\ Stages(<<s>>) = {s.stage}
<1>1. <<s>> \in Seq({s}) /\ DOMAIN <<s>> = {1} /\ <<s>>[1] = s
  OBVIOUS
<1>. DEFINE S == {s}
<1>3. <<s>> \in Seq(S) /\ \A t \in S : Lawful(c, t)
  BY <1>1
<1>. HIDE DEF S
<1>4. Once(<<s>>) /\ \A k \in DOMAIN <<s>> : <<s>>[k].op = "find" => k # Len(<<s>>)
  BY <1>1 DEF Once
<1>5. Stages(<<s>>) = {s.stage}
  <2>1. {j \in DOMAIN <<s>> : <<s>>[j].op = "send"} = {1}
    BY <1>1
  <2>. QED
    BY <1>1, <2>1 DEF Stages
<1>. QED
  BY <1>3, <1>4, <1>5 DEF Fits

LEMMA ReadSteps ==
  /\ \A a, state : Reads(Check(a, state)) /\ Reads(Verify(a, state))
  /\ Reads(Probe) /\ Reads(Show)
BY DEF Reads, Check, Verify, Probe, Show

\* One transaction and a read.
LEMMA FitsOne ==
  ASSUME NEW c, NEW a,
         Lawful(c, a),
         a.op = "send",
         NEW p,
         Reads(p)
  PROVE  LET plan == <<a, p>>
         IN Fits(c, plan) /\ Stages(plan) = {a.stage}
<1>. DEFINE plan == <<a, p>>
            S == {a, p}
<1>1. /\ plan \in Seq(S) /\ DOMAIN plan = 1..2 /\ Len(plan) = 2
      /\ plan[1] = a /\ plan[2] = p
  OBVIOUS
<1>2. \A x \in {p} : Lawful(c, x) /\ x.op # "send" /\ x.op # "find"
  BY DEF Reads, Lawful
<1>3. \A x \in S : Lawful(c, x)
  BY <1>2
<1>. HIDE DEF plan, S
<1>4. \A k \in DOMAIN plan : plan[k].op # "find" /\ (plan[k].op = "send" => k \in {1})
  BY <1>1, <1>2
<1>5. Once(plan)
  BY <1>1, <1>4 DEF Once
<1>6. {k \in DOMAIN plan : plan[k].op = "send"} = {1}
  BY <1>1, <1>4
<1>7. Stages(plan) = {a.stage}
  BY <1>1, <1>6 DEF Stages
<1>. QED
  BY <1>1, <1>3, <1>4, <1>5, <1>7 DEF Fits, plan

\* Two transactions, and two reads after each.
LEMMA FitsTwo ==
  ASSUME NEW c, NEW a, NEW b,
         Lawful(c, a), Lawful(c, b),
         a.op = "send", b.op = "send",
         a.stage # b.stage,
         NEW p, NEW q, NEW r, NEW s,
         Reads(p), Reads(q), Reads(r), Reads(s)
  PROVE  LET plan == <<a, p, q, b, r, s>>
         IN Fits(c, plan) /\ Stages(plan) = {a.stage, b.stage}
<1>. DEFINE plan == <<a, p, q, b, r, s>>
            S == {a, p, q, b, r, s}
<1>1. /\ plan \in Seq(S) /\ DOMAIN plan = 1..6 /\ Len(plan) = 6
      /\ plan[1] = a /\ plan[2] = p /\ plan[3] = q /\ plan[4] = b /\ plan[5] = r
      /\ plan[6] = s
  OBVIOUS
<1>2. \A x \in {p, q, r, s} : Lawful(c, x) /\ x.op # "send" /\ x.op # "find"
  BY DEF Reads, Lawful
<1>3. \A x \in S : Lawful(c, x)
  BY <1>2
<1>. HIDE DEF plan, S
<1>4. \A k \in DOMAIN plan : plan[k].op # "find" /\ (plan[k].op = "send" => k \in {1, 4})
  BY <1>1, <1>2
<1>5. Once(plan)
  BY <1>1, <1>4 DEF Once
<1>6. {k \in DOMAIN plan : plan[k].op = "send"} = {1, 4}
  BY <1>1, <1>4
<1>7. Stages(plan) = {a.stage, b.stage}
  BY <1>1, <1>6 DEF Stages
<1>. QED
  BY <1>1, <1>3, <1>4, <1>5, <1>7 DEF Fits, plan

\* The transactions of gospl-init and their reads.
LEMMA FitsThree ==
  ASSUME NEW c, NEW a, NEW b, NEW d,
         Lawful(c, a), Lawful(c, b), Lawful(c, d),
         a.op = "send", b.op = "send", d.op = "send",
         a.stage # b.stage, a.stage # d.stage, b.stage # d.stage,
         NEW p, NEW q, NEW r, NEW s, NEW t,
         Reads(p), Reads(q), Reads(r), Reads(s), Reads(t)
  PROVE  LET plan == <<a, p, b, q, r, d, s, t>>
         IN Fits(c, plan) /\ Stages(plan) = {a.stage, b.stage, d.stage}
<1>. DEFINE plan == <<a, p, b, q, r, d, s, t>>
            S == {a, p, b, q, r, d, s, t}
<1>1. /\ plan \in Seq(S) /\ DOMAIN plan = 1..8 /\ Len(plan) = 8
      /\ plan[1] = a /\ plan[2] = p /\ plan[3] = b /\ plan[4] = q /\ plan[5] = r
      /\ plan[6] = d /\ plan[7] = s /\ plan[8] = t
  OBVIOUS
<1>2. \A x \in {p, q, r, s, t} : Lawful(c, x) /\ x.op # "send" /\ x.op # "find"
  BY DEF Reads, Lawful
<1>3. \A x \in S : Lawful(c, x)
  BY <1>2
<1>. HIDE DEF plan, S
<1>4. \A k \in DOMAIN plan : plan[k].op # "find" /\ (plan[k].op = "send" => k \in {1, 3, 6})
  BY <1>1, <1>2
<1>5. Once(plan)
  BY <1>1, <1>4 DEF Once
<1>6. {k \in DOMAIN plan : plan[k].op = "send"} = {1, 3, 6}
  BY <1>1, <1>4
<1>7. Stages(plan) = {a.stage, b.stage, d.stage}
  BY <1>1, <1>6 DEF Stages
<1>. QED
  BY <1>1, <1>3, <1>4, <1>5, <1>7 DEF Fits, plan

\* Those of erc1155-init.
LEMMA FitsTypes ==
  ASSUME NEW c, NEW a, NEW b, NEW d, NEW e,
         Lawful(c, a), Lawful(c, b), Lawful(c, d), Lawful(c, e),
         a.op = "send", b.op = "send", d.op = "send", e.op = "send",
         a.stage # b.stage, a.stage # d.stage, a.stage # e.stage, b.stage # d.stage, b.stage # e.stage, d.stage # e.stage,
         NEW p, NEW q, NEW r, NEW s, NEW t, NEW u, NEW v,
         Reads(p), Reads(q), Reads(r), Reads(s), Reads(t), Reads(u), Reads(v)
  PROVE  LET plan == <<a, p, b, q, r, d, s, e, t, u, v>>
         IN Fits(c, plan) /\ Stages(plan) = {a.stage, b.stage, d.stage, e.stage}
<1>. DEFINE plan == <<a, p, b, q, r, d, s, e, t, u, v>>
            S == {a, p, b, q, r, d, s, e, t, u, v}
<1>1. /\ plan \in Seq(S) /\ DOMAIN plan = 1..11 /\ Len(plan) = 11
      /\ plan[1] = a /\ plan[2] = p /\ plan[3] = b /\ plan[4] = q /\ plan[5] = r
      /\ plan[6] = d /\ plan[7] = s /\ plan[8] = e /\ plan[9] = t /\ plan[10] = u
      /\ plan[11] = v
  OBVIOUS
<1>2. \A x \in {p, q, r, s, t, u, v} : Lawful(c, x) /\ x.op # "send" /\ x.op # "find"
  BY DEF Reads, Lawful
<1>3. \A x \in S : Lawful(c, x)
  BY <1>2
<1>. HIDE DEF plan, S
<1>4. \A k \in DOMAIN plan : plan[k].op # "find" /\ (plan[k].op = "send" => k \in {1, 3, 6, 8})
  BY <1>1, <1>2
<1>5. Once(plan)
  BY <1>1, <1>4 DEF Once
<1>6. {k \in DOMAIN plan : plan[k].op = "send"} = {1, 3, 6, 8}
  BY <1>1, <1>4
<1>7. Stages(plan) = {a.stage, b.stage, d.stage, e.stage}
  BY <1>1, <1>6 DEF Stages
<1>. QED
  BY <1>1, <1>3, <1>4, <1>5, <1>7 DEF Fits, plan

\* Those of token2022-nft-init.
LEMMA FitsNft ==
  ASSUME NEW c, NEW a, NEW b, NEW d, NEW e,
         Lawful(c, a), Lawful(c, b), Lawful(c, d), Lawful(c, e),
         a.op = "send", b.op = "send", d.op = "send", e.op = "send",
         a.stage # b.stage, a.stage # d.stage, a.stage # e.stage, b.stage # d.stage, b.stage # e.stage, d.stage # e.stage,
         NEW p, NEW q, NEW r, NEW s, NEW t, NEW u, NEW v,
         Reads(p), Reads(q), Reads(r), Reads(s), Reads(t), Reads(u), Reads(v)
  PROVE  LET plan == <<a, p, b, q, d, r, s, e, t, u, v>>
         IN Fits(c, plan) /\ Stages(plan) = {a.stage, b.stage, d.stage, e.stage}
<1>. DEFINE plan == <<a, p, b, q, d, r, s, e, t, u, v>>
            S == {a, p, b, q, d, r, s, e, t, u, v}
<1>1. /\ plan \in Seq(S) /\ DOMAIN plan = 1..11 /\ Len(plan) = 11
      /\ plan[1] = a /\ plan[2] = p /\ plan[3] = b /\ plan[4] = q /\ plan[5] = d
      /\ plan[6] = r /\ plan[7] = s /\ plan[8] = e /\ plan[9] = t /\ plan[10] = u
      /\ plan[11] = v
  OBVIOUS
<1>2. \A x \in {p, q, r, s, t, u, v} : Lawful(c, x) /\ x.op # "send" /\ x.op # "find"
  BY DEF Reads, Lawful
<1>3. \A x \in S : Lawful(c, x)
  BY <1>2
<1>. HIDE DEF plan, S
<1>4. \A k \in DOMAIN plan : plan[k].op # "find" /\ (plan[k].op = "send" => k \in {1, 3, 5, 8})
  BY <1>1, <1>2
<1>5. Once(plan)
  BY <1>1, <1>4 DEF Once
<1>6. {k \in DOMAIN plan : plan[k].op = "send"} = {1, 3, 5, 8}
  BY <1>1, <1>4
<1>7. Stages(plan) = {a.stage, b.stage, d.stage, e.stage}
  BY <1>1, <1>6 DEF Stages
<1>. QED
  BY <1>1, <1>3, <1>4, <1>5, <1>7 DEF Fits, plan

-----------------------------------------------------------------------------
(* The plan of token2022-init-multisend.                                   *)

\* The steps for recipient i, and f of the steps for those up to k.
Given(i, total, count) == MultisendTo(i, Share(i, total, count))

Shared(f, total, count) ==
  /\ f[0] = <<>>
  /\ \A k \in 1..count : f[k] = f[k - 1] \o Given(k, total, count)
  /\ FoldLeft(LAMBDA steps, i : steps \o Given(i, total, count), <<>>, [i \in 1..count |-> i])
       = f[count]

\* The steps for the recipients follow one another.
LEMMA SharedFold ==
  ASSUME NEW count \in Nat, NEW total, NEW U, \A i \in 1..count : Given(i, total, count) \in Seq(U)
  PROVE  \E f \in [0..count -> Seq(U)] : Shared(f, total, count)
<1>. DEFINE n == count
            seq == [i \in 1..count |-> i]
            Then(g, s) == IF s = {} THEN <<>> ELSE g[s \ {Max(s)}] \o Given(seq[Max(s)], total, count)
            Solves(g) == g = [s \in SUBSET (1..n) |-> Then(g, s)]
            next == [p \in (1..n) \X Seq(U) |-> p[2] \o Given(p[1], total, count)]
<1>0. n \in Nat
  OBVIOUS
<1>17. <<>> \in Seq(U)
  OBVIOUS
<1>1. DOMAIN seq = 1..n /\ \A k \in 1..n : seq[k] = k /\ Given(k, total, count) \in Seq(U)
  OBVIOUS
<1>. HIDE DEF n, seq
<1>2. next \in [(1..n) \X Seq(U) -> Seq(U)]
  BY <1>1, ConcatProperties
<1>16. \A k \in 1..n, v \in Seq(U) : next[k, v] = v \o Given(k, total, count)
  OBVIOUS
<1>. HIDE DEF next
<1>3. PICK g \in [SUBSET (1..n) -> Seq(U)] : Folds(g, n, <<>>, next)
  BY <1>0, <1>2, <1>17, Folding
<1>15. \A s \in SUBSET (1..n) : g[s] = IF s = {} THEN <<>> ELSE next[Max(s), g[s \ {Max(s)}]]
  BY <1>3 DEF Folds
<1>4. ASSUME NEW s \in SUBSET (1..n) PROVE g[s] = Then(g, s)
  <2>1. CASE s = {}
    BY <1>15, <2>1
  <2>2. CASE s # {}
    <3>1. Max(s) \in 1..n /\ s \ {Max(s)} \in SUBSET (1..n)
      BY <1>0, <2>2, GreatestIn
    <3>. QED
      BY <1>1, <1>16, <1>15, <1>3, <2>2, <3>1
  <2>. QED
    BY <2>1, <2>2
<1>. DEFINE iter == CHOOSE h : Solves(h)
<1>5. Solves(g)
  BY <1>4
<1>6. Solves(iter)
  <2>. HIDE DEF Solves
  <2>. QED
    BY <1>5
<1>7. FoldLeft(LAMBDA steps, i : steps \o Given(i, total, count), <<>>, seq) = iter[1..n]
  BY <1>1 DEF FoldLeft, MapThenFoldSet
<1>. HIDE DEF iter
<1>8. iter[{}] = <<>>
  BY <1>6
<1>9. ASSUME NEW k \in 1..n PROVE iter[1..k] = iter[1..k - 1] \o Given(k, total, count)
  <2>1. k \in 1..k /\ 1..k \in SUBSET (1..n) /\ 1..k # {} /\ (1..k) \ {k} = 1..k - 1
    BY <1>0, UpTo
  <2>2. Max(1..k) = k
    BY <2>1, Greatest
  <2>. QED
    BY <1>1, <1>6, <2>1, <2>2
<1>. DEFINE f == [k \in 0..n |-> iter[1..k]]
            Typed == {k \in 0..n : iter[1..k] \in Seq(U)}
<1>10. iter[1..0] = <<>>
  BY <1>8
<1>11. ASSUME NEW k \in 1..n, k - 1 \in Typed PROVE k \in Typed
  <2>1. iter[1..k - 1] \in Seq(U) /\ Given(k, total, count) \in Seq(U)
    BY <1>1, <1>11
  <2>3. iter[1..k - 1] \o Given(k, total, count) \in Seq(U)
    BY <2>1, ConcatProperties
  <2>2. iter[1..k] \in Seq(U)
    BY <1>9, <2>3
  <2>. QED
    BY <1>0, <2>2
<1>12. 0..n \subseteq Typed
  <2>1. 0 \in Typed
    <3>1. 0 \in 0..n
      BY <1>0
    <3>2. iter[1..0] \in Seq(U)
      BY <1>10, <1>17
    <3>. QED
      BY <3>1, <3>2
  <2>. HIDE DEF Typed
  <2>. QED
    BY <1>0, <1>11, <2>1, Climb
<1>13. f \in [0..n -> Seq(U)]
  BY <1>12
<1>14. f[0] = <<>> /\ f[n] = iter[1..n] /\ \A k \in 1..n : f[k] = f[k - 1] \o Given(k, total, count)
  BY <1>0, <1>9, <1>10
<1>. HIDE DEF f
<1>. QED
  BY <1>7, <1>13, <1>14 DEF n, seq, Shared

\* A share is a number.
LEMMA ShareNat ==
  ASSUME NEW total \in Nat, NEW count \in Nat, count # 0, NEW i
  PROVE  Share(i, total, count) \in Nat
<1>1. total \div count \in Nat /\ total % count \in Nat
  OBVIOUS
<1>. QED
  BY <1>1 DEF Share

\* The stages that create an account of the payer's.
LEMMA AccountsLawful ==
  ASSUME NEW c, NEW k, NEW a \in Accounts, NEW state \in AccountStates, state.amount = 0
  PROVE  /\ RentOf(state) = Rent =>
              \A stage \in {"create_mint", "create_collection", "create_balance", "create_recipient",
                            "create_storage"} :
                 Lawful(c, SendNth(stage, k, 1, <<Create(a, state)>>))
         /\ RentOf(state) = Rent /\ c.tool \in {"gospl-init", "hellogo-init"} =>
              Lawful(c, SendNth("create_account", k, 1, <<Create(a, state)>>))
         /\ RentOf(state) = AssociatedCost(c) /\ c.tool \notin {"gospl-init", "hellogo-init"} =>
              Lawful(c, SendNth("create_account", k, 0, <<Ensure(a, state)>>))
<1>0. Rent \in Nat /\ AssociatedCost(c) \in Nat
  BY ToolAssumption DEF ToolAssumption, AssociatedCost
<1>1. ASSUME RentOf(state) = Rent,
             NEW stage \in {"create_mint", "create_collection", "create_balance", "create_recipient",
                           "create_storage"}
      PROVE  Lawful(c, SendNth(stage, k, 1, <<Create(a, state)>>))
  <2>1. Price(c, <<stage, k>>) = 2 + Rent /\ stage \notin {"atomic", "mint_to", "invoke"}
    BY DEF Price
  <2>2. /\ 1 + 1 + RentOf(state) <= Price(c, <<stage, k>>)
        /\ Price(c, <<stage, k>>) \in Nat /\ 1 \in Nat
    BY <1>0, <1>1, <2>1
  <2>. QED
    BY <2>1, <2>2, CreateLawful
<1>2. ASSUME RentOf(state) = Rent, c.tool \in {"gospl-init", "hellogo-init"}
      PROVE  Lawful(c, SendNth("create_account", k, 1, <<Create(a, state)>>))
  <2>1. Price(c, <<"create_account", k>>) = 2 + Rent
    BY <1>2 DEF Price
  <2>2. /\ 1 + 1 + RentOf(state) <= Price(c, <<"create_account", k>>)
        /\ Price(c, <<"create_account", k>>) \in Nat /\ 1 \in Nat
        /\ "create_account" \notin {"atomic", "mint_to", "invoke"}
    BY <1>0, <1>2, <2>1
  <2>. QED
    BY <2>2, CreateLawful
<1>3. ASSUME RentOf(state) = AssociatedCost(c), c.tool \notin {"gospl-init", "hellogo-init"}
      PROVE  Lawful(c, SendNth("create_account", k, 0, <<Ensure(a, state)>>))
  <2>1. Price(c, <<"create_account", k>>) = 1 + AssociatedCost(c)
    BY <1>3 DEF Price
  <2>2. /\ 1 + 0 + RentOf(state) <= Price(c, <<"create_account", k>>)
        /\ Price(c, <<"create_account", k>>) \in Nat
    BY <1>0, <1>3, <2>1
  <2>3. 0 \in Nat /\ "create_account" \notin {"atomic", "mint_to", "invoke"}
    OBVIOUS
  <2>. QED
    BY <2>2, <2>3, CreateLawful
<1>. QED
  BY <1>1, <1>2, <1>3

RecipientStages(n) == {"create_recipient", "transfer"} \X (1..n)

\* What is sent to one recipient.
LEMMA GivenFits ==
  ASSUME NEW c, NEW total \in Nat, NEW count \in 1..Recipients, NEW i \in 1..count
  PROVE  /\ Fits(c, Given(i, total, count))
         /\ Stages(Given(i, total, count)) \subseteq {<<"create_recipient", i>>, <<"transfer", i>>}
<1>0. i \in 1..Recipients /\ Recipients \in Nat /\ count \in Nat /\ count # 0
  BY ToolRunAssumption DEF ToolRunAssumption
<1>. DEFINE share == Share(i, total, count)
            a == CreateATA(i)
            p == VerifyMultisendTokenAccount(Recipient(i), "recipient", 0)
            b == SendNth("transfer", i, 0, <<Transfer(Token, Recipient(i), share)>>)
            q == VerifyMultisendTokenAccount(Recipient(i), "recipient", share)
<1>1. share \in Nat
  BY <1>0, ShareNat
<1>2. Lawful(c, a) /\ a.op = "send" /\ a.stage = <<"create_recipient", i>>
  <2>1. Recipient(i) \in Accounts
    BY <1>0, Roles
  <2>2. Account("token", "recipient", 0) \in AccountStates /\ Account("token", "recipient", 0).amount = 0
    BY AccountType DEF Kinds, Keys
  <2>4. RentOf(Account("token", "recipient", 0)) = Rent
    BY DEF RentOf, Account
  <2>3. Lawful(c, a)
    BY <2>1, <2>2, <2>4, AccountsLawful DEF CreateATA
  <2>. QED
    BY <2>3, SendFields DEF CreateATA
<1>3. Lawful(c, b) /\ b.op = "send" /\ b.stage = <<"transfer", i>>
  <2>. HIDE DEF share
  <2>1. \A j \in 1..Recipients, n \in Nat :
          Lawful(c, SendNth("transfer", j, 0, <<Transfer(Token, Recipient(j), n)>>))
    BY OthersLawful
  <2>2. Lawful(c, b)
    BY <1>0, <1>1, <2>1
  <2>. QED
    BY <2>2, SendFields
<1>4. Reads(p) /\ Reads(q)
  BY ReadSteps DEF VerifyMultisendTokenAccount
<1>5. Given(i, total, count) = <<a, p>> \o (IF share = 0 THEN <<>> ELSE <<b, q>>)
  BY DEF Given, MultisendTo
<1>. HIDE DEF share, a, b, p, q
<1>6. Fits(c, <<a, p>>) /\ Stages(<<a, p>>) = {<<"create_recipient", i>>}
  BY <1>2, <1>4, FitsOne
<1>7. Fits(c, <<b, q>>) /\ Stages(<<b, q>>) = {<<"transfer", i>>}
  BY <1>3, <1>4, FitsOne
<1>. DEFINE rest == IF share = 0 THEN <<>> ELSE <<b, q>>
            first == <<a, p>>
<1>8. Fits(c, rest) /\ Stages(rest) \subseteq {<<"transfer", i>>}
  BY <1>7, FitsNone
<1>. HIDE DEF rest, first
<1>9. Fits(c, first \o rest) /\ Stages(first \o rest) = Stages(first) \cup Stages(rest)
  <2>1. Fits(c, first) /\ Apart(first, rest)
    BY <1>6, <1>8 DEF first, Apart
  <2>. QED
    <3>1. Joined(c, first, rest)
      BY <1>8, <2>1, FitsJoin
    <3>. QED
      BY <3>1 DEF Joined
<1>. QED
  BY <1>5, <1>6, <1>8, <1>9 DEF rest, first

LEMMA StagesApart ==
  ASSUME NEW k \in Nat, k # 0
  PROVE  /\ RecipientStages(k - 1) \cup {<<"create_recipient", k>>, <<"transfer", k>>}
              \subseteq RecipientStages(k)
         /\ RecipientStages(k - 1) \cap {<<"create_recipient", k>>, <<"transfer", k>>} = {}
BY DEF RecipientStages

LEMMA MultisendFits ==
  ASSUME NEW c, NEW total \in Nat, NEW count \in 0..Recipients
  PROVE  Fits(c, Multisend(total, count)) /\ Stages(Multisend(total, count)) \subseteq RecipientStages(count)
<1>0. Recipients \in Nat /\ count \in Nat
  BY ToolRunAssumption DEF ToolRunAssumption
<1>1. CASE count = 0
  <2>1. Multisend(total, count) = <<>>
    BY <1>1 DEF Multisend
  <2>. QED
    BY <2>1, FitsNone
<1>2. CASE count # 0
  <2>0. count \in 1..Recipients
    BY <1>0, <1>2
  <2>1. \A i \in 1..count : /\ Fits(c, Given(i, total, count))
                            /\ Stages(Given(i, total, count))
                                 \subseteq {<<"create_recipient", i>>, <<"transfer", i>>}
    BY <2>0, GivenFits
  <2>. DEFINE U == UNION {{Given(i, total, count)[j] : j \in DOMAIN Given(i, total, count)} :
                            i \in 1..count}
  <2>2. ASSUME NEW i \in 1..count PROVE Given(i, total, count) \in Seq(U)
    <3>. DEFINE g == Given(i, total, count)
    <3>1. PICK S : g \in Seq(S)
      BY <2>1 DEF Fits
    <3>2. \A j \in DOMAIN g : g[j] \in U
      OBVIOUS
    <3>. HIDE DEF U, g
    <3>3. g \in Seq(U)
      BY <3>1, <3>2
    <3>. QED
      BY <3>3 DEF g
  <2>. HIDE DEF U
  <2>3. PICK f \in [0..count -> Seq(U)] : Shared(f, total, count)
    BY <1>0, <2>2, SharedFold
  <2>4. /\ f[0] = <<>>
        /\ \A k \in 1..count : f[k] = f[k - 1] \o Given(k, total, count)
        /\ FoldLeft(LAMBDA steps, i : steps \o Given(i, total, count), <<>>, [i \in 1..count |-> i])
             = f[count]
    BY <2>3 DEF Shared
  <2>. DEFINE Good == {k \in 0..count : Fits(c, f[k]) /\ Stages(f[k]) \subseteq RecipientStages(k)}
  <2>5. 0 \in Good
    <3>1. 0 \in 0..count
      BY <1>0
    <3>2. Fits(c, f[0]) /\ Stages(f[0]) \subseteq RecipientStages(0)
      BY <2>4, FitsNone
    <3>. QED
      BY <3>1, <3>2
  <2>6. ASSUME NEW k \in 1..count, k - 1 \in Good PROVE k \in Good
    <3>1. Fits(c, f[k - 1]) /\ Stages(f[k - 1]) \subseteq RecipientStages(k - 1)
      BY <2>6
    <3>2. /\ Fits(c, Given(k, total, count))
          /\ Stages(Given(k, total, count)) \subseteq {<<"create_recipient", k>>, <<"transfer", k>>}
      BY <2>1
    <3>3. /\ RecipientStages(k - 1) \cup {<<"create_recipient", k>>, <<"transfer", k>>}
               \subseteq RecipientStages(k)
          /\ RecipientStages(k - 1) \cap {<<"create_recipient", k>>, <<"transfer", k>>} = {}
      BY StagesApart
    <3>4. Stages(f[k - 1]) \cap Stages(Given(k, total, count)) = {}
      BY <3>1, <3>2, <3>3
    <3>5. /\ Fits(c, f[k - 1] \o Given(k, total, count))
          /\ Stages(f[k - 1] \o Given(k, total, count))
               = Stages(f[k - 1]) \cup Stages(Given(k, total, count))
      <4>. DEFINE before == f[k - 1]
                  given == Given(k, total, count)
      <4>1. Fits(c, before) /\ Fits(c, given) /\ Apart(before, given)
        BY <3>1, <3>2, <3>4 DEF Apart
      <4>. HIDE DEF before, given
      <4>2. Joined(c, before, given)
        BY <4>1, FitsJoin
      <4>. QED
        BY <4>2 DEF before, given, Joined
    <3>6. Fits(c, f[k]) /\ Stages(f[k]) \subseteq RecipientStages(k)
      BY <2>4, <3>1, <3>2, <3>3, <3>5
    <3>7. k \in 0..count
      BY <1>0
    <3>. QED
      BY <3>6, <3>7
  <2>7. 0..count \subseteq Good
    <3>. HIDE DEF Good
    <3>. QED
      BY <1>0, <2>5, <2>6, Climb
  <2>8. Fits(c, f[count]) /\ Stages(f[count]) \subseteq RecipientStages(count)
    <3>1. count \in Good
      BY <1>0, <2>7
    <3>. QED
      BY <3>1
  <2>. DEFINE last == VerifyMultisendTokenAccount(Token, "payer",
                        total - FoldLeft(LAMBDA sum, i : sum + Share(i, total, count), 0,
                                         [i \in 1..count |-> i]))
  <2>9. Reads(last)
    BY ReadSteps DEF VerifyMultisendTokenAccount
  <2>10. Multisend(total, count) = f[count] \o <<last>>
    BY <1>2, <2>4 DEF Multisend, Given
  <2>. DEFINE steps == f[count]
              end == <<last>>
  <2>. HIDE DEF last
  <2>11. Fits(c, end) /\ Stages(end) = {}
    BY <2>9, FitsRead
  <2>. HIDE DEF end, steps
  <2>12. Fits(c, steps \o end) /\ Stages(steps \o end) = Stages(steps) \cup Stages(end)
    <3>1. Fits(c, steps) /\ Apart(steps, end)
      BY <2>8, <2>11 DEF steps, Apart
    <3>2. Joined(c, steps, end)
      BY <2>11, <3>1, FitsJoin
    <3>. QED
      BY <3>2 DEF Joined
  <2>. QED
    BY <2>8, <2>10, <2>11, <2>12 DEF steps, end
<1>. QED
  BY <1>1, <1>2

-----------------------------------------------------------------------------
(* The plans of the tools.                                                 *)

\* The accounts the plans create.
LEMMA CreatesLawful ==
  ASSUME NEW c \in CommandLines
  PROVE  /\ Lawful(c, Send("create_mint", 1, <<Create(Mint, Account("mint", "payer", 0))>>))
         /\ Lawful(c, Send("create_collection", 1,
                           <<Create(Collection, Account("collection", "payer", 0))>>))
         /\ Lawful(c, Send("create_balance", 1, <<Create(Token, Account("token", "payer", 0))>>))
         /\ Lawful(c, Send("create_storage", 1,
                           <<Create(Storage, Account("storage", "payer", 0))>>))
         /\ c.tool \in {"gospl-init", "hellogo-init"} =>
              Lawful(c, Send("create_account", 1, <<Create(Token, Account("token", "payer", 0))>>))
         /\ c.tool \notin {"gospl-init", "hellogo-init"} =>
              Lawful(c, Send("create_account", 0, <<CreateAssociated(c)>>))
         /\ Lawful(c, Send("create_token_type", 1,
                           <<Create(TokenType, Account("type", "payer", 0)), NextType>>))
<1>. USE DEF Send
<1>1. /\ Mint \in Accounts /\ Collection \in Accounts /\ Token \in Accounts /\ Storage \in Accounts
  BY Roles
<1>2. \A kind \in Kinds, key \in Keys :
        /\ Account(kind, key, 0) \in AccountStates /\ Account(kind, key, 0).amount = 0
        /\ RentOf(Account(kind, key, 0)) = IF kind = "token+" THEN AssociatedRent ELSE Rent
  BY AccountType DEF RentOf, Account
<1>3. c.owner \in Keys
  BY ToolRunAssumption DEF ToolRunAssumption, CommandLine, Keys
<1>4. /\ "payer" \in Keys /\ "mint" \in Kinds /\ "collection" \in Kinds /\ "token" \in Kinds
      /\ "storage" \in Kinds /\ "type" \in Kinds /\ "token+" \in Kinds
  BY DEF Kinds, Keys
<1>5. Lawful(c, Send("create_mint", 1, <<Create(Mint, Account("mint", "payer", 0))>>))
  BY <1>1, <1>2, <1>4, AccountsLawful
<1>6. Lawful(c, Send("create_collection", 1,
                     <<Create(Collection, Account("collection", "payer", 0))>>))
  BY <1>1, <1>2, <1>4, AccountsLawful
<1>7. Lawful(c, Send("create_balance", 1, <<Create(Token, Account("token", "payer", 0))>>))
  BY <1>1, <1>2, <1>4, AccountsLawful
<1>8. Lawful(c, Send("create_storage", 1, <<Create(Storage, Account("storage", "payer", 0))>>))
  BY <1>1, <1>2, <1>4, AccountsLawful
<1>9. c.tool \in {"gospl-init", "hellogo-init"} =>
        Lawful(c, Send("create_account", 1, <<Create(Token, Account("token", "payer", 0))>>))
  BY <1>1, <1>2, <1>4, AccountsLawful
<1>10. ASSUME c.tool \notin {"gospl-init", "hellogo-init"}
       PROVE  Lawful(c, Send("create_account", 0, <<CreateAssociated(c)>>))
  <2>. DEFINE kind == IF c.immutable THEN "token+" ELSE "token"
              held == Account(kind, c.owner, 0)
  <2>1. /\ held \in AccountStates /\ held.amount = 0
        /\ RentOf(held) = AssociatedCost(c)
    BY <1>2, <1>3, <1>4 DEF AssociatedCost
  <2>2. CreateAssociated(c) = Ensure(Token, held)
    BY DEF CreateAssociated
  <2>. HIDE DEF held
  <2>. QED
    BY <1>1, <1>10, <2>1, <2>2, AccountsLawful
<1>11. Lawful(c, Send("create_token_type", 1,
                      <<Create(TokenType, Account("type", "payer", 0)), NextType>>))
  <2>1. Account("type", "payer", 0).kind = "type"
    BY DEF Account
  <2>. QED
    BY <1>2, <1>4, <2>1, TypeLawful
<1>. QED
  BY <1>5, <1>6, <1>7, <1>8, <1>9, <1>10, <1>11

LEMMA SendStage ==
  \A stage, keys, instructions :
    LET s == Send(stage, keys, instructions) IN s.op = "send" /\ s.stage = <<stage, 0>>
BY SendFields DEF Send

LEMMA GosplFits ==
  ASSUME NEW c \in CommandLines, c.tool \in {"gospl-init", "hellogo-init"}
  PROVE  /\ Fits(c, GosplPlan(c))
         /\ Stages(GosplPlan(c))
              = {<<"create_mint", 0>>, <<"create_account", 0>>, <<"mint_to", 0>>}
<1>. DEFINE n == RawAmount(c)
            a == Send("create_mint", 1, <<Create(Mint, Account("mint", "payer", 0))>>)
            b == Send("create_account", 1, <<Create(Token, Account("token", "payer", 0))>>)
            d == Send("mint_to", 0, <<MintTo(Mint, Token, n)>>)
            p == VerifyMint(0)
            q == VerifyToken(0)
            r == VerifyMint(n)
            s == VerifyToken(n)
<1>1. Wanted(c) = n /\ Supply(c) = Mint
  BY DEF Wanted, Supply
<1>2. Lawful(c, a) /\ Lawful(c, b)
  BY CreatesLawful
<1>3. Lawful(c, d)
  BY <1>1, MintLawful
<1>4. /\ a.op = "send" /\ b.op = "send" /\ d.op = "send"
      /\ a.stage = <<"create_mint", 0>> /\ b.stage = <<"create_account", 0>>
      /\ d.stage = <<"mint_to", 0>>
  BY SendStage
<1>5. Reads(p) /\ Reads(q) /\ Reads(r) /\ Reads(s)
  BY ReadSteps DEF VerifyMint, VerifyToken
<1>6. GosplPlan(c) = <<a, p, b, q, p, d, r, s>>
  BY DEF GosplPlan
<1>. HIDE DEF a, b, d, p, q, r, s
<1>7. a.stage # b.stage /\ a.stage # d.stage /\ b.stage # d.stage
  BY <1>4
<1>. DEFINE plan == <<a, p, b, q, p, d, r, s>>
<1>8. Fits(c, plan) /\ Stages(plan) = {a.stage, b.stage, d.stage}
  BY <1>2, <1>3, <1>4, <1>5, <1>7, FitsThree
<1>. QED
  BY <1>4, <1>6, <1>8

LEMMA Erc1155Fits ==
  ASSUME NEW c \in CommandLines, c.tool = "erc1155-init"
  PROVE  /\ Fits(c, Erc1155Plan(c))
         /\ Stages(Erc1155Plan(c))
              = {<<"create_collection", 0>>, <<"create_token_type", 0>>, <<"create_balance", 0>>,
                 <<"mint_to", 0>>}
<1>. DEFINE n == Erc1155Amount(c)
            a == Send("create_collection", 1,
                      <<Create(Collection, Account("collection", "payer", 0))>>)
            b == Send("create_token_type", 1,
                      <<Create(TokenType, Account("type", "payer", 0)), NextType>>)
            d == Send("create_balance", 1, <<Create(Token, Account("token", "payer", 0))>>)
            e == Send("mint_to", 0, <<MintTo(TokenType, Token, n)>>)
            p == VerifyCollection(0)
            q == VerifyTokenType(0)
            r == VerifyCollection(1)
            s == VerifyBalance(0)
            t == VerifyTokenType(n)
            u == VerifyBalance(n)
<1>1. Wanted(c) = n /\ Supply(c) = TokenType
  BY DEF Wanted, Supply
<1>2. Lawful(c, a) /\ Lawful(c, b) /\ Lawful(c, d)
  BY CreatesLawful
<1>3. Lawful(c, e)
  BY <1>1, MintLawful
<1>4. /\ a.op = "send" /\ b.op = "send" /\ d.op = "send" /\ e.op = "send"
      /\ a.stage = <<"create_collection", 0>> /\ b.stage = <<"create_token_type", 0>>
      /\ d.stage = <<"create_balance", 0>> /\ e.stage = <<"mint_to", 0>>
  BY SendStage
<1>5. Reads(p) /\ Reads(q) /\ Reads(r) /\ Reads(s) /\ Reads(t) /\ Reads(u)
  BY ReadSteps DEF VerifyCollection, VerifyTokenType, VerifyBalance
<1>6. Erc1155Plan(c) = <<a, p, b, q, r, d, s, e, t, u, r>>
  BY DEF Erc1155Plan
<1>. HIDE DEF a, b, d, e, p, q, r, s, t, u
<1>7. /\ a.stage # b.stage /\ a.stage # d.stage /\ a.stage # e.stage
      /\ b.stage # d.stage /\ b.stage # e.stage /\ d.stage # e.stage
  BY <1>4
<1>. DEFINE plan == <<a, p, b, q, r, d, s, e, t, u, r>>
<1>8. Fits(c, plan) /\ Stages(plan) = {a.stage, b.stage, d.stage, e.stage}
  BY <1>2, <1>3, <1>4, <1>5, <1>7, FitsTypes
<1>. QED
  BY <1>4, <1>6, <1>8

LEMMA NftFits ==
  ASSUME NEW c \in CommandLines, c.tool = "token2022-nft-init"
  PROVE  /\ Fits(c, NftPlan(c))
         /\ Stages(NftPlan(c))
              = {<<"create_mint", 0>>, <<"create_account", 0>>, <<"mint_to", 0>>, <<"create_nft", 0>>}
<1>. DEFINE a == Send("create_mint", 1, <<Create(Mint, Account("mint", "payer", 0))>>)
            b == Send("create_account", 0, <<CreateAssociated(c)>>)
            d == Send("mint_to", 0, <<MintTo(Mint, Token, 1)>>)
            e == Send("create_nft", 0, <<Seal>>)
            p == VerifyNftMint("payer", 0)
            q == VerifyNftTokenAccount(c, 0)
            r == VerifyNftMint("payer", 1)
            s == VerifyNftTokenAccount(c, 1)
            t == VerifyNftMint("edition", 1)
            u == VerifyNftMetadata
            v == VerifyMasterEdition
<1>1. Wanted(c) = 1 /\ Supply(c) = Mint
  BY DEF Wanted, Supply
<1>2. Lawful(c, a) /\ Lawful(c, b) /\ Lawful(c, e)
  BY CreatesLawful, OthersLawful
<1>3. Lawful(c, d)
  BY <1>1, MintLawful
<1>4. /\ a.op = "send" /\ b.op = "send" /\ d.op = "send" /\ e.op = "send"
      /\ a.stage = <<"create_mint", 0>> /\ b.stage = <<"create_account", 0>>
      /\ d.stage = <<"mint_to", 0>> /\ e.stage = <<"create_nft", 0>>
  BY SendStage
<1>5. Reads(p) /\ Reads(q) /\ Reads(r) /\ Reads(s) /\ Reads(t) /\ Reads(u) /\ Reads(v)
  BY ReadSteps DEF VerifyNftMint, VerifyNftTokenAccount, VerifyNftMetadata, VerifyMasterEdition
<1>6. NftPlan(c) = <<a, p, b, q, d, r, s, e, t, u, v>>
  BY DEF NftPlan
<1>. HIDE DEF a, b, d, e, p, q, r, s, t, u, v
<1>7. /\ a.stage # b.stage /\ a.stage # d.stage /\ a.stage # e.stage
      /\ b.stage # d.stage /\ b.stage # e.stage /\ d.stage # e.stage
  BY <1>4
<1>. DEFINE plan == <<a, p, b, q, d, r, s, e, t, u, v>>
<1>8. Fits(c, plan) /\ Stages(plan) = {a.stage, b.stage, d.stage, e.stage}
  BY <1>2, <1>3, <1>4, <1>5, <1>7, FitsNft
<1>. QED
  BY <1>4, <1>6, <1>8

\* Three parts of a plan.
InParts(c, p, q, r) ==
  Fits(c, p \o q \o r) /\ Stages(p \o q \o r) = Stages(p) \cup Stages(q) \cup Stages(r)

LEMMA FitsParts ==
  ASSUME NEW c, NEW p, NEW q, NEW r, Fits(c, p), Fits(c, q), Fits(c, r),
         Apart(p, q), Apart(p, r), Apart(q, r)
  PROVE  InParts(c, p, q, r)
<1>. DEFINE both == p \o q
<1>1. Fits(c, both) /\ Stages(both) = Stages(p) \cup Stages(q)
  <2>1. Joined(c, p, q)
    BY FitsJoin
  <2>. QED
    BY <2>1 DEF Joined
<1>. HIDE DEF both
<1>2. Apart(both, r)
  BY <1>1 DEF Apart
<1>3. Joined(c, both, r)
  BY <1>1, <1>2, FitsJoin
<1>. QED
  BY <1>1, <1>3 DEF both, Joined, InParts

\* A part that is only there on a condition.
LEMMA FitsChoice ==
  ASSUME NEW c, NEW given, NEW p, given => Fits(c, p)
  PROVE  /\ Fits(c, IF given THEN p ELSE <<>>)
         /\ Stages(IF given THEN p ELSE <<>>) = IF given THEN Stages(p) ELSE {}
BY FitsNone

LEMMA StagedFits ==
  ASSUME NEW c \in CommandLines, c.tool = "token2022-init", ~c.atomic
  PROVE  /\ Fits(c, Token2022Staged(c))
         /\ Stages(Token2022Staged(c))
              = {<<"create_mint", 0>>, <<"create_account", 0>>, <<"mint_to", 0>>}
                \cup (IF c.metadata THEN {<<"create_metadata", 0>>} ELSE {})
<1>. DEFINE n == RawAmount(c)
            a == Send("create_mint", 1, <<Create(Mint, Account("mint", "payer", 0))>>)
            b == Send("create_metadata", 0, <<Describe>>)
            d == Send("create_account", 0, <<CreateAssociated(c)>>)
            e == Send("mint_to", 0, <<MintTo(Mint, Token, n)>>)
            p == VerifyToken2022Mint(0)
            q == VerifyMetaplexMetadata
            r == VerifyToken2022TokenAccount(c, 0)
            s == VerifyToken2022Mint(n)
            t == VerifyToken2022TokenAccount(c, n)
<1>1. Wanted(c) = n /\ Supply(c) = Mint
  BY DEF Wanted, Supply
<1>2. Lawful(c, a) /\ Lawful(c, b) /\ Lawful(c, d)
  BY CreatesLawful, OthersLawful
<1>3. Lawful(c, e)
  BY <1>1, MintLawful
<1>4. /\ a.op = "send" /\ b.op = "send" /\ d.op = "send" /\ e.op = "send"
      /\ a.stage = <<"create_mint", 0>> /\ b.stage = <<"create_metadata", 0>>
      /\ d.stage = <<"create_account", 0>> /\ e.stage = <<"mint_to", 0>>
  BY SendStage
<1>5. Reads(p) /\ Reads(q) /\ Reads(r) /\ Reads(s) /\ Reads(t)
  BY ReadSteps DEF VerifyToken2022Mint, VerifyMetaplexMetadata, VerifyToken2022TokenAccount
<1>. DEFINE first == <<a, p>>
            described == <<b, q>>
            middle == IF c.metadata THEN described ELSE <<>>
            end == <<d, r, p, e, s, t>>
<1>6. Token2022Staged(c) = first \o middle \o end
  BY DEF Token2022Staged
<1>. HIDE DEF a, b, d, e, p, q, r, s, t
<1>7. Fits(c, first) /\ Stages(first) = {a.stage}
  BY <1>2, <1>4, <1>5, FitsOne
<1>8. Fits(c, described) /\ Stages(described) = {b.stage}
  BY <1>2, <1>4, <1>5, FitsOne
<1>9. Fits(c, end) /\ Stages(end) = {d.stage, e.stage}
  <2>1. d.stage # e.stage
    BY <1>4
  <2>. QED
    BY <1>2, <1>3, <1>4, <1>5, <2>1, FitsTwo
<1>. HIDE DEF first, described, end
<1>10. Fits(c, middle) /\ Stages(middle) = IF c.metadata THEN Stages(described) ELSE {}
  BY <1>8, FitsChoice
<1>. HIDE DEF middle
<1>11. Apart(first, middle) /\ Apart(first, end) /\ Apart(middle, end)
  BY <1>4, <1>7, <1>8, <1>9, <1>10 DEF Apart
<1>12. InParts(c, first, middle, end)
  BY <1>7, <1>9, <1>10, <1>11, FitsParts
<1>. QED
  BY <1>4, <1>6, <1>7, <1>8, <1>9, <1>10, <1>12 DEF InParts

LEMMA AtomicFits ==
  ASSUME NEW c \in CommandLines, c.tool = "token2022-init", c.atomic
  PROVE  Fits(c, Token2022Atomic(c)) /\ Stages(Token2022Atomic(c)) = {<<"atomic", 0>>}
<1>. DEFINE n == RawAmount(c)
            new == Account("mint", "payer", 0)
            held == Account(IF c.immutable THEN "token+" ELSE "token", c.owner, 0)
            a == Send("atomic", 1,
                      <<Create(Mint, new)>>
                      \o (IF c.metadata THEN <<Describe>> ELSE <<>>)
                      \o <<CreateAssociated(c), MintTo(Mint, Token, n)>>)
            p == VerifyToken2022Mint(n)
            q == VerifyMetaplexMetadata
            r == VerifyToken2022TokenAccount(c, n)
<1>1. /\ new \in AccountStates /\ new.amount = 0 /\ RentOf(new) = Rent
      /\ held \in AccountStates /\ held.amount = 0 /\ RentOf(held) = AssociatedCost(c)
      /\ CreateAssociated(c) = Ensure(Token, held)
  <2>1. c.owner \in Keys
    BY ToolRunAssumption DEF ToolRunAssumption, CommandLine, Keys
  <2>2. "payer" \in Keys /\ "mint" \in Kinds /\ "token" \in Kinds /\ "token+" \in Kinds
    BY DEF Kinds, Keys
  <2>3. /\ new \in AccountStates /\ new.amount = 0
        /\ held \in AccountStates /\ held.amount = 0
    BY <2>1, <2>2, AccountType
  <2>4. RentOf(new) = Rent /\ RentOf(held) = AssociatedCost(c)
    BY DEF RentOf, Account, AssociatedCost
  <2>5. CreateAssociated(c) = Ensure(Token, held)
    BY DEF CreateAssociated
  <2>. QED
    BY <2>3, <2>4, <2>5
<1>2. Lawful(c, a)
  <2>. HIDE DEF new, held
  <2>. QED
    BY <1>1, AtomicLawful
<1>3. a.op = "send" /\ a.stage = <<"atomic", 0>>
  BY SendStage
<1>4. Reads(p) /\ Reads(q) /\ Reads(r)
  BY ReadSteps DEF VerifyToken2022Mint, VerifyMetaplexMetadata, VerifyToken2022TokenAccount
<1>. DEFINE first == <<a, p>>
            described == <<q>>
            middle == IF c.metadata THEN described ELSE <<>>
            end == <<r>>
<1>5. Token2022Atomic(c) = first \o middle \o end
  BY DEF Token2022Atomic
<1>. HIDE DEF a, p, q, r
<1>6. Fits(c, first) /\ Stages(first) = {a.stage}
  BY <1>2, <1>3, <1>4, FitsOne
<1>7. Fits(c, described) /\ Stages(described) = {} /\ Fits(c, end) /\ Stages(end) = {}
  BY <1>4, FitsRead
<1>. HIDE DEF first, described, end
<1>8. Fits(c, middle) /\ Stages(middle) = {}
  BY <1>7, FitsNone
<1>. HIDE DEF middle
<1>10. Apart(first, middle) /\ Apart(first, end) /\ Apart(middle, end)
  BY <1>7, <1>8 DEF Apart
<1>9. InParts(c, first, middle, end)
  BY <1>6, <1>7, <1>8, <1>10, FitsParts
<1>. QED
  BY <1>3, <1>5, <1>6, <1>7, <1>8, <1>9 DEF InParts

LEMMA MultisendPlanFits ==
  ASSUME NEW c \in CommandLines, c.tool = "token2022-init-multisend"
  PROVE  /\ Fits(c, MultisendPlan(c))
         /\ Stages(MultisendPlan(c))
              \subseteq {<<"create_mint", 0>>, <<"create_account", 0>>, <<"mint_to", 0>>,
                         <<"initialize_metadata", 0>>}
                        \cup RecipientStages(c.recipients)
<1>. DEFINE n == RawAmount(c)
            a == Send("create_mint", 1, <<Create(Mint, Account("mint", "payer", 0))>>)
            b == Send("initialize_metadata", 0, <<Extend>>)
            d == Send("create_account", 0, <<CreateAssociated(c)>>)
            e == Send("mint_to", 0, <<MintTo(Mint, Token, n)>>)
            p == Verify(Mint, Account("mint", "payer", 0))
            q == VerifyMultisendMint(c, 0)
            r == VerifyMultisendTokenAccount(Token, c.owner, 0)
            s == VerifyMultisendMint(c, n)
            t == VerifyMultisendTokenAccount(Token, c.owner, n)
<1>1. Wanted(c) = n /\ Supply(c) = Mint /\ n \in Nat /\ c.recipients \in 0..Recipients
  BY ToolRunAssumption DEF ToolRunAssumption, CommandLine, Wanted, Supply
<1>2. Lawful(c, a) /\ Lawful(c, b) /\ Lawful(c, d)
  BY CreatesLawful, OthersLawful
<1>3. Lawful(c, e)
  BY <1>1, MintLawful
<1>4. /\ a.op = "send" /\ b.op = "send" /\ d.op = "send" /\ e.op = "send"
      /\ a.stage = <<"create_mint", 0>> /\ b.stage = <<"initialize_metadata", 0>>
      /\ d.stage = <<"create_account", 0>> /\ e.stage = <<"mint_to", 0>>
  BY SendStage
<1>5. Reads(p) /\ Reads(q) /\ Reads(r) /\ Reads(s) /\ Reads(t)
  BY ReadSteps DEF VerifyMultisendMint, VerifyMultisendTokenAccount
<1>. DEFINE first == <<a, p>>
            described == <<b, q>>
            middle == IF c.metadata THEN described ELSE <<>>
            funded == <<d, r, q, e, s, t>>
            sent == Multisend(n, c.recipients)
            probed == <<Probe>>
            end == IF c.liquidity > 0 THEN probed ELSE <<>>
<1>6. MultisendPlan(c) = first \o middle \o funded \o sent \o end
  BY DEF MultisendPlan
<1>7. Fits(c, sent) /\ Stages(sent) \subseteq RecipientStages(c.recipients)
  BY <1>1, MultisendFits
<1>. HIDE DEF a, b, d, e, p, q, r, s, t, sent
<1>8. Fits(c, first) /\ Stages(first) = {a.stage}
  BY <1>2, <1>4, <1>5, FitsOne
<1>9. Fits(c, described) /\ Stages(described) = {b.stage}
  BY <1>2, <1>4, <1>5, FitsOne
<1>10. Fits(c, funded) /\ Stages(funded) = {d.stage, e.stage}
  <2>1. d.stage # e.stage
    BY <1>4
  <2>. QED
    BY <1>2, <1>3, <1>4, <1>5, <2>1, FitsTwo
<1>11. Fits(c, probed) /\ Stages(probed) = {}
  BY ReadSteps, FitsRead
<1>. HIDE DEF first, described, funded, probed
<1>12. Fits(c, middle) /\ Stages(middle) \subseteq Stages(described)
  BY <1>9, FitsNone
<1>13. Fits(c, end) /\ Stages(end) = {}
  BY <1>11, FitsNone
<1>. HIDE DEF middle, end
<1>. DEFINE opened == first \o middle \o funded
<1>14. Fits(c, opened) /\ Stages(opened) = Stages(first) \cup Stages(middle) \cup Stages(funded)
  <2>1. Apart(first, middle) /\ Apart(first, funded) /\ Apart(middle, funded)
    BY <1>4, <1>8, <1>9, <1>10, <1>12 DEF Apart
  <2>2. InParts(c, first, middle, funded)
    BY <1>8, <1>10, <1>12, <2>1, FitsParts
  <2>. QED
    BY <2>2 DEF InParts
<1>. HIDE DEF opened
<1>15. InParts(c, opened, sent, end)
  <2>1. Stages(opened) \subseteq {<<"create_mint", 0>>, <<"create_account", 0>>, <<"mint_to", 0>>,
                                  <<"initialize_metadata", 0>>}
    BY <1>4, <1>8, <1>9, <1>10, <1>12, <1>14
  <2>2. {<<"create_mint", 0>>, <<"create_account", 0>>, <<"mint_to", 0>>,
         <<"initialize_metadata", 0>>} \cap RecipientStages(c.recipients) = {}
    BY DEF RecipientStages
  <2>3. Apart(opened, sent) /\ Apart(opened, end) /\ Apart(sent, end)
    BY <1>7, <1>13, <2>1, <2>2 DEF Apart
  <2>. QED
    BY <1>7, <1>13, <1>14, <2>3, FitsParts
<1>. QED
  BY <1>4, <1>6, <1>7, <1>8, <1>9, <1>10, <1>12, <1>13, <1>14, <1>15 DEF opened, InParts

LEMMA NameStoreFits == \A c \in CommandLines : Fits(c, NameStorePlan(c))
<1>. TAKE c \in CommandLines
<1>. DEFINE a == [op |-> "find", account |-> Storage, kinds |-> {"storage", "short"}]
            b == Send("create_storage", 1, <<Create(Storage, Account("storage", "payer", 0))>>)
            d == Send("write", 1, <<Record(c.name)>>)
            S == {a, b, d, Show}
            plan == <<a, b, d, Show>>
<1>1. c.name \in Nat
  BY ToolRunAssumption DEF ToolRunAssumption, CommandLine
<1>2. Lawful(c, b) /\ Lawful(c, d)
  BY <1>1, CreatesLawful, OthersLawful
<1>3. b.stage = <<"create_storage", 0>> /\ d.stage = <<"write", 0>> /\ b.op = "send" /\ d.op = "send"
  BY SendStage
<1>4. a.op = "find" /\ Show.op = "show" /\ Lawful(c, a) /\ Lawful(c, Show)
  BY DEF Show, Lawful
<1>5. plan = NameStorePlan(c)
  BY DEF NameStorePlan
<1>. HIDE DEF a, b, d
<1>6. /\ plan \in Seq(S) /\ DOMAIN plan = 1..4 /\ Len(plan) = 4
      /\ plan[1] = a /\ plan[2] = b /\ plan[3] = d /\ plan[4] = Show
  OBVIOUS
<1>7. \A s \in S : Lawful(c, s)
  BY <1>2, <1>4
<1>. HIDE DEF plan, S
<1>8. b.stage # d.stage
  BY <1>3
<1>9. Once(plan)
  <2>1. \A k \in DOMAIN plan : plan[k].op = "send" => k \in {2, 3}
    BY <1>4, <1>6
  <2>. QED
    BY <1>6, <1>8, <2>1 DEF Once
<1>10. plan[Len(plan)].op # "find"
  BY <1>4, <1>6
<1>. QED
  BY <1>5, <1>6, <1>7, <1>9, <1>10 DEF Fits

LEMMA PlanFits == \A c \in CommandLines : Fits(c, Plan(c))
<1>. TAKE c \in CommandLines
<1>1. CASE c.tool \in {"gospl-init", "hellogo-init"}
  <2>1. Plan(c) = GosplPlan(c)
    BY <1>1 DEF Plan, HelloGoPlan
  <2>. QED
    BY <1>1, <2>1, GosplFits
<1>2. CASE c.tool = "erc1155-init"
  <2>1. Plan(c) = Erc1155Plan(c)
    BY <1>2 DEF Plan
  <2>. QED
    BY <1>2, <2>1, Erc1155Fits
<1>3. CASE c.tool = "token2022-init"
  <2>1. Plan(c) = IF c.atomic THEN Token2022Atomic(c) ELSE Token2022Staged(c)
    BY <1>3 DEF Plan, Token2022Plan
  <2>. QED
    BY <1>3, <2>1, AtomicFits, StagedFits
<1>4. CASE c.tool = "token2022-init-multisend"
  <2>1. Plan(c) = MultisendPlan(c)
    BY <1>4 DEF Plan
  <2>. QED
    BY <1>4, <2>1, MultisendPlanFits
<1>5. CASE c.tool = "token2022-nft-init"
  <2>1. Plan(c) = NftPlan(c)
    BY <1>5 DEF Plan
  <2>. QED
    BY <1>5, <2>1, NftFits
<1>6. CASE c.tool = "name-store"
  <2>1. Plan(c) = NameStorePlan(c)
    BY <1>6 DEF Plan
  <2>. QED
    BY <2>1, NameStoreFits
<1>7. CASE c.tool = "invoke"
  <2>. DEFINE s == Send("invoke", 0, <<Call>>)
  <2>1. Plan(c) = <<s>>
    BY <1>7 DEF Plan, InvokePlan
  <2>2. Lawful(c, s) /\ s.op = "send"
    BY CallLawful, SendStage
  <2>. HIDE DEF s
  <2>. QED
    BY <2>1, <2>2, FitsSend
<1>. QED
  BY <1>1, <1>2, <1>3, <1>4, <1>5, <1>6, <1>7, ToolRunAssumption DEF ToolRunAssumption, CommandLine

\* What is left of a lawful plan after its first step.
LEMMA TailFits ==
  ASSUME NEW c, NEW p, Fits(c, p), p # <<>>
  PROVE  /\ Fits(c, Tail(p)) /\ Lawful(c, Head(p))
         /\ 1 \in DOMAIN p /\ p[1] = Head(p)
         /\ \A k \in DOMAIN Tail(p) : /\ k + 1 \in DOMAIN p /\ Tail(p)[k] = p[k + 1]
                                      /\ k + 1 # 1
         /\ \A k \in DOMAIN p : k # 1 => k - 1 \in DOMAIN Tail(p) /\ Tail(p)[k - 1] = p[k]
         /\ Head(p).op = "find" => Tail(p) # <<>>
<1>1. PICK S : p \in Seq(S) /\ \A s \in S : Lawful(c, s)
  BY DEF Fits
<1>. DEFINE q == Tail(p)
            n == Len(p)
<1>2. /\ n \in Nat /\ n # 0 /\ DOMAIN p = 1..n /\ Head(p) = p[1] /\ p[1] \in S
      /\ q \in Seq(S) /\ Len(q) = n - 1 /\ DOMAIN q = 1..n - 1
      /\ \A k \in 1..n - 1 : q[k] = p[k + 1]
  <2>1. n \in Nat /\ n # 0 /\ DOMAIN p = 1..n /\ Head(p) = p[1]
    BY <1>1
  <2>2. q \in Seq(S) /\ Len(q) = n - 1 /\ \A k \in 1..n - 1 : q[k] = p[k + 1]
    BY <1>1, <2>1
  <2>. HIDE DEF q, n
  <2>3. DOMAIN q = 1..n - 1
    BY <2>1, <2>2
  <2>4. p[1] \in S
    BY <1>1, <2>1
  <2>. QED
    BY <2>1, <2>2, <2>3, <2>4
<1>. HIDE DEF q
<1>3. \A k \in DOMAIN q : k + 1 \in DOMAIN p /\ q[k] = p[k + 1] /\ k + 1 # 1
  BY <1>2
<1>4. \A k \in DOMAIN p : k # 1 => k - 1 \in DOMAIN q /\ q[k - 1] = p[k]
  <2>. SUFFICES ASSUME NEW k \in 1..n, k # 1 PROVE k - 1 \in DOMAIN q /\ q[k - 1] = p[k]
    BY <1>2
  <2>1. k - 1 \in 1..n - 1 /\ (k - 1) + 1 = k
    BY <1>2
  <2>. QED
    BY <1>2, <2>1
<1>5. Once(q)
  <2>. SUFFICES ASSUME NEW j \in DOMAIN q, NEW k \in DOMAIN q, q[j].op = "send", q[k].op = "send",
                       q[j].stage = q[k].stage
                PROVE  j = k
    BY DEF Once
  <2>1. j + 1 = k + 1
    BY <1>3 DEF Fits, Once
  <2>. QED
    BY <1>2, <2>1
<1>6. \A k \in DOMAIN q : q[k].op = "find" => k # Len(q)
  <2>. SUFFICES ASSUME NEW k \in DOMAIN q, q[k].op = "find" PROVE k # Len(q)
    OBVIOUS
  <2>1. k + 1 # n
    BY <1>3 DEF Fits, n
  <2>. QED
    BY <1>2, <2>1
<1>7. Head(p).op = "find" => q # <<>>
  <2>. SUFFICES ASSUME p[1].op = "find" PROVE q # <<>>
    BY <1>2
  <2>1. 1 # n
    BY <1>2 DEF Fits, n
  <2>2. 1 \in DOMAIN q
    BY <1>2, <2>1
  <2>. QED
    BY <2>2
<1>8. Fits(c, q)
  BY <1>1, <1>2, <1>5, <1>6 DEF Fits
<1>. QED
  BY <1>1, <1>2, <1>3, <1>4, <1>7, <1>8 DEF q

-----------------------------------------------------------------------------
(* The inductive invariant.                                                *)

\* No transaction of p has been executed.
Unsent(p, done) == \A k \in DOMAIN p : p[k].op = "send" => p[k].stage \notin done

\* Only the first may have been.
LaterUnsent(p, done) == \A k \in DOMAIN p : k # 1 /\ p[k].op = "send" => p[k].stage \notin done

\* The step the command is at is a transaction, which is handed over or not yet.
Sending == todo # <<>> /\ Step.op = "send"
Idle == phase \in {"start", "planned", "step", "verified"}

\* What is in flight is the step the command is at, and nothing of what is left
\* has been executed but perhaps that step.
InOrder ==
  /\ phase \in {"start", "planned", "step", "await", "failed", "verified", "crashed"}
  /\ flight \in 0..1
  /\ flight # 0 => Sending /\ ~Idle /\ Step.stage \notin executed
  /\ phase = "await" => Sending
  /\ phase \in {"start", "planned"} => executed = {}
  /\ LaterUnsent(todo, executed)
  /\ Idle => Unsent(todo, executed)

\* What was executed is journalled as finalized, or is the step the command is at.
Written ==
  /\ journal = [finalized |-> journal.finalized, ambiguous |-> journal.ambiguous]
  /\ journal.finalized \subseteq executed
  /\ \A stage \in executed : stage \in journal.finalized \/ (~Idle /\ Sending /\ Step.stage = stage)
  /\ phase = "failed" => MayLand \subseteq journal.finalized \cup journal.ambiguous
  /\ phase \notin {"failed", "crashed"} => journal.ambiguous = {}

\* The plan is on disk before anything is sent.
Announced ==
  Reports =>
    /\ phase \in {"planned", "step", "await", "verified"} => <<"planned", 0>> \in events
    /\ MayLand # {} => <<"planned", 0>> \in events
    /\ \A stage \in executed :
         \/ <<"finalized", stage>> \in events
         \/ Sending /\ Step.stage = stage

\* The supply is what the mint's stage made of it.
Counted ==
  /\ ~meddled => chain[Supply(line)].amount
                   = IF MintStage(line) \in executed THEN Wanted(line) ELSE 0
  /\ chain[Program].amount \in {0, 1}
  /\ chain[Program].amount = 1 => CallStage \in executed

ToolIInv ==
  /\ line \in CommandLines
  /\ chain \in Chains
  /\ Fits(line, todo)
  /\ InOrder
  /\ Written
  /\ Announced
  /\ Counted

\* What a step of the command leaves alone.
NoEffect == UNCHANGED <<line, chain, flight, executed, meddled>>
NothingWritten == UNCHANGED <<journal, events>>

LEMMA InitInv == Init => ToolIInv
<1>. SUFFICES ASSUME Init PROVE ToolIInv
  OBVIOUS
<1>1. line \in CommandLines /\ Fits(line, todo)
  BY PlanFits DEF Init
<1>2. chain \in Chains /\ \A a \in Accounts : chain[a].amount = 0
  <2>1. PICK storage \in IF line.tool = "name-store" THEN StorageStates ELSE {Absent} :
          chain = [a \in Accounts |->
                     CASE a = Program -> Account("program", "nobody", 0)
                       [] a = Storage -> storage
                       [] OTHER -> Absent]
    BY DEF Init
  <2>2. storage \in AccountStates /\ storage.amount = 0
    BY <2>1 DEF StorageStates, Absent, Account, AccountStates, Kinds, Keys
  <2>3. /\ Absent \in AccountStates /\ Absent.amount = 0
        /\ Account("program", "nobody", 0) \in AccountStates /\ Account("program", "nobody", 0).amount = 0
    BY DEF Absent, Account, AccountStates, Kinds, Keys
  <2>. HIDE DEF Absent
  <2>. QED
    BY <2>1, <2>2, <2>3 DEF Chains
<1>3. Supply(line) \in Accounts /\ Program \in Accounts
  BY SupplyIn, Roles
<1>4. InOrder
  BY DEF Init, InOrder, LaterUnsent, Unsent
<1>5. Written
  BY DEF Init, Written, MayLand
<1>6. Announced
  BY DEF Init, Announced, MayLand
<1>7. Counted
  BY <1>2, <1>3 DEF Init, Counted
<1>. QED
  BY <1>1, <1>2, <1>4, <1>5, <1>6, <1>7 DEF ToolIInv

\* Counts and accounts, in a step that executes nothing.
LEMMA CountedStays ==
  ToolIInv /\ NoEffect => line' \in CommandLines /\ chain' \in Chains /\ Counted'
BY DEF ToolIInv, NoEffect, Counted

\* A command that is not waiting ends.
LEMMA Quits ==
  ASSUME ToolIInv, NoEffect, NothingWritten, todo' = todo, Idle, phase' = "failed" PROVE ToolIInv'
<1>1. line' \in CommandLines /\ chain' \in Chains /\ Counted' /\ Fits(line, todo)'
  BY CountedStays DEF ToolIInv, NoEffect
<1>2. flight = 0
  BY DEF ToolIInv, InOrder
<1>3. InOrder'
  BY <1>2 DEF ToolIInv, InOrder, NoEffect, LaterUnsent
<1>4. Written'
  BY <1>2 DEF ToolIInv, Written, NoEffect, NothingWritten, MayLand
<1>5. Announced'
  BY <1>2 DEF ToolIInv, Announced, NoEffect, NothingWritten, MayLand, Reports, Sending, Step
<1>. QED
  BY <1>1, <1>3, <1>4, <1>5 DEF ToolIInv

\* Nothing happens that the invariant speaks of.
LEMMA Stays ==
  ASSUME ToolIInv, NoEffect, NothingWritten, todo' = todo, phase' = phase PROVE ToolIInv'
<1>1. line' \in CommandLines /\ chain' \in Chains /\ Counted' /\ Fits(line, todo)'
  BY CountedStays DEF ToolIInv, NoEffect
<1>2. InOrder'
  BY DEF ToolIInv, InOrder, NoEffect, LaterUnsent, Unsent, Sending, Idle, Step
<1>3. Written'
  BY DEF ToolIInv, Written, NoEffect, NothingWritten, MayLand, Sending, Idle, Step
<1>4. Announced'
  BY DEF ToolIInv, Announced, NoEffect, NothingWritten, MayLand, Reports, Sending, Step
<1>. QED
  BY <1>1, <1>2, <1>3, <1>4 DEF ToolIInv

\* The process dies.
LEMMA Dies ==
  ASSUME ToolIInv, NoEffect, NothingWritten, todo' = todo, ~Ended, phase' = "crashed" PROVE ToolIInv'
<1>1. line' \in CommandLines /\ chain' \in Chains /\ Counted' /\ Fits(line, todo)'
  BY CountedStays DEF ToolIInv, NoEffect
<1>2. InOrder'
  BY DEF ToolIInv, InOrder, NoEffect, LaterUnsent, Unsent, Sending, Idle, Step
<1>3. Written'
  BY DEF ToolIInv, Written, NoEffect, NothingWritten, MayLand, Sending, Idle, Step
<1>4. Announced'
  BY DEF ToolIInv, Announced, NoEffect, NothingWritten, MayLand, Reports, Sending, Step
<1>. QED
  BY <1>1, <1>2, <1>3, <1>4 DEF ToolIInv

\* The command starts, finds the funds, or finishes.
LEMMA Opens ==
  ASSUME ToolIInv, NoEffect, UNCHANGED <<todo, journal>>, phase = "start", phase' = "planned",
         events' = IF Reports THEN events \cup {<<"planned", 0>>} ELSE events
  PROVE  ToolIInv'
<1>1. line' \in CommandLines /\ chain' \in Chains /\ Counted' /\ Fits(line, todo)'
  BY CountedStays DEF ToolIInv, NoEffect
<1>2. InOrder'
  BY DEF ToolIInv, InOrder, NoEffect, LaterUnsent, Unsent, Sending, Idle, Step
<1>3. Written'
  BY DEF ToolIInv, Written, NoEffect, MayLand, Sending, Idle, Step
<1>4. Announced'
  BY DEF ToolIInv, Announced, InOrder, NoEffect, MayLand, Reports, Sending, Step
<1>. QED
  BY <1>1, <1>2, <1>3, <1>4 DEF ToolIInv

LEMMA GoesOn ==
  ASSUME ToolIInv, NoEffect, UNCHANGED <<todo, journal>>, events \subseteq events',
         \/ phase = "planned" /\ phase' = "step"
         \/ phase = "step" /\ phase' = "verified"
  PROVE  ToolIInv'
<1>1. line' \in CommandLines /\ chain' \in Chains /\ Counted' /\ Fits(line, todo)'
  BY CountedStays DEF ToolIInv, NoEffect
<1>2. InOrder'
  BY DEF ToolIInv, InOrder, NoEffect, LaterUnsent, Unsent, Sending, Idle, Step
<1>3. Written'
  BY DEF ToolIInv, Written, InOrder, NoEffect, MayLand, Sending, Idle, Step
<1>4. Announced'
  BY DEF ToolIInv, Announced, NoEffect, MayLand, Reports, Sending, Step
<1>. QED
  BY <1>1, <1>2, <1>3, <1>4 DEF ToolIInv

\* A step that is no transaction is done.
LEMMA StepsOver ==
  ASSUME ToolIInv, phase = "step", todo # <<>>, ~Sending
  PROVE  /\ Fits(line, Tail(todo)) /\ Unsent(Tail(todo), executed)
         /\ LaterUnsent(Tail(todo), executed)
         /\ \A stage \in executed : stage \in journal.finalized
         /\ Reports => \A stage \in executed : <<"finalized", stage>> \in events
<1>1. Unsent(todo, executed)
  BY DEF ToolIInv, InOrder, Idle
<1>2. Unsent(Tail(todo), executed)
  BY <1>1, TailFits DEF ToolIInv, Unsent
<1>3. Fits(line, Tail(todo))
  BY TailFits DEF ToolIInv
<1>4. LaterUnsent(Tail(todo), executed)
  BY <1>2 DEF Unsent, LaterUnsent
<1>5. \A stage \in executed : stage \in journal.finalized
  BY DEF ToolIInv, Written
<1>6. Reports => \A stage \in executed : <<"finalized", stage>> \in events
  BY DEF ToolIInv, Announced
<1>. QED
  BY <1>2, <1>3, <1>4, <1>5, <1>6

LEMMA Passes ==
  ASSUME ToolIInv, NoEffect, NothingWritten, phase = "step", phase' = "step", todo # <<>>, ~Sending,
         NEW rest, todo' = rest, Fits(line, rest), Unsent(rest, executed)
  PROVE  ToolIInv'
<1>1. line' \in CommandLines /\ chain' \in Chains /\ Counted' /\ Fits(line, todo)'
  BY CountedStays DEF ToolIInv, NoEffect
<1>2. flight = 0
  BY DEF ToolIInv, InOrder, Idle
<1>3. InOrder'
  BY <1>2 DEF ToolIInv, InOrder, NoEffect, LaterUnsent, Unsent, Sending, Idle, Step
<1>4. Written'
  BY <1>2, StepsOver DEF ToolIInv, Written, NoEffect, NothingWritten, MayLand, Sending, Idle, Step
<1>5. Announced'
  BY <1>2, StepsOver DEF ToolIInv, Announced, NoEffect, NothingWritten, MayLand, Reports
<1>. QED
  BY <1>1, <1>3, <1>4, <1>5 DEF ToolIInv

\* A transaction is handed over.
LEMMA Submits ==
  ASSUME ToolIInv, UNCHANGED <<line, todo, journal, events, chain, executed, meddled>>, Sending,
         phase = "step", phase' = "await", flight' = flight + 1
  PROVE  ToolIInv'
<1>1. line' \in CommandLines /\ chain' \in Chains /\ Counted' /\ Fits(line, todo)'
  BY DEF ToolIInv, Counted
<1>2. flight = 0
  BY DEF ToolIInv, InOrder, Idle
<1>3. Step.stage \notin executed
  BY TailFits DEF ToolIInv, InOrder, Idle, Unsent, Sending, Step
<1>4. InOrder'
  BY <1>2, <1>3 DEF ToolIInv, InOrder, LaterUnsent, Sending, Idle, Step
<1>5. Written'
  BY DEF ToolIInv, Written, MayLand, Sending, Idle, Step
<1>6. Announced'
  BY DEF ToolIInv, Announced, MayLand, Reports, Sending, Step
<1>. QED
  BY <1>1, <1>4, <1>5, <1>6 DEF ToolIInv

\* The command ends with its transaction in the journal.
LEMMA Journals ==
  ASSUME ToolIInv, UNCHANGED <<line, todo, chain, executed, meddled>>, Sending,
         phase \in {"step", "await"}, phase' = "failed", Journaled(Step.stage), events \subseteq events',
         flight' = flight \/ (phase = "step" /\ flight' = flight + 1)
  PROVE  ToolIInv'
<1>1. line' \in CommandLines /\ chain' \in Chains /\ Counted' /\ Fits(line, todo)'
  BY DEF ToolIInv, Counted
<1>2. phase = "step" => flight = 0 /\ Step.stage \notin executed
  <2>1. phase = "step" => flight = 0
    BY DEF ToolIInv, InOrder, Idle
  <2>2. phase = "step" => Step.stage \notin executed
    BY TailFits DEF ToolIInv, InOrder, Idle, Unsent, Sending, Step
  <2>. QED
    BY <2>1, <2>2
<1>3. InOrder'
  BY <1>2 DEF ToolIInv, InOrder, LaterUnsent, Sending, Idle, Step
<1>4. /\ journal' = [finalized |-> journal.finalized, ambiguous |-> journal.ambiguous \cup {Step.stage}]
      /\ journal'.finalized = journal.finalized
      /\ journal'.ambiguous = journal.ambiguous \cup {Step.stage}
  <2>1. journal = [finalized |-> journal.finalized, ambiguous |-> journal.ambiguous]
    BY DEF ToolIInv, Written
  <2>2. journal' = [journal EXCEPT !.ambiguous = @ \cup {Step.stage}]
    BY DEF Journaled
  <2>. DEFINE f == journal.finalized
              a == journal.ambiguous
  <2>3. journal = [finalized |-> f, ambiguous |-> a]
    BY <2>1
  <2>4. journal' = [journal EXCEPT !.ambiguous = a \cup {Step.stage}]
    BY <2>2
  <2>. HIDE DEF f, a
  <2>5. journal' = [finalized |-> f, ambiguous |-> a \cup {Step.stage}]
    BY <2>3, <2>4
  <2>. QED
    BY <2>5 DEF f, a
<1>5. Written'
  <2>1. \A stage \in executed : stage \in journal.finalized \/ stage = Step.stage
    BY DEF ToolIInv, Written
  <2>2. Step' = Step
    BY DEF Step
  <2>3. MayLand' \subseteq executed \cup {Step.stage}
    BY <2>2 DEF MayLand
  <2>4. Sending' /\ ~Idle'
    BY DEF Sending, Step, Idle
  <2>5. journal.finalized \subseteq executed
    BY DEF ToolIInv, Written
  <2>6. MayLand' \subseteq journal'.finalized \cup journal'.ambiguous
    BY <1>4, <2>1, <2>3
  <2>7. journal' = [finalized |-> journal'.finalized, ambiguous |-> journal'.ambiguous]
    BY <1>4
  <2>. QED
    BY <1>4, <2>1, <2>2, <2>4, <2>5, <2>6, <2>7 DEF Written
<1>6. Announced'
  BY DEF ToolIInv, Announced, MayLand, Reports, Sending, Step
<1>. QED
  BY <1>1, <1>3, <1>5, <1>6 DEF ToolIInv

\* A transaction is final, and in the journal.
LEMMA Confirms ==
  ASSUME ToolIInv, Confirm PROVE ToolIInv'
<1>1. line' \in CommandLines /\ chain' \in Chains /\ Counted'
  BY DEF ToolIInv, Counted, Confirm
<1>2. Sending /\ flight = 0 /\ flight' = 0 /\ executed' = executed /\ Step.stage \in executed
  BY DEF ToolIInv, InOrder, Confirm
<1>3. Fits(line, Tail(todo)) /\ Unsent(Tail(todo), executed) /\ LaterUnsent(Tail(todo), executed)
  <2>1. Fits(line, Tail(todo))
    BY <1>2, TailFits DEF ToolIInv, Sending
  <2>2. \A k \in DOMAIN Tail(todo) : /\ k + 1 \in DOMAIN todo /\ Tail(todo)[k] = todo[k + 1]
                                     /\ k + 1 # 1
    BY <1>2, TailFits DEF ToolIInv, Sending
  <2>3. Unsent(Tail(todo), executed)
    BY <2>2 DEF ToolIInv, InOrder, LaterUnsent, Unsent
  <2>. QED
    BY <2>1, <2>3 DEF Unsent, LaterUnsent
<1>4. /\ journal' = [finalized |-> journal.finalized \cup {Step.stage}, ambiguous |-> journal.ambiguous]
      /\ journal'.finalized = journal.finalized \cup {Step.stage}
      /\ journal'.ambiguous = journal.ambiguous
  <2>1. journal = [finalized |-> journal.finalized, ambiguous |-> journal.ambiguous]
    BY DEF ToolIInv, Written
  <2>2. journal' = [journal EXCEPT !.finalized = @ \cup {Step.stage}]
    BY DEF Confirm
  <2>. DEFINE f == journal.finalized
              a == journal.ambiguous
  <2>3. journal = [finalized |-> f, ambiguous |-> a]
    BY <2>1
  <2>4. journal' = [journal EXCEPT !.finalized = f \cup {Step.stage}]
    BY <2>2
  <2>. HIDE DEF f, a
  <2>5. journal' = [finalized |-> f \cup {Step.stage}, ambiguous |-> a]
    BY <2>3, <2>4
  <2>. QED
    BY <2>5 DEF f, a
<1>5. executed \subseteq journal'.finalized /\ journal'.finalized \subseteq executed
      /\ journal'.ambiguous = {}
  BY <1>2, <1>4 DEF ToolIInv, Written, Confirm
<1>6. MayLand' = executed
  BY <1>2 DEF MayLand
<1>7. journal' = [finalized |-> journal'.finalized, ambiguous |-> journal'.ambiguous]
  BY <1>4
<1>8. Written'
  BY <1>2, <1>5, <1>6, <1>7 DEF Written
<1>9. CASE Advance /\ events' = IF Reports THEN events \cup {<<"finalized", Step.stage>>} ELSE events
  <2>1. phase' = "step" /\ todo' = Tail(todo) /\ line' = line
    BY <1>9 DEF Advance, Confirm
  <2>2. InOrder'
    BY <1>2, <1>3, <2>1 DEF InOrder, Idle
  <2>3. Announced'
    <3>1. Reports' = Reports
      BY <2>1 DEF Reports
    <3>2. ASSUME Reports
          PROVE  <<"planned", 0>> \in events' /\ \A stage \in executed : <<"finalized", stage>> \in events'
      <4>1. events' = events \cup {<<"finalized", Step.stage>>}
        BY <1>9, <3>2
      <4>2. <<"planned", 0>> \in events
        BY <3>2 DEF ToolIInv, Announced, Confirm
      <4>3. \A stage \in executed : <<"finalized", stage>> \in events \/ stage = Step.stage
        BY <3>2 DEF ToolIInv, Announced
      <4>. QED
        BY <4>1, <4>2, <4>3
    <3>. QED
      BY <1>2, <3>1, <3>2 DEF Announced
  <2>4. Fits(line, todo)'
    BY <1>3, <2>1
  <2>. QED
    BY <1>1, <1>8, <2>2, <2>3, <2>4 DEF ToolIInv
<1>10. CASE Fail /\ UNCHANGED events
  <2>1. phase' = "failed" /\ todo' = todo /\ line' = line /\ events' = events
    BY <1>10 DEF Fail, Goes, Confirm
  <2>2. InOrder'
    BY <1>2, <2>1 DEF ToolIInv, InOrder, LaterUnsent, Idle
  <2>3. Announced'
    BY <1>2, <2>1 DEF ToolIInv, Announced, Confirm, Reports, MayLand, Sending, Step
  <2>4. Fits(line, todo)'
    BY <2>1 DEF ToolIInv
  <2>. QED
    BY <1>1, <1>8, <2>2, <2>3, <2>4 DEF ToolIInv
<1>. QED
  BY <1>9, <1>10 DEF Confirm

\* A copy of a transaction is gone.
LEMMA Drops ==
  ASSUME ToolIInv, UNCHANGED <<line, phase, todo, journal, events, chain, executed, meddled>>,
         flight > 0, flight' \in {flight, flight - 1}
  PROVE  ToolIInv'
<1>1. line' \in CommandLines /\ chain' \in Chains /\ Counted' /\ Fits(line, todo)'
  BY DEF ToolIInv, Counted
<1>2. flight = 1
  BY DEF ToolIInv, InOrder
<1>3. InOrder'
  BY <1>2 DEF ToolIInv, InOrder, LaterUnsent, Sending, Idle, Step
<1>4. Written'
  BY <1>2 DEF ToolIInv, Written, MayLand, Sending, Idle, Step
<1>5. Announced'
  BY <1>2 DEF ToolIInv, Announced, MayLand, Reports, Sending, Step
<1>. QED
  BY <1>1, <1>3, <1>4, <1>5 DEF ToolIInv

\* A transaction is executed: once, for its stage was not executed before.
LEMMA Executes ==
  ASSUME ToolIInv, Execute PROVE ToolIInv'
<1>1. /\ Sending /\ flight = 1 /\ flight' = 0 /\ ~Idle /\ Step.stage \notin executed
      /\ UNCHANGED <<line, phase, todo, journal, events, meddled>>
      /\ executed' = executed \cup {Step.stage} /\ chain' = After(Step, chain)
  BY DEF ToolIInv, InOrder, Execute, command
<1>2. Lawful(line, Step) /\ 1 \in DOMAIN todo /\ todo[1] = Step
  BY <1>1, TailFits DEF ToolIInv, Sending, Step
<1>3. /\ chain' \in Chains
      /\ chain'[Supply(line)].amount = chain[Supply(line)].amount + Minted(line, Step.stage)
      /\ chain'[Program].amount = chain[Program].amount + Called(Step.stage)
  BY <1>1, <1>2 DEF Lawful, ToolIInv, Execute, Sending
<1>4. Counted'
  <2>1. Supply(line)' = Supply(line) /\ MintStage(line)' = MintStage(line) /\ Wanted(line)' = Wanted(line)
    BY <1>1
  <2>2. Wanted(line) \in Nat
    BY WantedNat DEF ToolIInv
  <2>3. ~meddled => chain'[Supply(line)].amount
                     = IF MintStage(line) \in executed' THEN Wanted(line) ELSE 0
    BY <1>1, <1>3, <2>2 DEF ToolIInv, Counted, Minted
  <2>4. /\ chain'[Program].amount \in {0, 1}
        /\ chain'[Program].amount = 1 => CallStage \in executed'
    BY <1>1, <1>3 DEF ToolIInv, Counted, Called
  <2>. QED
    BY <1>1, <2>3, <2>4 DEF Counted
<1>5. InOrder'
  <2>1. \A k \in DOMAIN todo : k # 1 /\ todo[k].op = "send" => todo[k].stage # Step.stage
    BY <1>1, <1>2 DEF ToolIInv, Fits, Once, Sending
  <2>2. LaterUnsent(todo, executed')
    BY <1>1, <2>1 DEF ToolIInv, InOrder, LaterUnsent
  <2>. QED
    BY <1>1, <2>2 DEF ToolIInv, InOrder, LaterUnsent, Idle, Sending, Step
<1>6. Written'
  BY <1>1 DEF ToolIInv, Written, MayLand, Idle, Sending, Step
<1>7. Announced'
  BY <1>1 DEF ToolIInv, Announced, MayLand, Reports, Sending, Step
<1>8. line' \in CommandLines /\ Fits(line, todo)'
  BY <1>1 DEF ToolIInv
<1>. QED
  BY <1>3, <1>4, <1>5, <1>6, <1>7, <1>8 DEF ToolIInv

\* Somebody else uses a key.
LEMMA Meddles ==
  ASSUME ToolIInv, Meddle PROVE ToolIInv'
<1>1. UNCHANGED <<line, phase, todo, journal, events, flight, executed>> /\ meddled'
  BY DEF Meddle, command
<1>2. /\ chain' \in Chains
      /\ chain'[Program].amount \in {0, 1}
      /\ chain'[Program].amount = 1 => chain[Program].amount = 1
  <2>0. chain \in Chains /\ chain[Program].amount \in {0, 1} /\ Program \in Accounts
    BY Roles DEF ToolIInv, Counted
  <2>1. CASE UNCHANGED chain
    BY <2>0, <2>1
  <2>2. CASE chain' = [chain EXCEPT ![Supply(line)].amount = @ + 1]
    <3>1. Supply(line) \in Accounts /\ Supply(line) # Program
      BY Roles DEF Supply, Mint, TokenType, Program
    <3>2. chain' = Credited(chain, Supply(line), 1)
      BY <2>2 DEF Credited
    <3>. QED
      BY <2>0, <3>1, <3>2, CreditedType, CreditedElsewhere
  <2>3. ASSUME NEW a \in Accounts, chain' = [chain EXCEPT ![a].amount = 0]
        PROVE  /\ chain' \in Chains
               /\ chain'[Program].amount \in {0, 1}
               /\ chain'[Program].amount = 1 => chain[Program].amount = 1
    <3>. DEFINE state == Amounting(chain[a], 0)
    <3>1. chain' = Put(chain, a, state)
      BY <2>3 DEF Put, Amounting
    <3>2. state \in AccountStates /\ state.amount = 0
      BY <2>0, AmountingType DEF Chains
    <3>. HIDE DEF state
    <3>. QED
      BY <2>0, <3>1, <3>2, PutType, PutElsewhere
  <2>. QED
    BY <2>1, <2>2, <2>3 DEF Meddle
<1>3. Counted'
  BY <1>1, <1>2 DEF ToolIInv, Counted
<1>4. InOrder'
  BY <1>1 DEF ToolIInv, InOrder, LaterUnsent, Unsent, Sending, Idle, Step
<1>5. Written'
  BY <1>1 DEF ToolIInv, Written, MayLand, Sending, Idle, Step
<1>6. Announced'
  BY <1>1 DEF ToolIInv, Announced, MayLand, Reports, Sending, Step
<1>7. line' \in CommandLines /\ Fits(line, todo)'
  BY <1>1 DEF ToolIInv
<1>. QED
  BY <1>2, <1>3, <1>4, <1>5, <1>6, <1>7 DEF ToolIInv

-----------------------------------------------------------------------------
(* The steps.                                                              *)

LEMMA RunsInv == ToolIInv /\ Runs => ToolIInv'
<1>. SUFFICES ASSUME ToolIInv, Runs PROVE ToolIInv'
  OBVIOUS
<1>1. CASE Refuse
  BY <1>1, Quits DEF Refuse, Fail, Goes, Idle, NoEffect, NothingWritten, world
<1>2. CASE Start
  <2>1. CASE Goes("planned") /\ events' = IF Reports THEN events \cup {<<"planned", 0>>} ELSE events
    BY <1>2, <2>1, Opens DEF Start, Goes, NoEffect, world
  <2>2. CASE Reports /\ Fail /\ UNCHANGED events
    BY <1>2, <2>2, Quits DEF Start, Fail, Goes, Idle, NoEffect, NothingWritten, world
  <2>. QED
    BY <1>2, <2>1, <2>2 DEF Start
<1>3. CASE CheckFunds
  <2>1. CASE Goes("step")
    BY <1>3, <2>1, GoesOn DEF CheckFunds, Goes, NoEffect, NothingWritten, world
  <2>2. CASE Fail
    BY <1>3, <2>2, Quits DEF CheckFunds, Fail, Goes, Idle, NoEffect, NothingWritten, world
  <2>. QED
    BY <1>3, <2>1, <2>2 DEF CheckFunds
<1>4. CASE NotBuilt \/ Differs \/ ProbeLiquidity
  BY <1>4, Quits DEF NotBuilt, Differs, ProbeLiquidity, At, Fail, Goes, Idle, NoEffect, NothingWritten, world
<1>5. CASE PreflightRefused \/ SubmitUnknown \/ GiveUp
  <2>1. Sending /\ phase \in {"step", "await"} /\ phase' = "failed" /\ Journaled(Step.stage)
    BY <1>5 DEF PreflightRefused, SubmitUnknown, GiveUp, At, Fail, Goes, Sending, ToolIInv, InOrder
  <2>2. /\ UNCHANGED <<line, todo, chain, executed, meddled>>
        /\ events \subseteq events'
        /\ flight' = flight \/ (phase = "step" /\ flight' = flight + 1)
    BY <1>5 DEF PreflightRefused, SubmitUnknown, GiveUp, At, Fail, Goes, world
  <2>. QED
    BY <2>1, <2>2, Journals
<1>6. CASE InvisibleProgram
  <2>1. CASE Fail
    BY <1>6, <2>1, Quits DEF InvisibleProgram, At, Fail, Goes, Idle, NoEffect, NothingWritten, world
  <2>2. CASE UNCHANGED <<phase, todo>>
    BY <1>6, <2>2, Stays DEF InvisibleProgram, NoEffect, NothingWritten, world
  <2>. QED
    BY <1>6, <2>1, <2>2 DEF InvisibleProgram
<1>7. CASE Submit
  BY <1>7, Submits DEF Submit, At, Goes, Sending
<1>8. CASE Confirm
  BY <1>8, Confirms
<1>9. CASE ReadAgain
  BY <1>9, Stays DEF ReadAgain, NoEffect, NothingWritten, world
<1>10. CASE Verified \/ ShowStored
  <2>1. /\ NoEffect /\ NothingWritten /\ phase = "step" /\ phase' = "step" /\ todo # <<>> /\ ~Sending
        /\ todo' = Tail(todo)
    BY <1>10 DEF Verified, ShowStored, At, Advance, Sending, NoEffect, NothingWritten, world
  <2>2. Fits(line, Tail(todo)) /\ Unsent(Tail(todo), executed)
    BY <2>1, StepsOver
  <2>. QED
    BY <2>1, <2>2, Passes
<1>11. CASE Find
  <2>1. /\ NoEffect /\ NothingWritten /\ phase = "step" /\ phase' = "step" /\ todo # <<>> /\ ~Sending
        /\ Head(todo).op = "find"
        /\ todo' = Tail(todo) \/ todo' = Tail(Tail(todo))
    BY <1>11 DEF Find, At, Step, Advance, Sending, NoEffect, NothingWritten, world
  <2>2. Fits(line, Tail(todo)) /\ Unsent(Tail(todo), executed) /\ Tail(todo) # <<>>
    BY <2>1, StepsOver, TailFits DEF ToolIInv
  <2>3. Fits(line, Tail(Tail(todo)))
    BY <2>2, TailFits
  <2>4. Unsent(Tail(Tail(todo)), executed)
    <3>. DEFINE p == Tail(todo)
    <3>1. Fits(line, p) /\ p # <<>> /\ Unsent(p, executed)
      BY <2>2
    <3>. HIDE DEF p
    <3>2. \A k \in DOMAIN Tail(p) : /\ k + 1 \in DOMAIN p /\ Tail(p)[k] = p[k + 1]
                                    /\ k + 1 # 1
      BY <3>1, TailFits
    <3>3. Unsent(Tail(p), executed)
      BY <3>1, <3>2 DEF Unsent
    <3>. QED
      BY <3>3 DEF p
  <2>. QED
    BY <2>1, <2>2, <2>3, <2>4, Passes
<1>12. CASE Finish
  <2>1. CASE Goes("verified") /\ events' = IF Reports THEN events \cup {<<"verified", 0>>} ELSE events
    <3>1. events \subseteq events'
      BY <2>1
    <3>. QED
      BY <1>12, <2>1, <3>1, GoesOn DEF Finish, Goes, NoEffect, world
  <2>2. CASE Reports /\ Fail /\ UNCHANGED events
    BY <1>12, <2>2, Quits DEF Finish, Fail, Goes, Idle, NoEffect, NothingWritten, world
  <2>. QED
    BY <1>12, <2>1, <2>2 DEF Finish
<1>. QED
  BY <1>1, <1>2, <1>3, <1>4, <1>5, <1>6, <1>7, <1>8, <1>9, <1>10, <1>11, <1>12 DEF Runs

LEMMA NextInv == ToolIInv /\ [Next]_vars => ToolIInv'
<1>. SUFFICES ASSUME ToolIInv, [Next]_vars PROVE ToolIInv'
  OBVIOUS
<1>1. CASE Runs
  BY <1>1, RunsInv
<1>2. CASE Deadline \/ UNCHANGED vars
  BY <1>2, Stays DEF Deadline, vars, NoEffect, NothingWritten, command, world
<1>3. CASE Crash
  BY <1>3, Dies DEF Crash, NoEffect, NothingWritten, world
<1>4. CASE Execute
  BY <1>4, Executes
<1>5. CASE ErrOnFork \/ Vanish
  BY <1>5, Drops DEF ErrOnFork, Vanish, command
<1>6. CASE Meddle
  BY <1>6, Meddles
<1>. QED
  BY <1>1, <1>2, <1>3, <1>4, <1>5, <1>6 DEF Next

LEMMA ToolInductive == Spec => []ToolIInv
BY InitInv, NextInv, PTL DEF Spec

\* Whatever replies are lost, forks abandoned or processes killed, the journal
\* and the events a command leaves account for every transaction that was or
\* may still be executed (SubmittedSignatures and NonFinalizedSignatures), the
\* supply never exceeds the amount asked for and Invoke calls its program at
\* most once.
THEOREM SubmissionsAreAccounted == Spec => []SubmissionsAccounted
<1>1. ToolIInv => JournalIsComplete
  <2>. SUFFICES ASSUME ToolIInv, phase \in {"failed", "verified"}
                PROVE  /\ MayLand \subseteq journal.finalized \cup journal.ambiguous
                       /\ journal.finalized \subseteq executed
                       /\ phase = "verified" => journal.ambiguous = {}
    BY DEF JournalIsComplete
  <2>1. CASE phase = "failed"
    BY <2>1 DEF ToolIInv, Written
  <2>2. CASE phase = "verified"
    <3>1. flight = 0 /\ \A stage \in executed : stage \in journal.finalized
      BY <2>2 DEF ToolIInv, InOrder, Written, Idle
    <3>. QED
      BY <2>2, <3>1 DEF ToolIInv, Written, MayLand
  <2>. QED
    BY <2>1, <2>2
<1>2. ToolIInv => EventsSurvive
  BY DEF ToolIInv, Announced, EventsSurvive, Sending
<1>3. ToolIInv => NothingTwice
  <2>. SUFFICES ASSUME ToolIInv PROVE NothingTwice
    OBVIOUS
  <2>1. Wanted(line) \in Nat
    BY WantedNat DEF ToolIInv
  <2>. QED
    BY <2>1 DEF ToolIInv, Counted, NothingTwice
<1>4. ToolIInv => SubmissionsAccounted
  BY <1>1, <1>2, <1>3 DEF SubmissionsAccounted, JournalKept
<1>. QED
  BY <1>4, ToolInductive, PTL

-----------------------------------------------------------------------------
(* The reserve.                                                            *)

\* The stages of the tools that look at the payer's balance.
PlanStages(c) ==
  CASE c.tool \in {"gospl-init", "hellogo-init"} ->
         {<<"create_mint", 0>>, <<"create_account", 0>>, <<"mint_to", 0>>}
    [] c.tool = "erc1155-init" ->
         {<<"create_collection", 0>>, <<"create_token_type", 0>>, <<"create_balance", 0>>,
          <<"mint_to", 0>>}
    [] c.tool = "token2022-init" ->
         IF c.atomic THEN {<<"atomic", 0>>}
         ELSE {<<"create_mint", 0>>, <<"create_account", 0>>, <<"mint_to", 0>>}
              \cup (IF c.metadata THEN {<<"create_metadata", 0>>} ELSE {})
    [] c.tool = "token2022-init-multisend" ->
         {<<"create_mint", 0>>, <<"create_account", 0>>, <<"mint_to", 0>>,
          <<"initialize_metadata", 0>>}
         \cup RecipientStages(c.recipients)
    [] OTHER ->
         {<<"create_mint", 0>>, <<"create_account", 0>>, <<"mint_to", 0>>, <<"create_nft", 0>>}

Prices(c) == [stage \in PlanStages(c) |-> Price(c, stage)]

\* What the checks of the balance do not see: erc1155-init adds up what it needs
\* without a guard, and so does token2022-nft-init the fee of Metaplex; the
\* multisend's reserve is twenty fees, whatever the number of its recipients, each
\* of whom costs three, and whatever its associated account costs above the rent
\* of a bare one.
WithinReserve(c) ==
  /\ c.tool = "erc1155-init" => 3 * Rent + Reserve < U64
  /\ c.tool = "token2022-nft-init" => CreateFee < U64
  /\ c.tool = "token2022-init-multisend" =>
       (AssociatedCost(c) - Rent) + 3 * c.recipients <= 15 + c.liquidity

LEMMA SumOne ==
  ASSUME NEW f, NEW a, f[a] \in Int PROVE SumFunctionOnSet(f, {a}) = f[a]
<1>1. IsFiniteSet({}) /\ {} \cup {a} = {a}
  BY FS_EmptySet
<1>2. SumFunctionOnSet(f, {} \cup {a}) = SumFunctionOnSet(f, {}) + f[a]
  BY <1>1, SumAdd
<1>. QED
  BY <1>1, <1>2, SumEmpty

LEMMA FewFinite ==
  ASSUME NEW a, NEW b, NEW c, NEW d
  PROVE  IsFiniteSet({a}) /\ IsFiniteSet({a, b}) /\ IsFiniteSet({a, b, c}) /\ IsFiniteSet({a, b, c, d})
<1>1. IsFiniteSet({})
  BY FS_EmptySet
<1>2. /\ {a} = {} \cup {a} /\ {a, b} = {a} \cup {b} /\ {a, b, c} = {a, b} \cup {c}
      /\ {a, b, c, d} = {a, b, c} \cup {d}
  OBVIOUS
<1>3. IsFiniteSet({} \cup {a})
  BY <1>1, FS_AddElement
<1>4. IsFiniteSet({a} \cup {b})
  BY <1>2, <1>3, FS_AddElement
<1>5. IsFiniteSet({a, b} \cup {c})
  BY <1>2, <1>4, FS_AddElement
<1>6. IsFiniteSet({a, b, c} \cup {d})
  BY <1>2, <1>5, FS_AddElement
<1>. QED
  BY <1>2, <1>3, <1>4, <1>5, <1>6

LEMMA SumThree ==
  ASSUME NEW f, NEW a, NEW b, NEW c, a # b, a # c, b # c,
         f[a] \in Int, f[b] \in Int, f[c] \in Int
  PROVE  /\ SumFunctionOnSet(f, {a, b, c}) = f[a] + f[b] + f[c]
         /\ IsFiniteSet({a, b, c})
<1>1. IsFiniteSet({a}) /\ IsFiniteSet({a, b}) /\ IsFiniteSet({a, b, c})
  BY FewFinite
<1>2. {a} \cup {b} = {a, b} /\ {a, b} \cup {c} = {a, b, c} /\ b \notin {a} /\ c \notin {a, b}
  OBVIOUS
<1>3. SumFunctionOnSet(f, {a} \cup {b}) = SumFunctionOnSet(f, {a}) + f[b]
  BY <1>1, <1>2, SumAdd
<1>4. SumFunctionOnSet(f, {a, b} \cup {c}) = SumFunctionOnSet(f, {a, b}) + f[c]
  BY <1>1, <1>2, SumAdd
<1>. QED
  BY <1>1, <1>2, <1>3, <1>4, SumOne

LEMMA SumFour ==
  ASSUME NEW f, NEW a, NEW b, NEW c, NEW d, a # b, a # c, b # c, d \notin {a, b, c},
         f[a] \in Int, f[b] \in Int, f[c] \in Int, f[d] \in Int
  PROVE  /\ SumFunctionOnSet(f, {a, b, c, d}) = f[a] + f[b] + f[c] + f[d]
         /\ IsFiniteSet({a, b, c, d})
<1>1. IsFiniteSet({a, b, c}) /\ IsFiniteSet({a, b, c, d})
  BY FewFinite
<1>2. {a, b, c} \cup {d} = {a, b, c, d}
  OBVIOUS
<1>3. SumFunctionOnSet(f, {a, b, c} \cup {d}) = SumFunctionOnSet(f, {a, b, c}) + f[d]
  BY <1>1, SumAdd
<1>4. SumFunctionOnSet(f, {a, b, c}) = f[a] + f[b] + f[c] /\ IsFiniteSet({a, b, c})
  BY SumThree
<1>. QED
  BY <1>1, <1>2, <1>3, <1>4

\* What the recipients cost.
LEMMA SumRecipients ==
  ASSUME NEW f, NEW S, IsFiniteSet(S), \A x \in S : f[x] \in Int, NEW n \in Nat,
         S \cap RecipientStages(n) = {},
         \A k \in 1..n : f[<<"create_recipient", k>>] = 2 + Rent /\ f[<<"transfer", k>>] = 1
  PROVE  /\ SumFunctionOnSet(f, S \cup RecipientStages(n)) = SumFunctionOnSet(f, S) + 3 * n + n * Rent
         /\ IsFiniteSet(S \cup RecipientStages(n))
<1>0. Rent \in Int
  BY ToolAssumption DEF ToolAssumption
<1>1. SumFunctionOnSet(f, S) \in Int
  BY SumInt
<1>. DEFINE T(k) == S \cup RecipientStages(k)
            Total(k) == SumFunctionOnSet(f, S) + 3 * k + k * Rent
            Good == {k \in 0..n : /\ IsFiniteSet(T(k)) /\ \A x \in T(k) : f[x] \in Int
                                  /\ SumFunctionOnSet(f, T(k)) = Total(k)}
<1>2. 0 \in Good
  <2>1. T(0) = S
    BY DEF RecipientStages
  <2>2. Total(0) = SumFunctionOnSet(f, S)
    BY <1>0, <1>1
  <2>3. 0 \in 0..n
    OBVIOUS
  <2>. QED
    BY <2>1, <2>2, <2>3
<1>3. ASSUME NEW k \in 1..n, k - 1 \in Good PROVE k \in Good
  <2>. DEFINE a == <<"create_recipient", k>>
              b == <<"transfer", k>>
              before == T(k - 1)
  <2>1. /\ IsFiniteSet(before) /\ \A x \in before : f[x] \in Int
        /\ SumFunctionOnSet(f, before) = Total(k - 1)
    BY <1>3
  <2>2. T(k) = (before \cup {a}) \cup {b}
    BY DEF RecipientStages
  <2>3. a \in RecipientStages(n) /\ b \in RecipientStages(n)
    BY DEF RecipientStages
  <2>4. a \notin RecipientStages(k - 1) /\ b \notin RecipientStages(k - 1) /\ a # b
    BY DEF RecipientStages
  <2>5. a \notin before /\ b \notin before \cup {a}
    BY <2>3, <2>4
  <2>6. f[a] = 2 + Rent /\ f[b] = 1 /\ f[a] \in Int /\ f[b] \in Int
    BY <1>0
  <2>. HIDE DEF before, a, b, T
  <2>7. IsFiniteSet(before \cup {a}) /\ IsFiniteSet((before \cup {a}) \cup {b})
    BY <2>1, FS_AddElement
  <2>8. SumFunctionOnSet(f, before \cup {a}) = SumFunctionOnSet(f, before) + f[a]
    BY <2>1, <2>5, <2>6, SumAdd
  <2>9. SumFunctionOnSet(f, (before \cup {a}) \cup {b})
          = SumFunctionOnSet(f, before \cup {a}) + f[b]
    BY <2>1, <2>5, <2>6, <2>7, SumAdd
  <2>10. Total(k) = Total(k - 1) + 2 + Rent + 1
    <3>1. k * Rent = (k - 1) * Rent + Rent /\ k * Rent \in Int /\ (k - 1) * Rent \in Int
      BY <1>0
    <3>. QED
      BY <1>0, <1>1, <3>1
  <2>11. Total(k - 1) \in Int
    <3>1. (k - 1) * Rent \in Int
      BY <1>0
    <3>. QED
      BY <1>1, <3>1
  <2>. HIDE DEF Total
  <2>12. SumFunctionOnSet(f, T(k)) = Total(k)
    BY <1>0, <2>1, <2>2, <2>6, <2>8, <2>9, <2>10, <2>11
  <2>13. IsFiniteSet(T(k)) /\ \A x \in T(k) : f[x] \in Int
    BY <2>1, <2>2, <2>6, <2>7
  <2>14. k \in 0..n
    OBVIOUS
  <2>. QED
    BY <2>12, <2>13, <2>14
<1>4. 0..n \subseteq Good
  <2>. HIDE DEF Good
  <2>. QED
    BY <1>2, <1>3, Climb
<1>5. n \in Good
  BY <1>4
<1>. QED
  BY <1>5

LEMMA PriceNat == \A c, stage : Price(c, stage) \in Nat
<1>1. Rent \in Nat /\ MetadataFee \in Nat
  BY ToolAssumption DEF ToolAssumption, MetadataFee
<1>. TAKE c, stage
<1>. DEFINE m == IF c.metadata THEN MetadataFee ELSE 0
<1>2. m \in Nat
  BY <1>1
<1>. HIDE DEF m
<1>4. AssociatedCost(c) \in Nat
  BY ToolAssumption DEF ToolAssumption, AssociatedCost
<1>3. Price(c, stage) \in {2 + Rent, 1 + AssociatedCost(c), 1 + MetadataFee, 1 + MetadataFee + Rent,
                           2 + Rent + AssociatedCost(c) + m, 2, 1}
  BY DEF Price, m
<1>. QED
  BY <1>1, <1>2, <1>3, <1>4

LEMMA PlanInStages ==
  \A c \in CommandLines : c.tool \in Budgeted => Stages(Plan(c)) \subseteq PlanStages(c)
<1>. SUFFICES ASSUME NEW c \in CommandLines, c.tool \in Budgeted
              PROVE  Stages(Plan(c)) \subseteq PlanStages(c)
  OBVIOUS
<1>1. CASE c.tool \in {"gospl-init", "hellogo-init"}
  <2>1. Plan(c) = GosplPlan(c)
    BY <1>1 DEF Plan, HelloGoPlan
  <2>2. PlanStages(c) = {<<"create_mint", 0>>, <<"create_account", 0>>, <<"mint_to", 0>>}
    BY <1>1 DEF PlanStages
  <2>. QED
    BY <1>1, <2>1, <2>2, GosplFits
<1>2. CASE c.tool = "erc1155-init"
  <2>1. Plan(c) = Erc1155Plan(c)
    BY <1>2 DEF Plan
  <2>2. PlanStages(c) = {<<"create_collection", 0>>, <<"create_token_type", 0>>,
                         <<"create_balance", 0>>, <<"mint_to", 0>>}
    BY <1>2 DEF PlanStages
  <2>. QED
    BY <1>2, <2>1, <2>2, Erc1155Fits
<1>3. CASE c.tool = "token2022-init"
  <2>1. Plan(c) = IF c.atomic THEN Token2022Atomic(c) ELSE Token2022Staged(c)
    BY <1>3 DEF Plan, Token2022Plan
  <2>2. PlanStages(c) = IF c.atomic THEN {<<"atomic", 0>>}
                        ELSE {<<"create_mint", 0>>, <<"create_account", 0>>, <<"mint_to", 0>>}
                             \cup (IF c.metadata THEN {<<"create_metadata", 0>>} ELSE {})
    BY <1>3 DEF PlanStages
  <2>3. CASE c.atomic
    BY <1>3, <2>1, <2>2, <2>3, AtomicFits
  <2>4. CASE ~c.atomic
    BY <1>3, <2>1, <2>2, <2>4, StagedFits
  <2>. QED
    BY <2>3, <2>4
<1>4. CASE c.tool = "token2022-init-multisend"
  <2>1. Plan(c) = MultisendPlan(c)
    BY <1>4 DEF Plan
  <2>2. PlanStages(c) = {<<"create_mint", 0>>, <<"create_account", 0>>, <<"mint_to", 0>>,
                         <<"initialize_metadata", 0>>}
                        \cup RecipientStages(c.recipients)
    BY <1>4 DEF PlanStages
  <2>. QED
    BY <1>4, <2>1, <2>2, MultisendPlanFits
<1>5. CASE c.tool = "token2022-nft-init"
  <2>1. Plan(c) = NftPlan(c)
    BY <1>5 DEF Plan
  <2>2. PlanStages(c) = {<<"create_mint", 0>>, <<"create_account", 0>>, <<"mint_to", 0>>,
                         <<"create_nft", 0>>}
    BY <1>5 DEF PlanStages
  <2>. QED
    BY <1>5, <2>1, <2>2, NftFits
<1>. QED
  BY <1>1, <1>2, <1>3, <1>4, <1>5 DEF Budgeted

\* A plan costs no more than what the command asked its payer for.
LEMMA PlanCosts ==
  ASSUME NEW c \in CommandLines, c.tool \in Budgeted, WithinReserve(c)
  PROVE  /\ IsFiniteSet(PlanStages(c))
         /\ SumFunctionOnSet(Prices(c), PlanStages(c)) \in Nat
         /\ Needs(c) \in Nat
         /\ SumFunctionOnSet(Prices(c), PlanStages(c)) <= Needs(c)
<1>. DEFINE f == Prices(c)
            S == PlanStages(c)
            Enough(n) == /\ IsFiniteSet(S) /\ n \in Nat /\ SumFunctionOnSet(f, S) <= n
<1>. DEFINE cost == AssociatedCost(c)
<1>0. /\ Rent \in Nat /\ MetadataFee \in Nat /\ U64 \in Nat /\ Rent + Rent + Rent + Reserve \in Nat
      /\ AssociatedRent \in Nat /\ cost \in Nat /\ cost <= AssociatedRent
  BY ToolAssumption DEF ToolAssumption, Reserve, MetadataFee, AssociatedCost
<1>1. \A stage \in S : f[stage] = Price(c, stage) /\ f[stage] \in Nat
  BY PriceNat DEF Prices
<1>. HIDE DEF f, S, cost
<1>2. CASE c.tool \in {"gospl-init", "hellogo-init"}
  <2>. DEFINE a == <<"create_mint", 0>>
              b == <<"create_account", 0>>
              d == <<"mint_to", 0>>
  <2>1. S = {a, b, d} /\ a # b /\ a # d /\ b # d
    BY <1>2 DEF PlanStages, S
  <2>2. Price(c, a) = 2 + Rent /\ Price(c, b) = 2 + Rent /\ Price(c, d) = 1
    BY <1>2 DEF Price
  <2>. HIDE DEF a, b, d
  <2>3. f[a] = 2 + Rent /\ f[b] = 2 + Rent /\ f[d] = 1
    BY <1>1, <2>1, <2>2
  <2>4. SumFunctionOnSet(f, {a, b, d}) = f[a] + f[b] + f[d] /\ IsFiniteSet({a, b, d})
    <3>1. f[a] \in Int /\ f[b] \in Int /\ f[d] \in Int
      BY <1>1, <2>1
    <3>2. a # b /\ a # d /\ b # d
      BY <2>1
    <3>. QED
      BY <3>1, <3>2, SumThree
  <2>5. Needs(c) = Rent + Rent + 20
    BY <1>2 DEF Needs, GosplNeeds, HelloGoNeeds, Reserve
  <2>6. IsFiniteSet(S)
    BY <2>1, FewFinite
  <2>. QED
    BY <1>0, <2>1, <2>3, <2>4, <2>5, <2>6 DEF f, S
<1>3. CASE c.tool = "erc1155-init"
  <2>. DEFINE a == <<"create_collection", 0>>
              b == <<"create_token_type", 0>>
              d == <<"create_balance", 0>>
              e == <<"mint_to", 0>>
  <2>1. S = {a, b, d, e} /\ a # b /\ a # d /\ b # d /\ e \notin {a, b, d}
    BY <1>3 DEF PlanStages, S
  <2>2. /\ Price(c, a) = 2 + Rent /\ Price(c, b) = 2 + Rent /\ Price(c, d) = 2 + Rent
        /\ Price(c, e) = 1
    BY <1>3 DEF Price
  <2>. HIDE DEF a, b, d, e
  <2>3. f[a] = 2 + Rent /\ f[b] = 2 + Rent /\ f[d] = 2 + Rent /\ f[e] = 1
    BY <1>1, <2>1, <2>2
  <2>4. SumFunctionOnSet(f, {a, b, d, e}) = f[a] + f[b] + f[d] + f[e] /\ IsFiniteSet({a, b, d, e})
    <3>1. f[a] \in Int /\ f[b] \in Int /\ f[d] \in Int /\ f[e] \in Int
      BY <1>1, <2>1
    <3>. QED
      BY <2>1, <3>1, SumFour
  <2>5. Needs(c) = Rent + Rent + Rent + 20
    <3>1. Needs(c) = (Rent + Rent + Rent + 20) % U64
      BY <1>3 DEF Needs, Erc1155Needs, Reserve
    <3>2. Rent + Rent + Rent + 20 < U64
      BY <1>0, <1>3 DEF WithinReserve, Reserve
    <3>. QED
      BY <1>0, <3>1, <3>2
  <2>. QED
    BY <1>0, <2>1, <2>3, <2>4, <2>5 DEF f, S
<1>4. CASE c.tool = "token2022-init" /\ c.atomic
  <2>. DEFINE a == <<"atomic", 0>>
              m == IF c.metadata THEN MetadataFee ELSE 0
  <2>1. S = {a}
    BY <1>4 DEF PlanStages, S
  <2>2. Price(c, a) = 2 + Rent + cost + m
    BY <1>4 DEF Price, cost
  <2>3. Needs(c) = Rent + AssociatedRent + m + 20
    BY <1>4 DEF Needs, Token2022Needs, Reserve
  <2>4. m \in Nat
    BY <1>0
  <2>. HIDE DEF a, m
  <2>5. f[a] = 2 + Rent + cost + m
    BY <1>1, <2>1, <2>2
  <2>6. SumFunctionOnSet(f, {a}) = f[a]
    <3>1. f[a] \in Int
      BY <1>1, <2>1
    <3>. QED
      BY <3>1, SumOne
  <2>7. IsFiniteSet(S)
    BY <2>1, FewFinite
  <2>. QED
    BY <1>0, <2>1, <2>3, <2>4, <2>5, <2>6, <2>7 DEF f, S
<1>5. CASE c.tool = "token2022-init" /\ ~c.atomic
  <2>. DEFINE a == <<"create_mint", 0>>
              b == <<"create_account", 0>>
              d == <<"mint_to", 0>>
              e == <<"create_metadata", 0>>
  <2>1. /\ S = IF c.metadata THEN {a, b, d, e} ELSE {a, b, d}
        /\ a # b /\ a # d /\ b # d /\ e \notin {a, b, d}
    BY <1>5 DEF PlanStages, S
  <2>2. /\ Price(c, a) = 2 + Rent /\ Price(c, b) = 1 + cost /\ Price(c, d) = 1
        /\ Price(c, e) = 1 + MetadataFee
    BY <1>5 DEF Price, cost
  <2>3. Needs(c) = Rent + AssociatedRent + (IF c.metadata THEN MetadataFee ELSE 0) + 20
    BY <1>5 DEF Needs, Token2022Needs, Reserve
  <2>. HIDE DEF a, b, d, e
  <2>4. f[a] = 2 + Rent /\ f[b] = 1 + cost /\ f[d] = 1
    BY <1>1, <2>1, <2>2
  <2>5. CASE c.metadata
    <3>1. f[e] = 1 + MetadataFee /\ S = {a, b, d, e}
      BY <1>1, <2>1, <2>2, <2>5
    <3>2. SumFunctionOnSet(f, {a, b, d, e}) = f[a] + f[b] + f[d] + f[e] /\ IsFiniteSet({a, b, d, e})
      <4>1. f[a] \in Int /\ f[b] \in Int /\ f[d] \in Int /\ f[e] \in Int
        BY <1>1, <3>1
      <4>. QED
        BY <2>1, <4>1, SumFour
    <3>. QED
      BY <1>0, <2>3, <2>4, <2>5, <3>1, <3>2 DEF f, S
  <2>6. CASE ~c.metadata
    <3>1. S = {a, b, d} /\ IsFiniteSet(S)
      BY <2>1, <2>6, FewFinite
    <3>2. SumFunctionOnSet(f, {a, b, d}) = f[a] + f[b] + f[d] /\ IsFiniteSet({a, b, d})
      <4>1. f[a] \in Int /\ f[b] \in Int /\ f[d] \in Int
        BY <1>1, <3>1
      <4>2. a # b /\ a # d /\ b # d
        BY <2>1
      <4>. QED
        BY <4>1, <4>2, SumThree
    <3>. QED
      BY <1>0, <2>3, <2>4, <2>6, <3>1, <3>2 DEF f, S
  <2>. QED
    BY <2>5, <2>6
<1>6. CASE c.tool = "token2022-init-multisend"
  <2>. DEFINE a == <<"create_mint", 0>>
              b == <<"create_account", 0>>
              d == <<"mint_to", 0>>
              e == <<"initialize_metadata", 0>>
              few == {a, b, d, e}
              n == c.recipients
  <2>0. n \in Nat /\ c.liquidity \in Nat /\ (cost - Rent) + 3 * n <= 15 + c.liquidity
    BY <1>6, ToolRunAssumption DEF ToolRunAssumption, CommandLine, WithinReserve, cost
  <2>1. S = few \cup RecipientStages(n) /\ a # b /\ a # d /\ b # d /\ e \notin {a, b, d}
    BY <1>6 DEF PlanStages, S
  <2>2. few \cap RecipientStages(n) = {}
    BY DEF RecipientStages
  <2>3. \A k \in 1..n : Price(c, <<"create_recipient", k>>) = 2 + Rent /\ Price(c, <<"transfer", k>>) = 1
    BY DEF Price
  <2>4. /\ Price(c, a) = 2 + Rent /\ Price(c, b) = 1 + cost /\ Price(c, d) = 1
        /\ Price(c, e) = 1
    BY <1>6 DEF Price, cost
  <2>5. Needs(c) = Rent + Rent + 20 + c.liquidity + n * Rent
    BY <1>6 DEF Needs, MultisendNeeds, Reserve
  <2>6. \A k \in 1..n : <<"create_recipient", k>> \in RecipientStages(n)
                        /\ <<"transfer", k>> \in RecipientStages(n)
    BY DEF RecipientStages
  <2>. HIDE DEF a, b, d, e, n
  <2>7. f[a] = 2 + Rent /\ f[b] = 1 + cost /\ f[d] = 1 /\ f[e] = 1
    BY <1>1, <2>1, <2>4
  <2>8. \A k \in 1..n : f[<<"create_recipient", k>>] = 2 + Rent /\ f[<<"transfer", k>>] = 1
    <3>. SUFFICES ASSUME NEW k \in 1..n
                  PROVE  f[<<"create_recipient", k>>] = 2 + Rent /\ f[<<"transfer", k>>] = 1
      OBVIOUS
    <3>. DEFINE g == <<"create_recipient", k>>
                h == <<"transfer", k>>
    <3>1. g \in S /\ h \in S
      BY <2>1, <2>6
    <3>2. Price(c, g) = 2 + Rent /\ Price(c, h) = 1
      BY <2>3
    <3>. HIDE DEF g, h
    <3>3. f[g] = 2 + Rent /\ f[h] = 1
      BY <1>1, <3>1, <3>2
    <3>. QED
      BY <3>3 DEF g, h
  <2>9. SumFunctionOnSet(f, few) = f[a] + f[b] + f[d] + f[e] /\ IsFiniteSet(few)
    <3>1. f[a] \in Int /\ f[b] \in Int /\ f[d] \in Int /\ f[e] \in Int
      BY <1>1, <2>1
    <3>. QED
      BY <2>1, <3>1, SumFour
  <2>10. \A x \in few : f[x] \in Int
    BY <1>1, <2>1
  <2>. HIDE DEF few
  <2>11. /\ SumFunctionOnSet(f, few \cup RecipientStages(n))
              = SumFunctionOnSet(f, few) + 3 * n + n * Rent
         /\ IsFiniteSet(few \cup RecipientStages(n))
    BY <2>0, <2>2, <2>8, <2>9, <2>10, SumRecipients
  <2>12. n * Rent \in Nat
    BY <1>0, <2>0
  <2>13. SumFunctionOnSet(f, S) = 5 + Rent + cost + 3 * n + n * Rent
    BY <1>0, <2>0, <2>1, <2>7, <2>9, <2>11, <2>12
  <2>. QED
    BY <1>0, <2>0, <2>1, <2>5, <2>11, <2>12, <2>13 DEF f, S
<1>7. CASE c.tool = "token2022-nft-init"
  <2>. DEFINE a == <<"create_mint", 0>>
              b == <<"create_account", 0>>
              d == <<"mint_to", 0>>
              e == <<"create_nft", 0>>
  <2>1. S = {a, b, d, e} /\ a # b /\ a # d /\ b # d /\ e \notin {a, b, d}
    BY <1>7 DEF PlanStages, S
  <2>2. /\ Price(c, a) = 2 + Rent /\ Price(c, b) = 1 + cost /\ Price(c, d) = 1
        /\ Price(c, e) = 1 + MetadataFee + Rent
    BY <1>7 DEF Price, cost
  <2>. HIDE DEF a, b, d, e
  <2>3. f[a] = 2 + Rent /\ f[b] = 1 + cost /\ f[d] = 1 /\ f[e] = 1 + MetadataFee + Rent
    BY <1>1, <2>1, <2>2
  <2>4. SumFunctionOnSet(f, {a, b, d, e}) = f[a] + f[b] + f[d] + f[e] /\ IsFiniteSet({a, b, d, e})
    <3>1. f[a] \in Int /\ f[b] \in Int /\ f[d] \in Int /\ f[e] \in Int
      BY <1>1, <2>1
    <3>. QED
      BY <2>1, <3>1, SumFour
  <2>5. Needs(c) = 20 + Rent + AssociatedRent + MetadataFee + Rent
    <3>1. Needs(c) = 20 + Rent + AssociatedRent + MetadataRent + (CreateFee % U64) + Rent
      BY <1>7 DEF Needs, NftNeeds, Reserve
    <3>2. CreateFee % U64 = CreateFee /\ MetadataRent \in Nat /\ CreateFee \in Nat
      BY <1>7, ToolAssumption DEF WithinReserve, ToolAssumption
    <3>. QED
      BY <1>0, <3>1, <3>2 DEF MetadataFee
  <2>. QED
    BY <1>0, <2>1, <2>3, <2>4, <2>5 DEF f, S
<1>. QED
  BY <1>2, <1>3, <1>4, <1>5, <1>6, <1>7 DEF Budgeted

\* What is left of the plan costs no more than the payer has.
Affordable ==
  /\ purse \in Nat
  /\ line.tool \in Budgeted =>
       /\ Stages(todo) \subseteq PlanStages(line)
       /\ ~meddled /\ phase \in {"step", "await"} =>
            SumFunctionOnSet(Prices(line), PlanStages(line) \ executed) <= purse

\* A plan shrinks to stages of its own.
LEMMA TailStages ==
  ASSUME NEW c, NEW p, Fits(c, p), p # <<>> PROVE Stages(Tail(p)) \subseteq Stages(p)
<1>. SUFFICES ASSUME NEW k \in DOMAIN Tail(p), Tail(p)[k].op = "send"
              PROVE  Tail(p)[k].stage \in Stages(p)
  BY DEF Stages
<1>1. k + 1 \in DOMAIN p /\ Tail(p)[k] = p[k + 1] /\ k + 1 # 1
  BY TailFits
<1>. QED
  BY <1>1 DEF Stages

\* The command spends nothing itself, and starts its plan with what it needs.
LEMMA RunsSpend ==
  ASSUME ToolIInv, Runs
  PROVE  /\ UNCHANGED <<line, purse, executed, meddled>>
         /\ phase' \in {"step", "await"} =>
              \/ phase \in {"step", "await"}
              \/ phase = "planned" /\ executed = {} /\ (line.tool \in Budgeted => CanPay)
         /\ Stages(todo') \subseteq Stages(todo)
<1>1. UNCHANGED <<line, purse, executed, meddled>>
  BY DEF Runs, Refuse, Start, CheckFunds, NotBuilt, PreflightRefused, InvisibleProgram, SubmitUnknown,
         Submit, GiveUp, Confirm, Verified, Differs, ReadAgain, Find, ShowStored, ProbeLiquidity, Finish,
         world
<1>2. ASSUME phase' \in {"step", "await"}
      PROVE  \/ phase \in {"step", "await"}
             \/ phase = "planned" /\ executed = {} /\ (line.tool \in Budgeted => CanPay)
  <2>1. phase \in {"step", "await"} \/ (CheckFunds /\ phase' = "step")
    BY <1>2 DEF Runs, Refuse, Start, CheckFunds, NotBuilt, PreflightRefused, InvisibleProgram,
                SubmitUnknown, Submit, GiveUp, Confirm, Verified, Differs, ReadAgain, Find, ShowStored,
                ProbeLiquidity, Finish, At, Fail, Goes
  <2>2. CheckFunds /\ phase' = "step" =>
          phase = "planned" /\ executed = {} /\ (line.tool \in Budgeted => CanPay)
    BY DEF CheckFunds, Goes, Fail, ToolIInv, InOrder
  <2>. QED
    BY <2>1, <2>2
<1>3. \/ todo' = todo
      \/ todo # <<>> /\ todo' = Tail(todo)
      \/ todo # <<>> /\ Step.op = "find" /\ todo' = Tail(Tail(todo))
  BY DEF Runs, Refuse, Start, CheckFunds, NotBuilt, PreflightRefused, InvisibleProgram, SubmitUnknown,
         Submit, GiveUp, Confirm, Verified, Differs, ReadAgain, Find, ShowStored, ProbeLiquidity, Finish,
         At, Fail, Goes, Advance, ToolIInv, InOrder, Sending
<1>4. ASSUME todo # <<>> PROVE Stages(Tail(todo)) \subseteq Stages(todo)
  BY <1>4, TailStages DEF ToolIInv
<1>5. ASSUME todo # <<>>, Step.op = "find" PROVE Stages(Tail(Tail(todo))) \subseteq Stages(todo)
  <2>1. Fits(line, Tail(todo)) /\ Tail(todo) # <<>>
    BY <1>5, TailFits DEF ToolIInv, Step
  <2>2. Stages(Tail(Tail(todo))) \subseteq Stages(Tail(todo))
    BY <2>1, TailStages
  <2>. QED
    BY <1>4, <1>5, <2>2
<1>. QED
  BY <1>1, <1>2, <1>3, <1>4, <1>5

LEMMA AffordableInit == Init => Affordable
BY PlanInStages, ToolRunAssumption DEF Init, Affordable, ToolRunAssumption

LEMMA AffordableNext ==
  ASSUME \A c \in CommandLines : WithinReserve(c), ToolIInv, Affordable, [Next]_vars
  PROVE  Affordable'
<1>. DEFINE f == Prices(line)
            S == PlanStages(line)
<1>0. line \in CommandLines
  BY DEF ToolIInv
<1>1. ASSUME line.tool \in Budgeted
      PROVE  /\ IsFiniteSet(S) /\ Needs(line) \in Nat /\ SumFunctionOnSet(f, S) <= Needs(line)
             /\ \A s \in S : f[s] = Price(line, s) /\ f[s] \in Int
             /\ SumFunctionOnSet(f, S) \in Nat
  <2>1. WithinReserve(line)
    BY <1>0
  <2>2. \A s \in S : f[s] = Price(line, s) /\ f[s] \in Int
    BY PriceNat DEF Prices
  <2>. QED
    BY <1>0, <1>1, <2>1, <2>2, PlanCosts
<1>2. CASE Runs
  <2>1. line' = line /\ purse' = purse /\ executed' = executed /\ meddled' = meddled
    BY <1>2, RunsSpend
  <2>2. Stages(todo') \subseteq Stages(todo)
    BY <1>2, RunsSpend
  <2>3. ASSUME phase' \in {"step", "await"}, line.tool \in Budgeted, ~meddled
        PROVE  SumFunctionOnSet(f, S \ executed) <= purse
    <3>1. CASE phase \in {"step", "await"}
      BY <2>3, <3>1 DEF Affordable
    <3>2. CASE phase = "planned" /\ executed = {} /\ CanPay
      <4>1. Needs(line) <= purse /\ S \ executed = S
        BY <1>1, <2>3, <3>2 DEF CanPay, Affordable
      <4>2. SumFunctionOnSet(f, S) <= purse
        BY <1>1, <2>3, <4>1 DEF Affordable
      <4>. QED
        BY <4>1, <4>2
    <3>. QED
      BY <1>2, <2>3, <3>1, <3>2, RunsSpend
  <2>. QED
    BY <2>1, <2>2, <2>3 DEF Affordable
<1>3. CASE Execute
  <2>1. /\ UNCHANGED <<line, phase, todo, meddled>> /\ executed' = executed \cup {Step.stage}
        /\ purse' = purse - Cost(Step, chain) /\ Cost(Step, chain) <= purse
    BY <1>3 DEF Execute, command, Affordable, ToolIInv, InOrder
  <2>2. Sending /\ Step.stage \notin executed
    BY <1>3 DEF Execute, ToolIInv, InOrder
  <2>3. Lawful(line, Step) /\ 1 \in DOMAIN todo /\ todo[1] = Step
    BY <2>2, TailFits DEF ToolIInv, Sending, Step
  <2>4. Cost(Step, chain) \in Nat /\ Cost(Step, chain) <= Price(line, Step.stage)
    BY <2>2, <2>3 DEF Lawful, ToolIInv, Sending
  <2>5. purse' \in Nat
    BY <2>1, <2>4 DEF Affordable
  <2>6. Step.stage \in Stages(todo)
    BY <2>2, <2>3 DEF Stages, Sending
  <2>7. ASSUME line.tool \in Budgeted, ~meddled, phase \in {"step", "await"}
        PROVE  SumFunctionOnSet(f, S \ executed') <= purse'
    <3>. DEFINE R == S \ executed
                x == Step.stage
    <3>1. x \in R
      BY <2>2, <2>6, <2>7 DEF Affordable
    <3>2. IsFiniteSet(R) /\ \A y \in R : f[y] \in Int
      BY <1>1, <2>7, FS_Subset
    <3>3. f[x] = Price(line, x)
      BY <1>1, <2>7, <3>1
    <3>4. S \ executed' = R \ {x}
      BY <2>1
    <3>5. SumFunctionOnSet(f, R) <= purse
      BY <2>7 DEF Affordable
    <3>. HIDE DEF R, x, f, S
    <3>6. /\ SumFunctionOnSet(f, R \ {x}) \in Int
          /\ SumFunctionOnSet(f, R) = SumFunctionOnSet(f, R \ {x}) + f[x]
      BY <3>1, <3>2, SumRest
    <3>7. purse \in Nat /\ f[x] \in Int /\ Cost(Step, chain) <= f[x]
      BY <2>4, <3>1, <3>2, <3>3 DEF Affordable, x
    <3>8. SumFunctionOnSet(f, R \ {x}) <= purse - Cost(Step, chain)
      BY <2>4, <3>5, <3>6, <3>7
    <3>. QED
      BY <2>1, <3>4, <3>8
  <2>8. line.tool \in Budgeted => Stages(todo') \subseteq PlanStages(line)
    BY <2>1 DEF Affordable
  <2>. QED
    BY <2>1, <2>5, <2>7, <2>8 DEF Affordable
<1>4. CASE Meddle
  <2>1. UNCHANGED <<line, todo>> /\ meddled' /\ purse' \in {purse, 0}
    BY <1>4 DEF Meddle, command
  <2>. QED
    BY <2>1 DEF Affordable
<1>5. CASE Deadline \/ Crash \/ ErrOnFork \/ Vanish \/ UNCHANGED vars
  <2>1. /\ UNCHANGED <<line, todo, purse, executed, meddled>>
        /\ phase' \in {"step", "await"} => phase' = phase
    BY <1>5 DEF Deadline, Crash, ErrOnFork, Vanish, vars, command, world
  <2>. QED
    BY <2>1 DEF Affordable
<1>. QED
  BY <1>2, <1>3, <1>4, <1>5 DEF Next

\* A payer with the balance that CheckFunds asked for can pay for every
\* transaction of the plan, its fees and what it creates, as long as nobody else
\* spends: while the fixed fee reserve covers the recipients of a multisend and
\* what its associated account costs above a bare one, and the unguarded sums of
\* erc1155-init and token2022-nft-init do not wrap around.
THEOREM ReserveIsEnough ==
  ASSUME \A c \in CommandLines : WithinReserve(c)
  PROVE  Spec => []ReserveSuffices
<1>1. ToolIInv /\ Affordable => ReserveSuffices
  <2>. SUFFICES ASSUME ToolIInv, Affordable, line.tool \in Budgeted, ~meddled,
                       At("send") \/ (phase = "await" /\ flight > 0)
                PROVE  purse >= Cost(Step, chain)
    BY DEF ReserveSuffices
  <2>. DEFINE f == Prices(line)
              R == PlanStages(line) \ executed
              x == Step.stage
  <2>1. Sending /\ phase \in {"step", "await"} /\ line \in CommandLines
    BY DEF At, ToolIInv, InOrder, Sending
  <2>2. Lawful(line, Step) /\ 1 \in DOMAIN todo /\ todo[1] = Step
    BY <2>1, TailFits DEF ToolIInv, Sending, Step
  <2>3. Cost(Step, chain) \in Nat /\ Cost(Step, chain) <= Price(line, x)
    BY <2>1, <2>2 DEF Lawful, ToolIInv, Sending
  <2>4. x \notin executed
    <3>1. CASE At("send")
      BY <2>1, <2>2, <3>1 DEF At, ToolIInv, InOrder, Idle, Unsent, Sending
    <3>2. CASE flight > 0
      BY <3>2 DEF ToolIInv, InOrder
    <3>. QED
      BY <3>1, <3>2
  <2>5. x \in R
    <3>1. x \in Stages(todo)
      BY <2>1, <2>2 DEF Stages, Sending
    <3>. QED
      BY <2>4, <3>1 DEF Affordable
  <2>6. \A s \in R : f[s] = Price(line, s) /\ f[s] \in Nat
    BY PriceNat DEF Prices
  <2>7. IsFiniteSet(R)
    <3>1. WithinReserve(line)
      BY <2>1
    <3>2. IsFiniteSet(PlanStages(line))
      BY <2>1, <3>1, PlanCosts
    <3>. QED
      BY <3>2, FS_Subset
  <2>8. SumFunctionOnSet(f, R) <= purse /\ purse \in Nat
    BY <2>1 DEF Affordable
  <2>. HIDE DEF f, R, x
  <2>9. SumFunctionOnSet(f, R) = SumFunctionOnSet(f, R \ {x}) + f[x]
    BY <2>5, <2>6, <2>7, SumRest
  <2>10. SumFunctionOnSet(f, R \ {x}) \in Nat
    <3>1. IsFiniteSet(R \ {x}) /\ \A s \in R \ {x} : f[s] \in Nat
      BY <2>6, <2>7, FS_Subset
    <3>. QED
      BY <3>1, SumNat
  <2>11. f[x] = Price(line, x) /\ f[x] \in Nat
    BY <2>5, <2>6
  <2>. QED
    BY <2>3, <2>8, <2>9, <2>10, <2>11
<1>2. ToolIInv /\ Affordable /\ [Next]_vars => Affordable'
  BY AffordableNext
<1>. QED
  BY <1>1, <1>2, AffordableInit, ToolInductive, PTL DEF Spec

=============================================================================
