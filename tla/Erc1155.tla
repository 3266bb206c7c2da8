------------------------------- MODULE Erc1155 -------------------------------
(***************************************************************************)
(* The multi-token program as compiled (examples/erc1155/testdata/         *)
(* program.go).  The program-owned accounts exist from the start, with     *)
(* zero bytes; the uri of a token type is written once and left out.  A    *)
(* state s is a record [collection, tokenType, balance, approval] of       *)
(* account data.                                                           *)
(***************************************************************************)
EXTENDS Checks, FiniteSets, Functions

CONSTANTS
  Collections, TokenTypes, Balances, Approvals,  \* program-owned accounts, by their size
  Wallets,                                       \* accounts the program does not own
  NoKey,                                         \* 32 zero bytes
  U64,                                           \* the modulus of u64 arithmetic
  Privileges                                     \* what transactions sign and may write

Accounts == Collections \cup TokenTypes \cup Balances \cup Approvals
Amount == 0..(U64 - 1)

\* What the constants must satisfy; assumed where the module is instantiated.
Erc1155Assumption ==
  /\ U64 \in Nat \ {0} /\ NoKey \notin Accounts \cup Wallets /\ Accounts \cap Wallets = {}
  /\ Collections \cap (TokenTypes \cup Balances \cup Approvals) = {}
  /\ TokenTypes \cap (Balances \cup Approvals) = {} /\ Balances \cap Approvals = {}
  /\ IsFiniteSet(Balances)

VARIABLES
  data,     \* the data of the accounts
  granted,  \* history: the approvals that were given and not taken back, as
            \* <<account, collection, owner, operator>>
  signed    \* history: the signers of the last transaction

vars == <<data, granted, signed>>

NewCollection == [tag |-> 0, authority |-> NoKey, nextID |-> 0]
NewTokenType == [tag |-> 0, collection |-> NoKey, id |-> 0, supply |-> 0]
NewBalance == [tag |-> 0, collection |-> NoKey, id |-> 0, owner |-> NoKey, amount |-> 0]
NewApproval ==
  [tag |-> 0, collection |-> NoKey, owner |-> NoKey, operator |-> NoKey, approved |-> FALSE]

Init ==
  /\ data = [collection |-> [c \in Collections |-> NewCollection],
             tokenType |-> [t \in TokenTypes |-> NewTokenType],
             balance |-> [b \in Balances |-> NewBalance],
             approval |-> [a \in Approvals |-> NewApproval]]
  /\ granted = {}
  /\ signed = {}

-----------------------------------------------------------------------------
(* The instructions: the checks in order, and what the instruction stores  *)
(* when all of them pass.  n is the number of accounts.                    *)

Owned(x, needsWritable, sized, p) == RequireOwned(x, Accounts, needsWritable, sized, p, 7)
Tagged(record, tag) == Require(record.tag = tag, 7)
SameToken(x, y) == Require(x.collection = y.collection, 10) ?? Require(x.id = y.id, 10)

ProcessInitializeCollectionChecks(s, n, c, p) ==
  RequireAccountCount(n, 1) ??
  Owned(c, TRUE, Collections, p) ??
  RequireSigner(c, p) ??
  Require(s.collection[c] = NewCollection, 8)

ProcessInitializeCollection(s, c, authority) ==
  [s EXCEPT !.collection[c] = [tag |-> 1, authority |-> authority, nextID |-> 0]]

ProcessCreateTokenTypeChecks(s, n, t, c, authority, p) ==
  RequireAccountCount(n, 3) ??
  Require(t # c, 13) ??
  Owned(t, TRUE, TokenTypes, p) ??
  RequireSigner(t, p) ??
  Owned(c, TRUE, Collections, p) ??
  Require(s.collection[c] # NewCollection, 9) ??
  Tagged(s.collection[c], 1) ??
  RequireAuthority(authority, s.collection[c].authority, p, 6) ??
  Require(s.tokenType[t] = NewTokenType, 8) ??
  RequireNoWrap(s.collection[c].nextID, 1, U64, 12)

ProcessCreateTokenType(s, t, c) ==
  [s EXCEPT !.collection[c].nextID = @ + 1,
            !.tokenType[t] =
              [tag |-> 2, collection |-> c, id |-> s.collection[c].nextID, supply |-> 0]]

ProcessInitializeBalanceChecks(s, n, b, t, p) ==
  RequireAccountCount(n, 2) ??
  Require(b # t, 13) ??
  Owned(b, TRUE, Balances, p) ??
  RequireSigner(b, p) ??
  Owned(t, FALSE, TokenTypes, p) ??
  Require(s.tokenType[t] # NewTokenType, 9) ??
  Tagged(s.tokenType[t], 2) ??
  Require(s.balance[b] = NewBalance, 8)

ProcessInitializeBalance(s, b, t, owner) ==
  [s EXCEPT !.balance[b] = [tag |-> 3, collection |-> s.tokenType[t].collection,
                            id |-> s.tokenType[t].id, owner |-> owner, amount |-> 0]]

ProcessMintToChecks(s, n, c, t, b, authority, amount, p) ==
  RequireAccountCount(n, 4) ??
  Owned(c, FALSE, Collections, p) ??
  Owned(t, TRUE, TokenTypes, p) ??
  Owned(b, TRUE, Balances, p) ??
  Tagged(s.collection[c], 1) ?? Tagged(s.tokenType[t], 2) ?? Tagged(s.balance[b], 3) ??
  Require(s.tokenType[t].collection = c, 10) ??
  SameToken(s.balance[b], s.tokenType[t]) ??
  RequireAuthority(authority, s.collection[c].authority, p, 6) ??
  RequireNoWrap(s.tokenType[t].supply, amount, U64, 12) ??
  RequireNoWrap(s.balance[b].amount, amount, U64, 12)

ProcessMintTo(s, t, b, amount) ==
  [s EXCEPT !.tokenType[t].supply = @ + amount, !.balance[b].amount = @ + amount]

ProcessBurnChecks(s, n, t, b, owner, amount, p) ==
  RequireAccountCount(n, 3) ??
  Owned(t, TRUE, TokenTypes, p) ??
  Owned(b, TRUE, Balances, p) ??
  Tagged(s.tokenType[t], 2) ?? Tagged(s.balance[b], 3) ??
  SameToken(s.balance[b], s.tokenType[t]) ??
  RequireAuthority(owner, s.balance[b].owner, p, 6) ??
  Require(s.balance[b].amount >= amount, 11) ??
  Require(s.tokenType[t].supply >= amount, 11)

ProcessBurn(s, t, b, amount) ==
  [s EXCEPT !.tokenType[t].supply = @ - amount, !.balance[b].amount = @ - amount]

Move(s, from, to, amount) ==
  [s EXCEPT !.balance[from].amount = @ - amount, !.balance[to].amount = @ + amount]

ProcessTransferChecks(s, n, from, to, owner, amount, p) ==
  RequireAccountCount(n, 3) ??
  Require(from # to, 13) ??
  Owned(from, TRUE, Balances, p) ??
  Owned(to, TRUE, Balances, p) ??
  Tagged(s.balance[from], 3) ?? Tagged(s.balance[to], 3) ??
  SameToken(s.balance[from], s.balance[to]) ??
  RequireAuthority(owner, s.balance[from].owner, p, 6) ??
  Require(s.balance[from].amount >= amount, 11) ??
  RequireNoWrap(s.balance[to].amount, amount, U64, 12)

ProcessInitializeApprovalChecks(s, n, a, owner, operator, p) ==
  RequireAccountCount(n, 3) ??
  Require(owner # operator, 13) ??
  Owned(a, TRUE, Approvals, p) ??
  RequireSigner(a, p) ??
  RequireSigner(owner, p) ??
  Require(s.approval[a] = NewApproval, 8)

ProcessInitializeApproval(s, a, owner, operator, c, approved) ==
  [s EXCEPT !.approval[a] = [tag |-> 4, collection |-> c, owner |-> owner,
                             operator |-> operator, approved |-> approved]]

ProcessSetApprovalChecks(s, n, a, owner, p) ==
  RequireAccountCount(n, 2) ??
  Owned(a, TRUE, Approvals, p) ??
  Require(s.approval[a] # NewApproval, 9) ??
  Tagged(s.approval[a], 4) ??
  RequireAuthority(owner, s.approval[a].owner, p, 6)

ProcessSetApproval(s, a, approved) == [s EXCEPT !.approval[a].approved = approved]

\* Mutant: an approval counts although its owner took it back.
ProcessTransferFromChecksTakenBack(s, n, from, to, a, operator, amount, p) ==
  RequireAccountCount(n, 4) ??
  Require(from # to, 13) ??
  Owned(from, TRUE, Balances, p) ?? Owned(to, TRUE, Balances, p) ??
  Owned(a, FALSE, Approvals, p) ??
  Tagged(s.balance[from], 3) ?? Tagged(s.balance[to], 3) ?? Tagged(s.approval[a], 4) ??
  SameToken(s.balance[from], s.balance[to]) ??
  Require(s.approval[a].collection = s.balance[from].collection, 10) ??
  Require(s.approval[a].owner = s.balance[from].owner, 14) ??
  RequireAuthority(operator, s.approval[a].operator, p, 6) ??
  Require(s.balance[from].amount >= amount, 11) ??
  RequireNoWrap(s.balance[to].amount, amount, U64, 12)

ProcessTransferFromChecks(s, n, from, to, a, operator, amount, p) ==
  RequireAccountCount(n, 4) ??
  Require(from # to, 13) ??
  Owned(from, TRUE, Balances, p) ??
  Owned(to, TRUE, Balances, p) ??
  Owned(a, FALSE, Approvals, p) ??
  Tagged(s.balance[from], 3) ?? Tagged(s.balance[to], 3) ?? Tagged(s.approval[a], 4) ??
  SameToken(s.balance[from], s.balance[to]) ??
  Require(s.approval[a].collection = s.balance[from].collection, 10) ??
  Require(s.approval[a].owner = s.balance[from].owner, 14) ??
  RequireAuthority(operator, s.approval[a].operator, p, 6) ??
  Require(s.approval[a].approved, 14) ??
  Require(s.balance[from].amount >= amount, 11) ??
  RequireNoWrap(s.balance[to].amount, amount, U64, 12)

-----------------------------------------------------------------------------
Execute(code, after) == code = 0 /\ data' = after /\ UNCHANGED granted

Answer(x, approved) == granted' = IF approved THEN granted \cup {x} ELSE granted \ {x}

Process(p) ==
  \/ \E c \in Collections, k \in Wallets :
       Execute(ProcessInitializeCollectionChecks(data, 1, c, p),
               ProcessInitializeCollection(data, c, k))
  \/ \E t \in TokenTypes, c \in Collections, k \in Wallets :
       Execute(ProcessCreateTokenTypeChecks(data, 3, t, c, k, p), ProcessCreateTokenType(data, t, c))
  \/ \E b \in Balances, t \in TokenTypes, k \in Wallets :
       Execute(ProcessInitializeBalanceChecks(data, 2, b, t, p),
               ProcessInitializeBalance(data, b, t, k))
  \/ \E c \in Collections, t \in TokenTypes, b \in Balances, k \in Wallets, amount \in Amount :
       Execute(ProcessMintToChecks(data, 4, c, t, b, k, amount, p), ProcessMintTo(data, t, b, amount))
  \/ \E t \in TokenTypes, b \in Balances, k \in Wallets, amount \in Amount :
       Execute(ProcessBurnChecks(data, 3, t, b, k, amount, p), ProcessBurn(data, t, b, amount))
  \/ \E from, to \in Balances, k \in Wallets, amount \in Amount :
       Execute(ProcessTransferChecks(data, 3, from, to, k, amount, p), Move(data, from, to, amount))
  \/ \E a \in Approvals, c \in Collections, owner, operator \in Wallets, approved \in BOOLEAN :
       /\ ProcessInitializeApprovalChecks(data, 3, a, owner, operator, p) = 0
       /\ data' = ProcessInitializeApproval(data, a, owner, operator, c, approved)
       /\ Answer(<<a, c, owner, operator>>, approved)
  \/ \E a \in Approvals, owner \in Wallets, approved \in BOOLEAN :
       /\ ProcessSetApprovalChecks(data, 2, a, owner, p) = 0
       /\ data' = ProcessSetApproval(data, a, approved)
       /\ LET r == data.approval[a] IN Answer(<<a, r.collection, r.owner, r.operator>>, approved)
  \/ \E from, to \in Balances, a \in Approvals, k \in Wallets, amount \in Amount :
       Execute(ProcessTransferFromChecks(data, 4, from, to, a, k, amount, p),
               Move(data, from, to, amount))

Next == \E p \in Privileges : Process(p) /\ signed' = p.signers

Spec == Init /\ [][Next]_vars

-----------------------------------------------------------------------------
\* What the balance account d holds of the token type r.
Holding(d, r) ==
  IF d.tag = 3 /\ d.collection = r.collection /\ d.id = r.id THEN d.amount ELSE 0

\* The supply of a token type is the sum of the balances of its id, and no two
\* token types of a collection share an id: MintTo and Burn compare balances
\* with token types by collection and id, never by account.
SupplyIsBalances ==
  \A t \in TokenTypes : LET r == data.tokenType[t] IN r.tag = 2 =>
    r.supply = SumFunctionOnSet([b \in Balances |-> Holding(data.balance[b], r)], Balances)

\* A balance shrinks only in a transaction signed by its owner or by an operator
\* the owner approved, in an account of that owner and collection, and did not
\* take back since.
MovesAreAuthorized ==
  [][\A b \in Balances : LET r == data.balance[b] IN
       data'.balance[b].amount < r.amount =>
         \/ r.owner \in signed'
         \/ \E a \in Approvals, k \in signed' : <<a, r.collection, r.owner, k>> \in granted]_vars
=============================================================================
