-------------------------------- MODULE Gospl --------------------------------
(***************************************************************************)
(* The GOSPL token program (examples/gospl/testdata/program.go; the guest  *)
(* of examples/hellogo is the same code).  Each Process function makes its *)
(* checks, in the order of the code, and then writes.  A check is the      *)
(* error code it returns, 0 when it passes; the function returns the first *)
(* that is not 0 and has then written nothing.                             *)
(*                                                                         *)
(* Account data is kept as the program keeps it: a tag byte, a flags byte  *)
(* (1: no mint authority or delegate, 3: one is set), u64 amounts modulo   *)
(* U64 and 32-byte keys, NoKey being 32 zero bytes.  The accounts are the  *)
(* program-owned ones of the two state sizes, Mints and Tokens, and        *)
(* wallets, Keys, which the program does not own.  A transaction brings    *)
(* the privileges [signers, writable] of the keys it names.                *)
(***************************************************************************)
EXTENDS Integers, FiniteSets, Functions

CONSTANTS
  Mints,      \* 48-byte accounts owned by the program
  Tokens,     \* 120-byte accounts owned by the program
  Keys,       \* accounts the program does not own
  NoKey,      \* 32 zero bytes
  U64,        \* the modulus of u64 arithmetic
  NewKeys,    \* the keys instructions carry in their data
  Privileges  \* what the transactions sign and may write

Addresses == Mints \cup Tokens \cup Keys
KeyBytes == Addresses \cup {NoKey}
Amount == 0..(U64 - 1)

ASSUME GosplAssumption ==
  /\ U64 \in Nat \ {0}
  /\ IsFiniteSet(Tokens)
  /\ Mints \cap Tokens = {} /\ Mints \cap Keys = {} /\ Tokens \cap Keys = {}
  /\ NoKey \notin Addresses
  /\ NewKeys \subseteq KeyBytes
  /\ \A p \in Privileges : p.signers \subseteq Addresses

VARIABLES
  mint,   \* data of the mints
  token,  \* data of the token accounts
  signed  \* history: who signed the last instruction that succeeded

vars == <<mint, token, signed>>

MintData == [tag: {0, 1}, flags: {0, 1, 3}, supply: Amount, authority: KeyBytes]
TokenData ==
  [tag: {0, 2}, flags: {0, 1, 3}, amount: Amount, allowance: Amount,
   mint: KeyBytes, owner: KeyBytes, delegate: KeyBytes]

ZeroMint == [tag |-> 0, flags |-> 0, supply |-> 0, authority |-> NoKey]
ZeroToken ==
  [tag |-> 0, flags |-> 0, amount |-> 0, allowance |-> 0,
   mint |-> NoKey, owner |-> NoKey, delegate |-> NoKey]

TypeOK ==
  /\ mint \in [Mints -> MintData]
  /\ token \in [Tokens -> TokenData]
  /\ signed \in SUBSET Addresses

Init ==
  /\ mint = [m \in Mints |-> ZeroMint]
  /\ token = [t \in Tokens |-> ZeroToken]
  /\ signed = {}

-----------------------------------------------------------------------------
(* Checks shared by the instructions.                                      *)

MintAt(x) == IF x \in Mints THEN mint[x] ELSE ZeroMint
TokenAt(x) == IF x \in Tokens THEN token[x] ELSE ZeroToken

\* The code a Process function returns: the first that is not 0.
code ?? otherwise == IF code # 0 THEN code ELSE otherwise

Same(a, b, code) == IF a = b THEN 0 ELSE code
Enough(a, n, code) == IF a < n THEN code ELSE 0

SameAccount(x, y) == IF x = y THEN 14 ELSE 0

\* RequireOwned: the owner, then the writable bit where asked, then the size.
RequireOwned(x, size) ==
  IF x \in Keys THEN 3 ELSE IF x \in size THEN 0 ELSE 7

\* Mutant: the size before the writable bit.
RequireOwnedSizeFirst(x, size, p) ==
  IF RequireOwned(x, size) # 0 THEN RequireOwned(x, size)
  ELSE IF x \in p.writable THEN 0 ELSE 4

RequireOwnedWritable(x, size, p) ==
  IF x \notin Keys /\ x \notin p.writable THEN 4 ELSE RequireOwned(x, size)

RequireSigner(x, p) == IF x \in p.signers THEN 0 ELSE 5

RequireAuthority(x, expected, p) ==
  IF x # expected THEN 6 ELSE RequireSigner(x, p)

ValidateMint(d) ==
  IF d = ZeroMint THEN 9
  ELSE IF /\ d.tag = 1
          /\ d.flags \in {1, 3}
          /\ d.flags = 1 => d.authority = NoKey
  THEN 0 ELSE 7

ValidateToken(d) ==
  IF d = ZeroToken THEN 9
  ELSE IF /\ d.tag = 2
          /\ d.flags \in {1, 3}
          /\ d.flags = 1 => d.allowance = 0 /\ d.delegate = NoKey
  THEN 0 ELSE 7

\* Initialization wants zero bytes; other data is initialized or not canonical.
RequireZero(d, zero, validated) ==
  IF d = zero THEN 0 ELSE IF validated = 0 THEN 8 ELSE validated

\* u64 addition wraps; the program looks for a sum below the first operand.
Plus(a, b) == (a + b) % U64

Wraps(a, b) == IF Plus(a, b) < a THEN 13 ELSE 0

\* Mutant: the delegate's allowance is not compared with the amount.
SpendableWithoutAllowance(d, authority, n) ==
  IF authority = d.owner THEN 0
  ELSE IF d.flags # 3 \/ authority # d.delegate THEN 6
  ELSE 0

\* The owner spends freely, the delegate within its allowance.
Spendable(d, authority, n) ==
  IF authority = d.owner THEN 0
  ELSE IF d.flags # 3 \/ authority # d.delegate THEN 6
  ELSE Enough(d.allowance, n, 12)

\* What spending n leaves of an account.
Spend(d, authority, n) ==
  [d EXCEPT !.amount = @ - n,
            !.allowance = IF authority = d.owner THEN @ ELSE @ - n]

-----------------------------------------------------------------------------
(* Instructions: the checks in order, and what the instruction writes when *)
(* all of them pass.                                                       *)

Wrote(m, t) == [mints |-> m, tokens |-> t]

Perform(code, written, p) ==
  /\ code = 0
  /\ mint' = written.mints
  /\ token' = written.tokens
  /\ signed' = p.signers

InitializeMintChecks(m, p) ==
  RequireOwnedWritable(m, Mints, p) ??
  RequireSigner(m, p) ??
  RequireZero(MintAt(m), ZeroMint, ValidateMint(MintAt(m)))

InitializeMint(m, authority) ==
  Wrote([mint EXCEPT ![m] = [tag |-> 1, flags |-> 3, supply |-> 0, authority |-> authority]],
        token)

InitializeAccountChecks(t, m, p) ==
  SameAccount(t, m) ??
  RequireOwnedWritable(t, Tokens, p) ??
  RequireSigner(t, p) ??
  RequireOwned(m, Mints) ??
  ValidateMint(MintAt(m)) ??
  RequireZero(TokenAt(t), ZeroToken, ValidateToken(TokenAt(t)))

InitializeAccount(t, m, owner) ==
  Wrote(mint, [token EXCEPT ![t] =
    [tag |-> 2, flags |-> 1, amount |-> 0, allowance |-> 0,
     mint |-> m, owner |-> owner, delegate |-> NoKey]])

\* Mutant: nobody asks whether the mint authority was disabled.
MintToChecksDisabled(m, t, a, n, p) ==
  SameAccount(m, t) ??
  RequireOwnedWritable(m, Mints, p) ??
  RequireOwnedWritable(t, Tokens, p) ??
  ValidateMint(MintAt(m)) ??
  ValidateToken(TokenAt(t)) ??
  Same(TokenAt(t).mint, m, 10) ??
  (IF MintAt(m).flags = 3 THEN RequireAuthority(a, MintAt(m).authority, p)
   ELSE RequireSigner(a, p)) ??
  Wraps(MintAt(m).supply, n) ??
  Wraps(TokenAt(t).amount, n)

MintToChecks(m, t, a, n, p) ==
  SameAccount(m, t) ??
  RequireOwnedWritable(m, Mints, p) ??
  RequireOwnedWritable(t, Tokens, p) ??
  ValidateMint(MintAt(m)) ??
  ValidateToken(TokenAt(t)) ??
  Same(TokenAt(t).mint, m, 10) ??
  Same(MintAt(m).flags, 3, 15) ??
  RequireAuthority(a, MintAt(m).authority, p) ??
  Wraps(MintAt(m).supply, n) ??
  Wraps(TokenAt(t).amount, n)

MintTo(m, t, n) ==
  Wrote([mint EXCEPT ![m].supply = Plus(@, n)], [token EXCEPT ![t].amount = Plus(@, n)])

TransferChecks(s, t, a, n, p) ==
  SameAccount(s, t) ??
  RequireOwnedWritable(s, Tokens, p) ??
  RequireOwnedWritable(t, Tokens, p) ??
  ValidateToken(TokenAt(s)) ??
  ValidateToken(TokenAt(t)) ??
  Same(TokenAt(s).mint, TokenAt(t).mint, 10) ??
  RequireSigner(a, p) ??
  Spendable(TokenAt(s), a, n) ??
  Enough(TokenAt(s).amount, n, 11) ??
  Wraps(TokenAt(t).amount, n)

Transfer(s, t, a, n) ==
  Wrote(mint, [token EXCEPT ![s] = Spend(@, a, n), ![t].amount = Plus(@, n)])

\* Mutant: the mint of the account is not compared with the mint that is burnt.
BurnChecksAnyMint(s, m, a, n, p) ==
  SameAccount(s, m) ??
  RequireOwnedWritable(s, Tokens, p) ??
  RequireOwnedWritable(m, Mints, p) ??
  ValidateToken(TokenAt(s)) ??
  ValidateMint(MintAt(m)) ??
  RequireSigner(a, p) ??
  Spendable(TokenAt(s), a, n) ??
  Enough(TokenAt(s).amount, n, 11) ??
  Enough(MintAt(m).supply, n, 11)

BurnChecks(s, m, a, n, p) ==
  SameAccount(s, m) ??
  RequireOwnedWritable(s, Tokens, p) ??
  RequireOwnedWritable(m, Mints, p) ??
  ValidateToken(TokenAt(s)) ??
  ValidateMint(MintAt(m)) ??
  Same(TokenAt(s).mint, m, 10) ??
  RequireSigner(a, p) ??
  Spendable(TokenAt(s), a, n) ??
  Enough(TokenAt(s).amount, n, 11) ??
  Enough(MintAt(m).supply, n, 11)

Burn(s, m, a, n) ==
  Wrote([mint EXCEPT ![m].supply = @ - n], [token EXCEPT ![s] = Spend(@, a, n)])

\* The checks of Approve, Revoke and SetAuthority of an account.
OwnerChecks(s, o, p) ==
  RequireOwnedWritable(s, Tokens, p) ??
  ValidateToken(TokenAt(s)) ??
  RequireAuthority(o, TokenAt(s).owner, p)

Approve(s, delegate, n) ==
  Wrote(mint, [token EXCEPT ![s].flags = 3, ![s].allowance = n, ![s].delegate = delegate])

\* Mutant: the key of the delegate stays.
RevokeKeepingKey(s) ==
  Wrote(mint, [token EXCEPT ![s].flags = 1, ![s].allowance = 0])

Revoke(s) ==
  Wrote(mint, [token EXCEPT ![s].flags = 1, ![s].allowance = 0, ![s].delegate = NoKey])

SetMintAuthorityChecks(m, c, p) ==
  RequireOwnedWritable(m, Mints, p) ??
  ValidateMint(MintAt(m)) ??
  Same(MintAt(m).flags, 3, 15) ??
  RequireAuthority(c, MintAt(m).authority, p)

\* SetAuthority, type 0, with option 1 and with option 0.
ReplaceMintAuthority(m, new) ==
  Wrote([mint EXCEPT ![m].flags = 3, ![m].authority = new], token)

DisableMintAuthority(m) ==
  Wrote([mint EXCEPT ![m].flags = 1, ![m].authority = NoKey], token)

\* SetAuthority, type 1: the delegate is cleared.
SetOwner(t, new) ==
  Wrote(mint, [token EXCEPT ![t].owner = new, ![t].flags = 1, ![t].allowance = 0,
                            ![t].delegate = NoKey])

Process(p) ==
  \/ \E m \in Addresses, k \in NewKeys :
       Perform(InitializeMintChecks(m, p), InitializeMint(m, k), p)
  \/ \E t, m \in Addresses, k \in NewKeys :
       Perform(InitializeAccountChecks(t, m, p), InitializeAccount(t, m, k), p)
  \/ \E m, t, a \in Addresses, n \in Amount :
       Perform(MintToChecks(m, t, a, n, p), MintTo(m, t, n), p)
  \/ \E s, t, a \in Addresses, n \in Amount :
       Perform(TransferChecks(s, t, a, n, p), Transfer(s, t, a, n), p)
  \/ \E s, m, a \in Addresses, n \in Amount :
       Perform(BurnChecks(s, m, a, n, p), Burn(s, m, a, n), p)
  \/ \E s, o, d \in Addresses, n \in Amount :
       Perform(OwnerChecks(s, o, p), Approve(s, d, n), p)
  \/ \E s, o \in Addresses : Perform(OwnerChecks(s, o, p), Revoke(s), p)
  \/ \E m, c \in Addresses, k \in NewKeys :
       Perform(SetMintAuthorityChecks(m, c, p), ReplaceMintAuthority(m, k), p)
  \/ \E m, c \in Addresses :
       Perform(SetMintAuthorityChecks(m, c, p), DisableMintAuthority(m), p)
  \/ \E t, c \in Addresses, k \in NewKeys :
       Perform(OwnerChecks(t, c, p), SetOwner(t, k), p)

Next == \E p \in Privileges : Process(p)

Spec == Init /\ [][Next]_vars

-----------------------------------------------------------------------------
(* Properties.                                                             *)

\* "Canonical state bytes": whatever sequence of instructions runs, the
\* validators never meet data they reject, so no account is ever bricked by the
\* program's own writes; a live account names a mint that is live.
Canonical ==
  /\ \A m \in Mints : ValidateMint(mint[m]) \in {0, 9}
  /\ \A t \in Tokens :
       /\ ValidateToken(token[t]) \in {0, 9}
       /\ token[t].tag = 2 => token[t].mint \in Mints /\ mint[token[t].mint].tag = 1

\* No sequence of instructions leaves the range of a u64 or data that bricks an
\* account.
WellFormed == TypeOK /\ Canonical

\* What an account that holds d has of the tokens of mint m.
Holding(d, m) == IF d.mint = m THEN d.amount ELSE 0

\* No instruction sequence creates or loses tokens: the supply of a mint is the
\* sum of the balances of its accounts (ProcessMintTo, ProcessTransfer and
\* ProcessBurn write the two sides separately, at lines 371-372, 444-449 and
\* 520-525).
SupplyIsBalances ==
  \A m \in Mints :
    mint[m].supply = SumFunctionOnSet([t \in Tokens |-> Holding(token[t], m)], Tokens)

\* "Permanently disable mint authority": a disabled authority never comes back,
\* and from then on the supply only shrinks.
DisabledForever ==
  [][\A m \in Mints : mint[m].flags = 1 =>
       /\ mint'[m].flags = 1
       /\ mint'[m].supply <= mint[m].supply]_vars

\* A balance shrinks only with the signature of its owner, or of its delegate
\* and then by no more than the allowance, which shrinks as much; an allowance
\* grows, a delegate or an owner changes only with the owner's signature, and a
\* new owner starts without a delegate; a supply grows only with the signature
\* of the mint authority.
EveryChangeAuthorized ==
  [][/\ \A t \in Tokens : token[t].tag = 2 =>
          /\ token'[t].amount < token[t].amount =>
               \/ token[t].owner \in signed'
               \/ /\ token[t].flags = 3 /\ token[t].delegate \in signed'
                  /\ token[t].amount - token'[t].amount <= token[t].allowance
                  /\ token'[t].allowance =
                       token[t].allowance - (token[t].amount - token'[t].amount)
          /\ \/ token'[t].allowance > token[t].allowance
             \/ token'[t].delegate # token[t].delegate
             \/ token'[t].owner # token[t].owner
             => token[t].owner \in signed'
          /\ token'[t].owner # token[t].owner => token'[t].delegate = NoKey
     /\ \A m \in Mints :
          mint'[m].supply > mint[m].supply =>
            mint[m].flags = 3 /\ mint[m].authority \in signed']_vars
=============================================================================
