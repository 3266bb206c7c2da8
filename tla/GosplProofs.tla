----------------------------- MODULE GosplProofs -----------------------------
(***************************************************************************)
(* Proofs about the token program, for every set of accounts, every width  *)
(* of the amounts and every set of transactions.  A lemma per instruction  *)
(* says what its checks establish; the theorems follow from them.          *)
(***************************************************************************)
EXTENDS GosplOracle, SumProofs

-----------------------------------------------------------------------------
(* What the checks establish.                                              *)

\* What the validators accept: the tag, and nothing set that the flags deny.
LiveMint(d) ==
  /\ d.tag = 1
  /\ d.flags \in {1, 3}
  /\ d.flags = 1 => d.authority = NoKey

LiveToken(d) ==
  /\ d.tag = 2
  /\ d.flags \in {1, 3}
  /\ d.flags = 1 => d.allowance = 0 /\ d.delegate = NoKey

\* ValidateMint accepts exactly the live mints (and says 9 of zero bytes).
LEMMA ValidatesMint ==
  ASSUME NEW d
  PROVE  /\ ValidateMint(d) = 0 <=> d # ZeroMint /\ LiveMint(d)
         /\ ValidateMint(d) = 9 <=> d = ZeroMint
  BY DEF ValidateMint, LiveMint

\* ValidateToken accepts exactly the live accounts (and says 9 of zero bytes).
LEMMA ValidatesToken ==
  ASSUME NEW d
  PROVE  /\ ValidateToken(d) = 0 <=> d # ZeroToken /\ LiveToken(d)
         /\ ValidateToken(d) = 9 <=> d = ZeroToken
  BY DEF ValidateToken, LiveToken

\* A chain of checks passes when each of them does.
LEMMA First ==
  ASSUME NEW a, NEW b
  PROVE  (a ?? b) = 0 <=> a = 0 /\ b = 0
  BY DEF ??

\* RequireOwned accepts program-owned accounts of the size it is given.
LEMMA Owned ==
  ASSUME NEW x, NEW size, NEW p
  PROVE  /\ RequireOwned(x, size) = 0 => x \in size
         /\ RequireOwnedWritable(x, size, p) = 0 => x \in size
  BY DEF RequireOwned, RequireOwnedWritable

\* RequireSigner and RequireAuthority pass only with the signature asked for.
LEMMA Signed ==
  ASSUME NEW x, NEW y, NEW p
  PROVE  /\ RequireSigner(x, p) = 0 => x \in p.signers
         /\ RequireAuthority(x, y, p) = 0 => y \in p.signers
  BY DEF RequireSigner, RequireAuthority

\* Sums that the overflow check lets pass are amounts and no smaller than before.
LEMMA SumFits ==
  ASSUME NEW a \in Amount, NEW b \in Amount, Wraps(a, b) = 0
  PROVE  Plus(a, b) \in Amount /\ Plus(a, b) >= a /\ Plus(a, b) = a + b
  <1>1. U64 \in Nat /\ U64 > 0
    BY GosplAssumption
  <1>2. a \in Nat /\ b \in Nat /\ a < U64 /\ b < U64
    BY <1>1 DEF Amount
  <1>3. ~(Plus(a, b) < a)
    BY DEF Wraps
  <1>4. a + b < U64
    BY <1>1, <1>2, <1>3 DEF Plus
  <1>5. Plus(a, b) = a + b
    BY <1>1, <1>2, <1>4 DEF Plus
  <1> QED
    BY <1>1, <1>2, <1>4, <1>5 DEF Amount

\* What Spendable leaves open: the owner, or a delegate within its allowance.
LEMMA SpendableBy ==
  ASSUME NEW d, NEW a, NEW n \in Amount, Spendable(d, a, n) = 0,
         d.allowance \in Amount
  PROVE  \/ a = d.owner
         \/ a # d.owner /\ d.flags = 3 /\ a = d.delegate /\ d.allowance >= n
  BY GosplAssumption DEF Spendable, Enough, Amount

\* ProcessInitializeMint only writes a mint of zero bytes that signed (lines 226-248).
LEMMA InitializeMintChecked ==
  ASSUME NEW m, NEW p, InitializeMintChecks(m, p) = 0
  PROVE  m \in Mints /\ mint[m] = ZeroMint
  <1>1. /\ RequireOwnedWritable(m, Mints, p) = 0
        /\ RequireZero(MintAt(m), ZeroMint, ValidateMint(MintAt(m))) = 0
    BY First DEF InitializeMintChecks
  <1> QED
    BY <1>1, Owned DEF RequireZero, MintAt

\* ProcessInitializeAccount only writes a token account of zero bytes, and
\* only for a live mint (lines 259-300).
LEMMA InitializeAccountChecked ==
  ASSUME NEW t, NEW m, NEW p, InitializeAccountChecks(t, m, p) = 0
  PROVE  /\ t \in Tokens /\ token[t] = ZeroToken
         /\ m \in Mints /\ mint[m].tag = 1
  <1>1. /\ RequireOwnedWritable(t, Tokens, p) = 0
        /\ RequireOwned(m, Mints) = 0
        /\ ValidateMint(MintAt(m)) = 0
        /\ RequireZero(TokenAt(t), ZeroToken, ValidateToken(TokenAt(t))) = 0
    BY First DEF InitializeAccountChecks
  <1>2. t \in Tokens /\ m \in Mints
    BY <1>1, Owned
  <1> QED
    BY <1>1, <1>2, ValidatesMint DEF RequireZero, MintAt, TokenAt, LiveMint

\* ProcessMintTo reaches its writes only for a live account of the live mint,
\* with the signature of a mint authority that is set, and sums that fit (lines 312-370).
LEMMA MintToChecked ==
  ASSUME NEW m, NEW t, NEW a, NEW n, NEW p, MintToChecks(m, t, a, n, p) = 0
  PROVE  /\ m \in Mints /\ mint[m].tag = 1 /\ mint[m].flags = 3
         /\ t \in Tokens /\ LiveToken(token[t]) /\ token[t].mint = m
         /\ mint[m].authority \in p.signers
         /\ Wraps(mint[m].supply, n) = 0 /\ Wraps(token[t].amount, n) = 0
  <1>1. /\ RequireOwnedWritable(m, Mints, p) = 0
        /\ RequireOwnedWritable(t, Tokens, p) = 0
        /\ ValidateMint(MintAt(m)) = 0
        /\ ValidateToken(TokenAt(t)) = 0
        /\ Same(TokenAt(t).mint, m, 10) = 0
        /\ Same(MintAt(m).flags, 3, 15) = 0
        /\ RequireAuthority(a, MintAt(m).authority, p) = 0
        /\ Wraps(MintAt(m).supply, n) = 0
        /\ Wraps(TokenAt(t).amount, n) = 0
    BY First DEF MintToChecks
  <1>2. m \in Mints /\ t \in Tokens
    BY <1>1, Owned
  <1>3. MintAt(m) = mint[m] /\ TokenAt(t) = token[t]
    BY <1>2 DEF MintAt, TokenAt
  <1> QED
    BY <1>1, <1>2, <1>3, Signed, ValidatesMint, ValidatesToken DEF Same, LiveMint

\* ProcessTransfer reaches its writes only for two live accounts, with the
\* signature of someone who may spend, and sums that fit (lines 376-443).
LEMMA TransferChecked ==
  ASSUME NEW s, NEW t, NEW a, NEW n, NEW p, TransferChecks(s, t, a, n, p) = 0
  PROVE  /\ s \in Tokens /\ LiveToken(token[s])
         /\ t \in Tokens /\ LiveToken(token[t])
         /\ s # t /\ token[s].mint = token[t].mint
         /\ a \in p.signers
         /\ Spendable(token[s], a, n) = 0
         /\ ~(token[s].amount < n)
         /\ Wraps(token[t].amount, n) = 0
  <1>1. /\ SameAccount(s, t) = 0
        /\ RequireOwnedWritable(s, Tokens, p) = 0
        /\ RequireOwnedWritable(t, Tokens, p) = 0
        /\ ValidateToken(TokenAt(s)) = 0
        /\ ValidateToken(TokenAt(t)) = 0
        /\ Same(TokenAt(s).mint, TokenAt(t).mint, 10) = 0
        /\ RequireSigner(a, p) = 0
        /\ Spendable(TokenAt(s), a, n) = 0
        /\ Enough(TokenAt(s).amount, n, 11) = 0
        /\ Wraps(TokenAt(t).amount, n) = 0
    BY First DEF TransferChecks
  <1>2. s \in Tokens /\ t \in Tokens
    BY <1>1, Owned
  <1>3. TokenAt(s) = token[s] /\ TokenAt(t) = token[t]
    BY <1>2 DEF TokenAt
  <1> QED
    BY <1>1, <1>2, <1>3, Signed, ValidatesToken DEF SameAccount, Same, Enough

\* ProcessBurn reaches its writes only for a live account of the live mint, with
\* the signature of someone who may spend, and enough of both (lines 453-519).
LEMMA BurnChecked ==
  ASSUME NEW s, NEW m, NEW a, NEW n, NEW p, BurnChecks(s, m, a, n, p) = 0
  PROVE  /\ s \in Tokens /\ LiveToken(token[s]) /\ token[s].mint = m
         /\ m \in Mints /\ mint[m].tag = 1
         /\ a \in p.signers
         /\ Spendable(token[s], a, n) = 0
         /\ ~(token[s].amount < n)
         /\ ~(mint[m].supply < n)
  <1>1. /\ RequireOwnedWritable(s, Tokens, p) = 0
        /\ RequireOwnedWritable(m, Mints, p) = 0
        /\ ValidateToken(TokenAt(s)) = 0
        /\ ValidateMint(MintAt(m)) = 0
        /\ Same(TokenAt(s).mint, m, 10) = 0
        /\ RequireSigner(a, p) = 0
        /\ Spendable(TokenAt(s), a, n) = 0
        /\ Enough(TokenAt(s).amount, n, 11) = 0
        /\ Enough(MintAt(m).supply, n, 11) = 0
    BY First DEF BurnChecks
  <1>2. s \in Tokens /\ m \in Mints
    BY <1>1, Owned
  <1>3. TokenAt(s) = token[s] /\ MintAt(m) = mint[m]
    BY <1>2 DEF TokenAt, MintAt
  <1>4. mint[m].tag = 1
    BY <1>1, <1>3, ValidatesMint DEF LiveMint
  <1>5. LiveToken(token[s])
    BY <1>1, <1>3, ValidatesToken
  <1> QED
    BY <1>1, <1>2, <1>3, <1>4, <1>5, Signed DEF Same, Enough

\* Approve, Revoke and SetAuthority of an account reach their writes only for a
\* live account whose owner signed (lines 529-552, 563-581, 638-651).
LEMMA OwnerChecked ==
  ASSUME NEW s, NEW o, NEW p, OwnerChecks(s, o, p) = 0
  PROVE  s \in Tokens /\ LiveToken(token[s]) /\ token[s].owner \in p.signers
  <1>1. /\ RequireOwnedWritable(s, Tokens, p) = 0
        /\ ValidateToken(TokenAt(s)) = 0
        /\ RequireAuthority(o, TokenAt(s).owner, p) = 0
    BY First DEF OwnerChecks
  <1>2. s \in Tokens
    BY <1>1, Owned
  <1> QED
    BY <1>1, <1>2, Signed, ValidatesToken DEF TokenAt

\* SetAuthority of a mint reaches its writes only for a live mint whose
\* authority is set and signed (lines 592-628).
LEMMA SetMintAuthorityChecked ==
  ASSUME NEW m, NEW c, NEW p, SetMintAuthorityChecks(m, c, p) = 0
  PROVE  m \in Mints /\ mint[m].tag = 1 /\ mint[m].flags = 3
  <1>1. /\ RequireOwnedWritable(m, Mints, p) = 0
        /\ ValidateMint(MintAt(m)) = 0
        /\ Same(MintAt(m).flags, 3, 15) = 0
    BY First DEF SetMintAuthorityChecks
  <1>2. m \in Mints
    BY <1>1, Owned
  <1> QED
    BY <1>1, <1>2, ValidatesMint DEF MintAt, Same, LiveMint

-----------------------------------------------------------------------------
(* The inductive invariant, and what one instruction does to one account.  *)

MintSound(d) == d \in MintData /\ (d = ZeroMint \/ LiveMint(d))

TokenSound(d) ==
  /\ d \in TokenData
  /\ \/ d = ZeroToken
     \/ LiveToken(d) /\ d.mint \in Mints /\ mint[d.mint].tag = 1

\* Canonical is not inductive without the types, and says of a validator's code
\* what this says of the bytes.
IInv ==
  /\ TypeOK
  /\ \A m \in Mints : MintSound(mint[m])
  /\ \A t \in Tokens : TokenSound(token[t])

\* A mint d that becomes e by an instruction that S signed.
MintStep(d, e, S) ==
  /\ MintSound(e)
  /\ d.tag = 1 => e.tag = 1
  /\ d.flags = 1 => e.flags = 1 /\ e.supply <= d.supply
  /\ e.supply > d.supply => d.flags = 3 /\ d.authority \in S

\* A token account d that becomes e by an instruction that S signed.
TokenStep(d, e, S) ==
  /\ TokenSound(e)
  /\ d.tag = 2 =>
       /\ e.amount < d.amount =>
            \/ d.owner \in S
            \/ /\ d.flags = 3 /\ d.delegate \in S
               /\ d.amount - e.amount <= d.allowance
               /\ e.allowance = d.allowance - (d.amount - e.amount)
       /\ e.allowance > d.allowance \/ e.delegate # d.delegate \/ e.owner # d.owner
            => d.owner \in S
       /\ e.owner # d.owner => e.delegate = NoKey

MintsStepped ==
  /\ mint' \in [Mints -> MintData]
  /\ \A m \in Mints : MintStep(mint[m], mint'[m], signed')

TokensStepped ==
  /\ token' \in [Tokens -> TokenData]
  /\ \A t \in Tokens : TokenStep(token[t], token'[t], signed')

\* A mint that an instruction does not write has made a step.
LEMMA MintStutters ==
  ASSUME NEW d, MintSound(d), NEW S
  PROVE  MintStep(d, d, S)
  BY GosplAssumption DEF MintStep, MintSound, MintData, Amount

\* A token account that an instruction does not write has made a step.
LEMMA TokenStutters ==
  ASSUME NEW d, TokenSound(d), NEW S
  PROVE  TokenStep(d, d, S)
  BY GosplAssumption DEF TokenStep, TokenSound, TokenData, Amount

\* An instruction that writes no mint steps every mint.
LEMMA SameMints ==
  ASSUME IInv, mint' = mint
  PROVE  MintsStepped
  BY MintStutters DEF IInv, TypeOK, MintsStepped

\* An instruction that writes no token account steps every token account.
LEMMA SameTokens ==
  ASSUME IInv, token' = token
  PROVE  TokensStepped
  BY TokenStutters DEF IInv, TypeOK, TokensStepped

\* An instruction that writes one mint steps every mint if it steps that one.
LEMMA OneMint ==
  ASSUME IInv, NEW m \in Mints, NEW d, mint' = [mint EXCEPT ![m] = d],
         MintStep(mint[m], d, signed')
  PROVE  MintsStepped
  <1>1. mint' \in [Mints -> MintData]
    BY DEF IInv, TypeOK, MintStep, MintSound
  <1>2. ASSUME NEW n \in Mints PROVE MintStep(mint[n], mint'[n], signed')
    <2>1. CASE n = m
      BY <2>1 DEF IInv, TypeOK
    <2>2. CASE n # m
      <3>1. mint'[n] = mint[n]
        BY <2>2 DEF IInv, TypeOK
      <3> QED
        BY <3>1, MintStutters DEF IInv
    <2> QED
      BY <2>1, <2>2
  <1> QED
    BY <1>1, <1>2 DEF MintsStepped

\* ProcessTransfer steps every token account if it steps the two it writes.
LEMMA TwoTokens ==
  ASSUME IInv, NEW s \in Tokens, NEW d, NEW t \in Tokens, NEW e, s # t,
         token' = [token EXCEPT ![s] = d, ![t] = e],
         TokenStep(token[s], d, signed'), TokenStep(token[t], e, signed')
  PROVE  TokensStepped
  <1>1. token' \in [Tokens -> TokenData]
    BY DEF IInv, TypeOK, TokenStep, TokenSound
  <1>2. ASSUME NEW u \in Tokens PROVE TokenStep(token[u], token'[u], signed')
    <2>1. CASE u = s
      BY <2>1 DEF IInv, TypeOK
    <2>2. CASE u = t
      BY <2>2 DEF IInv, TypeOK
    <2>3. CASE u # s /\ u # t
      <3>1. token'[u] = token[u]
        BY <2>3 DEF IInv, TypeOK
      <3> QED
        BY <3>1, TokenStutters DEF IInv
    <2> QED
      BY <2>1, <2>2, <2>3
  <1> QED
    BY <1>1, <1>2 DEF TokensStepped

\* An instruction that writes one token account steps all if it steps that one.
LEMMA OneToken ==
  ASSUME IInv, NEW t \in Tokens, NEW e, token' = [token EXCEPT ![t] = e],
         TokenStep(token[t], e, signed')
  PROVE  TokensStepped
  <1>1. token' \in [Tokens -> TokenData]
    BY DEF IInv, TypeOK, TokenStep, TokenSound
  <1>2. ASSUME NEW u \in Tokens PROVE TokenStep(token[u], token'[u], signed')
    <2>1. CASE u = t
      BY <2>1 DEF IInv, TypeOK
    <2>2. CASE u # t
      <3>1. token'[u] = token[u]
        BY <2>2 DEF IInv, TypeOK
      <3> QED
        BY <3>1, TokenStutters DEF IInv
    <2> QED
      BY <2>1, <2>2
  <1> QED
    BY <1>1, <1>2 DEF TokensStepped

-----------------------------------------------------------------------------
(* One lemma per kind of write.                                            *)

\* The account a MintTo, or the destination of a Transfer, credits.
LEMMA CreditStep ==
  ASSUME NEW d, TokenSound(d), LiveToken(d), NEW n \in Amount, Wraps(d.amount, n) = 0, NEW S
  PROVE  TokenStep(d, [d EXCEPT !.amount = Plus(@, n)], S)
  <1>1. d.amount \in Amount
    BY DEF TokenSound, TokenData
  <1>2. Plus(d.amount, n) \in Amount /\ Plus(d.amount, n) >= d.amount
    BY <1>1, SumFits
  <1> QED
    BY <1>1, <1>2, GosplAssumption DEF TokenStep, TokenSound, LiveToken, TokenData, Amount, ZeroToken

\* The account a Transfer or a Burn debits.
LEMMA DebitStep ==
  ASSUME NEW d, TokenSound(d), LiveToken(d), NEW n \in Amount, ~(d.amount < n),
         NEW a, NEW S, a \in S, Spendable(d, a, n) = 0
  PROVE  TokenStep(d, Spend(d, a, n), S)
  <1>1. d.amount \in Amount /\ d.allowance \in Amount
    BY DEF TokenSound, TokenData
  <1>2. d.amount - n \in Amount
    BY <1>1, GosplAssumption DEF Amount
  <1>3. CASE a = d.owner
    <2>1. Spend(d, a, n) = [d EXCEPT !.amount = d.amount - n]
      BY <1>3 DEF Spend, TokenSound, TokenData
    <2> QED
      BY <2>1, <1>1, <1>2, <1>3, GosplAssumption
      DEF TokenStep, TokenSound, LiveToken, TokenData, Amount, ZeroToken
  <1>4. CASE a # d.owner
    <2>1. d.flags = 3 /\ a = d.delegate /\ d.allowance >= n
      BY <1>1, <1>4, SpendableBy
    <2>2. d.allowance - n \in Amount
      BY <1>1, <2>1, GosplAssumption DEF Amount
    <2> DEFINE e == Spend(d, a, n)
    <2>3. e = [d EXCEPT !.amount = d.amount - n, !.allowance = d.allowance - n]
      BY <1>4 DEF Spend, TokenSound, TokenData
    <2>4. /\ e \in TokenData
          /\ e.amount = d.amount - n /\ e.allowance = d.allowance - n
          /\ e.tag = d.tag /\ e.flags = d.flags /\ e.mint = d.mint
          /\ e.owner = d.owner /\ e.delegate = d.delegate
      BY <2>2, <2>3, <1>2 DEF TokenSound, TokenData
    <2>5. TokenSound(e)
      BY <2>1, <2>4 DEF TokenSound, LiveToken, ZeroToken
    <2>6. d.amount - e.amount = n /\ ~(e.allowance > d.allowance)
      BY <2>4, <1>1, GosplAssumption DEF Amount
    <2> QED
      BY <2>1, <2>4, <2>5, <2>6 DEF TokenStep
  <1> QED
    BY <1>3, <1>4

\* The mint a MintTo or a Burn writes.
LEMMA SupplyUp ==
  ASSUME NEW d, MintSound(d), d.tag = 1, d.flags = 3, NEW n \in Amount,
         Wraps(d.supply, n) = 0, NEW S, d.authority \in S
  PROVE  MintStep(d, [d EXCEPT !.supply = Plus(@, n)], S)
  <1>1. d.supply \in Amount
    BY DEF MintSound, MintData
  <1>2. Plus(d.supply, n) \in Amount
    BY <1>1, SumFits
  <1> QED
    BY <1>1, <1>2 DEF MintStep, MintSound, LiveMint, MintData

\* The mint a Burn writes (lines 520-522).
LEMMA SupplyDown ==
  ASSUME NEW d, MintSound(d), NEW n \in Amount, ~(d.supply < n), NEW S,
         d.tag = 1
  PROVE  MintStep(d, [d EXCEPT !.supply = @ - n], S)
  <1>1. d.supply \in Amount /\ d.supply - n \in Amount /\ d.supply - n <= d.supply
    BY GosplAssumption DEF MintSound, MintData, Amount
  <1> QED
    BY <1>1, GosplAssumption DEF MintStep, MintSound, LiveMint, MintData, Amount, ZeroMint

\* Approve, Revoke and SetAuthority write a live account its owner signed for.
LEMMA OwnerStep ==
  ASSUME NEW d, TokenSound(d), LiveToken(d), NEW S, d.owner \in S,
         NEW flags \in {1, 3}, NEW allowance \in Amount,
         NEW delegate \in KeyBytes, NEW owner \in KeyBytes,
         flags = 1 => allowance = 0 /\ delegate = NoKey,
         owner # d.owner => delegate = NoKey
  PROVE  TokenStep(d, [d EXCEPT !.flags = flags, !.allowance = allowance,
                                !.delegate = delegate, !.owner = owner], S)
  <1> DEFINE e == [d EXCEPT !.flags = flags, !.allowance = allowance,
                            !.delegate = delegate, !.owner = owner]
  <1>1. /\ e \in TokenData
        /\ e.tag = d.tag /\ e.mint = d.mint /\ e.amount = d.amount
        /\ e.flags = flags /\ e.allowance = allowance
        /\ e.delegate = delegate /\ e.owner = owner
    BY GosplAssumption DEF TokenSound, TokenData
  <1>2. TokenSound(e)
    BY <1>1 DEF TokenSound, LiveToken, ZeroToken
  <1>3. ~(e.amount < d.amount)
    BY <1>1, GosplAssumption DEF TokenSound, TokenData, Amount
  <1> QED
    BY <1>1, <1>2, <1>3 DEF TokenStep

-----------------------------------------------------------------------------
(* Every instruction steps every account.                                  *)

\* The account an InitializeMint or InitializeAccount writes.
LEMMA InitStep ==
  ASSUME NEW d, NEW S
  PROVE  /\ \A k \in KeyBytes : d = ZeroMint =>
              MintStep(d, [tag |-> 1, flags |-> 3, supply |-> 0, authority |-> k], S)
         /\ \A m \in Mints, k \in KeyBytes : d = ZeroToken /\ mint[m].tag = 1 =>
              TokenStep(d, [tag |-> 2, flags |-> 1, amount |-> 0, allowance |-> 0,
                            mint |-> m, owner |-> k, delegate |-> NoKey], S)
  BY GosplAssumption
  DEF MintStep, MintSound, LiveMint, MintData, ZeroMint, Amount,
      TokenStep, TokenSound, LiveToken, TokenData, ZeroToken, KeyBytes, Addresses

\* The mint a SetAuthority of its authority writes (lines 629-636).
LEMMA AuthorityStep ==
  ASSUME NEW d, MintSound(d), d.tag = 1, d.flags = 3, NEW S, NEW flags \in {1, 3},
         NEW k \in KeyBytes, flags = 1 => k = NoKey
  PROVE  MintStep(d, [d EXCEPT !.flags = flags, !.authority = k], S)
  <1> DEFINE e == [d EXCEPT !.flags = flags, !.authority = k]
  <1>1. /\ e \in MintData
        /\ e.tag = 1 /\ e.flags = flags /\ e.authority = k /\ e.supply = d.supply
    BY DEF MintSound, MintData
  <1>2. MintSound(e)
    BY <1>1 DEF MintSound, LiveMint
  <1>3. ~(e.supply > d.supply)
    BY <1>1, GosplAssumption DEF MintSound, MintData, Amount
  <1> QED
    BY <1>1, <1>2, <1>3 DEF MintStep

\* Every instruction steps every account, whatever privileges it comes with.
LEMMA Steps ==
  ASSUME IInv, Next
  PROVE  MintsStepped /\ TokensStepped /\ signed' \in SUBSET Addresses
  <1>1. PICK p \in Privileges : Process(p)
    BY DEF Next
  <1>2. signed' = p.signers
    BY <1>1 DEF Process, Perform
  <1>3. signed' \in SUBSET Addresses
    BY <1>2, GosplAssumption
  <1>4. ASSUME NEW m \in Addresses, NEW k \in NewKeys,
               Perform(InitializeMintChecks(m, p), InitializeMint(m, k), p)
        PROVE  MintsStepped /\ TokensStepped
    <2>1. m \in Mints /\ mint[m] = ZeroMint
      BY <1>4, InitializeMintChecked DEF Perform
    <2>2. k \in KeyBytes
      BY GosplAssumption
    <2>3. /\ mint' = [mint EXCEPT ![m] =
                       [tag |-> 1, flags |-> 3, supply |-> 0, authority |-> k]]
          /\ token' = token
      BY <1>4 DEF Perform, Wrote, InitializeMint
    <2> QED
      BY <2>1, <2>2, <2>3, InitStep, OneMint, SameTokens
  <1>5. ASSUME NEW t \in Addresses, NEW m \in Addresses, NEW k \in NewKeys,
               Perform(InitializeAccountChecks(t, m, p), InitializeAccount(t, m, k), p)
        PROVE  MintsStepped /\ TokensStepped
    <2>1. t \in Tokens /\ token[t] = ZeroToken /\ m \in Mints /\ mint[m].tag = 1
      BY <1>5, InitializeAccountChecked DEF Perform
    <2>2. k \in KeyBytes
      BY GosplAssumption
    <2>3. /\ mint' = mint
          /\ token' = [token EXCEPT ![t] =
                        [tag |-> 2, flags |-> 1, amount |-> 0, allowance |-> 0,
                         mint |-> m, owner |-> k, delegate |-> NoKey]]
      BY <1>5 DEF Perform, Wrote, InitializeAccount
    <2> QED
      BY <2>1, <2>2, <2>3, InitStep, OneToken, SameMints
  <1>6. ASSUME NEW m \in Addresses, NEW t \in Addresses, NEW a \in Addresses,
               NEW n \in Amount, Perform(MintToChecks(m, t, a, n, p), MintTo(m, t, n), p)
        PROVE  MintsStepped /\ TokensStepped
    <2>1. /\ m \in Mints /\ mint[m].tag = 1 /\ mint[m].flags = 3
          /\ t \in Tokens /\ LiveToken(token[t])
          /\ mint[m].authority \in signed'
          /\ Wraps(mint[m].supply, n) = 0 /\ Wraps(token[t].amount, n) = 0
      BY <1>2, <1>6, MintToChecked DEF Perform
    <2>2. /\ mint' = [mint EXCEPT ![m] = [mint[m] EXCEPT !.supply = Plus(@, n)]]
          /\ token' = [token EXCEPT ![t] = [token[t] EXCEPT !.amount = Plus(@, n)]]
      BY <1>6, <2>1 DEF Perform, Wrote, MintTo, IInv, TypeOK
    <2>3. MintStep(mint[m], [mint[m] EXCEPT !.supply = Plus(@, n)], signed')
      BY <2>1, SupplyUp DEF IInv
    <2>4. TokenStep(token[t], [token[t] EXCEPT !.amount = Plus(@, n)], signed')
      BY <2>1, CreditStep DEF IInv
    <2>5. MintsStepped
      BY <2>1, <2>2, <2>3, OneMint
    <2>6. TokensStepped
      BY <2>1, <2>2, <2>4, OneToken
    <2> QED
      BY <2>5, <2>6
  <1>7. ASSUME NEW s \in Addresses, NEW t \in Addresses, NEW a \in Addresses,
               NEW n \in Amount, Perform(TransferChecks(s, t, a, n, p), Transfer(s, t, a, n), p)
        PROVE  MintsStepped /\ TokensStepped
    <2>1. /\ s \in Tokens /\ LiveToken(token[s])
          /\ t \in Tokens /\ LiveToken(token[t])
          /\ s # t
          /\ a \in signed'
          /\ Spendable(token[s], a, n) = 0
          /\ ~(token[s].amount < n)
          /\ Wraps(token[t].amount, n) = 0
      BY <1>2, <1>7, TransferChecked DEF Perform
    <2>2. /\ mint' = mint
          /\ token' = [token EXCEPT ![s] = Spend(token[s], a, n),
                                    ![t] = [token[t] EXCEPT !.amount = Plus(@, n)]]
      BY <1>7, <2>1 DEF Perform, Wrote, Transfer
    <2>3. TokenStep(token[s], Spend(token[s], a, n), signed')
      BY <2>1, DebitStep DEF IInv
    <2>4. TokenStep(token[t], [token[t] EXCEPT !.amount = Plus(@, n)], signed')
      BY <2>1, CreditStep DEF IInv
    <2> QED
      BY <2>1, <2>2, <2>3, <2>4, TwoTokens, SameMints
  <1>8. ASSUME NEW s \in Addresses, NEW m \in Addresses, NEW a \in Addresses,
               NEW n \in Amount, Perform(BurnChecks(s, m, a, n, p), Burn(s, m, a, n), p)
        PROVE  MintsStepped /\ TokensStepped
    <2>1. /\ s \in Tokens /\ LiveToken(token[s])
          /\ m \in Mints /\ mint[m].tag = 1
          /\ a \in signed'
          /\ Spendable(token[s], a, n) = 0
          /\ ~(token[s].amount < n) /\ ~(mint[m].supply < n)
      BY <1>2, <1>8, BurnChecked DEF Perform
    <2>2. /\ mint' = [mint EXCEPT ![m] = [mint[m] EXCEPT !.supply = @ - n]]
          /\ token' = [token EXCEPT ![s] = Spend(token[s], a, n)]
      BY <1>8, <2>1 DEF Perform, Wrote, Burn, IInv, TypeOK
    <2>3. MintStep(mint[m], [mint[m] EXCEPT !.supply = @ - n], signed')
      BY <2>1, SupplyDown DEF IInv
    <2>4. TokenStep(token[s], Spend(token[s], a, n), signed')
      BY <2>1, DebitStep DEF IInv
    <2>5. MintsStepped
      BY <2>1, <2>2, <2>3, OneMint
    <2>6. TokensStepped
      BY <2>1, <2>2, <2>4, OneToken
    <2> QED
      BY <2>5, <2>6
  <1>9. ASSUME NEW s \in Addresses, NEW o \in Addresses, NEW d \in Addresses,
               NEW n \in Amount, Perform(OwnerChecks(s, o, p), Approve(s, d, n), p)
        PROVE  MintsStepped /\ TokensStepped
    <2>1. s \in Tokens /\ LiveToken(token[s]) /\ token[s].owner \in signed'
      BY <1>2, <1>9, OwnerChecked DEF Perform
    <2>2. token[s] \in TokenData /\ TokenSound(token[s])
      BY <2>1 DEF IInv, TokenSound
    <2>3. /\ mint' = mint
          /\ token' = [token EXCEPT ![s] =
               [token[s] EXCEPT !.flags = 3, !.allowance = n, !.delegate = d,
                                !.owner = token[s].owner]]
      BY <1>9, <2>2 DEF Perform, Wrote, Approve, TokenData
    <2>4. d \in KeyBytes /\ token[s].owner \in KeyBytes
      BY <2>2 DEF KeyBytes, TokenData
    <2>5. TokenStep(token[s], [token[s] EXCEPT !.flags = 3, !.allowance = n, !.delegate = d,
                                               !.owner = token[s].owner], signed')
      <3>1. 3 \in {1, 3} /\ 3 # 1
        OBVIOUS
      <3> QED
        BY <2>1, <2>2, <2>4, <3>1, OwnerStep
    <2> QED
      BY <2>1, <2>3, <2>5, OneToken, SameMints
  <1>10. ASSUME NEW s \in Addresses, NEW o \in Addresses,
                Perform(OwnerChecks(s, o, p), Revoke(s), p)
         PROVE  MintsStepped /\ TokensStepped
    <2>1. s \in Tokens /\ LiveToken(token[s]) /\ token[s].owner \in signed'
      BY <1>2, <1>10, OwnerChecked DEF Perform
    <2>2. token[s] \in TokenData /\ TokenSound(token[s])
      BY <2>1 DEF IInv, TokenSound
    <2>3. /\ mint' = mint
          /\ token' = [token EXCEPT ![s] =
               [token[s] EXCEPT !.flags = 1, !.allowance = 0, !.delegate = NoKey,
                                !.owner = token[s].owner]]
      BY <1>10, <2>2 DEF Perform, Wrote, Revoke, TokenData
    <2>4. NoKey \in KeyBytes /\ token[s].owner \in KeyBytes /\ 0 \in Amount
      BY <2>2, GosplAssumption DEF KeyBytes, TokenData, Amount
    <2>5. TokenStep(token[s], [token[s] EXCEPT !.flags = 1, !.allowance = 0,
                                               !.delegate = NoKey,
                                               !.owner = token[s].owner], signed')
      BY <2>1, <2>2, <2>4, OwnerStep
    <2> QED
      BY <2>1, <2>3, <2>5, OneToken, SameMints
  <1>11. ASSUME NEW t \in Addresses, NEW c \in Addresses, NEW k \in NewKeys,
                Perform(OwnerChecks(t, c, p), SetOwner(t, k), p)
         PROVE  MintsStepped /\ TokensStepped
    <2>1. t \in Tokens /\ LiveToken(token[t]) /\ token[t].owner \in signed'
      BY <1>2, <1>11, OwnerChecked DEF Perform
    <2>2. token[t] \in TokenData /\ TokenSound(token[t])
      BY <2>1 DEF IInv, TokenSound
    <2>3. /\ mint' = mint
          /\ token' = [token EXCEPT ![t] =
               [token[t] EXCEPT !.flags = 1, !.allowance = 0, !.delegate = NoKey, !.owner = k]]
      BY <1>11, <2>2 DEF Perform, Wrote, SetOwner, TokenData
    <2>4. NoKey \in KeyBytes /\ k \in KeyBytes /\ 0 \in Amount
      BY GosplAssumption DEF KeyBytes, Amount
    <2>5. TokenStep(token[t], [token[t] EXCEPT !.flags = 1, !.allowance = 0,
                                               !.delegate = NoKey, !.owner = k], signed')
      BY <2>1, <2>2, <2>4, OwnerStep
    <2> QED
      BY <2>1, <2>3, <2>5, OneToken, SameMints
  <1>12. ASSUME NEW m \in Addresses, NEW c \in Addresses, NEW k \in NewKeys,
                Perform(SetMintAuthorityChecks(m, c, p), ReplaceMintAuthority(m, k), p)
         PROVE  MintsStepped /\ TokensStepped
    <2>1. m \in Mints /\ mint[m].tag = 1 /\ mint[m].flags = 3
      BY <1>12, SetMintAuthorityChecked DEF Perform
    <2>2. /\ mint' = [mint EXCEPT ![m] = [mint[m] EXCEPT !.flags = 3, !.authority = k]]
          /\ token' = token
      BY <1>12, <2>1 DEF Perform, Wrote, ReplaceMintAuthority, IInv, TypeOK
    <2>3. k \in KeyBytes
      BY GosplAssumption
    <2>4. MintStep(mint[m], [mint[m] EXCEPT !.flags = 3, !.authority = k], signed')
      <3>1. 3 \in {1, 3} /\ 3 # 1 /\ MintSound(mint[m])
        BY <2>1 DEF IInv
      <3> QED
        BY <2>1, <2>3, <3>1, AuthorityStep
    <2> QED
      BY <2>1, <2>2, <2>4, OneMint, SameTokens
  <1>13. ASSUME NEW m \in Addresses, NEW c \in Addresses,
                Perform(SetMintAuthorityChecks(m, c, p), DisableMintAuthority(m), p)
         PROVE  MintsStepped /\ TokensStepped
    <2>1. m \in Mints /\ mint[m].tag = 1 /\ mint[m].flags = 3
      BY <1>13, SetMintAuthorityChecked DEF Perform
    <2>2. /\ mint' = [mint EXCEPT ![m] = [mint[m] EXCEPT !.flags = 1, !.authority = NoKey]]
          /\ token' = token
      BY <1>13, <2>1 DEF Perform, Wrote, DisableMintAuthority, IInv, TypeOK
    <2>3. NoKey \in KeyBytes
      BY DEF KeyBytes
    <2>4. MintStep(mint[m], [mint[m] EXCEPT !.flags = 1, !.authority = NoKey], signed')
      BY <2>1, <2>3, AuthorityStep DEF IInv
    <2> QED
      BY <2>1, <2>2, <2>4, OneMint, SameTokens
  <1> QED
    BY <1>1, <1>3, <1>4, <1>5, <1>6, <1>7, <1>8, <1>9, <1>10, <1>11, <1>12, <1>13
    DEF Process

-----------------------------------------------------------------------------
(* The theorems.                                                           *)

\* Zeroed accounts satisfy the inductive invariant.
LEMMA IInvInit ==
  ASSUME Init
  PROVE  IInv
  <1>1. 0 \in Amount /\ NoKey \in KeyBytes
    BY GosplAssumption DEF Amount, KeyBytes
  <1>2. ZeroMint \in MintData /\ ZeroToken \in TokenData
    BY <1>1 DEF ZeroMint, ZeroToken, MintData, TokenData
  <1> QED
    BY <1>2 DEF Init, IInv, TypeOK, MintSound, TokenSound

\* Every instruction preserves the inductive invariant.
LEMMA IInvNext ==
  ASSUME IInv, [Next]_vars
  PROVE  IInv'
  <1>1. CASE Next
    <2>1. MintsStepped /\ TokensStepped /\ signed' \in SUBSET Addresses
      BY <1>1, Steps
    <2>2. TypeOK' /\ \A m \in Mints : MintSound(mint'[m])
      BY <2>1 DEF MintsStepped, TokensStepped, TypeOK, MintStep
    <2>3. ASSUME NEW t \in Tokens PROVE TokenSound(token[t])'
      <3>1. TokenSound(token'[t])
        BY <2>1 DEF TokensStepped, TokenStep
      <3>2. \A m \in Mints : mint[m].tag = 1 => mint'[m].tag = 1
        BY <2>1 DEF MintsStepped, MintStep
      <3> QED
        BY <3>1, <3>2 DEF TokenSound
    <2> QED
      BY <2>2, <2>3 DEF IInv, MintSound
  <1>2. CASE UNCHANGED vars
    BY <1>2 DEF vars, IInv, TypeOK, MintSound, TokenSound
  <1> QED
    BY <1>1, <1>2

\* Whatever instructions run, account data stays data of the two layouts.
THEOREM TypeCorrect == Spec => []TypeOK
  <1>1. IInv => TypeOK
    BY DEF IInv
  <1> QED
    BY IInvInit, IInvNext, <1>1, PTL DEF Spec

\* The program never writes bytes its own validators reject, and a live account
\* names a live mint (ValidateMint and ValidateToken, lines 175-224).
THEOREM StaysCanonical == Spec => []Canonical
  <1>1. IInv => Canonical
    <2>1. ASSUME IInv, NEW m \in Mints PROVE ValidateMint(mint[m]) \in {0, 9}
      BY <2>1, ValidatesMint DEF IInv, MintSound
    <2>2. ASSUME IInv, NEW t \in Tokens
          PROVE  /\ ValidateToken(token[t]) \in {0, 9}
                 /\ token[t].tag = 2 => token[t].mint \in Mints /\ mint[token[t].mint].tag = 1
      BY <2>2, ValidatesToken DEF IInv, TokenSound, ZeroToken
    <2> QED
      BY <2>1, <2>2 DEF Canonical
  <1> QED
    BY IInvInit, IInvNext, <1>1, PTL DEF Spec

\* Every amount stays in the range of a u64 and every account stays readable
\* (the validators of all instructions).
THEOREM StaysWellFormed == Spec => []WellFormed
  <1>1. TypeOK /\ Canonical => WellFormed
    BY DEF WellFormed
  <1> QED
    BY <1>1, TypeCorrect, StaysCanonical, PTL

\* A disabled mint authority never comes back, and from then on the supply of
\* the mint only shrinks (ProcessMintTo and ProcessSetAuthority).
THEOREM DisabledIsForever == Spec => DisabledForever
  <1>1. ASSUME IInv, [Next]_vars
        PROVE  [\A m \in Mints : mint[m].flags = 1 =>
                 /\ mint'[m].flags = 1
                 /\ mint'[m].supply <= mint[m].supply]_vars
    <2>1. CASE Next
      <3>1. MintsStepped
        BY <1>1, <2>1, Steps
      <3> QED
        BY <3>1 DEF MintsStepped, MintStep
    <2>2. CASE UNCHANGED vars
      BY <2>2
    <2> QED
      BY <1>1, <2>1, <2>2
  <1> QED
    BY IInvInit, IInvNext, <1>1, PTL DEF Spec, DisabledForever

\* Balances, allowances, delegates, owners and supplies change only with the
\* signatures that Spendable and RequireAuthority ask for.
THEOREM ChangesAreAuthorized == Spec => EveryChangeAuthorized
  <1> DEFINE TokenAuthorized(t) ==
        token[t].tag = 2 =>
          /\ token'[t].amount < token[t].amount =>
               \/ token[t].owner \in signed'
               \/ /\ token[t].flags = 3 /\ token[t].delegate \in signed'
                  /\ token[t].amount - token'[t].amount <= token[t].allowance
                  /\ token'[t].allowance =
                       token[t].allowance - (token[t].amount - token'[t].amount)
          /\ \/ token'[t].allowance > token[t].allowance
             \/ token'[t].delegate # token[t].delegate
             \/ token'[t].owner # token[t].owner
             => token[t].owner \in signed'
          /\ token'[t].owner # token[t].owner => token'[t].delegate = NoKey
  <1> DEFINE MintAuthorized(m) ==
        mint'[m].supply > mint[m].supply =>
          mint[m].flags = 3 /\ mint[m].authority \in signed'
  <1>1. ASSUME IInv, [Next]_vars
        PROVE  [/\ \A t \in Tokens : TokenAuthorized(t)
                /\ \A m \in Mints : MintAuthorized(m)]_vars
    <2>1. CASE Next
      <3>1. MintsStepped /\ TokensStepped
        BY <1>1, <2>1, Steps
      <3>2. \A t \in Tokens : TokenAuthorized(t)
        BY <3>1 DEF TokensStepped, TokenStep
      <3>3. \A m \in Mints : MintAuthorized(m)
        BY <3>1 DEF MintsStepped, MintStep
      <3> QED
        BY <3>2, <3>3
    <2>2. CASE UNCHANGED vars
      BY <2>2
    <2> QED
      BY <1>1, <2>1, <2>2
  <1> QED
    BY IInvInit, IInvNext, <1>1, PTL DEF Spec, EveryChangeAuthorized

-----------------------------------------------------------------------------
(* Supplies and balances.                                                  *)

\* What the accounts tk have of the tokens of mint m.
Held(tk, m) == SumFunctionOnSet([t \in Tokens |-> Holding(tk[t], m)], Tokens)

\* Supplies and balances move by the same amounts.
InStep == \A m \in Mints :
  mint'[m].supply = mint[m].supply + (Held(token', m) - Held(token, m))

\* One account written: what it has instead of what it had.
LEMMA HeldAfter ==
  ASSUME NEW tk \in [Tokens -> TokenData], NEW t \in Tokens, NEW e \in TokenData, NEW m
  PROVE  /\ Held(tk, m) \in Int
         /\ Holding(tk[t], m) \in Int
         /\ Holding(e, m) \in Int
         /\ Held([tk EXCEPT ![t] = e], m) = Held(tk, m) - Holding(tk[t], m) + Holding(e, m)
  <1> DEFINE next == [tk EXCEPT ![t] = e]
             f == [u \in Tokens |-> Holding(tk[u], m)]
             h == [u \in Tokens |-> Holding(next[u], m)]
  <1>1. \A d \in TokenData : Holding(d, m) \in Int
    BY GosplAssumption DEF Holding, TokenData, Amount
  <1>2. next \in [Tokens -> TokenData] /\ next[t] = e
    OBVIOUS
  <1>3. \A u \in Tokens : f[u] \in Int /\ h[u] \in Int
    BY <1>1, <1>2
  <1>4. \A u \in Tokens \ {t} : f[u] = h[u]
    OBVIOUS
  <1>5. f[t] = Holding(tk[t], m) /\ h[t] = Holding(e, m)
    BY <1>2
  <1>6. Held(tk, m) = SumFunctionOnSet(f, Tokens) /\ Held(next, m) = SumFunctionOnSet(h, Tokens)
    BY DEF Held
  <1>7. IsFiniteSet(Tokens)
    BY GosplAssumption
  <1> HIDE DEF f, h
  <1>8. SumFunctionOnSet(h, Tokens) = SumFunctionOnSet(f, Tokens) - f[t] + h[t]
    BY <1>3, <1>4, <1>7, SumChange
  <1>9. SumFunctionOnSet(f, Tokens) \in Int
    BY <1>3, <1>7, SumInt
  <1> QED
    BY <1>1, <1>5, <1>6, <1>8, <1>9

\* An account that keeps its mint and its amount, or had and has nothing.
LEMMA HeldStill ==
  ASSUME NEW tk \in [Tokens -> TokenData], NEW t \in Tokens, NEW e \in TokenData,
         e.amount = tk[t].amount, e.mint = tk[t].mint \/ e.amount = 0
  PROVE  \A m : Held([tk EXCEPT ![t] = e], m) = Held(tk, m)
  <1> TAKE m
  <1>1. Holding(e, m) = Holding(tk[t], m)
    BY DEF Holding
  <1>2. /\ Held(tk, m) \in Int
        /\ Holding(tk[t], m) \in Int
        /\ Held([tk EXCEPT ![t] = e], m) = Held(tk, m) - Holding(tk[t], m) + Holding(e, m)
    BY HeldAfter
  <1> QED
    BY <1>1, <1>2

\* An account of mint m that gains n, or loses n.
LEMMA HeldMoves ==
  ASSUME NEW tk \in [Tokens -> TokenData], NEW t \in Tokens, NEW e \in TokenData,
         NEW n \in Int, e.mint = tk[t].mint, e.amount = tk[t].amount + n
  PROVE  \A m : Held([tk EXCEPT ![t] = e], m) =
                  Held(tk, m) + (IF m = e.mint THEN n ELSE 0)
  <1> TAKE m
  <1>1. e.amount \in Int /\ tk[t].amount \in Int
    BY GosplAssumption DEF TokenData, Amount
  <1>2. Holding(e, m) = Holding(tk[t], m) + (IF m = e.mint THEN n ELSE 0)
    BY <1>1 DEF Holding
  <1>3. /\ Held(tk, m) \in Int
        /\ Holding(tk[t], m) \in Int
        /\ Held([tk EXCEPT ![t] = e], m) = Held(tk, m) - Holding(tk[t], m) + Holding(e, m)
    BY HeldAfter
  <1> QED
    BY <1>2, <1>3

\* Spending takes n from the balance and leaves the mint (lines 444-447, 523-525).
LEMMA Spent ==
  ASSUME NEW d \in TokenData, NEW a, NEW n \in Amount, ~(d.amount < n),
         Spendable(d, a, n) = 0
  PROVE  /\ Spend(d, a, n) \in TokenData
         /\ Spend(d, a, n).mint = d.mint
         /\ Spend(d, a, n).amount = d.amount + (0 - n)
  <1>1. d.amount \in Amount /\ d.allowance \in Amount
    BY DEF TokenData
  <1>2. d.amount - n \in Amount /\ d.amount - n = d.amount + (0 - n)
    BY <1>1, GosplAssumption DEF Amount
  <1>3. CASE a = d.owner
    BY <1>1, <1>2, <1>3 DEF Spend, TokenData
  <1>4. CASE a # d.owner
    <2>1. d.allowance - n \in Amount
      BY <1>1, <1>4, SpendableBy, GosplAssumption DEF Amount
    <2> QED
      BY <1>1, <1>2, <1>4, <2>1 DEF Spend, TokenData
  <1> QED
    BY <1>3, <1>4

\* Receiving adds n to the balance and leaves the mint (lines 372, 449).
LEMMA Received ==
  ASSUME NEW d \in TokenData, NEW n \in Amount, Wraps(d.amount, n) = 0
  PROVE  /\ [d EXCEPT !.amount = Plus(@, n)] \in TokenData
         /\ [d EXCEPT !.amount = Plus(@, n)].mint = d.mint
         /\ [d EXCEPT !.amount = Plus(@, n)].amount = d.amount + n
  <1>1. d.amount \in Amount
    BY DEF TokenData
  <1>2. Plus(d.amount, n) \in Amount /\ Plus(d.amount, n) = d.amount + n
    BY <1>1, SumFits
  <1> QED
    BY <1>2 DEF TokenData

\* Supplies and holdings are integers.
Countable == \A m \in Mints : mint[m].supply \in Int /\ Held(token, m) \in Int

LEMMA Counted == IInv => Countable
  <1> SUFFICES ASSUME IInv, NEW m \in Mints
               PROVE  mint[m].supply \in Int /\ Held(token, m) \in Int
    BY DEF Countable
  <1> DEFINE f == [t \in Tokens |-> Holding(token[t], m)]
  <1>1. \A t \in Tokens : f[t] \in Int
    BY GosplAssumption DEF IInv, TypeOK, Holding, TokenData, Amount
  <1>2. Held(token, m) = SumFunctionOnSet(f, Tokens)
    BY DEF Held
  <1>3. IsFiniteSet(Tokens)
    BY GosplAssumption
  <1> HIDE DEF f
  <1>4. SumFunctionOnSet(f, Tokens) \in Int
    BY <1>1, <1>3, SumInt
  <1> QED
    BY <1>2, <1>4, GosplAssumption DEF IInv, TypeOK, MintData, Amount

\* An instruction that writes no supply and leaves what every account has.
LEMMA NothingMoves ==
  ASSUME IInv, \A m \in Mints : mint'[m].supply = mint[m].supply,
         \A m \in Mints : Held(token', m) = Held(token, m)
  PROVE  InStep
  BY Counted DEF InStep, Countable

\* Initialized accounts hold nothing and initialized mints have no supply.
LEMMA StepsTogether ==
  ASSUME IInv, Next
  PROVE  InStep
  <1>1. PICK p \in Privileges : Process(p)
    BY DEF Next
  <1>2. /\ token \in [Tokens -> TokenData]
        /\ mint \in [Mints -> MintData]
        /\ token' \in [Tokens -> TokenData]
    BY Steps DEF IInv, TypeOK, TokensStepped
  <1>3. ASSUME NEW m \in Addresses, NEW k \in NewKeys,
               Perform(InitializeMintChecks(m, p), InitializeMint(m, k), p)
        PROVE  InStep
    <2>1. m \in Mints /\ mint[m] = ZeroMint
      BY <1>3, InitializeMintChecked DEF Perform
    <2>2. \A x \in Mints : mint'[x].supply = mint[x].supply
      BY <1>2, <1>3, <2>1 DEF Perform, Wrote, InitializeMint, ZeroMint
    <2>3. token' = token
      BY <1>3 DEF Perform, Wrote, InitializeMint
    <2> QED
      BY <2>2, <2>3, NothingMoves
  <1>4. ASSUME NEW t \in Addresses, NEW m \in Addresses, NEW k \in NewKeys,
               Perform(InitializeAccountChecks(t, m, p), InitializeAccount(t, m, k), p)
        PROVE  InStep
    <2> DEFINE e == [tag |-> 2, flags |-> 1, amount |-> 0, allowance |-> 0,
                     mint |-> m, owner |-> k, delegate |-> NoKey]
    <2>1. t \in Tokens /\ token[t] = ZeroToken
      BY <1>4, InitializeAccountChecked DEF Perform
    <2>2. mint' = mint /\ token' = [token EXCEPT ![t] = e]
      BY <1>4 DEF Perform, Wrote, InitializeAccount
    <2>3. e \in TokenData
      BY <1>2, <2>1, <2>2
    <2>4. e.amount = 0 /\ token[t].amount = 0
      BY <2>1 DEF ZeroToken
    <2> HIDE DEF e
    <2>5. \A x : Held([token EXCEPT ![t] = e], x) = Held(token, x)
      BY <1>2, <2>1, <2>3, <2>4, HeldStill
    <2> QED
      BY <2>2, <2>5, NothingMoves
  <1>5. ASSUME NEW m \in Addresses, NEW t \in Addresses, NEW a \in Addresses,
               NEW n \in Amount, Perform(MintToChecks(m, t, a, n, p), MintTo(m, t, n), p)
        PROVE  InStep
    <2> DEFINE e == [token[t] EXCEPT !.amount = Plus(@, n)]
    <2>1. /\ m \in Mints
          /\ t \in Tokens /\ token[t].mint = m
          /\ Wraps(mint[m].supply, n) = 0 /\ Wraps(token[t].amount, n) = 0
      BY <1>5, MintToChecked DEF Perform
    <2>2. /\ mint' = [mint EXCEPT ![m].supply = Plus(@, n)]
          /\ token' = [token EXCEPT ![t] = e]
      BY <1>2, <1>5, <2>1 DEF Perform, Wrote, MintTo
    <2>3. mint[m] \in MintData /\ token[t] \in TokenData
      BY <1>2, <2>1
    <2>4. Plus(mint[m].supply, n) = mint[m].supply + n
      BY <2>1, <2>3, SumFits DEF MintData
    <2>5. e \in TokenData /\ e.mint = token[t].mint /\ e.amount = token[t].amount + n
      BY <2>1, <2>3, Received
    <2>6. n \in Int
      BY GosplAssumption DEF Amount
    <2> HIDE DEF e
    <2>7. \A x : Held(token', x) = Held(token, x) + (IF x = m THEN n ELSE 0)
      <3>1. \A x : Held([token EXCEPT ![t] = e], x) =
                     Held(token, x) + (IF x = e.mint THEN n ELSE 0)
        BY <1>2, <2>1, <2>5, <2>6, HeldMoves
      <3> QED
        BY <2>1, <2>2, <2>5, <3>1
    <2>8. \A x \in Mints : mint'[x].supply = mint[x].supply + (IF x = m THEN n ELSE 0)
      BY <1>2, <2>1, <2>2, <2>4, Counted DEF MintData, Countable
    <2> QED
      BY <2>6, <2>7, <2>8, Counted DEF InStep, Countable
  <1>6. ASSUME NEW s \in Addresses, NEW t \in Addresses, NEW a \in Addresses,
               NEW n \in Amount, Perform(TransferChecks(s, t, a, n, p), Transfer(s, t, a, n), p)
        PROVE  InStep
    <2> DEFINE d == Spend(token[s], a, n)
               e == [token[t] EXCEPT !.amount = Plus(@, n)]
               mid == [token EXCEPT ![s] = d]
    <2>1. /\ s \in Tokens /\ t \in Tokens /\ s # t
          /\ token[s].mint = token[t].mint
          /\ Spendable(token[s], a, n) = 0
          /\ ~(token[s].amount < n)
          /\ Wraps(token[t].amount, n) = 0
      BY <1>6, TransferChecked DEF Perform
    <2>2. mint' = mint /\ token' = [mid EXCEPT ![t] = e]
      BY <1>2, <1>6, <2>1 DEF Perform, Wrote, Transfer
    <2>3. token[s] \in TokenData /\ token[t] \in TokenData
      BY <1>2, <2>1
    <2>4. d \in TokenData /\ d.mint = token[s].mint /\ d.amount = token[s].amount + (0 - n)
      BY <2>1, <2>3, Spent
    <2>5. e \in TokenData /\ e.mint = token[t].mint /\ e.amount = token[t].amount + n
      BY <2>1, <2>3, Received
    <2>6. n \in Int /\ 0 - n \in Int
      BY GosplAssumption DEF Amount
    <2> HIDE DEF d, e
    <2>7. mid \in [Tokens -> TokenData] /\ mid[t] = token[t]
      BY <1>2, <2>1, <2>4
    <2>8. \A x : Held(mid, x) = Held(token, x) + (IF x = d.mint THEN 0 - n ELSE 0)
      BY <1>2, <2>1, <2>4, <2>6, HeldMoves
    <2> HIDE DEF mid
    <2>9. \A x : Held(token', x) = Held(mid, x) + (IF x = e.mint THEN n ELSE 0)
      <3>1. \A x : Held([mid EXCEPT ![t] = e], x) =
                     Held(mid, x) + (IF x = e.mint THEN n ELSE 0)
        <4>1. t \in Tokens /\ e.mint = mid[t].mint /\ e.amount = mid[t].amount + n
          BY <2>1, <2>5, <2>7
        <4> QED
          BY <2>5, <2>6, <2>7, <4>1, HeldMoves
      <3> QED
        BY <2>2, <3>1
    <2>10. \A x \in Mints : Held(token', x) = Held(token, x)
      BY <2>1, <2>4, <2>5, <2>6, <2>8, <2>9, Counted DEF Countable
    <2> QED
      BY <2>2, <2>10, NothingMoves
  <1>7. ASSUME NEW s \in Addresses, NEW m \in Addresses, NEW a \in Addresses,
               NEW n \in Amount, Perform(BurnChecks(s, m, a, n, p), Burn(s, m, a, n), p)
        PROVE  InStep
    <2> DEFINE d == Spend(token[s], a, n)
    <2>1. /\ m \in Mints
          /\ s \in Tokens /\ token[s].mint = m
          /\ Spendable(token[s], a, n) = 0
          /\ ~(token[s].amount < n)
      BY <1>7, BurnChecked DEF Perform
    <2>2. /\ mint' = [mint EXCEPT ![m].supply = @ - n]
          /\ token' = [token EXCEPT ![s] = d]
      BY <1>2, <1>7, <2>1 DEF Perform, Wrote, Burn
    <2>3. token[s] \in TokenData
      BY <1>2, <2>1
    <2>4. d \in TokenData /\ d.mint = token[s].mint /\ d.amount = token[s].amount + (0 - n)
      BY <2>1, <2>3, Spent
    <2>5. n \in Int /\ 0 - n \in Int
      BY GosplAssumption DEF Amount
    <2> HIDE DEF d
    <2>6. \A x : Held(token', x) = Held(token, x) + (IF x = m THEN 0 - n ELSE 0)
      <3>1. \A x : Held([token EXCEPT ![s] = d], x) =
                     Held(token, x) + (IF x = d.mint THEN 0 - n ELSE 0)
        BY <1>2, <2>1, <2>4, <2>5, HeldMoves
      <3> QED
        BY <2>1, <2>2, <2>4, <3>1
    <2>7. \A x \in Mints : mint'[x].supply = mint[x].supply + (IF x = m THEN 0 - n ELSE 0)
      BY <1>2, <2>1, <2>2, <2>5, Counted DEF MintData, Countable
    <2> QED
      BY <2>5, <2>6, <2>7, Counted DEF InStep, Countable
  <1>8. ASSUME NEW s \in Addresses, NEW o \in Addresses, NEW d \in Addresses, NEW n \in Amount,
               \/ Perform(OwnerChecks(s, o, p), Approve(s, d, n), p)
               \/ Perform(OwnerChecks(s, o, p), Revoke(s), p)
               \/ \E k \in NewKeys : Perform(OwnerChecks(s, o, p), SetOwner(s, k), p)
        PROVE  InStep
    <2>1. s \in Tokens
      BY <1>8, OwnerChecked DEF Perform
    <2>2. mint' = mint
      BY <1>8 DEF Perform, Wrote, Approve, Revoke, SetOwner
    <2> DEFINE e == token'[s]
    <2>3. e.amount = token[s].amount /\ e.mint = token[s].mint
      <3>1. token[s] \in TokenData
        BY <1>2, <2>1
      <3>2. CASE Perform(OwnerChecks(s, o, p), Approve(s, d, n), p)
        BY <1>2, <2>1, <3>1, <3>2 DEF Perform, Wrote, Approve, TokenData
      <3>3. CASE Perform(OwnerChecks(s, o, p), Revoke(s), p)
        BY <1>2, <2>1, <3>1, <3>3 DEF Perform, Wrote, Revoke, TokenData
      <3>4. ASSUME NEW k \in NewKeys, Perform(OwnerChecks(s, o, p), SetOwner(s, k), p)
            PROVE  e.amount = token[s].amount /\ e.mint = token[s].mint
        BY <1>2, <2>1, <3>1, <3>4 DEF Perform, Wrote, SetOwner, TokenData
      <3> QED
        BY <1>8, <3>2, <3>3, <3>4
    <2>4. token' = [token EXCEPT ![s] = e]
      <3>1. \A t \in Tokens : t # s => token'[t] = token[t]
        BY <1>2, <1>8, <2>1 DEF Perform, Wrote, Approve, Revoke, SetOwner
      <3> QED
        BY <1>2, <3>1
    <2>5. e \in TokenData
      BY <1>2, <2>1
    <2> HIDE DEF e
    <2>6. \A x : Held([token EXCEPT ![s] = e], x) = Held(token, x)
      BY <1>2, <2>1, <2>3, <2>5, HeldStill
    <2> QED
      BY <2>2, <2>4, <2>6, NothingMoves
  <1>9. ASSUME NEW m \in Addresses, NEW c \in Addresses,
               \/ Perform(SetMintAuthorityChecks(m, c, p), DisableMintAuthority(m), p)
               \/ \E k \in NewKeys :
                    Perform(SetMintAuthorityChecks(m, c, p), ReplaceMintAuthority(m, k), p)
        PROVE  InStep
    <2>1. m \in Mints
      BY <1>9, SetMintAuthorityChecked DEF Perform
    <2>2. token' = token
      BY <1>9 DEF Perform, Wrote, DisableMintAuthority, ReplaceMintAuthority
    <2>3. \A x \in Mints : mint'[x].supply = mint[x].supply
      BY <1>2, <1>9, <2>1 DEF Perform, Wrote, DisableMintAuthority, ReplaceMintAuthority, MintData
    <2> QED
      BY <2>2, <2>3, NothingMoves
  <1>10. 0 \in Amount /\ \A s \in Addresses : \E d \in Addresses : TRUE
    BY GosplAssumption DEF Amount
  <1> QED
    BY <1>1, <1>3, <1>4, <1>5, <1>6, <1>7, <1>8, <1>9, <1>10 DEF Process

\* What SupplyIsBalances says, the sums named.
Backed == \A m \in Mints : mint[m].supply = Held(token, m)

LEMMA BackedInit == ASSUME Init PROVE Backed
  <1>1. ASSUME NEW m \in Mints PROVE Held(token, m) = 0
    <2> DEFINE f == [t \in Tokens |-> Holding(token[t], m)]
    <2>1. \A t \in Tokens : f[t] = 0
      BY DEF Init, Holding, ZeroToken
    <2>2. Held(token, m) = SumFunctionOnSet(f, Tokens)
      BY DEF Held
    <2>3. IsFiniteSet(Tokens)
      BY GosplAssumption
    <2> HIDE DEF f
    <2>4. SumFunctionOnSet(f, Tokens) = 0
      BY <2>1, <2>3, SumZero
    <2> QED
      BY <2>2, <2>4
  <1> QED
    BY <1>1 DEF Init, ZeroMint, Backed

LEMMA BackedNext == ASSUME IInv, Backed, [Next]_vars PROVE Backed'
  <1>1. CASE Next
    <2>1. InStep
      BY <1>1, StepsTogether
    <2>2. ASSUME NEW m \in Mints PROVE mint'[m].supply = Held(token', m)
      <3>1. mint'[m].supply = mint[m].supply + (Held(token', m) - Held(token, m))
        BY <2>1 DEF InStep
      <3>2. mint[m].supply = Held(token, m) /\ Held(token, m) \in Int
        BY Counted DEF Countable, Backed
      <3>3. Held(token', m) \in Int
        <4>1. IInv'
          BY IInvNext
        <4>2. IInv' => Countable'
          BY Counted, PTL
        <4> QED
          BY <4>1, <4>2 DEF Countable
      <3> QED
        BY <3>1, <3>2, <3>3
    <2> QED
      BY <2>2 DEF Backed
  <1>2. CASE UNCHANGED vars
    BY <1>2 DEF vars, Held, Backed
  <1> QED
    BY <1>1, <1>2

LEMMA BackedIs == Backed <=> SupplyIsBalances
  BY DEF Backed, SupplyIsBalances, Held

\* No token appears or disappears: the supply of every mint is the sum of the
\* balances of the accounts that name it (ProcessMintTo, ProcessTransfer and
\* ProcessBurn).
THEOREM SuppliesAreBacked == Spec => []SupplyIsBalances
  BY IInvInit, IInvNext, BackedInit, BackedNext, BackedIs, PTL DEF Spec

-----------------------------------------------------------------------------
(* The guest and the oracle.                                               *)

\* The oracle's states before the instruction.
Ms == [x \in Mints |-> DecodeMint(mint[x])]
Ts == [x \in Tokens |-> DecodeToken(token[x])]

\* The code of a chain of checks.
LEMMA FirstCode == \A a, b : (a ?? b) = IF a # 0 THEN a ELSE b
  BY DEF ??

\* Both require the same of an account (RequireOwned and RequireOwnedWritable,
\* lines 127-153; requireProgramAccount of the oracle).
LEMMA OwnedAlike ==
  ASSUME NEW x, NEW size, NEW p
  PROVE  /\ O!RequireProgramAccount(x, size, TRUE, p) = RequireOwnedWritable(x, size, p)
         /\ O!RequireProgramAccount(x, size, FALSE, p) = RequireOwned(x, size)
  <1>1. CASE x \in Keys
    BY <1>1 DEF O!RequireProgramAccount, RequireOwnedWritable, RequireOwned
  <1>2. CASE x \notin Keys /\ x \in p.writable
    BY <1>2 DEF O!RequireProgramAccount, RequireOwnedWritable, RequireOwned
  <1>3. CASE x \notin Keys /\ x \notin p.writable
    BY <1>3 DEF O!RequireProgramAccount, RequireOwnedWritable, RequireOwned
  <1> QED
    BY <1>1, <1>2, <1>3

\* Both ask the same of an authority.
LEMMA AuthorityAlike ==
  ASSUME NEW x, NEW expected, NEW p
  PROVE  O!RequireAuthority(x, expected, p) = RequireAuthority(x, expected, p)
  BY DEF O!RequireAuthority, RequireAuthority, RequireSigner

\* The guest's validators say of the bytes what the oracle reads in them.
LEMMA MintAlike ==
  ASSUME IInv, NEW x \in Mints
  PROVE  /\ ValidateMint(MintAt(x)) = IF Ms[x].initialized THEN 0 ELSE 9
         /\ RequireZero(MintAt(x), ZeroMint, ValidateMint(MintAt(x))) =
              IF Ms[x].initialized THEN 8 ELSE 0
         /\ Ms[x].authority.set <=> mint[x].flags = 3
         /\ mint[x].flags = 3 => Ms[x].authority.key = mint[x].authority
         /\ Ms[x].supply = mint[x].supply
         /\ MintAt(x) = mint[x]
  <1>1. MintAt(x) = mint[x] /\ Ms[x] = DecodeMint(mint[x])
    BY DEF MintAt, Ms
  <1>2. /\ DecodeMint(mint[x]).initialized = (mint[x].tag = 1)
        /\ DecodeMint(mint[x]).authority.set <=> mint[x].flags = 3
        /\ mint[x].flags = 3 => Ms[x].authority.key = mint[x].authority
        /\ Ms[x].supply = mint[x].supply
    <2>1. DecodeMint(mint[x]).initialized = (mint[x].tag = 1)
      BY Zenon DEF DecodeMint
    <2>2. DecodeMint(mint[x]).supply = mint[x].supply
      BY DEF DecodeMint
    <2>3. CASE mint[x].flags = 3
      <3>1. DecodeMint(mint[x]).authority = O!Authority(mint[x].authority)
        BY <2>3 DEF DecodeMint
      <3> QED
        BY <1>1, <2>1, <2>2, <2>3, <3>1 DEF O!Authority
    <2>4. CASE mint[x].flags # 3
      <3>1. DecodeMint(mint[x]).authority = O!NoAuthority
        BY <2>4 DEF DecodeMint
      <3> QED
        BY <1>1, <2>1, <2>2, <2>4, <3>1 DEF O!NoAuthority
    <2> QED
      BY <2>3, <2>4
  <1>3. mint[x] = ZeroMint <=> mint[x].tag # 1
    BY DEF IInv, MintSound, LiveMint, ZeroMint
  <1>4. ValidateMint(mint[x]) = IF mint[x].tag = 1 THEN 0 ELSE 9
    BY <1>3, ValidatesMint DEF IInv, MintSound
  <1> QED
    BY <1>1, <1>2, <1>3, <1>4 DEF RequireZero

\* The same of token accounts.
LEMMA TokenAlike ==
  ASSUME IInv, NEW x \in Tokens
  PROVE  /\ ValidateToken(TokenAt(x)) = IF Ts[x].initialized THEN 0 ELSE 9
         /\ RequireZero(TokenAt(x), ZeroToken, ValidateToken(TokenAt(x))) =
              IF Ts[x].initialized THEN 8 ELSE 0
         /\ Ts[x] = DecodeToken(token[x])
         /\ Ts[x].mint = token[x].mint
         /\ Ts[x].owner = token[x].owner
         /\ Ts[x].amount = token[x].amount
         /\ TokenAt(x) = token[x]
  <1>1. TokenAt(x) = token[x] /\ Ts[x] = DecodeToken(token[x])
    BY DEF TokenAt, Ts
  <1>2. /\ DecodeToken(token[x]).initialized = (token[x].tag = 2)
        /\ Ts[x].mint = token[x].mint
        /\ Ts[x].owner = token[x].owner
        /\ Ts[x].amount = token[x].amount
    <2>1. DecodeToken(token[x]).initialized = (token[x].tag = 2)
      BY Zenon DEF DecodeToken
    <2>2. /\ Ts[x].mint = token[x].mint
          /\ Ts[x].owner = token[x].owner
          /\ Ts[x].amount = token[x].amount
      BY <1>1 DEF DecodeToken
    <2> QED
      BY <2>1, <2>2
  <1>3. token[x] = ZeroToken <=> token[x].tag # 2
    BY DEF IInv, TokenSound, LiveToken, ZeroToken
  <1>4. ValidateToken(token[x]) = IF token[x].tag = 2 THEN 0 ELSE 9
    BY <1>3, ValidatesToken DEF IInv, TokenSound
  <1> QED
    BY <1>1, <1>2, <1>3, <1>4 DEF RequireZero

\* The guest looks for a sum that wrapped, the oracle for one that would.
LEMMA WrapsAlike ==
  ASSUME NEW a \in Amount, NEW n \in Amount
  PROVE  Wraps(a, n) = IF a > U64 - 1 - n THEN 13 ELSE 0
  <1>1. U64 \in Nat /\ U64 > 0 /\ a \in Nat /\ n \in Nat /\ a < U64 /\ n < U64
    BY GosplAssumption DEF Amount
  <1>2. CASE a + n < U64
    <2>1. Plus(a, n) = a + n
      BY <1>1, <1>2 DEF Plus
    <2> QED
      BY <1>1, <1>2, <2>1 DEF Wraps
  <1>3. CASE a + n >= U64
    <2>1. Plus(a, n) = a + n - U64
      BY <1>1, <1>3 DEF Plus
    <2> QED
      BY <1>1, <1>3, <2>1 DEF Wraps
  <1> QED
    BY <1>1, <1>2, <1>3

\* Whom both let spend (authorizeToken of the oracle).
LEMMA SpendersAlike ==
  ASSUME NEW d \in TokenData, NEW a, NEW n, NEW p
  PROVE  O!Authorize(DecodeToken(d), a, n, p) =
           IF RequireSigner(a, p) # 0 THEN RequireSigner(a, p) ELSE Spendable(d, a, n)
  <1>1. DecodeToken(d).owner = d.owner /\ DecodeToken(d).delegated = d.allowance
    BY DEF DecodeToken
  <1>2. DecodeToken(d).delegate = O!Authority(a) <=> d.flags = 3 /\ d.delegate = a
    BY DEF DecodeToken, O!Authority, O!NoAuthority
  <1>3. CASE a \notin p.signers
    BY <1>3 DEF O!Authorize, RequireSigner
  <1>4. CASE a \in p.signers /\ a = d.owner
    BY <1>1, <1>4 DEF O!Authorize, RequireSigner, Spendable
  <1>5. CASE a \in p.signers /\ a # d.owner
    BY <1>1, <1>2, <1>5 DEF O!Authorize, RequireSigner, Spendable, Enough
  <1> QED
    BY <1>3, <1>4, <1>5

\* A mint written, before and after decoding.
LEMMA MintWritten ==
  ASSUME IInv, NEW x \in Mints, NEW d
  PROVE  [y \in Mints |-> DecodeMint([mint EXCEPT ![x] = d][y])] =
           [Ms EXCEPT ![x] = DecodeMint(d)]
  <1>1. mint = [y \in Mints |-> mint[y]]
    BY DEF IInv, TypeOK
  <1> QED
    BY <1>1 DEF Ms

\* A token account written, before and after decoding.
LEMMA TokenWritten ==
  ASSUME NEW tk \in [Tokens -> TokenData], NEW x \in Tokens, NEW d
  PROVE  [y \in Tokens |-> DecodeToken([tk EXCEPT ![x] = d][y])] =
           [[y \in Tokens |-> DecodeToken(tk[y])] EXCEPT ![x] = DecodeToken(d)]
  OBVIOUS

\* The oracle errs with the guest's code and leaves the states alone, or writes
\* what the guest writes.
LEMMA Agreement ==
  ASSUME NEW code, NEW mints, NEW tokens, NEW outcome,
         code # 0 => outcome = O!Err(code, Ms, Ts),
         code = 0 => outcome = O!Ok([x \in Mints |-> DecodeMint(mints[x])],
                                    [x \in Tokens |-> DecodeToken(tokens[x])])
  PROVE  Agree(code, Wrote(mints, tokens), outcome)
  <1>1. CASE code = 0
    BY <1>1 DEF Agree, Decoded, Wrote, O!Ok
  <1>2. CASE code # 0
    BY <1>2 DEF Agree, Decoded, Wrote, Unchanged, O!Err, Ms, Ts
  <1> QED
    BY <1>1, <1>2

\* Two accounts of an instruction, checked in the same order.
LEMMA PairAlike ==
  ASSUME NEW x, NEW xs, NEW y, NEW ys, NEW p
  PROVE  O!Pair(x, xs, y, ys, p) =
           (SameAccount(x, y) ?? RequireOwnedWritable(x, xs, p) ?? RequireOwnedWritable(y, ys, p))
  <1>1. /\ O!RequireProgramAccount(x, xs, TRUE, p) = RequireOwnedWritable(x, xs, p)
        /\ O!RequireProgramAccount(y, ys, TRUE, p) = RequireOwnedWritable(y, ys, p)
    BY OwnedAlike
  <1>2. SameAccount(x, y) = IF x = y THEN 14 ELSE 0
    BY DEF SameAccount
  <1>3. CASE x = y
    BY <1>2, <1>3, FirstCode DEF O!Pair
  <1>4. CASE x # y
    <2>1. SameAccount(x, y) = 0
      BY <1>2, <1>4
    <2>2. (SameAccount(x, y) ?? RequireOwnedWritable(x, xs, p)) = RequireOwnedWritable(x, xs, p)
      BY <2>1, FirstCode
    <2> QED
      BY <1>1, <1>4, <2>2, FirstCode DEF O!Pair
  <1> QED
    BY <1>3, <1>4

\* The oracle's records of token accounts.
OracleToken ==
  [initialized : BOOLEAN, mint : KeyBytes, owner : KeyBytes, amount : Amount,
   delegate : {O!NoAuthority} \cup {O!Authority(k) : k \in KeyBytes}, delegated : Amount]

\* They are what their fields say.
LEMMA SameRecord ==
  ASSUME NEW a \in OracleToken, NEW b \in OracleToken,
         a.initialized = b.initialized, a.mint = b.mint, a.owner = b.owner,
         a.amount = b.amount, a.delegate = b.delegate, a.delegated = b.delegated
  PROVE  a = b
  BY DEF OracleToken

\* What the oracle reads in an account.
LEMMA TokenDecoded ==
  ASSUME NEW d \in TokenData
  PROVE  /\ DecodeToken(d) \in OracleToken
         /\ DecodeToken(d).initialized = (d.tag = 2)
         /\ DecodeToken(d).mint = d.mint
         /\ DecodeToken(d).owner = d.owner
         /\ DecodeToken(d).amount = d.amount
         /\ DecodeToken(d).delegate =
              IF d.flags = 3 THEN O!Authority(d.delegate) ELSE O!NoAuthority
         /\ DecodeToken(d).delegated = d.allowance
  <1>1. (d.tag = 2) \in BOOLEAN
    OBVIOUS
  <1>2. DecodeToken(d).initialized = (d.tag = 2)
    BY Zenon DEF DecodeToken
  <1> QED
    BY <1>1, <1>2 DEF DecodeToken, OracleToken, TokenData

\* What Approve, Revoke and SetAuthority of an account check.
LEMMA OwnerAlike ==
  ASSUME IInv, NEW x, NEW y, NEW p
  PROVE  OwnerChecks(x, y, p) = O!OwnerError(x, y, p, Ts)
  <1> DEFINE owned == RequireOwnedWritable(x, Tokens, p)
             valid == ValidateToken(TokenAt(x))
             owner == RequireAuthority(y, TokenAt(x).owner, p)
  <1>1. OwnerChecks(x, y, p) =
          IF owned # 0 THEN owned ELSE IF valid # 0 THEN valid ELSE owner
    BY FirstCode DEF OwnerChecks
  <1>2. O!OwnerError(x, y, p, Ts) =
          IF owned # 0 THEN owned ELSE IF ~Ts[x].initialized THEN 9
          ELSE RequireAuthority(y, Ts[x].owner, p)
    BY OwnedAlike, AuthorityAlike DEF O!OwnerError
  <1>3. CASE owned # 0
    BY <1>1, <1>2, <1>3
  <1>4. CASE owned = 0
    <2>1. x \in Tokens
      BY <1>4, Owned
    <2>2. /\ valid = IF Ts[x].initialized THEN 0 ELSE 9
          /\ Ts[x].owner = TokenAt(x).owner
      BY <2>1, TokenAlike
    <2> HIDE DEF owned, valid
    <2> QED
      BY <1>1, <1>2, <1>4, <2>2
  <1> QED
    BY <1>3, <1>4

\* A token account written by an instruction that leaves the mints alone.
LEMMA TokenOnly ==
  ASSUME IInv, NEW code, NEW x \in Tokens, NEW d, NEW outcome,
         code # 0 => outcome = O!Err(code, Ms, Ts),
         code = 0 => outcome = O!Ok(Ms, [Ts EXCEPT ![x] = DecodeToken(d)])
  PROVE  Agree(code, Wrote(mint, [token EXCEPT ![x] = d]), outcome)
  <1>1. token \in [Tokens -> TokenData]
    BY DEF IInv, TypeOK
  <1>2. [y \in Tokens |-> DecodeToken([token EXCEPT ![x] = d][y])] =
           [Ts EXCEPT ![x] = DecodeToken(d)]
    BY <1>1, TokenWritten DEF Ts
  <1>3. [y \in Mints |-> DecodeMint(mint[y])] = Ms
    BY DEF Ms
  <1> QED
    BY <1>2, <1>3, Agreement

\* An instruction that both refuse.
LEMMA BothRefuse ==
  ASSUME NEW code, code # 0, NEW written, NEW outcome, outcome = O!Err(code, Ms, Ts)
  PROVE  Agree(code, written, outcome)
  BY DEF Agree, Decoded, Wrote, Unchanged, O!Err, Ms, Ts

\* ProcessApprove, ProcessRevoke and the owner's ProcessSetAuthority.
LEMMA OwnersAgree ==
  ASSUME IInv, NEW x, NEW y, NEW z \in KeyBytes, NEW n \in Amount,
         NEW k \in KeyBytes, NEW p
  PROVE  /\ Agree(OwnerChecks(x, y, p), Revoke(x), O!Revoke(x, y, p, Ms, Ts))
         /\ Agree(OwnerChecks(x, y, p), SetOwner(x, k), O!SetOwner(x, y, k, p, Ms, Ts))
         /\ Agree(OwnerChecks(x, y, p), Approve(x, z, n), O!Approve(x, y, z, n, p, Ms, Ts))
  <1> DEFINE code == OwnerChecks(x, y, p)
  <1>1. code = O!OwnerError(x, y, p, Ts)
    BY OwnerAlike
  <1>2. CASE code # 0
    <2>1. /\ O!Revoke(x, y, p, Ms, Ts) = O!Err(code, Ms, Ts)
          /\ O!SetOwner(x, y, k, p, Ms, Ts) = O!Err(code, Ms, Ts)
          /\ O!Approve(x, y, z, n, p, Ms, Ts) = O!Err(code, Ms, Ts)
      BY <1>1, <1>2 DEF O!Revoke, O!SetOwner, O!Approve
    <2> QED
      BY <1>2, <2>1, BothRefuse
  <1>3. CASE code = 0
    <2>1. x \in Tokens /\ token[x] \in TokenData /\ token[x].tag = 2
      BY <1>3, OwnerChecked DEF IInv, TypeOK, LiveToken
    <2> HIDE DEF code
    <2>2. Ts[x] = DecodeToken(token[x]) /\ token = [u \in Tokens |-> token[u]]
          /\ Ts = [u \in Tokens |-> Ts[u]]
      BY <2>1, TokenAlike DEF IInv, TypeOK, Ts
    <2>3. NoKey \in KeyBytes /\ 0 \in Amount
      BY GosplAssumption DEF KeyBytes, Amount
    <2>4. Agree(code, Revoke(x), O!Revoke(x, y, p, Ms, Ts))
      <3> DEFINE e == [token[x] EXCEPT !.flags = 1, !.allowance = 0, !.delegate = NoKey]
      <3>1. Revoke(x) = Wrote(mint, [token EXCEPT ![x] = e])
        BY <2>1, <2>2 DEF Revoke, Wrote, TokenData
      <3>2. DecodeToken(e) =
              [DecodeToken(token[x]) EXCEPT !.delegate = O!NoAuthority, !.delegated = 0]
        <4> DEFINE after == [DecodeToken(token[x]) EXCEPT !.delegate = O!NoAuthority, !.delegated = 0]
        <4>1. /\ e \in TokenData
              /\ e.tag = 2 /\ e.flags = 1 /\ e.delegate = NoKey /\ e.allowance = 0
              /\ e.owner = token[x].owner
              /\ e.mint = token[x].mint /\ e.amount = token[x].amount
          BY <2>1, <2>3 DEF TokenData
        <4>2. /\ after \in OracleToken
              /\ after.initialized = DecodeToken(token[x]).initialized
              /\ after.mint = token[x].mint
              /\ after.owner = token[x].owner
              /\ after.amount = token[x].amount
              /\ after.delegate = O!NoAuthority
              /\ after.delegated = 0
          BY <2>1, <2>3, TokenDecoded DEF OracleToken
        <4>3. DecodeToken(e).initialized = after.initialized
          BY <2>1, <4>1, <4>2, TokenDecoded
        <4> HIDE DEF e, after
        <4>4. DecodeToken(e) = after
          BY <4>1, <4>2, <4>3, TokenDecoded, SameRecord
        <4> QED
          BY <4>4 DEF after
      <3>3. O!Revoke(x, y, p, Ms, Ts) = O!Ok(Ms, [Ts EXCEPT ![x] = DecodeToken(e)])
        BY <1>1, <1>3, <2>1, <2>2, <3>2 DEF O!Revoke
      <3> HIDE DEF e
      <3> QED
        BY <1>3, <2>1, <3>1, <3>3, TokenOnly
    <2>5. Agree(code, SetOwner(x, k), O!SetOwner(x, y, k, p, Ms, Ts))
      <3> DEFINE e == [token[x] EXCEPT !.owner = k, !.flags = 1, !.allowance = 0,
                                       !.delegate = NoKey]
      <3>1. SetOwner(x, k) = Wrote(mint, [token EXCEPT ![x] = e])
        BY <2>1, <2>2 DEF SetOwner, Wrote, TokenData
      <3>2. DecodeToken(e) =
              [DecodeToken(token[x]) EXCEPT !.owner = k, !.delegate = O!NoAuthority,
                                            !.delegated = 0]
        <4> DEFINE after == [DecodeToken(token[x]) EXCEPT !.owner = k, !.delegate = O!NoAuthority,
                                                      !.delegated = 0]
        <4>1. /\ e \in TokenData
              /\ e.tag = 2 /\ e.flags = 1 /\ e.delegate = NoKey /\ e.allowance = 0
              /\ e.owner = k
              /\ e.mint = token[x].mint /\ e.amount = token[x].amount
          BY <2>1, <2>3 DEF TokenData
        <4>2. /\ after \in OracleToken
              /\ after.initialized = DecodeToken(token[x]).initialized
              /\ after.mint = token[x].mint
              /\ after.owner = k
              /\ after.amount = token[x].amount
              /\ after.delegate = O!NoAuthority
              /\ after.delegated = 0
          BY <2>1, <2>3, TokenDecoded DEF OracleToken
        <4>3. DecodeToken(e).initialized = after.initialized
          BY <2>1, <4>1, <4>2, TokenDecoded
        <4> HIDE DEF e, after
        <4>4. DecodeToken(e) = after
          BY <4>1, <4>2, <4>3, TokenDecoded, SameRecord
        <4> QED
          BY <4>4 DEF after
      <3>3. O!SetOwner(x, y, k, p, Ms, Ts) = O!Ok(Ms, [Ts EXCEPT ![x] = DecodeToken(e)])
        BY <1>1, <1>3, <2>1, <2>2, <3>2 DEF O!SetOwner
      <3> HIDE DEF e
      <3> QED
        BY <1>3, <2>1, <3>1, <3>3, TokenOnly
    <2>6. Agree(code, Approve(x, z, n), O!Approve(x, y, z, n, p, Ms, Ts))
      <3> DEFINE e == [token[x] EXCEPT !.flags = 3, !.allowance = n, !.delegate = z]
      <3>1. Approve(x, z, n) = Wrote(mint, [token EXCEPT ![x] = e])
        BY <2>1, <2>2 DEF Approve, Wrote, TokenData
      <3>2. DecodeToken(e) =
              [DecodeToken(token[x]) EXCEPT !.delegate = O!Authority(z), !.delegated = n]
        <4> DEFINE after == [DecodeToken(token[x]) EXCEPT !.delegate = O!Authority(z), !.delegated = n]
        <4>1. /\ e \in TokenData
              /\ e.tag = 2 /\ e.flags = 3 /\ e.delegate = z /\ e.allowance = n
              /\ e.owner = token[x].owner
              /\ e.mint = token[x].mint /\ e.amount = token[x].amount
          BY <2>1, <2>3 DEF TokenData
        <4>2. /\ after \in OracleToken
              /\ after.initialized = DecodeToken(token[x]).initialized
              /\ after.mint = token[x].mint
              /\ after.owner = token[x].owner
              /\ after.amount = token[x].amount
              /\ after.delegate = O!Authority(z)
              /\ after.delegated = n
          BY <2>1, <2>3, TokenDecoded DEF OracleToken
        <4>3. DecodeToken(e).initialized = after.initialized
          BY <2>1, <4>1, <4>2, TokenDecoded
        <4> HIDE DEF e, after
        <4>4. DecodeToken(e) = after
          BY <4>1, <4>2, <4>3, TokenDecoded, SameRecord
        <4> QED
          BY <4>4 DEF after
      <3>3. O!Approve(x, y, z, n, p, Ms, Ts) = O!Ok(Ms, [Ts EXCEPT ![x] = DecodeToken(e)])
        BY <1>1, <1>3, <2>1, <2>2, <3>2 DEF O!Approve
      <3> HIDE DEF e
      <3> QED
        BY <1>3, <2>1, <3>1, <3>3, TokenOnly
    <2> QED
      BY <2>4, <2>5, <2>6 DEF code
  <1> QED
    BY <1>2, <1>3

\* The oracle's records of mints.
OracleMint ==
  [initialized : BOOLEAN, supply : Amount,
   authority : {O!NoAuthority} \cup {O!Authority(k) : k \in KeyBytes}]

\* They are what their fields say.
LEMMA SameMintRecord ==
  ASSUME NEW a \in OracleMint, NEW b \in OracleMint,
         a.initialized = b.initialized, a.supply = b.supply, a.authority = b.authority
  PROVE  a = b
  BY DEF OracleMint

\* What the oracle reads in a mint.
LEMMA MintDecoded ==
  ASSUME NEW d \in MintData
  PROVE  /\ DecodeMint(d) \in OracleMint
         /\ DecodeMint(d).initialized = (d.tag = 1)
         /\ DecodeMint(d).supply = d.supply
         /\ DecodeMint(d).authority =
              IF d.flags = 3 THEN O!Authority(d.authority) ELSE O!NoAuthority
  <1>1. (d.tag = 1) \in BOOLEAN
    OBVIOUS
  <1>2. DecodeMint(d).initialized = (d.tag = 1)
    BY Zenon DEF DecodeMint
  <1> QED
    BY <1>1, <1>2 DEF DecodeMint, OracleMint, MintData

\* A mint written by an instruction that leaves the token accounts alone.
LEMMA MintOnly ==
  ASSUME IInv, NEW code, NEW x \in Mints, NEW d, NEW outcome,
         code # 0 => outcome = O!Err(code, Ms, Ts),
         code = 0 => outcome = O!Ok([Ms EXCEPT ![x] = DecodeMint(d)], Ts)
  PROVE  Agree(code, Wrote([mint EXCEPT ![x] = d], token), outcome)
  <1>1. [y \in Mints |-> DecodeMint([mint EXCEPT ![x] = d][y])] =
           [Ms EXCEPT ![x] = DecodeMint(d)]
    BY MintWritten
  <1>2. [y \in Tokens |-> DecodeToken(token[y])] = Ts
    BY DEF Ts
  <1> QED
    BY <1>1, <1>2, Agreement

\* A mint and a token account written.
LEMMA BothWritten ==
  ASSUME IInv, NEW code, NEW x \in Mints, NEW d, NEW y \in Tokens, NEW e, NEW outcome,
         code # 0 => outcome = O!Err(code, Ms, Ts),
         code = 0 => outcome = O!Ok([Ms EXCEPT ![x] = DecodeMint(d)],
                                    [Ts EXCEPT ![y] = DecodeToken(e)])
  PROVE  Agree(code, Wrote([mint EXCEPT ![x] = d], [token EXCEPT ![y] = e]), outcome)
  <1>1. [u \in Mints |-> DecodeMint([mint EXCEPT ![x] = d][u])] =
           [Ms EXCEPT ![x] = DecodeMint(d)]
    BY MintWritten
  <1>2. token \in [Tokens -> TokenData]
    BY DEF IInv, TypeOK
  <1>3. [u \in Tokens |-> DecodeToken([token EXCEPT ![y] = e][u])] =
           [Ts EXCEPT ![y] = DecodeToken(e)]
    BY <1>2, TokenWritten DEF Ts
  <1> QED
    BY <1>1, <1>3, Agreement

\* Both initialize a mint (ProcessInitializeMint).
LEMMA InitializeMintAgrees ==
  ASSUME IInv, NEW x, NEW k \in KeyBytes, NEW p
  PROVE  Agree(InitializeMintChecks(x, p), InitializeMint(x, k),
               O!InitializeMint(x, k, p, Ms, Ts))
  <1> DEFINE code == InitializeMintChecks(x, p)
             owned == RequireOwnedWritable(x, Mints, p)
             signer == RequireSigner(x, p)
             zero == RequireZero(MintAt(x), ZeroMint, ValidateMint(MintAt(x)))
             e == [tag |-> 1, flags |-> 3, supply |-> 0, authority |-> k]
             new == [initialized |-> TRUE, supply |-> 0, authority |-> O!Authority(k)]
  <1>1. code = IF owned # 0 THEN owned ELSE IF signer # 0 THEN signer ELSE zero
    BY FirstCode DEF InitializeMintChecks
  <1>2. O!InitializeMint(x, k, p, Ms, Ts) =
          IF owned # 0 THEN O!Err(owned, Ms, Ts)
          ELSE IF x \notin p.signers THEN O!Err(5, Ms, Ts)
          ELSE IF Ms[x].initialized THEN O!Err(8, Ms, Ts)
          ELSE O!Ok([Ms EXCEPT ![x] = new], Ts)
    BY OwnedAlike DEF O!InitializeMint
  <1>3. signer = IF x \in p.signers THEN 0 ELSE 5
    BY DEF RequireSigner
  <1>4. InitializeMint(x, k) = Wrote([mint EXCEPT ![x] = e], token)
    BY DEF InitializeMint
  <1>5. DecodeMint(e) = new
    <2>1. e \in MintData /\ 0 \in Amount
      BY GosplAssumption DEF MintData, Amount
    <2>2. e.tag = 1 /\ e.flags = 3 /\ e.supply = 0 /\ e.authority = k
      OBVIOUS
    <2>3. /\ new \in OracleMint
          /\ new.initialized = TRUE /\ new.supply = 0 /\ new.authority = O!Authority(k)
      BY <2>1 DEF OracleMint
    <2> HIDE DEF e, new
    <2>4. (e.tag = 1) = TRUE
      BY <2>2
    <2>5. /\ DecodeMint(e) \in OracleMint
          /\ DecodeMint(e).initialized = (e.tag = 1)
          /\ DecodeMint(e).supply = 0 /\ DecodeMint(e).authority = O!Authority(k)
      BY <2>1, <2>2, MintDecoded
    <2>6. DecodeMint(e).initialized = new.initialized
      BY <2>3, <2>4, <2>5, Zenon
    <2> QED
      BY <2>3, <2>5, <2>6, SameMintRecord
  <1>6. CASE owned # 0
    BY <1>1, <1>2, <1>6, BothRefuse
  <1>7. CASE owned = 0
    <2>1. x \in Mints
      BY <1>7, Owned
    <2>2. zero = IF Ms[x].initialized THEN 8 ELSE 0
      BY <2>1, MintAlike
    <2> HIDE DEF owned, signer, zero, e, new, code
    <2>3. code # 0 => O!InitializeMint(x, k, p, Ms, Ts) = O!Err(code, Ms, Ts)
      BY <1>1, <1>2, <1>3, <1>7, <2>2
    <2>4. code = 0 => O!InitializeMint(x, k, p, Ms, Ts) = O!Ok([Ms EXCEPT ![x] = new], Ts)
      BY <1>1, <1>2, <1>3, <1>7, <2>2
    <2>5. Agree(code, InitializeMint(x, k), O!InitializeMint(x, k, p, Ms, Ts))
      BY <1>4, <1>5, <2>1, <2>3, <2>4, MintOnly
    <2> QED
      BY <2>5 DEF code
  <1> QED
    BY <1>6, <1>7

\* Both initialize a token account (ProcessInitializeAccount).
LEMMA InitializeAccountAgrees ==
  ASSUME IInv, NEW x, NEW y, NEW k \in KeyBytes, NEW p
  PROVE  Agree(InitializeAccountChecks(x, y, p), InitializeAccount(x, y, k),
               O!InitializeAccount(x, y, k, p, Ms, Ts))
  <1> DEFINE code == InitializeAccountChecks(x, y, p)
             same == SameAccount(x, y)
             owned == RequireOwnedWritable(x, Tokens, p)
             signer == RequireSigner(x, p)
             mintOwned == RequireOwned(y, Mints)
             valid == ValidateMint(MintAt(y))
             zero == RequireZero(TokenAt(x), ZeroToken, ValidateToken(TokenAt(x)))
             outcome == O!InitializeAccount(x, y, k, p, Ms, Ts)
             e == [tag |-> 2, flags |-> 1, amount |-> 0, allowance |-> 0,
                   mint |-> y, owner |-> k, delegate |-> NoKey]
             new == [O!EmptyToken EXCEPT !.initialized = TRUE, !.mint = y, !.owner = k]
  <1>1. code = IF same # 0 THEN same ELSE IF owned # 0 THEN owned
               ELSE IF signer # 0 THEN signer ELSE IF mintOwned # 0 THEN mintOwned
               ELSE IF valid # 0 THEN valid ELSE zero
    <2>1. code = (same ?? owned ?? signer ?? mintOwned ?? valid ?? zero)
      BY DEF InitializeAccountChecks
    <2> HIDE DEF code, same, owned, signer, mintOwned, valid, zero
    <2> QED
      BY <2>1, FirstCode
  <1>2. outcome =
          IF x = y THEN O!Err(14, Ms, Ts)
          ELSE IF owned # 0 THEN O!Err(owned, Ms, Ts)
          ELSE IF x \notin p.signers THEN O!Err(5, Ms, Ts)
          ELSE IF mintOwned # 0 THEN O!Err(mintOwned, Ms, Ts)
          ELSE IF ~Ms[y].initialized THEN O!Err(9, Ms, Ts)
          ELSE IF Ts[x].initialized THEN O!Err(8, Ms, Ts)
          ELSE O!Ok(Ms, [Ts EXCEPT ![x] = new])
    BY OwnedAlike DEF O!InitializeAccount
  <1>3. /\ signer = IF x \in p.signers THEN 0 ELSE 5
        /\ same = IF x = y THEN 14 ELSE 0
    BY DEF RequireSigner, SameAccount
  <1>4. InitializeAccount(x, y, k) = Wrote(mint, [token EXCEPT ![x] = e])
    BY DEF InitializeAccount
  <1>5. owned = 0 => x \in Tokens
    BY Owned
  <1>6. mintOwned = 0 => y \in Mints
    BY Owned
  <1>7. y \in Mints => valid = IF Ms[y].initialized THEN 0 ELSE 9
    BY MintAlike
  <1>8. x \in Tokens => zero = IF Ts[x].initialized THEN 8 ELSE 0
    BY TokenAlike
  <1>9. y \in Mints => DecodeToken(e) = new
    <2> SUFFICES ASSUME y \in Mints PROVE DecodeToken(e) = new
      OBVIOUS
    <2>1. 0 \in Amount /\ NoKey \in KeyBytes /\ y \in KeyBytes
      BY GosplAssumption DEF Amount, KeyBytes, Addresses
    <2>2. e \in TokenData
      BY <2>1 DEF TokenData
    <2>3. /\ e.tag = 2 /\ e.flags = 1 /\ e.amount = 0 /\ e.allowance = 0
          /\ e.mint = y /\ e.owner = k
      OBVIOUS
    <2>4. O!EmptyToken \in OracleToken
      BY <2>1 DEF OracleToken, O!EmptyToken
    <2>5. /\ new \in OracleToken
          /\ new.initialized = TRUE /\ new.mint = y /\ new.owner = k
          /\ new.amount = 0 /\ new.delegate = O!NoAuthority /\ new.delegated = 0
      BY <2>1, <2>4 DEF OracleToken, O!EmptyToken
    <2> HIDE DEF e, new
    <2>6. (e.tag = 2) = TRUE
      BY <2>3
    <2>7. /\ DecodeToken(e) \in OracleToken
          /\ DecodeToken(e).initialized = (e.tag = 2)
      BY <2>2, TokenDecoded
    <2>8. /\ DecodeToken(e).mint = y /\ DecodeToken(e).owner = k
          /\ DecodeToken(e).amount = 0 /\ DecodeToken(e).delegate = O!NoAuthority
          /\ DecodeToken(e).delegated = 0
      BY <2>2, <2>3, TokenDecoded
    <2>9. DecodeToken(e).initialized = new.initialized
      BY <2>5, <2>6, <2>7, Zenon
    <2> QED
      BY <2>5, <2>7, <2>8, <2>9, SameRecord
  <1> HIDE DEF code, same, owned, signer, mintOwned, valid, zero, outcome, e, new
  <1>10. CASE code # 0
    <2>1. outcome = O!Err(code, Ms, Ts)
      BY <1>1, <1>2, <1>3, <1>5, <1>6, <1>7, <1>8, <1>10
    <2> QED
      BY <1>10, <2>1, BothRefuse DEF code, outcome
  <1>11. CASE code = 0
    <2>1. x \in Tokens /\ y \in Mints
      BY <1>1, <1>5, <1>6, <1>11
    <2>2. outcome = O!Ok(Ms, [Ts EXCEPT ![x] = new])
      BY <1>1, <1>2, <1>3, <1>7, <1>8, <1>11, <2>1
    <2>3. Agree(code, InitializeAccount(x, y, k), outcome)
      BY <1>4, <1>9, <1>11, <2>1, <2>2, TokenOnly
    <2> QED
      BY <2>3 DEF code, outcome
  <1> QED
    BY <1>10, <1>11

\* Both replace or disable a mint authority (ProcessSetAuthority, type 0).
LEMMA MintAuthorityAgrees ==
  ASSUME IInv, NEW x, NEW y, NEW k \in KeyBytes, NEW p
  PROVE  /\ Agree(SetMintAuthorityChecks(x, y, p), DisableMintAuthority(x),
                  O!SetMintAuthority(x, y, O!NoAuthority, p, Ms, Ts))
         /\ Agree(SetMintAuthorityChecks(x, y, p), ReplaceMintAuthority(x, k),
                  O!SetMintAuthority(x, y, O!Authority(k), p, Ms, Ts))
  <1> DEFINE code == SetMintAuthorityChecks(x, y, p)
             owned == RequireOwnedWritable(x, Mints, p)
             valid == ValidateMint(MintAt(x))
             fixed == Same(MintAt(x).flags, 3, 15)
             held == RequireAuthority(y, MintAt(x).authority, p)
             after(a) == O!SetMintAuthority(x, y, a, p, Ms, Ts)
  <1>1. code = IF owned # 0 THEN owned ELSE IF valid # 0 THEN valid
               ELSE IF fixed # 0 THEN fixed ELSE held
    <2>1. code = (owned ?? valid ?? fixed ?? held)
      BY DEF SetMintAuthorityChecks
    <2> HIDE DEF code, owned, valid, fixed, held
    <2> QED
      BY <2>1, FirstCode
  <1>2. \A a : after(a) =
          IF owned # 0 THEN O!Err(owned, Ms, Ts)
          ELSE IF ~Ms[x].initialized THEN O!Err(9, Ms, Ts)
          ELSE IF ~Ms[x].authority.set THEN O!Err(15, Ms, Ts)
          ELSE IF RequireAuthority(y, Ms[x].authority.key, p) # 0
               THEN O!Err(RequireAuthority(y, Ms[x].authority.key, p), Ms, Ts)
          ELSE O!Ok([Ms EXCEPT ![x].authority = a], Ts)
    BY OwnedAlike, AuthorityAlike DEF O!SetMintAuthority
  <1>3. owned = 0 => x \in Mints
    BY Owned
  <1>4. x \in Mints =>
          /\ valid = IF Ms[x].initialized THEN 0 ELSE 9
          /\ fixed = IF Ms[x].authority.set THEN 0 ELSE 15
          /\ Ms[x].authority.set => held = RequireAuthority(y, Ms[x].authority.key, p)
    BY MintAlike DEF Same
  <1> HIDE DEF code, owned, valid, fixed, held
  <1>5. CASE code # 0
    <2>1. \A a : after(a) = O!Err(code, Ms, Ts)
      <3> TAKE a
      <3> HIDE DEF after
      <3>1. CASE owned # 0
        <4>1. after(a) = O!Err(owned, Ms, Ts)
          BY <1>2, <3>1
        <4>2. code = owned
          BY <1>1, <3>1
        <4> QED
          BY <4>1, <4>2
      <3>2. CASE owned = 0
        <4>1. /\ valid = IF Ms[x].initialized THEN 0 ELSE 9
              /\ fixed = IF Ms[x].authority.set THEN 0 ELSE 15
              /\ Ms[x].authority.set => held = RequireAuthority(y, Ms[x].authority.key, p)
          BY <1>3, <1>4, <3>2
        <4>2. after(a) =
                IF ~Ms[x].initialized THEN O!Err(9, Ms, Ts)
                ELSE IF ~Ms[x].authority.set THEN O!Err(15, Ms, Ts)
                ELSE IF RequireAuthority(y, Ms[x].authority.key, p) # 0
                     THEN O!Err(RequireAuthority(y, Ms[x].authority.key, p), Ms, Ts)
                ELSE O!Ok([Ms EXCEPT ![x].authority = a], Ts)
          BY <1>2, <3>2
        <4>3. CASE ~Ms[x].initialized
          BY <1>1, <3>2, <4>1, <4>2, <4>3
        <4>4. CASE Ms[x].initialized /\ ~Ms[x].authority.set
          BY <1>1, <3>2, <4>1, <4>2, <4>4
        <4>5. CASE Ms[x].initialized /\ Ms[x].authority.set
          BY <1>1, <1>5, <3>2, <4>1, <4>2, <4>5
        <4> QED
          BY <4>3, <4>4, <4>5
      <3> QED
        BY <3>1, <3>2
    <2>2. /\ Agree(code, DisableMintAuthority(x), after(O!NoAuthority))
          /\ Agree(code, ReplaceMintAuthority(x, k), after(O!Authority(k)))
      <3> HIDE DEF after
      <3> QED
        BY <1>5, <2>1, BothRefuse
    <2> QED
      BY <2>2 DEF code
  <1>6. CASE code = 0
    <2>1. x \in Mints /\ mint[x] \in MintData /\ Ms[x] = DecodeMint(mint[x])
      BY <1>1, <1>3, <1>6 DEF IInv, TypeOK, Ms
    <2>2. Ms = [u \in Mints |-> Ms[u]] /\ mint = [u \in Mints |-> mint[u]]
      BY DEF Ms, IInv, TypeOK
    <2>3. \A a : after(a) = O!Ok([Ms EXCEPT ![x].authority = a], Ts)
      <3> HIDE DEF after
      <3> QED
        BY <1>1, <1>2, <1>4, <1>6, <2>1
    <2>4. ASSUME NEW flags \in {1, 3}, NEW key \in KeyBytes, NEW a,
                 a = IF flags = 3 THEN O!Authority(key) ELSE O!NoAuthority
          PROVE  Agree(code, Wrote([mint EXCEPT ![x].flags = flags, ![x].authority = key],
                                   token), after(a))
      <3> DEFINE e == [mint[x] EXCEPT !.flags = flags, !.authority = key]
                 new == [DecodeMint(mint[x]) EXCEPT !.authority = a]
      <3>1. [mint EXCEPT ![x].flags = flags, ![x].authority = key] = [mint EXCEPT ![x] = e]
        BY <2>1, <2>2 DEF MintData
      <3>2. /\ e \in MintData
            /\ e.tag = mint[x].tag /\ e.supply = mint[x].supply
            /\ e.flags = flags /\ e.authority = key
        BY <2>1 DEF MintData
      <3>3. /\ new \in OracleMint /\ new.supply = mint[x].supply /\ new.authority = a
            /\ new.initialized = DecodeMint(mint[x]).initialized
        BY <2>1, <2>4, MintDecoded DEF OracleMint
      <3>4. [Ms EXCEPT ![x].authority = a] = [Ms EXCEPT ![x] = new]
        BY <2>1, <2>2
      <3> HIDE DEF e, new
      <3>5. DecodeMint(e).initialized = new.initialized
        BY <2>1, <3>2, <3>3, MintDecoded
      <3>6. DecodeMint(e) = new
        BY <2>1, <2>4, <3>2, <3>3, <3>5, MintDecoded, SameMintRecord
      <3> HIDE DEF after
      <3>7. after(a) = O!Ok([Ms EXCEPT ![x] = DecodeMint(e)], Ts)
        BY <2>3, <3>4, <3>6
      <3> QED
        BY <1>6, <2>1, <3>1, <3>7, MintOnly
    <2>5. Agree(code, DisableMintAuthority(x), after(O!NoAuthority))
      <3> HIDE DEF after
      <3>1. NoKey \in KeyBytes
        BY DEF KeyBytes
      <3> QED
        BY <2>4, <3>1 DEF DisableMintAuthority
    <2>6. Agree(code, ReplaceMintAuthority(x, k), after(O!Authority(k)))
      <3> HIDE DEF after
      <3> QED
        BY <2>4 DEF ReplaceMintAuthority
    <2> QED
      BY <2>5, <2>6 DEF code
  <1> QED
    BY <1>5, <1>6

\* The mint both credit.
LEMMA SupplyAlike ==
  ASSUME NEW d \in MintData, NEW n \in Amount, Wraps(d.supply, n) = 0
  PROVE  DecodeMint([d EXCEPT !.supply = Plus(@, n)]) =
              [DecodeMint(d) EXCEPT !.supply = @ + n]
  <1> DEFINE e == [d EXCEPT !.supply = Plus(@, n)]
             new == [DecodeMint(d) EXCEPT !.supply = @ + n]
  <1>1. d.supply \in Amount
    BY DEF MintData
  <1>2. Plus(d.supply, n) \in Amount /\ Plus(d.supply, n) = d.supply + n
    BY <1>1, SumFits
  <1>3. /\ e \in MintData
        /\ e.supply = d.supply + n /\ e.tag = d.tag /\ e.flags = d.flags
        /\ e.authority = d.authority
    BY <1>2 DEF MintData
  <1>4. /\ new \in OracleMint
        /\ new.supply = d.supply + n /\ new.initialized = DecodeMint(d).initialized
        /\ new.authority = DecodeMint(d).authority
    <2>1. DecodeMint(d) \in OracleMint /\ DecodeMint(d).supply = d.supply
      BY MintDecoded
    <2> QED
      BY <1>2, <2>1 DEF OracleMint
  <1> HIDE DEF e, new
  <1>5. DecodeMint(e).initialized = new.initialized
    BY <1>3, <1>4, MintDecoded
  <1>6. DecodeMint(e) = new
    BY <1>3, <1>4, <1>5, MintDecoded, SameMintRecord
  <1> QED
    BY <1>6 DEF e, new

\* The mint both burn from.
LEMMA BurntAlike ==
  ASSUME NEW d \in MintData, NEW n \in Amount, ~(d.supply < n)
  PROVE  DecodeMint([d EXCEPT !.supply = @ - n]) = [DecodeMint(d) EXCEPT !.supply = @ - n]
  <1> DEFINE e == [d EXCEPT !.supply = @ - n]
             new == [DecodeMint(d) EXCEPT !.supply = @ - n]
  <1>1. d.supply \in Amount
    BY DEF MintData
  <1>2. d.supply - n \in Amount
    BY <1>1, GosplAssumption DEF Amount
  <1>3. /\ e \in MintData
        /\ e.supply = d.supply - n /\ e.tag = d.tag /\ e.flags = d.flags
        /\ e.authority = d.authority
    BY <1>2 DEF MintData
  <1>4. /\ new \in OracleMint
        /\ new.supply = d.supply - n /\ new.initialized = DecodeMint(d).initialized
        /\ new.authority = DecodeMint(d).authority
    <2>1. DecodeMint(d) \in OracleMint /\ DecodeMint(d).supply = d.supply
      BY MintDecoded
    <2> QED
      BY <1>2, <2>1 DEF OracleMint
  <1> HIDE DEF e, new
  <1>5. DecodeMint(e).initialized = new.initialized
    BY <1>3, <1>4, MintDecoded
  <1>6. DecodeMint(e) = new
    BY <1>3, <1>4, <1>5, MintDecoded, SameMintRecord
  <1> QED
    BY <1>6 DEF e, new

\* The account both credit.
LEMMA CreditAlike ==
  ASSUME NEW d \in TokenData, NEW n \in Amount, Wraps(d.amount, n) = 0
  PROVE  /\ [d EXCEPT !.amount = Plus(@, n)] \in TokenData
         /\ DecodeToken([d EXCEPT !.amount = Plus(@, n)]) =
              [DecodeToken(d) EXCEPT !.amount = @ + n]
  <1> DEFINE e == [d EXCEPT !.amount = Plus(@, n)]
             new == [DecodeToken(d) EXCEPT !.amount = @ + n]
  <1>1. d.amount \in Amount
    BY DEF TokenData
  <1>2. Plus(d.amount, n) \in Amount /\ Plus(d.amount, n) = d.amount + n
    BY <1>1, SumFits
  <1>3. /\ e \in TokenData
        /\ e.amount = d.amount + n /\ e.tag = d.tag /\ e.flags = d.flags /\ e.mint = d.mint
        /\ e.owner = d.owner /\ e.delegate = d.delegate /\ e.allowance = d.allowance
    BY <1>2 DEF TokenData
  <1>4. /\ new \in OracleToken
        /\ new.amount = d.amount + n /\ new.initialized = DecodeToken(d).initialized
        /\ new.mint = d.mint /\ new.owner = d.owner
        /\ new.delegate = DecodeToken(d).delegate /\ new.delegated = d.allowance
    <2>1. /\ DecodeToken(d) \in OracleToken /\ DecodeToken(d).amount = d.amount
          /\ DecodeToken(d).mint = d.mint /\ DecodeToken(d).owner = d.owner
          /\ DecodeToken(d).delegated = d.allowance
      BY TokenDecoded
    <2> QED
      BY <1>2, <2>1 DEF OracleToken
  <1> HIDE DEF e, new
  <1>5. DecodeToken(e).initialized = new.initialized
    BY <1>3, <1>4, TokenDecoded
  <1>6. DecodeToken(e) = new
    BY <1>3, <1>4, <1>5, TokenDecoded, SameRecord
  <1> QED
    BY <1>3, <1>6 DEF e, new

\* The account both debit.
LEMMA DebitAlike ==
  ASSUME NEW d \in TokenData, NEW a, NEW n \in Amount, ~(d.amount < n),
         Spendable(d, a, n) = 0
  PROVE  /\ Spend(d, a, n) \in TokenData
         /\ DecodeToken(Spend(d, a, n)) = O!Debit(DecodeToken(d), a, n)
  <1> DEFINE e == Spend(d, a, n)
             new == O!Debit(DecodeToken(d), a, n)
             left == IF a = d.owner THEN d.allowance ELSE d.allowance - n
  <1>1. e \in TokenData
    BY Spent
  <1>2. /\ e.amount = d.amount - n /\ e.tag = d.tag /\ e.flags = d.flags /\ e.mint = d.mint
        /\ e.owner = d.owner /\ e.delegate = d.delegate /\ e.allowance = left
    BY DEF Spend, TokenData
  <1>3. d.amount - n \in Amount /\ left \in Amount
    BY <1>1, <1>2 DEF TokenData
  <1>4. /\ new \in OracleToken
        /\ new.amount = d.amount - n /\ new.initialized = DecodeToken(d).initialized
        /\ new.mint = d.mint /\ new.owner = d.owner
        /\ new.delegate = DecodeToken(d).delegate /\ new.delegated = left
    <2>1. /\ DecodeToken(d) \in OracleToken /\ DecodeToken(d).amount = d.amount
          /\ DecodeToken(d).mint = d.mint /\ DecodeToken(d).owner = d.owner
          /\ DecodeToken(d).delegated = d.allowance
      BY TokenDecoded
    <2> QED
      BY <1>3, <2>1 DEF OracleToken, O!Debit
  <1> HIDE DEF e, new, left
  <1>5. DecodeToken(e).initialized = new.initialized
    BY <1>1, <1>2, <1>4, TokenDecoded
  <1>6. DecodeToken(e) = new
    BY <1>1, <1>2, <1>4, <1>5, TokenDecoded, SameRecord
  <1> QED
    BY <1>1, <1>6 DEF e, new

\* Both mint (ProcessMintTo).
LEMMA MintToAgrees ==
  ASSUME IInv, NEW x, NEW y, NEW z, NEW n \in Amount, NEW p
  PROVE  Agree(MintToChecks(x, y, z, n, p), MintTo(x, y, n),
               O!MintTo(x, y, z, n, p, Ms, Ts))
  <1> DEFINE code == MintToChecks(x, y, z, n, p)
             pair == O!Pair(x, Mints, y, Tokens, p)
             validX == ValidateMint(MintAt(x))
             validY == ValidateToken(TokenAt(y))
             same == Same(TokenAt(y).mint, x, 10)
             fixed == Same(MintAt(x).flags, 3, 15)
             held == RequireAuthority(z, MintAt(x).authority, p)
             wrapsX == Wraps(MintAt(x).supply, n)
             wrapsY == Wraps(TokenAt(y).amount, n)
             outcome == O!MintTo(x, y, z, n, p, Ms, Ts)
  <1>1. code = IF pair # 0 THEN pair ELSE IF validX # 0 THEN validX
               ELSE IF validY # 0 THEN validY ELSE IF same # 0 THEN same
               ELSE IF fixed # 0 THEN fixed ELSE IF held # 0 THEN held
               ELSE IF wrapsX # 0 THEN wrapsX ELSE wrapsY
    <2>1. code = (SameAccount(x, y) ?? RequireOwnedWritable(x, Mints, p) ??
                  RequireOwnedWritable(y, Tokens, p) ?? validX ?? validY ?? same ??
                  fixed ?? held ?? wrapsX ?? wrapsY)
      BY DEF MintToChecks
    <2>2. pair = (SameAccount(x, y) ?? RequireOwnedWritable(x, Mints, p) ??
                  RequireOwnedWritable(y, Tokens, p))
      BY PairAlike
    <2> HIDE DEF code, pair, validX, validY, same, fixed, held, wrapsX, wrapsY
    <2> QED
      BY <2>1, <2>2, FirstCode
  <1>2. outcome =
          IF pair # 0 THEN O!Err(pair, Ms, Ts)
          ELSE IF ~Ms[x].initialized \/ ~Ts[y].initialized THEN O!Err(9, Ms, Ts)
          ELSE IF Ts[y].mint # x THEN O!Err(10, Ms, Ts)
          ELSE IF ~Ms[x].authority.set THEN O!Err(15, Ms, Ts)
          ELSE IF RequireAuthority(z, Ms[x].authority.key, p) # 0
               THEN O!Err(RequireAuthority(z, Ms[x].authority.key, p), Ms, Ts)
          ELSE IF Ms[x].supply > U64 - 1 - n \/ Ts[y].amount > U64 - 1 - n
               THEN O!Err(13, Ms, Ts)
          ELSE O!Ok([Ms EXCEPT ![x].supply = @ + n], [Ts EXCEPT ![y].amount = @ + n])
    BY AuthorityAlike DEF O!MintTo
  <1>3. pair = 0 => x \in Mints /\ y \in Tokens
    <2> SUFFICES ASSUME pair = 0 PROVE x \in Mints /\ y \in Tokens
      OBVIOUS
    <2>1. RequireOwnedWritable(x, Mints, p) = 0 /\ RequireOwnedWritable(y, Tokens, p) = 0
      BY PairAlike, First
    <2> QED
      BY <2>1, Owned
  <1> DEFINE Alike ==
        /\ validX = IF Ms[x].initialized THEN 0 ELSE 9
        /\ validY = IF Ts[y].initialized THEN 0 ELSE 9
        /\ same = IF Ts[y].mint = x THEN 0 ELSE 10
        /\ fixed = IF Ms[x].authority.set THEN 0 ELSE 15
        /\ Ms[x].authority.set => held = RequireAuthority(z, Ms[x].authority.key, p)
        /\ wrapsX = IF Ms[x].supply > U64 - 1 - n THEN 13 ELSE 0
        /\ wrapsY = IF Ts[y].amount > U64 - 1 - n THEN 13 ELSE 0
  <1>4. pair = 0 => Alike
    <2> SUFFICES ASSUME x \in Mints, y \in Tokens PROVE Alike
      BY <1>3
    <2>1. mint[x].supply \in Amount /\ token[y].amount \in Amount
      BY DEF IInv, TypeOK, MintData, TokenData
    <2>2. /\ MintAt(x).supply = Ms[x].supply /\ Ms[x].supply = mint[x].supply
          /\ TokenAt(y).amount = Ts[y].amount /\ Ts[y].amount = token[y].amount
      BY MintAlike, TokenAlike
    <2>3. /\ wrapsX = IF Ms[x].supply > U64 - 1 - n THEN 13 ELSE 0
          /\ wrapsY = IF Ts[y].amount > U64 - 1 - n THEN 13 ELSE 0
      BY <2>1, <2>2, WrapsAlike
    <2>4. /\ validX = IF Ms[x].initialized THEN 0 ELSE 9
          /\ fixed = IF Ms[x].authority.set THEN 0 ELSE 15
          /\ Ms[x].authority.set => held = RequireAuthority(z, Ms[x].authority.key, p)
      BY MintAlike DEF Same
    <2>5. /\ validY = IF Ts[y].initialized THEN 0 ELSE 9
          /\ same = IF Ts[y].mint = x THEN 0 ELSE 10
      BY TokenAlike DEF Same
    <2> QED
      BY <2>3, <2>4, <2>5
  <1> HIDE DEF code, pair, validX, validY, same, fixed, held, wrapsX, wrapsY, outcome
  <1>5. CASE code # 0
    <2>1. outcome = O!Err(code, Ms, Ts)
      BY <1>1, <1>2, <1>4, <1>5
    <2> QED
      BY <1>5, <2>1, BothRefuse DEF code, outcome
  <1>6. CASE code = 0
    <2>1. x \in Mints /\ y \in Tokens
      BY <1>1, <1>3, <1>6
    <2>2. outcome = O!Ok([Ms EXCEPT ![x].supply = @ + n], [Ts EXCEPT ![y].amount = @ + n])
      BY <1>1, <1>2, <1>4, <1>6
    <2>3. Wraps(mint[x].supply, n) = 0 /\ Wraps(token[y].amount, n) = 0
      BY <1>6, MintToChecked DEF code
    <2>4. /\ mint[x] \in MintData /\ token[y] \in TokenData
          /\ mint = [u \in Mints |-> mint[u]] /\ token = [u \in Tokens |-> token[u]]
          /\ Ms = [u \in Mints |-> Ms[u]] /\ Ts = [u \in Tokens |-> Ts[u]]
          /\ Ms[x] = DecodeMint(mint[x]) /\ Ts[y] = DecodeToken(token[y])
      BY <2>1 DEF IInv, TypeOK, Ms, Ts
    <2> DEFINE d == [mint[x] EXCEPT !.supply = Plus(@, n)]
               e == [token[y] EXCEPT !.amount = Plus(@, n)]
    <2>5. MintTo(x, y, n) = Wrote([mint EXCEPT ![x] = d], [token EXCEPT ![y] = e])
      BY <2>1, <2>4 DEF MintTo, Wrote
    <2>6. [Ts EXCEPT ![y].amount = @ + n] = [Ts EXCEPT ![y] = DecodeToken(e)]
      <3>1. DecodeToken(e) = [DecodeToken(token[y]) EXCEPT !.amount = @ + n]
        BY <2>3, <2>4, CreditAlike
      <3> HIDE DEF e
      <3> QED
        BY <2>1, <2>4, <3>1
    <2>7. [Ms EXCEPT ![x].supply = @ + n] = [Ms EXCEPT ![x] = DecodeMint(d)]
      <3>1. DecodeMint(d) = [DecodeMint(mint[x]) EXCEPT !.supply = @ + n]
        BY <2>3, <2>4, SupplyAlike
      <3> HIDE DEF d
      <3> QED
        BY <2>1, <2>4, <3>1
    <2> HIDE DEF d, e
    <2>8. Agree(code, MintTo(x, y, n), outcome)
      <3>1. outcome = O!Ok([Ms EXCEPT ![x] = DecodeMint(d)], [Ts EXCEPT ![y] = DecodeToken(e)])
        BY <2>2, <2>6, <2>7
      <3>2. Agree(code, Wrote([mint EXCEPT ![x] = d], [token EXCEPT ![y] = e]), outcome)
        BY <1>6, <2>1, <3>1, BothWritten
      <3> QED
        BY <2>5, <3>2
    <2> QED
      BY <2>8 DEF code, outcome
  <1> QED
    BY <1>5, <1>6

\* Both transfer (ProcessTransfer).
LEMMA TransferAgrees ==
  ASSUME IInv, NEW x, NEW y, NEW z, NEW n \in Amount, NEW p
  PROVE  Agree(TransferChecks(x, y, z, n, p), Transfer(x, y, z, n),
               O!Transfer(x, y, z, n, p, Ms, Ts))
  <1> DEFINE code == TransferChecks(x, y, z, n, p)
             pair == O!Pair(x, Tokens, y, Tokens, p)
             validX == ValidateToken(TokenAt(x))
             validY == ValidateToken(TokenAt(y))
             same == Same(TokenAt(x).mint, TokenAt(y).mint, 10)
             signer == RequireSigner(z, p)
             spender == Spendable(TokenAt(x), z, n)
             enough == Enough(TokenAt(x).amount, n, 11)
             wraps == Wraps(TokenAt(y).amount, n)
             outcome == O!Transfer(x, y, z, n, p, Ms, Ts)
             auth == O!Authorize(Ts[x], z, n, p)
  <1>1. code = IF pair # 0 THEN pair ELSE IF validX # 0 THEN validX
               ELSE IF validY # 0 THEN validY ELSE IF same # 0 THEN same
               ELSE IF signer # 0 THEN signer ELSE IF spender # 0 THEN spender
               ELSE IF enough # 0 THEN enough ELSE wraps
    <2>1. code = (SameAccount(x, y) ?? RequireOwnedWritable(x, Tokens, p) ??
                  RequireOwnedWritable(y, Tokens, p) ?? validX ?? validY ?? same ??
                  signer ?? spender ?? enough ?? wraps)
      BY DEF TransferChecks
    <2>2. pair = (SameAccount(x, y) ?? RequireOwnedWritable(x, Tokens, p) ??
                  RequireOwnedWritable(y, Tokens, p))
      BY PairAlike
    <2> HIDE DEF code, pair, validX, validY, same, signer, spender, enough, wraps
    <2> QED
      BY <2>1, <2>2, FirstCode
  <1>2. outcome =
          IF pair # 0 THEN O!Err(pair, Ms, Ts)
          ELSE IF ~Ts[x].initialized \/ ~Ts[y].initialized THEN O!Err(9, Ms, Ts)
          ELSE IF Ts[x].mint # Ts[y].mint THEN O!Err(10, Ms, Ts)
          ELSE IF auth # 0 THEN O!Err(auth, Ms, Ts)
          ELSE IF Ts[x].amount < n THEN O!Err(11, Ms, Ts)
          ELSE IF Ts[y].amount > U64 - 1 - n THEN O!Err(13, Ms, Ts)
          ELSE O!Ok(Ms, [Ts EXCEPT ![x] = O!Debit(@, z, n), ![y].amount = @ + n])
    BY DEF O!Transfer
  <1>3. pair = 0 => x \in Tokens /\ y \in Tokens
    <2> SUFFICES ASSUME pair = 0 PROVE x \in Tokens /\ y \in Tokens
      OBVIOUS
    <2>1. RequireOwnedWritable(x, Tokens, p) = 0 /\ RequireOwnedWritable(y, Tokens, p) = 0
      BY PairAlike, First
    <2> QED
      BY <2>1, Owned
  <1> DEFINE Alike ==
        /\ validX = IF Ts[x].initialized THEN 0 ELSE 9
        /\ validY = IF Ts[y].initialized THEN 0 ELSE 9
        /\ same = IF Ts[x].mint = Ts[y].mint THEN 0 ELSE 10
        /\ auth = IF signer # 0 THEN signer ELSE spender
        /\ enough = IF Ts[x].amount < n THEN 11 ELSE 0
        /\ wraps = IF Ts[y].amount > U64 - 1 - n THEN 13 ELSE 0
  <1>4. pair = 0 => Alike
    <2> SUFFICES ASSUME x \in Tokens, y \in Tokens PROVE Alike
      BY <1>3
    <2>1. token[y].amount \in Amount /\ token[x] \in TokenData
      BY DEF IInv, TypeOK, TokenData
    <2>2. TokenAt(y).amount = Ts[y].amount /\ Ts[y].amount = token[y].amount
      BY TokenAlike
    <2>3. wraps = IF Ts[y].amount > U64 - 1 - n THEN 13 ELSE 0
      BY <2>1, <2>2, WrapsAlike
    <2>4. /\ validX = IF Ts[x].initialized THEN 0 ELSE 9
          /\ enough = IF Ts[x].amount < n THEN 11 ELSE 0
      BY TokenAlike DEF Enough
    <2>5. /\ validY = IF Ts[y].initialized THEN 0 ELSE 9
          /\ same = IF Ts[x].mint = Ts[y].mint THEN 0 ELSE 10
      BY TokenAlike DEF Same
    <2>6. auth = IF signer # 0 THEN signer ELSE spender
      <3>1. Ts[x] = DecodeToken(token[x]) /\ TokenAt(x) = token[x]
        BY TokenAlike
      <3> QED
        BY <2>1, <3>1, SpendersAlike
    <2> QED
      BY <2>3, <2>4, <2>5, <2>6
  <1> HIDE DEF code, pair, validX, validY, same, signer, spender, enough, wraps, outcome, auth
  <1>5. CASE code # 0
    <2>1. outcome = O!Err(code, Ms, Ts)
      BY <1>1, <1>2, <1>4, <1>5
    <2> QED
      BY <1>5, <2>1, BothRefuse DEF code, outcome
  <1>6. CASE code = 0
    <2>1. /\ x \in Tokens /\ y \in Tokens /\ x # y
          /\ Spendable(token[x], z, n) = 0 /\ ~(token[x].amount < n)
          /\ Wraps(token[y].amount, n) = 0
      BY <1>6, TransferChecked DEF code
    <2>2. outcome = O!Ok(Ms, [Ts EXCEPT ![x] = O!Debit(@, z, n), ![y].amount = @ + n])
      BY <1>1, <1>2, <1>4, <1>6
    <2>3. /\ token[x] \in TokenData /\ token[y] \in TokenData
          /\ token \in [Tokens -> TokenData] /\ Ts = [u \in Tokens |-> Ts[u]]
          /\ Ts[x] = DecodeToken(token[x]) /\ Ts[y] = DecodeToken(token[y])
      BY <2>1 DEF IInv, TypeOK, Ts
    <2> DEFINE d == Spend(token[x], z, n)
               e == [token[y] EXCEPT !.amount = Plus(@, n)]
               mid == [token EXCEPT ![x] = d]
               midT == [Ts EXCEPT ![x] = DecodeToken(d)]
    <2>4. Transfer(x, y, z, n) = Wrote(mint, [mid EXCEPT ![y] = e])
      BY <2>1, <2>3 DEF Transfer, Wrote
    <2>5. d \in TokenData /\ DecodeToken(d) = O!Debit(DecodeToken(token[x]), z, n)
      BY <2>1, <2>3, DebitAlike
    <2>6. DecodeToken(e) = [DecodeToken(token[y]) EXCEPT !.amount = @ + n]
      BY <2>1, <2>3, CreditAlike
    <2> HIDE DEF d, e
    <2>7. mid \in [Tokens -> TokenData]
      BY <2>1, <2>3, <2>5
    <2>8. [u \in Tokens |-> DecodeToken(mid[u])] = midT
      BY <2>1, <2>3, TokenWritten DEF Ts
    <2>9. [u \in Tokens |-> DecodeToken([mid EXCEPT ![y] = e][u])] =
             [midT EXCEPT ![y] = DecodeToken(e)]
      <3> HIDE DEF mid, midT
      <3> QED
        BY <2>1, <2>7, <2>8, TokenWritten
    <2>10. [Ts EXCEPT ![x] = O!Debit(@, z, n), ![y].amount = @ + n] =
             [midT EXCEPT ![y] = DecodeToken(e)]
      BY <2>1, <2>3, <2>5, <2>6
    <2> DEFINE written == [mid EXCEPT ![y] = e]
               after == [midT EXCEPT ![y] = DecodeToken(e)]
    <2>11. outcome = O!Ok([u \in Mints |-> DecodeMint(mint[u])],
                          [u \in Tokens |-> DecodeToken(written[u])])
      <3>1. [u \in Tokens |-> DecodeToken(written[u])] = after
        BY <2>9
      <3>2. outcome = O!Ok(Ms, after)
        BY <2>2, <2>10
      <3>3. Ms = [u \in Mints |-> DecodeMint(mint[u])]
        BY DEF Ms
      <3> HIDE DEF written, after
      <3> QED
        BY <3>1, <3>2, <3>3
    <2>12. Agree(code, Wrote(mint, written), outcome)
      <3> HIDE DEF written
      <3> QED
        BY <1>6, <2>11, Agreement
    <2> QED
      BY <2>4, <2>12 DEF code, outcome
  <1> QED
    BY <1>5, <1>6

\* Both burn (ProcessBurn).
LEMMA BurnAgrees ==
  ASSUME IInv, NEW x, NEW y, NEW z, NEW n \in Amount, NEW p
  PROVE  Agree(BurnChecks(x, y, z, n, p), Burn(x, y, z, n),
               O!Burn(x, y, z, n, p, Ms, Ts))
  <1> DEFINE code == BurnChecks(x, y, z, n, p)
             pair == O!Pair(x, Tokens, y, Mints, p)
             validX == ValidateToken(TokenAt(x))
             validY == ValidateMint(MintAt(y))
             same == Same(TokenAt(x).mint, y, 10)
             signer == RequireSigner(z, p)
             spender == Spendable(TokenAt(x), z, n)
             enoughX == Enough(TokenAt(x).amount, n, 11)
             enoughY == Enough(MintAt(y).supply, n, 11)
             outcome == O!Burn(x, y, z, n, p, Ms, Ts)
             auth == O!Authorize(Ts[x], z, n, p)
  <1>1. code = IF pair # 0 THEN pair ELSE IF validX # 0 THEN validX
               ELSE IF validY # 0 THEN validY ELSE IF same # 0 THEN same
               ELSE IF signer # 0 THEN signer ELSE IF spender # 0 THEN spender
               ELSE IF enoughX # 0 THEN enoughX ELSE enoughY
    <2>1. code = (SameAccount(x, y) ?? RequireOwnedWritable(x, Tokens, p) ??
                  RequireOwnedWritable(y, Mints, p) ?? validX ?? validY ?? same ??
                  signer ?? spender ?? enoughX ?? enoughY)
      BY DEF BurnChecks
    <2>2. pair = (SameAccount(x, y) ?? RequireOwnedWritable(x, Tokens, p) ??
                  RequireOwnedWritable(y, Mints, p))
      BY PairAlike
    <2> HIDE DEF code, pair, validX, validY, same, signer, spender, enoughX, enoughY
    <2> QED
      BY <2>1, <2>2, FirstCode
  <1>2. outcome =
          IF pair # 0 THEN O!Err(pair, Ms, Ts)
          ELSE IF ~Ts[x].initialized \/ ~Ms[y].initialized THEN O!Err(9, Ms, Ts)
          ELSE IF Ts[x].mint # y THEN O!Err(10, Ms, Ts)
          ELSE IF auth # 0 THEN O!Err(auth, Ms, Ts)
          ELSE IF Ts[x].amount < n \/ Ms[y].supply < n THEN O!Err(11, Ms, Ts)
          ELSE O!Ok([Ms EXCEPT ![y].supply = @ - n], [Ts EXCEPT ![x] = O!Debit(@, z, n)])
    BY DEF O!Burn
  <1>3. pair = 0 => x \in Tokens /\ y \in Mints
    <2> SUFFICES ASSUME pair = 0 PROVE x \in Tokens /\ y \in Mints
      OBVIOUS
    <2>1. RequireOwnedWritable(x, Tokens, p) = 0 /\ RequireOwnedWritable(y, Mints, p) = 0
      BY PairAlike, First
    <2> QED
      BY <2>1, Owned
  <1> DEFINE Alike ==
        /\ validX = IF Ts[x].initialized THEN 0 ELSE 9
        /\ validY = IF Ms[y].initialized THEN 0 ELSE 9
        /\ same = IF Ts[x].mint = y THEN 0 ELSE 10
        /\ auth = IF signer # 0 THEN signer ELSE spender
        /\ enoughX = IF Ts[x].amount < n THEN 11 ELSE 0
        /\ enoughY = IF Ms[y].supply < n THEN 11 ELSE 0
  <1>4. pair = 0 => Alike
    <2> SUFFICES ASSUME x \in Tokens, y \in Mints PROVE Alike
      BY <1>3
    <2>1. token[x] \in TokenData
      BY DEF IInv, TypeOK
    <2>2. /\ validX = IF Ts[x].initialized THEN 0 ELSE 9
          /\ same = IF Ts[x].mint = y THEN 0 ELSE 10
          /\ enoughX = IF Ts[x].amount < n THEN 11 ELSE 0
      BY TokenAlike DEF Enough, Same
    <2>3. /\ validY = IF Ms[y].initialized THEN 0 ELSE 9
          /\ enoughY = IF Ms[y].supply < n THEN 11 ELSE 0
      BY MintAlike DEF Enough
    <2>4. auth = IF signer # 0 THEN signer ELSE spender
      <3>1. Ts[x] = DecodeToken(token[x]) /\ TokenAt(x) = token[x]
        BY TokenAlike
      <3> QED
        BY <2>1, <3>1, SpendersAlike
    <2> QED
      BY <2>2, <2>3, <2>4
  <1> HIDE DEF code, pair, validX, validY, same, signer, spender, enoughX, enoughY, outcome, auth
  <1>5. CASE code # 0
    <2>1. outcome = O!Err(code, Ms, Ts)
      BY <1>1, <1>2, <1>4, <1>5
    <2> QED
      BY <1>5, <2>1, BothRefuse DEF code, outcome
  <1>6. CASE code = 0
    <2>1. /\ x \in Tokens /\ y \in Mints
          /\ Spendable(token[x], z, n) = 0 /\ ~(token[x].amount < n)
          /\ ~(mint[y].supply < n)
      BY <1>6, BurnChecked DEF code
    <2>2. outcome = O!Ok([Ms EXCEPT ![y].supply = @ - n], [Ts EXCEPT ![x] = O!Debit(@, z, n)])
      BY <1>1, <1>2, <1>4, <1>6
    <2>3. /\ mint[y] \in MintData /\ token[x] \in TokenData
          /\ mint = [u \in Mints |-> mint[u]] /\ token = [u \in Tokens |-> token[u]]
          /\ Ms = [u \in Mints |-> Ms[u]] /\ Ts = [u \in Tokens |-> Ts[u]]
          /\ Ms[y] = DecodeMint(mint[y]) /\ Ts[x] = DecodeToken(token[x])
      BY <2>1 DEF IInv, TypeOK, Ms, Ts
    <2> DEFINE d == [mint[y] EXCEPT !.supply = @ - n]
               e == Spend(token[x], z, n)
    <2>4. Burn(x, y, z, n) = Wrote([mint EXCEPT ![y] = d], [token EXCEPT ![x] = e])
      BY <2>1, <2>3 DEF Burn, Wrote
    <2>5. [Ts EXCEPT ![x] = O!Debit(@, z, n)] = [Ts EXCEPT ![x] = DecodeToken(e)]
      <3>1. DecodeToken(e) = O!Debit(DecodeToken(token[x]), z, n)
        BY <2>1, <2>3, DebitAlike
      <3> HIDE DEF e
      <3> QED
        BY <2>1, <2>3, <3>1
    <2>6. [Ms EXCEPT ![y].supply = @ - n] = [Ms EXCEPT ![y] = DecodeMint(d)]
      <3>1. DecodeMint(d) = [DecodeMint(mint[y]) EXCEPT !.supply = @ - n]
        BY <2>1, <2>3, BurntAlike
      <3> HIDE DEF d
      <3> QED
        BY <2>1, <2>3, <3>1
    <2> HIDE DEF d, e
    <2>7. outcome = O!Ok([Ms EXCEPT ![y] = DecodeMint(d)], [Ts EXCEPT ![x] = DecodeToken(e)])
      BY <2>2, <2>5, <2>6
    <2>8. Agree(code, Wrote([mint EXCEPT ![y] = d], [token EXCEPT ![x] = e]), outcome)
      BY <1>6, <2>1, <2>7, BothWritten
    <2>9. Agree(code, Burn(x, y, z, n), outcome)
      BY <2>4, <2>8
    <2> QED
      BY <2>9 DEF code, outcome
  <1> QED
    BY <1>5, <1>6

\* In every reachable state, for every instruction and every set of privileges,
\* the guest returns the oracle's code and leaves the state the oracle leaves
\* (the differential tests of contract_test.go, for every sequence).
THEOREM GuestIsOracle == Spec => []GuestMatchesOracle
  <1>1. ASSUME IInv PROVE GuestMatchesOracle
    <2>1. Decoded(Unchanged).mints = Ms /\ Decoded(Unchanged).tokens = Ts
      BY DEF Decoded, Unchanged, Wrote, Ms, Ts
    <2>2. \A k \in NewKeys : k \in KeyBytes
      BY GosplAssumption
    <2>3. \A z \in Addresses : z \in KeyBytes
      BY DEF KeyBytes
    <2>4. 0 \in Amount /\ NoKey \in KeyBytes
      BY GosplAssumption DEF Amount, KeyBytes
    <2>5. ASSUME NEW p \in Privileges, NEW x \in Addresses, NEW y \in Addresses
          PROVE  /\ Agree(OwnerChecks(x, y, p), Revoke(x), O!Revoke(x, y, p, Ms, Ts))
                 /\ Agree(SetMintAuthorityChecks(x, y, p), DisableMintAuthority(x),
                          O!SetMintAuthority(x, y, O!NoAuthority, p, Ms, Ts))
      BY <1>1, <2>4, OwnersAgree, MintAuthorityAgrees
    <2>6. ASSUME NEW p \in Privileges, NEW x \in Addresses, NEW y \in Addresses,
                 NEW k \in NewKeys
          PROVE  /\ Agree(InitializeMintChecks(x, p), InitializeMint(x, k),
                          O!InitializeMint(x, k, p, Ms, Ts))
                 /\ Agree(InitializeAccountChecks(x, y, p), InitializeAccount(x, y, k),
                          O!InitializeAccount(x, y, k, p, Ms, Ts))
                 /\ Agree(SetMintAuthorityChecks(x, y, p), ReplaceMintAuthority(x, k),
                          O!SetMintAuthority(x, y, O!Authority(k), p, Ms, Ts))
                 /\ Agree(OwnerChecks(x, y, p), SetOwner(x, k), O!SetOwner(x, y, k, p, Ms, Ts))
      BY <1>1, <2>2, <2>4, OwnersAgree, MintAuthorityAgrees, InitializeMintAgrees,
         InitializeAccountAgrees
    <2>7. ASSUME NEW p \in Privileges, NEW x \in Addresses, NEW y \in Addresses,
                 NEW z \in Addresses, NEW n \in Amount
          PROVE  /\ Agree(MintToChecks(x, y, z, n, p), MintTo(x, y, n),
                          O!MintTo(x, y, z, n, p, Ms, Ts))
                 /\ Agree(TransferChecks(x, y, z, n, p), Transfer(x, y, z, n),
                          O!Transfer(x, y, z, n, p, Ms, Ts))
                 /\ Agree(BurnChecks(x, y, z, n, p), Burn(x, y, z, n),
                          O!Burn(x, y, z, n, p, Ms, Ts))
                 /\ Agree(OwnerChecks(x, y, p), Approve(x, z, n),
                          O!Approve(x, y, z, n, p, Ms, Ts))
      BY <1>1, <2>3, <2>4, OwnersAgree, MintToAgrees, TransferAgrees, BurnAgrees
    <2> QED
      BY <2>1, <2>5, <2>6, <2>7 DEF GuestMatchesOracle
  <1> QED
    BY IInvInit, IInvNext, <1>1, PTL DEF Spec
=============================================================================
