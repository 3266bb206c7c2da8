-------------------------------- MODULE Spl20 --------------------------------
(***************************************************************************)
(* The native Go oracle of the token program (examples/spl20/program.go):  *)
(* the same instructions on decoded states, written independently of the   *)
(* guest program.  An outcome is an error code (contract_test.go maps the  *)
(* errors to the guest's codes) and the states the instruction leaves.     *)
(* States are functions m (mints) and t (token accounts).                  *)
(***************************************************************************)
EXTENDS Integers

CONSTANTS Mints, Tokens, Keys, NoKey, MaxU64

NoAuthority == [set |-> FALSE, key |-> NoKey]
Authority(k) == [set |-> TRUE, key |-> k]

EmptyToken == [initialized |-> FALSE, mint |-> NoKey, owner |-> NoKey, amount |-> 0,
               delegate |-> NoAuthority, delegated |-> 0]

Ok(m, t) == [code |-> 0, mints |-> m, tokens |-> t]
Err(code, m, t) == [code |-> code, mints |-> m, tokens |-> t]

RequireProgramAccount(x, size, writable, p) ==
  CASE x \in Keys -> 3
    [] x \notin Keys /\ writable /\ x \notin p.writable -> 4
    [] x \notin Keys /\ ~(writable /\ x \notin p.writable) -> IF x \in size THEN 0 ELSE 7

RequireAuthority(x, expected, p) ==
  CASE x # expected -> 6
    [] x = expected -> IF x \in p.signers THEN 0 ELSE 5

\* authorizeToken: the error, and whether the delegate acts.
Authorize(state, x, n, p) ==
  CASE x \notin p.signers -> 5
    [] x \in p.signers /\ x = state.owner -> 0
    [] x \in p.signers /\ x # state.owner ->
         IF state.delegate # Authority(x) THEN 6
         ELSE IF state.delegated < n THEN 12 ELSE 0

Debit(state, x, n) ==
  [state EXCEPT !.amount = @ - n,
                !.delegated = IF x = state.owner THEN @ ELSE @ - n]

-----------------------------------------------------------------------------
(* Process, by instruction.                                                *)

InitializeMint(x, key, p, m, t) ==
  LET owned == RequireProgramAccount(x, Mints, TRUE, p) IN
    IF owned # 0 THEN Err(owned, m, t)
    ELSE IF x \notin p.signers THEN Err(5, m, t)
    ELSE IF m[x].initialized THEN Err(8, m, t)
    ELSE Ok([m EXCEPT ![x] = [initialized |-> TRUE, supply |-> 0,
                              authority |-> Authority(key)]], t)

InitializeAccount(x, y, key, p, m, t) ==
  LET owned == RequireProgramAccount(x, Tokens, TRUE, p)
      mintOwned == RequireProgramAccount(y, Mints, FALSE, p)
  IN
    IF x = y THEN Err(14, m, t)
    ELSE IF owned # 0 THEN Err(owned, m, t)
    ELSE IF x \notin p.signers THEN Err(5, m, t)
    ELSE IF mintOwned # 0 THEN Err(mintOwned, m, t)
    ELSE IF ~m[y].initialized THEN Err(9, m, t)
    ELSE IF t[x].initialized THEN Err(8, m, t)
    ELSE Ok(m, [t EXCEPT ![x] = [EmptyToken EXCEPT !.initialized = TRUE, !.mint = y,
                                                   !.owner = key]])

\* The accounts of a two-account instruction, in the order of the code.
Pair(x, xs, y, ys, p) ==
  IF x = y THEN 14
  ELSE IF RequireProgramAccount(x, xs, TRUE, p) # 0 THEN RequireProgramAccount(x, xs, TRUE, p)
  ELSE RequireProgramAccount(y, ys, TRUE, p)

Transfer(x, y, z, n, p, m, t) ==
  IF Pair(x, Tokens, y, Tokens, p) # 0 THEN Err(Pair(x, Tokens, y, Tokens, p), m, t)
  ELSE IF ~t[x].initialized \/ ~t[y].initialized THEN Err(9, m, t)
  ELSE IF t[x].mint # t[y].mint THEN Err(10, m, t)
  ELSE IF Authorize(t[x], z, n, p) # 0 THEN Err(Authorize(t[x], z, n, p), m, t)
  ELSE IF t[x].amount < n THEN Err(11, m, t)
  ELSE IF t[y].amount > MaxU64 - n THEN Err(13, m, t)
  ELSE Ok(m, [t EXCEPT ![x] = Debit(@, z, n), ![y].amount = @ + n])

MintTo(x, y, z, n, p, m, t) ==
  IF Pair(x, Mints, y, Tokens, p) # 0 THEN Err(Pair(x, Mints, y, Tokens, p), m, t)
  ELSE IF ~m[x].initialized \/ ~t[y].initialized THEN Err(9, m, t)
  ELSE IF t[y].mint # x THEN Err(10, m, t)
  ELSE IF ~m[x].authority.set THEN Err(15, m, t)
  ELSE IF RequireAuthority(z, m[x].authority.key, p) # 0
       THEN Err(RequireAuthority(z, m[x].authority.key, p), m, t)
  ELSE IF m[x].supply > MaxU64 - n \/ t[y].amount > MaxU64 - n THEN Err(13, m, t)
  ELSE Ok([m EXCEPT ![x].supply = @ + n], [t EXCEPT ![y].amount = @ + n])

Burn(x, y, z, n, p, m, t) ==
  IF Pair(x, Tokens, y, Mints, p) # 0 THEN Err(Pair(x, Tokens, y, Mints, p), m, t)
  ELSE IF ~t[x].initialized \/ ~m[y].initialized THEN Err(9, m, t)
  ELSE IF t[x].mint # y THEN Err(10, m, t)
  ELSE IF Authorize(t[x], z, n, p) # 0 THEN Err(Authorize(t[x], z, n, p), m, t)
  ELSE IF t[x].amount < n \/ m[y].supply < n THEN Err(11, m, t)
  ELSE Ok([m EXCEPT ![y].supply = @ - n], [t EXCEPT ![x] = Debit(@, z, n)])

\* What Approve, Revoke and SetAuthority of an account check first.
OwnerError(x, y, p, t) ==
  IF RequireProgramAccount(x, Tokens, TRUE, p) # 0 THEN RequireProgramAccount(x, Tokens, TRUE, p)
  ELSE IF ~t[x].initialized THEN 9
  ELSE RequireAuthority(y, t[x].owner, p)

Approve(x, y, z, n, p, m, t) ==
  IF OwnerError(x, y, p, t) # 0 THEN Err(OwnerError(x, y, p, t), m, t)
  ELSE Ok(m, [t EXCEPT ![x].delegate = Authority(z), ![x].delegated = n])

Revoke(x, y, p, m, t) ==
  IF OwnerError(x, y, p, t) # 0 THEN Err(OwnerError(x, y, p, t), m, t)
  ELSE Ok(m, [t EXCEPT ![x].delegate = NoAuthority, ![x].delegated = 0])

SetMintAuthority(x, y, authority, p, m, t) ==
  LET owned == RequireProgramAccount(x, Mints, TRUE, p) IN
    IF owned # 0 THEN Err(owned, m, t)
    ELSE IF ~m[x].initialized THEN Err(9, m, t)
    ELSE IF ~m[x].authority.set THEN Err(15, m, t)
    ELSE IF RequireAuthority(y, m[x].authority.key, p) # 0
         THEN Err(RequireAuthority(y, m[x].authority.key, p), m, t)
    ELSE Ok([m EXCEPT ![x].authority = authority], t)

SetOwner(x, y, key, p, m, t) ==
  IF OwnerError(x, y, p, t) # 0 THEN Err(OwnerError(x, y, p, t), m, t)
  ELSE Ok(m, [t EXCEPT ![x].owner = key, ![x].delegate = NoAuthority, ![x].delegated = 0])
=============================================================================
