------------------------------- MODULE Checks -------------------------------
(***************************************************************************)
(* The checks the compiled example programs share: each program carries    *)
(* its own copy of them in testdata/accounts.go, which differ in their     *)
(* error codes only.  A check is the code it returns, 0 when it passes.    *)
(* A transaction brings its privileges p = [signers, writable].            *)
(***************************************************************************)
EXTENDS Integers

\* The code a Process function returns: the first that is not 0.
code ?? otherwise == IF code # 0 THEN code ELSE otherwise

Require(condition, code) == IF condition THEN 0 ELSE code

RequireAccountCount(count, wanted) ==
  Require(count >= wanted, 2) ?? Require(count <= wanted, 1)

\* RequireOwned: the owner, the writable bit where asked, then the size.
RequireOwned(x, owned, needsWritable, sized, p, invalid) ==
  Require(x \in owned, 3) ??
  Require(needsWritable => x \in p.writable, 4) ??
  Require(x \in sized, invalid)

RequireSigner(x, p) == Require(x \in p.signers, 5)

RequireAuthority(x, expected, p, invalid) ==
  Require(x = expected, invalid) ?? RequireSigner(x, p)

\* u64 addition wraps; the programs look for a sum below the first operand.
Plus(a, b, u64) == (a + b) % u64
RequireNoWrap(a, b, u64, code) == Require(Plus(a, b, u64) >= a, code)
=============================================================================
