----------------------------- MODULE GosplOracle -----------------------------
(***************************************************************************)
(* The token program and its native oracle side by side.  The oracle runs  *)
(* on the states the guest program's bytes decode to.                      *)
(***************************************************************************)
EXTENDS Gospl

O == INSTANCE Spl20 WITH MaxU64 <- U64 - 1

\* What the oracle reads in the bytes of a mint and of a token account.
DecodeMint(d) ==
  [initialized |-> d.tag = 1, supply |-> d.supply,
   authority |-> IF d.flags = 3 THEN O!Authority(d.authority) ELSE O!NoAuthority]

DecodeToken(d) ==
  [initialized |-> d.tag = 2, mint |-> d.mint, owner |-> d.owner, amount |-> d.amount,
   delegate |-> IF d.flags = 3 THEN O!Authority(d.delegate) ELSE O!NoAuthority,
   delegated |-> d.allowance]

Decoded(written) ==
  [mints |-> [m \in Mints |-> DecodeMint(written.mints[m])],
   tokens |-> [t \in Tokens |-> DecodeToken(written.tokens[t])]]

Unchanged == Wrote(mint, token)

\* The guest's code is the oracle's, and what the guest writes when it succeeds
\* decodes to the oracle's states; when either fails it leaves the states alone.
Agree(code, written, outcome) ==
  /\ code = outcome.code
  /\ code = 0 => LET after == Decoded(written)
                 IN after.mints = outcome.mints /\ after.tokens = outcome.tokens

\* README.md of examples/gospl: the guest program returns the codes and leaves
\* the states of the independent native oracle (contract_test.go runs single
\* scenarios on both).  Here: in every reachable state, for every instruction.
GuestMatchesOracle ==
  LET m == Decoded(Unchanged).mints
      t == Decoded(Unchanged).tokens
  IN \A p \in Privileges : \A x, y \in Addresses :
       /\ Agree(OwnerChecks(x, y, p), Revoke(x), O!Revoke(x, y, p, m, t))
       /\ Agree(SetMintAuthorityChecks(x, y, p), DisableMintAuthority(x),
               O!SetMintAuthority(x, y, O!NoAuthority, p, m, t))
       /\ \A k \in NewKeys :
            /\ Agree(InitializeMintChecks(x, p), InitializeMint(x, k),
                    O!InitializeMint(x, k, p, m, t))
            /\ Agree(InitializeAccountChecks(x, y, p), InitializeAccount(x, y, k),
                    O!InitializeAccount(x, y, k, p, m, t))
            /\ Agree(SetMintAuthorityChecks(x, y, p), ReplaceMintAuthority(x, k),
                    O!SetMintAuthority(x, y, O!Authority(k), p, m, t))
            /\ Agree(OwnerChecks(x, y, p), SetOwner(x, k), O!SetOwner(x, y, k, p, m, t))
       /\ \A z \in Addresses, n \in Amount :
            /\ Agree(MintToChecks(x, y, z, n, p), MintTo(x, y, n),
                    O!MintTo(x, y, z, n, p, m, t))
            /\ Agree(TransferChecks(x, y, z, n, p), Transfer(x, y, z, n),
                    O!Transfer(x, y, z, n, p, m, t))
            /\ Agree(BurnChecks(x, y, z, n, p), Burn(x, y, z, n),
                    O!Burn(x, y, z, n, p, m, t))
            /\ Agree(OwnerChecks(x, y, p), Approve(x, z, n),
                    O!Approve(x, y, z, n, p, m, t))
=============================================================================
