------------------------------ MODULE MCGospl ------------------------------
(* Instances of the token program and its oracle for TLC.                  *)
EXTENDS GosplOracle, TLC

CONSTANTS m1, m2, t1, t2, k1, k2

ProgramOwned == Mints \cup Tokens

\* Transactions with at most one signer that may write everything (every
\* instruction needs one signature, more only allow more), and those that nobody
\* signs and that miss the writable bit of one account.
MCPrivileges ==
  [signers: {{}} \cup {{x} : x \in Addresses}, writable: {ProgramOwned}]
  \cup [signers: {{}}, writable: {ProgramOwned \ {x} : x \in ProgramOwned}]

BothSwaps == Permutations(Tokens) \cup Permutations(Mints)

\* States that differ only in who signed last have the same steps.
AccountData == <<mint, token>>

=============================================================================
