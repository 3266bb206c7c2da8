---------------------------- MODULE PayableModel ----------------------------
(***************************************************************************)
(* The native model of the payable vault (examples/payable/program.go,     *)
(* state.go, instruction.go): the same instructions on decoded states,     *)
(* through pointers, so that two roles of one account are one account.  A  *)
(* state is [open, lamports, vault, deposit] with vault and deposit        *)
(* decoded; an outcome is the error code and the state the method leaves.  *)
(***************************************************************************)
EXTENDS Checks

CONSTANTS Vaults, Deposits, NoKey, U64

MaxUint64 == U64 - 1

VaultState(initialized, total, authority) ==
  [initialized |-> initialized, totalDeposited |-> total, authority |-> authority]
DepositState(initialized, balance, vault, depositor) ==
  [initialized |-> initialized, balance |-> balance, vault |-> vault, depositor |-> depositor]

\* Zero bytes decode to the uninitialized state.
DecodeVaultState(data) == VaultState(data.tag = 1, data.total, data.authority)
DecodeDepositState(data) ==
  DepositState(data.tag = 2, data.balance, data.vault, data.depositor)

Outcome(code, s, after) == [code |-> code, state |-> IF code = 0 THEN after ELSE s]

RequireProgramAccount(s, x, writable, sized, p) == RequireOwned(x, s.open, writable, sized, p, 6)

InitializeVault(s, v, authority, p) ==
  Outcome(RequireProgramAccount(s, v, TRUE, Vaults, p) ??
          RequireSigner(v, p) ??
          Require(~s.vault[v].initialized, 7),
          s, [s EXCEPT !.vault[v] = VaultState(TRUE, 0, authority)])

InitializeDepositAccount(s, d, v, depositor, p) ==
  Outcome(Require(d # v, 9) ??
          RequireProgramAccount(s, d, TRUE, Deposits, p) ??
          RequireSigner(d, p) ??
          RequireProgramAccount(s, v, FALSE, Vaults, p) ??
          Require(s.vault[v].initialized, 8) ??
          Require(~s.deposit[d].initialized, 7),
          s, [s EXCEPT !.deposit[d] = DepositState(TRUE, 0, v, depositor)])

\* initializedVault, initializedDeposit and the comparison of their keys.
Bound(s, v, d, depositor) ==
  Require(s.vault[v].initialized, 8) ??
  Require(s.deposit[d].initialized, 8) ??
  Require(s.deposit[d].vault = v, 10) ??
  Require(s.deposit[d].depositor = depositor, 11)

\* Lamports -= then Lamports +=, through the two pointers.
Move(s, from, to, amount) ==
  [s EXCEPT !.lamports[from] = @ - amount, !.lamports[to] = @ + amount]

Deposit(s, v, d, depositor, amount, p) ==
  Outcome(Require(amount # 0, 1) ??
          RequireProgramAccount(s, v, TRUE, Vaults, p) ??
          RequireProgramAccount(s, d, TRUE, Deposits, p) ??
          Require(depositor \in p.writable, 4) ??
          RequireSigner(depositor, p) ??
          Bound(s, v, d, depositor) ??
          Require(s.lamports[depositor] >= amount, 12) ??
          Require(s.lamports[v] <= MaxUint64 - amount /\
                  s.vault[v].totalDeposited <= MaxUint64 - amount /\
                  s.deposit[d].balance <= MaxUint64 - amount, 14),
          s, [Move(s, depositor, v, amount)
               EXCEPT !.vault[v].totalDeposited = @ + amount, !.deposit[d].balance = @ + amount])

Withdraw(s, v, d, depositor, recipient, amount, p) ==
  Outcome(Require(amount # 0, 1) ??
          RequireProgramAccount(s, v, TRUE, Vaults, p) ??
          RequireProgramAccount(s, d, TRUE, Deposits, p) ??
          RequireSigner(depositor, p) ??
          Require(recipient \in p.writable, 4) ??
          Bound(s, v, d, depositor) ??
          Require(s.deposit[d].balance >= amount, 13) ??
          Require(s.lamports[v] >= amount, 13) ??
          Require(s.lamports[recipient] <= MaxUint64 - amount, 14),
          s, [Move(s, v, recipient, amount)
               EXCEPT !.vault[v].totalDeposited = (@ + U64 - amount) % U64,
                      !.deposit[d].balance = @ - amount])

EmergencyWithdraw(s, v, authority, recipient, amount, p) ==
  Outcome(Require(amount # 0, 1) ??
          RequireProgramAccount(s, v, TRUE, Vaults, p) ??
          Require(recipient \in p.writable, 4) ??
          Require(s.vault[v].initialized, 8) ??
          RequireAuthority(authority, s.vault[v].authority, p, 15) ??
          Require(s.lamports[v] >= amount, 13) ??
          Require(s.lamports[recipient] <= MaxUint64 - amount, 14),
          s, Move(s, v, recipient, amount))
=============================================================================
