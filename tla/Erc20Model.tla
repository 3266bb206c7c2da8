----------------------------- MODULE Erc20Model -----------------------------
(***************************************************************************)
(* The native model of the ERC-20 program (examples/erc20/program.go,      *)
(* state.go): the same instructions on decoded states.  A state is a       *)
(* record [mint, balance, allowance] of decoded accounts; an outcome is    *)
(* the error code and the state the method leaves.                         *)
(***************************************************************************)
EXTENDS Checks

CONSTANTS Mints, Balances, Allowances, U64

Accounts == Mints \cup Balances \cup Allowances
MaxUint64 == U64 - 1

MintState(initialized, supply, authority) ==
  [initialized |-> initialized, totalSupply |-> supply, mintAuthority |-> authority]
BalanceState(initialized, mint, owner, amount) ==
  [initialized |-> initialized, mint |-> mint, owner |-> owner, amount |-> amount]
AllowanceState(initialized, mint, owner, spender, amount) ==
  [initialized |-> initialized, mint |-> mint, owner |-> owner, spender |-> spender,
   amount |-> amount]

\* Zero bytes decode to the uninitialized state, the program's own to what it stored.
DecodeMintState(d) == MintState(d.tag = 1, d.supply, d.authority)
DecodeBalanceState(d) == BalanceState(d.tag = 2, d.mint, d.owner, d.amount)
DecodeAllowanceState(d) == AllowanceState(d.tag = 3, d.mint, d.owner, d.spender, d.amount)

Outcome(code, s, after) == [code |-> code, state |-> IF code = 0 THEN after ELSE s]

RequireProgramAccount(x, writable, sized, p) == RequireOwned(x, Accounts, writable, sized, p, 6)

Initialized(state) == Require(state.initialized, 8)

InitializeMint(s, m, authority, p) ==
  Outcome(RequireProgramAccount(m, TRUE, Mints, p) ?? RequireSigner(m, p) ??
          Require(~s.mint[m].initialized, 7),
          s, [s EXCEPT !.mint[m] = MintState(TRUE, 0, authority)])

InitializeBalance(s, b, m, owner, p) ==
  Outcome(Require(b # m, 9) ??
          RequireProgramAccount(b, TRUE, Balances, p) ?? RequireSigner(b, p) ??
          RequireProgramAccount(m, FALSE, Mints, p) ?? Initialized(s.mint[m]) ??
          Require(~s.balance[b].initialized, 7),
          s, [s EXCEPT !.balance[b] = BalanceState(TRUE, m, owner, 0)])

MintTo(s, m, b, authority, amount, p) ==
  Outcome(Require(m # b, 9) ??
          RequireProgramAccount(m, TRUE, Mints, p) ??
          RequireProgramAccount(b, TRUE, Balances, p) ??
          Initialized(s.mint[m]) ?? Initialized(s.balance[b]) ??
          Require(s.balance[b].mint = m, 10) ??
          RequireAuthority(authority, s.mint[m].mintAuthority, p, 14) ??
          Require(s.mint[m].totalSupply <= MaxUint64 - amount /\
                  s.balance[b].amount <= MaxUint64 - amount, 13),
          s, [s EXCEPT !.mint[m].totalSupply = @ + amount, !.balance[b].amount = @ + amount])

Burn(s, b, m, owner, amount, p) ==
  Outcome(Require(b # m, 9) ??
          RequireProgramAccount(b, TRUE, Balances, p) ??
          RequireProgramAccount(m, TRUE, Mints, p) ??
          Initialized(s.balance[b]) ?? Initialized(s.mint[m]) ??
          Require(s.balance[b].mint = m, 10) ??
          RequireAuthority(owner, s.balance[b].owner, p, 14) ??
          Require(s.balance[b].amount >= amount /\ s.mint[m].totalSupply >= amount, 11),
          s, [s EXCEPT !.mint[m].totalSupply = @ - amount, !.balance[b].amount = @ - amount])

Moved(s, from, to, amount) ==
  [s EXCEPT !.balance[from].amount = @ - amount, !.balance[to].amount = @ + amount]

Transfer(s, from, to, owner, amount, p) ==
  Outcome(Require(from # to, 9) ??
          RequireProgramAccount(from, TRUE, Balances, p) ??
          RequireProgramAccount(to, TRUE, Balances, p) ??
          Initialized(s.balance[from]) ?? Initialized(s.balance[to]) ??
          Require(s.balance[from].mint = s.balance[to].mint, 10) ??
          RequireAuthority(owner, s.balance[from].owner, p, 14) ??
          Require(s.balance[from].amount >= amount, 11) ??
          Require(s.balance[to].amount <= MaxUint64 - amount, 13),
          s, Moved(s, from, to, amount))

InitializeAllowance(s, a, m, owner, spender, p) ==
  Outcome(Require(a # m, 9) ??
          RequireProgramAccount(a, TRUE, Allowances, p) ?? RequireSigner(a, p) ??
          RequireProgramAccount(m, FALSE, Mints, p) ?? Initialized(s.mint[m]) ??
          RequireSigner(owner, p) ??
          Require(~s.allowance[a].initialized, 7),
          s, [s EXCEPT !.allowance[a] = AllowanceState(TRUE, m, owner, spender, 0)])

Approve(s, a, owner, amount, p) ==
  Outcome(RequireProgramAccount(a, TRUE, Allowances, p) ??
          Initialized(s.allowance[a]) ??
          RequireAuthority(owner, s.allowance[a].owner, p, 14),
          s, [s EXCEPT !.allowance[a].amount = amount])

TransferFrom(s, from, to, a, spender, amount, p) ==
  Outcome(Require(from # to, 9) ??
          RequireProgramAccount(from, TRUE, Balances, p) ??
          RequireProgramAccount(to, TRUE, Balances, p) ??
          RequireProgramAccount(a, TRUE, Allowances, p) ??
          Initialized(s.balance[from]) ?? Initialized(s.balance[to]) ??
          Initialized(s.allowance[a]) ??
          Require(s.balance[from].mint = s.balance[to].mint /\
                  s.balance[from].mint = s.allowance[a].mint, 10) ??
          Require(s.allowance[a].owner = s.balance[from].owner, 15) ??
          RequireAuthority(spender, s.allowance[a].spender, p, 14) ??
          Require(s.allowance[a].amount >= amount, 12) ??
          Require(s.balance[from].amount >= amount, 11) ??
          Require(s.balance[to].amount <= MaxUint64 - amount, 13),
          s, [Moved(s, from, to, amount) EXCEPT !.allowance[a].amount = @ - amount])
=============================================================================
