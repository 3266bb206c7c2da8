------------------------------ MODULE Settlement ------------------------------
(***************************************************************************)
(* What an invocation promises the one who made it, without the copies,    *)
(* syncs and snapshots of the host: the accounts change in one atomic step *)
(* whenever a CPI succeeds or the program returns, each time within the    *)
(* privileges of the invocation and conserving lamports.  A CPI that fails *)
(* is no step at all, and a program that fails leaves what it was given.   *)
(***************************************************************************)
EXTENDS Naturals, Functions

CONSTANTS
  Accounts,  \* account keys
  Program,   \* the program invoked
  PDAs       \* accounts whose address derives from Program

VARIABLES
  input,     \* the accounts and their privileges, as given
  accounts,  \* owner, lamports and data of every account, as last settled
  outcome    \* "running", "returned" or "failed"

settlementVars == <<input, accounts, outcome>>

Mutable(a) == input[a].writable /\ ~input[a].executable

Received ==
  [a \in Accounts |->
     [owner |-> input[a].owner, lamports |-> input[a].lamports, data |-> input[a].data]]

\* Who may debit, reassign or rewrite an account: the program while it owns it,
\* or whoever was given its signature.
Entitled(a) == Mutable(a) /\ (accounts[a].owner = Program \/ input[a].signer \/ a \in PDAs)

Lamports(b) == SumFunction([a \in DOMAIN b |-> b[a].lamports])

\* Anybody may credit a writable account.
Settle(after) ==
  /\ DOMAIN after = Accounts
  /\ \A a \in Accounts :
       LET now == after[a]
           was == accounts[a]
       IN /\ now # was => Mutable(a)
          /\ now.lamports < was.lamports \/ now.owner # was.owner \/ now.data # was.data
               => Entitled(a)
  /\ Lamports(after) = Lamports(accounts)

Given == accounts = Received /\ outcome = "running"

\* The program has run on and a CPI succeeded, or it has returned.
Settles == Settle(accounts') /\ outcome' \in {"running", "returned"}

Fails == accounts' = Received /\ outcome' = "failed"

SettlementNext == outcome = "running" /\ UNCHANGED input /\ (Settles \/ Fails)

SettlementSpec == Given /\ [][SettlementNext]_settlementVars
=============================================================================
