------------------------------ MODULE MCRuntime ------------------------------
(* An instance of Runtime for TLC.                                         *)
EXTENDS Runtime, TLC

CONSTANTS vault, user, self, other

\* The vault is listed twice.
MCSlots == <<vault, user, vault, self, other>>

Executable(owner) ==
  [owner |-> owner, lamports |-> 0, data |-> <<>>,
   signer |-> FALSE, writable |-> FALSE, executable |-> TRUE]

\* The vault belongs to the program, the user's account to the callee.
MCInput(v, s, w) ==
  [a \in Accounts |->
     CASE a = vault -> [owner |-> self, lamports |-> 1, data |-> <<1>>,
                        signer |-> FALSE, writable |-> v, executable |-> FALSE]
       [] a = user -> [owner |-> other, lamports |-> 1, data |-> <<0>>,
                       signer |-> s, writable |-> w, executable |-> FALSE]
       [] OTHER -> Executable(other)]

\* At most one privilege is missing, or both of the user's.
MCInputs ==
  {MCInput(TRUE, s, w) : s \in BOOLEAN, w \in BOOLEAN} \cup {MCInput(FALSE, TRUE, TRUE)}

M(a, s, w) == [account |-> a, signer |-> s, writable |-> w]

\* Both accounts, with every privilege of the user's, given by one meta or two.
MCMetas ==
  {{M(vault, FALSE, TRUE), M(user, s, w)} : s \in BOOLEAN, w \in BOOLEAN}
  \cup {{M(user, TRUE, FALSE), M(user, FALSE, TRUE)}}

\* The program calls itself or the other program, which may sign for the vault.
MCCalls ==
  {[program |-> other, metas |-> m, infos |-> {vault, user}, seeds |-> {}] : m \in MCMetas}
  \cup {[program |-> other, metas |-> {M(vault, TRUE, TRUE)}, infos |-> {vault}, seeds |-> {vault}],
        [program |-> self, metas |-> {M(vault, FALSE, TRUE), M(user, FALSE, TRUE)},
         infos |-> {vault, user}, seeds |-> {}]}
=============================================================================
