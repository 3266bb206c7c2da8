---------------------------- MODULE BuildRegistry ----------------------------
(***************************************************************************)
(* What web.Builder promises its clients, whatever Build calls overlap     *)
(* inside it: every build is published at once under the next number of    *)
(* its example; an id serves the bytes it was published with for as long as*)
(* it is one of the last Window builds of the example, and nothing after.  *)
(***************************************************************************)
EXTENDS Naturals

CONSTANTS
  Examples,  \* registered examples
  Sources,   \* contents of sources that compile
  Window     \* builds kept for one example

VARIABLES
  published, \* example -> builds published so far
  served     \* build id (example, number) -> artifact [example, version]

registryVars == <<published, served>>

RegistryInit ==
  /\ published = [e \in Examples |-> 0]
  /\ served = [id \in {} |-> {}]

\* Ids served once n builds of e are published.
Served(e, n) == {<<e, k>> : k \in {k \in 1..n : k + Window > n}}

Publish(e, v) ==
  LET number == published[e] + 1 IN
    /\ published' = [published EXCEPT ![e] = number]
    /\ served' = [id \in UNION {Served(f, published'[f]) : f \in Examples} |->
                    IF id = <<e, number>> THEN [example |-> e, version |-> v] ELSE served[id]]

RegistryNext == \E e \in Examples, v \in Sources : Publish(e, v)

RegistrySpec == RegistryInit /\ [][RegistryNext]_registryVars
=============================================================================
