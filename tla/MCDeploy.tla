------------------------------ MODULE MCDeploy ------------------------------
(* Instances of Deploy for TLC.                                            *)
EXTENDS Deploy, TLC

CONSTANTS r1, r2, r3, r4, r5, e1, e2, a1, a2

MCElfLen == [e \in Elfs |-> 2]
MCDataRent == [n \in 1..MaxLen |-> 2 * n]
MCBufferRent == [n \in 1..MaxLen |-> n]

Conf(kind, elf, buffer, authority, maxLen, chunk) ==
  [kind |-> kind, elf |-> elf, buffer |-> buffer, authority |-> authority,
   maxLen |-> maxLen, chunk |-> chunk]

\* Every run is called.
MCCalled == {Runs}

\* A deploy, and a resume of its buffer: with the same artifact and more room, or
\* with another artifact of the same length and less room while the first run may
\* still be writing; and an invalid Config (MaxDataLen below the length).
CfgResume == (r1 :> Conf("program", e1, r1, a1, 3, 1)) @@
             (r2 :> Conf("resume", e1, r1, a1, 4, 2)) @@
             (r3 :> Conf("resume", e2, r1, a1, 0, 2)) @@
             (r4 :> Conf("program", e1, r4, a1, 1, 2))
CalledResume == {{r1, r2}, {r1, r3}, {r4}}

\* A deploy and an upgrade of the program to a longer artifact, whose last chunk is
\* short.
CfgUpgrade == (r1 :> Conf("program", e1, r1, a1, 3, 2)) @@
              (r2 :> Conf("upgrade", e2, r2, a1, 0, 2))

\* Two deploys of one program that do not know of each other, the second with a
\* longer artifact whose last chunk is short, and three upgrades: r3 always fits, r4 only if the longer
\* artifact was deployed, and then they race; r5 never has the authority.
MCElfLenUneven == (e1 :> 2) @@ (e2 :> 3)
CfgUpgrades == (r1 :> Conf("program", e1, r1, a1, 0, 2)) @@
               (r2 :> Conf("program", e2, r2, a1, 0, 2)) @@
               (r3 :> Conf("upgrade", e1, r3, a1, 0, 2)) @@
               (r4 :> Conf("upgrade", e2, r4, a1, 0, 3)) @@
               (r5 :> Conf("upgrade", e1, r5, a2, 0, 2))
=============================================================================
