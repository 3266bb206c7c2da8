------------------------------- MODULE Loader -------------------------------
(***************************************************************************)
(* The upgradeable loader as the deploy client of package deploy sees it:  *)
(* what each transaction built by sdk/loader does to the accounts of one   *)
(* program.  A bank is the state of those accounts at one point of the     *)
(* ledger:                                                                 *)
(*   payer  lamports of the fee payer (also the default spill address)     *)
(*   buf    for each buffer address NoAccount or a Buffer-state account    *)
(*   prog   NoAccount or the program account with its ProgramData account  *)
(* The bytes of an ELF are abstracted to the ELF they come from: the       *)
(* payload of a buffer is a sequence over Elfs \cup {Zero}, so that a      *)
(* mixture of two artifacts, a hole and zero padding are told apart.       *)
(* A run is one call of Program, ResumeProgram or Upgrade; its Config is   *)
(* the record Cfg[r].  The buffer a run creates is named after the run.    *)
(***************************************************************************)
EXTENDS Naturals, Sequences

CONSTANTS
  Runs,        \* calls of Program / ResumeProgram / Upgrade
  Elfs,        \* program artifacts
  Authorities, \* upgrade authority keys
  ElfLen,      \* length of each artifact, in bytes
  Cfg,         \* the Config and arguments of each run
  ProgramRent, \* rent exemption of the 36-byte program account
  DataRent,    \* rent exemption of a ProgramData account, by payload length
  BufferRent,  \* rent exemption of a Buffer account, by payload length
  PayerFunds,  \* what the fee payer may hold before any run, in lamports
  MaxLen,      \* bound: largest payload length
  Zero,        \* a zero byte
  NoAccount    \* an absent account

Kinds == {"program", "resume", "upgrade"}

Config ==
  [kind: Kinds, elf: Elfs, buffer: Runs, authority: Authorities,
   maxLen: 0..MaxLen, chunk: 1..MaxLen]

ASSUME LoaderAssumption ==
  /\ Zero \notin Elfs
  /\ ElfLen \in [Elfs -> 1..MaxLen]
  /\ Cfg \in [Runs -> Config]
  /\ \A r \in Runs : Cfg[r].kind # "resume" => Cfg[r].buffer = r
  /\ MaxLen \in Nat
  /\ ProgramRent \in Nat
  /\ DataRent \in [1..MaxLen -> Nat]
  /\ BufferRent \in [1..MaxLen -> Nat]
  /\ PayerFunds \subseteq Nat
  /\ NoAccount \notin [lamports: Nat, authority: Authorities, data: Seq(Elfs \cup {Zero})]
  /\ NoAccount \notin [lamports: Nat, authority: Authorities,
                       data: Seq(Elfs \cup {Zero}), by: Runs]

Elf(r) == Cfg[r].elf
Len0(r) == ElfLen[Elf(r)]

\* MaxDataLen defaults to the length of the artifact.
MaxDataLen(r) == IF Cfg[r].maxLen = 0 THEN Len0(r) ELSE Cfg[r].maxLen

Byte == Elfs \cup {Zero}
BufferAccount == [lamports: Nat, authority: Authorities, data: Seq(Byte)]
ProgramAccount == [lamports: Nat, authority: Authorities, data: Seq(Byte), by: Runs]

Bank ==
  [payer: Nat,
   buf: [Runs -> BufferAccount \cup {NoAccount}],
   prog: ProgramAccount \cup {NoAccount}]

EmptyBank(lamports) ==
  [payer |-> lamports, buf |-> [r \in Runs |-> NoAccount], prog |-> NoAccount]

-----------------------------------------------------------------------------
(* Transactions.  A transaction is identified by the run that signed it,   *)
(* what it does and, for a write, its offset: sdk/loader builds exactly    *)
(* one create, one write per offset and one final transaction per run.     *)

Step == [op: {"create", "write", "final"}, offset: 0..MaxLen]
Tx == [run: Runs, step: Step]

CreateStep == [op |-> "create", offset |-> 0]
WriteStep(o) == [op |-> "write", offset |-> o]
FinalStep == [op |-> "final", offset |-> 0]

Min2(a, b) == IF a < b THEN a ELSE b

\* Mutant: each chunk is one byte short.
ChunkEndShort(r, o) == Min2(o + Cfg[r].chunk - 1, Len0(r))

\* One past the last byte of the chunk that starts at offset o.
ChunkEnd(r, o) == Min2(o + Cfg[r].chunk, Len0(r))

\* Buffers of Program are funded for the ProgramData account they turn into,
\* those of Upgrade only for themselves.
CreateLamports(r) ==
  IF Cfg[r].kind = "upgrade" THEN BufferRent[Len0(r)] ELSE DataRent[MaxDataLen(r)]

\* The artifact (or mixture) followed by zero padding up to n bytes.
Padded(data, n) == [i \in 1..n |-> IF i <= Len(data) THEN data[i] ELSE Zero]

Image(r, n) == Padded([i \in 1..Len0(r) |-> Elf(r)], n)

(* CreateBuffer: System CreateAccount and InitializeBuffer, atomically.    *)
CanCreate(r, b) ==
  /\ b.buf[r] = NoAccount
  /\ b.payer >= CreateLamports(r)

DoCreate(r, b) ==
  [b EXCEPT
     !.payer = @ - CreateLamports(r),
     !.buf[r] = [lamports |-> CreateLamports(r), authority |-> Cfg[r].authority,
                 data |-> [i \in 1..Len0(r) |-> Zero]]]

(* Write: only the buffer's authority, only inside its capacity.           *)
CanWrite(r, o, b) ==
  LET buffer == b.buf[Cfg[r].buffer] IN
    /\ buffer # NoAccount
    /\ buffer.authority = Cfg[r].authority
    /\ ChunkEnd(r, o) <= Len(buffer.data)

DoWrite(r, o, b) ==
  [b EXCEPT !.buf[Cfg[r].buffer].data =
     [i \in 1..Len(@) |-> IF o < i /\ i <= ChunkEnd(r, o) THEN Elf(r) ELSE @[i]]]

(* DeployWithMaxDataLen: CreateAccount of the program account, which fails *)
(* when it exists, then the loader drains the buffer into the payer and    *)
(* funds ProgramData from it.                                              *)
CanDeploy(r, b) ==
  LET buffer == b.buf[Cfg[r].buffer] IN
    /\ b.prog = NoAccount
    /\ buffer # NoAccount
    /\ buffer.authority = Cfg[r].authority
    /\ Len(buffer.data) <= MaxDataLen(r)
    /\ b.payer >= ProgramRent
    /\ b.payer - ProgramRent + buffer.lamports >= DataRent[MaxDataLen(r)]

DoDeploy(r, b) ==
  LET buffer == b.buf[Cfg[r].buffer] IN
    [b EXCEPT
       !.payer = (@ - ProgramRent + buffer.lamports) - DataRent[MaxDataLen(r)],
       !.buf[Cfg[r].buffer] = NoAccount,
       !.prog = [lamports |-> ProgramRent + DataRent[MaxDataLen(r)],
                 authority |-> Cfg[r].authority,
                 data |-> Padded(buffer.data, MaxDataLen(r)), by |-> r]]

(* Upgrade: the program stays, its payload is replaced and zero padded,    *)
(* and the buffer's lamports are swept to the spill address.               *)
CanUpgrade(r, b) ==
  LET buffer == b.buf[Cfg[r].buffer] IN
    /\ b.prog # NoAccount
    /\ buffer # NoAccount
    /\ buffer.authority = Cfg[r].authority
    /\ b.prog.authority = Cfg[r].authority
    /\ Len(buffer.data) <= Len(b.prog.data)

DoUpgrade(r, b) ==
  LET buffer == b.buf[Cfg[r].buffer] IN
    [b EXCEPT
       !.payer = @ + buffer.lamports,
       !.buf[Cfg[r].buffer] = NoAccount,
       !.prog.data = Padded(buffer.data, Len(@)),
       !.prog.by = r]

CanExec(tx, b) ==
  CASE tx.step.op = "create" -> CanCreate(tx.run, b)
    [] tx.step.op = "write"  -> CanWrite(tx.run, tx.step.offset, b)
    [] tx.step.op = "final"  -> IF Cfg[tx.run].kind = "upgrade"
                                THEN CanUpgrade(tx.run, b) ELSE CanDeploy(tx.run, b)

DoExec(tx, b) ==
  CASE tx.step.op = "create" -> DoCreate(tx.run, b)
    [] tx.step.op = "write"  -> DoWrite(tx.run, tx.step.offset, b)
    [] tx.step.op = "final"  -> IF Cfg[tx.run].kind = "upgrade"
                                THEN DoUpgrade(tx.run, b) ELSE DoDeploy(tx.run, b)
=============================================================================
