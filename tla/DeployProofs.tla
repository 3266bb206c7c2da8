---------------------------- MODULE DeployProofs ----------------------------
(***************************************************************************)
(* Proofs about the deploy workflow, for any number of runs, artifacts,    *)
(* lengths, rents and faults.  First what a transaction does to a bank;    *)
(* then types, the record each run leaves, the ledger as a chain of        *)
(* executions in which no transaction happens twice, and what follows for  *)
(* buffers, programs and the payer.                                        *)
(***************************************************************************)
EXTENDS Deploy, SequenceTheorems, TLAPS

-----------------------------------------------------------------------------
(* Lengths, rents and images.                                              *)

LEMMA ConfigTypes ==
  ASSUME NEW r \in Runs
  PROVE  /\ Cfg[r].kind \in Kinds /\ Cfg[r].elf \in Elfs /\ Cfg[r].buffer \in Runs
         /\ Cfg[r].authority \in Authorities /\ Cfg[r].chunk \in Nat \ {0}
         /\ Elf(r) \in Elfs
         /\ Len0(r) \in 1..MaxLen /\ Len0(r) \in Nat
         /\ MaxDataLen(r) \in 1..MaxLen /\ MaxDataLen(r) \in Nat
         /\ DataRent[MaxDataLen(r)] \in Nat /\ BufferRent[Len0(r)] \in Nat
         /\ CreateLamports(r) \in Nat /\ ProgramRent \in Nat /\ MaxLen \in Nat
<1>1. Cfg[r] \in Config /\ MaxLen \in Nat /\ ProgramRent \in Nat
  BY LoaderAssumption
<1>2. /\ Cfg[r].kind \in Kinds /\ Cfg[r].elf \in Elfs /\ Cfg[r].buffer \in Runs
      /\ Cfg[r].authority \in Authorities /\ Cfg[r].chunk \in 1..MaxLen
      /\ Cfg[r].maxLen \in 0..MaxLen
  BY <1>1 DEF Config
<1>3. Elf(r) \in Elfs /\ Len0(r) \in 1..MaxLen
  BY <1>2, LoaderAssumption DEF Elf, Len0
<1>4. MaxDataLen(r) \in 1..MaxLen
  BY <1>1, <1>2, <1>3 DEF MaxDataLen
<1>5. DataRent[MaxDataLen(r)] \in Nat /\ BufferRent[Len0(r)] \in Nat
  BY <1>3, <1>4, LoaderAssumption
<1>6. CreateLamports(r) \in Nat
  BY <1>5 DEF CreateLamports
<1>. QED
  BY <1>1, <1>2, <1>3, <1>4, <1>5, <1>6

\* Padding keeps what is there and is of the length that was asked for.
LEMMA PaddedType ==
  ASSUME NEW data \in Seq(Byte), NEW n \in Nat
  PROVE  /\ Padded(data, n) \in Seq(Byte) /\ Len(Padded(data, n)) = n
         /\ \A i \in 1..n : Padded(data, n)[i] = IF i <= Len(data) THEN data[i] ELSE Zero
<1>1. \A i \in 1..n : (IF i <= Len(data) THEN data[i] ELSE Zero) \in Byte
  BY DEF Byte
<1>2. Padded(data, n) \in [1..n -> Byte]
  BY <1>1 DEF Padded
<1>. QED
  BY <1>2, IsASeq DEF Padded

\* The artifact itself, then zeros.
LEMMA ImageType ==
  ASSUME NEW r \in Runs, NEW n \in Nat
  PROVE  /\ Image(r, n) \in Seq(Byte) /\ Len(Image(r, n)) = n
         /\ \A i \in 1..n : Image(r, n)[i] = IF i <= Len0(r) THEN Elf(r) ELSE Zero
<1>. DEFINE art == [i \in 1..Len0(r) |-> Elf(r)]
<1>1. Len0(r) \in Nat /\ Elf(r) \in Byte
  BY ConfigTypes DEF Byte
<1>2. art \in [1..Len0(r) -> Byte]
  BY <1>1
<1>3. art \in Seq(Byte) /\ Len(art) = Len0(r)
  BY <1>1, <1>2, IsASeq
<1>4. \A i \in 1..n : i <= Len0(r) => i \in 1..Len0(r)
  BY <1>1
<1>. HIDE DEF art
<1>5. Padded(art, n) = Image(r, n)
  BY DEF Image, art
<1>6. \A i \in 1..Len0(r) : art[i] = Elf(r)
  BY DEF art
<1>7. /\ Image(r, n) \in Seq(Byte) /\ Len(Image(r, n)) = n
      /\ \A i \in 1..n : Image(r, n)[i] = IF i <= Len(art) THEN art[i] ELSE Zero
  BY <1>3, <1>5, PaddedType
<1>. QED
  BY <1>1, <1>3, <1>4, <1>6, <1>7

\* Padding a padded artifact is padding the artifact.
LEMMA PaddedImage ==
  ASSUME NEW r \in Runs, NEW n \in Nat, n >= Len0(r)
  PROVE  Padded(Image(r, Len0(r)), n) = Image(r, n)
<1>. DEFINE art == Image(r, Len0(r))
<1>1. Len0(r) \in Nat
  BY ConfigTypes
<1>2. art \in Seq(Byte) /\ Len(art) = Len0(r) /\ \A i \in 1..Len0(r) : art[i] = Elf(r)
  <2>1. /\ Image(r, Len0(r)) \in Seq(Byte) /\ Len(Image(r, Len0(r))) = Len0(r)
        /\ \A i \in 1..Len0(r) :
             Image(r, Len0(r))[i] = IF i <= Len0(r) THEN Elf(r) ELSE Zero
    BY <1>1, ImageType
  <2>2. \A i \in 1..Len0(r) : i <= Len0(r)
    BY <1>1
  <2>. QED
    BY <2>1, <2>2
<1>. HIDE DEF art
<1>3. /\ Padded(art, n) \in Seq(Byte) /\ Len(Padded(art, n)) = n
      /\ \A i \in 1..n : Padded(art, n)[i] = IF i <= Len(art) THEN art[i] ELSE Zero
  BY <1>2, PaddedType
<1>4. /\ Image(r, n) \in Seq(Byte) /\ Len(Image(r, n)) = n
      /\ \A i \in 1..n : Image(r, n)[i] = IF i <= Len0(r) THEN Elf(r) ELSE Zero
  BY ImageType
<1>5. \A i \in 1..n : Padded(art, n)[i] = Image(r, n)[i]
  <2>. TAKE i \in 1..n
  <2>1. i <= Len0(r) => i \in 1..Len0(r)
    BY <1>1
  <2>. QED
    BY <1>2, <1>3, <1>4, <2>1
<1>6. Padded(art, n) = Image(r, n)
  BY <1>3, <1>4, <1>5, SeqEqual
<1>. QED
  BY <1>6 DEF art

\* Runs with the same artifact make the same image.
LEMMA SameImage ==
  ASSUME NEW q \in Runs, NEW r \in Runs, Elf(q) = Elf(r), NEW n
  PROVE  Len0(q) = Len0(r) /\ Image(q, n) = Image(r, n)
  BY DEF Len0, Image

-----------------------------------------------------------------------------
(* What a transaction does to a bank.                                      *)

LEMMA BankTypes ==
  ASSUME NEW b \in Bank, NEW q \in Runs
  PROVE  /\ b.payer \in Nat
         /\ b.buf \in [Runs -> BufferAccount \cup {NoAccount}]
         /\ b.buf[q] \in BufferAccount \cup {NoAccount}
         /\ b.prog \in ProgramAccount \cup {NoAccount}
         /\ b.buf[q] # NoAccount =>
              /\ b.buf[q] \in BufferAccount /\ b.buf[q].lamports \in Nat
              /\ b.buf[q].authority \in Authorities
              /\ b.buf[q].data \in Seq(Byte) /\ Len(b.buf[q].data) \in Nat
         /\ b.prog # NoAccount =>
              /\ b.prog \in ProgramAccount /\ b.prog.lamports \in Nat
              /\ b.prog.authority \in Authorities
              /\ b.prog.data \in Seq(Byte) /\ Len(b.prog.data) \in Nat
              /\ b.prog.by \in Runs
  BY DEF Bank, BufferAccount, ProgramAccount

LEMMA NoAccountIsNone ==
  ASSUME NEW x, x \in BufferAccount \/ x \in ProgramAccount
  PROVE  x # NoAccount
  BY LoaderAssumption DEF BufferAccount, ProgramAccount, Byte

LEMMA CreateEffect ==
  ASSUME NEW b \in Bank, NEW r \in Runs, CanCreate(r, b), NEW c, c = DoCreate(r, b)
  PROVE  /\ c \in Bank /\ c.prog = b.prog
         /\ b.payer >= CreateLamports(r) /\ c.payer = b.payer - CreateLamports(r)
         /\ b.buf[r] = NoAccount /\ c.buf[r] # NoAccount
         /\ c.buf[r].lamports = CreateLamports(r)
         /\ c.buf[r].authority = Cfg[r].authority /\ Len(c.buf[r].data) = Len0(r)
         /\ \A q \in Runs \ {r} : c.buf[q] = b.buf[q]
<1>. DEFINE zeros == [i \in 1..Len0(r) |-> Zero]
            buffer == [lamports |-> CreateLamports(r), authority |-> Cfg[r].authority,
                       data |-> zeros]
<1>1. /\ b.payer \in Nat /\ CreateLamports(r) \in Nat /\ b.payer >= CreateLamports(r)
      /\ b.buf[r] = NoAccount
  BY ConfigTypes, BankTypes DEF CanCreate
<1>2. b.payer - CreateLamports(r) \in Nat
  BY <1>1
<1>3. zeros \in Seq(Byte) /\ Len(zeros) = Len0(r)
  <2>1. Len0(r) \in Nat /\ Zero \in Byte
    BY ConfigTypes DEF Byte
  <2>2. zeros \in [1..Len0(r) -> Byte]
    BY <2>1
  <2>. QED
    BY <2>1, <2>2, SeqDef, LenProperties
<1>4. buffer \in BufferAccount
  BY <1>1, <1>3, ConfigTypes DEF BufferAccount
<1>5. buffer # NoAccount
  BY <1>4, NoAccountIsNone
<1>6. /\ buffer.lamports = CreateLamports(r) /\ buffer.authority = Cfg[r].authority
      /\ Len(buffer.data) = Len0(r)
  BY <1>3
<1>7. c = [b EXCEPT !.payer = b.payer - CreateLamports(r), !.buf[r] = buffer]
  BY DEF DoCreate
<1>. HIDE DEF buffer
<1>8. /\ c \in Bank /\ c.prog = b.prog /\ c.payer = b.payer - CreateLamports(r)
      /\ c.buf[r] = buffer /\ \A q \in Runs \ {r} : c.buf[q] = b.buf[q]
  BY <1>2, <1>4, <1>7 DEF Bank
<1>. QED
  BY <1>1, <1>5, <1>6, <1>8

\* Some bytes of a payload are now bytes of the artifact of r.
Overwritten(old, new, r) ==
  /\ new \in Seq(Byte) /\ Len(new) = Len(old)
  /\ \A i \in 1..Len(old) :
       \/ new[i] = old[i]
       \/ new[i] = Elf(r) /\ i <= Len0(r)

LEMMA WriteEffect ==
  ASSUME NEW b \in Bank, NEW r \in Runs, NEW o \in Nat, CanWrite(r, o, b),
         NEW c, c = DoWrite(r, o, b)
  PROVE  LET B == Cfg[r].buffer IN
         /\ c \in Bank /\ c.prog = b.prog /\ c.payer = b.payer
         /\ b.buf[B] # NoAccount /\ c.buf[B] # NoAccount
         /\ c.buf[B].lamports = b.buf[B].lamports
         /\ c.buf[B].authority = b.buf[B].authority
         /\ Overwritten(b.buf[B].data, c.buf[B].data, r)
         /\ \A q \in Runs \ {B} : c.buf[q] = b.buf[q]
<1>. DEFINE B == Cfg[r].buffer
            old == b.buf[B]
            data == [i \in 1..Len(old.data) |->
                       IF o < i /\ i <= ChunkEnd(r, o) THEN Elf(r) ELSE old.data[i]]
<1>1. B \in Runs /\ Elf(r) \in Byte /\ Len0(r) \in Nat /\ Cfg[r].chunk \in Nat
  BY ConfigTypes DEF Byte
<1>2. old # NoAccount
  BY DEF CanWrite
<1>3. old \in BufferAccount /\ old.data \in Seq(Byte) /\ Len(old.data) \in Nat
  BY <1>1, <1>2, BankTypes
<1>4. \A i \in 1..Len(old.data) : i <= ChunkEnd(r, o) => i <= Len0(r)
  BY <1>1, <1>3 DEF ChunkEnd, Min2
<1>5. data \in [1..Len(old.data) -> Byte]
  BY <1>1, <1>3, ElementOfSeq
<1>6. data \in Seq(Byte)
  BY <1>3, <1>5, SeqDef
<1>7. Len(data) = Len(old.data)
  BY <1>3, <1>5, <1>6, LenProperties
<1>8. Overwritten(old.data, data, r)
  BY <1>4, <1>6, <1>7 DEF Overwritten
<1>. HIDE DEF data
<1>9. c = [b EXCEPT !.buf[B].data = data]
  BY DEF DoWrite, data
<1>10. B \in Runs /\ b.buf[B] \in BufferAccount
  BY <1>1, <1>3
<1>11. old = b.buf[B]
  OBVIOUS
<1>. HIDE DEF old, B
<1>12. /\ c \in Bank /\ c.prog = b.prog /\ c.payer = b.payer
       /\ c.buf[B] \in BufferAccount
       /\ c.buf[B].lamports = old.lamports /\ c.buf[B].data = data
       /\ c.buf[B].authority = old.authority
       /\ \A q \in Runs \ {B} : c.buf[q] = b.buf[q]
  <2>1. c \in Bank /\ c.prog = b.prog /\ c.payer = b.payer
    BY <1>6, <1>9, <1>10, <1>11 DEF Bank, BufferAccount
  <2>2. /\ c.buf[B] \in BufferAccount
        /\ c.buf[B].lamports = old.lamports /\ c.buf[B].data = data
        /\ c.buf[B].authority = old.authority
    BY <1>6, <1>9, <1>10, <1>11 DEF Bank, BufferAccount
  <2>3. \A q \in Runs \ {B} : c.buf[q] = b.buf[q]
    BY <1>6, <1>9, <1>10, <1>11 DEF Bank, BufferAccount
  <2>. QED
    BY <2>1, <2>2, <2>3
<1>13. c.buf[B] # NoAccount
  BY <1>12, NoAccountIsNone
<1>. QED
  BY <1>2, <1>8, <1>11, <1>12, <1>13 DEF B

LEMMA DeployEffect ==
  ASSUME NEW b \in Bank, NEW r \in Runs, CanDeploy(r, b), NEW c, c = DoDeploy(r, b)
  PROVE  LET B == Cfg[r].buffer IN
         /\ c \in Bank
         /\ b.prog = NoAccount /\ c.prog # NoAccount /\ c.prog.by = r
         /\ b.buf[B] # NoAccount /\ c.buf[B] = NoAccount
         /\ Len(b.buf[B].data) <= MaxDataLen(r)
         /\ c.prog.data = Padded(b.buf[B].data, MaxDataLen(r))
         /\ Len(c.prog.data) = MaxDataLen(r)
         /\ \A q \in Runs \ {B} : c.buf[q] = b.buf[q]
<1>. DEFINE B == Cfg[r].buffer
            old == b.buf[B]
            image == Padded(old.data, MaxDataLen(r))
            payer == (b.payer - ProgramRent + old.lamports) - DataRent[MaxDataLen(r)]
            prog == [lamports |-> ProgramRent + DataRent[MaxDataLen(r)],
                     authority |-> Cfg[r].authority, data |-> image, by |-> r]
<1>1. /\ B \in Runs /\ MaxDataLen(r) \in Nat /\ DataRent[MaxDataLen(r)] \in Nat
      /\ ProgramRent \in Nat /\ Cfg[r].authority \in Authorities
  BY ConfigTypes
<1>2. /\ b.prog = NoAccount /\ old # NoAccount /\ Len(old.data) <= MaxDataLen(r)
      /\ b.payer >= ProgramRent
      /\ b.payer - ProgramRent + old.lamports >= DataRent[MaxDataLen(r)]
  BY DEF CanDeploy
<1>3. b.payer \in Nat /\ old.lamports \in Nat /\ old.data \in Seq(Byte)
  BY <1>1, <1>2, BankTypes
<1>4. payer \in Nat
  BY <1>1, <1>2, <1>3
<1>5. image \in Seq(Byte) /\ Len(image) = MaxDataLen(r)
  BY <1>1, <1>3, PaddedType
<1>. DEFINE d == [b EXCEPT !.payer = payer, !.buf[B] = NoAccount, !.prog = prog]
<1>6. c = d
  BY DEF DoDeploy
<1>7. prog \in ProgramAccount /\ prog.data = image /\ prog.by = r
  BY <1>1, <1>5 DEF ProgramAccount
<1>8. prog # NoAccount
  BY <1>7, NoAccountIsNone
<1>9. prog \in ProgramAccount /\ B \in Runs
  BY <1>1, <1>7
<1>. HIDE DEF payer, prog, B
<1>10. d \in Bank
  BY <1>4, <1>9 DEF Bank
<1>11. d.prog = prog /\ d.buf[B] = NoAccount /\ \A q \in Runs \ {B} : d.buf[q] = b.buf[q]
  BY <1>9 DEF Bank
<1>. QED
  BY <1>2, <1>5, <1>6, <1>7, <1>8, <1>10, <1>11 DEF B

LEMMA UpgradeEffect ==
  ASSUME NEW b \in Bank, NEW r \in Runs, CanUpgrade(r, b), NEW c, c = DoUpgrade(r, b)
  PROVE  LET B == Cfg[r].buffer IN
         /\ c \in Bank
         /\ b.prog # NoAccount /\ c.prog # NoAccount /\ c.prog.by = r
         /\ c.prog.authority = b.prog.authority
         /\ b.buf[B] # NoAccount /\ c.buf[B] = NoAccount
         /\ Len(b.buf[B].data) <= Len(b.prog.data)
         /\ c.prog.data = Padded(b.buf[B].data, Len(b.prog.data))
         /\ Len(c.prog.data) = Len(b.prog.data)
         /\ \A q \in Runs \ {B} : c.buf[q] = b.buf[q]
<1>. DEFINE B == Cfg[r].buffer
            old == b.buf[B]
            image == Padded(old.data, Len(b.prog.data))
            payer == b.payer + old.lamports
<1>1. B \in Runs
  BY ConfigTypes
<1>2. b.prog # NoAccount /\ old # NoAccount /\ Len(old.data) <= Len(b.prog.data)
  BY DEF CanUpgrade
<1>3. /\ b.payer \in Nat /\ old.lamports \in Nat /\ old.data \in Seq(Byte)
      /\ b.prog \in ProgramAccount /\ Len(b.prog.data) \in Nat
  BY <1>1, <1>2, BankTypes
<1>4. payer \in Nat
  BY <1>3
<1>5. image \in Seq(Byte) /\ Len(image) = Len(b.prog.data)
  BY <1>3, PaddedType
<1>. DEFINE d == [b EXCEPT !.payer = payer, !.buf[B] = NoAccount,
                          !.prog.data = image, !.prog.by = r]
<1>6. c = d
  BY DEF DoUpgrade
<1>7. B \in Runs /\ b.prog \in ProgramAccount /\ image \in Seq(Byte)
  BY <1>1, <1>3, <1>5
<1>. HIDE DEF payer, image, B
<1>8. d \in Bank
  BY <1>4, <1>7 DEF Bank, ProgramAccount
<1>9. d.buf[B] = NoAccount /\ \A q \in Runs \ {B} : d.buf[q] = b.buf[q]
  BY <1>7 DEF Bank
<1>10. /\ d.prog \in ProgramAccount /\ d.prog.data = image /\ d.prog.by = r
       /\ d.prog.authority = b.prog.authority
  BY <1>7 DEF Bank, ProgramAccount
<1>11. d.prog # NoAccount
  BY <1>10, NoAccountIsNone
<1>. HIDE DEF d
<1>. QED
  BY <1>2, <1>5, <1>6, <1>8, <1>9, <1>10, <1>11 DEF image, B

-----------------------------------------------------------------------------
(* What every transaction does, and what writes do to an image.            *)

\* Buffers hold what they were created with, and keep their authority and length.
Funded(b) ==
  \A q \in Runs : b.buf[q] # NoAccount =>
    /\ b.buf[q].lamports = CreateLamports(q)
    /\ b.buf[q].authority = Cfg[q].authority
    /\ Len(b.buf[q].data) = Len0(q)

\* The buffer of r is gone, or holds the artifact of r.
Clean(b, r) ==
  \/ b.buf[Cfg[r].buffer] = NoAccount
  \/ b.buf[Cfg[r].buffer].data = Image(r, Len0(r))

\* A program stays, with its authority and allocation.
Kept(prog, next) ==
  prog # NoAccount =>
    /\ next # NoAccount
    /\ next.authority = prog.authority
    /\ Len(next.data) = Len(prog.data)

LEMMA ExecCases ==
  ASSUME NEW tx \in Tx, NEW b
  PROVE  /\ tx.run \in Runs /\ tx.step \in Step /\ tx.step.offset \in Nat
         /\ tx.step.op \in {"create", "write", "final"}
         /\ tx.step.op = "create" =>
              /\ CanExec(tx, b) = CanCreate(tx.run, b)
              /\ DoExec(tx, b) = DoCreate(tx.run, b)
         /\ tx.step.op = "write" =>
              /\ CanExec(tx, b) = CanWrite(tx.run, tx.step.offset, b)
              /\ DoExec(tx, b) = DoWrite(tx.run, tx.step.offset, b)
         /\ tx.step.op = "final" /\ Cfg[tx.run].kind # "upgrade" =>
              /\ CanExec(tx, b) = CanDeploy(tx.run, b)
              /\ DoExec(tx, b) = DoDeploy(tx.run, b)
         /\ tx.step.op = "final" /\ Cfg[tx.run].kind = "upgrade" =>
              /\ CanExec(tx, b) = CanUpgrade(tx.run, b)
              /\ DoExec(tx, b) = DoUpgrade(tx.run, b)
<1>1. tx.run \in Runs /\ tx.step \in Step
  BY DEF Tx
<1>2. tx.step.offset \in Nat /\ tx.step.op \in {"create", "write", "final"}
  BY <1>1, LoaderAssumption DEF Step
<1>. QED
  BY <1>1, <1>2 DEF CanExec, DoExec

\* A property of what a transaction did, by cases on the transaction.
LEMMA ExecEffect ==
  ASSUME NEW b \in Bank, NEW tx \in Tx, CanExec(tx, b), NEW c, c = DoExec(tx, b)
  PROVE  /\ c \in Bank
         /\ Kept(b.prog, c.prog)
         /\ \/ c.prog = b.prog
            \/ /\ tx.step.op = "final" /\ c.prog # NoAccount /\ c.prog.by = tx.run
               /\ b.prog # NoAccount => Cfg[tx.run].kind = "upgrade"
         /\ \A q \in Runs : c.buf[q] # NoAccount =>
              \/ b.buf[q] # NoAccount
              \/ tx.step.op = "create" /\ q = tx.run
         /\ Funded(b) => Funded(c)
         /\ tx.step.op = "write" =>
              /\ c.payer = b.payer
              /\ \A q \in Runs : b.buf[q] # NoAccount => c.buf[q] # NoAccount
         /\ tx.step.op = "create" =>
              /\ b.payer >= CreateLamports(tx.run)
              /\ c.payer = b.payer - CreateLamports(tx.run)
              /\ b.buf[tx.run] = NoAccount
              /\ c.buf[tx.run] # NoAccount
<1>. DEFINE r == tx.run
<1>1. r \in Runs /\ tx.step.offset \in Nat /\ tx.step.op \in {"create", "write", "final"}
  BY ExecCases
<1>2. CASE tx.step.op = "create"
  <2>1. CanCreate(r, b) /\ c = DoCreate(r, b)
    BY <1>2, ExecCases
  <2>2. /\ c \in Bank /\ c.prog = b.prog
        /\ b.payer >= CreateLamports(r) /\ c.payer = b.payer - CreateLamports(r)
        /\ b.buf[r] = NoAccount /\ c.buf[r] # NoAccount
        /\ c.buf[r].lamports = CreateLamports(r)
        /\ c.buf[r].authority = Cfg[r].authority /\ Len(c.buf[r].data) = Len0(r)
        /\ \A q \in Runs \ {r} : c.buf[q] = b.buf[q]
    BY <1>1, <2>1, CreateEffect
  <2>. QED
    BY <1>1, <1>2, <2>2 DEF Kept, Funded
<1>3. CASE tx.step.op = "write"
  <2>. DEFINE B == Cfg[r].buffer
  <2>1. CanWrite(r, tx.step.offset, b) /\ c = DoWrite(r, tx.step.offset, b)
    BY <1>3, ExecCases
  <2>2. /\ c \in Bank /\ c.prog = b.prog /\ c.payer = b.payer
        /\ b.buf[B] # NoAccount /\ c.buf[B] # NoAccount
        /\ c.buf[B].lamports = b.buf[B].lamports
        /\ c.buf[B].authority = b.buf[B].authority
        /\ Len(c.buf[B].data) = Len(b.buf[B].data)
        /\ \A q \in Runs \ {B} : c.buf[q] = b.buf[q]
    BY <1>1, <2>1, WriteEffect DEF Overwritten
  <2>. QED
    BY <1>1, <1>3, <2>2 DEF Kept, Funded
<1>4. CASE tx.step.op = "final" /\ Cfg[r].kind # "upgrade"
  <2>. DEFINE B == Cfg[r].buffer
  <2>1. CanDeploy(r, b) /\ c = DoDeploy(r, b)
    BY <1>4, ExecCases
  <2>2. /\ c \in Bank
        /\ b.prog = NoAccount /\ c.prog # NoAccount /\ c.prog.by = r
        /\ c.buf[B] = NoAccount
        /\ \A q \in Runs \ {B} : c.buf[q] = b.buf[q]
    BY <1>1, <2>1, DeployEffect
  <2>. QED
    BY <1>1, <1>4, <2>2 DEF Kept, Funded
<1>5. CASE tx.step.op = "final" /\ Cfg[r].kind = "upgrade"
  <2>. DEFINE B == Cfg[r].buffer
  <2>1. CanUpgrade(r, b) /\ c = DoUpgrade(r, b)
    BY <1>5, ExecCases
  <2>2. /\ c \in Bank
        /\ b.prog # NoAccount /\ c.prog # NoAccount /\ c.prog.by = r
        /\ c.prog.authority = b.prog.authority
        /\ Len(c.prog.data) = Len(b.prog.data)
        /\ c.buf[B] = NoAccount
        /\ \A q \in Runs \ {B} : c.buf[q] = b.buf[q]
    BY <1>1, <2>1, UpgradeEffect
  <2>. QED
    BY <1>1, <1>5, <2>2 DEF Kept, Funded
<1>. QED
  BY <1>1, <1>2, <1>3, <1>4, <1>5

\* Writes of the same artifact leave the whole artifact whole.
LEMMA ExecClean ==
  ASSUME NEW b \in Bank, NEW tx \in Tx, CanExec(tx, b), NEW c, c = DoExec(tx, b),
         NEW r \in Runs, Clean(b, r),
         tx.step.op = "create" => tx.run # Cfg[r].buffer,
         Cfg[tx.run].buffer = Cfg[r].buffer => Elf(tx.run) = Elf(r)
  PROVE  Clean(c, r)
<1>. DEFINE q == tx.run
            B == Cfg[r].buffer
            image == Image(r, Len0(r))
<1>1. /\ q \in Runs /\ B \in Runs /\ Cfg[q].buffer \in Runs /\ tx.step.offset \in Nat
      /\ tx.step.op \in {"create", "write", "final"}
  BY ExecCases, ConfigTypes
<1>2. CASE b.buf[B] = NoAccount
  <2>1. c.buf[B] # NoAccount => tx.step.op = "create" /\ B = tx.run
    BY <1>1, <1>2, ExecEffect
  <2>. QED
    BY <2>1 DEF Clean
<1>3. CASE b.buf[B] # NoAccount /\ tx.step.op = "write" /\ Cfg[q].buffer = B
  <2>1. CanWrite(q, tx.step.offset, b) /\ c = DoWrite(q, tx.step.offset, b)
    BY <1>3, ExecCases
  <2>2. Overwritten(b.buf[B].data, c.buf[B].data, q)
    BY <1>1, <1>3, <2>1, WriteEffect
  <2>3. Elf(q) = Elf(r) /\ Len0(q) = Len0(r)
    BY <1>1, <1>3, SameImage
  <2>4. b.buf[B].data = image
    BY <1>3 DEF Clean
  <2>5. /\ image \in Seq(Byte) /\ Len(image) = Len0(r)
        /\ \A i \in 1..Len0(r) : image[i] = IF i <= Len0(r) THEN Elf(r) ELSE Zero
    BY ImageType, ConfigTypes
  <2>. HIDE DEF image
  <2>6. \A i \in 1..Len(image) : c.buf[B].data[i] = image[i]
    BY <2>2, <2>3, <2>4, <2>5 DEF Overwritten
  <2>7. c.buf[B].data = image
    BY <2>2, <2>4, <2>5, <2>6, SeqEqual DEF Overwritten
  <2>. QED
    BY <2>7 DEF Clean, image
<1>4. CASE b.buf[B] # NoAccount /\ ~(tx.step.op = "write" /\ Cfg[q].buffer = B)
  <2>1. c.buf[B] = NoAccount \/ c.buf[B] = b.buf[B]
    <3>1. CASE tx.step.op = "create"
      <4>1. CanCreate(q, b) /\ c = DoCreate(q, b)
        BY <3>1, ExecCases
      <4>. QED
        BY <1>1, <3>1, <4>1, CreateEffect
    <3>2. CASE tx.step.op = "write"
      <4>1. CanWrite(q, tx.step.offset, b) /\ c = DoWrite(q, tx.step.offset, b)
        BY <3>2, ExecCases
      <4>2. \A p \in Runs \ {Cfg[q].buffer} : c.buf[p] = b.buf[p]
        BY <1>1, <4>1, WriteEffect
      <4>. QED
        BY <1>1, <1>4, <3>2, <4>2
    <3>3. CASE tx.step.op = "final" /\ Cfg[q].kind # "upgrade"
      <4>1. CanDeploy(q, b) /\ c = DoDeploy(q, b)
        BY <3>3, ExecCases
      <4>. QED
        BY <1>1, <4>1, DeployEffect
    <3>4. CASE tx.step.op = "final" /\ Cfg[q].kind = "upgrade"
      <4>1. CanUpgrade(q, b) /\ c = DoUpgrade(q, b)
        BY <3>4, ExecCases
      <4>. QED
        BY <1>1, <4>1, UpgradeEffect
    <3>. QED
      BY <1>1, <3>1, <3>2, <3>3, <3>4
  <2>. QED
    BY <1>4, <2>1 DEF Clean
<1>. QED
  BY <1>2, <1>3, <1>4

\* What the final transaction installs from a whole artifact is the artifact.
LEMMA ExecInstalls ==
  ASSUME NEW b \in Bank, NEW tx \in Tx, CanExec(tx, b), NEW c, c = DoExec(tx, b),
         tx.step.op = "final", Clean(b, tx.run)
  PROVE  c.prog.data = Image(tx.run, Len(c.prog.data))
<1>. DEFINE r == tx.run
            B == Cfg[r].buffer
            n == Len(c.prog.data)
<1>1. r \in Runs
  BY ExecCases
<1>2. /\ n \in Nat /\ b.buf[B] # NoAccount
      /\ Len(b.buf[B].data) <= n /\ c.prog.data = Padded(b.buf[B].data, n)
  <2>1. CASE Cfg[r].kind # "upgrade"
    <3>1. CanDeploy(r, b) /\ c = DoDeploy(r, b)
      BY <2>1, ExecCases
    <3>2. /\ b.buf[B] # NoAccount /\ Len(b.buf[B].data) <= MaxDataLen(r)
          /\ c.prog.data = Padded(b.buf[B].data, MaxDataLen(r)) /\ n = MaxDataLen(r)
      BY <1>1, <3>1, DeployEffect
    <3>. QED
      BY <1>1, <3>2, ConfigTypes
  <2>2. CASE Cfg[r].kind = "upgrade"
    <3>1. CanUpgrade(r, b) /\ c = DoUpgrade(r, b)
      BY <2>2, ExecCases
    <3>2. /\ b.buf[B] # NoAccount /\ Len(b.buf[B].data) <= Len(b.prog.data)
          /\ b.prog # NoAccount
          /\ c.prog.data = Padded(b.buf[B].data, Len(b.prog.data)) /\ n = Len(b.prog.data)
      BY <1>1, <3>1, UpgradeEffect
    <3>. QED
      BY <1>1, <3>2, BankTypes
  <2>. QED
    BY <2>1, <2>2
<1>3. b.buf[B].data = Image(r, Len0(r))
  BY <1>2 DEF Clean
<1>4. n >= Len0(r)
  BY <1>1, <1>2, <1>3, ImageType, ConfigTypes
<1>. QED
  BY <1>1, <1>2, <1>3, <1>4, PaddedImage

-----------------------------------------------------------------------------
(* The inductive invariant.  What a run has handed over follows its plan:  *)
(* create, the writes by offset, final.                                    *)

Rank(s) ==
  IF s.op = "create" THEN 0 ELSE IF s.op = "write" THEN s.offset + 1 ELSE MaxLen + 2

Plain(s) ==
  /\ s.op = "create" => s = CreateStep
  /\ s.op = "final" => s = FinalStep

Early == {"uncalled", "prepare", "inspectBuffer", "inspectProgramData", "balance"}
Verifying == {"verifyProgram", "verifyProgramData"}
Waiting == {"wait", "checkpoint", "readback"}

\* A run at p, with transaction a, that has handed over s.
Follows(r, p, a, s) ==
  /\ p \in Early => s = <<>> /\ a.op # "final"
  /\ p \in Waiting \cup Verifying => s # <<>>
  /\ p = "inspectBuffer" => Cfg[r].kind = "resume"
  /\ p = "inspectProgramData" => Cfg[r].kind = "upgrade"
  /\ p \in {"checkpoint", "readback"} => a.op = "write"
  /\ p \in Verifying => a.op = "final"
  /\ Plain(a)
  /\ a.op = "create" => Cfg[r].kind # "resume"
  /\ \A i \in 1..Len(s) :
       /\ Plain(s[i])
       /\ s[i].op = "create" => Cfg[r].kind # "resume"
       /\ Rank(s[i]) <= Rank(a)
       /\ p = "submit" => Rank(s[i]) < Rank(a)
  /\ \A i, j \in 1..Len(s) : i < j => Rank(s[i]) < Rank(s[j])

\* The record of a live process is what it handed over.
Records(p, a, s, submitted) ==
  p # "crashed" => s = submitted \o (IF p = "wait" THEN <<a>> ELSE <<>>)

Script ==
  \A r \in Runs :
    /\ Follows(r, pc[r], at[r], sent[r])
    /\ Records(pc[r], at[r], sent[r], result[r].submitted)

(* The ledger is a chain of executions, each of a transaction that its run *)
(* handed over, none of them twice.                                        *)

BankAt(i) == IF i = 0 THEN rooted ELSE fork[i].bank

Executed(entry, before) ==
  IF entry.ok
  THEN CanExec(entry.tx, before) /\ entry.bank = DoExec(entry.tx, before)
  ELSE entry.bank = before

Chained == \A i \in 1..Len(fork) : Executed(fork[i], BankAt(i - 1))

Sent(tx) == \E i \in 1..Len(sent[tx.run]) : sent[tx.run][i] = tx.step

HandedOver ==
  /\ \A tx \in pool : Sent(tx)
  /\ \A i \in 1..Len(fork) : Sent(fork[i].tx)
  /\ \A f \in final : Sent(f.tx)

Once ==
  /\ \A i \in 1..Len(fork) : fork[i].tx \notin pool
  /\ \A i, j \in 1..Len(fork) : i # j => fork[i].tx # fork[j].tx
  /\ \A f \in final : f.tx \notin pool /\ \A i \in 1..Len(fork) : fork[i].tx # f.tx

CreateTx(q) == [run |-> q, step |-> CreateStep]
FinalTx(q) == [run |-> q, step |-> FinalStep]

\* Buffer q was created, and is not created after the i-th entry.
NotAgain(q, i) ==
  /\ Sent(CreateTx(q))
  /\ CreateTx(q) \notin pool
  /\ \A j \in 1..Len(fork) : i < j => fork[j].tx # CreateTx(q)

CreatedOnce ==
  \A i \in 0..Len(fork), q \in Runs : BankAt(i).buf[q] # NoAccount => NotAgain(q, i)

LInv == Chained /\ HandedOver /\ Once /\ CreatedOnce /\ \A b \in Banks : Funded(b)

(* Once whole, a buffer stays whole until it is gone for good.             *)

WholeAt(b, r) ==
  /\ b.buf[Cfg[r].buffer] # NoAccount
  /\ b.buf[Cfg[r].buffer].data = Image(r, Len0(r))

StaysWhole ==
  \A r \in Runs : SameArtifact(r) =>
    \A i, j \in 0..Len(fork) : i <= j /\ WholeAt(BankAt(i), r) => Clean(BankAt(j), r)

Armed ==
  \A r \in Runs : at[r] = FinalStep =>
    /\ NotAgain(Cfg[r].buffer, 0)
    /\ SameArtifact(r) => \A b \in Banks : Clean(b, r)

WInv == StaysWhole /\ Armed /\ DeployedIntact

(* What the runs know about the finalized bank.                            *)

Verified ==
  \A r \in Runs : pc[r] \in Verifying => Finalized(FinalTx(r))

SignedFinal ==
  \A r \in Runs : \A i \in 1..Len(result[r].signatures) :
    result[r].signatures[i].op # "write" =>
      Finalized([run |-> r, step |-> result[r].signatures[i]])

CheckedUpgrade ==
  \A r \in Runs :
    Cfg[r].kind = "upgrade" /\ (sent[r] # <<>> \/ pc[r] \in {"balance", "submit"}) =>
      CanBeUpgradedBy(r, rooted.prog)

\* What a run still needs of the payer, and from when it has it.
Ask(r) ==
  IF Cfg[r].kind = "program"
  THEN DataRent[MaxDataLen(r)] + ProgramRent
  ELSE LET has == CreateLamports(Cfg[r].buffer) IN
       ProgramRent + (IF has < DataRent[MaxDataLen(r)] THEN DataRent[MaxDataLen(r)] - has ELSE 0)

Covered(r) ==
  IF Cfg[r].kind = "program" /\ rooted.buf[r] # NoAccount
  THEN rooted.payer >= ProgramRent
  ELSE rooted.payer >= Ask(r)

Budgeted ==
  \A r \in Runs : Cfg[r].kind # "upgrade" =>
    /\ pc[r] = "balance" => need[r] = Ask(r)
    /\ Cfg[r].kind = "resume" /\ pc[r] \in {"balance", "submit"} \cup Waiting =>
         NotAgain(Cfg[r].buffer, 0)
    /\ pc[r] \in {"submit"} \cup Waiting /\ ~Sent(FinalTx(r)) /\ SpendsAlone(r) =>
         Covered(r)

-----------------------------------------------------------------------------
(* Each step of a run keeps to its plan, and changes nothing of another.   *)

ClientType ==
  /\ pc \in [Runs -> Active \cup Ended]
  /\ at \in [Runs -> Step]
  /\ need \in [Runs -> Nat]
  /\ result \in [Runs -> Result]
  /\ sent \in [Runs -> Seq(Step)]

OthersWait(r) ==
  \A q \in Runs \ {r} :
    /\ pc'[q] = pc[q] /\ at'[q] = at[q] /\ need'[q] = need[q]
    /\ result'[q] = result[q] /\ sent'[q] = sent[q]

\* r hands over its transaction, or nothing.
Submission(r) ==
  \/ sent' = sent /\ pool' = pool
  \/ /\ pc[r] = "submit" /\ at' = at /\ sent'[r] = Append(sent[r], at[r])
     /\ pool' = pool \/ pool' = pool \cup {TxOf(r)}

RunScript(r) ==
  /\ Follows(r, pc[r], at[r], sent[r])
  /\ Records(pc[r], at[r], sent[r], result[r].submitted)

Moved(r) ==
  /\ ClientType' /\ OthersWait(r) /\ Submission(r) /\ RunScript(r)'
  /\ pc[r] \in Active /\ pc'[r] # "uncalled"
  /\ UNCHANGED <<fork, voted, rooted, final>>

LEMMA Steps ==
  /\ CreateStep \in Step /\ FinalStep \in Step
  /\ \A o \in 0..MaxLen : WriteStep(o) \in Step /\ Rank(WriteStep(o)) = o + 1
  /\ Rank(CreateStep) = 0 /\ Rank(FinalStep) = MaxLen + 2
  /\ CreateStep # FinalStep
  /\ \A s \in Step :
       /\ s.op \in {"create", "write", "final"} /\ s.offset \in 0..MaxLen
       /\ Rank(s) \in 0..(MaxLen + 2)
       /\ s.op = "create" => Rank(s) = 0
       /\ s.op = "write" => Rank(s) = s.offset + 1
       /\ s.op = "final" => Rank(s) = MaxLen + 2
<1>1. MaxLen \in Nat
  BY LoaderAssumption
<1>. QED
  BY <1>1 DEF Step, CreateStep, FinalStep, WriteStep, Rank

\* A run that only moves on, with nothing new handed over or recorded.
LEMMA MovesOn ==
  ASSUME ClientType, NEW r \in Runs, RunScript(r), pc[r] \in Active,
         NEW label \in Active \cup Ended, label # "uncalled", label # "wait", pc[r] # "wait",
         pc' = [pc EXCEPT ![r] = label],
         UNCHANGED <<at, sent, result>>, need' \in [Runs -> Nat],
         \A q \in Runs \ {r} : need'[q] = need[q],
         UNCHANGED clusterVars,
         Follows(r, label, at[r], sent[r])
  PROVE  Moved(r)
<1>1. pc'[r] = label /\ \A q \in Runs \ {r} : pc'[q] = pc[q]
  BY DEF ClientType
<1>2. ClientType'
  BY DEF ClientType
<1>3. OthersWait(r)
  BY <1>1 DEF OthersWait
<1>4. RunScript(r)'
  <2>1. Follows(r, pc'[r], at'[r], sent'[r])
    BY <1>1
  <2>2. pc'[r] # "crashed" => sent[r] = result[r].submitted \o <<>>
    <3>1. CASE pc[r] = "crashed"
      BY <3>1 DEF Active
    <3>2. CASE pc[r] # "crashed"
      BY <3>2 DEF RunScript, Records
    <3>. QED
      BY <3>1, <3>2
  <2>3. Records(pc'[r], at'[r], sent'[r], result'[r].submitted)
    BY <1>1, <2>2 DEF Records
  <2>. QED
    BY <2>1, <2>3 DEF RunScript
<1>. QED
  BY <1>1, <1>2, <1>3, <1>4 DEF Moved, Submission, clusterVars


LEMMA RentTypes ==
  ASSUME NEW r \in Runs, NEW buffer \in BufferAccount
  PROVE  ResumeNeed(r, buffer) \in Nat
  BY ConfigTypes DEF BufferAccount, ResumeNeed

LEMMA PrepareMoves ==
  ASSUME TypeOK, NEW r \in Runs, RunScript(r), Prepare(r)
  PROVE  Moved(r)
<1>1. /\ ClientType /\ pc[r] = "prepare" /\ pc[r] \in Active
      /\ UNCHANGED <<at, sent, result>> /\ UNCHANGED clusterVars
  BY DEF TypeOK, ClientType, Prepare, Active
<1>2. Follows(r, "failed", at[r], sent[r]) /\ Follows(r, "balance", at[r], sent[r])
  BY <1>1 DEF RunScript, Follows, Early, Verifying, Waiting
<1>3. \E label \in {"failed", "balance", "inspectBuffer", "inspectProgramData"} :
        /\ pc' = [pc EXCEPT ![r] = label]
        /\ label = "inspectBuffer" => Cfg[r].kind = "resume"
        /\ label = "inspectProgramData" => Cfg[r].kind = "upgrade"
  BY ConfigTypes DEF Prepare, Goto, Kinds
<1>4. \E lamports \in Nat : need' = need \/ need' = [need EXCEPT ![r] = lamports]
  <2>1. BufferRent[Len0(r)] \in Nat /\ DataRent[MaxDataLen(r)] + ProgramRent \in Nat
    BY ConfigTypes
  <2>2. Cfg[r].kind \in Kinds
    BY ConfigTypes
  <2>3. \/ need' = need \/ need' = [need EXCEPT ![r] = BufferRent[Len0(r)]]
        \/ need' = [need EXCEPT ![r] = DataRent[MaxDataLen(r)] + ProgramRent]
    BY <2>2 DEF Prepare, Kinds
  <2>. QED
    BY <2>1, <2>3
<1>5. need' \in [Runs -> Nat] /\ \A q \in Runs \ {r} : need'[q] = need[q]
  BY <1>1, <1>4 DEF ClientType
<1>6. PICK label \in {"failed", "balance", "inspectBuffer", "inspectProgramData"} :
        /\ pc' = [pc EXCEPT ![r] = label]
        /\ label = "inspectBuffer" => Cfg[r].kind = "resume"
        /\ label = "inspectProgramData" => Cfg[r].kind = "upgrade"
  BY <1>3
<1>7. Follows(r, label, at[r], sent[r])
  BY <1>1, <1>6 DEF RunScript, Follows, Early, Verifying, Waiting
<1>8. label \in Active \cup Ended /\ label # "uncalled" /\ label # "wait" /\ pc[r] # "wait"
  BY <1>1 DEF Active, Ended
<1>. QED
  BY <1>1, <1>5, <1>6, <1>7, <1>8, MovesOn

LEMMA InspectMoves ==
  ASSUME TypeOK, NEW r \in Runs, RunScript(r),
         InspectBuffer(r) \/ InspectProgramData(r) \/ CheckBalance(r)
  PROVE  Moved(r)
<1>1. /\ ClientType /\ pc[r] \in {"inspectBuffer", "inspectProgramData", "balance"}
      /\ pc[r] \in Active
      /\ UNCHANGED <<at, sent, result>> /\ UNCHANGED clusterVars
  BY DEF TypeOK, ClientType, InspectBuffer, InspectProgramData, CheckBalance, Active
<1>2. PICK label \in {"failed", "balance", "submit"} : pc' = [pc EXCEPT ![r] = label]
  BY DEF InspectBuffer, InspectProgramData, CheckBalance, Goto
<1>3. need' \in [Runs -> Nat] /\ \A q \in Runs \ {r} : need'[q] = need[q]
  <2>1. CASE need' = need
    BY <1>1, <2>1 DEF ClientType
  <2>2. CASE need' # need
    <3>. DEFINE buffer == rooted.buf[Cfg[r].buffer]
    <3>1. buffer # NoAccount /\ need' = [need EXCEPT ![r] = ResumeNeed(r, buffer)]
      BY <2>2 DEF InspectBuffer, InspectProgramData, CheckBalance, ValidBuffer
    <3>2. buffer \in BufferAccount
      BY <3>1, ConfigTypes, BankTypes DEF TypeOK
    <3>. QED
      BY <1>1, <3>1, <3>2, RentTypes DEF ClientType
  <2>. QED
    BY <2>1, <2>2
<1>4. Follows(r, label, at[r], sent[r])
  BY <1>1 DEF RunScript, Follows, Early, Verifying, Waiting
<1>5. label \in Active \cup Ended /\ label # "uncalled" /\ label # "wait" /\ pc[r] # "wait"
  BY <1>1 DEF Active, Ended
<1>. QED
  BY <1>1, <1>2, <1>3, <1>4, <1>5, MovesOn

\* The waits that record nothing, and the verification.
LEMMA WaitMoves ==
  ASSUME TypeOK, NEW r \in Runs, RunScript(r), Checkpoint(r) \/ VerifyProgram(r)
  PROVE  Moved(r)
<1>1. /\ ClientType /\ pc[r] \in {"checkpoint", "verifyProgram"} /\ pc[r] \in Active
      /\ UNCHANGED <<at, need, sent, result>> /\ UNCHANGED clusterVars
  BY DEF TypeOK, ClientType, Checkpoint, VerifyProgram, Active
<1>2. PICK label \in {"failed", "readback", "verifyProgramData"} :
        /\ pc' = [pc EXCEPT ![r] = label]
        /\ label = "readback" => pc[r] = "checkpoint"
        /\ label = "verifyProgramData" => pc[r] = "verifyProgram"
  BY DEF Checkpoint, VerifyProgram, Goto
<1>3. need' \in [Runs -> Nat] /\ \A q \in Runs \ {r} : need'[q] = need[q]
  BY <1>1 DEF ClientType
<1>4. Follows(r, label, at[r], sent[r])
  BY <1>1, <1>2 DEF RunScript, Follows, Early, Verifying, Waiting
<1>5. label \in Active \cup Ended /\ label # "uncalled" /\ label # "wait" /\ pc[r] # "wait"
  BY <1>1 DEF Active, Ended
<1>. QED
  BY <1>1, <1>2, <1>3, <1>4, <1>5, MovesOn

\* A run that records or hands over something.
LEMMA MovesWith ==
  ASSUME ClientType, NEW r \in Runs, pc[r] \in Active, UNCHANGED need,
         NEW label \in Active \cup Ended, label # "uncalled",
         NEW a \in Step, NEW s \in Seq(Step), NEW res \in Result,
         pc' = [pc EXCEPT ![r] = label],
         (at' = at /\ a = at[r]) \/ at' = [at EXCEPT ![r] = a],
         (sent' = sent /\ s = sent[r]) \/ sent' = [sent EXCEPT ![r] = s],
         (result' = result /\ res = result[r]) \/ result' = [result EXCEPT ![r] = res],
         Follows(r, label, a, s), Records(label, a, s, res.submitted), Submission(r),
         UNCHANGED <<fork, voted, rooted, final>>
  PROVE  Moved(r)
<1>1. pc'[r] = label /\ at'[r] = a /\ sent'[r] = s /\ result'[r] = res
  BY DEF ClientType
<1>2. ClientType'
  BY DEF ClientType
<1>3. OthersWait(r)
  BY DEF ClientType, OthersWait
<1>4. RunScript(r)'
  BY <1>1 DEF RunScript
<1>. QED
  BY <1>1, <1>2, <1>3, <1>4 DEF Moved

LEMMA ResultTypes ==
  ASSUME ClientType, NEW r \in Runs
  PROVE  /\ result[r] \in Result
         /\ result[r].submitted \in Seq(Step) /\ result[r].signatures \in Seq(Step)
         /\ at[r] \in Step /\ sent[r] \in Seq(Step) /\ need[r] \in Nat
         /\ Recorded(r) \in Seq(Step) /\ NoResult \in Result
  BY DEF ClientType, Result, NoResult, Recorded

\* The transaction a run is about to submit comes after those it handed over.
LEMMA SubmitFollows ==
  ASSUME ClientType, NEW r \in Runs, RunScript(r), pc[r] = "submit",
         NEW label \in {"wait", "failed"}
  PROVE  Follows(r, label, at[r], Append(sent[r], at[r]))
<1>. DEFINE s == sent[r]
            a == at[r]
            t == Append(s, a)
<1>1. a \in Step /\ s \in Seq(Step) /\ Len(s) \in Nat
  BY ResultTypes
<1>2. Follows(r, "submit", a, s)
  BY DEF RunScript
<1>3. /\ t \in Seq(Step) /\ t # <<>> /\ Len(t) = Len(s) + 1
      /\ \A i \in 1..Len(s) : t[i] = s[i]
      /\ t[Len(s) + 1] = a
  BY <1>1, AppendProperties
<1>. HIDE DEF s, a, t
<1>4. Rank(a) \in Nat /\ \A i \in 1..Len(s) : Rank(s[i]) < Rank(a)
  BY <1>1, <1>2, Steps DEF Follows
<1>5. Plain(a) /\ (a.op = "create" => Cfg[r].kind # "resume")
  BY <1>2 DEF Follows
<1>6. \A i \in 1..Len(t) :
        Plain(t[i]) /\ (t[i].op = "create" => Cfg[r].kind # "resume") /\ Rank(t[i]) <= Rank(a)
  <2>. TAKE i \in 1..Len(t)
  <2>1. i \in 1..Len(s) \/ i = Len(s) + 1
    BY <1>1, <1>3
  <2>2. CASE i \in 1..Len(s)
    BY <1>2, <1>3, <2>2 DEF Follows
  <2>3. CASE i = Len(s) + 1
    BY <1>3, <1>4, <1>5, <2>3
  <2>. QED
    BY <2>1, <2>2, <2>3
<1>7. \A i, j \in 1..Len(t) : i < j => Rank(t[i]) < Rank(t[j])
  <2>. SUFFICES ASSUME NEW i \in 1..Len(t), NEW j \in 1..Len(t), i < j
                PROVE  Rank(t[i]) < Rank(t[j])
    OBVIOUS
  <2>1. i \in 1..Len(s) /\ (j \in 1..Len(s) \/ j = Len(s) + 1)
    BY <1>1, <1>3
  <2>2. CASE j \in 1..Len(s)
    BY <1>2, <1>3, <2>1, <2>2 DEF Follows
  <2>3. CASE j = Len(s) + 1
    BY <1>3, <1>4, <2>1, <2>3
  <2>. QED
    BY <2>1, <2>2, <2>3
<1>8. Follows(r, label, a, t)
  BY <1>3, <1>5, <1>6, <1>7 DEF Follows, Early, Waiting, Verifying
<1>. QED
  BY <1>8 DEF a, t, s

LEMMA SubmitMoves ==
  ASSUME TypeOK, NEW r \in Runs, RunScript(r),
         Submit(r) \/ \E delivered \in BOOLEAN : SubmitAmbiguous(r, delivered)
  PROVE  Moved(r)
<1>. DEFINE t == Append(sent[r], at[r])
<1>1. ClientType /\ pc[r] = "submit" /\ pc[r] \in Active /\ UNCHANGED <<need, at>>
  BY DEF TypeOK, ClientType, Submit, SubmitAmbiguous, Active
<1>2. /\ sent' = [sent EXCEPT ![r] = t] /\ UNCHANGED <<fork, voted, rooted, final>>
      /\ pool' = pool \/ pool' = pool \cup {TxOf(r)}
  BY DEF Submit, SubmitAmbiguous
<1>3. sent[r] = result[r].submitted \o <<>>
  BY <1>1 DEF RunScript, Records
<1>4. /\ result[r] \in Result /\ result[r].submitted \in Seq(Step)
      /\ at[r] \in Step /\ sent[r] \in Seq(Step)
  BY <1>1, ResultTypes
<1>5. sent[r] = result[r].submitted /\ t = sent[r] \o <<at[r]>> /\ t \in Seq(Step)
  BY <1>3, <1>4, ConcatEmptySeq, AppendIsConcat, AppendProperties
<1>6. Submission(r)
  BY <1>1, <1>2 DEF Submission, ClientType
<1>7. CASE Submit(r)
  <2>1. pc' = [pc EXCEPT ![r] = "wait"] /\ result' = result
    BY <1>7 DEF Submit, Goto
  <2>2. Follows(r, "wait", at[r], t)
    BY <1>1, SubmitFollows
  <2>3. Records("wait", at[r], t, result[r].submitted)
    BY <1>5 DEF Records
  <2>4. "wait" \in Active
    BY DEF Active
  <2>. HIDE DEF t
  <2>. QED
    BY <1>1, <1>2, <1>4, <1>5, <1>6, <2>1, <2>2, <2>3, <2>4, MovesWith
<1>8. CASE \E delivered \in BOOLEAN : SubmitAmbiguous(r, delivered)
  <2>. DEFINE res == [result[r] EXCEPT !.submitted = t]
  <2>1. pc' = [pc EXCEPT ![r] = "failed"] /\ result' = [result EXCEPT ![r].submitted = Recorded(r)]
    BY <1>8 DEF SubmitAmbiguous, Goto
  <2>2. Recorded(r) = t
    BY <1>5 DEF Recorded
  <2>3. result' = [result EXCEPT ![r] = res]
    BY <2>1, <2>2
  <2>4. Follows(r, "failed", at[r], t)
    BY <1>1, SubmitFollows
  <2>5. res \in Result /\ res.submitted = t
    BY <1>4, <1>5 DEF Result
  <2>6. Records("failed", at[r], t, res.submitted)
    BY <1>5, <2>5, ConcatEmptySeq DEF Records
  <2>7. "failed" \in Ended
    BY DEF Ended
  <2>. HIDE DEF t, res
  <2>. QED
    BY <1>1, <1>2, <1>4, <1>5, <1>6, <2>1, <2>3, <2>4, <2>5, <2>6, <2>7, MovesWith
<1>. QED
  BY <1>7, <1>8

\* The record after a wait is what was handed over.
LEMMA RecordedIsSent ==
  ASSUME ClientType, NEW r \in Runs, RunScript(r), pc[r] = "wait"
  PROVE  Recorded(r) = sent[r]
  BY ResultTypes, AppendIsConcat DEF RunScript, Records, Recorded

\* Where the plan goes on to does not come before what was handed over.
LEMMA PlanGoesOn ==
  ASSUME ClientType, NEW r \in Runs, RunScript(r),
         NEW label, NEW a \in Step, Plain(a),
         Rank(at[r]) <= Rank(a), label = "submit" => Rank(at[r]) < Rank(a),
         a.op = "create" => Cfg[r].kind # "resume",
         label \notin Early,
         label \in Waiting \cup Verifying => sent[r] # <<>>,
         label \in {"checkpoint", "readback"} => a.op = "write",
         label \in Verifying => a.op = "final"
  PROVE  Follows(r, label, a, sent[r])
<1>. DEFINE s == sent[r]
<1>1. at[r] \in Step /\ s \in Seq(Step)
  BY ResultTypes
<1>2. Follows(r, pc[r], at[r], s)
  BY DEF RunScript
<1>3. Rank(at[r]) \in Nat /\ Rank(a) \in Nat
  BY <1>1, Steps
<1>4. \A i \in 1..Len(s) : Rank(s[i]) \in Nat
  BY <1>1, Steps, ElementOfSeq
<1>. HIDE DEF s
<1>5. \A i \in 1..Len(s) :
        /\ Plain(s[i])
        /\ s[i].op = "create" => Cfg[r].kind # "resume"
        /\ Rank(s[i]) <= Rank(a)
        /\ label = "submit" => Rank(s[i]) < Rank(a)
  BY <1>2, <1>3, <1>4 DEF Follows
<1>6. label = "inspectBuffer" \/ label = "inspectProgramData" => FALSE
  BY DEF Early
<1>7. \A i, j \in 1..Len(s) : i < j => Rank(s[i]) < Rank(s[j])
  BY <1>2 DEF Follows
<1>8. Follows(r, label, a, s)
  BY <1>5, <1>6, <1>7 DEF Follows, s
<1>. QED
  BY <1>8 DEF s

LEMMA SettleMoves ==
  ASSUME TypeOK, NEW r \in Runs, RunScript(r), Settle(r)
  PROVE  Moved(r)
<1>. DEFINE next == at[r].offset + Cfg[r].chunk
            signed == IF IsFinal(at[r]) THEN Append(result[r].signatures, at[r])
                      ELSE result[r].signatures
            res == [result[r] EXCEPT !.submitted = Recorded(r), !.signatures = signed]
<1>1. /\ ClientType /\ pc[r] = "wait" /\ pc[r] \in Active /\ UNCHANGED need
      /\ UNCHANGED sent /\ UNCHANGED clusterVars
  BY DEF TypeOK, ClientType, Settle, Active
<1>2. /\ at[r] \in Step /\ at[r].op \in {"create", "write", "final"} /\ at[r].offset \in Nat
      /\ sent[r] \in Seq(Step) /\ sent[r] # <<>> /\ Plain(at[r])
      /\ at[r].op = "create" => Cfg[r].kind # "resume"
      /\ result[r] \in Result /\ result[r].signatures \in Seq(Step)
      /\ Recorded(r) = sent[r]
  <2>1. /\ at[r] \in Step /\ sent[r] \in Seq(Step)
        /\ result[r] \in Result /\ result[r].signatures \in Seq(Step)
    BY <1>1, ResultTypes
  <2>2. at[r].op \in {"create", "write", "final"} /\ at[r].offset \in 0..MaxLen
    BY <2>1, Steps
  <2>3. Follows(r, "wait", at[r], sent[r])
    BY <1>1 DEF RunScript
  <2>4. /\ sent[r] # <<>> /\ Plain(at[r])
        /\ at[r].op = "create" => Cfg[r].kind # "resume"
    BY <2>3 DEF Follows, Waiting
  <2>5. Recorded(r) = sent[r]
    BY <1>1, RecordedIsSent
  <2>. QED
    BY <2>1, <2>2, <2>4, <2>5
<1>3. /\ Len0(r) \in 1..MaxLen /\ Cfg[r].chunk \in Nat \ {0} /\ MaxLen \in Nat
      /\ next \in Nat /\ next > at[r].offset
  BY <1>2, ConfigTypes
<1>4. \E label \in {"submit", "checkpoint", "verifyProgram", "verifyProgramData"}, a \in Step :
        /\ pc' = [pc EXCEPT ![r] = label]
        /\ (at' = at /\ a = at[r]) \/ at' = [at EXCEPT ![r] = a]
        /\ Follows(r, label, a, sent[r])
  <2>1. CASE at[r].op = "create"
    <3>1. at' = [at EXCEPT ![r] = WriteStep(0)] /\ pc' = [pc EXCEPT ![r] = "submit"]
      BY <2>1 DEF Settle, Goto
    <3>2. /\ WriteStep(0) \in Step /\ Rank(WriteStep(0)) = 1 /\ Rank(at[r]) = 0
          /\ Plain(WriteStep(0)) /\ WriteStep(0).op = "write"
      BY <1>2, <1>3, <2>1, Steps DEF Plain, WriteStep
    <3>3. Rank(at[r]) <= Rank(WriteStep(0)) /\ Rank(at[r]) < Rank(WriteStep(0))
      BY <3>2
    <3>4. /\ WriteStep(0).op # "create"
          /\ "submit" \notin Early /\ "submit" \notin Waiting \cup Verifying
          /\ "submit" \notin {"checkpoint", "readback"} /\ "submit" \notin Verifying
      BY <3>2 DEF Early, Waiting, Verifying
    <3>5. Follows(r, "submit", WriteStep(0), sent[r])
      BY <1>1, <3>2, <3>3, <3>4, PlanGoesOn
    <3>. QED
      BY <3>1, <3>2, <3>5
  <2>2. CASE at[r].op = "write" /\ next < Len0(r)
    <3>1. at' = [at EXCEPT ![r] = WriteStep(next)] /\ pc' = [pc EXCEPT ![r] = "submit"]
      <4>1. at[r].op # "create" /\ at[r].op # "final" /\ ~(next >= Len0(r))
        BY <1>3, <2>2
      <4>. QED
        BY <2>2, <4>1 DEF Settle, Goto
    <3>2. next \in 0..MaxLen
      BY <1>3, <2>2
    <3>3. /\ WriteStep(next) \in Step /\ Rank(WriteStep(next)) = next + 1
          /\ Rank(at[r]) = at[r].offset + 1
      BY <1>2, <2>2, <3>2, Steps
    <3>4. Plain(WriteStep(next)) /\ WriteStep(next).op = "write"
      BY DEF Plain, WriteStep
    <3>5. Rank(at[r]) < Rank(WriteStep(next))
      BY <1>2, <1>3, <3>3
    <3>6. Rank(at[r]) <= Rank(WriteStep(next))
      BY <1>2, <1>3, <3>3
    <3>. HIDE DEF next
    <3>7. Follows(r, "submit", WriteStep(next), sent[r])
      BY <1>1, <3>3, <3>4, <3>5, <3>6, PlanGoesOn DEF Early, Waiting, Verifying
    <3>. QED
      BY <3>1, <3>3, <3>7
  <2>3. CASE at[r].op = "write" /\ next >= Len0(r)
    <3>1. at' = at /\ pc' = [pc EXCEPT ![r] = "checkpoint"]
      BY <1>2, <1>3, <2>3 DEF Settle, Goto
    <3>2. Rank(at[r]) <= Rank(at[r])
      BY <1>2, Steps
    <3>3. Follows(r, "checkpoint", at[r], sent[r])
      BY <1>1, <1>2, <2>3, <3>2, PlanGoesOn DEF Early, Waiting, Verifying
    <3>. QED
      BY <1>2, <3>1, <3>3
  <2>4. CASE at[r].op = "final"
    <3>1. PICK label \in Verifying : at' = at /\ pc' = [pc EXCEPT ![r] = label]
      BY <2>4 DEF Settle, Goto, Verifying
    <3>2. Rank(at[r]) <= Rank(at[r])
      BY <1>2, Steps
    <3>3. Follows(r, label, at[r], sent[r])
      BY <1>1, <1>2, <2>4, <3>2, PlanGoesOn DEF Early, Waiting, Verifying
    <3>. QED
      BY <1>2, <3>1, <3>3 DEF Verifying
  <2>. QED
    BY <1>2, <1>3, <2>1, <2>2, <2>3, <2>4
<1>5. result' = [result EXCEPT ![r] = res]
  BY <1>1 DEF Settle, ClientType
<1>6. signed \in Seq(Step)
  BY <1>2, AppendProperties
<1>. HIDE DEF signed
<1>7. res \in Result /\ res.submitted = sent[r]
  BY <1>2, <1>6 DEF Result
<1>. HIDE DEF res
<1>8. PICK label \in {"submit", "checkpoint", "verifyProgram", "verifyProgramData"}, a \in Step :
        /\ pc' = [pc EXCEPT ![r] = label]
        /\ (at' = at /\ a = at[r]) \/ at' = [at EXCEPT ![r] = a]
        /\ Follows(r, label, a, sent[r])
  BY <1>4
<1>9. Records(label, a, sent[r], res.submitted)
  BY <1>2, <1>7, ConcatEmptySeq DEF Records
<1>10. label \in Active \cup Ended /\ label # "uncalled"
  BY DEF Active
<1>11. Submission(r) /\ UNCHANGED <<fork, voted, rooted, final>>
  BY <1>1 DEF Submission, clusterVars
<1>. QED
  BY <1>1, <1>2, <1>5, <1>7, <1>8, <1>9, <1>10, <1>11, MovesWith

\* A run that fails, whatever it was waiting for.
LEMMA FailMoves ==
  ASSUME TypeOK, NEW r \in Runs, RunScript(r), SettleFailed(r) \/ GiveUp(r) \/ Crash(r)
  PROVE  Moved(r)
<1>1. /\ ClientType /\ pc[r] \in Active /\ UNCHANGED <<at, need, sent>>
      /\ UNCHANGED clusterVars
  BY DEF TypeOK, ClientType, SettleFailed, GiveUp, Crash, Active
<1>2. /\ at[r] \in Step /\ sent[r] \in Seq(Step)
      /\ result[r] \in Result /\ result[r].submitted \in Seq(Step) /\ NoResult \in Result
      /\ Plain(at[r]) /\ (at[r].op = "create" => Cfg[r].kind # "resume")
      /\ Rank(at[r]) <= Rank(at[r])
  BY <1>1, ResultTypes, Steps DEF RunScript, Follows
<1>3. \A label \in {"failed", "crashed"} : Follows(r, label, at[r], sent[r])
  BY <1>1, <1>2, PlanGoesOn DEF Early, Waiting, Verifying
<1>4. Submission(r) /\ UNCHANGED <<fork, voted, rooted, final>>
  BY <1>1 DEF Submission, clusterVars
<1>5. "failed" \in Ended /\ "crashed" \in Ended
  BY DEF Ended
<1>6. CASE Crash(r)
  <2>1. pc' = [pc EXCEPT ![r] = "crashed"] /\ result' = [result EXCEPT ![r] = NoResult]
    BY <1>6 DEF Crash, Goto
  <2>2. Records("crashed", at[r], sent[r], NoResult.submitted)
    BY DEF Records
  <2>. QED
    BY <1>1, <1>2, <1>3, <1>4, <1>5, <2>1, <2>2, MovesWith
<1>7. CASE pc[r] = "wait" /\ (SettleFailed(r) \/ GiveUp(r))
  <2>. DEFINE res == [result[r] EXCEPT !.submitted = Recorded(r)]
  <2>1. /\ pc' = [pc EXCEPT ![r] = "failed"]
        /\ result' = [result EXCEPT ![r].submitted = Recorded(r)]
    BY <1>7 DEF SettleFailed, GiveUp, Goto
  <2>2. result' = [result EXCEPT ![r] = res]
    BY <2>1
  <2>3. Recorded(r) = sent[r]
    BY <1>1, <1>7, RecordedIsSent
  <2>4. res \in Result /\ res.submitted = sent[r]
    BY <1>2, <2>3 DEF Result
  <2>5. Records("failed", at[r], sent[r], res.submitted)
    BY <1>2, <2>4, ConcatEmptySeq DEF Records
  <2>. HIDE DEF res
  <2>. QED
    BY <1>1, <1>2, <1>3, <1>4, <1>5, <2>1, <2>2, <2>4, <2>5, MovesWith
<1>8. CASE pc[r] # "wait" /\ GiveUp(r)
  <2>1. pc' = [pc EXCEPT ![r] = "failed"] /\ result' = result
    BY <1>8 DEF GiveUp, Goto
  <2>2. sent[r] = result[r].submitted \o <<>>
    BY <1>1, <1>8 DEF RunScript, Records, Active
  <2>3. Records("failed", at[r], sent[r], result[r].submitted)
    BY <2>2 DEF Records
  <2>. QED
    BY <1>1, <1>2, <1>3, <1>4, <1>5, <2>1, <2>3, MovesWith
<1>9. SettleFailed(r) => pc[r] = "wait"
  BY DEF SettleFailed
<1>. QED
  BY <1>6, <1>7, <1>8, <1>9

\* At the read-back everything recorded after the create is a write.
LEMMA PendingAreWrites ==
  ASSUME ClientType, NEW r \in Runs, RunScript(r), pc[r] = "readback"
  PROVE  /\ PendingWrites(r) \in Seq(Step)
         /\ \A i \in 1..Len(PendingWrites(r)) : PendingWrites(r)[i].op = "write"
<1>. DEFINE s == sent[r]
<1>1. /\ s \in Seq(Step) /\ s # <<>> /\ at[r] \in Step /\ Len(s) \in Nat
      /\ result[r].submitted \in Seq(Step)
  BY ResultTypes, EmptySeq DEF RunScript, Follows, Waiting
<1>2. s = result[r].submitted
  BY <1>1, ConcatEmptySeq DEF RunScript, Records
<1>3. at[r].op = "write" /\ Follows(r, "readback", at[r], s)
  BY DEF RunScript, Follows
<1>. HIDE DEF s
<1>4. \A i \in 1..Len(s) : s[i] \in Step
  BY <1>1, ElementOfSeq
<1>5. \A i \in 1..Len(s) : s[i].op # "final"
  <2>. SUFFICES ASSUME NEW i \in 1..Len(s), s[i].op = "final" PROVE FALSE
    OBVIOUS
  <2>1. Rank(s[i]) <= Rank(at[r])
    BY <1>3 DEF Follows
  <2>2. Rank(s[i]) = MaxLen + 2 /\ Rank(at[r]) = at[r].offset + 1 /\ at[r].offset \in 0..MaxLen
    <3>1. s[i] \in Step
      BY <1>4
    <3>. QED
      BY <1>1, <1>3, <3>1, Steps
  <2>3. MaxLen \in Nat
    BY ConfigTypes
  <2>. QED
    BY <2>1, <2>2, <2>3
<1>6. \A i \in 1..Len(s) : i > 1 => s[i].op # "create"
  <2>. SUFFICES ASSUME NEW i \in 1..Len(s), i > 1, s[i].op = "create" PROVE FALSE
    OBVIOUS
  <2>1. 1 \in 1..Len(s)
    BY <1>1
  <2>2. Rank(s[1]) < Rank(s[i])
    BY <1>3, <2>1 DEF Follows
  <2>3. Rank(s[i]) = 0 /\ Rank(s[1]) \in Nat
    BY <1>4, <2>1, Steps
  <2>. QED
    BY <2>2, <2>3
<1>7. CASE Cfg[r].kind = "resume"
  <2>1. PendingWrites(r) = s
    BY <1>2, <1>7 DEF PendingWrites
  <2>2. \A i \in 1..Len(s) : s[i].op # "create"
    BY <1>3, <1>7 DEF Follows
  <2>. QED
    BY <1>1, <1>4, <1>5, <2>1, <2>2, Steps
<1>8. CASE Cfg[r].kind # "resume"
  <2>1. PendingWrites(r) = Tail(s)
    BY <1>2, <1>8 DEF PendingWrites
  <2>2. /\ Tail(s) \in Seq(Step) /\ Len(Tail(s)) = Len(s) - 1
        /\ \A i \in 1..Len(Tail(s)) : Tail(s)[i] = s[i + 1]
    BY <1>1, HeadTailProperties
  <2>3. \A i \in 1..Len(Tail(s)) : Tail(s)[i].op = "write"
    <3>. TAKE i \in 1..Len(Tail(s))
    <3>1. i + 1 \in 1..Len(s) /\ i + 1 > 1
      BY <1>1, <2>2
    <3>2. s[i + 1].op \in {"create", "write", "final"}
      BY <1>4, <3>1, Steps
    <3>. QED
      BY <1>5, <1>6, <2>2, <3>1, <3>2
  <2>. QED
    BY <2>1, <2>2, <2>3
<1>. QED
  BY <1>7, <1>8

LEMMA ReadBackMoves ==
  ASSUME TypeOK, NEW r \in Runs, RunScript(r), ReadBack(r)
  PROVE  Moved(r)
<1>1. /\ ClientType /\ pc[r] = "readback" /\ pc[r] \in Active /\ UNCHANGED <<need, sent>>
      /\ UNCHANGED clusterVars
  BY DEF TypeOK, ClientType, ReadBack, Active
<1>2. /\ at[r] \in Step /\ sent[r] \in Seq(Step) /\ result[r] \in Result
      /\ result[r].submitted \in Seq(Step) /\ result[r].signatures \in Seq(Step)
      /\ PendingWrites(r) \in Seq(Step) /\ at[r].op = "write" /\ Plain(at[r])
      /\ sent[r] = result[r].submitted \o <<>>
  BY <1>1, ResultTypes, PendingAreWrites DEF RunScript, Follows, Records
<1>3. Rank(at[r]) <= Rank(at[r]) /\ Rank(at[r]) < Rank(FinalStep)
  <2>1. /\ Rank(at[r]) = at[r].offset + 1 /\ at[r].offset \in 0..MaxLen
        /\ Rank(FinalStep) = MaxLen + 2 /\ MaxLen \in Nat
    BY <1>2, Steps, ConfigTypes
  <2>. QED
    BY <2>1
<1>4. FinalStep \in Step /\ Plain(FinalStep) /\ FinalStep.op = "final"
  BY Steps DEF Plain, FinalStep
<1>5. Submission(r) /\ UNCHANGED <<fork, voted, rooted, final>>
  BY <1>1 DEF Submission, clusterVars
<1>6. CASE ~Holds(r, rooted.buf[Cfg[r].buffer])
  <2>1. pc' = [pc EXCEPT ![r] = "failed"] /\ at' = at /\ result' = result
    BY <1>6 DEF ReadBack, Goto
  <2>2. Follows(r, "failed", at[r], sent[r])
    BY <1>1, <1>2, <1>3, PlanGoesOn DEF Early, Waiting, Verifying
  <2>3. Records("failed", at[r], sent[r], result[r].submitted) /\ "failed" \in Ended
    BY <1>2 DEF Records, Ended
  <2>. QED
    BY <1>1, <1>2, <1>5, <2>1, <2>2, <2>3, MovesWith
<1>7. CASE Holds(r, rooted.buf[Cfg[r].buffer])
  <2>. DEFINE signed == result[r].signatures \o PendingWrites(r)
              res == [result[r] EXCEPT !.signatures = signed]
  <2>1. /\ pc' = [pc EXCEPT ![r] = "submit"] /\ at' = [at EXCEPT ![r] = FinalStep]
        /\ result' = [result EXCEPT ![r] = res]
    BY <1>1, <1>7 DEF ReadBack, Goto, ClientType
  <2>2. signed \in Seq(Step)
    BY <1>2, ConcatProperties
  <2>. HIDE DEF signed
  <2>3. res \in Result /\ res.submitted = result[r].submitted
    BY <1>2, <2>2 DEF Result
  <2>4. Follows(r, "submit", FinalStep, sent[r])
    <3>1. Rank(at[r]) <= Rank(FinalStep)
      BY <1>2, <1>3, <1>4, Steps
    <3>. QED
      BY <1>1, <1>3, <1>4, <3>1, PlanGoesOn DEF Early, Waiting, Verifying
  <2>5. Records("submit", FinalStep, sent[r], res.submitted) /\ "submit" \in Active
    BY <1>2, <2>3 DEF Records, Active
  <2>. HIDE DEF res
  <2>. QED
    BY <1>1, <1>2, <1>4, <1>5, <2>1, <2>3, <2>4, <2>5, MovesWith
<1>. QED
  BY <1>6, <1>7

LEMMA VerifyMoves ==
  ASSUME TypeOK, NEW r \in Runs, RunScript(r), VerifyProgramData(r)
  PROVE  Moved(r)
<1>1. /\ ClientType /\ pc[r] = "verifyProgramData" /\ pc[r] \in Active
      /\ UNCHANGED <<at, need, sent>> /\ UNCHANGED clusterVars
  BY DEF TypeOK, ClientType, VerifyProgramData, Active
<1>2. /\ at[r] \in Step /\ sent[r] \in Seq(Step) /\ result[r] \in Result
      /\ result[r].submitted \in Seq(Step) /\ Plain(at[r])
      /\ (at[r].op = "create" => Cfg[r].kind # "resume")
      /\ sent[r] = result[r].submitted \o <<>>
      /\ Rank(at[r]) <= Rank(at[r])
  BY <1>1, ResultTypes, Steps DEF RunScript, Follows, Records
<1>3. \A label \in {"failed", "done"} :
        /\ Follows(r, label, at[r], sent[r])
        /\ label \in Ended
        /\ Records(label, at[r], sent[r], result[r].submitted)
  BY <1>1, <1>2, PlanGoesOn DEF Early, Waiting, Verifying, Ended, Records
<1>4. Submission(r) /\ UNCHANGED <<fork, voted, rooted, final>>
  BY <1>1 DEF Submission, clusterVars
<1>5. CASE ~Deployed(r, rooted.prog)
  <2>1. pc' = [pc EXCEPT ![r] = "failed"] /\ result' = result
    BY <1>5 DEF VerifyProgramData, Goto
  <2>. QED
    BY <1>1, <1>2, <1>3, <1>4, <2>1, MovesWith
<1>6. CASE Deployed(r, rooted.prog)
  <2>. DEFINE res == [result[r] EXCEPT !.finalized = TRUE]
  <2>1. pc' = [pc EXCEPT ![r] = "done"] /\ result' = [result EXCEPT ![r] = res]
    BY <1>1, <1>6 DEF VerifyProgramData, Goto, ClientType
  <2>2. res \in Result /\ res.submitted = result[r].submitted
    BY <1>2 DEF Result
  <2>3. Records("done", at[r], sent[r], res.submitted)
    BY <1>3, <2>2
  <2>. HIDE DEF res
  <2>. QED
    BY <1>1, <1>2, <1>3, <1>4, <2>1, <2>2, <2>3, MovesWith
<1>. QED
  BY <1>5, <1>6

LEMMA RunMoves ==
  ASSUME TypeOK, Script, NEW r \in Runs, RunStep(r) \/ Disturb(r)
  PROVE  Moved(r)
<1>1. RunScript(r)
  BY DEF Script, RunScript
<1>. QED
  BY <1>1, PrepareMoves, InspectMoves, SubmitMoves, SettleMoves, FailMoves, WaitMoves,
     ReadBackMoves, VerifyMoves DEF RunStep, Disturb

-----------------------------------------------------------------------------
(* How the ledger moves.                                                   *)

LEMMA LedgerTypes ==
  ASSUME TypeOK
  PROVE  /\ Len(fork) \in Nat /\ rooted \in Bank /\ voted \in 0..Len(fork)
         /\ \A i \in 1..Len(fork) :
              /\ fork[i] \in Entry /\ fork[i].tx \in Tx /\ fork[i].ok \in BOOLEAN
              /\ fork[i].bank \in Bank
         /\ \A i \in 0..Len(fork) : BankAt(i) \in Bank
         /\ Tip = BankAt(Len(fork))
         /\ Banks = {BankAt(i) : i \in 0..Len(fork)}
<1>1. fork \in Seq(Entry) /\ Len(fork) \in Nat /\ rooted \in Bank /\ voted \in 0..Len(fork)
  BY LenProperties DEF TypeOK
<1>2. \A i \in 1..Len(fork) :
        /\ fork[i] \in Entry /\ fork[i].tx \in Tx /\ fork[i].ok \in BOOLEAN
        /\ fork[i].bank \in Bank
  <2>1. \A i \in 1..Len(fork) : fork[i] \in Entry
    BY <1>1, ElementOfSeq
  <2>. QED
    BY <2>1 DEF Entry
<1>3. \A i \in 0..Len(fork) : BankAt(i) \in Bank
  BY <1>1, <1>2 DEF BankAt
<1>4. Tip = BankAt(Len(fork))
  <2>1. fork = <<>> <=> Len(fork) = 0
    BY <1>1, EmptySeq
  <2>. QED
    BY <2>1 DEF Tip, BankAt
<1>5. Banks = {BankAt(i) : i \in 0..Len(fork)}
  <2>1. rooted = BankAt(0) /\ 0 \in 0..Len(fork)
    BY <1>1 DEF BankAt
  <2>2. \A i \in 1..Len(fork) : i \in 0..Len(fork) /\ fork[i].bank = BankAt(i)
    BY <1>1 DEF BankAt
  <2>3. \A i \in 0..Len(fork) : i = 0 \/ i \in 1..Len(fork)
    BY <1>1
  <2>4. \A i \in 0..Len(fork) : BankAt(i) \in Banks
    BY <2>2, <2>3 DEF Banks, BankAt
  <2>5. \A b \in Banks : \E i \in 0..Len(fork) : b = BankAt(i)
    BY <2>1, <2>2 DEF Banks
  <2>. QED
    BY <2>4, <2>5
<1>. QED
  BY <1>1, <1>2, <1>3, <1>4, <1>5

\* The banks of the ledger by their places, before and after a step.
Places ==
  /\ Len(fork) \in Nat
  /\ \A i \in 0..Len(fork) : BankAt(i) \in Bank
  /\ Banks = {BankAt(i) : i \in 0..Len(fork)}

LEMMA LedgerPlaces == TypeOK => Places
  BY LedgerTypes DEF Places

LEMMA LedgerTypesNext ==
  ASSUME TypeOK'
  PROVE  /\ Len(fork') \in Nat
         /\ \A i \in 0..Len(fork') : BankAt(i)' \in Bank
         /\ Banks' = {BankAt(i)' : i \in 0..Len(fork')}
<1>1. TypeOK' => Places'
  BY LedgerPlaces, PTL
<1>. QED
  BY <1>1 DEF Places

\* One entry more, executed on the last bank.
Lands(tx, ok) ==
  LET n == Len(fork) IN
    /\ tx \in pool /\ tx \in Tx
    /\ UNCHANGED clientVars /\ UNCHANGED <<voted, rooted, final>>
    /\ pool' = pool \ {tx}
    /\ fork' \in Seq(Entry) /\ Len(fork') = n + 1
    /\ \A i \in 1..n : fork'[i] = fork[i]
    /\ fork'[n + 1].tx = tx /\ fork'[n + 1].ok = ok
    /\ Executed(fork'[n + 1], BankAt(n))
    /\ \A i \in 0..n : BankAt(i)' = BankAt(i)
    /\ \A i \in Nat : i = n + 1 => BankAt(i)' = fork'[i].bank
    /\ fork'[n + 1].bank \in Bank

LEMMA LandEffect ==
  ASSUME TypeOK, NEW tx \in pool, NEW ok \in BOOLEAN, Land(tx, ok)
  PROVE  Lands(tx, ok) /\ TypeOK'
<1>. DEFINE n == Len(fork)
            bank == IF ok THEN DoExec(tx, Tip) ELSE Tip
            entry == [tx |-> tx, ok |-> ok, bank |-> bank]
<1>1. /\ n \in Nat /\ tx \in Tx /\ fork \in Seq(Entry) /\ Tip = BankAt(n) /\ Tip \in Bank
      /\ rooted \in Bank
  BY LedgerTypes DEF TypeOK
<1>2. ok => CanExec(tx, Tip)
  BY DEF Land
<1>3. bank \in Bank
  BY <1>1, <1>2, ExecEffect
<1>4. entry \in Entry /\ entry.tx = tx /\ entry.ok = ok /\ entry.bank = bank
  BY <1>1, <1>3 DEF Entry
<1>5. Executed(entry, Tip)
  BY <1>2, <1>4 DEF Executed
<1>6. /\ fork' = Append(fork, entry) /\ pool' = pool \ {tx}
      /\ UNCHANGED clientVars /\ UNCHANGED <<voted, rooted, final>>
  BY DEF Land
<1>. HIDE DEF entry
<1>7. /\ fork' \in Seq(Entry) /\ Len(fork') = n + 1
      /\ \A i \in 1..n : fork'[i] = fork[i]
      /\ fork'[n + 1] = entry
  BY <1>1, <1>4, <1>6, AppendProperties
<1>8. \A i \in 0..n : BankAt(i)' = BankAt(i)
  <2>. TAKE i \in 0..n
  <2>1. i = 0 \/ i \in 1..n
    BY <1>1
  <2>. QED
    BY <1>6, <1>7, <2>1 DEF BankAt
<1>9. \A i \in Nat : i = n + 1 => BankAt(i)' = fork'[i].bank
  BY <1>1 DEF BankAt
<1>10. Lands(tx, ok)
  BY <1>1, <1>3, <1>4, <1>5, <1>6, <1>7, <1>8, <1>9 DEF Lands
<1>11. TypeOK'
  <2>1. ClientType' /\ voted' \in 0..Len(fork')
    BY <1>1, <1>6, <1>7 DEF TypeOK, ClientType, clientVars
  <2>. QED
    BY <1>1, <1>6, <1>7, <2>1 DEF TypeOK, ClientType
<1>. QED
  BY <1>10, <1>11

\* The first entry is finalized.
Roots ==
  LET n == Len(fork) IN
    /\ n \in Nat \ {0}
    /\ UNCHANGED clientVars /\ UNCHANGED pool
    /\ rooted' = fork[1].bank
    /\ final' = final \cup {[tx |-> fork[1].tx, ok |-> fork[1].ok]}
    /\ fork' \in Seq(Entry) /\ Len(fork') = n - 1
    /\ \A i \in 1..(n - 1) : fork'[i] = fork[i + 1]
    /\ \A i \in 0..(n - 1) : BankAt(i)' = BankAt(i + 1)

LEMMA RootEffect ==
  ASSUME TypeOK, Root
  PROVE  Roots /\ TypeOK'
<1>. DEFINE n == Len(fork)
<1>1. n \in Nat \ {0} /\ voted \in 1..n /\ fork \in Seq(Entry) /\ fork # <<>>
  BY LedgerTypes, EmptySeq DEF TypeOK, Root
<1>2. Head(fork) = fork[1] /\ fork[1] \in Entry
  BY <1>1, LedgerTypes
<1>3. /\ UNCHANGED clientVars /\ UNCHANGED pool
      /\ rooted' = fork[1].bank
      /\ final' = final \cup {[tx |-> fork[1].tx, ok |-> fork[1].ok]}
      /\ fork' = Tail(fork) /\ voted' = voted - 1
  BY <1>2 DEF Root
<1>4. /\ fork' \in Seq(Entry) /\ Len(fork') = n - 1
      /\ \A i \in 1..(n - 1) : fork'[i] = fork[i + 1]
  BY <1>1, <1>3, HeadTailProperties
<1>5. \A i \in 0..(n - 1) : BankAt(i)' = BankAt(i + 1)
  <2>. TAKE i \in 0..(n - 1)
  <2>1. i = 0 \/ i \in 1..(n - 1)
    BY <1>1
  <2>2. CASE i = 0
    BY <1>3, <2>2 DEF BankAt
  <2>3. CASE i \in 1..(n - 1)
    BY <1>1, <1>4, <2>3 DEF BankAt
  <2>. QED
    BY <2>1, <2>2, <2>3
<1>6. Roots
  BY <1>1, <1>3, <1>4, <1>5 DEF Roots
<1>7. TypeOK'
  <2>1. rooted' \in Bank /\ final' \subseteq [tx: Tx, ok: BOOLEAN]
    BY <1>2, <1>3 DEF Entry, TypeOK
  <2>2. voted' \in 0..Len(fork')
    BY <1>1, <1>3, <1>4
  <2>. QED
    BY <1>3, <1>4, <2>1, <2>2 DEF TypeOK, clientVars
<1>. QED
  BY <1>6, <1>7

\* The first k entries stay; those above may land again.
Switches(k) ==
  /\ k \in 0..Len(fork) /\ k < Len(fork)
  /\ UNCHANGED clientVars /\ UNCHANGED <<rooted, final>>
  /\ pool' = pool \cup {fork[i].tx : i \in (k + 1)..Len(fork)}
  /\ fork' \in Seq(Entry) /\ Len(fork') = k
  /\ \A i \in 1..k : fork'[i] = fork[i]
  /\ \A i \in 0..k : BankAt(i)' = BankAt(i)

LEMMA SwitchEffect ==
  ASSUME TypeOK, NEW k \in 0..MaxFork, SwitchFork(k)
  PROVE  Switches(k) /\ TypeOK'
<1>1. /\ k \in Nat /\ Len(fork) \in Nat /\ k < Len(fork) /\ fork \in Seq(Entry)
      /\ voted \in 0..Len(fork)
      /\ \A i \in 1..Len(fork) : fork[i] \in Entry /\ fork[i].tx \in Tx
  BY LedgerTypes, DeployAssumption DEF SwitchFork, TypeOK
<1>2. /\ UNCHANGED clientVars /\ UNCHANGED <<rooted, final>>
      /\ pool' = pool \cup {fork[i].tx : i \in (k + 1)..Len(fork)}
      /\ fork' = SubSeq(fork, 1, k) /\ voted' = Min2(voted, k)
  BY DEF SwitchFork
<1>3. /\ fork' \in Seq(Entry) /\ Len(fork') = k
      /\ \A i \in 1..k : fork'[i] = fork[i]
  <2>1. \A i \in 1..k : fork[i] \in Entry
    BY <1>1
  <2>2. /\ SubSeq(fork, 1, k) \in Seq(Entry)
        /\ Len(SubSeq(fork, 1, k)) = IF 1 <= k THEN k - 1 + 1 ELSE 0
        /\ \A i \in 1..(k - 1 + 1) : SubSeq(fork, 1, k)[i] = fork[1 + i - 1]
    BY <1>1, <2>1, SubSeqProperties
  <2>. QED
    BY <1>1, <1>2, <2>2
<1>4. \A i \in 0..k : BankAt(i)' = BankAt(i)
  <2>. TAKE i \in 0..k
  <2>1. i = 0 \/ i \in 1..k
    BY <1>1
  <2>. QED
    BY <1>2, <1>3, <2>1 DEF BankAt
<1>5. k \in 0..Len(fork)
  BY <1>1
<1>6. Switches(k)
  BY <1>1, <1>2, <1>3, <1>4, <1>5 DEF Switches
<1>7. TypeOK'
  <2>1. pool' \subseteq Tx
    BY <1>1, <1>2 DEF TypeOK
  <2>2. voted' \in 0..Len(fork')
    BY <1>1, <1>2, <1>3 DEF Min2
  <2>. QED
    BY <1>2, <1>3, <2>1, <2>2 DEF TypeOK, clientVars
<1>. QED
  BY <1>6, <1>7

\* Votes, expiry and the quiet end change nothing but the pool and the votes.
Settles ==
  /\ UNCHANGED clientVars /\ UNCHANGED <<fork, rooted, final>>
  /\ pool' \subseteq pool

LEMMA SettleEffect ==
  ASSUME TypeOK, Vote \/ (\E tx \in pool : Expire(tx)) \/ Quiet \/ UNCHANGED vars
  PROVE  Settles /\ TypeOK'
<1>1. Settles
  BY DEF Vote, Expire, Quiet, vars, Settles, clientVars
<1>2. voted' \in 0..Len(fork)
  BY LedgerTypes DEF Vote, Expire, Quiet, vars
<1>. QED
  BY <1>1, <1>2 DEF Settles, TypeOK, clientVars

-----------------------------------------------------------------------------
(* Types and records.                                                      *)

LEMMA MovedType ==
  ASSUME TypeOK, NEW r \in Runs, Moved(r)
  PROVE  TypeOK'
<1>1. at[r] \in Step /\ TxOf(r) \in Tx
  BY DEF TypeOK, TxOf, Tx
<1>2. pool' \subseteq Tx
  BY <1>1 DEF Moved, Submission, TypeOK
<1>3. ClientType' /\ UNCHANGED <<fork, voted, rooted, final>>
  BY DEF Moved
<1>. QED
  BY <1>2, <1>3 DEF TypeOK, ClientType

\* What a step can be.
AnyStep ==
  \/ \E r \in Runs : (RunStep(r) \/ Disturb(r)) /\ Moved(r)
  \/ \E tx \in pool, ok \in BOOLEAN : Land(tx, ok) /\ Lands(tx, ok)
  \/ Roots
  \/ \E k \in 0..MaxFork : Switches(k)
  \/ Settles

LEMMA NextSteps ==
  ASSUME TypeOK, Script, [Next]_vars
  PROVE  AnyStep /\ TypeOK'
<1>1. ASSUME NEW r \in Runs, RunStep(r) \/ Disturb(r) PROVE AnyStep /\ TypeOK'
  BY <1>1, RunMoves, MovedType DEF AnyStep
<1>2. ASSUME NEW tx \in pool, NEW ok \in BOOLEAN, Land(tx, ok) PROVE AnyStep /\ TypeOK'
  BY <1>2, LandEffect DEF AnyStep
<1>3. ASSUME Root PROVE AnyStep /\ TypeOK'
  BY <1>3, RootEffect DEF AnyStep
<1>4. ASSUME NEW k \in 0..MaxFork, SwitchFork(k) PROVE AnyStep /\ TypeOK'
  BY <1>4, SwitchEffect DEF AnyStep
<1>5. ASSUME Vote \/ (\E tx \in pool : Expire(tx)) \/ Quiet \/ UNCHANGED vars
      PROVE  AnyStep /\ TypeOK'
  BY <1>5, SettleEffect DEF AnyStep
<1>. QED
  BY <1>1, <1>2, <1>3, <1>4, <1>5 DEF Next, Ledger

CInv == TypeOK /\ Script

LEMMA CInit == Init => CInv
<1>. SUFFICES ASSUME Init PROVE CInv
  OBVIOUS
<1>1. /\ at = [r \in Runs |-> IF Cfg[r].kind = "resume" THEN WriteStep(0) ELSE CreateStep]
      /\ need = [r \in Runs |-> 0] /\ result = [r \in Runs |-> NoResult]
      /\ sent = [r \in Runs |-> <<>>]
      /\ pool = {} /\ fork = <<>> /\ voted = 0 /\ final = {}
  BY DEF Init
<1>2. PICK called \in Called :
        pc = [r \in Runs |-> IF r \in called THEN "prepare" ELSE "uncalled"]
  BY DEF Init
<1>3. PICK lamports \in PayerFunds : rooted = EmptyBank(lamports)
  BY DEF Init
<1>4. rooted \in Bank
  BY <1>3, LoaderAssumption DEF EmptyBank, Bank
<1>5. /\ WriteStep(0) \in Step /\ CreateStep \in Step /\ NoResult \in Result
      /\ Len(fork) = 0 /\ fork \in Seq(Entry)
  BY <1>1, Steps, LoaderAssumption DEF NoResult, Result
<1>6. TypeOK
  BY <1>1, <1>2, <1>4, <1>5 DEF TypeOK, Active, Ended
<1>7. ASSUME NEW r \in Runs PROVE RunScript(r)
  <2>1. pc[r] \in {"prepare", "uncalled"} /\ sent[r] = <<>> /\ result[r] = NoResult
    BY <1>1, <1>2
  <2>2. /\ Plain(at[r]) /\ at[r].op # "final"
        /\ at[r].op = "create" => Cfg[r].kind # "resume"
    BY <1>1 DEF Plain, CreateStep, WriteStep
  <2>3. Follows(r, pc[r], at[r], sent[r])
    BY <2>1, <2>2 DEF Follows, Early, Waiting, Verifying
  <2>4. Records(pc[r], at[r], sent[r], result[r].submitted)
    <3>1. <<>> \in Seq(Step) /\ <<>> \o <<>> = <<>>
      BY ConcatEmptySeq
    <3>. QED
      BY <2>1, <3>1 DEF Records, NoResult
  <2>. QED
    BY <2>3, <2>4 DEF RunScript
<1>. QED
  BY <1>6, <1>7 DEF CInv, Script, RunScript

LEMMA CNext == CInv /\ [Next]_vars => CInv'
<1>. SUFFICES ASSUME CInv, [Next]_vars PROVE CInv'
  OBVIOUS
<1>1. TypeOK /\ Script /\ AnyStep /\ TypeOK'
  BY NextSteps DEF CInv
<1>2. CASE UNCHANGED clientVars
  BY <1>1, <1>2 DEF Script, clientVars, CInv
<1>3. ASSUME NEW r \in Runs, Moved(r) PROVE Script'
  <2>. SUFFICES ASSUME NEW q \in Runs PROVE RunScript(q)'
    BY DEF Script, RunScript
  <2>1. CASE q = r
    BY <1>3, <2>1 DEF Moved
  <2>2. CASE q # r
    BY <1>1, <1>3, <2>2 DEF Moved, OthersWait, Script, RunScript
  <2>. QED
    BY <2>1, <2>2
<1>. QED
  BY <1>1, <1>2, <1>3 DEF AnyStep, Lands, Roots, Switches, Settles, CInv

LEMMA CInvariant == Spec => []CInv
  BY CInit, CNext, PTL DEF Spec

\* Every variable keeps its type: in particular no step of a deploy, a resume or
\* an upgrade leaves a bank with lamports below zero.
THEOREM TypeCorrect == Spec => []TypeOK
<1>1. CInv => TypeOK
  BY DEF CInv
<1>. QED
  BY <1>1, CInvariant, PTL

LEMMA ScriptRecords == CInv => RecordedOnce
<1>. SUFFICES ASSUME CInv PROVE RecordedOnce
  OBVIOUS
<1>1. RecordComplete
  BY DEF CInv, Script, Records, RecordComplete
<1>2. NeverResent
  <2>. SUFFICES ASSUME NEW r \in Runs, NEW i \in 1..Len(sent[r]), NEW j \in 1..Len(sent[r]),
                       i # j, sent[r][i] = sent[r][j]
                PROVE  FALSE
    BY DEF NeverResent
  <2>1. /\ sent[r] \in Seq(Step) /\ Len(sent[r]) \in Nat
        /\ Follows(r, pc[r], at[r], sent[r])
    BY DEF CInv, TypeOK, Script
  <2>2. Rank(sent[r][i]) \in Nat /\ i \in Nat /\ j \in Nat
    BY <2>1, Steps, ElementOfSeq
  <2>3. Rank(sent[r][i]) < Rank(sent[r][j]) \/ Rank(sent[r][j]) < Rank(sent[r][i])
    BY <2>1, <2>2 DEF Follows
  <2>. QED
    BY <2>2, <2>3
<1>. QED
  BY <1>1, <1>2 DEF RecordedOnce

\* Whatever its outcome, a call leaves a record of exactly the transactions it
\* handed to RPC, each once: sendTransaction is never called twice for one.
THEOREM RecordIsExact == Spec => []RecordedOnce
  BY ScriptRecords, CInvariant, PTL

-----------------------------------------------------------------------------
(* The ledger executes each transaction once.                              *)

LEMMA SentIsPlain ==
  ASSUME CInv, NEW tx \in Tx, Sent(tx)
  PROVE  /\ tx.step.op = "create" => tx = CreateTx(tx.run)
         /\ tx.step.op = "final" => tx = FinalTx(tx.run)
<1>1. tx.run \in Runs /\ tx = [run |-> tx.run, step |-> tx.step]
  BY DEF Tx
<1>2. PICK i \in 1..Len(sent[tx.run]) : sent[tx.run][i] = tx.step
  BY DEF Sent
<1>3. Plain(tx.step)
  BY <1>1, <1>2 DEF CInv, Script, Follows
<1>. QED
  BY <1>1, <1>3 DEF Plain, CreateTx, FinalTx

\* What is about to be handed over was not handed over before.
LEMMA FreshTx ==
  ASSUME CInv, NEW r \in Runs, pc[r] = "submit"
  PROVE  ~Sent(TxOf(r)) /\ TxOf(r) \in Tx
<1>1. /\ at[r] \in Step /\ sent[r] \in Seq(Step) /\ Follows(r, "submit", at[r], sent[r])
  BY DEF CInv, TypeOK, Script
<1>2. \A i \in 1..Len(sent[r]) : Rank(sent[r][i]) < Rank(at[r])
  BY <1>1 DEF Follows
<1>3. Rank(at[r]) \in Nat
  BY <1>1, Steps
<1>4. \A i \in 1..Len(sent[r]) : sent[r][i] # at[r]
  BY <1>2, <1>3
<1>. QED
  BY <1>1, <1>4 DEF Sent, TxOf, Tx

\* What was handed over stays so, and what is new is the transaction of r.
LEMMA SentStays ==
  ASSUME CInv, NEW r \in Runs, Moved(r)
  PROVE  /\ \A tx \in Tx : Sent(tx) => Sent(tx)'
         /\ \A tx \in Tx : tx \in pool' => tx \in pool \/ (~Sent(tx) /\ Sent(tx)')
<1>1. ClientType
  BY DEF CInv, TypeOK, ClientType
<1>2. CASE sent' = sent /\ pool' = pool
  BY <1>2 DEF Sent
<1>3. CASE /\ pc[r] = "submit" /\ at' = at /\ sent'[r] = Append(sent[r], at[r])
           /\ pool' = pool \/ pool' = pool \cup {TxOf(r)}
  <2>1. at[r] \in Step /\ sent[r] \in Seq(Step) /\ Len(sent[r]) \in Nat
    BY <1>1, ResultTypes
  <2>2. /\ Len(sent'[r]) = Len(sent[r]) + 1 /\ sent'[r][Len(sent[r]) + 1] = at[r]
        /\ \A i \in 1..Len(sent[r]) : sent'[r][i] = sent[r][i]
    BY <1>3, <2>1, AppendProperties
  <2>3. \A tx \in Tx : Sent(tx) => Sent(tx)'
    <3>. SUFFICES ASSUME NEW tx \in Tx, Sent(tx) PROVE Sent(tx)'
      OBVIOUS
    <3>1. tx.run \in Runs
      BY DEF Tx
    <3>2. CASE tx.run = r
      <4>1. PICK i \in 1..Len(sent[r]) : sent[r][i] = tx.step
        BY <3>2 DEF Sent
      <4>2. i \in 1..Len(sent'[r]) /\ sent'[r][i] = tx.step
        BY <2>1, <2>2, <4>1
      <4>. QED
        BY <3>2, <4>2 DEF Sent
    <3>3. CASE tx.run # r
      <4>1. sent'[tx.run] = sent[tx.run]
        BY <3>1, <3>3 DEF Moved, OthersWait
      <4>. QED
        BY <4>1 DEF Sent
    <3>. QED
      BY <3>2, <3>3
  <2>4. \A tx \in Tx : tx = TxOf(r) => Sent(tx)'
    <3>1. Len(sent[r]) + 1 \in 1..Len(sent'[r])
      BY <2>1, <2>2
    <3>2. TxOf(r).run = r /\ TxOf(r).step = at[r]
      BY DEF TxOf
    <3>. QED
      BY <2>2, <3>1, <3>2 DEF Sent
  <2>5. ~Sent(TxOf(r))
    BY <1>3, FreshTx
  <2>. QED
    BY <1>3, <2>3, <2>4, <2>5
<1>. QED
  BY <1>2, <1>3 DEF Moved, Submission

LEMMA SentWithoutRuns ==
  ASSUME UNCHANGED clientVars
  PROVE  \A tx \in Tx : Sent(tx) <=> Sent(tx)'
  BY DEF clientVars, Sent

LEMMA ChainedNext ==
  ASSUME CInv, Chained, AnyStep
  PROVE  Chained'
<1>1. Len(fork) \in Nat
  BY LedgerTypes DEF CInv
<1>2. CASE UNCHANGED <<fork, rooted>>
  BY <1>2 DEF Chained, BankAt
<1>3. ASSUME NEW tx \in pool, NEW ok \in BOOLEAN, Lands(tx, ok) PROVE Chained'
  <2>. SUFFICES ASSUME NEW i \in 1..Len(fork') PROVE Executed(fork'[i], BankAt(i - 1)')
    BY DEF Chained
  <2>1. i - 1 \in 0..Len(fork) /\ BankAt(i - 1)' = BankAt(i - 1)
    BY <1>1, <1>3 DEF Lands
  <2>2. CASE i \in 1..Len(fork)
    BY <1>3, <2>1, <2>2 DEF Lands, Chained
  <2>3. CASE i = Len(fork) + 1
    <3>1. i - 1 = Len(fork)
      BY <1>1, <2>3
    <3>. QED
      BY <1>3, <2>1, <2>3, <3>1 DEF Lands
  <2>. QED
    BY <1>1, <1>3, <2>2, <2>3 DEF Lands
<1>4. ASSUME Roots PROVE Chained'
  <2>. SUFFICES ASSUME NEW i \in 1..Len(fork') PROVE Executed(fork'[i], BankAt(i - 1)')
    BY DEF Chained
  <2>1. /\ i \in 1..(Len(fork) - 1) /\ i - 1 \in 0..(Len(fork) - 1) /\ i + 1 \in 1..Len(fork)
        /\ i - 1 + 1 = i /\ i + 1 - 1 = i
    BY <1>1, <1>4 DEF Roots
  <2>2. fork'[i] = fork[i + 1] /\ BankAt(i - 1)' = BankAt(i - 1 + 1)
    BY <1>4, <2>1 DEF Roots
  <2>3. Executed(fork[i + 1], BankAt(i + 1 - 1))
    BY <2>1 DEF Chained
  <2>. QED
    BY <2>1, <2>2, <2>3
<1>5. ASSUME NEW k \in 0..MaxFork, Switches(k) PROVE Chained'
  <2>. SUFFICES ASSUME NEW i \in 1..Len(fork') PROVE Executed(fork'[i], BankAt(i - 1)')
    BY DEF Chained
  <2>1. i \in 1..k /\ i - 1 \in 0..k /\ i \in 1..Len(fork)
    BY <1>1, <1>5 DEF Switches
  <2>. QED
    BY <1>5, <2>1 DEF Switches, Chained
<1>. QED
  BY <1>2, <1>3, <1>4, <1>5 DEF AnyStep, Moved, Settles

LEMMA HandedOverNext ==
  ASSUME CInv, HandedOver, AnyStep
  PROVE  HandedOver'
<1>1. /\ Len(fork) \in Nat /\ pool \subseteq Tx /\ \A i \in 1..Len(fork) : fork[i].tx \in Tx
      /\ \A f \in final : f.tx \in Tx
  BY LedgerTypes DEF CInv, TypeOK
<1>2. ASSUME NEW r \in Runs, Moved(r) PROVE HandedOver'
  <2>1. /\ \A tx \in Tx : Sent(tx) => Sent(tx)'
        /\ \A tx \in Tx : tx \in pool' => tx \in pool \/ Sent(tx)'
    BY <1>2, SentStays
  <2>2. pool' \subseteq Tx
    <3>1. at[r] \in Step /\ TxOf(r) \in Tx
      BY DEF CInv, TypeOK, TxOf, Tx
    <3>. QED
      BY <1>1, <1>2, <3>1 DEF Moved, Submission
  <2>3. UNCHANGED <<fork, final>>
    BY <1>2 DEF Moved
  <2>. QED
    BY <1>1, <2>1, <2>2, <2>3 DEF HandedOver
<1>3. ASSUME NEW tx \in pool, NEW ok \in BOOLEAN, Lands(tx, ok) PROVE HandedOver'
  <2>1. /\ UNCHANGED clientVars /\ UNCHANGED final /\ pool' \subseteq pool
        /\ \A i \in 1..Len(fork') : fork'[i].tx \in pool \/ (i \in 1..Len(fork) /\ fork'[i] = fork[i])
    BY <1>1, <1>3 DEF Lands
  <2>. QED
    BY <1>1, <2>1, SentWithoutRuns DEF HandedOver
<1>4. ASSUME Roots PROVE HandedOver'
  <2>1. UNCHANGED clientVars /\ UNCHANGED pool /\ 1 \in 1..Len(fork)
    BY <1>1, <1>4 DEF Roots
  <2>2. \A i \in 1..Len(fork') : i + 1 \in 1..Len(fork) /\ fork'[i] = fork[i + 1]
    BY <1>1, <1>4 DEF Roots
  <2>3. \A f \in final' : f \in final \/ f.tx = fork[1].tx
    BY <1>4 DEF Roots
  <2>. QED
    BY <1>1, <2>1, <2>2, <2>3, SentWithoutRuns DEF HandedOver
<1>5. ASSUME NEW k \in 0..MaxFork, Switches(k) PROVE HandedOver'
  <2>1. /\ UNCHANGED clientVars /\ UNCHANGED final
        /\ \A i \in 1..Len(fork') : i \in 1..Len(fork) /\ fork'[i] = fork[i]
    BY <1>1, <1>5 DEF Switches
  <2>2. \A tx \in pool' : tx \in pool \/ \E i \in 1..Len(fork) : tx = fork[i].tx
    <3>1. \A i \in (k + 1)..Len(fork) : i \in 1..Len(fork)
      BY <1>1, <1>5 DEF Switches
    <3>. QED
      BY <1>5, <3>1 DEF Switches
  <2>. QED
    BY <1>1, <2>1, <2>2, SentWithoutRuns DEF HandedOver
<1>6. ASSUME Settles PROVE HandedOver'
  <2>1. UNCHANGED clientVars /\ UNCHANGED <<fork, final>> /\ pool' \subseteq pool
    BY <1>6 DEF Settles
  <2>. QED
    BY <1>1, <2>1, SentWithoutRuns DEF HandedOver
<1>. QED
  BY <1>2, <1>3, <1>4, <1>5, <1>6 DEF AnyStep

LEMMA OnceNext ==
  ASSUME CInv, HandedOver, Once, AnyStep
  PROVE  Once'
<1>1. /\ Len(fork) \in Nat /\ pool \subseteq Tx /\ \A i \in 1..Len(fork) : fork[i].tx \in Tx
      /\ \A f \in final : f.tx \in Tx
  BY LedgerTypes DEF CInv, TypeOK
<1>2. ASSUME NEW r \in Runs, Moved(r) PROVE Once'
  <2>1. \A tx \in Tx : tx \in pool' => tx \in pool \/ ~Sent(tx)
    BY <1>2, SentStays
  <2>2. UNCHANGED <<fork, final>>
    BY <1>2 DEF Moved
  <2>. QED
    BY <1>1, <2>1, <2>2 DEF Once, HandedOver
<1>3. ASSUME NEW tx \in pool, NEW ok \in BOOLEAN, Lands(tx, ok) PROVE Once'
  <2>1. UNCHANGED final /\ pool' = pool \ {tx}
    BY <1>3 DEF Lands
  <2>2. \A i \in 1..Len(fork') :
          \/ i \in 1..Len(fork) /\ fork'[i] = fork[i]
          \/ i = Len(fork) + 1 /\ fork'[i].tx = tx
    BY <1>1, <1>3 DEF Lands
  <2>3. \A i \in 1..Len(fork) : fork[i].tx # tx
    BY DEF Once
  <2>. QED
    BY <1>1, <2>1, <2>2, <2>3 DEF Once
<1>4. ASSUME Roots PROVE Once'
  <2>1. UNCHANGED pool /\ 1 \in 1..Len(fork)
    BY <1>1, <1>4 DEF Roots
  <2>2. \A i \in 1..Len(fork') : i + 1 \in 1..Len(fork) /\ i + 1 # 1 /\ fork'[i] = fork[i + 1]
    BY <1>1, <1>4 DEF Roots
  <2>3. \A f \in final' : f \in final \/ f.tx = fork[1].tx
    BY <1>4 DEF Roots
  <2>4. \A i, j \in 1..Len(fork') : i # j => i + 1 # j + 1
    BY <1>1, <1>4 DEF Roots
  <2>5. \A i \in 1..Len(fork') : fork'[i].tx \notin pool'
    BY <2>1, <2>2 DEF Once
  <2>6. \A i, j \in 1..Len(fork') : i # j => fork'[i].tx # fork'[j].tx
    BY <2>2, <2>4 DEF Once
  <2>7. \A f \in final' : f.tx \notin pool' /\ \A i \in 1..Len(fork') : fork'[i].tx # f.tx
    <3>1. \A f \in final : f.tx \notin pool' /\ \A i \in 1..Len(fork') : fork'[i].tx # f.tx
      BY <2>1, <2>2 DEF Once
    <3>2. fork[1].tx \notin pool' /\ \A i \in 1..Len(fork') : fork'[i].tx # fork[1].tx
      BY <2>1, <2>2 DEF Once
    <3>. QED
      BY <2>3, <3>1, <3>2
  <2>. QED
    BY <2>5, <2>6, <2>7 DEF Once
<1>5. ASSUME NEW k \in 0..MaxFork, Switches(k) PROVE Once'
  <2>1. /\ UNCHANGED final
        /\ \A i \in 1..Len(fork') : i \in 1..Len(fork) /\ fork'[i] = fork[i]
    BY <1>1, <1>5 DEF Switches
  <2>2. \A tx \in pool' :
          tx \in pool \/ \E i \in 1..Len(fork) : i \notin 1..Len(fork') /\ tx = fork[i].tx
    <3>1. \A i \in (k + 1)..Len(fork) : i \in 1..Len(fork) /\ i \notin 1..Len(fork')
      BY <1>1, <1>5 DEF Switches
    <3>. QED
      BY <1>5, <3>1 DEF Switches
  <2>3. \A i \in 1..Len(fork') : fork'[i].tx \notin pool'
    <3>. SUFFICES ASSUME NEW i \in 1..Len(fork'), fork'[i].tx \in pool' PROVE FALSE
      OBVIOUS
    <3>1. i \in 1..Len(fork) /\ fork'[i] = fork[i] /\ fork[i].tx \notin pool
      BY <2>1 DEF Once
    <3>2. PICK j \in 1..Len(fork) : j \notin 1..Len(fork') /\ fork[i].tx = fork[j].tx
      BY <2>2, <3>1
    <3>. QED
      BY <3>1, <3>2 DEF Once
  <2>4. \A i, j \in 1..Len(fork') : i # j => fork'[i].tx # fork'[j].tx
    BY <2>1 DEF Once
  <2>5. \A f \in final' : f.tx \notin pool' /\ \A i \in 1..Len(fork') : fork'[i].tx # f.tx
    BY <2>1, <2>2 DEF Once
  <2>. QED
    BY <2>3, <2>4, <2>5 DEF Once
<1>6. ASSUME Settles PROVE Once'
  BY <1>6 DEF Settles, Once
<1>. QED
  BY <1>2, <1>3, <1>4, <1>5, <1>6 DEF AnyStep

LEMMA CreateTxType == ASSUME NEW q \in Runs PROVE CreateTx(q) \in Tx
  BY Steps DEF CreateTx, Tx

\* A buffer that is not created again stays so: the pool and the ledger gain
\* only what is above the i-th entry, or was never handed over.
LEMMA NotAgainStays ==
  ASSUME CInv, CInv', NEW q \in Runs, NEW i \in Int, NEW k \in Int, NotAgain(q, i),
         \A tx \in Tx : Sent(tx) => Sent(tx)',
         \A tx \in Tx : tx \in pool' =>
           \/ tx \in pool \/ ~Sent(tx)
           \/ \E j \in 1..Len(fork) : i < j /\ tx = fork[j].tx,
         \A m \in 1..Len(fork') : k < m =>
           \/ fork'[m].tx \in pool
           \/ \E j \in 1..Len(fork) : i < j /\ fork'[m].tx = fork[j].tx
  PROVE  NotAgain(q, k)'
  BY CreateTxType DEF NotAgain

LEMMA NotAgainNext ==
  ASSUME CInv, CInv', AnyStep, NEW q \in Runs
  PROVE  /\ NotAgain(q, 0) => NotAgain(q, 0)'
         /\ \A i \in 0..Len(fork) : NotAgain(q, i) =>
              \/ ~Roots /\ i > Len(fork')
              \/ ~Roots /\ NotAgain(q, i)'
              \/ Roots /\ (i > 0 => NotAgain(q, i - 1)')
<1>1. /\ Len(fork) \in Nat /\ \A i \in 1..Len(fork) : fork[i].tx \in Tx
      /\ pool \subseteq Tx /\ 0 \in 0..Len(fork)
  BY LedgerTypes DEF CInv, TypeOK
<1>2. ASSUME ~Roots, NEW i \in 0..Len(fork), NotAgain(q, i)
      PROVE  i > Len(fork') \/ NotAgain(q, i)'
  <2>1. ASSUME NEW r \in Runs, Moved(r) PROVE NotAgain(q, i)'
    <3>1. /\ \A tx \in Tx : Sent(tx) => Sent(tx)'
          /\ \A tx \in Tx : tx \in pool' => tx \in pool \/ ~Sent(tx)
      BY <2>1, SentStays
    <3>2. fork' = fork
      BY <2>1 DEF Moved
    <3>. QED
      BY <1>2, <3>1, <3>2, CreateTxType DEF NotAgain
  <2>2. ASSUME NEW tx \in pool, NEW ok \in BOOLEAN, Lands(tx, ok) PROVE NotAgain(q, i)'
    <3>1. /\ UNCHANGED clientVars /\ pool' \subseteq pool
          /\ \A m \in 1..Len(fork') : fork'[m].tx \in pool \/ (m \in 1..Len(fork) /\ fork'[m] = fork[m])
      BY <1>1, <2>2 DEF Lands
    <3>. QED
      BY <1>2, <3>1, SentWithoutRuns, CreateTxType DEF NotAgain
  <2>3. ASSUME NEW k \in 0..MaxFork, Switches(k), i <= k PROVE NotAgain(q, i)'
    <3>1. /\ UNCHANGED clientVars
          /\ \A m \in 1..Len(fork') : m \in 1..Len(fork) /\ fork'[m] = fork[m]
      BY <1>1, <2>3 DEF Switches
    <3>2. \A tx \in pool' : tx \in pool \/ \E j \in 1..Len(fork) : i < j /\ tx = fork[j].tx
      <4>1. k \in Int /\ i \in Int /\ \A j \in (k + 1)..Len(fork) : j \in 1..Len(fork) /\ i < j
        BY <1>1, <2>3 DEF Switches
      <4>. QED
        BY <2>3, <4>1 DEF Switches
    <3>. QED
      BY <1>2, <3>1, <3>2, SentWithoutRuns, CreateTxType DEF NotAgain
  <2>4. ASSUME NEW k \in 0..MaxFork, Switches(k) PROVE Len(fork') = k /\ k \in Nat /\ i \in Nat
    BY <1>1, <2>4 DEF Switches
  <2>5. ASSUME Settles PROVE NotAgain(q, i)'
    <3>1. UNCHANGED clientVars /\ UNCHANGED fork /\ pool' \subseteq pool
      BY <2>5 DEF Settles
    <3>. QED
      BY <1>2, <3>1, SentWithoutRuns, CreateTxType DEF NotAgain
  <2>6. \A k \in 0..MaxFork : Switches(k) => i <= k \/ i > k
    BY <2>4
  <2>. QED
    BY <1>2, <2>1, <2>2, <2>3, <2>4, <2>5, <2>6 DEF AnyStep
<1>3. ASSUME Roots, NEW i \in 0..Len(fork), NotAgain(q, i)
      PROVE  /\ i > 0 => NotAgain(q, i - 1)'
             /\ i = 0 => NotAgain(q, 0)'
  <2>1. UNCHANGED clientVars /\ UNCHANGED pool
    BY <1>3 DEF Roots
  <2>2. \A m \in 1..Len(fork') :
          /\ m + 1 \in 1..Len(fork) /\ fork'[m] = fork[m + 1]
          /\ i - 1 < m => i < m + 1
          /\ 0 < m => 0 < m + 1
    BY <1>1, <1>3 DEF Roots
  <2>. QED
    BY <1>3, <2>1, <2>2, SentWithoutRuns, CreateTxType DEF NotAgain
<1>4. Len(fork') \in Nat
  BY LedgerTypes DEF CInv
<1>. QED
  BY <1>1, <1>2, <1>3, <1>4

\* What the banks of the ledger are after a step.
LEMMA BanksNext ==
  ASSUME CInv, CInv', AnyStep, NEW k \in 0..Len(fork')
  PROVE  \/ Roots /\ k + 1 \in 1..Len(fork) /\ BankAt(k)' = BankAt(k + 1)
         \/ ~Roots /\ k \in 0..Len(fork) /\ BankAt(k)' = BankAt(k)
         \/ \E tx \in pool, ok \in BOOLEAN :
              Lands(tx, ok) /\ k = Len(fork) + 1 /\ ~Roots
<1>1. Len(fork) \in Nat /\ Len(fork') \in Nat
  BY LedgerTypes DEF CInv
<1>2. CASE Roots
  BY <1>1, <1>2 DEF Roots
<1>3. CASE ~Roots /\ UNCHANGED <<fork, rooted>>
  BY <1>1, <1>3 DEF BankAt
<1>4. ASSUME ~Roots, NEW tx \in pool, NEW ok \in BOOLEAN, Lands(tx, ok)
      PROVE  \/ k \in 0..Len(fork) /\ BankAt(k)' = BankAt(k)
             \/ k = Len(fork) + 1
  BY <1>1, <1>4 DEF Lands
<1>5. ASSUME NEW m \in 0..MaxFork, Switches(m) PROVE k \in 0..Len(fork) /\ BankAt(k)' = BankAt(k)
  BY <1>1, <1>5 DEF Switches
<1>. QED
  BY <1>2, <1>3, <1>4, <1>5 DEF AnyStep, Moved, Settles

LEMMA LandedBank ==
  ASSUME CInv, HandedOver, NEW tx \in pool, NEW ok \in BOOLEAN, Lands(tx, ok),
         NEW k, k = Len(fork) + 1
  PROVE  LET b == BankAt(Len(fork))
             c == BankAt(k)' IN
         /\ tx \in Tx /\ Sent(tx) /\ Sent(tx)' /\ b \in Bank
         /\ c = b \/ (CanExec(tx, b) /\ c = DoExec(tx, b))
<1>1. Len(fork) \in Nat /\ BankAt(Len(fork)) \in Bank
  BY LedgerTypes DEF CInv
<1>2. tx \in Tx /\ Sent(tx) /\ Sent(tx)'
  BY SentWithoutRuns DEF Lands, HandedOver
<1>3. k \in Nat /\ BankAt(k)' = fork'[k].bank
  BY <1>1 DEF Lands
<1>4. Executed(fork'[k], BankAt(Len(fork))) /\ fork'[k].tx = tx
  BY DEF Lands
<1>. QED
  BY <1>1, <1>2, <1>3, <1>4 DEF Executed

LEMMA CreatedOnceNext ==
  ASSUME CInv, CInv', HandedOver, CreatedOnce, AnyStep
  PROVE  CreatedOnce'
<1>. SUFFICES ASSUME NEW k \in 0..Len(fork'), NEW q \in Runs, BankAt(k)'.buf[q] # NoAccount
              PROVE  NotAgain(q, k)'
  BY DEF CreatedOnce
<1>1. Len(fork) \in Nat /\ Len(fork') \in Nat /\ k \in Nat
  BY LedgerTypes DEF CInv
<1>2. CASE Roots /\ k + 1 \in 1..Len(fork) /\ BankAt(k)' = BankAt(k + 1)
  <2>1. k + 1 \in 0..Len(fork) /\ k + 1 > 0 /\ k + 1 - 1 = k
    BY <1>1, <1>2
  <2>2. NotAgain(q, k + 1)
    BY <1>2, <2>1 DEF CreatedOnce
  <2>3. NotAgain(q, k + 1 - 1)'
    BY <1>2, <2>1, <2>2, NotAgainNext
  <2>. QED
    BY <2>1, <2>3
<1>3. CASE ~Roots /\ k \in 0..Len(fork) /\ BankAt(k)' = BankAt(k)
  <2>1. NotAgain(q, k)
    BY <1>3 DEF CreatedOnce
  <2>. QED
    BY <1>1, <1>3, <2>1, NotAgainNext
<1>4. ASSUME NEW tx \in pool, NEW ok \in BOOLEAN, Lands(tx, ok), k = Len(fork) + 1, ~Roots
      PROVE  NotAgain(q, k)'
  <2>. DEFINE b == BankAt(Len(fork))
              c == BankAt(k)'
  <2>1. /\ tx \in Tx /\ Sent(tx)' /\ Sent(tx) /\ b \in Bank
        /\ c = b \/ (CanExec(tx, b) /\ c = DoExec(tx, b))
    BY <1>4, LandedBank
  <2>2. c.buf[q] # NoAccount
    BY <1>4
  <2>3. b.buf[q] # NoAccount \/ (tx.step.op = "create" /\ q = tx.run)
    <3>. HIDE DEF b, c
    <3>. QED
      BY <2>1, <2>2, ExecEffect
  <2>4. CASE b.buf[q] # NoAccount
    <3>1. PICK m \in 0..Len(fork) : m = Len(fork)
      BY <1>1
    <3>2. NotAgain(q, m) /\ Len(fork') = Len(fork) + 1
      BY <1>4, <2>4, <3>1 DEF CreatedOnce, Lands
    <3>3. NotAgain(q, m)'
      BY <1>1, <1>4, <3>1, <3>2, NotAgainNext
    <3>. QED
      BY <1>1, <1>4, <3>1, <3>3 DEF NotAgain
  <2>5. CASE tx.step.op = "create" /\ q = tx.run
    <3>1. tx = CreateTx(q)
      BY <2>1, <2>5, SentIsPlain
    <3>2. /\ CreateTx(q) \notin pool'
          /\ \A j \in 1..Len(fork') : ~(k < j)
      BY <1>1, <1>4, <3>1 DEF Lands
    <3>3. CreateTx(q)' = CreateTx(q)
      BY DEF CreateTx
    <3>. QED
      BY <2>1, <3>1, <3>2, <3>3 DEF NotAgain
  <2>. QED
    BY <2>3, <2>4, <2>5
<1>. QED
  BY <1>2, <1>3, <1>4, BanksNext

AllFunded == \A b \in Banks : Funded(b)

LEMMA FundedNext ==
  ASSUME CInv, CInv', HandedOver, AllFunded, AnyStep
  PROVE  AllFunded'
<1>1. /\ Len(fork) \in Nat /\ \A i \in 0..Len(fork) : Funded(BankAt(i))
      /\ Banks' = {BankAt(i)' : i \in 0..Len(fork')}
  BY LedgerTypes, LedgerTypesNext DEF CInv, AllFunded
<1>. SUFFICES ASSUME NEW k \in 0..Len(fork') PROVE Funded(BankAt(k)')
  BY <1>1 DEF AllFunded, Funded
<1>2. CASE k + 1 \in 1..Len(fork) /\ BankAt(k)' = BankAt(k + 1)
  BY <1>1, <1>2
<1>3. CASE k \in 0..Len(fork) /\ BankAt(k)' = BankAt(k)
  BY <1>1, <1>3
<1>4. ASSUME NEW tx \in pool, NEW ok \in BOOLEAN, Lands(tx, ok), k = Len(fork) + 1
      PROVE  Funded(BankAt(k)')
  <2>. DEFINE b == BankAt(Len(fork))
              c == BankAt(k)'
  <2>1. /\ tx \in Tx /\ b \in Bank
        /\ c = b \/ (CanExec(tx, b) /\ c = DoExec(tx, b))
    BY <1>4, LandedBank
  <2>2. Funded(b)
    BY <1>1
  <2>3. Funded(c)
    <3>. HIDE DEF b, c
    <3>. QED
      BY <2>1, <2>2, ExecEffect
  <2>. QED
    BY <1>4, <2>3
<1>. QED
  BY <1>2, <1>3, <1>4, BanksNext

Ledgered == CInv /\ LInv

LEMMA LedgeredInit == Init => Ledgered
<1>. SUFFICES ASSUME Init PROVE Ledgered
  OBVIOUS
<1>1. CInv /\ pool = {} /\ fork = <<>> /\ final = {}
  BY CInit DEF Init
<1>2. PICK lamports \in PayerFunds : rooted = EmptyBank(lamports)
  BY DEF Init
<1>3. Len(fork) = 0 /\ \A q \in Runs : rooted.buf[q] = NoAccount
  BY <1>1, <1>2 DEF EmptyBank
<1>4. \A i \in 0..Len(fork) : BankAt(i) = rooted
  BY <1>3 DEF BankAt
<1>5. \A b \in Banks : b = rooted
  BY <1>3 DEF Banks
<1>. QED
  BY <1>1, <1>3, <1>4, <1>5
  DEF Ledgered, LInv, Chained, HandedOver, Once, CreatedOnce, Funded

LEMMA LedgeredNext == Ledgered /\ [Next]_vars => Ledgered' /\ AnyStep
<1>. SUFFICES ASSUME Ledgered, [Next]_vars PROVE Ledgered' /\ AnyStep
  OBVIOUS
<1>1. CInv /\ CInv' /\ AnyStep
  BY CNext, NextSteps DEF Ledgered, CInv
<1>2. Chained /\ HandedOver /\ Once /\ CreatedOnce /\ AllFunded
  BY DEF Ledgered, LInv, AllFunded
<1>3. Chained' /\ HandedOver' /\ Once' /\ CreatedOnce' /\ AllFunded'
  BY <1>1, <1>2, ChainedNext, HandedOverNext, OnceNext, CreatedOnceNext, FundedNext
<1>. QED
  BY <1>1, <1>3 DEF Ledgered, LInv, AllFunded

LEMMA LedgeredInvariant == Spec => []Ledgered
  BY LedgeredInit, LedgeredNext, PTL DEF Spec

-----------------------------------------------------------------------------
(* The finalized bank.                                                     *)

LEMMA RootedNext ==
  ASSUME Ledgered, AnyStep
  PROVE  \/ rooted' = rooted
         \/ LET tx == fork[1].tx IN
            /\ Roots /\ tx \in Tx /\ Sent(tx) /\ rooted \in Bank
            /\ CanExec(tx, rooted) /\ rooted' = DoExec(tx, rooted)
<1>1. Len(fork) \in Nat /\ rooted \in Bank
  BY LedgerTypes DEF Ledgered, CInv
<1>2. CASE Roots
  <2>1. 1 \in 1..Len(fork) /\ rooted' = fork[1].bank
    BY <1>1, <1>2 DEF Roots
  <2>2. Executed(fork[1], BankAt(1 - 1)) /\ fork[1].tx \in Tx /\ Sent(fork[1].tx)
    BY <2>1, LedgerTypes DEF Ledgered, CInv, LInv, Chained, HandedOver
  <2>3. BankAt(1 - 1) = rooted
    BY DEF BankAt
  <2>. QED
    BY <1>1, <1>2, <2>1, <2>2, <2>3 DEF Executed
<1>. QED
  BY <1>2 DEF AnyStep, Moved, Lands, Switches, Settles

\* The finalized program stays, and only an upgrade changes its code.
LEMMA ProgramNext ==
  ASSUME Ledgered, AnyStep
  PROVE  /\ Kept(rooted.prog, rooted'.prog)
         /\ rooted'.prog # rooted.prog =>
              /\ Roots /\ fork[1].tx.step.op = "final" /\ rooted'.prog.by = fork[1].tx.run
              /\ fork[1].tx = FinalTx(fork[1].tx.run)
              /\ rooted.prog # NoAccount => Cfg[rooted'.prog.by].kind = "upgrade"
<1>1. CASE rooted' = rooted
  BY <1>1 DEF Kept
<1>2. CASE LET tx == fork[1].tx IN
           /\ Roots /\ tx \in Tx /\ Sent(tx) /\ rooted \in Bank
           /\ CanExec(tx, rooted) /\ rooted' = DoExec(tx, rooted)
  <2>. DEFINE tx == fork[1].tx
              c == rooted'
  <2>1. /\ Roots /\ tx \in Tx /\ Sent(tx) /\ rooted \in Bank
        /\ CanExec(tx, rooted) /\ c = DoExec(tx, rooted)
    BY <1>2
  <2>2. tx.step.op = "final" => tx = FinalTx(tx.run)
    BY <2>1, SentIsPlain DEF Ledgered
  <2>. HIDE DEF tx, c
  <2>3. /\ Kept(rooted.prog, c.prog)
        /\ \/ c.prog = rooted.prog
           \/ /\ tx.step.op = "final" /\ c.prog # NoAccount /\ c.prog.by = tx.run
              /\ rooted.prog # NoAccount => Cfg[tx.run].kind = "upgrade"
    BY <2>1, ExecEffect
  <2>. QED
    BY <2>1, <2>2, <2>3 DEF tx, c
<1>. QED
  BY <1>1, <1>2, RootedNext

\* An upgrade starts to send only after its checks of the live program.
LEMMA UpgradeIsChecked ==
  ASSUME CInv, NEW r \in Runs, RunStep(r) \/ Disturb(r), Cfg[r].kind = "upgrade",
         sent[r] = <<>>, pc[r] \notin {"balance", "submit"}, pc'[r] \in {"balance", "submit"}
  PROVE  CanBeUpgradedBy(r, rooted.prog)
<1>1. ClientType /\ Follows(r, pc[r], at[r], sent[r])
  BY DEF CInv, TypeOK, ClientType, Script
<1>2. \A label : Goto(r, label) => pc'[r] = label
  BY <1>1 DEF Goto, ClientType
<1>3. ~Prepare(r)
  BY <1>2 DEF Prepare
<1>4. ~InspectBuffer(r)
  BY <1>1 DEF InspectBuffer, Follows
<1>5. InspectProgramData(r) => CanBeUpgradedBy(r, rooted.prog)
  BY <1>2 DEF InspectProgramData
<1>6. ~CheckBalance(r) /\ ~Submit(r) /\ ~\E d \in BOOLEAN : SubmitAmbiguous(r, d)
  BY DEF CheckBalance, Submit, SubmitAmbiguous
<1>7. ~Settle(r) /\ ~ReadBack(r) /\ ~SettleFailed(r) /\ ~Checkpoint(r)
  BY <1>1 DEF Settle, ReadBack, SettleFailed, Checkpoint, Follows, Waiting
<1>8. ~VerifyProgram(r) /\ ~VerifyProgramData(r)
  BY <1>1 DEF VerifyProgram, VerifyProgramData, Follows, Verifying
<1>9. ~GiveUp(r) /\ ~Crash(r)
  BY <1>2 DEF GiveUp, Crash
<1>. QED
  BY <1>3, <1>4, <1>5, <1>6, <1>7, <1>8, <1>9 DEF RunStep, Disturb

LEMMA CheckedUpgradeNext ==
  ASSUME Ledgered, AnyStep, CheckedUpgrade
  PROVE  CheckedUpgrade'
<1>1. CInv
  BY DEF Ledgered
<1>2. ASSUME NEW r \in Runs, RunStep(r) \/ Disturb(r), Moved(r) PROVE CheckedUpgrade'
  <2>. SUFFICES ASSUME NEW q \in Runs, Cfg[q].kind = "upgrade",
                       sent'[q] # <<>> \/ pc'[q] \in {"balance", "submit"}
                PROVE  CanBeUpgradedBy(q, rooted.prog)
    BY <1>2 DEF CheckedUpgrade, Moved, CanBeUpgradedBy
  <2>1. CASE sent[q] # <<>> \/ pc[q] \in {"balance", "submit"}
    BY <2>1 DEF CheckedUpgrade
  <2>2. CASE sent[q] = <<>> /\ pc[q] \notin {"balance", "submit"}
    <3>1. q = r
      BY <1>2, <2>2 DEF Moved, OthersWait
    <3>2. sent'[q] = sent[q]
      BY <1>2, <2>2, <3>1 DEF Moved, Submission
    <3>. QED
      BY <1>1, <1>2, <2>2, <3>1, <3>2, UpgradeIsChecked
  <2>. QED
    BY <2>1, <2>2
<1>3. CASE UNCHANGED clientVars
  <2>1. Kept(rooted.prog, rooted'.prog)
    BY ProgramNext
  <2>. QED
    BY <1>3, <2>1 DEF CheckedUpgrade, CanBeUpgradedBy, Kept, clientVars
<1>. QED
  BY <1>2, <1>3 DEF AnyStep, Lands, Roots, Switches, Settles

\* An upgrade by another authority, or to an artifact that does not fit, hands
\* nothing to RPC: its checks of the finalized program come first, and what they
\* saw cannot change afterwards.
THEOREM UpgradesAreChecked == Spec => []RefusedUpgradesSendNothing
<1>1. Init => CheckedUpgrade
  BY DEF Init, CheckedUpgrade
<1>2. Ledgered /\ CheckedUpgrade /\ [Next]_vars => CheckedUpgrade'
  BY LedgeredNext, CheckedUpgradeNext
<1>3. Ledgered /\ CheckedUpgrade => RefusedUpgradesSendNothing
  <2>. SUFFICES ASSUME Ledgered, CheckedUpgrade, NEW r \in Runs, Cfg[r].kind = "upgrade",
                       rooted.prog # NoAccount,
                       \/ rooted.prog.authority # Cfg[r].authority
                       \/ Len0(r) > Len(rooted.prog.data),
                       sent[r] # <<>>
                PROVE  FALSE
    BY DEF RefusedUpgradesSendNothing
  <2>1. CanBeUpgradedBy(r, rooted.prog)
    BY DEF CheckedUpgrade
  <2>2. Len(rooted.prog.data) \in Nat /\ Len0(r) \in Nat
    BY BankTypes, ConfigTypes DEF Ledgered, CInv, TypeOK
  <2>. QED
    BY <2>1, <2>2 DEF CanBeUpgradedBy
<1>. QED
  BY <1>1, <1>2, <1>3, LedgeredInvariant, PTL DEF Spec

-----------------------------------------------------------------------------
(* A whole buffer stays whole until a program is made of it.               *)

\* Which runs are called never changes.
LEMMA SameArtifactStays ==
  ASSUME AnyStep, NEW r \in Runs
  PROVE  SameArtifact(r)' <=> SameArtifact(r)
<1>1. ASSUME NEW q \in Runs, Moved(q)
      PROVE  \A p \in Runs : pc'[p] = "uncalled" <=> pc[p] = "uncalled"
  BY <1>1 DEF Moved, OthersWait, Active
<1>2. CASE UNCHANGED clientVars
  BY <1>2 DEF SameArtifact, clientVars
<1>. QED
  BY <1>1, <1>2 DEF SameArtifact, AnyStep, Lands, Roots, Switches, Settles

LEMMA SentByCalled ==
  ASSUME CInv, NEW tx \in Tx, Sent(tx)
  PROVE  pc[tx.run] # "uncalled"
<1>1. tx.run \in Runs
  BY DEF Tx
<1>2. Follows(tx.run, pc[tx.run], at[tx.run], sent[tx.run]) /\ sent[tx.run] \in Seq(Step)
  BY <1>1 DEF CInv, TypeOK, Script
<1>3. sent[tx.run] # <<>>
  BY DEF Sent
<1>. QED
  BY <1>2, <1>3 DEF Follows, Early

\* A run that has handed over its final transaction is past the read-back.
LEMMA FinalSentAt ==
  ASSUME CInv, NEW tx \in Tx, Sent(tx), tx.step.op = "final"
  PROVE  at[tx.run] = FinalStep
<1>. DEFINE r == tx.run
<1>1. r \in Runs
  BY DEF Tx
<1>2. Follows(r, pc[r], at[r], sent[r]) /\ sent[r] \in Seq(Step) /\ at[r] \in Step
  BY <1>1 DEF CInv, TypeOK, Script
<1>3. PICK i \in 1..Len(sent[r]) : sent[r][i] = tx.step
  BY DEF Sent
<1>4. Rank(tx.step) = MaxLen + 2 /\ Rank(tx.step) <= Rank(at[r])
  BY <1>2, <1>3, Steps, ElementOfSeq DEF Follows
<1>5. /\ at[r].op \in {"create", "write", "final"} /\ at[r].offset \in 0..MaxLen
      /\ MaxLen \in Nat
      /\ at[r].op = "create" => Rank(at[r]) = 0
      /\ at[r].op = "write" => Rank(at[r]) = at[r].offset + 1
  BY <1>2, Steps, ConfigTypes, <1>1
<1>6. at[r].op = "final"
  BY <1>4, <1>5
<1>. QED
  BY <1>2, <1>6 DEF Follows, Plain

LEMMA LandedClean ==
  ASSUME Ledgered, NEW tx \in pool, NEW ok \in BOOLEAN, Lands(tx, ok),
         NEW r \in Runs, SameArtifact(r), CreateTx(Cfg[r].buffer) \notin pool,
         Clean(BankAt(Len(fork)), r), NEW k, k = Len(fork) + 1
  PROVE  Clean(BankAt(k)', r)
<1>. DEFINE b == BankAt(Len(fork))
            c == BankAt(k)'
<1>1. /\ tx \in Tx /\ Sent(tx) /\ b \in Bank /\ Clean(b, r)
      /\ c = b \/ (CanExec(tx, b) /\ c = DoExec(tx, b))
  BY LandedBank DEF Ledgered, LInv
<1>2. tx.step.op = "create" => tx.run # Cfg[r].buffer
  BY <1>1, SentIsPlain DEF Ledgered
<1>3. Cfg[tx.run].buffer = Cfg[r].buffer => Elf(tx.run) = Elf(r)
  <2>1. pc[tx.run] # "uncalled" /\ tx.run \in Runs
    BY <1>1, SentByCalled DEF Ledgered, Tx
  <2>. QED
    BY <2>1 DEF SameArtifact
<1>4. Clean(c, r)
  <2>. HIDE DEF b, c
  <2>. QED
    BY <1>1, <1>2, <1>3, ExecClean
<1>. QED
  BY <1>4

LEMMA StaysWholeNext ==
  ASSUME Ledgered, Ledgered', AnyStep, StaysWhole
  PROVE  StaysWhole'
<1>. SUFFICES ASSUME NEW r \in Runs, SameArtifact(r)',
                     NEW i \in 0..Len(fork'), NEW j \in 0..Len(fork'), i <= j,
                     WholeAt(BankAt(i)', r)
              PROVE  Clean(BankAt(j)', r)
  BY DEF StaysWhole, WholeAt, Clean
<1>1. /\ Len(fork) \in Nat /\ Len(fork') \in Nat /\ i \in Nat /\ j \in Nat
      /\ CInv /\ CInv' /\ Cfg[r].buffer \in Runs
  BY LedgerTypes, ConfigTypes DEF Ledgered, CInv
<1>2. SameArtifact(r)
  BY SameArtifactStays
<1>3. CASE Roots
  <2>1. /\ i + 1 \in 1..Len(fork) /\ BankAt(i)' = BankAt(i + 1)
        /\ j + 1 \in 1..Len(fork) /\ BankAt(j)' = BankAt(j + 1)
    BY <1>1, <1>3, BanksNext
  <2>2. i + 1 \in 0..Len(fork) /\ j + 1 \in 0..Len(fork) /\ i + 1 <= j + 1
    BY <1>1, <2>1
  <2>. QED
    BY <1>2, <2>1, <2>2 DEF StaysWhole
<1>4. CASE ~Roots /\ j \in 0..Len(fork) /\ BankAt(j)' = BankAt(j)
  <2>1. i \in 0..Len(fork) /\ i # Len(fork) + 1
    BY <1>1, <1>4
  <2>2. BankAt(i)' = BankAt(i)
    BY <1>1, <1>4, <2>1, BanksNext
  <2>. QED
    BY <1>2, <1>4, <2>1, <2>2 DEF StaysWhole
<1>5. ASSUME NEW tx \in pool, NEW ok \in BOOLEAN, Lands(tx, ok), j = Len(fork) + 1, ~Roots
      PROVE  Clean(BankAt(j)', r)
  <2>1. CASE i = j
    BY <2>1 DEF WholeAt, Clean
  <2>2. CASE i # j
    <3>1. i \in 0..Len(fork) /\ i # Len(fork) + 1 /\ i <= Len(fork)
          /\ Len(fork) \in 0..Len(fork)
      BY <1>1, <1>5, <2>2
    <3>2. BankAt(i)' = BankAt(i)
      BY <1>5, <3>1 DEF Lands
    <3>3. Clean(BankAt(Len(fork)), r)
      BY <1>2, <3>1, <3>2 DEF StaysWhole
    <3>4. NotAgain(Cfg[r].buffer, i)
      BY <1>1, <3>1, <3>2 DEF Ledgered, LInv, CreatedOnce, WholeAt
    <3>. QED
      BY <1>2, <1>5, <3>3, <3>4, LandedClean DEF NotAgain
  <2>. QED
    BY <2>1, <2>2
<1>. QED
  BY <1>1, <1>3, <1>4, <1>5, BanksNext

\* Only the read-back lets a run come to its final transaction.
LEMMA ArmedByReadBack ==
  ASSUME CInv, NEW r \in Runs, RunStep(r) \/ Disturb(r), at[r] # FinalStep, at'[r] = FinalStep
  PROVE  WholeAt(rooted, r) /\ ValidBuffer(r, rooted.buf[Cfg[r].buffer])
<1>1. ClientType
  BY DEF CInv, TypeOK, ClientType
<1>2. at' # at
  OBVIOUS
<1>3. ~Settle(r)
  <2>1. \A o : WriteStep(o) # FinalStep
    BY DEF WriteStep, FinalStep
  <2>2. Settle(r) => at' = at \/ \E o : at' = [at EXCEPT ![r] = WriteStep(o)]
    <3>1. at[r].op \in {"create", "write", "final"} /\ at[r].offset \in Nat
      BY <1>1, ResultTypes, Steps, ConfigTypes
    <3>2. at[r].offset + Cfg[r].chunk < Len0(r) \/ at[r].offset + Cfg[r].chunk >= Len0(r)
      BY <3>1, ConfigTypes
    <3>. QED
      BY <3>1, <3>2 DEF Settle
  <2>. QED
    BY <1>1, <1>2, <2>1, <2>2 DEF ClientType
<1>4. ReadBack(r)
  BY <1>2, <1>3 DEF RunStep, Disturb, Prepare, InspectBuffer, InspectProgramData, CheckBalance,
     Submit, SettleFailed, Checkpoint, VerifyProgram, VerifyProgramData, SubmitAmbiguous,
     GiveUp, Crash
<1>. QED
  BY <1>2, <1>4 DEF ReadBack, Holds, ValidBuffer, WholeAt

LEMMA ArmedNext ==
  ASSUME Ledgered, Ledgered', AnyStep, StaysWhole, Armed
  PROVE  Armed'
<1>. SUFFICES ASSUME NEW r \in Runs, at'[r] = FinalStep
              PROVE  /\ NotAgain(Cfg[r].buffer, 0)'
                     /\ SameArtifact(r)' => \A b \in Banks' : Clean(b, r)
  BY DEF Armed, Clean
<1>1. /\ Len(fork) \in Nat /\ Len(fork') \in Nat /\ CInv /\ CInv' /\ Cfg[r].buffer \in Runs
      /\ Banks = {BankAt(i) : i \in 0..Len(fork)}
      /\ Banks' = {BankAt(i)' : i \in 0..Len(fork')}
  BY LedgerTypes, LedgerTypesNext, ConfigTypes DEF Ledgered, CInv
<1>2. SameArtifact(r)' <=> SameArtifact(r)
  BY SameArtifactStays
<1>3. CASE at[r] = FinalStep
  <2>1. /\ NotAgain(Cfg[r].buffer, 0)
        /\ SameArtifact(r) => \A i \in 0..Len(fork) : Clean(BankAt(i), r)
    BY <1>1, <1>3 DEF Armed
  <2>2. NotAgain(Cfg[r].buffer, 0)'
    BY <1>1, <2>1, NotAgainNext
  <2>3. ASSUME SameArtifact(r), NEW k \in 0..Len(fork') PROVE Clean(BankAt(k)', r)
    <3>1. CASE k + 1 \in 1..Len(fork) /\ BankAt(k)' = BankAt(k + 1)
      <4>1. k + 1 \in 0..Len(fork)
        BY <3>1
      <4>. QED
        BY <2>1, <2>3, <3>1, <4>1
    <3>2. CASE k \in 0..Len(fork) /\ BankAt(k)' = BankAt(k)
      BY <2>1, <2>3, <3>2
    <3>3. ASSUME NEW tx \in pool, NEW ok \in BOOLEAN, Lands(tx, ok), k = Len(fork) + 1
          PROVE  Clean(BankAt(k)', r)
      <4>1. Clean(BankAt(Len(fork)), r) /\ CreateTx(Cfg[r].buffer) \notin pool
        BY <1>1, <2>1, <2>3 DEF NotAgain
      <4>. QED
        BY <2>3, <3>3, <4>1, LandedClean
    <3>. QED
      BY <1>1, <3>1, <3>2, <3>3, BanksNext
  <2>. QED
    BY <1>1, <1>2, <2>2, <2>3
<1>4. CASE at[r] # FinalStep
  <2>1. PICK q \in Runs : (RunStep(q) \/ Disturb(q)) /\ Moved(q)
    BY <1>4 DEF AnyStep, Lands, Roots, Switches, Settles, clientVars
  <2>2. q = r
    BY <1>4, <2>1 DEF Moved, OthersWait
  <2>3. WholeAt(rooted, r)
    BY <1>1, <1>4, <2>1, <2>2, ArmedByReadBack
  <2>4. BankAt(0) = rooted /\ 0 \in 0..Len(fork)
    BY <1>1 DEF BankAt
  <2>5. NotAgain(Cfg[r].buffer, 0)
    BY <1>1, <2>3, <2>4 DEF Ledgered, LInv, CreatedOnce, WholeAt
  <2>6. NotAgain(Cfg[r].buffer, 0)'
    BY <1>1, <2>5, NotAgainNext
  <2>7. SameArtifact(r) => \A j \in 0..Len(fork) : Clean(BankAt(j), r)
    BY <2>3, <2>4 DEF StaysWhole
  <2>8. Banks' = Banks
    BY <2>1 DEF Moved, Banks
  <2>. QED
    BY <1>1, <1>2, <2>6, <2>7, <2>8
<1>. QED
  BY <1>3, <1>4

IntactAt(b) ==
  b.prog # NoAccount /\ SameArtifact(b.prog.by) =>
    b.prog.data = Image(b.prog.by, Len(b.prog.data))

LEMMA DeployedIntactNext ==
  ASSUME Ledgered, Ledgered', AnyStep, Armed, DeployedIntact
  PROVE  DeployedIntact'
<1>1. /\ Len(fork) \in Nat /\ Len(fork') \in Nat /\ CInv /\ CInv'
      /\ Banks = {BankAt(i) : i \in 0..Len(fork)}
      /\ Banks' = {BankAt(i)' : i \in 0..Len(fork')}
      /\ \A i \in 0..Len(fork) : BankAt(i) \in Bank /\ IntactAt(BankAt(i))
  BY LedgerTypes, LedgerTypesNext DEF Ledgered, CInv, DeployedIntact, IntactAt
<1>2. \A i \in 0..Len(fork') : BankAt(i)' \in Bank
  BY LedgerTypesNext DEF Ledgered, CInv
<1>3. ASSUME NEW k \in 0..Len(fork')
      PROVE  IntactAt(BankAt(k)')
  <2>1. CASE k + 1 \in 1..Len(fork) /\ BankAt(k)' = BankAt(k + 1)
    <3>1. k + 1 \in 0..Len(fork)
      BY <2>1
    <3>. QED
      BY <1>1, <2>1, <3>1
  <2>2. CASE k \in 0..Len(fork) /\ BankAt(k)' = BankAt(k)
    BY <1>1, <2>2
  <2>3. ASSUME NEW tx \in pool, NEW ok \in BOOLEAN, Lands(tx, ok), k = Len(fork) + 1
        PROVE  IntactAt(BankAt(k)')
    <3>. DEFINE b == BankAt(Len(fork))
                c == BankAt(k)'
    <3>1. /\ tx \in Tx /\ Sent(tx) /\ b \in Bank /\ IntactAt(b) /\ tx.run \in Runs
          /\ c = b \/ (CanExec(tx, b) /\ c = DoExec(tx, b))
      BY <1>1, <2>3, LandedBank DEF Ledgered, LInv, Tx
    <3>2. tx.step.op = "final" /\ SameArtifact(tx.run) => Clean(b, tx.run)
      <4>. SUFFICES ASSUME tx.step.op = "final", SameArtifact(tx.run) PROVE Clean(b, tx.run)
        OBVIOUS
      <4>1. at[tx.run] = FinalStep
        BY <1>1, <3>1, FinalSentAt
      <4>2. b \in Banks
        BY <1>1
      <4>. QED
        BY <3>1, <4>1, <4>2 DEF Armed
    <3>3. IntactAt(c)
      <4>. HIDE DEF b, c
      <4>1. CASE c.prog = b.prog
        BY <3>1, <4>1 DEF IntactAt
      <4>2. CASE c.prog # b.prog
        <5>1. /\ CanExec(tx, b) /\ c = DoExec(tx, b)
              /\ tx.step.op = "final" /\ c.prog.by = tx.run
          BY <3>1, <4>2, ExecEffect
        <5>2. SameArtifact(tx.run) => c.prog.data = Image(tx.run, Len(c.prog.data))
          BY <3>1, <3>2, <5>1, ExecInstalls
        <5>. QED
          BY <5>1, <5>2 DEF IntactAt
      <4>. QED
        BY <4>1, <4>2
    <3>. QED
      BY <2>3, <3>3
  <2>. QED
    BY <1>1, <2>1, <2>2, <2>3, BanksNext
<1>4. ASSUME NEW b \in Banks', b.prog # NoAccount, SameArtifact(b.prog.by)'
      PROVE  b.prog.data = Image(b.prog.by, Len(b.prog.data))
  <2>1. PICK k \in 0..Len(fork') : b = BankAt(k)'
    BY <1>1, <1>4
  <2>2. b.prog.by \in Runs
    BY <1>2, <1>4, <2>1 DEF Bank, ProgramAccount
  <2>3. SameArtifact(b.prog.by)
    BY <1>4, <2>2, SameArtifactStays
  <2>. QED
    BY <1>3, <1>4, <2>1, <2>3 DEF IntactAt
<1>. QED
  BY <1>4 DEF DeployedIntact

LEMMA WholeInit == Init => WInv
<1>. SUFFICES ASSUME Init PROVE WInv
  OBVIOUS
<1>1. fork = <<>> /\ Len(fork) = 0
  BY DEF Init
<1>2. PICK lamports \in PayerFunds : rooted = EmptyBank(lamports)
  BY DEF Init
<1>3. \A r \in Runs : rooted.buf[Cfg[r].buffer] = NoAccount
  BY <1>2, ConfigTypes DEF EmptyBank
<1>4. \A i \in 0..Len(fork) : BankAt(i) = rooted
  BY <1>1 DEF BankAt
<1>5. \A b \in Banks : b = rooted /\ b.prog = NoAccount
  BY <1>1, <1>2 DEF Banks, EmptyBank
<1>6. \A r \in Runs : at[r] # FinalStep
  BY DEF Init, CreateStep, WriteStep, FinalStep
<1>7. StaysWhole
  BY <1>3, <1>4 DEF StaysWhole, WholeAt
<1>. QED
  BY <1>5, <1>6, <1>7 DEF WInv, Armed, DeployedIntact

LEMMA WholeNext == Ledgered /\ WInv /\ [Next]_vars => WInv'
<1>. SUFFICES ASSUME Ledgered, WInv, [Next]_vars PROVE WInv'
  OBVIOUS
<1>1. Ledgered' /\ AnyStep
  BY LedgeredNext
<1>. QED
  BY <1>1, StaysWholeNext, ArmedNext, DeployedIntactNext DEF WInv

LEMMA WholeInvariant == Spec => []WInv
  BY WholeInit, WholeNext, LedgeredInvariant, PTL DEF Spec

\* What the final transaction of a run installs is its artifact and zero padding, on
\* every fork, unless another run writes something else into the same buffer:
\* the read-back before the irreversible deploy is enough, whatever expires,
\* lands late or is abandoned with its fork.
THEOREM ReadBackSuffices == Spec => []DeployedIntact
<1>1. WInv => DeployedIntact
  BY DEF WInv
<1>. QED
  BY <1>1, WholeInvariant, PTL

-----------------------------------------------------------------------------
(* The checks of the client, made long before the transaction they are for. *)

\* A program of an earlier bank is there in every later one.
KeptInOrder ==
  \A i, j \in 0..Len(fork) : i <= j => Kept(BankAt(i).prog, BankAt(j).prog)

\* A run is past its checks, or has ended.
Idle == {"uncalled", "prepare", "failed", "crashed"}

Validated == \A r \in Runs : pc[r] \notin Idle => ValidConfig(r)

\* The read-back compares the buffer with the Config of the run that reads it.
Fitted ==
  \A r \in Runs : at[r] = FinalStep =>
    /\ Cfg[Cfg[r].buffer].authority = Cfg[r].authority
    /\ Len0(Cfg[r].buffer) = Len0(r)

FitInv == KeptInOrder /\ Validated /\ Fitted /\ CheckedUpgrade

LEMMA KeptTrans ==
  ASSUME NEW a, NEW b, NEW c, Kept(a, b), Kept(b, c)
  PROVE  Kept(a, c)
  BY DEF Kept

LEMMA KeptInOrderNext ==
  ASSUME Ledgered, Ledgered', AnyStep, KeptInOrder
  PROVE  KeptInOrder'
<1>. SUFFICES ASSUME NEW i \in 0..Len(fork'), NEW j \in 0..Len(fork'), i <= j
              PROVE  Kept(BankAt(i)'.prog, BankAt(j)'.prog)
  BY DEF KeptInOrder, Kept
<1>1. /\ Len(fork) \in Nat /\ Len(fork') \in Nat /\ i \in Nat /\ j \in Nat
      /\ CInv /\ CInv'
  BY LedgerTypes DEF Ledgered, CInv
<1>2. CASE i = j
  BY <1>2 DEF Kept
<1>3. CASE Roots
  <2>1. /\ i + 1 \in 1..Len(fork) /\ BankAt(i)' = BankAt(i + 1)
        /\ j + 1 \in 1..Len(fork) /\ BankAt(j)' = BankAt(j + 1)
    BY <1>1, <1>3, BanksNext
  <2>2. i + 1 \in 0..Len(fork) /\ j + 1 \in 0..Len(fork) /\ i + 1 <= j + 1
    BY <1>1, <2>1
  <2>. QED
    BY <2>1, <2>2 DEF KeptInOrder
<1>4. CASE ~Roots /\ j \in 0..Len(fork) /\ BankAt(j)' = BankAt(j)
  <2>1. i \in 0..Len(fork) /\ i # Len(fork) + 1
    BY <1>1, <1>4
  <2>2. BankAt(i)' = BankAt(i)
    BY <1>1, <1>4, <2>1, BanksNext
  <2>. QED
    BY <1>4, <2>1, <2>2 DEF KeptInOrder
<1>5. ASSUME NEW tx \in pool, NEW ok \in BOOLEAN, Lands(tx, ok), j = Len(fork) + 1, ~Roots,
             i # j
      PROVE  Kept(BankAt(i)'.prog, BankAt(j)'.prog)
  <2>. DEFINE b == BankAt(Len(fork))
              c == BankAt(j)'
  <2>1. /\ i \in 0..Len(fork) /\ i # Len(fork) + 1 /\ i <= Len(fork)
        /\ Len(fork) \in 0..Len(fork)
    BY <1>1, <1>5
  <2>2. BankAt(i)' = BankAt(i)
    BY <1>5, <2>1 DEF Lands
  <2>3. Kept(BankAt(i).prog, b.prog)
    BY <2>1 DEF KeptInOrder
  <2>4. /\ tx \in Tx /\ b \in Bank
        /\ c = b \/ (CanExec(tx, b) /\ c = DoExec(tx, b))
    BY <1>1, <1>5, LandedBank DEF Ledgered, LInv
  <2>5. Kept(b.prog, c.prog)
    <3>. HIDE DEF b, c
    <3>1. CASE c = b
      BY <3>1 DEF Kept
    <3>. QED
      BY <2>4, <3>1, ExecEffect
  <2>. QED
    BY <2>2, <2>3, <2>5, KeptTrans
<1>. QED
  BY <1>1, <1>2, <1>3, <1>4, <1>5, BanksNext

\* A run gets past prepare only with a valid Config.
LEMMA ValidatedByPrepare ==
  ASSUME CInv, NEW r \in Runs, RunStep(r) \/ Disturb(r), pc[r] \in Active,
         pc[r] \in Idle, pc'[r] \notin Idle
  PROVE  ValidConfig(r)
<1>1. ClientType
  BY DEF CInv, TypeOK, ClientType
<1>2. pc[r] = "prepare"
  BY DEF Active, Idle
<1>3. \A label : Goto(r, label) => pc'[r] = label
  BY <1>1 DEF Goto, ClientType
<1>4. ~GiveUp(r) /\ ~Crash(r)
  BY <1>3 DEF GiveUp, Crash, Idle
<1>5. ~\E d \in BOOLEAN : SubmitAmbiguous(r, d)
  BY <1>2 DEF SubmitAmbiguous
<1>6. Prepare(r)
  BY <1>2, <1>4, <1>5 DEF RunStep, Disturb, InspectBuffer, InspectProgramData, CheckBalance,
     Submit, Settle, SettleFailed, Checkpoint, ReadBack, VerifyProgram, VerifyProgramData
<1>7. ~ValidConfig(r) => Goto(r, "failed")
  BY <1>6 DEF Prepare
<1>. QED
  BY <1>3, <1>7 DEF Idle

LEMMA ValidatedNext ==
  ASSUME CInv, AnyStep, Validated
  PROVE  Validated'
<1>1. ASSUME NEW r \in Runs, RunStep(r) \/ Disturb(r), Moved(r), NEW q \in Runs, pc'[q] \notin Idle
      PROVE  ValidConfig(q)
  <2>1. CASE pc[q] \notin Idle
    BY <2>1 DEF Validated
  <2>2. CASE pc[q] \in Idle
    <3>1. q = r /\ pc[r] \in Active
      BY <1>1, <2>2 DEF Moved, OthersWait
    <3>. QED
      BY <1>1, <2>2, <3>1, ValidatedByPrepare
  <2>. QED
    BY <2>1, <2>2
<1>2. CASE UNCHANGED clientVars
  BY <1>2 DEF Validated, clientVars
<1>. QED
  BY <1>1, <1>2 DEF Validated, AnyStep, Lands, Roots, Switches, Settles

LEMMA FittedNext ==
  ASSUME Ledgered, AnyStep, Fitted
  PROVE  Fitted'
<1>. SUFFICES ASSUME NEW r \in Runs, at'[r] = FinalStep
              PROVE  /\ Cfg[Cfg[r].buffer].authority = Cfg[r].authority
                     /\ Len0(Cfg[r].buffer) = Len0(r)
  BY DEF Fitted
<1>1. CASE at[r] = FinalStep
  BY <1>1 DEF Fitted
<1>2. CASE at[r] # FinalStep
  <2>1. PICK q \in Runs : (RunStep(q) \/ Disturb(q)) /\ Moved(q)
    BY <1>2 DEF AnyStep, Lands, Roots, Switches, Settles, clientVars
  <2>2. q = r
    BY <1>2, <2>1 DEF Moved, OthersWait
  <2>3. ValidBuffer(r, rooted.buf[Cfg[r].buffer])
    BY <1>2, <2>1, <2>2, ArmedByReadBack DEF Ledgered
  <2>4. Funded(rooted) /\ Cfg[r].buffer \in Runs
    BY ConfigTypes DEF Ledgered, LInv, Banks
  <2>. QED
    BY <2>3, <2>4 DEF ValidBuffer, Funded
<1>. QED
  BY <1>1, <1>2

LEMMA FitInit == Init => FitInv
<1>. SUFFICES ASSUME Init PROVE FitInv
  OBVIOUS
<1>1. \A i, j \in 0..Len(fork) : BankAt(i) = BankAt(j)
  BY DEF Init, BankAt
<1>2. \A r \in Runs : pc[r] \in Idle /\ at[r] # FinalStep /\ sent[r] = <<>>
  BY DEF Init, Idle, CreateStep, WriteStep, FinalStep
<1>3. \A r \in Runs : pc[r] \notin {"balance", "submit"}
  BY <1>2 DEF Idle
<1>. QED
  BY <1>1, <1>2, <1>3 DEF FitInv, KeptInOrder, Kept, Validated, Fitted, CheckedUpgrade

LEMMA FitNext == Ledgered /\ FitInv /\ [Next]_vars => FitInv'
  BY LedgeredNext, KeptInOrderNext, ValidatedNext, FittedNext, CheckedUpgradeNext
     DEF FitInv, Ledgered

\* What was checked still holds in every bank that has the buffer.
LEMMA CheckedFits ==
  ASSUME Ledgered, FitInv
  PROVE  FinalsFit
<1>. SUFFICES ASSUME NEW r \in Runs, pc[r] = "submit", at[r] = FinalStep, NEW b \in Banks,
                     b.buf[Cfg[r].buffer] # NoAccount
              PROVE  IF Cfg[r].kind = "upgrade" THEN CanUpgrade(r, b)
                     ELSE /\ b.buf[Cfg[r].buffer].authority = Cfg[r].authority
                          /\ Len(b.buf[Cfg[r].buffer].data) <= MaxDataLen(r)
  BY DEF FinalsFit
<1>. DEFINE B == Cfg[r].buffer
<1>1. /\ B \in Runs /\ Len0(r) \in Nat /\ MaxDataLen(r) \in Nat
      /\ Cfg[B].authority = Cfg[r].authority /\ Len0(B) = Len0(r)
  BY ConfigTypes DEF FitInv, Fitted
<1>2. b.buf[B].authority = Cfg[r].authority /\ Len(b.buf[B].data) = Len0(r)
  BY <1>1 DEF Ledgered, LInv, Funded
<1>3. ValidConfig(r)
  BY DEF FitInv, Validated, Idle
<1>4. CASE Cfg[r].kind # "upgrade"
  BY <1>1, <1>2, <1>3, <1>4 DEF ValidConfig
<1>5. CASE Cfg[r].kind = "upgrade"
  <2>1. CanBeUpgradedBy(r, rooted.prog)
    BY <1>5 DEF FitInv, CheckedUpgrade
  <2>2. PICK i \in 0..Len(fork) : b = BankAt(i)
    BY LedgerPlaces DEF Ledgered, CInv, Places
  <2>3. Len(fork) \in Nat /\ 0 \in 0..Len(fork) /\ 0 <= i /\ BankAt(0) = rooted
    BY LedgerTypes DEF Ledgered, CInv, BankAt
  <2>4. Kept(rooted.prog, b.prog)
    BY <2>2, <2>3 DEF FitInv, KeptInOrder
  <2>. QED
    BY <1>2, <1>5, <2>1, <2>4 DEF CanUpgrade, CanBeUpgradedBy, Kept
<1>. QED
  BY <1>4, <1>5

\* A deploy that is called too late: it has not begun, or was refused.
TooLate(r) == rooted.prog # NoAccount /\ sent[r] = <<>> /\ pc[r] \in Idle

LEMMA TooLateNext ==
  ASSUME Ledgered, [Next]_vars, NEW r \in Runs, Cfg[r].kind # "upgrade", TooLate(r)
  PROVE  TooLate(r)'
<1>1. AnyStep /\ CInv
  BY LedgeredNext DEF Ledgered
<1>2. rooted'.prog # NoAccount
  BY <1>1, ProgramNext DEF Kept, TooLate
<1>3. ASSUME NEW q \in Runs, RunStep(q) \/ Disturb(q), Moved(q)
      PROVE  sent'[r] = <<>> /\ pc'[r] \in Idle
  <2>1. CASE q # r
    BY <1>3, <2>1 DEF Moved, OthersWait, TooLate
  <2>2. CASE q = r
    <3>1. ClientType /\ pc[r] = "prepare"
      BY <1>1, <1>3, <2>2 DEF CInv, TypeOK, ClientType, Moved, Active, TooLate, Idle
    <3>2. \A label : Goto(r, label) => pc'[r] = label
      BY <3>1 DEF Goto, ClientType
    <3>3. sent'[r] = sent[r]
      BY <1>3, <2>2, <3>1 DEF Moved, Submission
    <3>4. GiveUp(r) \/ Crash(r) => pc'[r] \in Idle
      BY <3>2 DEF GiveUp, Crash, Idle
    <3>5. ~\E d \in BOOLEAN : SubmitAmbiguous(r, d)
      BY <3>1 DEF SubmitAmbiguous
    <3>6. Prepare(r) => pc'[r] \in Idle
      <4>1. Cfg[r].kind \in {"program", "resume"}
        BY ConfigTypes DEF Kinds
      <4>2. Prepare(r) => Goto(r, "failed")
        BY <4>1 DEF Prepare, TooLate
      <4>. QED
        BY <3>2, <4>2 DEF Idle
    <3>7. RunStep(r) => Prepare(r)
      BY <3>1 DEF RunStep, InspectBuffer, InspectProgramData, CheckBalance,
         Submit, Settle, SettleFailed, Checkpoint, ReadBack, VerifyProgram, VerifyProgramData
    <3>. QED
      BY <1>3, <2>2, <3>3, <3>4, <3>5, <3>6, <3>7 DEF Disturb, TooLate
  <2>. QED
    BY <2>1, <2>2
<1>4. UNCHANGED clientVars => sent'[r] = <<>> /\ pc'[r] \in Idle
  BY DEF TooLate, clientVars
<1>5. sent'[r] = <<>> /\ pc'[r] \in Idle
  BY <1>1, <1>3, <1>4 DEF AnyStep, Lands, Roots, Switches, Settles
<1>. QED
  BY <1>2, <1>5 DEF TooLate

\* A deploy that is called once a program is finalized hands nothing to RPC, then or
\* later; and what the other runs checked before they paid for a buffer is all
\* that their final transaction asks of it and of the program, in every bank
\* of every fork that still has the buffer.
THEOREM ClientChecksSuffice == Spec => ChecksFailClosed
<1>1. Spec => []FitInv
  BY FitInit, FitNext, LedgeredInvariant, PTL DEF Spec
<1>2. Spec => []FinalsFit
  BY <1>1, CheckedFits, LedgeredInvariant, PTL
<1>3. ASSUME NEW r \in Runs, Cfg[r].kind # "upgrade"
      PROVE  Spec => [](pc[r] = "prepare" /\ rooted.prog # NoAccount => [](sent[r] = <<>>))
  <2>1. Ledgered /\ TooLate(r) /\ [Next]_vars => TooLate(r)'
    BY <1>3, TooLateNext
  <2>2. Ledgered /\ pc[r] = "prepare" /\ rooted.prog # NoAccount => TooLate(r)
    BY DEF Ledgered, CInv, Script, Follows, Early, TooLate, Idle
  <2>3. TooLate(r) => sent[r] = <<>>
    BY DEF TooLate
  <2>. QED
    BY <2>1, <2>2, <2>3, LedgeredInvariant, PTL DEF Spec
<1>4. Spec => LateDeploysSendNothing
  BY <1>3 DEF LateDeploysSendNothing
<1>. QED
  BY <1>2, <1>4 DEF ChecksFailClosed

-----------------------------------------------------------------------------
(* The evidence a run leaves, and what it verified.                        *)

LEMMA FinalGrows ==
  ASSUME AnyStep
  PROVE  \A tx : Finalized(tx) => Finalized(tx)'
  BY DEF AnyStep, Moved, Lands, Roots, Switches, Settles, Finalized

\* What a step of r adds to its signatures.
LEMMA SignsNext ==
  ASSUME CInv, NEW r \in Runs, RunStep(r) \/ Disturb(r)
  PROVE  \/ result'[r].signatures = result[r].signatures
         \/ result'[r].signatures = <<>>
         \/ /\ at[r].op # "write" => Finalized(TxOf(r))
            /\ result'[r].signatures = Append(result[r].signatures, at[r])
         \/ /\ pc[r] = "readback"
            /\ result'[r].signatures = result[r].signatures \o PendingWrites(r)
<1>1. ClientType /\ result[r] \in Result
  BY ResultTypes DEF CInv, TypeOK, ClientType
<1>2. CASE result' = result
  BY <1>2
<1>3. CASE result' = [result EXCEPT ![r].submitted = Recorded(r)]
  BY <1>1, <1>3 DEF ClientType, Result
<1>4. CASE result' = [result EXCEPT ![r] = NoResult]
  BY <1>1, <1>4 DEF ClientType, NoResult
<1>5. CASE result' = [result EXCEPT ![r].finalized = TRUE]
  BY <1>1, <1>5 DEF ClientType, Result
<1>6. CASE Settle(r)
  <2>1. result'[r].signatures =
          IF IsFinal(at[r]) THEN Append(result[r].signatures, at[r]) ELSE result[r].signatures
    BY <1>1, <1>6 DEF Settle, ClientType, Result
  <2>2. at[r].op # "write" => Finalized(TxOf(r))
    BY <1>6 DEF Settle, Settled
  <2>. QED
    BY <2>1, <2>2
<1>7. CASE pc[r] = "readback" /\ result' = [result EXCEPT ![r].signatures = @ \o PendingWrites(r)]
  BY <1>1, <1>7 DEF ClientType, Result
<1>. QED
  BY <1>2, <1>3, <1>4, <1>5, <1>6, <1>7
  DEF RunStep, Disturb, Prepare, InspectBuffer, InspectProgramData, CheckBalance, Submit,
      SubmitAmbiguous, SettleFailed, Checkpoint, ReadBack, VerifyProgram, VerifyProgramData,
      GiveUp, Crash

SignedBy(r, s) == s.op # "write" => Finalized([run |-> r, step |-> s])

LEMMA SignedFinalNext ==
  ASSUME CInv, AnyStep, SignedFinal
  PROVE  SignedFinal'
<1>1. ClientType /\ Script
  BY DEF CInv, TypeOK, ClientType
<1>2. \A r \in Runs : \A i \in 1..Len(result[r].signatures) : SignedBy(r, result[r].signatures[i])
  BY DEF SignedFinal, SignedBy
<1>3. \A tx : Finalized(tx) => Finalized(tx)'
  BY FinalGrows
<1>4. ASSUME NEW r \in Runs, NEW s, SignedBy(r, s), s.op # "write"
      PROVE  [tx |-> [run |-> r, step |-> s], ok |-> TRUE] \in final'
  BY <1>3, <1>4 DEF SignedBy, Finalized
<1>5. ASSUME NEW r \in Runs, RunStep(r) \/ Disturb(r)
      PROVE  \A i \in 1..Len(result'[r].signatures) : SignedBy(r, result'[r].signatures[i])
  <2>. DEFINE sigs == result[r].signatures
              pending == PendingWrites(r)
  <2>1. sigs \in Seq(Step) /\ at[r] \in Step /\ Len(sigs) \in Nat
    BY <1>1, ResultTypes
  <2>2. \A i \in 1..Len(sigs) : SignedBy(r, sigs[i])
    BY <1>2
  <2>3. \/ result'[r].signatures = sigs \/ result'[r].signatures = <<>>
        \/ /\ at[r].op # "write" => Finalized(TxOf(r))
           /\ result'[r].signatures = Append(sigs, at[r])
        \/ pc[r] = "readback" /\ result'[r].signatures = sigs \o pending
    BY <1>5, SignsNext
  <2>4. pc[r] = "readback" =>
          /\ pending \in Seq(Step) /\ Len(pending) \in Nat
          /\ \A i \in 1..Len(pending) : pending[i].op = "write"
    BY <1>1, PendingAreWrites DEF Script, RunScript
  <2>. HIDE DEF sigs, pending
  <2>5. CASE result'[r].signatures = sigs \/ result'[r].signatures = <<>>
    BY <2>2, <2>5
  <2>6. CASE /\ at[r].op # "write" => Finalized(TxOf(r))
             /\ result'[r].signatures = Append(sigs, at[r])
    <3>1. SignedBy(r, at[r])
      BY <2>6 DEF SignedBy, TxOf
    <3>2. /\ Len(Append(sigs, at[r])) = Len(sigs) + 1
          /\ \A i \in 1..Len(sigs) : Append(sigs, at[r])[i] = sigs[i]
          /\ Append(sigs, at[r])[Len(sigs) + 1] = at[r]
      BY <2>1, AppendProperties
    <3>3. \A i \in 1..(Len(sigs) + 1) : i \in 1..Len(sigs) \/ i = Len(sigs) + 1
      BY <2>1
    <3>. QED
      BY <2>2, <2>6, <3>1, <3>2, <3>3
  <2>7. CASE pc[r] = "readback" /\ result'[r].signatures = sigs \o pending
    <3>1. /\ Len(sigs \o pending) = Len(sigs) + Len(pending)
          /\ \A i \in 1..(Len(sigs) + Len(pending)) :
               (sigs \o pending)[i] = IF i <= Len(sigs) THEN sigs[i] ELSE pending[i - Len(sigs)]
      BY <2>1, <2>4, <2>7, ConcatProperties
    <3>. SUFFICES ASSUME NEW i \in 1..(Len(sigs) + Len(pending))
                  PROVE  SignedBy(r, (sigs \o pending)[i])
      BY <2>7, <3>1
    <3>2. CASE i <= Len(sigs)
      BY <2>1, <2>2, <3>1, <3>2
    <3>3. CASE i > Len(sigs)
      <4>1. i - Len(sigs) \in 1..Len(pending) /\ ~(i <= Len(sigs))
        BY <2>1, <2>4, <2>7, <3>3
      <4>2. (sigs \o pending)[i] = pending[i - Len(sigs)]
        BY <3>1, <4>1
      <4>. QED
        BY <2>4, <2>7, <4>1, <4>2 DEF SignedBy
    <3>. QED
      BY <2>1, <3>2, <3>3
  <2>. QED
    BY <2>3, <2>5, <2>6, <2>7
<1>6. ASSUME NEW q \in Runs
      PROVE  \A i \in 1..Len(result'[q].signatures) : SignedBy(q, result'[q].signatures[i])
  <2>1. CASE result'[q] = result[q]
    BY <1>2, <2>1
  <2>2. CASE result'[q] # result[q]
    <3>1. PICK r \in Runs : (RunStep(r) \/ Disturb(r)) /\ Moved(r)
      BY <2>2 DEF AnyStep, Lands, Roots, Switches, Settles, clientVars
    <3>2. q = r
      BY <2>2, <3>1 DEF Moved, OthersWait
    <3>. QED
      BY <1>5, <3>1, <3>2
  <2>. QED
    BY <2>1, <2>2
<1>. QED
  BY <1>4, <1>6 DEF SignedFinal, Finalized

\* The evidence of every run is true and the read-back holds until the final
\* transaction is handed over: create and final signatures recorded by a run are
\* finalized and successful, on whatever fork the cluster goes on.
THEOREM EvidenceHolds == Spec => []EvidenceIsFinal
<1>1. Init => SignedFinal
  BY DEF Init, SignedFinal, NoResult
<1>2. Ledgered /\ SignedFinal /\ [Next]_vars => SignedFinal'
  BY LedgeredNext, SignedFinalNext DEF Ledgered
<1>3. SignedFinal /\ WInv => EvidenceIsFinal
  BY DEF SignedFinal, WInv, Armed, Clean, EvidenceIsFinal
<1>. QED
  BY <1>1, <1>2, <1>3, LedgeredInvariant, WholeInvariant, PTL DEF Spec

\* A run verifies only once its final transaction is finalized.
LEMMA VerifiedNext ==
  ASSUME CInv, AnyStep, Verified
  PROVE  Verified'
<1>. SUFFICES ASSUME NEW r \in Runs, pc'[r] \in Verifying PROVE Finalized(FinalTx(r))'
  BY DEF Verified
<1>1. ClientType /\ Follows(r, pc[r], at[r], sent[r])
  BY DEF CInv, TypeOK, ClientType, Script
<1>2. CASE pc[r] \in Verifying
  BY <1>2, FinalGrows DEF Verified
<1>3. CASE pc[r] \notin Verifying
  <2>1. pc'[r] # pc[r]
    BY <1>3
  <2>2. PICK q \in Runs : (RunStep(q) \/ Disturb(q)) /\ Moved(q)
    BY <2>1 DEF AnyStep, Lands, Roots, Switches, Settles, clientVars
  <2>3. q = r
    BY <2>1, <2>2 DEF Moved, OthersWait
  <2>4. \A label : Goto(r, label) => pc'[r] = label
    BY <1>1 DEF Goto, ClientType
  <2>5. ~VerifyProgram(r) /\ ~VerifyProgramData(r)
    BY <1>3 DEF VerifyProgram, VerifyProgramData, Verifying
  <2>6. /\ ~InspectBuffer(r) /\ ~InspectProgramData(r) /\ ~CheckBalance(r)
        /\ ~Submit(r) /\ ~SettleFailed(r) /\ ~Checkpoint(r) /\ ~ReadBack(r)
        /\ ~GiveUp(r) /\ ~Crash(r) /\ ~\E d \in BOOLEAN : SubmitAmbiguous(r, d)
    BY <2>4 DEF InspectBuffer, InspectProgramData, CheckBalance, Submit, SettleFailed,
       Checkpoint, ReadBack, GiveUp, Crash, SubmitAmbiguous, Verifying
  <2>7. ~Prepare(r)
    BY <2>4, ConfigTypes DEF Prepare, Verifying, Kinds
  <2>8. Settle(r)
    BY <2>2, <2>3, <2>5, <2>6, <2>7 DEF RunStep, Disturb
  <2>9. at[r].op \in {"create", "write", "final"} /\ at[r].offset \in Nat
    BY <1>1, ResultTypes, Steps, ConfigTypes
  <2>10. at[r].op = "final"
    <3>1. \/ at[r].offset + Cfg[r].chunk < Len0(r)
          \/ at[r].offset + Cfg[r].chunk >= Len0(r)
      BY <2>9, ConfigTypes
    <3>. QED
      BY <2>4, <2>8, <2>9, <3>1 DEF Settle, Verifying
  <2>11. at[r] = FinalStep /\ Finalized(TxOf(r))
    BY <1>1, <2>8, <2>10 DEF Follows, Plain, Settle, Settled
  <2>12. Finalized(FinalTx(r))
    BY <2>11 DEF TxOf, FinalTx
  <2>. QED
    BY <2>12, FinalGrows
<1>. QED
  BY <1>2, <1>3

\* A finalized transaction is not rooted again.
LEMMA RootedOnce ==
  ASSUME Ledgered, Roots, NEW tx, Finalized(tx)
  PROVE  fork[1].tx # tx
<1>1. 1 \in 1..Len(fork)
  BY LedgerTypes DEF Ledgered, CInv, Roots
<1>2. [tx |-> tx, ok |-> TRUE] \in final
  BY DEF Finalized
<1>. QED
  BY <1>1, <1>2 DEF Ledgered, LInv, Once

LEMMA FinalizedNext ==
  ASSUME Ledgered, AnyStep, Verified, FinalizedMeansDeployed
  PROVE  FinalizedMeansDeployed'
<1>. DEFINE Means(r, b) ==
              /\ b.prog # NoAccount
              /\ b.prog.by = r => b.prog.data = Image(r, Len(b.prog.data))
<1>1. ClientType
  BY DEF Ledgered, CInv, TypeOK, ClientType
<1>2. \A r \in Runs : result[r].finalized => Finalized(FinalTx(r)) /\ Means(r, rooted)
  BY DEF FinalizedMeansDeployed, FinalTx
<1>3. ASSUME NEW r \in Runs, result'[r].finalized
      PROVE  Finalized(FinalTx(r))' /\ Means(r, rooted')
  <2>1. CASE result[r].finalized
    <3>1. Finalized(FinalTx(r)) /\ Means(r, rooted)
      BY <1>2, <2>1
    <3>2. Finalized(FinalTx(r))'
      BY <3>1, FinalGrows
    <3>3. CASE rooted'.prog = rooted.prog
      BY <3>1, <3>2, <3>3
    <3>4. CASE rooted'.prog # rooted.prog
      <4>1. /\ Kept(rooted.prog, rooted'.prog) /\ Roots
            /\ fork[1].tx = FinalTx(rooted'.prog.by)
        BY <3>4, ProgramNext
      <4>2. fork[1].tx # FinalTx(r)
        BY <3>1, <4>1, RootedOnce
      <4>. QED
        BY <3>1, <3>2, <4>1, <4>2 DEF Kept
    <3>. QED
      BY <3>3, <3>4
  <2>2. CASE ~result[r].finalized
    <3>1. result'[r] # result[r]
      BY <1>3, <2>2
    <3>2. PICK q \in Runs : (RunStep(q) \/ Disturb(q)) /\ Moved(q)
      BY <3>1 DEF AnyStep, Lands, Roots, Switches, Settles, clientVars
    <3>3. q = r
      BY <3>1, <3>2 DEF Moved, OthersWait
    <3>4. result[r] \in Result
      BY <1>1 DEF ClientType
    <3>5. ~Crash(r)
      BY <1>1, <1>3 DEF Crash, ClientType, NoResult
    <3>6. \A x : result' # [result EXCEPT ![r].submitted = x]
      BY <1>1, <1>3, <2>2, <3>4 DEF ClientType, Result
    <3>7. ASSUME Settle(r) PROVE FALSE
      <4>1. result'[r] = [result[r] EXCEPT
                            !.submitted = Recorded(r),
                            !.signatures = IF IsFinal(at[r]) THEN Append(@, at[r]) ELSE @]
        BY <1>1, <3>7 DEF Settle, ClientType
      <4>2. result'[r].finalized = result[r].finalized
        BY <3>4, <4>1 DEF Result
      <4>. QED
        BY <1>3, <2>2, <4>2
    <3>8. \A x : result' # [result EXCEPT ![r].signatures = x]
      BY <1>1, <1>3, <2>2, <3>4 DEF ClientType, Result
    <3>9. ~Settle(r) /\ ~ReadBack(r)
      BY <3>1, <3>7, <3>8 DEF ReadBack
    <3>10. ~SettleFailed(r) /\ ~GiveUp(r) /\ ~\E d \in BOOLEAN : SubmitAmbiguous(r, d)
      BY <3>1, <3>6 DEF SettleFailed, GiveUp, SubmitAmbiguous
    <3>11. VerifyProgramData(r)
      BY <3>1, <3>2, <3>3, <3>5, <3>9, <3>10 DEF RunStep, Disturb, Prepare, InspectBuffer,
         InspectProgramData, CheckBalance, Submit, Checkpoint, VerifyProgram
    <3>12. Deployed(r, rooted.prog) /\ pc[r] \in Verifying /\ rooted' = rooted
      BY <3>1, <3>11 DEF VerifyProgramData, Verifying, clusterVars
    <3>13. Finalized(FinalTx(r))'
      BY <3>12, FinalGrows DEF Verified
    <3>. QED
      BY <3>12, <3>13 DEF Deployed
  <2>. QED
    BY <2>1, <2>2
<1>. QED
  BY <1>3 DEF FinalizedMeansDeployed, FinalTx

\* Result.Finalized is never a lie: the final transaction of the run is finalized
\* and successful, and what it installed and verified is the artifact, whatever
\* another run wrote into the buffer after the read-back.
THEOREM FinalizedIsDeployed == Spec => []FinalizedMeansDeployed
<1>1. Init => Verified /\ FinalizedMeansDeployed
  <2>. SUFFICES ASSUME Init PROVE Verified /\ FinalizedMeansDeployed
    OBVIOUS
  <2>1. \A r \in Runs : pc[r] \in {"prepare", "uncalled"} /\ ~result[r].finalized
    BY DEF Init, NoResult
  <2>. QED
    BY <2>1 DEF Verified, Verifying, FinalizedMeansDeployed
<1>2. Ledgered /\ Verified /\ FinalizedMeansDeployed /\ [Next]_vars =>
        Verified' /\ FinalizedMeansDeployed'
  BY LedgeredNext, VerifiedNext, FinalizedNext DEF Ledgered
<1>. QED
  BY <1>1, <1>2, LedgeredInvariant, PTL DEF Spec

-----------------------------------------------------------------------------
(* The payer.                                                              *)

\* What was handed over stays at its place.
LEMMA SentGrows ==
  ASSUME CInv, AnyStep, NEW q \in Runs
  PROVE  /\ Len(sent[q]) \in Nat
         /\ \A i \in 1..Len(sent[q]) : i \in 1..Len(sent'[q]) /\ sent'[q][i] = sent[q][i]
<1>1. sent[q] \in Seq(Step) /\ at[q] \in Step /\ Len(sent[q]) \in Nat
  BY DEF CInv, TypeOK
<1>2. CASE sent'[q] = sent[q]
  BY <1>1, <1>2
<1>3. CASE sent'[q] # sent[q]
  <2>1. PICK r \in Runs : Moved(r)
    BY <1>3 DEF AnyStep, Lands, Roots, Switches, Settles, clientVars
  <2>2. q = r
    BY <1>3, <2>1 DEF Moved, OthersWait
  <2>3. sent'[q] = Append(sent[q], at[q])
    BY <1>3, <2>1, <2>2 DEF Moved, Submission
  <2>4. /\ Len(Append(sent[q], at[q])) = Len(sent[q]) + 1
        /\ \A i \in 1..Len(sent[q]) : Append(sent[q], at[q])[i] = sent[q][i]
    BY <1>1, AppendProperties
  <2>. QED
    BY <1>1, <2>3, <2>4
<1>. QED
  BY <1>1, <1>2, <1>3

LEMMA SpendsAloneBefore ==
  ASSUME CInv, AnyStep, NEW r \in Runs, SpendsAlone(r)'
  PROVE  SpendsAlone(r)
<1>. SUFFICES ASSUME NEW q \in Runs \ {r}, NEW i \in 1..Len(sent[q])
              PROVE  \/ sent[q][i].op = "write"
                     \/ sent[q][i].op = "create" /\ q = Cfg[r].buffer
  BY DEF SpendsAlone
<1>1. i \in 1..Len(sent'[q]) /\ sent'[q][i] = sent[q][i]
  BY SentGrows
<1>. QED
  BY <1>1 DEF SpendsAlone

LEMMA SentBefore ==
  ASSUME CInv, AnyStep, NEW tx \in Tx, ~Sent(tx)'
  PROVE  ~Sent(tx)
<1>1. tx.run \in Runs
  BY DEF Tx
<1>. QED
  BY <1>1, SentGrows DEF Sent

\* How a run comes to its balance check, and past it.
LEMMA BalanceMoves ==
  ASSUME CInv, NEW r \in Runs, RunStep(r) \/ Disturb(r), Cfg[r].kind # "upgrade"
  PROVE  /\ pc'[r] = "balance" =>
              \/ Cfg[r].kind = "program" /\ need'[r] = DataRent[MaxDataLen(r)] + ProgramRent
              \/ LET buffer == rooted.buf[Cfg[r].buffer] IN
                 /\ Cfg[r].kind = "resume"
                 /\ buffer # NoAccount /\ need'[r] = ResumeNeed(r, buffer)
         /\ pc'[r] \in {"submit"} \cup Waiting =>
              \/ pc[r] \in {"submit"} \cup Waiting
              \/ pc[r] = "balance" /\ rooted.payer >= need[r]
<1>1. /\ ClientType /\ Follows(r, pc[r], at[r], sent[r])
      /\ rooted.payer \in Nat /\ need[r] \in Nat
  BY BankTypes DEF CInv, TypeOK, ClientType, Script
<1>2. \A label : Goto(r, label) => pc'[r] = label
  BY <1>1 DEF Goto, ClientType
<1>3. CASE Prepare(r)
  BY <1>1, <1>2, <1>3, ConfigTypes DEF Prepare, Kinds, Waiting, ClientType
<1>4. CASE InspectBuffer(r)
  <2>. DEFINE buffer == rooted.buf[Cfg[r].buffer]
  <2>1. Cfg[r].kind = "resume"
    BY <1>1, <1>4 DEF InspectBuffer, Follows
  <2>2. \/ pc'[r] = "failed"
        \/ /\ buffer # NoAccount /\ pc'[r] = "balance"
           /\ need' = [need EXCEPT ![r] = ResumeNeed(r, buffer)]
    BY <1>2, <1>4 DEF InspectBuffer, ValidBuffer
  <2>. QED
    BY <1>1, <2>1, <2>2 DEF Waiting, ClientType
<1>5. ~InspectProgramData(r)
  BY <1>1 DEF InspectProgramData, Follows
<1>6. CASE CheckBalance(r)
  BY <1>1, <1>2, <1>6 DEF CheckBalance, Waiting
<1>7. CASE pc[r] \in {"submit"} \cup Waiting /\ pc'[r] # "balance"
  BY <1>7
<1>8. CASE pc'[r] \notin {"balance", "submit"} \cup Waiting
  BY <1>8
<1>9. CASE Submit(r) \/ \E d \in BOOLEAN : SubmitAmbiguous(r, d)
  BY <1>2, <1>7, <1>9 DEF Submit, SubmitAmbiguous
<1>10. CASE SettleFailed(r) \/ GiveUp(r) \/ Crash(r) \/ VerifyProgram(r) \/ VerifyProgramData(r)
  BY <1>2, <1>8, <1>10
  DEF SettleFailed, GiveUp, Crash, VerifyProgram, VerifyProgramData, Waiting
<1>11. CASE Checkpoint(r) \/ ReadBack(r)
  BY <1>2, <1>7, <1>8, <1>11 DEF Checkpoint, ReadBack, Waiting
<1>12. CASE Settle(r)
  <2>1. at[r].op \in {"create", "write", "final"} /\ at[r].offset \in Nat
    <3>1. at[r] \in Step /\ MaxLen \in Nat
      BY <1>1, ResultTypes, ConfigTypes
    <3>. QED
      BY <3>1, Steps
  <2>2. \/ at[r].offset + Cfg[r].chunk < Len0(r)
        \/ at[r].offset + Cfg[r].chunk >= Len0(r)
    BY <2>1, ConfigTypes
  <2>3. pc'[r] \in {"submit", "checkpoint", "verifyProgram", "verifyProgramData"}
    BY <1>2, <1>12, <2>1, <2>2 DEF Settle
  <2>. QED
    BY <1>7, <1>8, <1>12, <2>3 DEF Settle, Waiting
<1>. QED
  BY <1>3, <1>4, <1>5, <1>6, <1>9, <1>10, <1>11, <1>12 DEF RunStep, Disturb

\* Between its checks and its final transaction nothing but the run's own create
\* draws on the payer.
LEMMA CoveredWhenRooted ==
  ASSUME Ledgered, Roots, NEW r \in Runs, Cfg[r].kind # "upgrade",
         Cfg[r].kind = "resume" => NotAgain(Cfg[r].buffer, 0),
         ~Sent(FinalTx(r)), SpendsAlone(r), Covered(r),
         NEW tx, tx = fork[1].tx, tx \in Tx, Sent(tx), rooted \in Bank,
         CanExec(tx, rooted), NEW c, c = DoExec(tx, rooted), rooted' = c
  PROVE  Covered(r)'
<1>1. /\ CInv /\ tx.run \in Runs /\ tx.step \in Step
      /\ tx.step.op \in {"create", "write", "final"}
      /\ 1 \in 1..Len(fork) /\ 0 < 1
  BY LedgerTypes, ExecCases DEF Ledgered, CInv, Roots
<1>2. PICK i \in 1..Len(sent[tx.run]) : sent[tx.run][i] = tx.step
  BY DEF Sent
<1>3. /\ c.payer \in Nat /\ rooted.payer \in Nat
      /\ DataRent[MaxDataLen(r)] \in Nat /\ ProgramRent \in Nat
      /\ CreateLamports(Cfg[r].buffer) \in Nat
  BY ExecEffect, BankTypes, ConfigTypes
<1>4. Ask(r)' = Ask(r)
  BY DEF Ask
<1>5. CASE tx.step.op = "write"
  <2>1. /\ c.payer = rooted.payer
        /\ \A q \in Runs : rooted.buf[q] # NoAccount <=> c.buf[q] # NoAccount
    BY <1>5, ExecEffect
  <2>. QED
    BY <1>4, <2>1 DEF Covered
<1>6. CASE tx.step.op = "create"
  <2>1. tx = CreateTx(tx.run)
    BY <1>1, <1>6, SentIsPlain
  <2>2. Cfg[tx.run].kind # "resume"
    BY <1>1, <1>2, <1>6 DEF CInv, Script, Follows
  <2>3. CASE tx.run = r
    <3>1. Cfg[r].kind = "program" /\ CreateLamports(r) = DataRent[MaxDataLen(r)]
      BY <2>2, <2>3, ConfigTypes DEF Kinds, CreateLamports
    <3>2. /\ c.payer = rooted.payer - DataRent[MaxDataLen(r)]
          /\ rooted.buf[r] = NoAccount /\ c.buf[r] # NoAccount
      BY <1>6, <2>3, <3>1, ExecEffect
    <3>3. rooted.payer >= DataRent[MaxDataLen(r)] + ProgramRent
      BY <3>1, <3>2 DEF Covered, Ask
    <3>4. c.payer >= ProgramRent
      BY <1>3, <3>2, <3>3
    <3>. QED
      BY <3>1, <3>2, <3>4 DEF Covered
  <2>4. CASE tx.run # r
    <3>1. tx.run = Cfg[r].buffer
      BY <1>1, <1>2, <1>6, <2>4 DEF SpendsAlone
    <3>2. Cfg[r].kind = "resume"
      BY <2>4, <3>1, LoaderAssumption
    <3>3. fork[1].tx # CreateTx(Cfg[r].buffer)
      BY <1>1, <3>2 DEF NotAgain
    <3>. QED
      BY <2>1, <3>1, <3>3
  <2>. QED
    BY <2>3, <2>4
<1>7. CASE tx.step.op = "final"
  <2>1. tx = FinalTx(tx.run)
    BY <1>1, <1>7, SentIsPlain
  <2>2. tx.run # r
    BY <2>1
  <2>. QED
    BY <1>1, <1>2, <1>7, <2>2 DEF SpendsAlone
<1>. QED
  BY <1>1, <1>5, <1>6, <1>7

\* The lamports asked for are those the deploy needs, whoever created the buffer.
LEMMA AskedFor ==
  ASSUME Ledgered, NEW r \in Runs
  PROVE  /\ Cfg[r].kind = "program" => Ask(r) = DataRent[MaxDataLen(r)] + ProgramRent
         /\ LET buffer == rooted.buf[Cfg[r].buffer] IN
              Cfg[r].kind = "resume" /\ buffer # NoAccount =>
                /\ ResumeNeed(r, buffer) = Ask(r)
                /\ NotAgain(Cfg[r].buffer, 0)
<1>1. Cfg[r].buffer \in Runs /\ rooted \in Banks /\ BankAt(0) = rooted /\ 0 \in 0..Len(fork)
  BY ConfigTypes, LedgerTypes DEF Banks, BankAt, Ledgered, CInv
<1>2. Funded(rooted)
  BY <1>1 DEF Ledgered, LInv
<1>3. rooted.buf[Cfg[r].buffer] # NoAccount =>
        /\ rooted.buf[Cfg[r].buffer].lamports = CreateLamports(Cfg[r].buffer)
        /\ NotAgain(Cfg[r].buffer, 0)
  BY <1>1, <1>2 DEF Funded, Ledgered, LInv, CreatedOnce
<1>. QED
  BY <1>3 DEF Ask, ResumeNeed

LEMMA BudgetedNext ==
  ASSUME Ledgered, Ledgered', AnyStep, Budgeted
  PROVE  Budgeted'
<1>. SUFFICES ASSUME NEW r \in Runs, Cfg[r].kind # "upgrade"
              PROVE  /\ pc'[r] = "balance" => need'[r] = Ask(r)
                     /\ Cfg[r].kind = "resume" /\ pc'[r] \in {"balance", "submit"} \cup Waiting =>
                          NotAgain(Cfg[r].buffer, 0)'
                     /\ /\ pc'[r] \in {"submit"} \cup Waiting
                        /\ ~Sent(FinalTx(r))'
                        /\ SpendsAlone(r)'
                        => Covered(r)'
  BY DEF Budgeted, Ask, FinalTx
<1>1. /\ CInv /\ CInv' /\ Cfg[r].buffer \in Runs /\ FinalTx(r) \in Tx
      /\ Cfg[r].kind \in {"program", "resume"}
  BY ConfigTypes, Steps DEF Ledgered, FinalTx, Tx, Kinds
<1>2. NotAgain(Cfg[r].buffer, 0) => NotAgain(Cfg[r].buffer, 0)'
  BY <1>1, NotAgainNext
<1>3. (SpendsAlone(r)' => SpendsAlone(r)) /\ (~Sent(FinalTx(r))' => ~Sent(FinalTx(r)))
  BY <1>1, SpendsAloneBefore, SentBefore
<1>4. /\ pc[r] = "balance" => need[r] = Ask(r)
      /\ Cfg[r].kind = "resume" /\ pc[r] \in {"balance", "submit"} \cup Waiting =>
           NotAgain(Cfg[r].buffer, 0)
      /\ pc[r] \in {"submit"} \cup Waiting /\ ~Sent(FinalTx(r)) /\ SpendsAlone(r) => Covered(r)
  BY DEF Budgeted
<1>5. CASE pc'[r] = pc[r] /\ need'[r] = need[r] /\ rooted' = rooted
  BY <1>2, <1>3, <1>4, <1>5 DEF Covered, Ask
<1>6. CASE (RunStep(r) \/ Disturb(r)) /\ Moved(r)
  <2>1. /\ pc'[r] = "balance" =>
             \/ Cfg[r].kind = "program" /\ need'[r] = DataRent[MaxDataLen(r)] + ProgramRent
             \/ LET buffer == rooted.buf[Cfg[r].buffer] IN
                /\ Cfg[r].kind = "resume"
                /\ buffer # NoAccount /\ need'[r] = ResumeNeed(r, buffer)
        /\ pc'[r] \in {"submit"} \cup Waiting =>
             \/ pc[r] \in {"submit"} \cup Waiting
             \/ pc[r] = "balance" /\ rooted.payer >= need[r]
    BY <1>1, <1>6, BalanceMoves
  <2>2. pc'[r] = "balance" =>
          /\ need'[r] = Ask(r)
          /\ Cfg[r].kind = "resume" => NotAgain(Cfg[r].buffer, 0)'
    BY <1>2, <2>1, AskedFor
  <2>3. Cfg[r].kind = "resume" /\ pc'[r] \in {"submit"} \cup Waiting => NotAgain(Cfg[r].buffer, 0)'
    BY <1>2, <1>4, <2>1
  <2>4. rooted.payer >= Ask(r) => Covered(r)
    <3>1. /\ DataRent[MaxDataLen(r)] \in Nat /\ ProgramRent \in Nat /\ rooted.payer \in Nat
      BY <1>1, ConfigTypes, BankTypes DEF CInv, TypeOK
    <3>2. Cfg[r].kind = "program" => Ask(r) = DataRent[MaxDataLen(r)] + ProgramRent
      BY AskedFor
    <3>. QED
      BY <3>1, <3>2 DEF Covered
  <2>5. Covered(r)' <=> Covered(r)
    BY <1>6 DEF Moved, Covered, Ask
  <2>. QED
    BY <1>3, <1>4, <2>1, <2>2, <2>3, <2>4, <2>5
<1>7. CASE Roots /\ UNCHANGED clientVars /\ rooted' # rooted
  <2>1. PICK tx \in Tx :
          /\ tx = fork[1].tx /\ Sent(tx) /\ rooted \in Bank
          /\ CanExec(tx, rooted) /\ rooted' = DoExec(tx, rooted)
    BY <1>7, RootedNext
  <2>2. pc'[r] = pc[r] /\ need'[r] = need[r]
    BY <1>7 DEF clientVars
  <2>3. ASSUME pc[r] \in {"submit"} \cup Waiting, ~Sent(FinalTx(r)), SpendsAlone(r)
        PROVE  Covered(r)'
    <3>1. Covered(r) /\ (Cfg[r].kind = "resume" => NotAgain(Cfg[r].buffer, 0))
      BY <1>4, <2>3
    <3>. QED
      BY <1>7, <2>1, <2>3, <3>1, CoveredWhenRooted
  <2>. QED
    BY <1>2, <1>3, <1>4, <2>2, <2>3
<1>8. ASSUME NEW q \in Runs, Moved(q), q # r
      PROVE  pc'[r] = pc[r] /\ need'[r] = need[r] /\ rooted' = rooted
  BY <1>8 DEF Moved, OthersWait
<1>9. CASE UNCHANGED clientVars
  <2>1. rooted' = rooted \/ Roots
    BY RootedNext
  <2>. QED
    BY <1>5, <1>7, <1>9, <2>1 DEF clientVars
<1>. QED
  BY <1>5, <1>6, <1>8, <1>9 DEF AnyStep, Lands, Roots, Switches, Settles

\* The balance check is enough: a deploy that passed it, and whose payer nobody
\* else draws on, can pay for the program and ProgramData accounts when it comes
\* to its final transaction.
THEOREM BalanceCheckSuffices == Spec => []FundsSuffice
<1>1. Init => Budgeted
  <2>. SUFFICES ASSUME Init, NEW r \in Runs
                PROVE  pc[r] \notin {"balance", "submit"} \cup Waiting
    BY DEF Budgeted
  <2>1. pc[r] \in {"prepare", "uncalled"}
    BY DEF Init
  <2>. QED
    BY <2>1 DEF Waiting
<1>2. Ledgered /\ Budgeted /\ [Next]_vars => Budgeted'
  BY LedgeredNext, BudgetedNext
<1>3. Ledgered /\ Budgeted => FundsSuffice
  <2>. SUFFICES ASSUME Ledgered, Budgeted, NEW r \in Runs, Cfg[r].kind # "upgrade",
                       pc[r] = "submit", at[r] = FinalStep, SpendsAlone(r),
                       rooted.buf[Cfg[r].buffer] # NoAccount
                PROVE  /\ rooted.payer >= ProgramRent
                       /\ rooted.payer - ProgramRent + rooted.buf[Cfg[r].buffer].lamports
                            >= DataRent[MaxDataLen(r)]
    BY DEF FundsSuffice
  <2>. DEFINE has == CreateLamports(Cfg[r].buffer)
              rent == DataRent[MaxDataLen(r)]
  <2>1. ~Sent(FinalTx(r))
    BY FreshTx DEF Ledgered, TxOf, FinalTx
  <2>2. Covered(r)
    BY <2>1 DEF Budgeted
  <2>3. /\ Cfg[r].buffer \in Runs /\ has \in Nat /\ rent \in Nat /\ ProgramRent \in Nat
        /\ rooted.payer \in Nat /\ Cfg[r].kind \in {"program", "resume"}
    BY ConfigTypes, BankTypes DEF Ledgered, CInv, TypeOK, Kinds
  <2>4. rooted.buf[Cfg[r].buffer].lamports = has
    BY <2>3 DEF Ledgered, LInv, Funded, Banks
  <2>5. CASE Cfg[r].kind = "program"
    <3>1. Cfg[r].buffer = r /\ has = rent
      BY <2>5, LoaderAssumption DEF CreateLamports
    <3>2. rooted.payer >= ProgramRent
      BY <2>2, <2>5, <3>1 DEF Covered
    <3>. QED
      BY <2>3, <2>4, <3>1, <3>2
  <2>6. CASE Cfg[r].kind = "resume"
    <3>1. rooted.payer >= ProgramRent + (IF has < rent THEN rent - has ELSE 0)
      BY <2>2, <2>6 DEF Covered, Ask
    <3>. QED
      BY <2>3, <2>4, <3>1
  <2>. QED
    BY <2>3, <2>5, <2>6
<1>. QED
  BY <1>1, <1>2, <1>3, LedgeredInvariant, PTL DEF Spec
=============================================================================
