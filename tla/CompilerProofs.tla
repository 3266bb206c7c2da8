--------------------------- MODULE CompilerProofs ---------------------------
(***************************************************************************)
(* Runs of the reference VM (Compiler.tla) stay in what was allocated for  *)
(* them, for every program, width and configuration.  Only what the        *)
(* verifier checked (Sbpf.tla) is used of the program: it may come from    *)
(* the compiler or not.                                                    *)
(***************************************************************************)
EXTENDS Compiler, TLAPS, FiniteSetTheorems, SequenceTheorems

-----------------------------------------------------------------------------
(* Positions in a verified text.                                           *)

LEMMA CountsImmediates ==
  ASSUME NEW text, NEW i \in Nat \ {0}
  PROVE  /\ SlotsBefore(text, i) \in Nat
         /\ SlotsBefore(text, i + 1) = SlotsBefore(text, i) + Slots(text[i])
<1>. DEFINE doubles(n) == {j \in 1..(n - 1) : text[j].op = "lddw"}
<1>1. \A n \in Nat : IsFiniteSet(doubles(n)) /\ Cardinality(doubles(n)) \in Nat
  <2>. SUFFICES ASSUME NEW n \in Nat
                PROVE  IsFiniteSet(doubles(n)) /\ Cardinality(doubles(n)) \in Nat
    OBVIOUS
  <2>1. IsFiniteSet(1..(n - 1))
    BY FS_Interval
  <2>2. IsFiniteSet(doubles(n))
    BY <2>1, FS_Subset
  <2>. QED
    BY <2>2, FS_CardinalityType
<1>2. Cardinality(doubles(i + 1)) =
        Cardinality(doubles(i)) + (IF text[i].op = "lddw" THEN 1 ELSE 0)
  <2>1. CASE text[i].op = "lddw"
    <3>1. doubles(i + 1) = doubles(i) \cup {i} /\ i \notin doubles(i)
      BY <2>1
    <3>. QED
      BY <1>1, <2>1, <3>1, FS_AddElement
  <2>2. CASE text[i].op # "lddw"
    <3>1. doubles(i + 1) = doubles(i)
      BY <2>2
    <3>. HIDE DEF doubles
    <3>. QED
      BY <1>1, <2>2, <3>1
  <2>. QED
    BY <2>1, <2>2
<1>3. SlotsBefore(text, i) = i - 1 + Cardinality(doubles(i))
  BY DEF SlotsBefore
<1>4. SlotsBefore(text, i + 1) = i + 1 - 1 + Cardinality(doubles(i + 1))
  BY DEF SlotsBefore
<1>5. Cardinality(doubles(i)) \in Nat
  BY <1>1
<1>. HIDE DEF doubles
<1>. QED
  BY <1>2, <1>3, <1>4, <1>5 DEF Slots

LEMMA StartsAtZero == ASSUME NEW text PROVE SlotsBefore(text, 1) = 0
<1>. DEFINE doubles == {j \in 1..(1 - 1) : text[j].op = "lddw"}
<1>1. doubles = {}
  OBVIOUS
<1>2. Cardinality(doubles) = 0
  BY <1>1, FS_EmptySet
<1>3. SlotsBefore(text, 1) = 1 - 1 + Cardinality(doubles)
  BY DEF SlotsBefore
<1>. HIDE DEF doubles
<1>. QED
  BY <1>2, <1>3

\* Where a run may be: at an instruction, or past the last one.
Places == DOMAIN code.byPC \cup {code.slots}

Verified == code = Loaded(code.text) /\ ValidateProgram(code.text)

LEMMA Start0 ==
  ASSUME Verified
  PROVE  0 \in DOMAIN code.byPC
<1>1. code.text \in Seq(Instructions) /\ code.text # <<>>
  BY DEF Verified, ValidateProgram
<1>2. 1 \in DOMAIN code.text
  BY <1>1, EmptySeq, LenProperties
<1>3. PhysicalPCs(code.text)[1] = 0
  BY <1>2, StartsAtZero DEF PhysicalPCs
<1>. QED
  BY <1>2, <1>3 DEF Verified, Loaded

\* The instruction at a position, what follows it and where it branches to.
LEMMA InstructionAt ==
  ASSUME Verified, vm.pc \in DOMAIN code.byPC
  PROVE  /\ vm.pc \in Nat
         /\ Instruction \in Instructions /\ ValidateInstruction(Instruction)
         /\ vm.pc + Slots(Instruction) \in Places
         /\ IsBranch(Instruction) => vm.pc + 1 + Relative(Instruction) \in DOMAIN code.byPC
<1>. DEFINE text == code.text
            i == code.byPC[vm.pc]
<1>1. text \in Seq(Instructions) /\ DOMAIN text = 1..Len(text) /\ Len(text) \in Nat
  BY LenProperties DEF Verified, ValidateProgram
<1>2. i \in DOMAIN text /\ PhysicalPCs(text)[i] = vm.pc
  BY DEF Verified, Loaded
<1>3. vm.pc = SlotsBefore(text, i)
  BY <1>2 DEF PhysicalPCs
<1>. HIDE DEF i
<1>4. vm.pc \in Nat /\ SlotsBefore(text, i + 1) = vm.pc + Slots(text[i])
  <2>1. i \in Nat \ {0}
    BY <1>1, <1>2
  <2>. QED
    BY <1>3, <2>1, CountsImmediates
<1>5. text[i] \in Instructions /\ ValidateInstruction(text[i])
  BY <1>1, <1>2, <1>3, ElementOfSeq DEF Verified, ValidateProgram
<1>6. vm.pc + Slots(text[i]) \in Places
  <2>1. CASE i = Len(text)
    BY <1>4, <2>1 DEF Places, Verified, Loaded, SlotCount
  <2>2. CASE i # Len(text)
    <3>1. i + 1 \in DOMAIN text
      BY <1>1, <1>2, <2>2
    <3>2. PhysicalPCs(text)[i + 1] = vm.pc + Slots(text[i])
      BY <1>4, <3>1 DEF PhysicalPCs
    <3>. QED
      BY <3>1, <3>2 DEF Places, Verified, Loaded
  <2>. QED
    BY <2>1, <2>2
<1>7. IsBranch(text[i]) => vm.pc + 1 + Relative(text[i]) \in DOMAIN code.byPC
  <2>1. IsBranch(text[i]) =>
          PhysicalPCs(text)[i] + 1 + Relative(text[i]) \in {PhysicalPCs(text)[k] : k \in DOMAIN text}
    BY <1>2 DEF Verified, ValidateProgram
  <2>2. DOMAIN code.byPC = {PhysicalPCs(text)[k] : k \in DOMAIN text}
    BY DEF Verified, Loaded
  <2>. QED
    BY <1>2, <2>1, <2>2
<1>8. Instruction = text[i]
  BY DEF Instruction, i
<1>. QED
  BY <1>4, <1>5, <1>6, <1>7, <1>8

-----------------------------------------------------------------------------
(* The machine.  Framed says that its frames are where the stack has them  *)
(* and return into the text; Sound, that it is at a place of the text too. *)

Fields == {"registers", "memory", "pc", "steps", "frames", "outcome"}

IsSeq(s) == s \in Seq({s[k] : k \in DOMAIN s})

Framed(m) ==
  /\ DOMAIN m = Fields /\ FramePointer \in DOMAIN m.registers /\ IsSeq(m.frames)
  /\ m.registers[FramePointer] = StackStart + StackFrameSize * (Len(m.frames) + 1)
  /\ Len(m.frames) < MaxCallDepth
  /\ \A k \in 1..Len(m.frames) :
       /\ m.frames[k].framePointer = StackStart + StackFrameSize * k
       /\ m.frames[k].returnPC \in Places

Sound(m) ==
  /\ Framed(m)
  /\ m.outcome = "running" => m.pc \in DOMAIN code.byPC
  /\ m.outcome = "overrun" => m.pc = code.slots

IInv == Sound(vm) /\ (vm.outcome = "running" => Verified)

LEMMA OwnRange == ASSUME NEW S, NEW s \in Seq(S) PROVE IsSeq(s)
<1>. DEFINE R == {s[k] : k \in DOMAIN s}
<1>1. Len(s) \in Nat /\ DOMAIN s = 1..Len(s) /\ s \in [1..Len(s) -> S]
  BY LenProperties
<1>2. s \in [1..Len(s) -> R]
  BY <1>1
<1>. QED
  BY <1>1, <1>2, SeqDef DEF IsSeq

LEMMA SameFrames ==
  ASSUME NEW m, Framed(m), NEW n, DOMAIN n = Fields, n.frames = m.frames,
         FramePointer \in DOMAIN n.registers,
         n.registers[FramePointer] = m.registers[FramePointer]
  PROVE  Framed(n)
  BY DEF Framed

LEMMA MovesTo ==
  ASSUME NEW m, Framed(m), m.outcome = "running", NEW pc \in Places
  PROVE  Sound(To(m, pc))
<1>. DEFINE n == To(m, pc)
<1>1. /\ DOMAIN n = Fields /\ n.frames = m.frames /\ n.registers = m.registers /\ n.pc = pc
      /\ pc \in DOMAIN code.byPC => n.outcome = "running"
      /\ pc \notin DOMAIN code.byPC => n.outcome = "overrun"
  BY DEF Framed, Fields, To
<1>2. FramePointer \in DOMAIN m.registers
  BY DEF Framed
<1>. HIDE DEF n
<1>3. Framed(n)
  BY <1>1, <1>2, SameFrames
<1>4. Sound(n)
  <2>1. CASE pc \in DOMAIN code.byPC
    BY <1>1, <1>3, <2>1 DEF Sound
  <2>2. CASE pc \notin DOMAIN code.byPC
    <3>1. pc = code.slots
      BY <2>2 DEF Places
    <3>. QED
      BY <1>1, <1>3, <2>2, <3>1 DEF Sound
  <2>. QED
    BY <2>1, <2>2
<1>. QED
  BY <1>4 DEF n

LEMMA Stops ==
  ASSUME IInv, NEW outcome, outcome \notin {"running", "overrun"},
         Stop(outcome) \/ vm' = [vm EXCEPT !.outcome = outcome], UNCHANGED code
  PROVE  IInv'
<1>1. DOMAIN vm' = Fields /\ vm'.frames = vm.frames /\ vm'.registers = vm.registers
      /\ vm'.outcome = outcome
  BY DEF IInv, Sound, Framed, Fields, Stop
<1>2. Framed(vm')
  BY <1>1, SameFrames DEF IInv, Sound, Framed
<1>. QED
  BY <1>1, <1>2 DEF IInv, Sound, Framed, Places

-----------------------------------------------------------------------------
(* Steps.                                                                  *)

LEMMA Executing ==
  ASSUME IInv, NEW op, Executes(op)
  PROVE  /\ Verified /\ Framed(vm) /\ vm.outcome = "running" /\ vm.pc \in DOMAIN code.byPC
         /\ Instruction.op = op /\ UNCHANGED code
  BY DEF IInv, Sound, Executes

\* A machine of the next state is sound for the text of the next state.
LEMMA SoundNext ==
  ASSUME Sound(vm'), UNCHANGED code, Verified
  PROVE  IInv'
  BY DEF IInv, Sound, Framed, Places, Verified

LEMMA SetsKeeps ==
  ASSUME IInv, NEW op, Executes(op), op # "store", NEW value, Sets(Instruction.dst, value)
  PROVE  IInv'
<1>1. Verified /\ Framed(vm) /\ vm.outcome = "running" /\ UNCHANGED code
      /\ vm.pc \in DOMAIN code.byPC /\ Instruction.op = op
  BY Executing
<1>2. Instruction.dst # FramePointer /\ Next1 \in Places
  BY <1>1, InstructionAt DEF ValidateInstruction, Next1
<1>. DEFINE set == [vm.registers EXCEPT ![Instruction.dst] = value]
            m == [vm EXCEPT !.registers[Instruction.dst] = value]
<1>3. DOMAIN m = Fields /\ m.frames = vm.frames /\ m.registers = set /\ m.outcome = "running"
  BY <1>1 DEF Framed, Fields
<1>4. FramePointer \in DOMAIN set /\ set[FramePointer] = vm.registers[FramePointer]
  BY <1>1, <1>2 DEF Framed
<1>. HIDE DEF m, set
<1>5. Framed(m)
  BY <1>1, <1>3, <1>4, SameFrames
<1>6. Sound(To(m, Next1))
  BY <1>2, <1>3, <1>5, MovesTo
<1>. QED
  BY <1>1, <1>6, SoundNext DEF Sets, m

LEMMA StoreKeeps == ASSUME IInv, Store PROVE IInv'
<1>1. Verified /\ Framed(vm) /\ vm.outcome = "running" /\ UNCHANGED code
      /\ vm.pc \in DOMAIN code.byPC
  BY Executing DEF Store
<1>. DEFINE m == [vm EXCEPT !.memory = Put(@, Address, Bytes, Src)]
<1>2. DOMAIN m = Fields /\ m.frames = vm.frames /\ m.registers = vm.registers
      /\ m.outcome = "running"
  BY <1>1 DEF Framed, Fields
<1>3. FramePointer \in DOMAIN vm.registers
  BY <1>1 DEF Framed
<1>. HIDE DEF m
<1>4. Framed(m)
  BY <1>1, <1>2, <1>3, SameFrames
<1>5. Next1 \in Places
  BY <1>1, InstructionAt DEF Next1
<1>6. Sound(To(m, Next1))
  BY <1>2, <1>4, <1>5, MovesTo
<1>. QED
  BY <1>1, <1>6, SoundNext DEF Store, m

LEMMA BranchKeeps == ASSUME IInv, Branch PROVE IInv'
<1>1. PICK op \in {"jump", "ja"} : Executes(op)
  BY DEF Branch
<1>2. Verified /\ Framed(vm) /\ vm.outcome = "running" /\ UNCHANGED code
      /\ vm.pc \in DOMAIN code.byPC /\ Instruction.op = op
  BY <1>1, Executing
<1>. DEFINE target == vm.pc + 1 + (IF Taken THEN Instruction.off ELSE 0)
<1>3. target \in Places
  <2>1. CASE Taken
    BY <1>1, <1>2, <2>1, InstructionAt DEF IsBranch, Relative, Places
  <2>2. CASE ~Taken
    <3>1. Slots(Instruction) = 1 /\ vm.pc \in Nat
      BY <1>1, <1>2, InstructionAt DEF Slots
    <3>. QED
      BY <1>2, <2>2, <3>1, InstructionAt
  <2>. QED
    BY <2>1, <2>2
<1>4. Sound(To(vm, target))
  BY <1>2, <1>3, MovesTo
<1>. QED
  BY <1>2, <1>4, SoundNext DEF Branch

LEMMA PushedFrame ==
  ASSUME NEW s, IsSeq(s), NEW e
  PROVE  /\ IsSeq(Append(s, e)) /\ Len(Append(s, e)) = Len(s) + 1 /\ Len(s) \in Nat
         /\ \A k \in 1..(Len(s) + 1) : Append(s, e)[k] = IF k <= Len(s) THEN s[k] ELSE e
<1>. DEFINE R == {s[k] : k \in DOMAIN s} \cup {e}
<1>1. s \in Seq(R)
  BY SeqMonotonic DEF IsSeq
<1>. HIDE DEF R
<1>2. e \in R
  BY DEF R
<1>3. Append(s, e) \in Seq(R) /\ Len(s) \in Nat
  BY <1>1, <1>2, AppendProperties, LenProperties
<1>4. /\ Len(Append(s, e)) = Len(s) + 1
      /\ \A k \in 1..Len(s) : Append(s, e)[k] = s[k]
      /\ Append(s, e)[Len(s) + 1] = e
  BY <1>1, <1>2, AppendProperties
<1>5. IsSeq(Append(s, e))
  BY <1>3, OwnRange
<1>. QED
  BY <1>3, <1>4, <1>5

LEMMA PoppedFrame ==
  ASSUME NEW s, IsSeq(s), s # <<>>
  PROVE  /\ IsSeq(Front(s)) /\ Len(Front(s)) = Len(s) - 1 /\ Len(s) \in Nat \ {0}
         /\ \A k \in 1..(Len(s) - 1) : Front(s)[k] = s[k]
<1>. DEFINE R == {s[k] : k \in DOMAIN s}
<1>1. s \in Seq(R)
  BY DEF IsSeq
<1>. HIDE DEF R
<1>2. Len(s) \in Nat \ {0} /\ \A k \in 1..Len(s) : s[k] \in R
  BY <1>1, EmptySeq, ElementOfSeq
<1>. DEFINE n == Len(s) - 1
            front == SubSeq(s, 1, n)
<1>3. n \in Nat /\ \A k \in 1..n : s[k] \in R
  BY <1>2
<1>4. front \in Seq(R) /\ Len(front) = n /\ \A k \in 1..n : front[k] = s[k]
  <2>. HIDE DEF n
  <2>1. /\ front \in Seq(R)
        /\ Len(front) = IF 1 <= n THEN n - 1 + 1 ELSE 0
        /\ \A k \in 1..(n - 1 + 1) : front[k] = s[1 + k - 1]
    BY <1>3, SubSeqProperties
  <2>. QED
    BY <1>3, <2>1
<1>5. IsSeq(front)
  BY <1>4, OwnRange
<1>6. Front(s) = front
  BY DEF Front
<1>. QED
  BY <1>2, <1>4, <1>5, <1>6

LEMMA NextBase ==
  ASSUME NEW start \in Nat, NEW size \in Nat, NEW depth \in Nat
  PROVE  start + size * (depth + 1) + size = start + size * (depth + 1 + 1)
  OBVIOUS

\* One frame more on the stack, and the position after the call to return to.
LEMMA CallKeeps == ASSUME IInv, CallInternal PROVE IInv'
<1>1. Verified /\ Framed(vm) /\ vm.outcome = "running" /\ UNCHANGED code
      /\ vm.pc \in DOMAIN code.byPC /\ Instruction.op = "call" /\ Instruction.src = 1
  BY Executing DEF CallInternal
<1>. DEFINE called == [vm.registers EXCEPT ![FramePointer] = @ + StackFrameSize]
            m == [vm EXCEPT !.frames = Append(@, Saved),
                            !.registers[FramePointer] = @ + StackFrameSize]
            depth == Len(vm.frames)
<1>2. DOMAIN m = Fields /\ m.frames = Append(vm.frames, Saved) /\ m.registers = called
      /\ m.outcome = "running"
  BY <1>1 DEF Framed, Fields
<1>3. FramePointer \in DOMAIN called
      /\ called[FramePointer] = vm.registers[FramePointer] + StackFrameSize
  BY <1>1 DEF Framed
<1>4. IsSeq(m.frames) /\ Len(m.frames) = depth + 1 /\ depth \in Nat
      /\ \A k \in 1..(depth + 1) : m.frames[k] = IF k <= depth THEN vm.frames[k] ELSE Saved
  BY <1>1, <1>2, PushedFrame DEF Framed
<1>. HIDE DEF m, called
<1>5. depth + 1 < MaxCallDepth
  BY <1>1, <1>4, Config DEF CallInternal, TooDeep, Framed
<1>6. called[FramePointer] = StackStart + StackFrameSize * (depth + 1 + 1)
  <2>1. called[FramePointer] = StackStart + StackFrameSize * (depth + 1) + StackFrameSize
    BY <1>1, <1>3 DEF Framed
  <2>2. depth \in Nat /\ StackStart \in Nat /\ StackFrameSize \in Nat
    BY <1>4, Config, Regions
  <2>. HIDE DEF depth
  <2>. QED
    BY <2>1, <2>2, NextBase
<1>7. Saved.framePointer = StackStart + StackFrameSize * (depth + 1) /\ Saved.returnPC \in Places
  BY <1>1, InstructionAt DEF Framed, Saved, Slots
<1>8. Framed(m)
  <2>1. ASSUME NEW k \in 1..(depth + 1)
        PROVE  /\ m.frames[k].framePointer = StackStart + StackFrameSize * k
               /\ m.frames[k].returnPC \in Places
    <3>1. CASE k <= depth
      BY <1>1, <1>4, <3>1 DEF Framed
    <3>2. CASE ~(k <= depth)
      <4>1. k = depth + 1 /\ m.frames[k] = Saved
        BY <1>4, <3>2
      <4>. QED
        BY <1>7, <4>1
    <3>. QED
      BY <3>1, <3>2
  <2>. QED
    BY <1>2, <1>3, <1>4, <1>5, <1>6, <2>1 DEF Framed
<1>9. vm.pc + 1 + Instruction.imm \in Places
  BY <1>1, InstructionAt DEF IsBranch, Relative, Places
<1>10. Sound(To(m, vm.pc + 1 + Instruction.imm))
  BY <1>2, <1>8, <1>9, MovesTo
<1>. QED
  BY <1>1, <1>10, SoundNext DEF CallInternal, m

\* EXIT takes the frame pointer and the position from the frame it removes.
LEMMA ExitKeeps == ASSUME IInv, ExitFunction PROVE IInv'
<1>1. Verified /\ Framed(vm) /\ vm.outcome = "running" /\ UNCHANGED code
  BY Executing DEF ExitFunction
<1>. DEFINE depth == Len(vm.frames)
            frame == Last(vm.frames)
            m == [vm EXCEPT !.frames = Front(@), !.registers = Restored(frame)]
<1>2. DOMAIN m = Fields /\ m.frames = Front(vm.frames) /\ m.registers = Restored(frame)
      /\ m.outcome = "running"
  BY <1>1 DEF Framed, Fields
<1>3. IsSeq(m.frames) /\ Len(m.frames) = depth - 1 /\ depth \in Nat \ {0}
      /\ \A k \in 1..(depth - 1) : m.frames[k] = vm.frames[k]
  BY <1>1, <1>2, PoppedFrame DEF Framed, ExitFunction
<1>4. frame = vm.frames[depth]
  BY DEF Last
<1>. HIDE DEF m, frame
<1>5. frame.framePointer = StackStart + StackFrameSize * depth /\ frame.returnPC \in Places
  BY <1>1, <1>3, <1>4 DEF Framed
<1>6. FramePointer \in DOMAIN Restored(frame)
      /\ Restored(frame)[FramePointer] = StackStart + StackFrameSize * depth
  BY <1>5 DEF Restored, Register, FramePointer
<1>7. Framed(m)
  <2>1. Len(m.frames) + 1 = depth /\ depth < MaxCallDepth /\ Len(m.frames) < MaxCallDepth
    BY <1>1, <1>3, Config DEF Framed
  <2>2. m.registers[FramePointer] = StackStart + StackFrameSize * (Len(m.frames) + 1)
    BY <1>2, <1>6, <2>1
  <2>3. \A k \in 1..Len(m.frames) :
          /\ m.frames[k].framePointer = StackStart + StackFrameSize * k
          /\ m.frames[k].returnPC \in Places
    BY <1>1, <1>3 DEF Framed
  <2>. QED
    BY <1>2, <1>3, <1>6, <2>1, <2>2, <2>3 DEF Framed
<1>8. Sound(To(m, frame.returnPC))
  BY <1>2, <1>5, <1>7, MovesTo
<1>. QED
  BY <1>1, <1>8, SoundNext DEF ExitFunction, m, frame

-----------------------------------------------------------------------------
(* The theorem.                                                            *)

LEMMA FreshMachine ==
  ASSUME NEW args, NEW outcome, vm = Machine(args, outcome),
         outcome = "running" => Verified, outcome # "overrun"
  PROVE  IInv
<1>1. DOMAIN vm = Fields /\ vm.pc = 0 /\ vm.frames = <<>> /\ vm.outcome = outcome
      /\ vm.registers = Registers(args)
  BY DEF Machine, Fields
<1>2. IsSeq(<<>>) /\ Len(<<>>) = 0
  BY EmptySeq, OwnRange
<1>3. FramePointer \in Register /\ FramePointer \in DOMAIN Registers(args)
  BY DEF FramePointer, Register, Registers
<1>4. vm.outcome = "running" => vm.pc \in DOMAIN code.byPC
  BY <1>1, Start0
<1>5. vm.registers[FramePointer] = StackStart + StackFrameSize * (0 + 1)
  BY <1>1, <1>3, Config DEF Registers
<1>6. Framed(vm)
  BY <1>1, <1>2, <1>3, <1>5, Config DEF Framed
<1>. QED
  BY <1>1, <1>4, <1>6 DEF IInv, Sound

LEMMA InitHolds == Init => IInv
<1>1. ASSUME LoadsSource PROVE IInv
  <2>1. PICK s \in Sources : LET c == Compilation(s) IN
               code = c.code /\ vm = Machine(c.source.args, c.outcome)
    BY <1>1 DEF LoadsSource, Compiled
  <2>2. Compilation(s).outcome \in {"refused", "rejected", "running"}
    BY DEF Compilation
  <2>3. \A text : Loaded(text).text = text
    BY DEF Loaded
  <2>4. Compilation(s).outcome = "running" => Verified
    BY <2>1, <2>3 DEF Compilation, Verified
  <2>. QED
    BY <2>1, <2>2, <2>4, FreshMachine
<1>2. ASSUME LoadsText PROVE IInv
  <2>1. PICK text \in Texts : ValidateProgram(text) /\ code = Loaded(text)
    BY <1>2 DEF LoadsText, VerifiedTexts
  <2>2. Verified
    BY <2>1 DEF Verified, Loaded
  <2>. QED
    BY <1>2, <2>2, FreshMachine DEF LoadsText
<1>. QED
  BY <1>1, <1>2 DEF Init

LEMMA RunStepKeeps == ASSUME IInv, RunStep PROVE IInv'
<1>1. ASSUME LoadImmediate PROVE IInv'
  BY <1>1, SetsKeeps DEF LoadImmediate
<1>2. ASSUME Calculate PROVE IInv'
  BY <1>2, SetsKeeps DEF Calculate
<1>3. ASSUME DivisionByZero PROVE IInv'
  BY <1>3, Stops DEF DivisionByZero, Executes
<1>4. ASSUME Load PROVE IInv'
  BY <1>4, SetsKeeps DEF Load
<1>5. ASSUME MemoryFault PROVE IInv'
  BY <1>5, Stops DEF MemoryFault, Executes
<1>6. ASSUME CallDepthExceeded PROVE IInv'
  BY <1>6, Stops DEF CallDepthExceeded, Executes
<1>7. ASSUME UnsupportedCall PROVE IInv'
  BY <1>7, Stops DEF UnsupportedCall, Executes
<1>8. ASSUME ExitProgram PROVE IInv'
  BY <1>8, Stops DEF ExitProgram, Executes
<1>9. ASSUME InstructionLimit PROVE IInv'
  BY <1>9, Stops DEF InstructionLimit
<1>. QED
  BY <1>1, <1>2, <1>3, <1>4, <1>5, <1>6, <1>7, <1>8, <1>9,
     StoreKeeps, BranchKeeps, CallKeeps, ExitKeeps DEF RunStep

LEMMA SameMachine == ASSUME IInv, UNCHANGED <<code, vm>> PROVE IInv'
  BY DEF IInv, Sound, Framed, Places, Verified

LEMMA NextKeeps == ASSUME IInv, [Next]_vars PROVE IInv'
<1>1. ASSUME RunStep PROVE IInv'
  BY <1>1, RunStepKeeps
<1>2. ASSUME Validates PROVE IInv'
  BY <1>2, SameMachine DEF Validates
<1>3. ASSUME EvalStep PROVE IInv'
  <2>1. ASSUME NEW ops, Evaluates(ops) PROVE UNCHANGED <<code, vm>>
    BY <2>1 DEF Evaluates
  <2>2. ASSUME NEW kind, Ends(kind) PROVE UNCHANGED <<code, vm>>
    BY <2>2 DEF Ends
  <2>. QED
    BY <1>3, <2>1, <2>2, SameMachine
    DEF EvalStep, Calculates, Traps, ChecksBounds, Loads, Stores, Faults, Zeroes, Copies, Calls,
        CallsTooDeep, Syscalls, Goes, ReturnsToCaller, Finishes
<1>4. ASSUME UNCHANGED vars PROVE IInv'
  BY <1>4, SameMachine DEF vars
<1>. QED
  BY <1>1, <1>2, <1>3, <1>4 DEF Next

\* No run of a verified program moves its frame pointer off the stack of
\* MaxCallDepth frames, or its position out of the text or between the slots of
\* one instruction (execute, ValidateProgram).
THEOREM RunsStayWhereTheyMay == Spec => []RunsStayInBounds
<1>1. IInv => RunsStayInBounds
  BY DEF IInv, Sound, Framed, RunsStayInBounds, FramesStayOnStack, OverrunsFallOffTheEnd
<1>. QED
  BY <1>1, InitHolds, NextKeeps, PTL DEF Spec
=============================================================================
