------------------------------ MODULE Compiler ------------------------------
(* A compiled program on the reference VM (vm.go), beside the meaning of the *)
(* IR it was compiled from.  The VM runs first, one instruction per step;    *)
(* when it has stopped, the IR is evaluated, one operation per step, on the  *)
(* same input.                                                               *)
EXTENDS Backend, Lifetimes

CONSTANTS Sources,         \* the programs that are compiled
          Texts,           \* sBPF programs that no compiler wrote
          MaxInstructions

ASSUME Limit == MaxInstructions \in Nat \ {0}

VARIABLES code,    \* what NewVM loaded
          vm,      \* registers, memory, position, frames and outcome of a run
          ir       \* frames, mapped region and outcome of the evaluation
vars == <<source, check, code, vm, ir>>

None == [program |-> <<>>, names |-> <<>>, entry |-> "none", args |-> <<>>, addresses |-> {}]

-----------------------------------------------------------------------------
(* Loading.                                                                *)

Registers(args) ==
  [r \in Register |-> IF r = FramePointer THEN StackStart + StackFrameSize
                      ELSE IF r \in DOMAIN args THEN args[r] ELSE 0]

\* The mapped region holds cells that are no canonical bool.
InputCell(a) == (a - InputStart) % 2 ^ ByteBits

Machine(args, outcome) ==
  [registers |-> Registers(args),
   memory |-> [a \in StackCells \cup InputCells |-> IF a \in InputCells THEN InputCell(a) ELSE 0],
   pc |-> 0, steps |-> 0, frames |-> <<>>, outcome |-> outcome]

\* A parameter that holds an address names a place of the mapped region.
IncomingValue(f, n, value, pointing) ==
  IF pointing \/ TypeOf(f, f.params[n]) \in Pointers THEN InputPlace(value)
  ELSE Wrap(TypeOf(f, f.params[n]), value)
Activation(name, f, incoming, dest) ==
  [name |-> name, block |-> f.entry, at |-> 1, dest |-> dest,
   values |-> [id \in DOMAIN f.values |->
                 IF \E n \in DOMAIN f.params : f.params[n] = id
                 THEN incoming[CHOOSE n \in DOMAIN f.params : f.params[n] = id] ELSE 0],
   memory |-> [o \in DOMAIN f.memory |-> [k \in 0..(Size(f.memory[o]) - 1) |-> 0]]]

Evaluation(s) ==
  LET f == s.program[s.entry]
      incoming == [n \in DOMAIN s.args |-> IncomingValue(f, n, s.args[n], n \in s.addresses)]
  IN [frames |-> <<Activation(s.entry, f, incoming, NoValue)>>,
      input |-> [k \in 0..(InputBytes - 1) |-> InputCell(InputStart + k)],
      outcome |-> IF UsesPointerAddress(s) THEN "none" ELSE "waiting", result |-> 0]

\* Compile and NewVM.
Compilation(s) ==
  LET reached == ReachableFunctions(s.program, s.entry)
      fits == Validate(s.program) /\ \A name \in reached : FitsFrame(s.program[name])
      text == IF fits THEN Generate(s.program, s.names, s.entry) ELSE <<Return>>
  IN [source |-> s, code |-> Loaded(text),
      outcome |-> IF ~fits \/ ~FitsOffsets(text) THEN "refused"
                  ELSE IF ~ValidateProgram(text) THEN "rejected" ELSE "running"]
Compiled == {Compilation(s) : s \in Sources}
VerifiedTexts == {Loaded(text) : text \in {t \in Texts : ValidateProgram(t)}}

LoadsSource ==
  \E c \in Compiled :
    /\ source = c.source
    /\ code = c.code
    /\ check = Start(c.source, IF UsesPointerAddress(c.source) THEN "analyzing" ELSE "accepted")
    /\ vm = Machine(c.source.args, c.outcome)
    /\ ir = Evaluation(c.source)
LoadsText ==
  /\ code \in VerifiedTexts
  /\ source = None
  /\ check = Start(None, "accepted")
  /\ vm = Machine(<<>>, "running")
  /\ ir = [frames |-> <<>>, input |-> <<>>, outcome |-> "none", result |-> 0]

Init == LoadsSource \/ LoadsText

-----------------------------------------------------------------------------
(* The VM.                                                                 *)

Instruction == code.text[code.byPC[vm.pc]]
Executes(op) ==
  /\ check.verdict = "accepted"
  /\ vm.outcome = "running" /\ vm.steps < MaxInstructions
  /\ Instruction.op = op
  /\ UNCHANGED <<source, check, code, ir>>

Dst == vm.registers[Instruction.dst]
Src == IF Instruction.reg THEN vm.registers[Instruction.src] ELSE Instruction.imm

\* A next position that is no instruction ends the run at once, before the limit is tested.
To(state, pc) ==
  [state EXCEPT !.pc = pc, !.steps = @ + 1,
                !.outcome = IF pc \in DOMAIN code.byPC THEN @ ELSE "overrun"]
Stop(outcome) == vm' = [vm EXCEPT !.steps = @ + 1, !.outcome = outcome]
Next1 == vm.pc + Slots(Instruction)
Sets(r, value) == vm' = To([vm EXCEPT !.registers[r] = value], Next1)

DividesByZero ==
  Instruction.f \in {"div", "mod"} /\ Low(Src, Instruction.bits) = 0

LoadImmediate == Executes("lddw") /\ Sets(Instruction.dst, Low(Instruction.imm, D))
Calculate ==
  /\ Executes("alu") /\ ~DividesByZero
  /\ Sets(Instruction.dst, ALU(Instruction.f, Instruction.bits, Dst, Src))
DivisionByZero == Executes("alu") /\ DividesByZero /\ Stop("division")

Bytes == Instruction.bits \div ByteBits
Base == IF Instruction.op = "load" THEN vm.registers[Instruction.src] ELSE Dst
Address == Low(Base + Instruction.off, D)
Load ==
  /\ Executes("load") /\ Readable(Address, Bytes)
  /\ Sets(Instruction.dst, Fetch(vm.memory, Address, Bytes))
Store ==
  /\ Executes("store") /\ Writable(Address, Bytes)
  /\ vm' = To([vm EXCEPT !.memory = Put(@, Address, Bytes, Src)], Next1)
MemoryFault ==
  /\ \/ Executes("load") /\ ~Readable(Address, Bytes)
     \/ Executes("store") /\ ~Writable(Address, Bytes)
  /\ Stop("memory")

Taken == Instruction.op = "ja" \/ Compares(Instruction.f, Instruction.bits, Dst, Src)
Branch ==
  /\ Executes("jump") \/ Executes("ja")
  /\ vm' = To(vm, vm.pc + 1 + (IF Taken THEN Instruction.off ELSE 0))

\* Mutant: the depth counts the saved frames only.
TooDeepOneMore == Len(vm.frames) >= MaxCallDepth
TooDeep == Len(vm.frames) + 1 >= MaxCallDepth
Saved == [returnPC |-> vm.pc + 1, framePointer |-> vm.registers[FramePointer],
          calleeSaved |-> [r \in 6..9 |-> vm.registers[r]]]
CallInternal ==
  /\ Executes("call") /\ Instruction.src = 1 /\ ~TooDeep
  /\ vm' = To([vm EXCEPT !.frames = Append(@, Saved),
                         !.registers[FramePointer] = @ + StackFrameSize],
              vm.pc + 1 + Instruction.imm)
CallDepthExceeded == Executes("call") /\ Instruction.src = 1 /\ TooDeep /\ Stop("depth")
UnsupportedCall == Executes("call") /\ Instruction.src # 1 /\ Stop("syscall")

\* EXIT restores r6-r9 and the frame pointer of the caller.
Restored(frame) ==
  [r \in Register |-> IF r = FramePointer THEN frame.framePointer
                      ELSE IF r \in 6..9 THEN frame.calleeSaved[r] ELSE vm.registers[r]]
ExitFunction ==
  /\ Executes("exit") /\ vm.frames # <<>>
  /\ vm' = To([vm EXCEPT !.frames = Front(@), !.registers = Restored(Last(vm.frames))],
              Last(vm.frames).returnPC)
ExitProgram == Executes("exit") /\ vm.frames = <<>> /\ Stop("returned")

InstructionLimit ==
  /\ vm.outcome = "running" /\ vm.steps >= MaxInstructions
  /\ vm' = [vm EXCEPT !.outcome = "limit"]
  /\ UNCHANGED <<source, check, code, ir>>

RunStep ==
  \/ LoadImmediate \/ Calculate \/ DivisionByZero \/ Load \/ Store \/ MemoryFault \/ Branch
  \/ CallInternal \/ CallDepthExceeded \/ UnsupportedCall \/ ExitFunction \/ ExitProgram
  \/ InstructionLimit

-----------------------------------------------------------------------------
(* The meaning of the IR.                                                  *)

Frame == Last(ir.frames)
Fun == source.program[Frame.name]
Code == Fun.blocks[Frame.block].code
Op == Code[Frame.at]
Term == Fun.blocks[Frame.block].term
Val(id) == Frame.values[id]

Evaluates(ops) ==
  /\ vm.outcome \notin {"running", "limit", "refused"}
  /\ ir.outcome \in {"waiting", "running"}
  /\ Frame.at <= Len(Code) /\ Op.op \in ops
  /\ UNCHANGED <<source, check, code, vm>>
Ends(kind) ==
  /\ vm.outcome \notin {"running", "limit", "refused"}
  /\ ir.outcome \in {"waiting", "running"}
  /\ Frame.at > Len(Code) /\ Term.kind = kind
  /\ UNCHANGED <<source, check, code, vm>>

Top == Len(ir.frames)
Running(frames) == [ir EXCEPT !.frames = frames, !.outcome = "running"]
Proceed(frame) == Running([ir.frames EXCEPT ![Top] = [frame EXCEPT !.at = @ + 1]])
Assign(value) == ir' = Proceed([Frame EXCEPT !.values[Op.dest] = value])
End(outcome) == ir' = [ir EXCEPT !.outcome = outcome]

MeansTrap == Op.op \in {"div", "mod"} /\ Val(Op.y) = 0
Calculates ==
  /\ Evaluates({"const", "move", "address", "ptradd"} \cup ArithmeticOps \cup ComparisonOps)
  /\ ~MeansTrap
  /\ LET t == TypeOf(Fun, Op.dest)
         same == Op.op = "move" /\ TypeOf(Fun, Op.x) = t
     IN Assign(CASE Op.op = "const" -> Wrap(t, Op.imm)
                 [] same -> Val(Op.x)
                 [] Op.op = "move" /\ ~same -> Wrap(t, Val(Op.x))
                 [] Op.op = "address" -> Place(Top, Op.object, 0)
                 [] Op.op = "ptradd" ->
                      Val(Op.x) + Val(Op.y) * MemoryBytes(Element(t))
                 [] Op.op \in ArithmeticOps -> Arithmetic(Op.op, t, Val(Op.x), Val(Op.y))
                 [] Op.op \in ComparisonOps -> Comparison(Op.op, Val(Op.x), Val(Op.y)))

\* An index outside of an array, or a zero divisor, stops the program.
Traps ==
  /\ \/ Evaluates({"div", "mod"}) /\ MeansTrap
     \/ Evaluates({"bounds"}) /\ Val(Op.x) \notin 0..(Op.imm - 1)
  /\ End("division")
ChecksBounds ==
  Evaluates({"bounds"}) /\ Val(Op.x) \in 0..(Op.imm - 1) /\ ir' = Proceed(Frame)

\* The cells a place names; the mapped region is object 0 of frame 0.
Cells(place) ==
  IF FrameOf(place) = 0 THEN ir.input ELSE ir.frames[FrameOf(place)].memory[ObjectOf(place)]
Inside(place, bytes) == Span(CellOf(place), bytes) \subseteq DOMAIN Cells(place)
MayWrite(place) == FrameOf(place) # 0 \/ InputWritable

\* Nonzero is true.
FromCells(t, n) == IF t = "bool" THEN (IF n = 0 THEN 0 ELSE 1) ELSE Wrap(t, n)
Loads ==
  /\ Evaluates({"load"}) /\ Inside(Val(Op.x), MemoryBytes(Op.memory))
  /\ Assign(FromCells(Op.memory, Fetch(Cells(Val(Op.x)), CellOf(Val(Op.x)), MemoryBytes(Op.memory))))
Stores ==
  /\ Evaluates({"store"})
  /\ Inside(Val(Op.x), MemoryBytes(Op.memory)) /\ MayWrite(Val(Op.x))
  /\ LET p == Val(Op.x)
         cells == Put(Cells(p), CellOf(p), MemoryBytes(Op.memory), Low(Val(Op.y), D))
     IN ir' = IF FrameOf(p) = 0 THEN [Proceed(Frame) EXCEPT !.input = cells]
              ELSE [Proceed(Frame) EXCEPT !.frames[FrameOf(p)].memory[ObjectOf(p)] = cells]
\* Outside of the mapped region an access fails; outside of an object the IR
\* says nothing.
Faults ==
  /\ Evaluates({"load", "store"})
  /\ ~(Inside(Val(Op.x), MemoryBytes(Op.memory)) /\ (Op.op = "store" => MayWrite(Val(Op.x))))
  /\ End(IF FrameOf(Val(Op.x)) = 0 THEN "memory" ELSE "undefined")
Zeroes ==
  /\ Evaluates({"zero"})
  /\ ir' = Proceed([Frame EXCEPT !.memory[Op.object] = [k \in DOMAIN @ |-> 0]])
Copies ==
  /\ Evaluates({"copy"})
  /\ ir' = Proceed([Frame EXCEPT !.memory[Op.object] = Frame.memory[Op.from]])

Calls ==
  /\ Evaluates({"call"}) /\ Top < MaxCallDepth
  /\ LET incoming == [n \in DOMAIN Op.args |-> Val(Op.args[n])]
         g == source.program[Op.callee]
     IN ir' = Running(Append(Proceed(Frame).frames, Activation(Op.callee, g, incoming, Op.dest)))
CallsTooDeep == Evaluates({"call"}) /\ Top >= MaxCallDepth /\ End("depth")
Syscalls == Evaluates({"syscall"}) /\ End("syscall")

Goes ==
  /\ Ends("jump") \/ Ends("branch")
  /\ LET target == IF Term.kind = "branch" /\ Val(Term.value) = 0 THEN Term.else ELSE Term.target
     IN ir' = Running([ir.frames EXCEPT ![Top] = [Frame EXCEPT !.block = target, !.at = 1]])

Value == IF Term.value = NoValue THEN 0 ELSE Val(Term.value)
ReturnsToCaller ==
  /\ Ends("return") /\ Top > 1
  /\ LET rest == Front(ir.frames)
     IN ir' = Running(IF Frame.dest = NoValue THEN rest
                      ELSE [rest EXCEPT ![Top - 1].values[Frame.dest] = Value])
Finishes ==
  /\ Ends("return") /\ Top = 1
  /\ ir' = [ir EXCEPT !.outcome = "returned", !.result = Value]

EvalStep ==
  \/ Calculates \/ Traps \/ ChecksBounds \/ Loads \/ Stores \/ Faults \/ Zeroes \/ Copies
  \/ Calls \/ CallsTooDeep \/ Syscalls \/ Goes \/ ReturnsToCaller \/ Finishes

-----------------------------------------------------------------------------
\* A program that uses the address of a pointer is compiled once it is accepted.
Validates == Analyze /\ UNCHANGED <<source, code, vm, ir>>

Next == Validates \/ RunStep \/ EvalStep
Spec == Init /\ [][Next]_vars /\ WF_vars(Validates \/ RunStep)

-----------------------------------------------------------------------------
(* Correctness.                                                            *)

\* Generate and the VM keep the meaning of the IR: a compiled program is
\* accepted by the verifier, stops the way the IR says, with the same result and
\* the same bytes in the mapped region, whatever registers and spill slots its
\* values were given.
CompiledMatchesIR ==
  ir.outcome \notin {"none", "waiting", "running", "undefined"} =>
    /\ vm.outcome = ir.outcome
    /\ ir.outcome = "returned" => vm.registers[0] = Low(ir.result, D)
    /\ \A k \in DOMAIN ir.input : vm.memory[InputStart + k] = ir.input[k]

\* The call depth of the interpreter keeps every frame on the stack it allocated:
\* the frame pointer is one frame above the base of the current call, and no
\* instruction of a verified program moves it elsewhere (vm.go:495-510).
FramesStayOnStack ==
  LET depth == Len(vm.frames)
  IN /\ vm.registers[FramePointer] = StackStart + StackFrameSize * (depth + 1)
     /\ depth < MaxCallDepth
     /\ \A k \in 1..depth : vm.frames[k].framePointer = StackStart + StackFrameSize * k

\* A verified program never jumps or calls out of its text or into the second
\* slot of LD_DW_IMM: a run overruns only past its last instruction, whichever
\* instruction that is (vm.go:527-532).
OverrunsFallOffTheEnd == vm.outcome = "overrun" => vm.pc = code.slots

\* Neither the frame pointer nor the position of a verified program escapes what
\* was allocated for it.
RunsStayInBounds == FramesStayOnStack /\ OverrunsFallOffTheEnd

\* A program that was accepted leaves no address of its stack behind: neither as
\* its result nor in the mapped region, however it went through values, objects,
\* helpers and loops (validateStackAddressLifetimes, examples/cpi/README.md:18).
Doubles == {Fetch(vm.memory, a, DoubleBytes) :
              a \in {b \in InputCells : (b - InputStart) % DoubleBytes = 0 /\ b + DoubleBytes - 1 \in InputCells}}
RetainsNoStackAddress ==
  UsesPointerAddress(source) /\ vm.outcome = "returned" =>
    ({vm.registers[0]} \cup Doubles) \cap StackCells = {}

\* Every analysis reaches a fixed point, and every run ends, a loop by the
\* instruction limit.
RunEnds == <>(vm.outcome # "running" \/ check.verdict = "rejected")
=============================================================================
