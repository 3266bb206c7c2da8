------------------------------ MODULE Backend ------------------------------
(* Instruction selection (backend.go) and register assignment (registers.go): *)
(* from validated IR to an sBPF program.  A function f carries its homes and  *)
(* the offsets of its memory objects once it is allocated.                    *)
EXTENDS Ir, SequencesExt

D == DoubleBits
W == WordBits

-----------------------------------------------------------------------------
(* Registers.                                                              *)

Positions(f) ==
  UNION {{<<b, n>> : n \in DOMAIN f.blocks[b].code} : b \in DOMAIN f.blocks}
At(f, p) == f.blocks[p[1]].code[p[2]]

FunctionHasCall(f) == \E p \in Positions(f) : At(f, p).op \in {"call", "syscall"}

Uses(f, id) ==
  LET Count(S) == Cardinality(S)
  IN Count({p \in Positions(f) : At(f, p).x = id})
     + Count({p \in Positions(f) : At(f, p).y = id})
     + Count(UNION {{<<p, n>> : n \in {m \in DOMAIN At(f, p).args : At(f, p).args[m] = id}}
                    : p \in Positions(f)})
     + Count({b \in DOMAIN f.blocks : f.blocks[b].term.value = id})
Definitions(f, id) == Cardinality({p \in Positions(f) : At(f, p).dest = id})

\* A temporary that the last instruction of a block defines and only the return
\* of that block reads may live in r0.
DirectReturnValues(f) ==
  {id \in DOMAIN f.values :
     /\ f.values[id].kind = "temporary"
     /\ Uses(f, id) = 1
     /\ Definitions(f, id) = 1
     /\ \E b \in DOMAIN f.blocks :
          /\ f.blocks[b].term = Returns(id)
          /\ f.blocks[b].code # <<>>
          /\ Last(f.blocks[b].code).dest = id}

AlignStack(n, alignment) == ((n + alignment - 1) \div alignment) * alignment

\* The cells of the frame in use after each memory object.
ObjectsEnd(f) ==
  LET end[n \in 0..Len(f.memory)] ==
        IF n = 0 THEN 0
        ELSE AlignStack(end[n - 1], MemoryBytes(f.memory[n].element)) + Size(f.memory[n])
  IN end
Preserved == <<6, 7, 8, 9>>

InRegister(r) == [stack |-> FALSE, reg |-> r, off |-> 0]
OnStack(off) == [stack |-> TRUE, reg |-> 0, off |-> off]

\* Without calls the first three parameters stay in their ABI registers.
Incoming(f) ==
  IF FunctionHasCall(f) THEN {} ELSE {f.params[n] : n \in 1..Min({3, Len(f.params)})}

\* The other values take r6-r9 in order, then spill slots below the objects.
Homes(f, incoming, fast, spilled) ==
  LET Rank(id) == Cardinality((1..id) \ (incoming \cup fast))
      Persistent(rank) ==
        IF rank <= Len(Preserved) THEN InRegister(Preserved[rank])
        ELSE OnStack(-(spilled + (rank - Len(Preserved)) * DoubleBytes))
  IN [id \in DOMAIN f.values |->
        IF id \in incoming THEN InRegister(CHOOSE n \in DOMAIN f.params : f.params[n] = id)
        ELSE IF id \in fast THEN InRegister(0)
        ELSE Persistent(Rank(id))]

SpillBase(f) == AlignStack(ObjectsEnd(f)[Len(f.memory)], DoubleBytes)
AllocateRegisters(f) ==
  f @@ [homes |-> Homes(f, Incoming(f), DirectReturnValues(f), SpillBase(f)),
        objects |-> [o \in DOMAIN f.memory |-> -ObjectsEnd(f)[o]]]

\* An allocation that needs more than a frame is an error.
FitsFrame(f) ==
  Max({SpillBase(f)} \cup {-home.off : home \in Range(AllocateRegisters(f).homes)})
    <= StackFrameSize

-----------------------------------------------------------------------------
(* Values in and out of their homes.                                       *)

Scratch(home) == IF home.stack THEN 0 ELSE home.reg
Move(target, source) == IF target = source THEN <<>> ELSE <<ALUReg("mov", D, target, source)>>
Reload(target, off) == <<LoadMemory(DoubleBytes, target, FramePointer, off)>>
Spill(home, source) ==
  IF home.stack THEN <<StoreMemory(DoubleBytes, FramePointer, source, home.off)>> ELSE <<>>

ReadValue(f, id, target) ==
  LET home == f.homes[id]
  IN IF home.stack THEN Reload(target, home.off) ELSE Move(target, home.reg)
WriteValue(f, id, source) ==
  LET home == f.homes[id]
  IN IF home.stack THEN Spill(home, source) ELSE Move(home.reg, source)

NormalizeRegister(t, r) ==
  CASE t = "u8" -> << ALUReg("mov", W, r, r), ALUImm("lsh", W, r, W - ByteBits),
                      ALUImm("rsh", W, r, W - ByteBits) >>
    [] t = "u32" -> <<ALUReg("mov", W, r, r)>>
    [] t = "i32" -> << ALUReg("mov", W, r, r), ALUImm("lsh", D, r, D - W),
                       ALUImm("arsh", D, r, D - W) >>
    [] OTHER -> <<>>

-----------------------------------------------------------------------------
(* Operations.                                                             *)

EmitConstant(f, i) ==
  LET home == f.homes[i.dest]
      target == Scratch(home)
      value == Signed(i.imm, D)
  IN (IF FitsImmediate(value) THEN <<ALUImm("mov", D, target, value)>>
      ELSE <<LoadImm64(target, i.imm)>>)
     \o NormalizeRegister(TypeOf(f, i.dest), target) \o Spill(home, target)

MoveValue(f, i) ==
  LET home == f.homes[i.dest]
      target == Scratch(home)
  IN IF home = f.homes[i.x] /\ TypeOf(f, i.dest) = TypeOf(f, i.x) THEN <<>>
     ELSE ReadValue(f, i.x, target) \o NormalizeRegister(TypeOf(f, i.dest), target)
          \o Spill(home, target)

\* Mutant: an operand in the register of the result is overwritten.
SaveYNever(x, y, home) == FALSE
\* Y is kept in r4 before an aliased destination is overwritten.
SaveY(x, y, home) == ~y.stack /\ y.reg = Scratch(home) /\ x # home

EmitArithmetic(f, i) ==
  LET home == f.homes[i.dest]
      x == f.homes[i.x]
      y == f.homes[i.y]
      t == TypeOf(f, i.dest)
      target == Scratch(home)
      held == y.stack \/ SaveY(x, y, home)
  IN (IF y.stack THEN Reload(4, y.off) ELSE IF held THEN <<ALUReg("mov", D, 4, y.reg)>> ELSE <<>>)
     \o (IF x.stack THEN Reload(target, x.off) ELSE Move(target, x.reg))
     \o <<ALUReg(i.op, IF Bits(t) <= W THEN W ELSE D, target, IF held THEN 4 ELSE y.reg)>>
     \o NormalizeRegister(t, target) \o Spill(home, target)

\* Division of magnitudes; r5 holds the sign of the result.
EmitSignedDivisionOrRemainder(f, i) ==
  LET t == TypeOf(f, i.dest)
      n == IF Bits(t) = W THEN W ELSE D
  IN ReadValue(f, i.x, 0) \o ReadValue(f, i.y, 4)
     \o <<ALUReg("mov", D, 5, 0)>>
     \o (IF i.op = "div" THEN <<ALUReg("xor", n, 5, 4)>> ELSE <<>>)
     \o << JumpImm("sge", n, 0, 0, 1), Negate(n, 0),
           JumpImm("sge", n, 4, 0, 1), Negate(n, 4),
           ALUReg(i.op, n, 0, 4),
           JumpImm("slt", n, 5, 0, 1), Jump(1), Negate(n, 0) >>
     \o NormalizeRegister(t, 0) \o WriteValue(f, i.dest, 0)

ComparisonOpcode(op, t) ==
  IF t \notin SignedTypes \/ op \in {"eq", "ne"} THEN op
  ELSE CASE op = "lt" -> "slt" [] op = "le" -> "sle" [] op = "gt" -> "sgt" [] op = "ge" -> "sge"
NarrowCompare(t) == IF Bits(t) # 0 /\ Bits(t) <= W THEN W ELSE D

EmitComparison(f, i) ==
  LET t == TypeOf(f, i.x)
  IN ReadValue(f, i.x, 0) \o ReadValue(f, i.y, 4)
     \o << ALUImm("mov", D, 5, 0),
           JumpReg(ComparisonOpcode(i.op, t), NarrowCompare(t), 0, 4, 1), Jump(1),
           ALUImm("mov", D, 5, 1) >>
     \o WriteValue(f, i.dest, 5)

EmitAddress(f, i) ==
  LET home == f.homes[i.dest]
      target == Scratch(home)
  IN <<ALUReg("mov", D, target, FramePointer), ALUImm("add", D, target, f.objects[i.object])>>
     \o Spill(home, target)

\* A loaded bool becomes 0 or 1.
EmitLoad(f, i) ==
  LET home == f.homes[i.dest]
      target == Scratch(home)
      t == TypeOf(f, i.dest)
  IN ReadValue(f, i.x, 4) \o <<LoadMemory(MemoryBytes(i.memory), target, 4, 0)>>
     \o NormalizeRegister(t, target)
     \o (IF t = "bool" THEN <<JumpImm("eq", D, target, 0, 1), ALUImm("mov", D, target, 1)>>
         ELSE <<>>)
     \o Spill(home, target)

EmitStore(f, i) ==
  ReadValue(f, i.x, 4) \o ReadValue(f, i.y, 5) \o <<StoreMemory(MemoryBytes(i.memory), 4, 5, 0)>>

Scale(f, i) == MemoryBytes(Element(TypeOf(f, i.x)))
EmitPointerAdd(f, i) ==
  ReadValue(f, i.x, 0) \o ReadValue(f, i.y, 4)
  \o (IF Scale(f, i) = 1 THEN <<>> ELSE <<ALUImm("mul", D, 4, Scale(f, i))>>)
  \o <<ALUReg("add", D, 0, 4)>> \o WriteValue(f, i.dest, 0)

\* An index out of range divides by zero.
EmitBoundsCheck(f, i) ==
  LET t == TypeOf(f, i.x)
  IN ReadValue(f, i.x, 0)
     \o (IF FitsImmediate(i.imm) THEN <<ALUImm("mov", D, 4, i.imm)>> ELSE <<LoadImm64(4, i.imm)>>)
     \o (IF t \in SignedTypes THEN <<JumpImm("slt", NarrowCompare(t), 0, 0, 1)>> ELSE <<>>)
     \o << JumpReg("lt", NarrowCompare(t), 0, 4, 2),
           ALUImm("mov", D, 5, 0), ALUReg("div", D, 5, 5) >>

EmitZeroMemory(f, i) ==
  LET object == f.memory[i.object]
      width == MemoryBytes(object.element)
  IN <<ALUImm("mov", D, 0, 0)>>
     \o [n \in 1..object.length |->
           StoreMemory(width, FramePointer, 0, f.objects[i.object] + (n - 1) * width)]

EmitCopyMemory(f, i) ==
  LET object == f.memory[i.object]
      width == MemoryBytes(object.element)
  IN FlattenSeq([n \in 1..object.length |->
       << LoadMemory(width, 0, FramePointer, f.objects[i.from] + (n - 1) * width),
          StoreMemory(width, FramePointer, 0, f.objects[i.object] + (n - 1) * width) >>])

-----------------------------------------------------------------------------
(* Text with references to blocks and functions still open.                *)

Item(ins) == [ins |-> ins, block |-> 0, callee |-> "none"]
Items(text) == [n \in DOMAIN text |-> Item(text[n])]
ToBlock(ins, b) == [Item(ins) EXCEPT !.block = b]
ToFunction(name) == [Item(CallRelative(0)) EXCEPT !.callee = name]

Arguments(f, i) == FlattenSeq([n \in DOMAIN i.args |-> ReadValue(f, i.args[n], n)])
Result(f, i) == IF i.dest = NoValue THEN <<>> ELSE WriteValue(f, i.dest, 0)

EmitIRInstruction(f, i) ==
  CASE i.op = "call" ->
         Items(Arguments(f, i)) \o <<ToFunction(i.callee)>> \o Items(Result(f, i))
    [] i.op = "syscall" -> Items(Arguments(f, i) \o <<StaticSyscall(i.imm)>> \o Result(f, i))
    [] i.op = "const" -> Items(EmitConstant(f, i))
    [] i.op \in {"move", "ptraddress"} -> Items(MoveValue(f, i))
    [] i.op \in {"div", "mod"} /\ TypeOf(f, i.dest) \in SignedTypes ->
         Items(EmitSignedDivisionOrRemainder(f, i))
    [] i.op \in ArithmeticOps /\ ~(i.op \in {"div", "mod"} /\ TypeOf(f, i.dest) \in SignedTypes) ->
         Items(EmitArithmetic(f, i))
    [] i.op \in ComparisonOps -> Items(EmitComparison(f, i))
    [] i.op = "address" -> Items(EmitAddress(f, i))
    [] i.op = "load" -> Items(EmitLoad(f, i))
    [] i.op = "store" -> Items(EmitStore(f, i))
    [] i.op = "ptradd" -> Items(EmitPointerAdd(f, i))
    [] i.op = "bounds" -> Items(EmitBoundsCheck(f, i))
    [] i.op = "zero" -> Items(EmitZeroMemory(f, i))
    [] i.op = "copy" -> Items(EmitCopyMemory(f, i))

EmitTerminator(f, t) ==
  CASE t.kind = "jump" -> <<ToBlock(Jump(0), t.target)>>
    [] t.kind = "branch" ->
         LET home == f.homes[t.value]
         IN (IF home.stack THEN Items(Reload(0, home.off)) ELSE <<>>)
            \o << ToBlock(JumpImm("ne", D, Scratch(home), 0, 0), t.target),
                  ToBlock(Jump(0), t.else) >>
    [] t.kind = "return" ->
         Items((IF t.value = NoValue THEN <<ALUImm("mov", D, 0, 0)>> ELSE ReadValue(f, t.value, 0))
               \o <<Return>>)

\* Parameters go to their homes before the entry block; a branch back to the
\* entry block skips this.
EmitParameters(f) ==
  Items(FlattenSeq([n \in DOMAIN f.params |->
    NormalizeRegister(TypeOf(f, f.params[n]), n) \o WriteValue(f, f.params[n], n)]))

BlockOrder(f) == <<f.entry>> \o SelectSeq([b \in DOMAIN f.blocks |-> b], LAMBDA b : b # f.entry)
EmitBlock(f, b) ==
  FlattenSeq([n \in DOMAIN f.blocks[b].code |-> EmitIRInstruction(f, f.blocks[b].code[n])])
  \o EmitTerminator(f, f.blocks[b].term)

\* The length of the first n parts.
Before(parts, n) == Len(FlattenSeq(SubSeq(parts, 1, n)))

\* The text of a function and the index at which each block starts.
Placed(f, order, parts) ==
  [text |-> FlattenSeq(parts),
   blocks |-> [b \in DOMAIN f.blocks |-> Before(parts, CHOOSE n \in DOMAIN order : order[n] = b)]]
EmitAllocated(f) ==
  Placed(f, BlockOrder(f),
         <<EmitParameters(f)>> \o [n \in DOMAIN f.blocks |-> EmitBlock(f, BlockOrder(f)[n])])
EmitFunction(f) == EmitAllocated(AllocateRegisters(f))

-----------------------------------------------------------------------------
(* Programs.                                                               *)

Callees(f) == {At(f, p).callee : p \in {q \in Positions(f) : At(f, q).op = "call"}}
ReachableFunctions(program, entry) ==
  LET within[n \in 0..Cardinality(DOMAIN program)] ==
        IF n = 0 THEN {entry}
        ELSE within[n - 1] \cup UNION {Callees(program[name]) : name \in within[n - 1]}
  IN within[Cardinality(DOMAIN program)]

\* The offset of a jump to a block of its function, the immediate of a call;
\* starts counts the items before each function.
Target(order, parts, starts, item, owner) ==
  IF item.block # 0 THEN starts[owner] + parts[owner].blocks[item.block] + 1
  ELSE starts[CHOOSE n \in DOMAIN order : order[n] = item.callee] + 1
Fixup(plain, item, k, target) ==
  IF item.block # 0
  THEN [item.ins EXCEPT !.off = RelativeOffset(SlotsBefore(plain, k), SlotsBefore(plain, target))]
  ELSE [item.ins EXCEPT !.imm = RelativeOffset(SlotsBefore(plain, k), SlotsBefore(plain, target))]
PatchFixups(order, parts, starts, all, plain) ==
  [k \in DOMAIN all |->
     IF all[k].block = 0 /\ all[k].callee = "none" THEN plain[k]
     ELSE Fixup(plain, all[k], k,
                Target(order, parts, starts, all[k], Max({n \in DOMAIN order : starts[n] < k})))]

Laid(order, parts, texts, all) ==
  PatchFixups(order, parts, [n \in DOMAIN order |-> Before(texts, n - 1)], all,
              [k \in DOMAIN all |-> all[k].ins])
Link(order, parts) ==
  Laid(order, parts, [n \in DOMAIN parts |-> parts[n].text],
       FlattenSeq([n \in DOMAIN parts |-> parts[n].text]))
Ordered(program, order) == Link(order, [n \in DOMAIN order |-> EmitFunction(program[order[n]])])

\* A jump out of the reach of its offset is an error.
FitsOffsets(text) ==
  \A k \in DOMAIN text :
    text[k].op \in {"ja", "jump"} => text[k].off \in -(2 ^ (OffsetBits - 1))..(2 ^ (OffsetBits - 1) - 1)

\* names is the order of the functions in the source; the entry comes first.
Generate(program, names, entry) ==
  LET reachable == ReachableFunctions(program, entry)
  IN Ordered(program,
             <<entry>> \o SelectSeq(names, LAMBDA name : name # entry /\ name \in reachable))
=============================================================================
