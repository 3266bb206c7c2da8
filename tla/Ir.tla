--------------------------------- MODULE Ir ---------------------------------
(* The intermediate representation of the compiler (ir.go): its types, what  *)
(* Program.Validate accepts, and what its operations mean in Go.  Values are *)
(* integers with their sign; a pointer is a place in a memory object of a    *)
(* frame, or in the mapped region.                                           *)
EXTENDS Sbpf, TLC

Unsigned == {"u8", "u32", "u64"}
SignedTypes == {"i32", "i64"}
Integer == Unsigned \cup SignedTypes
MemoryScalar == Integer \cup {"bool"}
PointerTo == [t \in MemoryScalar |->
  CASE t = "u8" -> "*u8" [] t = "u32" -> "*u32" [] t = "u64" -> "*u64"
    [] t = "i32" -> "*i32" [] t = "i64" -> "*i64" [] t = "bool" -> "*bool"]
Pointers == {PointerTo[t] : t \in MemoryScalar}
Element(pointer) == CHOOSE t \in MemoryScalar : PointerTo[t] = pointer
Scalar == MemoryScalar \cup Pointers

\* Zero for the types that are not integers, which therefore compare at full width.
Bits(t) == CASE t = "u8" -> ByteBits
             [] t \in {"u32", "i32"} -> WordBits
             [] t \in {"u64", "i64"} -> DoubleBits
             [] OTHER -> 0

\* What LoadUint8 and LoadUint16 move: a uint32 of which memory holds less.
Explicit == {"narrow8", "narrow16"}
ValueType(memory) == IF memory \in Explicit THEN "u32" ELSE memory

MemoryBytes(t) == CASE t \in {"u8", "bool", "narrow8"} -> 1
                    [] t = "narrow16" -> HalfBytes
                    [] t \in {"u32", "i32"} -> WordBytes
                    [] t \in {"u64", "i64"} -> DoubleBytes

NoValue == 0

\* A value has a type and a kind; a memory object an element type and a length.
Size(object) == MemoryBytes(object.element) * object.length

Instr == [op |-> "const", dest |-> NoValue, x |-> NoValue, y |-> NoValue, imm |-> 0,
          callee |-> "none", args |-> <<>>, object |-> 0, from |-> 0, memory |-> "u64"]
Jumps(block) == [kind |-> "jump", target |-> block, else |-> block, value |-> NoValue]
Branches(cond, yes, no) == [kind |-> "branch", target |-> yes, else |-> no, value |-> cond]
Returns(id) == [kind |-> "return", target |-> 0, else |-> 0, value |-> id]

ArithmeticOps == {"add", "sub", "mul", "div", "mod"}
OrderOps == {"lt", "le", "gt", "ge"}
ComparisonOps == OrderOps \cup {"eq", "ne"}
Effects == {"call", "syscall", "store", "bounds", "zero", "copy"}

-----------------------------------------------------------------------------
(* Validate: program maps names to functions.                              *)

IsValue(f, id) == id \in DOMAIN f.values
TypeOf(f, id) == f.values[id].type

ValidateInstruction2(program, f, i) ==
  LET dest == TypeOf(f, i.dest)
      x == TypeOf(f, i.x)
      y == TypeOf(f, i.y)
      Pair == IsValue(f, i.x) /\ IsValue(f, i.y)
      Addresses(t) ==
        /\ x \in Pointers \cup {"u64"}
        /\ x \in Pointers => Element(x) = t
        /\ ValueType(i.memory) = t
  IN /\ IsValue(f, i.dest) \/ (i.dest = NoValue /\ i.op \in Effects)
     /\ CASE i.op = "const" ->
               /\ dest = "bool" => i.imm \in 0..1
               /\ dest \in Pointers => i.imm = 0
          [] i.op = "move" ->
               /\ IsValue(f, i.x)
               /\ {x, dest} \subseteq Integer \/ x = dest
          [] i.op \in ArithmeticOps -> Pair /\ dest \in Integer /\ x = dest /\ y = dest
          [] i.op \in ComparisonOps ->
               Pair /\ dest = "bool" /\ x = y /\ (i.op \in OrderOps => x \in Integer)
          [] i.op = "call" ->
               /\ i.callee \in DOMAIN program
               /\ LET g == program[i.callee]
                  IN /\ Len(i.args) = Len(g.params)
                     /\ \A n \in DOMAIN i.args :
                          /\ IsValue(f, i.args[n])
                          /\ TypeOf(f, i.args[n]) = TypeOf(g, g.params[n])
                     /\ IF g.result = "void" THEN i.dest = NoValue
                        ELSE i.dest # NoValue /\ dest = g.result
          [] i.op = "syscall" -> \A n \in DOMAIN i.args : IsValue(f, i.args[n])
          [] i.op = "address" ->
               i.object \in DOMAIN f.memory /\ dest = PointerTo[f.memory[i.object].element]
          [] i.op = "ptraddress" -> IsValue(f, i.x) /\ x = "*u64" /\ dest = "u64"
          [] i.op = "load" -> IsValue(f, i.x) /\ Addresses(dest)
          [] i.op = "store" -> i.dest = NoValue /\ Pair /\ Addresses(y)
          [] i.op = "ptradd" -> Pair /\ x \in Pointers /\ dest = x /\ y \in Integer
          [] i.op = "bounds" ->
               i.dest = NoValue /\ IsValue(f, i.x) /\ x \in Integer /\ i.imm > 0
          [] i.op = "zero" -> i.dest = NoValue /\ i.object \in DOMAIN f.memory
          [] i.op = "copy" ->
               /\ i.dest = NoValue
               /\ {i.object, i.from} \subseteq DOMAIN f.memory
               /\ f.memory[i.object] = f.memory[i.from]

ValidateTerminator(f, t) ==
  CASE t.kind = "jump" -> t.target \in DOMAIN f.blocks
    [] t.kind = "branch" ->
         /\ IsValue(f, t.value) /\ TypeOf(f, t.value) = "bool"
         /\ {t.target, t.else} \subseteq DOMAIN f.blocks
    [] t.kind = "return" ->
         IF f.result = "void" THEN t.value = NoValue
         ELSE IsValue(f, t.value) /\ TypeOf(f, t.value) = f.result

ValidateFunction(program, f) ==
  /\ f.result \in MemoryScalar \cup {"void"}
  /\ Len(f.params) <= 5
  /\ \A id \in DOMAIN f.values :
       TypeOf(f, id) \in Scalar /\ f.values[id].kind \in {"parameter", "local", "temporary"}
  /\ \A n \in DOMAIN f.params :
       IsValue(f, f.params[n]) /\ f.values[f.params[n]].kind = "parameter"
  /\ \A o \in DOMAIN f.memory :
       /\ f.memory[o].element \in MemoryScalar
       /\ Size(f.memory[o]) \in 1..StackFrameSize
  /\ f.entry \in DOMAIN f.blocks
  /\ \A b \in DOMAIN f.blocks :
       /\ \A n \in DOMAIN f.blocks[b].code : ValidateInstruction2(program, f, f.blocks[b].code[n])
       /\ ValidateTerminator(f, f.blocks[b].term)

Validate(program) == \A name \in DOMAIN program : ValidateFunction(program, program[name])

-----------------------------------------------------------------------------
(* Meaning.                                                                *)

\* The value of a type that an integer of any size wraps to.
Wrap(t, n) ==
  IF t \in SignedTypes THEN Signed(n, Bits(t))
  ELSE IF t \in Unsigned THEN Low(n, Bits(t)) ELSE n

\* Go truncates a quotient towards zero; a remainder has the sign of the dividend.
Magnitude(n) == IF n < 0 THEN -n ELSE n
Sign(n) == IF n < 0 THEN -1 ELSE 1
Quotient(x, y) == Sign(x) * Sign(y) * (Magnitude(x) \div Magnitude(y))
Remainder(x, y) == Sign(x) * (Magnitude(x) % Magnitude(y))

Arithmetic(op, t, x, y) ==
  Wrap(t, CASE op = "add" -> x + y
            [] op = "sub" -> x - y
            [] op = "mul" -> x * y
            [] op = "div" -> Quotient(x, y)
            [] op = "mod" -> Remainder(x, y))

Comparison(op, x, y) ==
  LET holds == CASE op = "eq" -> x = y
                 [] op = "ne" -> x # y
                 [] op = "lt" -> x < y
                 [] op = "le" -> x <= y
                 [] op = "gt" -> x > y
                 [] op = "ge" -> x >= y
  IN IF holds THEN 1 ELSE 0

\* A place in a memory object of a frame, or in the mapped region (frame 0),
\* counted in cells and kept as one number.
Place(frame, object, at) == 1000000 * frame + 100000 * object + 50000 + at
FrameOf(place) == place \div 1000000
ObjectOf(place) == (place % 1000000) \div 100000
CellOf(place) == (place % 100000) - 50000
InputPlace(address) == Place(0, 0, address - InputStart)
=============================================================================
