----------------------------- MODULE MCCompiler -----------------------------
(* Programs for Compiler: bytes of 2 bits, 16-bit values of 4 bits, 32-bit    *)
(* values of 6 bits and 64-bit values of 8 bits.                              *)
EXTENDS Compiler

Value2(t, kind) == [type |-> t, kind |-> kind]
Param(t) == Value2(t, "parameter")
Local(t) == Value2(t, "local")
Temp(t) == Value2(t, "temporary")
Fillers(n) == [k \in 1..n |-> Local("u64")]

Fn(params, result, values, memory, blocks) ==
  [params |-> params, result |-> result, values |-> values, memory |-> memory,
   blocks |-> blocks, entry |-> 1]
Block(body, term) == [code |-> body, term |-> term]

Const(d, n) == [Instr EXCEPT !.op = "const", !.dest = d, !.imm = n]
MoveTo(d, x) == [Instr EXCEPT !.op = "move", !.dest = d, !.x = x]
Binary(op, d, x, y) == [Instr EXCEPT !.op = op, !.dest = d, !.x = x, !.y = y]
CallOf(d, name, args) == [Instr EXCEPT !.op = "call", !.dest = d, !.callee = name, !.args = args]
AddressOf(d, o) == [Instr EXCEPT !.op = "address", !.dest = d, !.object = o]
LoadFrom(d, p, t) == [Instr EXCEPT !.op = "load", !.dest = d, !.x = p, !.memory = t]
StoreTo(p, v, t) == [Instr EXCEPT !.op = "store", !.x = p, !.y = v, !.memory = t]
Index(d, p, i) == Binary("ptradd", d, p, i)
Bounds(i, n) == [Instr EXCEPT !.op = "bounds", !.x = i, !.imm = n]
ZeroOf(o) == [Instr EXCEPT !.op = "zero", !.object = o]
CopyOf(o, from) == [Instr EXCEPT !.op = "copy", !.object = o, !.from = from]

Case(program, names, args, addresses) ==
  [program |-> program, names |-> names, entry |-> "main", args |-> args, addresses |-> addresses]

\* A function that fills every preserved register and a spill slot.
Busy == Fn(<<>>, "void", Fillers(5), <<>>,
           <<Block([k \in 1..5 |-> Const(k, 40 + k)], Returns(NoValue))>>)

-----------------------------------------------------------------------------
(* One operation, with its operands and its result in every kind of home.  *)

Shapes == [fill : {0, 2, 3, 4}, x : {"param", "local"}, y : {"param", "local", "x"},
           d : {"local", "temp", "x", "y"}, call : BOOLEAN]

OperationCase(op, t, s, a, b) ==
  LET n == 2 + s.fill
      result == IF op \in ComparisonOps THEN "bool" ELSE t
      x == IF s.x = "param" THEN 1 ELSE n + 1
      y == IF s.y = "param" THEN 2 ELSE IF s.y = "local" THEN n + 2 ELSE x
      d == IF s.d = "local" \/ (s.d # "temp" /\ result = "bool") THEN n + 3
           ELSE IF s.d = "temp" THEN n + 4 ELSE IF s.d = "x" THEN x ELSE y
      values == <<Param(t), Param(t)>> \o Fillers(s.fill)
                \o <<Local(t), Local(t), Local(result), Temp(result)>>
      body == (IF s.call THEN <<CallOf(NoValue, "busy", <<>>)>> ELSE <<>>)
              \o <<MoveTo(n + 1, 1), MoveTo(n + 2, 2), Binary(op, d, x, y)>>
      main == Fn(<<1, 2>>, result, values, <<>>, <<Block(body, Returns(d))>>)
  IN Case(("main" :> main) @@ ("busy" :> Busy), <<"busy", "main">>, <<a, b>>, {})

Shape(f, x, y, d, call) == [fill |-> f, x |-> x, y |-> y, d |-> d, call |-> call]
Arguments2(t) == CASE t = "u8" -> {0, 1, 2, 3, 6}
                   [] t \in {"u32", "i32"} -> {0, 1, 31, 32, 63, 90}
                   [] OTHER -> {0, 1, 127, 128, 253, 255}

\* Every operation on every type with boundary operands.
Operations ==
  UNION {{OperationCase(op, t, Shape(0, "param", "param", "temp", FALSE), a, b) :
            op \in ArithmeticOps \cup ComparisonOps, a \in Arguments2(t), b \in Arguments2(t)} :
         t \in Integer}
\* Every assignment of homes.
HomeAssignments ==
  {OperationCase("sub", "u64", s, 9, 5) : s \in Shapes}
  \cup {OperationCase("div", "i64", s, 245, 3) : s \in {h \in Shapes : ~h.call}}
  \cup {OperationCase("lt", "i32", s, 9, 5) : s \in {h \in Shapes : h.d \in {"local", "temp"}}}

\* A constant of every type, and a conversion between any two, into a register
\* and into a spill slot.
OneStep(t, from, step, fill, a) ==
  LET values == <<Param(from)>> \o Fillers(fill) \o <<Local(t)>>
      d == fill + 2
      main == Fn(<<1>>, t, values, <<>>, <<Block(<<[step EXCEPT !.dest = d]>>, Returns(d))>>)
  IN Case("main" :> main, <<"main">>, <<a>>, {})
Conversions ==
  {OneStep(t, from, MoveTo(0, 1), 4, a) : t \in Integer, from \in Integer, a \in {3, 8, 32, 130, 255}}
Constants ==
  {OneStep(t, "u64", Const(0, n), fill, 0) :
     t \in Integer, n \in {1, 31, 32, 127, 128, 223, 224, 250}, fill \in {0, 4}}

-----------------------------------------------------------------------------
(* Memory, calls and branches.                                             *)

Object(t, length) == [element |-> t, length |-> length]
Main(program, names, args) == Case(program, names, args, {})

\* a[i] = v, then a[1] - a[i], of an array of three.
ArrayProgram(t, index, fill) ==
  LET n == fill + 2
      p == n + 1  q == n + 2  one == n + 3  first == n + 4  x == n + 5  y == n + 6
      values == <<Param(index), Param(t)>> \o Fillers(fill)
                \o << Local(PointerTo[t]), Local(PointerTo[t]), Local(index),
                      Local(PointerTo[t]), Local(t), Local(t) >>
  IN Fn(<<1, 2>>, t, values, <<Object("u8", 1), Object(t, 3)>>,
        << Block(<<ZeroOf(2), Bounds(1, 3), AddressOf(p, 2), Index(q, p, 1), StoreTo(q, 2, t)>>,
                 Jumps(2)),
           Block(<<Const(one, 1), Index(first, p, one), LoadFrom(x, first, t), LoadFrom(y, q, t),
                   Binary("sub", x, x, y)>>, Returns(x)) >>)
Arrays ==
  {Main("main" :> ArrayProgram(t, index, 0), <<"main">>, <<i, 7>>) :
     t \in {"u8", "u32", "i32"}, index \in {"u64", "i32", "i64"}, i \in {0, 1, 2, 3, 255}}

\* Copies an array, clears the original, reads the copy.
CopyProgram(t) ==
  LET values == <<Param(t), Local(PointerTo[t]), Local(PointerTo[t]), Local("u64"), Temp(t)>>
  IN Fn(<<1>>, t, values, <<Object(t, 2), Object(t, 2)>>,
        <<Block(<<Const(4, 1), AddressOf(2, 1), Index(2, 2, 4), StoreTo(2, 1, t), CopyOf(2, 1), ZeroOf(1),
                  AddressOf(3, 2), Index(3, 3, 4), LoadFrom(5, 3, t)>>, Returns(5))>>)
Copying == {Main("main" :> CopyProgram(t), <<"main">>, <<a>>) : t \in {"u8", "i32"}, a \in {1, 11, 255}}

\* The callee writes through a pointer to the caller's frame; five parameters.
AddInto ==
  Fn(<<1, 2, 3, 4, 5>>, "u64",
     <<Param("*u64"), Param("u64"), Param("u8"), Param("i32"), Param("u64"), Local("u64"), Local("u64")>>, <<>>,
     <<Block(<<LoadFrom(6, 1, "u64"), MoveTo(7, 4), Binary("add", 6, 6, 7), Binary("sub", 6, 6, 5),
               StoreTo(1, 6, "u64"), MoveTo(7, 3), Binary("add", 7, 7, 2)>>, Returns(7))>>)
CallerOf(fill) ==
  LET n == 2 + fill
      values == <<Param("u64"), Param("i32")>> \o Fillers(fill) \o <<Local("*u64"), Local("u8"), Local("u64")>>
  IN Fn(<<1, 2>>, "u64", values, <<Object("u64", 1)>>,
        <<Block(<<AddressOf(n + 1, 1), StoreTo(n + 1, 1, "u64"), Const(n + 2, 2),
                  CallOf(n + 3, "add", <<n + 1, 1, n + 2, 2, 1>>), LoadFrom(1, n + 1, "u64"),
                  Binary("mul", 1, 1, n + 3)>>, Returns(1))>>)
Pointing ==
  {Main(("main" :> CallerOf(fill)) @@ ("add" :> AddInto) @@ ("busy" :> Busy), <<"add", "busy", "main">>, <<a, b>>) :
     fill \in {0, 1}, a \in {3, 200}, b \in {5, 9}}

\* n + (n - 1) + ... by recursion, and by a loop back to the entry block.
SumRecursive ==
  Fn(<<1>>, "u64", <<Param("u64"), Local("u64"), Local("bool"), Local("u64"), Temp("u64")>>, <<>>,
     << Block(<<Const(2, 0), Binary("eq", 3, 1, 2)>>, Branches(3, 2, 3)),
        Block(<<>>, Returns(2)),
        Block(<<Const(4, 1), Binary("sub", 4, 1, 4), CallOf(4, "main", <<4>>), Binary("add", 5, 4, 1)>>,
              Returns(5)) >>)
SumLoop ==
  Fn(<<1, 2>>, "u8", <<Param("u8"), Param("u8"), Local("u8"), Local("bool"), Local("u8"), Local("bool")>>, <<>>,
     << Block(<<Const(5, 1), Const(3, 0), Binary("ne", 6, 1, 3), MoveTo(4, 6)>>, Branches(4, 2, 3)),
        Block(<<Binary("add", 2, 2, 1), Binary("sub", 1, 1, 5)>>, Jumps(1)),
        Block(<<>>, Returns(2)) >>)
Forever == Fn(<<>>, "void", <<>>, <<>>, <<Block(<<>>, Jumps(1))>>)
Looping ==
  {Main("main" :> SumRecursive, <<"main">>, <<n>>) : n \in 0..4}
  \cup {Main("main" :> SumLoop, <<"main">>, <<n, k>>) : n \in {0, 1, 2}, k \in {1, 3}}
  \cup {Main("main" :> Forever, <<"main">>, <<>>)}

\* Bytes of the mapped region as bools and integers, by typed and by explicit
\* addresses, inside of it and one past its end.
Moved == {"bool", "u8", "i32"} \cup Explicit
RegionProgram(t, address) ==
  Fn(<<1, 2>>, ValueType(t), <<Param(address), Param(address), Local(ValueType(t))>>, <<>>,
     <<Block(<<LoadFrom(3, 1, t), StoreTo(2, 3, t)>>, Returns(3))>>)
Regional ==
  {Case("main" :> RegionProgram(t, address), <<"main">>, <<InputStart + a, InputStart + b>>, {1, 2}) :
     t \in Moved, address \in {"u64"}, a \in {0, 2, 6, 7, 8}, b \in {1, 7}}
  \cup {Case("main" :> RegionProgram(t, PointerTo[ValueType(t)]), <<"main">>, <<InputStart + a, InputStart>>, {}) :
     t \in Moved, a \in {0, 1, 3, 7, 8}}

\* The low cells of a word in the frame are replaced and read back.
NarrowProgram(t) ==
  Fn(<<1, 2>>, "u32", <<Param("u32"), Param("u32"), Local("*u32"), Local("u32"), Local("u32")>>,
     <<Object("u32", 1)>>,
     <<Block(<<AddressOf(3, 1), StoreTo(3, 1, "u32"), StoreTo(3, 2, t), LoadFrom(4, 3, t), LoadFrom(5, 3, "u32"),
               Binary("sub", 5, 5, 4)>>, Returns(5))>>)
Narrow == {Main("main" :> NarrowProgram(t), <<"main">>, <<a, b>>) : t \in Explicit, a \in {0, 63}, b \in {0, 3, 21, 63}}

\* A jump over the most instructions its offset reaches, and over one more.
JumpOver(n) ==
  Fn(<<>>, "u64", <<Local("u64"), Local("u64")>>, <<>>,
     <<Block(<<Const(1, 1)>>, Jumps(3)), Block([k \in 1..n |-> MoveTo(2, 1)], Jumps(3)), Block(<<>>, Returns(1))>>)
Far == {Main("main" :> JumpOver(n), <<"main">>, <<>>) : n \in {62, 63}}

\* A system call, a frame of too many spill slots, an object of too many bytes.
Odd ==
  {Main("main" :> Fn(<<>>, "u64", <<Local("u64")>>, <<>>,
                     <<Block(<<[Instr EXCEPT !.op = "syscall", !.dest = 1]>>, Returns(1))>>), <<"main">>, <<>>),
   Main("main" :> Fn(<<>>, "void", Fillers(10), <<>>, <<Block(<<>>, Returns(NoValue))>>), <<"main">>, <<>>),
   Main("main" :> Fn(<<>>, "void", <<>>, <<Object("u64", 6)>>, <<Block(<<>>, Returns(NoValue))>>), <<"main">>, <<>>)}

-----------------------------------------------------------------------------
(* Addresses of the frame.  main: 1 the address of the mapped region, 2 and 3 *)
(* a pointer to its first object and that address, 4 another value.  Every   *)
(* two or three of these steps, within the bounds of the objects.            *)

AddressOfPointer(d, x) == [Instr EXCEPT !.op = "ptraddress", !.dest = d, !.x = x]
Identity == Fn(<<1>>, "u64", <<Param("u64")>>, <<>>, <<Block(<<>>, Returns(1))>>)
Retain ==
  Fn(<<1, 2>>, "void", <<Param("u64"), Param("u64")>>, <<>>,
     <<Block(<<StoreTo(1, 2, "u64")>>, Returns(NoValue))>>)
\* Stores what another memory holds.
Forward ==
  Fn(<<1, 2>>, "u64", <<Param("u64"), Param("u64"), Local("u64")>>, <<>>,
     <<Block(<<LoadFrom(3, 2, "u64"), StoreTo(1, 3, "u64")>>, Returns(3))>>)
Helpers == ("identity" :> Identity) @@ ("retain" :> Retain) @@ ("forward" :> Forward) @@ ("busy" :> Busy)
HelperNames == <<"busy", "forward", "identity", "main", "retain">>

Taken2 == <<ZeroOf(1), ZeroOf(2), AddressOf(2, 1), AddressOfPointer(3, 2), Const(4, 0), Const(5, 0)>>
Steps == {MoveTo(4, 3), StoreTo(3, 3, "u64"), LoadFrom(4, 3, "u64"), StoreTo(3, 4, "u64"), StoreTo(1, 3, "u64"),
          StoreTo(1, 4, "u64"), LoadFrom(4, 1, "u64"), CopyOf(2, 1), ZeroOf(1), AddressOf(2, 2),
          CallOf(4, "identity", <<3>>), CallOf(NoValue, "retain", <<1, 4>>), CallOf(NoValue, "retain", <<3, 3>>),
          CallOf(4, "forward", <<1, 3>>), CallOf(4, "forward", <<3, 3>>)}
AddressProgram(blocks) ==
  Fn(<<1>>, "u64", <<Param("u64"), Local("*u64"), Local("u64"), Local("u64"), Local("bool")>>,
     <<Object("u64", 1), Object("u64", 1)>>, <<Block(Taken2, Jumps(2))>> \o blocks)
Escape(blocks) ==
  Case(("main" :> AddressProgram(blocks)) @@ Helpers, HelperNames, <<InputStart>>, {1})
\* The steps once, and twice in a loop.
Once(steps, v) == Escape(<<Block(steps, Returns(v))>>)
Twice(steps) ==
  Escape(<<Block(steps, Branches(5, 4, 3)), Block(<<Const(5, 1)>>, Jumps(2)), Block(<<>>, Returns(4))>>)
Escapes ==
  {Once(<<x, y>>, v) : x \in Steps, y \in Steps, v \in {3, 4}}
  \cup {Twice(<<x, y>>) : x \in Steps, y \in Steps}

\* The same for a callee: 1 and 2 the addresses of the region and of an object
\* of its caller, 4 an address of its own frame, 5 another value.
CalleeSteps == {MoveTo(5, 2), StoreTo(1, 2, "u64"), StoreTo(2, 2, "u64"), StoreTo(2, 1, "u64"), LoadFrom(5, 2, "u64"),
                StoreTo(1, 5, "u64"), StoreTo(2, 5, "u64"), StoreTo(4, 2, "u64"), StoreTo(4, 4, "u64"),
                LoadFrom(5, 4, "u64"), StoreTo(1, 4, "u64"), StoreTo(2, 4, "u64")}
Callee(steps) ==
  Fn(<<1, 2>>, "u64", <<Param("u64"), Param("u64"), Local("*u64"), Local("u64"), Local("u64")>>, <<Object("u64", 1)>>,
     <<Block(<<ZeroOf(1), AddressOf(3, 1), AddressOfPointer(4, 3), Const(5, 0)>> \o steps, Returns(5))>>)
CalleeEscape(callee, steps) ==
  Case(("main" :> AddressProgram(<<Block(<<CallOf(4, "callee", <<1, 3>>)>> \o steps, Returns(4))>>))
         @@ ("callee" :> callee),
       <<"main", "callee">>, <<InputStart>>, {1})
CalleeEscapes ==
  {CalleeEscape(Callee(<<x, y>>), steps) :
     x \in CalleeSteps, y \in CalleeSteps, steps \in {<<>>, <<LoadFrom(4, 3, "u64")>>}}

\* A helper that stores its fourth argument through the first, reads through the
\* second and stores what it read through the third; the first two are the same
\* object.
Through ==
  Fn(<<1, 2, 3, 4>>, "void", [k \in 1..4 |-> Param("u64")] \o <<Local("u64")>>, <<>>,
     <<Block(<<StoreTo(1, 4, "u64"), LoadFrom(5, 2, "u64"), StoreTo(3, 5, "u64")>>, Returns(NoValue))>>)
Aliased ==
  {Case(("main" :> AddressProgram(<<Block(<<CallOf(NoValue, "through", <<3, 3, 1, 3>>)>>, Returns(4))>>))
          @@ ("through" :> Through),
        <<"main", "through">>, <<InputStart>>, {1})}

MCSources ==
  UNION {Operations, HomeAssignments, Conversions, Constants, Arrays, Copying, Pointing, Looping, Regional, Narrow, Far,
         Odd,
         Escapes, CalleeEscapes}

-----------------------------------------------------------------------------
(* Handwritten text: every sequence of three of these instructions, and text  *)
(* that ends just before, at and after the limit of instructions.            *)

Parts == {LoadImm64(6, 200), ALUImm("add", DoubleBits, 6, 1), ALUReg("mov", DoubleBits, 10, 6),
          StoreMemory(DoubleBytes, 10, 6, -DoubleBytes), JumpImm("ne", DoubleBits, 6, 0, -2),
          Jump(0), Jump(1), Jump(-3), CallRelative(-2), CallRelative(0), CallRelative(1), Return}
Straight(n) == [k \in 1..n |-> ALUImm("add", DoubleBits, 6, 1)]
MCTexts ==
  {<<x, y, z>> : x \in Parts, y \in Parts, z \in Parts}
  \cup {Straight(MaxInstructions + n) : n \in {-1, 0, 1}}
=============================================================================
