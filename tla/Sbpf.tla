-------------------------------- MODULE Sbpf --------------------------------
(* The sBPF v3 subset of sbpf and vm: the forms of instructions, the        *)
(* verifier, and what one instruction does to the registers and the memory  *)
(* of the reference VM.  Widths are parameters: a register has DoubleBits,  *)
(* a "32-bit" operation works on WordBits, and an immediate has ImmBits.    *)
EXTENDS Integers, Sequences, FiniteSets, FiniteSetsExt

CONSTANTS ByteBits,       \* bits of a memory cell
          HalfBytes,      \* cells of a uint16
          WordBytes,      \* cells of a uint32
          DoubleBytes,    \* cells of a uint64 and of a spill slot
          ImmBits,        \* bits of an immediate
          OffsetBits,     \* bits of the offset of a jump
          StackStart,     \* MMStackStart
          StackFrameSize,
          MaxCallDepth,
          InputStart,     \* the one region RunWithMemory maps
          InputBytes,
          InputWritable

WordBits == ByteBits * WordBytes
DoubleBits == ByteBits * DoubleBytes

ASSUME Widths ==
  /\ {ByteBits, HalfBytes, WordBytes, DoubleBytes, ImmBits, OffsetBits} \subseteq Nat \ {0}
  /\ HalfBytes < WordBytes /\ WordBytes < DoubleBytes
\* validateConfig
ASSUME Config == {StackFrameSize, MaxCallDepth} \subseteq Nat \ {0}
\* validateMemoryRegions: the region is not empty, does not overflow and does
\* not share addresses with the stack.
ASSUME Regions ==
  /\ {StackStart, InputStart, InputBytes} \subseteq Nat /\ InputBytes > 0
  /\ InputStart + InputBytes < 2 ^ DoubleBits
  /\ StackStart + StackFrameSize * MaxCallDepth <= InputStart

Register == 0..10
FramePointer == 10

-----------------------------------------------------------------------------
(* Forms.                                                                  *)

\* A slice of the struct Instruction; the opcode is its op, f, bits and reg.
Instructions ==
  [op : STRING, f : STRING, bits : Int, reg : BOOLEAN, dst : Int, src : Int, off : Int, imm : Int]

Nothing == [op |-> "exit", f |-> "none", bits |-> DoubleBits, reg |-> FALSE,
            dst |-> 0, src |-> 0, off |-> 0, imm |-> 0]

ALUReg(f, bits, dst, src) ==
  [Nothing EXCEPT !.op = "alu", !.f = f, !.bits = bits, !.reg = TRUE, !.dst = dst, !.src = src]
ALUImm(f, bits, dst, imm) ==
  [Nothing EXCEPT !.op = "alu", !.f = f, !.bits = bits, !.dst = dst, !.imm = imm]
Negate(bits, dst) == ALUImm("neg", bits, dst, 0)
LoadImm64(dst, imm) == [Nothing EXCEPT !.op = "lddw", !.dst = dst, !.imm = imm]
\* Loads and stores: bits counts the bits moved.
LoadMemory(bytes, dst, src, off) ==
  [Nothing EXCEPT !.op = "load", !.bits = bytes * ByteBits, !.reg = TRUE,
                  !.dst = dst, !.src = src, !.off = off]
StoreMemory(bytes, dst, src, off) ==
  [Nothing EXCEPT !.op = "store", !.bits = bytes * ByteBits, !.reg = TRUE,
                  !.dst = dst, !.src = src, !.off = off]
Jump(off) == [Nothing EXCEPT !.op = "ja", !.off = off]
JumpImm(f, bits, dst, imm, off) ==
  [Nothing EXCEPT !.op = "jump", !.f = f, !.bits = bits, !.dst = dst, !.imm = imm, !.off = off]
JumpReg(f, bits, dst, src, off) ==
  [Nothing EXCEPT !.op = "jump", !.f = f, !.bits = bits, !.reg = TRUE,
                  !.dst = dst, !.src = src, !.off = off]
CallRelative(imm) == [Nothing EXCEPT !.op = "call", !.src = 1, !.imm = imm]
StaticSyscall(id) == [Nothing EXCEPT !.op = "call", !.imm = id]
Return == Nothing

-----------------------------------------------------------------------------
(* Physical positions: LD_DW_IMM takes two slots.                          *)

Slots(ins) == IF ins.op = "lddw" THEN 2 ELSE 1

SlotsBefore(text, i) == i - 1 + Cardinality({j \in 1..(i - 1) : text[j].op = "lddw"})
SlotCount(text) == SlotsBefore(text, Len(text) + 1)
PhysicalPCs(text) == [i \in DOMAIN text |-> SlotsBefore(text, i)]

RelativeOffset(sourcePC, targetPC) == targetPC - sourcePC - 1

-----------------------------------------------------------------------------
(* The verifier.                                                           *)

FitsImmediate(n) == n \in -(2 ^ (ImmBits - 1))..(2 ^ (ImmBits - 1) - 1)

ValidateInstruction(ins) ==
  /\ ins.dst \in Register /\ ins.src \in Register
  /\ ins.dst = FramePointer => ins.op = "store"
  /\ ins.op # "lddw" => FitsImmediate(ins.imm)
  /\ ins.op = "alu" /\ ~ins.reg =>
       /\ ins.f \in {"div", "mod"} => ins.imm # 0
       /\ ins.f \in {"lsh", "rsh", "arsh"} => ins.imm \in 0..(ins.bits - 1)

IsBranch(ins) == ins.op \in {"ja", "jump"} \/ (ins.op = "call" /\ ins.src = 1)
Relative(ins) == IF ins.op = "call" THEN ins.imm ELSE ins.off

\* Every branch and internal call lands on the first slot of an instruction.
ValidateProgram(text) ==
  LET pcs == PhysicalPCs(text)
      starts == {pcs[i] : i \in DOMAIN text}
  IN /\ text \in Seq(Instructions) /\ text # <<>>
     /\ \A i \in DOMAIN text :
          /\ ValidateInstruction(text[i])
          /\ IsBranch(text[i]) => pcs[i] + 1 + Relative(text[i]) \in starts

\* NewWithConfig: the logical program with its index by physical position.
Loaded(text) ==
  LET pcs == PhysicalPCs(text)
  IN [text |-> text, slots |-> SlotCount(text),
      byPC |-> [pc \in {pcs[i] : i \in DOMAIN text} |-> CHOOSE i \in DOMAIN text : pcs[i] = pc]]

-----------------------------------------------------------------------------
(* Arithmetic.                                                             *)

Low(n, bits) == n % 2 ^ bits
Signed(n, bits) ==
  IF Low(n, bits) >= 2 ^ (bits - 1) THEN Low(n, bits) - 2 ^ bits ELSE Low(n, bits)
SignExtend32(n) == Low(Signed(n, WordBits), DoubleBits)

Xor(x, y) ==
  MapThenSumSet(LAMBDA i : IF (x \div 2 ^ i) % 2 # (y \div 2 ^ i) % 2 THEN 2 ^ i ELSE 0,
                0..(DoubleBits - 1))

\* The result of an ALU operation on the low bits of its operands; only the
\* 32-bit sum, difference and product are extended with their sign.
ALU(f, bits, dst, src) ==
  LET x == Low(dst, bits)
      y == Low(src, bits)
      result ==
        CASE f = "mov" -> y
          [] f = "add" -> x + y
          [] f = "sub" -> x - y
          [] f = "mul" -> x * y
          [] f = "div" -> x \div y
          [] f = "mod" -> x % y
          [] f = "lsh" -> x * 2 ^ (y % bits)
          [] f = "rsh" -> x \div 2 ^ (y % bits)
          [] f = "arsh" -> Signed(x, bits) \div 2 ^ (y % bits)
          [] f = "neg" -> -x
          [] f = "xor" -> Xor(x, y)
  IN IF bits = WordBits /\ f \in {"add", "sub", "mul"}
     THEN SignExtend32(result)
     ELSE Low(result, bits)

Compares(f, bits, dst, src) ==
  LET x == Low(dst, bits)
      y == Low(src, bits)
      sx == Signed(dst, bits)
      sy == Signed(src, bits)
  IN CASE f = "eq" -> x = y
       [] f = "ne" -> x # y
       [] f = "gt" -> x > y
       [] f = "ge" -> x >= y
       [] f = "lt" -> x < y
       [] f = "le" -> x <= y
       [] f = "sgt" -> sx > sy
       [] f = "sge" -> sx >= sy
       [] f = "slt" -> sx < sy
       [] f = "sle" -> sx <= sy

-----------------------------------------------------------------------------
(* Memory: cells by address, the stack and one mapped region.              *)

StackCells == StackStart..(StackStart + StackFrameSize * MaxCallDepth - 1)
InputCells == InputStart..(InputStart + InputBytes - 1)

Span(address, bytes) == address..(address + bytes - 1)

\* memoryRange: an access lies in one region.
Readable(address, bytes) ==
  Span(address, bytes) \subseteq StackCells \/ Span(address, bytes) \subseteq InputCells
Writable(address, bytes) ==
  \/ Span(address, bytes) \subseteq StackCells
  \/ InputWritable /\ Span(address, bytes) \subseteq InputCells

\* Little endian.
Fetch(memory, address, bytes) ==
  MapThenSumSet(LAMBDA i : memory[address + i] * 2 ^ (ByteBits * i), 0..(bytes - 1))
Put(memory, address, bytes, value) ==
  [a \in DOMAIN memory |->
     IF a \in Span(address, bytes)
     THEN (value \div 2 ^ (ByteBits * (a - address))) % 2 ^ ByteBits
     ELSE memory[a]]
=============================================================================
