----------------------------- MODULE Lifetimes -----------------------------
(* validateStackAddressLifetimes (address_lifetime.go): which programs that  *)
(* turn a pointer into an integer may be compiled.  The analysis visits the  *)
(* functions in turn, the blocks of a function from a queue and the          *)
(* operations of a block in order, and repeats until no summary changes.     *)
(* The effects of a callee are applied in the order a Go map is ranged over: *)
(* any.  The limits of 256 rounds and 4096 effects are left out, and memcpy  *)
(* and memset, which only a system call reaches.                             *)
EXTENDS Ir, SequencesExt

VARIABLES source,  \* [program, names, entry, args, addresses]: the program, if any
          check    \* the state of its analysis

Parameter == 1..5

-----------------------------------------------------------------------------
(* What a value may hold.  local: an address of the current frame; params    *)
(* and memory: what a parameter holds, and what the memory it names holds.   *)

NoOrigins == [local |-> FALSE, params |-> {}, memory |-> {}]
OfFrame == [NoOrigins EXCEPT !.local = TRUE]
Empty(o) == o = NoOrigins
Add(o, p) ==
  [local |-> o.local \/ p.local, params |-> o.params \cup p.params,
   memory |-> o.memory \cup p.memory]
Union(S) ==
  [local |-> \E o \in S : o.local, params |-> UNION {o.params : o \in S},
   memory |-> UNION {o.memory : o \in S}]

\* A proof of where a value points to; adding to an integer is no such proof.
Unknown == [kind |-> "unknown", n |-> 0, offset |-> 0]
Located(kind, n) == [kind |-> kind, n |-> n, offset |-> 0]

Holding(origins, location) == [origins |-> origins, location |-> location, known |-> FALSE, constant |-> 0]
Plain == Holding(NoOrigins, Unknown)
Constant(n) == [Plain EXCEPT !.known = TRUE, !.constant = n]

JoinValue(v, w) ==
  LET known == v.known /\ w.known /\ v.constant = w.constant
  IN [origins |-> Add(v.origins, w.origins),
      location |-> IF v.location = w.location THEN v.location ELSE Unknown,
      known |-> known, constant |-> IF known THEN v.constant ELSE 0]

CanCarryGuestAddress(t) == t \in Pointers \cup Integer
CarriesFullGuestAddress(t) == t \in Pointers \/ Bits(t) = DoubleBits

ParameterOf(f, id) == {n \in DOMAIN f.params : f.params[n] = id /\ CanCarryGuestAddress(TypeOf(f, id))}
NewAddressState(f) ==
  [values |-> [id \in DOMAIN f.values |->
                 IF ParameterOf(f, id) = {} THEN Plain
                 ELSE LET n == CHOOSE k \in ParameterOf(f, id) : TRUE
                      IN Holding([NoOrigins EXCEPT !.params = {n}], Located("parameter", n))],
   objects |-> [o \in DOMAIN f.memory |-> NoOrigins],
   params |-> [n \in Parameter |->
                 IF n \in DOMAIN f.params /\ CanCarryGuestAddress(TypeOf(f, f.params[n]))
                 THEN [NoOrigins EXCEPT !.memory = {n}] ELSE NoOrigins]]

Join(s, t) ==
  [values |-> [id \in DOMAIN s.values |-> JoinValue(s.values[id], t.values[id])],
   objects |-> [o \in DOMAIN s.objects |-> Add(s.objects[o], t.objects[o])],
   params |-> [n \in Parameter |-> Add(s.params[n], t.params[n])]]

\* What memory named by a value may hold.  An address of this frame without a
\* proof may name any of its objects.
MemoryAt(s, v) ==
  Union({IF v.location.kind = "object" THEN s.objects[v.location.n]
         ELSE IF v.origins.local THEN Union(Range(s.objects)) ELSE NoOrigins}
        \cup {s.params[n] : n \in v.origins.params}
        \cup {[NoOrigins EXCEPT !.memory = v.origins.memory]})

-----------------------------------------------------------------------------
(* Constants and locations.                                                *)

NormalizeConstant(t, n) == IF Bits(t) \in {ByteBits, WordBits} THEN Low(n, Bits(t)) ELSE n

\* Only unsigned quotients are folded.
Folds(t, op, x, y) == op \in {"div", "mod"} => y # 0 /\ t \notin SignedTypes
Folded(t, op, x, y) ==
  NormalizeConstant(t, Low(CASE op = "add" -> x + y [] op = "sub" -> x - y [] op = "mul" -> x * y
                             [] op = "div" -> x \div y [] op = "mod" -> x % y, DoubleBits))

Adjust(objects, location, offset) ==
  IF \/ location.kind = "unknown" \/ offset \notin 0..(2 ^ DoubleBits - 1)
     \/ location.kind = "object" /\ location.n \in DOMAIN objects
        /\ offset > Size(objects[location.n])
  THEN Unknown ELSE [location EXCEPT !.offset = offset]

ArithmeticLocation(f, op, v, w) ==
  LET Known(c) == c.known /\ Empty(c.origins)
  IN CASE op = "add" /\ v.location # Unknown /\ Known(w) ->
            Adjust(f.memory, v.location, v.location.offset + w.constant)
       [] op = "add" /\ v.location = Unknown /\ w.location # Unknown /\ Known(v) ->
            Adjust(f.memory, w.location, w.location.offset + v.constant)
       [] op = "sub" /\ v.location # Unknown /\ Known(w) ->
            Adjust(f.memory, v.location, v.location.offset - w.constant)
       [] OTHER -> Unknown

ArithmeticValue(f, i, v, w) ==
  LET t == TypeOf(f, i.dest)
      known == v.known /\ w.known /\ Folds(t, i.op, v.constant, w.constant)
  IN [origins |-> Add(v.origins, w.origins), location |-> ArithmeticLocation(f, i.op, v, w),
      known |-> known, constant |-> IF known THEN Folded(t, i.op, v.constant, w.constant) ELSE 0]

MovedValue(f, i, v) ==
  LET t == TypeOf(f, i.dest)
      full == CarriesFullGuestAddress(t) /\ CarriesFullGuestAddress(TypeOf(f, i.x))
  IN [v EXCEPT !.location = IF full THEN @ ELSE Unknown,
               !.constant = IF v.known THEN NormalizeConstant(t, @) ELSE @]

IndexedValue(f, i, v, index) ==
  LET offset == index.constant * MemoryBytes(Element(TypeOf(f, i.x)))
  IN Holding(v.origins, IF index.known THEN Adjust(f.memory, v.location, v.location.offset + offset)
                        ELSE Unknown)

-----------------------------------------------------------------------------
(* Stores.  An effect stores a value of some origins through a destination;  *)
(* width zero is a copy of unknown size.                                     *)

Effect(value, destination, width) == [value |-> value, destination |-> destination, width |-> width]

DestinationIsCurrentObject(f, d, width) ==
  /\ width # 0 /\ d.location.kind = "object"
  /\ d.origins = OfFrame
  /\ d.location.offset + width <= Size(f.memory[d.location.n])

\* Every object and parameter memory the destination may name receives the value.
MayName(d, o) == IF d.location.kind = "object" THEN d.location.n = o ELSE d.origins.local
Stored(s, e) ==
  [s EXCEPT
    !.objects = [o \in DOMAIN @ |-> IF MayName(e.destination, o) THEN Add(@[o], e.value) ELSE @[o]],
    !.params = [n \in Parameter |->
       IF n \in e.destination.origins.params THEN Add(@[n], e.value) ELSE @[n]]]

Outward(e) ==
  [e EXCEPT !.destination.origins.local = FALSE,
            !.destination.location = IF @.kind = "object" THEN Unknown ELSE @]

\* applyAddressStore: an address of this frame may be kept in its own object only.
Applied(c, f, e) ==
  IF Empty(e.value) THEN c
  ELSE IF DestinationIsCurrentObject(f, e.destination, e.width)
  THEN [c EXCEPT !.state.objects[e.destination.location.n] = Add(@, e.value)]
  ELSE IF e.value.local THEN [c EXCEPT !.verdict = "rejected"]
  ELSE [c EXCEPT !.state = Stored(@, e), !.observed.stores = @ \cup {Outward(e)}]

\* Mutant: what the memory of an argument holds is forgotten.
SubstitutedValuesOnly(s, o, arguments) ==
  Union({[NoOrigins EXCEPT !.local = o.local]}
        \cup {arguments[n].origins : n \in o.params \cap DOMAIN arguments})
\* What a summary says of a callee, in terms of the arguments of a call.
Substituted(s, o, arguments) ==
  Union({[NoOrigins EXCEPT !.local = o.local]}
        \cup {arguments[n].origins : n \in o.params \cap DOMAIN arguments}
        \cup {MemoryAt(s, arguments[n]) : n \in o.memory \cap DOMAIN arguments})
SubstitutedValue(s, v, arguments) ==
  Holding(Substituted(s, v.origins, arguments),
    IF v.location.kind = "parameter" /\ v.location.n \in DOMAIN arguments
    THEN Adjust(<<>>, arguments[v.location.n].location,
                arguments[v.location.n].location.offset + v.location.offset)
    ELSE Unknown)
Resolved(s, e, arguments) ==
  Effect(Substituted(s, e.value, arguments), SubstitutedValue(s, e.destination, arguments), e.width)

-----------------------------------------------------------------------------
(* The analysis.                                                           *)

NoSummary == [returned |-> NoOrigins, stores |-> {}]

Start(s, verdict) ==
  [verdict |-> verdict, summaries |-> [name \in DOMAIN s.program |-> NoSummary], changed |-> FALSE,
   fn |-> 1, at |-> 0, block |-> 0, queue |-> <<>>, inputs |-> <<>>, state |-> <<>>,
   observed |-> NoSummary, pending |-> {}, arguments |-> <<>>]

UsesPointerAddress(s) ==
  \E name \in DOMAIN s.program : \E b \in DOMAIN s.program[name].blocks :
    \E n \in DOMAIN s.program[name].blocks[b].code :
      s.program[name].blocks[b].code[n].op = "ptraddress"

Name == source.names[check.fn]
F == source.program[Name]
Body == F.blocks[check.block].code
I == Body[check.at]
Known(id) == check.state.values[id]

Analyzing == check.verdict = "analyzing"
InBlock == Analyzing /\ check.block # 0
AtOperation == InBlock /\ check.pending = {} /\ check.at <= Len(Body)

\* A function starts with its entry block in the queue.
StartsFunction ==
  /\ Analyzing /\ check.at = 0 /\ check.fn <= Len(source.names)
  /\ check' = [check EXCEPT !.at = 1, !.queue = <<F.entry>>, !.observed = NoSummary,
                            !.inputs = F.entry :> NewAddressState(F)]
StartsBlock ==
  /\ Analyzing /\ check.block = 0 /\ check.at # 0 /\ check.queue # <<>>
  /\ check' = [check EXCEPT !.block = Head(check.queue), !.queue = Tail(@), !.at = 1,
                            !.state = check.inputs[Head(check.queue)]]

Assigned(id, v) ==
  check' = [check EXCEPT !.at = @ + 1,
                         !.state.values = IF id = NoValue THEN @ ELSE [@ EXCEPT ![id] = v]]

TransfersValue ==
  /\ AtOperation
  /\ I.op \notin {"call", "store", "zero", "copy", "bounds"}
  /\ Assigned(I.dest,
       CASE I.op = "const" -> Constant(I.imm)
         [] I.op = "move" -> MovedValue(F, I, Known(I.x))
         [] I.op = "ptraddress" -> Known(I.x)
         [] I.op = "address" -> Holding(OfFrame, Located("object", I.object))
         [] I.op = "ptradd" -> IndexedValue(F, I, Known(I.x), Known(I.y))
         [] I.op = "load" -> Holding(MemoryAt(check.state, Known(I.x)), Unknown)
         [] I.op \in ArithmeticOps -> ArithmeticValue(F, I, Known(I.x), Known(I.y))
         [] OTHER -> Plain)
TransfersMemory ==
  /\ AtOperation /\ I.op \in {"zero", "copy", "bounds"}
  /\ check' = [check EXCEPT !.at = @ + 1,
       !.state.objects = IF I.op = "zero" THEN [@ EXCEPT ![I.object] = NoOrigins]
                         ELSE IF I.op = "copy" THEN [@ EXCEPT ![I.object] = check.state.objects[I.from]] ELSE @]
TransfersStore ==
  /\ AtOperation /\ I.op = "store"
  /\ check' = Applied([check EXCEPT !.at = @ + 1], F,
                      Effect(Known(I.y).origins, Known(I.x), MemoryBytes(I.memory)))

\* A call assigns its result, then applies the effects of its callee one by one.
CalleeSummary == check.summaries[I.callee]
TransfersCall ==
  /\ AtOperation /\ I.op = "call"
  /\ LET arguments == [n \in DOMAIN I.args |-> Known(I.args[n])]
         result == Holding(Substituted(check.state, CalleeSummary.returned, arguments), Unknown)
     IN check' = [check EXCEPT
          !.arguments = arguments, !.pending = CalleeSummary.stores, !.at = @ + 1,
          !.state.values = IF I.dest = NoValue THEN @ ELSE [@ EXCEPT ![I.dest] = result]]
AppliesEffect ==
  /\ InBlock
  /\ \E e \in check.pending :
       check' = Applied([check EXCEPT !.pending = @ \ {e}], F, Resolved(check.state, e, check.arguments))

\* enqueueAddressSuccessor, for each successor.
Reached(b) == IF b \in DOMAIN check.inputs THEN Join(check.inputs[b], check.state) ELSE check.state
\* Mutant: a successor is always visited again.
AlwaysNews(b) == TRUE
News(b) == b \notin DOMAIN check.inputs \/ Reached(b) # check.inputs[b]
Enqueued(successors) ==
  [check EXCEPT !.block = 0,
     !.inputs = [b \in ToSet(successors) |-> Reached(b)] @@ @,
     !.queue = @ \o SelectSeq(successors, LAMBDA b : News(b) /\ b \notin ToSet(check.queue))]

Terminator == F.blocks[check.block].term
ReturnedOrigins == IF Terminator.value = NoValue THEN NoOrigins ELSE Known(Terminator.value).origins
EndsBlock ==
  /\ InBlock /\ check.pending = {} /\ check.at > Len(Body)
  /\ check' =
       CASE Terminator.kind = "return" ->
              IF ReturnedOrigins.local THEN [check EXCEPT !.verdict = "rejected"]
              ELSE [check EXCEPT !.block = 0, !.observed.returned = Add(@, ReturnedOrigins)]
         [] Terminator.kind = "jump" -> Enqueued(<<Terminator.target>>)
         [] Terminator.kind = "branch" ->
              Enqueued(IF Terminator.target = Terminator.else THEN <<Terminator.target>>
                       ELSE <<Terminator.target, Terminator.else>>)

Merged(a, b) == [returned |-> Add(a.returned, b.returned), stores |-> a.stores \cup b.stores]
EndsFunction ==
  /\ Analyzing /\ check.block = 0 /\ check.at # 0 /\ check.queue = <<>>
  /\ LET merged == Merged(check.summaries[Name], check.observed)
     IN check' = [check EXCEPT !.fn = @ + 1, !.at = 0, !.summaries[Name] = merged,
                               !.changed = @ \/ merged # check.summaries[Name]]
\* The functions are visited again until no summary changes.
EndsIteration ==
  /\ Analyzing /\ check.fn > Len(source.names)
  /\ check' = IF check.changed THEN [check EXCEPT !.fn = 1, !.changed = FALSE]
              ELSE Start(source, "accepted")

Analyze ==
  \/ StartsFunction \/ StartsBlock \/ TransfersValue \/ TransfersMemory \/ TransfersStore
  \/ TransfersCall \/ AppliesEffect \/ EndsBlock \/ EndsFunction \/ EndsIteration
=============================================================================
