------------------------------- MODULE Runtime -------------------------------
(***************************************************************************)
(* One invocation of an on-chain program in package runtime, and the       *)
(* cross-program invocations (CPI) it makes.  An account is kept three     *)
(* times, and every check depends on which copy it reads:                  *)
(*   view    the fields of AccountView on the host                         *)
(*   store   the same fields in the serialized input, where the program    *)
(*           (the guest) writes them                                       *)
(*   data    the data bytes, with the spare ones behind the length that a  *)
(*           realloc may expose, and with direct mapping                   *)
(*   region  the length of the VM region that maps them                    *)
(* Sync copies store to view.  What the program may have changed is judged *)
(* against the baseline, which a successful CPI moves forward.  Slots are  *)
(* the accounts as the instruction lists them: two slots with the same     *)
(* account alias one view.  The guest may do anything its memory lets it;  *)
(* the callee of a CPI is external and keeps to the privileges it got.     *)
(***************************************************************************)
EXTENDS Naturals, Sequences, Functions

CONSTANTS
  Accounts,   \* account keys, programs included
  Slots,      \* the accounts of the instruction, duplicates included
  Program,    \* the program invoked
  Owners,     \* owners an account may be given, Program among them
  PDAs,       \* accounts whose address derives from Program
  Inputs,     \* the accounts as an invocation may receive them
  Modes,      \* is account data mapped directly? (a subset of BOOLEAN)
  Calls,      \* CPI requests the program may make
  Targets,    \* bound: the accounts the program tries to change
  Increase,   \* MaxPermittedDataIncrease
  MaxLength,  \* MaxPermittedDataLength
  MaxU64,     \* the largest u64
  MaxMoves,   \* bound: changes by the program
  MaxCalls,   \* bound: CPIs attempted
  MaxEffects  \* bound: changes by callees

Bit == {0, 1}
Amount == 0..MaxU64
Input ==
  [owner: Owners, lamports: Amount, data: Seq(Bit),
   signer: BOOLEAN, writable: BOOLEAN, executable: BOOLEAN]
Meta == [account: Accounts, signer: BOOLEAN, writable: BOOLEAN]
Call == [program: Accounts, metas: SUBSET Meta, infos: SUBSET Accounts, seeds: SUBSET Accounts]

NoCall == [program |-> Program, metas |-> {}, infos |-> {}, seeds |-> {}]

ASSUME RuntimeAssumption ==
  /\ Slots \in Seq(Accounts) /\ Accounts = {Slots[i] : i \in DOMAIN Slots}
  /\ Program \in Owners /\ Program \in Accounts
  /\ PDAs \subseteq Accounts /\ Targets \subseteq Accounts
  /\ Modes \subseteq BOOLEAN
  /\ Calls \subseteq Call
  /\ Increase \in Nat /\ MaxLength \in Nat /\ MaxU64 \in Nat
  /\ MaxMoves \in Nat /\ MaxCalls \in Nat /\ MaxEffects \in Nat
  /\ \A in \in Inputs : in \in [Accounts -> Input]
  /\ \A in \in Inputs, a \in Accounts : Len(in[a].data) <= MaxLength

VARIABLES
  input,     \* the accounts as serialized
  direct,    \* AccountDataDirectMapping
  mem,       \* view, store, data and region of every account
  baseline,  \* baselineOwner, baselineLamports and the data that was hashed
  pc,        \* "program", "callee", "returned" or "failed"
  call,      \* the CPI being executed, or NoCall
  saved,     \* the memory a failure goes back to: of the CPI, else the entry
  last,      \* how the last CPI ended: "none", "accepted" or "rolledback"
  moves, calls, effects

vars == <<input, direct, mem, baseline, pc, call, saved, last, moves, calls, effects>>

Mutable(a) == input[a].writable /\ ~input[a].executable

\* Direct mapping gives the program writable, growable data of its own accounts.
Attached(a) == direct /\ Mutable(a) /\ input[a].owner = Program

OriginalLen(a) == Len(input[a].data)

\* len(account.data): bytes the host holds for the account.
Capacity(a) ==
  IF direct /\ ~Attached(a) THEN OriginalLen(a) ELSE OriginalLen(a) + Increase

MaxLen(a) == IF Capacity(a) < MaxLength THEN Capacity(a) ELSE MaxLength

Fields == [owner: Owners, lamports: Amount, len: Nat]
Bytes == UNION {[1..n -> Bit] : n \in 0..(MaxLength + Increase)}
Memory == [view: Fields, store: Fields, data: Bytes, region: Nat]

TypeOK ==
  /\ input \in Inputs /\ direct \in Modes
  /\ mem \in [Accounts -> Memory] /\ saved \in [Accounts -> Memory]
  /\ \A a \in Accounts :
       /\ mem[a].view.len <= MaxLen(a) /\ mem[a].region <= MaxLen(a)
       /\ DOMAIN mem[a].data = 1..Capacity(a)
  /\ baseline \in [Accounts -> [owner: Owners, lamports: Amount, data: Seq(Bit)]]
  /\ pc \in {"program", "callee", "returned", "failed"}
  /\ call \in Calls \cup {NoCall}
  /\ last \in {"none", "accepted", "rolledback"}
  /\ moves \in 0..MaxMoves /\ calls \in 0..MaxCalls /\ effects \in 0..MaxEffects

-----------------------------------------------------------------------------
(* One account.                                                            *)

\* The parsed input: the bytes behind the data are zero.
Loaded(a) ==
  LET fields == [owner |-> input[a].owner, lamports |-> input[a].lamports, len |-> OriginalLen(a)]
  IN [view |-> fields, store |-> fields,
      data |-> [i \in 1..Capacity(a) |-> IF i <= OriginalLen(a) THEN input[a].data[i] ELSE 0],
      region |-> IF Attached(a) THEN OriginalLen(a) ELSE 0]

Accepted(x) ==
  [owner |-> x.view.owner, lamports |-> x.view.lamports,
   data |-> [i \in 1..x.view.len |-> x.data[i]]]

\* The bytes between two lengths, zeroed.
Cleared(data, m, n) == [i \in DOMAIN data |-> IF (i <= m) = (i <= n) THEN data[i] ELSE 0]

ResizeRegion(x, n) == [x EXCEPT !.data = Cleared(@, x.region, n), !.region = n]

LengthValid(x, a) == x.store.len <= MaxLen(a)

\* An invalid length is an error, after the scalar fields were copied.
Sync(x, a) ==
  IF ~LengthValid(x, a) THEN [x EXCEPT !.view = [x.store EXCEPT !.len = x.view.len]]
  ELSE [(IF Attached(a) /\ x.store.len # x.view.len THEN ResizeRegion(x, x.store.len) ELSE x)
          EXCEPT !.view = x.store]

SetLamports(x, n) == [x EXCEPT !.view.lamports = n, !.store.lamports = n]
SetOwner(x, o) == [x EXCEPT !.view.owner = o, !.store.owner = o]
SetLen(x, n) == [x EXCEPT !.view.len = n, !.store.len = n]

\* Mutant: any length is taken.
ResizeDataUnbounded(x, a, program, n) ==
  LET y == Sync(x, a)
  IN IF LengthValid(x, a) /\ Mutable(a) /\ y.view.owner = program
     THEN SetLen([y EXCEPT !.data = Cleared(@, y.view.len, n)], n)
     ELSE y

\* ResizeData for a program: Sync, the checks, then every copy of the length.
ResizeData(x, a, program, n) ==
  LET y == Sync(x, a)
      z == IF Attached(a) THEN ResizeRegion(y, n) ELSE y
  IN IF /\ LengthValid(x, a) /\ Mutable(a)
        /\ y.view.owner = program
        /\ n <= MaxLen(a)
     THEN SetLen([z EXCEPT !.data = Cleared(@, y.view.len, n)], n)
     ELSE y

AllZero(x) == \A i \in 1..x.view.len : x.data[i] = 0

\* Mutant: the data is not copied again after the resize.
RestoredOnce(x, s, a) ==
  LET y == [SetOwner(SetLamports(x, s.view.lamports), s.view.owner)
              EXCEPT !.data = s.data, !.view.len = s.view.len]
  IN SetLen(IF Attached(a) THEN ResizeRegion(y, s.view.len) ELSE y, s.view.len)

\* Mutant: the region keeps the length the callee left.
RestoredUnmapped(x, s, a) ==
  [SetLen(SetOwner(SetLamports(x, s.view.lamports), s.view.owner), s.view.len)
     EXCEPT !.data = s.data]

\* Mutant: the snapshot holds only the bytes of the data, not the spare ones.
RestoredVisible(x, s, a) ==
  [RestoredUnmapped(x, s, a)
     EXCEPT !.region = s.region,
            !.data = [i \in DOMAIN x.data |-> IF i <= s.view.len THEN s.data[i] ELSE x.data[i]]]

\* restoreAccountSnapshots: the resize clears what it exposes, so the data is
\* copied before it and again after it.
Restored(x, s, a) ==
  LET y == [SetOwner(SetLamports(x, s.view.lamports), s.view.owner)
              EXCEPT !.data = s.data, !.view.len = s.view.len]
      z == IF Attached(a) THEN [ResizeRegion(y, s.view.len) EXCEPT !.data = s.data] ELSE y
  IN SetLen(z, s.view.len)

-----------------------------------------------------------------------------
(* All accounts.                                                           *)

\* SyncAccounts goes through the slots and stops at the first invalid length.
Reached(m, a) ==
  \E i \in DOMAIN Slots :
    Slots[i] = a /\ \A j \in 1..(i - 1) : LengthValid(m[Slots[j]], Slots[j])

SyncAccounts(m) == [a \in Accounts |-> IF Reached(m, a) THEN Sync(m[a], a) ELSE m[a]]
SyncFails(m) == \E a \in Accounts : ~LengthValid(m[a], a)

Restore(s) == [a \in Accounts |-> Restored(mem[a], s[a], a)]
Entry == [a \in Accounts |-> Loaded(a)]
Baselines(m) == [a \in Accounts |-> Accepted(m[a])]

Lamports(b) == SumFunction([a \in DOMAIN b |-> b[a].lamports])

\* ValidateProgramChanges, on views that are in sync.
ValidChanges(m) ==
  LET now == Baselines(m)
  IN /\ \A a \in Accounts :
          /\ ~Mutable(a) => now[a] = baseline[a]
          /\ baseline[a].owner # Program =>
               /\ now[a].owner = baseline[a].owner /\ now[a].data = baseline[a].data
               /\ now[a].lamports >= baseline[a].lamports
          /\ now[a].owner # baseline[a].owner => AllZero(m[a])
     /\ Lamports(now) = Lamports(baseline)

Init ==
  /\ input \in Inputs /\ direct \in Modes
  /\ mem = Entry /\ baseline = Baselines(Entry)
  /\ saved = Entry
  /\ pc = "program" /\ call = NoCall
  /\ last = "none"
  /\ moves = 0 /\ calls = 0 /\ effects = 0

-----------------------------------------------------------------------------
(* The program.                                                            *)

\* The program has run on with the given memory.
Moved(m) ==
  /\ pc = "program" /\ moves < MaxMoves
  /\ mem' = m /\ moves' = moves + 1
  /\ last' = "none"
  /\ UNCHANGED <<input, direct, baseline, pc, call, saved, calls, effects>>

\* Stores of the guest into the input region.
GuestOwner(a, o) == Moved([mem EXCEPT ![a].store.owner = o])
GuestLamports(a, n) == Moved([mem EXCEPT ![a].store.lamports = n])
GuestLength(a, n) == Moved([mem EXCEPT ![a].store.len = n])

\* With direct mapping the data of other accounts is not writable, and nothing
\* behind the mapped length is.
GuestData(a, i) ==
  /\ direct => Attached(a) /\ i <= mem[a].region
  /\ Moved([mem EXCEPT ![a].data[i] = 1 - @])

\* Owner and Lamports refresh the field they return.
ReadOwner(a) == Moved([mem EXCEPT ![a].view.owner = mem[a].store.owner])
ReadLamports(a) == Moved([mem EXCEPT ![a].view.lamports = mem[a].store.lamports])

\* A write through the slice WritableData returns, which reads the owner; where
\* it refuses one, it has done no more than that.
WriteData(a, i) ==
  /\ Mutable(a) /\ mem[a].store.owner = Program
  /\ i <= mem[a].view.len
  /\ Moved([mem EXCEPT ![a].view.owner = Program, ![a].data[i] = 1 - @])

Resize(a, n) == Moved([mem EXCEPT ![a] = ResizeData(@, a, Program, n)])

\* RequireAccount of a writable slot.
Usable(m, a) == LengthValid(m[a], a) /\ Mutable(a)
Synced(m, a) == [m EXCEPT ![a] = Sync(@, a)]

\* Both balances are read where they are written, so that slots which alias
\* one account leave its balance as it is.
Paid(m, a, b, n) ==
  LET debited == [m EXCEPT ![a] = SetLamports(@, @.view.lamports - n)]
  IN [debited EXCEPT ![b] = SetLamports(@, @.view.lamports + n)]

TransferLamports(i, j, n) ==
  LET a == Slots[i]
      b == Slots[j]
      m == Synced(mem, a)
      both == Synced(m, b)
  IN Moved(IF ~Usable(mem, a) THEN m
           ELSE IF /\ Usable(m, b)
                   /\ both[a].view.owner = Program
                   /\ both[a].view.lamports >= n
                   /\ both[b].view.lamports + n <= MaxU64
           THEN Paid(both, a, b, n)
           ELSE both)

AssignOwner(a, o) ==
  LET m == Synced(mem, a)
  IN Moved(IF Usable(mem, a) /\ m[a].view.owner = Program /\ AllZero(m[a])
           THEN [m EXCEPT ![a] = SetOwner(@, o)]
           ELSE m)

-----------------------------------------------------------------------------
(* CPI.                                                                    *)

\* Mutant: a duplicate meta without a privilege hides the one with it.
AskedByAll(c) ==
  LET all(S) == {a \in Accounts : \E x \in S : x.account = a}
  IN [signer |-> all({x \in c.metas : \A y \in c.metas : y.account = x.account => y.signer}),
      writable |-> all({x \in c.metas : \A y \in c.metas : y.account = x.account => y.writable})]

\* The privileges asked for, over all metas of an account.
Asked(c) ==
  [signer |-> {m.account : m \in {x \in c.metas : x.signer}},
   writable |-> {m.account : m \in {x \in c.metas : x.writable}}]

\* The program is executable, every account is provided, and no privilege is
\* asked for that the caller does not have or a seed does not give.
Requestable(c) ==
  /\ c.seeds \subseteq PDAs
  /\ input[c.program].executable
  /\ \A x \in c.metas : x.account \in c.infos \/ input[x.account].executable
  /\ \A a \in Asked(c).writable : input[a].writable
  /\ \A a \in Asked(c).signer : input[a].signer \/ a \in c.seeds

\* Mutant: the program's own changes are not validated before the CPI.
CanInvokeUnchecked(m, c) == Requestable(c)

\* What Invoke checks after its first SyncAccounts.
CanInvoke(m, c) == ValidChanges(m) /\ Requestable(c)

Invoke(c) ==
  /\ pc = "program" /\ calls < MaxCalls
  /\ ~SyncFails(mem) /\ CanInvoke(SyncAccounts(mem), c)
  /\ mem' = SyncAccounts(mem) /\ saved' = SyncAccounts(mem)
  /\ pc' = "callee" /\ call' = c /\ last' = "none"
  /\ calls' = calls + 1
  /\ UNCHANGED <<input, direct, baseline, moves, effects>>

\* A refused CPI has only synced the views.  The policy and the limits of the
\* embedder may refuse any CPI.
InvokeRefused ==
  /\ pc = "program" /\ calls < MaxCalls
  /\ mem' = SyncAccounts(mem) /\ calls' = calls + 1
  /\ last' = "none"
  /\ UNCHANGED <<input, direct, baseline, pc, call, saved, moves, effects>>

\* The callee: it may change what the metas let it write, and of that only
\* accounts its program owns, with their signature when it is not Program.
Granted(a) == \E x \in call.metas : x.account = a /\ x.writable
Signed(a) == \E x \in call.metas : x.account = a /\ x.signer
Governs(a) ==
  /\ Granted(a) /\ ~input[a].executable
  /\ mem[a].view.owner = call.program
  /\ call.program = Program \/ Signed(a)

Changed(m) ==
  /\ pc = "callee" /\ effects < MaxEffects
  /\ mem' = m /\ effects' = effects + 1
  /\ UNCHANGED <<input, direct, baseline, pc, call, saved, last, moves, calls>>

CalleePays(a, b) ==
  /\ a # b /\ Governs(a) /\ Granted(b) /\ ~input[b].executable
  /\ mem[a].view.lamports > 0 /\ mem[b].view.lamports < MaxU64
  /\ Changed(Paid(mem, a, b, 1))

CalleeWrites(a, i) ==
  /\ Governs(a) /\ i <= mem[a].view.len
  /\ Changed([mem EXCEPT ![a].data[i] = 1 - @])

CalleeResizes(a, n) ==
  /\ Governs(a)
  /\ Changed([mem EXCEPT ![a] = ResizeData(@, a, call.program, n)])

CalleeAssigns(a, o) ==
  /\ Governs(a) /\ AllZero(mem[a])
  /\ Changed([mem EXCEPT ![a] = SetOwner(@, o)])

\* A length the callee leaves in the input that Sync will not take.
CalleeBreaksLength(a) ==
  /\ Granted(a)
  /\ Changed([mem EXCEPT ![a].store.len = Capacity(a) + 1])

\* The end of the CPI: on an error, or when the accounts do not sync, back to
\* the snapshot; else the state becomes the caller's new baseline.
Rollback ==
  /\ mem' = Restore(saved) /\ last' = "rolledback"
  /\ UNCHANGED baseline

AcceptBaselines ==
  /\ mem' = SyncAccounts(mem) /\ last' = "accepted"
  /\ baseline' = Baselines(SyncAccounts(mem))

BackToProgram ==
  /\ pc = "callee" /\ pc' = "program"
  /\ call' = NoCall /\ saved' = Entry
  /\ UNCHANGED <<input, direct, moves, calls, effects>>

CalleeFails == BackToProgram /\ Rollback
CalleeReturns == BackToProgram /\ IF SyncFails(mem) THEN Rollback ELSE AcceptBaselines

-----------------------------------------------------------------------------
(* The end of the invocation.                                              *)

Ended ==
  /\ pc = "program"
  /\ UNCHANGED <<input, direct, baseline, call, saved, moves, calls, effects, last>>

\* ExecuteEntrypoint restores the entry's snapshot; with direct mapping the
\* host validates the changes itself and drops the memory of a failed program.
ProgramFails ==
  /\ Ended /\ ~direct
  /\ mem' = Restore(Entry) /\ pc' = "failed"

ProgramReturns ==
  /\ Ended
  /\ IF ~SyncFails(mem) /\ ValidChanges(SyncAccounts(mem))
     THEN mem' = SyncAccounts(mem) /\ pc' = "returned"
     ELSE /\ mem' = IF direct THEN SyncAccounts(mem)
                    ELSE [a \in Accounts |-> Restored(SyncAccounts(mem)[a], Entry[a], a)]
          /\ pc' = "failed"

ProgramStep ==
  \/ \E a \in Targets :
       \/ ReadOwner(a) \/ ReadLamports(a)
       \/ \E o \in Owners : GuestOwner(a, o) \/ AssignOwner(a, o)
       \/ \E n \in Amount : GuestLamports(a, n)
       \/ \E n \in 0..(Capacity(a) + 1) : GuestLength(a, n) \/ Resize(a, n)
       \/ \E i \in 1..Capacity(a) : GuestData(a, i) \/ WriteData(a, i)
  \/ \E i, j \in {k \in DOMAIN Slots : Slots[k] \in Targets}, n \in Amount : TransferLamports(i, j, n)
  \/ \E c \in Calls : Invoke(c)
  \/ InvokeRefused
  \/ ProgramFails
  \/ ProgramReturns

CalleeStep ==
  \/ \E a \in Accounts :
       \/ \E b \in Accounts : CalleePays(a, b)
       \/ \E i \in 1..Capacity(a) : CalleeWrites(a, i)
       \/ \E n \in 0..(Capacity(a) + 1) : CalleeResizes(a, n)
       \/ \E o \in Owners : CalleeAssigns(a, o)
       \/ CalleeBreaksLength(a)
  \/ CalleeFails
  \/ CalleeReturns

Next == ProgramStep \/ CalleeStep

Spec == Init /\ [][Next]_vars

-----------------------------------------------------------------------------
(* Properties.                                                             *)

\* The accounts as the program's caller may rely on them: the baselines, and at
\* the end what is left, which with direct mapping a failed program's is not.
Settled ==
  CASE pc = "returned" -> Baselines(mem)
    [] pc = "failed" -> Baselines(IF direct THEN Entry ELSE mem)
    [] OTHER -> baseline

Outcome == IF pc \in {"returned", "failed"} THEN pc ELSE "running"

Promise == INSTANCE Settlement WITH accounts <- Settled, outcome <- Outcome

\* Every CPI is one atomic step of the accounts or none, and so is the return:
\* whatever the program stored before, each keeps within the privileges of the
\* invocation and conserves lamports (Invoke, ValidateProgramChanges and
\* acceptAccountBaselines, with the state as the last CPI left it).
CallsSettleAtOnce == Promise!SettlementSpec

\* A CPI that failed, in its executor or in the sync after it, leaves no trace
\* in any copy of any account: owner, balance, length, region, data and the
\* spare bytes (Invoke's two calls of restoreAccountSnapshots).
FailedCallsLeaveNoTrace ==
  [][pc = "callee" /\ last' = "rolledback" => mem' = saved]_vars

\* An entry point that fails, after any CPIs, leaves the input as serialized,
\* spare bytes included (ExecuteEntrypointWithOptions).
FailureIsAtomic == pc = "failed" /\ ~direct => mem = Entry

\* Host and guest see different fields only while the callee or the program is
\* at work: not when a callee starts, when a CPI has ended or after a return.
ViewsAgree ==
  \A a \in Accounts :
    mem[a].view # mem[a].store =>
      \/ pc = "callee" /\ mem # saved
      \/ pc = "program" /\ last = "none"
      \/ pc = "failed"

\* The region of a growable account always ends where its view does, whatever
\* CPIs resized it and were undone (Sync, ResizeData, restoreAccountSnapshots).
RegionFollowsView == \A a \in Accounts : Attached(a) => mem[a].region = mem[a].view.len

\* With direct mapping nothing is left behind the data of an account: what a
\* shrink hid can not come back with a later growth (ResizeRegion, memory.go
\* "Shrunk and newly exposed bytes are cleared deterministically").
SpareIsClear ==
  \A a \in Accounts : Attached(a) =>
    \A i \in DOMAIN mem[a].data : i > mem[a].view.len => mem[a].data[i] = 0

\* The view, the serialized input, the mapped region and the bytes behind it say
\* the same of an account whenever nobody is at work on it.
CopiesAgree == ViewsAgree /\ RegionFollowsView /\ SpareIsClear

\* Whatever the program stores, transfers and calls, a returned invocation has
\* conserved the lamports of its accounts (ValidateProgramChanges before every
\* CPI and at the end, with the baselines a CPI moved forward).
LamportsConserved ==
  pc = "returned" => Lamports([a \in Accounts |-> mem[a].view]) = Lamports(input)

\* Over the whole invocation, an account that was debited, reassigned or whose
\* data changed was passed writable, and was the program's own or signed: no
\* sequence of assignments, stores and CPIs raises a privilege.
ChangesArePrivileged ==
  pc = "returned" => \A a \in Accounts :
    LET now == Accepted(mem[a])
    IN now.lamports < input[a].lamports \/ now.owner # input[a].owner \/ now.data # input[a].data
       => Mutable(a) /\ (input[a].owner = Program \/ input[a].signer \/ a \in PDAs)
=============================================================================
