---------------------------- MODULE RuntimeProofs ----------------------------
(***************************************************************************)
(* Theorems about Runtime, for any accounts, slots, inputs, CPI requests   *)
(* and limits.  The inductive invariant is a statement about the memory of *)
(* one account, Sound, kept by every operation on it; a rollback is exact  *)
(* because two sound memories agree on everything a snapshot leaves out.   *)
(***************************************************************************)
EXTENDS Runtime, SumProofs, SequenceTheorems

\* The memory of one account: typed, within its limits, mapped to its length
\* when it is growable and then with nothing behind the length.
Sound(x, a) ==
  /\ x \in Memory
  /\ x.data \in [1..Capacity(a) -> Bit]
  /\ x.view.len <= MaxLen(a)
  /\ x.region = IF Attached(a) THEN x.view.len ELSE 0
  /\ Attached(a) => \A i \in 1..Capacity(a) : i > x.view.len => x.data[i] = 0

Agrees(x) == x.view = x.store

\* The inputs of an invocation are among those the constants allow.
Given == input \in Inputs /\ direct \in Modes

-----------------------------------------------------------------------------
(* One account.                                                            *)

\* Sizes are numbers.
LEMMA Sizes ==
  ASSUME Given, NEW a \in Accounts
  PROVE  /\ input[a] \in Input
         /\ OriginalLen(a) \in Nat /\ Capacity(a) \in Nat /\ MaxLen(a) \in Nat
         /\ MaxLen(a) <= Capacity(a)
         /\ OriginalLen(a) <= MaxLen(a)
         /\ Capacity(a) <= MaxLength + Increase
         /\ direct \in BOOLEAN
<1>1. input[a] \in Input /\ OriginalLen(a) <= MaxLength /\ direct \in BOOLEAN
  BY RuntimeAssumption DEF Given, OriginalLen
<1>2. input[a].data \in Seq(Bit)
  BY <1>1 DEF Input
<1>3. OriginalLen(a) \in Nat
  BY <1>2, LenProperties DEF OriginalLen
<1>. QED
  BY <1>1, <1>3, RuntimeAssumption DEF Capacity, MaxLen

\* The bytes of an account are those a Memory may hold.
LEMMA BytesOf ==
  ASSUME Given, NEW a \in Accounts, NEW d \in [1..Capacity(a) -> Bit]
  PROVE  d \in Bytes
<1>1. Capacity(a) \in 0..(MaxLength + Increase)
  BY Sizes, RuntimeAssumption
<1>. QED
  BY <1>1 DEF Bytes

\* Clearing keeps the shape of the data.
LEMMA ClearedBytes ==
  ASSUME NEW c \in Nat, NEW d \in [1..c -> Bit], NEW m \in Nat, NEW n \in Nat
  PROVE  /\ Cleared(d, m, n) \in [1..c -> Bit]
         /\ \A i \in 1..c : i <= m /\ i <= n => Cleared(d, m, n)[i] = d[i]
BY DEF Cleared, Bit

\* Behind the new length nothing is left, if nothing was behind the old one.
LEMMA ClearedSpare ==
  ASSUME NEW c \in Nat, NEW d \in [1..c -> Bit], NEW m \in Nat, NEW n \in Nat,
         \A i \in 1..c : i > m => d[i] = 0
  PROVE  \A i \in 1..c : i > n => Cleared(d, m, n)[i] = 0
BY DEF Cleared, Bit

\* The input as parsed is sound and in agreement.
LEMMA LoadedSound ==
  ASSUME Given, NEW a \in Accounts
  PROVE  Sound(Loaded(a), a) /\ Agrees(Loaded(a))
<1>. DEFINE F == [owner |-> input[a].owner, lamports |-> input[a].lamports, len |-> OriginalLen(a)]
           D == [i \in 1..Capacity(a) |-> IF i <= OriginalLen(a) THEN input[a].data[i] ELSE 0]
<1>1. F \in Fields
  BY Sizes DEF Fields, Input
<1>2. D \in [1..Capacity(a) -> Bit]
  <2>1. input[a].data \in Seq(Bit)
    BY Sizes DEF Input
  <2>2. \A i \in 1..OriginalLen(a) : input[a].data[i] \in Bit
    BY <2>1, ElementOfSeq DEF OriginalLen
  <2>. QED
    BY <2>2, Sizes DEF Bit
<1>3. D \in Bytes
  BY <1>2, BytesOf
<1>4. Loaded(a) = [view |-> F, store |-> F, data |-> D,
                   region |-> IF Attached(a) THEN OriginalLen(a) ELSE 0]
  BY DEF Loaded
<1>. HIDE DEF F
<1>5. F.len = OriginalLen(a)
  BY DEF F
<1>6. \A i \in 1..Capacity(a) : i > OriginalLen(a) => D[i] = 0
  BY Sizes
<1>. HIDE DEF D
<1>7. Loaded(a) \in Memory
  BY <1>1, <1>3, <1>4, Sizes DEF Memory
<1>. QED
  BY <1>1, <1>2, <1>4, <1>5, <1>6, <1>7, Sizes DEF Sound, Agrees

\* The fields of a memory.
LEMMA Parts ==
  ASSUME NEW x \in Memory
  PROVE  /\ x.view \in Fields /\ x.store \in Fields /\ x.data \in Bytes /\ x.region \in Nat
         /\ x.view.owner \in Owners /\ x.view.lamports \in Amount /\ x.view.len \in Nat
         /\ x.store.owner \in Owners /\ x.store.lamports \in Amount /\ x.store.len \in Nat
BY DEF Memory, Fields

\* A region resized to the length of the view.
LEMMA RegionResized ==
  ASSUME Given, NEW a \in Accounts, NEW x, Sound(x, a), Attached(a),
         NEW n \in Nat, n <= MaxLen(a)
  PROVE  LET y == ResizeRegion(x, n)
         IN /\ y \in Memory /\ y.view = x.view /\ y.store = x.store /\ y.region = n
            /\ y.data \in [1..Capacity(a) -> Bit]
            /\ \A i \in 1..Capacity(a) : i > n => y.data[i] = 0
<1>. DEFINE D == Cleared(x.data, x.region, n)
<1>1. x \in Memory /\ x.data \in [1..Capacity(a) -> Bit] /\ x.region = x.view.len
  BY DEF Sound
<1>2. x.region \in Nat /\ Capacity(a) \in Nat
  BY <1>1, Parts, Sizes
<1>3. \A i \in 1..Capacity(a) : i > x.region => x.data[i] = 0
  BY <1>1 DEF Sound
<1>4. D \in [1..Capacity(a) -> Bit] /\ \A i \in 1..Capacity(a) : i > n => D[i] = 0
  <2>. HIDE DEF D
  <2>1. Cleared(x.data, x.region, n) \in [1..Capacity(a) -> Bit]
    BY <1>1, <1>2, ClearedBytes
  <2>2. \A i \in 1..Capacity(a) : i > n => Cleared(x.data, x.region, n)[i] = 0
    BY <1>1, <1>2, <1>3, ClearedSpare
  <2>. QED
    BY <2>1, <2>2 DEF D
<1>5. D \in Bytes
  BY <1>4, BytesOf
<1>6. ResizeRegion(x, n) = [x EXCEPT !.data = D, !.region = n]
  BY DEF ResizeRegion
<1>. HIDE DEF D
<1>. QED
  BY <1>1, <1>4, <1>5, <1>6 DEF Memory

\* Sync keeps an account sound, and without an error brings it in agreement.
LEMMA SyncSound ==
  ASSUME Given, NEW a \in Accounts, NEW x, Sound(x, a)
  PROVE  /\ Sound(Sync(x, a), a)
         /\ LengthValid(x, a) => Agrees(Sync(x, a))
<1>1. x \in Memory
  BY DEF Sound
<1>2. CASE ~LengthValid(x, a)
  <2>. DEFINE V == [x.store EXCEPT !.len = x.view.len]
  <2>1. V \in Fields /\ V.len = x.view.len
    BY <1>1, Parts DEF Fields
  <2>2. Sync(x, a) = [x EXCEPT !.view = V]
    BY <1>2 DEF Sync
  <2>. HIDE DEF V
  <2>3. /\ Sync(x, a) \in Memory /\ Sync(x, a).view = V
        /\ Sync(x, a).data = x.data /\ Sync(x, a).region = x.region
    BY <1>1, <2>1, <2>2 DEF Memory
  <2>. QED
    BY <1>2, <2>1, <2>3 DEF Sound
<1>3. CASE LengthValid(x, a)
  <2>1. x.store.len <= MaxLen(a) /\ x.store \in Fields /\ x.store.len \in Nat
    BY <1>1, <1>3, Parts DEF LengthValid
  <2>2. CASE Attached(a) /\ x.store.len # x.view.len
    <3>. DEFINE Y == ResizeRegion(x, x.store.len)
    <3>1. /\ Y \in Memory /\ Y.store = x.store /\ Y.region = x.store.len
          /\ Y.data \in [1..Capacity(a) -> Bit]
          /\ \A i \in 1..Capacity(a) : i > x.store.len => Y.data[i] = 0
      BY <2>1, <2>2, RegionResized
    <3>2. Sync(x, a) = [Y EXCEPT !.view = x.store]
      BY <1>3, <2>2 DEF Sync
    <3>. HIDE DEF Y
    <3>3. /\ Sync(x, a) \in Memory /\ Sync(x, a).view = x.store /\ Sync(x, a).store = x.store
          /\ Sync(x, a).data = Y.data /\ Sync(x, a).region = x.store.len
      BY <2>1, <3>1, <3>2 DEF Memory
    <3>. QED
      BY <2>1, <2>2, <3>1, <3>3 DEF Sound, Agrees
  <2>3. CASE ~(Attached(a) /\ x.store.len # x.view.len)
    <3>1. Sync(x, a) = [x EXCEPT !.view = x.store]
      BY <1>3, <2>3 DEF Sync
    <3>2. /\ Sync(x, a) \in Memory /\ Sync(x, a).view = x.store /\ Sync(x, a).store = x.store
          /\ Sync(x, a).data = x.data /\ Sync(x, a).region = x.region
      BY <1>1, <2>1, <3>1 DEF Memory
    <3>. QED
      BY <2>1, <2>3, <3>2 DEF Sound, Agrees
  <2>. QED
    BY <2>2, <2>3
<1>. QED
  BY <1>2, <1>3

\* The setters change one field in both copies.
LEMMA SetLenParts ==
  ASSUME NEW x \in Memory, NEW n \in Nat
  PROVE  /\ SetLen(x, n) \in Memory
         /\ SetLen(x, n).view = [x.view EXCEPT !.len = n]
         /\ SetLen(x, n).store = [x.store EXCEPT !.len = n]
         /\ SetLen(x, n).view.len = n
         /\ SetLen(x, n).data = x.data /\ SetLen(x, n).region = x.region
BY DEF SetLen, Memory, Fields

LEMMA SetLamportsParts ==
  ASSUME NEW x \in Memory, NEW n \in Amount
  PROVE  /\ SetLamports(x, n) \in Memory
         /\ SetLamports(x, n).view = [x.view EXCEPT !.lamports = n]
         /\ SetLamports(x, n).store = [x.store EXCEPT !.lamports = n]
         /\ SetLamports(x, n).view.len = x.view.len
         /\ SetLamports(x, n).view.lamports = n
         /\ SetLamports(x, n).data = x.data /\ SetLamports(x, n).region = x.region
BY DEF SetLamports, Memory, Fields

LEMMA SetOwnerParts ==
  ASSUME NEW x \in Memory, NEW o \in Owners
  PROVE  /\ SetOwner(x, o) \in Memory
         /\ SetOwner(x, o).view = [x.view EXCEPT !.owner = o]
         /\ SetOwner(x, o).store = [x.store EXCEPT !.owner = o]
         /\ SetOwner(x, o).view.len = x.view.len
         /\ SetOwner(x, o).view.owner = o
         /\ SetOwner(x, o).data = x.data /\ SetOwner(x, o).region = x.region
BY DEF SetOwner, Memory, Fields

LEMMA SetLamportsSound ==
  ASSUME Given, NEW a \in Accounts, NEW x, Sound(x, a), NEW n \in Amount
  PROVE  Sound(SetLamports(x, n), a) /\ SetLamports(x, n).view.lamports = n
BY SetLamportsParts DEF Sound

LEMMA SetOwnerSound ==
  ASSUME Given, NEW a \in Accounts, NEW x, Sound(x, a), NEW o \in Owners
  PROVE  Sound(SetOwner(x, o), a)
BY SetOwnerParts DEF Sound

\* Stores of the guest do not touch what Sound speaks of.
LEMMA StoreSound ==
  ASSUME Given, NEW a \in Accounts, NEW x, Sound(x, a), NEW s \in Fields
  PROVE  Sound([x EXCEPT !.store = s], a)
BY DEF Sound, Memory

\* A byte within the data may change, and any byte of a fixed mapping.
LEMMA DataSound ==
  ASSUME Given, NEW a \in Accounts, NEW x, Sound(x, a), NEW i \in 1..Capacity(a),
         Attached(a) => i <= x.view.len
  PROVE  Sound([x EXCEPT !.data[i] = 1 - @], a)
<1>. DEFINE D == [x.data EXCEPT ![i] = 1 - @]
<1>1. x \in Memory /\ x.data \in [1..Capacity(a) -> Bit] /\ x.view.len \in Nat
  BY Parts DEF Sound
<1>2. D \in [1..Capacity(a) -> Bit]
  <2>1. x.data[i] = 0 \/ x.data[i] = 1
    BY <1>1 DEF Bit
  <2>2. 1 - x.data[i] \in Bit
    BY <2>1 DEF Bit
  <2>. QED
    BY <1>1, <2>2
<1>3. Attached(a) => \A j \in 1..Capacity(a) : j > x.view.len => D[j] = 0
  BY <1>1, Sizes DEF Sound
<1>4. D \in Bytes
  BY <1>2, BytesOf
<1>5. [x EXCEPT !.data[i] = 1 - @] = [x EXCEPT !.data = D]
  OBVIOUS
<1>. HIDE DEF D
<1>6. [x EXCEPT !.data = D] \in Memory
  BY <1>1, <1>4 DEF Memory
<1>. QED
  BY <1>1, <1>2, <1>3, <1>5, <1>6 DEF Sound, Memory

\* ResizeData keeps an account sound.
LEMMA ResizeDataSound ==
  ASSUME Given, NEW a \in Accounts, NEW x, Sound(x, a), NEW p, NEW n \in Nat
  PROVE  Sound(ResizeData(x, a, p, n), a)
<1>. DEFINE Y == Sync(x, a)
            Z == IF Attached(a) THEN ResizeRegion(Y, n) ELSE Y
            D == Cleared(Z.data, Y.view.len, n)
            OK == LengthValid(x, a) /\ Mutable(a) /\ Y.view.owner = p /\ n <= MaxLen(a)
<1>1. ResizeData(x, a, p, n) = IF OK THEN SetLen([Z EXCEPT !.data = D], n) ELSE Y
  BY DEF ResizeData
<1>2. Sound(Y, a)
  BY SyncSound
<1>3. CASE OK
  <2>1. n <= MaxLen(a)
    BY <1>3
  <2>. HIDE DEF Y
  <2>2. Y \in Memory /\ Y.view \in Fields /\ Y.view.len \in Nat
    BY <1>2, Parts DEF Sound
  <2>3. /\ Z \in Memory /\ Z.data \in [1..Capacity(a) -> Bit]
        /\ Z.region = IF Attached(a) THEN n ELSE 0
        /\ Attached(a) => \A i \in 1..Capacity(a) : i > n => Z.data[i] = 0
    BY <1>2, <2>1, <2>2, RegionResized DEF Sound
  <2>. HIDE DEF Z
  <2>4. D \in [1..Capacity(a) -> Bit]
    BY <2>2, <2>3, Sizes, ClearedBytes
  <2>5. Attached(a) => \A i \in 1..Capacity(a) : i > n => D[i] = 0
    BY <2>3, <2>4 DEF Cleared
  <2>6. D \in Bytes
    BY <2>4, BytesOf
  <2>. HIDE DEF D
  <2>. DEFINE W == [Z EXCEPT !.data = D]
  <2>7. W \in Memory /\ W.data = D /\ W.region = Z.region
    BY <2>3, <2>6 DEF Memory
  <2>. HIDE DEF W
  <2>8. /\ SetLen(W, n) \in Memory /\ SetLen(W, n).view.len = n
        /\ SetLen(W, n).data = D /\ SetLen(W, n).region = Z.region
    BY <2>7, SetLenParts
  <2>9. Sound(SetLen(W, n), a)
    BY <2>1, <2>3, <2>4, <2>5, <2>8 DEF Sound
  <2>. QED
    BY <1>1, <1>3, <2>9 DEF W
<1>4. CASE ~OK
  BY <1>1, <1>2, <1>4
<1>. QED
  BY <1>3, <1>4

\* Two memories with the same parts are the same.
LEMMA SameMemory ==
  ASSUME NEW x \in Memory, NEW y \in Memory,
         x.view = y.view, x.store = y.store, x.data = y.data, x.region = y.region
  PROVE  x = y
BY DEF Memory

\* Owner, balance and length make the fields.
LEMMA SameFields ==
  ASSUME NEW v \in Fields, NEW w \in Fields,
         v.owner = w.owner, v.lamports = w.lamports, v.len = w.len
  PROVE  v = w
BY DEF Fields

\* A sound memory restored from a sound snapshot in agreement is the snapshot:
\* the setters restore both copies of the fields, the second copy of the data
\* undoes what the resize cleared, and the region is that of the length.
LEMMA RestoredIsSaved ==
  ASSUME Given, NEW a \in Accounts, NEW x, Sound(x, a), NEW s, Sound(s, a), Agrees(s)
  PROVE  Restored(x, s, a) = s
<1>. DEFINE V == SetOwner(SetLamports(x, s.view.lamports), s.view.owner)
            Y == [V EXCEPT !.data = s.data, !.view.len = s.view.len]
            Z == IF Attached(a) THEN [ResizeRegion(Y, s.view.len) EXCEPT !.data = s.data] ELSE Y
<1>1. Restored(x, s, a) = SetLen(Z, s.view.len)
  BY DEF Restored
<1>2. /\ x \in Memory /\ s \in Memory /\ s.data \in Bytes /\ s.store = s.view
      /\ s.view.owner \in Owners /\ s.view.lamports \in Amount /\ s.view.len \in Nat
      /\ x.view \in Fields /\ x.store \in Fields /\ s.view \in Fields
  BY Parts DEF Sound, Agrees
<1>3. /\ V \in Memory /\ V.region = x.region
      /\ V.view.owner = s.view.owner /\ V.view.lamports = s.view.lamports
      /\ V.store.owner = s.view.owner /\ V.store.lamports = s.view.lamports
  <2>. DEFINE L == SetLamports(x, s.view.lamports)
  <2>1. /\ L \in Memory /\ L.region = x.region
        /\ L.view.lamports = s.view.lamports /\ L.store.lamports = s.view.lamports
    <3>1. /\ L \in Memory /\ L.region = x.region /\ L.view.lamports = s.view.lamports
          /\ L.store = [x.store EXCEPT !.lamports = s.view.lamports]
      BY <1>2, SetLamportsParts
    <3>. HIDE DEF L
    <3>. QED
      BY <1>2, <3>1 DEF Fields
  <2>. HIDE DEF L
  <2>2. /\ SetOwner(L, s.view.owner) \in Memory /\ SetOwner(L, s.view.owner).region = L.region
        /\ SetOwner(L, s.view.owner).view = [L.view EXCEPT !.owner = s.view.owner]
        /\ SetOwner(L, s.view.owner).store = [L.store EXCEPT !.owner = s.view.owner]
    BY <1>2, <2>1, SetOwnerParts
  <2>3. L.view \in Fields /\ L.store \in Fields
    BY <2>1, Parts
  <2>. QED
    BY <2>1, <2>2, <2>3 DEF L, Fields
<1>. HIDE DEF V
<1>4. /\ Y \in Memory /\ Y.data = s.data /\ Y.region = x.region
      /\ Y.view = [V.view EXCEPT !.len = s.view.len] /\ Y.store = V.store
  BY <1>2, <1>3 DEF Memory, Fields
<1>. HIDE DEF Y
<1>5. /\ Z \in Memory /\ Z.data = s.data /\ Z.region = s.region
      /\ Z.view = Y.view /\ Z.store = Y.store
  <2>1. CASE Attached(a)
    <3>1. ResizeRegion(Y, s.view.len)
            = [Y EXCEPT !.data = Cleared(Y.data, Y.region, s.view.len), !.region = s.view.len]
      BY DEF ResizeRegion
    <3>2. Z = [[Y EXCEPT !.data = Cleared(Y.data, Y.region, s.view.len), !.region = s.view.len]
                 EXCEPT !.data = s.data]
      BY <2>1, <3>1
    <3>3. s.region = s.view.len
      BY <2>1 DEF Sound
    <3>. HIDE DEF Z
    <3>. QED
      BY <1>2, <1>4, <3>2, <3>3 DEF Memory
  <2>2. CASE ~Attached(a)
    <3>1. x.region = 0 /\ s.region = 0
      BY <2>2 DEF Sound
    <3>. QED
      BY <1>4, <2>2, <3>1
  <2>. QED
    BY <2>1, <2>2
<1>. HIDE DEF Z
<1>6. /\ SetLen(Z, s.view.len) \in Memory
      /\ SetLen(Z, s.view.len).view = [Z.view EXCEPT !.len = s.view.len]
      /\ SetLen(Z, s.view.len).store = [Z.store EXCEPT !.len = s.view.len]
      /\ SetLen(Z, s.view.len).data = s.data /\ SetLen(Z, s.view.len).region = s.region
  BY <1>2, <1>5, SetLenParts
<1>7. SetLen(Z, s.view.len).store = s.store
  <2>. DEFINE t == SetLen(Z, s.view.len).store
  <2>1. Z.store \in Fields /\ Z.store.owner = s.view.owner /\ Z.store.lamports = s.view.lamports
    BY <1>3, <1>4, <1>5, Parts
  <2>2. t \in Fields /\ t.owner = s.view.owner /\ t.lamports = s.view.lamports /\ t.len = s.view.len
    BY <1>2, <1>6, <2>1 DEF Fields
  <2>. HIDE DEF t
  <2>3. t = s.view
    BY <1>2, <2>2, SameFields
  <2>. QED
    BY <1>2, <2>3 DEF t
<1>8. SetLen(Z, s.view.len).view = s.view
  <2>. DEFINE t == SetLen(Z, s.view.len).view
  <2>1. V.view \in Fields
    BY <1>3, Parts
  <2>2. /\ Z.view \in Fields /\ Z.view.owner = s.view.owner /\ Z.view.lamports = s.view.lamports
    BY <1>2, <1>3, <1>4, <1>5, <2>1 DEF Fields
  <2>3. t \in Fields /\ t.owner = s.view.owner /\ t.lamports = s.view.lamports /\ t.len = s.view.len
    BY <1>2, <1>6, <2>2 DEF Fields
  <2>. HIDE DEF t
  <2>4. t = s.view
    BY <1>2, <2>3, SameFields
  <2>. QED
    BY <2>4 DEF t
<1>. QED
  BY <1>1, <1>2, <1>6, <1>7, <1>8, SameMemory

-----------------------------------------------------------------------------
(* All accounts.                                                           *)

AllSound(m) == m \in [Accounts -> Memory] /\ \A a \in Accounts : Sound(m[a], a)
AllAgree(m) == \A a \in Accounts : Agrees(m[a])

\* A sound account may replace another.
LEMMA OneChanged ==
  ASSUME NEW m, AllSound(m), NEW a \in Accounts, NEW x, Sound(x, a)
  PROVE  AllSound([m EXCEPT ![a] = x])
<1>1. x \in Memory
  BY DEF Sound
<1>2. [m EXCEPT ![a] = x] \in [Accounts -> Memory]
  BY <1>1 DEF AllSound
<1>3. ASSUME NEW b \in Accounts
      PROVE  Sound([m EXCEPT ![a] = x][b], b)
  <2>1. CASE b = a
    <3>1. [m EXCEPT ![a] = x][b] = x
      BY <2>1 DEF AllSound
    <3>. QED
      BY <2>1, <3>1
  <2>2. CASE b # a
    <3>1. [m EXCEPT ![a] = x][b] = m[b]
      BY <2>2 DEF AllSound
    <3>. QED
      BY <3>1 DEF AllSound
  <2>. QED
    BY <2>1, <2>2
<1>. QED
  BY <1>2, <1>3 DEF AllSound

LEMMA EntrySound ==
  ASSUME Given
  PROVE  AllSound(Entry) /\ AllAgree(Entry)
<1>1. \A a \in Accounts : Entry[a] = Loaded(a) /\ Sound(Loaded(a), a) /\ Agrees(Loaded(a))
  BY LoadedSound DEF Entry
<1>2. Entry \in [Accounts -> Memory]
  BY <1>1 DEF Entry, Sound
<1>. QED
  BY <1>1, <1>2 DEF AllSound, AllAgree

\* Syncing every account keeps them sound; when no length is invalid, the sync
\* reaches all of them and leaves them in agreement.
LEMMA SyncAccountsSound ==
  ASSUME Given, NEW m, AllSound(m)
  PROVE  /\ AllSound(SyncAccounts(m))
         /\ ~SyncFails(m) => AllAgree(SyncAccounts(m))
<1>1. ASSUME NEW a \in Accounts
      PROVE  /\ Sound(SyncAccounts(m)[a], a)
             /\ ~SyncFails(m) => Agrees(SyncAccounts(m)[a])
  <2>1. SyncAccounts(m)[a] = IF Reached(m, a) THEN Sync(m[a], a) ELSE m[a]
    BY DEF SyncAccounts
  <2>2. Sound(m[a], a)
    BY DEF AllSound
  <2>3. Sound(Sync(m[a], a), a) /\ (LengthValid(m[a], a) => Agrees(Sync(m[a], a)))
    BY <2>2, SyncSound
  <2>4. ASSUME ~SyncFails(m)
        PROVE  LengthValid(m[a], a) /\ Reached(m, a)
    <3>1. \A b \in Accounts : LengthValid(m[b], b)
      BY <2>4 DEF SyncFails
    <3>2. PICK i \in DOMAIN Slots : Slots[i] = a
      BY RuntimeAssumption
    <3>3. i \in 1..Len(Slots) /\ Len(Slots) \in Nat
      BY <3>2, RuntimeAssumption, LenProperties
    <3>4. \A j \in 1..(i - 1) : Slots[j] \in Accounts
      BY <3>3, RuntimeAssumption, ElementOfSeq
    <3>. QED
      BY <3>1, <3>2, <3>4 DEF Reached
  <2>. QED
    BY <2>1, <2>2, <2>3, <2>4
<1>2. SyncAccounts(m) \in [Accounts -> Memory]
  BY <1>1 DEF SyncAccounts, Sound
<1>. QED
  BY <1>1, <1>2 DEF AllSound, AllAgree

\* Restoring is exact, whatever sound memory it starts from.
LEMMA RestoreIsExact ==
  ASSUME Given, NEW m, AllSound(m), NEW s, AllSound(s), AllAgree(s)
  PROVE  [a \in Accounts |-> Restored(m[a], s[a], a)] = s
<1>1. ASSUME NEW a \in Accounts
      PROVE  Restored(m[a], s[a], a) = s[a]
  BY RestoredIsSaved DEF AllSound, AllAgree
<1>. QED
  BY <1>1 DEF AllSound

LEMMA SyncedSound ==
  ASSUME Given, NEW m, AllSound(m), NEW a \in Accounts
  PROVE  AllSound(Synced(m, a))
<1>1. Sound(Sync(m[a], a), a)
  BY SyncSound DEF AllSound
<1>2. Synced(m, a) = [m EXCEPT ![a] = Sync(m[a], a)]
  BY DEF Synced
<1>3. AllSound([m EXCEPT ![a] = Sync(m[a], a)])
  BY <1>1, OneChanged
<1>. QED
  BY <1>2, <1>3

\* A payment within the balances keeps all accounts sound, aliased or not.
LEMMA PaidSound ==
  ASSUME Given, NEW m, AllSound(m), NEW a \in Accounts, NEW b \in Accounts, NEW n \in Amount,
         m[a].view.lamports >= n, m[b].view.lamports + n <= MaxU64
  PROVE  AllSound(Paid(m, a, b, n))
<1>. DEFINE rest == m[a].view.lamports - n
           d == [m EXCEPT ![a] = SetLamports(m[a], rest)]
<1>1. MaxU64 \in Nat /\ n \in Nat /\ n <= MaxU64
  BY RuntimeAssumption DEF Amount
<1>2. \A c \in Accounts : Sound(m[c], c) /\ m[c].view.lamports \in Amount
  BY Parts DEF AllSound, Sound
<1>3. rest \in Amount
  BY <1>1, <1>2 DEF Amount
<1>. HIDE DEF rest
<1>4. Sound(SetLamports(m[a], rest), a)
  BY <1>2, <1>3, SetLamportsSound
<1>5. SetLamports(m[a], rest).view.lamports = rest
  BY <1>2, <1>3, SetLamportsSound
<1>6. AllSound(d)
  BY <1>4, OneChanged
<1>7. d[b].view.lamports + n \in Amount
  <2>1. CASE a = b
    <3>1. d[b] = SetLamports(m[a], rest)
      BY <2>1 DEF AllSound
    <3>. QED
      BY <1>1, <1>2, <1>5, <3>1 DEF Amount, rest
  <2>2. CASE a # b
    <3>1. d[b] = m[b]
      BY <2>2 DEF AllSound
    <3>. QED
      BY <1>1, <1>2, <3>1 DEF Amount
  <2>. QED
    BY <2>1, <2>2
<1>8. Paid(m, a, b, n) = [d EXCEPT ![b] = SetLamports(d[b], d[b].view.lamports + n)]
  BY DEF Paid, rest
<1>. HIDE DEF d
<1>9. Sound(SetLamports(d[b], d[b].view.lamports + n), b)
  BY <1>6, <1>7, SetLamportsSound DEF AllSound
<1>10. AllSound([d EXCEPT ![b] = SetLamports(d[b], d[b].view.lamports + n)])
  BY <1>6, <1>9, OneChanged
<1>. QED
  BY <1>8, <1>10

-----------------------------------------------------------------------------
(* The inductive invariant.  That a callee starts from a state in          *)
(* agreement, and that no CPI has ended since, is what makes a rollback    *)
(* exact and the copies of a field agree after it.                         *)

IInv ==
  /\ TypeOK
  /\ AllSound(mem) /\ AllSound(saved) /\ AllAgree(saved)
  /\ pc = "callee" => last = "none"
  /\ ViewsAgree
  /\ FailureIsAtomic

\* The memory part of the invariant, for the memory of the next state.
LEMMA NextMemory ==
  ASSUME Given, UNCHANGED <<input, direct>>, AllSound(mem'), AllSound(saved')
  PROVE  /\ AllSound(mem)' /\ AllSound(saved)'
         /\ mem' \in [Accounts -> Memory] /\ saved' \in [Accounts -> Memory]
         /\ \A a \in Accounts :
              /\ mem'[a].view.len <= MaxLen(a)' /\ mem'[a].region <= MaxLen(a)'
              /\ DOMAIN mem'[a].data = 1..Capacity(a)'
<1>1. \A a \in Accounts :
        /\ Capacity(a)' = Capacity(a) /\ MaxLen(a)' = MaxLen(a) /\ Attached(a)' = Attached(a)
  BY DEF Capacity, MaxLen, Attached, Mutable, OriginalLen
<1>2. ASSUME NEW a \in Accounts
      PROVE  /\ Sound(mem[a], a)' /\ Sound(saved[a], a)'
             /\ mem'[a].view.len <= MaxLen(a)' /\ mem'[a].region <= MaxLen(a)'
             /\ DOMAIN mem'[a].data = 1..Capacity(a)'
  <2>1. Sound(mem'[a], a) /\ Sound(saved'[a], a)
    BY DEF AllSound
  <2>2. Sound(mem[a], a)' /\ Sound(saved[a], a)'
    BY <1>1, <2>1 DEF Sound
  <2>3. mem'[a].region = 0 \/ mem'[a].region = mem'[a].view.len
    BY <2>1 DEF Sound
  <2>4. mem'[a].view.len <= MaxLen(a) /\ MaxLen(a) \in Nat
    BY <2>1, Sizes DEF Sound
  <2>5. DOMAIN mem'[a].data = 1..Capacity(a)
    BY <2>1 DEF Sound
  <2>. QED
    BY <1>1, <2>2, <2>3, <2>4, <2>5
<1>. QED
  BY <1>2 DEF AllSound

\* A step that keeps the input keeps what is serialized.
LEMMA SameEntry ==
  ASSUME UNCHANGED <<input, direct>>
  PROVE  Entry' = Entry
BY DEF Entry, Loaded, Capacity, Attached, Mutable, OriginalLen

\* The accounts accepted from sound memory are a baseline.
LEMMA BaselinesTyped ==
  ASSUME Given, NEW m, AllSound(m)
  PROVE  Baselines(m) \in [Accounts -> [owner: Owners, lamports: Amount, data: Seq(Bit)]]
<1>1. ASSUME NEW a \in Accounts
      PROVE  Accepted(m[a]) \in [owner: Owners, lamports: Amount, data: Seq(Bit)]
  <2>1. m[a] \in Memory /\ m[a].data \in [1..Capacity(a) -> Bit] /\ m[a].view.len <= MaxLen(a)
    BY DEF AllSound, Sound
  <2>2. m[a].view.owner \in Owners /\ m[a].view.lamports \in Amount /\ m[a].view.len \in Nat
    BY <2>1, Parts
  <2>3. [i \in 1..m[a].view.len |-> m[a].data[i]] \in [1..m[a].view.len -> Bit]
    BY <2>1, <2>2, Sizes
  <2>4. [i \in 1..m[a].view.len |-> m[a].data[i]] \in Seq(Bit)
    BY <2>2, <2>3, IsASeq
  <2>. QED
    BY <2>2, <2>4 DEF Accepted
<1>. QED
  BY <1>1 DEF Baselines

LEMMA InitInv == Init => IInv
<1>. SUFFICES ASSUME Init PROVE IInv
  OBVIOUS
<1>1. Given
  BY DEF Init, Given
<1>2. AllSound(Entry) /\ AllAgree(Entry)
  BY <1>1, EntrySound
<1>3. Baselines(Entry) \in [Accounts -> [owner: Owners, lamports: Amount, data: Seq(Bit)]]
  BY <1>1, <1>2, BaselinesTyped
<1>4. ASSUME NEW a \in Accounts
      PROVE  /\ Entry[a].view.len <= MaxLen(a) /\ Entry[a].region <= MaxLen(a)
             /\ DOMAIN Entry[a].data = 1..Capacity(a)
  <2>1. Sound(Entry[a], a)
    BY <1>2 DEF AllSound
  <2>. QED
    BY <1>1, <2>1, Sizes DEF Sound
<1>5. TypeOK
  BY <1>1, <1>2, <1>3, <1>4, RuntimeAssumption DEF TypeOK, Init, AllSound, Given
<1>. QED
  BY <1>2, <1>5 DEF IInv, Init, AllAgree, Agrees, ViewsAgree, FailureIsAtomic

\* Any move of the program to sound memory keeps the invariant.
LEMMA MovedKeeps ==
  ASSUME IInv, NEW m, AllSound(m), Moved(m)
  PROVE  IInv'
<1>1. Given /\ UNCHANGED <<input, direct>> /\ AllSound(mem') /\ AllSound(saved')
  BY DEF IInv, TypeOK, Given, Moved
<1>2. TypeOK'
  BY <1>1, NextMemory, RuntimeAssumption DEF IInv, TypeOK, Moved
<1>3. AllAgree(saved)'
  BY DEF IInv, AllAgree, Agrees, Moved
<1>4. ViewsAgree' /\ FailureIsAtomic' /\ (pc = "callee" => last = "none")'
  BY DEF Moved, ViewsAgree, FailureIsAtomic
<1>. QED
  BY <1>1, <1>2, <1>3, <1>4, NextMemory DEF IInv

\* So does any change a callee makes: where the copies of a field differ, the
\* memory is no longer the snapshot.
LEMMA ChangedKeeps ==
  ASSUME IInv, NEW m, AllSound(m), Changed(m)
  PROVE  IInv'
<1>1. Given /\ UNCHANGED <<input, direct>> /\ AllSound(mem') /\ AllSound(saved')
  BY DEF IInv, TypeOK, Given, Changed
<1>2. TypeOK'
  BY <1>1, NextMemory, RuntimeAssumption DEF IInv, TypeOK, Changed
<1>3. AllAgree(saved)'
  BY DEF IInv, AllAgree, Agrees, Changed
<1>4. ViewsAgree'
  BY <1>3 DEF Changed, ViewsAgree, AllAgree, Agrees
<1>5. FailureIsAtomic' /\ (pc = "callee" => last = "none")'
  BY DEF IInv, Changed, FailureIsAtomic
<1>. QED
  BY <1>1, <1>2, <1>3, <1>4, <1>5, NextMemory DEF IInv

-----------------------------------------------------------------------------
(* The program's steps.                                                    *)

\* Stores into the input.
LEMMA GuestKeeps ==
  ASSUME IInv, NEW a \in Accounts,
         \/ \E o \in Owners : GuestOwner(a, o)
         \/ \E n \in Amount : GuestLamports(a, n)
         \/ \E n \in 0..(Capacity(a) + 1) : GuestLength(a, n)
  PROVE  IInv'
<1>1. Given /\ AllSound(mem) /\ Sound(mem[a], a)
  BY DEF IInv, TypeOK, Given, AllSound
<1>2. mem[a] \in Memory /\ mem[a].store \in Fields
  BY <1>1, Parts DEF Sound
<1>3. ASSUME NEW s \in Fields
      PROVE  AllSound([mem EXCEPT ![a] = [mem[a] EXCEPT !.store = s]])
  <2>1. Sound([mem[a] EXCEPT !.store = s], a)
    BY <1>1, StoreSound
  <2>. QED
    BY <1>1, <2>1, OneChanged
<1>4. ASSUME NEW o \in Owners, GuestOwner(a, o) PROVE IInv'
  <2>1. [mem[a].store EXCEPT !.owner = o] \in Fields
    BY <1>2 DEF Fields
  <2>2. [mem EXCEPT ![a].store.owner = o]
          = [mem EXCEPT ![a] = [mem[a] EXCEPT !.store = [mem[a].store EXCEPT !.owner = o]]]
    OBVIOUS
  <2>3. AllSound([mem EXCEPT ![a].store.owner = o])
    BY <1>3, <2>1, <2>2
  <2>. QED
    BY <1>4, <2>3, MovedKeeps DEF GuestOwner
<1>5. ASSUME NEW n \in Amount, GuestLamports(a, n) PROVE IInv'
  <2>1. [mem[a].store EXCEPT !.lamports = n] \in Fields
    BY <1>2 DEF Fields
  <2>2. [mem EXCEPT ![a].store.lamports = n]
          = [mem EXCEPT ![a] = [mem[a] EXCEPT !.store = [mem[a].store EXCEPT !.lamports = n]]]
    OBVIOUS
  <2>3. AllSound([mem EXCEPT ![a].store.lamports = n])
    BY <1>3, <2>1, <2>2
  <2>. QED
    BY <1>5, <2>3, MovedKeeps DEF GuestLamports
<1>6. ASSUME NEW n \in 0..(Capacity(a) + 1), GuestLength(a, n) PROVE IInv'
  <2>1. [mem[a].store EXCEPT !.len = n] \in Fields
    BY <1>1, <1>2, Sizes DEF Fields
  <2>2. [mem EXCEPT ![a].store.len = n]
          = [mem EXCEPT ![a] = [mem[a] EXCEPT !.store = [mem[a].store EXCEPT !.len = n]]]
    OBVIOUS
  <2>3. AllSound([mem EXCEPT ![a].store.len = n])
    BY <1>3, <2>1, <2>2
  <2>. QED
    BY <1>6, <2>3, MovedKeeps DEF GuestLength
<1>. QED
  BY <1>4, <1>5, <1>6

\* The getters.
LEMMA ReadKeeps ==
  ASSUME IInv, NEW a \in Accounts, ReadOwner(a) \/ ReadLamports(a)
  PROVE  IInv'
<1>1. Given /\ AllSound(mem) /\ Sound(mem[a], a)
  BY DEF IInv, TypeOK, Given, AllSound
<1>2. mem[a] \in Memory /\ mem[a].view \in Fields /\ mem[a].store \in Fields
  BY <1>1, Parts DEF Sound
<1>3. ASSUME NEW v \in Fields, v.len = mem[a].view.len
      PROVE  AllSound([mem EXCEPT ![a] = [mem[a] EXCEPT !.view = v]])
  <2>1. Sound([mem[a] EXCEPT !.view = v], a)
    BY <1>1, <1>2, <1>3 DEF Sound, Memory
  <2>. QED
    BY <1>1, <2>1, OneChanged
<1>4. CASE ReadOwner(a)
  <2>. DEFINE v == [mem[a].view EXCEPT !.owner = mem[a].store.owner]
  <2>1. v \in Fields /\ v.len = mem[a].view.len
    BY <1>2 DEF Fields
  <2>2. [mem EXCEPT ![a].view.owner = mem[a].store.owner]
          = [mem EXCEPT ![a] = [mem[a] EXCEPT !.view = v]]
    OBVIOUS
  <2>3. AllSound([mem EXCEPT ![a].view.owner = mem[a].store.owner])
    BY <1>3, <2>1, <2>2
  <2>. QED
    BY <1>4, <2>3, MovedKeeps DEF ReadOwner
<1>5. CASE ReadLamports(a)
  <2>. DEFINE v == [mem[a].view EXCEPT !.lamports = mem[a].store.lamports]
  <2>1. v \in Fields /\ v.len = mem[a].view.len
    BY <1>2 DEF Fields
  <2>2. [mem EXCEPT ![a].view.lamports = mem[a].store.lamports]
          = [mem EXCEPT ![a] = [mem[a] EXCEPT !.view = v]]
    OBVIOUS
  <2>3. AllSound([mem EXCEPT ![a].view.lamports = mem[a].store.lamports])
    BY <1>3, <2>1, <2>2
  <2>. QED
    BY <1>5, <2>3, MovedKeeps DEF ReadLamports
<1>. QED
  BY <1>4, <1>5

\* A byte of one account changes.
LEMMA ByteChanged ==
  ASSUME Given, NEW m, AllSound(m), NEW a \in Accounts, NEW i \in 1..Capacity(a),
         Attached(a) => i <= m[a].view.len
  PROVE  AllSound([m EXCEPT ![a].data[i] = 1 - @])
<1>1. Sound([m[a] EXCEPT !.data[i] = 1 - @], a)
  BY DataSound DEF AllSound
<1>2. [m EXCEPT ![a].data[i] = 1 - @] = [m EXCEPT ![a] = [m[a] EXCEPT !.data[i] = 1 - @]]
  OBVIOUS
<1>3. AllSound([m EXCEPT ![a] = [m[a] EXCEPT !.data[i] = 1 - @]])
  BY <1>1, OneChanged
<1>. QED
  BY <1>2, <1>3

\* Stores into the data, and through the slice of WritableData.
LEMMA DataKeeps ==
  ASSUME IInv, NEW a \in Accounts, NEW i \in 1..Capacity(a),
         GuestData(a, i) \/ WriteData(a, i)
  PROVE  IInv'
<1>1. Given /\ AllSound(mem) /\ Sound(mem[a], a) /\ Program \in Owners
  BY RuntimeAssumption DEF IInv, TypeOK, Given, AllSound
<1>2. CASE GuestData(a, i)
  <2>1. Attached(a) => i <= mem[a].view.len
    BY <1>1, <1>2 DEF GuestData, Attached, Sound
  <2>2. AllSound([mem EXCEPT ![a].data[i] = 1 - @])
    BY <1>1, <2>1, ByteChanged
  <2>. QED
    BY <1>2, <2>2, MovedKeeps DEF GuestData
<1>3. CASE WriteData(a, i)
  <2>. DEFINE x == [mem[a] EXCEPT !.view.owner = Program]
              m == [mem EXCEPT ![a] = x]
  <2>1. mem[a] \in Memory /\ mem[a].view \in Fields
    BY <1>1, Parts DEF Sound
  <2>2. x \in Memory /\ x.view.len = mem[a].view.len /\ x.data = mem[a].data /\ x.region = mem[a].region
    BY <1>1, <2>1 DEF Memory, Fields
  <2>. HIDE DEF x
  <2>3. Sound(x, a)
    BY <1>1, <2>2 DEF Sound
  <2>4. AllSound(m) /\ m[a] = x
    BY <1>1, <2>3, OneChanged DEF AllSound
  <2>5. i <= m[a].view.len
    BY <1>3, <2>2, <2>4 DEF WriteData
  <2>6. [mem EXCEPT ![a].view.owner = Program, ![a].data[i] = 1 - @]
          = [m EXCEPT ![a].data[i] = 1 - @]
    BY DEF x
  <2>. HIDE DEF m
  <2>7. AllSound([m EXCEPT ![a].data[i] = 1 - @])
    BY <1>1, <2>4, <2>5, ByteChanged
  <2>. QED
    BY <1>3, <2>6, <2>7, MovedKeeps DEF WriteData
<1>. QED
  BY <1>2, <1>3

LEMMA ResizeKeeps ==
  ASSUME IInv, NEW a \in Accounts, NEW n \in 0..(Capacity(a) + 1), Resize(a, n)
  PROVE  IInv'
<1>1. Given /\ AllSound(mem) /\ Sound(mem[a], a)
  BY DEF IInv, TypeOK, Given, AllSound
<1>2. n \in Nat
  BY <1>1, Sizes
<1>3. Sound(ResizeData(mem[a], a, Program, n), a)
  BY <1>1, <1>2, ResizeDataSound
<1>4. AllSound([mem EXCEPT ![a] = ResizeData(mem[a], a, Program, n)])
  BY <1>1, <1>3, OneChanged
<1>. QED
  BY <1>4, MovedKeeps DEF Resize

LEMMA AssignKeeps ==
  ASSUME IInv, NEW a \in Accounts, NEW o \in Owners, AssignOwner(a, o)
  PROVE  IInv'
<1>. DEFINE m == Synced(mem, a)
            done == [m EXCEPT ![a] = SetOwner(m[a], o)]
            ok == Usable(mem, a) /\ m[a].view.owner = Program /\ AllZero(m[a])
<1>1. Given /\ AllSound(m)
  BY SyncedSound DEF IInv, TypeOK, Given
<1>2. Moved(IF ok THEN done ELSE m)
  BY DEF AssignOwner
<1>. HIDE DEF m
<1>3. Sound(SetOwner(m[a], o), a)
  BY <1>1, SetOwnerSound DEF AllSound
<1>4. AllSound(done)
  BY <1>1, <1>3, OneChanged
<1>5. AllSound(IF ok THEN done ELSE m)
  BY <1>1, <1>4
<1>. QED
  BY <1>2, <1>5, MovedKeeps

LEMMA TransferKeeps ==
  ASSUME IInv, NEW i \in DOMAIN Slots, NEW j \in DOMAIN Slots, NEW n \in Amount,
         TransferLamports(i, j, n)
  PROVE  IInv'
<1>. DEFINE a == Slots[i]
            b == Slots[j]
            m == Synced(mem, a)
            both == Synced(m, b)
            ok == /\ Usable(m, b)
                  /\ both[a].view.owner = Program
                  /\ both[a].view.lamports >= n
                  /\ both[b].view.lamports + n <= MaxU64
            next == IF ~Usable(mem, a) THEN m ELSE IF ok THEN Paid(both, a, b, n) ELSE both
<1>1. a \in Accounts /\ b \in Accounts
  BY RuntimeAssumption
<1>2. Moved(next)
  BY DEF TransferLamports
<1>. HIDE DEF a, b
<1>3. Given /\ AllSound(m)
  BY <1>1, SyncedSound DEF IInv, TypeOK, Given
<1>. HIDE DEF m
<1>4. AllSound(both)
  BY <1>1, <1>3, SyncedSound
<1>. HIDE DEF both
<1>5. ok => AllSound(Paid(both, a, b, n))
  BY <1>1, <1>3, <1>4, PaidSound
<1>6. AllSound(next)
  BY <1>3, <1>4, <1>5
<1>. QED
  BY <1>2, <1>6, MovedKeeps

-----------------------------------------------------------------------------
(* CPIs, and the end of the invocation.                                    *)

\* A callee starts in agreement, from memory that is its snapshot.
LEMMA InvokeKeeps ==
  ASSUME IInv, NEW c \in Calls, Invoke(c)
  PROVE  IInv'
<1>1. Given /\ AllSound(mem) /\ ~SyncFails(mem)
  BY DEF IInv, TypeOK, Given, Invoke
<1>2. AllSound(SyncAccounts(mem)) /\ AllAgree(SyncAccounts(mem))
  BY <1>1, SyncAccountsSound
<1>3. UNCHANGED <<input, direct>> /\ AllSound(mem') /\ AllSound(saved')
  BY <1>2 DEF Invoke
<1>4. TypeOK'
  BY <1>1, <1>3, NextMemory, RuntimeAssumption DEF IInv, TypeOK, Invoke
<1>5. AllAgree(saved)' /\ ViewsAgree'
  BY <1>2 DEF Invoke, AllAgree, Agrees, ViewsAgree
<1>6. FailureIsAtomic' /\ (pc = "callee" => last = "none")'
  BY DEF Invoke, FailureIsAtomic
<1>. QED
  BY <1>1, <1>3, <1>4, <1>5, <1>6, NextMemory DEF IInv

LEMMA RefusedKeeps ==
  ASSUME IInv, InvokeRefused
  PROVE  IInv'
<1>1. Given /\ AllSound(SyncAccounts(mem))
  BY SyncAccountsSound DEF IInv, TypeOK, Given
<1>2. UNCHANGED <<input, direct>> /\ AllSound(mem') /\ AllSound(saved')
  BY <1>1 DEF IInv, InvokeRefused
<1>3. TypeOK'
  BY <1>1, <1>2, NextMemory, RuntimeAssumption DEF IInv, TypeOK, InvokeRefused
<1>4. AllAgree(saved)'
  BY DEF IInv, AllAgree, Agrees, InvokeRefused
<1>5. ViewsAgree' /\ FailureIsAtomic' /\ (pc = "callee" => last = "none")'
  BY DEF InvokeRefused, ViewsAgree, FailureIsAtomic
<1>. QED
  BY <1>1, <1>2, <1>3, <1>4, <1>5, NextMemory DEF IInv

\* A rollback leads exactly to the snapshot.
LEMMA RollbackIsExact ==
  ASSUME IInv, Rollback
  PROVE  mem' = saved
<1>1. Given /\ AllSound(mem) /\ AllSound(saved) /\ AllAgree(saved)
  BY DEF IInv, TypeOK, Given
<1>2. [a \in Accounts |-> Restored(mem[a], saved[a], a)] = saved
  BY <1>1, RestoreIsExact
<1>. QED
  BY <1>2 DEF Rollback, Restore

\* However a CPI ends, the program goes on in agreement.
LEMMA BackKeeps ==
  ASSUME IInv, BackToProgram, Rollback \/ (~SyncFails(mem) /\ AcceptBaselines)
  PROVE  IInv'
<1>1. Given /\ AllSound(mem) /\ AllSound(saved) /\ AllAgree(saved)
  BY DEF IInv, TypeOK, Given
<1>2. AllSound(Entry) /\ AllAgree(Entry)
  BY <1>1, EntrySound
<1>3. AllSound(mem') /\ AllAgree(mem')
  <2>1. CASE Rollback
    BY <1>1, <2>1, RollbackIsExact
  <2>2. CASE ~SyncFails(mem) /\ AcceptBaselines
    BY <1>1, <2>2, SyncAccountsSound DEF AcceptBaselines
  <2>. QED
    BY <2>1, <2>2
<1>4. UNCHANGED <<input, direct>> /\ AllSound(saved') /\ saved' = Entry
  BY <1>2 DEF BackToProgram
<1>5. baseline' \in [Accounts -> [owner: Owners, lamports: Amount, data: Seq(Bit)]]
  <2>1. CASE Rollback
    BY <2>1 DEF Rollback, IInv, TypeOK
  <2>2. CASE ~SyncFails(mem) /\ AcceptBaselines
    BY <1>1, <2>2, SyncAccountsSound, BaselinesTyped DEF AcceptBaselines
  <2>. QED
    BY <2>1, <2>2
<1>6. last' \in {"accepted", "rolledback"}
  BY DEF Rollback, AcceptBaselines
<1>7. TypeOK'
  BY <1>1, <1>3, <1>4, <1>5, <1>6, NextMemory DEF IInv, TypeOK, BackToProgram
<1>8. AllAgree(saved)'
  BY <1>2, <1>4 DEF AllAgree, Agrees
<1>9. ViewsAgree'
  BY <1>3 DEF AllAgree, Agrees, ViewsAgree
<1>10. FailureIsAtomic' /\ (pc = "callee" => last = "none")'
  BY DEF BackToProgram, FailureIsAtomic
<1>. QED
  BY <1>1, <1>3, <1>4, <1>7, <1>8, <1>9, <1>10, NextMemory DEF IInv

\* An invocation that ends keeps sound memory; a failed one is as it began.
LEMMA EndKeeps ==
  ASSUME IInv, ProgramFails \/ ProgramReturns
  PROVE  IInv'
<1>1. Given /\ AllSound(mem) /\ AllSound(Entry) /\ AllAgree(Entry) /\ Ended
  BY EntrySound DEF IInv, TypeOK, Given, ProgramFails, ProgramReturns
<1>2. AllSound(SyncAccounts(mem)) /\ (~SyncFails(mem) => AllAgree(SyncAccounts(mem)))
  BY <1>1, SyncAccountsSound
<1>3. [a \in Accounts |-> Restored(mem[a], Entry[a], a)] = Entry
  BY <1>1, RestoreIsExact
<1>4. [a \in Accounts |-> Restored(SyncAccounts(mem)[a], Entry[a], a)] = Entry
  BY <1>1, <1>2, RestoreIsExact
<1>5. /\ AllSound(mem')
      /\ pc' \in {"returned", "failed"}
      /\ pc' = "returned" => AllAgree(mem')
      /\ pc' = "failed" /\ ~direct => mem' = Entry
  BY <1>1, <1>2, <1>3, <1>4 DEF ProgramFails, ProgramReturns, Restore
<1>6. UNCHANGED <<input, direct>> /\ AllSound(saved')
  BY <1>1 DEF IInv, Ended
<1>7. TypeOK'
  BY <1>1, <1>5, <1>6, NextMemory DEF IInv, TypeOK, Ended
<1>8. AllAgree(saved)'
  BY <1>1 DEF IInv, AllAgree, Agrees, Ended
<1>9. ViewsAgree' /\ (pc = "callee" => last = "none")'
  BY <1>5 DEF ViewsAgree, AllAgree, Agrees
<1>10. FailureIsAtomic'
  BY <1>5, <1>6, SameEntry DEF FailureIsAtomic
<1>. QED
  BY <1>1, <1>5, <1>6, <1>7, <1>8, <1>9, <1>10, NextMemory DEF IInv

-----------------------------------------------------------------------------
(* The callee's steps.                                                     *)

LEMMA PaysKeeps ==
  ASSUME IInv, NEW a \in Accounts, NEW b \in Accounts, CalleePays(a, b)
  PROVE  IInv'
<1>1. Given /\ AllSound(mem) /\ Sound(mem[a], a) /\ Sound(mem[b], b)
  BY DEF IInv, TypeOK, Given, AllSound
<1>2. mem[a].view.lamports \in Amount /\ mem[b].view.lamports \in Amount
  BY <1>1, Parts DEF Sound
<1>3. mem[a].view.lamports > 0 /\ mem[b].view.lamports < MaxU64
  BY DEF CalleePays
<1>. DEFINE pays == mem[a].view.lamports
            gets == mem[b].view.lamports
<1>4. 1 \in Amount /\ pays >= 1 /\ gets + 1 <= MaxU64
  <2>1. MaxU64 \in Nat
    BY RuntimeAssumption
  <2>2. pays \in 0..MaxU64 /\ gets \in 0..MaxU64 /\ pays > 0 /\ gets < MaxU64
    BY <1>2, <1>3 DEF Amount
  <2>. HIDE DEF pays, gets
  <2>. QED
    BY <2>1, <2>2 DEF Amount
<1>5. AllSound(Paid(mem, a, b, 1))
  BY <1>1, <1>4, PaidSound
<1>. QED
  BY <1>5, ChangedKeeps DEF CalleePays

LEMMA WritesKeeps ==
  ASSUME IInv, NEW a \in Accounts, NEW i \in 1..Capacity(a), CalleeWrites(a, i)
  PROVE  IInv'
<1>1. Given /\ AllSound(mem)
  BY DEF IInv, TypeOK, Given
<1>2. AllSound([mem EXCEPT ![a].data[i] = 1 - @])
  BY <1>1, ByteChanged DEF CalleeWrites
<1>. QED
  BY <1>2, ChangedKeeps DEF CalleeWrites

LEMMA ResizesKeeps ==
  ASSUME IInv, NEW a \in Accounts, NEW n \in 0..(Capacity(a) + 1), CalleeResizes(a, n)
  PROVE  IInv'
<1>1. Given /\ AllSound(mem) /\ Sound(mem[a], a)
  BY DEF IInv, TypeOK, Given, AllSound
<1>2. n \in Nat
  BY <1>1, Sizes
<1>3. Sound(ResizeData(mem[a], a, call.program, n), a)
  BY <1>1, <1>2, ResizeDataSound
<1>4. AllSound([mem EXCEPT ![a] = ResizeData(mem[a], a, call.program, n)])
  BY <1>1, <1>3, OneChanged
<1>. QED
  BY <1>4, ChangedKeeps DEF CalleeResizes

LEMMA AssignsKeeps ==
  ASSUME IInv, NEW a \in Accounts, NEW o \in Owners, CalleeAssigns(a, o)
  PROVE  IInv'
<1>1. Given /\ AllSound(mem) /\ Sound(mem[a], a)
  BY DEF IInv, TypeOK, Given, AllSound
<1>2. Sound(SetOwner(mem[a], o), a)
  BY <1>1, SetOwnerSound
<1>3. AllSound([mem EXCEPT ![a] = SetOwner(mem[a], o)])
  BY <1>1, <1>2, OneChanged
<1>. QED
  BY <1>3, ChangedKeeps DEF CalleeAssigns

LEMMA BreaksKeeps ==
  ASSUME IInv, NEW a \in Accounts, CalleeBreaksLength(a)
  PROVE  IInv'
<1>. DEFINE s == [mem[a].store EXCEPT !.len = Capacity(a) + 1]
<1>1. Given /\ AllSound(mem) /\ Sound(mem[a], a)
  BY DEF IInv, TypeOK, Given, AllSound
<1>2. s \in Fields
  BY <1>1, Parts, Sizes DEF Sound, Fields
<1>3. [mem EXCEPT ![a].store.len = Capacity(a) + 1]
        = [mem EXCEPT ![a] = [mem[a] EXCEPT !.store = s]]
  OBVIOUS
<1>. HIDE DEF s
<1>4. Sound([mem[a] EXCEPT !.store = s], a)
  BY <1>1, <1>2, StoreSound
<1>5. AllSound([mem EXCEPT ![a] = [mem[a] EXCEPT !.store = s]])
  BY <1>1, <1>4, OneChanged
<1>. QED
  BY <1>3, <1>5, ChangedKeeps DEF CalleeBreaksLength

-----------------------------------------------------------------------------
(* Every step keeps the invariant.                                         *)

LEMMA NextInv == IInv /\ [Next]_vars => IInv'
<1>. SUFFICES ASSUME IInv, [Next]_vars PROVE IInv'
  OBVIOUS
<1>. USE RuntimeAssumption
<1>1. ASSUME NEW a \in Targets,
             \/ ReadOwner(a) \/ ReadLamports(a)
             \/ \E o \in Owners : GuestOwner(a, o) \/ AssignOwner(a, o)
             \/ \E n \in Amount : GuestLamports(a, n)
             \/ \E n \in 0..(Capacity(a) + 1) : GuestLength(a, n) \/ Resize(a, n)
             \/ \E i \in 1..Capacity(a) : GuestData(a, i) \/ WriteData(a, i)
      PROVE  IInv'
  <2>1. a \in Accounts
    OBVIOUS
  <2>2. CASE \/ \E o \in Owners : GuestOwner(a, o)
             \/ \E n \in Amount : GuestLamports(a, n)
             \/ \E n \in 0..(Capacity(a) + 1) : GuestLength(a, n)
    BY <2>1, <2>2, GuestKeeps
  <2>3. CASE \E o \in Owners : AssignOwner(a, o)
    BY <2>1, <2>3, AssignKeeps
  <2>4. CASE \E n \in 0..(Capacity(a) + 1) : Resize(a, n)
    BY <2>1, <2>4, ResizeKeeps
  <2>5. CASE \E i \in 1..Capacity(a) : GuestData(a, i) \/ WriteData(a, i)
    BY <2>1, <2>5, DataKeeps
  <2>6. CASE ReadOwner(a) \/ ReadLamports(a)
    BY <2>1, <2>6, ReadKeeps
  <2>. QED
    BY <1>1, <2>2, <2>3, <2>4, <2>5, <2>6
<1>2. CASE ProgramStep
  <2>1. CASE \E i, j \in {k \in DOMAIN Slots : Slots[k] \in Targets}, n \in Amount :
               TransferLamports(i, j, n)
    BY <2>1, TransferKeeps
  <2>2. CASE \E c \in Calls : Invoke(c)
    BY <2>2, InvokeKeeps
  <2>3. CASE InvokeRefused
    BY <2>3, RefusedKeeps
  <2>4. CASE ProgramFails \/ ProgramReturns
    BY <2>4, EndKeeps
  <2>. QED
    BY <1>1, <1>2, <2>1, <2>2, <2>3, <2>4 DEF ProgramStep
<1>3. CASE CalleeStep
  <2>1. CASE \E a, b \in Accounts : CalleePays(a, b)
    BY <2>1, PaysKeeps
  <2>2. CASE \E a \in Accounts : \E i \in 1..Capacity(a) : CalleeWrites(a, i)
    BY <2>2, WritesKeeps
  <2>3. CASE \E a \in Accounts : \E n \in 0..(Capacity(a) + 1) : CalleeResizes(a, n)
    BY <2>3, ResizesKeeps
  <2>4. CASE \E a \in Accounts : \E o \in Owners : CalleeAssigns(a, o)
    BY <2>4, AssignsKeeps
  <2>5. CASE \E a \in Accounts : CalleeBreaksLength(a)
    BY <2>5, BreaksKeeps
  <2>6. CASE CalleeFails \/ CalleeReturns
    BY <2>6, BackKeeps DEF CalleeFails, CalleeReturns
  <2>. QED
    BY <1>3, <2>1, <2>2, <2>3, <2>4, <2>5, <2>6 DEF CalleeStep
<1>4. CASE UNCHANGED vars
  <2>1. Given /\ UNCHANGED <<input, direct>> /\ AllSound(mem') /\ AllSound(saved')
    BY <1>4 DEF IInv, TypeOK, Given, vars
  <2>2. TypeOK'
    BY <1>4, <2>1, NextMemory DEF IInv, TypeOK, vars
  <2>3. AllAgree(saved)' /\ ViewsAgree' /\ (pc = "callee" => last = "none")'
    BY <1>4 DEF IInv, AllAgree, Agrees, ViewsAgree, vars
  <2>4. FailureIsAtomic'
    BY <1>4, SameEntry DEF IInv, FailureIsAtomic, vars
  <2>. QED
    BY <2>1, <2>2, <2>3, <2>4, NextMemory DEF IInv
<1>. QED
  BY <1>2, <1>3, <1>4 DEF Next

LEMMA Invariant == Spec => []IInv
<1>1. Init => IInv
  BY InitInv
<1>2. IInv /\ [Next]_vars => IInv'
  BY NextInv
<1>. QED
  BY <1>1, <1>2, PTL DEF Spec

-----------------------------------------------------------------------------
(* The theorems.                                                           *)

\* Whatever the guest stores and a callee leaves, the accepted length and the
\* mapped region of every account stay within what the host has allocated for
\* it (Sync, ResizeData).
THEOREM TypeCorrect == Spec => []TypeOK
<1>1. IInv => TypeOK
  BY DEF IInv
<1>. QED
  BY <1>1, Invariant, PTL

\* The mapped region of a growable account ends where its view ends, after any
\* resizes, syncs and rollbacks (Sync, ResizeData, restoreAccountSnapshots).
THEOREM RegionIsTheView == Spec => []RegionFollowsView
<1>1. IInv => RegionFollowsView
  BY DEF IInv, AllSound, Sound, RegionFollowsView
<1>. QED
  BY <1>1, Invariant, PTL

\* Bytes that a shrink hid are gone: a growth exposes zeros (ResizeRegion).
THEOREM HiddenBytesAreZero == Spec => []SpareIsClear
<1>1. IInv => SpareIsClear
  BY DEF IInv, AllSound, Sound, SpareIsClear
<1>. QED
  BY <1>1, Invariant, PTL

\* Host and guest agree on every field when a callee starts, after every CPI,
\* accepted or rolled back, and after a return (SyncAccounts, Invoke).
THEOREM HostAndGuestAgree == Spec => []ViewsAgree
<1>1. IInv => ViewsAgree
  BY DEF IInv
<1>. QED
  BY <1>1, Invariant, PTL

\* View, serialized input, mapped region and spare bytes say the same of an
\* account whenever nobody is at work on it (Sync, ResizeData, Invoke).
THEOREM CopiesAlwaysAgree == Spec => []CopiesAgree
<1>1. ViewsAgree /\ RegionFollowsView /\ SpareIsClear => CopiesAgree
  BY DEF CopiesAgree
<1>. QED
  BY <1>1, HostAndGuestAgree, RegionIsTheView, HiddenBytesAreZero, PTL

\* A failed entry point leaves the input as it was serialized, bit for bit
\* (ExecuteEntrypointWithOptions).
THEOREM FailedEntryIsAtomic == Spec => []FailureIsAtomic
<1>1. IInv => FailureIsAtomic
  BY DEF IInv
<1>. QED
  BY <1>1, Invariant, PTL

\* A failed CPI is undone exactly, whichever accounts its callee changed and
\* however it failed (Invoke, restoreAccountSnapshots).
THEOREM FailedCallIsUndone == Spec => FailedCallsLeaveNoTrace
<1>1. IInv /\ [Next]_vars => [pc = "callee" /\ last' = "rolledback" => mem' = saved]_vars
  <2>. SUFFICES ASSUME IInv, [Next]_vars, pc = "callee", last' = "rolledback"
                PROVE  mem' = saved
    OBVIOUS
  <2>1. last = "none"
    BY DEF IInv
  <2>2. CASE ProgramStep
    BY <2>2 DEF ProgramStep, ReadOwner, ReadLamports, GuestOwner, GuestLamports, GuestLength, GuestData, WriteData,
                Resize, AssignOwner, TransferLamports, Moved, Invoke, InvokeRefused,
                ProgramFails, ProgramReturns, Ended
  <2>3. CASE CalleeStep
    <3>1. CASE CalleeFails \/ (CalleeReturns /\ SyncFails(mem))
      BY <3>1, RollbackIsExact DEF CalleeFails, CalleeReturns
    <3>2. CASE CalleeReturns /\ ~SyncFails(mem)
      BY <3>2 DEF CalleeReturns, AcceptBaselines
    <3>3. CASE ~CalleeFails /\ ~CalleeReturns
      <4>1. last' = last
        BY <2>3, <3>3 DEF CalleeStep, CalleePays, CalleeWrites, CalleeResizes, CalleeAssigns,
                          CalleeBreaksLength, Changed
      <4>. QED
        BY <2>1, <4>1
    <3>. QED
      BY <3>1, <3>2, <3>3
  <2>4. CASE UNCHANGED vars
    BY <2>1, <2>4 DEF vars
  <2>. QED
    BY <2>2, <2>3, <2>4 DEF Next
<1>. QED
  BY <1>1, Invariant, PTL DEF Spec, FailedCallsLeaveNoTrace

-----------------------------------------------------------------------------
(* Privileges.  No invocation raises one, and none makes or destroys         *)
(* lamports, for any accounts, inputs and CPI requests.  What an account may *)
(* become, and what all of them hold, is related to the input twice: for the *)
(* baseline, which outlives a CPI, and for the memory a callee works on,     *)
(* which becomes the next baseline.                                          *)

\* The account was passed writable, and was the program's own or signed.
Licensed(a) == Mutable(a) /\ (input[a].owner = Program \/ input[a].signer \/ a \in PDAs)

\* An account in this state takes nothing its input does not license.
Privileged(b, a) ==
  b.lamports < input[a].lamports \/ b.owner # input[a].owner \/ b.data # input[a].data
    => Licensed(a)

\* A callee leaves the copies equal, or a length no Sync accepts.
Undisturbed(x, a) ==
  Agrees(x) \/ (~LengthValid(x, a) /\ x.store = [x.view EXCEPT !.len = x.store.len])

CalleePrivileged ==
  /\ call \in Calls /\ Requestable(call)
  /\ \A a \in Accounts : Privileged(Accepted(mem[a]), a) /\ Undisturbed(mem[a], a)

PInv ==
  /\ \A a \in Accounts : Privileged(baseline[a], a)
  /\ pc = "callee" => CalleePrivileged
  /\ ChangesArePrivileged

-----------------------------------------------------------------------------
(* The checks of the host.                                                 *)

\* The input is typed, and so is every account that can be accepted.
LEMMA AcceptedTyped ==
  ASSUME Given, NEW m, AllSound(m), NEW a \in Accounts
  PROVE  /\ Accepted(m[a]).owner = m[a].view.owner
         /\ Accepted(m[a]).lamports = m[a].view.lamports
         /\ m[a].view.lamports \in Nat /\ input[a].lamports \in Nat
         /\ m[a] \in Memory
         /\ Baselines(m)[a] = Accepted(m[a])
<1>1. m[a] \in Memory /\ input[a].lamports \in Amount
  BY Sizes DEF AllSound, Sound, Input
<1>2. m[a].view.lamports \in Amount
  BY <1>1, Parts
<1>. QED
  BY <1>1, <1>2 DEF Accepted, Baselines, Amount

\* Changes that pass the validation keep an account within its license: from
\* a baseline the program owns, it was the program's own or already licensed.
LEMMA ValidIsPrivileged ==
  ASSUME IInv, PInv, NEW m, AllSound(m), ValidChanges(m), NEW a \in Accounts
  PROVE  Privileged(Accepted(m[a]), a)
<1>. DEFINE now == Accepted(m[a])
            b == baseline[a]
<1>1. Given
  BY DEF IInv, TypeOK, Given
<1>2. now.lamports \in Nat /\ input[a].lamports \in Nat /\ Baselines(m)[a] = now
  BY <1>1, AcceptedTyped
<1>3. b.lamports \in Nat
  BY DEF IInv, TypeOK, Amount
<1>4. /\ ~Mutable(a) => now = b
      /\ b.owner # Program => now.owner = b.owner /\ now.data = b.data /\ now.lamports >= b.lamports
  BY <1>2 DEF ValidChanges
<1>5. Privileged(b, a)
  BY DEF PInv
<1>. HIDE DEF now, b
<1>6. ASSUME b.owner # Program PROVE Privileged(now, a)
  BY <1>2, <1>3, <1>4, <1>5, <1>6 DEF Privileged
<1>7. ASSUME b.owner = Program, Mutable(a) PROVE Privileged(now, a)
  BY <1>5, <1>7 DEF Privileged, Licensed
<1>8. ASSUME ~Mutable(a) PROVE Privileged(now, a)
  BY <1>4, <1>5, <1>8 DEF Privileged
<1>9. Privileged(now, a)
  BY <1>6, <1>7, <1>8
<1>. QED
  BY <1>9 DEF now

\* What a request was granted, the caller had or may sign for.
LEMMA GrantsAreLicensed ==
  ASSUME CalleePrivileged, NEW a \in Accounts
  PROVE  /\ Granted(a) => input[a].writable
         /\ Signed(a) => input[a].signer \/ a \in PDAs
BY DEF CalleePrivileged, Requestable, Asked, Granted, Signed

\* A callee governs only accounts whose change is licensed.
LEMMA GovernedIsLicensed ==
  ASSUME Given, CalleePrivileged, AllSound(mem), NEW a \in Accounts, Governs(a)
  PROVE  Licensed(a)
<1>1. Mutable(a)
  BY GrantsAreLicensed DEF Governs, Mutable
<1>2. CASE Signed(a)
  BY <1>1, <1>2, GrantsAreLicensed DEF Licensed
<1>3. CASE call.program = Program
  <2>1. Accepted(mem[a]).owner = Program
    BY <1>3, AcceptedTyped DEF Governs
  <2>. QED
    BY <1>1, <2>1 DEF CalleePrivileged, Privileged, Licensed
<1>. QED
  BY <1>2, <1>3 DEF Governs

-----------------------------------------------------------------------------
(* The effects of a callee.                                                *)

\* What an account may become depends on the input only.
LEMMA SamePrivileges ==
  ASSUME UNCHANGED <<input, direct>>, NEW c \in Accounts,
         Privileged(Accepted(mem'[c]), c), Undisturbed(mem'[c], c)
  PROVE  (Privileged(Accepted(mem[c]), c) /\ Undisturbed(mem[c], c))'
BY DEF Privileged, Licensed, Mutable, Undisturbed, LengthValid, MaxLen, Capacity, Attached,
       OriginalLen, Accepted, Agrees

\* One account changed, in a way that is licensed and leaves it undisturbed.
LEMMA EffectIsPrivileged ==
  ASSUME IInv, PInv, NEW a \in Accounts, NEW x,
         Changed([mem EXCEPT ![a] = x]), Privileged(Accepted(x), a), Undisturbed(x, a)
  PROVE  PInv'
<1>1. CalleePrivileged /\ UNCHANGED <<input, direct, call, pc, baseline>> /\ pc = "callee"
  BY DEF PInv, Changed
<1>2. mem' = [mem EXCEPT ![a] = x] /\ mem \in [Accounts -> Memory]
  BY DEF Changed, IInv, AllSound
<1>3. ASSUME NEW c \in Accounts
      PROVE  Privileged(Accepted(mem'[c]), c) /\ Undisturbed(mem'[c], c)
  <2>1. CASE c = a
    BY <1>2, <2>1
  <2>2. CASE c # a
    BY <1>1, <1>2, <2>2 DEF CalleePrivileged
  <2>. QED
    BY <2>1, <2>2
<1>4. ASSUME NEW c \in Accounts
      PROVE  (Privileged(Accepted(mem[c]), c) /\ Undisturbed(mem[c], c))'
  BY <1>1, <1>3, SamePrivileges
<1>5. CalleePrivileged'
  BY <1>1, <1>4 DEF CalleePrivileged, Requestable
<1>. QED
  BY <1>1, <1>5 DEF PInv, Privileged, Licensed, Mutable, ChangesArePrivileged

\* The setters keep the copies as equal as they were.
LEMMA SetOwnerUndisturbed ==
  ASSUME Given, NEW a \in Accounts, NEW x, Sound(x, a), Undisturbed(x, a), NEW o \in Owners
  PROVE  Undisturbed(SetOwner(x, o), a)
<1>. DEFINE y == SetOwner(x, o)
<1>1. x \in Memory /\ x.view \in Fields /\ x.store \in Fields
  BY Parts DEF Sound
<1>2. y.view = [x.view EXCEPT !.owner = o] /\ y.store = [x.store EXCEPT !.owner = o]
  BY <1>1, SetOwnerParts
<1>. HIDE DEF y
<1>3. y.store.len = x.store.len
  BY <1>1, <1>2 DEF Fields
<1>4. ASSUME Agrees(x) PROVE Undisturbed(y, a)
  BY <1>2, <1>4 DEF Undisturbed, Agrees
<1>5. ASSUME ~LengthValid(x, a), x.store = [x.view EXCEPT !.len = x.store.len]
      PROVE  Undisturbed(y, a)
  <2>1. ~LengthValid(y, a)
    BY <1>3, <1>5 DEF LengthValid
  <2>2. y.store = [y.view EXCEPT !.len = y.store.len]
    BY <1>1, <1>2, <1>3, <1>5 DEF Fields
  <2>. QED
    BY <2>1, <2>2 DEF Undisturbed
<1>6. Undisturbed(y, a)
  BY <1>4, <1>5 DEF Undisturbed
<1>. QED
  BY <1>6 DEF y

LEMMA SetLamportsUndisturbed ==
  ASSUME Given, NEW a \in Accounts, NEW x, Sound(x, a), Undisturbed(x, a), NEW n \in Amount
  PROVE  Undisturbed(SetLamports(x, n), a)
<1>. DEFINE y == SetLamports(x, n)
<1>1. x \in Memory /\ x.view \in Fields /\ x.store \in Fields
  BY Parts DEF Sound
<1>2. y.view = [x.view EXCEPT !.lamports = n] /\ y.store = [x.store EXCEPT !.lamports = n]
  BY <1>1, SetLamportsParts
<1>. HIDE DEF y
<1>3. y.store.len = x.store.len
  BY <1>1, <1>2 DEF Fields
<1>4. ASSUME Agrees(x) PROVE Undisturbed(y, a)
  BY <1>2, <1>4 DEF Undisturbed, Agrees
<1>5. ASSUME ~LengthValid(x, a), x.store = [x.view EXCEPT !.len = x.store.len]
      PROVE  Undisturbed(y, a)
  <2>1. ~LengthValid(y, a)
    BY <1>3, <1>5 DEF LengthValid
  <2>2. y.store = [y.view EXCEPT !.len = y.store.len]
    BY <1>1, <1>2, <1>3, <1>5 DEF Fields
  <2>. QED
    BY <2>1, <2>2 DEF Undisturbed
<1>6. Undisturbed(y, a)
  BY <1>4, <1>5 DEF Undisturbed
<1>. QED
  BY <1>6 DEF y

\* A resize brings the copies together, or leaves the invalid length alone.
LEMMA ResizeUndisturbed ==
  ASSUME Given, NEW a \in Accounts, NEW x, Sound(x, a), Undisturbed(x, a), NEW p, NEW n \in Nat
  PROVE  Undisturbed(ResizeData(x, a, p, n), a)
<1>1. x \in Memory /\ x.view \in Fields /\ x.store \in Fields
  BY Parts DEF Sound
<1>2. CASE ~LengthValid(x, a)
  <2>. DEFINE y == [x EXCEPT !.view = [x.store EXCEPT !.len = x.view.len]]
  <2>1. ResizeData(x, a, p, n) = y
    BY <1>2 DEF ResizeData, Sync
  <2>2. y.view = [x.store EXCEPT !.len = x.view.len] /\ y.store = x.store
    BY <1>1 DEF Memory
  <2>. HIDE DEF y
  <2>3. y.store = [y.view EXCEPT !.len = y.store.len]
    BY <1>1, <2>2 DEF Fields
  <2>4. ~LengthValid(y, a)
    BY <1>2, <2>2 DEF LengthValid
  <2>. QED
    BY <2>1, <2>3, <2>4 DEF Undisturbed
<1>3. CASE LengthValid(x, a)
  <2>. DEFINE y == Sync(x, a)
              z == IF Attached(a) THEN ResizeRegion(y, n) ELSE y
              w == [z EXCEPT !.data = Cleared(z.data, y.view.len, n)]
              ok == Mutable(a) /\ y.view.owner = p /\ n <= MaxLen(a)
  <2>1. ResizeData(x, a, p, n) = IF ok THEN SetLen(w, n) ELSE y
    BY <1>3 DEF ResizeData
  <2>2. Sound(y, a) /\ Agrees(y)
    BY <1>3, SyncSound
  <2>. HIDE DEF y
  <2>3. y \in Memory
    BY <2>2 DEF Sound
  <2>4. \E d, r : z = [view |-> y.view, store |-> y.store, data |-> d, region |-> r]
    BY <2>3 DEF ResizeRegion, Memory
  <2>. HIDE DEF z
  <2>5. \E d, r : w = [view |-> y.view, store |-> y.store, data |-> d, region |-> r]
    <3>1. PICK d, r : z = [view |-> y.view, store |-> y.store, data |-> d, region |-> r]
      BY <2>4
    <3>2. w = [view |-> y.view, store |-> y.store,
               data |-> Cleared(z.data, y.view.len, n), region |-> r]
      BY <3>1
    <3>. HIDE DEF w
    <3>. QED
      BY <3>2
  <2>6. SetLen(w, n).view = [y.view EXCEPT !.len = n] /\ SetLen(w, n).store = [y.store EXCEPT !.len = n]
    BY <2>3, <2>5 DEF SetLen, Memory, Fields
  <2>7. Agrees(SetLen(w, n))
    BY <2>2, <2>6 DEF Agrees
  <2>. QED
    BY <2>1, <2>2, <2>7 DEF Undisturbed
<1>. QED
  BY <1>2, <1>3

\* An undisturbed account whose length is valid is not changed by a sync.
LEMMA SyncIsIdle ==
  ASSUME Given, NEW a \in Accounts, NEW x, Sound(x, a), Undisturbed(x, a), LengthValid(x, a)
  PROVE  Sync(x, a) = x
<1>1. x \in Memory /\ x.view = x.store
  BY DEF Sound, Undisturbed, Agrees
<1>2. Sync(x, a) = [x EXCEPT !.view = x.store]
  BY <1>1 DEF Sync
<1>. QED
  BY <1>1, <1>2 DEF Memory

\* What a governed account becomes is licensed.
LEMMA GovernedEffect ==
  ASSUME IInv, PInv, NEW a \in Accounts, Governs(a), NEW x,
         Changed([mem EXCEPT ![a] = x]), Undisturbed(x, a)
  PROVE  PInv'
<1>1. Given /\ AllSound(mem) /\ CalleePrivileged
  BY DEF IInv, TypeOK, Given, PInv, Changed
<1>2. Privileged(Accepted(x), a)
  BY <1>1, GovernedIsLicensed DEF Privileged
<1>. QED
  BY <1>2, EffectIsPrivileged

\* The account a callee debits is governed; the one it credits gains.
LEMMA PaysPrivileged ==
  ASSUME IInv, PInv, NEW a \in Accounts, NEW b \in Accounts, CalleePays(a, b)
  PROVE  PInv'
<1>. DEFINE x == SetLamports(mem[a], mem[a].view.lamports - 1)
            y == SetLamports(mem[b], mem[b].view.lamports + 1)
<1>1. /\ Given /\ AllSound(mem) /\ CalleePrivileged /\ a # b /\ Governs(a)
      /\ Changed(Paid(mem, a, b, 1))
  BY DEF IInv, TypeOK, Given, PInv, CalleePays, Changed
<1>2. /\ Sound(mem[a], a) /\ Undisturbed(mem[a], a) /\ Sound(mem[b], b) /\ Undisturbed(mem[b], b)
      /\ Privileged(Accepted(mem[b]), b)
  BY <1>1 DEF AllSound, CalleePrivileged
<1>3. mem[a].view.lamports - 1 \in Amount /\ mem[b].view.lamports + 1 \in Amount
  <2>1. mem[a].view.lamports \in Amount /\ mem[b].view.lamports \in Amount
    BY <1>2, Parts DEF Sound
  <2>2. mem[a].view.lamports > 0 /\ mem[b].view.lamports < MaxU64
    BY DEF CalleePays
  <2>3. MaxU64 \in Nat
    BY RuntimeAssumption
  <2>. QED
    BY <2>1, <2>2, <2>3 DEF Amount
<1>4. Undisturbed(x, a) /\ Undisturbed(y, b)
  BY <1>1, <1>2, <1>3, SetLamportsUndisturbed
<1>5. Licensed(a)
  BY <1>1, GovernedIsLicensed
<1>6. Privileged(Accepted(x), a)
  BY <1>5 DEF Privileged
<1>7. Privileged(Accepted(y), b)
  <2>. DEFINE was == Accepted(mem[b])
              now == Accepted(y)
  <2>1. mem[b] \in Memory /\ mem[b].view \in Fields
    BY <1>2, Parts DEF Sound
  <2>2. /\ y.view = [mem[b].view EXCEPT !.lamports = mem[b].view.lamports + 1]
        /\ y.data = mem[b].data
    BY <1>3, <2>1, SetLamportsParts
  <2>. HIDE DEF y
  <2>3. /\ y.view.owner = mem[b].view.owner /\ y.view.len = mem[b].view.len
        /\ y.view.lamports = mem[b].view.lamports + 1
    BY <2>1, <2>2 DEF Fields
  <2>4. now.owner = was.owner /\ now.data = was.data /\ now.lamports = was.lamports + 1
    BY <2>2, <2>3 DEF Accepted
  <2>5. was.lamports \in Nat /\ input[b].lamports \in Nat
    BY <1>1, AcceptedTyped
  <2>. HIDE DEF now, was
  <2>6. Privileged(was, b)
    BY <1>2 DEF was
  <2>7. Privileged(now, b)
    BY <2>4, <2>5, <2>6 DEF Privileged
  <2>. QED
    BY <2>7 DEF now
<1>8. mem' = [mem EXCEPT ![a] = x, ![b] = y] /\ mem \in [Accounts -> Memory]
  BY <1>1 DEF Changed, Paid, AllSound
<1>. HIDE DEF x, y
<1>9. ASSUME NEW c \in Accounts
      PROVE  (Privileged(Accepted(mem[c]), c) /\ Undisturbed(mem[c], c))'
  <2>1. CASE c = a
    <3>1. mem'[c] = x
      BY <1>1, <1>8, <2>1
    <3>. QED
      BY <1>1, <1>4, <1>6, <2>1, <3>1, SamePrivileges DEF Changed
  <2>2. CASE c = b
    <3>1. mem'[c] = y
      BY <1>1, <1>8, <2>2
    <3>. QED
      BY <1>1, <1>4, <1>7, <2>2, <3>1, SamePrivileges DEF Changed
  <2>3. CASE c # a /\ c # b
    <3>1. mem'[c] = mem[c]
      BY <1>8, <2>3
    <3>. QED
      BY <1>1, <3>1, SamePrivileges DEF Changed, CalleePrivileged
  <2>. QED
    BY <2>1, <2>2, <2>3
<1>10. CalleePrivileged'
  BY <1>1, <1>9 DEF CalleePrivileged, Requestable, Changed
<1>. QED
  BY <1>1, <1>10 DEF PInv, Privileged, Licensed, Mutable, ChangesArePrivileged, Changed

LEMMA CalleePrivilegedStep ==
  ASSUME IInv, PInv, NEW a \in Accounts,
         \/ \E i \in 1..Capacity(a) : CalleeWrites(a, i)
         \/ \E n \in 0..(Capacity(a) + 1) : CalleeResizes(a, n)
         \/ \E o \in Owners : CalleeAssigns(a, o)
         \/ CalleeBreaksLength(a)
  PROVE  PInv'
<1>1. Given /\ Sound(mem[a], a) /\ pc = "callee"
  BY DEF IInv, TypeOK, Given, AllSound, CalleeWrites, CalleeResizes, CalleeAssigns,
         CalleeBreaksLength, Changed
<1>2. CalleePrivileged /\ Undisturbed(mem[a], a) /\ Privileged(Accepted(mem[a]), a)
  BY <1>1 DEF PInv, CalleePrivileged
<1>3. mem[a] \in Memory /\ mem[a].view \in Fields /\ mem[a].store \in Fields
  BY <1>1, Parts DEF Sound
<1>4. ASSUME NEW i \in 1..Capacity(a), CalleeWrites(a, i) PROVE PInv'
  <2>. DEFINE x == [mem[a] EXCEPT !.data[i] = 1 - @]
  <2>1. [mem EXCEPT ![a].data[i] = 1 - @] = [mem EXCEPT ![a] = x]
    OBVIOUS
  <2>2. x.view = mem[a].view /\ x.store = mem[a].store
    BY <1>3 DEF Memory
  <2>. HIDE DEF x
  <2>3. Undisturbed(x, a)
    BY <1>2, <2>2 DEF Undisturbed, Agrees, LengthValid
  <2>. QED
    BY <1>4, <2>1, <2>3, GovernedEffect DEF CalleeWrites
<1>5. ASSUME NEW n \in 0..(Capacity(a) + 1), CalleeResizes(a, n) PROVE PInv'
  <2>1. n \in Nat
    BY <1>1, Sizes
  <2>2. Undisturbed(ResizeData(mem[a], a, call.program, n), a)
    BY <1>1, <1>2, <2>1, ResizeUndisturbed
  <2>. QED
    BY <1>5, <2>2, GovernedEffect DEF CalleeResizes
<1>6. ASSUME NEW o \in Owners, CalleeAssigns(a, o) PROVE PInv'
  <2>1. Undisturbed(SetOwner(mem[a], o), a)
    BY <1>1, <1>2, SetOwnerUndisturbed
  <2>. QED
    BY <1>6, <2>1, GovernedEffect DEF CalleeAssigns
<1>7. ASSUME CalleeBreaksLength(a) PROVE PInv'
  <2>. DEFINE x == [mem[a] EXCEPT !.store.len = Capacity(a) + 1]
  <2>1. [mem EXCEPT ![a].store.len = Capacity(a) + 1] = [mem EXCEPT ![a] = x]
    OBVIOUS
  <2>2. /\ x.view = mem[a].view /\ x.data = mem[a].data
        /\ x.store = [mem[a].store EXCEPT !.len = Capacity(a) + 1]
    BY <1>3 DEF Memory
  <2>. HIDE DEF x
  <2>3. x.store.len = Capacity(a) + 1
    BY <1>3, <2>2 DEF Fields
  <2>4. ~LengthValid(x, a)
    BY <1>1, <2>3, Sizes DEF LengthValid
  <2>5. x.store = [x.view EXCEPT !.len = x.store.len]
    BY <1>2, <1>3, <2>2, <2>3 DEF Undisturbed, Agrees, Fields
  <2>6. Accepted(x) = Accepted(mem[a])
    BY <2>2 DEF Accepted
  <2>7. Undisturbed(x, a) /\ Privileged(Accepted(x), a)
    BY <1>2, <2>4, <2>5, <2>6 DEF Undisturbed
  <2>. QED
    BY <1>7, <2>1, <2>7, EffectIsPrivileged DEF CalleeBreaksLength
<1>. QED
  BY <1>4, <1>5, <1>6, <1>7

-----------------------------------------------------------------------------
(* The other steps.                                                        *)

\* What holds for the baseline holds for the next one, when it is the same.
LEMMA SameBaseline ==
  ASSUME PInv, UNCHANGED <<input, direct, baseline>>, pc' # "callee", pc' # "returned"
  PROVE  PInv'
BY DEF PInv, Privileged, Licensed, Mutable, ChangesArePrivileged

\* A callee starts from a state the host has validated.
LEMMA InvokePrivileged ==
  ASSUME IInv, PInv, NEW c \in Calls, Invoke(c)
  PROVE  PInv'
<1>1. Given /\ AllSound(mem) /\ ~SyncFails(mem) /\ ValidChanges(SyncAccounts(mem))
  BY DEF IInv, TypeOK, Given, Invoke, CanInvoke
<1>2. AllSound(SyncAccounts(mem)) /\ AllAgree(SyncAccounts(mem)) /\ mem' = SyncAccounts(mem)
  BY <1>1, SyncAccountsSound DEF Invoke
<1>3. ASSUME NEW a \in Accounts
      PROVE  (Privileged(Accepted(mem[a]), a) /\ Undisturbed(mem[a], a))'
  <2>1. Privileged(Accepted(mem'[a]), a)
    BY <1>1, <1>2, ValidIsPrivileged
  <2>2. Undisturbed(mem'[a], a)
    BY <1>2 DEF AllAgree, Undisturbed
  <2>. QED
    BY <2>1, <2>2, SamePrivileges DEF Invoke
<1>4. CalleePrivileged'
  BY <1>3 DEF CalleePrivileged, Requestable, Invoke, CanInvoke
<1>. QED
  BY <1>4 DEF PInv, Privileged, Licensed, Mutable, ChangesArePrivileged, Invoke

\* What a CPI leaves when its accounts sync becomes the next baseline as it is.
LEMMA ReturnPrivileged ==
  ASSUME IInv, PInv, CalleeReturns, ~SyncFails(mem)
  PROVE  PInv'
<1>1. Given /\ AllSound(mem) /\ CalleePrivileged /\ AllSound(SyncAccounts(mem))
  BY SyncAccountsSound DEF IInv, TypeOK, Given, PInv, CalleeReturns, BackToProgram
<1>2. /\ baseline' = Baselines(SyncAccounts(mem)) /\ pc' = "program"
      /\ UNCHANGED <<input, direct>>
  BY DEF CalleeReturns, BackToProgram, AcceptBaselines
<1>3. ASSUME NEW a \in Accounts
      PROVE  Privileged(baseline[a], a)'
  <2>1. Sync(mem[a], a) = mem[a]
    BY <1>1, SyncIsIdle DEF AllSound, CalleePrivileged, SyncFails
  <2>2. SyncAccounts(mem)[a] = mem[a]
    BY <2>1 DEF SyncAccounts
  <2>3. baseline'[a] = Accepted(mem[a])
    BY <1>1, <1>2, <2>2, AcceptedTyped
  <2>4. Privileged(baseline'[a], a)
    BY <1>1, <2>3 DEF CalleePrivileged
  <2>. QED
    BY <1>2, <2>4 DEF Privileged, Licensed, Mutable
<1>. QED
  BY <1>2, <1>3 DEF PInv, ChangesArePrivileged

\* A return is validated against the last baseline.
LEMMA EndPrivileged ==
  ASSUME IInv, PInv, ProgramReturns, pc' = "returned"
  PROVE  PInv'
<1>1. /\ Given /\ AllSound(mem) /\ ValidChanges(SyncAccounts(mem))
      /\ mem' = SyncAccounts(mem) /\ UNCHANGED <<input, direct, baseline>>
  BY DEF IInv, TypeOK, Given, ProgramReturns, Ended
<1>2. AllSound(SyncAccounts(mem))
  BY <1>1, SyncAccountsSound
<1>3. ASSUME NEW a \in Accounts
      PROVE  Privileged(Accepted(mem[a]), a)' /\ Privileged(baseline[a], a)'
  <2>1. Privileged(Accepted(mem'[a]), a) /\ Privileged(baseline[a], a)
    BY <1>1, <1>2, ValidIsPrivileged DEF PInv
  <2>. QED
    BY <1>1, <2>1 DEF Privileged, Licensed, Mutable, Accepted
<1>4. ChangesArePrivileged'
  BY <1>3 DEF ChangesArePrivileged, Privileged, Licensed
<1>. QED
  BY <1>3, <1>4 DEF PInv

\* The first baselines are the accounts as they came in.
LEMMA EntryIsInput ==
  ASSUME Given, NEW a \in Accounts
  PROVE  /\ Baselines(Entry)[a] = Accepted(Loaded(a))
         /\ Accepted(Loaded(a)) = [owner |-> input[a].owner, lamports |-> input[a].lamports,
                                   data |-> input[a].data]
         /\ input[a].lamports \in Nat
<1>1. AllSound(Entry) /\ Baselines(Entry)[a] = Accepted(Entry[a]) /\ Entry[a] = Loaded(a)
  BY EntrySound DEF Baselines, Entry
<1>2. input[a].data \in Seq(Bit) /\ Capacity(a) \in Nat /\ OriginalLen(a) <= Capacity(a)
  BY Sizes DEF Input
<1>3. input[a].data = [i \in 1..OriginalLen(a) |-> input[a].data[i]] /\ OriginalLen(a) \in Nat
  BY <1>2, Sizes, LenProperties DEF OriginalLen
<1>4. Accepted(Loaded(a)).data = input[a].data
  BY <1>2, <1>3, Sizes DEF Accepted, Loaded
<1>5. Accepted(Loaded(a)) = [owner |-> input[a].owner, lamports |-> input[a].lamports,
                             data |-> Accepted(Loaded(a)).data]
  BY DEF Accepted, Loaded
<1>6. input[a].lamports \in Nat
  BY <1>1, AcceptedTyped
<1>. QED
  BY <1>1, <1>4, <1>5, <1>6

LEMMA InitPrivileged == Init => PInv
<1>. SUFFICES ASSUME Init PROVE PInv
  OBVIOUS
<1>1. ASSUME NEW a \in Accounts
      PROVE  Privileged(baseline[a], a)
  <2>1. Given /\ baseline = Baselines(Entry)
    BY DEF Init, Given
  <2>. QED
    BY <2>1, EntryIsInput DEF Privileged
<1>. QED
  BY <1>1 DEF PInv, Init, ChangesArePrivileged

LEMMA NextPrivileged == IInv /\ PInv /\ [Next]_vars => PInv'
<1>. SUFFICES ASSUME IInv, PInv, [Next]_vars PROVE PInv'
  OBVIOUS
<1>1. ASSUME ProgramStep, ~\E c \in Calls : Invoke(c), ~ProgramReturns
      PROVE  PInv'
  <2>1. UNCHANGED <<input, direct, baseline>> /\ pc' # "callee" /\ pc' # "returned"
    BY <1>1 DEF ProgramStep, ReadOwner, ReadLamports, GuestOwner, GuestLamports, GuestLength,
                GuestData, WriteData, Resize, AssignOwner, TransferLamports, Moved, InvokeRefused, ProgramFails, Ended
  <2>. QED
    BY <2>1, SameBaseline
<1>2. ASSUME ProgramReturns PROVE PInv'
  <2>1. CASE pc' = "returned"
    BY <1>2, <2>1, EndPrivileged
  <2>2. CASE pc' # "returned"
    <3>1. UNCHANGED <<input, direct, baseline>> /\ pc' # "callee"
      BY <1>2 DEF ProgramReturns, Ended
    <3>. QED
      BY <2>2, <3>1, SameBaseline
  <2>. QED
    BY <2>1, <2>2
<1>3. CASE CalleeStep
  <2>1. CASE \E a, b \in Accounts : CalleePays(a, b)
    BY <2>1, PaysPrivileged
  <2>2. ASSUME CalleeFails \/ (CalleeReturns /\ SyncFails(mem))
        PROVE  PInv'
    <3>1. UNCHANGED <<input, direct, baseline>> /\ pc' = "program"
      BY <2>2 DEF CalleeFails, CalleeReturns, BackToProgram, Rollback
    <3>. QED
      BY <3>1, SameBaseline
  <2>3. CASE CalleeReturns /\ ~SyncFails(mem)
    BY <2>3, ReturnPrivileged
  <2>4. CASE \E a \in Accounts :
               \/ \E i \in 1..Capacity(a) : CalleeWrites(a, i)
               \/ \E n \in 0..(Capacity(a) + 1) : CalleeResizes(a, n)
               \/ \E o \in Owners : CalleeAssigns(a, o)
               \/ CalleeBreaksLength(a)
    BY <2>4, CalleePrivilegedStep
  <2>. QED
    BY <1>3, <2>1, <2>2, <2>3, <2>4 DEF CalleeStep
<1>4. CASE UNCHANGED vars
  <2>1. UNCHANGED <<input, direct, mem, baseline, pc, call>>
    BY <1>4 DEF vars
  <2>2. ASSUME pc = "callee" PROVE CalleePrivileged'
    <3>1. CalleePrivileged
      BY <2>2 DEF PInv
    <3>2. \A c \in Accounts : (Privileged(Accepted(mem[c]), c) /\ Undisturbed(mem[c], c))'
      BY <2>1, <3>1, SamePrivileges DEF CalleePrivileged
    <3>. QED
      BY <2>1, <3>1, <3>2 DEF CalleePrivileged, Requestable
  <2>3. ChangesArePrivileged'
    BY <2>1 DEF PInv, ChangesArePrivileged, Mutable, Accepted
  <2>. QED
    BY <2>1, <2>2, <2>3 DEF PInv, Privileged, Licensed, Mutable
<1>. QED
  BY <1>1, <1>2, <1>3, <1>4, InvokePrivileged DEF Next

\* Over a whole invocation no sequence of stores, assignments, transfers and
\* CPIs debits, reassigns or changes an account that was not passed writable
\* and is not the program's own or signed (ValidateProgramChanges, Invoke).
THEOREM NoPrivilegeIsRaised == Spec => []ChangesArePrivileged
<1>1. Init => PInv
  BY InitPrivileged
<1>2. IInv /\ PInv /\ [Next]_vars => PInv'
  BY NextPrivileged
<1>3. PInv => ChangesArePrivileged
  BY DEF PInv
<1>. QED
  BY <1>1, <1>2, <1>3, Invariant, PTL DEF Spec

-----------------------------------------------------------------------------
(* The lamports of all accounts.                                           *)

Balances(m) == [a \in Accounts |-> m[a].view.lamports]
Balance(m) == SumFunctionOnSet(Balances(m), Accounts)

\* What the baseline holds is what came in, and so is what a callee works on.
LInv ==
  /\ Lamports(baseline) = Lamports(input)
  /\ pc = "callee" => Balance(mem) = Lamports(input)
  /\ LamportsConserved

\* The accounts are those of finitely many slots.
LEMMA AccountsFinite == IsFiniteSet(Accounts)
<1>1. Slots \in [1..Len(Slots) -> Accounts] /\ Len(Slots) \in Nat /\ DOMAIN Slots = 1..Len(Slots)
  BY RuntimeAssumption, LenProperties
<1>2. \A a \in Accounts : \E i \in 1..Len(Slots) : Slots[i] = a
  BY <1>1, RuntimeAssumption
<1>3. Slots \in Surjection(1..Len(Slots), Accounts)
  BY <1>1, <1>2 DEF Surjection
<1>4. IsFiniteSet(1..Len(Slots))
  BY <1>1, FS_Interval
<1>. QED
  BY <1>3, <1>4, FS_Surjection

\* The sum the host takes is over the views.
LEMMA BalanceIsLamports ==
  ASSUME NEW m
  PROVE  /\ Lamports(Baselines(m)) = Balance(m)
         /\ Lamports([a \in Accounts |-> m[a].view]) = Balance(m)
<1>1. [a \in DOMAIN Baselines(m) |-> Baselines(m)[a].lamports] = Balances(m)
  BY DEF Baselines, Accepted, Balances
<1>2. [a \in DOMAIN [b \in Accounts |-> m[b].view] |-> [b \in Accounts |-> m[b].view][a].lamports]
        = Balances(m)
  BY DEF Balances
<1>3. DOMAIN Balances(m) = Accounts
  BY DEF Balances
<1>. QED
  BY <1>1, <1>2, <1>3 DEF Lamports, Balance, SumFunction

\* Memory whose views hold the same has the same balance.
LEMMA SameBalance ==
  ASSUME NEW m, NEW k, \A a \in Accounts : m[a].view.lamports = k[a].view.lamports
  PROVE  Balance(m) = Balance(k)
<1>1. Balances(m) = Balances(k)
  BY DEF Balances
<1>. QED
  BY <1>1 DEF Balance

\* One account changed, and not its lamports.
LEMMA SameBalanceButOne ==
  ASSUME NEW m \in [Accounts -> Memory], NEW a \in Accounts, NEW x,
         x.view.lamports = m[a].view.lamports
  PROVE  Balance([m EXCEPT ![a] = x]) = Balance(m)
<1>1. \A c \in Accounts : [m EXCEPT ![a] = x][c] = IF c = a THEN x ELSE m[c]
  OBVIOUS
<1>2. \A c \in Accounts : [m EXCEPT ![a] = x][c].view.lamports = m[c].view.lamports
  BY <1>1
<1>. QED
  BY <1>2, SameBalance

\* An invocation receives what its first baseline holds.
LEMMA InitBalance == Init => LInv
<1>. SUFFICES ASSUME Init PROVE LInv
  OBVIOUS
<1>1. input \in [Accounts -> Input]
  BY RuntimeAssumption DEF Init
<1>2. \A a \in Accounts : Entry[a].view.lamports = input[a].lamports
  BY DEF Entry, Loaded
<1>3. Balances(Entry) = [a \in Accounts |-> input[a].lamports] /\ DOMAIN input = Accounts
  BY <1>1, <1>2 DEF Balances
<1>4. Lamports(input) = Balance(Entry)
  <2>1. [a \in DOMAIN input |-> input[a].lamports] = Balances(Entry)
    BY <1>3
  <2>2. DOMAIN Balances(Entry) = Accounts
    BY DEF Balances
  <2>. QED
    BY <2>1, <2>2 DEF Lamports, Balance, SumFunction
<1>. QED
  BY <1>4, BalanceIsLamports DEF LInv, Init, LamportsConserved

\* A payment of a callee is two changes that cancel.
LEMMA PaysBalance ==
  ASSUME IInv, NEW a \in Accounts, NEW b \in Accounts, CalleePays(a, b)
  PROVE  Balance(mem') = Balance(mem)
<1>. DEFINE pays == mem[a].view.lamports
            gets == mem[b].view.lamports
            x == SetLamports(mem[a], pays - 1)
            y == SetLamports(mem[b], gets + 1)
            m == [mem EXCEPT ![a] = x]
<1>1. Given /\ AllSound(mem) /\ a # b /\ pays > 0 /\ gets < MaxU64 /\ mem' = Paid(mem, a, b, 1)
  BY DEF IInv, TypeOK, Given, CalleePays, Changed
<1>2. \A c \in Accounts : mem[c] \in Memory /\ mem[c].view.lamports \in Amount
  BY <1>1, Parts DEF AllSound
<1>3. MaxU64 \in Nat /\ pays \in Amount /\ gets \in Amount
  BY <1>2, RuntimeAssumption
<1>. HIDE DEF pays, gets
<1>4. pays - 1 \in Amount /\ gets + 1 \in Amount /\ pays \in Int /\ gets \in Int
  BY <1>1, <1>3 DEF Amount
<1>5. x.view.lamports = pays - 1 /\ y.view.lamports = gets + 1
  BY <1>2, <1>4, SetLamportsParts
<1>6. m[b] = mem[b] /\ mem \in [Accounts -> Memory]
  BY <1>1 DEF AllSound
<1>7. mem' = [m EXCEPT ![b] = y]
  BY <1>1, <1>6 DEF Paid, pays, gets
<1>. HIDE DEF x, y
<1>8. \A c \in Accounts : m[c] = IF c = a THEN x ELSE mem[c]
  BY <1>6
<1>9. \A c \in Accounts : mem'[c] = IF c = b THEN y ELSE m[c]
  BY <1>6, <1>7
<1>. HIDE DEF m
<1>10. \A c \in Accounts :
         /\ Balances(mem)[c] = mem[c].view.lamports
         /\ Balances(m)[c] = m[c].view.lamports
         /\ Balances(mem')[c] = mem'[c].view.lamports
  BY DEF Balances
<1>11. \A c \in Accounts :
         /\ Balances(mem)[c] \in Int
         /\ Balances(m)[c] = IF c = a THEN pays - 1 ELSE Balances(mem)[c]
         /\ Balances(mem')[c] = IF c = b THEN gets + 1 ELSE Balances(m)[c]
  BY <1>2, <1>5, <1>8, <1>9, <1>10 DEF Amount
<1>12. Balances(mem)[a] = pays /\ Balances(m)[b] = gets
  BY <1>1, <1>6, <1>10 DEF pays, gets
<1>. DEFINE F == Balances(mem)
            G == Balances(m)
            H == Balances(mem')
<1>. HIDE DEF F, G, H
<1>13. /\ \A c \in Accounts : F[c] \in Int /\ G[c] \in Int /\ H[c] \in Int
       /\ \A c \in Accounts \ {a} : F[c] = G[c]
       /\ \A c \in Accounts \ {b} : G[c] = H[c]
       /\ F[a] = pays /\ G[a] = pays - 1 /\ G[b] = gets /\ H[b] = gets + 1
  BY <1>4, <1>11, <1>12 DEF F, G, H
<1>14. SumFunctionOnSet(G, Accounts) = SumFunctionOnSet(F, Accounts) - F[a] + G[a]
  BY <1>13, AccountsFinite, SumChange
<1>15. SumFunctionOnSet(H, Accounts) = SumFunctionOnSet(G, Accounts) - G[b] + H[b]
  BY <1>13, AccountsFinite, SumChange
<1>16. SumFunctionOnSet(F, Accounts) \in Int
  BY <1>13, AccountsFinite, SumInt
<1>17. SumFunctionOnSet(H, Accounts) = SumFunctionOnSet(F, Accounts)
  BY <1>4, <1>13, <1>14, <1>15, <1>16
<1>. QED
  BY <1>17 DEF Balance, F, H

\* A sync takes the lamports of the store.
LEMMA SyncLamports ==
  ASSUME NEW x \in Memory, NEW a
  PROVE  Sync(x, a).view.lamports = x.store.lamports
<1>1. x.store \in Fields
  BY Parts
<1>2. [x.store EXCEPT !.len = x.view.len].lamports = x.store.lamports
  BY <1>1 DEF Fields
<1>3. CASE ~LengthValid(x, a)
  <2>. DEFINE V == [x.store EXCEPT !.len = x.view.len]
  <2>1. Sync(x, a) = [x EXCEPT !.view = V]
    BY <1>3 DEF Sync
  <2>. HIDE DEF V
  <2>2. [x EXCEPT !.view = V].view = V
    BY DEF Memory
  <2>. QED
    BY <1>2, <2>1, <2>2 DEF V
<1>4. CASE LengthValid(x, a)
  <2>. DEFINE z == IF Attached(a) /\ x.store.len # x.view.len THEN ResizeRegion(x, x.store.len) ELSE x
  <2>1. Sync(x, a) = [z EXCEPT !.view = x.store]
    BY <1>4 DEF Sync
  <2>2. \E d, r : z = [view |-> x.view, store |-> x.store, data |-> d, region |-> r]
    BY DEF ResizeRegion, Memory
  <2>. HIDE DEF z
  <2>3. Sync(x, a).view = x.store
    BY <2>1, <2>2
  <2>. QED
    BY <2>3
<1>. QED
  BY <1>3, <1>4

\* So does ResizeData, which syncs first.
LEMMA ResizeLamports ==
  ASSUME Given, NEW a \in Accounts, NEW x, Sound(x, a), NEW p, NEW n \in Nat
  PROVE  ResizeData(x, a, p, n).view.lamports = x.store.lamports
<1>. DEFINE y == Sync(x, a)
            z == IF Attached(a) THEN ResizeRegion(y, n) ELSE y
            w == [z EXCEPT !.data = Cleared(z.data, y.view.len, n)]
            ok == LengthValid(x, a) /\ Mutable(a) /\ y.view.owner = p /\ n <= MaxLen(a)
<1>1. ResizeData(x, a, p, n) = IF ok THEN SetLen(w, n) ELSE y
  BY DEF ResizeData
<1>2. x \in Memory /\ y \in Memory /\ y.view.lamports = x.store.lamports
  BY SyncSound, SyncLamports DEF Sound
<1>3. y.view \in Fields /\ y.store \in Fields
  BY <1>2, Parts
<1>. HIDE DEF y
<1>4. \E d, r : z = [view |-> y.view, store |-> y.store, data |-> d, region |-> r]
  BY <1>2 DEF ResizeRegion, Memory
<1>. HIDE DEF z
<1>5. \E d, r : w = [view |-> y.view, store |-> y.store, data |-> d, region |-> r]
  <2>1. PICK d, r : z = [view |-> y.view, store |-> y.store, data |-> d, region |-> r]
    BY <1>4
  <2>2. w = [view |-> y.view, store |-> y.store,
             data |-> Cleared(z.data, y.view.len, n), region |-> r]
    BY <2>1
  <2>. HIDE DEF w
  <2>. QED
    BY <2>2
<1>. HIDE DEF w
<1>6. SetLen(w, n).view = [y.view EXCEPT !.len = n]
  BY <1>3, <1>5 DEF SetLen, Fields
<1>7. [y.view EXCEPT !.len = n].lamports = y.view.lamports
  BY <1>3 DEF Fields
<1>. QED
  BY <1>1, <1>2, <1>6, <1>7

\* An undisturbed account holds the same in both copies.
LEMMA UndisturbedLamports ==
  ASSUME NEW x \in Memory, NEW a, Undisturbed(x, a)
  PROVE  x.store.lamports = x.view.lamports
<1>1. x.view \in Fields /\ x.store \in Fields
  BY Parts
<1>2. [x.view EXCEPT !.len = x.store.len].lamports = x.view.lamports
  BY <1>1 DEF Fields
<1>. QED
  BY <1>2 DEF Undisturbed, Agrees

\* No other effect of a callee moves lamports.
LEMMA EffectBalance ==
  ASSUME IInv, PInv, NEW a \in Accounts,
         \/ \E i \in 1..Capacity(a) : CalleeWrites(a, i)
         \/ \E n \in 0..(Capacity(a) + 1) : CalleeResizes(a, n)
         \/ \E o \in Owners : CalleeAssigns(a, o)
         \/ CalleeBreaksLength(a)
  PROVE  Balance(mem') = Balance(mem)
<1>1. Given /\ mem \in [Accounts -> Memory] /\ Sound(mem[a], a) /\ pc = "callee"
  BY DEF IInv, TypeOK, Given, AllSound, CalleeWrites, CalleeResizes, CalleeAssigns,
         CalleeBreaksLength, Changed
<1>2. /\ Undisturbed(mem[a], a) /\ mem[a] \in Memory
      /\ mem[a].view \in Fields /\ mem[a].store \in Fields
  BY <1>1, Parts DEF PInv, CalleePrivileged
<1>3. ASSUME NEW i \in 1..Capacity(a), CalleeWrites(a, i) PROVE Balance(mem') = Balance(mem)
  <2>. DEFINE x == [mem[a] EXCEPT !.data[i] = 1 - @]
  <2>1. mem' = [mem EXCEPT ![a] = x]
    BY <1>3 DEF CalleeWrites, Changed
  <2>2. x.view = mem[a].view
    BY <1>2 DEF Memory
  <2>. HIDE DEF x
  <2>. QED
    BY <1>1, <2>1, <2>2, SameBalanceButOne
<1>4. ASSUME NEW n \in 0..(Capacity(a) + 1), CalleeResizes(a, n) PROVE Balance(mem') = Balance(mem)
  <2>1. n \in Nat
    BY <1>1, Sizes
  <2>2. ResizeData(mem[a], a, call.program, n).view.lamports = mem[a].view.lamports
    BY <1>1, <1>2, <2>1, ResizeLamports, UndisturbedLamports
  <2>3. mem' = [mem EXCEPT ![a] = ResizeData(mem[a], a, call.program, n)]
    BY <1>4 DEF CalleeResizes, Changed
  <2>. QED
    BY <1>1, <2>2, <2>3, SameBalanceButOne
<1>5. ASSUME NEW o \in Owners, CalleeAssigns(a, o) PROVE Balance(mem') = Balance(mem)
  <2>1. SetOwner(mem[a], o).view = [mem[a].view EXCEPT !.owner = o]
    BY <1>2, SetOwnerParts
  <2>2. SetOwner(mem[a], o).view.lamports = mem[a].view.lamports
    BY <1>2, <2>1 DEF Fields
  <2>3. mem' = [mem EXCEPT ![a] = SetOwner(mem[a], o)]
    BY <1>5 DEF CalleeAssigns, Changed
  <2>. QED
    BY <1>1, <2>2, <2>3, SameBalanceButOne
<1>6. ASSUME CalleeBreaksLength(a) PROVE Balance(mem') = Balance(mem)
  <2>. DEFINE x == [mem[a] EXCEPT !.store.len = Capacity(a) + 1]
  <2>1. mem' = [mem EXCEPT ![a] = x]
    BY <1>6 DEF CalleeBreaksLength, Changed
  <2>2. x.view = mem[a].view
    BY <1>2 DEF Memory
  <2>. HIDE DEF x
  <2>. QED
    BY <1>1, <2>1, <2>2, SameBalanceButOne
<1>. QED
  BY <1>3, <1>4, <1>5, <1>6

\* A step that keeps the baseline and starts or ends nothing.
LEMMA SameLamports ==
  ASSUME LInv, UNCHANGED <<input, baseline>>, pc' # "callee", pc' # "returned"
  PROVE  LInv'
BY DEF LInv, LamportsConserved

\* A change of a callee that keeps the balance.
LEMMA ChangedBalance ==
  ASSUME LInv, pc = "callee", UNCHANGED <<input, baseline, pc>>, Balance(mem') = Balance(mem)
  PROVE  LInv'
<1>1. Balance(mem)' = Balance(mem')
  BY DEF Balance, Balances
<1>. QED
  BY <1>1 DEF LInv, LamportsConserved

\* What passes the validation holds what the baseline does.
LEMMA ValidBalance ==
  ASSUME LInv, UNCHANGED <<input, baseline>>,
         ValidChanges(SyncAccounts(mem)), mem' = SyncAccounts(mem)
  PROVE  LInv'
<1>. DEFINE m == SyncAccounts(mem)
<1>1. Lamports(Baselines(m)) = Lamports(baseline)
  BY DEF ValidChanges
<1>2. Balance(m) = Lamports(input)
  BY <1>1, BalanceIsLamports DEF LInv
<1>. HIDE DEF m
<1>3. Balance(mem)' = Balance(m)
  BY DEF Balance, Balances, m
<1>4. Lamports([a \in Accounts |-> mem'[a].view]) = Lamports(input)
  BY <1>2, BalanceIsLamports DEF m
<1>5. Lamports(input)' = Lamports(input) /\ Lamports(baseline)' = Lamports(baseline)
  BY DEF Lamports
<1>. QED
  BY <1>2, <1>3, <1>4, <1>5 DEF LInv, LamportsConserved

\* What a callee leaves becomes the baseline as it is.
LEMMA ReturnBalance ==
  ASSUME IInv, PInv, LInv, CalleeReturns, ~SyncFails(mem)
  PROVE  LInv'
<1>1. Given /\ AllSound(mem) /\ CalleePrivileged /\ pc = "callee"
  BY DEF IInv, TypeOK, Given, PInv, CalleeReturns, BackToProgram
<1>2. /\ baseline' = Baselines(SyncAccounts(mem)) /\ pc' = "program"
      /\ UNCHANGED <<input, direct>>
  BY DEF CalleeReturns, BackToProgram, AcceptBaselines
<1>3. \A a \in Accounts : Sync(mem[a], a) = mem[a]
  BY <1>1, SyncIsIdle DEF AllSound, CalleePrivileged, SyncFails
<1>4. \A a \in Accounts : SyncAccounts(mem)[a].view.lamports = mem[a].view.lamports
  BY <1>3 DEF SyncAccounts
<1>5. Balance(SyncAccounts(mem)) = Balance(mem)
  BY <1>4, SameBalance
<1>6. Lamports(baseline') = Lamports(input)
  BY <1>1, <1>2, <1>5, BalanceIsLamports DEF LInv
<1>. QED
  BY <1>2, <1>6 DEF LInv, LamportsConserved, Lamports

LEMMA NextBalance == IInv /\ PInv /\ LInv /\ [Next]_vars => LInv'
<1>. SUFFICES ASSUME IInv, PInv, LInv, [Next]_vars PROVE LInv'
  OBVIOUS
<1>1. ASSUME ProgramStep, ~\E c \in Calls : Invoke(c), ~ProgramReturns
      PROVE  LInv'
  <2>1. UNCHANGED <<input, baseline>> /\ pc' # "callee" /\ pc' # "returned"
    BY <1>1 DEF ProgramStep, ReadOwner, ReadLamports, GuestOwner, GuestLamports, GuestLength,
                GuestData, WriteData, Resize, AssignOwner, TransferLamports, Moved, InvokeRefused, ProgramFails, Ended
  <2>. QED
    BY <2>1, SameLamports
<1>2. ASSUME NEW c \in Calls, Invoke(c) PROVE LInv'
  BY <1>2, ValidBalance DEF Invoke, CanInvoke
<1>3. ASSUME ProgramReturns PROVE LInv'
  <2>1. UNCHANGED <<input, baseline>> /\ pc' # "callee"
    BY <1>3 DEF ProgramReturns, Ended
  <2>2. CASE pc' = "returned"
    <3>1. ValidChanges(SyncAccounts(mem)) /\ mem' = SyncAccounts(mem)
      BY <1>3, <2>2 DEF ProgramReturns
    <3>. QED
      BY <2>1, <3>1, ValidBalance
  <2>. QED
    BY <2>1, <2>2, SameLamports
<1>4. CASE CalleeStep
  <2>1. CASE \E a, b \in Accounts : CalleePays(a, b)
    <3>1. Balance(mem') = Balance(mem)
      BY <2>1, PaysBalance
    <3>. QED
      BY <2>1, <3>1, ChangedBalance DEF CalleePays, Changed
  <2>2. CASE \E a \in Accounts :
               \/ \E i \in 1..Capacity(a) : CalleeWrites(a, i)
               \/ \E n \in 0..(Capacity(a) + 1) : CalleeResizes(a, n)
               \/ \E o \in Owners : CalleeAssigns(a, o)
               \/ CalleeBreaksLength(a)
    <3>1. Balance(mem') = Balance(mem)
      BY <2>2, EffectBalance
    <3>. QED
      BY <2>2, <3>1, ChangedBalance
         DEF CalleeWrites, CalleeResizes, CalleeAssigns, CalleeBreaksLength, Changed
  <2>3. CASE CalleeFails \/ (CalleeReturns /\ SyncFails(mem))
    <3>1. UNCHANGED <<input, baseline>> /\ pc' = "program"
      BY <2>3 DEF CalleeFails, CalleeReturns, BackToProgram, Rollback
    <3>. QED
      BY <3>1, SameLamports
  <2>4. CASE CalleeReturns /\ ~SyncFails(mem)
    BY <2>4, ReturnBalance
  <2>. QED
    BY <1>4, <2>1, <2>2, <2>3, <2>4 DEF CalleeStep
<1>5. CASE UNCHANGED vars
  <2>1. Balance(mem)' = Balance(mem)
    BY <1>5 DEF vars, Balance, Balances
  <2>. QED
    BY <1>5, <2>1 DEF vars, LInv, LamportsConserved, Lamports
<1>. QED
  BY <1>1, <1>2, <1>3, <1>4, <1>5 DEF Next

\* A returned invocation has conserved the lamports of its accounts, whatever
\* the program stored and its callees paid (ValidateProgramChanges, and the
\* baselines Invoke moves forward).
THEOREM LamportsAreConserved == Spec => []LamportsConserved
<1>1. Init => PInv
  BY InitPrivileged
<1>2. IInv /\ PInv /\ [Next]_vars => PInv'
  BY NextPrivileged
<1>3. Init => LInv
  BY InitBalance
<1>4. IInv /\ PInv /\ LInv /\ [Next]_vars => LInv'
  BY NextBalance
<1>5. LInv => LamportsConserved
  BY DEF LInv
<1>. QED
  BY <1>1, <1>2, <1>3, <1>4, <1>5, Invariant, PTL DEF Spec

-----------------------------------------------------------------------------
(* Settlement.  The invocation implements the specification in which a CPI  *)
(* is one step: what a callee is at work on keeps, at every moment, within  *)
(* what may be settled against the baseline.                                *)

\* The program may change what it owned at the last settlement.
Entitled(a) == Mutable(a) /\ (baseline[a].owner = Program \/ input[a].signer \/ a \in PDAs)

Takes(now, was) ==
  now.lamports < was.lamports \/ now.owner # was.owner \/ now.data # was.data

Within(now, a) ==
  /\ now # baseline[a] => Mutable(a)
  /\ Takes(now, baseline[a]) => Entitled(a)

SInv == pc = "callee" => \A a \in Accounts : Within(Accepted(mem[a]), a)

\* What passes the validation may be settled.
LEMMA ValidIsWithin ==
  ASSUME IInv, NEW m, AllSound(m), ValidChanges(m), NEW a \in Accounts
  PROVE  Within(Accepted(m[a]), a)
<1>. DEFINE now == Accepted(m[a])
            was == baseline[a]
<1>1. Given
  BY DEF IInv, TypeOK, Given
<1>2. now.lamports \in Nat /\ Baselines(m)[a] = now
  BY <1>1, AcceptedTyped
<1>3. was.lamports \in Nat
  BY DEF IInv, TypeOK, Amount
<1>4. /\ ~Mutable(a) => now = was
      /\ was.owner # Program => now.owner = was.owner /\ now.data = was.data /\ now.lamports >= was.lamports
  BY <1>2 DEF ValidChanges
<1>. HIDE DEF now
<1>5. ASSUME Takes(now, was) PROVE Entitled(a)
  <2>1. was.owner = Program
    BY <1>2, <1>3, <1>4, <1>5 DEF Takes
  <2>2. now # was
    BY <1>2, <1>3, <1>5 DEF Takes
  <2>. QED
    BY <1>4, <2>1, <2>2 DEF Entitled
<1>6. Within(now, a)
  BY <1>4, <1>5 DEF Within
<1>. QED
  BY <1>6 DEF now

\* Whatever a governed account becomes may be settled.
LEMMA GovernedIsWithin ==
  ASSUME IInv, PInv, SInv, pc = "callee", NEW a \in Accounts, Governs(a), NEW now
  PROVE  Within(now, a)
<1>1. Given /\ AllSound(mem) /\ CalleePrivileged /\ Within(Accepted(mem[a]), a)
  BY DEF IInv, TypeOK, Given, PInv, SInv
<1>2. Mutable(a)
  BY <1>1, GrantsAreLicensed DEF Governs, Mutable
<1>3. CASE Signed(a)
  BY <1>1, <1>2, <1>3, GrantsAreLicensed DEF Within, Entitled
<1>4. CASE call.program = Program
  <2>1. Accepted(mem[a]).owner = Program
    BY <1>1, <1>4, AcceptedTyped DEF Governs
  <2>2. Entitled(a)
    BY <1>1, <1>2, <2>1 DEF Within, Takes, Entitled
  <2>. QED
    BY <1>2, <2>2 DEF Within
<1>. QED
  BY <1>3, <1>4 DEF Governs

\* The bounds of a settlement do not move during a CPI.
LEMMA SameBounds ==
  ASSUME UNCHANGED <<input, baseline>>, NEW c \in Accounts, Within(Accepted(mem'[c]), c)
  PROVE  Within(Accepted(mem[c]), c)'
BY DEF Within, Takes, Entitled, Mutable, Accepted

\* The account a callee credits is writable, and gains.
LEMMA PaysWithin ==
  ASSUME IInv, PInv, SInv, NEW a \in Accounts, NEW b \in Accounts, CalleePays(a, b)
  PROVE  SInv'
<1>. DEFINE x == SetLamports(mem[a], mem[a].view.lamports - 1)
            y == SetLamports(mem[b], mem[b].view.lamports + 1)
            was == Accepted(mem[b])
            now == Accepted(y)
<1>1. /\ Given /\ AllSound(mem) /\ CalleePrivileged /\ a # b /\ Governs(a) /\ pc = "callee"
      /\ Changed(Paid(mem, a, b, 1)) /\ Granted(b) /\ ~input[b].executable
  BY DEF IInv, TypeOK, Given, PInv, CalleePays, Changed
<1>2. mem[b] \in Memory /\ mem[b].view \in Fields /\ Within(was, b)
  BY <1>1, Parts DEF AllSound, Sound, SInv
<1>3. mem[b].view.lamports + 1 \in Amount
  <2>1. mem[b].view.lamports \in Amount
    BY <1>2, Parts
  <2>2. mem[b].view.lamports < MaxU64 /\ MaxU64 \in Nat
    BY RuntimeAssumption DEF CalleePays
  <2>. QED
    BY <2>1, <2>2 DEF Amount
<1>4. mem' = [mem EXCEPT ![a] = x, ![b] = y] /\ mem \in [Accounts -> Memory]
  BY <1>1 DEF Changed, Paid, AllSound
<1>5. now.owner = was.owner /\ now.data = was.data /\ now.lamports = was.lamports + 1
  <2>1. /\ y.view = [mem[b].view EXCEPT !.lamports = mem[b].view.lamports + 1]
        /\ y.data = mem[b].data
    BY <1>2, <1>3, SetLamportsParts
  <2>. HIDE DEF y
  <2>2. /\ y.view.owner = mem[b].view.owner /\ y.view.len = mem[b].view.len
        /\ y.view.lamports = mem[b].view.lamports + 1
    BY <1>2, <2>1 DEF Fields
  <2>. QED
    BY <2>1, <2>2 DEF Accepted
<1>6. was.lamports \in Nat /\ baseline[b].lamports \in Nat
  <2>1. was.lamports \in Nat
    BY <1>1, AcceptedTyped
  <2>2. baseline[b].lamports \in Nat
    BY DEF IInv, TypeOK, Amount
  <2>. QED
    BY <2>1, <2>2
<1>7. Mutable(b)
  BY <1>1, GrantsAreLicensed DEF Mutable
<1>8. Within(now, b)
  <2>. HIDE DEF now, was
  <2>1. Takes(now, baseline[b]) => Takes(was, baseline[b])
    BY <1>5, <1>6 DEF Takes
  <2>. QED
    BY <1>2, <1>7, <2>1 DEF Within
<1>9. Within(Accepted(x), a)
  BY <1>1, GovernedIsWithin
<1>. HIDE DEF x, y
<1>10. ASSUME NEW c \in Accounts
       PROVE  Within(Accepted(mem'[c]), c)
  <2>1. CASE c = a
    <3>1. mem'[c] = x
      BY <1>1, <1>4, <2>1
    <3>. QED
      BY <1>9, <2>1, <3>1
  <2>2. CASE c = b
    <3>1. mem'[c] = y
      BY <1>1, <1>4, <2>2
    <3>. QED
      BY <1>8, <2>2, <3>1
  <2>3. CASE c # a /\ c # b
    <3>1. mem'[c] = mem[c]
      BY <1>4, <2>3
    <3>. QED
      BY <1>1, <3>1 DEF SInv
  <2>. QED
    BY <2>1, <2>2, <2>3
<1>. QED
  BY <1>1, <1>10, SameBounds DEF SInv, Changed

\* Every other effect is on a governed account, or leaves what is accepted.
LEMMA EffectWithin ==
  ASSUME IInv, PInv, SInv, NEW a \in Accounts,
         \/ \E i \in 1..Capacity(a) : CalleeWrites(a, i)
         \/ \E n \in 0..(Capacity(a) + 1) : CalleeResizes(a, n)
         \/ \E o \in Owners : CalleeAssigns(a, o)
         \/ CalleeBreaksLength(a)
  PROVE  SInv'
<1>1. mem[a] \in Memory /\ mem \in [Accounts -> Memory]
  BY DEF IInv, AllSound
<1>2. pc = "callee" /\ UNCHANGED <<input, baseline>>
  BY DEF CalleeWrites, CalleeResizes, CalleeAssigns, CalleeBreaksLength, Changed
<1>3. \E x : /\ mem' = [mem EXCEPT ![a] = x]
             /\ Governs(a) \/ Accepted(x) = Accepted(mem[a])
  <2>1. CASE \E i \in 1..Capacity(a) : CalleeWrites(a, i)
    BY <2>1 DEF CalleeWrites, Changed
  <2>2. CASE \E n \in 0..(Capacity(a) + 1) : CalleeResizes(a, n)
    BY <2>2 DEF CalleeResizes, Changed
  <2>3. CASE \E o \in Owners : CalleeAssigns(a, o)
    BY <2>3 DEF CalleeAssigns, Changed
  <2>4. CASE CalleeBreaksLength(a)
    <3>. DEFINE x == [mem[a] EXCEPT !.store.len = Capacity(a) + 1]
    <3>1. mem' = [mem EXCEPT ![a] = x]
      BY <2>4 DEF CalleeBreaksLength, Changed
    <3>2. x.view = mem[a].view /\ x.data = mem[a].data
      BY <1>1 DEF Memory
    <3>. HIDE DEF x
    <3>3. Accepted(x) = Accepted(mem[a])
      BY <3>2 DEF Accepted
    <3>. QED
      BY <3>1, <3>3
  <2>. QED
    BY <2>1, <2>2, <2>3, <2>4
<1>4. PICK x : /\ mem' = [mem EXCEPT ![a] = x]
               /\ Governs(a) \/ Accepted(x) = Accepted(mem[a])
  BY <1>3
<1>5. Within(Accepted(x), a)
  <2>1. CASE Governs(a)
    BY <1>2, <2>1, GovernedIsWithin
  <2>2. CASE Accepted(x) = Accepted(mem[a])
    BY <1>2, <2>2 DEF SInv
  <2>. QED
    BY <1>4, <2>1, <2>2
<1>6. ASSUME NEW c \in Accounts
      PROVE  Within(Accepted(mem'[c]), c)
  <2>1. mem'[c] = IF c = a THEN x ELSE mem[c]
    BY <1>1, <1>4
  <2>2. CASE c = a
    BY <1>5, <2>1, <2>2
  <2>3. CASE c # a
    BY <1>2, <2>1, <2>3 DEF SInv
  <2>. QED
    BY <2>2, <2>3
<1>. QED
  BY <1>2, <1>6, SameBounds DEF SInv

LEMMA NextWithin == IInv /\ PInv /\ SInv /\ [Next]_vars => SInv'
<1>. SUFFICES ASSUME IInv, PInv, SInv, [Next]_vars PROVE SInv'
  OBVIOUS
<1>1. ASSUME NEW c \in Calls, Invoke(c) PROVE SInv'
  <2>1. /\ Given /\ AllSound(mem) /\ ~SyncFails(mem) /\ ValidChanges(SyncAccounts(mem))
        /\ mem' = SyncAccounts(mem) /\ UNCHANGED <<input, baseline>>
    BY <1>1 DEF IInv, TypeOK, Given, Invoke, CanInvoke
  <2>2. AllSound(SyncAccounts(mem))
    BY <2>1, SyncAccountsSound
  <2>3. \A a \in Accounts : Within(Accepted(mem'[a]), a)
    BY <2>1, <2>2, ValidIsWithin
  <2>. QED
    BY <2>1, <2>3, SameBounds DEF SInv
<1>2. ASSUME ProgramStep, ~\E c \in Calls : Invoke(c) PROVE SInv'
  <2>1. pc' # "callee"
    BY <1>2 DEF ProgramStep, ReadOwner, ReadLamports, GuestOwner, GuestLamports, GuestLength,
                GuestData, WriteData, Resize, AssignOwner, TransferLamports, Moved, InvokeRefused,
                ProgramFails, ProgramReturns, Ended
  <2>. QED
    BY <2>1 DEF SInv
<1>3. CASE CalleeStep
  <2>1. CASE \E a, b \in Accounts : CalleePays(a, b)
    BY <2>1, PaysWithin
  <2>2. CASE CalleeFails \/ CalleeReturns
    BY <2>2 DEF CalleeFails, CalleeReturns, BackToProgram, SInv
  <2>3. CASE \E a \in Accounts :
               \/ \E i \in 1..Capacity(a) : CalleeWrites(a, i)
               \/ \E n \in 0..(Capacity(a) + 1) : CalleeResizes(a, n)
               \/ \E o \in Owners : CalleeAssigns(a, o)
               \/ CalleeBreaksLength(a)
    BY <2>3, EffectWithin
  <2>. QED
    BY <1>3, <2>1, <2>2, <2>3 DEF CalleeStep
<1>4. CASE UNCHANGED vars
  <2>1. UNCHANGED <<input, mem, baseline, pc>>
    BY <1>4 DEF vars
  <2>. QED
    BY <2>1, SameBounds DEF SInv
<1>. QED
  BY <1>1, <1>2, <1>3, <1>4 DEF Next

\* Before anything has run, the accounts are settled as they came in.
LEMMA EntryIsReceived ==
  ASSUME Given PROVE Baselines(Entry) = Promise!Received
<1>1. \A a \in Accounts : Baselines(Entry)[a] = Promise!Received[a]
  BY EntryIsInput DEF Promise!Received
<1>2. DOMAIN Baselines(Entry) = Accounts /\ DOMAIN Promise!Received = Accounts
  BY DEF Baselines, Promise!Received
<1>3. Baselines(Entry) = [a \in Accounts |-> Baselines(Entry)[a]]
  BY DEF Baselines
<1>4. Promise!Received = [a \in Accounts |-> Promise!Received[a]]
  BY DEF Promise!Received
<1>. QED
  BY <1>1, <1>3, <1>4

\* A sum there is a sum here.
LEMMA SameSum == \A f : Promise!SumFunction(f) = SumFunction(f)
BY DEF SumFunction, SumFunctionOnSet, FoldFunctionOnSet, MapThenFoldSet, Promise!SumFunction,
       Promise!SumFunctionOnSet, Promise!FoldFunctionOnSet, Promise!MapThenFoldSet

\* Accounts within their bounds, that hold what the baseline does, may be settled.
LEMMA WithinSettles ==
  ASSUME NEW after, DOMAIN after = Accounts, Settled = baseline,
         \A a \in Accounts : Within(after[a], a), Lamports(after) = Lamports(baseline)
  PROVE  Promise!Settle(after)
<1>1. \A a \in Accounts : Promise!Mutable(a) <=> Mutable(a)
  BY DEF Promise!Mutable, Mutable
<1>2. \A a \in Accounts : Promise!Entitled(a) <=> Entitled(a)
  BY <1>1 DEF Promise!Entitled, Entitled
<1>3. ASSUME NEW a \in Accounts
      PROVE  /\ after[a] # Settled[a] => Promise!Mutable(a)
             /\ Takes(after[a], Settled[a]) => Promise!Entitled(a)
  BY <1>1, <1>2 DEF Within
<1>4. Promise!Lamports(after) = Promise!Lamports(Settled)
  BY SameSum DEF Promise!Lamports, Lamports
<1>. QED
  BY <1>3, <1>4 DEF Promise!Settle, Takes

\* A CPI that returns is one settlement.
LEMMA ReturnSettles ==
  ASSUME IInv, PInv, SInv, LInv, LInv', CalleeReturns, ~SyncFails(mem)
  PROVE  Promise!SettlementNext
<1>1. Given /\ AllSound(mem) /\ CalleePrivileged /\ pc = "callee"
  BY DEF IInv, TypeOK, Given, PInv, CalleeReturns, BackToProgram
<1>2. /\ baseline' = Baselines(SyncAccounts(mem)) /\ pc' = "program"
      /\ UNCHANGED <<input, direct>>
  BY DEF CalleeReturns, BackToProgram, AcceptBaselines
<1>3. /\ Settled = baseline /\ Settled' = baseline'
      /\ Outcome = "running" /\ Outcome' = "running"
  BY <1>1, <1>2 DEF Settled, Outcome
<1>4. ASSUME NEW a \in Accounts PROVE Within(baseline'[a], a)
  <2>1. Sync(mem[a], a) = mem[a]
    BY <1>1, SyncIsIdle DEF AllSound, CalleePrivileged, SyncFails
  <2>2. baseline'[a] = Accepted(mem[a])
    BY <1>2, <2>1 DEF Baselines, SyncAccounts
  <2>. QED
    BY <1>1, <2>2 DEF SInv
<1>5. Lamports(baseline') = Lamports(baseline)
  <2>1. Lamports(baseline)' = Lamports(baseline') /\ Lamports(input)' = Lamports(input)
    BY <1>2 DEF Lamports
  <2>. QED
    BY <2>1 DEF LInv
<1>6. DOMAIN baseline' = Accounts
  BY <1>2 DEF Baselines
<1>7. Promise!Settle(baseline')
  BY <1>3, <1>4, <1>5, <1>6, WithinSettles
<1>. QED
  BY <1>2, <1>3, <1>7 DEF Promise!SettlementNext, Promise!Settles

\* So is the return of the program; its failure gives back what came in.
LEMMA EndSettles ==
  ASSUME IInv, IInv', ProgramFails \/ ProgramReturns
  PROVE  Promise!SettlementNext
<1>1. Given /\ AllSound(mem) /\ pc = "program" /\ UNCHANGED <<input, direct, baseline>>
  BY DEF IInv, TypeOK, Given, ProgramFails, ProgramReturns, Ended
<1>2. Settled = baseline /\ Outcome = "running"
  BY <1>1 DEF Settled, Outcome
<1>3. pc' \in {"returned", "failed"}
  BY DEF ProgramFails, ProgramReturns
<1>4. CASE pc' = "returned"
  <2>. DEFINE m == SyncAccounts(mem)
  <2>1. ~SyncFails(mem) /\ ValidChanges(m) /\ mem' = m
    BY <1>4 DEF ProgramFails, ProgramReturns
  <2>2. AllSound(m)
    BY <1>1, <2>1, SyncAccountsSound
  <2>3. \A a \in Accounts : Within(Accepted(m[a]), a)
    BY <2>1, <2>2, ValidIsWithin
  <2>4. Lamports(Baselines(m)) = Lamports(baseline)
    BY <2>1 DEF ValidChanges
  <2>. HIDE DEF m
  <2>5. DOMAIN Baselines(m) = Accounts /\ \A a \in Accounts : Baselines(m)[a] = Accepted(m[a])
    BY DEF Baselines
  <2>6. Promise!Settle(Baselines(m))
    BY <1>2, <2>3, <2>4, <2>5, WithinSettles
  <2>7. Settled' = Baselines(m) /\ Outcome' = "returned"
    BY <1>4, <2>1 DEF Settled, Outcome, Baselines, Accepted
  <2>. QED
    BY <1>1, <1>2, <2>6, <2>7 DEF Promise!SettlementNext, Promise!Settles
<1>5. CASE pc' = "failed"
  <2>1. ~direct' => mem' = Entry'
    BY <1>5 DEF IInv, FailureIsAtomic
  <2>2. Settled' = Baselines(Entry)' /\ Outcome' = "failed"
    BY <1>5, <2>1 DEF Settled, Outcome, Baselines, Accepted
  <2>3. Given'
    BY <1>1 DEF Given
  <2>4. Baselines(Entry)' = Promise!Received'
    <3>1. Entry' = Entry
      BY <1>1, SameEntry
    <3>2. Baselines(Entry)' = Baselines(Entry)
      BY <3>1 DEF Baselines, Accepted
    <3>3. Promise!Received' = Promise!Received
      BY <1>1 DEF Promise!Received
    <3>. QED
      BY <1>1, <3>2, <3>3, EntryIsReceived
  <2>5. Promise!Received' = Promise!Received
    BY <1>1 DEF Promise!Received
  <2>. QED
    BY <1>1, <1>2, <2>2, <2>4, <2>5 DEF Promise!SettlementNext, Promise!Fails
<1>. QED
  BY <1>3, <1>4, <1>5

\* Everything else is no step of the accounts.
LEMMA QuietStep ==
  ASSUME UNCHANGED <<input, baseline>>,
         pc \in {"program", "callee"}, pc' \in {"program", "callee"}
  PROVE  UNCHANGED Promise!settlementVars
BY DEF Promise!settlementVars, Settled, Outcome

LEMMA StepSettles ==
  IInv /\ IInv' /\ PInv /\ SInv /\ LInv /\ LInv' /\ [Next]_vars
    => [Promise!SettlementNext]_(Promise!settlementVars)
<1>. SUFFICES ASSUME IInv, IInv', PInv, SInv, LInv, LInv', [Next]_vars
              PROVE  Promise!SettlementNext \/ UNCHANGED Promise!settlementVars
  OBVIOUS
<1>1. CASE ProgramFails \/ ProgramReturns
  BY <1>1, EndSettles
<1>2. ASSUME ProgramStep, ~ProgramFails, ~ProgramReturns
      PROVE  UNCHANGED Promise!settlementVars
  <2>1. UNCHANGED <<input, baseline>> /\ pc = "program" /\ pc' \in {"program", "callee"}
    BY <1>2 DEF ProgramStep, ReadOwner, ReadLamports, GuestOwner, GuestLamports, GuestLength,
                GuestData, WriteData, Resize, AssignOwner, TransferLamports, Moved, Invoke, InvokeRefused
  <2>. QED
    BY <2>1, QuietStep
<1>3. CASE CalleeReturns /\ ~SyncFails(mem)
  BY <1>3, ReturnSettles
<1>4. ASSUME CalleeStep, ~(CalleeReturns /\ ~SyncFails(mem))
      PROVE  UNCHANGED Promise!settlementVars
  <2>1. UNCHANGED <<input, baseline>> /\ pc = "callee" /\ pc' \in {"program", "callee"}
    BY <1>4 DEF CalleeStep, CalleePays, CalleeWrites, CalleeResizes, CalleeAssigns,
                CalleeBreaksLength, Changed, CalleeFails, CalleeReturns, BackToProgram, Rollback
  <2>. QED
    BY <2>1, QuietStep
<1>5. CASE UNCHANGED vars
  <2>1. UNCHANGED <<input, direct, mem, baseline, pc>>
    BY <1>5 DEF vars
  <2>2. Entry' = Entry
    BY <2>1, SameEntry
  <2>3. Settled' = Settled /\ Outcome' = Outcome
    BY <2>1, <2>2 DEF Settled, Outcome, Baselines, Accepted
  <2>. QED
    BY <2>1, <2>3 DEF Promise!settlementVars
<1>. QED
  BY <1>1, <1>2, <1>3, <1>4, <1>5 DEF Next

\* An invocation implements Settlement: each CPI is one atomic step of the
\* accounts or none, and so is the return, within the privileges given and
\* conserving lamports, and a failure gives back what came in (Invoke with its
\* rollback, ValidateProgramChanges, acceptAccountBaselines).
THEOREM CallsAreAtomic == Spec => CallsSettleAtOnce
<1>1. Init => Promise!Given
  <2>. SUFFICES ASSUME Init PROVE Promise!Given
    OBVIOUS
  <2>1. Given /\ baseline = Baselines(Entry) /\ pc = "program"
    BY DEF Init, Given
  <2>. QED
    BY <2>1, EntryIsReceived DEF Promise!Given, Settled, Outcome
<1>2. Init => PInv /\ LInv /\ SInv
  BY InitPrivileged, InitBalance DEF Init, SInv
<1>3. IInv /\ PInv /\ [Next]_vars => PInv'
  BY NextPrivileged
<1>4. IInv /\ PInv /\ LInv /\ [Next]_vars => LInv'
  BY NextBalance
<1>5. IInv /\ PInv /\ SInv /\ [Next]_vars => SInv'
  BY NextWithin
<1>6. IInv /\ IInv' /\ PInv /\ SInv /\ LInv /\ LInv' /\ [Next]_vars
        => [Promise!SettlementNext]_(Promise!settlementVars)
  BY StepSettles
<1>. QED
  BY <1>1, <1>2, <1>3, <1>4, <1>5, <1>6, Invariant, PTL
     DEF Spec, CallsSettleAtOnce, Promise!SettlementSpec
=============================================================================
