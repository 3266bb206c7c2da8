---------------------------- MODULE BuilderProofs ----------------------------
(***************************************************************************)
(* What the builder keeps (WebBuilder.tla) while any number of tabs build, *)
(* select and deploy its artifacts (WebDeploy.tla), for every number of    *)
(* examples and every length of the history.                               *)
(***************************************************************************)
EXTENDS WebDeploy, TLAPS, SequenceTheorems

RequestFields == {"pc", "example", "hash", "bytes", "id"}

Request(r) ==
  /\ DOMAIN r = RequestFields
  /\ r.pc \in {"lookup", "compile", "record"} => r.example \in Examples

Shaped ==
  /\ DOMAIN history = Examples /\ DOMAIN lastBytes = Examples /\ DOMAIN req = Requests
  /\ counters \in [Examples -> Nat]
  /\ \A e \in Examples : history[e] \in Seq({history[e][i] : i \in DOMAIN history[e]})
  /\ \A q \in Requests : Request(req[q])

\* The history of an example is its last builds, MaxHistory of them or all, under
\* consecutive numbers.
Window(h, e, c) ==
  /\ Len(h) <= c
  /\ Len(h) < MaxHistory => Len(h) = c
  /\ \A i \in 1..Len(h) : h[i].id = <<e, c - Len(h) + i>>

Windowed == \A e \in Examples : Window(history[e], e, counters[e])

\* Hence numbers grow along a history, and none is above the counter.
Numbered ==
  \A e \in Examples :
    /\ \A i \in 1..Len(history[e]) :
         /\ history[e][i].id = <<e, history[e][i].id[2]>>
         /\ history[e][i].id[2] \in 1..counters[e]
    /\ \A i, j \in 1..Len(history[e]) : i < j => history[e][i].id[2] < history[e][j].id[2]

KInv == Shaped /\ Windowed /\ ArtifactsFollowHistory

-----------------------------------------------------------------------------
(* One record more, at most one less.                                      *)

LEMMA OwnRange ==
  ASSUME NEW S, NEW s \in Seq(S) PROVE s \in Seq({s[i] : i \in DOMAIN s})
<1>. DEFINE R == {s[k] : k \in DOMAIN s}
<1>1. Len(s) \in Nat /\ DOMAIN s = 1..Len(s) /\ s \in [1..Len(s) -> S]
  BY LenProperties
<1>2. s \in [1..Len(s) -> R]
  BY <1>1
<1>. QED
  BY <1>1, <1>2, SeqDef

Dropped(s) == IF Len(s) < MaxHistory THEN 0 ELSE 1

\* A record is appended to a history; the oldest of a full history leaves it.
Keeps(s, r, bytes, recs, arts, d) ==
  /\ Len(s) \in Nat /\ d \in {0, 1} /\ d <= Len(s)
  /\ recs \in Seq({recs[i] : i \in DOMAIN recs})
  /\ Len(recs) = Len(s) + 1 - d /\ Len(recs) <= MaxHistory
  /\ \A i \in 1..Len(recs) : recs[i] = IF i + d <= Len(s) THEN s[i + d] ELSE r
  /\ d = 0 => arts = bytes
  /\ d = 1 => Len(s) = MaxHistory /\ arts = Without(bytes, s[1].id)

LEMMA KeptRecords ==
  ASSUME NEW s, s \in Seq({s[i] : i \in DOMAIN s}), Len(s) <= MaxHistory,
         NEW r, NEW bytes,
         NEW recs, NEW arts, Evict(Append(s, r), bytes) = <<recs, arts>>
  PROVE  Keeps(s, r, bytes, recs, arts, Dropped(s))
<1>. DEFINE R == {s[i] : i \in DOMAIN s} \cup {r}
            all == Append(s, r)
            d == Dropped(s)
<1>1. s \in Seq(R) /\ r \in R
  BY SeqMonotonic
<1>. HIDE DEF R
<1>2. /\ all \in Seq(R) /\ all # <<>> /\ Len(all) = Len(s) + 1 /\ Len(s) \in Nat
      /\ \A i \in 1..Len(s) : all[i] = s[i]
      /\ all[Len(s) + 1] = r
  BY <1>1, AppendProperties, LenProperties
<1>3. MaxHistory \in Nat \ {0}
  BY WebBuilderAssumption
<1>4. <<recs, arts>> = Evict(all, bytes)
  OBVIOUS
<1>. HIDE DEF all, d
<1>5. CASE Len(s) < MaxHistory
  <2>1. ~(Len(all) > MaxHistory) /\ d = 0
    BY <1>2, <1>3, <1>5 DEF Dropped, d
  <2>2. <<recs, arts>> = <<all, bytes>>
    BY <1>4, <2>1 DEF Evict
  <2>3. recs = all /\ arts = bytes
    BY <2>2
  <2>4. recs \in Seq({recs[i] : i \in DOMAIN recs})
    BY <1>2, <2>3, OwnRange
  <2>5. \A i \in 1..Len(recs) : recs[i] = IF i + d <= Len(s) THEN s[i + d] ELSE r
    <3>. TAKE i \in 1..Len(recs)
    <3>1. i \in Nat /\ i >= 1 /\ i <= Len(s) + 1
      BY <1>2, <2>3
    <3>2. CASE i <= Len(s)
      BY <1>2, <2>1, <2>3, <3>1, <3>2
    <3>3. CASE i = Len(s) + 1
      BY <1>2, <2>1, <2>3, <3>1, <3>3
    <3>. QED
      BY <1>2, <3>1, <3>2, <3>3
  <2>. QED
    BY <1>2, <1>3, <1>5, <2>1, <2>3, <2>4, <2>5 DEF Keeps, d
<1>6. CASE ~(Len(s) < MaxHistory)
  <2>1. Len(s) = MaxHistory /\ Len(all) > MaxHistory /\ d = 1
    BY <1>2, <1>3, <1>6 DEF Dropped, d
  <2>2. <<recs, arts>> = <<Tail(all), Without(bytes, Head(all).id)>>
    BY <1>4, <2>1 DEF Evict
  <2>3. recs = Tail(all) /\ arts = Without(bytes, Head(all).id)
    BY <2>2
  <2>4. /\ recs \in Seq(R) /\ Len(recs) = Len(s)
        /\ \A i \in 1..Len(s) : recs[i] = all[i + 1]
    BY <1>2, <2>3, HeadTailProperties
  <2>5. recs \in Seq({recs[i] : i \in DOMAIN recs})
    BY <2>4, OwnRange
  <2>6. Head(all) = s[1]
    BY <1>2, <1>3, <2>1
  <2>7. \A i \in 1..Len(recs) : recs[i] = IF i + d <= Len(s) THEN s[i + d] ELSE r
    <3>. TAKE i \in 1..Len(recs)
    <3>1. i \in Nat /\ i >= 1 /\ i <= Len(s) /\ recs[i] = all[i + 1]
      BY <1>2, <2>4
    <3>2. CASE i + 1 <= Len(s)
      BY <1>2, <2>1, <3>1, <3>2
    <3>3. CASE i = Len(s)
      BY <1>2, <2>1, <3>1, <3>3
    <3>. QED
      BY <1>2, <3>1, <3>2, <3>3
  <2>. QED
    BY <1>2, <1>3, <2>1, <2>3, <2>4, <2>5, <2>6, <2>7 DEF Keeps, d
<1>. QED
  BY <1>5, <1>6

LEMMA EvictPair ==
  ASSUME NEW records, NEW bytes
  PROVE  Evict(records, bytes) = <<Evict(records, bytes)[1], Evict(records, bytes)[2]>>
<1>1. CASE Len(records) > MaxHistory
  BY <1>1 DEF Evict
<1>2. CASE ~(Len(records) > MaxHistory)
  BY <1>2 DEF Evict
<1>. QED
  BY <1>1, <1>2

-----------------------------------------------------------------------------
(* What a step does to the builder.                                        *)

\* The build rec of example e is recorded, and the d oldest builds are dropped.
Recorded(e, d, rec) ==
  /\ Len(history[e]) \in Nat /\ d \in {0, 1} /\ d <= Len(history[e])
  /\ d = 1 => Len(history[e]) = MaxHistory
  /\ rec.id = <<e, counters[e] + 1>>
  /\ DOMAIN history' = Examples
  /\ \A f \in Examples : f # e => history'[f] = history[f]
  /\ history'[e] \in Seq({history'[e][i] : i \in DOMAIN history'[e]})
  /\ Len(history'[e]) = Len(history[e]) + 1 - d /\ Len(history'[e]) <= MaxHistory
  /\ \A i \in 1..Len(history'[e]) :
       history'[e][i] = IF i + d <= Len(history[e]) THEN history[e][i + d] ELSE rec
  /\ counters' = [counters EXCEPT ![e] = @ + 1]
  /\ DOMAIN artifacts' =
       (DOMAIN artifacts \cup {rec.id}) \ (IF d = 1 THEN {history[e][1].id} ELSE {})
  /\ \A id \in DOMAIN artifacts' :
       artifacts'[id] = IF id = rec.id THEN rec.bytes ELSE artifacts[id]
  /\ artifacts' = [id \in DOMAIN artifacts' |-> artifacts'[id]]

LEMMA RecordRecords ==
  ASSUME KInv, NEW q \in Requests, Record(q)
  PROVE  \E d : Recorded(req[q].example, d,
                         [id |-> <<req[q].example, counters[req[q].example] + 1>>,
                          source |-> req[q].hash, bytes |-> req[q].bytes])
<1>. DEFINE e == req[q].example
            s == history[e]
            rec == [id |-> <<e, counters[e] + 1>>, source |-> req[q].hash, bytes |-> req[q].bytes]
            all == [id \in DOMAIN artifacts \cup {rec.id} |->
                      IF id = rec.id THEN req[q].bytes ELSE artifacts[id]]
            kept == Evict(Append(s, rec), all)
            d == Dropped(s)
<1>1. e \in Examples /\ DOMAIN history = Examples /\ Len(s) <= MaxHistory
      /\ s \in Seq({s[i] : i \in DOMAIN s})
  BY DEF KInv, Shaped, Request, ArtifactsFollowHistory, Record
<1>2. /\ history' = [history EXCEPT ![e] = kept[1]]
      /\ artifacts' = kept[2]
      /\ counters' = [counters EXCEPT ![e] = @ + 1]
  BY DEF Record, NextNumber
<1>3. history'[e] = kept[1] /\ DOMAIN history' = Examples
      /\ \A f \in Examples : f # e => history'[f] = history[f]
  BY <1>1, <1>2
<1>4. kept = <<history'[e], artifacts'>>
  BY <1>2, <1>3, EvictPair
<1>. HIDE DEF s, rec, all, kept, d
<1>5. Keeps(s, rec, all, history'[e], artifacts', d)
  <2>1. Evict(Append(s, rec), all) = <<history'[e], artifacts'>>
    BY <1>4 DEF kept
  <2>. QED
    BY <1>1, <2>1, KeptRecords DEF d
<1>6. /\ DOMAIN artifacts' =
           (DOMAIN artifacts \cup {rec.id}) \ (IF d = 1 THEN {s[1].id} ELSE {})
      /\ \A id \in DOMAIN artifacts' :
           artifacts'[id] = IF id = rec.id THEN rec.bytes ELSE artifacts[id]
      /\ artifacts' = [id \in DOMAIN artifacts' |-> artifacts'[id]]
  <2>1. rec.bytes = req[q].bytes
    BY DEF rec
  <2>2. CASE d = 0
    BY <1>5, <2>1, <2>2 DEF all, Keeps
  <2>3. CASE d = 1
    <3>1. artifacts' = Without(all, s[1].id)
      BY <1>5, <2>3 DEF Keeps
    <3>. QED
      BY <2>1, <2>3, <3>1 DEF all, Without
  <2>. QED
    BY <1>5, <2>2, <2>3 DEF Keeps
<1>7. rec.id = <<e, counters[e] + 1>>
  BY DEF rec
<1>8. Recorded(e, d, rec)
  BY <1>1, <1>2, <1>3, <1>5, <1>6, <1>7 DEF Recorded, Keeps, s
<1>. QED
  BY <1>8 DEF rec

-----------------------------------------------------------------------------
(* A recorded build keeps the order of the ids, and its artifact is the    *)
(* only one that comes.                                                    *)

LEMMA WindowNumbers ==
  ASSUME Shaped, Windowed PROVE Numbered
<1>. SUFFICES ASSUME NEW e \in Examples
              PROVE  /\ \A i \in 1..Len(history[e]) :
                          /\ history[e][i].id = <<e, history[e][i].id[2]>>
                          /\ history[e][i].id[2] \in 1..counters[e]
                     /\ \A i, j \in 1..Len(history[e]) :
                          i < j => history[e][i].id[2] < history[e][j].id[2]
  BY DEF Numbered
<1>1. /\ Len(history[e]) \in Nat /\ counters[e] \in Nat /\ Len(history[e]) <= counters[e]
      /\ \A i \in 1..Len(history[e]) :
           history[e][i].id = <<e, counters[e] - Len(history[e]) + i>>
  BY LenProperties DEF Shaped, Windowed, Window
<1>2. \A i \in 1..Len(history[e]) : history[e][i].id[2] = counters[e] - Len(history[e]) + i
  BY <1>1
<1>3. \A i \in 1..Len(history[e]) : history[e][i].id = <<e, history[e][i].id[2]>>
  BY <1>1, <1>2
<1>4. \A i \in 1..Len(history[e]) : history[e][i].id[2] \in 1..counters[e]
  BY <1>1, <1>2
<1>5. \A i, j \in 1..Len(history[e]) : i < j => history[e][i].id[2] < history[e][j].id[2]
  BY <1>1, <1>2
<1>. QED
  BY <1>3, <1>4, <1>5

LEMMA RecordedWindow ==
  ASSUME Shaped, Windowed, NEW e \in Examples, NEW d, NEW rec, Recorded(e, d, rec)
  PROVE  /\ counters' \in [Examples -> Nat]
         /\ counters'[e] = counters[e] + 1
         /\ \A f \in Examples : f # e => counters'[f] = counters[f]
         /\ Windowed'
<1>1. counters \in [Examples -> Nat] /\ counters[e] \in Nat
  BY DEF Shaped
<1>2. /\ counters' \in [Examples -> Nat]
      /\ counters'[e] = counters[e] + 1
      /\ \A f \in Examples : f # e => counters'[f] = counters[f]
  BY <1>1 DEF Recorded
<1>. DEFINE n == Len(history[e])
            h == history'[e]
<1>3. /\ n \in Nat /\ d \in {0, 1} /\ d <= n /\ Len(h) = n + 1 - d /\ Len(h) <= MaxHistory
      /\ d = 1 => n = MaxHistory
      /\ \A i \in 1..Len(h) : h[i] = IF i + d <= n THEN history[e][i + d] ELSE rec
      /\ rec.id = <<e, counters[e] + 1>>
  BY DEF Recorded
<1>4. /\ n <= counters[e] /\ (n < MaxHistory => n = counters[e])
      /\ \A i \in 1..n : history[e][i].id = <<e, counters[e] - n + i>>
  BY DEF Windowed, Window
<1>5. MaxHistory \in Nat
  BY WebBuilderAssumption
<1>. DEFINE c == counters[e] + 1
<1>0. c = counters[e] + 1
  OBVIOUS
<1>. HIDE DEF n, h, c
<1>6. Len(h) <= c /\ (Len(h) < MaxHistory => Len(h) = c)
  BY <1>0, <1>1, <1>3, <1>4, <1>5
<1>7. ASSUME NEW i \in 1..Len(h) PROVE h[i].id = <<e, c - Len(h) + i>>
  <2>1. CASE i + d <= n
    <3>1. i + d \in 1..n /\ h[i] = history[e][i + d]
      BY <1>3, <2>1
    <3>2. c - Len(h) + i = counters[e] - n + (i + d)
      BY <1>0, <1>1, <1>3
    <3>. QED
      BY <1>4, <3>1, <3>2
  <2>2. CASE ~(i + d <= n)
    <3>1. h[i] = rec /\ c - Len(h) + i = c
      BY <1>0, <1>1, <1>3, <2>2
    <3>. QED
      BY <1>0, <1>3, <3>1
  <2>. QED
    BY <2>1, <2>2
<1>8. Window(h, e, c)
  BY <1>6, <1>7 DEF Window
<1>9. ASSUME NEW f \in Examples PROVE Window(history'[f], f, counters'[f])
  <2>1. CASE f = e
    BY <1>0, <1>2, <1>8, <2>1 DEF h
  <2>2. CASE f # e
    <3>1. history'[f] = history[f] /\ counters'[f] = counters[f]
      BY <1>2, <2>2 DEF Recorded
    <3>. QED
      BY <3>1 DEF Windowed
  <2>. QED
    BY <2>1, <2>2
<1>. QED
  BY <1>2, <1>9 DEF Windowed, Window

LEMMA NewId ==
  ASSUME Shaped, Numbered, ArtifactsFollowHistory,
         NEW e \in Examples, NEW d, NEW rec, Recorded(e, d, rec)
  PROVE  rec.id \notin DOMAIN artifacts
<1>1. rec.id[1] = e /\ rec.id[2] = counters[e] + 1 /\ counters[e] \in Nat
  BY DEF Recorded, Shaped
<1>a. DOMAIN artifacts = UNION {Ids(f) : f \in Examples}
  BY DEF ArtifactsFollowHistory
<1>b. SUFFICES ASSUME rec.id \in DOMAIN artifacts PROVE FALSE
  OBVIOUS
<1>c. PICK f \in Examples : rec.id \in Ids(f)
  BY <1>a, <1>b, Zenon
<1>2. PICK i \in 1..Len(history[f]) : rec.id = history[f][i].id
  BY <1>c DEF Ids
<1>3. history[f][i].id[1] = f /\ history[f][i].id[2] \in 1..counters[f]
  <2>1. history[f][i].id = <<f, history[f][i].id[2]>>
    BY DEF Numbered
  <2>2. history[f][i].id[2] \in 1..counters[f]
    BY DEF Numbered
  <2>. QED
    BY <2>1, <2>2
<1>. QED
  BY <1>1, <1>2, <1>3

LEMMA RecordedIds ==
  ASSUME Shaped, Numbered, NEW e \in Examples, NEW d, NEW rec, Recorded(e, d, rec)
  PROVE  Ids(e)' = (Ids(e) \cup {rec.id}) \ (IF d = 1 THEN {history[e][1].id} ELSE {})
<1>. DEFINE n == Len(history[e])
            h == history'[e]
<1>1. n \in Nat /\ d \in {0, 1} /\ d <= n /\ Len(h) = n + 1 - d
      /\ \A i \in 1..Len(h) : h[i] = IF i + d <= n THEN history[e][i + d] ELSE rec
  BY DEF Recorded
<1>2. Ids(e) = {history[e][i].id : i \in 1..n} /\ Ids(e)' = {h[i].id : i \in 1..Len(h)}
  BY DEF Ids
<1>3. /\ rec.id[2] = counters[e] + 1 /\ counters[e] \in Nat
      /\ \A i, j \in 1..n : i < j => history[e][i].id[2] < history[e][j].id[2]
      /\ \A i \in 1..n : history[e][i].id[2] \in 1..counters[e]
  <2>1. rec.id[2] = counters[e] + 1 /\ counters[e] \in Nat
    BY DEF Recorded, Shaped
  <2>. QED
    BY <2>1 DEF Numbered
<1>. HIDE DEF n, h
<1>4. rec.id \in Ids(e)'
  <2>1. Len(h) \in 1..Len(h) /\ h[Len(h)] = rec
    BY <1>1
  <2>. QED
    BY <1>2, <2>1
<1>5. \A i \in 1..n : i > d => history[e][i].id \in Ids(e)'
  <2>. SUFFICES ASSUME NEW i \in 1..n, i > d PROVE history[e][i].id \in Ids(e)'
    OBVIOUS
  <2>1. i - d \in 1..Len(h) /\ h[i - d] = history[e][i]
    BY <1>1
  <2>. QED
    BY <1>2, <2>1
<1>6. ASSUME NEW i \in 1..Len(h)
      PROVE  h[i] = rec \/ \E j \in 1..n : j > d /\ h[i] = history[e][j]
  <2>1. CASE i + d <= n
    <3>1. i + d \in 1..n /\ i + d > d /\ h[i] = history[e][i + d]
      BY <1>1, <2>1
    <3>. QED
      BY <3>1
  <2>2. CASE ~(i + d <= n)
    BY <1>1, <2>2
  <2>. QED
    BY <2>1, <2>2
<1>7. CASE d = 0
  <2>1. \A i \in 1..n : i > d
    BY <1>1, <1>7
  <2>. QED
    BY <1>2, <1>4, <1>5, <1>6, <1>7, <2>1
<1>8. CASE d = 1
  <2>1. 1 \in 1..n /\ (\A i \in 1..n : i > 1 \/ i = 1)
    BY <1>1, <1>8
  <2>2. rec.id # history[e][1].id
    BY <1>3, <2>1
  <2>3. \A i \in 1..n : i > 1 => history[e][i].id # history[e][1].id
    <3>. TAKE i \in 1..n
    <3>. HAVE i > 1
    <3>1. history[e][1].id[2] < history[e][i].id[2]
      BY <1>3, <2>1
    <3>2. history[e][1].id[2] \in Nat
      BY <1>3, <2>1
    <3>. QED
      BY <3>1, <3>2
  <2>. QED
    BY <1>2, <1>4, <1>5, <1>6, <1>8, <2>1, <2>2, <2>3
<1>. QED
  BY <1>1, <1>7, <1>8

LEMMA OthersIds ==
  ASSUME Shaped, Numbered, NEW e \in Examples, NEW d, NEW rec, Recorded(e, d, rec),
         NEW f \in Examples, f # e
  PROVE  /\ Ids(f)' = Ids(f)
         /\ rec.id \notin Ids(f)
         /\ d = 1 => history[e][1].id \notin Ids(f)
<1>1. history'[f] = history[f]
  BY DEF Recorded
<1>2. \A id \in Ids(f) : id[1] = f
  <2>. SUFFICES ASSUME NEW i \in 1..Len(history[f]) PROVE history[f][i].id[1] = f
    BY DEF Ids
  <2>1. history[f][i].id = <<f, history[f][i].id[2]>>
    BY DEF Numbered
  <2>. QED
    BY <2>1
<1>3. rec.id[1] = e
  BY DEF Recorded
<1>4. ASSUME d = 1 PROVE history[e][1].id[1] = e
  <2>1. 1 \in 1..Len(history[e])
    BY <1>4 DEF Recorded
  <2>2. history[e][1].id = <<e, history[e][1].id[2]>>
    BY <2>1 DEF Numbered
  <2>. QED
    BY <2>2
<1>. QED
  BY <1>1, <1>2, <1>3, <1>4 DEF Ids

LEMMA RecordedFollows ==
  ASSUME Shaped, Numbered, ArtifactsFollowHistory,
         NEW e \in Examples, NEW d, NEW rec, Recorded(e, d, rec)
  PROVE  ArtifactsFollowHistory'
<1>. DEFINE gone == IF d = 1 THEN {history[e][1].id} ELSE {}
<1>1. /\ DOMAIN artifacts = UNION {Ids(f) : f \in Examples}
      /\ DOMAIN artifacts' = (DOMAIN artifacts \cup {rec.id}) \ gone
      /\ Ids(e)' = (Ids(e) \cup {rec.id}) \ gone
      /\ \A f \in Examples : f # e =>
           Ids(f)' = Ids(f) /\ rec.id \notin Ids(f) /\ Ids(f) \cap gone = {}
  <2>1. /\ DOMAIN artifacts = UNION {Ids(f) : f \in Examples}
        /\ DOMAIN artifacts' = (DOMAIN artifacts \cup {rec.id}) \ gone
    BY DEF ArtifactsFollowHistory, Recorded
  <2>2. Ids(e)' = (Ids(e) \cup {rec.id}) \ gone
    BY RecordedIds
  <2>3. ASSUME NEW f \in Examples, f # e
        PROVE  Ids(f)' = Ids(f) /\ rec.id \notin Ids(f) /\ Ids(f) \cap gone = {}
    <3>1. /\ Ids(f)' = Ids(f) /\ rec.id \notin Ids(f)
          /\ d = 1 => history[e][1].id \notin Ids(f)
      BY <2>3, OthersIds
    <3>. QED
      BY <3>1
  <2>. QED
    BY <2>1, <2>2, <2>3
<1>2. DOMAIN artifacts' = UNION {Ids(f)' : f \in Examples}
  <2>. HIDE DEF gone
  <2>1. \A id \in DOMAIN artifacts' : \E f \in Examples : id \in Ids(f)'
    <3>. TAKE id \in DOMAIN artifacts'
    <3>1. CASE id \in Ids(e)'
      BY <3>1
    <3>2. CASE id \notin Ids(e)'
      <4>1. id \in DOMAIN artifacts /\ id \notin Ids(e)
        BY <1>1, <3>2
      <4>2. PICK f \in Examples : id \in Ids(f)
        BY <1>1, <4>1
      <4>. QED
        BY <1>1, <4>1, <4>2
    <3>. QED
      BY <3>1, <3>2
  <2>2. \A f \in Examples : Ids(f)' \subseteq DOMAIN artifacts'
    <3>. TAKE f \in Examples
    <3>1. Ids(f) \subseteq DOMAIN artifacts
      BY <1>1
    <3>2. CASE f = e
      BY <1>1, <3>1, <3>2
    <3>3. CASE f # e
      BY <1>1, <3>1, <3>3
    <3>. QED
      BY <3>2, <3>3
  <2>. QED
    BY <2>1, <2>2
<1>3. ASSUME NEW f \in Examples
      PROVE  /\ Len(history'[f]) <= MaxHistory
             /\ \A i \in 1..Len(history'[f]) :
                  artifacts'[history'[f][i].id] = history'[f][i].bytes
  <2>1. CASE f # e
    <3>1. /\ history'[f] = history[f] /\ Len(history[f]) <= MaxHistory
          /\ \A i \in 1..Len(history[f]) : artifacts[history[f][i].id] = history[f][i].bytes
      BY <2>1 DEF Recorded, ArtifactsFollowHistory
    <3>2. \A i \in 1..Len(history[f]) :
            history[f][i].id \in DOMAIN artifacts' /\ history[f][i].id # rec.id
      <4>. TAKE i \in 1..Len(history[f])
      <4>1. history[f][i].id \in Ids(f)
        BY DEF Ids
      <4>. QED
        BY <1>1, <2>1, <4>1
    <3>3. \A i \in 1..Len(history[f]) :
            artifacts'[history[f][i].id] = artifacts[history[f][i].id]
      BY <3>2 DEF Recorded
    <3>. QED
      BY <3>1, <3>3
  <2>2. CASE f = e
    <3>. DEFINE h == history'[e]
                n == Len(history[e])
    <3>1. /\ n \in Nat /\ d \in {0, 1} /\ Len(h) <= MaxHistory /\ Len(h) = n + 1 - d
          /\ \A i \in 1..Len(h) : h[i] = IF i + d <= n THEN history[e][i + d] ELSE rec
          /\ \A id \in DOMAIN artifacts' :
               artifacts'[id] = IF id = rec.id THEN rec.bytes ELSE artifacts[id]
      BY DEF Recorded
    <3>2. \A i \in 1..n : /\ artifacts[history[e][i].id] = history[e][i].bytes
                          /\ history[e][i].id # rec.id
      <4>. TAKE i \in 1..n
      <4>1. history[e][i].id \in DOMAIN artifacts
        BY <1>1 DEF Ids
      <4>. QED
        BY <4>1, NewId DEF ArtifactsFollowHistory
    <3>3. \A i \in 1..Len(h) : h[i].id \in DOMAIN artifacts'
      <4>. TAKE i \in 1..Len(h)
      <4>1. h[i].id \in Ids(e)'
        BY DEF Ids
      <4>. QED
        BY <1>2, <4>1
    <3>. HIDE DEF h, n
    <3>4. ASSUME NEW i \in 1..Len(h) PROVE artifacts'[h[i].id] = h[i].bytes
      <4>1. CASE i + d <= n
        <5>1. i + d \in 1..n /\ h[i] = history[e][i + d]
          BY <3>1, <4>1
        <5>. QED
          BY <3>1, <3>2, <3>3, <5>1
      <4>2. CASE ~(i + d <= n)
        <5>1. h[i] = rec
          BY <3>1, <4>2
        <5>. QED
          BY <3>1, <3>3, <5>1
      <4>. QED
        BY <4>1, <4>2
    <3>. QED
      BY <2>2, <3>1, <3>4 DEF h
  <2>. QED
    BY <2>1, <2>2
<1>. QED
  BY <1>2, <1>3 DEF ArtifactsFollowHistory

\* One step of IdsNameOneBuild.
NamesOneBuild ==
  /\ \A id \in DOMAIN artifacts \cap DOMAIN artifacts' : artifacts'[id] = artifacts[id]
  /\ \A e \in Examples : counters'[e] # counters[e] =>
       history'[e][Len(history'[e])].id[2] > counters[e]

LEMMA RecordedOnce ==
  ASSUME Shaped, Windowed, Numbered, ArtifactsFollowHistory,
         NEW e \in Examples, NEW d, NEW rec, Recorded(e, d, rec)
  PROVE  NamesOneBuild
<1>1. \A id \in DOMAIN artifacts \cap DOMAIN artifacts' : artifacts'[id] = artifacts[id]
  <2>1. rec.id \notin DOMAIN artifacts
    BY NewId
  <2>. QED
    BY <2>1 DEF Recorded
<1>2. \A f \in Examples : counters'[f] # counters[f] => f = e
  BY RecordedWindow
<1>3. history'[e][Len(history'[e])] = rec
  BY DEF Recorded
<1>4. rec.id[2] = counters[e] + 1 /\ counters[e] \in Nat
  BY DEF Recorded, Shaped
<1>. QED
  BY <1>1, <1>2, <1>3, <1>4 DEF NamesOneBuild

-----------------------------------------------------------------------------
(* Every step.                                                             *)

Kept == UNCHANGED <<lastBytes, history, artifacts, counters>>

Outside == {"idle", "built", "failed"}

\* What a step may do to the request of q.
RequestStep(q) ==
  LET r == req[q]
      s == req'[q]
  IN \/ s = r
     \/ DOMAIN s = RequestFields /\ s.pc \in Outside
     \/ /\ DOMAIN s = RequestFields /\ s.pc = "lookup"
        /\ s.example \in Examples /\ s.hash = source[s.example]
     \/ r.pc = "lookup" /\ s = [r EXCEPT !.pc = "compile"]
     \/ /\ r.pc = "lookup" /\ Hit(q)
        /\ s = [r EXCEPT !.pc = "record", !.bytes = lastBytes[r.example].bytes]
     \/ /\ r.pc = "compile" /\ source[r.example] \notin Broken
        /\ s = [r EXCEPT !.pc = "record",
                         !.bytes = [example |-> r.example, version |-> source[r.example]]]

\* A step of the builder and the tabs moves requests, records at most one build,
\* or is an edit.
LEMMA Steps ==
  ASSUME Shaped, [WebNext]_vars
  PROVE  /\ DOMAIN req' = Requests /\ \A q \in Requests : RequestStep(q)
         /\ Kept \/ \E q \in Requests : Record(q)
         /\ UNCHANGED source \/ \E e \in Examples, v \in Versions : Edit(e, v)
<1>. DEFINE Edits == \E e \in Examples, v \in Versions : Edit(e, v)
            Good == /\ DOMAIN req' = Requests /\ \A q \in Requests : RequestStep(q)
                    /\ UNCHANGED source \/ Edits
<1>1. /\ DOMAIN req = Requests
      /\ \A q \in Requests : DOMAIN req[q] = RequestFields
  BY DEF Shaped, Request
<1>2. ASSUME UNCHANGED req, UNCHANGED source \/ Edits PROVE Good
  BY <1>1, <1>2 DEF RequestStep
<1>3. ASSUME NEW q \in Requests, NEW r, req' = [req EXCEPT ![q] = r], UNCHANGED source,
             req'[q] = r => RequestStep(q)
      PROVE  Good
  <2>1. req'[q] = r /\ \A p \in Requests : p # q => req'[p] = req[p]
    BY <1>1, <1>3
  <2>2. \A p \in Requests : RequestStep(p)
    BY <1>3, <2>1 DEF RequestStep
  <2>. QED
    BY <1>1, <1>3, <2>2
<1>4. ASSUME NEW q \in Requests, NEW r, req' = [req EXCEPT ![q] = r], UNCHANGED source,
             DOMAIN r = RequestFields, r.pc \in Outside
      PROVE  Good
  <2>1. req'[q] = r => RequestStep(q)
    BY <1>4 DEF RequestStep
  <2>. QED
    BY <1>3, <1>4, <2>1
<1>5. DOMAIN Idle = RequestFields /\ Idle.pc \in Outside
  BY DEF Idle, RequestFields, Outside
<1>. HIDE DEF Good
<1>6. ASSUME UNCHANGED vars PROVE Good /\ Kept
  BY <1>2, <1>6 DEF vars, Kept
<1>7. ASSUME Tick PROVE Good /\ Kept
  BY <1>2, <1>7 DEF Tick, builderVars, Kept
<1>8. ASSUME NEW e \in Examples, NEW v \in Versions, Edit(e, v) PROVE Good /\ Kept
  BY <1>2, <1>8 DEF Edit, Kept
<1>9. ASSUME NEW q \in Requests, NEW e \in Examples, StartBuild(q, e) PROVE Good /\ Kept
  <2>. DEFINE r == [Idle EXCEPT !.pc = "lookup", !.example = e, !.hash = source[e]]
  <2>1. req' = [req EXCEPT ![q] = r] /\ Kept /\ UNCHANGED source
    BY <1>9 DEF StartBuild, Kept
  <2>2. req'[q] = r => RequestStep(q)
    BY DEF Idle, RequestFields, RequestStep
  <2>. QED
    BY <1>3, <2>1, <2>2
<1>10. ASSUME NEW q \in Requests, Lookup(q) PROVE Good /\ Kept
  <2>. DEFINE r == IF Hit(q)
                   THEN [req[q] EXCEPT !.pc = "record", !.bytes = lastBytes[req[q].example].bytes]
                   ELSE [req[q] EXCEPT !.pc = "compile"]
  <2>1. req' = [req EXCEPT ![q] = r] /\ Kept /\ UNCHANGED source /\ req[q].pc = "lookup"
    BY <1>10 DEF Lookup, Kept
  <2>2. req'[q] = r => RequestStep(q)
    BY <2>1 DEF RequestStep
  <2>. QED
    BY <1>3, <2>1, <2>2
<1>11. ASSUME NEW q \in Requests, Compile(q) PROVE Good /\ Kept
  <2>. DEFINE e == req[q].example
  <2>1. Kept /\ UNCHANGED source /\ req[q].pc = "compile"
    BY <1>11 DEF Compile, Kept
  <2>2. CASE source[e] \in Broken
    <3>. DEFINE r == [req[q] EXCEPT !.pc = "failed"]
    <3>1. req' = [req EXCEPT ![q] = r]
      BY <1>1, <1>11, <2>2 DEF Compile
    <3>2. DOMAIN r = RequestFields /\ r.pc \in Outside
      BY <1>1 DEF RequestFields, Outside
    <3>. QED
      BY <1>4, <2>1, <3>1, <3>2
  <2>3. CASE source[e] \notin Broken
    <3>. DEFINE r == [req[q] EXCEPT !.pc = "record",
                                    !.bytes = [example |-> e, version |-> source[e]]]
    <3>1. req' = [req EXCEPT ![q] = r]
      BY <1>1, <1>11, <2>3 DEF Compile
    <3>2. req'[q] = r => RequestStep(q)
      BY <2>1, <2>3 DEF RequestStep
    <3>. QED
      BY <1>3, <2>1, <3>1, <3>2
  <2>. QED
    BY <2>2, <2>3
<1>12. ASSUME NEW q \in Requests, Record(q) PROVE Good
  <2>. DEFINE id == <<req[q].example, NextNumber(req[q].example)>>
              r == [req[q] EXCEPT !.pc = "built", !.id = id]
  <2>1. req' = [req EXCEPT ![q].pc = "built", ![q].id = id] /\ UNCHANGED source
    BY <1>12 DEF Record
  <2>2. req' = [req EXCEPT ![q] = r]
    BY <1>1, <2>1
  <2>3. DOMAIN r = RequestFields /\ r.pc \in Outside
    BY <1>1 DEF RequestFields, Outside
  <2>. QED
    BY <1>4, <2>1, <2>2, <2>3
<1>13. ASSUME NEW q \in Requests, Answer(q) \/ CreateSession(q) \/ RefuseSession(q)
       PROVE  Good /\ Kept
  BY <1>4, <1>5, <1>13 DEF Answer, CreateSession, RefuseSession, Kept
<1>14. ASSUME NEW t \in Requests, NEW e \in Examples, NEW id, RequestExisting(t, e, id)
       PROVE  Good /\ Kept
  <2>. DEFINE r == [Idle EXCEPT !.pc = "built", !.example = e, !.id = id,
                                !.bytes = LookupArtifact(e, id)]
  <2>1. DOMAIN r = RequestFields /\ r.pc \in Outside
    BY DEF Idle, RequestFields, Outside
  <2>2. (req' = req \/ req' = [req EXCEPT ![t] = r]) /\ Kept /\ UNCHANGED source
    BY <1>14 DEF RequestExisting, Kept
  <2>. QED
    BY <1>2, <1>4, <2>1, <2>2
<1>15. ASSUME NEW t \in Requests,
              \/ CreateBufferTx(t) \/ FetchArtifact(t) \/ SendBatch(t) \/ BatchConfirmed(t)
              \/ DeployTx(t) \/ SubmitDeploy(t) \/ Abort(t) \/ Close(t) \/ Ledger(t)
       PROVE  Good /\ Kept
  <2>1. UNCHANGED builderVars
    BY <1>15 DEF CreateBufferTx, FetchArtifact, SendBatch, BatchConfirmed, DeployTx,
                 SubmitDeploy, Abort, Close, Ledger, WithSession
  <2>. QED
    BY <1>2, <2>1 DEF builderVars, Kept
<1>16. ASSUME NEW t \in Requests, TabStep(t) PROVE Good /\ Kept
  BY <1>9, <1>13, <1>14, <1>15, <1>16 DEF TabStep, RequestFresh
<1>17. ASSUME NEW t \in Requests, Builds(t) PROVE Good /\ (Kept \/ Record(t))
  BY <1>9, <1>10, <1>11, <1>12, <1>13, <1>17 DEF Builds, BuildStep
<1>18. Good /\ (Kept \/ \E q \in Requests : Record(q))
  BY <1>6, <1>7, <1>8, <1>15, <1>16, <1>17 DEF WebNext
<1>. QED
  BY <1>18 DEF Good

LEMMA RequestStays ==
  ASSUME NEW q, RequestStep(q), Request(req[q]) PROVE Request(req'[q])
BY DEF RequestStep, Request, RequestFields, Outside

\* A step that records nothing leaves the builder's records alone.
LEMMA KeptKeeps ==
  ASSUME KInv, Kept
  PROVE  Windowed' /\ ArtifactsFollowHistory' /\ NamesOneBuild
BY DEF KInv, Kept, Windowed, ArtifactsFollowHistory, Ids, NamesOneBuild

LEMMA StepKeeps ==
  ASSUME KInv, [WebNext]_vars
  PROVE  KInv' /\ NamesOneBuild
<1>1. /\ DOMAIN req' = Requests /\ \A q \in Requests : Request(req'[q])
      /\ Kept \/ \E q \in Requests : Record(q)
  BY Steps, RequestStays DEF KInv, Shaped
<1>2. CASE Kept
  <2>1. Shaped'
    BY <1>1, <1>2 DEF KInv, Shaped, Kept
  <2>. QED
    BY <1>2, <2>1, KeptKeeps DEF KInv
<1>3. ASSUME NEW q \in Requests, Record(q) PROVE KInv' /\ NamesOneBuild
  <2>. DEFINE e == req[q].example
  <2>1. e \in Examples /\ DOMAIN lastBytes' = Examples
    BY <1>3 DEF KInv, Shaped, Request, Record
  <2>2. PICK d, rec : Recorded(e, d, rec)
    BY <1>3, RecordRecords
  <2>. HIDE DEF e
  <2>3. Shaped /\ Windowed /\ Numbered /\ ArtifactsFollowHistory
    BY WindowNumbers DEF KInv
  <2>4. Windowed' /\ counters' \in [Examples -> Nat]
    BY <2>1, <2>2, <2>3, RecordedWindow
  <2>5. ArtifactsFollowHistory' /\ NamesOneBuild
    BY <2>1, <2>2, <2>3, RecordedFollows, RecordedOnce
  <2>6. DOMAIN history' = Examples
        /\ \A f \in Examples : history'[f] \in Seq({history'[f][i] : i \in DOMAIN history'[f]})
    <3>1. DOMAIN history' = Examples
      BY <2>2 DEF Recorded
    <3>2. ASSUME NEW f \in Examples
          PROVE  history'[f] \in Seq({history'[f][i] : i \in DOMAIN history'[f]})
      <4>1. CASE f = e
        BY <2>2, <4>1 DEF Recorded
      <4>2. CASE f # e
        <5>1. history'[f] = history[f]
          BY <2>2, <4>2 DEF Recorded
        <5>2. history[f] \in Seq({history[f][i] : i \in DOMAIN history[f]})
          BY <2>3 DEF Shaped
        <5>. QED
          BY <5>1, <5>2
      <4>. QED
        BY <4>1, <4>2
    <3>. QED
      BY <3>1, <3>2
  <2>7. Shaped'
    BY <1>1, <2>1, <2>4, <2>6 DEF Shaped
  <2>. QED
    BY <2>4, <2>5, <2>7 DEF KInv
<1>. QED
  BY <1>1, <1>2, <1>3

LEMMA InitKeeps == WebInit => KInv
<1>. SUFFICES ASSUME WebInit PROVE KInv
  OBVIOUS
<1>. USE DEF WebInit, BuilderInit
<1>1. \A e \in Examples : history[e] = <<>> /\ counters[e] = 0
  OBVIOUS
<1>2. Shaped
  <2>1. \A e \in Examples : history[e] \in Seq({history[e][i] : i \in DOMAIN history[e]})
    BY <1>1
  <2>2. \A q \in Requests : Request(req[q])
    BY DEF Request, RequestFields, Idle
  <2>. QED
    BY <2>1, <2>2 DEF Shaped
<1>3. Windowed
  BY <1>1 DEF Windowed, Window
<1>4. ArtifactsFollowHistory
  <2>1. MaxHistory \in Nat
    BY WebBuilderAssumption
  <2>2. \A e \in Examples : Ids(e) = {}
    BY <1>1 DEF Ids
  <2>. QED
    BY <1>1, <2>1, <2>2 DEF ArtifactsFollowHistory
<1>. QED
  BY <1>2, <1>3, <1>4 DEF KInv

LEMMA AlwaysKInv == WebSpec => []KInv
<1>1. WebInit => KInv
  BY InitKeeps
<1>2. KInv /\ [WebNext]_vars => KInv'
  BY StepKeeps
<1>. QED
  BY <1>1, <1>2, PTL DEF WebSpec

\* However builds, selections and deploys of the tabs interleave, and however
\* often the history overflows, the artifacts held are those the histories name,
\* no history exceeds maxBuildHistory, and each record still serves its bytes.
THEOREM ArtifactsAreKept == WebSpec => []ArtifactsFollowHistory
<1>1. KInv => ArtifactsFollowHistory
  BY DEF KInv
<1>. QED
  BY <1>1, AlwaysKInv, PTL

\* A build id names the same bytes for as long as it can be served, and an id that
\* left the history is never given out again.
THEOREM IdsAreForGood == WebSpec => IdsNameOneBuild
<1>1. KInv /\ [WebNext]_vars => [NamesOneBuild]_builderVars
  BY StepKeeps
<1>. QED
  BY <1>1, AlwaysKInv, PTL DEF WebSpec, IdsNameOneBuild, NamesOneBuild

-----------------------------------------------------------------------------
(* Without edits under a running Build, bytes match their source.          *)

\* What a request hashed is still on disk until it has compiled, and what it is
\* about to record was compiled from that.
Current(r) ==
  /\ r.pc \in {"lookup", "compile"} => r.hash = source[r.example]
  /\ r.pc = "record" => r.bytes = [example |-> r.example, version |-> r.hash]

MInv ==
  /\ KInv
  /\ BytesMatchSource
  /\ DOMAIN source = Examples
  /\ \A q \in Requests : Current(req[q])

LEMMA CurrentStays ==
  ASSUME ~EditsRace, MInv, [WebNext]_vars, NEW q \in Requests
  PROVE  Current(req[q])'
<1>1. /\ RequestStep(q) /\ Current(req[q]) /\ Request(req[q]) /\ DOMAIN source = Examples
      /\ UNCHANGED source \/ \E e \in Examples, v \in Versions : Edit(e, v)
  BY Steps DEF MInv, KInv, Shaped
<1>2. CASE UNCHANGED source
  <2>1. ASSUME req[q].pc = "lookup", Hit(q)
        PROVE  lastBytes[req[q].example].bytes = [example |-> req[q].example, version |-> req[q].hash]
    BY <1>1, <2>1 DEF Hit, MInv, BytesMatchSource, Request
  <2>. QED
    BY <1>1, <1>2, <2>1 DEF RequestStep, Current, Request, RequestFields, Outside
<1>3. ASSUME NEW e \in Examples, NEW v \in Versions, Edit(e, v) PROVE Current(req[q])'
  <2>1. /\ req[q].example = e => req[q].pc \notin {"lookup", "compile"}
        /\ source' = [source EXCEPT ![e] = v] /\ UNCHANGED req
    BY <1>3 DEF Edit
  <2>2. CASE req[q].pc \in {"lookup", "compile"}
    <3>1. req[q].example \in Examples /\ req[q].example # e
      BY <1>1, <2>1, <2>2 DEF Request
    <3>2. source'[req[q].example] = source[req[q].example]
      BY <1>1, <2>1, <3>1
    <3>. QED
      BY <1>1, <2>1, <2>2, <3>2 DEF Current
  <2>3. CASE req[q].pc \notin {"lookup", "compile"}
    BY <1>1, <2>1, <2>3 DEF Current
  <2>. QED
    BY <2>2, <2>3
<1>. QED
  BY <1>1, <1>2, <1>3

LEMMA RecordMatches ==
  ASSUME MInv, NEW q \in Requests, Record(q)
  PROVE  BytesMatchSource'
<1>. DEFINE e == req[q].example
            rec == [id |-> <<e, counters[e] + 1>>, source |-> req[q].hash, bytes |-> req[q].bytes]
<1>1. /\ e \in Examples /\ DOMAIN lastBytes = Examples
      /\ req[q].bytes = [example |-> e, version |-> req[q].hash]
      /\ lastBytes' = [lastBytes EXCEPT ![e] = [hash |-> req[q].hash, bytes |-> req[q].bytes]]
  BY DEF Record, Request, Current, MInv, KInv, Shaped
<1>2. PICK d : Recorded(e, d, rec)
  BY RecordRecords DEF MInv
<1>3. rec.bytes = [example |-> e, version |-> rec.source]
  BY <1>1
<1>4. lastBytes'[e].bytes = [example |-> e, version |-> lastBytes'[e].hash]
  BY <1>1
<1>5. \A f \in Examples : f # e => lastBytes'[f] = lastBytes[f] /\ history'[f] = history[f]
  BY <1>1, <1>2 DEF Recorded
<1>. HIDE DEF e, rec
<1>6. ASSUME NEW i \in 1..Len(history'[e])
      PROVE  history'[e][i].bytes = [example |-> e, version |-> history'[e][i].source]
  <2>1. /\ Len(history[e]) \in Nat /\ d \in {0, 1}
        /\ Len(history'[e]) = Len(history[e]) + 1 - d
        /\ history'[e][i] = IF i + d <= Len(history[e]) THEN history[e][i + d] ELSE rec
    BY <1>2 DEF Recorded
  <2>2. CASE i + d <= Len(history[e])
    <3>1. i + d \in 1..Len(history[e]) /\ history'[e][i] = history[e][i + d]
      BY <2>1, <2>2
    <3>. QED
      BY <1>1, <3>1 DEF MInv, BytesMatchSource
  <2>3. CASE ~(i + d <= Len(history[e]))
    BY <1>3, <2>1, <2>3
  <2>. QED
    BY <2>2, <2>3
<1>7. \A f \in Examples : \A i \in 1..Len(history'[f]) :
        history'[f][i].bytes = [example |-> f, version |-> history'[f][i].source]
  <2>. TAKE f \in Examples
  <2>1. CASE f = e
    BY <1>6, <2>1
  <2>2. CASE f # e
    BY <1>5, <2>2 DEF MInv, BytesMatchSource
  <2>. QED
    BY <2>1, <2>2
<1>8. \A f \in Examples : lastBytes'[f] # None =>
        lastBytes'[f].bytes = [example |-> f, version |-> lastBytes'[f].hash]
  BY <1>4, <1>5 DEF MInv, BytesMatchSource
<1>. QED
  BY <1>7, <1>8 DEF BytesMatchSource

LEMMA MStepKeeps ==
  ASSUME ~EditsRace, MInv, [WebNext]_vars
  PROVE  MInv'
<1>1. /\ Kept \/ \E q \in Requests : Record(q)
      /\ UNCHANGED source \/ \E e \in Examples, v \in Versions : Edit(e, v)
  BY Steps DEF MInv, KInv
<1>2. DOMAIN source' = Examples
  BY <1>1 DEF MInv, Edit
<1>3. Kept => BytesMatchSource'
  BY DEF Kept, MInv, BytesMatchSource
<1>4. BytesMatchSource'
  BY <1>1, <1>3, RecordMatches
<1>5. KInv'
  BY StepKeeps DEF MInv
<1>6. \A q \in Requests : Current(req[q])'
  BY CurrentStays
<1>. QED
  BY <1>2, <1>4, <1>5, <1>6 DEF MInv

\* Whatever tabs build, evict and select, and in whatever order their Build calls
\* overlap: what a build id serves is what was recorded under it, and that was
\* compiled from the source it names, as long as no source is edited between the
\* hash and the compile of a Build.
THEOREM BuildsAreTrue == ASSUME ~EditsRace PROVE WebSpec => []BuildsAreKept
<1>1. WebInit => MInv
  <2>. SUFFICES ASSUME WebInit PROVE MInv
    OBVIOUS
  <2>1. \A e \in Examples : history[e] = <<>> /\ lastBytes[e] = None
    BY DEF WebInit, BuilderInit
  <2>2. BytesMatchSource
    BY <2>1 DEF BytesMatchSource
  <2>3. \A q \in Requests : Current(req[q])
    BY DEF WebInit, BuilderInit, Current, Idle
  <2>. QED
    BY <2>2, <2>3, InitKeeps DEF MInv, WebInit, BuilderInit
<1>2. MInv /\ [WebNext]_vars => MInv'
  BY MStepKeeps
<1>3. MInv => BuildsAreKept
  BY DEF MInv, KInv, BuildsAreKept
<1>. QED
  BY <1>1, <1>2, <1>3, PTL DEF WebSpec

-----------------------------------------------------------------------------
(* Overlapping builds are published one at a time (BuildRegistry.tla).     *)

\* An artifact of e that came from the compiler.
Compiled(bytes, e) ==
  \E v \in Versions \ Broken : bytes = [example |-> e, version |-> v]

PInv ==
  /\ KInv
  /\ source \in [Examples -> Versions]
  /\ \A e \in Examples : lastBytes[e] # None => Compiled(lastBytes[e].bytes, e)
  /\ \A q \in Requests : req[q].pc = "record" => Compiled(req[q].bytes, req[q].example)

LEMMA PStepKeeps ==
  ASSUME PInv, [WebNext]_vars PROVE PInv'
<1>1. /\ \A q \in Requests : RequestStep(q) /\ Request(req[q])
      /\ Kept \/ \E q \in Requests : Record(q)
      /\ UNCHANGED source \/ \E e \in Examples, v \in Versions : Edit(e, v)
  BY Steps DEF PInv, KInv, Shaped
<1>2. source' \in [Examples -> Versions]
  BY <1>1 DEF PInv, Edit
<1>3. ASSUME NEW q \in Requests, req'[q].pc = "record"
      PROVE  Compiled(req'[q].bytes, req'[q].example)
  <2>. DEFINE e == req[q].example
              Came(bytes) == req'[q] = [req[q] EXCEPT !.pc = "record", !.bytes = bytes]
  <2>1. \/ req'[q] = req[q]
        \/ req[q].pc = "lookup" /\ Hit(q) /\ Came(lastBytes[e].bytes)
        \/ /\ req[q].pc = "compile" /\ source[e] \notin Broken
           /\ Came([example |-> e, version |-> source[e]])
    BY <1>1, <1>3 DEF RequestStep, Outside, Request, RequestFields
  <2>2. \A bytes : Came(bytes) => req'[q].example = e /\ req'[q].bytes = bytes
    BY <1>1 DEF Request, RequestFields
  <2>3. CASE req'[q] = req[q]
    BY <1>3, <2>3 DEF PInv
  <2>4. CASE req[q].pc = "lookup" /\ Hit(q) /\ Came(lastBytes[e].bytes)
    <3>1. e \in Examples /\ lastBytes[e] # None
      BY <1>1, <2>4 DEF Request, Hit
    <3>2. Compiled(lastBytes[e].bytes, e)
      BY <3>1 DEF PInv
    <3>. QED
      BY <2>2, <2>4, <3>2
  <2>5. CASE /\ req[q].pc = "compile" /\ source[e] \notin Broken
             /\ Came([example |-> e, version |-> source[e]])
    <3>1. e \in Examples
      BY <1>1, <2>5 DEF Request
    <3>2. source[e] \in Versions \ Broken
      BY <2>5, <3>1 DEF PInv
    <3>3. Compiled([example |-> e, version |-> source[e]], e)
      BY <3>2 DEF Compiled
    <3>. QED
      BY <2>2, <2>5, <3>3
  <2>. QED
    BY <2>1, <2>3, <2>4, <2>5
<1>4. ASSUME NEW e \in Examples, lastBytes'[e] # None
      PROVE  Compiled(lastBytes'[e].bytes, e)
  <2>1. CASE Kept
    BY <1>4, <2>1 DEF Kept, PInv
  <2>2. ASSUME NEW q \in Requests, Record(q) PROVE Compiled(lastBytes'[e].bytes, e)
    <3>1. /\ DOMAIN lastBytes = Examples
          /\ Compiled(req[q].bytes, req[q].example)
          /\ lastBytes' = [lastBytes EXCEPT ![req[q].example] =
                             [hash |-> req[q].hash, bytes |-> req[q].bytes]]
      BY <2>2 DEF Record, PInv, KInv, Shaped
    <3>2. CASE e = req[q].example
      BY <3>1, <3>2
    <3>3. CASE e # req[q].example
      BY <1>4, <3>1, <3>3 DEF PInv
    <3>. QED
      BY <3>2, <3>3
  <2>. QED
    BY <1>1, <2>1, <2>2
<1>5. KInv'
  BY StepKeeps DEF PInv
<1>. QED
  BY <1>2, <1>3, <1>4, <1>5 DEF PInv, Compiled

LEMMA StartsPublished == WebInit => PInv
<1>. SUFFICES ASSUME WebInit PROVE PInv
  OBVIOUS
<1>1. /\ source \in [Examples -> Versions]
      /\ \A e \in Examples : lastBytes[e] = None
      /\ \A q \in Requests : req[q] = Idle
  BY DEF WebInit, BuilderInit
<1>2. \A q \in Requests : req[q].pc # "record"
  BY <1>1 DEF Idle
<1>. QED
  BY <1>1, <1>2, InitKeeps DEF PInv

LEMMA WindowIsServed ==
  ASSUME KInv, NEW e \in Examples PROVE Ids(e) = Registry!Served(e, counters[e])
<1>. DEFINE n == Len(history[e])
            c == counters[e]
<1>1. /\ n \in Nat /\ c \in Nat /\ n <= c /\ n <= MaxHistory
      /\ n < MaxHistory => n = c
      /\ \A i \in 1..n : history[e][i].id = <<e, c - n + i>>
  BY LenProperties DEF KInv, Shaped, Windowed, Window, ArtifactsFollowHistory
<1>2. MaxHistory \in Nat \ {0}
  BY WebBuilderAssumption
<1>3. Ids(e) = {history[e][i].id : i \in 1..n}
  BY DEF Ids
<1>4. Registry!Served(e, c) = {<<e, k>> : k \in {k \in 1..c : k + MaxHistory > c}}
  BY DEF Registry!Served
<1>. HIDE DEF n, c
<1>5. \A i \in 1..n : c - n + i \in 1..c /\ (c - n + i) + MaxHistory > c
  BY <1>1, <1>2
<1>6. \A k \in 1..c : k + MaxHistory > c => k - (c - n) \in 1..n /\ c - n + (k - (c - n)) = k
  BY <1>1, <1>2
<1>7. Ids(e) \subseteq Registry!Served(e, c)
  BY <1>1, <1>3, <1>4, <1>5
<1>8. ASSUME NEW k \in 1..c, k + MaxHistory > c PROVE <<e, k>> \in Ids(e)
  <2>1. k - (c - n) \in 1..n /\ history[e][k - (c - n)].id = <<e, k>>
    BY <1>1, <1>6, <1>8
  <2>. QED
    BY <1>3, <2>1
<1>9. Ids(e) = Registry!Served(e, c)
  BY <1>4, <1>7, <1>8
<1>. QED
  BY <1>9 DEF c

LEMMA WindowStaysServed ==
  KInv' => \A e \in Examples : Ids(e)' = Registry!Served(e, counters'[e])
<1>1. KInv => \A e \in Examples : Ids(e) = Registry!Served(e, counters[e])
  BY WindowIsServed
<1>2. (KInv => \A e \in Examples : Ids(e) = Registry!Served(e, counters[e]))'
  BY <1>1, PTL
<1>. QED
  BY <1>2 DEF Registry!Served

LEMMA RecordPublishes ==
  ASSUME PInv, KInv', NEW q \in Requests, Record(q)
  PROVE  \E e \in Examples, v \in Versions \ Broken : Registry!Publish(e, v)
<1>. DEFINE e == req[q].example
            rec == [id |-> <<e, counters[e] + 1>>, source |-> req[q].hash, bytes |-> req[q].bytes]
<1>1. e \in Examples
  BY DEF Record, PInv, KInv, Shaped, Request
<1>2. PICK v \in Versions \ Broken : req[q].bytes = [example |-> e, version |-> v]
  BY DEF Record, PInv, Compiled
<1>3. PICK d : Recorded(e, d, rec)
  BY RecordRecords DEF PInv
<1>4. rec.id = <<e, counters[e] + 1>> /\ rec.bytes = [example |-> e, version |-> v]
  BY <1>2
<1>. HIDE DEF e, rec
<1>5. counters' = [counters EXCEPT ![e] = counters[e] + 1]
  BY <1>3 DEF Recorded
<1>6. DOMAIN artifacts' = UNION {Registry!Served(f, counters'[f]) : f \in Examples}
  <2>1. \A f \in Examples : Ids(f)' = Registry!Served(f, counters'[f])
    BY WindowStaysServed
  <2>2. DOMAIN artifacts' = UNION {Ids(f)' : f \in Examples}
    BY DEF KInv, ArtifactsFollowHistory
  <2>. QED
    BY <2>1, <2>2
<1>7. artifacts' = [id \in DOMAIN artifacts' |->
                      IF id = rec.id THEN rec.bytes ELSE artifacts[id]]
  BY <1>3 DEF Recorded
<1>8. Registry!Publish(e, v)
  BY <1>4, <1>5, <1>6, <1>7 DEF Registry!Publish
<1>. QED
  BY <1>1, <1>8

\* However Build calls overlap and sources change under them, clients see builds
\* published one at a time under consecutive numbers, each served unchanged for
\* exactly maxBuildHistory builds: the builder implements BuildRegistry.
THEOREM BuilderPublishes == WebSpec => PublishesBuilds
<1>1. WebInit => PInv
  BY StartsPublished
<1>2. PInv /\ [WebNext]_vars => PInv'
  BY PStepKeeps
<1>3. WebInit => Registry!RegistryInit
  <2>. SUFFICES ASSUME WebInit PROVE Registry!RegistryInit
    OBVIOUS
  <2>1. artifacts = [id \in {} |-> {}]
    BY DEF WebInit, BuilderInit
  <2>. QED
    BY <2>1 DEF WebInit, BuilderInit, Registry!RegistryInit
<1>4. PInv /\ PInv' /\ [WebNext]_vars => [Registry!RegistryNext]_(Registry!registryVars)
  <2>. SUFFICES ASSUME PInv, PInv', [WebNext]_vars
                PROVE  [Registry!RegistryNext]_(Registry!registryVars)
    OBVIOUS
  <2>1. Kept \/ \E q \in Requests : Record(q)
    BY Steps DEF PInv, KInv
  <2>2. CASE Kept
    BY <2>2 DEF Kept, Registry!registryVars
  <2>3. CASE \E q \in Requests : Record(q)
    BY <2>3, RecordPublishes DEF PInv, Registry!RegistryNext
  <2>. QED
    BY <2>1, <2>2, <2>3
<1>. QED
  BY <1>1, <1>2, <1>3, <1>4, PTL DEF WebSpec, PublishesBuilds, Registry!RegistrySpec

-----------------------------------------------------------------------------
(* No chunk is skipped, and none is in flight, when a tab deploys.         *)

TabFields == {"pc", "example", "wants", "bytes", "next", "writes"}
WriteStates == {"unsent", "sent", "confirmed"}

\* The first next writes of a tab are confirmed; a tab that has not fetched its
\* artifact has no writes, and one that is past its loop has no other.
Landed(x) ==
  /\ DOMAIN x = TabFields
  /\ x.next \in Nat /\ x.writes \in Seq(WriteStates)
  /\ x.next <= Len(x.writes)
  /\ \A i \in 1..Len(x.writes) : i <= x.next => x.writes[i] = "confirmed"
  /\ x.pc \in {"closed", "opening", "open", "fetch"} => x.writes = <<>> /\ x.next = 0
  /\ x.pc \in {"finalize", "deployed"} => x.next = Len(x.writes)

\* What is served was compiled from one of the versions.
Versioned == \A id \in DOMAIN artifacts : artifacts[id].version \in Versions

WInv ==
  /\ PInv
  /\ Versioned
  /\ DOMAIN tab = Requests
  /\ \A t \in Requests : Landed(tab[t])

LEMMA VersionsStay ==
  ASSUME PInv, Versioned, [WebNext]_vars PROVE Versioned'
<1>1. Kept \/ \E q \in Requests : Record(q)
  BY Steps DEF PInv, KInv
<1>2. CASE Kept
  BY <1>2 DEF Kept, Versioned
<1>3. ASSUME NEW q \in Requests, Record(q) PROVE Versioned'
  <2>. DEFINE e == req[q].example
              rec == [id |-> <<e, counters[e] + 1>>, source |-> req[q].hash, bytes |-> req[q].bytes]
  <2>1. PICK d : Recorded(e, d, rec)
    BY <1>3, RecordRecords DEF PInv
  <2>2. PICK v \in Versions \ Broken : req[q].bytes = [example |-> e, version |-> v]
    BY <1>3 DEF Record, PInv, Compiled
  <2>3. rec.bytes.version \in Versions
    BY <2>2
  <2>. HIDE DEF e, rec
  <2>4. \A id \in DOMAIN artifacts' : id = rec.id \/ id \in DOMAIN artifacts
    BY <2>1 DEF Recorded
  <2>5. \A id \in DOMAIN artifacts' : artifacts'[id] = IF id = rec.id THEN rec.bytes ELSE artifacts[id]
    BY <2>1 DEF Recorded
  <2>. QED
    BY <2>3, <2>4, <2>5 DEF Versioned
<1>. QED
  BY <1>1, <1>2, <1>3

\* A tab that only changes its label.
LEMMA Relabelled ==
  ASSUME NEW x, Landed(x), NEW l,
         l \in {"closed", "opening", "open", "fetch"} => x.writes = <<>> /\ x.next = 0,
         l \in {"finalize", "deployed"} => x.next = Len(x.writes)
  PROVE  Landed([x EXCEPT !.pc = l])
BY DEF Landed, TabFields

LEMMA StartsEmpty == Landed(Closed)
BY DEF Landed, Closed, TabFields, WriteStates

\* The artifact is cut into chunks, none of them sent.
LEMMA FetchedLands ==
  ASSUME NEW x, Landed(x), x.pc = "fetch", NEW bytes, bytes.version \in Versions
  PROVE  Landed([x EXCEPT !.pc = "write", !.bytes = bytes,
                          !.writes = [i \in 1..Length(bytes) |-> "unsent"]])
<1>. DEFINE n == Length(bytes)
            w == [i \in 1..n |-> "unsent"]
<1>1. n \in Nat /\ n > 0
  BY WebDeployAssumption DEF Length
<1>. HIDE DEF n
<1>2. w \in Seq(WriteStates) /\ Len(w) = n
  BY <1>1 DEF WriteStates
<1>. HIDE DEF w
<1>3. Landed([x EXCEPT !.pc = "write", !.bytes = bytes, !.writes = w])
  BY <1>1, <1>2 DEF Landed, TabFields
<1>. QED
  BY <1>3 DEF n, w

LEMMA Found ==
  ASSUME NEW e, NEW id, LookupArtifact(e, id) # None
  PROVE  /\ \E j \in DOMAIN artifacts : LookupArtifact(e, id) = artifacts[j]
         /\ id # None => id \in DOMAIN artifacts /\ LookupArtifact(e, id) = artifacts[id]
BY DEF LookupArtifact

\* The tab t becomes x.
OneTab(t, x) == tab' = [tab EXCEPT ![t] = x] /\ Landed(x)

LEMMA TabMoves ==
  ASSUME WInv, NEW t \in Requests, TabStep(t) \/ Ledger(t)
  PROVE  \E x : OneTab(t, x)
<1>. DEFINE Good == \E x : OneTab(t, x)
            y == tab[t]
<1>1. /\ DOMAIN tab = Requests /\ Landed(y) /\ DOMAIN y = TabFields
      /\ y.next \in Nat /\ y.writes \in Seq(WriteStates)
  BY DEF WInv, Landed
<1>2. ASSUME NEW l, tab' = GoTab(t, l),
             l \in {"closed", "opening", "open", "fetch"} => y.writes = <<>> /\ y.next = 0,
             l \in {"finalize", "deployed"} => y.next = Len(y.writes)
      PROVE  Good
  <2>1. Landed([y EXCEPT !.pc = l])
    BY <1>1, <1>2, Relabelled
  <2>2. tab' = [tab EXCEPT ![t] = [y EXCEPT !.pc = l]]
    BY <1>2 DEF GoTab
  <2>. QED
    BY <2>1, <2>2 DEF OneTab
<1>3. ASSUME y.pc \in {"closed", "opening", "open", "fetch"}
      PROVE  y.writes = <<>> /\ y.next = 0
  BY <1>1, <1>3 DEF Landed
<1>4. ASSUME NEW u, NEW v, NEW l, y.pc \in {"closed", "opening"}
      PROVE  Landed([y EXCEPT !.pc = l, !.example = u, !.wants = v])
  BY <1>1, <1>3, <1>4 DEF Landed, TabFields
<1>5. ASSUME NEW l, WithSession(t, l),
             l \in {"closed", "opening", "open", "fetch"} => y.writes = <<>> /\ y.next = 0,
             l \in {"finalize", "deployed"} => y.next = Len(y.writes)
      PROVE  Good
  <2>1. PICK k \in {l, "failed"} : tab' = GoTab(t, k)
    BY <1>5 DEF WithSession
  <2>. QED
    BY <1>2, <1>5, <2>1
<1>6. ASSUME NEW e \in Examples, RequestFresh(t, e) PROVE Good
  <2>. DEFINE x == [y EXCEPT !.pc = "opening", !.example = e, !.wants = y.wants]
  <2>1. tab' = [tab EXCEPT ![t] = x] /\ y.pc = "closed"
    BY <1>1, <1>6 DEF RequestFresh, TabFields
  <2>. QED
    BY <1>4, <2>1 DEF OneTab
<1>7. ASSUME NEW e \in Examples, NEW id, RequestExisting(t, e, id) PROVE Good
  <2>. DEFINE l == IF LookupArtifact(e, id) = None THEN "failed" ELSE "opening"
              x == [y EXCEPT !.pc = l, !.example = e, !.wants = id]
  <2>1. tab' = [tab EXCEPT ![t] = x] /\ y.pc = "closed"
    BY <1>1, <1>7 DEF RequestExisting, TabFields
  <2>. HIDE DEF l
  <2>2. y.writes = <<>> /\ y.next = 0
    BY <1>3, <2>1
  <2>3. Landed(x)
    BY <1>1, <2>2 DEF Landed, TabFields
  <2>. QED
    BY <2>1, <2>3 DEF OneTab
<1>8. ASSUME CreateSession(t) PROVE Good
  <2>. DEFINE x == [y EXCEPT !.pc = "open", !.example = y.example, !.wants = req[t].id]
  <2>1. tab' = [tab EXCEPT ![t] = x] /\ y.pc = "opening"
    BY <1>1, <1>8 DEF CreateSession, TabFields
  <2>2. y.writes = <<>> /\ y.next = 0
    BY <1>3, <2>1
  <2>3. Landed(x)
    BY <1>1, <2>2 DEF Landed, TabFields
  <2>. QED
    BY <2>1, <2>3 DEF OneTab
<1>9. ASSUME RefuseSession(t) PROVE Good
  BY <1>2, <1>9 DEF RefuseSession
<1>10. ASSUME CreateBufferTx(t) PROVE Good
  BY <1>3, <1>5, <1>10 DEF CreateBufferTx
<1>11. ASSUME FetchArtifact(t) PROVE Good
  <2>. DEFINE bytes == LookupArtifact(y.example, Wanted(t))
  <2>1. CASE bytes = None
    BY <1>2, <1>11, <2>1 DEF FetchArtifact
  <2>2. CASE bytes # None
    <3>. DEFINE x == [y EXCEPT !.pc = "write", !.bytes = bytes,
                               !.writes = [i \in 1..Length(bytes) |-> "unsent"]]
    <3>1. tab' = [tab EXCEPT ![t] = x] /\ y.pc = "fetch"
      BY <1>1, <1>11, <2>2 DEF FetchArtifact, TabFields
    <3>2. bytes.version \in Versions
      BY <2>2, Found DEF WInv, Versioned
    <3>. HIDE DEF bytes
    <3>3. Landed(x)
      BY <1>1, <3>1, <3>2, FetchedLands
    <3>. QED
      BY <3>1, <3>3 DEF OneTab
  <2>. QED
    BY <2>1, <2>2
<1>12. ASSUME SendBatch(t) PROVE Good
  <2>. DEFINE w == [i \in DOMAIN y.writes |-> IF i \in Batch(t, y.next) THEN "sent" ELSE y.writes[i]]
              x == [y EXCEPT !.pc = "landing", !.writes = w]
  <2>1. tab' = [tab EXCEPT ![t] = x]
    BY <1>1, <1>12 DEF SendBatch, TabFields
  <2>2. DOMAIN y.writes = 1..Len(y.writes) /\ Len(y.writes) \in Nat
    BY <1>1, LenProperties
  <2>3. \A i \in DOMAIN w : i \in Batch(t, y.next) => ~(i <= y.next)
    BY <1>1, <2>2 DEF Batch
  <2>. QED
    <3>1. Landed(x)
      <4>1. DOMAIN w = DOMAIN y.writes
        OBVIOUS
      <4>2. \A i \in DOMAIN w : w[i] = IF i \in Batch(t, y.next) THEN "sent" ELSE y.writes[i]
        OBVIOUS
      <4>3. w = [i \in DOMAIN w |-> w[i]]
        OBVIOUS
      <4>. HIDE DEF w
      <4>4. w \in [1..Len(y.writes) -> WriteStates]
        <5>1. \A i \in 1..Len(y.writes) : y.writes[i] \in WriteStates
          BY <1>1, ElementOfSeq
        <5>. QED
          BY <2>2, <4>1, <4>2, <4>3, <5>1 DEF WriteStates
      <4>5. w \in Seq(WriteStates) /\ Len(w) = Len(y.writes)
        BY <2>2, <4>4, SeqDef, LenProperties
      <4>6. \A i \in 1..Len(w) : i <= y.next => w[i] = "confirmed"
        BY <1>1, <2>2, <2>3, <4>1, <4>2, <4>5 DEF Landed
      <4>. QED
        BY <1>1, <4>5, <4>6 DEF Landed, TabFields
    <3>. QED
      BY <2>1, <3>1 DEF OneTab
<1>13. ASSUME BatchConfirmed(t) PROVE Good
  <2>. DEFINE n == AfterBatch(t)
              x == [y EXCEPT !.next = n, !.pc = "write"]
  <2>1. tab' = [tab EXCEPT ![t] = x]
        /\ \A i \in Batch(t, y.next) : y.writes[i] = "confirmed"
    BY <1>1, <1>13 DEF BatchConfirmed, TabFields, Seen
  <2>2. /\ Len(y.writes) \in Nat /\ BatchSize \in Nat
        /\ n = IF y.next + BatchSize < Len(y.writes) THEN y.next + BatchSize ELSE Len(y.writes)
    BY <1>1, LenProperties, WebDeployAssumption DEF AfterBatch
  <2>. HIDE DEF n
  <2>3. n \in Nat /\ n <= Len(y.writes)
        /\ \A i \in 1..Len(y.writes) : i <= n => i <= y.next \/ i \in Batch(t, y.next)
    <3>1. n \in Nat /\ n <= Len(y.writes)
      BY <1>1, <2>2 DEF Landed
    <3>2. ASSUME NEW i \in 1..Len(y.writes), i <= n, ~(i <= y.next)
          PROVE  i \in Batch(t, y.next)
      BY <1>1, <2>2, <3>1, <3>2 DEF Batch
    <3>. QED
      BY <3>1, <3>2
  <2>4. Landed(x)
    BY <1>1, <2>1, <2>2, <2>3 DEF Landed, TabFields
  <2>. QED
    BY <2>1, <2>4 DEF OneTab
<1>14. ASSUME DeployTx(t) PROVE Good
  BY <1>5, <1>14 DEF DeployTx
<1>15. ASSUME SubmitDeploy(t) PROVE Good
  <2>1. y.next = Len(y.writes) /\ tab' = GoTab(t, "deployed")
    BY <1>1, <1>15 DEF SubmitDeploy, Landed
  <2>. QED
    BY <1>2, <2>1
<1>16. ASSUME Abort(t) PROVE Good
  BY <1>2, <1>16 DEF Abort
<1>17. ASSUME Close(t) PROVE Good
  BY <1>17, StartsEmpty DEF Close, OneTab
<1>18. ASSUME Ledger(t) PROVE Good
  <2>1. PICK i \in 1..Len(y.writes) : /\ y.writes[i] = "sent"
                                      /\ tab' = [tab EXCEPT ![t].writes[i] = "confirmed"]
    BY <1>18 DEF Ledger
  <2>. DEFINE w == [y.writes EXCEPT ![i] = "confirmed"]
              x == [y EXCEPT !.writes = w]
  <2>2. tab' = [tab EXCEPT ![t] = x]
    BY <1>1, <2>1 DEF TabFields
  <2>3. Len(y.writes) \in Nat /\ DOMAIN y.writes = 1..Len(y.writes)
        /\ \A k \in 1..Len(y.writes) : y.writes[k] \in WriteStates
    BY <1>1, LenProperties, ElementOfSeq
  <2>4. \A k \in 1..Len(y.writes) : w[k] = IF k = i THEN "confirmed" ELSE y.writes[k]
    BY <2>3
  <2>5. w \in Seq(WriteStates) /\ Len(w) = Len(y.writes)
    <3>1. w \in [1..Len(y.writes) -> WriteStates]
      BY <2>3 DEF WriteStates
    <3>. QED
      BY <2>3, <3>1, SeqDef, LenProperties
  <2>. HIDE DEF w
  <2>6. y.pc \notin {"closed", "opening", "open", "fetch"}
    BY <1>3, <2>1, <2>3
  <2>7. Landed(x)
    BY <1>1, <2>4, <2>5, <2>6 DEF Landed, TabFields
  <2>. QED
    BY <2>2, <2>7 DEF OneTab
<1>. QED
  BY <1>6, <1>7, <1>8, <1>9, <1>10, <1>11, <1>12, <1>13, <1>14, <1>15, <1>16, <1>17, <1>18
  DEF TabStep

LEMMA TabsLand ==
  ASSUME WInv, [WebNext]_vars
  PROVE  DOMAIN tab' = Requests /\ \A t \in Requests : Landed(tab'[t])
<1>1. UNCHANGED tab \/ \E t \in Requests : TabStep(t) \/ Ledger(t)
  BY DEF WebNext, Tick, vars
<1>2. CASE UNCHANGED tab
  BY <1>2 DEF WInv
<1>3. ASSUME NEW t \in Requests, TabStep(t) \/ Ledger(t)
      PROVE  DOMAIN tab' = Requests /\ \A u \in Requests : Landed(tab'[u])
  <2>1. PICK x : OneTab(t, x)
    BY <1>3, TabMoves
  <2>. QED
    BY <2>1 DEF OneTab, WInv
<1>. QED
  BY <1>1, <1>2, <1>3

LEMMA StartsLanded == WebInit => WInv
<1>. SUFFICES ASSUME WebInit PROVE WInv
  OBVIOUS
<1>1. Versioned
  BY DEF WebInit, BuilderInit, Versioned
<1>2. DOMAIN tab = Requests /\ \A t \in Requests : Landed(tab[t])
  BY StartsEmpty DEF WebInit
<1>. QED
  BY <1>1, <1>2, StartsPublished DEF WInv

LEMMA WStepKeeps ==
  ASSUME WInv, [WebNext]_vars PROVE WInv'
BY PStepKeeps, VersionsStay, TabsLand DEF WInv

LEMMA AlwaysWInv == WebSpec => []WInv
BY StartsLanded, WStepKeeps, PTL DEF WebSpec

\* A tab prepares its deploy transaction only after it has seen every chunk of its
\* artifact land: no batch boundary skips one, and none is still in flight, for
\* every artifact and batch size and whatever the ledger delays.
THEOREM ChunksLand == WebSpec => []EveryChunkLanded
<1>1. WInv => EveryChunkLanded
  <2>. SUFFICES ASSUME WInv, NEW t \in Requests
                PROVE  /\ tab[t].next <= Len(tab[t].writes)
                       /\ tab[t].pc \in {"finalize", "deployed"} =>
                            \A i \in 1..Len(tab[t].writes) : tab[t].writes[i] \in Seen
    BY DEF EveryChunkLanded
  <2>1. Landed(tab[t])
    BY DEF WInv
  <2>. QED
    BY <2>1 DEF Landed, Seen
<1>. QED
  BY <1>1, AlwaysWInv, PTL

-----------------------------------------------------------------------------
(* A deploy is about one build.                                            *)

Named(id, c) == \E e \in Examples : id \in {e} \X (1..c[e])

\* The id was given out, and what is still served under it is bytes.
StillNames(id, bytes, c, a) ==
  Named(id, c) /\ (id \in DOMAIN a => a[id] = bytes)

Sized(s, c, a) ==
  s # None =>
    /\ Named(s.build, c)
    /\ s.build \in DOMAIN a => s.length = Length(a[s.build])

\* The id a tab is served by is the one its session was sized for, and so are
\* the chunks it writes.
OneBuild(t) ==
  /\ req[t].pc = "built" => StillNames(req[t].id, req[t].bytes, counters, artifacts)
  /\ Sized(sessions[t], counters, artifacts)
  /\ sessions[t] # None /\ tab[t].pc \in {"open", "fetch", "write", "landing", "finalize"} =>
       tab[t].wants = sessions[t].build
  /\ sessions[t] # None /\ tab[t].pc \in {"write", "landing", "finalize"} =>
       /\ Len(tab[t].writes) = sessions[t].length
       /\ StillNames(sessions[t].build, tab[t].bytes, counters, artifacts)

DInv ==
  /\ WInv
  /\ DOMAIN sessions = Requests
  /\ \A t \in Requests : OneBuild(t)

\* An id that was given out is never bound to other bytes.
LEMMA NamesStay ==
  ASSUME KInv, [WebNext]_vars, NEW id, Named(id, counters)
  PROVE  /\ Named(id, counters')
         /\ id \in DOMAIN artifacts' => id \in DOMAIN artifacts /\ artifacts'[id] = artifacts[id]
<1>1. Kept \/ \E q \in Requests : Record(q)
  BY Steps DEF KInv
<1>2. CASE Kept
  BY <1>2 DEF Kept, Named, Issued
<1>3. ASSUME NEW q \in Requests, Record(q)
      PROVE  /\ Named(id, counters')
             /\ id \in DOMAIN artifacts' => id \in DOMAIN artifacts /\ artifacts'[id] = artifacts[id]
  <2>. DEFINE e == req[q].example
  <2>1. e \in Examples
    BY <1>3 DEF KInv, Shaped, Request, Record
  <2>2. PICK d, rec : Recorded(e, d, rec)
    BY <1>3, RecordRecords
  <2>. HIDE DEF e
  <2>3. PICK f \in Examples : id \in Issued(f)
    BY DEF Named, Issued
  <2>4. PICK k \in 1..counters[f] : id = <<f, k>>
    BY <2>3 DEF Issued
  <2>5. /\ counters' = [counters EXCEPT ![e] = @ + 1] /\ counters \in [Examples -> Nat]
        /\ rec.id = <<e, counters[e] + 1>>
    BY <2>2 DEF Recorded, KInv, Shaped
  <2>6. k \in 1..counters'[f]
    BY <2>4, <2>5
  <2>7. id # rec.id
    <3>1. CASE f = e
      <4>1. k # counters[e] + 1
        BY <2>4, <2>5, <2>1, <3>1
      <4>. QED
        BY <2>4, <2>5, <4>1
    <3>2. CASE f # e
      BY <2>4, <2>5, <3>2
    <3>. QED
      BY <3>1, <3>2
  <2>8. Named(id, counters')
    BY <2>4, <2>6 DEF Named, Issued
  <2>. QED
    BY <2>2, <2>7, <2>8 DEF Recorded
<1>. QED
  BY <1>1, <1>2, <1>3

LEMMA SizesStay ==
  ASSUME KInv, [WebNext]_vars
  PROVE  /\ \A id, bytes : StillNames(id, bytes, counters, artifacts) =>
              Named(id, counters') /\ (id \in DOMAIN artifacts' => artifacts'[id] = bytes)
         /\ \A s : Sized(s, counters, artifacts) /\ s # None =>
              /\ Named(s.build, counters')
              /\ s.build \in DOMAIN artifacts' => s.length = Length(artifacts'[s.build])
<1>1. ASSUME NEW id, Named(id, counters)
      PROVE  /\ Named(id, counters')
             /\ id \in DOMAIN artifacts' => id \in DOMAIN artifacts /\ artifacts'[id] = artifacts[id]
  BY <1>1, NamesStay
<1>2. ASSUME NEW id, NEW bytes, StillNames(id, bytes, counters, artifacts)
      PROVE  Named(id, counters') /\ (id \in DOMAIN artifacts' => artifacts'[id] = bytes)
  BY <1>1, <1>2 DEF StillNames
<1>3. ASSUME NEW s, Sized(s, counters, artifacts), s # None
      PROVE  /\ Named(s.build, counters')
             /\ s.build \in DOMAIN artifacts' => s.length = Length(artifacts'[s.build])
  <2>. DEFINE id == s.build
  <2>1. Named(id, counters) /\ (id \in DOMAIN artifacts => s.length = Length(artifacts[id]))
    BY <1>3 DEF Sized
  <2>. HIDE DEF id
  <2>2. /\ Named(id, counters')
        /\ id \in DOMAIN artifacts' => id \in DOMAIN artifacts /\ artifacts'[id] = artifacts[id]
    BY <1>1, <2>1
  <2>3. Named(id, counters') /\ (id \in DOMAIN artifacts' => s.length = Length(artifacts'[id]))
    BY <2>1, <2>2
  <2>. QED
    BY <2>3 DEF id
<1>. QED
  BY <1>2, <1>3

Dealing == {"open", "fetch", "write", "landing", "finalize"}
Writing == {"write", "landing", "finalize"}

\* A tab that goes on with the build it is about.
GoesOn(x, y) ==
  /\ y.wants = x.wants /\ y.bytes = x.bytes /\ Len(y.writes) = Len(x.writes)
  /\ y.pc \in Dealing => x.pc \in Dealing
  /\ y.pc \in Writing => x.pc \in Writing

Fetched(t) ==
  LET bytes == LookupArtifact(tab[t].example, tab[t].wants) IN
  /\ tab[t].pc = "fetch" /\ bytes # None /\ UNCHANGED <<sessions, artifacts, counters>>
  /\ tab'[t].wants = tab[t].wants /\ tab'[t].bytes = bytes /\ tab'[t].pc = "write"
  /\ Len(tab'[t].writes) = Length(bytes)

TabDeals(t) ==
  \/ GoesOn(tab[t], tab'[t])
  \/ tab'[t].pc \notin Dealing
  \/ CreateSession(t)
  \/ Fetched(t)

LEMMA OwnTabDeals ==
  ASSUME WInv, NEW t \in Requests, TabStep(t) \/ Ledger(t)
  PROVE  TabDeals(t)
<1>. DEFINE y == tab[t]
<1>1. /\ DOMAIN tab = Requests /\ Landed(y) /\ DOMAIN y = TabFields
      /\ y.next \in Nat /\ y.writes \in Seq(WriteStates)
      /\ Len(y.writes) \in Nat /\ DOMAIN y.writes = 1..Len(y.writes)
  BY LenProperties DEF WInv, Landed
<1>2. ASSUME NEW l, tab' = GoTab(t, l),
             l \in Dealing => y.pc \in Dealing, l \in Writing => y.pc \in Writing
      PROVE  TabDeals(t)
  <2>1. tab'[t] = [y EXCEPT !.pc = l]
    BY <1>1, <1>2 DEF GoTab
  <2>2. GoesOn(y, tab'[t])
    BY <1>1, <1>2, <2>1 DEF GoesOn, TabFields
  <2>. QED
    BY <2>2 DEF TabDeals
<1>3. ASSUME NEW l, WithSession(t, l),
             l \in Dealing => y.pc \in Dealing, l \in Writing => y.pc \in Writing
      PROVE  TabDeals(t)
  <2>1. PICK k \in {l, "failed"} : tab' = GoTab(t, k)
    BY <1>3 DEF WithSession
  <2>. QED
    BY <1>2, <1>3, <2>1 DEF Dealing, Writing
<1>4. ASSUME NEW e \in Examples, RequestFresh(t, e) PROVE TabDeals(t)
  <2>1. tab'[t].pc = "opening"
    BY <1>1, <1>4 DEF RequestFresh, TabFields
  <2>. QED
    BY <2>1 DEF TabDeals, Dealing
<1>5. ASSUME NEW e \in Examples, NEW id, RequestExisting(t, e, id) PROVE TabDeals(t)
  <2>1. tab'[t].pc \in {"opening", "failed"}
    BY <1>1, <1>5 DEF RequestExisting, TabFields
  <2>. QED
    BY <2>1 DEF TabDeals, Dealing
<1>6. ASSUME FetchArtifact(t) PROVE TabDeals(t)
  <2>. DEFINE bytes == LookupArtifact(y.example, Wanted(t))
  <2>1. CASE bytes = None
    BY <1>2, <1>6, <2>1 DEF FetchArtifact, Dealing, Writing
  <2>2. CASE bytes # None
    <3>. DEFINE w == [i \in 1..Length(bytes) |-> "unsent"]
                x == [y EXCEPT !.pc = "write", !.bytes = bytes, !.writes = w]
    <3>1. /\ tab' = [tab EXCEPT ![t] = x] /\ y.pc = "fetch"
          /\ UNCHANGED <<sessions, artifacts, counters>>
      BY <1>1, <1>6, <2>2 DEF FetchArtifact, TabFields, builderVars
    <3>2. bytes.version \in Versions
      BY <2>2, Found DEF WInv, Versioned
    <3>3. Length(bytes) \in Nat
      BY <3>2, WebDeployAssumption DEF Length
    <3>4. Len(w) = Length(bytes)
      BY <3>3
    <3>5. LookupArtifact(y.example, y.wants) = bytes
      BY DEF Wanted
    <3>. HIDE DEF bytes, w
    <3>6. /\ tab'[t].wants = y.wants /\ tab'[t].bytes = bytes /\ tab'[t].pc = "write"
          /\ tab'[t].writes = w
      BY <1>1, <3>1 DEF TabFields
    <3>. QED
      BY <2>2, <3>1, <3>4, <3>5, <3>6 DEF TabDeals, Fetched
  <2>. QED
    BY <2>1, <2>2
<1>7. ASSUME SendBatch(t) PROVE TabDeals(t)
  <2>. DEFINE w == [i \in DOMAIN y.writes |-> IF i \in Batch(t, y.next) THEN "sent" ELSE y.writes[i]]
              x == [y EXCEPT !.pc = "landing", !.writes = w]
  <2>1. tab' = [tab EXCEPT ![t] = x] /\ y.pc = "write"
    BY <1>1, <1>7 DEF SendBatch, TabFields
  <2>2. Len(w) = Len(y.writes)
    BY <1>1
  <2>. HIDE DEF w
  <2>3. GoesOn(y, tab'[t])
    BY <1>1, <2>1, <2>2 DEF GoesOn, TabFields, Dealing, Writing
  <2>. QED
    BY <2>3 DEF TabDeals
<1>8. ASSUME BatchConfirmed(t) PROVE TabDeals(t)
  <2>. DEFINE n == AfterBatch(t)
              x == [y EXCEPT !.next = n, !.pc = "write"]
  <2>1. tab' = [tab EXCEPT ![t] = x] /\ y.pc = "landing"
    BY <1>1, <1>8 DEF BatchConfirmed, TabFields
  <2>. HIDE DEF n
  <2>2. GoesOn(y, tab'[t])
    BY <1>1, <2>1 DEF GoesOn, TabFields, Dealing, Writing
  <2>. QED
    BY <2>2 DEF TabDeals
<1>9. ASSUME Ledger(t) PROVE TabDeals(t)
  <2>1. PICK i \in 1..Len(y.writes) : tab' = [tab EXCEPT ![t].writes[i] = "confirmed"]
    BY <1>9 DEF Ledger
  <2>. DEFINE w == [y.writes EXCEPT ![i] = "confirmed"]
              x == [y EXCEPT !.writes = w]
  <2>2. tab' = [tab EXCEPT ![t] = x]
    BY <1>1, <2>1 DEF TabFields
  <2>3. Len(w) = Len(y.writes)
    BY <1>1
  <2>. HIDE DEF w
  <2>4. GoesOn(y, tab'[t])
    BY <1>1, <2>2, <2>3 DEF GoesOn, TabFields
  <2>. QED
    BY <2>4 DEF TabDeals
<1>10. ASSUME Close(t) PROVE TabDeals(t)
  <2>1. tab'[t].pc = "closed"
    BY <1>1, <1>10 DEF Close, Closed
  <2>. QED
    BY <2>1 DEF TabDeals, Dealing
<1>11. ASSUME RefuseSession(t) \/ SubmitDeploy(t) \/ Abort(t) PROVE TabDeals(t)
  BY <1>2, <1>11 DEF RefuseSession, SubmitDeploy, Abort, Dealing, Writing
<1>12. ASSUME CreateBufferTx(t) \/ DeployTx(t) PROVE TabDeals(t)
  BY <1>3, <1>12 DEF CreateBufferTx, DeployTx, Dealing, Writing
<1>. QED
  BY <1>4, <1>5, <1>6, <1>7, <1>8, <1>9, <1>10, <1>11, <1>12 DEF TabStep, TabDeals

Asked(t) == \E e, f \in Examples : \E id \in Issued(f) : RequestExisting(t, e, id)

SessionDeals(t) ==
  /\ CreateSession(t) \/ sessions'[t] \in {sessions[t], None}
  /\ \/ req'[t] = req[t] \/ req'[t].pc # "built"
     \/ Record(t) \/ Asked(t)

LEMMA SweptSessions ==
  /\ DOMAIN Swept = Requests
  /\ \A t \in Requests : Swept[t] \in {sessions[t], None}
BY DEF Swept

LEMMA SessionMoves ==
  ASSUME KInv, DOMAIN sessions = Requests, [WebNext]_vars
  PROVE  DOMAIN sessions' = Requests /\ \A t \in Requests : SessionDeals(t)
<1>. DEFINE Same == UNCHANGED req \/ \E q \in Requests : \E r :
                       /\ req' = [req EXCEPT ![q] = r]
                       /\ r.pc # "built" \/ Record(q) \/ Asked(q)
            Rest == \/ sessions' = sessions \/ sessions' = Swept
                    \/ \E q \in Requests : \E s : CreateSession(q) /\ sessions' = [Swept EXCEPT ![q] = s]
<1>1. DOMAIN req = Requests /\ \A q \in Requests : DOMAIN req[q] = RequestFields
  BY DEF KInv, Shaped, Request
<1>2. Idle.pc # "built" /\ DOMAIN Idle = RequestFields
  BY DEF Idle, RequestFields
<1>3. ASSUME UNCHANGED vars \/ Tick \/ (\E e \in Examples, v \in Versions : Edit(e, v) /\ UNCHANGED <<clock, sessions, tab>>)
      PROVE  Same /\ Rest
  BY <1>3 DEF vars, Tick, builderVars, Edit
<1>4. ASSUME NEW q \in Requests, NEW e \in Examples, StartBuild(q, e) PROVE Same
  <2>. DEFINE r == [Idle EXCEPT !.pc = "lookup", !.example = e, !.hash = source[e]]
  <2>1. req' = [req EXCEPT ![q] = r] /\ r.pc = "lookup"
    BY <1>2, <1>4 DEF StartBuild, RequestFields
  <2>. HIDE DEF r
  <2>. QED
    BY <2>1
<1>5. ASSUME NEW q \in Requests, Lookup(q) PROVE Same
  <2>. DEFINE r == IF Hit(q)
                   THEN [req[q] EXCEPT !.pc = "record", !.bytes = lastBytes[req[q].example].bytes]
                   ELSE [req[q] EXCEPT !.pc = "compile"]
  <2>1. req' = [req EXCEPT ![q] = r] /\ r.pc # "built"
    BY <1>1, <1>5 DEF Lookup, RequestFields
  <2>. HIDE DEF r
  <2>. QED
    BY <2>1
<1>6. ASSUME NEW q \in Requests, Compile(q) PROVE Same
  <2>. DEFINE e == req[q].example
              r == IF source[e] \in Broken THEN [req[q] EXCEPT !.pc = "failed"]
                   ELSE [req[q] EXCEPT !.pc = "record",
                                       !.bytes = [example |-> e, version |-> source[e]]]
  <2>1. req' = [req EXCEPT ![q] = r]
    BY <1>1, <1>6 DEF Compile
  <2>2. r.pc # "built"
    BY <1>1 DEF RequestFields
  <2>. HIDE DEF r
  <2>. QED
    BY <2>1, <2>2
<1>7. ASSUME NEW q \in Requests, Record(q) PROVE Same
  <2>. DEFINE r == [req[q] EXCEPT !.pc = "built", !.id = <<req[q].example, NextNumber(req[q].example)>>]
  <2>1. req' = [req EXCEPT ![q] = r]
    BY <1>1, <1>7 DEF Record
  <2>. HIDE DEF r
  <2>. QED
    BY <1>7, <2>1
<1>8. ASSUME NEW q \in Requests, Answer(q) \/ RefuseSession(q) \/ CreateSession(q) PROVE Same
  <2>1. req' = [req EXCEPT ![q] = Idle]
    BY <1>8 DEF Answer, RefuseSession, CreateSession
  <2>. QED
    BY <1>2, <2>1
<1>9. ASSUME NEW q \in Requests, Builds(q), UNCHANGED <<clock, sessions, tab>>
      PROVE  Same /\ Rest
  BY <1>4, <1>5, <1>6, <1>7, <1>8, <1>9 DEF Builds, BuildStep
<1>10. ASSUME NEW q \in Requests, Asked(q) PROVE Same /\ Rest
  <2>1. PICK e, id : RequestExisting(q, e, id)
    BY <1>10 DEF Asked
  <2>. DEFINE r == [Idle EXCEPT !.pc = "built", !.example = e, !.id = id,
                                !.bytes = LookupArtifact(e, id)]
  <2>2. (req' = req \/ req' = [req EXCEPT ![q] = r]) /\ UNCHANGED sessions
    BY <2>1 DEF RequestExisting
  <2>. HIDE DEF r
  <2>. QED
    BY <1>10, <2>2
<1>11. ASSUME NEW q \in Requests,
              \/ FetchArtifact(q) \/ SendBatch(q) \/ BatchConfirmed(q) \/ SubmitDeploy(q)
              \/ Abort(q) \/ Close(q) \/ Ledger(q) \/ CreateBufferTx(q) \/ DeployTx(q)
       PROVE  Same /\ Rest
  <2>1. UNCHANGED req /\ sessions' \in {sessions, Swept}
    BY <1>11 DEF FetchArtifact, SendBatch, BatchConfirmed, SubmitDeploy, Abort, Close, Ledger,
                 CreateBufferTx, DeployTx, WithSession, builderVars
  <2>. QED
    BY <2>1
<1>12. ASSUME NEW q \in Requests, CreateSession(q) PROVE Rest
  <2>. DEFINE s == [example |-> req[q].example, build |-> req[q].id,
                    length |-> SessionLength(req[q]), createdAt |-> clock]
  <2>1. sessions' = [Swept EXCEPT ![q] = s]
    BY <1>12 DEF CreateSession
  <2>. HIDE DEF s
  <2>. QED
    BY <1>12, <2>1
<1>13. ASSUME NEW q \in Requests, RefuseSession(q) PROVE Rest
  BY <1>13 DEF RefuseSession
<1>14. ASSUME NEW q \in Requests, NEW e \in Examples, RequestFresh(q, e) PROVE Same /\ Rest
  BY <1>4, <1>14 DEF RequestFresh
<1>. HIDE DEF Same, Rest
<1>15. ASSUME NEW q \in Requests, TabStep(q) PROVE Same /\ Rest
  BY <1>8, <1>10, <1>11, <1>12, <1>13, <1>14, <1>15 DEF TabStep, Asked
<1>16. Same /\ Rest
  BY <1>3, <1>9, <1>11, <1>15 DEF WebNext
<1>17. DOMAIN sessions' = Requests
  BY <1>16, SweptSessions DEF Rest
<1>18. ASSUME NEW t \in Requests PROVE CreateSession(t) \/ sessions'[t] \in {sessions[t], None}
  BY <1>16, SweptSessions DEF Rest
<1>19. ASSUME NEW t \in Requests
       PROVE  req'[t] = req[t] \/ req'[t].pc # "built" \/ Record(t) \/ Asked(t)
  BY <1>1, <1>16 DEF Same
<1>. QED
  BY <1>17, <1>18, <1>19 DEF SessionDeals

LEMMA IdsAreNotNone ==
  ASSUME KInv, NEW id, Named(id, counters) PROVE id # None
<1>1. PICK e \in Examples : id \in Issued(e)
  BY DEF Named, Issued
<1>2. counters[e] \in Nat
  BY DEF KInv, Shaped
<1>3. id \in Examples \X Nat
  BY <1>1, <1>2 DEF Issued
<1>. QED
  BY <1>3, WebBuilderAssumption

\* The request that is answered with a build names it.
LEMMA BuiltNames ==
  ASSUME WInv, [WebNext]_vars, NEW t \in Requests, OneBuild(t), SessionDeals(t),
         req'[t].pc = "built"
  PROVE  Named(req'[t].id, counters') /\ (req'[t].id \in DOMAIN artifacts' => artifacts'[req'[t].id] = req'[t].bytes)
<1>1. KInv /\ DOMAIN req = Requests /\ DOMAIN req[t] = RequestFields
  BY DEF WInv, PInv, KInv, Shaped, Request
<1>2. CASE req'[t] = req[t]
  <2>. DEFINE id == req[t].id
              bytes == req[t].bytes
  <2>1. StillNames(id, bytes, counters, artifacts) /\ req'[t].id = id /\ req'[t].bytes = bytes
    BY <1>2 DEF OneBuild
  <2>. HIDE DEF id, bytes
  <2>2. Named(id, counters') /\ (id \in DOMAIN artifacts' => artifacts'[id] = bytes)
    BY <1>1, <2>1, SizesStay
  <2>. QED
    BY <2>1, <2>2 DEF Named
<1>3. CASE Record(t)
  <2>. DEFINE e == req[t].example
              rec == [id |-> <<e, counters[e] + 1>>, source |-> req[t].hash, bytes |-> req[t].bytes]
  <2>1. e \in Examples /\ counters \in [Examples -> Nat]
    BY <1>3 DEF WInv, PInv, KInv, Shaped, Request, Record
  <2>2. PICK d : Recorded(e, d, rec)
    BY <1>1, <1>3, RecordRecords
  <2>3. req'[t].id = rec.id /\ req'[t].bytes = rec.bytes
    BY <1>1, <1>3 DEF Record, NextNumber, RequestFields
  <2>4. rec.id = <<e, counters[e] + 1>>
    OBVIOUS
  <2>. HIDE DEF e, rec
  <2>5. rec.id \in DOMAIN artifacts' => artifacts'[rec.id] = rec.bytes
    BY <2>2 DEF Recorded
  <2>6. counters[e] + 1 \in 1..counters'[e]
    BY <2>1, <2>2 DEF Recorded
  <2>7. \E f \in Examples : rec.id \in {f} \X (1..counters'[f])
    BY <2>1, <2>4, <2>6
  <2>. QED
    BY <2>3, <2>5, <2>7 DEF Named, Issued
<1>4. CASE req'[t] # req[t] /\ Asked(t)
  <2>1. PICK e \in Examples, f \in Examples : \E id \in Issued(f) : RequestExisting(t, e, id)
    BY <1>4 DEF Asked
  <2>2. PICK id \in Issued(f) : RequestExisting(t, e, id)
    BY <2>1
  <2>. DEFINE bytes == LookupArtifact(e, id)
              r == [Idle EXCEPT !.pc = "built", !.example = e, !.id = id, !.bytes = bytes]
  <2>3. bytes # None /\ req' = [req EXCEPT ![t] = r] /\ UNCHANGED <<counters, artifacts>>
    BY <1>1, <1>4, <2>2 DEF RequestExisting
  <2>4. r.id = id /\ r.bytes = bytes
    BY DEF Idle
  <2>5. Named(id, counters)
    BY <2>2 DEF Named, Issued
  <2>6. bytes = artifacts[id]
    BY <1>1, <2>3, <2>5, Found, IdsAreNotNone
  <2>. HIDE DEF r, bytes
  <2>7. req'[t].id = id /\ req'[t].bytes = bytes
    BY <1>1, <2>3, <2>4
  <2>. QED
    BY <2>3, <2>5, <2>6, <2>7 DEF Named, Issued
<1>. QED
  BY <1>2, <1>3, <1>4 DEF SessionDeals

LEMMA OneBuildStays ==
  ASSUME DInv, [WebNext]_vars, NEW t \in Requests PROVE OneBuild(t)'
<1>1. /\ WInv /\ KInv /\ OneBuild(t) /\ DOMAIN sessions = Requests
      /\ DOMAIN req = Requests /\ DOMAIN tab = Requests /\ DOMAIN tab[t] = TabFields
  BY DEF DInv, WInv, PInv, KInv, Shaped, Landed
<1>2. SessionDeals(t) /\ DOMAIN sessions' = Requests
  BY <1>1, SessionMoves
<1>3. TabDeals(t)
  <2>1. tab'[t] = tab[t] \/ TabStep(t) \/ Ledger(t)
    <3>1. UNCHANGED tab \/ \E u \in Requests : TabStep(u) \/ Ledger(u)
      BY DEF WebNext, Tick, vars
    <3>2. ASSUME NEW u \in Requests, u # t, TabStep(u) \/ Ledger(u) PROVE tab'[t] = tab[t]
      <4>1. PICK x : OneTab(u, x)
        BY <1>1, <3>2, TabMoves
      <4>. QED
        BY <1>1, <3>2, <4>1 DEF OneTab
    <3>. QED
      BY <3>1, <3>2
  <2>2. tab'[t] = tab[t] => GoesOn(tab[t], tab'[t])
    BY DEF GoesOn
  <2>. QED
    BY <1>1, <2>1, <2>2, OwnTabDeals DEF TabDeals
<1>. DEFINE s == sessions[t]
            z == sessions'[t]
<1>4. /\ \A id, bytes : StillNames(id, bytes, counters, artifacts) =>
           Named(id, counters') /\ (id \in DOMAIN artifacts' => artifacts'[id] = bytes)
      /\ \A x : Sized(x, counters, artifacts) /\ x # None =>
           /\ Named(x.build, counters')
           /\ x.build \in DOMAIN artifacts' => x.length = Length(artifacts'[x.build])
  BY <1>1, SizesStay
<1>5. req'[t].pc = "built" =>
        Named(req'[t].id, counters') /\ (req'[t].id \in DOMAIN artifacts' => artifacts'[req'[t].id] = req'[t].bytes)
  BY <1>1, <1>2, BuiltNames
<1>6. CASE CreateSession(t)
  <2>. DEFINE new == [example |-> req[t].example, build |-> req[t].id,
                      length |-> SessionLength(req[t]), createdAt |-> clock]
  <2>1. /\ z = new /\ req[t].pc = "built"
        /\ tab'[t].pc = "open" /\ tab'[t].wants = req[t].id
        /\ req'[t] = Idle
    BY <1>1, <1>6, SweptSessions DEF CreateSession, TabFields
  <2>2. z.build = req[t].id /\ z.length = Length(req[t].bytes)
    BY <2>1 DEF SessionLength
  <2>3. StillNames(req[t].id, req[t].bytes, counters, artifacts)
    BY <1>1, <2>1 DEF OneBuild
  <2>. HIDE DEF new, z
  <2>4. /\ Named(z.build, counters')
        /\ z.build \in DOMAIN artifacts' => z.length = Length(artifacts'[z.build])
    BY <1>4, <2>2, <2>3
  <2>5. Sized(z, counters', artifacts')
    BY <2>4 DEF Sized, z, Named
  <2>. QED
    BY <2>1, <2>2, <2>5 DEF OneBuild, Idle, z
<1>7. CASE ~CreateSession(t)
  <2>1. z \in {s, None}
    BY <1>2, <1>7 DEF SessionDeals
  <2>2. CASE z = None
    BY <1>5, <2>2 DEF OneBuild, StillNames, Sized
  <2>3. CASE z # None
    <3>1. z = s /\ s # None
      BY <2>1, <2>3
    <3>2. /\ Sized(s, counters, artifacts)
          /\ tab[t].pc \in Dealing => tab[t].wants = s.build
          /\ tab[t].pc \in Writing => Len(tab[t].writes) = s.length /\ StillNames(s.build, tab[t].bytes, counters, artifacts)
      BY <1>1, <3>1 DEF OneBuild, Dealing, Writing
    <3>3. Sized(z, counters', artifacts')
      BY <1>4, <3>1, <3>2 DEF Sized
    <3>4. CASE GoesOn(tab[t], tab'[t])
      <4>1. tab'[t].pc \in Dealing => tab'[t].wants = z.build
        BY <3>1, <3>2, <3>4 DEF GoesOn
      <4>2. tab'[t].pc \in Writing =>
              /\ Len(tab'[t].writes) = z.length
              /\ Named(z.build, counters') /\ (z.build \in DOMAIN artifacts' => artifacts'[z.build] = tab'[t].bytes)
        BY <1>4, <3>1, <3>2, <3>4 DEF GoesOn
      <4>. QED
        BY <1>5, <3>3, <4>1, <4>2 DEF OneBuild, StillNames, Dealing, Writing
    <3>5. CASE tab'[t].pc \notin Dealing
      BY <1>5, <3>3, <3>5 DEF OneBuild, StillNames, Dealing
    <3>6. CASE Fetched(t)
      <4>. DEFINE id == tab[t].wants
                  bytes == LookupArtifact(tab[t].example, id)
      <4>1. /\ tab[t].pc = "fetch" /\ bytes # None /\ UNCHANGED <<artifacts, counters>>
            /\ tab'[t].wants = id /\ tab'[t].bytes = bytes /\ tab'[t].pc = "write"
            /\ Len(tab'[t].writes) = Length(bytes)
        BY <3>6 DEF Fetched
      <4>2. id = s.build
        BY <3>2, <4>1 DEF Dealing
      <4>3. Named(id, counters)
        BY <3>1, <3>2, <4>2 DEF Sized
      <4>4. id \in DOMAIN artifacts /\ bytes = artifacts[id]
        BY <1>1, <4>1, <4>3, Found, IdsAreNotNone
      <4>. HIDE DEF bytes
      <4>5. s.length = Length(bytes)
        BY <3>1, <3>2, <4>2, <4>4 DEF Sized
      <4>6. StillNames(z.build, tab'[t].bytes, counters', artifacts')
        BY <3>1, <4>1, <4>2, <4>3, <4>4 DEF StillNames, Named, Issued
      <4>. QED
        BY <1>5, <3>1, <3>3, <4>1, <4>2, <4>5, <4>6 DEF OneBuild, StillNames
    <3>. QED
      BY <1>3, <1>7, <3>4, <3>5, <3>6 DEF TabDeals
  <2>. QED
    BY <2>2, <2>3
<1>. QED
  BY <1>6, <1>7

LEMMA StartsOnBuilds == WebInit => DInv
<1>. SUFFICES ASSUME WebInit, WInv PROVE DInv
  BY StartsLanded
<1>. QED
  BY DEF WebInit, BuilderInit, DInv, OneBuild, Sized, Idle, Closed

LEMMA DStepKeeps ==
  ASSUME DInv, [WebNext]_vars PROVE DInv'
<1>1. WInv'
  BY WStepKeeps DEF DInv
<1>2. DOMAIN sessions' = Requests
  BY SessionMoves DEF DInv, WInv, PInv
<1>3. \A t \in Requests : OneBuild(t)'
  BY OneBuildStays
<1>. QED
  BY <1>1, <1>2, <1>3 DEF DInv

LEMMA AlwaysDInv == WebSpec => []DInv
BY StartsOnBuilds, DStepKeeps, PTL DEF WebSpec

\* Whatever other tabs build, select and evict between the rent of a session and
\* its last chunk, and whenever sessions expire: a tab writes the very bytes its
\* session was sized for, and fills the buffer exactly.
THEOREM DeploysTheSizedBuild == WebSpec => []DeploysOneBuild
<1>1. DInv => DeploysOneBuild
  BY DEF DInv, OneBuild, StillNames, Sized, DeploysOneBuild, WritesSessionBuild, SizedForItsBuild
<1>. QED
  BY <1>1, AlwaysDInv, PTL

-----------------------------------------------------------------------------
(* A session lives for its time, and no longer.                            *)

Records == [example : Examples, build : Examples \X Nat, length : Nat, createdAt : Nat]

Answered(t) ==
  req[t].pc = "built" => req[t].example \in Examples /\ req[t].bytes.version \in Versions

SInv ==
  /\ DInv
  /\ clock \in Nat
  /\ \A t \in Requests : Answered(t) /\ (sessions[t] # None => sessions[t] \in Records)

LEMMA AnsweredStays ==
  ASSUME SInv, [WebNext]_vars, NEW t \in Requests PROVE Answered(t)'
<1>1. /\ KInv /\ Answered(t) /\ DOMAIN req = Requests /\ DOMAIN req[t] = RequestFields
      /\ DOMAIN sessions = Requests
  BY DEF SInv, DInv, WInv, PInv, KInv, Shaped, Request
<1>2. SessionDeals(t)
  BY <1>1, SessionMoves
<1>3. CASE req'[t] = req[t] \/ req'[t].pc # "built"
  BY <1>1, <1>3 DEF Answered
<1>4. CASE Record(t)
  <2>1. req'[t].example = req[t].example /\ req'[t].bytes = req[t].bytes
    BY <1>1, <1>4 DEF Record, RequestFields
  <2>2. req[t].example \in Examples /\ Compiled(req[t].bytes, req[t].example)
    BY <1>4 DEF Record, SInv, DInv, WInv, PInv, KInv, Shaped, Request
  <2>. QED
    BY <2>1, <2>2 DEF Compiled, Answered
<1>5. CASE Asked(t) /\ req'[t] # req[t]
  <2>1. PICK e \in Examples, f \in Examples : \E id \in Issued(f) : RequestExisting(t, e, id)
    BY <1>5 DEF Asked
  <2>2. PICK id \in Issued(f) : RequestExisting(t, e, id)
    BY <2>1
  <2>. DEFINE bytes == LookupArtifact(e, id)
              r == [Idle EXCEPT !.pc = "built", !.example = e, !.id = id, !.bytes = bytes]
  <2>3. bytes # None /\ req' = [req EXCEPT ![t] = r]
    BY <1>1, <1>5, <2>2 DEF RequestExisting
  <2>4. r.example = e /\ r.bytes = bytes
    BY DEF Idle
  <2>5. bytes.version \in Versions
    BY <2>3, Found DEF SInv, DInv, WInv, Versioned
  <2>. HIDE DEF r, bytes
  <2>6. req'[t].example = e /\ req'[t].bytes = bytes
    BY <1>1, <2>3, <2>4
  <2>. QED
    BY <2>5, <2>6 DEF Answered
<1>. QED
  BY <1>2, <1>3, <1>4, <1>5 DEF SessionDeals

LEMMA CreatesRecord ==
  ASSUME SInv, NEW t \in Requests, CreateSession(t)
  PROVE  sessions'[t] \in Records /\ sessions'[t] # None
<1>1. /\ req[t].example \in Examples /\ req[t].bytes.version \in Versions
      /\ Named(req[t].id, counters) /\ clock \in Nat
  BY DEF SInv, Answered, DInv, OneBuild, StillNames, CreateSession
<1>2. req[t].id \in Examples \X Nat
  <2>1. counters \in [Examples -> Nat]
    BY DEF SInv, DInv, WInv, PInv, KInv, Shaped
  <2>. QED
    BY <1>1, <2>1 DEF Named
<1>3. SessionLength(req[t]) \in Nat
  BY <1>1, WebDeployAssumption DEF SessionLength, Length
<1>4. sessions'[t] = [example |-> req[t].example, build |-> req[t].id,
                      length |-> SessionLength(req[t]), createdAt |-> clock]
  BY SweptSessions DEF CreateSession
<1>5. sessions'[t] \in Records
  BY <1>1, <1>2, <1>3, <1>4 DEF Records
<1>. QED
  BY <1>5, WebDeployAssumption DEF Records

LEMMA StoreSteps ==
  ASSUME [WebNext]_vars
  PROVE  /\ UNCHANGED clock \/ Tick
         /\ \/ UNCHANGED sessions \/ sessions' = Swept
            \/ \E u \in Requests : CreateSession(u)
<1>1. ASSUME NEW t \in Requests,
             \/ \E e \in Examples : RequestFresh(t, e)
             \/ \E e, f \in Examples : \E id \in Issued(f) : RequestExisting(t, e, id)
             \/ RefuseSession(t)
      PROVE  UNCHANGED <<clock, sessions>>
  BY <1>1 DEF RequestFresh, RequestExisting, RefuseSession
<1>2. ASSUME NEW t \in Requests, CreateBufferTx(t) \/ DeployTx(t)
      PROVE  UNCHANGED clock /\ sessions' = Swept
  BY <1>2 DEF CreateBufferTx, DeployTx, WithSession
<1>3. ASSUME NEW t \in Requests,
             \/ FetchArtifact(t) \/ SendBatch(t) \/ BatchConfirmed(t)
             \/ SubmitDeploy(t) \/ Abort(t) \/ Close(t) \/ Ledger(t)
      PROVE  UNCHANGED <<clock, sessions>>
  BY <1>3 DEF FetchArtifact, SendBatch, BatchConfirmed, SubmitDeploy, Abort, Close, Ledger
<1>4. ASSUME NEW t \in Requests, CreateSession(t) PROVE UNCHANGED clock
  BY <1>4 DEF CreateSession
<1>5. UNCHANGED vars => UNCHANGED <<clock, sessions>>
  BY DEF vars
<1>6. Tick => UNCHANGED sessions
  BY DEF Tick
<1>. QED
  BY <1>1, <1>2, <1>3, <1>4, <1>5, <1>6 DEF WebNext, TabStep

LEMMA AlwaysSInv == WebSpec => []SInv
<1>1. WebInit => SInv
  <2>. SUFFICES ASSUME WebInit, DInv PROVE SInv
    BY StartsOnBuilds
  <2>. QED
    BY DEF WebInit, BuilderInit, SInv, Answered, Idle
<1>2. SInv /\ [WebNext]_vars => SInv'
  <2>. SUFFICES ASSUME SInv, [WebNext]_vars PROVE SInv'
    OBVIOUS
  <2>1. DInv'
    BY DStepKeeps DEF SInv
  <2>2. clock' \in Nat
    <3>1. UNCHANGED clock \/ Tick
      BY StoreSteps
    <3>. QED
      BY <3>1 DEF SInv, Tick
  <2>3. ASSUME NEW t \in Requests, sessions'[t] # None PROVE sessions'[t] \in Records
    <3>1. CreateSession(t) \/ sessions'[t] \in {sessions[t], None}
      BY SessionMoves DEF SInv, DInv, WInv, PInv, SessionDeals
    <3>. QED
      BY <2>3, <3>1, CreatesRecord DEF SInv
  <2>. QED
    BY <2>1, <2>2, <2>3, AnsweredStays DEF SInv
<1>. QED
  BY <1>1, <1>2, PTL DEF WebSpec

\* What a step may do to the session of t: it stays, or it is too old.
LEMMA SweepsTheOld ==
  ASSUME SInv, [WebNext]_vars, NEW t \in Requests, sessions[t] # None, sessions'[t] = None
  PROVE  clock > sessions[t].createdAt + SessionTTL
<1>1. \A u \in Requests : CreateSession(u) => sessions'[u] # None
  BY CreatesRecord
<1>2. ASSUME Swept[t] = None PROVE Expired(sessions[t])
  BY <1>2 DEF Swept
<1>3. ASSUME sessions' = Swept PROVE Expired(sessions[t])
  BY <1>2, <1>3
<1>4. ASSUME NEW u \in Requests, CreateSession(u) PROVE Expired(sessions[t])
  <2>1. u # t
    BY <1>1, <1>4
  <2>2. sessions'[t] = Swept[t]
    BY <1>4, <2>1, SweptSessions DEF CreateSession
  <2>. QED
    BY <1>2, <2>2
<1>5. \/ UNCHANGED sessions \/ sessions' = Swept
      \/ \E u \in Requests : CreateSession(u)
  BY StoreSteps
<1>6. Expired(sessions[t])
  BY <1>3, <1>4, <1>5
<1>7. sessions[t].createdAt \in Nat /\ clock \in Nat /\ SessionTTL \in Nat
  BY WebDeployAssumption DEF SInv, Records
<1>. QED
  BY <1>6, <1>7 DEF Expired

LEMMA ServesTheYoung ==
  ASSUME SInv, [WebNext]_vars, NEW t \in Requests,
         tab[t].pc = "write", tab'[t].pc = "finalize"
  PROVE  clock <= sessions[t].createdAt + SessionTTL
<1>1. DOMAIN tab = Requests /\ DOMAIN tab[t] = TabFields
  BY DEF SInv, DInv, WInv, Landed
<1>2. UNCHANGED tab \/ \E u \in Requests : TabStep(u) \/ Ledger(u)
  BY DEF WebNext, Tick, vars
<1>3. TabStep(t) \/ Ledger(t)
  <2>1. ASSUME NEW u \in Requests, u # t, TabStep(u) \/ Ledger(u) PROVE tab'[t] = tab[t]
    <3>1. PICK x : OneTab(u, x)
      BY <2>1, TabMoves DEF SInv, DInv
    <3>. QED
      BY <1>1, <2>1, <3>1 DEF OneTab
  <2>. QED
    BY <1>2, <2>1
<1>4. DeployTx(t)
  <2>1. ASSUME NEW l, tab' = GoTab(t, l) PROVE l = "finalize"
    BY <1>1, <2>1 DEF GoTab, TabFields
  <2>2. ~SendBatch(t) /\ ~Ledger(t)
    BY <1>1 DEF SendBatch, Ledger, TabFields
  <2>3. ~Abort(t)
    BY <2>1 DEF Abort
  <2>. QED
    BY <1>3, <2>2, <2>3 DEF TabStep, RequestFresh, RequestExisting, CreateSession, RefuseSession,
       CreateBufferTx, FetchArtifact, BatchConfirmed, SubmitDeploy, Close
<1>5. Swept[t] # None
  BY <1>1, <1>4 DEF DeployTx, WithSession, GoTab, TabFields
<1>6. sessions[t] # None /\ ~Expired(sessions[t])
  BY <1>5 DEF Swept
<1>7. sessions[t].createdAt \in Nat /\ clock \in Nat /\ SessionTTL \in Nat
  BY <1>6, WebDeployAssumption DEF SInv, Records
<1>. QED
  BY <1>6, <1>7 DEF Expired

\* The keys of a session are handed out for sessionTTL and never longer, and no
\* request of another tab sweeps a session that is still alive.
THEOREM SessionsLiveTheirTime == WebSpec => ServesLiveSessions
<1>1. SInv /\ [WebNext]_vars =>
        [\A t \in Requests :
           /\ tab[t].pc = "write" /\ tab'[t].pc = "finalize" =>
                clock <= sessions[t].createdAt + SessionTTL
           /\ sessions[t] # None /\ sessions'[t] = None =>
                clock > sessions[t].createdAt + SessionTTL]_vars
  BY SweepsTheOld, ServesTheYoung
<1>. QED
  BY <1>1, AlwaysSInv, PTL DEF WebSpec, ServesLiveSessions
=============================================================================
