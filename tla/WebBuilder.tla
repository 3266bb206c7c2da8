----------------------------- MODULE WebBuilder -----------------------------
(***************************************************************************)
(* web.Builder: concurrent Build calls of HTTP requests over a source tree *)
(* that is edited meanwhile.  A Build reads the sources to hash them, looks*)
(* the hash up in the cache under the mutex, and on a miss compiles, which *)
(* reads the sources again; only the last part, which records the build,   *)
(* holds the mutex.  The sources of an example are one version, an         *)
(* artifact is the example and the version it was compiled from.           *)
(***************************************************************************)
EXTENDS Naturals, Sequences, FiniteSets

CONSTANTS
  Examples,    \* registered examples
  Versions,    \* contents the sources of an example may have
  Broken,      \* versions that do not compile
  Requests,    \* concurrent HTTP requests
  EditsRace,   \* whether sources may be edited between the hash and the compile
  MaxHistory,  \* maxBuildHistory
  MaxBuilds,   \* bound: builds recorded for one example
  None         \* absence of a cache entry, a request's id, ...

ASSUME WebBuilderAssumption ==
  /\ Broken \subseteq Versions
  /\ EditsRace \in BOOLEAN
  /\ MaxHistory \in Nat \ {0}
  /\ MaxBuilds \in Nat
  /\ None \notin Examples \X Nat

VARIABLES
  source,     \* the files on disk, by example
  lastBytes,  \* example -> last compiled artifact [example, version] and its hash
  history,    \* example -> records, oldest first
  artifacts,  \* build id (example, number) -> artifact [example, version]
  counters,   \* example -> last build number
  req         \* request -> where its Build call is

builderVars == <<source, lastBytes, history, artifacts, counters, req>>

Idle == [pc |-> "idle", example |-> None, hash |-> None, bytes |-> None, id |-> None]

BuilderInit ==
  /\ source \in [Examples -> Versions]
  /\ lastBytes = [e \in Examples |-> None]
  /\ history = [e \in Examples |-> <<>>]
  /\ artifacts = [id \in {} |-> None]
  /\ counters = [e \in Examples |-> 0]
  /\ req = [q \in Requests |-> Idle]

-----------------------------------------------------------------------------

\* The user edits the sources of e.
Edit(e, v) ==
  /\ EditsRace \/ \A q \in Requests : req[q].example = e => req[q].pc \notin {"lookup", "compile"}
  /\ v # source[e]
  /\ source' = [source EXCEPT ![e] = v]
  /\ UNCHANGED <<lastBytes, history, artifacts, counters, req>>

Running(e) ==
  {q \in Requests : req[q].example = e /\ req[q].pc \in {"lookup", "compile", "record"}}

\* Build reads every source and hashes it.
StartBuild(q, e) ==
  /\ req[q].pc = "idle"
  /\ counters[e] + Cardinality(Running(e)) < MaxBuilds
  /\ req' = [req EXCEPT ![q] = [Idle EXCEPT !.pc = "lookup", !.example = e, !.hash = source[e]]]
  /\ UNCHANGED <<source, lastBytes, history, artifacts, counters>>

Hit(q) ==
  LET cached == lastBytes[req[q].example] IN cached # None /\ cached.hash = req[q].hash

\* The cache is read under the mutex, which is then released.
Lookup(q) ==
  /\ req[q].pc = "lookup"
  /\ req' = [req EXCEPT ![q] =
       IF Hit(q) THEN [@ EXCEPT !.pc = "record", !.bytes = lastBytes[req[q].example].bytes]
                 ELSE [@ EXCEPT !.pc = "compile"]]
  /\ UNCHANGED <<source, lastBytes, history, artifacts, counters>>

\* CompileFiles reads the sources again.
Compile(q) ==
  /\ req[q].pc = "compile"
  /\ LET e == req[q].example IN
       req' = IF source[e] \in Broken THEN [req EXCEPT ![q].pc = "failed"]
              ELSE [req EXCEPT ![q].pc = "record",
                               ![q].bytes = [example |-> e, version |-> source[e]]]
  /\ UNCHANGED <<source, lastBytes, history, artifacts, counters>>

Without(f, id) == [i \in DOMAIN f \ {id} |-> f[i]]

\* Mutant: the artifact of the record that leaves the history is kept.
EvictRecordOnly(records, bytes) ==
  IF Len(records) > MaxHistory THEN <<Tail(records), bytes>> ELSE <<records, bytes>>

\* Past maxBuildHistory the oldest record leaves the history with its artifact.
Evict(records, bytes) ==
  IF Len(records) > MaxHistory
  THEN <<Tail(records), Without(bytes, Head(records).id)>>
  ELSE <<records, bytes>>

\* Mutant: the numbers of evicted builds are given out again.
NextNumberBySlot(e) == (counters[e] % MaxHistory) + 1

NextNumber(e) == counters[e] + 1

\* The part of Build that holds the mutex to the end.
Record(q) ==
  LET e == req[q].example
      id == <<e, NextNumber(e)>>
      record == [id |-> id, source |-> req[q].hash, bytes |-> req[q].bytes]
      all == [i \in DOMAIN artifacts \cup {id} |-> IF i = id THEN req[q].bytes ELSE artifacts[i]]
      kept == Evict(Append(history[e], record), all)
  IN
    /\ req[q].pc = "record"
    /\ lastBytes' = [lastBytes EXCEPT ![e] = [hash |-> req[q].hash, bytes |-> req[q].bytes]]
    /\ counters' = [counters EXCEPT ![e] = @ + 1]
    /\ history' = [history EXCEPT ![e] = kept[1]]
    /\ artifacts' = kept[2]
    /\ req' = [req EXCEPT ![q].pc = "built", ![q].id = id]
    /\ UNCHANGED source

\* The handler of POST .../build answers.
Answer(q) ==
  /\ req[q].pc \in {"built", "failed"}
  /\ req' = [req EXCEPT ![q] = Idle]
  /\ UNCHANGED <<source, lastBytes, history, artifacts, counters>>

\* Builder.Artifact(exampleID, buildID): None stands for the empty build id
\* and for ErrBuildNotFound.
LookupArtifact(e, buildId) ==
  LET id == IF buildId # None THEN buildId
            ELSE IF history[e] = <<>> THEN None ELSE history[e][Len(history[e])].id
  IN IF id \in DOMAIN artifacts THEN artifacts[id] ELSE None

BuildStep(q) == Lookup(q) \/ Compile(q) \/ Record(q)

BuilderNext ==
  \/ \E e \in Examples, v \in Versions : Edit(e, v)
  \/ \E q \in Requests, e \in Examples : StartBuild(q, e)
  \/ \E q \in Requests : BuildStep(q) \/ Answer(q)

BuilderSpec == BuilderInit /\ [][BuilderNext]_builderVars

-----------------------------------------------------------------------------
(* Properties.                                                             *)

Ids(e) == {history[e][i].id : i \in 1..Len(history[e])}

\* "A local dev server clicking Build in a loop should never grow unbounded":
\* however Build calls overlap, the artifacts held are exactly those of the
\* histories, no history exceeds its limit, and every record of the history is
\* still deployable with the bytes it was recorded with.
ArtifactsFollowHistory ==
  /\ DOMAIN artifacts = UNION {Ids(e) : e \in Examples}
  /\ \A e \in Examples :
       /\ Len(history[e]) <= MaxHistory
       /\ \A i \in 1..Len(history[e]) : artifacts[history[e][i].id] = history[e][i].bytes

\* "Every call to Build records a new, distinct BuildRecord": a build id never
\* names other bytes than those it was first recorded with, also after it was
\* evicted, so that a client holding an id never gets another artifact for it.
IdsNameOneBuild ==
  [][/\ \A id \in DOMAIN artifacts \cap DOMAIN artifacts' : artifacts'[id] = artifacts[id]
     /\ \A e \in Examples : counters'[e] # counters[e] =>
          history'[e][Len(history'[e])].id[2] > counters[e]]_builderVars

\* What is recorded or cached under a source hash was compiled from that
\* source, as long as no source is edited under a running Build.
BytesMatchSource ==
  /\ \A e \in Examples : \A i \in 1..Len(history[e]) :
       history[e][i].bytes = [example |-> e, version |-> history[e][i].source]
  /\ \A e \in Examples : lastBytes[e] # None =>
       lastBytes[e].bytes = [example |-> e, version |-> lastBytes[e].hash]

\* However Build calls overlap, what a build id serves is what was recorded under
\* it, and that was compiled from the source it names.
BuildsAreKept == ArtifactsFollowHistory /\ BytesMatchSource

\* "Recompiling is skipped whenever the source hasn't changed since the last
\* compile, reusing those bytes": a Build that skips the compiler takes the bytes
\* of the source it has just hashed.
ReuseOnlyUnchanged ==
  [][\A q \in Requests :
       req[q].pc = "lookup" /\ req'[q].pc = "record" =>
         req'[q].bytes = [example |-> req[q].example, version |-> req[q].hash]]_builderVars

Registry == INSTANCE BuildRegistry WITH
  Sources <- Versions \ Broken, Window <- MaxHistory,
  published <- counters, served <- artifacts

\* "Every call to Build records a new, distinct BuildRecord ... selectable and
\* deployable independently": overlapping Build calls look to clients like builds
\* published one at a time.  An id never names other bytes than those it was
\* first recorded with, also after it was evicted, and is served for exactly
\* maxBuildHistory builds.
PublishesBuilds == Registry!RegistrySpec
=============================================================================
