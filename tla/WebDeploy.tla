------------------------------ MODULE WebDeploy ------------------------------
(***************************************************************************)
(* The wallet-signed deploy of the browser builder: deployExample of       *)
(* static/app.js in several tabs, the session endpoints of web/server.go   *)
(* with the session store, and the Builder they draw artifacts from        *)
(* (module WebBuilder, whose requests are the tabs).  A tab runs one       *)
(* deploy at a time; its session is known by the tab.  An artifact is      *)
(* Chunks[version] chunks long; what the ledger did to each Write is kept  *)
(* per tab.                                                                *)
(***************************************************************************)
EXTENDS WebBuilder

CONSTANTS
  Chunks,     \* version -> length of its artifact, in write chunks
  BatchSize,  \* WRITE_BATCH_SIZE, in chunks
  SessionTTL, \* sessionTTL, in ticks
  MaxTime     \* bound: ticks of the clock

ASSUME WebDeployAssumption ==
  /\ Chunks \in [Versions -> Nat \ {0}]
  /\ BatchSize \in Nat \ {0}
  /\ SessionTTL \in Nat /\ MaxTime \in Nat
  /\ None \notin [example : Examples, build : Examples \X Nat, length : Nat, createdAt : Nat]

VARIABLES
  clock,    \* ticks since the server started
  sessions, \* session store: tab -> [example, build, length, createdAt], or None
  tab       \* tab -> where its deployExample is

vars == <<source, lastBytes, history, artifacts, counters, req, clock, sessions, tab>>

\* A write of a tab is unsent, sent, or confirmed: its confirmation has resolved.
Closed == [pc |-> "closed", example |-> None, wants |-> None, bytes |-> None, next |-> 0, writes |-> <<>>]

Length(bytes) == Chunks[bytes.version]

WebInit ==
  /\ BuilderInit
  /\ clock = 0
  /\ sessions = [t \in Requests |-> None]
  /\ tab = [t \in Requests |-> Closed]

-----------------------------------------------------------------------------
(* Session store.                                                          *)

\* Mutant: nothing is ever swept.
NeverExpired(s) == FALSE

\* createdAt.Before(now - sessionTTL)
Expired(s) == s.createdAt + SessionTTL < clock

\* create and get drop every expired session before they look.
Swept == [t \in Requests |->
            IF sessions[t] # None /\ Expired(sessions[t]) THEN None ELSE sessions[t]]

Tick ==
  /\ clock < MaxTime
  /\ clock' = clock + 1
  /\ UNCHANGED <<sessions, tab>>
  /\ UNCHANGED builderVars

GoTab(t, label) == [tab EXCEPT ![t].pc = label]

-----------------------------------------------------------------------------
(* POST /api/deploy/session.                                               *)

\* Ids a client may hold: those issued so far, evicted ones included.
Issued(e) == {e} \X (1..counters[e])

\* With a buildId, maybe of another example: Artifact looks it up in the map
\* shared by all examples; its length sizes the session.
RequestExisting(t, e, id) ==
  /\ tab[t].pc = "closed"
  /\ req[t].pc = "idle"
  /\ tab' = [tab EXCEPT ![t].pc = IF LookupArtifact(e, id) = None THEN "failed" ELSE "opening",
                        ![t].example = e, ![t].wants = id]
  /\ req' = IF LookupArtifact(e, id) = None THEN req
            ELSE [req EXCEPT ![t] = [Idle EXCEPT !.pc = "built", !.example = e, !.id = id,
                                                 !.bytes = LookupArtifact(e, id)]]
  /\ UNCHANGED <<source, lastBytes, history, artifacts, counters, clock, sessions>>

\* Without one: Build runs, step by step.
RequestFresh(t, e) ==
  /\ tab[t].pc = "closed"
  /\ StartBuild(t, e)
  /\ tab' = [tab EXCEPT ![t].pc = "opening", ![t].example = e]
  /\ UNCHANGED <<clock, sessions>>

SessionLength(q) == Length(q.bytes)

\* sessions.create and the answer to the tab.
CreateSession(t) ==
  /\ tab[t].pc = "opening"
  /\ req[t].pc = "built"
  /\ sessions' = [Swept EXCEPT ![t] = [example |-> req[t].example, build |-> req[t].id,
                                       length |-> SessionLength(req[t]), createdAt |-> clock]]
  /\ tab' = [tab EXCEPT ![t].pc = "open", ![t].wants = req[t].id]
  /\ req' = [req EXCEPT ![t] = Idle]
  /\ UNCHANGED <<source, lastBytes, history, artifacts, counters, clock>>

\* The Build failed: the request is refused.
RefuseSession(t) ==
  /\ tab[t].pc = "opening"
  /\ req[t].pc = "failed"
  /\ tab' = GoTab(t, "failed")
  /\ req' = [req EXCEPT ![t] = Idle]
  /\ UNCHANGED <<source, lastBytes, history, artifacts, counters, clock, sessions>>

-----------------------------------------------------------------------------
(* The rest of deployExample.                                              *)

\* A handler that needs the session gets it, or answers 404 and the tab fails.
WithSession(t, label) ==
  /\ sessions' = Swept
  /\ tab' = GoTab(t, IF Swept[t] = None THEN "failed" ELSE label)
  /\ UNCHANGED clock
  /\ UNCHANGED builderVars

\* POST .../create-buffer-tx; the wallet signs and the create confirms.
CreateBufferTx(t) == tab[t].pc = "open" /\ WithSession(t, "fetch")

\* Mutant: the latest build is fetched instead of the session's.
WantedLatest(t) == None

Wanted(t) == tab[t].wants

\* GET .../artifact?buildId=: the same build the session was sized for.
FetchArtifact(t) ==
  /\ tab[t].pc = "fetch"
  /\ LET bytes == LookupArtifact(tab[t].example, Wanted(t)) IN
       tab' = IF bytes = None THEN GoTab(t, "failed")
              ELSE [tab EXCEPT ![t].pc = "write", ![t].bytes = bytes,
                               ![t].writes = [i \in 1..Length(bytes) |-> "unsent"]]
  /\ UNCHANGED <<clock, sessions>>
  /\ UNCHANGED builderVars

\* Chunks of the batch that starts after the first n.
Batch(t, n) == {i \in 1..Len(tab[t].writes) : n < i /\ i <= n + BatchSize}

\* All writes of a batch are signed and sent at once.
SendBatch(t) ==
  /\ tab[t].pc = "write"
  /\ tab[t].next < Len(tab[t].writes)
  /\ tab' = [tab EXCEPT
       ![t].pc = "landing",
       ![t].writes = [i \in DOMAIN @ |-> IF i \in Batch(t, tab[t].next) THEN "sent" ELSE @[i]]]
  /\ UNCHANGED <<clock, sessions>>
  /\ UNCHANGED builderVars

\* confirmTransaction resolves once the write is confirmed, also when the
\* transaction failed: nothing looks at the status it resolves with.
Seen == {"confirmed"}

\* Chunks written once the batch is over.
AfterBatch(t) ==
  LET n == tab[t].next + BatchSize
  IN IF n < Len(tab[t].writes) THEN n ELSE Len(tab[t].writes)

\* Mutant: the loop goes on without waiting for the batch.
BatchSent(t) ==
  /\ tab[t].pc = "landing"
  /\ tab' = [tab EXCEPT ![t].next = AfterBatch(t), ![t].pc = "write"]
  /\ UNCHANGED <<clock, sessions>>
  /\ UNCHANGED builderVars

BatchConfirmed(t) ==
  /\ tab[t].pc = "landing"
  /\ \A i \in Batch(t, tab[t].next) : tab[t].writes[i] \in Seen
  /\ tab' = [tab EXCEPT ![t].next = AfterBatch(t), ![t].pc = "write"]
  /\ UNCHANGED <<clock, sessions>>
  /\ UNCHANGED builderVars

\* POST .../deploy-tx once the loop over the batches is over.
DeployTx(t) ==
  /\ tab[t].pc = "write"
  /\ tab[t].next = Len(tab[t].writes)
  /\ WithSession(t, "finalize")

\* The wallet signs, the transaction is sent and confirmed.
SubmitDeploy(t) ==
  /\ tab[t].pc = "finalize"
  /\ tab' = GoTab(t, "deployed")
  /\ UNCHANGED <<clock, sessions>>
  /\ UNCHANGED builderVars

\* The wallet refuses, a blockhash expires, an RPC call fails for good.
Abort(t) ==
  /\ tab[t].pc \in {"open", "fetch", "write", "landing", "finalize"}
  /\ tab' = GoTab(t, "failed")
  /\ UNCHANGED <<clock, sessions>>
  /\ UNCHANGED builderVars

\* The user clicks Deploy again.
Close(t) ==
  /\ tab[t].pc \in {"deployed", "failed"}
  /\ tab' = [tab EXCEPT ![t] = Closed]
  /\ UNCHANGED <<clock, sessions>>
  /\ UNCHANGED builderVars

\* The confirmation (external) of one write of a tab that is still deploying resolves.
Ledger(t) ==
  /\ tab[t].pc \notin {"deployed", "failed"}
  /\ \E i \in 1..Len(tab[t].writes) :
       /\ tab[t].writes[i] = "sent"
       /\ tab' = [tab EXCEPT ![t].writes[i] = "confirmed"]
  /\ UNCHANGED <<clock, sessions>>
  /\ UNCHANGED builderVars

\* Steps of the Builder that do not belong to a session request.
Builds(t) ==
  \/ \E e \in Examples : tab[t].pc = "closed" /\ StartBuild(t, e)
  \/ BuildStep(t)
  \/ tab[t].pc = "closed" /\ Answer(t)

TabStep(t) ==
  \/ \E e \in Examples : RequestFresh(t, e)
  \/ \E e, f \in Examples : \E id \in Issued(f) : RequestExisting(t, e, id)
  \/ CreateSession(t) \/ RefuseSession(t) \/ CreateBufferTx(t) \/ FetchArtifact(t)
  \/ SendBatch(t) \/ BatchConfirmed(t) \/ DeployTx(t) \/ SubmitDeploy(t)
  \/ Abort(t) \/ Close(t)

WebNext ==
  \/ Tick
  \/ \E e \in Examples, v \in Versions : Edit(e, v) /\ UNCHANGED <<clock, sessions, tab>>
  \/ \E t \in Requests :
       \/ Builds(t) /\ UNCHANGED <<clock, sessions, tab>>
       \/ TabStep(t)
       \/ Ledger(t)

WebSpec == WebInit /\ [][WebNext]_vars

-----------------------------------------------------------------------------
(* Properties.                                                             *)

\* "Must be the exact same build the session above sized rent/buffers for": the
\* chunks a tab writes are those of the build its session names, and fill the
\* buffer exactly, whatever other tabs build, evict or select meanwhile.
WritesSessionBuild ==
  \A t \in Requests :
    tab[t].pc \in {"write", "landing", "finalize"} /\ sessions[t] # None =>
      /\ Len(tab[t].writes) = sessions[t].length
      /\ sessions[t].build \in DOMAIN artifacts => tab[t].bytes = artifacts[sessions[t].build]

\* The rent and the buffer of a session are those of the artifact it will be
\* served, for as long as that artifact can be served.
SizedForItsBuild ==
  \A t \in Requests :
    sessions[t] # None /\ sessions[t].build \in DOMAIN artifacts =>
      sessions[t].length = Length(artifacts[sessions[t].build])

\* A deploy is about one build from the rent of its session to its last chunk.
DeploysOneBuild == WritesSessionBuild /\ SizedForItsBuild

\* The deploy transaction is only prepared after the loop over the batches has
\* sent every chunk and seen the confirmation of each resolve, with whatever
\* status: no chunk is skipped at a batch boundary, none is still in flight.
EveryChunkLanded ==
  \A t \in Requests :
    /\ tab[t].next <= Len(tab[t].writes)
    /\ tab[t].pc \in {"finalize", "deployed"} => \A i \in 1..Len(tab[t].writes) : tab[t].writes[i] \in Seen

\* A session whose keys are handed out again was created at most sessionTTL ago,
\* and a sweep by another tab's request does not keep or drop the wrong one: the
\* store never serves an expired session and never loses a live one.
ServesLiveSessions ==
  [][\A t \in Requests :
       /\ tab[t].pc = "write" /\ tab'[t].pc = "finalize" =>
            clock <= sessions[t].createdAt + SessionTTL
       /\ sessions[t] # None /\ sessions'[t] = None =>
            clock > sessions[t].createdAt + SessionTTL]_vars
=============================================================================
