------------------------------- MODULE Deploy -------------------------------
(***************************************************************************)
(* deploy.Program, deploy.ResumeProgram and deploy.Upgrade running against *)
(* a cluster through svmtest.Client.  Every RPC is a step of its own, so   *)
(* that other runs and the cluster act between any two of them.            *)
(*                                                                         *)
(* Client state, per run r:                                                *)
(*   pc      the RPC the run makes next                                    *)
(*   at      the transaction it is submitting or waiting for               *)
(*   need    the lamports it asks of the payer (computed from an earlier   *)
(*           read of the buffer)                                           *)
(*   result  Result: SubmittedSignatures, Signatures, Finalized; every     *)
(*           append to Signatures is followed by emit of its Stage         *)
(*   sent    history: the transactions handed to sendTransaction           *)
(*                                                                         *)
(* Cluster state (external):                                               *)
(*   pool    transactions that may still land                              *)
(*   fork    the ledger above the last finalized slot: entries with the    *)
(*           outcome and the bank they lead to                             *)
(*   voted   length of the prefix of fork that is confirmed                *)
(*   rooted  the finalized bank                                            *)
(*   final   finalized transactions with their outcome                     *)
(*                                                                         *)
(* Faults says what may go wrong:                                          *)
(*   "crash"   a client process dies and its Result with it                *)
(*   "timeout" ctx expires or an RPC read fails for good                   *)
(*   "lost"    sendTransaction returns an error, delivered or not          *)
(*   "expire"  a submitted transaction never lands                         *)
(*   "fork"    a suffix of the ledger that is not finalized is abandoned,  *)
(*             confirmed slots included                                    *)
(*   "fail"    a transaction fails for a reason outside the model (fees,   *)
(*             the loader's ELF verifier)                                  *)
(***************************************************************************)
EXTENDS Loader

CONSTANTS
  Called,  \* which of the Runs are called: the sets of them to choose from
  Faults,  \* the faults of this instance
  MaxFork  \* bound: transactions in the ledger above the finalized slot

FaultNames == {"crash", "timeout", "lost", "expire", "fork", "fail"}

ASSUME DeployAssumption ==
  Called \subseteq SUBSET Runs /\ Faults \subseteq FaultNames /\ MaxFork \in Nat

VARIABLES pc, at, need, result, sent, pool, fork, voted, rooted, final

clientVars == <<pc, at, need, result, sent>>
clusterVars == <<pool, fork, voted, rooted, final>>
vars == <<pc, at, need, result, sent, pool, fork, voted, rooted, final>>

Active ==
  {"prepare", "inspectBuffer", "inspectProgramData", "balance", "submit",
   "wait", "checkpoint", "readback", "verifyProgram", "verifyProgramData"}
Ended == {"uncalled", "done", "failed", "crashed"}

Result == [submitted: Seq(Step), signatures: Seq(Step), finalized: BOOLEAN]
NoResult == [submitted |-> <<>>, signatures |-> <<>>, finalized |-> FALSE]

Entry == [tx: Tx, ok: BOOLEAN, bank: Bank]

TypeOK ==
  /\ pc \in [Runs -> Active \cup Ended]
  /\ at \in [Runs -> Step]
  /\ need \in [Runs -> Nat]
  /\ result \in [Runs -> Result]
  /\ sent \in [Runs -> Seq(Step)]
  /\ pool \subseteq Tx
  /\ fork \in Seq(Entry)
  /\ voted \in 0..Len(fork)
  /\ rooted \in Bank
  /\ final \subseteq [tx: Tx, ok: BOOLEAN]

Init ==
  /\ \E called \in Called :
       pc = [r \in Runs |-> IF r \in called THEN "prepare" ELSE "uncalled"]
  /\ at = [r \in Runs |-> IF Cfg[r].kind = "resume" THEN WriteStep(0) ELSE CreateStep]
  /\ need = [r \in Runs |-> 0]
  /\ result = [r \in Runs |-> NoResult]
  /\ sent = [r \in Runs |-> <<>>]
  /\ pool = {}
  /\ fork = <<>>
  /\ voted = 0
  /\ \E lamports \in PayerFunds : rooted = EmptyBank(lamports)
  /\ final = {}

-----------------------------------------------------------------------------
(* The ledger.                                                             *)

TxOf(r) == [run |-> r, step |-> at[r]]

\* The bank a new transaction executes against.
Tip == IF fork = <<>> THEN rooted ELSE fork[Len(fork)].bank

\* getSignatureStatuses answers from the current fork and the history.
Failed(tx) ==
  \/ [tx |-> tx, ok |-> FALSE] \in final
  \/ \E i \in 1..Len(fork) : fork[i].tx = tx /\ ~fork[i].ok

Finalized(tx) == [tx |-> tx, ok |-> TRUE] \in final

Confirmed(tx) ==
  \/ Finalized(tx)
  \/ \E i \in 1..voted : fork[i].tx = tx /\ fork[i].ok

Land(tx, ok) ==
  /\ tx \in pool
  /\ Len(fork) < MaxFork
  /\ ok => CanExec(tx, Tip)
  /\ ~ok => ~CanExec(tx, Tip) \/ "fail" \in Faults
  /\ fork' = Append(fork, [tx |-> tx, ok |-> ok,
                           bank |-> IF ok THEN DoExec(tx, Tip) ELSE Tip])
  /\ pool' = pool \ {tx}
  /\ UNCHANGED <<voted, rooted, final>>
  /\ UNCHANGED clientVars

Vote ==
  /\ voted < Len(fork)
  /\ voted' = voted + 1
  /\ UNCHANGED <<pool, fork, rooted, final>>
  /\ UNCHANGED clientVars

Root ==
  /\ voted > 0
  /\ rooted' = Head(fork).bank
  /\ final' = final \cup {[tx |-> Head(fork).tx, ok |-> Head(fork).ok]}
  /\ fork' = Tail(fork)
  /\ voted' = voted - 1
  /\ UNCHANGED pool
  /\ UNCHANGED clientVars

\* The cluster switches to a fork that keeps the first k entries; what it
\* abandons may land again.
SwitchFork(k) ==
  /\ "fork" \in Faults
  /\ k < Len(fork)
  /\ pool' = pool \cup {fork[i].tx : i \in (k + 1)..Len(fork)}
  /\ fork' = SubSeq(fork, 1, k)
  /\ voted' = Min2(voted, k)
  /\ UNCHANGED <<rooted, final>>
  /\ UNCHANGED clientVars

\* The blockhash of a transaction is too old, or the network lost it.
Expire(tx) ==
  /\ "expire" \in Faults
  /\ tx \in pool
  /\ pool' = pool \ {tx}
  /\ UNCHANGED <<fork, voted, rooted, final>>
  /\ UNCHANGED clientVars

-----------------------------------------------------------------------------
(* The client.                                                             *)

Goto(r, label) == pc' = [pc EXCEPT ![r] = label]

\* The SubmittedSignatures of r once the call for at[r] has returned.
Recorded(r) == Append(result[r].submitted, at[r])

ValidConfig(r) == Cfg[r].kind = "upgrade" \/ MaxDataLen(r) >= Len0(r)

\* Mutant: a deploy does not ask whether the program exists.
PrepareOverExisting(r) ==
  /\ pc[r] = "prepare"
  /\ CASE ~ValidConfig(r) -> Goto(r, "failed") /\ UNCHANGED need
       [] ValidConfig(r) /\ Cfg[r].kind = "upgrade" ->
            /\ Goto(r, IF rooted.prog = NoAccount THEN "failed" ELSE "inspectProgramData")
            /\ need' = [need EXCEPT ![r] = BufferRent[Len0(r)]]
       [] ValidConfig(r) /\ Cfg[r].kind = "program" ->
            /\ Goto(r, "balance")
            /\ need' = [need EXCEPT ![r] = DataRent[MaxDataLen(r)] + ProgramRent]
       [] ValidConfig(r) /\ Cfg[r].kind = "resume" ->
            /\ Goto(r, "inspectBuffer")
            /\ UNCHANGED need
  /\ UNCHANGED <<at, result, sent>>
  /\ UNCHANGED clusterVars

\* prepare and the head of prepareUpgrade: the program account must be absent
\* for a deploy and present for an upgrade, at finalized commitment.
Prepare(r) ==
  /\ pc[r] = "prepare"
  /\ CASE ~ValidConfig(r) -> Goto(r, "failed") /\ UNCHANGED need
       [] ValidConfig(r) /\ Cfg[r].kind = "upgrade" ->
            /\ Goto(r, IF rooted.prog = NoAccount THEN "failed" ELSE "inspectProgramData")
            /\ need' = [need EXCEPT ![r] = BufferRent[Len0(r)]]
       [] ValidConfig(r) /\ Cfg[r].kind = "program" ->
            /\ Goto(r, IF rooted.prog # NoAccount THEN "failed" ELSE "balance")
            /\ need' = [need EXCEPT ![r] = DataRent[MaxDataLen(r)] + ProgramRent]
       [] ValidConfig(r) /\ Cfg[r].kind = "resume" ->
            /\ Goto(r, IF rooted.prog # NoAccount THEN "failed" ELSE "inspectBuffer")
            /\ UNCHANGED need
  /\ UNCHANGED <<at, result, sent>>
  /\ UNCHANGED clusterVars

\* validateBuffer on the finalized buffer account.
ValidBuffer(r, buffer) ==
  /\ buffer # NoAccount
  /\ buffer.authority = Cfg[r].authority
  /\ Len(buffer.data) = Len0(r)

\* Mutant: the lamports the buffer already holds are not looked at.
ResumeNeedProgramOnly(r, buffer) == ProgramRent

\* Mutant: the shortfall is subtracted without asking whether there is one.
ResumeNeedUnguarded(r, buffer) ==
  ProgramRent + DataRent[MaxDataLen(r)] - buffer.lamports

\* What a resumed deploy still needs: the program account and what the buffer
\* lacks of the ProgramData rent.
ResumeNeed(r, buffer) ==
  ProgramRent + (IF buffer.lamports < DataRent[MaxDataLen(r)]
                 THEN DataRent[MaxDataLen(r)] - buffer.lamports ELSE 0)

InspectBuffer(r) ==
  LET buffer == rooted.buf[Cfg[r].buffer] IN
    /\ pc[r] = "inspectBuffer"
    /\ \/ /\ ~ValidBuffer(r, buffer)
          /\ Goto(r, "failed")
          /\ UNCHANGED need
       \/ /\ ValidBuffer(r, buffer)
          /\ need' = [need EXCEPT ![r] = ResumeNeed(r, buffer)]
          /\ Goto(r, "balance")
    /\ UNCHANGED <<at, result, sent>>
    /\ UNCHANGED clusterVars

\* Mutant: the allocated capacity is not compared.
CanBeUpgradedByAnySize(r, prog) ==
  /\ prog # NoAccount
  /\ prog.authority = Cfg[r].authority

\* The rest of prepareUpgrade: authority and capacity of ProgramData.
CanBeUpgradedBy(r, prog) ==
  /\ prog # NoAccount
  /\ prog.authority = Cfg[r].authority
  /\ Len0(r) <= Len(prog.data)

InspectProgramData(r) ==
  /\ pc[r] = "inspectProgramData"
  /\ Goto(r, IF CanBeUpgradedBy(r, rooted.prog) THEN "balance" ELSE "failed")
  /\ UNCHANGED <<at, need, result, sent>>
  /\ UNCHANGED clusterVars

CheckBalance(r) ==
  /\ pc[r] = "balance"
  /\ Goto(r, IF rooted.payer < need[r] THEN "failed" ELSE "submit")
  /\ UNCHANGED <<at, need, result, sent>>
  /\ UNCHANGED clusterVars

\* sendInstructionsUntil up to the answer of sendTransaction: the RPC node
\* accepted the transaction.
Submit(r) ==
  /\ pc[r] = "submit"
  /\ sent' = [sent EXCEPT ![r] = Append(@, at[r])]
  /\ pool' = pool \cup {TxOf(r)}
  /\ Goto(r, "wait")
  /\ UNCHANGED <<at, need, result>>
  /\ UNCHANGED <<fork, voted, rooted, final>>

\* Mutant: the signature of an ambiguous submit is thrown away.
SubmitUnrecorded(r, delivered) ==
  /\ "lost" \in Faults
  /\ pc[r] = "submit"
  /\ sent' = [sent EXCEPT ![r] = Append(@, at[r])]
  /\ pool' = IF delivered THEN pool \cup {TxOf(r)} ELSE pool
  /\ Goto(r, "failed")
  /\ UNCHANGED <<at, need, result>>
  /\ UNCHANGED <<fork, voted, rooted, final>>

\* sendTransaction returned an error or a wrong signature: the transaction may
\* or may not have been delivered.  It is recorded and never resent.
SubmitAmbiguous(r, delivered) ==
  /\ "lost" \in Faults
  /\ pc[r] = "submit"
  /\ sent' = [sent EXCEPT ![r] = Append(@, at[r])]
  /\ pool' = IF delivered THEN pool \cup {TxOf(r)} ELSE pool
  /\ result' = [result EXCEPT ![r].submitted = Recorded(r)]
  /\ Goto(r, "failed")
  /\ UNCHANGED <<at, need>>
  /\ UNCHANGED <<fork, voted, rooted, final>>

\* Mutant: every transaction is only waited for until it is confirmed.
SettledConfirmed(r) == Confirmed(TxOf(r))

\* The commitment the run waits for: buffer writes only for confirmed.
Settled(r) ==
  IF at[r].op = "write" THEN Confirmed(TxOf(r)) ELSE Finalized(TxOf(r))

IsFinal(s) == s.op # "write"

\* waitForCommitment succeeded.
Settle(r) ==
  /\ pc[r] = "wait"
  /\ Settled(r)
  /\ LET next == at[r].offset + Cfg[r].chunk IN
       CASE at[r].op = "create" ->
              /\ at' = [at EXCEPT ![r] = WriteStep(0)]
              /\ Goto(r, "submit")
         [] at[r].op = "write" /\ next < Len0(r) ->
              /\ at' = [at EXCEPT ![r] = WriteStep(next)]
              /\ Goto(r, "submit")
         [] at[r].op = "write" /\ next >= Len0(r) ->
              /\ Goto(r, "checkpoint")
              /\ UNCHANGED at
         [] at[r].op = "final" ->
              /\ Goto(r, IF Cfg[r].kind = "upgrade" THEN "verifyProgramData" ELSE "verifyProgram")
              /\ UNCHANGED at
  /\ result' = [result EXCEPT
                  ![r].submitted = Recorded(r),
                  ![r].signatures = IF IsFinal(at[r]) THEN Append(@, at[r]) ELSE @]
  /\ UNCHANGED <<need, sent>>
  /\ UNCHANGED clusterVars

\* waitForCommitment saw an error status, at whatever commitment.
SettleFailed(r) ==
  /\ pc[r] = "wait"
  /\ Failed(TxOf(r))
  /\ result' = [result EXCEPT ![r].submitted = Recorded(r)]
  /\ Goto(r, "failed")
  /\ UNCHANGED <<at, need, sent>>
  /\ UNCHANGED clusterVars

\* WaitForFinalized on the last write; it fails if that write's status is an error.
Checkpoint(r) ==
  /\ pc[r] = "checkpoint"
  /\ \/ Finalized(TxOf(r)) /\ Goto(r, "readback")
     \/ Failed(TxOf(r)) /\ Goto(r, "failed")
  /\ UNCHANGED <<at, need, result, sent>>
  /\ UNCHANGED clusterVars

\* pendingWrites: what was submitted after the buffer was created, if this run
\* created it.
PendingWrites(r) ==
  IF Cfg[r].kind = "resume" THEN result[r].submitted ELSE Tail(result[r].submitted)

\* Mutant: only the metadata of the buffer is read back.
HoldsMetadata(r, buffer) == ValidBuffer(r, buffer)

Holds(r, buffer) == ValidBuffer(r, buffer) /\ buffer.data = Image(r, Len0(r))

\* The finalized buffer is read back and compared with the artifact; only then
\* are the writes recorded as final.
ReadBack(r) ==
  /\ pc[r] = "readback"
  /\ \/ /\ ~Holds(r, rooted.buf[Cfg[r].buffer])
        /\ Goto(r, "failed")
        /\ UNCHANGED <<at, result>>
     \/ /\ Holds(r, rooted.buf[Cfg[r].buffer])
        /\ result' = [result EXCEPT ![r].signatures = @ \o PendingWrites(r)]
        /\ at' = [at EXCEPT ![r] = FinalStep]
        /\ Goto(r, "submit")
  /\ UNCHANGED <<need, sent>>
  /\ UNCHANGED clusterVars

\* verifyFinalDeployment, first read: the program account.
VerifyProgram(r) ==
  /\ pc[r] = "verifyProgram"
  /\ Goto(r, IF rooted.prog = NoAccount THEN "failed" ELSE "verifyProgramData")
  /\ UNCHANGED <<at, need, result, sent>>
  /\ UNCHANGED clusterVars

\* Mutant: the payload is not compared with the artifact.
DeployedMetadata(r, prog) ==
  /\ prog # NoAccount
  /\ prog.authority = Cfg[r].authority
  /\ Cfg[r].kind # "upgrade" => Len(prog.data) = MaxDataLen(r)
  /\ Len(prog.data) >= Len0(r)

\* verifyFinalDeployment's second read and verifyUpgradeDeployment.
Deployed(r, prog) ==
  /\ prog # NoAccount
  /\ prog.authority = Cfg[r].authority
  /\ Cfg[r].kind # "upgrade" => Len(prog.data) = MaxDataLen(r)
  /\ Len(prog.data) >= Len0(r)
  /\ prog.data = Image(r, Len(prog.data))

VerifyProgramData(r) ==
  /\ pc[r] = "verifyProgramData"
  /\ \/ /\ ~Deployed(r, rooted.prog)
        /\ Goto(r, "failed")
        /\ UNCHANGED result
     \/ /\ Deployed(r, rooted.prog)
        /\ result' = [result EXCEPT ![r].finalized = TRUE]
        /\ Goto(r, "done")
  /\ UNCHANGED <<at, need, sent>>
  /\ UNCHANGED clusterVars

\* ctx expired, or an RPC failed in a way that is not retried.  A transaction
\* being waited for is recorded; one not yet handed over is not.
GiveUp(r) ==
  /\ "timeout" \in Faults
  /\ pc[r] \in Active
  /\ result' = IF pc[r] = "wait" THEN [result EXCEPT ![r].submitted = Recorded(r)] ELSE result
  /\ Goto(r, "failed")
  /\ UNCHANGED <<at, need, sent>>
  /\ UNCHANGED clusterVars

\* The process dies: Result is an in-memory record.
Crash(r) ==
  /\ "crash" \in Faults
  /\ pc[r] \in Active
  /\ result' = [result EXCEPT ![r] = NoResult]
  /\ Goto(r, "crashed")
  /\ UNCHANGED <<at, need, sent>>
  /\ UNCHANGED clusterVars

RunStep(r) ==
  \/ Prepare(r) \/ InspectBuffer(r) \/ InspectProgramData(r) \/ CheckBalance(r)
  \/ Submit(r) \/ Settle(r) \/ SettleFailed(r) \/ Checkpoint(r) \/ ReadBack(r)
  \/ VerifyProgram(r) \/ VerifyProgramData(r)

Disturb(r) ==
  \/ \E delivered \in BOOLEAN : SubmitAmbiguous(r, delivered)
  \/ GiveUp(r)
  \/ Crash(r)

Ledger ==
  \/ \E tx \in pool, ok \in BOOLEAN : Land(tx, ok)
  \/ Vote
  \/ Root

\* Every run has returned and nothing is left to land.
Quiet ==
  /\ \A r \in Runs : pc[r] \in Ended
  /\ pool = {}
  /\ fork = <<>>
  /\ UNCHANGED vars

Next ==
  \/ \E r \in Runs : RunStep(r) \/ Disturb(r)
  \/ Ledger
  \/ \E k \in 0..MaxFork : SwitchFork(k)
  \/ \E tx \in pool : Expire(tx)
  \/ Quiet

Spec == Init /\ [][Next]_vars

\* The client keeps polling and the cluster keeps producing, voting on and
\* rooting blocks.
FairSpec ==
  /\ Spec
  /\ \A r \in Runs : WF_vars(RunStep(r))
  /\ WF_vars(\E tx \in pool, ok \in BOOLEAN : Land(tx, ok))
  /\ WF_vars(Vote)
  /\ WF_vars(Root)

-----------------------------------------------------------------------------
(* Properties.                                                             *)

\* The banks of the ledger: the finalized one and those above it.
Banks == {rooted} \cup {fork[i].bank : i \in 1..Len(fork)}

\* Every run that uses the buffer of r writes the artifact of r.
SameArtifact(r) ==
  \A q \in Runs : pc[q] # "uncalled" /\ Cfg[q].buffer = Cfg[r].buffer => Elf(q) = Elf(r)

\* "SubmittedSignatures includes every locally identified transaction handed
\* to RPC, including ambiguous outcomes": once a call has returned, whatever
\* its outcome, the record of a live process is exactly what was handed over.
RecordComplete ==
  \A r \in Runs : pc[r] # "crashed" =>
    sent[r] = result[r].submitted \o (IF pc[r] = "wait" THEN <<at[r]>> ELSE <<>>)

\* "A submitted transaction is never automatically resent": no run hands the
\* same create, write or final transaction to RPC twice, ambiguous or not.
NeverResent ==
  \A r \in Runs : \A i, j \in 1..Len(sent[r]) : i # j => sent[r][i] # sent[r][j]

\* Whatever its outcome, a call leaves a record of exactly its transactions, each
\* handed to RPC once.
RecordedOnce == RecordComplete /\ NeverResent

\* The create and final signatures of Result.Signatures are finalized and
\* successful, and a run that is about to submit its final transaction had all
\* of its artifact in the finalized buffer, however writes were reordered,
\* dropped by a fork or landed late: in every bank of the ledger the buffer is
\* gone or holds the artifact.
EvidenceIsFinal ==
  \A r \in Runs :
    /\ \A i \in 1..Len(result[r].signatures) :
         result[r].signatures[i].op # "write" =>
           Finalized([run |-> r, step |-> result[r].signatures[i]])
    /\ pc[r] = "submit" /\ at[r] = FinalStep /\ SameArtifact(r) =>
         \A b \in Banks :
           LET buffer == b.buf[Cfg[r].buffer] IN
              buffer = NoAccount \/ buffer.data = Image(r, Len0(r))

\* What the final transaction of a run installs is its artifact and zero
\* padding, on every fork, unless another run writes something else into the
\* same buffer: the read-back before the irreversible deploy is enough.
DeployedIntact ==
  \A b \in Banks :
    b.prog # NoAccount /\ SameArtifact(b.prog.by) =>
      b.prog.data = Image(b.prog.by, Len(b.prog.data))

\* Result.Finalized is true only if the final transaction of the run is
\* finalized and what it installed is the artifact, even when another run
\* wrote a different artifact into the same buffer between the read-back and
\* the deploy.
FinalizedMeansDeployed ==
  \A r \in Runs : result[r].finalized =>
    /\ Finalized([run |-> r, step |-> FinalStep])
    /\ rooted.prog # NoAccount
    /\ rooted.prog.by = r => rooted.prog.data = Image(r, Len(rooted.prog.data))

\* "Existing-program deploy still fails closed": a deploy or resume called once a
\* program is finalized never hands anything to RPC.
LateDeploysSendNothing ==
  \A r \in Runs : Cfg[r].kind # "upgrade" =>
    [](pc[r] = "prepare" /\ rooted.prog # NoAccount => [](sent[r] = <<>>))

\* What the client checked before it paid for a buffer is all the loader asks of
\* that buffer and of the program at the final transaction: in every bank that
\* still holds the buffer, on whatever fork and whatever other runs wrote or
\* deployed meanwhile, an upgrade executes, and a deploy is not refused for the
\* authority or the length of its buffer.
FinalsFit ==
  \A r \in Runs : pc[r] = "submit" /\ at[r] = FinalStep =>
    \A b \in Banks :
      LET buffer == b.buf[Cfg[r].buffer] IN
        buffer # NoAccount =>
          IF Cfg[r].kind = "upgrade" THEN CanUpgrade(r, b)
          ELSE buffer.authority = Cfg[r].authority /\ Len(buffer.data) <= MaxDataLen(r)

\* The checks of the client fail closed: a call that comes too late sends nothing,
\* and one that passed its checks is not refused for what they looked at.
ChecksFailClosed == LateDeploysSendNothing /\ []FinalsFit

\* "This is checked client-side before any transaction is sent": an upgrade of
\* a live program by another authority, or to an artifact that does not fit the
\* allocation, hands nothing to RPC, whenever it started.
RefusedUpgradesSendNothing ==
  \A r \in Runs :
    /\ Cfg[r].kind = "upgrade"
    /\ rooted.prog # NoAccount
    /\ rooted.prog.authority # Cfg[r].authority \/ Len0(r) > Len(rooted.prog.data)
    => sent[r] = <<>>

\* A run that may spend alone: no other run has handed over a transaction that
\* draws on the payer, except the creation of the buffer r resumes.
SpendsAlone(r) ==
  \A q \in Runs \ {r} : \A i \in 1..Len(sent[q]) :
    \/ sent[q][i].op = "write"
    \/ sent[q][i].op = "create" /\ q = Cfg[r].buffer

\* The balance check is sufficient: a deploy that passed it, and whose payer
\* nobody else draws on, can pay for the program and ProgramData accounts when
\* it reaches its final transaction (the create transaction spent in between).
FundsSuffice ==
  \A r \in Runs :
    /\ Cfg[r].kind # "upgrade"
    /\ pc[r] = "submit" /\ at[r] = FinalStep
    /\ SpendsAlone(r)
    /\ rooted.buf[Cfg[r].buffer] # NoAccount
    => /\ rooted.payer >= ProgramRent
       /\ rooted.payer - ProgramRent + rooted.buf[Cfg[r].buffer].lamports
            >= DataRent[MaxDataLen(r)]

\* Without faults a deploy with a valid Config and enough lamports ends with
\* Finalized, unless an upgrade replaced the code before it was verified: the
\* chunk loop covers the artifact and every wait is answered.
DeployCompletes ==
  \A r \in Runs : Cfg[r].kind = "program" =>
    <>(\/ result[r].finalized
       \/ rooted.prog # NoAccount /\ rooted.prog.by # r)

\* Without faults an upgrade of a finalized program that passes its checks ends
\* with Finalized.
UpgradeCompletes ==
  \A r \in Runs : Cfg[r].kind = "upgrade" =>
    (pc[r] = "submit") ~> result[r].finalized

\* Without faults every call that may succeed does.
CallsComplete == DeployCompletes /\ UpgradeCompletes
=============================================================================
