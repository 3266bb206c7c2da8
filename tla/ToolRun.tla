------------------------------ MODULE ToolRun ------------------------------
(* One run of a command line tool against a chain.                           *)
(*                                                                           *)
(* Every transaction goes through svmtest.Client.SendInstructions, which     *)
(* submits once and waits until it is finalized, and is entered in the       *)
(* journal the command prints when it ends.  The reply to a submission may   *)
(* be lost, a status may report an error on a fork that is then abandoned,   *)
(* reads may time out, the context may expire, and the process may die; what *)
(* was submitted may still be executed after the command has ended.          *)
(*                                                                           *)
(* At most one transaction of a run is not yet finalized, because the next   *)
(* one is only sent when it is: `flight' counts its copies that may still be *)
(* executed.                                                                 *)
EXTENDS Tools

CONSTANTS
  CommandLines,    \* the command lines of the instance
  Purses,          \* lamports a payer may start with
  VerifyRetries,   \* verifyRetryCount
  InvokeAttempts,  \* attempts of LocalValidator.Invoke
  Recipients       \* how many recipients there are accounts for

\* The flags of the commands, parsed, and who owns the token account.
CommandLine ==
  [tool : {"gospl-init", "hellogo-init", "erc1155-init", "token2022-init",
           "token2022-init-multisend", "token2022-nft-init", "name-store", "invoke"},
   flags : SUBSET {"raw", "ui"}, raw : Nat,
   text : [whole : Seq(0..9), fraction : Seq(0..9)], decimals : Nat,
   url : {"loopback", "devnet", "other"}, live : BOOLEAN, owner : {"payer", "other"},
   metadata : BOOLEAN, atomic : BOOLEAN, recipients : 0..Recipients, liquidity : Nat,
   royalty : Nat, name : Nat, immutable : BOOLEAN]

\* An amount is a number, however it was given.
ASSUME ToolRunAssumption ==
  /\ Recipients \in Nat
  /\ Purses \subseteq Nat
  /\ CommandLines \subseteq CommandLine
  /\ \A c \in CommandLines : RawAmount(c) \in Nat

Accounts == {Mint, Token, Collection, TokenType, Metadata, Edition, Storage, Program}
            \cup {Recipient(i) : i \in 1..Recipients}

VARIABLES
  line,     \* the command line
  phase,    \* what the command is doing, or how it ended
  todo,     \* the steps of its plan that are left
  tries,    \* attempts of the current step
  expired,  \* the deadline of its context has passed
  journal,  \* SubmittedSignatures and NonFinalizedSignatures, by stage
  events,   \* progress events written
  purse,    \* lamports of the payer
  chain,    \* accounts at finalized commitment
  flight,   \* copies of the current transaction that may still be executed
  erred,    \* a fork shows an error status for it
  executed, \* stages whose transaction was finalized
  meddled   \* somebody else has used the payer's or an owner's key

command == <<phase, todo, tries, journal, events>>
world == <<purse, chain, flight, erred, executed, meddled>>
vars == <<line, command, expired, world>>

Step == Head(todo)
At(op) == phase = "step" /\ todo # <<>> /\ Step.op = op
Ended == phase \in {"failed", "verified", "crashed"}
Reports == line.tool \in Reporting

\* What the name-store command may find: nothing, its account, one of another
\* size, or one of another program.
StorageStates == {Absent, Account("storage", "payer", 0), Account("short", "payer", 0),
                  Account("foreign", "other", 0)}

Init ==
  /\ line \in CommandLines
  /\ phase = "start"
  /\ todo = Plan(line)
  /\ tries = 1
  /\ expired = FALSE
  /\ journal = [finalized |-> {}, ambiguous |-> {}]
  /\ events = {}
  /\ purse \in Purses
  /\ \E storage \in IF line.tool = "name-store" THEN StorageStates ELSE {Absent} :
       chain = [a \in Accounts |->
                  CASE a = Program -> Account("program", "nobody", 0)
                    [] a = Storage -> storage
                    [] OTHER -> Absent]
  /\ flight = 0
  /\ erred = FALSE
  /\ executed = {}
  /\ meddled = FALSE

-----------------------------------------------------------------------------
(* The command.                                                              *)

Goes(where) == phase' = where /\ UNCHANGED todo /\ tries' = 1
Advance == phase' = "step" /\ todo' = Tail(todo) /\ tries' = 1
Fail == Goes("failed")

\* A bad command line, or a cluster that does not answer or has no program.
Refuse ==
  /\ phase = "start"
  /\ Refuses(line) \/ line.tool # "invoke"
  /\ Fail
  /\ UNCHANGED <<line, journal, events, expired, world>>

\* The plan is written before anything is sent; a writer that fails ends the run.
Start ==
  /\ phase = "start"
  /\ ~Refuses(line)
  /\ \/ Goes("planned") /\ events' = IF Reports THEN events \cup {<<"planned", 0>>} ELSE events
     \/ Reports /\ Fail /\ UNCHANGED events
  /\ UNCHANGED <<line, journal, expired, world>>

\* Balance is compared once with what the whole plan needs.
CanPay == ~expired /\ Needs(line) < U64 /\ purse >= Needs(line)

\* The generated addresses must be unused; rents and the balance are read.
CheckFunds ==
  /\ phase = "planned"
  /\ \/ (line.tool \in Budgeted => CanPay) /\ Goes("step")
     \/ line.tool \in Budgeted /\ Fail
  /\ UNCHANGED <<line, journal, events, expired, world>>

Journaled(stage) == journal' = [journal EXCEPT !.ambiguous = @ \cup {stage}]

\* No blockhash: nothing was signed, nothing is recorded.
NotBuilt ==
  /\ At("send")
  /\ Fail
  /\ UNCHANGED <<line, journal, events, expired, world>>

\* The preflight simulation refuses the transaction, which is not forwarded.
\* The caller cannot tell and journals the local signature.
PreflightRefused ==
  /\ At("send")
  /\ Journaled(Step.stage)
  /\ Fail
  /\ \/ UNCHANGED events
     \/ Reports /\ events' = events \cup {<<"non_finalized", Step.stage>>}
  /\ UNCHANGED <<line, expired, world>>

\* The one answer that is sent again: a preloaded program is not visible yet.
\* When the attempts or the context end, Invoke returns no signature.
InvisibleProgram ==
  /\ At("send") /\ line.tool = "invoke"
  /\ \/ tries < InvokeAttempts /\ ~expired /\ tries' = tries + 1 /\ UNCHANGED <<phase, todo>>
     \/ (tries = InvokeAttempts \/ expired) /\ Fail
  /\ UNCHANGED <<line, journal, events, expired, world>>

\* A lost reply is taken for a transaction that was not sent.
SubmitUnknownForgotten ==
  /\ At("send") /\ ~expired
  /\ flight' = flight + 1
  /\ Fail
  /\ UNCHANGED <<line, journal, events, expired, purse, chain, erred, executed, meddled>>

\* The reply is lost, empty or names another signature: never sent again.
SubmitUnknown ==
  /\ At("send") /\ ~expired
  /\ flight' = flight + 1
  /\ Journaled(Step.stage)
  /\ Fail
  /\ \/ UNCHANGED events
     \/ Reports /\ events' = events \cup {<<"non_finalized", Step.stage>>}
  /\ UNCHANGED <<line, expired, purse, chain, erred, executed, meddled>>

Submit ==
  /\ At("send") /\ ~expired
  /\ flight' = flight + 1
  /\ Goes("await")
  /\ UNCHANGED <<line, journal, events, expired, purse, chain, erred, executed, meddled>>

\* A wait that nothing but an answer ends.
GiveUpOnError ==
  /\ phase = "await"
  /\ erred
  /\ Journaled(Step.stage)
  /\ Fail
  /\ UNCHANGED <<line, events, expired, world>>

\* An error status at any commitment ends the wait, and so does the deadline.
GiveUp ==
  /\ phase = "await"
  /\ erred \/ expired
  /\ Journaled(Step.stage)
  /\ Fail
  /\ \/ UNCHANGED events
     \/ Reports /\ events' = events \cup {<<"non_finalized", Step.stage>>}
  /\ UNCHANGED <<line, expired, world>>

\* A progress event that cannot be written ends the run after it is journalled.
Confirm ==
  /\ phase = "await"
  /\ Step.stage \in executed
  /\ journal' = [journal EXCEPT !.finalized = @ \cup {Step.stage}]
  /\ \/ Advance /\ events' = IF Reports THEN events \cup {<<"finalized", Step.stage>>} ELSE events
     \/ Reports /\ Fail /\ UNCHANGED events
  /\ UNCHANGED <<line, expired, purse, chain, flight, erred, executed, meddled>>

\* Reads of finalized state between the transactions.
IsWanted(step) == chain[step.account] = step.want

Verified ==
  /\ At("verify") /\ ~expired
  /\ IsWanted(Step)
  /\ Advance
  /\ UNCHANGED <<line, journal, events, expired, world>>

\* Another state than the wanted one, an unreadable account, or the deadline.
Differs ==
  /\ At("verify") \/ At("find") \/ At("show")
  /\ Fail
  /\ UNCHANGED <<line, journal, events, expired, world>>

\* Only reads are tried again, and only after a timeout.
ReadAgain ==
  /\ At("verify") /\ Step.patient
  /\ tries < VerifyRetries /\ ~expired
  /\ tries' = tries + 1
  /\ UNCHANGED <<line, phase, todo, journal, events, expired, world>>

\* An account that exists is used as it is, if the right program owns it.
Find ==
  /\ At("find") /\ ~expired
  /\ \/ /\ chain[Step.account] = Absent
        /\ Advance
     \/ /\ chain[Step.account].kind \in Step.kinds
        /\ phase' = "step" /\ todo' = Tail(Tail(todo)) /\ tries' = 1
  /\ UNCHANGED <<line, journal, events, expired, world>>

\* The names are printed as they are stored, whatever they are.
ShowStored ==
  /\ At("show") /\ ~expired
  /\ chain[Step.account] # Absent
  /\ Advance
  /\ UNCHANGED <<line, journal, events, expired, world>>

\* Every answer of the liquidity endpoint is an error.
ProbeLiquidity ==
  /\ At("probe")
  /\ Fail
  /\ UNCHANGED <<line, journal, events, expired, world>>

\* The report says so now; an event that cannot be written still ends the run
\* with an error.
Finish ==
  /\ phase = "step" /\ todo = <<>>
  /\ \/ Goes("verified") /\ events' = IF Reports THEN events \cup {<<"verified", 0>>} ELSE events
     \/ Reports /\ Fail /\ UNCHANGED events
  /\ UNCHANGED <<line, journal, expired, world>>

-----------------------------------------------------------------------------
(* The world.                                                                *)

Deadline ==
  /\ ~expired
  /\ expired' = TRUE
  /\ UNCHANGED <<line, command, world>>

Crash ==
  /\ ~Ended
  /\ phase' = "crashed"
  /\ UNCHANGED <<line, todo, tries, journal, events, expired, world>>

\* The transaction is executed in a block that becomes final.
Execute ==
  /\ flight > 0
  /\ Succeeds(Step, chain) /\ purse >= Cost(Step, chain)
  /\ chain' = After(Step, chain)
  /\ purse' = purse - Cost(Step, chain)
  /\ executed' = executed \cup {Step.stage}
  /\ flight' = flight - 1
  /\ erred' = FALSE
  /\ UNCHANGED <<line, command, expired, meddled>>

\* It fails on a fork, for good or not.
ErrOnFork ==
  /\ flight > 0 /\ ~erred
  /\ erred' = TRUE
  /\ flight' \in {flight - 1, flight}
  /\ UNCHANGED <<line, command, expired, purse, chain, executed, meddled>>

\* It was never delivered, or its blockhash expires.
Vanish ==
  /\ flight > 0
  /\ flight' = flight - 1
  /\ UNCHANGED <<line, command, expired, purse, chain, erred, executed, meddled>>

\* Somebody else with the payer's key spends lamports or mints, or the owner of
\* a token account moves what it holds.  Once per run.
Meddle ==
  /\ ~meddled /\ ~Ended /\ meddled' = TRUE
  /\ \/ purse > 0 /\ purse' = 0 /\ UNCHANGED chain
     \/ /\ chain[Supply(line)].authority = "payer"
        /\ chain' = [chain EXCEPT ![Supply(line)].amount = @ + 1]
        /\ UNCHANGED purse
     \/ \E a \in Accounts :
          /\ chain[a].kind \in {"token", "token+"} /\ chain[a].amount > 0
          /\ chain' = [chain EXCEPT ![a].amount = 0]
          /\ UNCHANGED purse
  /\ UNCHANGED <<line, command, expired, flight, erred, executed>>

Runs ==
  \/ Refuse \/ Start \/ CheckFunds
  \/ NotBuilt \/ PreflightRefused \/ InvisibleProgram \/ SubmitUnknown \/ Submit
  \/ GiveUp \/ Confirm
  \/ Verified \/ Differs \/ ReadAgain \/ Find \/ ShowStored \/ ProbeLiquidity
  \/ Finish

Next == Runs \/ Deadline \/ Crash \/ Execute \/ ErrOnFork \/ Vanish \/ Meddle

\* The tool runs as long as it can, and the context it made expires.
Spec == Init /\ [][Next]_vars /\ WF_vars(Runs) /\ WF_vars(Deadline)
-----------------------------------------------------------------------------
(* Properties.                                                               *)

\* What may have an effect: executed, or still to be.
MayLand == executed \cup (IF flight > 0 THEN {Step.stage} ELSE {})

Journaling == line.tool # "name-store"

\* The journal a command prints when it ends names every transaction that was
\* or may still be executed, and calls finalized only what is
\* (SubmittedSignatures and NonFinalizedSignatures, whatever reply was lost).
JournalIsComplete ==
  phase \in {"failed", "verified"} /\ Journaling =>
    /\ MayLand \subseteq journal.finalized \cup journal.ambiguous
    /\ journal.finalized \subseteq executed
    /\ phase = "verified" => journal.ambiguous = {}

\* gospl-init README: the addresses and the amount are written to the progress
\* journal before the first transaction; a process that dies leaves an event
\* for every transaction but the one it was waiting for.
EventsSurvive ==
  Reports =>
    /\ MayLand # {} => <<"planned", 0>> \in events
    /\ \A stage \in executed :
         \/ <<"finalized", stage>> \in events
         \/ todo # <<>> /\ Step.op = "send" /\ Step.stage = stage

JournalKept == JournalIsComplete /\ EventsSurvive

\* No retry was attempted: however replies are lost and forks abandoned, no more
\* is ever minted than asked for, and Invoke calls its program at most once.
NothingTwice ==
  /\ chain[Program].amount <= 1
  /\ ~meddled => chain[Supply(line)].amount <= Wanted(line)

\* Whatever is lost, the journal accounts for every transaction handed to RPC and
\* none of them happens twice.
SubmissionsAccounted == JournalKept /\ NothingTwice

Holdings == LET Plus(sum, i) == sum + chain[Recipient(i)].amount
            IN FoldLeft(Plus, chain[Token].amount, [i \in 1..Recipients |-> i])

\* Set when the plan is through, and printed even when its event is not written.
FinalizedAndVerified == todo = <<>> /\ phase \in {"verified", "failed"}

\* A run that reports FinalizedAndVerified has done what it was asked to: the
\* supply is the amount, somebody holds all of it, each recipient its share
\* and the sender nothing, and an NFT can never be minted again.
VerifiedIsDone ==
  FinalizedAndVerified =>
    /\ executed \subseteq journal.finalized \/ ~Journaling
    /\ line.tool \in Budgeted /\ ~meddled =>
         /\ chain[Supply(line)].amount = Wanted(line)
         /\ Holdings = Wanted(line)
         /\ line.recipients > 0 =>
              /\ chain[Token].amount = 0
              /\ \A i \in 1..line.recipients :
                   chain[Recipient(i)].amount >= Wanted(line) \div line.recipients
    /\ line.tool = "token2022-nft-init" =>
         chain[Mint].amount = 1 /\ chain[Mint].authority # "payer"
    /\ line.tool = "name-store" /\ ~meddled => chain[Storage].amount = line.name

\* AmountUI of the report reads as the amount that was asked for.
ReportsAmountAsked ==
  FinalizedAndVerified /\ "ui" \in line.flags /\ line.tool \in Budgeted =>
    LET shown == FormatUIAmount(RawAmount(line), line.decimals)
    IN /\ ParseUIAmount(shown, line.decimals).raw = RawAmount(line)
       /\ Number(shown.whole) = Number(line.text.whole)
       /\ IsPrefix(shown.fraction, line.text.fraction)

ReportIsTrue == VerifiedIsDone /\ ReportsAmountAsked

\* The balance asked for at the start covers every transaction of the plan and
\* its fees: nobody else spending, none ever fails for want of lamports, of a
\* plan with no more recipients than the five the multisend has by default.
ReserveSuffices ==
  /\ line.tool \in Budgeted /\ ~meddled /\ line.recipients <= 5
  /\ At("send") \/ (phase = "await" /\ flight > 0)
  => purse >= Cost(Step, chain)

\* Every run ends, at the latest when its context expires.
RunEnds == <>Ended
=============================================================================
