# solanago in TLA+

Specifications of `go-solana` (`src/`): a compiler from a subset of Go to sBPFv3, a reference VM
and a host runtime for Solana programs, a deploy client for the upgradeable loader, a browser
builder, and example programs with their command line tools. TLC checks them on small instances;
TLAPS proves the theorems of `DeployProofs`, `BuilderProofs`, `GosplProofs`, `ProgramProofs`,
`RuntimeProofs`, `ToolProofs` and `CompilerProofs` for every value of the constants.

## 1. Inventory

| part | source | state it keeps | operations |
|---|---|---|---|
| deploy workflow | `deploy/deploy.go` | one `Result` per call, in memory | `Program`, `ResumeProgram`, `Upgrade` |
| loader transactions | `sdk/loader/loader.go` | none; the accounts are on chain | `CreateBuffer`, `Write`, `DeployWithMaxDataLen`, `Upgrade` |
| RPC client | `svmtest/rpc.go` | none | submission, `waitForCommitment`, idempotent reads with retry |
| signing | `svmtest/transaction.go` | none | message compilation, full and partial signatures |
| validator harness | `svmtest/validator.go` | child process, `closed` | `StartLocalValidator`, `Invoke`, `Close` |
| builder | `web/build.go` | `lastBytes`, `history`, `artifacts`, `counters` under a mutex | `Build`, `History`, `Artifact` |
| session store | `web/sessions.go` | map of sessions under a mutex | `create`, `get`, sweep |
| deploy endpoints | `web/server.go`, `deploy/wallet.go` | none | build, artifact, session, two transactions |
| browser deploy | `web/static/app.js` | the state of one `deployExample` | build, session, create, writes in batches, deploy |
| interact endpoints | `web/interact_*.go` | none | account roles by schema, call transaction |
| other endpoints | `web/phonebook*.go`, `web/token2022*.go` | none | encode one transaction from a form |
| GOSPL, hellogo | `examples/gospl`, `examples/hellogo` | mints and token accounts | 8 instructions |
| SPL20 | `examples/spl20` | the same, decoded | the same, natively |
| ERC-20, ERC-1155, payable, phonebook | `examples/*/testdata/program.go` | their accounts | their instructions |
| native models | `examples/erc20`, `examples/payable` | the same, decoded | the same, natively |
| other programs | `examples/name-storage`, `cpi`, `context` | a storage account at most | one instruction each |
| initialization tools | `examples/*/cmd/*-init`, `name-store` | one journal of signatures per run | a fixed plan of transactions and verifications |
| Token-2022 tools | `examples/token2022/cmd` | the same | staged or atomic plans, multisend, NFT |
| host runtime | `runtime/` | account views, baselines, memory map | `Sync`, `ResizeData`, `TransferLamports`, `AssignOwner`, `Invoke` (CPI) |
| VM | `vm/` | registers, call frames, memory regions | one step per instruction |
| sBPF verifier | `sbpf/` | none | `ValidateProgram` |
| compiler middle and back end | `compiler/ir.go`, `registers.go`, `backend.go`, `address_lifetime.go` | none; the analysis keeps summaries and a queue | validate, assign homes, select, link, analyse |
| compiler front end, ELF, serialization, SDK | `compiler/`, `elf/`, `serialization/`, `sdk/` | none | pure functions |
| commands | `cmd/` | none | call the packages above |

**Interactions.** `cmd/go-solana` calls `deploy`, which compiles transactions with `sdk/loader` and
hands them to `svmtest.Client`; the cluster answers polls. The web server builds in process
(`compiler`, `elf`), keeps sessions that point at builds, and gives the browser two half-signed
transactions; the browser sends everything itself. Its "Use it" tab resolves the accounts of a call
by schema and has the wallet sign the message compiled from them. The tools send plans of
transactions through `svmtest.Client`, one at a time. The example programs are compiled by
`compiler`, checked by `sbpf`, run on chain and, in tests, in `vm`; `spl20` is the oracle of `gospl`,
and `erc20` and `payable` have native models of their own.

**What is hard.** The deploy client acts on a ledger that other processes change between any two
of its RPCs, that may lose, delay or abandon its transactions, and it may die at any time. It
waits for most of its writes only at the confirmed level. The builder's mutex does not span a
build, and sessions, builds and tabs outlive each other in any order. The token program's state
must stay consistent over every sequence of instructions, with aliased accounts and wrapping u64
arithmetic. The runtime keeps the same values in three places. A tool must account for every
transaction it may have sent, whatever became of it. The back end keeps a value in a register, a
spill slot or r0, and every operation must read its operands before it overwrites them, in all
combinations; the lifetime analysis is a fixed point over aliased memory. `PROJECT.json` lists the
hazards with their lines.

**What makes each part correct.**

- *Deploy*: every transaction handed over is recorded, none is sent twice, what is called final is
  final, the code installed is the artifact, an existing program is not overwritten, refused
  upgrades spend nothing, the balance check is sufficient, and a fault-free deploy completes.
- *Builder*: artifacts held are those of the bounded history, ids name one build, bytes match the
  source they are kept under.
- *Sessions and tabs*: live sessions are served and expired ones are not; a tab writes the build its
  session was sized for, all of it, before it deploys.
- *GOSPL*: tokens are conserved, changes carry the right signature, a disabled authority stays
  disabled, no account is bricked, and the oracle agrees.
- *Runtime*: a failed CPI leaves no trace, a CPI never raises privileges, lamports are conserved,
  view, storage and mapped region agree after `Sync`.
- *Programs*: supplies and totals equal the balances stored beside them, nothing is spent that was
  not granted, a contact is listed once, the native models agree.
- *Interact*: every call the page prepares gives each account the privileges its program asks for,
  and the message says what the form asked for and lacks the wallet's signature only.
- *Tools*: the journal accounts for every submission, what is reported is true, the balance asked for
  covers the plan, every run ends.
- *VM*: frames and limits are respected, no access leaves its region.
- *Compiler*: compiled programs mean what their IR means; an accepted program keeps no address of its
  stack where it outlives the frame.

## 2. Modules

| module | models | extends / instantiates |
|---|---|---|
| `Loader` | what the loader transactions of one program do to a bank | |
| `Deploy` | `deploy.go` against a cluster through `rpc.go` | EXTENDS `Loader` |
| `MCDeploy` | instances | EXTENDS `Deploy` |
| `DeployProofs` | theorems about deploys, resumes and upgrades | EXTENDS `Deploy`, TLAPS |
| `BuildRegistry` | what the builder promises: builds published one at a time | |
| `WebBuilder` | `web.Builder` under concurrent requests and edits | INSTANCE `BuildRegistry` |
| `MCWebBuilder` | instances | EXTENDS `WebBuilder` |
| `WebDeploy` | sessions, endpoints, `deployExample` in several tabs, and the builder | EXTENDS `WebBuilder` |
| `MCWebDeploy` | instances | EXTENDS `WebDeploy` |
| `BuilderProofs` | theorems about the builder, the sessions and the tabs | EXTENDS `WebDeploy`, TLAPS |
| `Gospl` | the GOSPL guest program | |
| `Spl20` | the native oracle | |
| `GosplOracle` | the guest beside the oracle | EXTENDS `Gospl`, INSTANCE `Spl20` |
| `MCGospl` | instances | EXTENDS `GosplOracle` |
| `SumProofs` | lemmas about sums over finite sets | TLAPS |
| `GosplProofs` | theorems about `Gospl` and the oracle | EXTENDS `GosplOracle`, `SumProofs` |
| `Settlement` | what an invocation promises its caller: a CPI is one step or none | |
| `Runtime` | one invocation of a program on the host runtime, and its CPIs | INSTANCE `Settlement` |
| `MCRuntime` | an instance | EXTENDS `Runtime` |
| `RuntimeProofs` | theorems about `Runtime`: rollback, memory, privileges, lamports | EXTENDS `Runtime`, `SumProofs` |
| `Checks` | the checks the example programs share | |
| `Payable`, `Erc20`, `Erc1155`, `Phonebook` | the compiled programs | EXTEND `Checks` |
| `PayableModel`, `Erc20Model` | the native models | EXTEND `Checks` |
| `Message` | compilation of instructions into a message, and how the runtime reads it | |
| `Interact` | schemas and the call handler of the "Use it" tab | EXTENDS `Message` |
| `Programs` | the programs beside their models, and what they keep | INSTANCEs of the programs and models, and `Gospl` |
| `MCPrograms` | an instance, and the calls of the tab | EXTENDS `Programs`, `Interact` |
| `ProgramProofs` | theorems about `Programs` | EXTENDS `Programs`, `SumProofs`, INSTANCE `GosplProofs` |
| `ToolPlans`, `Tools` | what the tools refuse, need and send | |
| `ToolRun` | one run of a tool against a chain | EXTENDS `Tools` |
| `MCToolRun` | the command lines | EXTENDS `ToolRun` |
| `ToolProofs` | theorems about the plans and their runs | EXTENDS `ToolRun`, `SumProofs` |
| `Sbpf` | instructions, verifier and semantics of one step | |
| `Ir` | the IR, `Validate`, and what its operations mean in Go | EXTENDS `Sbpf` |
| `Backend` | register assignment, selection, linking | EXTENDS `Ir` |
| `Lifetimes` | the analysis of stack addresses | EXTENDS `Ir` |
| `Compiler` | analysis, generation, VM run and IR evaluation, in this order | EXTENDS `Backend`, `Lifetimes` |
| `MCCompiler` | the programs that are compiled | EXTENDS `Compiler` |
| `CompilerProofs` | the theorem that runs stay in bounds | EXTENDS `Compiler`, TLAPS |

### Loader and Deploy

A *run* is one call of `Program`, `ResumeProgram` or `Upgrade`; its `Config` is a constant. All runs
work on one program account. `pc[r]` names the RPC the run makes next, so that an action is one
RPC with the code up to the next one: `Prepare` (`prepare`, head of `prepareUpgrade`),
`InspectBuffer`, `InspectProgramData`, `CheckBalance`, `Submit` / `SubmitAmbiguous`
(`sendTransaction` answered, or did not), `Settle` / `SettleFailed` (`waitForCommitment`),
`Checkpoint` and `ReadBack` (the end of `writeBufferChunks`), `VerifyProgram` and
`VerifyProgramData`. `GiveUp` is a context that expires or a read that fails for good in any of
them, `Crash` the death of the process. `result` is `Result`; `sent` is a history variable.

The cluster is external. Transactions wait in `pool`; `Land` executes one on the tip of `fork`
(the ledger above the last finalized slot) with the effect `Loader` gives it; `Vote` confirms,
`Root` finalizes, `SwitchFork` abandons a suffix, confirmed slots included; `Expire` loses a
transaction. An account read is a read of the finalized bank, as in the code. The bytes of an
artifact are abstracted to the artifact they come from, so a mixture of two artifacts, a hole and
zero padding are told apart. Rents are functions of the length; fees are not modelled ("before
fees" in the code's own message). What others may do to a program through the loader and this
repository has no call for (rotating its authority, extending or closing its data) is left out, so
that authority and capacity, once on chain, stay.

### WebBuilder and WebDeploy

A `Build` is three steps, as the mutex has it: hash (`StartBuild`), look up (`Lookup`), compile
outside the mutex (`Compile`), record under it (`Record`, with the eviction). The sources of an
example are one version; an artifact is the version it was compiled from. `EditsRace` says whether
sources may change between the hash and the compile: `stale` shows what then goes wrong, the
passing runs edit at every other moment. Like `Artifact`, a session request takes a build id of
any example.

`WebDeploy` adds one tab per request. A tab asks for a session, naming a build or not, fetches the
artifact by id, sends writes in batches, and asks for the deploy transaction. `sessions` is the
store; `create` and `get` sweep first. Per tab, a write is unsent, sent or confirmed.

`BuildRegistry` is the abstract specification of the builder: `Publish` gives a build the next number
of its example, and an id is served while it is one of the last `Window`. `PublishesBuilds` maps
`counters` to its `published` and `artifacts` to its `served`; requests, cache and histories are
internal steps.

### Gospl and Spl20

`Gospl` keeps account data as the program does (tag, flags, u64 modulo `U64`, keys). A `Process`
function is its list of checks, in the order of the code, each yielding its error code, and the
record of what it writes when all pass. Any transaction may bring any of the `Privileges`, name
any address in any role and alias them. `Spl20` is the oracle on decoded states, written from its
own source; `GosplOracle!GuestMatchesOracle` compares code and effect of every instruction in every
state.

### Runtime

An account is a record of the copies the code keeps: `view` (the fields of `AccountView`), `store`
(the same fields in the serialized input, which the guest writes), `data` with the spare bytes of
a realloc, and `region`, the mapped length under direct mapping. `direct` selects between the
contiguous input and `ParseMappedInputV1`. `Sync`, `ResizeData` and `Restored`
(`restoreAccountSnapshots`) are functions on that record, in the order of the code's assignments;
`Slots` are the instruction's accounts, duplicates included, which alias one record.

A program step is a store of the guest (`GuestOwner`, `GuestLamports`, `GuestLength`, `GuestData`)
or a call of the API (`ReadOwner`, `ReadLamports`, `WriteData`, `Resize`, `TransferLamports`,
`AssignOwner`, `Invoke`), errors included: what an API call changed before it failed stays changed.
`Invoke` syncs, validates the program's own changes (`ValidChanges`) and the privileges asked for
(`Requestable`), and takes the snapshot; while `pc = "callee"` an external executor changes
accounts, then fails, or returns and is synced. A success moves `baseline`. The executor is an
honest runtime: it stays within the metas it was given and may stop at any point, or leave an
invalid length. `ProgramReturns` and `ProgramFails` are the end of `ExecuteEntrypointWithOptions`;
the rollback there covers the contiguous input only. `Settlement` is the abstract specification:
accounts change in one step when a CPI succeeds or the program returns, as far as the program owned
them at the last settlement or was given their signature, and the sum of their lamports stays; a
failed CPI is no step. `CallsSettleAtOnce` maps the baselines, and at the end the memory, to its
`accounts`. Not modelled: stores of the guest over privilege flags and keys of the input, the
pointer and size checks of `InvokeSignedC`, return data and logs.

### The example programs, their models and the "Use it" tab

A `Process` function is two operators, as in `Gospl`: its checks, each with the code it returns, in
the order of the code, and what it writes. States are records of account data with an entry per
address; addresses of each size are a set, so that a role may be filled with any account of its
size. `Payable` makes its CPI to the System program, which may fail after the checks, and moves
lamports. The commit refuses a transaction that does not conserve them, and removes a vault left
without any: `EmergencyWithdraw` may take the rent too, and the keypair of the vault may then create
and initialize the address again (`CreateVault`), while the deposit accounts bound to it keep their
balances. History variables say what an owner approved and did not take back (`approved`,
`granted`), what an emergency withdrawal took (`drained`), and which vaults are not the first at
their address (`reused`). `PayableModel` and `Erc20Model` are written from the native sources, on
decoded states.

`Phonebook` stores and compares the 32 bytes at offset 40 of an account record, which are the
program that owns the account and not its key; `ProgramOf` is that field. Its client compares the
bytes with the owner's public key before it adds a contact and therefore always refuses; the
program itself accepts the call, and the model keeps both. Every CPI of the phonebook fails:
`WriteAccountInfo` stores the first bytes of the owner's key where the runtime expects the address of
that key. A contact is therefore added only where the fee is 0, and `Withdraw` never pays.

`Message` merges the metas of the payer, the accounts and the programs, unions the privileges of
duplicates, sorts by class and reads the header back as the runtime does. `Interact` resolves the
roles of a schema into metas and signers. `Programs` gives each program one life per behaviour and
states what the programs keep and where their models agree. The comparison of the payable program
takes wallets as depositor and recipient, since a vault that pays itself is stored differently by
the two, and the System program as the fourth account of a deposit, which the native model does not
have; the program alone is run with vaults and other accounts in these roles, too. `MCPrograms`
adds, for each state, that every call of the tab, for every instruction of five schemas, fares in
the program with the privileges the tab gives it as it would with every privilege there is: whatever
the checks refuse, it is not for a missing signature or a readonly account. That the program accepts
is another question, answered below for one form. The schemas of the name storage and CPI
programs are not compared, because these programs are not modelled on accounts.

The total of a vault equals the balances bound to its address only for the first vault there
(`FirstTotalIsBalances`); that it holds of every vault, as `types.go` says, is what `recreated` refutes.
Vaults may pay one another: the recipient of a withdrawal is any writable account, another vault of
the program included. A vault then holds more than its rent and its deposits, so that
`VaultBacksDeposits` is an inequality. It cannot pay itself: `ProcessWithdraw` stores two balances it
loaded before, the second wins, and the transaction creates lamports and fails in the runtime.

### ToolPlans, Tools and ToolRun

A command line is a record of the flags that matter. `Tools` has, for each tool, what it refuses,
the balance it needs, and its plan: a sequence of steps that send a transaction, verify an account,
probe or print progress. `ToolRun` executes one plan: `Submit` hands a transaction over and is
answered, or not; `await` polls it; verifications are retried; the journal gets an entry per
submission, and the entry leaves `NonFinalizedSignatures` when the signature is final. `flight`
counts the copies that the chain may still execute, at any later time, also after the run has ended;
`erred` is an error status seen on a fork that may be abandoned; `Meddle` is another holder of the
keys; `Deadline` the expiry of the context; `Crash` the death of the process. The event that says a
run is verified may fail to be written, and the run then ends in an error although it is done.
`invoke` is `LocalValidator.Invoke`, which submits again on one preflight error.

The repository holds two views of the associated token program. `token2022-init` and
`token2022-nft-init` budget for an account with the `ImmutableOwner` extension, and the first insists
on it ("always attaches", `token2022-init/main.go:446`); `token2022-init-multisend` budgets and
decodes the bare 165 bytes. Which of them the cluster runs is part of a command line here
(`immutable`), and the two rents are separate constants (`Rent`, `AssociatedRent`). On the cluster
the first two describe, the multisend stops at its own check, before it mints.

### Sbpf, Ir, Backend, Lifetimes and Compiler

Widths are parameters: a cell has `ByteBits`, words and double words `WordBytes` and `DoubleBytes`
cells, so that sign, truncation and overflow happen at values TLC can enumerate; branches,
comparisons and divisions are those of the code at these widths. `Sbpf!ValidateProgram` and the steps
of `Compiler` (`ALU`, `Load`, `Store`, `Branch`, `CallInternal`, `ExitFunction`, ...) are the verifier
and `vm.go`; a run ends with a result or one of the errors of the VM.

`Backend` assigns homes by use counts as `registers.go` does, selects instructions per IR
operation with the order of moves of `backend.go`, and links calls; helper names are resolved in
sorted order. `Compiler` first analyses (`Validates`, when a program turns addresses into integers),
then generates, runs the VM, and then evaluates the IR with the meaning Go gives it (`EvalStep`) on
the same arguments and region. Pointers of the IR are places in objects, never numbers, so a wrong
address shows as a difference. The parser, the checker, the lowering and the Solana entry point
are not modelled: programs are given as IR.

`Lifetimes` is the analysis of `address_lifetime.go`, one operation of the IR per step of its loops.
The Go code ranges over maps when it applies the effects of a callee: the model takes them in any
order. Its bounds of 256 rounds and 4096 effects are left out, and no program of the instance has a
recursion whose offsets keep growing, which is what they are for.

## 3. Runs

| run | module | expected | states | what it shows |
|---|---|---|---|---|
| `resume` | MCDeploy | pass | 146k | a deploy and concurrent or later resumes of its buffer, with the same or another artifact, under all six faults: `RecordedOnce`, `EvidenceIsFinal`, `DeployedIntact`, `FinalizedMeansDeployed`, `FundsSuffice`, `TypeOK` |
| `upgrade` | MCDeploy | pass | 345k | two deploys and three upgrades of one program on abandoned forks, some of which must be refused: `FinalizedMeansDeployed`, `ChecksFailClosed`, `RefusedUpgradesSendNothing` |
| `progress` | MCDeploy | pass | 354 | liveness without faults, with a last chunk that is short: `CallsComplete` |
| `stale` | MCWebBuilder | violation | | a source edited between its hash and its compile, then restored, has the next build reuse the wrong bytes |
| `tabs` | MCWebDeploy | pass | 433k | two tabs and edits between builds: `DeploysOneBuild`, `EveryChunkLanded`, `BuildsAreKept`, `PublishesBuilds`, `ServesLiveSessions` |
| `ledger` | MCGospl | pass | 3071 | two mints and two token accounts whose roles may be confused: `WellFormed`, `SupplyIsBalances`, `DisabledForever`, `EveryChangeAuthorized`; every instruction in every reachable state against the native oracle: `GuestMatchesOracle` |
| `cpi` | MCRuntime | pass | 228k | two moves of a program, two CPIs and two effects of callees, both mappings: `FailedCallsLeaveNoTrace`, `FailureIsAtomic`, `CopiesAgree`, `ChangesArePrivileged`, `CallsSettleAtOnce` (which implies `LamportsConserved`), `TypeOK` |
| `programs` | MCPrograms | pass | 9k | every instruction sequence of five programs: `VaultBooksBalance`, `SuppliesAreBalances`, `SpendingIsGranted`, `ContactsAreUnique`, `GuestsMatchNatives`, `InteractCallsWork` |
| `recreated` | MCPrograms | violation | | a vault drained and created again at its address has a total of zero, and its deposits have not |
| `tools` | MCToolRun | pass | 66k | every tool under lost replies, fork errors, timeouts, crashes and other holders of the keys: `SubmissionsAccounted`, `ReportIsTrue`, `ReserveSuffices`, `RunEnds` |
| `compiler` | MCCompiler | pass | 120k | IR programs compiled, verified and run beside their meaning, and handwritten text: `CompiledMatchesIR`, `RunsStayInBounds`, `RetainsNoStackAddress`, `RunEnds` |
| `order` | MCCompiler | violation | | the effects of a callee, applied in map order, accept a program that keeps a stack address |

The three violations are disagreements between the code and a comment, a text or a README of the
repository; `PROJECT.json` quotes them under "findings". In `stale`, `Build` hashes the sources,
`CompileFiles` reads them again, and an edit in between leaves the new bytes in the cache under the
old hash; once the sources are back as they were, the next build takes them from there. In `order`, a
helper called with two parameters that name one object has effects on both; resolved in one order the
second sees an empty object. In `recreated`, `EmergencyWithdraw` takes a vault's rent with the rest,
and a vault initialized again at its address begins with a total of 0 beside the old deposits, of which
`types.go:107` calls it the running total.

Six more observations have no run of their own:

- the `InitConfig` form of the page comes with the wallet as admin and as treasury ("Leave treasury
  as your wallet", `interact_schema.go:528`); `ProcessInitConfigChecks` refuses an admin whose
  account the System program owns, and where it does not, the duplicate treasury has no address to
  read;
- where the associated token program attaches `ImmutableOwner`, the account it makes is longer than
  the only length `token2022-init-multisend` decodes (`main.go:1070`, `sdk/token/state.go:85`), and
  the run ends at that check with the mint and the account paid for (`VerifyMultisendTok`);
- a resumed deployment may announce a `write` stage whose transaction a fork abandoned, when the
  buffer held its bytes already (`deploy.go:357`; `deploy.go:59` says a stage follows finalization,
  but only the last write is waited for);
- the browser asks for the deploy transaction when its writes are confirmed, not finalized, and
  never reads the error a confirmation may carry;
- the lifetime analysis does not reject a load outside of an object, which the VM catches;
- the phonebook's client never adds a contact (above).

**Bounds.** `MaxFork` bounds the transactions above the finalized slot (2 or 3: enough to confirm
one, build on it and abandon both). Artifacts are 2 or 3 bytes in chunks of 1, 2 or 3, so that a
loop has one or several iterations and, in `upgrade` and `progress`, a short last one. `PayerFunds`
straddles each balance threshold. `MaxBuilds` exceeds `MaxHistory`, so that builds are evicted;
`MaxTime` is past the session's life. `U64` is 2, 3 or 5 in the token programs: wrap-around,
equality and zero all occur. `ledger` has one key, so that its owners change in name only; the
theorem `ChangesAreAuthorized` covers any number. Its transactions carry at most one signature,
or none and one account that is readonly; `GuestIsOracle` covers the others. Symmetry is over interchangeable accounts, wallets
or tabs, and a `VIEW` drops history variables which no guard reads (the signers of the last
transaction). `cpi` has an account of the program, listed twice, one of the callee, and both
programs; lengths go one past the reserve and the maximum, and the inputs drop one privilege at a
time. `programs` has two accounts of each size where confusion needs two (mints, balances, token
types, deposits), two wallets, one address of a vault with up to 4 lamports, its rent being one of
them, so that it is drained and created again (the theorem `BooksAreBalanced` covers any number of
vaults that pay one another), and phonebooks of two contacts out of three. The comparison with the
native models ranges over all signatures, none, and none writable. `tools` counts lamports in fees;
a purse is at what each plan needs or one below; five recipients are the default of the command, and
six are run too. `ReserveSuffices` is claimed of up to five only: with six and no liquidity transfer
the reserve of twenty fees is short by the last transfer, where the cluster's associated account is
a bare one (on the other cluster the run does not get there). `compiler` enumerates every operation,
type and assignment of homes (parameter, local, temporary; in a register, spilled, or r0; the same
value twice) at boundary operands, every conversion, arrays with good and bad indices, recursion
past the call depth, loops past `MaxInstructions`, and small combinations of stores of stack
addresses in a function, its branches and its callees, and loads and stores of the explicit 8 and 16
bit memory types. Frames have five spill slots and offsets of jumps seven bits (for the sixteen of
the code), so that both sides of each limit occur; handwritten texts run off their end with
instructions left and with the last instruction they may execute.

Deadlock is checked for Deploy (a finished instance takes the step `Quiet`) and the web modules;
ledgers may reach states in which no instruction succeeds, and an invocation, a tool or a run of the
VM ends.

**Fairness.** `FairSpec` of Deploy: weak fairness of the client's next step (the code
polls every second until it has an answer) and of the cluster landing, voting and rooting
transactions. It is used without faults; with them a call may end in an error, which the code
allows. `ToolRun`: weak fairness of the tool's own steps, none of which waits for the chain (a poll
that finds nothing ends by the deadline), and of the deadline of its context, which a timer sets
off; none of the chain. `Compiler`: weak fairness of the analysis and of the VM, which are loops of
one goroutine.

## 4. Proofs

A theorem speaks of every instance its assumption admits; the property it states is the one a run
checks on a small instance. Every inductive invariant below was checked by TLC on that instance
before it was proved.

### Sums

`SumProofs` derives what the others need of `SumFunctionOnSet`, which the community modules define by
recursion over a finite set: that the recursion has a solution at all (`SumsExist`), that two
solutions agree (`SumsAgree`), and from these that a sum of naturals is a natural, grows by what is
added (`SumAdd`), changes by what one or two terms change (`SumChange`, `SumMove`), is at least each of
its terms (`SumBounds`), and is the same without terms that are zero (`SumPadded`). The induction
theorems of the library cannot be used here, as they take an operator; each proof looks at a
smallest subset that fails instead (`Smallest`, from `Least`: a nonempty set of naturals has a least
element).

### GOSPL

`GosplProofs` proves, for any sets of accounts and any modulus `U64 > 0`, under
`GosplAssumption` (mints, token accounts and wallets are distinct, token accounts are finitely many,
no account has the zero key):

| theorem | statement |
|---|---|
| `TypeCorrect` | `Spec => []TypeOK` |
| `StaysCanonical` | `Spec => []Canonical` |
| `StaysWellFormed` | `Spec => []WellFormed` |
| `DisabledIsForever` | `Spec => DisabledForever` |
| `ChangesAreAuthorized` | `Spec => EveryChangeAuthorized` |
| `SuppliesAreBacked` | `Spec => []SupplyIsBalances` |
| `GuestIsOracle` | `Spec => []GuestMatchesOracle` |

`TypeOK` alone is not inductive: a subtraction stays in range only because a live account passed
the validators, and `Canonical` needs that a live account's mint is live. The inductive invariant
`IInv` is `TypeOK` and, per account, *zero bytes or live* (`MintSound`, `TokenSound`). Three layers
lead to it: for each `Process` function, what its checks guarantee when they all pass
(`...Checked`, by `First`, which takes the chain of checks apart); relations `MintStep` and
`TokenStep` that say what any instruction may do to one account, with lemmas that each kind of
write is such a step; and `Steps`, that every instruction steps every account. The action
properties follow from the step relations. `SuppliesAreBacked` adds `Backed`: each instruction moves the
supply of a mint by as much as the balances held of it (`StepsTogether`), one or two accounts at a
time. `GuestIsOracle` needs the invariant too: guest and oracle differ on data no instruction
leaves. One lemma per instruction (`...Agrees`) compares the chains check by check.

### Runtime

`RuntimeProofs` proves, for any accounts, slots, inputs, CPI requests and limits, under
`RuntimeAssumption` (every account has a slot, data fits `MaxPermittedDataLength`):

| theorem | statement |
|---|---|
| `TypeCorrect` | `Spec => []TypeOK` |
| `RegionIsTheView` | `Spec => []RegionFollowsView` |
| `HiddenBytesAreZero` | `Spec => []SpareIsClear` |
| `HostAndGuestAgree` | `Spec => []ViewsAgree` |
| `FailedEntryIsAtomic` | `Spec => []FailureIsAtomic` |
| `FailedCallIsUndone` | `Spec => FailedCallsLeaveNoTrace` |
| `CopiesAlwaysAgree` | `Spec => []CopiesAgree` |
| `NoPrivilegeIsRaised` | `Spec => []ChangesArePrivileged` |
| `LamportsAreConserved` | `Spec => []LamportsConserved` |
| `CallsAreAtomic` | `Spec => CallsSettleAtOnce` (an invocation implements `Settlement`) |

The argument is about one account first: `Sound` says that its memory is typed and within its
limits, its region is as long as its view, and nothing is behind the view of a growable account.
Each operation keeps it (`SyncSound`, `ResizeDataSound`, ...), and `RestoredIsSaved` shows that
restoring any sound memory from a sound snapshot in agreement gives the snapshot: this is where the
second copy of the data and the resize of the region are needed. `IInv` adds that snapshots are
sound and in agreement, and that no CPI has ended while a callee runs; one lemma per action keeps
it. `ChangesArePrivileged` speaks of the end of an invocation only; its invariant `PInv` carries it
through: it holds of every baseline, because `ValidChanges` lets only the program's accounts change,
and of the memory of a callee, because what a callee governs was granted by metas the caller had or
a seed gave. `LamportsConserved` speaks of the end as well: in its invariant `LInv` the baselines
add up to the input, because a CPI moves them to what an executor that conserves lamports left of
accounts that had the sum of the baselines when it began. `CallsAreAtomic` is the refinement. The
privileges there are relative to the last settlement and not to the input, so `SInv` keeps what a
callee works on within them at every moment (`Within`): an account whose owner changed since the
baseline was the program's or signed, so that a callee which governs it now may change it too. The
settlement is then the accepted baseline, or the memory of a return that passed `ValidChanges`;
every other step leaves `Settled` as it is. All three rest on the callee being the honest runtime of
section 2.

### Deploy

`DeployProofs` proves, for any runs, configurations, artifacts, rents, bounds and faults, under
`LoaderAssumption` and `DeployAssumption`:

| theorem | statement |
|---|---|
| `TypeCorrect` | `Spec => []TypeOK` |
| `RecordIsExact` | `Spec => []RecordedOnce` |
| `ClientChecksSuffice` | `Spec => ChecksFailClosed` |
| `UpgradesAreChecked` | `Spec => []RefusedUpgradesSendNothing` |
| `ReadBackSuffices` | `Spec => []DeployedIntact` |
| `EvidenceHolds` | `Spec => []EvidenceIsFinal` |
| `FinalizedIsDeployed` | `Spec => []FinalizedMeansDeployed` |
| `BalanceCheckSuffices` | `Spec => []FundsSuffice` |

Each property needs its own strengthening of one picture of the system. *The client* (`CInv`): what
a run does is a walk along its script, every step of which has a rank; what it sent has growing
ranks below the step it is at, and so is sent once, and the record is what it sent. *The ledger*
(`LInv`): the banks of `fork` are a chain, each from the one before by one landed transaction
(`Chained`), so that what holds of a bank and is kept by `Execute` holds of the next; what is in it
was handed over by a run and occurs once; a buffer was created once, and a program too. An abandoned
fork cuts the chain, it never changes the part that stays. *Writes* (`WInv`): in every bank, what is
in a run's buffer are zeros and bytes of its artifact (`StaysWhole`), and once its read-back passed
(`Armed`) it is the artifact in every bank there will be, because only its own writes can still land
and they write the same bytes. `FitInv` carries what the client checked before it paid to what the
loader asks at the end: a program of one bank is there, with its authority and capacity, in every
later one (`KeptInOrder`), and the read-back compared the buffer with the run's own `Config`
(`Fitted`). `ChecksFailClosed` follows; that a call which comes too late sends nothing is the work
of `Prepare` alone, and false without its check (the mutant `PrepareOverExisting`). `SignedFinal`,
`Verified`, `CheckedUpgrade` and `Budgeted` carry what each check established from the RPC that made
it to the transaction that relies on it: finalized banks stay, authority and allocation do not
change, and the payer spends no more than the script asked for.

### Builder, sessions and tabs

`BuilderProofs` proves, for any examples, versions, tabs and `MaxHistory > 0`, under
`WebBuilderAssumption` and for the composition with the tabs (`WebSpec`):

| theorem | statement |
|---|---|
| `BuilderPublishes` | `WebSpec => PublishesBuilds` (the builder implements `BuildRegistry`) |
| `BuildsAreTrue` | `ASSUME ~EditsRace PROVE WebSpec => []BuildsAreKept` |
| `ArtifactsAreKept` | `WebSpec => []ArtifactsFollowHistory` |
| `IdsAreForGood` | `WebSpec => IdsNameOneBuild` |
| `ChunksLand` | `WebSpec => []EveryChunkLanded` |
| `DeploysTheSizedBuild` | `WebSpec => []DeploysOneBuild` |
| `SessionsLiveTheirTime` | `WebSpec => ServesLiveSessions` |

`ArtifactsFollowHistory` is not inductive: that the evicted record frees its own artifact and no
other needs distinct ids, and these come from `Windowed`: a history is the last `MaxHistory` builds
under consecutive numbers up to the counter. `Steps` says once what a step may do to a request
(`RequestStep`), to the sources and to the records; `Recorded` says what one recorded build changes,
from the lemma `KeptRecords` about the append and the eviction. `MInv` adds that what a request
hashed is still on disk (this is where `~EditsRace` is used) and `PInv` that every artifact at hand
was compiled from a version that compiles. `Publish` of the registry is then the step that
records, because the ids of the histories are exactly its windows (`WindowIsServed`).

`WInv` adds the writes of a tab: a batch that is not done has its unsent writes at the end, and
all before the batch are seen to have landed (`Landed`). `DInv` ties a session to its build: the id a
tab was answered with is served with the length the session was sized for or not at all, because
ids name one build for good.

### The example programs

`ProgramProofs` proves, for the composition `Programs`, any accounts, wallets, amounts and transactions,
under `ProgramsAssumption` (the assumptions of its parts: the sets of accounts are distinct and finite,
all lamports together fit a u64):

| theorem | statement |
|---|---|
| `BooksAreBalanced` | `Spec => []VaultBooksBalance` |
| `SuppliesAreBacked` | `Spec => []SuppliesAreBalances` |
| `SpendersAreGranted` | `Spec => SpendingIsGranted` |
| `ContactsStayUnique` | `Spec => []ContactsAreUnique` |
| `GuestsAreNatives` | `Spec => []GuestsMatchNatives` |

Its invariant has a part per program. *Phonebook*: contacts are distinct, and the three rewrites of
the list keep them so. *ERC-20* (`Inv20`): accounts are fresh or live, supplies are backed, and
while each approval has one account, what is left of it is what the account still allows
(`Approved20`). *ERC-1155* (`Inv55`): token types are told apart by collection and number, which
only `Numbers55` makes unique: without it, minting one type would unbalance another. *Payable*
(`InvP`): while a vault is the first at its address, its total is the sum of what is held in it; any
vault has its rent and what is held in it but for what its authority took, which a vault created
later at the address brings back by its rent only; addresses not used are clean, so that a first
vault owes nothing (`Clean`); and the lamports of all accounts are what the wallets began with, from
which no instruction that stores two balances of one account is committed. *GOSPL*: the lemmas of
`GosplProofs` for the instance of the program here, which `SameNext` shows to be the same.

`GuestsAreNatives` compares the compiled ERC-20 and payable programs with their native models,
instruction by instruction, with any accounts in any role and any signatures. Each instruction has
two halves. *Codes*: the two chains of checks yield the same first code, check by check, because
decoding keeps what each of them reads; this needs that accounts are fresh or live (`Inv20`,
`InvP`), as the models refuse data the programs cannot leave. *States*: what the program writes
decodes to what the model writes. The model adds in unbounded numbers and the program modulo
`U64`, so a deposit needs more than its own checks: that all lamports together fit a u64, the last
part of `InvP`.

`VaultBacksDeposits` is an inequality: an equality is true with the one vault of the run and false
with two, when one is the recipient of the other's withdrawal. That a total is the sum of its balances
is proved for first vaults because it is false of later ones (`recreated`); what a later vault at an
address still owes the depositors of the first is then in `drained`, which only `EmergencyWithdraw`
increases.

### Tools

`ToolProofs` proves, for any command lines, purses, rents and number of recipients, under
`ToolAssumption` and `ToolRunAssumption` (a command line is a record of its flags, an amount
is a number however it was given):

| theorem | statement |
|---|---|
| `SubmissionsAreAccounted` | `Spec => []SubmissionsAccounted` |
| `ReserveIsEnough` | `ASSUME \A c \in CommandLines : WithinReserve(c) PROVE Spec => []ReserveSuffices` |

The plans come first. `Lawful` says what a transaction of a plan may do to any chain on which it
succeeds: it costs no more than the price of its stage, adds the amount of the command to the
supply if it is the one minting stage and nothing otherwise, and calls the program only if it is
the one call. `Fits` says that every step of a plan is lawful and no stage occurs twice. `PlanFits`
shows it of every plan, from lemmas about folds over the instructions of one transaction
(`Folds`) and about plans joined from parts (`Joined`, `InParts`), as the shares of a multisend
are made by recursion over the recipients.

`ToolIInv` then relates a run to what is left of its plan. *Order* (`InOrder`): what is in flight is
the step the command is at, and no later step has been executed, so that a copy that lands after a
lost reply, or after the command gave up, still executes its stage for the first time only.
*Journal* (`Written`): what was executed is an entry that is final, or the step the command is at,
which becomes an entry of the other kind when the command fails. *Events* (`Announced`): the plan
was printed before anything was sent, and an execution is printed but for that step, so that a
killed process leaves them. *Amounts* (`Counted`): the supply, and the calls, are those of the
executed stages. A step of the tool takes the head of `todo` away, and the rest still fits.

`Affordable` adds the purse: while nobody else spends, it covers the prices of all stages not yet
executed, a sum over a set of stages from which an execution takes one. That `CheckFunds`
establishes it is arithmetic on the needs each tool computes (`PlanCosts`, `SumRecipients`), and
here the hypothesis `WithinReserve` is used. `token2022-init-multisend` adds a fixed reserve of
100000 lamports for fees (`main.go:29`, `main.go:554`) whatever the number of recipients, and
budgets the rent of a bare account: the hypothesis asks that the reserve covers three fees for each
recipient and the difference of the rents, if the cluster makes the longer account. On bare accounts it
admits the default of five and rules out six without liquidity, where `ReserveSuffices` without its
bound on recipients fails. On the other cluster it is stricter than needed: that run fails its check
before it sends anything to a recipient. `erc1155-init` sums its needs without an overflow guard, and
`token2022-nft-init` the fee of Metaplex (`main.go:323`), unlike the sums around them; both wrap
only for rents near 2^64, and the hypothesis excludes that. The bound on recipients in
`ReserveSuffices` is not used by the proof.

### Compiler

`CompilerProofs` proves `RunsStayWhereTheyMay == Spec => []RunsStayInBounds`: for every program text
the verifier accepts, compiled or not, and every width, frame size and call depth, the position is
at an instruction or just past the last one and the frame pointer is inside the stack. The
inductive invariant says that the loaded text is verified, that saved positions are places
of the text (`Sound`), and that the frame pointer is one frame per open call above the start
(`Framed`). Its arithmetic is that of positions in a text with two-slot instructions
(`SlotsBefore`, `CountsImmediates`): a branch the verifier accepted lands on the start of an
instruction, and the next instruction starts where this one ends.

### What is only model-checked

- `InteractCallsWork` is about the calls of the page, a finite table of `MCPrograms`: TLC has
  evaluated all of them.
- `ReportIsTrue` compares printed with stored amounts. Parsing and formatting a decimal number is
  recursion over its digits with powers of ten, and the provers know neither `10^k` nor an
  induction that would replace it.
- `CompiledMatchesIR` and `RetainsNoStackAddress` relate two executions, or an analysis and all
  executions, of every IR program: an induction over programs.
- `CallsComplete` and `RunEnds` are liveness, which needs rules for fairness the provers do not have.

The lemmas on sums and on the folds of `ToolProofs` are the only induction over data; what other
recursive definitions compute is not proved.

## 5. Not modelled, and plan

Not modelled: the compiler's parser, checker, lowering and Solana entry point (recursive
functions over unbounded syntax trees, whose output is a single IR program per input); ELF,
serialization, the runtime's ABI and layouts, sBPF's codec, and the SDK's instruction builders
(byte codecs without state); the phonebook and Token-2022 endpoints and the browser's other panels
(stateless encoders of one transaction per form); the CPI and context programs (one call each,
without state); the command line (argument parsing); the child process of the local validator
(what it waits for is the operating system's). `PROJECT.json` gives the reason of each.

What would add most: `Lifetimes`, soundness of the repaired analysis (effects resolved against the
state of the call) as a theorem for programs without loops; and plans for the phonebook and
Token-2022 endpoints beside those of the tools.
