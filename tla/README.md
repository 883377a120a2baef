# Gwead kernel: TLA+ models, model checks and proofs

Gwead runs plugin actions: an action is a graph of steps, each step a Wasm or
script body, a native function, a call of another plugin's action or a control
construct. The kernel plans the graph, schedules the steps on tokio tasks,
moves data between them as values and as byte streams, and bounds what a guest
may use. This directory holds TLA+ modules that model the concurrent core of
the kernel, the life of its manifests, the calls between plugins and the host
side of a guest, the TLC configurations that check them on small instances, and
TLAPS proofs for every instance.

`PROJECT.json` lists components, runs, mutants, findings, hazards and theorems,
and maps every definition that models code to the lines it models. Paths below
are relative to the repository's root.

## Inventory

| Component | State | Operations | What is hard | Correct means |
|---|---|---|---|---|
| Stream read (`src/kernel/streams.rs`) | source, leftover, closed, last error, read gate | read, close, take | the pull runs with no lock; close, take, cancel and task abort race it | bytes in order, EOF truthful and sticky, source never mislaid |
| Stream write (`streams.rs`) | sender in the slot, clones, bounded channel | write, close, drain | the send runs with no lock, on a clone | acknowledged = delivered, nothing after EOF |
| Fan-out (`streams.rs`, `runtime.rs`) | forwarder task or drained buffer, a channel per branch | install, forward, read, drop a branch | slow and leaving branches, faults, consumers that do not run concurrently | every branch sees the same items, bounded memory, nobody stuck |
| Streaming calls (`mod.rs`) | pipe, callee task, supervisor, failure slot | spawn, join, record, drop | failure and end of data travel on different ways | a failed callee is never a clean EOF |
| Dataflow scheduler (`runtime_dataflow.rs`) | awaiting counters, tasks, canonical state, first error, events | spawn, join, merge, release, finish | tasks end in any order, race with cancel and deadline | values before start, nothing stranded, one terminator |
| Wallclock (`mod.rs`) | expired flag, token, clock | arm, mark, cancel, report, drop | three parties race at the deadline | capped runs resolve, the right party is blamed |
| Handles (`execute_request.rs`) | events receiver, token, result task | start, cancel, shutdown | a full or abandoned events channel | result and terminator always arrive |
| DAG planner (`dag.rs`) | dependencies, waves | build_plan | self, forward and unknown references, inner steps | accepted plans are acyclic, waves respect dependencies |
| Wave scheduler (`runtime.rs`) | canonical and forked state per wave | run wave, join, merge | completion order vs declaration order | deterministic merge, first error by declaration |
| Control steps (`runtime.rs`) | error stack, failure markers, return signal | try, if, parallel, loops, return | unwinding through nested bodies | finally always runs, cancel is never caught |
| Step results budget (`host_api.rs`) | byte counter, results | store, remove | replace and loop removal | counter equals live bytes |
| Registry of streams (`streams.rs`) | table, next handle | register, adopt, take, close, drain | handles that cross tables | no handle names two streams |
| Manifests (`mod.rs`, `registry.rs`, `spi/`) | twelve tables, handles, two role indexes | load, register, unload, reload | one call writes and undoes many tables; a failed reload puts the old document back | tables always say what the documents say |
| Permissions, identity (`permissions.rs`, `identity.rs`) | parsed grants | parse, check | a name means different things in different namespaces | nothing is granted that was not written |
| Calls (`mod.rs`, `dispatch.rs`, `secrets.rs`, `host_api.rs`) | invocation tree, depths, tokens, deadlines, secrets in view | invoke, alias, role dispatch, events | an orchestrator that redirects, deadlines inside deadlines, cycles through events | calls stay in the caller's namespaces, bodies see their own secrets, everything capped ends |
| Script host, wasm budget (`script_runtime_host/`, `resource_budget.rs`) | store, committed totals, stash of the last call | instantiate, grow, imports, classify | any guest; refusals remembered; two slots for all answers | the cap holds for the sum, the right cause is blamed |
| Expression language, reference resolution, types | none | pure functions on text and JSON | strings | not modelled |

## Modules

`StreamRead` models one readable `StreamState`. A read is four steps
(`ReadCall`/`ReadGate`, `ReadSwap`, a `Pull...`, `ReadReturn`), one per stretch
of code between two points where another task can run. Bytes are positions in
the source; a chunk is a half-open interval of positions. `ReadAborted` is the
drop of the reading task at an await.

`StreamWrite` models one writable: `WriteCall` clones the sender,
`SendCommits`, `SendParks`, `SendReleased` and `SendFindsNoReceiver` are the
outcomes of a poll of the biased `select!`. The channel is tokio's, with its
fair queue of permits (external).

`StreamingCall` extends `StreamWrite` with the callee's task, the supervisor
and the caller's readable; its steps on the channel are `StreamWrite`'s
actions.

`Wallclock` holds the pure decision of `run_with_wallclock_timeout`.
`DataflowRun` models one run of `execute_dag_dataflow` under that wrapper:
`Start`, `Join`, `JoinPanicked`, `FinishFailed`, `FinishOk` are the scheduler;
`TaskStores`, `TaskEnds` the step bodies, of which nothing is assumed; `Tick`,
`WatchdogWakes`, `WatchdogFires`, `Resolve`, `Backstop` the wrapper;
`DetachedSend`, `ReceiveEvent`, `DropEvents` the events channel. One variable
stands for `variables`, which are merged entry by entry.

`Broadcast` is the abstract promise of a fan-out. `FanOut` has both variants,
the forwarder and the drain with copies, and implements it, shown by
`ImplementsBroadcast` under a refinement mapping that defines when the source
counts as ended. `Before` says which consumers start only when others have
ended.

`DagPlan` is `build_plan` and `layer_into_waves`: the check of ids, one action
per step of the dependency pass, one per wave. Steps are their places in the
manifest; what `extract_step_deps` finds is a set of ids per step, every set
allowed. `WaveRun` extends it with `execute_dag`: the sequential path
(`StartStep`, `AfterStep`), the parallel one (`SpawnWave`, `TaskPanicked`,
`WaveCancelled`, `MergeWave`), and step bodies (`StepEnds`) of which only the
size of the result is known. The canonical state is the stored results, the
byte counter, one variable and the return signal.

`ControlSteps` is a stack machine for the constructs a step can contain:
`run_try`, `run_iteration` (`for_each` and `repeat`), `run_ifs` and `return`,
nested freely. A frame is one block under way. `ctl` is how the innermost step
ended: `go`, `ok` and `failed` are the Rust `Ok(true)`/`Ok(false)`, `err` an
`Err` that unwinds by `?`. `markers` are the fields `last_error`,
`plugin_error`, `callee_error` and those of cancelled and out-of-fuel steps,
whose order of precedence decides what an action reports. `mem` is the step
results and their byte counter, with the charge, the refusal and the loops'
removal.

`Identity` and `Permissions` are the pure parts: names as sequences of
segments, what is on whose chain, which candidates a reference has; the grammar
of grants and the checks against them. `PluginRegistry` has the tables and the
operations on them, `Registration` the guard (`RegisterAccepted`) and the
effect (`Registered`) of `register_plugin_in_as`: every check comes before the
first write, so registration is one step, and each document adds a set of
entries of its own to every table (`AliasEntries`, `DefEntries`, `ImplEntries`,
`OwnerEntries`, `LinkBodies`). A document is a record of what the checks look
at. `ManifestLifecycle` boots the kernel with the engine's own manifest
(`Boot`) and has the kernel's calls as actions (`LoadManifest`,
`RegisterPlugin`, `RegisterSpi`, `UnloadManifest`, `ReloadManifest` with its
rollback); they hold `&mut self`, so a call is one step, and what can go wrong
is the sequence of calls. `ManifestStore` is what the embedder is promised
about handles; the property `KeepsTheStore` is the refinement. Its
specification is `KernelSpec`, so that one proof module can extend both it and
`Calls`.

`Calls` is one invocation tree over tables that registration left. Calls are
awaited, so the tree is a stack: a frame is an action or a loop over an
event's subscribers. `Execute`, `ExecuteByRole` and `EmbedderPublishes` start
it; `BeginStep`, `Invoke`, `AliasDispatch`, `DispatchRole`, `Publish`,
`StepReturns`, `EndStep`, `EndAction`, `NextSubscriber`, `EventDone` run it;
`Tick`, `Watchdog`, `DropOverdue` and `Cancel` come in from outside. The
orchestrator's plan, the resolver's answer and what plugin code asks for are
choices from small sets. Grants are checked with the operators of
`Permissions`, names resolved with those of `Identity`.

`ScriptHost` is the host's view of one guest from the limiter's first answer
to the step's outcome. The guest is free: it grows, calls imports, reads the
answer or not, traps, runs out of fuel or returns at any time. wasmtime's part
(asking the limiter, its own check of a declared maximum) is external.

The `...Proofs` modules extend a component's module with its inductive
invariants, lemmas and theorems (`StreamingCallProofs` those of `StreamWrite`
too, `WaveRunProofs` those of `DagPlan`, `KernelProofs` those of
`ManifestLifecycle` and `Calls`); see "Proofs".

The `MC...` modules give the constants that a configuration cannot express
(functions, programs). Definitions commented `Mutant:` are plausible bugs;
`PROJECT.json` says which property each must break.

## How the parts interact

- A step body holds handles into a table of streams; `StreamRead` and
  `StreamWrite` are one entry each. Their only shared state with the rest is
  the invocation's cancel token.
- A streaming call joins the two: the callee writes into a channel, the caller
  reads its other end through a `StreamState`, and the supervisor sits between
  the callee's task and the end of data. `StreamingCall` extends `StreamWrite`.
- A fan-out takes a readable out of the table (`take_readable`, in
  `StreamRead`) and puts one readable per consumer in its place.
- `execute_dag` plans with `DagPlan`, runs steps, and calls the fan-outs when a
  producer has ended; `execute_dag_dataflow` runs the same plan edge by edge
  and reports through the events channel of a handle. `run_with_wallclock_timeout`
  wraps either.
- A kernel is filled by `ManifestLifecycle`; executions only read the tables.
  `MCCalls` writes the tables of its instance out and assumes, checked by TLC,
  that they are what `Registration` leaves for its documents; what `Calls`
  assumes of its tables is proved of every state of a kernel
  (`TablesServeCalls`).
- A step body reaches other plugins through `Calls`; a script does so through
  the imports of `ScriptHost`, whose `told_of_cancel` depends on how the callee
  ended. `Wallclock` decides that for `DataflowRun`, `Calls` and `ScriptHost`.
- A step that is a control construct runs `ControlSteps` on the state the wave
  or the dataflow task gave it (the canonical one, or a fork).

## Runs

| Run | Instance | What it shows |
|---|---|---|
| `stream_read` | 2 tasks, chunks of 0 or 2 bytes, buffer of 1, 3 items and any number of empty chunks | reads deliver the source in order whatever closes, takes, cancels or aborts interleave; EOF is the end; a fired token brings back every parked and queued read, unless the source offers empty chunks for ever |
| `streaming_call` | 2 writers, capacity 1 | acknowledged chunks and no others arrive, all of them before EOF; a failed, panicked or timed-out callee is never a clean EOF and its failure reaches a caller that reads on; a fired token brings back every parked write |
| `dataflow` | 4 steps: p streams to b, b waits for the value of a, c for those of a and b; events capacity 1 | values are merged before their readers start, no step is stranded, one terminator, the right party is blamed, a capped run always resolves, the terminator arrives if it is read |
| `fan_out` | 3 branches, 4 items, capacity 2; the eager variant's consumers run one after the other | both variants implement `Broadcast`; every branch that reads is told the end |
| `waves` | every manifest of 3 steps | rejects exactly the bad ones, wave = depth, no step starts without the results it reads although forks are charged apart, the error is the first declared, a cancel during a wave is reported |
| `control` | 4 programs, budget 6, sizes 1 and 2, loops of up to 2 passes | scopes are restored on every path, recovered failures are never blamed, cancel, budget and return cannot be caught, finally is not skipped by a failure |
| `manifests` | 9 documents, 2 namespaces, 4 handles; a plugin with a role, its successor, a callee that comes back calling its caller, a script runtime, an impostor, a contract and a stricter one | after any sequence of calls the tables hold what the documents declare, the role indexes agree, no static cycle closes, bodies are the definer's or trusted, a failed reload restores |
| `calls` | a root plugin and two tenants, 4 frames, depth caps 2 and 1, deadlines of 2 ticks | no redirect leaves the chain, no secret outlives its body, a cancellation was asked for, every action that is not a pipeline ends |
| `script_host` | 7 modules (no, one, two, three memories, tables, maxima below and above the cap), 3 calls | the sum of all objects fits the cap, blame fits the cause, the stash answers the last call |

Three runs end in a violation on purpose. Each checks one sentence of the
repository's own comments or docs that the code does not keep
(`PROJECT.json`, "findings", has the quotation):

- `dataflow_variables`: one baseline of the variables serves all joins of a
  dataflow run, so a value a task only inherited is written back over a newer
  one;
- `fan_out_in_waves`: with `parallel_waves` the streaming fan-out is chosen
  although the consumers may lie in different waves; the forwarder then waits
  for a branch whose reader has not started and the wave never ends;
- `cascade`: an event handled by a subscriber that invokes an action which
  publishes again is counted from 0 again, so neither depth cap ends the cycle
  the first one is documented to end.

Five more promises are written in the modules and have no run; listed in the
configuration named, TLC refutes each:

- `WriterRunsAlone` (`MCWaveRun.cfg`): `wave_requires_sequential` does not look
  into the bodies of `try` and `parallel`;
- `LastUncaughtPropagates` (`MCControlSteps.cfg`): what a failed `catch` left
  in the markers takes precedence over the failure of the `finally`, which
  `run_try`'s doc says supersedes it;
- `CounterIsTheTotal` (`MCControlSteps.cfg`): a loop removes its body's results
  without giving their bytes back, so the counter is not the running total
  `host_api.rs` says it is;
- `HandleStaysValid` (`MCManifestLifecycle.cfg`): a document that no longer
  registers (its script runtime was unloaded, a contract arrived since) makes
  the rollback of a reload fail too, and the handle, which `reload_manifest`'s
  doc says stays valid in either outcome, is gone;
- `FetchGivesTheAnswer` (`MCScriptHost.cfg`): a guest that does not read the
  answer of a successful call and then makes one that fails early is told of an
  error and fetches the old result, since `bail_host_call` leaves `call_result`
  in place and a result is handed out before an error.
  `StashAnswersLastCall`, which holds, leaves that case out (its condition
  `synced`).

Seen while modelling, without a run of their own:

- a read that is dropped between swap-out and put-back leaves an exhausted
  stub, so the next read says EOF for a source that had more (the disjunct
  `lost` of `EofIsTheEnd`); `take_readable` during a read hands over the stub;
- the `select!` of a read takes a ready item before the token and an empty chunk
  ends no read, so a source that offers empty chunks for ever keeps a cancelled
  read, and those queued on the gate behind it, until somebody aborts it. The
  comment in `read_async`'s loop says so, its doc says that the holder of the
  gate "is released in turn". Without the hypothesis `EmptyChunksEnd` TLC
  refutes `CancelReleasesReads` with that loop;
- the doc of `take_readable` says later reads see EOF; they are told
  STREAM_CLOSED;
- an events stream can hold `PipelineCompleted{ok: true}` while the caller is
  told `ExecutionTimeout`: the deadline may pass between the send and the
  report;
- a `try` whose empty `catch` swallows a failure stores the last result of the
  failed body, not null;
- an unparsable expression, a bad count and a refused step type are `Err`,
  which no `try` catches; a `repeat` with an empty body never polls the token;
- the eager drain watches no token, and the forwarder is detached: a silent
  source holds the first until the wallclock and lets the second outlive its
  run;
- a reload that is rolled back moves the plugin to the end of its role's list,
  which is the order `DefaultOrchestrator` picks from; a reload of a contract
  under another role is not checked for dependents;
- the edge of a step whose type is another plugin's alias is looked up when the
  step's plugin registers: if the alias's plugin was unloaded since, a reload
  that is rolled back loses the edge (`RollbackRestores` claims the edges of
  `invoke` steps only);
- two handles may hold one role's contract; after either is unloaded the other
  can only report drift;
- static cycle detection sees root plugins only (a tenant's edges are recorded
  under unqualified targets), and `collect_declared_references` only steps that
  are not nested;
- of two submissions of a native body `ensure_from_entries` takes the first,
  where `discover` refuses;
- a nearer step type that the plugin may not use does not hide a farther one
  that it may; events reach subscribers in every namespace;
- a growth the limiter allowed and wasmtime then refuses for the module's
  declared maximum stays charged, so a guest can use up its cap by asking.

### Bounds

Every bound is a constant. They are the smallest with which each of the cases
above happens: two readers so that one queues on the gate while one is inside;
a chunk larger than the buffer so that there is a leftover, and an empty chunk,
which the code skips (there is no bound on how many); a channel of one slot so that a second write parks; three
branches so that one is slow, one leaves and one is in between; capacity 2 and
four items so that a branch can lag by more than one; three steps so that there
are a wave of two and a chain of two, and references of every kind (self,
forward, unknown); a limit such that one result fits and two do not; four
handles so that a plugin, its callee, a contract and one more can come and go;
four frames so that a callee of a callee runs under three deadlines, and a
subscriber's callee publishes; two memories that fit the cap alone and not
together. The
zero-length buffer is left to the proof, which has no bound. The data that is
left out (bytes, JSON values, names) is never compared by the code modelled.

`stream_read` has no last state and is checked for deadlock. The other models
describe a run that ends, so their configurations say `CHECK_DEADLOCK FALSE`;
that nothing stops early is stated by the liveness properties.

### Fairness

Weak fairness stands for tokio polling a task that was woken. It is assumed for
the kernel's own steps only: a reader's own steps and, strongly, its turn at
the read gate (tokio's mutex is fair: first come, first served); a parked send
whose permit is there, the supervisor, the drop of an ended callee's tables;
the scheduler's select loop, the clock, the backstop and the detached
terminator send; the forwarder. A step body and a caller are assumed to do
nothing: where a property needs a caller that reads, or a source that does not
offer empty chunks for ever (`EmptyChunksEnd`), it says so in its hypothesis.
Only `FanOut` assumes that the source goes on to its end and that consumers
keep reading (those that do not are the ones that leave), since what it
promises to a reader depends on it. `Calls` assumes the clock and the wallclock
wrapper's timers and nothing of plugin code, which may stay in a step for ever.
`WaveRun`, `ControlSteps`, `ManifestLifecycle` and `ScriptHost` check safety
only and assume no fairness.

## Proofs

Every theorem is about the safety part of a specification (`Init` and
`[][Next]_vars`) and holds for every value of the constants that its
assumptions allow. None of the properties is inductive alone; each section
names the invariant that is, and what it adds.

**Stream read** (`StreamReadProofs`, any tasks, buffers, chunks and number of
items): `TypeOK`, `ReadsFollowOn`, `EofIsTheEnd`, `NeverPolledPastEnd`,
`TakenIsTheRest`, `SourceAccountedFor`. The invariant `IInv` adds: the gate is
held by exactly the task past it, only that task can have the source, and past
the swap the slot has it no more (`GateInv`); a task has a chunk exactly when
it is about to deliver it, and the slot only beside the source (`ChunkInv`);
the live source and the chunk beside it are exactly what no read has delivered
(`SourceInv`); a source that has ended is no longer in the slot, and a pull
that finds the stub finds it because the source ended or was lost (`EndInv`).

**Stream write and streaming calls** (`StreamingCallProofs`, any writers, any
capacity): `TypeOK` with the channel's bound, `AckedIsDelivered`,
`EndTellsTheOutcome`, and the refinement `CallIsAWritableStream`: every step of
a streaming call is a step of `StreamWrite` or leaves it alone, so the delivery
of acknowledged chunks carries over. `WriteInv` says who is in the queue of
permits (exactly the parked writers, each once), that what was received and
what is in the channel is what was acknowledged, in that order, and that EOF is
told when no sender is left. `CallInv` adds that the supervisor holds the
kernel's sender until the failure is recorded, and that the record stays until
the caller was given it: that is why the end of data cannot overtake a failure.

**Fan-out** (`FanOutProofs`, any branches, any capacity, any start order):
`FanOutRefines`, that is `ImplementsBroadcast`. The initial states map to
`Broadcast`'s and every step to one of its steps or a stutter. `ShareInv`
carries it: what a branch was given, followed by what its channel holds, is
the beginning of what was taken from the source, short of at most the item of
the round under way.

**Dataflow scheduler** (`DataflowRunProofs`, any finite acyclic plan, any
capacity of the events channel): `TypeOK`, `ValuesBeforeStart`,
`NothingLeftBehind`, `BlameIsRight`, `OneTerminator`. `ReleaseInv` says that,
until something goes wrong, a step's counter is the number of its value
dependencies that are not joined, and that a step still waiting has one. A run
that comes to its end with a waiting step would then have a set of waiting
steps each of which waits for another of the set, which `PlanAssumption`
excludes. `TerminatorInv` says in which one place the terminator is;
`BlameInv`, that the watchdog claims only a deadline that has passed, and
before any other cancel.

**Planner and waves** (`WaveRunProofs`, any number of steps, any references):
`RejectsExactlyTheBad`, `WavesAreTheDepths`, `NoStepOnMissingResult`,
`ErrorIsTheFirstDeclared`, `MidWaveCancelIsReported`. `PlanInv` has that
scanned steps refer to earlier ones; the cycle check never fires because the
least step not yet scheduled has all its dependencies scheduled
(`NextWaveNotEmpty`). `LayerInv`: the waves so far are the levels of `Depth`,
and what is left is deeper. `WaveInv` ties tasks, fates and the canonical state
together: a step that started has every earlier wave behind it (`BehindInv`),
a step joined in a run still under way is stored or has returned (`JoinedInv`),
a result that fitted when its step ended still fits alone (`FitsInv`), and the
steps of a sequential wave take turns (`TurnInv`). What a merge refuses ends
the run before the next wave starts, which is why a fork's own charge need not
be right. `MidWaveInv` keeps the wave the same from a cancel to its report.

**Control constructs** (`ControlStepsProofs`, any action whose constructs hold
sequences of its steps, any nesting, sizes and budget): `ScopesMatch`,
`RecoveredNeverBlamed`, `StopIsFinal`, `CleanupRuns`. `ControlInv` is
`StackInv` (each frame's steps lie on `action.steps` at its offset, a frame
under another one waits at a step, adjacent frames' steps are adjacent, and no
recovery takes the list of failures further back than an enclosing frame found
it), `ScopeInv` (the errors and items on the two stacks are those of the
frames, whichever way a frame is left) and `FlowInv` (a failure marker is set
only for a failure nobody recovered from, and until a return only a `finally`
behind a failure runs with one set). The proof follows the ways a step can
change the stack: replace the top frame, push, pop, stay.

**Manifests** (`KernelProofs`, any documents, namespaces, trust and number of
handles): `TablesMatchLoaded`, `RoleIndexesAgree`, `LiteralInvokesAcyclic`,
`ForeignBodiesTrusted`, `RollbackRestores` and the refinement `KeepsTheStore`.
`TablesMatchLoaded` compares keys, and so does not say that unloading one plugin
leaves another's entries alone; the invariant does, and has four parts.

- `RegInv`, of the registry alone. `TablesInv`: each table is the union of one
  function per registered document, whose domains are disjoint (`TableIs`), so
  the tables are determined by the documents. `ListsInv`: the lists of roles
  have no element twice and name registered plugins, and the subscriptions are
  those of the documents. `RulesInv`: what registration checked and nothing
  has made false since (identities are valid, every literal `invoke` has its
  edge, the edges have no cycle, a body belongs to the
  step type's definer or to a trusted provider).
- `HandlesInv`: handles are below `nextId` and a record is of the document it
  was made from.
- `NamesInv`: every registered plugin has exactly one handle or was registered
  without one.
- `IndexInv`: a handle is counted under a role exactly while the registry
  lists its plugin there.

Registration adds a function to `TableIs` and unregistration takes it away
(`RegisteredKeeps`, `ReleasedKeeps`), which is why loading, unloading and both
branches of a reload rest on five lemmas (`AddPlugin`, `RemovePlugin`,
`AddSpi`, `RemoveSpi`, `AddDirect`). `RollbackRestores` follows from
`TablesInv`: before and after, the tables are the union over the same
documents. `KeepsTheStore` needs `NamesInv`: a plugin that registers is not in
the table of manifests, so no handle has its name.

**Calls** (`KernelProofs`, any tables, orchestrator, resolver and depth):
`CallsStayOnChain`, `BodiesSeeOwnSecrets`, `CancelledOnlyWhenAsked`. The first
rests on the transitivity of `IsOnChain`. `ViewInv` says that a body's view is
there exactly while a step of a foreign step type is, and is of that type's
definer. The third needs `Stopping(f) => Asked(i)`: whoever was told to stop,
or has a step that was, stands under a frame whose watchdog fired, unless the
embedder cancelled.

**Script host** (`ScriptHostProofs`, any module and limits, any number of
calls): `StoreFitsTheCap`, `BlameFitsTheCause`, `StashAnswersLastCall`.
`HostInv` has that the sum over the live objects is at most what is charged,
and that at most the cap; the lemmas on `Total` say what a new and what a
grown object add to the sum. `StashInv` says which of the two slots can be
left over from an earlier call.

### Assumptions

They are named in the module that declares the constants, and TLC evaluates
each on the instances of the runs. Sizes, capacities and limits are natural
numbers, a channel's capacity is not zero (`mpsc::channel` panics on zero and
`fan_out_readable_streaming` refuses it), and markers such as `NoTask` are not
members of the sets they are added to
(`StreamReadAssumption`, `StreamWriteAssumption`, `FanOutAssumption`,
`DataflowAssumption`, `DagAssumption`, `WaveAssumption`,
`ScriptHostAssumption`). Four say more:

- `PlanAssumption`: in any set of steps that is not empty one waits for none of
  the others. This is what `build_plan` accepts, proved as `PlannerIsExact`:
  every reference is to an earlier step.
- `ControlAssumption`: the blocks of an action's constructs are sequences of
  steps of that action (`WellFormed`), which is the shape of a parsed
  `StepDef`.
- `CallsAssumption`: the actions in the tables belong to plugins whose names
  are not empty and whose segments are well formed. This is what a kernel's
  tables are like whatever was loaded, proved as `TablesServeCalls`.
- `LifecycleAssumption`: a namespace, a document's roles and its subscriptions
  are lists, a document presented is one of the documents, and the engine's own
  manifest is a plugin that registers in an empty kernel: `Kernel::boot` fails
  otherwise.

### What recursive functions compute

`Depth`, the merge of a wave, the sums of `ScriptHost`, the scopes of
`ControlSteps` and the part of a list that `Kept` keeps are functions defined
by recursion. Their equations are proved by least counterexample: the set of
arguments at which they fail has a least element unless it is empty, and there
the recursion gives the equation (`LeastExists`, `NoLeast`). `DepthEquation`,
`MergeEquation`, `TotalsStep`, `ScopesStep` and `KeptExists` are the results.

### Only model-checked

- Liveness, which needs the fairness assumptions and `ENABLED`:
  `CancelReleasesReads`, `CancelReleasesWrites`, `FailureReachesCaller`,
  `RunResolves`, `TerminatorArrives`, `EveryReaderFinishes`, `HelpersEnd`.
- What a grant means (`GrantsMeanWhatTheySay` in `MCManifestLifecycle`) and
  that the instance of `Calls` is what registration leaves (`AllRegister` in
  `MCCalls`) are assumptions that TLC evaluates.

## Plan

Done: all the modules named above; proofs of every safety property that a
passing run checks, and of the three refinements (`Broadcast`, `StreamWrite` by
`StreamingCall`, `ManifestStore`).

Theorem next: what a grant means, for every grant (`GrantsMeanWhatTheySay`).

To model next: `run_parallel` with `merge_parallel_branch_state` on the
state of `ControlSteps`; the pre-flight of a streaming call; the streaming and
the continuous handle.

## Not modelled

The expression language, reference resolution and the type definitions are
pure functions on text and JSON or records; the schemas of manifests and of
actions' input and output are accepted or not, where the code asks. Of the
script host the copies between guest memory and host, the staging of a result
and logging are left out. The stream registry is a map and a counter behind
one lock; its entries' operations are modelled. The wire format and the
contents of messages, events and secrets are never compared by the code
modelled. `PROJECT.json` says for every component what is left out.
