----------------------------- MODULE ScriptHost ------------------------------
(***************************************************************************)
(* The host side of one wasm sub-instance (src/kernel/script_runtime_host, *)
(* resource_budget.rs, step_wasm in host_api.rs): the guest of a `script'  *)
(* step, or the module of a `wasm' step, from the limiter's first answer   *)
(* to the outcome the step reports.                                        *)
(*                                                                         *)
(* The guest is any wasm program: while it runs it grows what it declared, *)
(* calls the imports, traps, runs out of fuel or returns.  Of fuel the     *)
(* code asks only whether any is spent.  Payloads are the number of the    *)
(* call they answer; what the stream imports do to a stream is in          *)
(* StreamRead and StreamWrite, what a call does in Calls.                  *)
(***************************************************************************)
EXTENDS Integers, Sequences, FiniteSets, Wallclock

CONSTANTS
  Modules,     \* what a module declares: a sequence of [kind, min, max]
  MaxMemory,   \* limits.max_memory_bytes
  MaxTable,    \* limits.max_table_elements
  MaxObjects,  \* limits.max_memories, limits.max_tables
  MaxCalls     \* bound on the host calls a guest makes

ASSUME ScriptHostAssumption ==
  /\ MaxMemory \in Nat /\ MaxTable \in Nat
  /\ \A m \in Modules : m \in Seq([kind : {"memory", "table"}, min : Nat, max : Nat])

VARIABLES
  step,      \* "script" or "wasm"
  module,    \* the module instantiated
  phase,     \* "", "instantiate", "source", "args", "execute"
  sizes,     \* the objects wasmtime has created, in order of declaration
  budget,    \* ResourceBudget: committed memory and table, denied
  spent,     \* some fuel is gone: guest code runs or has run
  fired,     \* the step's token
  told,      \* told_of_cancel
  stash,     \* call_result and call_error, 0 for None
  calls,     \* host calls made so far
  pending,   \* the call whose answer the guest has not read, or 0
  synced,    \* when it made its last call the guest had read the answer
             \* before, or that call reached its callee
  outcome    \* "" until the step ends

store == <<sizes, budget, spent>>
slots == <<stash, calls, pending, synced>>
vars == <<step, module, phase, store, fired, told, slots, outcome>>

(* What the objects of a kind count together among the first n of those a  *)
(* module declares, for each n.                                            *)
Totals(declared, kind, amounts) ==
  LET upto[n \in 0..Len(amounts)] ==
        IF n = 0 THEN 0
        ELSE upto[n - 1] + (IF declared[n].kind = kind THEN amounts[n] ELSE 0)
  IN upto
Total(declared, kind, amounts) == Totals(declared, kind, amounts)[Len(amounts)]

Minimums(declared) == [i \in DOMAIN declared |-> declared[i].min]

Held(kind) == Total(module, kind, sizes)
Declared(kind) == Total(module, kind, Minimums(module))
CapOf(kind) == IF kind = "memory" THEN MaxMemory ELSE MaxTable

Init ==
  /\ step \in {"script", "wasm"} /\ module \in Modules
  /\ phase = "" /\ sizes = <<>> /\ spent = FALSE
  /\ budget = [memory |-> 0, table |-> 0, denied |-> FALSE]
  /\ fired = FALSE /\ told = FALSE
  /\ stash = [result |-> 0, error |-> 0] /\ calls = 0 /\ pending = 0 /\ synced = TRUE
  /\ outcome = ""

Running(p) == outcome = "" /\ phase = p
Ends(o) == outcome' = o /\ UNCHANGED <<step, module, phase, fired, told, slots>>

-----------------------------------------------------------------------------
(* ResourceBudget.  wasmtime asks before it creates or grows an object and *)
(* may still fail a growth that was allowed: nothing is given back.        *)

Drifted(kind, current) == budget[kind] < current
NewTotal(kind, current, desired) == budget[kind] - current + desired

(* Mutant: every object has the whole cap.                                 *)
AllowsEachObject(kind, current, desired) == ~Drifted(kind, current) /\ desired <= CapOf(kind)

Allows(kind, current, desired) ==
  ~Drifted(kind, current) /\ NewTotal(kind, current, desired) <= CapOf(kind)

Charged(kind, current, desired) ==
  IF Allows(kind, current, desired) THEN [budget EXCEPT ![kind] = NewTotal(kind, current, desired)]
  ELSE IF kind = "memory" /\ ~Drifted(kind, current) THEN [budget EXCEPT !.denied = TRUE]
  ELSE budget

-----------------------------------------------------------------------------
(* How a step ends                                                         *)

(* Mutant: a refusal alone is the memory cap, whoever asked.               *)
ClassifyByDenial(outOfFuel) ==
  IF outOfFuel THEN "fuel"
  ELSE IF phase = "instantiate" /\ budget'.denied THEN "memory"
  ELSE "failed"

(* classify_error, at the phase and with the store as the error left it.   *)
Classify(outOfFuel) ==
  IF outOfFuel THEN "fuel"
  ELSE IF phase = "instantiate" /\ budget'.denied /\ ~spent' THEN "memory"
  ELSE "failed"

(* step_script on a ScriptRunError: a cap stays one, a failure of a guest  *)
(* that was told is the cancellation.  step_wasm knows failures only.      *)
StepErrorOf(error) ==
  IF step = "wasm" THEN "failed"
  ELSE IF error = "failed" /\ told THEN "cancelled" ELSE error

-----------------------------------------------------------------------------
(* Setting up and instantiating                                            *)

(* No source, no language, no runtime for it; no such module; no linker.   *)
SetupFails ==
  /\ Running("") /\ Ends("failed") /\ UNCHANGED store

SetUp ==
  /\ Running("")
  /\ phase' = "instantiate"
  /\ UNCHANGED <<step, module, store, fired, told, slots, outcome>>

NextObject == module[Len(sizes) + 1]

TooManyObjects ==
  \E kind \in {"memory", "table"} : Cardinality({i \in DOMAIN module : module[i].kind = kind}) > MaxObjects

(* The instance is allocated: too many objects, or one refused, and it is  *)
(* not there.                                                              *)
CreateObject ==
  /\ Running("instantiate") /\ ~spent /\ Len(sizes) < Len(module)
  /\ UNCHANGED spent
  /\ IF TooManyObjects
     THEN UNCHANGED <<sizes, budget>> /\ Ends(StepErrorOf(Classify(FALSE)))
     ELSE /\ budget' = Charged(NextObject.kind, 0, NextObject.min)
          /\ IF Allows(NextObject.kind, 0, NextObject.min)
             THEN /\ sizes' = Append(sizes, NextObject.min)
                  /\ UNCHANGED <<step, module, phase, fired, told, slots, outcome>>
             ELSE UNCHANGED sizes /\ Ends(StepErrorOf(Classify(FALSE)))

Allocated == Len(sizes) = Len(module)

(* The module's start function, or its segments.                           *)
StartRuns ==
  /\ Running("instantiate") /\ Allocated /\ ~spent
  /\ spent' = TRUE
  /\ UNCHANGED <<step, module, phase, sizes, budget, fired, told, slots, outcome>>

(* A module without a start function; an import nobody provides, a missing *)
(* export.                                                                 *)
InstantiateFails ==
  /\ Running("instantiate") /\ (Len(sizes) = 0 \/ Allocated)
  /\ UNCHANGED store
  /\ Ends(StepErrorOf(IF Allocated THEN "failed" ELSE Classify(FALSE)))

Instantiated ==
  /\ Running("instantiate") /\ Allocated
  /\ phase' = IF step = "script" THEN "source" ELSE "execute"
  /\ spent' = TRUE
  /\ UNCHANGED <<step, module, sizes, budget, fired, told, slots, outcome>>

-----------------------------------------------------------------------------
(* The guest                                                               *)

GuestRuns == outcome = "" /\ phase # "" /\ spent

(* memory.grow and table.grow: the limiter, then wasmtime's own check of   *)
(* the declared maximum.                                                   *)
Grow(i) ==
  LET kind == module[i].kind
  IN /\ GuestRuns
     /\ budget' = Charged(kind, sizes[i], sizes[i] + 1)
     /\ sizes' = IF Allows(kind, sizes[i], sizes[i] + 1) /\ sizes[i] < module[i].max
                 THEN [sizes EXCEPT ![i] = @ + 1] ELSE sizes
     /\ UNCHANGED <<step, module, phase, spent, fired, told, slots, outcome>>

(* A trap, also one an import raises on a range outside the guest's memory.*)
GuestTraps(outOfFuel) ==
  /\ GuestRuns /\ UNCHANGED store
  /\ Ends(StepErrorOf(Classify(outOfFuel)))

(* The guest's alloc has returned a pointer; it is checked before it is    *)
(* written to.                                                             *)
AllocReturns(valid) ==
  /\ Running("source") \/ Running("args")
  /\ UNCHANGED store
  /\ IF ~valid THEN Ends(StepErrorOf("failed"))
     ELSE /\ phase' = IF phase = "source" THEN "args" ELSE "execute"
          /\ UNCHANGED <<step, module, fired, told, slots, outcome>>

(* A guest that says it succeeded has, whatever it was told.               *)
ExecuteReturns(success) ==
  /\ Running("execute")
  /\ UNCHANGED store
  /\ Ends(IF success \/ step = "wasm" THEN "ok" ELSE StepErrorOf("failed"))

-----------------------------------------------------------------------------
(* The imports of a script                                                 *)

Importing == GuestRuns /\ step = "script"
Told == told' = TRUE /\ UNCHANGED <<step, module, phase, store, fired, slots, outcome>>

IsCancelled == Importing /\ fired /\ Told
StreamReadCancelled == Importing /\ fired /\ Told
StreamWriteCancelled == Importing /\ fired /\ Told

(* A host call is over: its answer is in the stash.                        *)
Calling == Importing /\ calls < MaxCalls /\ UNCHANGED <<step, module, phase, store, fired, outcome>>
Answer(slot, through) ==
  /\ calls' = calls + 1
  /\ stash' = slot
  /\ pending' = IF slot = [result |-> 0, error |-> 0] THEN 0 ELSE calls + 1
  /\ synced' = (through \/ pending = 0)

BailHostCall == Answer([stash EXCEPT !.error = calls + 1], FALSE) /\ UNCHANGED told

TellsOfCancel(error) == fired /\ StoppedByCancellation(error)

(* Malformed arguments, a target that is no target, no kernel, the depth   *)
(* cap, no grant, no plan, a plan that is not authorised.                  *)
HostInvokeBails == Calling /\ BailHostCall

HostInvokeOk ==
  /\ Calling /\ Answer([result |-> calls + 1, error |-> 0], TRUE)
  /\ UNCHANGED told

(* A callee is cancelled by the step's token alone, but may time out, or   *)
(* fail because a callee of its own did, under a quiet one.                *)
HostInvokeFails(error) ==
  /\ Calling /\ Answer([result |-> 0, error |-> calls + 1], TRUE)
  /\ error = "cancelled" => fired
  /\ told' = (told \/ TellsOfCancel(error))

HostInvokeStreamingBails == Calling /\ BailHostCall

HostInvokeStreamingOk ==
  /\ Calling /\ Answer([result |-> 0, error |-> 0], TRUE)
  /\ UNCHANGED told

(* The answer that would be read: a result before an error.                *)
Visible == IF stash.result # 0 THEN stash.result ELSE stash.error
Taken == IF stash.result # 0 THEN [stash EXCEPT !.result = 0] ELSE [stash EXCEPT !.error = 0]

(* Mutant: a read that cannot copy leaves the answer where it is.          *)
CallResultReadKeeping(copied) ==
  /\ Importing
  /\ stash' = IF copied THEN Taken ELSE stash
  /\ pending' = 0
  /\ UNCHANGED <<step, module, phase, store, fired, told, calls, synced, outcome>>

(* host_call_result_read takes the answer also when the guest's buffer is  *)
(* not inside its memory.                                                  *)
CallResultRead(copied) ==
  /\ Importing
  /\ stash' = Taken
  /\ pending' = 0
  /\ UNCHANGED <<step, module, phase, store, fired, told, calls, synced, outcome>>

Cancel ==
  /\ ~fired /\ outcome = ""
  /\ fired' = TRUE
  /\ UNCHANGED <<step, module, phase, store, told, slots, outcome>>

-----------------------------------------------------------------------------
Next ==
  \/ SetupFails \/ SetUp \/ CreateObject \/ StartRuns \/ InstantiateFails \/ Instantiated
  \/ \E i \in DOMAIN sizes : Grow(i)
  \/ \E b \in BOOLEAN : GuestTraps(b) \/ AllocReturns(b) \/ ExecuteReturns(b) \/ CallResultRead(b)
  \/ IsCancelled \/ StreamReadCancelled \/ StreamWriteCancelled
  \/ HostInvokeBails \/ HostInvokeOk
  \/ \E e \in {"failed", "cancelled", "timeout", "callee_stopped"} : HostInvokeFails(e)
  \/ HostInvokeStreamingBails \/ HostInvokeStreamingOk
  \/ Cancel

Spec == Init /\ [][Next]_vars

-----------------------------------------------------------------------------
(***************************************************************************)
(* Properties.                                                             *)
(***************************************************************************)

(* What the store's objects hold together never exceeds the cap, however   *)
(* many there are, in whatever order they grow and however often wasmtime  *)
(* fails a growth the limiter allowed; and the total charged never falls   *)
(* below what is held, so that no request is refused as drift              *)
(* (ResourceBudget::memory_growing, table_growing).                        *)
StoreFitsTheCap ==
  \A kind \in {"memory", "table"} :
    /\ Held(kind) <= budget[kind]
    /\ budget[kind] <= CapOf(kind)

(* A failed step is blamed on what made it fail: on the memory cap when    *)
(* the module's declared minimum does not fit it and no guest code ran,    *)
(* whatever growth a guest was refused before it failed by itself; on a    *)
(* cancellation only when the step's token fired, not for a callee that    *)
(* ran into a deadline of its own; and never on a guest that had been told *)
(* of its cancellation (classify_from_store, tells_of_cancel, step_script).*)
BlameFitsTheCause ==
  /\ outcome = "memory" => Declared("memory") > MaxMemory /\ ~spent
  /\ outcome = "cancelled" => fired
  /\ outcome = "failed" /\ step = "script" => ~told

(* What host_call_result_read would hand out is the answer to the guest's  *)
(* last call, if the guest reads its answers, or else after a call that    *)
(* reached its callee, which empties the other slot; once read there is    *)
(* nothing more (host_invoke, host_invoke_streaming).                      *)
StashAnswersLastCall == synced => pending = Visible

(* "error stashed in `call_error`; caller fetches via the usual            *)
(* `host_call_result_size` / `host_call_result_read`" (invoke.rs): what is *)
(* handed out while the answer to the last call is unread is that answer,  *)
(* also when the guest skipped one before.  bail_host_call does not empty  *)
(* the result's slot, and the result goes first.                           *)
FetchGivesTheAnswer == pending # 0 => Visible = pending

=============================================================================
