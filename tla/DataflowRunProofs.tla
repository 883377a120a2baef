-------------------------- MODULE DataflowRunProofs --------------------------
(***************************************************************************)
(* TLAPS proofs for DataflowRun: for any finite acyclic plan, any          *)
(* capacity of the events channel and any interleaving of tasks, joins,    *)
(* watchdog and caller, a step starts only on the merged values of its     *)
(* dependencies, the scheduler never strands a step, exactly one           *)
(* terminator is sent, and the right party is blamed for a stop.           *)
(***************************************************************************)
EXTENDS DataflowRun, FiniteSetTheorems, SequenceTheorems, TLAPS

Joined == {d \in Steps : task[d] = "joined"}

(* Nothing failed and nobody cancelled: the releases are still going on.   *)
Undisturbed == firstError = "none" /\ ~Cancelled

(* A task that ended has an ending.  Before the scheduler starts every     *)
(* step waits; afterwards, as long as nothing disturbs the run, a step     *)
(* waits for exactly the value dependencies that have not been joined, and *)
(* only a step with such a dependency is still waiting.                    *)
ReleaseInv ==
  /\ \A s \in Steps : task[s] = "ended" => ending[s] # "none"
  /\ phase = "preflight" =>
       \A s \in Steps : task[s] = "waiting" /\ awaiting[s] = Cardinality(ValueDeps(s))
  /\ phase = "run" /\ Undisturbed =>
       /\ \A d \in Joined : ending[d] = "ok"
       /\ \A c \in Steps : awaiting[c] = Cardinality(ValueDeps(c) \ Joined)
       /\ \A c \in Steps : task[c] = "waiting" => awaiting[c] # 0

(* The terminator is sent when the scheduler returns or is dropped, and    *)
(* then it is in one place: queued, parked or received.                    *)
NoneSent == QueuedTerminators = {} /\ parked = <<>> /\ ends = <<>>

OneSent ==
  \/ (\E i \in 1..Len(queue) : QueuedTerminators = {i}) /\ parked = <<>> /\ ends = <<>>
  \/ QueuedTerminators = {} /\ Len(parked) = 1 /\ ends = <<>>
  \/ QueuedTerminators = {} /\ parked = <<>> /\ Len(ends) = 1

TerminatorInv ==
  IF phase \in {"preflight", "run"} THEN NoneSent ELSE OneSent \/ (NoneSent /\ ~listening)

(* What the run has resolved to, and who stopped it: the watchdog claims   *)
(* only a deadline that passed under a cap, before anybody else's cancel.  *)
BlameInv ==
  /\ result # "none" => phase = "resolved"
  /\ phase \in {"preflight", "run"} => returned = "none"
  /\ returned # "timeout"
  /\ expired => capped /\ clock # "early" /\ token # "caller"

-----------------------------------------------------------------------------
(* The events channel.                                                     *)

Positions(q) == {i \in 1..Len(q) : q[i] \in Terminators}

(* Step events that find room are appended, the others are dropped: the    *)
(* channel keeps its bound and its terminators (emit_event).               *)
LEMMA StepEvents ==
  ASSUME NEW q \in Seq(Events), Len(q) <= EventsCap, NEW n \in Nat
  PROVE  LET r == AfterStepEvents(q, n)
         IN  r \in Seq(Events) /\ Len(r) <= EventsCap /\ Positions(r) = Positions(q)
<1> DEFINE r == AfterStepEvents(q, n)
           k == IF n < EventsCap - Len(q) THEN n ELSE EventsCap - Len(q)
           z == [i \in 1..k |-> "step"]
<1>1. CASE ~listening
  BY <1>1 DEF AfterStepEvents
<1>2. CASE listening
  <2>1. Len(q) \in Nat /\ EventsCap \in Nat
    BY DataflowAssumption
  <2>2. k \in Nat /\ Len(q) + k <= EventsCap
    BY <2>1
  <2>3. r = q \o z
    BY <1>2 DEF AfterStepEvents
  <2> HIDE DEF k
  <2>4. z \in Seq(Events) /\ Len(z) = k /\ \A i \in 1..k : z[i] = "step"
    BY <2>2 DEF Events
  <2> HIDE DEF z, r
  <2>5. /\ r \in Seq(Events) /\ Len(r) = Len(q) + k
        /\ \A i \in 1..Len(q) + k : r[i] = IF i <= Len(q) THEN q[i] ELSE z[i - Len(q)]
    BY <2>3, <2>4, ConcatProperties
  <2>6. \A i \in 1..Len(q) : r[i] = q[i]
    BY <2>1, <2>2, <2>5
  <2>7. ASSUME NEW i \in 1..Len(r), i \notin 1..Len(q)
        PROVE  r[i] = "step"
    <3>1. i - Len(q) \in 1..k /\ r[i] = z[i - Len(q)]
      BY <2>1, <2>2, <2>5, <2>7
    <3> QED BY <2>4, <3>1
  <2>8. 1..Len(q) \subseteq 1..Len(r)
    BY <2>1, <2>2, <2>5
  <2>9. Positions(r) = Positions(q)
    BY <2>6, <2>7, <2>8 DEF Positions, Terminators
  <2> QED BY <2>1, <2>2, <2>5, <2>9 DEF r
<1> QED BY <1>1, <1>2

(* Appending to the queue adds its last position if it is a terminator.    *)
LEMMA AppendEvent ==
  ASSUME NEW q \in Seq(Events), NEW e \in Events
  PROVE  /\ Append(q, e) \in Seq(Events) /\ Len(Append(q, e)) = Len(q) + 1
         /\ e \in Terminators => Positions(Append(q, e)) = Positions(q) \cup {Len(q) + 1}
<1> DEFINE r == Append(q, e)
<1>1. /\ r \in Seq(Events) /\ Len(r) = Len(q) + 1 /\ Len(q) \in Nat
      /\ \A i \in 1..Len(q) : r[i] = q[i]
      /\ r[Len(q) + 1] = e
  BY AppendProperties
<1> HIDE DEF r
<1>2. 1..Len(r) = (1..Len(q)) \cup {Len(q) + 1}
  BY <1>1
<1>3. e \in Terminators => Positions(r) = Positions(q) \cup {Len(q) + 1}
  BY <1>1, <1>2 DEF Positions
<1> QED BY <1>1, <1>3 DEF r

(* Receiving takes the first event: the positions of the others move up.   *)
LEMMA ReceiveFirst ==
  ASSUME NEW q \in Seq(Events), q # <<>>
  PROVE  /\ Head(q) \in Events /\ Tail(q) \in Seq(Events) /\ Len(Tail(q)) = Len(q) - 1
         /\ Len(q) \in Nat
         /\ Positions(Tail(q)) = {i - 1 : i \in Positions(q) \ {1}}
         /\ Head(q) \in Terminators <=> 1 \in Positions(q)
<1> DEFINE t == Tail(q)
<1>1. /\ Head(q) \in Events /\ t \in Seq(Events) /\ Len(t) = Len(q) - 1
      /\ \A i \in 1..Len(t) : t[i] = q[i + 1]
  BY HeadTailProperties
<1>2. Len(q) \in Nat \ {0} /\ Head(q) = q[1]
  BY EmptySeq
<1> HIDE DEF t
<1>3. Positions(t) = {i - 1 : i \in Positions(q) \ {1}}
  <2>1. ASSUME NEW i \in Positions(t) PROVE i \in {j - 1 : j \in Positions(q) \ {1}}
    <3>1. i \in 1..Len(q) - 1 /\ q[i + 1] \in Terminators
      BY <1>1, <2>1 DEF Positions
    <3>2. i + 1 \in Positions(q) \ {1} /\ i = (i + 1) - 1
      BY <1>2, <3>1 DEF Positions
    <3> QED BY <3>2
  <2>2. ASSUME NEW j \in Positions(q) \ {1} PROVE j - 1 \in Positions(t)
    <3>1. j \in 1..Len(q) /\ j # 1 /\ q[j] \in Terminators
      BY <2>2 DEF Positions
    <3>2. j - 1 \in 1..Len(t) /\ (j - 1) + 1 = j
      BY <1>1, <1>2, <3>1
    <3>3. t[j - 1] = q[j]
      BY <1>1, <3>2
    <3> QED BY <3>1, <3>2, <3>3 DEF Positions
  <2> QED BY <2>1, <2>2
<1>4. Head(q) \in Terminators <=> 1 \in Positions(q)
  BY <1>2 DEF Positions
<1> QED BY <1>1, <1>2, <1>3, <1>4 DEF t

(* emit_terminal_event keeps the channel's bound.                          *)
LEMMA EmitTerminalType ==
  ASSUME TypeOK, NEW e \in Terminators, EmitTerminal(queue, e)
  PROVE  queue' \in Seq(Events) /\ Len(queue') <= EventsCap /\ parked' \in Seq(Terminators)
<1>1. queue \in Seq(Events) /\ Len(queue) <= EventsCap /\ parked \in Seq(Terminators)
  BY DEF TypeOK
<1>2. EventsCap \in Nat /\ Len(queue) \in Nat /\ e \in Events
  BY <1>1, DataflowAssumption DEF Events
<1>3. queue' \in Seq(Events) /\ Len(queue') <= EventsCap
  <2>1. CASE listening /\ Len(queue) < EventsCap
    BY <1>1, <1>2, <2>1, AppendEvent DEF EmitTerminal
  <2>2. CASE ~(listening /\ Len(queue) < EventsCap)
    BY <1>1, <2>2 DEF EmitTerminal
  <2> QED BY <2>1, <2>2
<1>4. parked' \in Seq(Terminators)
  BY <1>1, AppendProperties DEF EmitTerminal
<1> QED BY <1>3, <1>4

(* The variables the tasks and the join loop work on.                      *)
TaskTypes ==
  /\ awaiting \in [Steps -> Nat]
  /\ task \in [Steps -> {"waiting", "running", "ended", "joined", "gone"}]
  /\ ending \in [Steps -> {"none", "ok", "failed", "cancelled", "panic"}]
  /\ seen \in [Steps -> SUBSET Steps]
  /\ variable \in Steps \cup {Unset} /\ forked \in [Steps -> Steps \cup {Unset}]
  /\ touched \subseteq Steps /\ clobbered \in BOOLEAN

(* The outcome and who stopped the run.                                    *)
StopTypes ==
  /\ capped \in BOOLEAN /\ hasEvents \in BOOLEAN
  /\ phase \in {"preflight", "run", "returned", "resolved"}
  /\ firstError \in {"none", "failed", "cancelled", "budget"}
  /\ token \in {"none", "caller", "late_caller", "scheduler", "watchdog", "backstop"}
  /\ clock \in {"early", "late", "grace"}
  /\ expired \in BOOLEAN /\ watchdog \in {"armed", "marked", "done"}
  /\ returned \in Outcomes /\ result \in Outcomes

EventTypes ==
  /\ queue \in Seq(Events) /\ Len(queue) <= EventsCap
  /\ parked \in Seq(Terminators) /\ ends \in Seq(Terminators)
  /\ listening \in BOOLEAN

(* The type invariant, in three parts, before and after a step.            *)
LEMMA TypeParts ==
  /\ TypeOK <=> TaskTypes /\ StopTypes /\ EventTypes
  /\ TypeOK' <=> TaskTypes' /\ StopTypes' /\ EventTypes'
<1> QED BY DEF TypeOK, TaskTypes, StopTypes, EventTypes

(* A run starts with its variables in their types.                         *)
LEMMA TypeInit == Init => TypeOK
<1> SUFFICES ASSUME Init PROVE TypeOK
  OBVIOUS
<1> USE DataflowAssumption DEF Init
<1>1. TaskTypes
  <2>1. \A s \in Steps : Cardinality(ValueDeps(s)) \in Nat
    <3> TAKE s \in Steps
    <3>1. ValueDeps(s) \in SUBSET Steps
      BY DEF ValueDeps
    <3> QED BY <3>1, FS_Subset, FS_CardinalityType
  <2>2. awaiting \in [Steps -> Nat]
    BY <2>1
  <2>3. /\ task \in [Steps -> {"waiting", "running", "ended", "joined", "gone"}]
        /\ ending \in [Steps -> {"none", "ok", "failed", "cancelled", "panic"}]
        /\ seen \in [Steps -> SUBSET Steps]
        /\ variable \in Steps \cup {Unset} /\ forked \in [Steps -> Steps \cup {Unset}]
        /\ touched \subseteq Steps
    OBVIOUS
  <2>4. clobbered \in BOOLEAN
    OBVIOUS
  <2> QED BY <2>2, <2>3, <2>4 DEF TaskTypes
<1>2. StopTypes
  <2>1. capped \in BOOLEAN /\ hasEvents \in BOOLEAN /\ expired \in BOOLEAN
    OBVIOUS
  <2> QED BY <2>1 DEF StopTypes, Outcomes
<1>3. EventTypes
  <2>1. queue \in Seq(Events) /\ parked \in Seq(Terminators) /\ ends \in Seq(Terminators)
    BY EmptySeq
  <2>2. Len(queue) <= EventsCap
    OBVIOUS
  <2>3. listening \in BOOLEAN
    OBVIOUS
  <2> QED BY <2>1, <2>2, <2>3 DEF EventTypes
<1> QED BY <1>1, <1>2, <1>3, TypeParts

(* The steps that leave the events channel alone, and the channel's own.   *)
LEMMA TypeQuiet ==
  ASSUME TypeOK,
         \/ \E s \in Steps : TaskStores(s)
         \/ \E s \in Steps, how \in {"ok", "failed", "cancelled", "panic"} : TaskEnds(s, how)
         \/ CallerCancels \/ Tick \/ WatchdogWakes \/ WatchdogFires \/ Resolve
  PROVE  TypeOK'
<1>0. TaskTypes /\ StopTypes /\ EventTypes
  BY TypeParts
<1> USE DEF planVars, taskVars, stopVars, eventVars
<1>1. EventTypes'
  BY <1>0 DEF EventTypes, TaskStores, TaskEnds, CallerCancels, Tick, WatchdogWakes, WatchdogFires,
     Resolve
<1>2. TaskTypes'
  <2>1. ASSUME NEW s \in Steps, TaskStores(s) PROVE TaskTypes'
    BY <1>0, <2>1 DEF TaskTypes, TaskStores
  <2>2. ASSUME NEW s \in Steps, NEW how \in {"ok", "failed", "cancelled", "panic"}, TaskEnds(s, how)
        PROVE  TaskTypes'
    BY <1>0, <2>2 DEF TaskTypes, TaskEnds
  <2>3. CASE CallerCancels \/ Tick \/ WatchdogWakes \/ WatchdogFires \/ Resolve
    BY <1>0, <2>3 DEF TaskTypes, CallerCancels, Tick, WatchdogWakes, WatchdogFires, Resolve
  <2> QED BY <2>1, <2>2, <2>3
<1>3. StopTypes'
  <2>1. CASE \E s \in Steps : TaskStores(s) \/ \E how \in {"ok", "failed", "cancelled", "panic"} : TaskEnds(s, how)
    BY <1>0, <2>1 DEF StopTypes, TaskStores, TaskEnds
  <2>2. CASE CallerCancels \/ Tick \/ WatchdogFires
    BY <1>0, <2>2 DEF StopTypes, CallerCancels, Tick, WatchdogFires
  <2>3. CASE WatchdogWakes
    <3>1. expired' \in BOOLEAN
      BY <2>3 DEF WatchdogWakes
    <3> QED BY <1>0, <2>3, <3>1 DEF StopTypes, WatchdogWakes
  <2>4. CASE Resolve
    <3>1. result' \in Outcomes
      BY <1>0, <2>4 DEF StopTypes, Resolve, Report, Outcomes
    <3> QED BY <1>0, <2>4, <3>1 DEF StopTypes, Resolve
  <2> QED BY <2>1, <2>2, <2>3, <2>4
<1> QED BY <1>1, <1>2, <1>3, TypeParts

(* The channel's own steps.                                                *)
LEMMA TypeChannel ==
  ASSUME TypeOK, DetachedSend \/ ReceiveEvent \/ DropEvents
  PROVE  TypeOK'
<1>0. TaskTypes /\ StopTypes /\ EventTypes
  BY TypeParts
<1> USE DEF planVars, taskVars, stopVars
<1>1. TaskTypes' /\ StopTypes'
  BY <1>0 DEF TaskTypes, StopTypes, DetachedSend, ReceiveEvent, DropEvents
<1>2. /\ queue \in Seq(Events) /\ Len(queue) <= EventsCap /\ EventsCap \in Nat
      /\ parked \in Seq(Terminators) /\ ends \in Seq(Terminators) /\ listening \in BOOLEAN
  BY <1>0, DataflowAssumption DEF EventTypes
<1>3. CASE DetachedSend
  <2>1. Head(parked) \in Terminators /\ Tail(parked) \in Seq(Terminators)
    BY <1>2, <1>3, HeadTailProperties DEF DetachedSend
  <2>2. queue' \in Seq(Events) /\ Len(queue') = Len(queue) + 1
    BY <1>2, <1>3, <2>1, AppendEvent DEF DetachedSend, Events
  <2>3. EventTypes'
    BY <1>2, <1>3, <2>1, <2>2 DEF DetachedSend, EventTypes
  <2> QED BY <1>1, <2>3, TypeParts
<1>4. CASE ReceiveEvent
  <2>1. /\ Head(queue) \in Events /\ Tail(queue) \in Seq(Events)
        /\ Len(Tail(queue)) = Len(queue) - 1 /\ Len(queue) \in Nat
    BY <1>2, <1>4, ReceiveFirst DEF ReceiveEvent
  <2>2. ends' \in Seq(Terminators)
    BY <1>2, <1>4, AppendProperties DEF ReceiveEvent
  <2>3. EventTypes'
    BY <1>2, <1>4, <2>1, <2>2 DEF ReceiveEvent, EventTypes
  <2> QED BY <1>1, <2>3, TypeParts
<1>5. CASE DropEvents
  <2>1. queue' \in Seq(Events) /\ parked' \in Seq(Terminators) /\ Len(queue') <= EventsCap
    BY <1>2, <1>5, EmptySeq DEF DropEvents
  <2>2. listening' \in BOOLEAN
    BY <1>5 DEF DropEvents
  <2>3. EventTypes'
    BY <1>2, <1>5, <2>1, <2>2 DEF DropEvents, EventTypes
  <2> QED BY <1>1, <2>3, TypeParts
<1> QED BY <1>3, <1>4, <1>5

(* The steps that end the run send its terminator.                         *)
LEMMA TypeEnds ==
  ASSUME TypeOK,
         \/ PreflightFails \/ ProvisionFails \/ FinishFailed \/ FinishOk \/ Backstop
         \/ \E s \in Steps : JoinPanicked(s)
  PROVE  TypeOK'
<1>0. TaskTypes /\ StopTypes /\ EventTypes
  BY TypeParts
<1> USE DEF planVars, taskVars, stopVars
<1>1. \E e \in Terminators : EmitTerminal(queue, e) /\ UNCHANGED <<listening, ends>>
  BY DEF PreflightFails, ProvisionFails, FinishFailed, FinishOk, Backstop, JoinPanicked, Return,
     Terminators
<1>2. EventTypes'
  BY <1>0, <1>1, EmitTerminalType DEF EventTypes
<1>3. TaskTypes'
  <2>1. /\ \/ task' = task
           \/ task' = [s \in Steps |-> IF task[s] \in {"running", "ended"} THEN "gone" ELSE task[s]]
        /\ UNCHANGED <<awaiting, ending, seen, variable, forked, touched, clobbered>>
    BY DEF PreflightFails, ProvisionFails, FinishFailed, FinishOk, Backstop, JoinPanicked, Return
  <2>2. task' \in [Steps -> {"waiting", "running", "ended", "joined", "gone"}]
    BY <1>0, <2>1 DEF TaskTypes
  <2> QED BY <1>0, <2>1, <2>2 DEF TaskTypes
<1>4. StopTypes'
  <2>1. /\ UNCHANGED <<capped, hasEvents, firstError, clock, expired, watchdog>>
        /\ phase' \in {"returned", "resolved"} /\ token' \in {token, "backstop"}
        /\ result' \in {result, "failed", "timeout"}
        /\ returned' \in {returned, "failed", firstError, "bug", "ok"}
    BY DEF PreflightFails, ProvisionFails, FinishFailed, FinishOk, Backstop, JoinPanicked, Return
  <2> QED BY <1>0, <2>1 DEF StopTypes, Outcomes
<1> QED BY <1>2, <1>3, <1>4, TypeParts

(* Start and Join fork steps from the canonical state.                     *)
LEMMA TypeForks ==
  ASSUME TypeOK, Start \/ \E s \in Steps, trips \in BOOLEAN : Join(s, trips)
  PROVE  TypeOK'
<1>0. TaskTypes /\ StopTypes /\ EventTypes
  BY TypeParts
<1> USE DEF planVars, taskVars, stopVars
<1>1. ASSUME NEW S \in SUBSET Steps PROVE Cardinality(S) \in Nat
  BY DataflowAssumption, FS_Subset, FS_CardinalityType
<1>2. ASSUME NEW n \in Nat, queue' = AfterStepEvents(queue, n), UNCHANGED <<parked, listening, ends>>
      PROVE  EventTypes'
  BY <1>0, <1>2, StepEvents DEF EventTypes
<1>3. ASSUME NEW tasks \in [Steps -> {"waiting", "running", "ended", "joined", "gone"}],
             NEW S, NEW merged \in SUBSET Steps, NEW x \in Steps \cup {Unset}, Spawn(tasks, S, merged, x)
      PROVE  /\ task' \in [Steps -> {"waiting", "running", "ended", "joined", "gone"}]
             /\ seen' \in [Steps -> SUBSET Steps] /\ forked' \in [Steps -> Steps \cup {Unset}]
  BY <1>0, <1>3 DEF TaskTypes, Spawn
<1>4. CASE Start
  <2> DEFINE ready == {s \in Steps : awaiting[s] = 0}
  <2>1. /\ phase' = "run" /\ Spawn(task, ready, {}, variable)
        /\ queue' = AfterStepEvents(queue, Cardinality(ready))
        /\ UNCHANGED <<capped, hasEvents, awaiting, ending, variable, touched, clobbered, firstError,
                       token, clock, expired, watchdog, returned, result, parked, listening, ends>>
    BY <1>4 DEF Start
  <2>2. Cardinality(ready) \in Nat
    BY <1>1
  <2> HIDE DEF ready
  <2>3. EventTypes'
    BY <1>2, <2>1, <2>2
  <2>4. StopTypes'
    BY <1>0, <2>1 DEF StopTypes
  <2>5. TaskTypes'
    BY <1>0, <1>3, <2>1 DEF TaskTypes
  <2> QED BY <2>3, <2>4, <2>5, TypeParts
<1>5. ASSUME NEW s \in Steps, NEW trips \in BOOLEAN, Join(s, trips) PROVE TypeOK'
  <2> DEFINE cand  == CandidateError(s, trips)
             fires == firstError = "none" /\ cand # "none"
             err   == IF fires THEN cand ELSE firstError
             freed == IF Releases(s, err, fires \/ Cancelled) THEN Consumers(s) ELSE {}
             left  == [c \in Steps |-> IF c \in freed /\ awaiting[c] > 0
                                       THEN awaiting[c] - 1 ELSE awaiting[c]]
             ready == {c \in freed : left[c] = 0 /\ task[c] = "waiting"}
  <2>1. /\ firstError' = err
        /\ token' = IF fires /\ ~Cancelled THEN "scheduler" ELSE token
        /\ awaiting' = left
        /\ variable' = MergedVariable(s)
        /\ clobbered' = (clobbered \/ (s \notin touched /\ MergedVariable(s) # variable))
        /\ Spawn([task EXCEPT ![s] = "joined"], ready, MergedOk(s), MergedVariable(s))
        /\ queue' = AfterStepEvents(queue, 1 + Cardinality(ready))
        /\ UNCHANGED <<capped, hasEvents, phase, ending, touched, clock, expired, watchdog, returned,
                       result, parked, listening, ends>>
    BY <1>5 DEF Join
  <2>2. cand \in {"none", "failed", "cancelled", "budget"}
    BY DEF CandidateError
  <2> HIDE DEF cand
  <2>3. err \in {"none", "failed", "cancelled", "budget"}
    BY <1>0, <2>2 DEF StopTypes
  <2> HIDE DEF fires
  <2>4. freed \in SUBSET Steps
    BY DEF Consumers
  <2> HIDE DEF err
  <2>5. StopTypes'
    BY <1>0, <2>1, <2>3 DEF StopTypes
  <2> HIDE DEF freed
  <2>6. left \in [Steps -> Nat]
    BY <1>0 DEF TaskTypes
  <2>7. ready \in SUBSET Steps
    BY <2>4
  <2> HIDE DEF left, ready
  <2>8. 1 + Cardinality(ready) \in Nat
    BY <1>1, <2>7
  <2>9. EventTypes'
    BY <1>2, <2>1, <2>8
  <2>10. TaskTypes'
    <3>1. MergedVariable(s) \in Steps \cup {Unset} /\ MergedOk(s) \in SUBSET Steps
      BY <1>0 DEF MergedVariable, MergedOk, TaskTypes
    <3>2. [task EXCEPT ![s] = "joined"] \in [Steps -> {"waiting", "running", "ended", "joined", "gone"}]
      BY <1>0 DEF TaskTypes
    <3>3. clobbered' \in BOOLEAN
      BY <2>1
    <3> QED BY <1>0, <1>3, <2>1, <2>6, <3>1, <3>2, <3>3 DEF TaskTypes
  <2> QED BY <2>5, <2>9, <2>10, TypeParts
<1> QED BY <1>4, <1>5

(* Every step of a run keeps every variable in its type, and the events    *)
(* channel within its capacity.                                            *)
LEMMA TypeNext == TypeOK /\ [Next]_vars => TypeOK'
<1> SUFFICES ASSUME TypeOK, [Next]_vars PROVE TypeOK'
  OBVIOUS
<1>1. CASE UNCHANGED vars
  BY <1>1 DEF vars, planVars, taskVars, stopVars, eventVars, TypeOK
<1>2. CASE Next
  BY <1>2, TypeQuiet, TypeChannel, TypeEnds, TypeForks DEF Next, Scheduler, Deadline
<1> QED BY <1>1, <1>2

-----------------------------------------------------------------------------
(* The releases.                                                           *)

(* Sets of steps are finite, and empty exactly if they have no element.    *)
LEMMA StepSets ==
  ASSUME NEW S \in SUBSET Steps
  PROVE  /\ IsFiniteSet(S) /\ Cardinality(S) \in Nat
         /\ Cardinality(S) = 0 <=> S = {}
         /\ \A s \in S : Cardinality(S \ {s}) = Cardinality(S) - 1
<1>1. IsFiniteSet(S)
  BY DataflowAssumption, FS_Subset
<1> QED BY <1>1, FS_CardinalityType, FS_EmptySet, FS_RemoveElement

(* The scheduler starts with the steps that wait for nothing.              *)
LEMMA ReleaseStart ==
  ASSUME TypeOK, ReleaseInv, ValuesBeforeStart, Start
  PROVE  ReleaseInv' /\ ValuesBeforeStart'
<1> DEFINE ready == {s \in Steps : awaiting[s] = 0}
<1>1. /\ phase = "preflight" /\ phase' = "run"
      /\ Spawn(task, ready, {}, variable)
      /\ UNCHANGED <<awaiting, ending, firstError, token>>
  BY DEF Start, stopVars
<1>2. \A s \in Steps : task[s] = "waiting" /\ awaiting[s] = Cardinality(ValueDeps(s))
  BY <1>1 DEF ReleaseInv
<1>3. /\ \A s \in Steps : task'[s] = IF awaiting[s] = 0 THEN "running" ELSE "waiting"
      /\ \A s \in Steps : seen'[s] = IF awaiting[s] = 0 THEN {} ELSE seen[s]
  BY <1>1, <1>2 DEF Spawn
<1>4. Joined = {} /\ Joined' = {}
  BY <1>2, <1>3 DEF Joined
<1>5. ReleaseInv'
  <2>1. \A s \in Steps : ValueDeps(s) \ {} = ValueDeps(s)
    OBVIOUS
  <2> QED BY <1>1, <1>2, <1>3, <1>4, <2>1 DEF ReleaseInv
<1>6. ValuesBeforeStart'
  <2> SUFFICES ASSUME NEW s \in Steps, task'[s] # "waiting" PROVE ValueDeps(s) \subseteq seen'[s]
    BY DEF ValuesBeforeStart
  <2>1. awaiting[s] = 0
    BY <1>3
  <2>2. ValueDeps(s) \in SUBSET Steps
    BY DataflowAssumption DEF ValueDeps
  <2>3. ValueDeps(s) = {}
    BY <1>2, <2>1, <2>2, StepSets
  <2> QED BY <2>3
<1> QED BY <1>5, <1>6

(* A join releases the steps that wait for its value, and only them: the   *)
(* counters keep counting what is missing, and a step that is forked sees  *)
(* every value it depends on.                                              *)
LEMMA ReleaseJoin ==
  ASSUME TypeOK, ReleaseInv, ValuesBeforeStart, NEW s \in Steps, NEW trips \in BOOLEAN, Join(s, trips)
  PROVE  ReleaseInv' /\ ValuesBeforeStart'
<1> DEFINE cand  == CandidateError(s, trips)
           fires == firstError = "none" /\ cand # "none"
           err   == IF fires THEN cand ELSE firstError
           freed == IF Releases(s, err, fires \/ Cancelled) THEN Consumers(s) ELSE {}
           left  == [c \in Steps |-> IF c \in freed /\ awaiting[c] > 0
                                     THEN awaiting[c] - 1 ELSE awaiting[c]]
           ready == {c \in freed : left[c] = 0 /\ task[c] = "waiting"}
<1>1. /\ phase = "run" /\ phase' = "run"
      /\ task[s] = "ended" /\ ending[s] # "panic"
      /\ firstError' = err
      /\ token' = IF fires /\ ~Cancelled THEN "scheduler" ELSE token
      /\ awaiting' = left
      /\ Spawn([task EXCEPT ![s] = "joined"], ready, MergedOk(s), MergedVariable(s))
      /\ ending' = ending
  BY DEF Join
<1>2. \A c \in Steps : awaiting[c] \in Nat
  BY DEF TypeOK
<1>3. ready \subseteq Steps /\ freed \subseteq Steps
  BY DEF Consumers
<1>4. /\ \A c \in Steps : task'[c] = IF c \in ready THEN "running" ELSE IF c = s THEN "joined" ELSE task[c]
      /\ \A c \in Steps : seen'[c] = IF c \in ready THEN MergedOk(s) ELSE seen[c]
      /\ s \notin ready
  BY <1>1 DEF Spawn, TypeOK
<1>5. Joined' = Joined \cup {s} /\ s \notin Joined
  BY <1>1, <1>4 DEF Joined
<1>6. \A c \in Steps : task'[c] = "ended" => ending'[c] # "none"
  BY <1>1, <1>4 DEF ReleaseInv
<1> HIDE DEF cand
<1>7. CASE ~Undisturbed'
  <2>1. freed = {}
    BY <1>1, <1>7 DEF Releases, Undisturbed, Cancelled
  <2> HIDE DEF freed
  <2>2. ready = {}
    BY <2>1
  <2>3. ValuesBeforeStart'
    BY <1>1, <1>4, <2>2 DEF ValuesBeforeStart
  <2> QED BY <1>1, <1>6, <1>7, <2>3 DEF ReleaseInv
<1>8. CASE Undisturbed'
  <2>1. firstError = "none" /\ token = "none" /\ ~fires /\ cand = "none" /\ err = "none"
    BY <1>1, <1>8 DEF Undisturbed, Cancelled
  <2>2. Undisturbed /\ ~Cancelled
    BY <2>1 DEF Undisturbed, Cancelled
  <2>3. ending[s] = "ok"
    <3>1. ending[s] \in {"ok", "failed", "cancelled"}
      BY <1>1 DEF TypeOK, ReleaseInv
    <3> QED BY <2>1, <2>2, <3>1 DEF cand, CandidateError, WindingDown
  <2>4. freed = IF s \in LongRunning THEN {} ELSE Consumers(s)
    BY <2>1, <2>2 DEF Releases
  <2>5. /\ \A d \in Joined : ending[d] = "ok"
        /\ \A c \in Steps : awaiting[c] = Cardinality(ValueDeps(c) \ Joined)
        /\ \A c \in Steps : task[c] = "waiting" => awaiting[c] # 0
    BY <1>1, <2>2 DEF ReleaseInv
  <2>6. \A d \in Joined' : ending'[d] = "ok"
    BY <1>1, <1>5, <2>3, <2>5
  <2> HIDE DEF freed, fires, err
  <2>7. \A c \in Steps : left[c] = IF c \in freed /\ awaiting[c] > 0 THEN awaiting[c] - 1 ELSE awaiting[c]
    OBVIOUS
  <2> HIDE DEF left
  <2>8. ASSUME NEW c \in Steps PROVE left[c] = Cardinality(ValueDeps(c) \ Joined')
    <3> DEFINE D == ValueDeps(c) \ Joined
    <3>1. D \in SUBSET Steps
      BY DataflowAssumption DEF ValueDeps
    <3>2. ValueDeps(c) \ Joined' = D \ {s}
      BY <1>5
    <3>3. s \in D <=> c \in freed
      BY <1>5, <2>4 DEF ValueDeps, Consumers
    <3>4. awaiting[c] = Cardinality(D)
      BY <2>5
    <3> HIDE DEF D
    <3>5. CASE s \in D
      <4>1. Cardinality(D \ {s}) = Cardinality(D) - 1 /\ Cardinality(D) \in Nat /\ Cardinality(D) # 0
        BY <3>1, <3>5, StepSets
      <4>2. left[c] = awaiting[c] - 1
        BY <1>2, <2>7, <3>3, <3>4, <3>5, <4>1
      <4> QED BY <3>2, <3>4, <4>1, <4>2
    <3>6. CASE s \notin D
      <4>1. D \ {s} = D
        BY <3>6
      <4> QED BY <2>7, <3>2, <3>3, <3>4, <3>6, <4>1
    <3> QED BY <3>5, <3>6
  <2>9. \A c \in Steps : task'[c] = "waiting" => left[c] # 0
    <3> SUFFICES ASSUME NEW c \in Steps, task'[c] = "waiting" PROVE left[c] # 0
      OBVIOUS
    <3>1. c \notin ready /\ task[c] = "waiting"
      BY <1>4
    <3>2. CASE c \in freed
      BY <3>1, <3>2
    <3>3. CASE c \notin freed
      BY <2>5, <2>7, <3>1, <3>3
    <3> QED BY <3>2, <3>3
  <2>10. ReleaseInv'
    BY <1>1, <1>6, <2>6, <2>8, <2>9 DEF ReleaseInv
  <2>11. ValuesBeforeStart'
    <3> SUFFICES ASSUME NEW c \in Steps, task'[c] # "waiting" PROVE ValueDeps(c) \subseteq seen'[c]
      BY DEF ValuesBeforeStart
    <3>1. CASE c \in ready
      <4>1. ValueDeps(c) \ Joined' \in SUBSET Steps /\ Cardinality(ValueDeps(c) \ Joined') = 0
        BY <2>8, <3>1, DataflowAssumption DEF ValueDeps
      <4>2. ValueDeps(c) \ Joined' = {}
        BY <4>1, StepSets
      <4>3. Joined' \subseteq MergedOk(s)
        BY <1>5, <2>5 DEF MergedOk, Joined
      <4> QED BY <1>4, <3>1, <4>2, <4>3
    <3>2. CASE c \notin ready
      <4>1. task[c] # "waiting"
        BY <1>1, <1>4, <3>2
      <4> QED BY <1>4, <3>2, <4>1 DEF ValuesBeforeStart
    <3> QED BY <3>1, <3>2
  <2> QED BY <2>10, <2>11
<1> QED BY <1>7, <1>8

(* Every step of a run keeps the counters right.                           *)
LEMMA ReleaseNext ==
  ASSUME TypeOK, ReleaseInv, ValuesBeforeStart, [Next]_vars
  PROVE  ReleaseInv' /\ ValuesBeforeStart'
<1> USE DEF planVars, taskVars, stopVars, eventVars
<1>1. CASE Start \/ \E s \in Steps, trips \in BOOLEAN : Join(s, trips)
  BY <1>1, ReleaseStart, ReleaseJoin
<1>2. CASE \/ PreflightFails \/ ProvisionFails \/ FinishFailed \/ FinishOk \/ Backstop \/ Resolve
           \/ \E s \in Steps : JoinPanicked(s)
  <2>1. /\ phase' \in {"returned", "resolved"} /\ UNCHANGED <<ending, seen>>
        /\ \/ task' = task
           \/ task' = [s \in Steps |-> IF task[s] \in {"running", "ended"} THEN "gone" ELSE task[s]]
    BY <1>2 DEF PreflightFails, ProvisionFails, FinishFailed, FinishOk, Backstop, Resolve,
       JoinPanicked, Return
  <2>2. \A s \in Steps : /\ task'[s] = "ended" => task[s] = "ended"
                         /\ task'[s] # "waiting" => task[s] # "waiting"
    BY <2>1 DEF TypeOK
  <2> QED BY <2>1, <2>2 DEF ReleaseInv, ValuesBeforeStart
<1>3. ASSUME NEW s \in Steps, NEW how \in {"ok", "failed", "cancelled", "panic"}, TaskEnds(s, how)
      PROVE  ReleaseInv' /\ ValuesBeforeStart'
  <2>1. /\ task[s] = "running" /\ task'[s] = "ended" /\ ending'[s] # "none"
        /\ \A d \in Steps : d # s => task'[d] = task[d] /\ ending'[d] = ending[d]
        /\ UNCHANGED <<phase, awaiting, seen, firstError, token>>
    BY <1>3 DEF TaskEnds, TypeOK
  <2>2. Joined' = Joined /\ s \notin Joined
    BY <2>1 DEF Joined
  <2>3. (Undisturbed' <=> Undisturbed) /\ \A d \in Joined : ending'[d] = ending[d]
    BY <2>1, <2>2 DEF Undisturbed, Cancelled, Joined
  <2>4. ReleaseInv'
    BY <2>1, <2>2, <2>3 DEF ReleaseInv
  <2>5. ValuesBeforeStart'
    BY <2>1 DEF ValuesBeforeStart
  <2> QED BY <2>4, <2>5
<1>4. CASE \/ \E s \in Steps : TaskStores(s)
           \/ CallerCancels \/ Tick \/ WatchdogWakes \/ WatchdogFires
           \/ DetachedSend \/ ReceiveEvent \/ DropEvents \/ UNCHANGED vars
  <2>1. /\ UNCHANGED <<phase, awaiting, task, ending, seen, firstError>>
        /\ token = "none" \/ token' = token
    BY <1>4 DEF TaskStores, CallerCancels, Tick, WatchdogWakes, WatchdogFires, DetachedSend,
       ReceiveEvent, DropEvents, vars, Cancelled
  <2>2. Joined' = Joined /\ (Undisturbed' => Undisturbed)
    BY <2>1 DEF Joined, Undisturbed, Cancelled
  <2> QED BY <2>1, <2>2 DEF ReleaseInv, ValuesBeforeStart
<1> QED BY <1>1, <1>2, <1>3, <1>4 DEF Next, Scheduler, Deadline

(* At the start every step waits for its value dependencies.               *)
LEMMA ReleaseInit == Init => ReleaseInv /\ ValuesBeforeStart
<1> QED BY DEF Init, ReleaseInv, ValuesBeforeStart

(* The scheduler of any finite acyclic plan keeps its variables typed and  *)
(* the events channel within its capacity (execute_dag_dataflow).          *)
THEOREM RunTyped == Safety => []TypeOK
<1> QED BY TypeInit, TypeNext, PTL DEF Safety

(* For any finite plan: a step is forked only from a state that holds the  *)
(* merged results of all its value dependencies, all of them successful,   *)
(* whatever failure, cancel or deadline races the releases                 *)
(* (execute_dag_dataflow's remaining-dependency counters).                 *)
THEOREM StartsOnMergedValues == Safety => []ValuesBeforeStart
<1> DEFINE I == TypeOK /\ ReleaseInv /\ ValuesBeforeStart
<1>1. Init => I
  BY TypeInit, ReleaseInit
<1>2. I /\ [Next]_vars => I'
  BY TypeNext, ReleaseNext
<1> QED BY <1>1, <1>2, PTL DEF Safety

(* For any finite acyclic plan the "Dataflow scheduler bug" exit is        *)
(* unreachable: were a step left waiting in an undisturbed run whose tasks *)
(* are all joined, one whose dependencies are all joined would have been   *)
(* released.                                                               *)
THEOREM NoStepStranded == Safety => []NothingLeftBehind
<1> DEFINE I == TypeOK /\ ReleaseInv /\ ValuesBeforeStart /\ NothingLeftBehind
<1>1. Init => I
  BY TypeInit, ReleaseInit DEF Init, NothingLeftBehind
<1>2. ASSUME TypeOK, ReleaseInv, NothingLeftBehind, [Next]_vars PROVE NothingLeftBehind'
  <2>1. CASE FinishOk
    <3>1. ASSUME ~Cancelled, \E s \in Steps : task[s] = "waiting" PROVE FALSE
      <4> DEFINE W == {s \in Steps : task[s] = "waiting"}
      <4>1. PICK s \in W : Deps[s] \cap W = {}
        BY <3>1, PlanAssumption
      <4>2. Undisturbed /\ phase = "run" /\ \A d \in Steps : task[d] \in {"waiting", "joined"}
        BY <2>1, <3>1 DEF FinishOk, Undisturbed, JoinsetEmpty
      <4>3. ValueDeps(s) \ Joined = {}
        BY <4>1, <4>2, DataflowAssumption DEF ValueDeps, Joined
      <4>4. awaiting[s] = Cardinality({}) /\ awaiting[s] # 0
        BY <1>2, <4>1, <4>2, <4>3 DEF ReleaseInv
      <4> QED BY <4>4, FS_EmptySet
    <3> QED BY <2>1, <3>1 DEF FinishOk, Return, NothingLeftBehind
  <2>2. CASE FinishFailed
    BY <1>2, <2>2 DEF FinishFailed, Return, NothingLeftBehind, TypeOK
  <2>3. CASE ProvisionFails \/ \E s \in Steps : JoinPanicked(s)
    BY <2>3 DEF ProvisionFails, JoinPanicked, Return, NothingLeftBehind
  <2>4. ASSUME UNCHANGED returned PROVE NothingLeftBehind'
    BY <1>2, <2>4 DEF NothingLeftBehind
  <2>5. CASE PreflightFails \/ Start \/ (\E s \in Steps, trips \in BOOLEAN : Join(s, trips)) \/ Deadline
             \/ Resolve \/ CallerCancels \/ DetachedSend \/ ReceiveEvent \/ DropEvents
             \/ UNCHANGED vars
    BY ZenonT(40), <2>4, <2>5 DEF PreflightFails, Start, Join, Deadline, Tick, WatchdogWakes, WatchdogFires,
       Backstop, Resolve, CallerCancels, DetachedSend, ReceiveEvent, DropEvents, vars
  <2>6. ASSUME NEW s \in Steps,
               TaskStores(s) \/ \E how \in {"ok", "failed", "cancelled", "panic"} : TaskEnds(s, how)
        PROVE  NothingLeftBehind'
    BY <2>4, <2>6 DEF TaskStores, TaskEnds
  <2> QED BY <1>2, <2>1, <2>2, <2>3, <2>5, <2>6 DEF Next, Scheduler
<1>3. I /\ [Next]_vars => I'
  BY <1>2, TypeNext, ReleaseNext
<1> QED BY <1>1, <1>3, PTL DEF Safety

-----------------------------------------------------------------------------
(* Who is blamed.                                                          *)

(* Every step keeps the blame right: the flag, the token, the clock and    *)
(* the outcome change in an order that never contradicts it.               *)
LEMMA BlameNext ==
  ASSUME TypeOK, BlameInv, BlameIsRight, [Next]_vars
  PROVE  BlameInv' /\ BlameIsRight'
<1> USE DEF planVars, taskVars, stopVars, eventVars
<1>1. CASE Start \/ \E s \in Steps, trips \in BOOLEAN : Join(s, trips)
  <2>1. /\ phase \in {"preflight", "run"} /\ phase' = "run"
        /\ token' \in {token, "scheduler"}
        /\ UNCHANGED <<capped, clock, expired, returned, result>>
    BY ZenonT(40), <1>1 DEF Start, Join
  <2> QED BY <2>1 DEF BlameInv, BlameIsRight
<1>2. CASE ProvisionFails \/ FinishFailed \/ FinishOk \/ \E s \in Steps : JoinPanicked(s)
  <2>1. /\ phase \in {"preflight", "run"} /\ phase' = "returned"
        /\ returned' \in {"failed", firstError, "bug", "ok"}
        /\ UNCHANGED <<capped, clock, expired, token, result>>
    BY <1>2 DEF ProvisionFails, FinishFailed, FinishOk, JoinPanicked, Return
  <2>2. returned' # "timeout" /\ result = "none"
    BY <2>1 DEF TypeOK, BlameInv
  <2> QED BY <2>1, <2>2 DEF BlameInv, BlameIsRight
<1>3. CASE PreflightFails
  BY <1>3 DEF PreflightFails, BlameInv, BlameIsRight
<1>4. CASE Backstop
  <2>1. /\ phase = "run" /\ clock = "grace" /\ phase' = "resolved" /\ result' = "timeout"
        /\ token' = IF Cancelled THEN token ELSE "backstop"
        /\ UNCHANGED <<capped, clock, expired, returned>>
    BY <1>4 DEF Backstop
  <2>2. returned = "none"
    BY <2>1 DEF BlameInv
  <2> QED BY <2>1, <2>2 DEF BlameInv, BlameIsRight
<1>5. CASE Resolve
  <2>1. /\ phase = "returned" /\ phase' = "resolved"
        /\ result' = IF capped THEN Report(returned, expired, Cancelled, clock # "early") ELSE returned
        /\ UNCHANGED <<capped, clock, expired, token, returned>>
    BY <1>5 DEF Resolve
  <2>2. expired => result' \notin {"ok", "cancelled"}
    <3> SUFFICES ASSUME expired PROVE result' \notin {"ok", "cancelled"}
      OBVIOUS
    <3>1. result' = Report(returned, expired, Cancelled, clock # "early")
      BY <2>1 DEF BlameInv
    <3> QED BY <3>1 DEF Report, StoppedByCancellation, DeadlineReached
  <2>3. result' = "timeout" => clock # "early" /\ token # "caller"
    <3> SUFFICES ASSUME result' = "timeout" PROVE clock # "early" /\ token # "caller"
      OBVIOUS
    <3>1. result' # returned
      BY DEF BlameInv
    <3>2. expired \/ (~Cancelled /\ clock # "early")
      BY <2>1, <3>1 DEF Report, StoppedByCancellation, DeadlineReached
    <3> QED BY <3>2 DEF BlameInv, Cancelled
  <2> QED BY <2>1, <2>2, <2>3 DEF BlameInv, BlameIsRight
<1>6. CASE CallerCancels
  <2>1. /\ phase # "resolved" /\ token' = IF clock = "early" THEN "caller" ELSE "late_caller"
        /\ UNCHANGED <<capped, phase, clock, expired, returned, result>>
    BY <1>6 DEF CallerCancels
  <2>2. result = "none"
    BY <2>1 DEF BlameInv
  <2> QED BY <2>1, <2>2 DEF BlameInv, BlameIsRight
<1>7. CASE Tick
  <2>1. /\ clock' # "early" /\ UNCHANGED <<capped, phase, token, expired, returned, result>>
    BY <1>7 DEF Tick
  <2> QED BY <2>1 DEF BlameInv, BlameIsRight
<1>8. CASE WatchdogWakes
  <2>1. /\ capped /\ phase \in {"run", "returned"} /\ clock # "early" /\ expired' = ~Cancelled
        /\ UNCHANGED <<capped, phase, token, clock, returned, result>>
    BY <1>8 DEF WatchdogWakes
  <2>2. result = "none"
    BY <2>1 DEF BlameInv
  <2>3. expired' => token # "caller"
    BY <2>1 DEF Cancelled
  <2> QED BY <2>1, <2>2, <2>3 DEF BlameInv, BlameIsRight
<1>9. CASE WatchdogFires
  <2>1. /\ token' \in {token, "watchdog"}
        /\ UNCHANGED <<capped, phase, clock, expired, returned, result>>
    BY <1>9 DEF WatchdogFires
  <2> QED BY <2>1 DEF BlameInv, BlameIsRight
<1>10. CASE \/ \E s \in Steps : \/ TaskStores(s)
                                \/ \E how \in {"ok", "failed", "cancelled", "panic"} : TaskEnds(s, how)
            \/ DetachedSend \/ ReceiveEvent \/ DropEvents \/ UNCHANGED vars
  <2>1. UNCHANGED <<capped, phase, token, clock, expired, returned, result>>
    BY <1>10 DEF TaskStores, TaskEnds, DetachedSend, ReceiveEvent, DropEvents, vars
  <2> QED BY <2>1 DEF BlameInv, BlameIsRight
<1> QED
  BY <1>1, <1>2, <1>3, <1>4, <1>5, <1>6, <1>7, <1>8, <1>9, <1>10 DEF Next, Scheduler, Deadline

(* For any plan, and however watchdog, caller and resolution interleave    *)
(* around the deadline: a run whose deadline the watchdog claimed resolves *)
(* neither Ok nor Cancelled, no run is a timeout before its deadline, and  *)
(* a caller's earlier cancel is reported as theirs                         *)
(* (run_with_wallclock_timeout).                                           *)
THEOREM RightPartyBlamed == Safety => []BlameIsRight
<1> DEFINE I == TypeOK /\ BlameInv /\ BlameIsRight
<1>1. Init => I
  BY TypeInit DEF Init, BlameInv, BlameIsRight
<1>2. I /\ [Next]_vars => I'
  BY TypeNext, BlameNext
<1> QED BY <1>1, <1>2, PTL DEF Safety

-----------------------------------------------------------------------------
(* The terminator.                                                         *)

(* The queue's terminators after a step depend on the queue alone.         *)
LEMMA Queued == QueuedTerminators = Positions(queue) /\ QueuedTerminators' = Positions(queue')
<1> QED BY DEF QueuedTerminators, Positions

(* emit_terminal_event sends the one terminator, into the channel or, when *)
(* that is full, with a detached sender - unless nobody listens.           *)
LEMMA EmitSendsOne ==
  ASSUME TypeOK, NoneSent, NEW e \in Terminators, EmitTerminal(queue, e),
         UNCHANGED <<listening, ends>>
  PROVE  OneSent' \/ (NoneSent' /\ ~listening')
<1>1. /\ queue \in Seq(Events) /\ Len(queue) \in Nat /\ Len(queue) <= EventsCap
      /\ EventsCap \in Nat /\ e \in Events /\ parked = <<>> /\ ends = <<>> /\ Positions(queue) = {}
  BY DataflowAssumption, Queued DEF TypeOK, NoneSent, Events
<1>2. CASE ~listening
  <2>1. queue' = queue /\ parked' = parked
    BY <1>2 DEF EmitTerminal
  <2> QED BY <1>1, <1>2, <2>1, Queued DEF NoneSent
<1>3. CASE listening /\ Len(queue) < EventsCap
  <2>1. queue' = Append(queue, e) /\ parked' = <<>> /\ ends' = <<>>
    BY <1>1, <1>3 DEF EmitTerminal
  <2>2. Len(queue') = Len(queue) + 1 /\ Positions(queue') = {Len(queue) + 1}
    BY <1>1, <2>1, AppendEvent
  <2>3. Len(queue) + 1 \in 1..Len(queue')
    BY <1>1, <2>2
  <2> QED BY <2>1, <2>2, <2>3, Queued DEF OneSent
<1>4. CASE listening /\ Len(queue) = EventsCap
  <2>1. queue' = queue /\ parked' = Append(<<>>, e) /\ ends' = <<>>
    BY <1>1, <1>4 DEF EmitTerminal
  <2>2. Len(parked') = 1
    BY <2>1
  <2> QED BY <1>1, <2>1, <2>2, Queued DEF OneSent
<1> QED BY <1>1, <1>2, <1>3, <1>4

(* A detached sender that finds room, a receive and the drop of the        *)
(* receiver move the terminator or lose the receiver, and never copy it.   *)
LEMMA TerminatorMoves ==
  ASSUME TypeOK, TerminatorInv, DetachedSend \/ ReceiveEvent \/ DropEvents
  PROVE  TerminatorInv'
<1>1. /\ queue \in Seq(Events) /\ Len(queue) \in Nat
      /\ parked \in Seq(Terminators) /\ ends \in Seq(Terminators)
  BY DEF TypeOK
<1>2. phase' = phase
  BY DEF DetachedSend, ReceiveEvent, DropEvents
<1>3. CASE DetachedSend
  <2>1. /\ parked # <<>> /\ queue' = Append(queue, Head(parked)) /\ parked' = Tail(parked)
        /\ ends' = ends
    BY <1>3 DEF DetachedSend
  <2>2. OneSent /\ phase \notin {"preflight", "run"}
    BY <2>1 DEF TerminatorInv, NoneSent
  <2>3. Positions(queue) = {} /\ Len(parked) = 1 /\ ends = <<>>
    BY <2>1, <2>2, Queued DEF OneSent
  <2>4. Head(parked) \in Terminators /\ parked' = <<>>
    BY <1>1, <2>1, <2>3, HeadTailProperties, EmptySeq
  <2>5. Len(queue') = Len(queue) + 1 /\ Positions(queue') = {Len(queue) + 1}
    BY <1>1, <2>1, <2>3, <2>4, AppendEvent DEF Events
  <2>6. Len(queue) + 1 \in 1..Len(queue')
    BY <1>1, <2>5
  <2> QED BY <1>2, <2>1, <2>2, <2>3, <2>4, <2>5, <2>6, Queued DEF TerminatorInv, OneSent
<1>4. CASE ReceiveEvent
  <2>1. /\ queue # <<>> /\ queue' = Tail(queue) /\ UNCHANGED <<parked, listening>>
        /\ ends' = IF Head(queue) \in Terminators THEN Append(ends, Head(queue)) ELSE ends
    BY <1>4 DEF ReceiveEvent
  <2>2. /\ Len(queue') = Len(queue) - 1
        /\ Positions(queue') = {i - 1 : i \in Positions(queue) \ {1}}
        /\ Head(queue) \in Terminators <=> 1 \in Positions(queue)
    BY <1>1, <2>1, ReceiveFirst
  <2>3. CASE Positions(queue) = {}
    <3>1. Positions(queue') = {} /\ ends' = ends
      BY <2>1, <2>2, <2>3
    <3>2. (OneSent => OneSent') /\ (NoneSent => NoneSent')
      BY <2>1, <2>3, <3>1, Queued DEF OneSent, NoneSent
    <3> QED BY <1>2, <2>1, <3>2 DEF TerminatorInv
  <2>4. CASE Positions(queue) # {}
    <3>1. OneSent /\ phase \notin {"preflight", "run"}
      BY <2>4, Queued DEF TerminatorInv, NoneSent
    <3>2. PICK i \in 1..Len(queue) : Positions(queue) = {i}
      BY <2>4, <3>1, Queued DEF OneSent
    <3>3. parked = <<>> /\ ends = <<>>
      BY <2>4, <3>1, Queued DEF OneSent
    <3>4. CASE i = 1
      <4>1. Positions(queue') = {} /\ ends' = Append(<<>>, Head(queue))
        BY <2>1, <2>2, <3>2, <3>3, <3>4
      <4>2. Len(ends') = 1
        BY <4>1
      <4> QED BY <1>2, <2>1, <3>1, <3>3, <4>1, <4>2, Queued DEF TerminatorInv, OneSent
    <3>5. CASE i # 1
      <4>1. Positions(queue') = {i - 1} /\ ends' = <<>>
        BY <2>1, <2>2, <3>2, <3>3, <3>5
      <4>2. i - 1 \in 1..Len(queue')
        BY <1>1, <2>2, <3>2, <3>5
      <4> QED BY <1>2, <2>1, <3>1, <3>3, <4>1, <4>2, Queued DEF TerminatorInv, OneSent
    <3> QED BY <3>4, <3>5
  <2> QED BY <2>3, <2>4
<1>5. CASE DropEvents
  <2>1. queue' = <<>> /\ parked' = <<>> /\ ends' = ends /\ listening' = FALSE
    BY <1>5 DEF DropEvents
  <2>2. Positions(queue') = {}
    BY <2>1 DEF Positions
  <2>3. NoneSent => NoneSent'
    BY <2>1, <2>2, Queued DEF NoneSent
  <2>4. OneSent => OneSent' \/ NoneSent'
    BY <2>1, <2>2, Queued DEF NoneSent, OneSent
  <2> QED BY <1>2, <2>1, <2>3, <2>4 DEF TerminatorInv
<1> QED BY <1>3, <1>4, <1>5

(* Every step of a run sends at most the one terminator.                   *)
LEMMA TerminatorNext ==
  ASSUME TypeOK, TerminatorInv, [Next]_vars
  PROVE  TerminatorInv'
<1> USE DEF planVars, taskVars, stopVars, eventVars
<1>1. CASE DetachedSend \/ ReceiveEvent \/ DropEvents
  BY <1>1, TerminatorMoves
<1>2. CASE \/ PreflightFails \/ ProvisionFails \/ FinishFailed \/ FinishOk \/ Backstop
           \/ \E s \in Steps : JoinPanicked(s)
  <2>1. /\ phase \in {"preflight", "run"} /\ phase' \in {"returned", "resolved"}
        /\ \E e \in Terminators : EmitTerminal(queue, e)
        /\ UNCHANGED <<listening, ends>>
    BY <1>2 DEF PreflightFails, ProvisionFails, FinishFailed, FinishOk, Backstop, JoinPanicked,
       Return, Terminators
  <2>2. NoneSent
    BY <2>1 DEF TerminatorInv
  <2>3. OneSent' \/ (NoneSent' /\ ~listening')
    BY <2>1, <2>2, EmitSendsOne
  <2> QED BY <2>1, <2>3 DEF TerminatorInv
<1>3. CASE Start \/ \E s \in Steps, trips \in BOOLEAN : Join(s, trips)
  <2>1. phase \in {"preflight", "run"} /\ phase' = "run" /\ UNCHANGED <<parked, ends>>
    BY ZenonT(40), <1>3 DEF Start, Join
  <2>2. \E n \in Nat : queue' = AfterStepEvents(queue, n)
    <3>1. CASE Start
      <4> DEFINE ready == {s \in Steps : awaiting[s] = 0}
      <4>1. queue' = AfterStepEvents(queue, Cardinality(ready)) /\ Cardinality(ready) \in Nat
        BY <3>1, StepSets DEF Start
      <4> QED BY <4>1
    <3>2. ASSUME NEW s \in Steps, NEW trips \in BOOLEAN, Join(s, trips)
          PROVE  \E n \in Nat : queue' = AfterStepEvents(queue, n)
      <4> DEFINE cand  == CandidateError(s, trips)
                 fires == firstError = "none" /\ cand # "none"
                 err   == IF fires THEN cand ELSE firstError
                 freed == IF Releases(s, err, fires \/ Cancelled) THEN Consumers(s) ELSE {}
                 left  == [c \in Steps |-> IF c \in freed /\ awaiting[c] > 0
                                           THEN awaiting[c] - 1 ELSE awaiting[c]]
                 ready == {c \in freed : left[c] = 0 /\ task[c] = "waiting"}
      <4>1. queue' = AfterStepEvents(queue, 1 + Cardinality(ready))
        BY <3>2 DEF Join
      <4>2. freed \in SUBSET Steps
        BY DEF Consumers
      <4> HIDE DEF freed
      <4>3. ready \in SUBSET Steps
        BY <4>2
      <4> HIDE DEF ready
      <4>4. 1 + Cardinality(ready) \in Nat
        BY <4>3, StepSets
      <4> QED BY <4>1, <4>4
    <3> QED BY <1>3, <3>1, <3>2
  <2>3. Positions(queue') = Positions(queue)
    BY <2>2, StepEvents DEF TypeOK
  <2> QED BY <2>1, <2>3, Queued DEF TerminatorInv, NoneSent
<1>4. CASE \/ \E s \in Steps : \/ TaskStores(s)
                               \/ \E how \in {"ok", "failed", "cancelled", "panic"} : TaskEnds(s, how)
           \/ CallerCancels \/ Tick \/ WatchdogWakes \/ WatchdogFires \/ Resolve \/ UNCHANGED vars
  <2>1. /\ UNCHANGED <<queue, parked, listening, ends>>
        /\ phase' \in {"preflight", "run"} <=> phase \in {"preflight", "run"}
    BY <1>4 DEF TaskStores, TaskEnds, CallerCancels, Tick, WatchdogWakes, WatchdogFires, Resolve, vars
  <2>2. (OneSent' <=> OneSent) /\ (NoneSent' <=> NoneSent)
    BY <2>1 DEF OneSent, NoneSent, QueuedTerminators
  <2> QED BY <2>1, <2>2 DEF TerminatorInv
<1> QED BY <1>1, <1>2, <1>3, <1>4 DEF Next, Scheduler, Deadline

(* For any plan and any capacity of the events channel, on every path a    *)
(* run can end - pre-flight failure, panic, step failure, cancel,          *)
(* deadline, backstop - exactly one PipelineCompleted is sent to whoever   *)
(* still listens, and never a second one (emit_terminal_event).            *)
THEOREM ExactlyOneTerminator == Safety => []OneTerminator
<1> DEFINE I == TypeOK /\ TerminatorInv
<1>1. Init => I
  <2> SUFFICES ASSUME Init PROVE TerminatorInv
    BY TypeInit
  <2>1. QueuedTerminators = {}
    BY DEF Init, QueuedTerminators
  <2> QED BY <2>1 DEF Init, TerminatorInv, NoneSent
<1>2. I /\ [Next]_vars => I'
  BY TypeNext, TerminatorNext
<1>3. I => OneTerminator
  <2> SUFFICES ASSUME TypeOK, TerminatorInv PROVE OneTerminator
    OBVIOUS
  <2>1. NoneSent => TerminatorsSent = 0
    BY FS_EmptySet DEF NoneSent, TerminatorsSent
  <2>2. OneSent => TerminatorsSent = 1
    <3> SUFFICES ASSUME OneSent PROVE TerminatorsSent = 1
      OBVIOUS
    <3> DEFINE k == Cardinality(QueuedTerminators)
    <3>1. Len(<<>>) = 0
      OBVIOUS
    <3>2. ASSUME NEW i, QueuedTerminators = {i} PROVE k = 1
      BY <3>2, FS_Singleton
    <3>3. QueuedTerminators = {} => k = 0
      BY FS_EmptySet
    <3>4. \/ k = 1 /\ Len(parked) = 0 /\ Len(ends) = 0
          \/ k = 0 /\ Len(parked) = 1 /\ Len(ends) = 0
          \/ k = 0 /\ Len(parked) = 0 /\ Len(ends) = 1
      BY <3>1, <3>2, <3>3 DEF OneSent
    <3> HIDE DEF k
    <3> DEFINE m == Len(parked)
               n == Len(ends)
    <3>5. k \in Nat /\ m \in Nat /\ n \in Nat
      BY <3>4
    <3>6. (k = 1 /\ m = 0 /\ n = 0) \/ (k = 0 /\ m = 1 /\ n = 0) \/ (k = 0 /\ m = 0 /\ n = 1)
      BY <3>4
    <3> HIDE DEF m, n
    <3>7. k + m + n = 1
      BY <3>5, <3>6
    <3> QED BY <3>7 DEF TerminatorsSent, k, m, n
  <2> QED BY <2>1, <2>2 DEF TerminatorInv, OneTerminator
<1> QED BY <1>1, <1>2, <1>3, PTL DEF Safety
=============================================================================
