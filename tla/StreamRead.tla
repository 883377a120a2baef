----------------------------- MODULE StreamRead -----------------------------
(***************************************************************************)
(* One readable StreamState of the kernel (src/kernel/streams.rs) shared   *)
(* by several tasks: the swap-out / put-back protocol of read_async behind *)
(* the per-stream read gate, raced by stream_close, by take_readable, by   *)
(* the cancellation token and by the abort of a reading task.              *)
(*                                                                         *)
(* A read is four steps: take the gate, swap source and leftover out of    *)
(* the slot under the per-stream lock, pull with no lock held, put back    *)
(* and return.  Bytes are their positions in the source, so a chunk or a   *)
(* leftover is the half-open interval of positions it holds.               *)
(***************************************************************************)
EXTENDS Integers

CONSTANTS
  Tasks,      \* concurrent callers of stream_read on this handle
  BufLens,    \* sizes of the guest's read buffer
  ChunkLens,  \* sizes of the chunks the source yields; 0 is an empty chunk
  MaxItems,   \* bound: items but empty chunks the source makes ready
  NoTask      \* the read gate is free

ASSUME StreamReadAssumption ==
  /\ BufLens \subseteq Nat
  /\ ChunkLens \subseteq Nat
  /\ MaxItems \in Nat
  /\ NoTask \notin Tasks
  /\ Tasks \cap {"slot", "dropped", "taken"} = {}

VARIABLES
  offer,      \* the item the source has ready, or NoItem: the poll is Pending
  items,      \* how many items, empty chunks not counted, were made ready
  srcOff,     \* bytes the source has yielded
  finished,   \* the source has answered None
  pastEnd,    \* history: a finished source was polled again
  holder,     \* where the live source is: "slot", a task, "dropped", "taken"
  leftover,   \* StreamInner's partly consumed chunk
  closed,     \* StreamInner.closed
  lastError,  \* StreamInner.last_error
  gate,       \* StreamState.read_gate: the task that holds it
  pc,         \* where each task is inside read_async
  buf,        \* the length of the buffer each task passed
  left,       \* the chunk each task holds between swap-out and put-back
  outcome,    \* what each task's pull found
  ret,        \* the code each task's last read returned
  cancelled,  \* the invocation's CancellationToken has fired
  nextByte,   \* history: the first byte no read has delivered yet
  torn,       \* history: a read delivered bytes that do not follow on
  eofSeen,    \* history: a read returned STREAM_EOF
  lost,       \* history: an aborted read dropped the live source
  took,       \* what take_readable handed over: "no", "live", "stub"
  takenFrom   \* history: the first byte a live take handed over

srcVars  == <<offer, items, srcOff, finished, pastEnd>>
slotVars == <<holder, leftover, closed, lastError>>
taskVars == <<gate, pc, buf, left, outcome, ret>>
histVars == <<nextByte, torn, eofSeen, lost, took, takenFrom>>
vars == <<srcVars, slotVars, taskVars, cancelled, histVars>>

NoItem == [kind |-> "pending", len |-> 0]
EmptyChunk == [kind |-> "chunk", len |-> 0]
Items  == [kind : {"chunk"}, len : ChunkLens]
            \cup [kind : {"error", "end"}, len : {0}]

NoBytes   == [lo |-> 0, hi |-> 0]
IsNone(l) == l.lo = l.hi
Smaller(a, b) == IF a < b THEN a ELSE b

Init ==
  /\ offer = NoItem /\ items = 0 /\ srcOff = 0
  /\ finished = FALSE /\ pastEnd = FALSE
  /\ holder = "slot" /\ leftover = NoBytes
  /\ closed = FALSE /\ lastError = "none"
  /\ gate = NoTask
  /\ pc = [t \in Tasks |-> "idle"]
  /\ buf = [t \in Tasks |-> 0]
  /\ left = [t \in Tasks |-> NoBytes]
  /\ outcome = [t \in Tasks |-> "none"]
  /\ ret = [t \in Tasks |-> "none"]
  /\ cancelled = FALSE
  /\ nextByte = 0 /\ torn = FALSE /\ eofSeen = FALSE /\ lost = FALSE
  /\ took = "no" /\ takenFrom = 0

-----------------------------------------------------------------------------
(* The source: any async stream of chunks, empty chunks and error items.   *)
(* Nothing follows its end, and it may stay pending for ever or go on      *)
(* offering empty chunks for ever.                                         *)

SourceReady(item) ==
  /\ offer = NoItem
  /\ offer' = item
  /\ \/ item = EmptyChunk /\ items' = items
     \/ item # EmptyChunk /\ items < MaxItems /\ items' = items + 1
  /\ UNCHANGED <<srcOff, finished, pastEnd, slotVars, taskVars, cancelled, histVars>>

(* A caller cancels, or the wallclock watchdog fires the token.            *)
Cancel ==
  /\ ~cancelled
  /\ cancelled' = TRUE
  /\ UNCHANGED <<srcVars, slotVars, taskVars, histVars>>

-----------------------------------------------------------------------------
(* read_async                                                              *)

(* The call is over: its locals die, and the gate opens if it held it.     *)
Leave(t, code) ==
  /\ gate' = IF gate = t THEN NoTask ELSE gate
  /\ pc' = [pc EXCEPT ![t] = "idle"]
  /\ buf' = [buf EXCEPT ![t] = 0]
  /\ left' = [left EXCEPT ![t] = NoBytes]
  /\ outcome' = [outcome EXCEPT ![t] = "none"]
  /\ ret' = [ret EXCEPT ![t] = code]

(* Mutant: the read gate is gone.                                          *)
ReadCallUngated(t, n) ==
  /\ pc[t] = "idle"
  /\ buf' = [buf EXCEPT ![t] = n]
  /\ pc' = [pc EXCEPT ![t] = "swap"]
  /\ UNCHANGED <<srcVars, slotVars, gate, left, outcome, ret, cancelled, histVars>>

ReadCall(t, n) ==
  /\ pc[t] = "idle"
  /\ buf' = [buf EXCEPT ![t] = n]
  /\ IF gate = NoTask
     THEN gate' = t /\ pc' = [pc EXCEPT ![t] = "swap"]
     ELSE gate' = gate /\ pc' = [pc EXCEPT ![t] = "gate"]
  /\ UNCHANGED <<srcVars, slotVars, left, outcome, ret, cancelled, histVars>>

ReadGate(t) ==
  /\ pc[t] = "gate"
  /\ gate = NoTask
  /\ gate' = t
  /\ pc' = [pc EXCEPT ![t] = "swap"]
  /\ UNCHANGED <<srcVars, slotVars, buf, left, outcome, ret, cancelled, histVars>>

ReadClosed(t) ==
  /\ pc[t] = "swap"
  /\ closed
  /\ Leave(t, "CLOSED")
  /\ UNCHANGED <<srcVars, slotVars, cancelled, histVars>>

(* A slot whose source is away holds an exhausted stub, so the task that   *)
(* swaps it out gets nothing and its pull ends at once.                    *)
ReadSwap(t) ==
  /\ pc[t] = "swap"
  /\ ~closed
  /\ holder' = IF holder = "slot" THEN t ELSE holder
  /\ left' = [left EXCEPT ![t] = leftover]
  /\ leftover' = NoBytes
  /\ IF IsNone(leftover)
     THEN pc' = [pc EXCEPT ![t] = "pull"] /\ outcome' = outcome
     ELSE pc' = [pc EXCEPT ![t] = "put"] /\ outcome' = [outcome EXCEPT ![t] = "data"]
  /\ UNCHANGED <<srcVars, closed, lastError, gate, buf, ret, cancelled, histVars>>

PullEnds(t, o) ==
  /\ pc' = [pc EXCEPT ![t] = "put"]
  /\ outcome' = [outcome EXCEPT ![t] = o]

PullStub(t) ==
  /\ pc[t] = "pull"
  /\ holder # t
  /\ PullEnds(t, "eof")
  /\ UNCHANGED <<srcVars, slotVars, gate, buf, left, ret, cancelled, histVars>>

PullEmptyChunk(t) ==
  /\ pc[t] = "pull"
  /\ holder = t
  /\ offer = EmptyChunk
  /\ offer' = NoItem
  /\ UNCHANGED <<items, srcOff, finished, pastEnd, slotVars, taskVars, cancelled, histVars>>

PullChunk(t) ==
  /\ pc[t] = "pull"
  /\ holder = t
  /\ offer.kind = "chunk" /\ offer.len > 0
  /\ offer' = NoItem
  /\ srcOff' = srcOff + offer.len
  /\ left' = [left EXCEPT ![t] = [lo |-> srcOff, hi |-> srcOff + offer.len]]
  /\ PullEnds(t, "data")
  /\ UNCHANGED <<items, finished, pastEnd, slotVars, gate, buf, ret, cancelled, histVars>>

PullError(t) ==
  /\ pc[t] = "pull"
  /\ holder = t
  /\ offer.kind = "error"
  /\ offer' = NoItem
  /\ PullEnds(t, "error")
  /\ UNCHANGED <<items, srcOff, finished, pastEnd, slotVars, gate, buf, left, ret,
                 cancelled, histVars>>

(* The end stays on offer: polling a finished source again is what a bare  *)
(* unfused source answers with a panic.                                    *)
PullEnd(t) ==
  /\ pc[t] = "pull"
  /\ holder = t
  /\ offer.kind = "end"
  /\ finished' = TRUE
  /\ pastEnd' = (pastEnd \/ finished)
  /\ PullEnds(t, "eof")
  /\ UNCHANGED <<offer, items, srcOff, slotVars, gate, buf, left, ret, cancelled, histVars>>

(* Mutant: the token is only looked at on a closed handle.                 *)
PullReleasedIfClosed(t) ==
  /\ pc[t] = "pull"
  /\ holder = t
  /\ offer = NoItem
  /\ cancelled /\ closed
  /\ PullEnds(t, "released")
  /\ UNCHANGED <<srcVars, slotVars, gate, buf, left, ret, cancelled, histVars>>

(* The select! is biased towards the source: the token only releases a     *)
(* pull that has nothing ready.                                            *)
PullReleased(t) ==
  /\ pc[t] = "pull"
  /\ holder = t
  /\ offer = NoItem
  /\ cancelled
  /\ PullEnds(t, "released")
  /\ UNCHANGED <<srcVars, slotVars, gate, buf, left, ret, cancelled, histVars>>

(* What a put-back of task t's read delivers and what it leaves over.      *)
Taken(t) == Smaller(buf[t], left[t].hi - left[t].lo)
Rest(t)  == IF outcome[t] = "data" /\ left[t].lo + Taken(t) < left[t].hi
            THEN [lo |-> left[t].lo + Taken(t), hi |-> left[t].hi]
            ELSE NoBytes

CodeOf(o) == CASE o = "released" -> "CANCELLED"
               [] o = "error"    -> "IO_ERROR"
               [] o = "eof"      -> "EOF"
               [] OTHER          -> "BYTES"

RecordError(t) ==
  lastError' = CASE outcome[t] = "error"    -> "source"
                 [] outcome[t] = "released" -> "released"
                 [] OTHER                   -> lastError

(* Mutants: the rest of the chunk is forgotten; the ended source goes      *)
(* back; a failed source does not.                                         *)
PutBackWithoutRest(t) ==
  /\ holder' = IF holder # t THEN holder
               ELSE IF closed \/ outcome[t] = "eof" THEN "dropped" ELSE "slot"
  /\ leftover' = IF closed THEN leftover ELSE NoBytes

PutBackAtEof(t) ==
  /\ holder' = IF holder # t THEN holder ELSE IF closed THEN "dropped" ELSE "slot"
  /\ leftover' = IF closed THEN leftover ELSE Rest(t)

PutBackUnlessFailed(t) ==
  /\ holder' = IF holder # t THEN holder
               ELSE IF closed \/ outcome[t] \in {"eof", "error"} THEN "dropped" ELSE "slot"
  /\ leftover' = IF closed THEN leftover ELSE Rest(t)

(* The source goes back to the slot, unless the handle was closed while it *)
(* was away or it ended: then it is dropped.                               *)
PutBack(t) ==
  /\ holder' = IF holder # t THEN holder
               ELSE IF closed \/ outcome[t] = "eof" THEN "dropped" ELSE "slot"
  /\ leftover' = IF closed THEN leftover ELSE Rest(t)

Deliver(t) ==
  IF outcome[t] = "data"
  THEN /\ torn' = (torn \/ left[t].lo # nextByte)
       /\ nextByte' = left[t].lo + Taken(t)
       /\ eofSeen' = eofSeen
  ELSE /\ eofSeen' = (eofSeen \/ outcome[t] = "eof")
       /\ UNCHANGED <<torn, nextByte>>

ReadReturn(t) ==
  /\ pc[t] = "put"
  /\ RecordError(t)
  /\ PutBack(t)
  /\ Deliver(t)
  /\ Leave(t, CodeOf(outcome[t]))
  /\ UNCHANGED <<srcVars, closed, cancelled, lost, took, takenFrom>>

(* The task is dropped at a suspension point: a JoinSet abort (a cancelled *)
(* wave, another task's panic) or the wallclock wrapper's drop.  Whatever  *)
(* it swapped out goes with it, and the slot keeps the stub.               *)
ReadAborted(t) ==
  /\ pc[t] \in {"gate", "pull"}
  /\ Leave(t, "none")
  /\ holder' = IF holder = t THEN "dropped" ELSE holder
  /\ lost' = (lost \/ holder = t)
  /\ UNCHANGED <<srcVars, leftover, closed, lastError, cancelled,
                 nextByte, torn, eofSeen, took, takenFrom>>

-----------------------------------------------------------------------------
(* The registry operations on this stream.                                 *)

Close ==
  /\ closed' = TRUE
  /\ holder' = IF holder = "slot" THEN "dropped" ELSE holder
  /\ leftover' = NoBytes
  /\ UNCHANGED <<srcVars, lastError, taskVars, cancelled, histVars>>

(* Mutant: the leftover is not put in front of what is handed over.        *)
TakeWithoutLeftover ==
  /\ ~closed
  /\ closed' = TRUE
  /\ took' = IF holder = "slot" THEN "live" ELSE "stub"
  /\ holder' = IF holder = "slot" THEN "taken" ELSE holder
  /\ takenFrom' = srcOff
  /\ leftover' = NoBytes
  /\ UNCHANGED <<srcVars, lastError, taskVars, cancelled, nextByte, torn, eofSeen, lost>>

(* take_readable does not look at the read gate: while a read is in flight *)
(* what it moves out of the slot is the stub.                              *)
TakeReadable ==
  /\ ~closed
  /\ closed' = TRUE
  /\ took' = IF holder = "slot" THEN "live" ELSE "stub"
  /\ holder' = IF holder = "slot" THEN "taken" ELSE holder
  /\ takenFrom' = IF IsNone(leftover) THEN srcOff ELSE leftover.lo
  /\ leftover' = NoBytes
  /\ UNCHANGED <<srcVars, lastError, taskVars, cancelled, nextByte, torn, eofSeen, lost>>

-----------------------------------------------------------------------------
Pull(t) ==
  \/ PullStub(t)
  \/ PullEmptyChunk(t)
  \/ PullChunk(t)
  \/ PullError(t)
  \/ PullEnd(t)
  \/ PullReleased(t)

Next ==
  \/ \E item \in Items : SourceReady(item)
  \/ Cancel
  \/ \E t \in Tasks : \E n \in BufLens : ReadCall(t, n)
  \/ \E t \in Tasks : \/ ReadGate(t)
                      \/ ReadClosed(t)
                      \/ ReadSwap(t)
                      \/ Pull(t)
                      \/ ReadReturn(t)
                      \/ ReadAborted(t)
  \/ Close
  \/ TakeReadable

(* The executor keeps polling a task that can move.  The gate is a tokio   *)
(* mutex, which queues its waiters first come first served, so a waiter    *)
(* that finds it free again and again is not passed over for ever.         *)
Fairness ==
  /\ \A t \in Tasks : WF_vars(ReadClosed(t) \/ ReadSwap(t) \/ Pull(t) \/ ReadReturn(t))
  /\ \A t \in Tasks : SF_vars(ReadGate(t))

Safety == Init /\ [][Next]_vars
Spec == Safety /\ Fairness
-----------------------------------------------------------------------------
Intervals == [lo : Nat, hi : Nat]

(* Every variable has the type StreamState and read_async give it.         *)
TypeOK ==
  /\ offer \in Items \cup {NoItem} /\ items \in 0..MaxItems /\ srcOff \in Nat
  /\ finished \in BOOLEAN /\ pastEnd \in BOOLEAN
  /\ holder \in Tasks \cup {"slot", "dropped", "taken"}
  /\ leftover \in Intervals
  /\ closed \in BOOLEAN /\ lastError \in {"none", "source", "released"}
  /\ gate \in Tasks \cup {NoTask}
  /\ pc \in [Tasks -> {"idle", "gate", "swap", "pull", "put"}]
  /\ buf \in [Tasks -> BufLens \cup {0}]
  /\ left \in [Tasks -> Intervals]
  /\ outcome \in [Tasks -> {"none", "data", "error", "eof", "released"}]
  /\ ret \in [Tasks -> {"none", "BYTES", "EOF", "CLOSED", "IO_ERROR", "CANCELLED"}]
  /\ cancelled \in BOOLEAN
  /\ nextByte \in Nat /\ torn \in BOOLEAN /\ eofSeen \in BOOLEAN /\ lost \in BOOLEAN
  /\ took \in {"no", "live", "stub"} /\ takenFrom \in Nat

(* However reads of several tasks, closes, takes, cancels and aborts       *)
(* interleave, the bytes the reads return follow on from one another: no   *)
(* read skips a byte of the source or returns one twice.                   *)
ReadsFollowOn == ~torn

(* STREAM_EOF means "source exhausted": when a read has returned it, the   *)
(* source has ended and every byte was delivered - unless the abort of a   *)
(* reading task destroyed the source, which the handle cannot tell apart.  *)
EofIsTheEnd == eofSeen => (finished /\ nextByte = srcOff) \/ lost

(* EOF is sticky: a source that answered None is never polled again        *)
(* through the handle, however often the guest reads on.                   *)
NeverPolledPastEnd == ~pastEnd

(* A live take_readable hands over exactly the bytes no read delivered,    *)
(* and no read delivers any of them afterwards.                            *)
TakenIsTheRest == took = "live" => takenFrom = nextByte

(* While the handle is open and no abort or end took it away, the source   *)
(* is in the slot or with the one task inside the gate; in particular a    *)
(* read that was released or failed has put it back.                       *)
SourceAccountedFor ==
  ~closed /\ ~lost /\ ~finished =>
    holder = "slot" \/ (holder \in Tasks /\ holder = gate /\ pc[holder] \in {"pull", "put"})

(* The source offers no empty chunks from some time on: then it is         *)
(* pending, or it has something that ends a read.                          *)
EmptyChunksEnd == <>[](offer # EmptyChunk)

(* A read that was cancelled while it waits returns, whoever holds the     *)
(* gate: every holder is itself released by the same token.  The select!   *)
(* takes a ready item before the token and an empty chunk ends no read, so *)
(* read_async promises this only when EmptyChunksEnd; without it only an   *)
(* abort ends the read, and those queued on the gate wait with it.         *)
CancelReleasesReads ==
  EmptyChunksEnd =>
    \A t \in Tasks : (cancelled /\ pc[t] # "idle") ~> (pc[t] = "idle")

-----------------------------------------------------------------------------
(* The inductive invariant behind the safety properties.                   *)

InGate == {"swap", "pull", "put"}

(* The gate is held by exactly the task that is past it, only that task    *)
(* can have the source, and past the swap the slot has it no more.         *)
GateInv ==
  /\ \A t \in Tasks : gate = t <=> pc[t] \in InGate
  /\ holder \in Tasks => gate = holder /\ pc[holder] \in {"pull", "put"}
  /\ \A t \in Tasks : pc[t] \in {"pull", "put"} => holder # "slot"

(* A task has a chunk exactly when it is about to deliver it, and then it  *)
(* has the source too; the slot has one only beside the source.            *)
ChunkInv ==
  /\ \A t \in Tasks : IF pc[t] = "put" /\ outcome[t] = "data"
                       THEN holder = t /\ left[t].lo < left[t].hi
                       ELSE left[t] = NoBytes
  /\ \A t \in Tasks : pc[t] # "put" => outcome[t] = "none"
  /\ \A t \in Tasks : pc[t] = "put" => outcome[t] # "none"
  /\ leftover = NoBytes \/ leftover.lo < leftover.hi
  /\ ~IsNone(leftover) => holder = "slot"

(* A live source and the chunk beside it cover what reads did not deliver. *)
Covers(l) == IF IsNone(l) THEN nextByte = srcOff
             ELSE l.lo = nextByte /\ l.hi = srcOff

SourceInv ==
  /\ holder = "slot" => ~closed /\ Covers(leftover)
  /\ holder \in Tasks => Covers(left[holder])
  /\ holder = "taken" => closed
  /\ took = "live" => holder = "taken"
  /\ holder = "dropped" => closed \/ lost \/ finished

EndInv ==
  /\ finished => nextByte = srcOff /\ holder # "slot"
  /\ finished /\ holder \in Tasks => pc[holder] = "put" /\ outcome[holder] = "eof"
  /\ \A t \in Tasks : pc[t] = "put" /\ outcome[t] = "eof" => finished \/ lost
  /\ \A t \in Tasks : pc[t] = "pull" /\ holder # t => finished \/ lost

IInv ==
  /\ TypeOK
  /\ GateInv
  /\ ChunkInv
  /\ SourceInv
  /\ EndInv
  /\ ReadsFollowOn
  /\ EofIsTheEnd
  /\ NeverPolledPastEnd
  /\ TakenIsTheRest
=============================================================================
