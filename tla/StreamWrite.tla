----------------------------- MODULE StreamWrite -----------------------------
(***************************************************************************)
(* One writable StreamState of the kernel (src/kernel/streams.rs): several *)
(* writers push chunks into a bounded mpsc channel, raced by stream_close, *)
(* the registry's drain, the cancellation token, the abort of a writing    *)
(* task and the receiver going away.                                       *)
(*                                                                         *)
(* write_async clones the sender under the per-stream lock and sends with  *)
(* no lock held, so a close does not end a write that is already under     *)
(* way, and the receiver sees EOF only when every clone is gone.  The      *)
(* kernel itself may hold one (writable_sender).                           *)
(***************************************************************************)
EXTENDS Integers, Sequences, FiniteSets

CONSTANTS
  Writers,    \* tasks that call stream_write on this handle
  Capacity,   \* the channel's bound
  MaxWrites   \* bound: chunks each task writes

ASSUME StreamWriteAssumption == Capacity \in Nat \ {0} /\ MaxWrites \in Nat

VARIABLES
  channel,    \* the mpsc channel: chunks sent and not yet received
  waiting,    \* the sends parked on the full channel, first come first served
  pc,         \* "idle", "send" (has a sender clone), "parked"
  tried,      \* chunks each writer has tried to write
  acked,      \* history: the chunks whose write returned their length
  ret,        \* the code each writer's last write returned
  closed,     \* StreamInner.closed: the slot's sender is dropped
  registered, \* the handle is in its table; drain removes it
  held,       \* the kernel holds a sender of its own
  lastError,  \* StreamInner.last_error is set
  cancelled,  \* the writers' CancellationToken has fired
  receiver,   \* "open", "eof" (it was told None) or "dropped"
  received    \* history: the chunks the receiver got

sendVars == <<pc, tried, acked, ret>>
slotVars == <<closed, registered, held, lastError>>
recvVars == <<receiver, received>>
vars == <<channel, waiting, sendVars, slotVars, cancelled, recvVars>>

Chunk(t, n) == [by |-> t, n |-> n]
InFlight(t) == pc[t] \in {"send", "parked"}
ReceiverGone == receiver = "dropped"

Init ==
  /\ channel = <<>> /\ waiting = <<>>
  /\ pc = [t \in Writers |-> "idle"]
  /\ tried = [t \in Writers |-> 0]
  /\ acked = <<>>
  /\ ret = [t \in Writers |-> "none"]
  /\ closed = FALSE /\ registered = TRUE /\ held \in BOOLEAN
  /\ lastError = FALSE
  /\ cancelled = FALSE
  /\ receiver = "open" /\ received = <<>>

-----------------------------------------------------------------------------
(* The bounded channel.  A permit that a receive frees goes to the sends   *)
(* that wait, in their order; only what is left is for newcomers.          *)

Free == Capacity - Len(channel)
Place(t) == CHOOSE i \in 1..Len(waiting) : waiting[i] = t
HasPermit(t) == IF pc[t] = "parked" THEN Place(t) <= Free ELSE Len(waiting) < Free
Without(t) ==
  IF pc[t] = "parked"
  THEN SubSeq(waiting, 1, Place(t) - 1) \o SubSeq(waiting, Place(t) + 1, Len(waiting))
  ELSE waiting

(* Some sender is left: the slot's, while the table or a call in flight    *)
(* keeps the stream; a writer's clone; the kernel's.                       *)
SenderLeft ==
  \/ ~closed /\ registered
  \/ \E t \in Writers : InFlight(t)
  \/ held

-----------------------------------------------------------------------------
(* write_async_shared / write_async                                        *)

WriteReturns(t, code) ==
  /\ pc' = [pc EXCEPT ![t] = "idle"]
  /\ ret' = [ret EXCEPT ![t] = code]

WriteRefused(t) ==
  /\ pc[t] = "idle" /\ tried[t] < MaxWrites
  /\ closed \/ ~registered
  /\ tried' = [tried EXCEPT ![t] = @ + 1]
  /\ WriteReturns(t, IF registered THEN "CLOSED" ELSE "INVALID_HANDLE")
  /\ UNCHANGED <<channel, waiting, acked, slotVars, cancelled, recvVars>>

WriteCall(t) ==
  /\ pc[t] = "idle" /\ tried[t] < MaxWrites
  /\ ~closed /\ registered
  /\ tried' = [tried EXCEPT ![t] = @ + 1]
  /\ pc' = [pc EXCEPT ![t] = "send"]
  /\ UNCHANGED <<channel, waiting, acked, ret, slotVars, cancelled, recvVars>>

SendCommits(t) ==
  /\ InFlight(t) /\ ~ReceiverGone
  /\ HasPermit(t)
  /\ channel' = Append(channel, Chunk(t, tried[t]))
  /\ waiting' = Without(t)
  /\ acked' = Append(acked, Chunk(t, tried[t]))
  /\ WriteReturns(t, "BYTES")
  /\ UNCHANGED <<tried, slotVars, cancelled, recvVars>>

SendFindsNoReceiver(t) ==
  /\ InFlight(t) /\ ReceiverGone
  /\ waiting' = Without(t)
  /\ WriteReturns(t, "CLOSED")
  /\ UNCHANGED <<channel, tried, acked, slotVars, cancelled, recvVars>>

(* Mutant: a full channel is not waited for, the chunk is dropped.         *)
SendParksNot(t) ==
  /\ pc[t] = "send" /\ ~ReceiverGone
  /\ ~HasPermit(t) /\ ~cancelled
  /\ acked' = Append(acked, Chunk(t, tried[t]))
  /\ WriteReturns(t, "BYTES")
  /\ UNCHANGED <<channel, waiting, tried, slotVars, cancelled, recvVars>>

SendParks(t) ==
  /\ pc[t] = "send" /\ ~ReceiverGone
  /\ ~HasPermit(t) /\ ~cancelled
  /\ pc' = [pc EXCEPT ![t] = "parked"]
  /\ waiting' = Append(waiting, t)
  /\ UNCHANGED <<channel, tried, acked, ret, slotVars, cancelled, recvVars>>

(* Mutant: only the first of the queue is released.                        *)
ReleaseFirst(t) ==
  /\ pc[t] = "parked" /\ ~ReceiverGone
  /\ ~HasPermit(t) /\ cancelled /\ closed
  /\ waiting' = Without(t)
  /\ lastError' = TRUE
  /\ WriteReturns(t, "CANCELLED")
  /\ UNCHANGED <<channel, tried, acked, closed, registered, held, cancelled, recvVars>>

(* The select! is biased towards the send: the token only releases a write *)
(* that has to wait.                                                       *)
SendReleased(t) ==
  /\ InFlight(t) /\ ~ReceiverGone
  /\ ~HasPermit(t) /\ cancelled
  /\ waiting' = Without(t)
  /\ lastError' = TRUE
  /\ WriteReturns(t, "CANCELLED")
  /\ UNCHANGED <<channel, tried, acked, closed, registered, held, cancelled, recvVars>>

(* The writing task is dropped while parked; its clone and place go.       *)
WriteAborted(t) ==
  /\ pc[t] = "parked"
  /\ waiting' = Without(t)
  /\ WriteReturns(t, "none")
  /\ UNCHANGED <<channel, tried, acked, slotVars, cancelled, recvVars>>

-----------------------------------------------------------------------------
(* The registry, the kernel's sender, the token.                           *)

Close ==
  /\ registered /\ ~closed
  /\ closed' = TRUE
  /\ UNCHANGED <<channel, waiting, sendVars, registered, held, lastError, cancelled, recvVars>>

Drain ==
  /\ registered
  /\ registered' = FALSE
  /\ UNCHANGED <<channel, waiting, sendVars, closed, held, lastError, cancelled, recvVars>>

DropHeld ==
  /\ held
  /\ held' = FALSE
  /\ UNCHANGED <<channel, waiting, sendVars, closed, registered, lastError, cancelled, recvVars>>

Cancel ==
  /\ ~cancelled
  /\ cancelled' = TRUE
  /\ UNCHANGED <<channel, waiting, sendVars, slotVars, recvVars>>

-----------------------------------------------------------------------------
(* The receiving end.                                                      *)

Receive ==
  /\ receiver = "open" /\ channel # <<>>
  /\ received' = Append(received, Head(channel))
  /\ channel' = Tail(channel)
  /\ UNCHANGED <<waiting, sendVars, slotVars, cancelled, receiver>>

ReceiveEof ==
  /\ receiver = "open" /\ channel = <<>>
  /\ ~SenderLeft
  /\ receiver' = "eof"
  /\ UNCHANGED <<channel, waiting, sendVars, slotVars, cancelled, received>>

DropReceiver ==
  /\ receiver = "open"
  /\ receiver' = "dropped"
  /\ channel' = <<>>
  /\ UNCHANGED <<waiting, sendVars, slotVars, cancelled, received>>

-----------------------------------------------------------------------------
Send(t) == SendCommits(t) \/ SendFindsNoReceiver(t) \/ SendParks(t) \/ SendReleased(t)

Next ==
  \/ \E t \in Writers : WriteRefused(t) \/ WriteCall(t) \/ Send(t) \/ WriteAborted(t)
  \/ Close \/ Drain \/ DropHeld \/ Cancel
  \/ Receive \/ ReceiveEof \/ DropReceiver

(* The executor polls a write that can move.  Nothing is assumed of the    *)
(* receiver.                                                               *)
Fairness == \A t \in Writers : WF_vars(Send(t))

Safety == Init /\ [][Next]_vars
Spec == Safety /\ Fairness
-----------------------------------------------------------------------------
Chunks == [by : Writers, n : 1..MaxWrites]

(* Every variable has the type StreamState and write_async give it; the    *)
(* channel never holds more than its bound.                                *)
TypeOK ==
  /\ channel \in Seq(Chunks) /\ Len(channel) <= Capacity
  /\ waiting \in Seq(Writers)
  /\ pc \in [Writers -> {"idle", "send", "parked"}]
  /\ tried \in [Writers -> 0..MaxWrites]
  /\ acked \in Seq(Chunks)
  /\ ret \in [Writers -> {"none", "BYTES", "CLOSED", "INVALID_HANDLE", "CANCELLED"}]
  /\ closed \in BOOLEAN /\ registered \in BOOLEAN /\ held \in BOOLEAN
  /\ lastError \in BOOLEAN /\ cancelled \in BOOLEAN
  /\ receiver \in {"open", "eof", "dropped"} /\ received \in Seq(Chunks)

(* A chunk reaches the receiver exactly if its write returned its length,  *)
(* in the order of the returns: a released, refused or aborted write       *)
(* leaves nothing behind, and closing the handle loses nothing.  EOF is    *)
(* final: a write under way when the handle was closed has been received   *)
(* before the receiver is told so, or fails (write_async's clone of the    *)
(* sender).                                                                *)
AckedIsDelivered ==
  /\ receiver # "dropped" => received \o channel = acked
  /\ receiver = "eof" => received = acked

(* Once the token fires every write returns, although the receiver never   *)
(* takes another chunk.                                                    *)
CancelReleasesWrites ==
  \A t \in Writers : (cancelled /\ InFlight(t)) ~> (pc[t] = "idle")
=============================================================================
