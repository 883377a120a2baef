-------------------------- MODULE StreamReadProofs --------------------------
(***************************************************************************)
(* TLAPS proofs for StreamRead: for any set of tasks, any buffer and chunk *)
(* sizes and any number of source items, reads of one handle deliver the   *)
(* source's bytes in order, without loss or repetition, and EOF is the     *)
(* end of the source.                                                      *)
(***************************************************************************)
EXTENDS StreamRead, TLAPS

(* The initial handle satisfies the inductive invariant.                   *)
LEMMA InitInv == Init => IInv
<1> SUFFICES ASSUME Init PROVE IInv
  OBVIOUS
<1> USE StreamReadAssumption DEF Init
<1>1. TypeOK
  <2>1. offer \in Items \cup {NoItem}
    OBVIOUS
  <2>2. leftover \in Intervals /\ left \in [Tasks -> Intervals]
    BY DEF NoBytes, Intervals
  <2>3. /\ items \in 0..MaxItems
        /\ pc \in [Tasks -> {"idle", "gate", "swap", "pull", "put"}]
        /\ buf \in [Tasks -> BufLens \cup {0}]
        /\ outcome \in [Tasks -> {"none", "data", "error", "eof", "released"}]
        /\ ret \in [Tasks -> {"none", "BYTES", "EOF", "CLOSED", "IO_ERROR", "CANCELLED"}]
    OBVIOUS
  <2>4. /\ finished \in BOOLEAN /\ pastEnd \in BOOLEAN /\ closed \in BOOLEAN
        /\ cancelled \in BOOLEAN /\ torn \in BOOLEAN /\ eofSeen \in BOOLEAN
        /\ lost \in BOOLEAN
    OBVIOUS
  <2> QED BY <2>1, <2>2, <2>3, <2>4 DEF TypeOK
<1>2. GateInv
  BY DEF GateInv, InGate
<1>3. ChunkInv
  BY DEF ChunkInv, NoBytes, IsNone
<1>4. SourceInv
  BY DEF SourceInv, Covers, NoBytes, IsNone
<1>5. EndInv
  BY DEF EndInv
<1> QED
  BY <1>1, <1>2, <1>3, <1>4, <1>5
  DEF IInv, ReadsFollowOn, EofIsTheEnd, NeverPolledPastEnd, TakenIsTheRest

(* Steps of the environment: the source gets an item ready, the token      *)
(* fires.                                                                  *)
LEMMA EnvironmentInv ==
  ASSUME IInv, (\E item \in Items : SourceReady(item)) \/ Cancel
  PROVE  IInv'
<1> USE StreamReadAssumption
    DEF IInv, TypeOK, GateInv, ChunkInv, SourceInv, EndInv, Covers, InGate, IsNone,
        ReadsFollowOn, EofIsTheEnd, NeverPolledPastEnd, TakenIsTheRest
<1>1. ASSUME NEW item \in Items, SourceReady(item) PROVE IInv'
  BY <1>1 DEF SourceReady, slotVars, taskVars, histVars
<1>2. CASE Cancel
  BY <1>2 DEF Cancel, srcVars, slotVars, taskVars, histVars
<1> QED BY <1>1, <1>2

(* The first steps of a read: the gate and the swap.                       *)
LEMMA EnterInv ==
  ASSUME IInv, NEW t \in Tasks,
         (\E n \in BufLens : ReadCall(t, n)) \/ ReadGate(t) \/ ReadClosed(t) \/ ReadSwap(t)
  PROVE  IInv'
<1> USE StreamReadAssumption
    DEF IInv, TypeOK, GateInv, ChunkInv, SourceInv, EndInv, Covers, InGate, IsNone,
        ReadsFollowOn, EofIsTheEnd, NeverPolledPastEnd, TakenIsTheRest, NoBytes, Intervals
<1>1. ASSUME NEW n \in BufLens, ReadCall(t, n) PROVE IInv'
  BY <1>1 DEF ReadCall, srcVars, slotVars, histVars
<1>2. CASE ReadGate(t)
  BY <1>2 DEF ReadGate, srcVars, slotVars, histVars
<1>3. CASE ReadClosed(t)
  BY <1>3 DEF ReadClosed, Leave, srcVars, slotVars, histVars
<1>4. CASE ReadSwap(t)
  <2> USE <1>4 DEF ReadSwap, srcVars, histVars
  <2>1. TypeOK'
    OBVIOUS
  <2>2. GateInv'
    OBVIOUS
  <2>3. ChunkInv'
    <3>1. leftover' = NoBytes /\ left'[t] = leftover
      OBVIOUS
    <3>2. CASE leftover.lo = leftover.hi
      <4>1. leftover = NoBytes
        BY <3>2
      <4> QED BY <3>1, <3>2, <4>1
    <3>3. CASE leftover.lo # leftover.hi
      BY <3>1, <3>3
    <3> QED BY <3>2, <3>3
  <2>4. SourceInv'
    OBVIOUS
  <2>5. EndInv'
    <3>1. holder \notin Tasks /\ gate = t
      BY DEF ReadSwap
    <3>2. holder = "slot" => ~finished
      OBVIOUS
    <3>3. holder # "slot" => finished \/ lost
      BY <3>1
    <3>4. \A u \in Tasks : u # t => pc[u] \notin InGate
      BY <3>1
    <3>5. holder' \in Tasks => holder' = t /\ ~finished'
      BY <3>1, <3>2
    <3>6. \A u \in Tasks : pc'[u] = "put" => outcome'[u] # "eof"
      BY <3>4
    <3>7. \A u \in Tasks : pc'[u] = "pull" /\ holder' # u => finished' \/ lost'
      BY <3>1, <3>3, <3>4
    <3>8. finished' => nextByte' = srcOff' /\ holder' # "slot"
      BY <3>2
    <3> QED BY <3>5, <3>6, <3>7, <3>8
  <2> QED BY <2>1, <2>2, <2>3, <2>4, <2>5
<1> QED BY <1>1, <1>2, <1>3, <1>4

(* The length of whatever the source has on offer is a number.             *)
LEMMA OfferLen ==
  ASSUME NEW o \in Items \cup {NoItem}
  PROVE  o.len \in Nat
<1>1. CASE o \in [kind : {"chunk"}, len : ChunkLens]
  <2>1. o.len \in ChunkLens
    BY <1>1
  <2> QED BY <2>1, StreamReadAssumption
<1>2. CASE o \in [kind : {"error", "end"}, len : {0}]
  BY <1>2
<1>3. CASE o = NoItem
  BY <1>3 DEF NoItem
<1> QED BY <1>1, <1>2, <1>3 DEF Items

(* The pull, with no lock held.                                            *)
LEMMA PullInv ==
  ASSUME IInv, NEW t \in Tasks, Pull(t)
  PROVE  IInv'
<1> USE StreamReadAssumption
    DEF IInv, TypeOK, GateInv, ChunkInv, SourceInv, EndInv, Covers, InGate, IsNone,
        ReadsFollowOn, EofIsTheEnd, NeverPolledPastEnd, TakenIsTheRest, NoBytes, Intervals,
        PullEnds, srcVars, slotVars, taskVars, histVars
<1>0. offer.len \in Nat
  BY OfferLen DEF IInv, TypeOK
<1>1. CASE PullStub(t)
  BY <1>1 DEF PullStub
<1>2. CASE PullEmptyChunk(t)
  BY <1>2 DEF PullEmptyChunk
<1>3. CASE PullChunk(t)
  <2> USE <1>0, <1>3 DEF PullChunk
  <2>1. TypeOK'
    OBVIOUS
  <2>2. GateInv'
    OBVIOUS
  <2>3. ChunkInv'
    OBVIOUS
  <2>4. SourceInv'
    OBVIOUS
  <2>5. EndInv'
    OBVIOUS
  <2>6. ReadsFollowOn' /\ EofIsTheEnd' /\ NeverPolledPastEnd' /\ TakenIsTheRest'
    OBVIOUS
  <2> QED BY <2>1, <2>2, <2>3, <2>4, <2>5, <2>6
<1>4. CASE PullError(t)
  BY <1>4 DEF PullError
<1>5. CASE PullEnd(t)
  BY <1>5 DEF PullEnd
<1>6. CASE PullReleased(t)
  BY <1>6 DEF PullReleased
<1> QED BY <1>1, <1>2, <1>3, <1>4, <1>5, <1>6 DEF Pull

(* The put-back, and the abort of a task at a suspension point.            *)
LEMMA LeaveInv ==
  ASSUME IInv, NEW t \in Tasks, ReadReturn(t) \/ ReadAborted(t)
  PROVE  IInv'
<1> USE StreamReadAssumption
    DEF IInv, TypeOK, GateInv, ChunkInv, SourceInv, EndInv, Covers, InGate, IsNone,
        ReadsFollowOn, EofIsTheEnd, NeverPolledPastEnd, TakenIsTheRest, NoBytes, Intervals,
        srcVars, slotVars, taskVars, histVars, Leave
<1>1. CASE ReadReturn(t)
  <2> USE <1>1 DEF ReadReturn, PutBack, Deliver, RecordError, CodeOf, Rest, Taken, Smaller
  <2>1. TypeOK'
    OBVIOUS
  <2>2. GateInv'
    OBVIOUS
  <2>3. ChunkInv'
    OBVIOUS
  <2>4. SourceInv'
    <3>1. holder' \notin Tasks
      OBVIOUS
    <3>2. holder' = "slot" => ~closed' /\ Covers(leftover)'
      <4>1. SUFFICES ASSUME holder' = "slot" PROVE ~closed' /\ Covers(leftover)'
        OBVIOUS
      <4>2. holder = t /\ ~closed /\ outcome[t] # "eof"
        BY <4>1
      <4>3. CASE outcome[t] = "data"
        <5>1. left[t].lo < left[t].hi /\ pc[t] = "put"
          BY <4>3
        <5>2. left[t].lo \in Nat /\ left[t].hi \in Nat /\ buf[t] \in Nat
          OBVIOUS
        <5>3. left[t].lo = nextByte /\ left[t].hi = srcOff
          BY <4>2, <5>1, <5>2
        <5>4. nextByte' = left[t].lo + Taken(t) /\ leftover' = Rest(t) /\ srcOff' = srcOff
          BY <4>2, <4>3
        <5>5. Taken(t) \in Nat /\ left[t].lo + Taken(t) <= left[t].hi
          BY <5>1, <5>2
        <5>6. CASE left[t].lo + Taken(t) < left[t].hi
          BY <4>2, <4>3, <5>2, <5>3, <5>4, <5>5, <5>6
        <5>7. CASE left[t].lo + Taken(t) = left[t].hi
          <6>1. leftover' = NoBytes
            BY <5>2, <5>4, <5>7
          <6> QED BY <4>2, <5>2, <5>3, <5>4, <5>5, <5>7, <6>1
        <5> QED BY <5>2, <5>5, <5>6, <5>7
      <4>4. CASE outcome[t] # "data"
        BY <4>2, <4>4
      <4> QED BY <4>3, <4>4
    <3>3. /\ holder' = "taken" => closed'
          /\ took' = "live" => holder' = "taken"
          /\ holder' = "dropped" => closed' \/ lost' \/ finished'
      OBVIOUS
    <3> QED BY <3>1, <3>2, <3>3
  <2>5. EndInv'
    OBVIOUS
  <2>6. ReadsFollowOn' /\ EofIsTheEnd' /\ NeverPolledPastEnd' /\ TakenIsTheRest'
    OBVIOUS
  <2> QED BY <2>1, <2>2, <2>3, <2>4, <2>5, <2>6
<1>2. CASE ReadAborted(t)
  <2> USE <1>2 DEF ReadAborted
  <2>1. TypeOK'
    OBVIOUS
  <2>2. GateInv'
    OBVIOUS
  <2>3. ChunkInv'
    OBVIOUS
  <2>4. SourceInv'
    BY ZenonT(40)
  <2>5. EndInv'
    OBVIOUS
  <2>6. ReadsFollowOn' /\ EofIsTheEnd' /\ NeverPolledPastEnd' /\ TakenIsTheRest'
    OBVIOUS
  <2> QED BY <2>1, <2>2, <2>3, <2>4, <2>5, <2>6
<1> QED BY <1>1, <1>2

(* stream_close and take_readable.                                         *)
LEMMA RegistryInv ==
  ASSUME IInv, Close \/ TakeReadable
  PROVE  IInv'
<1> USE StreamReadAssumption
    DEF IInv, TypeOK, GateInv, ChunkInv, SourceInv, EndInv, Covers, InGate, IsNone,
        ReadsFollowOn, EofIsTheEnd, NeverPolledPastEnd, TakenIsTheRest, NoBytes, Intervals,
        srcVars, slotVars, taskVars, histVars
<1>1. CASE Close
  BY <1>1 DEF Close
<1>2. CASE TakeReadable
  BY <1>2 DEF TakeReadable
<1> QED BY <1>1, <1>2

(* The inductive invariant holds in every reachable state.                 *)
THEOREM Invariance == Safety => []IInv
<1>1. IInv /\ [Next]_vars => IInv'
  <2> SUFFICES ASSUME IInv, [Next]_vars PROVE IInv'
    OBVIOUS
  <2>1. CASE UNCHANGED vars
    BY <2>1
    DEF IInv, TypeOK, GateInv, ChunkInv, SourceInv, EndInv, Covers, IsNone,
        ReadsFollowOn, EofIsTheEnd, NeverPolledPastEnd, TakenIsTheRest,
        vars, srcVars, slotVars, taskVars, histVars
  <2>2. CASE Next
    BY <2>2, EnvironmentInv, EnterInv, PullInv, LeaveInv, RegistryInv DEF Next
  <2> QED BY <2>1, <2>2
<1> QED BY <1>1, InitInv, PTL DEF Safety

(* Type correctness of the handle's state, read_async's locals included.   *)
THEOREM TypeCorrect == Safety => []TypeOK
  BY Invariance, PTL DEF IInv

(* Reads of several tasks on one handle never skip or repeat a byte,       *)
(* whatever closes, takes, cancels and aborts come between them.           *)
THEOREM ReadsInOrder == Safety => []ReadsFollowOn
  BY Invariance, PTL DEF IInv

(* STREAM_EOF is only reported once the source ended and all its bytes     *)
(* were delivered, or after an abort destroyed the source.                 *)
THEOREM EofTruthful == Safety => []EofIsTheEnd
  BY Invariance, PTL DEF IInv

(* A finished source is never polled again through the handle.             *)
THEOREM EofSticky == Safety => []NeverPolledPastEnd
  BY Invariance, PTL DEF IInv

(* A live take_readable hands over exactly the undelivered bytes.          *)
THEOREM TakeHandsOverTheRest == Safety => []TakenIsTheRest
  BY Invariance, PTL DEF IInv

(* The source of an open handle is in its slot or with the gate's holder.  *)
THEOREM SourceNeverMislaid == Safety => []SourceAccountedFor
<1>1. IInv => SourceAccountedFor
  BY DEF IInv, TypeOK, GateInv, SourceInv, SourceAccountedFor
<1> QED BY <1>1, Invariance, PTL
=============================================================================
