------------------------- MODULE StreamingCallProofs -------------------------
(***************************************************************************)
(* TLAPS proofs for StreamWrite and StreamingCall: for any set of writers, *)
(* any channel bound and any number of chunks, the receiver gets exactly   *)
(* the acknowledged chunks in the order of their acknowledgements; the     *)
(* streaming call only ever uses its channel as a StreamWrite; and the way *)
(* the caller's stream ends tells how the callee did.                      *)
(***************************************************************************)
EXTENDS StreamingCall, SequenceTheorems, TLAPS

(* The queue of parked sends lists exactly the parked writers, each once.  *)
QueueInv ==
  /\ \A t \in Writers : pc[t] = "parked" <=> \E i \in 1..Len(waiting) : waiting[i] = t
  /\ \A i, j \in 1..Len(waiting) : waiting[i] = waiting[j] => i = j

(* A write under way has a number.                                         *)
NumberInv == \A t \in Writers : InFlight(t) => tried[t] # 0

(* EOF is told once no sender is left, and no sender comes back.           *)
EofInv == receiver = "eof" => ~SenderLeft /\ channel = <<>>

(* The channel's content is what is acknowledged and not yet received.     *)
OrderInv == receiver # "dropped" => received \o channel = acked

WriteInv == TypeOK /\ QueueInv /\ NumberInv /\ EofInv /\ OrderInv

(* The supervisor holds the kernel's sender until it has recorded how the  *)
(* callee ended, and the record stays until the caller has been given it.  *)
HeldInv ==
  /\ supervisor # "done" => held
  /\ supervisor # "joining" => callee # "running"
  /\ supervisor # "joining" /\ callee \in Failures => outcome = "failure" \/ errorItem
  /\ outcome = "failure" => callee \in Failures
  /\ receiver = "eof" => outcome = "none"

(* The failure item comes when the channel is exhausted for good.          *)
ErrorItemInv ==
  errorItem => ~SenderLeft /\ channel = <<>> /\ received = acked /\ callee \in Failures

CallInv == CallTypeOK /\ WriteInv /\ HeldInv /\ ErrorItemInv

-----------------------------------------------------------------------------
(* Sequences.                                                              *)

(* Sending after receiving: what was received, then the longer channel, is *)
(* the longer list of acknowledgements.                                    *)
LEMMA SendAppends ==
  ASSUME NEW S, NEW r \in Seq(S), NEW c \in Seq(S), NEW x \in S
  PROVE  r \o Append(c, x) = Append(r \o c, x)
<1>1. r \o c \in Seq(S) /\ <<x>> \in Seq(S)
  BY ConcatProperties
<1>2. Append(c, x) = c \o <<x>> /\ Append(r \o c, x) = (r \o c) \o <<x>>
  BY <1>1, AppendIsConcat
<1> QED BY <1>1, <1>2, ConcatAssociative

(* Receiving moves the channel's head to the end of what was received.     *)
LEMMA ReceiveMoves ==
  ASSUME NEW S, NEW r \in Seq(S), NEW c \in Seq(S), c # <<>>
  PROVE  /\ Append(r, Head(c)) \in Seq(S) /\ Tail(c) \in Seq(S)
         /\ Append(r, Head(c)) \o Tail(c) = r \o c
<1>1. Head(c) \in S /\ Tail(c) \in Seq(S)
  BY HeadTailProperties
<1>2. <<Head(c)>> \in Seq(S) /\ Append(r, Head(c)) \in Seq(S)
  BY <1>1
<1>3. Append(r, Head(c)) = r \o <<Head(c)>>
  BY <1>1, AppendIsConcat
<1>4. (r \o <<Head(c)>>) \o Tail(c) = r \o (<<Head(c)>> \o Tail(c))
  BY <1>1, <1>2, ConcatAssociative
<1>5. <<Head(c)>> \o Tail(c) = c
  <2> DEFINE h == <<Head(c)>> \o Tail(c)
  <2>1. /\ h \in Seq(S) /\ Len(h) = 1 + Len(Tail(c))
        /\ \A i \in 1..1 + Len(Tail(c)) :
             h[i] = IF i <= 1 THEN <<Head(c)>>[i] ELSE Tail(c)[i - 1]
    BY <1>1, <1>2, ConcatProperties
  <2>2. /\ Len(c) \in Nat \ {0} /\ Len(Tail(c)) = Len(c) - 1
        /\ \A i \in 1..Len(Tail(c)) : Tail(c)[i] = c[i + 1]
    BY HeadTailProperties, EmptySeq
  <2>3. Head(c) = c[1]
    OBVIOUS
  <2>4. \A i \in 1..Len(h) : h[i] = c[i]
    <3> SUFFICES ASSUME NEW i \in 1..Len(h) PROVE h[i] = c[i]
      OBVIOUS
    <3>1. CASE i = 1
      BY <3>1, <2>1, <2>2, <2>3
    <3>2. CASE i # 1
      <4>1. i - 1 \in 1..Len(Tail(c)) /\ h[i] = Tail(c)[i - 1]
        BY <3>2, <2>1, <2>2
      <4>2. Tail(c)[i - 1] = c[i - 1 + 1]
        BY <4>1, <2>2
      <4> QED BY <4>1, <4>2
    <3> QED BY <3>1, <3>2
  <2> QED BY <2>1, <2>2, <2>4, SeqEqual
<1> QED BY <1>1, <1>2, <1>3, <1>4, <1>5

(* Taking place p out of a sequence keeps the other elements, in order.    *)
LEMMA PlaceTaken ==
  ASSUME NEW S, NEW w \in Seq(S), NEW p \in 1..Len(w)
  PROVE  LET v == SubSeq(w, 1, p - 1) \o SubSeq(w, p + 1, Len(w))
         IN  /\ v \in Seq(S) /\ Len(v) = Len(w) - 1
             /\ \A i \in 1..Len(w) - 1 : v[i] = IF i < p THEN w[i] ELSE w[i + 1]
<1> DEFINE n == Len(w)
           a == SubSeq(w, 1, p - 1)
           b == SubSeq(w, p + 1, n)
           v == a \o b
<1>1. n \in Nat /\ p \in 1..n /\ \A i \in 1..n : w[i] \in S
  OBVIOUS
<1>2. a \in Seq(S) /\ Len(a) = p - 1 /\ \A i \in 1..p - 1 : a[i] = w[i]
  <2>1. p - 1 \in Int /\ \A i \in 1..p - 1 : w[i] \in S
    BY <1>1
  <2>2. /\ a \in Seq(S) /\ Len(a) = IF 1 <= p - 1 THEN p - 1 - 1 + 1 ELSE 0
        /\ \A i \in 1..p - 1 - 1 + 1 : a[i] = w[1 + i - 1]
    BY <2>1, SubSeqProperties
  <2> QED BY <2>2, <1>1
<1>3. b \in Seq(S) /\ Len(b) = n - p /\ \A i \in 1..n - p : b[i] = w[p + i]
  <2>1. p + 1 \in Int /\ n \in Int /\ \A i \in p + 1..n : w[i] \in S
    BY <1>1
  <2>2. /\ b \in Seq(S)
        /\ Len(b) = IF p + 1 <= n THEN n - (p + 1) + 1 ELSE 0
        /\ \A i \in 1..n - (p + 1) + 1 : b[i] = w[p + 1 + i - 1]
    BY <2>1, SubSeqProperties
  <2> QED BY <2>2, <1>1
<1>4. /\ v \in Seq(S) /\ Len(v) = Len(a) + Len(b)
      /\ \A i \in 1..Len(a) + Len(b) : v[i] = IF i <= Len(a) THEN a[i] ELSE b[i - Len(a)]
  BY <1>2, <1>3, ConcatProperties
<1> HIDE DEF n, a, b, v
<1>5. ASSUME NEW i \in 1..n - 1
      PROVE  v[i] = IF i < p THEN w[i] ELSE w[i + 1]
  <2>1. CASE i < p
    BY <2>1, <1>1, <1>2, <1>3, <1>4
  <2>2. CASE ~(i < p)
    <3>1. i - (p - 1) \in 1..n - p /\ v[i] = b[i - (p - 1)]
      BY <2>2, <1>1, <1>2, <1>3, <1>4
    <3>2. b[i - (p - 1)] = w[p + (i - (p - 1))] /\ p + (i - (p - 1)) = i + 1
      BY <3>1, <1>1, <1>3
    <3> QED BY <2>2, <3>1, <3>2
  <2> QED BY <2>1, <2>2
<1>6. v \in Seq(S) /\ Len(v) = n - 1
  BY <1>1, <1>2, <1>3, <1>4
<1> QED BY <1>5, <1>6 DEF v, n, a, b
-----------------------------------------------------------------------------
(* The writable stream.                                                    *)

(* A parked send has a place in the queue, which Place finds.              *)
LEMMA PlaceIsAPlace ==
  ASSUME QueueInv, NEW t \in Writers, pc[t] = "parked"
  PROVE  Place(t) \in 1..Len(waiting) /\ waiting[Place(t)] = t
<1>1. \E i \in 1..Len(waiting) : waiting[i] = t
  BY DEF QueueInv
<1> QED BY <1>1 DEF Place

(* A send that returns, however it does, leaves the queue of the others as *)
(* it was.                                                                 *)
LEMMA LeavesQueue ==
  ASSUME TypeOK, QueueInv, NEW t \in Writers, InFlight(t),
         waiting' = Without(t), pc' = [pc EXCEPT ![t] = "idle"]
  PROVE  waiting' \in Seq(Writers) /\ QueueInv'
<1>1. CASE pc[t] = "send"
  <2>1. waiting' = waiting
    BY <1>1 DEF Without
  <2> QED BY <1>1, <2>1 DEF TypeOK, QueueInv
<1>2. CASE pc[t] = "parked"
  <2> DEFINE p == Place(t)
             n == Len(waiting)
  <2>1. p \in 1..n /\ waiting[p] = t
    BY <1>2, PlaceIsAPlace
  <2>2. waiting' = SubSeq(waiting, 1, p - 1) \o SubSeq(waiting, p + 1, n)
    BY <1>2 DEF Without
  <2>3. waiting \in Seq(Writers) /\ n \in Nat
    BY DEF TypeOK
  <2> HIDE DEF p
  <2>4. /\ waiting' \in Seq(Writers) /\ Len(waiting') = n - 1
        /\ \A i \in 1..n - 1 : waiting'[i] = IF i < p THEN waiting[i] ELSE waiting[i + 1]
    <3> DEFINE v == SubSeq(waiting, 1, p - 1) \o SubSeq(waiting, p + 1, Len(waiting))
    <3>1. /\ v \in Seq(Writers) /\ Len(v) = Len(waiting) - 1
          /\ \A i \in 1..Len(waiting) - 1 : v[i] = IF i < p THEN waiting[i] ELSE waiting[i + 1]
      BY <2>1, <2>3, PlaceTaken, Zenon
    <3>2. waiting' = v
      BY <2>2
    <3> HIDE DEF v
    <3> QED BY <3>1, <3>2
  <2> HIDE DEF n
  <2> DEFINE was(i) == IF i < p THEN i ELSE i + 1
  <2>5. \A i \in 1..n - 1 : was(i) \in (1..n) \ {p} /\ waiting'[i] = waiting[was(i)]
    BY <2>1, <2>3, <2>4
  <2>6. \A i, j \in 1..n - 1 : was(i) = was(j) => i = j
    BY <2>1, <2>3
  <2>7. \A k \in (1..n) \ {p} : \E i \in 1..n - 1 : was(i) = k
    <3> TAKE k \in (1..n) \ {p}
    <3>1. CASE k < p
      <4>1. k \in 1..n - 1 /\ was(k) = k
        BY <3>1, <2>1, <2>3
      <4> QED BY <4>1
    <3>2. CASE k > p
      <4>1. k - 1 \in 1..n - 1 /\ was(k - 1) = k
        BY <3>2, <2>1, <2>3
      <4> QED BY <4>1
    <3> QED BY <3>1, <3>2, <2>1, <2>3
  <2> HIDE DEF was
  <2>8. \A i, j \in 1..n : waiting[i] = waiting[j] => i = j
    BY DEF QueueInv, n
  <2>9. ASSUME NEW u \in Writers
        PROVE  pc'[u] = "parked" <=> \E i \in 1..n - 1 : waiting'[i] = u
    <3>1. CASE u = t
      <4>1. pc'[u] # "parked"
        BY <3>1 DEF TypeOK
      <4>2. \A i \in 1..n - 1 : waiting'[i] # u
        BY <3>1, <2>1, <2>5, <2>8
      <4> QED BY <4>1, <4>2
    <3>2. CASE u # t
      <4>1. pc'[u] = pc[u]
        BY <3>2 DEF TypeOK
      <4>2. pc[u] = "parked" <=> \E i \in 1..n : waiting[i] = u
        BY DEF QueueInv, n
      <4>3. (\E i \in 1..n : waiting[i] = u) <=> (\E i \in (1..n) \ {p} : waiting[i] = u)
        BY <3>2, <2>1
      <4>4. (\E i \in (1..n) \ {p} : waiting[i] = u) <=> (\E i \in 1..n - 1 : waiting'[i] = u)
        BY <2>5, <2>7
      <4> QED BY <4>1, <4>2, <4>3, <4>4
    <3> QED BY <3>1, <3>2
  <2>10. \A i, j \in 1..n - 1 : waiting'[i] = waiting'[j] => i = j
    BY <2>5, <2>6, <2>8
  <2> QED BY <2>4, <2>9, <2>10 DEF QueueInv
<1> QED BY <1>1, <1>2 DEF InFlight

(* A send that parks takes the last place.                                 *)
LEMMA JoinsQueue ==
  ASSUME TypeOK, QueueInv, NEW t \in Writers, pc[t] = "send",
         waiting' = Append(waiting, t), pc' = [pc EXCEPT ![t] = "parked"]
  PROVE  waiting' \in Seq(Writers) /\ QueueInv'
<1> DEFINE n == Len(waiting)
<1>1. n \in Nat /\ waiting \in Seq(Writers)
  BY DEF TypeOK
<1>2. /\ waiting' \in Seq(Writers) /\ Len(waiting') = n + 1
      /\ \A i \in 1..n : waiting'[i] = waiting[i]
      /\ waiting'[n + 1] = t
  BY <1>1, AppendProperties
<1>3. \A i \in 1..n : waiting[i] # t
  BY DEF QueueInv
<1> HIDE DEF n
<1>4. \A i, j \in 1..n : waiting[i] = waiting[j] => i = j
  BY DEF QueueInv, n
<1>5. \A i, j \in 1..n + 1 : waiting'[i] = waiting'[j] => i = j
  BY <1>1, <1>2, <1>3, <1>4
<1>6. ASSUME NEW u \in Writers
      PROVE  pc'[u] = "parked" <=> \E i \in 1..n + 1 : waiting'[i] = u
  <2>1. CASE u = t
    <3>1. pc'[u] = "parked"
      BY <2>1 DEF TypeOK
    <3>2. n + 1 \in 1..n + 1
      BY <1>1
    <3> QED BY <2>1, <3>1, <3>2, <1>2
  <2>2. CASE u # t
    <3>1. pc'[u] = pc[u]
      BY <2>2 DEF TypeOK
    <3>2. pc[u] = "parked" <=> \E i \in 1..n : waiting[i] = u
      BY DEF QueueInv, n
    <3>3. (\E i \in 1..n : waiting[i] = u) <=> (\E i \in 1..n + 1 : waiting'[i] = u)
      BY <1>1, <1>2, <2>2
    <3> QED BY <3>1, <3>2, <3>3
  <2> QED BY <2>1, <2>2
<1> QED BY <1>2, <1>5, <1>6 DEF QueueInv
-----------------------------------------------------------------------------
(* A fresh stream satisfies the invariant.                                 *)
LEMMA WriteInitInv == Init => WriteInv
<1> SUFFICES ASSUME Init PROVE WriteInv
  OBVIOUS
<1> USE StreamWriteAssumption DEF Init
<1>1. TypeOK
  <2>1. channel \in Seq(Chunks) /\ waiting \in Seq(Writers) /\ acked \in Seq(Chunks)
        /\ received \in Seq(Chunks) /\ Len(channel) <= Capacity
    BY EmptySeq
  <2>2. /\ pc \in [Writers -> {"idle", "send", "parked"}]
        /\ tried \in [Writers -> 0..MaxWrites]
        /\ ret \in [Writers -> {"none", "BYTES", "CLOSED", "INVALID_HANDLE", "CANCELLED"}]
        /\ receiver \in {"open", "eof", "dropped"}
    OBVIOUS
  <2>3. /\ closed \in BOOLEAN /\ registered \in BOOLEAN /\ held \in BOOLEAN
        /\ lastError \in BOOLEAN /\ cancelled \in BOOLEAN
    OBVIOUS
  <2> QED BY <2>1, <2>2, <2>3 DEF TypeOK
<1>2. QueueInv /\ NumberInv /\ EofInv
  BY DEF QueueInv, NumberInv, InFlight, EofInv
<1>3. OrderInv
  BY DEF OrderInv
<1> QED BY <1>1, <1>2, <1>3 DEF WriteInv

(* Calls of stream_write that start or are refused leave the channel.      *)
LEMMA WriteCallInv ==
  ASSUME WriteInv, NEW t \in Writers, WriteRefused(t) \/ WriteCall(t)
  PROVE  WriteInv'
<1> USE StreamWriteAssumption
    DEF WriteInv, TypeOK, NumberInv, EofInv, OrderInv, SenderLeft, InFlight, slotVars, recvVars
<1>1. CASE WriteRefused(t)
  <2> USE <1>1 DEF WriteRefused, WriteReturns
  <2>1. TypeOK'
    OBVIOUS
  <2>2. QueueInv'
    <3>1. pc' = pc
      OBVIOUS
    <3> QED BY <3>1 DEF QueueInv
  <2>3. NumberInv' /\ EofInv'
    OBVIOUS
  <2>4. OrderInv'
    OBVIOUS
  <2> QED BY <2>1, <2>2, <2>3, <2>4
<1>2. CASE WriteCall(t)
  <2> USE <1>2 DEF WriteCall
  <2>1. TypeOK'
    OBVIOUS
  <2>2. QueueInv'
    BY DEF QueueInv
  <2>3. NumberInv' /\ EofInv'
    OBVIOUS
  <2>4. OrderInv'
    OBVIOUS
  <2> QED BY <2>1, <2>2, <2>3, <2>4
<1> QED BY <1>1, <1>2

(* The channel has room for a send with a permit.                          *)
LEMMA PermitIsRoom ==
  ASSUME TypeOK, QueueInv, NEW t \in Writers, InFlight(t), HasPermit(t)
  PROVE  Len(channel) < Capacity
<1>1. Len(channel) \in Nat /\ Len(waiting) \in Nat /\ Capacity \in Nat
  BY StreamWriteAssumption DEF TypeOK
<1>2. CASE pc[t] = "parked"
  <2>1. Place(t) \in 1..Len(waiting) /\ Place(t) <= Free
    BY <1>2, PlaceIsAPlace DEF HasPermit
  <2> QED BY <1>1, <2>1 DEF Free
<1>3. CASE pc[t] # "parked"
  <2>1. Len(waiting) < Free
    BY <1>3 DEF HasPermit
  <2> QED BY <1>1, <2>1 DEF Free
<1> QED BY <1>2, <1>3

(* A send that goes through puts its chunk at the end of the channel, and  *)
(* its acknowledgement at the end of the acknowledgements.                 *)
LEMMA SendCommitsInv ==
  ASSUME WriteInv, NEW t \in Writers, SendCommits(t)
  PROVE  WriteInv'
<1> USE DEF WriteInv
<1> DEFINE c == Chunk(t, tried[t])
<1>1. c \in Chunks
  BY StreamWriteAssumption DEF SendCommits, Chunk, Chunks, TypeOK, NumberInv, InFlight
<1>2. waiting' \in Seq(Writers) /\ QueueInv'
  BY LeavesQueue DEF SendCommits, WriteReturns
<1>3. channel \in Seq(Chunks) /\ received \in Seq(Chunks) /\ acked \in Seq(Chunks)
  BY DEF TypeOK
<1>4. channel' = Append(channel, c) /\ acked' = Append(acked, c)
  BY DEF SendCommits
<1>5. InFlight(t) /\ ~ReceiverGone /\ HasPermit(t)
  BY DEF SendCommits
<1> HIDE DEF c
<1>6. TypeOK'
  <2>1. channel' \in Seq(Chunks) /\ Len(channel') = Len(channel) + 1 /\ acked' \in Seq(Chunks)
    BY <1>1, <1>3, <1>4, AppendProperties
  <2>2. Len(channel') <= Capacity
    BY <2>1, <1>3, <1>5, PermitIsRoom, StreamWriteAssumption
  <2>3. /\ pc' \in [Writers -> {"idle", "send", "parked"}]
        /\ ret' \in [Writers -> {"none", "BYTES", "CLOSED", "INVALID_HANDLE", "CANCELLED"}]
    BY DEF SendCommits, WriteReturns, TypeOK
  <2> QED BY <1>2, <2>1, <2>2, <2>3 DEF SendCommits, TypeOK, slotVars, recvVars
<1>7. NumberInv'
  BY DEF SendCommits, WriteReturns, NumberInv, InFlight, TypeOK
<1>8. EofInv'
  BY <1>5 DEF SendCommits, EofInv, SenderLeft, recvVars
<1>9. OrderInv'
  <2>1. received' = received /\ received \o channel = acked
    BY <1>5 DEF SendCommits, OrderInv, ReceiverGone, recvVars
  <2>2. received \o Append(channel, c) = Append(received \o channel, c)
    BY <1>1, <1>3, SendAppends
  <2> QED BY <1>4, <2>1, <2>2 DEF OrderInv
<1> QED BY <1>2, <1>6, <1>7, <1>8, <1>9

(* A send that fails, is released by the token or dies with its task       *)
(* leaves its place and nothing else.                                      *)
LEMMA SendGivesUpInv ==
  ASSUME WriteInv, NEW t \in Writers,
         SendFindsNoReceiver(t) \/ SendReleased(t) \/ WriteAborted(t)
  PROVE  WriteInv'
<1> USE DEF WriteInv
<1>1. /\ InFlight(t) /\ waiting' = Without(t) /\ pc' = [pc EXCEPT ![t] = "idle"]
      /\ \E code \in {"none", "CLOSED", "CANCELLED"} : ret' = [ret EXCEPT ![t] = code]
      /\ lastError' \in {lastError, TRUE}
      /\ UNCHANGED <<channel, tried, acked, closed, registered, held, cancelled, receiver, received>>
  BY DEF SendFindsNoReceiver, SendReleased, WriteAborted, WriteReturns, InFlight, slotVars, recvVars
<1>2. waiting' \in Seq(Writers) /\ QueueInv'
  BY <1>1, LeavesQueue
<1>3. TypeOK'
  <2>1. /\ pc' \in [Writers -> {"idle", "send", "parked"}]
        /\ ret' \in [Writers -> {"none", "BYTES", "CLOSED", "INVALID_HANDLE", "CANCELLED"}]
    BY <1>1 DEF TypeOK
  <2> QED BY <1>1, <1>2, <2>1 DEF TypeOK
<1>4. NumberInv' /\ EofInv'
  BY <1>1 DEF NumberInv, EofInv, SenderLeft, InFlight, TypeOK
<1>5. OrderInv'
  BY <1>1 DEF OrderInv
<1> QED BY <1>2, <1>3, <1>4, <1>5

(* A send that parks keeps its sender.                                     *)
LEMMA SendParksInv ==
  ASSUME WriteInv, NEW t \in Writers, SendParks(t)
  PROVE  WriteInv'
<1> USE DEF WriteInv, SendParks
<1>1. waiting' \in Seq(Writers) /\ QueueInv'
  BY JoinsQueue
<1>2. TypeOK'
  <2>1. pc' \in [Writers -> {"idle", "send", "parked"}]
    BY DEF TypeOK
  <2> QED BY <1>1, <2>1 DEF TypeOK, slotVars, recvVars
<1>3. NumberInv' /\ EofInv'
  BY DEF NumberInv, EofInv, SenderLeft, InFlight, TypeOK, slotVars, recvVars
<1>4. OrderInv'
  BY DEF OrderInv, recvVars
<1> QED BY <1>1, <1>2, <1>3, <1>4

(* Close, drain, the kernel's sender and the token leave the channel.      *)
LEMMA SlotInv ==
  ASSUME WriteInv, Close \/ Drain \/ DropHeld \/ Cancel
  PROVE  WriteInv'
<1> USE DEF WriteInv, Close, Drain, DropHeld, Cancel, sendVars, slotVars, recvVars
<1>1. TypeOK'
  BY DEF TypeOK
<1>2. QueueInv' /\ NumberInv' /\ EofInv'
  BY DEF QueueInv, NumberInv, EofInv, SenderLeft, InFlight
<1>3. OrderInv'
  BY DEF OrderInv
<1> QED BY <1>1, <1>2, <1>3

(* The receiving end moves chunks from the channel to the receiver, in     *)
(* order, and goes away with an empty channel.                             *)
LEMMA ReceiverInv ==
  ASSUME WriteInv, Receive \/ ReceiveEof \/ DropReceiver
  PROVE  WriteInv'
<1> USE DEF WriteInv, sendVars, slotVars
<1>0. QueueInv' /\ NumberInv'
  BY DEF Receive, ReceiveEof, DropReceiver, QueueInv, NumberInv, InFlight
<1>1. CASE Receive
  <2> USE <1>1 DEF Receive
  <2>1. channel \in Seq(Chunks) /\ received \in Seq(Chunks) /\ channel # <<>>
    BY DEF TypeOK
  <2>2. /\ received' \in Seq(Chunks) /\ channel' \in Seq(Chunks)
        /\ received' \o channel' = received \o channel
    BY <2>1, ReceiveMoves
  <2>3. Len(channel') <= Capacity
    <3>1. Len(channel') = Len(channel) - 1 /\ Len(channel) \in Nat
      BY <2>1, HeadTailProperties
    <3> QED BY <3>1, StreamWriteAssumption DEF TypeOK
  <2>4. TypeOK'
    BY <2>2, <2>3 DEF TypeOK
  <2>5. EofInv'
    BY DEF EofInv
  <2>6. OrderInv'
    BY <2>2 DEF OrderInv
  <2> QED BY <1>0, <2>4, <2>5, <2>6
<1>2. CASE ReceiveEof
  BY <1>0, <1>2 DEF ReceiveEof, TypeOK, EofInv, SenderLeft, InFlight, OrderInv
<1>3. CASE DropReceiver
  <2>1. TypeOK'
    BY <1>3, StreamWriteAssumption DEF DropReceiver, TypeOK
  <2> QED BY <1>0, <1>3, <2>1 DEF DropReceiver, EofInv, OrderInv
<1> QED BY <1>1, <1>2, <1>3

(* Every step of the writable stream keeps the invariant.                  *)
LEMMA WriteNextInv == WriteInv /\ [Next]_vars => WriteInv'
<1> SUFFICES ASSUME WriteInv, [Next]_vars PROVE WriteInv'
  OBVIOUS
<1>1. ASSUME NEW t \in Writers, WriteRefused(t) \/ WriteCall(t) \/ Send(t) \/ WriteAborted(t)
      PROVE  WriteInv'
  BY <1>1, WriteCallInv, SendCommitsInv, SendGivesUpInv, SendParksInv DEF Send
<1>2. CASE Close \/ Drain \/ DropHeld \/ Cancel
  BY <1>2, SlotInv
<1>3. CASE Receive \/ ReceiveEof \/ DropReceiver
  BY <1>3, ReceiverInv
<1>4. CASE UNCHANGED vars
  BY <1>4 DEF vars, sendVars, slotVars, recvVars, WriteInv, TypeOK, QueueInv, NumberInv, EofInv,
     OrderInv, SenderLeft, InFlight
<1> QED BY <1>1, <1>2, <1>3, <1>4 DEF Next

(* What the invariant says of the receiver.                                *)
LEMMA WriteInvDelivers == WriteInv => AckedIsDelivered
<1> SUFFICES ASSUME WriteInv PROVE AckedIsDelivered
  OBVIOUS
<1>1. received \in Seq(Chunks) /\ received \o <<>> = received
  BY ConcatEmptySeq DEF WriteInv, TypeOK
<1> QED BY <1>1 DEF WriteInv, AckedIsDelivered, OrderInv, EofInv

(* Every variable of a writable stream keeps its type, and the channel     *)
(* never holds more than its bound however many sends are parked on it: a  *)
(* permit a receive frees goes to one send (mpsc, write_async).            *)
THEOREM ChannelBounded == Safety => []TypeOK
<1>1. WriteInv => TypeOK
  BY DEF WriteInv
<1> QED BY WriteInitInv, WriteNextInv, <1>1, PTL DEF Safety

(* For any writers and any bound, whatever closes, drains, cancels and     *)
(* aborts race the writes: the receiver gets exactly the chunks whose      *)
(* write returned their length, in the order of the returns, and is told   *)
(* EOF only after the last of them (write_async).                          *)
THEOREM WritesDelivered == Safety => []AckedIsDelivered
<1> QED BY WriteInitInv, WriteNextInv, WriteInvDelivers, PTL DEF Safety

-----------------------------------------------------------------------------
(* The streaming call.                                                     *)

(* A step of the call is a step of its channel, or leaves it alone.        *)
LEMMA CallStepIsWriteStep == [CallNext]_allVars => [Next]_vars
<1> SUFFICES ASSUME [CallNext]_allVars PROVE [Next]_vars
  OBVIOUS
<1>1. ASSUME NEW t \in Writers, CalleeWrites(t) \/ StepTaskDies(t) PROVE [Next]_vars
  BY <1>1 DEF CalleeWrites, StepTaskDies, Next
<1>2. CASE CalleeCloses \/ TableDropped
  BY <1>2 DEF CalleeCloses, TableDropped, Next
<1>3. ASSUME NEW how, CalleeReturns(how) \/ CalleeAbandoned(how) PROVE [Next]_vars
  BY <1>3 DEF CalleeReturns, CalleeAbandoned
<1>4. CASE SupervisorRecords \/ SupervisorDrops
  BY <1>4 DEF SupervisorRecords, SupervisorDrops, Next
<1>5. CASE CallerReads \/ CallerReadsEnd \/ CallerDropsReadable \/ CallerCancels
  BY <1>5 DEF CallerReads, CallerReadsEnd, CallerDropsReadable, CallerCancels, Next
<1>6. CASE UNCHANGED allVars
  BY <1>6 DEF allVars
<1> QED BY <1>1, <1>2, <1>3, <1>4, <1>5, <1>6 DEF CallNext

(* A streaming call uses the channel between callee and caller as a        *)
(* writable stream and in no other way: what holds of every writable       *)
(* stream holds of it (execute_action_invoked_streaming).                  *)
THEOREM CallIsAWritableStream == CallSafety => Safety
<1>1. CallInit => Init
  BY DEF CallInit
<1> QED BY <1>1, CallStepIsWriteStep, PTL DEF CallSafety, Safety

(* What the caller of io.invoke_streaming reads is what the callee wrote   *)
(* and was told it wrote, in order.                                        *)
THEOREM CallDelivers == CallSafety => []AckedIsDelivered
<1> QED BY CallIsAWritableStream, WritesDelivered, PTL

(* The invariant holds when the call is made.                              *)
LEMMA CallInitInv == CallInit => CallInv
<1> SUFFICES ASSUME CallInit PROVE CallInv
  OBVIOUS
<1>1. WriteInv
  BY WriteInitInv DEF CallInit
<1> QED BY <1>1 DEF CallInit, CallInv, WriteInv, CallTypeOK, HeldInv, ErrorItemInv, Failures, Init

(* A stream with no sender left gets none, and nothing into its channel.   *)
LEMMA NoSenderIsFinal ==
  ASSUME WriteInv, [Next]_vars, ~SenderLeft, channel = <<>>, received = acked
  PROVE  ~SenderLeft' /\ channel' = <<>> /\ received' = acked'
<1>1. (closed \/ ~registered) /\ ~held /\ \A t \in Writers : ~InFlight(t)
  BY DEF SenderLeft
<1>2. ASSUME NEW t \in Writers, WriteRefused(t) \/ WriteCall(t) \/ Send(t) \/ WriteAborted(t)
      PROVE  WriteRefused(t)
  BY <1>1, <1>2 DEF Send, WriteCall, SendCommits, SendFindsNoReceiver, SendParks, SendReleased,
     WriteAborted, InFlight
<1>3. ASSUME NEW t \in Writers, WriteRefused(t)
      PROVE  ~SenderLeft' /\ channel' = <<>> /\ received' = acked'
  BY <1>1, <1>3 DEF WriteRefused, WriteReturns, SenderLeft, InFlight, slotVars, recvVars, WriteInv, TypeOK
<1>4. CASE Close \/ Drain \/ DropHeld \/ Cancel
  BY <1>1, <1>4 DEF Close, Drain, DropHeld, Cancel, SenderLeft, InFlight, sendVars, slotVars, recvVars
<1>5. CASE Receive \/ ReceiveEof \/ DropReceiver
  BY <1>1, <1>5 DEF Receive, ReceiveEof, DropReceiver, SenderLeft, InFlight, sendVars, slotVars
<1>6. CASE UNCHANGED vars
  BY <1>1, <1>6 DEF vars, SenderLeft, InFlight, sendVars, slotVars, recvVars
<1> QED BY <1>2, <1>3, <1>4, <1>5, <1>6 DEF Next

(* The kernel's sender is the supervisor's: no other step drops it.        *)
LEMMA HeldByTheSupervisor ==
  ASSUME CallNext, ~SupervisorDrops
  PROVE  held' = held
<1>1. ASSUME NEW t \in Writers, CalleeWrites(t) \/ StepTaskDies(t) PROVE held' = held
  BY <1>1 DEF CalleeWrites, StepTaskDies, WriteRefused, WriteCall, Send, SendCommits,
     SendFindsNoReceiver, SendParks, SendReleased, WriteAborted, vars, slotVars
<1>2. ASSUME NEW how, CalleeReturns(how) \/ CalleeAbandoned(how) PROVE held' = held
  BY <1>2 DEF CalleeReturns, CalleeAbandoned, vars, slotVars
<1>3. CASE CalleeCloses \/ TableDropped \/ SupervisorRecords
  BY <1>3 DEF CalleeCloses, TableDropped, SupervisorRecords, Close, Drain, vars, slotVars
<1>4. CASE CallerReads \/ CallerReadsEnd \/ CallerDropsReadable \/ CallerCancels
  BY <1>4 DEF CallerReads, CallerReadsEnd, CallerDropsReadable, CallerCancels, Receive,
     ReceiveEof, DropReceiver, Cancel, vars, slotVars
<1> QED BY <1>1, <1>2, <1>3, <1>4 DEF CallNext

(* Only the caller, at the end of the channel with no failure recorded, is *)
(* told EOF.                                                               *)
LEMMA EofIsTold ==
  ASSUME CallTypeOK, CallNext, receiver' = "eof"
  PROVE  receiver = "eof" \/ (outcome = "none" /\ UNCHANGED callVars)
<1>1. ASSUME NEW t \in Writers, CalleeWrites(t) \/ StepTaskDies(t) PROVE receiver' = receiver
  BY <1>1 DEF CalleeWrites, StepTaskDies, WriteRefused, WriteCall, Send, SendCommits,
     SendFindsNoReceiver, SendParks, SendReleased, WriteAborted, vars, recvVars
<1>2. ASSUME NEW how, CalleeReturns(how) \/ CalleeAbandoned(how) PROVE receiver' = receiver
  BY <1>2 DEF CalleeReturns, CalleeAbandoned, vars, recvVars
<1>3. CASE CalleeCloses \/ TableDropped \/ SupervisorRecords \/ SupervisorDrops
  BY <1>3 DEF CalleeCloses, TableDropped, SupervisorRecords, SupervisorDrops, Close, Drain,
     DropHeld, vars, recvVars
<1>4. CASE CallerReads \/ CallerDropsReadable \/ CallerCancels
  BY <1>4 DEF CallerReads, CallerDropsReadable, CallerCancels, Receive, DropReceiver, Cancel,
     recvVars
<1>5. CASE CallerReadsEnd
  BY <1>5 DEF CallerReadsEnd, CallTypeOK, vars, recvVars
<1> QED BY <1>1, <1>2, <1>3, <1>4, <1>5 DEF CallNext

(* Every step of the call keeps the invariant.                             *)
LEMMA CallNextInv == CallInv /\ [CallNext]_allVars => CallInv'
<1> SUFFICES ASSUME CallInv, [CallNext]_allVars PROVE CallInv'
  OBVIOUS
<1> USE DEF CallInv
<1>1. [Next]_vars /\ WriteInv'
  BY CallStepIsWriteStep, WriteNextInv
<1>2. TypeOK'
  BY <1>1 DEF WriteInv
<1>3. CASE UNCHANGED allVars
  BY <1>1, <1>2, <1>3 DEF allVars, vars, callVars, sendVars, slotVars, recvVars, CallTypeOK, HeldInv,
     ErrorItemInv, SenderLeft, InFlight
<1>4. CASE UNCHANGED callVars /\ CallNext
  <2> USE <1>4 DEF callVars
  <2>1. CallTypeOK'
    BY <1>2 DEF CallTypeOK
  <2>2. HeldInv'
    <3>1. ~SupervisorDrops
      BY DEF SupervisorDrops
    <3>2. held' = held
      BY <3>1, HeldByTheSupervisor
    <3>3. receiver' = "eof" => outcome = "none"
      BY EofIsTold DEF HeldInv
    <3> QED BY <3>2, <3>3 DEF HeldInv
  <2>3. ErrorItemInv'
    BY <1>1, NoSenderIsFinal DEF ErrorItemInv
  <2> QED BY <1>1, <2>1, <2>2, <2>3
<1>5. ASSUME NEW how, callee = "running",
             how \in {"ok", "cancelled"} \cup Failures, callee' = how, alive' \subseteq alive,
             UNCHANGED <<vars, supervisor, outcome, errorItem>>
      PROVE  CallInv'
  <2> USE <1>5 DEF vars, sendVars, slotVars, recvVars, Failures
  <2>1. CallTypeOK'
    BY <1>2 DEF CallTypeOK
  <2>2. HeldInv' /\ ErrorItemInv'
    BY DEF HeldInv, ErrorItemInv
  <2> QED BY <1>1, <2>1, <2>2
<1>6. ASSUME NEW t \in Writers, StepTaskDies(t) PROVE CallInv'
  <2> USE <1>6 DEF StepTaskDies
  <2>1. CallTypeOK'
    BY <1>2 DEF CallTypeOK
  <2>2. held' = held /\ receiver' = receiver
    BY DEF WriteAborted, vars, slotVars, recvVars
  <2>3. HeldInv'
    BY <2>2 DEF HeldInv
  <2>4. ErrorItemInv'
    BY <1>1, NoSenderIsFinal DEF ErrorItemInv
  <2> QED BY <1>1, <2>1, <2>3, <2>4
<1>7. CASE SupervisorRecords
  <2> USE <1>7 DEF SupervisorRecords, vars, sendVars, slotVars, recvVars
  <2>1. CallTypeOK'
    BY <1>2 DEF CallTypeOK
  <2>2. ~errorItem /\ receiver # "eof"
    BY DEF HeldInv, ErrorItemInv, WriteInv, EofInv, SenderLeft, CallTypeOK, TypeOK
  <2>3. HeldInv'
    BY <2>2 DEF HeldInv, CallTypeOK, Failures
  <2>4. ErrorItemInv'
    BY <2>2 DEF ErrorItemInv, CallTypeOK
  <2> QED BY <1>1, <2>1, <2>3, <2>4
<1>8. CASE SupervisorDrops
  <2> USE <1>8 DEF SupervisorDrops
  <2>1. CallTypeOK'
    BY <1>2 DEF CallTypeOK
  <2>2. receiver' = receiver
    BY DEF DropHeld, recvVars
  <2>3. HeldInv'
    BY <2>2 DEF HeldInv
  <2>4. ErrorItemInv'
    BY <1>1, NoSenderIsFinal DEF ErrorItemInv
  <2> QED BY <1>1, <2>1, <2>3, <2>4
<1>9. CASE CallerReadsEnd /\ outcome = "failure"
  <2> USE <1>9 DEF CallerReadsEnd, vars, sendVars, slotVars, recvVars
  <2>1. CallTypeOK'
    BY <1>2 DEF CallTypeOK
  <2>2. HeldInv'
    BY DEF HeldInv
  <2>3. received = acked
    BY WriteInvDelivers, ConcatEmptySeq DEF WriteInv, TypeOK, AckedIsDelivered
  <2>4. ErrorItemInv'
    BY <2>3 DEF ErrorItemInv, HeldInv, SenderLeft, InFlight
  <2> QED BY <1>1, <2>1, <2>2, <2>4
<1>10. ASSUME NEW t \in Writers, CalleeWrites(t) PROVE UNCHANGED callVars
  BY <1>10 DEF CalleeWrites
<1>11. ASSUME CalleeCloses \/ TableDropped \/ CallerReads \/ (CallerReadsEnd /\ outcome # "failure")
               \/ CallerDropsReadable \/ CallerCancels
       PROVE  UNCHANGED callVars
  BY <1>11 DEF CalleeCloses, TableDropped, CallerReads, CallerReadsEnd, CallerDropsReadable,
     CallerCancels
<1>12. ASSUME NEW how \in {"ok", "failed", "timeout", "cancelled"}, CalleeReturns(how)
       PROVE  CallInv'
  BY <1>5, <1>12 DEF CalleeReturns, Failures
<1>13. ASSUME NEW how \in Failures, CalleeAbandoned(how) PROVE CallInv'
  BY <1>5, <1>13 DEF CalleeAbandoned
<1> QED
  <2>1. CASE CallNext
    BY <2>1, <1>4, <1>6, <1>7, <1>8, <1>9, <1>10, <1>11, <1>12, <1>13 DEF CallNext
  <2> QED BY <2>1, <1>3

(* For any callee: a plain EOF came from a callee that ended cleanly or    *)
(* was cancelled by its caller, and a failure comes after every byte the   *)
(* callee wrote - because the supervisor records before it drops the       *)
(* kernel's sender (execute_action_invoked_streaming).                     *)
THEOREM EofIsAnOutcome == CallSafety => []EndTellsTheOutcome
<1>1. CallInv => EndTellsTheOutcome
  <2> SUFFICES ASSUME CallInv PROVE EndTellsTheOutcome
    OBVIOUS
  <2>1. errorItem => received = acked /\ callee \in Failures
    BY DEF CallInv, ErrorItemInv
  <2>2. ASSUME receiver = "eof", ~errorItem PROVE callee \in {"ok", "cancelled"}
    <3>1. ~held /\ outcome = "none"
      BY <2>2 DEF CallInv, WriteInv, EofInv, SenderLeft, HeldInv
    <3>2. callee # "running" /\ callee \notin Failures
      BY <2>2, <3>1 DEF CallInv, HeldInv
    <3> QED BY <3>2 DEF CallInv, CallTypeOK
  <2> QED BY <2>1, <2>2 DEF EndTellsTheOutcome
<1> QED BY CallInitInv, CallNextInv, <1>1, PTL DEF CallSafety
=============================================================================
