---------------------------- MODULE FanOutProofs -----------------------------
(***************************************************************************)
(* TLAPS proof that FanOut implements Broadcast: for any set of branches,  *)
(* any channel capacity, any source and any order in which consumers start,*)
(* read and leave, both variants give every branch the source's items in   *)
(* order and without a gap, and tell it EOF when it has had them all.      *)
(***************************************************************************)
EXTENDS FanOut, SequenceTheorems, TLAPS

(* Types, and who may be where: only the streaming forwarder sends, only   *)
(* the eager drain installs or is dropped.                                 *)
ShapeInv ==
  /\ variant \in {"streaming", "eager"}
  /\ fwd \in {"pull", "send", "install", "done", "nobody", "dropped"}
  /\ taken \in Seq(Item)
  /\ unsent \subseteq Branches /\ refused \subseteq left /\ left \subseteq Branches
  /\ channel \in [Branches -> Seq(Item)]
  /\ got \in [Branches -> Seq(Item)]
  /\ fwd \in {"send", "nobody"} => variant = "streaming"
  /\ fwd \in {"install", "dropped"} => variant = "eager"

(* The forwarder's program: it pulls only from a source that has not       *)
(* failed, waits for sends only in a round, and stops early only when      *)
(* every branch refused.                                                   *)
ForwarderInv ==
  /\ fwd = "pull" => ~Faulted
  /\ unsent # {} => fwd = "send" /\ taken # <<>>
  /\ fwd = "nobody" => refused = Branches

(* How many items a branch's consumer has been, or can be, given: all that *)
(* were taken, less the one this round still has to send it.               *)
Offered(b) == IF b \in unsent THEN Len(taken) - 1 ELSE Len(taken)

(* A branch's share: what its consumer got is the beginning of what was    *)
(* taken, and what its source still has to yield is what comes next.       *)
Share(b) ==
  /\ \A i \in 1..Len(got[b]) : got[b][i] = taken[i]
  /\ Len(got[b]) + Len(channel[b]) = Offered(b)
  /\ \A i \in 1..Len(channel[b]) : channel[b][i] = taken[Len(got[b]) + i]

(* While the eager variant drains, no branch exists yet.                   *)
Filling == variant = "eager" /\ fwd # "done"

ShareInv ==
  \A b \in Branches \ left :
    IF Filling THEN got[b] = <<>> /\ channel[b] = <<>> ELSE Share(b)

(* EOF is told of a source that ended, to a branch whose source is empty.  *)
ToldInv ==
  told # {} => fwd = "done" /\ \A b \in told \cap Branches : channel[b] = <<>>

FanOutInv == ShapeInv /\ ForwarderInv /\ ShareInv /\ ToldInv

-----------------------------------------------------------------------------
(* The fan-out starts with nothing taken and nothing given.                *)
LEMMA FanOutInitInv == Init => FanOutInv
<1> SUFFICES ASSUME Init PROVE FanOutInv
  OBVIOUS
<1> USE FanOutAssumption DEF Init
<1>1. ShapeInv
  <2>1. taken \in Seq(Item) /\ channel \in [Branches -> Seq(Item)] /\ got \in [Branches -> Seq(Item)]
    BY EmptySeq
  <2> QED BY <2>1 DEF ShapeInv
<1>2. ForwarderInv /\ ToldInv
  BY DEF ForwarderInv, ToldInv, Faulted
<1>3. ShareInv
  <2> SUFFICES ASSUME NEW b \in Branches PROVE got[b] = <<>> /\ channel[b] = <<>> /\ Share(b)
    BY DEF ShareInv
  <2>1. got[b] = <<>> /\ channel[b] = <<>>
    OBVIOUS
  <2>2. Len(<<>>) = 0
    OBVIOUS
  <2>3. Offered(b) = 0
    BY <2>2 DEF Offered
  <2> QED BY <2>1, <2>2, <2>3 DEF Share
<1> QED BY <1>1, <1>2, <1>3 DEF FanOutInv

(* Taking an item makes the list of items taken one longer, and faulted    *)
(* exactly if the item is the source's error.                              *)
LEMMA TakeItem ==
  ASSUME taken \in Seq(Item), NEW item \in Item, taken' = Append(taken, item)
  PROVE  /\ taken' \in Seq(Item) /\ taken' # <<>>
         /\ Len(taken) \in Nat /\ Len(taken') = Len(taken) + 1
         /\ \A i \in 1..Len(taken) : taken'[i] = taken[i]
         /\ taken'[Len(taken')] = item
         /\ Faulted' <=> item = Fault
<1>1. /\ taken' \in Seq(Item) /\ taken' # <<>>
      /\ Len(taken) \in Nat /\ Len(taken') = Len(taken) + 1
      /\ \A i \in 1..Len(taken) : taken'[i] = taken[i]
      /\ taken'[Len(taken) + 1] = item
  BY AppendProperties
<1> QED BY <1>1 DEF Faulted

(* The item a source can yield next is an item.                            *)
LEMMA NextItem ==
  ASSUME taken \in Seq(Item), Len(taken) < Length
  PROVE  Len(taken) + 1 \in Item /\ Len(taken) + 1 # Fault
<1>1. Len(taken) \in Nat /\ Length \in Nat
  BY FanOutAssumption
<1> QED BY <1>1 DEF Item, Fault

(* A branch that a step does not touch keeps its share.                    *)
LEMMA ShareKept ==
  ASSUME NEW b, Share(b), taken' = taken, got'[b] = got[b], channel'[b] = channel[b],
         b \in unsent' <=> b \in unsent
  PROVE  Share(b)'
<1>1. Offered(b)' = Offered(b)
  BY DEF Offered
<1> QED BY <1>1 DEF Share

(* A round starts: one item more is taken, and every branch is owed it.    *)
LEMMA StartRoundInv ==
  ASSUME FanOutInv, NEW item \in Item, StartRound(item)
  PROVE  FanOutInv'
<1> USE DEF FanOutInv
<1>0. /\ variant = "streaming" /\ fwd = "pull" /\ taken' = Append(taken, item) /\ fwd' = "send"
      /\ unsent' = Branches /\ refused' = {}
      /\ variant' = variant /\ channel' = channel /\ left' = left /\ got' = got /\ told' = told
  BY DEF StartRound, Forwarding
<1>1. /\ taken' \in Seq(Item) /\ taken' # <<>> /\ Len(taken) \in Nat
      /\ Len(taken') = Len(taken) + 1 /\ \A i \in 1..Len(taken) : taken'[i] = taken[i]
  BY <1>0, TakeItem DEF ShapeInv
<1>2. unsent = {}
  BY <1>0 DEF ForwarderInv
<1>3. ShapeInv'
  BY <1>0, <1>1 DEF ShapeInv
<1>4. ForwarderInv'
  BY <1>0, <1>1 DEF ForwarderInv
<1>5. ToldInv'
  BY <1>0 DEF ToldInv
<1>6. ShareInv'
  <2> SUFFICES ASSUME NEW b \in Branches \ left PROVE Share(b)'
    BY <1>0 DEF ShareInv, Filling
  <2> DEFINE g == Len(got[b])
             n == Len(channel[b])
  <2>1. g \in Nat /\ n \in Nat
    BY DEF ShapeInv
  <2>2. Share(b)
    BY <1>0 DEF ShareInv, Filling
  <2>3. /\ \A i \in 1..g : got[b][i] = taken[i]
        /\ g + n = Len(taken)
        /\ \A i \in 1..n : channel[b][i] = taken[g + i]
    BY <2>2, <1>2 DEF Share, Offered
  <2>4. Offered(b)' = Len(taken)
    BY <1>0, <1>1 DEF Offered
  <2> HIDE DEF g, n
  <2>5. \A i \in 1..g : got[b][i] = taken'[i]
    BY <1>1, <2>1, <2>3
  <2>6. \A i \in 1..n : channel[b][i] = taken'[g + i]
    BY <1>1, <2>1, <2>3
  <2> QED BY <1>0, <2>3, <2>4, <2>5, <2>6 DEF Share, g, n
<1> QED BY <1>3, <1>4, <1>5, <1>6

(* A send appends the round's item to a channel that is one item behind.   *)
LEMMA SendInv ==
  ASSUME FanOutInv, NEW b \in Branches, Send(b)
  PROVE  FanOutInv'
<1> USE DEF FanOutInv
<1> DEFINE last == taken[Len(taken)]
<1>0. /\ b \in unsent /\ b \notin left
      /\ channel' = [channel EXCEPT ![b] = Append(@, last)] /\ unsent' = unsent \ {b}
      /\ variant' = variant /\ fwd' = fwd /\ taken' = taken /\ refused' = refused
      /\ left' = left /\ got' = got /\ told' = told
  BY DEF Send
<1>1. fwd = "send" /\ variant = "streaming" /\ taken # <<>>
  BY <1>0 DEF ForwarderInv, ShapeInv
<1>2. taken \in Seq(Item) /\ Len(taken) \in Nat \ {0}
  BY <1>1, EmptySeq DEF ShapeInv
<1>3. last \in Item
  BY <1>2
<1>4. channel[b] \in Seq(Item) /\ got[b] \in Seq(Item) /\ channel'[b] = Append(channel[b], last)
  BY <1>0 DEF ShapeInv
<1>5. /\ channel'[b] \in Seq(Item) /\ Len(channel'[b]) = Len(channel[b]) + 1
      /\ \A i \in 1..Len(channel[b]) : channel'[b][i] = channel[b][i]
      /\ channel'[b][Len(channel[b]) + 1] = last
  BY <1>3, <1>4, AppendProperties
<1>6. ShapeInv'
  <2>1. channel' \in [Branches -> Seq(Item)]
    BY <1>0, <1>4, <1>5 DEF ShapeInv
  <2> QED BY <1>0, <2>1 DEF ShapeInv
<1>7. ForwarderInv'
  BY <1>0, <1>1 DEF ForwarderInv, Faulted
<1>8. ToldInv'
  BY <1>0, <1>1 DEF ToldInv
<1>9. ShareInv'
  <2> SUFFICES ASSUME NEW c \in Branches \ left PROVE Share(c)'
    BY <1>0, <1>1 DEF ShareInv, Filling
  <2>1. Share(c)
    BY <1>1 DEF ShareInv, Filling
  <2>2. CASE c # b
    <3>1. channel'[c] = channel[c]
      BY <1>0, <2>2 DEF ShapeInv
    <3> QED BY <1>0, <2>1, <2>2, <3>1, ShareKept
  <2>3. CASE c = b
    <3> DEFINE n == Len(channel[b])
               g == Len(got[b])
    <3>1. n \in Nat /\ g \in Nat
      BY <1>4
    <3>2. /\ g + n = Len(taken) - 1 /\ \A i \in 1..n : channel[b][i] = taken[g + i]
          /\ \A i \in 1..g : got[b][i] = taken[i]
      BY <1>0, <2>1, <2>3 DEF Share, Offered
    <3>3. Offered(b)' = Len(taken)
      BY <1>0 DEF Offered
    <3>4. Len(channel'[b]) = n + 1 /\ channel'[b][n + 1] = last
          /\ \A i \in 1..n : channel'[b][i] = channel[b][i]
      BY <1>5
    <3> HIDE DEF n, g
    <3>5. g + (n + 1) = Len(taken)
      BY <3>1, <3>2, <1>2
    <3>6. last = taken[g + (n + 1)]
      BY <3>5
    <3> HIDE DEF last
    <3>7. \A i \in 1..n + 1 : channel'[b][i] = taken[g + i]
      <4> TAKE i \in 1..n + 1
      <4>1. CASE i = n + 1
        BY <4>1, <3>4, <3>6
      <4>2. CASE i # n + 1
        <5>1. i \in 1..n
          BY <4>2, <3>1
        <5> QED BY <5>1, <3>2, <3>4
      <4> QED BY <4>1, <4>2
    <3>8. got'[b] = got[b] /\ Len(got'[b]) = g /\ taken' = taken
      BY <1>0 DEF g
    <3>9. \A i \in 1..Len(got'[b]) : got'[b][i] = taken'[i]
      BY <3>2, <3>8
    <3>10. Len(got'[b]) + Len(channel'[b]) = Offered(b)'
      BY <3>3, <3>4, <3>5, <3>8
    <3>11. \A i \in 1..Len(channel'[b]) : channel'[b][i] = taken'[Len(got'[b]) + i]
      BY <3>4, <3>7, <3>8
    <3> QED BY <2>3, <3>9, <3>10, <3>11 DEF Share
  <2> QED BY <2>2, <2>3
<1> QED BY <1>6, <1>7, <1>8, <1>9

(* The rest of the forwarder's and the drain's steps move no item of a     *)
(* branch, except that Install gives every branch its copy.                *)
LEMMA ForwarderStepsInv ==
  ASSUME FanOutInv,
         SourceEnds \/ RoundEnds \/ DrainEnd \/ RunDropped \/ \E b \in Branches : SendRefused(b)
  PROVE  FanOutInv'
<1> USE DEF FanOutInv
<1>1. CASE SourceEnds \/ RoundEnds
  <2> USE <1>1 DEF SourceEnds, RoundEnds, Forwarding
  <2>1. variant = "streaming" /\ told = {}
    BY DEF ShapeInv, ToldInv
  <2>2. ShapeInv' /\ ForwarderInv' /\ ToldInv'
    BY <2>1 DEF ShapeInv, ForwarderInv, ToldInv, Faulted
  <2>3. ShareInv'
    BY <2>1, ShareKept DEF ShareInv, Filling
  <2> QED BY <2>2, <2>3
<1>2. CASE DrainEnd \/ RunDropped
  <2> USE <1>2 DEF DrainEnd, RunDropped, Draining
  <2>1. variant = "eager" /\ told = {} /\ fwd # "done"
    BY DEF ShapeInv, ToldInv
  <2>2. ShapeInv' /\ ForwarderInv' /\ ToldInv'
    BY <2>1 DEF ShapeInv, ForwarderInv, ToldInv, Faulted
  <2>3. ShareInv'
    BY <2>1, ShareKept DEF ShareInv, Filling
  <2> QED BY <2>2, <2>3
<1>3. ASSUME NEW b \in Branches, SendRefused(b) PROVE FanOutInv'
  <2> USE <1>3 DEF SendRefused
  <2>1. fwd = "send" /\ told = {}
    BY DEF ForwarderInv, ToldInv
  <2>2. ShapeInv' /\ ForwarderInv' /\ ToldInv'
    BY <2>1 DEF ShapeInv, ForwarderInv, ToldInv, Faulted
  <2>3. ShareInv'
    BY <2>1, ShareKept DEF ShareInv, Filling
  <2> QED BY <2>2, <2>3
<1> QED BY <1>1, <1>2, <1>3

(* The drain takes items that no branch has been offered yet.              *)
LEMMA DrainInv ==
  ASSUME FanOutInv, DrainChunk \/ DrainFault
  PROVE  FanOutInv'
<1> USE DEF FanOutInv
<1>0. /\ variant = "eager" /\ fwd = "pull"
      /\ fwd' \in {"pull", "install"}
      /\ UNCHANGED <<variant, unsent, refused, channel, left, got, told>>
  BY DEF DrainChunk, DrainFault, Draining
<1>1. taken' \in Seq(Item) /\ (fwd' = "pull" => ~Faulted')
  <2>1. CASE DrainChunk
    BY <2>1, NextItem, TakeItem DEF DrainChunk, ShapeInv
  <2>2. CASE DrainFault
    <3>1. Fault \in Item
      BY FanOutAssumption DEF Fault, Item
    <3> QED BY <2>2, <3>1, TakeItem DEF DrainFault, ShapeInv
  <2> QED BY <2>1, <2>2
<1>2. ShapeInv'
  BY <1>0, <1>1 DEF ShapeInv
<1>3. ForwarderInv' /\ ToldInv'
  BY <1>0, <1>1 DEF ForwarderInv, ToldInv
<1>4. ShareInv'
  BY <1>0 DEF ShareInv, Filling
<1> QED BY <1>2, <1>3, <1>4

(* Install gives every branch everything that was taken.                   *)
LEMMA InstallInv ==
  ASSUME FanOutInv, Install
  PROVE  FanOutInv'
<1> USE DEF FanOutInv
<1>0. /\ variant = "eager" /\ fwd = "install" /\ fwd' = "done" /\ unsent = {}
      /\ channel' = [b \in Branches |-> taken]
      /\ UNCHANGED <<variant, taken, unsent, refused, left, got, told>>
  BY DEF Install, ShapeInv, ForwarderInv
<1>1. ShapeInv' /\ ForwarderInv' /\ ToldInv'
  BY <1>0 DEF ShapeInv, ForwarderInv, ToldInv
<1>2. ShareInv'
  <2> SUFFICES ASSUME NEW b \in Branches \ left PROVE Share(b)'
    BY <1>0 DEF ShareInv, Filling
  <2>1. got'[b] = <<>> /\ channel'[b] = taken /\ taken' = taken
    BY <1>0 DEF ShareInv, Filling
  <2>2. Offered(b)' = Len(taken) /\ Len(taken) \in Nat
    BY <1>0 DEF Offered, ShapeInv
  <2>3. Len(got'[b]) = 0
    BY <2>1
  <2> QED BY <2>1, <2>2, <2>3 DEF Share
<1> QED BY <1>1, <1>2

(* A branch that exists has its share.                                     *)
LEMMA ExistingShare ==
  ASSUME FanOutInv, NEW b \in Branches, Exists(b)
  PROVE  Share(b) /\ ~Filling /\ b \notin left
<1> QED BY DEF FanOutInv, ShareInv, Exists, Filling

(* A receive moves the head of the branch's channel to its consumer.       *)
LEMMA ReceiveInv ==
  ASSUME FanOutInv, NEW b \in Branches, Receive(b)
  PROVE  FanOutInv'
<1> USE DEF FanOutInv
<1> DEFINE c == channel[b]
           s == got[b]
           g == Len(s)
           n == Len(c)
<1>0. /\ c # <<>>
      /\ got' = [got EXCEPT ![b] = Append(s, Head(c))]
      /\ channel' = [channel EXCEPT ![b] = Tail(c)]
      /\ UNCHANGED <<variant, fwd, taken, unsent, refused, left, told>>
  BY DEF Receive, fwdVars
<1>1. Share(b) /\ ~Filling /\ b \notin left
  BY ExistingShare DEF Receive
<1>2. c \in Seq(Item) /\ s \in Seq(Item) /\ g \in Nat /\ n \in Nat \ {0}
  <2>1. c \in Seq(Item) /\ s \in Seq(Item)
    BY DEF ShapeInv
  <2> QED BY <1>0, <2>1, EmptySeq
<1>3. /\ Head(c) \in Item /\ Tail(c) \in Seq(Item) /\ Len(Tail(c)) = n - 1
      /\ \A i \in 1..n - 1 : Tail(c)[i] = c[i + 1]
  BY <1>0, <1>2, HeadTailProperties
<1>4. Head(c) = c[1]
  BY <1>2
<1>5. /\ Append(s, Head(c)) \in Seq(Item) /\ Len(Append(s, Head(c))) = g + 1
      /\ \A i \in 1..g : Append(s, Head(c))[i] = s[i]
      /\ Append(s, Head(c))[g + 1] = Head(c)
  BY <1>2, <1>3, AppendProperties
<1>6. got'[b] = Append(s, Head(c)) /\ channel'[b] = Tail(c)
  BY <1>0 DEF ShapeInv
<1>7. \A d \in Branches : d # b => got'[d] = got[d] /\ channel'[d] = channel[d]
  BY <1>0 DEF ShapeInv
<1>8. ShapeInv'
  <2>1. got' \in [Branches -> Seq(Item)] /\ channel' \in [Branches -> Seq(Item)]
    BY <1>0, <1>3, <1>5 DEF ShapeInv
  <2> QED BY <1>0, <2>1 DEF ShapeInv
<1>9. ForwarderInv'
  BY <1>0 DEF ForwarderInv, Faulted
<1>10. ToldInv'
  BY <1>0, <1>7 DEF ToldInv
<1>11. Share(b)'
  <2>1. /\ \A i \in 1..g : s[i] = taken[i]
        /\ g + n = Offered(b)
        /\ \A i \in 1..n : c[i] = taken[g + i]
    BY <1>1 DEF Share
  <2>2. Offered(b)' = Offered(b) /\ taken' = taken
    BY <1>0 DEF Offered
  <2> DEFINE h == Append(s, Head(c))
             t == Tail(c)
  <2>3. c[1] = taken[g + 1] /\ h[g + 1] = c[1]
    BY <2>1, <1>2, <1>4, <1>5
  <2>4. Len(h) = g + 1 /\ Len(t) = n - 1 /\ \A i \in 1..g : h[i] = s[i]
    BY <1>3, <1>5
  <2>5. \A i \in 1..n - 1 : t[i] = c[i + 1]
    BY <1>3
  <2> HIDE DEF c, s, g, n, h, t
  <2>6. \A i \in 1..g + 1 : h[i] = taken[i]
    BY <1>2, <2>1, <2>3, <2>4
  <2>7. \A i \in 1..n - 1 : t[i] = taken[(g + 1) + i]
    <3> TAKE i \in 1..n - 1
    <3>1. i + 1 \in 1..n /\ t[i] = c[i + 1]
      BY <1>2, <2>5
    <3>2. c[i + 1] = taken[g + (i + 1)] /\ g + (i + 1) = (g + 1) + i
      BY <1>2, <2>1, <3>1
    <3> QED BY <3>1, <3>2
  <2>8. (g + 1) + (n - 1) = Offered(b)
    BY <1>2, <2>1
  <2>9. got'[b] = h /\ channel'[b] = t
    BY <1>6 DEF h, t
  <2> QED BY <2>2, <2>4, <2>6, <2>7, <2>8, <2>9 DEF Share
<1>12. ShareInv'
  <2> SUFFICES ASSUME NEW d \in Branches \ left PROVE Share(d)'
    BY <1>0, <1>1 DEF ShareInv, Filling
  <2>1. CASE d = b
    BY <1>11, <2>1
  <2>2. CASE d # b
    BY <1>0, <1>1, <1>7, <2>2, ShareKept DEF ShareInv
  <2> QED BY <2>1, <2>2
<1> QED BY <1>8, <1>9, <1>10, <1>12

(* EOF is told to a branch of a source that is done: the forwarder that    *)
(* stops because no branch is left has nobody to tell.                     *)
LEMMA EndOfWhole ==
  ASSUME FanOutInv, NEW b \in Branches, ReceiveEnd(b)
  PROVE  fwd = "done" /\ got[b] = taken
<1>1. /\ Share(b) /\ b \notin left /\ channel[b] = <<>> /\ fwd \in {"done", "nobody"}
  BY ExistingShare DEF ReceiveEnd
<1>2. fwd = "done"
  BY <1>1 DEF FanOutInv, ShapeInv, ForwarderInv
<1>3. b \notin unsent
  BY <1>2 DEF FanOutInv, ForwarderInv
<1>4. got[b] \in Seq(Item) /\ taken \in Seq(Item)
  BY DEF FanOutInv, ShapeInv
<1>5. Len(got[b]) + 0 = Len(taken) /\ \A i \in 1..Len(got[b]) : got[b][i] = taken[i]
  <2>1. Len(channel[b]) = 0
    BY <1>1
  <2> QED BY <1>1, <1>3, <2>1 DEF Share, Offered
<1>6. Len(got[b]) = Len(taken)
  BY <1>4, <1>5
<1> QED BY <1>2, <1>4, <1>5, <1>6, SeqEqual

(* Being told EOF and leaving change no other branch.                      *)
LEMMA LeaveInv ==
  ASSUME FanOutInv, NEW b \in Branches, ReceiveEnd(b) \/ DropBranch(b)
  PROVE  FanOutInv'
<1> USE DEF FanOutInv
<1>1. CASE ReceiveEnd(b)
  <2> USE <1>1 DEF ReceiveEnd, fwdVars
  <2>1. fwd = "done"
    BY EndOfWhole
  <2>2. ShapeInv' /\ ForwarderInv' /\ ToldInv'
    BY <2>1 DEF ShapeInv, ForwarderInv, ToldInv, Faulted
  <2>3. ShareInv'
    BY ShareKept DEF ShareInv, Filling
  <2> QED BY <2>2, <2>3
<1>2. CASE DropBranch(b)
  <2> USE <1>2 DEF DropBranch, fwdVars
  <2>1. channel' \in [Branches -> Seq(Item)]
    BY EmptySeq DEF ShapeInv
  <2>2. ShapeInv'
    BY <2>1 DEF ShapeInv
  <2>3. ForwarderInv'
    BY DEF ForwarderInv, Faulted
  <2>4. ToldInv'
    BY DEF ToldInv, ShapeInv
  <2>5. ShareInv'
    <3> SUFFICES ASSUME NEW d \in Branches \ left, d # b PROVE Share(d)'
      BY ExistingShare DEF ShareInv, Filling
    <3>1. Share(d)
      BY ExistingShare DEF ShareInv
    <3>2. channel'[d] = channel[d]
      BY DEF ShapeInv
    <3> QED BY <3>1, <3>2, ShareKept
  <2> QED BY <2>2, <2>3, <2>4, <2>5
<1> QED BY <1>1, <1>2

(* Every step of the fan-out keeps the invariant.                          *)
LEMMA FanOutNextInv == FanOutInv /\ [Next]_vars => FanOutInv'
<1> SUFFICES ASSUME FanOutInv, [Next]_vars PROVE FanOutInv'
  OBVIOUS
<1>1. CASE SourceYields
  BY <1>1, NextItem, StartRoundInv DEF SourceYields, FanOutInv, ShapeInv
<1>2. CASE SourceFails
  <2>1. Fault \in Item
    BY FanOutAssumption DEF Fault, Item
  <2> QED BY <1>2, <2>1, StartRoundInv DEF SourceFails
<1>3. CASE SourceEnds \/ RoundEnds \/ DrainEnd \/ RunDropped
  BY <1>3, ForwarderStepsInv
<1>4. CASE DrainChunk \/ DrainFault
  BY <1>4, DrainInv
<1>5. CASE Install
  BY <1>5, InstallInv
<1>6. ASSUME NEW b \in Branches, Send(b) \/ SendRefused(b) \/ Consume(b) \/ DropBranch(b)
      PROVE  FanOutInv'
  BY <1>6, SendInv, ForwarderStepsInv, ReceiveInv, LeaveInv DEF Consume
<1>7. CASE UNCHANGED vars
  <2> USE <1>7 DEF vars, fwdVars, FanOutInv
  <2>1. ShapeInv' /\ ForwarderInv' /\ ToldInv'
    BY DEF ShapeInv, ForwarderInv, ToldInv, Faulted
  <2>2. ShareInv'
    BY ShareKept DEF ShareInv, Filling
  <2> QED BY <2>1, <2>2
<1> QED BY <1>1, <1>2, <1>3, <1>4, <1>5, <1>6, <1>7 DEF Next, Source, Drain

-----------------------------------------------------------------------------
(* The refinement.                                                         *)

(* What Broadcast calls the end of the source.                             *)
Ended == fwd \in {"done", "install", "dropped"} \/ Faulted

(* The initial states are Broadcast's.                                     *)
LEMMA InitRefines == Init => B!Init
<1> SUFFICES ASSUME Init PROVE B!Init
  OBVIOUS
<1>1. Ended = FALSE
  BY DEF Init, Ended, Faulted
<1> QED BY <1>1 DEF Init, B!Init, Ended

(* Every step of the fan-out is a step of Broadcast or invisible to it.    *)
LEMMA NextRefines == FanOutInv /\ [Next]_vars => [B!Next]_B!vars
<1> SUFFICES ASSUME FanOutInv, [Next]_vars PROVE [B!Next]_B!vars
  OBVIOUS
<1>0. taken \in Seq(Item) /\ Fault \in Item
  BY FanOutAssumption DEF FanOutInv, ShapeInv, Fault, Item
<1>1. ASSUME fwd = "pull", Len(taken) < Length, taken' = Append(taken, Len(taken) + 1),
             fwd' \in {"pull", "send"}, UNCHANGED <<got, told>>
      PROVE  B!TakeChunk
  <2>1. Ended = FALSE
    BY <1>1 DEF Ended, FanOutInv, ForwarderInv
  <2>2. Ended' = FALSE
    BY <1>0, <1>1, NextItem, TakeItem DEF Ended
  <2> QED BY <1>1, <2>1, <2>2 DEF B!TakeChunk, Ended
<1>2. ASSUME fwd = "pull", taken' = Append(taken, Fault), UNCHANGED <<got, told>>
      PROVE  B!TakeFault
  <2>1. Ended = FALSE
    BY <1>2 DEF Ended, FanOutInv, ForwarderInv
  <2>2. Ended' = TRUE
    BY <1>0, <1>2, TakeItem DEF Ended
  <2> QED BY <1>2, <2>1, <2>2 DEF B!TakeFault, Ended, B!Fault, Fault
<1>3. ASSUME fwd = "pull", fwd' \in {"done", "install", "dropped"}, UNCHANGED <<taken, got, told>>
      PROVE  B!TakeEnd
  <2>1. Ended = FALSE
    BY <1>3 DEF Ended, FanOutInv, ForwarderInv
  <2>2. Ended' = TRUE
    BY <1>3 DEF Ended
  <2> QED BY <1>3, <2>1, <2>2 DEF B!TakeEnd, Ended
<1>4. ASSUME UNCHANGED <<taken, got, told>>, Ended' = Ended
      PROVE  UNCHANGED B!vars
  BY <1>4 DEF B!vars, Ended
<1>5. CASE Source
  <2>1. CASE SourceYields
    BY <1>1, <2>1 DEF SourceYields, StartRound, Forwarding, B!Next
  <2>2. CASE SourceFails
    BY <1>2, <2>2 DEF SourceFails, StartRound, Forwarding, B!Next
  <2>3. CASE SourceEnds
    BY <1>3, <2>3 DEF SourceEnds, Forwarding, B!Next
  <2> QED BY <1>5, <2>1, <2>2, <2>3 DEF Source
<1>6. CASE Drain
  <2>1. CASE DrainChunk
    BY <1>1, <2>1 DEF DrainChunk, Draining, B!Next
  <2>2. CASE DrainFault
    BY <1>2, <2>2 DEF DrainFault, Draining, B!Next
  <2>3. CASE DrainEnd
    BY <1>3, <2>3 DEF DrainEnd, Draining, B!Next
  <2> QED BY <1>6, <2>1, <2>2, <2>3 DEF Drain
<1>7. CASE RoundEnds \/ Install
  <2>1. Ended' = Ended
    BY <1>7 DEF RoundEnds, Install, Ended, Faulted
  <2> QED BY <1>4, <1>7, <2>1 DEF RoundEnds, Install
<1>8. CASE RunDropped
  <2>1. CASE fwd = "pull"
    BY <1>3, <1>8, <2>1 DEF RunDropped, B!Next
  <2>2. CASE fwd = "install"
    <3>1. Ended' = Ended
      BY <1>8, <2>2 DEF RunDropped, Ended
    <3> QED BY <1>4, <1>8, <3>1 DEF RunDropped
  <2> QED BY <1>8, <2>1, <2>2 DEF RunDropped, Draining
<1>9. ASSUME NEW b \in Branches, Receive(b) PROVE B!Give(b)
  <2> DEFINE c == channel[b]
             s == got[b]
  <2>1. /\ got' = [got EXCEPT ![b] = Append(s, Head(c))] /\ c # <<>>
        /\ UNCHANGED <<variant, fwd, taken, unsent, told>>
    BY <1>9 DEF Receive, fwdVars
  <2>2. Ended' = Ended
    BY <2>1 DEF Ended, Faulted
  <2>3. b \notin told
    BY <2>1 DEF FanOutInv, ToldInv
  <2>4. Share(b)
    BY <1>9, ExistingShare DEF Receive
  <2>5. c \in Seq(Item) /\ s \in Seq(Item)
    BY DEF FanOutInv, ShapeInv
  <2>6. Len(c) \in Nat \ {0} /\ Len(s) \in Nat /\ Len(taken) \in Nat
    BY <1>0, <2>1, <2>5, EmptySeq
  <2>7. Head(c) = taken[Len(s) + 1]
    <3>1. Head(c) = c[1] /\ 1 \in 1..Len(c)
      BY <2>5, <2>6
    <3> QED BY <2>4, <3>1 DEF Share
  <2>8. Len(s) < Len(taken)
    <3> DEFINE n == Len(taken)
               g == Len(s)
               k == Len(c)
    <3>1. g + k = n \/ g + k = n - 1
      BY <2>4 DEF Share, Offered
    <3> HIDE DEF n, g, k
    <3>2. k \in Nat \ {0} /\ g \in Nat /\ n \in Nat
      BY <2>6 DEF n, g, k
    <3>3. g < n
      BY <3>1, <3>2
    <3> QED BY <3>3 DEF n, g
  <2> QED BY <2>1, <2>2, <2>3, <2>7, <2>8 DEF B!Give, Ended
<1>10. ASSUME NEW b \in Branches, ReceiveEnd(b) PROVE B!TellEnd(b)
  <2>1. fwd = "done" /\ got[b] = taken
    BY <1>10, EndOfWhole
  <2>2. Ended = TRUE /\ Ended' = TRUE
    BY <1>10, <2>1 DEF ReceiveEnd, fwdVars, Ended
  <2> QED BY <1>10, <2>1, <2>2 DEF ReceiveEnd, fwdVars, B!TellEnd, Ended
<1>11. ASSUME NEW b \in Branches, Send(b) \/ SendRefused(b) \/ DropBranch(b)
       PROVE  UNCHANGED B!vars
  <2>1. UNCHANGED <<fwd, taken, got, told>>
    BY <1>11 DEF Send, SendRefused, DropBranch, fwdVars
  <2>2. Ended' = Ended
    BY <2>1 DEF Ended, Faulted
  <2> QED BY <1>4, <2>1, <2>2
<1>12. CASE UNCHANGED vars
  <2>1. UNCHANGED <<fwd, taken, got, told>>
    BY <1>12 DEF vars, fwdVars
  <2>2. Ended' = Ended
    BY <2>1 DEF Ended, Faulted
  <2> QED BY <1>4, <2>1, <2>2
<1> QED BY <1>5, <1>6, <1>7, <1>8, <1>9, <1>10, <1>11, <1>12 DEF Next, Consume, B!Next

(* For any branches, capacity and source, and whatever consumers start,    *)
(* read and leave when: both variants of the fan-out give every branch the *)
(* source's items in order and without a gap, a failure included, and tell *)
(* it EOF once it has had them all (fan_out_readable_streaming,            *)
(* fan_out_readable_shared).                                               *)
THEOREM FanOutRefines == Safety => ImplementsBroadcast
<1>1. Safety => []FanOutInv
  BY FanOutInitInv, FanOutNextInv, PTL DEF Safety
<1> QED BY <1>1, InitRefines, NextRefines, PTL DEF Safety, ImplementsBroadcast, B!Spec
=============================================================================
