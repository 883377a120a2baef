------------------------------- MODULE FanOut --------------------------------
(***************************************************************************)
(* The two ways to fan a readable stream out to the consumers of its step  *)
(* (src/kernel/streams.rs), between which maybe_install_fanout             *)
(* (runtime.rs) chooses by the action's parallel_waves.                    *)
(*                                                                         *)
(* "streaming", fan_out_readable_streaming: a forwarder task takes one     *)
(* item at a time from the producer's source and sends it to every         *)
(* branch's bounded channel, all of them before it takes the next.  No     *)
(* cancellation token reaches it; it ends with its source or when no       *)
(* branch is left.                                                         *)
(*                                                                         *)
(* "eager", fan_out_readable_shared: the source is drained to its end or   *)
(* its first error and every branch is then registered over a copy.  No    *)
(* consumer starts before that; the drain watches no token, so only the    *)
(* drop of the whole run ends it early, and the chunks are gone with it.   *)
(*                                                                         *)
(* Before says which consumers the scheduler starts only after others have *)
(* ended: a later wave, or a wave run sequentially.                        *)
(***************************************************************************)
EXTENDS Integers, Sequences

CONSTANTS
  Branches,   \* the branches, one per consumer of the producer step
  Capacity,   \* STREAM_FANOUT_CAPACITY, chunks per branch
  Length,     \* bound: the chunks the source may yield
  Variants,   \* "streaming", "eager"
  Before      \* for each variant, <<b, c>>: c's consumer starts when b's has ended

ASSUME FanOutAssumption ==
  /\ Branches # {}
  /\ Capacity \in Nat \ {0} /\ Length \in Nat
  /\ Variants \subseteq {"streaming", "eager"}
  /\ \A v \in Variants : Before[v] \subseteq Branches \X Branches

VARIABLES
  variant,
  fwd,        \* "pull", "send" or "install"; "done" (the source ended),
              \* "nobody" (no branch is left) or "dropped" (with the run)
  taken,      \* history: the items taken from the source
  unsent,     \* the sends of this round that join_all still waits for
  refused,    \* the sends of this round that found no receiver
  channel,    \* what each branch's source still has to yield
  left,       \* the branches closed by their consumer, or dropped
  got,        \* history: the items each consumer has received
  told        \* the branches whose consumer has been told EOF

fwdVars == <<variant, fwd, taken, unsent, refused>>
vars == <<fwdVars, channel, left, got, told>>

(* A chunk is its place in the source; Fault is the source's Err item.     *)
Fault == 0
Item == 0..Length
Faulted == taken # <<>> /\ taken[Len(taken)] = Fault

Init ==
  /\ variant \in Variants
  /\ fwd = "pull" /\ taken = <<>> /\ unsent = {} /\ refused = {}
  /\ channel = [b \in Branches |-> <<>>]
  /\ left = {}
  /\ got = [b \in Branches |-> <<>>]
  /\ told = {}

-----------------------------------------------------------------------------
(* The forwarder task                                                      *)

Forwarding == variant = "streaming" /\ fwd = "pull"

StartRound(item) ==
  /\ Forwarding
  /\ taken' = Append(taken, item)
  /\ fwd' = "send"
  /\ unsent' = Branches /\ refused' = {}
  /\ UNCHANGED <<variant, channel, left, got, told>>

SourceYields == Len(taken) < Length /\ StartRound(Len(taken) + 1)
SourceFails == StartRound(Fault)

SourceEnds ==
  /\ Forwarding
  /\ fwd' = "done"
  /\ UNCHANGED <<variant, taken, unsent, refused, channel, left, got, told>>

Send(b) ==
  /\ b \in unsent /\ b \notin left
  /\ Len(channel[b]) < Capacity
  /\ channel' = [channel EXCEPT ![b] = Append(@, taken[Len(taken)])]
  /\ unsent' = unsent \ {b}
  /\ UNCHANGED <<variant, fwd, taken, refused, left, got, told>>

(* Mutant: a send to a branch that is gone is never resolved.              *)
SendRefusedNever(b) == FALSE /\ UNCHANGED vars

SendRefused(b) ==
  /\ b \in unsent /\ b \in left
  /\ unsent' = unsent \ {b}
  /\ refused' = refused \cup {b}
  /\ UNCHANGED <<variant, fwd, taken, channel, left, got, told>>

(* Mutant: any consumer that left ends the forwarder, not all of them.     *)
RoundEndsIfAnyLeft ==
  /\ fwd = "send" /\ unsent = {}
  /\ fwd' = IF Faulted THEN "done" ELSE IF refused # {} THEN "nobody" ELSE "pull"
  /\ UNCHANGED <<variant, taken, unsent, refused, channel, left, got, told>>

RoundEnds ==
  /\ fwd = "send" /\ unsent = {}
  /\ fwd' = IF Faulted THEN "done" ELSE IF refused = Branches THEN "nobody" ELSE "pull"
  /\ UNCHANGED <<variant, taken, unsent, refused, channel, left, got, told>>

-----------------------------------------------------------------------------
(* The eager drain                                                         *)

Draining == variant = "eager" /\ fwd = "pull"

DrainChunk ==
  /\ Draining /\ Len(taken) < Length
  /\ taken' = Append(taken, Len(taken) + 1)
  /\ UNCHANGED <<variant, fwd, unsent, refused, channel, left, got, told>>

DrainFault ==
  /\ Draining
  /\ taken' = Append(taken, Fault)
  /\ fwd' = "install"
  /\ UNCHANGED <<variant, unsent, refused, channel, left, got, told>>

DrainEnd ==
  /\ Draining
  /\ fwd' = "install"
  /\ UNCHANGED <<variant, taken, unsent, refused, channel, left, got, told>>

(* Every branch re-emits the chunks, then the error that ended them.       *)
Install ==
  /\ fwd = "install"
  /\ fwd' = "done"
  /\ channel' = [b \in Branches |-> taken]
  /\ UNCHANGED <<variant, taken, unsent, refused, left, got, told>>

(* The wallclock's backstop drops the run while it drains.                 *)
RunDropped ==
  /\ Draining \/ fwd = "install"
  /\ fwd' = "dropped"
  /\ UNCHANGED <<variant, taken, unsent, refused, channel, left, got, told>>

-----------------------------------------------------------------------------
(* The branches' consumers                                                 *)

Exists(b) == b \notin left /\ (variant = "eager" => fwd = "done")
Over(b) == b \in told \cup left
Started(c) == \A b \in Branches : <<b, c>> \in Before[variant] => Over(b)

Receive(b) ==
  /\ Exists(b) /\ Started(b)
  /\ channel[b] # <<>>
  /\ got' = [got EXCEPT ![b] = Append(@, Head(channel[b]))]
  /\ channel' = [channel EXCEPT ![b] = Tail(@)]
  /\ UNCHANGED <<fwdVars, left, told>>

ReceiveEnd(b) ==
  /\ Exists(b) /\ Started(b) /\ b \notin told
  /\ channel[b] = <<>> /\ fwd \in {"done", "nobody"}
  /\ told' = told \cup {b}
  /\ UNCHANGED <<fwdVars, channel, left, got>>

(* The branch is closed, or its consumer's task or run is dropped.         *)
DropBranch(b) ==
  /\ Exists(b)
  /\ left' = left \cup {b}
  /\ channel' = [channel EXCEPT ![b] = <<>>]
  /\ UNCHANGED <<fwdVars, got, told>>

-----------------------------------------------------------------------------
Source == SourceYields \/ SourceFails \/ SourceEnds
Drain == DrainChunk \/ DrainFault \/ DrainEnd
Consume(b) == Receive(b) \/ ReceiveEnd(b)

Next ==
  \/ Source \/ RoundEnds
  \/ Drain \/ Install \/ RunDropped
  \/ \E b \in Branches : Send(b) \/ SendRefused(b) \/ Consume(b) \/ DropBranch(b)

Safety == Init /\ [][Next]_vars

(* A runtime that polls its tasks resolves each send that can be resolved  *)
(* (tokio's semaphore is fair), a source that answers, and consumers that, *)
(* once started, read until they are told EOF or let the branch go.        *)
Fairness ==
  /\ WF_vars(Source) /\ WF_vars(RoundEnds)
  /\ WF_vars(Drain) /\ WF_vars(Install)
  /\ \A b \in Branches :
       WF_vars(Send(b)) /\ WF_vars(SendRefused(b)) /\ WF_vars(Consume(b))

Spec == Safety /\ Fairness

-----------------------------------------------------------------------------
(* Both variants implement one promise: a branch is given the items taken  *)
(* from the source, in order and without a gap, a failure included, and is *)
(* told EOF when it has had them all, not because a sibling left           *)
(* (join_all over the sends; the copies made by fan_out_readable_shared).  *)
B == INSTANCE Broadcast WITH ended <- fwd \in {"done", "install", "dropped"} \/ Faulted
ImplementsBroadcast == B!Spec

(* Every consumer that keeps reading is told EOF, whatever its siblings do *)
(* - of the streaming variant when they run concurrently, as the code      *)
(* requires, of the eager one in any order, unless the run is dropped      *)
(* during the drain.                                                       *)
EveryReaderFinishes == <>(fwd = "dropped" \/ \A b \in Branches : Over(b))
=============================================================================
