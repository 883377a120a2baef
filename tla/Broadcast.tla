------------------------------ MODULE Broadcast ------------------------------
(***************************************************************************)
(* What a fan-out of one readable stream promises its consumers, whichever *)
(* of the two variants in src/kernel/streams.rs sets it up: every branch   *)
(* is told the same items in the source's order, none skipped and none     *)
(* twice, a failure of the source included, and a branch is told EOF only  *)
(* when it has been given everything.                                      *)
(***************************************************************************)
EXTENDS Integers, Sequences

CONSTANTS
  Branches,   \* the branches, one per consumer of the producer step
  Length      \* bound: the chunks the source may yield

VARIABLES
  taken,      \* the items taken from the source so far
  ended,      \* the source has ended, with EOF or with an error
  got,        \* the items each branch's consumer has been given
  told        \* the branches whose consumer has been told EOF

vars == <<taken, ended, got, told>>

(* A chunk is its place in the source; Fault is the source's Err item.     *)
Fault == 0
Item == 0..Length

Init ==
  /\ taken = <<>> /\ ended = FALSE
  /\ got = [b \in Branches |-> <<>>]
  /\ told = {}

TakeChunk ==
  /\ ~ended /\ Len(taken) < Length
  /\ taken' = Append(taken, Len(taken) + 1)
  /\ UNCHANGED <<ended, got, told>>

TakeFault ==
  /\ ~ended
  /\ taken' = Append(taken, Fault)
  /\ ended' = TRUE
  /\ UNCHANGED <<got, told>>

TakeEnd ==
  /\ ~ended
  /\ ended' = TRUE
  /\ UNCHANGED <<taken, got, told>>

Give(b) ==
  /\ b \notin told
  /\ Len(got[b]) < Len(taken)
  /\ got' = [got EXCEPT ![b] = Append(@, taken[Len(@) + 1])]
  /\ UNCHANGED <<taken, ended, told>>

TellEnd(b) ==
  /\ ended /\ b \notin told
  /\ got[b] = taken
  /\ told' = told \cup {b}
  /\ UNCHANGED <<taken, ended, got>>

Next ==
  \/ TakeChunk \/ TakeFault \/ TakeEnd
  \/ \E b \in Branches : Give(b) \/ TellEnd(b)

Spec == Init /\ [][Next]_vars
=============================================================================
