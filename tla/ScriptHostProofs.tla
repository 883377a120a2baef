--------------------------- MODULE ScriptHostProofs ---------------------------
(***************************************************************************)
(* TLAPS proofs for ScriptHost, for any module, any limits and any number  *)
(* of calls: the objects of a store together fit the cap, a failed step is *)
(* blamed on what failed it, and the stash answers the last call.          *)
(***************************************************************************)
EXTENDS ScriptHost, SequenceTheorems, WellFoundedInduction, TLAPS

-----------------------------------------------------------------------------
(* The two slots and the guest's reads.                                    *)

(* A guest that has read its answers finds no result left over, and the    *)
(* slots hold one answer when it is a result.  An error may be left over,  *)
(* but only once the guest is out of step.                                 *)
StashInv ==
  /\ calls \in Nat
  /\ stash = [result |-> stash.result, error |-> stash.error]
  /\ pending = 0 => stash.result = 0
  /\ synced /\ stash.result # 0 => stash.error = 0
  /\ synced => pending = Visible

LEMMA AnswerKeeps ==
  ASSUME StashInv, NEW slot, NEW through \in BOOLEAN, Answer(slot, through),
         \/ through /\ slot \in {[result |-> 0, error |-> 0], [result |-> calls + 1, error |-> 0],
                                 [result |-> 0, error |-> calls + 1]}
         \/ ~through /\ slot = [stash EXCEPT !.error = calls + 1]
  PROVE  StashInv'
<1>1. calls' = calls + 1 /\ calls \in Nat /\ stash' = slot
      /\ pending' = (IF slot = [result |-> 0, error |-> 0] THEN 0 ELSE calls + 1)
      /\ (synced' <=> (through \/ pending = 0))
  BY DEF Answer, StashInv
<1>2. CASE through
  <2>1. slot = [result |-> slot.result, error |-> slot.error]
        /\ \/ slot.result = 0 /\ slot.error = 0 /\ pending' = 0
           \/ slot.result = calls + 1 /\ slot.error = 0 /\ pending' = calls + 1
           \/ slot.result = 0 /\ slot.error = calls + 1 /\ pending' = calls + 1
    BY <1>1, <1>2
  <2> QED BY <1>1, <2>1 DEF StashInv, Visible
<1>3. CASE ~through
  <2>1. slot = [result |-> stash.result, error |-> calls + 1]
    BY <1>3 DEF StashInv
  <2>2. slot.result = stash.result /\ slot.error = calls + 1
    BY <2>1
  <2>3. slot # [result |-> 0, error |-> 0]
    BY <1>1, <2>2
  <2>4. pending = 0 => stash.result = 0
    BY DEF StashInv
  <2> QED BY <1>1, <1>3, <2>1, <2>2, <2>3, <2>4 DEF StashInv, Visible
<1> QED BY <1>2, <1>3

LEMMA ReadKeeps ==
  ASSUME StashInv, stash' = Taken, pending' = 0, UNCHANGED <<calls, synced>>
  PROVE  StashInv'
<1>1. stash = [result |-> stash.result, error |-> stash.error]
  BY DEF StashInv
<1>2. CASE stash.result # 0
  <2>1. stash' = [result |-> 0, error |-> stash.error]
    BY <1>1, <1>2 DEF Taken
  <2>2. stash'.result = 0 /\ stash'.error = stash.error
    BY <2>1
  <2> QED BY <1>2, <2>1, <2>2 DEF StashInv, Visible
<1>3. CASE stash.result = 0
  <2>1. stash' = [result |-> 0, error |-> 0]
    BY <1>1, <1>3 DEF Taken
  <2>2. stash'.result = 0 /\ stash'.error = 0
    BY <2>1
  <2> QED BY <2>1, <2>2 DEF StashInv, Visible
<1> QED BY <1>2, <1>3

LEMMA SlotsUnchanged ==
  ASSUME StashInv, UNCHANGED slots
  PROVE  StashInv'
BY DEF StashInv, Visible, slots

LEMMA StashInvInductive ==
  /\ Init => StashInv
  /\ StashInv /\ [Next]_vars => StashInv'
<1>1. ASSUME Init PROVE StashInv
  <2>1. calls = 0 /\ pending = 0 /\ stash = [result |-> 0, error |-> 0]
    BY <1>1 DEF Init
  <2>2. stash.result = 0 /\ stash.error = 0
    BY <2>1
  <2> QED BY <2>1, <2>2 DEF StashInv, Visible
<1>2. ASSUME StashInv, UNCHANGED vars PROVE StashInv'
  BY <1>2, SlotsUnchanged DEF vars
<1>3. ASSUME StashInv, Next PROVE StashInv'
  <2> USE <1>3
  <2>1. CASE \/ SetupFails \/ SetUp \/ StartRuns \/ InstantiateFails \/ Instantiated
             \/ (\E i \in DOMAIN sizes : Grow(i))
             \/ (\E b \in BOOLEAN : GuestTraps(b) \/ AllocReturns(b) \/ ExecuteReturns(b))
             \/ IsCancelled \/ StreamReadCancelled \/ StreamWriteCancelled \/ Cancel
    <3>1. UNCHANGED slots
      BY <2>1 DEF SetupFails, SetUp, StartRuns, InstantiateFails, Instantiated, Grow, GuestTraps,
         AllocReturns, ExecuteReturns, IsCancelled, StreamReadCancelled, StreamWriteCancelled, Cancel,
         Ends, Told
    <3> QED BY <3>1, SlotsUnchanged
  <2>2. CASE CreateObject
    <3>1. UNCHANGED slots
      BY <2>2 DEF CreateObject, Ends
    <3> QED BY <3>1, SlotsUnchanged
  <2>3. CASE HostInvokeBails \/ HostInvokeStreamingBails
    <3>1. Answer([stash EXCEPT !.error = calls + 1], FALSE)
      BY <2>3 DEF HostInvokeBails, HostInvokeStreamingBails, BailHostCall
    <3> QED BY <3>1, AnswerKeeps
  <2>4. CASE HostInvokeOk
    <3>1. Answer([result |-> calls + 1, error |-> 0], TRUE)
      BY <2>4 DEF HostInvokeOk
    <3> QED BY <3>1, AnswerKeeps
  <2>5. ASSUME NEW e, HostInvokeFails(e) PROVE StashInv'
    <3>1. Answer([result |-> 0, error |-> calls + 1], TRUE)
      BY <2>5 DEF HostInvokeFails
    <3> QED BY <3>1, AnswerKeeps
  <2>6. CASE HostInvokeStreamingOk
    <3>1. Answer([result |-> 0, error |-> 0], TRUE)
      BY <2>6 DEF HostInvokeStreamingOk
    <3> QED BY <3>1, AnswerKeeps
  <2>7. ASSUME NEW b \in BOOLEAN, CallResultRead(b) PROVE StashInv'
    BY <2>7, ReadKeeps DEF CallResultRead
  <2> QED BY <2>1, <2>2, <2>3, <2>4, <2>5, <2>6, <2>7 DEF Next
<1> QED BY <1>1, <1>2, <1>3

(* host_call_result_read hands out the answer to the guest's last call, if *)
(* the guest reads its answers or the call reached its callee, over any    *)
(* sequence of host_invoke, host_invoke_streaming and reads.               *)
THEOREM AnswersMatchCalls == Spec => []StashAnswersLastCall
<1>1. StashInv => StashAnswersLastCall
  BY DEF StashInv, Visible, StashAnswersLastCall
<1> QED BY <1>1, StashInvInductive, PTL DEF Spec

-----------------------------------------------------------------------------
(* Sums.  Totals is a recursive function: the first lemma says that it     *)
(* meets its equation, the others are least-counterexample arguments.      *)

Counts(m, kind, a, n) == IF m[n].kind = kind THEN a[n] ELSE 0
NextTotal(m, kind, a, f, n) == IF n = 0 THEN 0 ELSE f[n - 1] + Counts(m, kind, a, n)
IsTotals(m, kind, a, f) == f = [n \in 0..Len(a) |-> NextTotal(m, kind, a, f, n)]

LEMMA NoLeast ==
  ASSUME NEW bad, bad \subseteq Nat,
         \A n \in bad : \E m \in bad : m < n
  PROVE  bad = {}
<1> SUFFICES ASSUME bad # {} PROVE FALSE
  OBVIOUS
<1>1. PICK n \in bad : \A m \in bad : ~ (<<m, n>> \in OpToRel(<, Nat))
  BY NatLessThanWellFounded, WFMin
<1>2. \A m \in bad : ~ (m < n)
  BY <1>1, Zenon DEF OpToRel
<1>3. PICK m \in bad : m < n
  BY <1>1
<1> QED BY <1>2, <1>3

LEMMA TotalsExist ==
  ASSUME NEW m, NEW kind, NEW a \in Seq(Nat)
  PROVE  IsTotals(m, kind, a, Totals(m, kind, a))
<1> DEFINE Has(k) == \E f : f = [n \in 0..k |-> NextTotal(m, kind, a, f, n)]
           lacks == {k \in 0..Len(a) : ~ Has(k)}
<1>1. Has(0)
  <2>1. PICK f : f = [n \in 0..0 |-> 0]
    OBVIOUS
  <2>2. \A n \in 0..0 : NextTotal(m, kind, a, f, n) = 0
    BY DEF NextTotal
  <2>3. f = [n \in 0..0 |-> NextTotal(m, kind, a, f, n)]
    BY <2>1, <2>2
  <2> QED BY <2>3
<1>2. ASSUME NEW k \in 1..Len(a), Has(k - 1) PROVE Has(k)
  <2>1. PICK f : f = [n \in 0..(k - 1) |-> NextTotal(m, kind, a, f, n)]
    BY <1>2
  <2>2. PICK g : g = [n \in 0..k |-> IF n = k THEN f[k - 1] + Counts(m, kind, a, k) ELSE f[n]]
    OBVIOUS
  <2>3. ASSUME NEW n \in 0..k PROVE g[n] = NextTotal(m, kind, a, g, n)
    <3>1. CASE n = k
      <4>1. g[k - 1] = f[k - 1] /\ g[k] = f[k - 1] + Counts(m, kind, a, k)
        BY <2>2
      <4> QED BY <3>1, <4>1 DEF NextTotal
    <3>2. CASE n # k
      <4>1. n \in 0..(k - 1)
        BY <3>2
      <4>2. g[n] = f[n] /\ f[n] = NextTotal(m, kind, a, f, n) /\ (n # 0 => g[n - 1] = f[n - 1])
        <5>1. g[n] = f[n] /\ (n # 0 => g[n - 1] = f[n - 1])
          BY <2>2, <4>1
        <5>2. f[n] = NextTotal(m, kind, a, f, n)
          BY <2>1, <4>1, Zenon
        <5> QED BY <5>1, <5>2
      <4> QED BY <4>2 DEF NextTotal
    <3> QED BY <3>1, <3>2
  <2>4. g = [n \in 0..k |-> NextTotal(m, kind, a, g, n)]
    BY <2>2, <2>3
  <2> QED BY <2>4
<1> HIDE DEF Has
<1>3. lacks = {}
  <2>1. lacks \subseteq Nat /\ \A k \in lacks : \E l \in lacks : l < k
    <3> SUFFICES ASSUME NEW k \in lacks PROVE k - 1 \in lacks
      OBVIOUS
    <3>1. k \in 1..Len(a)
      BY <1>1
    <3> QED BY <3>1, <1>2
  <2> HIDE DEF lacks
  <2> QED BY <2>1, NoLeast
<1>4. Len(a) \in 0..Len(a)
  OBVIOUS
<1>5. \E f : f = [n \in 0..Len(a) |-> NextTotal(m, kind, a, f, n)]
  BY <1>3, <1>4 DEF Has
<1>6. Totals(m, kind, a) = CHOOSE f : f = [n \in 0..Len(a) |-> NextTotal(m, kind, a, f, n)]
  BY DEF Totals, NextTotal, Counts
<1> QED BY <1>5, <1>6 DEF IsTotals

LEMMA TotalsStep ==
  ASSUME NEW m, NEW kind, NEW a \in Seq(Nat), NEW f, IsTotals(m, kind, a, f)
  PROVE  /\ f[0] = 0
         /\ \A n \in 1..Len(a) : f[n] = f[n - 1] + Counts(m, kind, a, n) /\ Counts(m, kind, a, n) \in Nat
<1>1. \A n \in 0..Len(a) : f[n] = NextTotal(m, kind, a, f, n)
  BY DEF IsTotals
<1>2. \A n \in 1..Len(a) : a[n] \in Nat
  OBVIOUS
<1> QED BY <1>1, <1>2 DEF NextTotal, Counts

LEMMA TotalsAreNat ==
  ASSUME NEW m, NEW kind, NEW a \in Seq(Nat), NEW f, IsTotals(m, kind, a, f)
  PROVE  \A n \in 0..Len(a) : f[n] \in Nat
<1>0. f[0] = 0 /\ \A n \in 1..Len(a) : /\ f[n] = f[n - 1] + Counts(m, kind, a, n)
                                         /\ Counts(m, kind, a, n) \in Nat
  BY TotalsStep
<1> DEFINE bad == {n \in 0..Len(a) : f[n] \notin Nat}
<1>1. \A n \in bad : \E l \in bad : l < n
  <2> SUFFICES ASSUME NEW n \in bad PROVE n - 1 \in bad
    OBVIOUS
  <2>1. n \in 1..Len(a)
    BY <1>0
  <2> QED BY <1>0, <2>1
<1>2. bad \subseteq Nat
  OBVIOUS
<1> HIDE DEF bad
<1>3. bad = {}
  BY <1>1, <1>2, NoLeast
<1> QED BY <1>3 DEF bad

(* A longer prefix counts no less.                                         *)
LEMMA TotalsGrow ==
  ASSUME NEW m, NEW kind, NEW a \in Seq(Nat), NEW f, IsTotals(m, kind, a, f), NEW k \in 0..Len(a)
  PROVE  \A n \in k..Len(a) : f[k] <= f[n]
<1>0. f[0] = 0 /\ \A n \in 1..Len(a) : /\ f[n] = f[n - 1] + Counts(m, kind, a, n)
                                         /\ Counts(m, kind, a, n) \in Nat
  BY TotalsStep
<1>t. \A n \in 0..Len(a) : f[n] \in Nat
  BY TotalsAreNat
<1> DEFINE bad == {n \in k..Len(a) : ~ (f[k] <= f[n])}
<1>1. \A n \in bad : \E l \in bad : l < n
  <2> SUFFICES ASSUME NEW n \in bad PROVE n - 1 \in bad
    OBVIOUS
  <2>1. f[k] \in Nat /\ f[n] \in Nat
    BY <1>t
  <2>2. n \in 1..Len(a) /\ n - 1 \in k..Len(a) /\ f[n - 1] \in Nat
    BY <2>1, <1>t
  <2> QED BY <2>1, <2>2, <1>0
<1>2. bad \subseteq Nat
  OBVIOUS
<1> HIDE DEF bad
<1>3. bad = {}
  BY <1>1, <1>2, NoLeast
<1> QED BY <1>3 DEF bad

(* Equal amounts have equal totals.                                        *)
Agree(a, b, k) == k <= Len(a) /\ k <= Len(b) /\ \A i \in 1..k : a[i] = b[i]

LEMMA TotalsAgree ==
  ASSUME NEW m, NEW kind, NEW a \in Seq(Nat), NEW b \in Seq(Nat), NEW k \in Nat,
         Agree(a, b, k),
         NEW f, IsTotals(m, kind, a, f), NEW g, IsTotals(m, kind, b, g)
  PROVE  \A n \in 0..k : f[n] = g[n]
<1>0. f[0] = 0 /\ \A n \in 1..Len(a) : /\ f[n] = f[n - 1] + Counts(m, kind, a, n)
                                         /\ Counts(m, kind, a, n) \in Nat
  BY TotalsStep
<1>t. g[0] = 0 /\ \A n \in 1..Len(b) : /\ g[n] = g[n - 1] + Counts(m, kind, b, n)
                                         /\ Counts(m, kind, b, n) \in Nat
  BY TotalsStep
<1>k. k <= Len(a) /\ k <= Len(b) /\ \A i \in 1..k : a[i] = b[i]
  BY DEF Agree
<1> DEFINE bad == {n \in 0..k : f[n] # g[n]}
<1>1. \A n \in bad : \E l \in bad : l < n
  <2> SUFFICES ASSUME NEW n \in bad PROVE n - 1 \in bad
    OBVIOUS
  <2>1. n \in 1..k
    BY <1>0, <1>t
  <2>2. f[n] = f[n - 1] + Counts(m, kind, a, n) /\ g[n] = g[n - 1] + Counts(m, kind, b, n)
    BY <2>1, <1>0, <1>t, <1>k
  <2>3. Counts(m, kind, a, n) = Counts(m, kind, b, n)
    BY <2>1, <1>k DEF Counts
  <2> QED BY <2>1, <2>2, <2>3
<1>2. bad \subseteq Nat
  OBVIOUS
<1> HIDE DEF bad
<1>3. bad = {}
  BY <1>1, <1>2, NoLeast
<1> QED BY <1>3 DEF bad

LEMMA TotalIsNat ==
  ASSUME NEW m, NEW kind, NEW a \in Seq(Nat)
  PROVE  Total(m, kind, a) \in Nat
<1>1. IsTotals(m, kind, a, Totals(m, kind, a)) /\ Len(a) \in 0..Len(a)
  BY TotalsExist
<1> QED BY <1>1, TotalsAreNat DEF Total

LEMMA TotalOfNone ==
  ASSUME NEW m, NEW kind
  PROVE  Total(m, kind, <<>>) = 0
<1>1. <<>> \in Seq(Nat) /\ Len(<<>>) = 0
  BY EmptySeq
<1>2. IsTotals(m, kind, <<>>, Totals(m, kind, <<>>))
  BY <1>1, TotalsExist
<1> QED BY <1>1, <1>2, TotalsStep DEF Total

(* A prefix of b, and the object after it, count no more than b.           *)
LEMMA TotalOfPrefix ==
  ASSUME NEW m, NEW kind, NEW a \in Seq(Nat), NEW b \in Seq(Nat), Len(a) < Len(b),
         \A i \in 1..Len(a) : a[i] = b[i]
  PROVE  /\ Total(m, kind, a) + Counts(m, kind, b, Len(a) + 1) <= Total(m, kind, b)
         /\ Len(b) = Len(a) + 1 =>
              Total(m, kind, b) = Total(m, kind, a) + Counts(m, kind, b, Len(a) + 1)
<1>k. PICK k : k = Len(a)
  OBVIOUS
<1>f. PICK f : f = Totals(m, kind, a)
  OBVIOUS
<1>g. PICK g : g = Totals(m, kind, b)
  OBVIOUS
<1>1. IsTotals(m, kind, a, f) /\ IsTotals(m, kind, b, g)
  BY <1>f, <1>g, TotalsExist
<1>2. k \in Nat /\ k <= Len(a) /\ k <= Len(b) /\ k \in 0..k /\ k + 1 \in 1..Len(b) /\ k + 1 - 1 = k
      /\ Len(b) \in (k + 1)..Len(b) /\ k + 1 \in 0..Len(b)
  BY <1>k
<1>3. \A n \in 0..k : f[n] = g[n]
  <2>1. Agree(a, b, k)
    BY <1>k, <1>2 DEF Agree
  <2> QED BY <1>1, <1>2, <2>1, TotalsAgree
<1>4. \A n \in 1..Len(b) : g[n] = g[n - 1] + Counts(m, kind, b, n)
  BY <1>1, TotalsStep
<1>5. g[k + 1] = f[k] + Counts(m, kind, b, k + 1)
  BY <1>2, <1>3, <1>4
<1>6. \A n \in (k + 1)..Len(b) : g[k + 1] <= g[n]
  BY <1>1, <1>2, TotalsGrow
<1>7. Total(m, kind, a) = f[k] /\ Total(m, kind, b) = g[Len(b)]
  BY <1>k, <1>f, <1>g DEF Total
<1> QED BY <1>k, <1>2, <1>5, <1>6, <1>7

(* One object more.                                                        *)
LEMMA TotalWithOneMore ==
  ASSUME NEW m, NEW kind, NEW a \in Seq(Nat), NEW x \in Nat
  PROVE  Total(m, kind, Append(a, x)) =
           Total(m, kind, a) + (IF m[Len(a) + 1].kind = kind THEN x ELSE 0)
<1>b. PICK b : b = Append(a, x)
  OBVIOUS
<1>1. b \in Seq(Nat) /\ Len(b) = Len(a) + 1 /\ b[Len(a) + 1] = x /\ \A i \in 1..Len(a) : a[i] = b[i]
  BY <1>b, AppendProperties
<1>2. Len(a) < Len(b)
  BY <1>1
<1>3. Total(m, kind, b) = Total(m, kind, a) + Counts(m, kind, b, Len(a) + 1)
  BY <1>1, <1>2, TotalOfPrefix
<1> QED BY <1>b, <1>1, <1>3 DEF Counts

(* One object larger by one.                                               *)
Larger(a, i, b) ==
  Len(b) = Len(a) /\ \A j \in 1..Len(a) : b[j] = IF j = i THEN a[j] + 1 ELSE a[j]

LEMMA TotalWithOneLarger ==
  ASSUME NEW m, NEW kind, NEW a \in Seq(Nat), NEW i \in 1..Len(a), NEW b \in Seq(Nat),
         Larger(a, i, b)
  PROVE  Total(m, kind, b) = Total(m, kind, a) + (IF m[i].kind = kind THEN 1 ELSE 0)
<1>l. Len(b) = Len(a) /\ \A j \in 1..Len(a) : b[j] = IF j = i THEN a[j] + 1 ELSE a[j]
  BY DEF Larger
<1>k. PICK k : k = IF m[i].kind = kind THEN 1 ELSE 0
  OBVIOUS
<1>f. PICK f : f = Totals(m, kind, a)
  OBVIOUS
<1>g. PICK g : g = Totals(m, kind, b)
  OBVIOUS
<1>1. IsTotals(m, kind, a, f) /\ IsTotals(m, kind, b, g)
  BY <1>f, <1>g, TotalsExist
<1>2. f[0] = 0 /\ \A n \in 1..Len(a) : f[n] = f[n - 1] + Counts(m, kind, a, n)
  BY <1>1, TotalsStep
<1>3. g[0] = 0 /\ \A n \in 1..Len(a) : g[n] = g[n - 1] + Counts(m, kind, b, n)
  <2>1. g[0] = 0 /\ \A n \in 1..Len(b) : g[n] = g[n - 1] + Counts(m, kind, b, n)
    BY <1>1, TotalsStep
  <2> QED BY <2>1, <1>l
<1>4. \A n \in 0..Len(a) : f[n] \in Nat /\ g[n] \in Nat
  BY <1>1, <1>l, TotalsAreNat
<1>5. \A n \in 1..Len(a) : Counts(m, kind, a, n) \in Nat
  BY <1>1, TotalsStep
<1>6. \A n \in 1..Len(a) :
        Counts(m, kind, b, n) = Counts(m, kind, a, n) + (IF n = i THEN k ELSE 0)
  BY <1>k, <1>l DEF Counts
<1> DEFINE bad == {n \in 0..Len(a) : g[n] # f[n] + (IF n >= i THEN k ELSE 0)}
<1>7. \A n \in bad : \E l \in bad : l < n
  <2> SUFFICES ASSUME NEW n \in bad PROVE n - 1 \in bad
    OBVIOUS
  <2>1. n \in 1..Len(a) /\ n - 1 \in 0..Len(a)
    BY <1>2, <1>3
  <2>x. PICK x : x = Counts(m, kind, a, n)
    OBVIOUS
  <2>p. PICK p : p = f[n - 1]
    OBVIOUS
  <2>q. PICK q : q = g[n - 1]
    OBVIOUS
  <2>2. f[n] = p + x /\ g[n] = q + (x + (IF n = i THEN k ELSE 0))
    BY <1>2, <1>3, <1>6, <2>1, <2>x, <2>p, <2>q
  <2>3. p \in Nat /\ q \in Nat /\ x \in Nat /\ k \in Nat /\ n \in Int /\ i \in Int
    BY <1>k, <1>4, <1>5, <2>1, <2>x, <2>p, <2>q
  <2>4. g[n] # f[n] + (IF n >= i THEN k ELSE 0)
    OBVIOUS
  <2>5. q # p + (IF n - 1 >= i THEN k ELSE 0)
    <3> HIDE DEF bad
    <3>1. CASE n < i
      BY <3>1, <2>2, <2>3, <2>4
    <3>2. CASE n = i
      BY <3>2, <2>2, <2>3, <2>4
    <3>3. CASE n > i
      BY <3>3, <2>2, <2>3, <2>4
    <3> QED BY <2>3, <3>1, <3>2, <3>3
  <2> QED BY <2>1, <2>5, <2>p, <2>q
<1>8. bad \subseteq Nat
  OBVIOUS
<1> HIDE DEF bad
<1>9. bad = {}
  BY <1>7, <1>8, NoLeast
<1>10. g[Len(a)] = f[Len(a)] + k
  BY <1>9 DEF bad
<1> QED BY <1>k, <1>l, <1>f, <1>g, <1>10 DEF Total

-----------------------------------------------------------------------------
(* The budget.                                                             *)

Kinds == {"memory", "table"}

HostTypeOK ==
  /\ step \in {"script", "wasm"} /\ module \in Modules
  /\ phase \in {"", "instantiate", "source", "args", "execute"}
  /\ sizes \in Seq(Nat) /\ Len(sizes) <= Len(module)
  /\ budget \in [memory : Nat, table : Nat, denied : BOOLEAN]
  /\ spent \in BOOLEAN /\ fired \in BOOLEAN /\ told \in BOOLEAN

LEMMA ModuleFacts ==
  ASSUME HostTypeOK
  PROVE  /\ module \in Seq([kind : Kinds, min : Nat, max : Nat]) /\ Len(module) \in Nat
         /\ Minimums(module) \in Seq(Nat) /\ Len(Minimums(module)) = Len(module)
         /\ \A i \in 1..Len(module) : /\ module[i].kind \in Kinds /\ module[i].min \in Nat
                                      /\ Minimums(module)[i] = module[i].min
<1>1. module \in Seq([kind : Kinds, min : Nat, max : Nat])
  BY ScriptHostAssumption DEF HostTypeOK, Kinds
<1>2. Len(module) \in Nat /\ \A i \in 1..Len(module) : module[i].kind \in Kinds /\ module[i].min \in Nat
  <2>s. PICK S : S = [kind : Kinds, min : Nat, max : Nat]
    OBVIOUS
  <2>1. module \in Seq(S)
    BY <1>1, <2>s
  <2>2. Len(module) \in Nat /\ \A i \in 1..Len(module) : module[i] \in S
    BY <2>1
  <2> QED BY <2>2, <2>s
<1>3. Minimums(module) = [i \in 1..Len(module) |-> module[i].min]
  BY <1>1 DEF Minimums
<1>4. Minimums(module) \in [1..Len(module) -> Nat]
  BY <1>2, <1>3
<1>5. Minimums(module) \in Seq(Nat) /\ Len(Minimums(module)) = Len(module)
  BY <1>2, <1>4
<1> QED BY <1>1, <1>2, <1>3, <1>5

LEMMA BudgetFacts ==
  ASSUME HostTypeOK, NEW kind \in Kinds
  PROVE  budget[kind] \in Nat /\ CapOf(kind) \in Nat /\ Held(kind) \in Nat
BY ScriptHostAssumption, TotalIsNat DEF HostTypeOK, Kinds, CapOf, Held

(* What an answer of the limiter does to the budget: it charges the growth *)
(* it allows, and a refusal leaves the totals alone.                       *)
LEMMA ChargedFacts ==
  ASSUME HostTypeOK, NEW kind \in Kinds, NEW c \in Nat, NEW d \in Nat, budget' = Charged(kind, c, d), c <= d
  PROVE  /\ budget' \in [memory : Nat, table : Nat, denied : BOOLEAN]
         /\ \A other \in Kinds \ {kind} : budget'[other] = budget[other]
         /\ Allows(kind, c, d) => /\ budget'[kind] = budget[kind] - c + d /\ budget'[kind] <= CapOf(kind)
                                  /\ budget'.denied = budget.denied
         /\ ~Allows(kind, c, d) => budget'[kind] = budget[kind]
         /\ budget'.denied =>
              budget.denied \/ (kind = "memory" /\ c <= budget[kind] /\ budget[kind] - c + d > CapOf(kind))
<1>1. budget[kind] \in Nat /\ CapOf(kind) \in Nat
  BY BudgetFacts
<1>b. budget = [memory |-> budget.memory, table |-> budget.table, denied |-> budget.denied]
      /\ budget.memory \in Nat /\ budget.table \in Nat /\ budget.denied \in BOOLEAN
  BY DEF HostTypeOK
<1>n. PICK n : n = NewTotal(kind, c, d)
  OBVIOUS
<1>2. n = budget[kind] - c + d
  BY <1>n DEF NewTotal
<1>3. CASE Allows(kind, c, d)
  <2>1. budget' = [budget EXCEPT ![kind] = n] /\ n \in Nat /\ n <= CapOf(kind)
    <3>1. ~ (budget[kind] < c) /\ n <= CapOf(kind)
      BY <1>3, <1>n DEF Allows, Drifted
    <3>2. budget' = [budget EXCEPT ![kind] = n]
      BY <1>3, <1>n DEF Charged
    <3>3. n \in Nat
      BY <1>1, <1>2, <3>1
    <3> QED BY <3>1, <3>2, <3>3
  <2>2. CASE kind = "memory"
    <3>1. budget' = [memory |-> n, table |-> budget.table, denied |-> budget.denied]
      BY <1>b, <2>1, <2>2
    <3> QED BY <1>b, <1>2, <1>3, <2>1, <2>2, <3>1 DEF Kinds
  <2>3. CASE kind = "table"
    <3>1. budget' = [memory |-> budget.memory, table |-> n, denied |-> budget.denied]
      BY <1>b, <2>1, <2>3
    <3> QED BY <1>b, <1>2, <1>3, <2>1, <2>3, <3>1 DEF Kinds
  <2> QED BY <2>2, <2>3 DEF Kinds
<1>4. CASE ~Allows(kind, c, d) /\ kind = "memory" /\ ~Drifted(kind, c)
  <2>1. budget' = [memory |-> budget.memory, table |-> budget.table, denied |-> TRUE]
    BY <1>b, <1>4 DEF Charged
  <2>2. c <= budget[kind] /\ n > CapOf(kind)
    BY <1>1, <1>2, <1>4, <1>n DEF Allows, Drifted
  <2>3. budget'.memory = budget.memory /\ budget'.table = budget.table
        /\ budget' \in [memory : Nat, table : Nat, denied : BOOLEAN]
    BY <1>b, <2>1
  <2> QED BY <1>2, <1>4, <2>2, <2>3 DEF Kinds
<1>5. CASE ~Allows(kind, c, d) /\ ~ (kind = "memory" /\ ~Drifted(kind, c))
  <2>1. budget' = budget
    BY <1>5 DEF Charged
  <2> QED BY <1>5, <2>1 DEF HostTypeOK
<1> QED BY <1>3, <1>4, <1>5

(* Creating an object of the kind it charges.                              *)
LEMMA CreateFits ==
  ASSUME HostTypeOK, StoreFitsTheCap, UNCHANGED module, Len(sizes) < Len(module),
         NEW kind, kind = module[Len(sizes) + 1].kind, NEW min, min = module[Len(sizes) + 1].min,
         budget' = Charged(kind, 0, min),
         \/ Allows(kind, 0, min) /\ sizes' = Append(sizes, min)
         \/ ~Allows(kind, 0, min) /\ UNCHANGED sizes
  PROVE  /\ StoreFitsTheCap' /\ sizes' \in Seq(Nat) /\ Len(sizes') <= Len(module)
         /\ \A k \in Kinds : Held(k)' - Held(k) = budget'[k] - budget[k]
<1>1. sizes \in Seq(Nat) /\ Len(sizes) \in Nat /\ Len(module) \in Nat /\ Len(sizes) + 1 \in 1..Len(module)
  <2>1. sizes \in Seq(Nat) /\ Len(module) \in Nat
    BY ModuleFacts DEF HostTypeOK
  <2>2. Len(sizes) \in Nat
    BY <2>1
  <2> QED BY <2>1, <2>2
<1>2. kind \in Kinds /\ min \in Nat
  BY <1>1, ModuleFacts
<1>3. /\ \A other \in Kinds \ {kind} : budget'[other] = budget[other]
      /\ Allows(kind, 0, min) => budget'[kind] = budget[kind] + min /\ budget'[kind] <= CapOf(kind)
      /\ ~Allows(kind, 0, min) => budget'[kind] = budget[kind]
  <2>1. budget[kind] \in Nat
    BY <1>2, BudgetFacts
  <2> QED BY <1>2, <2>1, ChargedFacts
<1>4. sizes' \in Seq(Nat) /\ Len(sizes') <= Len(module)
  BY SMTT(30), <1>1, <1>2, AppendProperties
<1>5. ASSUME NEW k \in Kinds
      PROVE  /\ Held(k)' <= budget'[k] /\ budget'[k] <= CapOf(k)
             /\ Held(k)' - Held(k) = budget'[k] - budget[k]
  <2>1. budget[k] \in Nat /\ CapOf(k) \in Nat /\ Held(k) \in Nat /\ Held(k) <= budget[k] /\ budget[k] <= CapOf(k)
    BY BudgetFacts DEF StoreFitsTheCap, Kinds
  <2>2. CASE Allows(kind, 0, min)
    <3>1. Total(module, k, Append(sizes, min)) = Total(module, k, sizes) + (IF kind = k THEN min ELSE 0)
      BY <1>1, <1>2, TotalWithOneMore
    <3>2. Held(k)' = Held(k) + (IF kind = k THEN min ELSE 0)
      BY <2>2, <3>1 DEF Held
    <3> QED BY <1>2, <1>3, <2>1, <2>2, <3>2
  <2>3. CASE ~Allows(kind, 0, min)
    <3>1. Held(k)' = Held(k)
      BY <2>3 DEF Held
    <3> QED BY <1>3, <2>1, <2>3, <3>1
  <2> QED BY <2>2, <2>3
<1>6. StoreFitsTheCap'
  BY <1>5 DEF StoreFitsTheCap, Kinds, CapOf
<1> QED BY <1>4, <1>5, <1>6

LEMMA GrowFits ==
  ASSUME HostTypeOK, StoreFitsTheCap, NEW i \in DOMAIN sizes, Grow(i)
  PROVE  /\ StoreFitsTheCap' /\ HostTypeOK'
<1>k. PICK kind : kind = module[i].kind
  OBVIOUS
<1>1. sizes \in Seq(Nat) /\ Len(sizes) \in Nat /\ Len(module) \in Nat /\ i \in 1..Len(sizes) /\ i \in 1..Len(module)
      /\ sizes[i] \in Nat /\ sizes[i] + 1 \in Nat /\ sizes[i] <= sizes[i] + 1
  <2>1. sizes \in Seq(Nat) /\ Len(sizes) <= Len(module) /\ Len(module) \in Nat
    BY ModuleFacts DEF HostTypeOK
  <2>2. Len(sizes) \in Nat /\ i \in 1..Len(sizes)
    BY <2>1
  <2>3. sizes[i] \in Nat
    BY <2>1, <2>2
  <2> QED BY <2>1, <2>2, <2>3
<1>2. kind \in Kinds
  BY <1>k, <1>1, ModuleFacts
<1>3. /\ budget' = Charged(kind, sizes[i], sizes[i] + 1)
      /\ \/ Allows(kind, sizes[i], sizes[i] + 1) /\ sizes' = [sizes EXCEPT ![i] = @ + 1]
         \/ sizes' = sizes
      /\ UNCHANGED <<step, module, phase, spent, fired, told>>
  BY <1>k DEF Grow
<1>4. /\ budget' \in [memory : Nat, table : Nat, denied : BOOLEAN]
      /\ \A other \in Kinds \ {kind} : budget'[other] = budget[other]
      /\ Allows(kind, sizes[i], sizes[i] + 1) =>
           budget'[kind] = budget[kind] - sizes[i] + (sizes[i] + 1) /\ budget'[kind] <= CapOf(kind)
      /\ ~Allows(kind, sizes[i], sizes[i] + 1) => budget'[kind] = budget[kind]
  BY <1>1, <1>2, <1>3, ChargedFacts
<1>5. ASSUME sizes' = [sizes EXCEPT ![i] = @ + 1]
      PROVE  sizes' \in Seq(Nat) /\ Len(sizes') = Len(sizes) /\ Larger(sizes, i, sizes')
  BY <1>1, <1>5 DEF Larger
<1>6. HostTypeOK'
  BY <1>3, <1>4, <1>5 DEF HostTypeOK
<1>7. ASSUME NEW k \in Kinds PROVE Held(k)' <= budget'[k] /\ budget'[k] <= CapOf(k)
  <2>1. budget[k] \in Nat /\ CapOf(k) \in Nat /\ Held(k) \in Nat /\ Held(k) <= budget[k] /\ budget[k] <= CapOf(k)
    BY BudgetFacts DEF StoreFitsTheCap, Kinds
  <2>2. CASE Allows(kind, sizes[i], sizes[i] + 1) /\ sizes' = [sizes EXCEPT ![i] = @ + 1]
    <3>t. PICK t : t = sizes'
      OBVIOUS
    <3>1. t \in Seq(Nat) /\ Larger(sizes, i, t)
      BY <1>5, <2>2, <3>t
    <3>2. Total(module, k, t) = Total(module, k, sizes) + (IF module[i].kind = k THEN 1 ELSE 0)
      BY <1>1, <3>1, TotalWithOneLarger
    <3>3. Held(k)' = Held(k) + (IF kind = k THEN 1 ELSE 0)
      BY <1>k, <1>3, <3>t, <3>2 DEF Held
    <3> QED BY SMTT(30), <1>1, <1>4, <2>1, <2>2, <3>3
  <2>3. CASE sizes' = sizes
    <3>1. Held(k)' = Held(k)
      BY <1>3, <2>3 DEF Held
    <3> QED BY SMTT(30), <1>1, <1>4, <2>1, <3>1
  <2> QED BY <1>3, <2>2, <2>3
<1>8. StoreFitsTheCap'
  BY <1>7 DEF StoreFitsTheCap, Kinds, CapOf
<1> QED BY <1>6, <1>8

-----------------------------------------------------------------------------
(* Blame.                                                                  *)

(* Until guest code runs nothing was refused, and what is charged is what  *)
(* the objects created so far declare: so a refusal then means that the    *)
(* module's minimum does not fit.  Only a guest that ran can have been     *)
(* told of its cancellation, and only when the token fired.                *)
ToldInv == (phase = "" => ~spent) /\ (~spent => ~told) /\ (told => fired)

BlameInv ==
  /\ ToldInv
  /\ outcome = "" /\ ~spent =>
       /\ ~budget.denied
       /\ \A kind \in Kinds : budget[kind] = Held(kind)
       /\ \A i \in 1..Len(sizes) : sizes[i] = module[i].min
  /\ BlameFitsTheCause

HostInv == HostTypeOK /\ StoreFitsTheCap /\ BlameInv

LEMMA ToldInvStays ==
  ASSUME ToldInv, UNCHANGED <<phase, spent, told, fired>>
  PROVE  ToldInv'
BY DEF ToldInv

LEMMA SameStore ==
  ASSUME HostInv, UNCHANGED <<step, module, store>>,
         phase' \in {"", "instantiate", "source", "args", "execute"},
         fired' \in BOOLEAN, told' \in BOOLEAN
  PROVE  /\ HostTypeOK' /\ StoreFitsTheCap'
         /\ \A kind \in Kinds : Held(kind)' = Held(kind)
         /\ Declared("memory")' = Declared("memory")
BY DEF HostInv, HostTypeOK, StoreFitsTheCap, store, Held, CapOf, Declared

(* A step that goes on, with the store as it was.                          *)
LEMMA GoesOnKeeps ==
  ASSUME HostInv, UNCHANGED <<step, module, store, outcome>>, outcome = "",
         phase' \in {"instantiate", "source", "args", "execute"} \/ UNCHANGED phase,
         fired' \in BOOLEAN, told' \in BOOLEAN, fired => fired',
         told' => told \/ (spent /\ fired)
  PROVE  HostInv'
<1>1. HostTypeOK' /\ StoreFitsTheCap' /\ \A kind \in Kinds : Held(kind)' = Held(kind)
  <2>1. phase' \in {"", "instantiate", "source", "args", "execute"}
    BY DEF HostInv, HostTypeOK
  <2> QED BY <2>1, SameStore
<1>2. BlameInv'
  BY <1>1 DEF HostInv, BlameInv, ToldInv, BlameFitsTheCause, store
<1> QED BY <1>1, <1>2 DEF HostInv

(* A step that ends.                                                       *)
LEMMA EndsBlamed ==
  ASSUME HostInv, UNCHANGED <<module, spent>>, NEW e \in {"failed", "fuel", "memory", "ok"},
         e = "memory" => Declared("memory") > MaxMemory /\ ~spent,
         \/ Ends(StepErrorOf(e))
         \/ e = "ok" /\ Ends("ok")
         \/ e = "failed" /\ ~told /\ Ends("failed")
  PROVE  BlameInv'
<1>1. UNCHANGED <<step, module, phase, fired, told, spent>>
  BY DEF Ends
<1>2. Declared("memory")' = Declared("memory")
  BY DEF Declared
<1>3. \/ outcome' = e /\ (e = "failed" => ~told \/ step = "wasm")
      \/ outcome' = "failed" /\ step = "wasm"
      \/ outcome' = "cancelled" /\ told
  BY DEF Ends, StepErrorOf
<1>4. step \in {"script", "wasm"} /\ BlameInv
  BY DEF HostInv, HostTypeOK
<1>5. outcome' # ""
  BY <1>3
<1>6. outcome' = "memory" => Declared("memory") > MaxMemory /\ ~spent
  BY <1>3
<1>7. outcome' = "cancelled" => told
  BY <1>3
<1>8. outcome' = "failed" /\ step = "script" => ~told
  BY <1>3
<1>9. BlameFitsTheCause'
  <2>1. told => fired
    BY <1>4 DEF BlameInv, ToldInv
  <2> QED BY <1>1, <1>2, <1>6, <1>7, <1>8, <2>1 DEF BlameFitsTheCause
<1>10. ToldInv'
  BY <1>1, <1>4, ToldInvStays DEF BlameInv
<1> QED BY <1>5, <1>9, <1>10 DEF BlameInv

LEMMA EndsKeeps ==
  ASSUME HostInv, UNCHANGED store, NEW e \in {"failed", "fuel", "memory", "ok"},
         e = "memory" => Declared("memory") > MaxMemory /\ ~spent,
         \/ Ends(StepErrorOf(e))
         \/ e = "ok" /\ Ends("ok")
         \/ e = "failed" /\ ~told /\ Ends("failed")
  PROVE  HostInv'
<1>1. UNCHANGED <<step, module, phase, fired, told, spent>>
  BY DEF Ends, store
<1>2. HostTypeOK' /\ StoreFitsTheCap'
  BY <1>1, SameStore DEF HostInv, HostTypeOK
<1>3. BlameInv'
  BY <1>1, EndsBlamed
<1> QED BY <1>2, <1>3 DEF HostInv

LEMMA CreateKeeps ==
  ASSUME HostInv, CreateObject
  PROVE  HostInv'
<1>1. outcome = "" /\ phase = "instantiate" /\ ~spent /\ UNCHANGED spent /\ Len(sizes) < Len(module)
  BY DEF CreateObject, Running
<1>2. HostTypeOK /\ StoreFitsTheCap /\ BlameInv
  BY DEF HostInv
<1>3. ~budget.denied /\ (\A k \in Kinds : budget[k] = Held(k)) /\ \A i \in 1..Len(sizes) : sizes[i] = module[i].min
  BY <1>1, <1>2 DEF BlameInv
<1>4. CASE TooManyObjects
  <2>1. UNCHANGED store /\ Ends(StepErrorOf(Classify(FALSE)))
    BY <1>1, <1>4 DEF CreateObject, store
  <2>2. Classify(FALSE) = "failed"
    BY <1>1, <1>3, <2>1 DEF Classify, store
  <2>3. Ends(StepErrorOf("failed"))
    BY <2>1, <2>2
  <2> QED BY <2>1, <2>3, EndsKeeps
<1>5. CASE ~TooManyObjects
  <2>k. PICK kind : kind = module[Len(sizes) + 1].kind
    OBVIOUS
  <2>m. PICK min : min = module[Len(sizes) + 1].min
    OBVIOUS
  <2>1. /\ budget' = Charged(kind, 0, min) /\ UNCHANGED <<step, module, phase, fired, told>>
        /\ \/ Allows(kind, 0, min) /\ sizes' = Append(sizes, min) /\ UNCHANGED outcome
           \/ ~Allows(kind, 0, min) /\ UNCHANGED sizes /\ Ends(StepErrorOf(Classify(FALSE)))
    BY <1>5, <2>k, <2>m DEF CreateObject, NextObject, Ends
  <2>2. /\ StoreFitsTheCap' /\ sizes' \in Seq(Nat) /\ Len(sizes') <= Len(module)
        /\ \A k \in Kinds : Held(k)' - Held(k) = budget'[k] - budget[k]
    BY <1>1, <1>2, <2>k, <2>m, <2>1, CreateFits
  <2>3. sizes \in Seq(Nat) /\ Len(sizes) \in Nat /\ Len(sizes) + 1 \in 1..Len(module)
    <3>1. sizes \in Seq(Nat) /\ Len(module) \in Nat
      BY <1>2, ModuleFacts DEF HostTypeOK
    <3>2. Len(sizes) \in Nat
      BY <3>1
    <3>3. Len(sizes) < Len(module)
      BY <1>1
    <3> QED BY <3>1, <3>2, <3>3
  <2>4. kind \in Kinds /\ min \in Nat /\ Minimums(module) \in Seq(Nat)
        /\ \A i \in 1..Len(module) : Minimums(module)[i] = module[i].min
    BY <1>2, <2>3, <2>k, <2>m, ModuleFacts
  <2>5. budget[kind] \in Nat /\ 0 <= min /\ 0 \in Nat
    BY <1>2, <2>4, BudgetFacts
  <2>6. /\ budget' \in [memory : Nat, table : Nat, denied : BOOLEAN]
        /\ Allows(kind, 0, min) => budget'.denied = budget.denied
        /\ budget'.denied =>
             budget.denied \/ (kind = "memory" /\ budget[kind] - 0 + min > CapOf(kind))
    BY <1>2, <2>1, <2>4, <2>5, ChargedFacts
  <2>7. HostTypeOK'
    BY <1>1, <1>2, <2>1, <2>2, <2>6 DEF HostTypeOK
  <2>8. CASE Allows(kind, 0, min)
    <3>1. \A k \in Kinds : budget'[k] = Held(k)'
      <4> TAKE k \in Kinds
      <4>1. budget[k] \in Nat /\ budget'[k] \in Nat
        BY <1>2, <2>6, BudgetFacts DEF Kinds
      <4>2. Held(k) \in Nat /\ Held(k)' \in Nat
        BY <2>2, <2>3, TotalIsNat DEF Held
      <4>3. Held(k)' - Held(k) = budget'[k] - budget[k] /\ budget[k] = Held(k)
        BY <1>3, <2>2
      <4> QED BY <4>1, <4>2, <4>3
    <3>2. \A i \in 1..Len(sizes') : sizes'[i] = module'[i].min
      <4>1. Len(sizes') = Len(sizes) + 1 /\ sizes'[Len(sizes) + 1] = min
            /\ \A i \in 1..Len(sizes) : sizes'[i] = sizes[i]
        <5>1. sizes' = Append(sizes, min) /\ sizes \in Seq(Nat) /\ min \in Nat
          BY <2>1, <2>3, <2>4, <2>8
        <5> QED BY <5>1, AppendProperties
      <4>2. \A i \in 1..(Len(sizes) + 1) : i = Len(sizes) + 1 \/ i \in 1..Len(sizes)
        BY <2>3
      <4>3. \A i \in 1..(Len(sizes) + 1) : sizes'[i] = module[i].min
        <5> TAKE i \in 1..(Len(sizes) + 1)
        <5>1. CASE i = Len(sizes) + 1
          BY <5>1, <4>1, <2>m
        <5>2. CASE i \in 1..Len(sizes)
          BY <5>2, <4>1, <1>3
        <5> QED BY <4>2, <5>1, <5>2
      <4> QED BY <4>1, <4>3, <2>1
    <3>3. outcome' = "" /\ ~spent' /\ ~budget'.denied /\ phase' = "instantiate"
      BY <1>1, <1>3, <2>1, <2>6, <2>8
    <3>4. ToldInv'
      BY <1>1, <1>2, <2>1, ToldInvStays DEF BlameInv
    <3>5. BlameFitsTheCause'
      BY <3>3 DEF BlameFitsTheCause
    <3>6. BlameInv'
      BY <3>1, <3>2, <3>3, <3>4, <3>5 DEF BlameInv
    <3> QED BY <2>2, <2>7, <3>6 DEF HostInv
  <2>9. CASE ~Allows(kind, 0, min)
    <3>1. Ends(StepErrorOf(Classify(FALSE)))
      BY <2>1, <2>9
    <3>2. Classify(FALSE) \in {"failed", "memory"}
          /\ (Classify(FALSE) = "memory" => budget'.denied)
      BY DEF Classify
    <3>3. ASSUME budget'.denied PROVE Declared("memory") > MaxMemory
      <4>1. kind = "memory" /\ budget["memory"] + min > MaxMemory
        BY <1>3, <2>5, <2>6, <3>3 DEF CapOf
      <4>2. budget["memory"] = Total(module, "memory", sizes) /\ budget["memory"] \in Nat
        BY <1>3, <2>5, <4>1 DEF Held, Kinds
      <4>m. PICK mins : mins = Minimums(module)
        OBVIOUS
      <4>3. mins \in Seq(Nat) /\ Len(sizes) < Len(mins) /\ mins[Len(sizes) + 1] = min
            /\ \A i \in 1..Len(sizes) : sizes[i] = mins[i]
        <5>1. \A i \in 1..Len(sizes) : i \in 1..Len(module)
          BY <2>3
        <5> QED BY <1>1, <1>2, <1>3, <2>3, <2>4, <2>m, <4>m, <5>1, ModuleFacts
      <4>4. Counts(module, "memory", mins, Len(sizes) + 1) = min
        BY <2>k, <4>1, <4>3 DEF Counts
      <4>5. Total(module, "memory", sizes) + Counts(module, "memory", mins, Len(sizes) + 1)
              <= Total(module, "memory", mins)
        BY <2>3, <4>3, TotalOfPrefix
      <4>6. Total(module, "memory", mins) \in Nat
        BY <4>3, TotalIsNat
      <4> QED BY <2>4, <4>1, <4>2, <4>4, <4>5, <4>6, <4>m, ScriptHostAssumption DEF Declared
    <3>4. BlameInv'
      BY <1>1, <2>1, <3>1, <3>2, <3>3, EndsBlamed
    <3> QED BY <2>2, <2>7, <3>4 DEF HostInv
  <2> QED BY <2>8, <2>9
<1> QED BY <1>4, <1>5

LEMMA HostInvInductive ==
  /\ Init => HostInv
  /\ HostInv /\ [Next]_vars => HostInv'
<1>1. ASSUME Init PROVE HostInv
  <2>1. /\ step \in {"script", "wasm"} /\ module \in Modules /\ phase = "" /\ sizes = <<>>
        /\ budget = [memory |-> 0, table |-> 0, denied |-> FALSE] /\ outcome = ""
    BY <1>1 DEF Init
  <2>2. spent = FALSE /\ fired = FALSE /\ told = FALSE
    BY <1>1 DEF Init
  <2>3. sizes \in Seq(Nat) /\ Len(sizes) = 0
    BY <2>1, EmptySeq
  <2>4. Len(module) \in Nat
    <3>1. module \in Seq([kind : {"memory", "table"}, min : Nat, max : Nat])
      BY <2>1, ScriptHostAssumption
    <3> QED BY <3>1
  <2>5. budget \in [memory : Nat, table : Nat, denied : BOOLEAN] /\ ~budget.denied
        /\ \A k \in Kinds : budget[k] = 0
    <3>1. budget = [memory |-> 0, table |-> 0, denied |-> FALSE]
      BY <2>1
    <3>2. budget.memory = 0 /\ budget.table = 0 /\ budget.denied = FALSE
      BY <3>1
    <3>3. budget \in [memory : Nat, table : Nat, denied : BOOLEAN]
      BY <3>1
    <3> QED BY <3>2, <3>3 DEF Kinds
  <2>6. HostTypeOK
    <3>1. spent \in BOOLEAN /\ fired \in BOOLEAN /\ told \in BOOLEAN
      BY <2>2
    <3>2. Len(sizes) <= Len(module)
      BY <2>3, <2>4
    <3>3. phase \in {"", "instantiate", "source", "args", "execute"}
      BY <2>1
    <3> QED BY <2>1, <2>3, <2>5, <3>1, <3>2, <3>3 DEF HostTypeOK
  <2>7. \A k \in Kinds : Held(k) = 0
    BY <2>1, TotalOfNone DEF Held
  <2>8. \A k \in Kinds : CapOf(k) \in Nat
    BY <2>6, BudgetFacts
  <2>9. StoreFitsTheCap
    BY <2>5, <2>7, <2>8 DEF StoreFitsTheCap, Kinds
  <2>10. BlameInv
    <3>1. 1..Len(sizes) = {}
      BY <2>3
    <3>2. ToldInv
      BY <2>2 DEF ToldInv
    <3>3. BlameFitsTheCause
      BY <2>1 DEF BlameFitsTheCause
    <3> QED BY <2>5, <2>7, <3>1, <3>2, <3>3 DEF BlameInv
  <2> QED BY <2>6, <2>9, <2>10 DEF HostInv
<1>2. ASSUME HostInv, UNCHANGED vars PROVE HostInv'
  <2>1. UNCHANGED <<step, module, store>> /\ UNCHANGED <<phase, spent, told, fired>> /\ UNCHANGED outcome
        /\ UNCHANGED <<sizes, budget>>
    BY <1>2 DEF vars, store
  <2>2. HostTypeOK' /\ StoreFitsTheCap' /\ \A k \in Kinds : Held(k)' = Held(k)
    BY <1>2, <2>1, SameStore DEF HostInv, HostTypeOK
  <2>3. BlameFitsTheCause'
    BY <1>2, <2>1 DEF HostInv, BlameInv, BlameFitsTheCause, Declared
  <2>4. ToldInv'
    BY <1>2, <2>1, ToldInvStays DEF HostInv, BlameInv
  <2> QED BY <1>2, <2>1, <2>2, <2>3, <2>4 DEF HostInv, BlameInv
<1>3. ASSUME HostInv, Next PROVE HostInv'
  <2>0. HostTypeOK /\ StoreFitsTheCap /\ BlameInv /\ ToldInv
    BY <1>3 DEF HostInv, BlameInv
  <2>1. CASE SetupFails
    <3>1. phase = "" /\ Ends("failed") /\ UNCHANGED store
      BY <2>1 DEF SetupFails, Running
    <3>2. ~told
      BY <2>0, <3>1 DEF ToldInv
    <3> QED BY <1>3, <3>1, <3>2, EndsKeeps
  <2>2. CASE SetUp
    <3>1. phase' = "instantiate" /\ outcome = "" /\ UNCHANGED <<step, module, store, fired, told, outcome>>
      BY <2>2 DEF SetUp, Running
    <3> QED BY <1>3, <2>0, <3>1, GoesOnKeeps DEF HostTypeOK
  <2>3. CASE CreateObject
    BY <1>3, <2>3, CreateKeeps
  <2>4. CASE StartRuns \/ Instantiated
    <3>1. /\ phase' \in {"instantiate", "source", "execute"} /\ spent' = TRUE /\ outcome = "" /\ outcome' = ""
          /\ UNCHANGED <<step, module, sizes, budget, fired, told>>
      BY <2>4 DEF StartRuns, Instantiated, Running
    <3>2. HostTypeOK'
      BY <2>0, <3>1 DEF HostTypeOK
    <3>3. StoreFitsTheCap'
      BY <2>0, <3>1 DEF StoreFitsTheCap, Held, CapOf
    <3>4. BlameInv'
      BY <2>0, <3>1 DEF BlameInv, ToldInv, BlameFitsTheCause
    <3> QED BY <3>2, <3>3, <3>4 DEF HostInv
  <2>5. CASE InstantiateFails
    <3>1. phase = "instantiate" /\ outcome = "" /\ UNCHANGED store
          /\ Ends(StepErrorOf(IF Allocated THEN "failed" ELSE Classify(FALSE)))
      BY <2>5 DEF InstantiateFails, Running
    <3>2. ~budget.denied \/ spent
      BY <2>0, <3>1 DEF BlameInv
    <3>3. Classify(FALSE) = "failed"
      BY <3>1, <3>2 DEF Classify, store
    <3>4. Ends(StepErrorOf("failed"))
      BY <3>1, <3>3
    <3> QED BY <1>3, <3>1, <3>4, EndsKeeps
  <2>6. ASSUME NEW i \in DOMAIN sizes, Grow(i) PROVE HostInv'
    <3>1. HostTypeOK' /\ StoreFitsTheCap'
      BY <2>0, <2>6, GrowFits
    <3>2. outcome' = "" /\ spent /\ UNCHANGED <<phase, spent, told, fired>>
      BY <2>6 DEF Grow, GuestRuns
    <3>3. ToldInv' /\ BlameFitsTheCause'
      BY <2>0, <3>2, ToldInvStays DEF BlameFitsTheCause
    <3> QED BY <3>1, <3>2, <3>3 DEF HostInv, BlameInv
  <2>7. ASSUME NEW b \in BOOLEAN, GuestTraps(b) PROVE HostInv'
    <3>1. spent /\ UNCHANGED store /\ Ends(StepErrorOf(Classify(b)))
      BY <2>7 DEF GuestTraps, GuestRuns
    <3>2. spent'
      BY <3>1 DEF store
    <3>3. Classify(b) \in {"fuel", "failed"}
      BY <3>2 DEF Classify
    <3>e. PICK e : e = Classify(b)
      OBVIOUS
    <3>4. e \in {"failed", "fuel", "memory", "ok"} /\ e # "memory" /\ Ends(StepErrorOf(e))
      BY <3>1, <3>3, <3>e
    <3> QED BY <1>3, <3>1, <3>4, EndsKeeps
  <2>8. ASSUME NEW b \in BOOLEAN, AllocReturns(b) PROVE HostInv'
    <3>1. outcome = "" /\ UNCHANGED store
      BY <2>8 DEF AllocReturns, Running
    <3>2. CASE ~b
      <4>1. Ends(StepErrorOf("failed"))
        BY <2>8, <3>2 DEF AllocReturns
      <4> QED BY <1>3, <3>1, <4>1, EndsKeeps
    <3>3. CASE b
      <4>1. phase' \in {"args", "execute"} /\ UNCHANGED <<step, module, store, fired, told, outcome>>
        BY <2>8, <3>1, <3>3 DEF AllocReturns
      <4> QED BY <1>3, <2>0, <3>1, <4>1, GoesOnKeeps DEF HostTypeOK
    <3> QED BY <3>2, <3>3
  <2>9. ASSUME NEW b \in BOOLEAN, ExecuteReturns(b) PROVE HostInv'
    <3>1. UNCHANGED store /\ (Ends("ok") \/ Ends(StepErrorOf("failed")))
      BY <2>9 DEF ExecuteReturns
    <3> QED BY <1>3, <3>1, EndsKeeps
  <2>10. CASE IsCancelled \/ StreamReadCancelled \/ StreamWriteCancelled
    <3>1. /\ outcome = "" /\ spent /\ fired /\ told' = TRUE
          /\ UNCHANGED <<step, module, phase, store, fired, outcome>>
      BY <2>10 DEF IsCancelled, StreamReadCancelled, StreamWriteCancelled, Importing, GuestRuns, Told
    <3> QED BY <1>3, <2>0, <3>1, GoesOnKeeps DEF HostTypeOK
  <2>11. ASSUME \/ HostInvokeBails \/ HostInvokeOk
                \/ HostInvokeStreamingBails \/ HostInvokeStreamingOk
                \/ \E b \in BOOLEAN : CallResultRead(b)
                \/ \E e \in {"failed", "cancelled", "timeout", "callee_stopped"} : HostInvokeFails(e)
         PROVE  HostInv'
    <3>1. outcome = "" /\ spent /\ UNCHANGED <<step, module, phase, store, fired, outcome>>
      BY <2>11 DEF HostInvokeBails, HostInvokeOk, HostInvokeStreamingBails, HostInvokeStreamingOk,
         HostInvokeFails, CallResultRead, Calling, Importing, GuestRuns
    <3>2. UNCHANGED told \/ \E e \in {"failed", "cancelled", "timeout", "callee_stopped"} :
                              told' = (told \/ TellsOfCancel(e))
      BY <2>11 DEF HostInvokeBails, HostInvokeOk, HostInvokeStreamingBails, HostInvokeStreamingOk,
         HostInvokeFails, CallResultRead, BailHostCall
    <3>3. told' \in BOOLEAN /\ (told' => told \/ fired)
      <4>1. told \in BOOLEAN /\ fired \in BOOLEAN
        BY <2>0 DEF HostTypeOK
      <4>2. CASE UNCHANGED told
        BY <4>1, <4>2
      <4>3. ASSUME NEW e, told' = (told \/ TellsOfCancel(e)) PROVE told' \in BOOLEAN /\ (told' => told \/ fired)
        BY <4>1, <4>3 DEF TellsOfCancel
      <4> QED BY <3>2, <4>2, <4>3
    <3> QED BY <1>3, <2>0, <3>1, <3>3, GoesOnKeeps DEF HostTypeOK
  <2>12. CASE Cancel
    <3>1. outcome = "" /\ fired' = TRUE /\ UNCHANGED <<step, module, phase, store, told, outcome>>
      BY <2>12 DEF Cancel
    <3> QED BY <1>3, <2>0, <3>1, GoesOnKeeps DEF HostTypeOK
  <2> QED BY <1>3, <2>1, <2>2, <2>3, <2>4, <2>5, <2>6, <2>7, <2>8, <2>9, <2>10, <2>11, <2>12 DEF Next
<1> QED BY <1>1, <1>2, <1>3

(* The objects of a store together never hold more than is charged, nor is *)
(* more charged than the cap, for any module and any limits                *)
(* (ResourceBudget::memory_growing, table_growing).                        *)
THEOREM BudgetIsACap == Spec => []StoreFitsTheCap
<1>1. HostInv => StoreFitsTheCap
  BY DEF HostInv
<1> QED BY <1>1, HostInvInductive, PTL DEF Spec

(* A failed step is blamed on the memory cap only when what the module     *)
(* declares does not fit and no guest code ran, on a cancellation only     *)
(* when the token fired, and on a guest only when it had not been told     *)
(* (classify_from_store, tells_of_cancel, step_script).                    *)
THEOREM BlameIsDeserved == Spec => []BlameFitsTheCause
<1>1. HostInv => BlameFitsTheCause
  BY DEF HostInv, BlameInv
<1> QED BY <1>1, HostInvInductive, PTL DEF Spec

===============================================================================
