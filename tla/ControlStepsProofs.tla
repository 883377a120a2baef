------------------------- MODULE ControlStepsProofs -------------------------
(***************************************************************************)
(* TLAPS proofs for ControlSteps: for any action whose constructs hold     *)
(* sequences of its steps, any results and any budget, every construct     *)
(* finds its scope where it left it, a failure that was recovered from is  *)
(* never blamed, nothing catches a cancellation, a tripped budget or a     *)
(* return, and a try that ends has run its finally.                        *)
(***************************************************************************)
EXTENDS ControlSteps, SequenceTheorems, WellFoundedInduction, TLAPS

-----------------------------------------------------------------------------
(* Stacks.                                                                 *)

IsStack(s) == \E S : s \in Seq(S)

LEMMA StackFacts ==
  ASSUME NEW s, IsStack(s)
  PROVE  Len(s) \in Nat /\ DOMAIN s = 1..Len(s)
BY DEF IsStack

LEMMA PushFacts ==
  ASSUME NEW s, IsStack(s), NEW x
  PROVE  /\ IsStack(Append(s, x)) /\ Len(Append(s, x)) = Len(s) + 1
         /\ \A i \in 1..Len(s) : Append(s, x)[i] = s[i]
         /\ Append(s, x)[Len(s) + 1] = x
<1>1. PICK S : s \in Seq(S)
  BY DEF IsStack
<1>2. s \in Seq(S \cup {x}) /\ x \in S \cup {x}
  BY <1>1
<1> HIDE <1>1
<1> DEFINE T == S \cup {x}
<1> HIDE DEF T
<1>3. s \in Seq(T) /\ x \in T
  BY <1>2 DEF T
<1> QED BY <1>3, AppendProperties DEF IsStack

LEMMA CutFacts ==
  ASSUME NEW s, IsStack(s), NEW n \in 0..Len(s)
  PROVE  /\ IsStack(SubSeq(s, 1, n)) /\ Len(SubSeq(s, 1, n)) = n
         /\ \A i \in 1..n : SubSeq(s, 1, n)[i] = s[i]
<1>1. PICK S : s \in Seq(S)
  BY DEF IsStack
<1>2. SubSeq(s, 1, n) \in Seq(S) /\ Len(SubSeq(s, 1, n)) = n
      /\ \A i \in 1..n : SubSeq(s, 1, n)[i] = s[i]
  BY <1>1
<1> QED BY <1>2 DEF IsStack

LEMMA SliceFacts ==
  ASSUME NEW s, IsStack(s), NEW o \in Nat, NEW m \in Nat, o + m <= Len(s)
  PROVE  /\ IsStack(SubSeq(s, o + 1, o + m)) /\ Len(SubSeq(s, o + 1, o + m)) = m
         /\ \A i \in 1..m : SubSeq(s, o + 1, o + m)[i] = s[o + i]
<1>1. PICK S : s \in Seq(S)
  BY DEF IsStack
<1>2. Len(s) \in Nat
  BY <1>1
<1> DEFINE t == SubSeq(s, o + 1, o + m)
<1>3. t = [i \in 1..((o + m) - (o + 1) + 1) |-> s[i + (o + 1) - 1]]
  BY <1>1, <1>2
<1>4. (o + m) - (o + 1) + 1 = m /\ \A i \in 1..m : i + (o + 1) - 1 = o + i /\ o + i \in 1..Len(s)
  BY <1>2
<1> HIDE DEF t
<1>5. t = [i \in 1..m |-> s[o + i]]
  BY <1>3, <1>4
<1>6. \A i \in 1..m : t[i] \in S
  BY <1>1, <1>4, <1>5
<1>7. t \in [1..m -> S]
  BY <1>5, <1>6
<1>8. t \in Seq(S) /\ Len(t) = m
  BY <1>7
<1> QED BY <1>5, <1>8 DEF IsStack, t

LEMMA JoinFacts ==
  ASSUME NEW s, IsStack(s), NEW t, IsStack(t)
  PROVE  /\ IsStack(s \o t) /\ Len(s \o t) = Len(s) + Len(t)
         /\ \A i \in 1..Len(s) : (s \o t)[i] = s[i]
         /\ \A i \in 1..Len(t) : (s \o t)[Len(s) + i] = t[i]
<1>1. PICK S : s \in Seq(S)
  BY DEF IsStack
<1>2. PICK R : t \in Seq(R)
  BY DEF IsStack
<1>3. s \in Seq(S \cup R) /\ t \in Seq(S \cup R)
  BY <1>1, <1>2
<1> DEFINE T == S \cup R
<1> HIDE DEF T
<1>4. s \in Seq(T) /\ t \in Seq(T)
  BY <1>3 DEF T
<1>5. s \o t \in Seq(T) /\ Len(s \o t) = Len(s) + Len(t)
      /\ \A i \in 1..(Len(s) + Len(t)) : (s \o t)[i] = IF i <= Len(s) THEN s[i] ELSE t[i - Len(s)]
  BY <1>4, ConcatProperties
<1>6. Len(s) \in Nat /\ Len(t) \in Nat
  BY <1>4
<1>7. \A i \in 1..Len(s) : (s \o t)[i] = s[i]
  BY <1>5, <1>6
<1>8. ASSUME NEW i \in 1..Len(t) PROVE (s \o t)[Len(s) + i] = t[i]
  BY <1>5, <1>6
<1> QED BY <1>5, <1>7, <1>8 DEF IsStack

(* t is s with l behind it.                                                *)
Joins(s, l, t) ==
  /\ IsStack(t) /\ Len(t) = Len(s) + Len(l) /\ (\A i \in 1..Len(s) : t[i] = s[i])
  /\ \A i \in 1..Len(l) : t[Len(s) + i] = l[i]

LEMMA Joined ==
  ASSUME NEW s, IsStack(s), NEW l, IsStack(l)
  PROVE  Joins(s, l, s \o l)
<1>1. /\ IsStack(s \o l) /\ Len(s \o l) = Len(s) + Len(l)
      /\ \A i \in 1..Len(s) : (s \o l)[i] = s[i]
  BY JoinFacts
<1>2. \A i \in 1..Len(l) : (s \o l)[Len(s) + i] = l[i]
  BY JoinFacts
<1> QED BY <1>1, <1>2, Zenon DEF Joins

(* Two stacks with the same elements are the same.                         *)
LEMMA SameStack ==
  ASSUME NEW s, IsStack(s), NEW t, IsStack(t), Len(s) = Len(t), \A i \in 1..Len(s) : s[i] = t[i]
  PROVE  s = t
<1>1. PICK S : s \in Seq(S)
  BY DEF IsStack
<1>2. PICK R : t \in Seq(R)
  BY DEF IsStack
<1>3. s \in Seq(S \cup R) /\ t \in Seq(S \cup R)
  BY <1>1, <1>2
<1> DEFINE T == S \cup R
<1> HIDE DEF T
<1>4. s \in Seq(T) /\ t \in Seq(T)
  BY <1>3 DEF T
<1> QED BY <1>4, SeqEqual

(* A stack is what is under its top, and its top.                          *)
LEMMA FrontAndTop ==
  ASSUME NEW s, IsStack(s), Len(s) >= 1
  PROVE  s = Append(SubSeq(s, 1, Len(s) - 1), s[Len(s)])
<1> DEFINE front == SubSeq(s, 1, Len(s) - 1)
           t == Append(front, s[Len(s)])
<1>0. Len(s) \in Nat /\ Len(s) - 1 \in 0..Len(s)
  BY StackFacts
<1>1. IsStack(front) /\ Len(front) = Len(s) - 1 /\ \A i \in 1..(Len(s) - 1) : front[i] = s[i]
  BY <1>0, CutFacts
<1> HIDE DEF front
<1>2. IsStack(t) /\ Len(t) = Len(front) + 1 /\ (\A i \in 1..Len(front) : t[i] = front[i])
      /\ t[Len(front) + 1] = s[Len(s)]
  BY <1>1, PushFacts
<1> HIDE DEF t
<1>3. Len(t) = Len(s) /\ \A i \in 1..Len(s) : s[i] = t[i]
  BY <1>0, <1>1, <1>2
<1>4. s = t
  BY <1>2, <1>3, SameStack
<1> QED BY <1>4 DEF t, front

LEMMA PopOfPush ==
  ASSUME NEW s, IsStack(s), NEW x
  PROVE  SubSeq(Append(s, x), 1, Len(Append(s, x)) - 1) = s
<1> DEFINE t == Append(s, x)
<1>0. Len(s) \in Nat
  BY StackFacts
<1>1. IsStack(t) /\ Len(t) = Len(s) + 1 /\ \A i \in 1..Len(s) : t[i] = s[i]
  BY PushFacts
<1> HIDE DEF t
<1>2. IsStack(SubSeq(t, 1, Len(s))) /\ Len(SubSeq(t, 1, Len(s))) = Len(s)
      /\ \A i \in 1..Len(s) : SubSeq(t, 1, Len(s))[i] = t[i]
  BY <1>0, <1>1, CutFacts
<1>3. SubSeq(t, 1, Len(s)) = s
  BY <1>1, <1>2, SameStack
<1>4. Len(t) - 1 = Len(s)
  BY <1>0, <1>1
<1> QED BY <1>3, <1>4 DEF t

-----------------------------------------------------------------------------
(* Scope is a recursive function of the number of frames.                  *)

NextScope(s, part, f, n) ==
  IF n = 0 THEN <<>>
  ELSE IF s[n].part = part THEN Append(f[n - 1], s[n].step) ELSE f[n - 1]

IsScopes(s, part, f) == f = [n \in 0..Len(s) |-> NextScope(s, part, f, n)]

LEMMA NoLeast ==
  ASSUME NEW bad, bad \subseteq Nat,
         \A n \in bad : \E m \in bad : m < n
  PROVE  bad = {}
<1> SUFFICES ASSUME bad # {} PROVE FALSE
  OBVIOUS
<1>1. PICK n \in bad : \A m \in bad : ~ (<<m, n>> \in OpToRel(<, Nat))
  BY NatLessThanWellFounded, WFMin
<1>2. \A m \in bad : ~ (m < n)
  BY <1>1, Zenon DEF OpToRel
<1>3. PICK m \in bad : m < n
  BY <1>1
<1> QED BY <1>2, <1>3

LEMMA LeastOne ==
  ASSUME NEW set, set \subseteq Nat, set # {}
  PROVE  \E i \in set : \A j \in set : i <= j
<1> SUFFICES ASSUME \A i \in set : \E j \in set : j < i PROVE FALSE
  OBVIOUS
<1> QED BY NoLeast

LEMMA ScopesExist ==
  ASSUME NEW s, IsStack(s), NEW part
  PROVE  IsScopes(s, part, Scopes(s, part))
<1> DEFINE Has(k) == \E f : f = [n \in 0..k |-> NextScope(s, part, f, n)]
           lacks == {k \in 0..Len(s) : ~ Has(k)}
<1>0. Len(s) \in Nat
  BY StackFacts
<1>1. Has(0)
  <2>1. PICK f : f = [n \in 0..0 |-> <<>>]
    OBVIOUS
  <2>2. \A n \in 0..0 : NextScope(s, part, f, n) = <<>>
    BY DEF NextScope
  <2>3. f = [n \in 0..0 |-> NextScope(s, part, f, n)]
    BY <2>1, <2>2
  <2> QED BY <2>3
<1>2. ASSUME NEW k \in 1..Len(s), Has(k - 1) PROVE Has(k)
  <2>1. PICK f : f = [n \in 0..(k - 1) |-> NextScope(s, part, f, n)]
    BY <1>2
  <2>2. PICK g : g = [n \in 0..k |-> IF n = k THEN NextScope(s, part, f, k) ELSE f[n]]
    OBVIOUS
  <2>3. ASSUME NEW n \in 0..k PROVE g[n] = NextScope(s, part, g, n)
    <3>0. g[n] = IF n = k THEN NextScope(s, part, f, k) ELSE f[n]
      BY <2>2
    <3>1. n # 0 => g[n - 1] = f[n - 1]
      BY <1>0, <2>2
    <3>2. NextScope(s, part, g, n) = NextScope(s, part, f, n)
      BY <3>1 DEF NextScope
    <3>3. ASSUME n # k PROVE f[n] = NextScope(s, part, f, n)
      <4>1. n \in 0..(k - 1)
        BY <1>0, <3>3
      <4> QED BY <2>1, <4>1, Zenon
    <3> QED BY <3>0, <3>2, <3>3
  <2>4. g = [n \in 0..k |-> NextScope(s, part, g, n)]
    BY <2>2, <2>3
  <2> QED BY <2>4
<1> HIDE DEF Has
<1>3. lacks = {}
  <2>1. lacks \subseteq Nat /\ \A k \in lacks : \E l \in lacks : l < k
    <3> SUFFICES ASSUME NEW k \in lacks PROVE k - 1 \in lacks
      OBVIOUS
    <3>1. k \in 1..Len(s)
      BY <1>0, <1>1
    <3> QED BY <1>0, <3>1, <1>2
  <2> HIDE DEF lacks
  <2> QED BY <2>1, NoLeast
<1>4. Len(s) \in 0..Len(s)
  BY <1>0
<1>5. \E f : f = [n \in 0..Len(s) |-> NextScope(s, part, f, n)]
  BY <1>3, <1>4 DEF Has
<1>6. Scopes(s, part) = CHOOSE f : f = [n \in 0..Len(s) |-> NextScope(s, part, f, n)]
  BY DEF Scopes, NextScope
<1> QED BY <1>5, <1>6 DEF IsScopes

LEMMA ScopesStep ==
  ASSUME NEW s, IsStack(s), NEW part, NEW f, IsScopes(s, part, f)
  PROVE  \A n \in 0..Len(s) : f[n] = NextScope(s, part, f, n)
BY DEF IsScopes

LEMMA ScopesAreStacks ==
  ASSUME NEW s, IsStack(s), NEW part, NEW f, IsScopes(s, part, f)
  PROVE  \A n \in 0..Len(s) : IsStack(f[n])
<1>0. Len(s) \in Nat /\ \A n \in 0..Len(s) : f[n] = NextScope(s, part, f, n)
  BY StackFacts, ScopesStep
<1> DEFINE bad == {n \in 0..Len(s) : ~ IsStack(f[n])}
<1>1. \A n \in bad : \E l \in bad : l < n
  <2> SUFFICES ASSUME NEW n \in bad PROVE n - 1 \in bad
    OBVIOUS
  <2>0. IsStack(<<>>)
    BY EmptySeq DEF IsStack
  <2>1. n \in 1..Len(s)
    BY <1>0, <2>0 DEF NextScope
  <2>2. f[n] = IF s[n].part = part THEN Append(f[n - 1], s[n].step) ELSE f[n - 1]
    BY <1>0, <2>1 DEF NextScope
  <2>3. ~ IsStack(f[n - 1])
    BY <2>2, PushFacts
  <2> QED BY <1>0, <2>1, <2>3
<1>2. bad \subseteq Nat
  OBVIOUS
<1> HIDE DEF bad
<1>3. bad = {}
  BY <1>1, <1>2, NoLeast
<1> QED BY <1>3 DEF bad

LEMMA ScopeIsStack ==
  ASSUME NEW s, IsStack(s), NEW part
  PROVE  IsStack(Scope(s, part))
<1>1. IsScopes(s, part, Scopes(s, part))
  BY ScopesExist
<1>2. Len(s) \in 0..Len(s)
  BY StackFacts
<1> QED BY <1>1, <1>2, ScopesAreStacks DEF Scope

(* The frames under the top are counted as they were.                      *)
LEMMA ScopesAgree ==
  ASSUME NEW s, IsStack(s), NEW x, NEW part,
         NEW f, IsScopes(s, part, f), NEW g, IsScopes(Append(s, x), part, g)
  PROVE  \A n \in 0..Len(s) : f[n] = g[n]
<1>1. Len(s) \in Nat /\ IsStack(Append(s, x)) /\ Len(Append(s, x)) = Len(s) + 1
      /\ \A i \in 1..Len(s) : Append(s, x)[i] = s[i]
  BY StackFacts, PushFacts
<1>2. \A n \in 0..Len(s) : f[n] = NextScope(s, part, f, n)
  BY ScopesStep
<1>3. \A n \in 0..Len(Append(s, x)) : g[n] = NextScope(Append(s, x), part, g, n)
  BY <1>1, ScopesStep
<1>4. \A n \in 0..Len(s) : g[n] = NextScope(Append(s, x), part, g, n)
  BY <1>1, <1>3
<1>5. \A n \in 0..Len(s) : g[n] = NextScope(s, part, g, n)
  BY <1>1, <1>4 DEF NextScope
<1> DEFINE bad == {n \in 0..Len(s) : f[n] # g[n]}
<1>6. \A n \in bad : \E l \in bad : l < n
  <2> SUFFICES ASSUME NEW n \in bad PROVE n - 1 \in bad
    OBVIOUS
  <2>1. n \in 1..Len(s)
    BY <1>1, <1>2, <1>5 DEF NextScope
  <2>2. f[n - 1] # g[n - 1]
    BY <1>2, <1>5, <2>1 DEF NextScope
  <2> QED BY <1>1, <2>1, <2>2
<1>7. bad \subseteq Nat
  OBVIOUS
<1> HIDE DEF bad
<1>8. bad = {}
  BY <1>6, <1>7, NoLeast
<1> QED BY <1>8 DEF bad

(* A frame pushed adds its step to the scope of its part, and to no other. *)
LEMMA ScopeOfPush ==
  ASSUME NEW s, IsStack(s), NEW x, NEW part
  PROVE  Scope(Append(s, x), part) =
           IF x.part = part THEN Append(Scope(s, part), x.step) ELSE Scope(s, part)
<1>1. Len(s) \in Nat /\ IsStack(Append(s, x)) /\ Len(Append(s, x)) = Len(s) + 1
      /\ Append(s, x)[Len(s) + 1] = x
  BY StackFacts, PushFacts
<1>2. PICK f : f = Scopes(s, part)
  OBVIOUS
<1>3. PICK g : g = Scopes(Append(s, x), part)
  OBVIOUS
<1>4. IsScopes(s, part, f) /\ IsScopes(Append(s, x), part, g)
  BY <1>1, <1>2, <1>3, ScopesExist
<1>5. \A n \in 0..Len(s) : f[n] = g[n]
  BY <1>4, ScopesAgree
<1>6. \A n \in 0..Len(Append(s, x)) : g[n] = NextScope(Append(s, x), part, g, n)
  BY <1>1, <1>4, ScopesStep
<1>7. g[Len(s) + 1] = IF x.part = part THEN Append(g[Len(s)], x.step) ELSE g[Len(s)]
  BY <1>1, <1>6 DEF NextScope
<1>8. f[Len(s)] = g[Len(s)]
  BY <1>1, <1>5
<1> QED BY <1>1, <1>2, <1>3, <1>7, <1>8 DEF Scope

-----------------------------------------------------------------------------
(* The stack of constructs and action.steps.                               *)

Parts == {"top", "try", "catch", "finally", "loop", "ifs"}

Shape(f) ==
  f = [step |-> f.step, part |-> f.part, list |-> f.list, at |-> f.at, offset |-> f.offset,
       result |-> f.result, handled |-> f.handled, failed |-> f.failed, left |-> f.left,
       collected |-> f.collected, before |-> f.before]

FrameInv(p, f) ==
  /\ Shape(f) /\ f.part \in Parts
  /\ f.list \in Seq(DOMAIN p.step) /\ f.at \in 0..(Len(f.list) + 1)
  /\ f.offset \in Nat /\ f.before \in Nat
  /\ f.failed \in BOOLEAN /\ (f.failed => f.part = "finally")
  /\ f.part \in {"try", "catch", "finally"} => f.step \in DOMAIN p.step /\ p.step[f.step].type = "try"

(* A frame waits at a step for the one above it, which lies behind its own *)
(* steps, and which no recovery takes further back than it found things.   *)
Under(f, g) ==
  /\ f.at \in 1..Len(f.list)
  /\ f.offset + Len(f.list) <= g.offset
  /\ f.before <= g.before /\ (f.failed => g.before >= 1)
  /\ g.part # "top"

Lies(f, s) ==
  /\ f.offset + Len(f.list) <= Len(s)
  /\ \A i \in 1..Len(f.list) : s[f.offset + i] = f.list[i]

Adjacent(f, g) == g.offset = f.offset + Len(f.list)

(* What the top frame and the rest of the state agree on.                  *)
TopFits(f, s, u, c) ==
  /\ Len(s) = f.offset + Len(f.list)
  /\ f.before <= Len(u) /\ (f.failed => Len(u) >= 1)
  /\ c \in {"ok", "failed"} => f.at \in 1..Len(f.list)

StackInv ==
  /\ program \in Programs
  /\ IsStack(stack) /\ Len(stack) >= 1 /\ IsStack(steps) /\ IsStack(uncaught)
  /\ stack[1].part = "top"
  /\ \A k \in 1..Len(stack) : FrameInv(program, stack[k]) /\ Lies(stack[k], steps)
  /\ \A j \in 1..Len(stack) : \A k \in 1..Len(stack) : j < k => Under(stack[j], stack[k])
  /\ \A j \in 1..(Len(stack) - 1) : Adjacent(stack[j], stack[j + 1])
  /\ TopFits(Top, steps, uncaught, ctl)

NoneFailed == \A k \in 1..Len(stack) : ~ stack[k].failed

LEMMA InnerFacts ==
  ASSUME StackInv, NEW n, n = Len(stack)
  PROVE  /\ n \in Nat /\ n >= 1 /\ DOMAIN stack = 1..n /\ Top = stack[n]
         /\ IsStack(Inner) /\ Len(Inner) = n - 1 /\ \A i \in 1..(n - 1) : Inner[i] = stack[i]
<1>1. n \in Nat /\ n >= 1 /\ DOMAIN stack = 1..n /\ IsStack(stack)
  BY StackFacts DEF StackInv
<1>2. n - 1 \in 0..n
  BY <1>1
<1> QED BY <1>1, <1>2, CutFacts DEF Top, Inner

LEMMA FrameNumbers ==
  ASSUME NEW p, NEW f, FrameInv(p, f)
  PROVE  f.offset \in Nat /\ Len(f.list) \in Nat
BY DEF FrameInv

(* The top frame is replaced: it goes on, or turns to another block.       *)
LEMMA ReplaceKeeps ==
  ASSUME StackInv, NEW g, stack' = Append(Inner, g), UNCHANGED program,
         FrameInv(program, g), g.part = "top" <=> Top.part = "top",
         g.offset = Top.offset, g.before = Top.before, g.failed => Len(uncaught') >= 1,
         Top.before <= Len(uncaught'), IsStack(uncaught'),
         IsStack(steps'), Len(steps') = g.offset + Len(g.list), Lies(g, steps'),
         \A i \in 1..g.offset : steps'[i] = steps[i],
         ctl' \in {"ok", "failed"} => g.at \in 1..Len(g.list)
  PROVE  /\ StackInv' /\ Len(stack') = Len(stack) /\ Top' = g
         /\ NoneFailed' => ~ g.failed /\ (Top.failed \/ NoneFailed)
<1>n. PICK n : n = Len(stack)
  OBVIOUS
<1>f. PICK f : f = Top
  OBVIOUS
<1>1. /\ n \in Nat /\ n >= 1 /\ f = stack[n]
      /\ IsStack(Inner) /\ Len(Inner) = n - 1 /\ \A i \in 1..(n - 1) : Inner[i] = stack[i]
  BY <1>n, <1>f, InnerFacts
<1>2. IsStack(stack') /\ Len(stack') = n /\ (\A i \in 1..(n - 1) : stack'[i] = stack[i]) /\ stack'[n] = g
  BY <1>1, PushFacts
<1>3. /\ \A k \in 1..n : FrameInv(program, stack[k]) /\ Lies(stack[k], steps)
      /\ \A j \in 1..n : \A k \in 1..n : j < k => Under(stack[j], stack[k])
      /\ \A j \in 1..(n - 1) : Adjacent(stack[j], stack[j + 1])
      /\ stack[1].part = "top" /\ program \in Programs
  BY <1>n DEF StackInv
<1>4. ASSUME NEW k \in 1..n PROVE FrameInv(program', stack'[k]) /\ Lies(stack'[k], steps')
  <2>1. CASE k = n
    BY <1>2, <2>1
  <2>2. CASE k < n
    <3>1. stack'[k] = stack[k] /\ FrameInv(program, stack[k]) /\ Lies(stack[k], steps) /\ Under(stack[k], f)
      BY <1>1, <1>2, <1>3, <2>2
    <3>2. stack[k].offset \in Nat /\ Len(stack[k].list) \in Nat /\ g.offset \in Nat /\ Len(g.list) \in Nat
      BY <3>1, FrameNumbers
    <3>3. stack[k].offset + Len(stack[k].list) <= g.offset
      BY <1>f, <3>1 DEF Under
    <3>4. PICK o : o = stack[k].offset
      OBVIOUS
    <3>5. PICK l : l = stack[k].list
      OBVIOUS
    <3>6. PICK m : m = Len(l)
      OBVIOUS
    <3>7. PICK q : q = g.offset
      OBVIOUS
    <3>8. o \in Nat /\ m \in Nat /\ q \in Nat /\ o + m <= q /\ Len(steps') = q + Len(g.list)
          /\ Len(g.list) \in Nat
      BY <3>2, <3>3, <3>4, <3>5, <3>6, <3>7
    <3>9. ASSUME NEW i \in 1..m PROVE steps'[o + i] = l[i]
      <4>1. o + i \in 1..q
        BY <3>8
      <4>2. steps[o + i] = l[i]
        BY <3>1, <3>4, <3>5, <3>6 DEF Lies
      <4> QED BY <4>1, <4>2, <3>7
    <3>10. o + m <= Len(steps')
      BY <3>8
    <3>11. Lies(stack[k], steps')
      BY <3>4, <3>5, <3>6, <3>9, <3>10 DEF Lies
    <3> QED BY <3>1, <3>11
  <2> QED BY <1>1, <2>1, <2>2
<1>5. ASSUME NEW j \in 1..n, NEW k \in 1..n, j < k PROVE Under(stack'[j], stack'[k])
  <2>1. stack'[j] = stack[j] /\ Under(stack[j], stack[k]) /\ Under(stack[j], f)
    <3>1. j \in 1..(n - 1) /\ (k = n => stack[k] = f)
      BY <1>1, <1>5
    <3> QED BY <1>1, <1>2, <1>3, <1>5, <3>1
  <2>2. CASE k = n
    BY <1>2, <1>f, <2>1, <2>2 DEF Under
  <2>3. CASE k # n
    BY <1>1, <1>2, <2>1, <2>3
  <2> QED BY <2>2, <2>3
<1>6. ASSUME NEW j \in 1..(n - 1) PROVE Adjacent(stack'[j], stack'[j + 1])
  <2>1. Adjacent(stack[j], stack[j + 1]) /\ stack'[j] = stack[j]
    BY <1>2, <1>3
  <2>2. CASE j + 1 = n
    BY <1>1, <1>2, <1>f, <2>1, <2>2 DEF Adjacent
  <2>3. CASE j + 1 # n
    BY <1>1, <1>2, <2>1, <2>3
  <2> QED BY <2>2, <2>3
<1>7. stack'[1].part = "top"
  <2>1. CASE n = 1
    BY <1>1, <1>2, <1>3, <1>f, <2>1
  <2>2. CASE n # 1
    BY <1>1, <1>2, <1>3, <2>2
  <2> QED BY <2>1, <2>2
<1>8. Top' = g
  BY <1>2 DEF Top
<1>9. TopFits(Top', steps', uncaught', ctl')
  BY <1>8 DEF TopFits
<1>10. StackInv'
  BY <1>2, <1>1, <1>3, <1>4, <1>5, <1>6, <1>7, <1>9 DEF StackInv
<1>11. ASSUME NoneFailed', ~ f.failed PROVE NoneFailed
  BY <1>n, <1>1, <1>2, <1>11 DEF NoneFailed
<1>12. NoneFailed' => ~ g.failed
  BY <1>1, <1>2 DEF NoneFailed
<1> QED BY <1>n, <1>f, <1>2, <1>8, <1>10, <1>11, <1>12

(* A construct begins: its frame and its inner steps go on top.            *)
LEMMA PushKeeps ==
  ASSUME StackInv, NEW g, stack' = Append(stack, g), steps' = steps \o g.list,
         UNCHANGED <<program, uncaught>>, ctl' = "go", FrameInv(program, g), g.part # "top",
         g.offset = Len(steps), g.before = Len(uncaught), ~ g.failed,
         Top.at \in 1..Len(Top.list)
  PROVE  StackInv' /\ Len(stack') = Len(stack) + 1 /\ Top' = g /\ (NoneFailed' => NoneFailed)
<1>n. PICK n : n = Len(stack)
  OBVIOUS
<1>f. PICK f : f = Top
  OBVIOUS
<1>u. PICK u : u = Len(uncaught)
  OBVIOUS
<1>1. n \in Nat /\ n >= 1 /\ f = stack[n]
  BY <1>n, <1>f, InnerFacts
<1>2. IsStack(stack') /\ Len(stack') = n + 1 /\ (\A i \in 1..n : stack'[i] = stack[i])
      /\ stack'[n + 1] = g
  BY <1>n, PushFacts DEF StackInv
<1>3. /\ \A k \in 1..n : FrameInv(program, stack[k]) /\ Lies(stack[k], steps)
      /\ \A j \in 1..n : \A k \in 1..n : j < k => Under(stack[j], stack[k])
      /\ \A j \in 1..(n - 1) : Adjacent(stack[j], stack[j + 1])
      /\ stack[1].part = "top" /\ program \in Programs
      /\ TopFits(f, steps, uncaught, ctl) /\ IsStack(steps) /\ IsStack(uncaught)
  BY <1>n, <1>f DEF StackInv
<1>4. Len(steps) \in Nat /\ u \in Nat /\ f.at \in 1..Len(f.list) /\ g.before = u
      /\ IsStack(g.list) /\ Len(g.list) \in Nat /\ g.offset = Len(steps)
  BY <1>3, <1>f, <1>u, StackFacts DEF FrameInv, IsStack
<1>5. IsStack(steps') /\ Len(steps') = g.offset + Len(g.list)
      /\ (\A i \in 1..Len(steps) : steps'[i] = steps[i])
      /\ \A i \in 1..Len(g.list) : steps'[g.offset + i] = g.list[i]
  <2>1. PICK l : l = g.list
    OBVIOUS
  <2>2. steps' = steps \o l
    BY <2>1
  <2>3. /\ IsStack(steps \o l) /\ Len(steps \o l) = Len(steps) + Len(l)
        /\ \A i \in 1..Len(steps) : (steps \o l)[i] = steps[i]
        /\ \A i \in 1..Len(l) : (steps \o l)[Len(steps) + i] = l[i]
    BY <1>3, <1>4, <2>1, JoinFacts
  <2> QED BY <1>4, <2>1, <2>2, <2>3
<1>g. FrameInv(program', g) /\ Lies(g, steps')
  <2>1. g.offset + Len(g.list) <= Len(steps')
    BY <1>4, <1>5
  <2> QED BY <1>5, <2>1 DEF Lies
<1>6. ASSUME NEW k \in 1..(n + 1) PROVE FrameInv(program', stack'[k]) /\ Lies(stack'[k], steps')
  <2>1. CASE k = n + 1
    BY <1>2, <1>g, <2>1
  <2>2. CASE k # n + 1
    <3>1. k \in 1..n /\ stack'[k] = stack[k] /\ FrameInv(program, stack[k]) /\ Lies(stack[k], steps)
      BY <1>1, <1>2, <1>3, <2>2
    <3>2. PICK o : o = stack[k].offset
      OBVIOUS
    <3>3. PICK l : l = stack[k].list
      OBVIOUS
    <3>4. PICK m : m = Len(l)
      OBVIOUS
    <3>5. PICK q : q = Len(steps)
      OBVIOUS
    <3>6. o \in Nat /\ m \in Nat /\ q \in Nat /\ o + m <= q /\ Len(steps') >= q
          /\ \A i \in 1..m : steps[o + i] = l[i]
      <4>1. o \in Nat /\ m \in Nat
        BY <3>1, <3>2, <3>3, <3>4 DEF FrameInv
      <4>2. o + m <= q /\ \A i \in 1..m : steps[o + i] = l[i]
        BY <3>1, <3>2, <3>3, <3>4, <3>5 DEF Lies
      <4> QED BY <4>1, <4>2, <1>4, <1>5, <3>5
    <3>7. ASSUME NEW i \in 1..m PROVE steps'[o + i] = l[i]
      <4>1. o + i \in 1..q
        BY <3>6
      <4> QED BY <4>1, <3>5, <3>6, <1>5
    <3>8. o + m <= Len(steps')
      BY <3>6, <1>4, <1>5
    <3> QED BY <3>1, <3>2, <3>3, <3>4, <3>7, <3>8 DEF Lies
  <2> QED BY <2>1, <2>2
<1>7. ASSUME NEW j \in 1..n PROVE Under(stack[j], g)
  <2>1. stack[j].offset \in Nat /\ Len(stack[j].list) \in Nat
        /\ stack[j].offset + Len(stack[j].list) <= g.offset
    BY <1>3, <1>4 DEF FrameInv, Lies
  <2>2. CASE j = n
    BY <1>1, <1>3, <1>4, <1>u, <2>1, <2>2 DEF Under, TopFits
  <2>3. CASE j # n
    <3>1. Under(stack[j], f)
      BY <1>1, <1>3, <2>3
    <3>2. stack[j].before \in Nat /\ f.before \in Nat /\ f.before <= u
      <4>1. FrameInv(program, stack[j]) /\ FrameInv(program, f)
        BY SMTT(30), <1>1, <1>3
      <4>2. f.before <= u
        BY <1>3, <1>u DEF TopFits
      <4> QED BY <4>1, <4>2 DEF FrameInv
    <3>3. stack[j].before <= u /\ (stack[j].failed => u >= 1) /\ stack[j].at \in 1..Len(stack[j].list)
      BY <1>4, <3>1, <3>2 DEF Under
    <3> QED BY <1>4, <2>1, <3>3 DEF Under
  <2> QED BY <2>2, <2>3
<1>8. ASSUME NEW j \in 1..(n + 1), NEW k \in 1..(n + 1), j < k PROVE Under(stack'[j], stack'[k])
  <2>1. j \in 1..n /\ stack'[j] = stack[j]
    BY <1>1, <1>2, <1>8
  <2>2. CASE k = n + 1
    BY <1>2, <1>7, <2>1, <2>2
  <2>3. CASE k # n + 1
    BY <1>1, <1>2, <1>3, <1>8, <2>1, <2>3
  <2> QED BY <2>2, <2>3
<1>9. ASSUME NEW j \in 1..n PROVE Adjacent(stack'[j], stack'[j + 1])
  <2>1. CASE j = n
    BY <1>1, <1>2, <1>3, <1>4, <2>1 DEF Adjacent, TopFits
  <2>2. CASE j # n
    BY <1>1, <1>2, <1>3, <2>2
  <2> QED BY <2>1, <2>2
<1>10. stack'[1].part = "top" /\ Top' = g
  BY <1>1, <1>2, <1>3 DEF Top
<1>11. TopFits(Top', steps', uncaught', ctl')
  <2>1. g.before <= Len(uncaught') /\ ctl' \notin {"ok", "failed"}
    BY <1>4, <1>u
  <2> QED BY <1>5, <1>10, <2>1 DEF TopFits
<1>12. Len(stack') - 1 = n /\ Len(stack') >= 1
  BY <1>1, <1>2
<1>13. StackInv'
  BY <1>2, <1>3, <1>5, <1>6, <1>8, <1>9, <1>10, <1>11, <1>12 DEF StackInv
<1>14. NoneFailed' => NoneFailed
  BY <1>1, <1>2, <1>n DEF NoneFailed
<1> QED BY <1>2, <1>n, <1>10, <1>13, <1>14

(* A construct ends: its frame and its inner steps go.                     *)
LEMMA PopKeeps ==
  ASSUME StackInv, stack' = Inner, steps' = Truncated, UNCHANGED program, Top.part # "top",
         IsStack(uncaught'), Top.before <= Len(uncaught')
  PROVE  /\ StackInv' /\ Len(stack') = Len(stack) - 1
         /\ NoneFailed' => Top.failed \/ NoneFailed
<1>n. PICK n : n = Len(stack)
  OBVIOUS
<1>f. PICK f : f = Top
  OBVIOUS
<1>u. PICK u : u = Len(uncaught')
  OBVIOUS
<1>1. n \in Nat /\ n >= 1 /\ f = stack[n]
      /\ IsStack(stack') /\ Len(stack') = n - 1 /\ \A i \in 1..(n - 1) : stack'[i] = stack[i]
  BY <1>n, <1>f, InnerFacts
<1>3. /\ \A k \in 1..n : FrameInv(program, stack[k]) /\ Lies(stack[k], steps)
      /\ \A j \in 1..n : \A k \in 1..n : j < k => Under(stack[j], stack[k])
      /\ \A j \in 1..(n - 1) : Adjacent(stack[j], stack[j + 1])
      /\ stack[1].part = "top" /\ program \in Programs
      /\ TopFits(f, steps, uncaught, ctl) /\ IsStack(steps)
  BY <1>n, <1>f DEF StackInv
<1>4. n >= 2 /\ \A j \in 1..(n - 1) : Under(stack[j], f)
  <2>1. n # 1
    BY <1>1, <1>3, <1>f
  <2> QED BY <1>1, <1>3, <2>1
<1>5. PICK q : q = f.offset
  OBVIOUS
<1>6. q \in Nat /\ q \in 0..Len(steps) /\ Len(f.list) \in Nat
  <2>1. q \in Nat /\ Len(f.list) \in Nat /\ Len(steps) = q + Len(f.list)
    BY <1>1, <1>3, <1>5 DEF FrameInv, TopFits
  <2> QED BY <2>1
<1>7. IsStack(steps') /\ Len(steps') = q /\ \A i \in 1..q : steps'[i] = steps[i]
  BY <1>3, <1>5, <1>6, <1>f, CutFacts DEF Truncated
<1>8. ASSUME NEW k \in 1..(n - 1) PROVE FrameInv(program', stack'[k]) /\ Lies(stack'[k], steps')
  <2>1. stack'[k] = stack[k] /\ FrameInv(program, stack[k]) /\ Lies(stack[k], steps) /\ Under(stack[k], f)
    BY <1>1, <1>3, <1>4
  <2>2. PICK o : o = stack[k].offset
    OBVIOUS
  <2>3. PICK l : l = stack[k].list
    OBVIOUS
  <2>4. PICK m : m = Len(l)
    OBVIOUS
  <2>5. o \in Nat /\ m \in Nat /\ o + m <= q /\ \A i \in 1..m : steps[o + i] = l[i]
    <3>1. o \in Nat /\ m \in Nat
      BY <2>1, <2>2, <2>3, <2>4 DEF FrameInv
    <3>2. o + m <= q /\ \A i \in 1..m : steps[o + i] = l[i]
      BY <2>1, <2>2, <2>3, <2>4, <1>5 DEF Lies, Under
    <3> QED BY <3>1, <3>2
  <2>6. ASSUME NEW i \in 1..m PROVE steps'[o + i] = l[i]
    <3>1. o + i \in 1..q
      BY <2>5, <1>6
    <3> QED BY <3>1, <2>5, <1>7
  <2> QED BY <2>1, <2>2, <2>3, <2>4, <2>5, <2>6, <1>7 DEF Lies
<1>9. \A j \in 1..(n - 1) : \A k \in 1..(n - 1) : j < k => Under(stack'[j], stack'[k])
  BY <1>1, <1>3
<1>10. ASSUME NEW j \in 1..(n - 2) PROVE Adjacent(stack'[j], stack'[j + 1])
  <2>1. j \in 1..(n - 1) /\ j + 1 \in 1..(n - 1)
    BY <1>1
  <2> QED BY <1>1, <1>3, <2>1
<1>11. PICK g : g = stack[n - 1]
  OBVIOUS
<1>12. Top' = g /\ stack'[1].part = "top" /\ Under(g, f) /\ Adjacent(g, f) /\ FrameInv(program, g)
  <2>1. n - 1 \in 1..(n - 1) /\ 1 \in 1..(n - 1) /\ n - 1 \in 1..n /\ (n - 1) + 1 = n
    BY <1>1, <1>4
  <2>2. Adjacent(g, f)
    BY <1>1, <1>3, <1>11, <2>1
  <2> QED BY <1>1, <1>3, <1>4, <1>11, <2>1, <2>2 DEF Top
<1>13. TopFits(Top', steps', uncaught', ctl')
  <2>1. Len(steps') = g.offset + Len(g.list)
    BY <1>5, <1>7, <1>12 DEF Adjacent
  <2>2. g.before \in Nat /\ f.before \in Nat /\ u \in Nat /\ f.before <= u
    <3>1. FrameInv(program, f)
      BY <1>1, <1>3
    <3>2. u \in Nat
      BY <1>u, StackFacts
    <3> QED BY <1>12, <1>u, <1>f, <3>1, <3>2 DEF FrameInv
  <2>3. g.before <= u /\ (g.failed => u >= 1) /\ g.at \in 1..Len(g.list)
    BY <2>2, <1>12 DEF Under
  <2> QED BY <1>12, <1>u, <2>1, <2>3 DEF TopFits
<1>14. Len(stack') >= 1 /\ Len(stack') - 1 = n - 2
  BY <1>1, <1>4
<1>15. StackInv'
  BY <1>1, <1>3, <1>7, <1>8, <1>9, <1>10, <1>12, <1>13, <1>14 DEF StackInv
<1>16. ASSUME NoneFailed', ~ f.failed PROVE NoneFailed
  BY <1>1, <1>n, <1>16 DEF NoneFailed
<1> QED BY <1>1, <1>n, <1>f, <1>15, <1>16

(* The top frame stays as it is.                                           *)
LEMMA SameKeeps ==
  ASSUME StackInv, UNCHANGED <<program, stack, steps>>, IsStack(uncaught'),
         Len(uncaught) <= Len(uncaught'),
         ctl' \in {"ok", "failed"} => Top.at \in 1..Len(Top.list)
  PROVE  StackInv' /\ Top' = Top /\ (NoneFailed' <=> NoneFailed)
<1>f. PICK f : f = Top
  OBVIOUS
<1>1. Top' = f /\ Len(uncaught) \in Nat /\ Len(uncaught') \in Nat /\ f.before \in Nat
  BY <1>f, InnerFacts, StackFacts DEF Top, StackInv, FrameInv
<1>2. TopFits(Top', steps', uncaught', ctl')
  <2>1. TopFits(f, steps, uncaught, ctl)
    BY <1>f DEF StackInv
  <2> QED BY <1>1, <2>1, <1>f DEF TopFits
<1>3. StackInv'
  BY <1>2 DEF StackInv
<1> QED BY <1>1, <1>3, <1>f DEF NoneFailed

-----------------------------------------------------------------------------
(* How the invocation goes on.                                             *)

Clean == \A m \in Markers : markers[m] = None
Blamable == \A m \in Markers :
  markers[m] # None => \E i \in 1..Len(uncaught) : uncaught[i].step = markers[m]

(* A marker is that of a failure nothing has recovered from, and only a    *)
(* cleanup behind a failure runs with a marker set; so a cancelled step is *)
(* the action's error once it is answered, and what ended the invocation   *)
(* cannot be undone.                                                       *)
FlowInv ==
  /\ ctl \in {"go", "ok", "failed", "err"} /\ (ctl = "err" <=> raised # NoError)
  /\ markers = [m \in Markers |-> markers[m]]
  /\ ctl # "err" => Blamable
  /\ ctl \in {"go", "ok"} /\ ret = None /\ NoneFailed => Clean
  /\ stopped = "cancelled" =>
       \/ ctl = "err" /\ raised.kind = "cancelled"
       \/ /\ ctl = "failed" /\ markers["cancelled"] # None
          /\ Len(stack) = 1 => markers["fuel"] = None
  /\ stopped = "budget" => ctl = "err" /\ raised.kind = "budget"
  /\ stopped = "return" => ret # None /\ ctl # "err"
  /\ ctl = "failed" => Len(uncaught) >= 1

Recovers == markers' = NoMarkers
Unmarked == UNCHANGED <<markers, uncaught>>

LEMMA MarkersKept ==
  ASSUME FlowInv, ctl # "err", Unmarked \/ Recovers
  PROVE  /\ markers' = [m \in Markers |-> markers'[m]]
         /\ Blamable' /\ (Recovers => Clean')
<1>1. CASE Unmarked
  <2>1. Blamable
    BY DEF FlowInv
  <2>2. Blamable'
    BY <1>1, <2>1 DEF Unmarked, Blamable
  <2>3. Recovers => Clean'
    BY DEF Recovers, NoMarkers, Clean
  <2> QED BY <1>1, <2>2, <2>3 DEF FlowInv, Unmarked
<1>2. CASE Recovers
  BY <1>2 DEF Recovers, NoMarkers, Clean, Blamable
<1> QED BY <1>1, <1>2

(* The block goes on, or one begins.                                       *)
LEMMA GoFlow ==
  ASSUME FlowInv, ctl # "err", ctl' = "go", UNCHANGED <<raised, ret, stopped>>,
         Unmarked \/ Recovers, stopped # "cancelled",
         ret = None /\ NoneFailed' => Clean'
  PROVE  FlowInv'
<1>1. markers' = [k \in Markers |-> markers'[k]] /\ Blamable'
  BY MarkersKept
<1>2. raised = NoError /\ stopped \notin {"cancelled", "budget"}
  BY DEF FlowInv
<1> QED BY <1>1, <1>2 DEF FlowInv

(* A construct or a return answers.                                        *)
LEMMA AnswerFlow ==
  ASSUME FlowInv, ctl # "err", UNCHANGED ret, Unmarked \/ Recovers,
         stopped # "cancelled", NEW ok \in BOOLEAN, NEW s, NEW m, Answer(ok, s, m, stopped),
         ~ok => Unmarked /\ Len(uncaught) >= 1,
         ok /\ ret = None /\ NoneFailed' => Clean'
  PROVE  FlowInv'
<1>1. markers' = [k \in Markers |-> markers'[k]] /\ Blamable'
  BY MarkersKept
<1>0. raised = NoError /\ stopped \notin {"cancelled", "budget"}
  BY DEF FlowInv
<1>2. CASE m.tripped
  <2>1. ctl' = "err" /\ raised' = [kind |-> "budget", step |-> s] /\ stopped' = "budget"
    BY <1>2 DEF Answer, Raise, Error
  <2>2. raised' # NoError /\ raised'.kind = "budget"
    BY <2>1 DEF NoError, Error, None
  <2> QED BY <1>1, <2>1, <2>2 DEF FlowInv
<1>3. CASE ~ m.tripped
  <2>1. ctl' = (IF ok THEN "ok" ELSE "failed") /\ UNCHANGED <<raised, stopped>>
    BY <1>3 DEF Answer
  <2>2. ~ok => Len(uncaught') >= 1
    BY DEF Unmarked
  <2> QED BY <1>0, <1>1, <2>1, <2>2 DEF FlowInv
<1> QED BY <1>2, <1>3

(* An error ends the invocation; one that is neither a cancellation nor a  *)
(* tripped budget only if nothing else has ended it.                       *)
LEMMA RaiseFlow ==
  ASSUME FlowInv, UNCHANGED ret, markers' = [m \in Markers |-> markers'[m]],
         ctl' = "err", raised' # NoError,
         \/ stopped' \in {"cancelled", "budget"} /\ raised'.kind = stopped'
         \/ stopped' = stopped /\ stopped \notin {"cancelled", "budget", "return"}
  PROVE  FlowInv'
BY DEF FlowInv

(* Nothing of it changes.                                                  *)
LEMMA SameFlow ==
  ASSUME FlowInv, UNCHANGED <<ctl, raised, markers, uncaught, ret, stopped>>,
         ctl # "failed" \/ Len(stack') = Len(stack),
         NoneFailed' => NoneFailed \/ ctl = "err"
  PROVE  FlowInv'
<1>1. (Blamable => Blamable') /\ (Clean => Clean')
  BY DEF Blamable, Clean
<1> QED BY <1>1 DEF FlowInv

-----------------------------------------------------------------------------
(* The error and foreach stacks are the scopes of the catches and loops.   *)

ScopeInv ==
  /\ errorStack = Scope(stack, "catch")
  /\ ctl # "err" => foreachStack = Scope(stack, "loop")

ErrorPopped == errorStack' = SubSeq(errorStack, 1, Len(errorStack) - 1)

LEMMA TopScope ==
  ASSUME StackInv, NEW part
  PROVE  /\ IsStack(Inner) /\ IsStack(Scope(Inner, part))
         /\ Scope(stack, part) = IF Top.part = part THEN Append(Scope(Inner, part), Top.step)
                                 ELSE Scope(Inner, part)
<1>f. PICK f : f = Top
  OBVIOUS
<1>1. PICK s : s = Inner
  OBVIOUS
<1>2. IsStack(s)
  BY <1>1, InnerFacts
<1>3. stack = Append(s, f)
  BY <1>1, <1>f, FrontAndTop DEF StackInv, Inner, Top
<1>4. Scope(Append(s, f), part) = IF f.part = part THEN Append(Scope(s, part), f.step)
                                  ELSE Scope(s, part)
  BY <1>2, ScopeOfPush
<1>5. IsStack(Scope(s, part))
  BY <1>2, ScopeIsStack
<1> QED BY <1>1, <1>2, <1>3, <1>4, <1>5, <1>f

(* What is left of a scope when its frame goes.                            *)
LEMMA PoppedScope ==
  ASSUME StackInv, NEW part, Top.part = part, NEW s, s = Scope(stack, part)
  PROVE  SubSeq(s, 1, Len(s) - 1) = Scope(Inner, part)
<1>1. PICK f : f = Top
  OBVIOUS
<1>2. PICK r : r = Scope(Inner, part)
  OBVIOUS
<1>3. IsStack(r) /\ s = Append(r, f.step)
  BY <1>1, <1>2, TopScope
<1> QED BY <1>2, <1>3, PopOfPush

LEMMA ReplacedScope ==
  ASSUME StackInv, NEW g, NEW part
  PROVE  Scope(Append(Inner, g), part) = IF g.part = part THEN Append(Scope(Inner, part), g.step)
                                         ELSE Scope(Inner, part)
<1>1. PICK s : s = Inner
  OBVIOUS
<1>2. IsStack(s)
  BY <1>1, InnerFacts
<1> QED BY <1>1, <1>2, ScopeOfPush

-----------------------------------------------------------------------------
(* The moves of the stack.                                                 *)

SameBlock(f, g) ==
  /\ Shape(g) /\ g.step = f.step /\ g.part = f.part /\ g.list = f.list /\ g.offset = f.offset
  /\ g.failed = f.failed /\ g.before = f.before

(* The block goes on.                                                      *)
LEMMA GoesKeeps ==
  ASSUME StackInv, ScopeInv, NEW g, Replace(g), SameBlock(Top, g), g.at \in 0..(Len(g.list) + 1),
         UNCHANGED <<program, steps, uncaught, errorStack, foreachStack>>,
         ctl # "err", ctl' \in {"go", "err"}
  PROVE  StackInv' /\ ScopeInv' /\ (NoneFailed' => NoneFailed) /\ Len(stack') = Len(stack)
<1>f. PICK f : f = Top
  OBVIOUS
<1>1. /\ FrameInv(program, f) /\ Lies(f, steps) /\ TopFits(f, steps, uncaught, ctl)
      /\ IsStack(steps) /\ IsStack(uncaught)
  <2>1. f = stack[Len(stack)] /\ Len(stack) \in 1..Len(stack)
    BY <1>f, InnerFacts DEF Top
  <2> QED BY <1>f, <2>1 DEF StackInv
<1>2. FrameInv(program, g) /\ Lies(g, steps') /\ stack' = Append(Inner, g)
      /\ Len(steps') = g.offset + Len(g.list) /\ g.offset = f.offset /\ g.before = f.before
      /\ g.part = f.part /\ g.failed = f.failed
      /\ (g.failed => Len(uncaught') >= 1) /\ f.before <= Len(uncaught')
  <2>1. /\ Shape(g) /\ g.step = f.step /\ g.part = f.part /\ g.list = f.list
        /\ g.offset = f.offset /\ g.failed = f.failed /\ g.before = f.before
    BY <1>f DEF SameBlock
  <2>2. FrameInv(program, g)
    BY <1>1, <2>1 DEF FrameInv
  <2>3. Lies(g, steps')
    BY <1>1, <2>1 DEF Lies
  <2>4. Len(steps') = g.offset + Len(g.list) /\ (g.failed => Len(uncaught') >= 1)
        /\ f.before <= Len(uncaught')
    BY <1>1, <2>1 DEF TopFits
  <2> QED BY <2>1, <2>2, <2>3, <2>4 DEF Replace
<1>3. StackInv' /\ (NoneFailed' => ~g.failed /\ (Top.failed \/ NoneFailed)) /\ Len(stack') = Len(stack)
  BY <1>1, <1>2, <1>f, ReplaceKeeps
<1>4. \A part : Scope(stack', part) = Scope(stack, part)
  <2>1. \A part : Scope(stack', part) = IF g.part = part THEN Append(Scope(Inner, part), g.step)
                                        ELSE Scope(Inner, part)
    BY <1>2, ReplacedScope
  <2>2. \A part : Scope(stack, part) = IF f.part = part THEN Append(Scope(Inner, part), f.step)
                                       ELSE Scope(Inner, part)
    BY <1>f, TopScope
  <2>3. g.part = f.part /\ g.step = f.step
    BY <1>f DEF SameBlock
  <2> QED BY <2>1, <2>2, <2>3
<1> QED BY <1>2, <1>3, <1>4, <1>f DEF ScopeInv

(* A try turns to its handler or to its cleanup.                           *)
LEMMA SwitchKeeps ==
  ASSUME StackInv, ScopeInv, NEW part, NEW list, NEW failed \in BOOLEAN,
         SwitchTo(part, list, failed), list \in Seq(DOMAIN program.step),
         Top.part \in {"try", "catch"}, ctl # "err",
         failed => part = "finally" /\ Len(uncaught') >= 1,
         IsStack(uncaught'), Top.before <= Len(uncaught'), UNCHANGED <<program, foreachStack>>,
         \/ Top.part = "try" /\ part = "finally" /\ UNCHANGED errorStack
         \/ Top.part = "try" /\ part = "catch" /\ errorStack' = Append(errorStack, Top.step)
         \/ Top.part = "catch" /\ part = "finally" /\ ErrorPopped
  PROVE  StackInv' /\ ScopeInv' /\ (NoneFailed' => ~failed /\ NoneFailed)
<1>f. PICK f : f = Top
  OBVIOUS
<1>g. PICK g : g = [f EXCEPT !.part = part, !.list = list, !.at = 1, !.failed = failed]
  OBVIOUS
<1>1. /\ FrameInv(program, f) /\ TopFits(f, steps, uncaught, ctl) /\ IsStack(steps)
  <2>1. f = stack[Len(stack)] /\ Len(stack) \in 1..Len(stack)
    BY <1>f, InnerFacts DEF Top
  <2> QED BY <1>f, <2>1 DEF StackInv
<1>2. Shape(g) /\ g.step = f.step /\ g.part = part /\ g.list = list /\ g.at = 1 /\ g.offset = f.offset
      /\ g.failed = failed /\ g.before = f.before
  <2>1. Shape(f)
    BY <1>1 DEF FrameInv
  <2>2. g = [step |-> f.step, part |-> part, list |-> list, at |-> 1, offset |-> f.offset,
             result |-> f.result, handled |-> f.handled, failed |-> failed, left |-> f.left,
             collected |-> f.collected, before |-> f.before]
    BY <1>g, <2>1 DEF Shape
  <2> QED BY <2>2 DEF Shape
<1>3. Len(list) \in Nat /\ IsStack(list) /\ part \in {"catch", "finally"}
  BY DEF IsStack
<1>4. FrameInv(program, g)
  BY <1>1, <1>2, <1>3, <1>f DEF FrameInv, Parts
<1>5. PICK q : q = f.offset
  OBVIOUS
<1>6. q \in Nat /\ q \in 0..Len(steps)
  <2>1. q \in Nat /\ Len(f.list) \in Nat /\ Len(steps) = q + Len(f.list)
    BY <1>1, <1>5 DEF FrameInv, TopFits
  <2> QED BY <2>1
<1>7. PICK s : s = SubSeq(steps, 1, q)
  OBVIOUS
<1>8. IsStack(s) /\ Len(s) = q /\ \A i \in 1..q : s[i] = steps[i]
  BY <1>1, <1>6, <1>7, CutFacts
<1>9. /\ steps' = s \o list /\ stack' = Append(Inner, g) /\ ctl' = "go"
  <2>1. /\ steps' = SubSeq(steps, 1, Top.offset) \o list /\ ctl' = "go"
        /\ stack' = Append(Inner, [Top EXCEPT !.part = part, !.list = list, !.at = 1,
                                              !.failed = failed])
    BY DEF SwitchTo, Replace, Truncated
  <2>2. [Top EXCEPT !.part = part, !.list = list, !.at = 1, !.failed = failed] = g
    BY <1>f, <1>g
  <2> QED BY <2>1, <2>2, <1>f, <1>5, <1>7
<1>10. /\ IsStack(steps') /\ Len(steps') = q + Len(list) /\ (\A i \in 1..q : steps'[i] = s[i])
       /\ \A i \in 1..Len(list) : steps'[q + i] = list[i]
  <2>1. Joins(s, list, s \o list)
    BY <1>3, <1>8, Joined
  <2>2. Joins(s, list, steps')
    BY <1>9, <2>1
  <2> QED BY <1>8, <2>2 DEF Joins
<1>11. Lies(g, steps')
  <2>1. q + Len(list) <= Len(steps')
    <3>1. Len(steps') = q + Len(list) /\ Len(list) \in Nat
      BY <1>3, <1>10
    <3> QED BY <1>6, <3>1
  <2> QED BY <1>2, <1>5, <1>10, <2>1 DEF Lies
<1>12. g.part = "top" <=> Top.part = "top"
  BY <1>2, <1>3
<1>13. StackInv' /\ (NoneFailed' => ~g.failed /\ (Top.failed \/ NoneFailed))
  <2>1. \A i \in 1..g.offset : steps'[i] = steps[i]
    BY <1>2, <1>5, <1>8, <1>10
  <2>2. Len(steps') = g.offset + Len(g.list) /\ ctl' \notin {"ok", "failed"}
    BY <1>2, <1>5, <1>9, <1>10
  <2> QED BY <1>2, <1>4, <1>f, <1>9, <1>10, <1>11, <1>12, <2>1, <2>2, ReplaceKeeps
<1>14. ~ Top.failed
  BY <1>1, <1>f DEF FrameInv
<1>15. \A p : Scope(stack', p) = IF part = p THEN Append(Scope(Inner, p), f.step) ELSE Scope(Inner, p)
  BY <1>2, <1>9, ReplacedScope
<1>16. \A p : Scope(stack, p) = IF f.part = p THEN Append(Scope(Inner, p), f.step) ELSE Scope(Inner, p)
  BY <1>f, TopScope
<1>17. errorStack' = Scope(stack', "catch")
  <2>1. CASE Top.part = "catch"
    BY <1>15, <2>1, PoppedScope DEF ScopeInv, ErrorPopped
  <2>2. CASE Top.part = "try"
    BY <1>15, <1>16, <1>f, <2>2 DEF ScopeInv
  <2> QED BY <2>1, <2>2
<1>18. foreachStack' = Scope(stack', "loop")
  BY <1>3, <1>15, <1>16, <1>f DEF ScopeInv
<1> QED BY <1>2, <1>13, <1>14, <1>17, <1>18 DEF ScopeInv

LEMMA TopFacts ==
  ASSUME StackInv, NEW f, f = Top
  PROVE  /\ FrameInv(program, f) /\ TopFits(f, steps, uncaught, ctl) /\ IsStack(uncaught)
         /\ WellFormed(program) /\ (f.part = "top" <=> Len(stack) = 1)
         /\ Len(uncaught) \in Nat /\ Len(stack) \in Nat /\ Len(stack) >= 1
<1>n. PICK n : n = Len(stack)
  OBVIOUS
<1>1. n \in Nat /\ n >= 1 /\ f = stack[n] /\ n \in 1..n
  BY <1>n, InnerFacts
<1>2. FrameInv(program, f) /\ TopFits(f, steps, uncaught, ctl) /\ IsStack(uncaught)
      /\ program \in Programs /\ stack[1].part = "top"
  BY <1>n, <1>1 DEF StackInv
<1>3. CASE n = 1
  BY <1>n, <1>1, <1>2, <1>3, ControlAssumption, StackFacts
<1>4. CASE n # 1
  <2>1. Under(stack[1], stack[n])
    BY <1>n, <1>1, <1>4 DEF StackInv
  <2>2. f.part # "top"
    BY <1>1, <2>1 DEF Under
  <2> QED BY <1>n, <1>1, <1>2, <1>4, <2>2, ControlAssumption, StackFacts
<1> QED BY <1>3, <1>4

(* A step that is named or answered is one of the action's.                *)
LEMMA CurrentFacts ==
  ASSUME StackInv, Top.at \in 1..Len(Top.list)
  PROVE  Current \in DOMAIN program.step /\ Current # None
<1>f. PICK f : f = Top
  OBVIOUS
<1>1. f.list \in Seq(DOMAIN program.step) /\ WellFormed(program) /\ f.at \in 1..Len(f.list)
  BY <1>f, TopFacts DEF FrameInv
<1>2. f.list[f.at] \in DOMAIN program.step
  BY <1>1
<1> QED BY <1>1, <1>2, <1>f DEF Current, WellFormed, None

(* A construct begins.                                                     *)
LEMMA EnterKeeps ==
  ASSUME StackInv, ScopeInv, AtStep, NEW g, stack' = Append(stack, g), steps' = steps \o g.list,
         Shape(g), g.step = Current, g.list \in Seq(DOMAIN program.step), g.at \in 0..1,
         g.offset = Len(steps), g.before = Len(uncaught), ~ g.failed, g.failed \in BOOLEAN,
         g.part \in {"try", "loop", "ifs"}, g.part = "try" => Def(Current).type = "try",
         UNCHANGED <<program, uncaught, errorStack>>, ctl' = "go",
         \/ g.part = "loop" /\ BeginForeach(Current)
         \/ g.part # "loop" /\ UNCHANGED foreachStack
  PROVE  StackInv' /\ ScopeInv' /\ (NoneFailed' => NoneFailed)
<1>1. IsStack(stack) /\ IsStack(steps) /\ Len(steps) \in Nat /\ Len(uncaught) \in Nat
      /\ Top.at \in 1..Len(Top.list) /\ ctl = "go"
  BY StackFacts DEF StackInv, AtStep
<1>2. Current \in DOMAIN program.step
  BY <1>1, CurrentFacts
<1>3. Len(g.list) \in Nat
  OBVIOUS
<1>4. FrameInv(program, g) /\ g.part # "top"
  BY <1>1, <1>2, <1>3 DEF FrameInv, Parts, Def
<1>5. StackInv' /\ (NoneFailed' => NoneFailed)
  BY <1>1, <1>4, PushKeeps
<1>6. \A p : Scope(stack', p) = IF g.part = p THEN Append(Scope(stack, p), g.step) ELSE Scope(stack, p)
  BY <1>1, ScopeOfPush
<1>7. errorStack' = Scope(stack', "catch") /\ foreachStack' = Scope(stack', "loop")
  BY <1>1, <1>6 DEF ScopeInv, BeginForeach
<1> QED BY <1>5, <1>7 DEF ScopeInv

(* A construct ends.                                                       *)
LEMMA LeaveKeeps ==
  ASSUME StackInv, ScopeInv, Top.part # "top", stack' = Inner, steps' = Truncated,
         UNCHANGED program, IsStack(uncaught'), Top.before <= Len(uncaught'),
         Top.part = "catch" => ErrorPopped, Top.part # "catch" => UNCHANGED errorStack,
         ctl' # "err" => /\ ctl # "err"
                         /\ Top.part = "loop" => PopItems
                         /\ Top.part # "loop" => UNCHANGED foreachStack
  PROVE  StackInv' /\ ScopeInv' /\ Len(stack') = Len(stack) - 1
         /\ (NoneFailed' => Top.failed \/ NoneFailed)
<1>1. StackInv' /\ Len(stack') = Len(stack) - 1 /\ (NoneFailed' => Top.failed \/ NoneFailed)
  BY PopKeeps
<1>2. \A p : Scope(stack', p) = IF Top.part = p THEN SubSeq(Scope(stack, p), 1, Len(Scope(stack, p)) - 1)
                                ELSE Scope(stack, p)
  <2> TAKE p
  <2>1. CASE Top.part = p
    <3>1. PICK s : s = Scope(stack, p)
      OBVIOUS
    <3>2. SubSeq(s, 1, Len(s) - 1) = Scope(Inner, p)
      BY <2>1, <3>1, PoppedScope
    <3> QED BY <2>1, <3>1, <3>2
  <2>2. CASE Top.part # p
    BY <2>2, TopScope
  <2> QED BY <2>1, <2>2
<1>3. errorStack' = Scope(stack', "catch")
  BY <1>2 DEF ScopeInv, ErrorPopped
<1>4. ctl' # "err" => foreachStack' = Scope(stack', "loop")
  BY <1>2 DEF ScopeInv, PopItems
<1> QED BY <1>1, <1>3, <1>4 DEF ScopeInv

(* The stack is left alone.                                                *)
LEMMA StayKeeps ==
  ASSUME StackInv, ScopeInv, UNCHANGED <<program, stack, steps, errorStack, foreachStack>>,
         IsStack(uncaught'), Len(uncaught) <= Len(uncaught'),
         ctl' \in {"ok", "failed"} => Top.at \in 1..Len(Top.list), ctl' # "err" => ctl # "err"
  PROVE  StackInv' /\ ScopeInv' /\ (NoneFailed' <=> NoneFailed)
BY SameKeeps DEF ScopeInv

-----------------------------------------------------------------------------
(* Each step keeps the invariant.                                          *)

ControlInv == StackInv /\ ScopeInv /\ FlowInv

(* A block that is done, or failed for another reason than a cancellation. *)
Ending == ctl = "go" \/ (ctl = "failed" /\ ~Escapes)

LEMMA EndingFacts ==
  ASSUME FlowInv, Ending
  PROVE  /\ ctl # "err" /\ stopped \notin {"cancelled", "budget"}
         /\ ctl = "failed" => Len(uncaught) >= 1
         /\ ctl = "go" /\ ret = None /\ NoneFailed => Clean
BY DEF FlowInv, Ending, Escapes

LEMMA UncaughtKept ==
  ASSUME StackInv, Unmarked \/ Recovered
  PROVE  IsStack(uncaught') /\ Top.before <= Len(uncaught') /\ (Unmarked \/ Recovers)
<1>f. PICK f : f = Top
  OBVIOUS
<1>1. /\ f.before \in 0..Len(uncaught) /\ IsStack(uncaught) /\ Len(uncaught) \in Nat
  <2>1. f.before \in Nat /\ f.before <= Len(uncaught) /\ Len(uncaught) \in Nat /\ IsStack(uncaught)
    BY <1>f, TopFacts DEF FrameInv, TopFits
  <2> QED BY <2>1
<1>2. CASE Unmarked
  BY <1>1, <1>2, <1>f DEF Unmarked
<1>3. CASE Recovered
  <2>1. uncaught' = SubSeq(uncaught, 1, f.before) /\ Recovers
    BY <1>3, <1>f DEF Recovered, ClearMarkers, Recovers
  <2>2. IsStack(SubSeq(uncaught, 1, f.before)) /\ Len(SubSeq(uncaught, 1, f.before)) = f.before
    BY <1>1, CutFacts
  <2>3. Len(uncaught') = f.before /\ IsStack(uncaught') /\ f.before <= f.before
    BY <1>1, <2>1, <2>2
  <2> QED BY <1>f, <2>1, <2>3
<1> QED BY <1>2, <1>3

LEMMA LeavingKeeps ==
  ASSUME ControlInv, NEW ok \in BOOLEAN, NEW m, Leave(ok, m), Ending, Top.part # "top",
         UNCHANGED <<program, ret>>, Unmarked \/ Recovered,
         Top.part = "catch" => ErrorPopped, Top.part # "catch" => UNCHANGED errorStack,
         Top.part = "loop" => PopItems, Top.part # "loop" => UNCHANGED foreachStack,
         ~ok => Unmarked /\ (ctl = "failed" \/ Top.failed),
         ok /\ ret = None => ~Top.failed /\ (ctl = "go" \/ Recovered)
  PROVE  ControlInv'
<1>1. /\ StackInv /\ ScopeInv /\ FlowInv /\ stack' = Inner /\ steps' = Truncated
      /\ Answer(ok, Top.step, m, stopped)
  BY DEF ControlInv, Leave
<1>2. /\ ctl # "err" /\ stopped \notin {"cancelled", "budget"}
      /\ ctl = "failed" => Len(uncaught) >= 1
      /\ ctl = "go" /\ ret = None /\ NoneFailed => Clean
  BY <1>1, EndingFacts
<1>3. IsStack(uncaught') /\ Top.before <= Len(uncaught') /\ (Unmarked \/ Recovers)
      /\ (Recovered => Recovers)
  BY <1>1, UncaughtKept DEF Recovered, ClearMarkers, Recovers
<1>4. StackInv' /\ ScopeInv' /\ (NoneFailed' => Top.failed \/ NoneFailed)
  BY <1>1, <1>2, <1>3, LeaveKeeps
<1>5. ~ok => Unmarked /\ Len(uncaught) >= 1
  <2>1. Top.failed => Len(uncaught) >= 1
    BY <1>1 DEF StackInv, TopFits
  <2> QED BY <1>2, <2>1
<1>6. ok /\ ret = None /\ NoneFailed' => Clean'
  <2>1. SUFFICES ASSUME ok, ret = None, NoneFailed' PROVE Clean'
    OBVIOUS
  <2>2. CASE Recovers
    BY <1>1, <1>2, <2>2, MarkersKept
  <2>3. CASE Unmarked /\ ~ Recovers
    <3>1. Clean
      BY <1>2, <1>3, <1>4, <2>1, <2>3
    <3> QED BY <3>1, <2>3 DEF Clean, Unmarked
  <2> QED BY <1>3, <2>2, <2>3
<1>s. PICK s : s = Top.step
  OBVIOUS
<1>7. Answer(ok, s, m, stopped)
  BY <1>1, <1>s
<1>8. FlowInv'
  BY <1>1, <1>2, <1>3, <1>5, <1>6, <1>7, AnswerFlow
<1> QED BY <1>4, <1>8 DEF ControlInv

LEMMA CleaningKeeps ==
  ASSUME ControlInv, NEW failed \in BOOLEAN, Cleanup(failed), Ending, Top.part \in {"try", "catch"},
         UNCHANGED <<program, ret, foreachStack>>, Unmarked \/ Recovered,
         Top.part = "catch" => ErrorPopped, Top.part # "catch" => UNCHANGED errorStack,
         failed => Unmarked /\ ctl = "failed", ~failed => ctl = "go" \/ Recovered
  PROVE  ControlInv'
<1>f. PICK f : f = Top
  OBVIOUS
<1>1. /\ StackInv /\ ScopeInv /\ FlowInv
  BY DEF ControlInv
<1>2. ~f.failed /\ WellFormed(program) /\ f.step \in DOMAIN program.step
      /\ program.step[f.step].type = "try"
  BY <1>1, <1>f, TopFacts DEF FrameInv
<1>d. PICK list : list = Def(Top.step).finally
  OBVIOUS
<1>3. list \in Seq(DOMAIN program.step)
  BY <1>2, <1>f, <1>d DEF WellFormed, Def
<1>4. CASE Compose(failed)
  <2>1. PICK ok \in BOOLEAN : ok = ~failed
    OBVIOUS
  <2>2. \E m : Leave(ok, m)
    BY <1>4, <2>1 DEF Compose
  <2>3. PICK m : Leave(ok, m)
    BY <2>2
  <2> QED BY <1>2, <1>f, <2>1, <2>3, LeavingKeeps
<1>5. CASE SwitchTo("finally", list, failed)
  <2>1. IsStack(uncaught') /\ Top.before <= Len(uncaught') /\ (Unmarked \/ Recovers)
        /\ (Recovered => Recovers)
    BY <1>1, UncaughtKept DEF Recovered, ClearMarkers, Recovers
  <2>2. /\ ctl # "err" /\ stopped \notin {"cancelled", "budget"}
        /\ ctl = "failed" => Len(uncaught) >= 1
        /\ ctl = "go" /\ ret = None /\ NoneFailed => Clean
    BY <1>1, EndingFacts
  <2>3. failed => Len(uncaught') >= 1
    BY <2>2 DEF Unmarked
  <2>4. StackInv' /\ ScopeInv' /\ (NoneFailed' => ~failed /\ NoneFailed)
    BY <1>1, <1>3, <1>5, <2>1, <2>2, <2>3, SwitchKeeps
  <2>5. ctl' = "go" /\ UNCHANGED <<raised, stopped>>
    BY <1>5 DEF SwitchTo
  <2>6. ret = None /\ NoneFailed' => Clean'
    <3>1. SUFFICES ASSUME ret = None, NoneFailed' PROVE Clean'
      OBVIOUS
    <3>2. CASE Recovers
      BY <1>1, <2>2, <3>2, MarkersKept
    <3>3. CASE Unmarked /\ ~ Recovers
      <4>1. Clean
        BY <2>1, <2>2, <2>4, <3>1, <3>3
      <4> QED BY <4>1, <3>3 DEF Clean, Unmarked
    <3> QED BY <2>1, <3>2, <3>3
  <2>7. FlowInv'
    BY <1>1, <2>1, <2>2, <2>5, <2>6, GoFlow
  <2> QED BY <2>4, <2>7 DEF ControlInv
<1> QED BY <1>4, <1>5, <1>d DEF Cleanup

LEMMA BlockEnding ==
  ASSUME NEW part, BlockDone(part) \/ BlockFailed(part)
  PROVE  Ending /\ Top.part = part /\ (ctl # "failed" <=> ctl = "go")
BY DEF BlockDone, BlockFailed, Ending

LEMMA TryEndsKeeps ==
  ASSUME ControlInv, TryEnds
  PROVE  ControlInv'
<1>f. PICK f : f = Top
  OBVIOUS
<1>d. PICK d : d = Def(f.step)
  OBVIOUS
<1>1. /\ Ending /\ Top.part = "try" /\ (ctl # "failed" <=> ctl = "go")
      /\ UNCHANGED <<program, foreachStack, ret>>
      /\ StackInv /\ ScopeInv /\ FlowInv
  BY BlockEnding DEF TryEnds, ControlInv
<1>2. ~f.failed /\ WellFormed(program) /\ f.step \in DOMAIN program.step
      /\ program.step[f.step].type = "try"
  BY <1>1, <1>f, TopFacts DEF FrameInv
<1>3. d.catch \in Seq(DOMAIN program.step)
  BY <1>2, <1>d DEF WellFormed, Def
<1>4. CASE ret # None /\ Leave(TRUE, mem) /\ UNCHANGED <<errorStack, markers, uncaught>>
  <2>1. PICK ok \in BOOLEAN : ok
    OBVIOUS
  <2>2. PICK m : m = mem
    OBVIOUS
  <2>3. Leave(ok, m)
    BY <1>4, <2>1, <2>2
  <2> QED BY <1>1, <1>4, <2>1, <2>3, LeavingKeeps DEF Unmarked
<1>5. CASE Cleanup(~(ctl # "failed")) /\ UNCHANGED <<errorStack, markers, uncaught>>
  <2>1. PICK failed \in BOOLEAN : failed <=> ctl = "failed"
    OBVIOUS
  <2>2. failed = ~(ctl # "failed")
    BY <2>1
  <2>3. Cleanup(failed)
    BY <1>5, <2>2
  <2> QED BY <1>1, <1>5, <2>1, <2>3, CleaningKeeps DEF Unmarked
<1>6. CASE Recovered /\ Cleanup(FALSE) /\ UNCHANGED errorStack
  <2>1. PICK failed \in BOOLEAN : failed = FALSE
    OBVIOUS
  <2>2. Cleanup(failed)
    BY <1>6, <2>1
  <2> QED BY <1>1, <1>6, <2>1, <2>2, CleaningKeeps
<1>7. CASE Recovered /\ errorStack' = Append(errorStack, f.step) /\ SwitchTo("catch", d.catch, FALSE)
  <2>1. PICK failed \in BOOLEAN : failed = FALSE
    OBVIOUS
  <2>2. PICK list : list = d.catch
    OBVIOUS
  <2>3. SwitchTo("catch", list, failed)
    BY <1>7, <2>1, <2>2
  <2>4. IsStack(uncaught') /\ Top.before <= Len(uncaught') /\ Recovers
    BY <1>1, <1>7, UncaughtKept DEF Recovered, ClearMarkers, Recovers
  <2>5. ctl # "err" /\ stopped # "cancelled"
    BY <1>1, EndingFacts
  <2>6. StackInv' /\ ScopeInv'
    BY <1>1, <1>3, <1>7, <1>f, <2>1, <2>2, <2>3, <2>4, <2>5, SwitchKeeps
  <2>7. ctl' = "go" /\ UNCHANGED <<raised, stopped>>
    BY <2>3 DEF SwitchTo
  <2>8. Clean'
    BY <1>1, <2>4, <2>5, MarkersKept
  <2>9. FlowInv'
    BY <1>1, <2>4, <2>5, <2>7, <2>8, GoFlow
  <2> QED BY <2>6, <2>9 DEF ControlInv
<1> QED BY <1>4, <1>5, <1>6, <1>7, <1>f, <1>d DEF TryEnds

LEMMA CatchEndsKeeps ==
  ASSUME ControlInv, CatchEnds
  PROVE  ControlInv'
<1>1. /\ Ending /\ Top.part = "catch" /\ (ctl # "failed" <=> ctl = "go")
      /\ UNCHANGED <<program, foreachStack, ret>> /\ Unmarked /\ ErrorPopped
      /\ Cleanup(ctl = "failed")
  BY BlockEnding DEF CatchEnds, Unmarked, ErrorPopped
<1>2. PICK failed \in BOOLEAN : failed <=> ctl = "failed"
  OBVIOUS
<1>3. failed = (ctl = "failed")
  BY <1>2
<1>4. Cleanup(failed)
  BY <1>1, <1>3
<1> QED BY <1>1, <1>2, <1>4, CleaningKeeps

LEMMA FinallyEndsKeeps ==
  ASSUME ControlInv, FinallyEnds
  PROVE  ControlInv'
<1>1. /\ Ending /\ Top.part = "finally" /\ (ctl # "failed" <=> ctl = "go")
      /\ UNCHANGED <<program, errorStack, foreachStack, ret>> /\ Unmarked
      /\ IF ctl = "failed" THEN Leave(FALSE, mem) ELSE Compose(Top.failed)
  BY BlockEnding DEF FinallyEnds, Unmarked
<1>f. PICK f : f = Top
  OBVIOUS
<1>2. f.failed \in BOOLEAN
  BY <1>f, TopFacts DEF FrameInv, ControlInv
<1>3. PICK ok \in BOOLEAN : ok <=> ctl = "go" /\ ~f.failed
  OBVIOUS
<1>4. \E m : Leave(ok, m)
  <2>1. CASE ctl = "failed"
    <3>1. ok = FALSE
      BY <1>3, <2>1
    <3> QED BY <1>1, <2>1, <3>1
  <2>2. CASE ctl # "failed"
    <3>1. ok = ~f.failed
      BY <1>1, <1>2, <1>3, <2>2
    <3>2. \E m : Leave(~Top.failed, m)
      BY <1>1, <2>2 DEF Compose
    <3> QED BY <1>f, <3>1, <3>2
  <2> QED BY <2>1, <2>2
<1>5. PICK m : Leave(ok, m)
  BY <1>4
<1> QED BY <1>1, <1>2, <1>3, <1>5, <1>f, LeavingKeeps

LEMMA LoopAndIfsKeep ==
  ASSUME ControlInv, LoopEnds \/ LoopFails \/ IfsEnds
  PROVE  ControlInv'
<1>f. PICK f : f = Top
  OBVIOUS
<1>1. FrameInv(program, f)
  BY <1>f, TopFacts DEF ControlInv
<1>2. CASE LoopEnds
  <2>1. /\ Ending /\ Top.part = "loop" /\ ctl = "go"
        /\ UNCHANGED <<program, errorStack, ret>> /\ Unmarked /\ PopItems
    BY <1>2 DEF LoopEnds, Ending, Unmarked
  <2>2. PICK ok \in BOOLEAN : ok = TRUE
    OBVIOUS
  <2>3. \E m : Leave(ok, m)
    BY <1>2, <2>2 DEF LoopEnds
  <2>4. PICK m : Leave(ok, m)
    BY <2>3
  <2>5. ~Top.failed
    BY <1>1, <1>f, <2>1 DEF FrameInv
  <2> QED BY <2>1, <2>2, <2>4, <2>5, LeavingKeeps
<1>3. CASE LoopFails
  <2>1. /\ Ending /\ Top.part = "loop" /\ ctl = "failed"
        /\ UNCHANGED <<program, errorStack, ret>> /\ Unmarked /\ PopItems
    BY <1>3 DEF LoopFails, BlockFailed, Ending, Unmarked
  <2>2. PICK ok \in BOOLEAN : ok = FALSE
    OBVIOUS
  <2>3. \E m : Leave(ok, m)
    BY <1>3, <2>2 DEF LoopFails
  <2>4. PICK m : Leave(ok, m)
    BY <2>3
  <2> QED BY <2>1, <2>2, <2>4, LeavingKeeps
<1>4. CASE IfsEnds
  <2>1. /\ Ending /\ Top.part = "ifs" /\ (ctl # "failed" <=> ctl = "go")
        /\ UNCHANGED <<program, errorStack, foreachStack, ret>> /\ Unmarked
        /\ Leave(ctl # "failed", mem)
    BY <1>4, BlockEnding DEF IfsEnds, Unmarked
  <2>2. PICK ok \in BOOLEAN : ok <=> ctl # "failed"
    OBVIOUS
  <2>3. ok = (ctl # "failed")
    BY <2>2
  <2>4. PICK m : m = mem
    OBVIOUS
  <2>5. Leave(ok, m)
    BY <2>1, <2>3, <2>4
  <2>6. ~Top.failed
    BY <1>1, <1>f, <2>1 DEF FrameInv
  <2> QED BY <2>1, <2>2, <2>5, <2>6, LeavingKeeps
<1> QED BY <1>2, <1>3, <1>4

LEMMA StartFacts ==
  ASSUME ControlInv, AtStep
  PROVE  /\ ctl = "go" /\ ret = None /\ Top.at \in 1..Len(Top.list)
         /\ Current \in DOMAIN program.step /\ Current # None
         /\ stopped \notin {"cancelled", "budget", "return"} /\ (NoneFailed => Clean)
         /\ Len(stack) = 1 => Clean
<1>1. ctl = "go" /\ ret = None /\ Top.at \in 1..Len(Top.list) /\ StackInv /\ FlowInv
  BY DEF AtStep, ControlInv
<1>2. stopped \notin {"cancelled", "budget", "return"} /\ (NoneFailed => Clean)
  BY <1>1 DEF FlowInv
<1>3. ASSUME Len(stack) = 1 PROVE NoneFailed
  <2>f. PICK f : f = Top
    OBVIOUS
  <2>1. FrameInv(program, f) /\ f.part = "top" /\ f = stack[1]
    BY <1>1, <1>3, <2>f, TopFacts DEF Top
  <2>2. ~f.failed
    BY <2>1 DEF FrameInv
  <2> QED BY <1>3, <2>1, <2>2 DEF NoneFailed
<1> QED BY <1>1, <1>2, <1>3, CurrentFacts

LEMMA MarkedFacts ==
  ASSUME markers = [m \in Markers |-> markers[m]], NEW s, NEW how, markers' = Marked(s, how)
  PROVE  /\ markers' = [m \in Markers |-> markers'[m]]
         /\ \A m \in Markers : \/ markers'[m] \in {None, markers[m]}
                               \/ how # "ok" /\ markers'[m] = s
         /\ how = "cancelled" => markers'["cancelled"] = s /\ markers'["fuel"] = markers["fuel"]
<1> DEFINE base == IF how \in {"nosecret", "refused"}
                   THEN markers ELSE [markers EXCEPT !["cancelled"] = None, !["callee"] = None]
<1>1. PICK b : b = base
  OBVIOUS
<1>2. b = [m \in Markers |-> b[m]] /\ (\A m \in Markers : b[m] \in {None, markers[m]})
      /\ b["fuel"] = markers["fuel"]
  BY <1>1 DEF Markers
<1>3. markers' = IF how = "ok" THEN b ELSE [m \in Markers |-> IF m \in {"last", how} THEN s ELSE b[m]]
  BY <1>1 DEF Marked
<1> HIDE DEF base
<1>4. CASE how = "ok"
  BY <1>2, <1>3, <1>4
<1>5. CASE how # "ok"
  <2>1. \A m \in Markers : markers'[m] = IF m \in {"last", how} THEN s ELSE b[m]
    BY <1>3, <1>5
  <2>2. markers' = [m \in Markers |-> markers'[m]]
    BY <1>3, <1>5
  <2>3. how = "cancelled" => markers'["cancelled"] = s /\ markers'["fuel"] = markers["fuel"]
    BY <1>2, <2>1 DEF Markers
  <2> QED BY <1>2, <1>5, <2>1, <2>2, <2>3
<1> QED BY <1>4, <1>5

Bodies == {"ok", "badmeta"} \cup Failures

LEMMA RunBodyKeeps ==
  ASSUME ControlInv, NEW how \in Bodies, NEW n, RunBody(how, n)
  PROVE  ControlInv'
<1>s. PICK s : s = Current
  OBVIOUS
<1>1. /\ StackInv /\ ScopeInv /\ FlowInv
      /\ ctl = "go" /\ ret = None /\ Top.at \in 1..Len(Top.list) /\ s # None
      /\ stopped \notin {"cancelled", "budget", "return"} /\ (NoneFailed => Clean)
      /\ Len(stack) = 1 => Clean
  BY <1>s, StartFacts DEF RunBody, Starts, ControlInv
<1>2. /\ markers' = Marked(s, how)
      /\ uncaught' = IF how = "ok" THEN uncaught ELSE Append(uncaught, Error(KindOf(how), s))
      /\ UNCHANGED <<program, stack, steps, errorStack, foreachStack, ret>>
  BY <1>s DEF RunBody
<1>u. PICK x : x = Error(KindOf(how), s)
  OBVIOUS
<1>3. x.step = s
  BY <1>u DEF Error
<1>4. IsStack(uncaught) /\ Len(uncaught) \in Nat
  BY <1>1, StackFacts DEF StackInv
<1>5. /\ IsStack(uncaught') /\ Len(uncaught) <= Len(uncaught')
      /\ \A i \in 1..Len(uncaught) : i \in 1..Len(uncaught') /\ uncaught'[i] = uncaught[i]
      /\ how # "ok" => /\ Len(uncaught') \in 1..Len(uncaught') /\ uncaught'[Len(uncaught')].step = s
                       /\ Len(uncaught') >= 1
  <2>1. CASE how = "ok"
    BY <1>2, <1>4, <2>1
  <2>2. CASE how # "ok"
    <3>1. uncaught' = Append(uncaught, x)
      BY <1>2, <1>u, <2>2
    <3>2. IsStack(Append(uncaught, x)) /\ Len(Append(uncaught, x)) = Len(uncaught) + 1
          /\ (\A i \in 1..Len(uncaught) : Append(uncaught, x)[i] = uncaught[i])
          /\ Append(uncaught, x)[Len(uncaught) + 1] = x
      BY <1>4, PushFacts
    <3> HIDE DEF Error
    <3>3. PICK l : l = Append(uncaught, x)
      OBVIOUS
    <3>4. /\ uncaught' = l /\ IsStack(l) /\ Len(l) = Len(uncaught) + 1
          /\ (\A i \in 1..Len(uncaught) : l[i] = uncaught[i]) /\ l[Len(l)] = x
      BY <3>1, <3>2, <3>3
    <3> QED BY <1>3, <1>4, <3>4
  <2> QED BY <2>1, <2>2
<1>6. /\ markers' = [m \in Markers |-> markers'[m]]
      /\ \A m \in Markers : \/ markers'[m] \in {None, markers[m]}
                            \/ how # "ok" /\ markers'[m] = s
      /\ how = "cancelled" => markers'["cancelled"] = s /\ markers'["fuel"] = markers["fuel"]
  <2>1. markers = [m \in Markers |-> markers[m]]
    BY <1>1 DEF FlowInv
  <2> QED BY <1>2, <2>1, MarkedFacts
<1>7. StackInv' /\ ScopeInv' /\ (NoneFailed' <=> NoneFailed)
  BY <1>1, <1>2, <1>5, StayKeeps
<1>8. Blamable'
  <2>1. Blamable
    BY <1>1 DEF FlowInv
  <2>2. SUFFICES ASSUME NEW m \in Markers, markers'[m] # None
                 PROVE  \E i \in 1..Len(uncaught') : uncaught'[i].step = markers'[m]
    BY DEF Blamable
  <2>3. CASE markers'[m] = markers[m]
    <3>1. PICK i \in 1..Len(uncaught) : uncaught[i].step = markers[m]
      BY <2>1, <2>2, <2>3 DEF Blamable
    <3> QED BY <1>5, <2>3, <3>1
  <2>4. CASE how # "ok" /\ markers'[m] = s
    BY <1>5, <2>4
  <2> QED BY <1>6, <2>2, <2>3, <2>4
<1>9. CASE how = "refused"
  <2>1. ctl' = "err" /\ raised' = Error("validation", Current) /\ stopped' = stopped
    BY <1>9 DEF RunBody, Raise
  <2>2. raised' # NoError
    BY <2>1 DEF Error, NoError, None
  <2>3. FlowInv'
    BY <1>1, <1>2, <1>6, <2>1, <2>2, RaiseFlow
  <2> QED BY <1>7, <2>3 DEF ControlInv
<1>10. CASE how # "refused"
  <2>1. PICK m : m = IF how \in {"ok", "badmeta"} THEN Stored(mem, Current, n) ELSE mem
    OBVIOUS
  <2>2. PICK why : why = IF how = "cancelled" THEN "cancelled" ELSE stopped
    OBVIOUS
  <2>3. Answer(how = "ok", s, m, why)
    BY <1>10, <1>s, <2>1, <2>2 DEF RunBody
  <2>4. CASE m.tripped
    <3>1. ctl' = "err" /\ raised' = [kind |-> "budget", step |-> s] /\ stopped' = "budget"
      BY <2>3, <2>4 DEF Answer, Raise, Error
    <3>2. raised' # NoError /\ raised'.kind = "budget"
      BY <3>1 DEF NoError, Error, None
    <3>3. FlowInv'
      BY <1>1, <1>2, <1>6, <3>1, <3>2, RaiseFlow
    <3> QED BY <1>7, <3>3 DEF ControlInv
  <2>5. CASE ~m.tripped
    <3>1. ctl' = (IF how = "ok" THEN "ok" ELSE "failed") /\ stopped' = why /\ UNCHANGED raised
      BY <2>3, <2>5 DEF Answer
    <3>2. ASSUME how = "ok", NoneFailed' PROVE Clean'
      <4>1. Clean
        BY <1>1, <1>7, <3>2
      <4> QED BY <1>6, <3>2, <4>1 DEF Clean
    <3>3. ASSUME how = "cancelled" PROVE markers'["cancelled"] # None
                                         /\ (Len(stack') = 1 => markers'["fuel"] = None)
      <4>1. Len(stack) = 1 => markers["fuel"] = None
        BY <1>1 DEF Clean, Markers
      <4> QED BY <1>1, <1>2, <1>6, <3>3, <4>1
    <3>4. raised = NoError
      BY <1>1 DEF FlowInv
    <3>5. stopped' = "cancelled" => how = "cancelled"
      BY <1>1, <2>2, <3>1
    <3>6. stopped' \notin {"budget", "return"}
      BY <1>1, <2>2, <3>1
    <3>7. FlowInv'
      BY <1>5, <1>6, <1>8, <3>1, <3>2, <3>3, <3>4, <3>5, <3>6 DEF FlowInv
    <3> QED BY <1>7, <3>7 DEF ControlInv
  <2> QED BY <2>4, <2>5
<1> QED BY <1>9, <1>10

(* The frame of a construct, or of a loop about to ask for its first item. *)
Begins(g, s, part, list, count) ==
  \/ g = Frame(s, part, list)
  \/ g = [Frame(s, part, list) EXCEPT !.at = 0, !.left = count]

LEMMA FrameShape ==
  ASSUME NEW s, NEW part, NEW list, NEW count, NEW g, Begins(g, s, part, list, count)
  PROVE  /\ Shape(g) /\ g.step = s /\ g.part = part /\ g.list = list /\ g.at \in 0..1
         /\ g.offset = Len(steps) /\ g.before = Len(uncaught) /\ ~g.failed /\ g.failed \in BOOLEAN
<1> DEFINE form(at, left) ==
      [step |-> s, part |-> part, list |-> list, at |-> at, offset |-> Len(steps),
       result |-> 0, handled |-> 0, failed |-> FALSE, left |-> left, collected |-> 0,
       before |-> Len(uncaught)]
<1>1. Frame(s, part, list) = form(1, 0)
  BY DEF Frame
<1>2. PICK f : f = Frame(s, part, list)
  OBVIOUS
<1>3. g = form(1, 0) \/ g = form(0, count)
  <2>1. CASE g = f
    BY <1>1, <1>2, <2>1
  <2>2. CASE g = [f EXCEPT !.at = 0, !.left = count]
    <3>1. Shape(f) /\ f.step = s /\ f.part = part /\ f.list = list /\ f.offset = Len(steps)
          /\ f.result = 0 /\ f.handled = 0 /\ f.failed = FALSE /\ f.collected = 0
          /\ f.before = Len(uncaught)
      BY <1>1, <1>2 DEF Shape
    <3>2. g = [step |-> f.step, part |-> f.part, list |-> f.list, at |-> 0, offset |-> f.offset,
               result |-> f.result, handled |-> f.handled, failed |-> f.failed, left |-> count,
               collected |-> f.collected, before |-> f.before]
      BY <2>2, <3>1 DEF Shape
    <3> QED BY <3>1, <3>2
  <2> QED BY <1>2, <2>1, <2>2 DEF Begins
<1>4. \E at \in 0..1 : \E left : g = form(at, left)
  <2>1. 0 \in 0..1 /\ 1 \in 0..1
    OBVIOUS
  <2> HIDE DEF form
  <2> QED BY <1>3, <2>1
<1>5. PICK at \in 0..1 : \E left : g = form(at, left)
  BY <1>4
<1>6. PICK left : g = form(at, left)
  BY <1>5
<1> QED BY <1>5, <1>6 DEF Shape

LEMMA EnterAllKeep ==
  ASSUME ControlInv, NEW count, NEW then, EnterTry \/ EnterLoop(count) \/ EnterIfs(then)
  PROVE  ControlInv'
<1>s. PICK s : s = Current
  OBVIOUS
<1>1. AtStep /\ StackInv /\ ScopeInv /\ FlowInv /\ UNCHANGED <<program, ret, errorStack>> /\ Unmarked
  BY DEF ControlInv, EnterTry, EnterLoop, EnterIfs, Starts, Unmarked
<1>2. /\ ctl = "go" /\ Top.at \in 1..Len(Top.list) /\ s \in DOMAIN program.step
      /\ stopped # "cancelled" /\ (NoneFailed /\ ret = None => Clean)
  BY <1>1, <1>s, StartFacts
<1>3. WellFormed(program) /\ UNCHANGED uncaught
  <2>f. PICK f : f = Top
    OBVIOUS
  <2> QED BY <1>1, <2>f, TopFacts DEF Unmarked
<1>p. ASSUME NEW g, NEW part \in {"try", "loop", "ifs"}, NEW list \in Seq(DOMAIN program.step),
             Begins(g, s, part, list, count),
             stack' = Append(stack, g), steps' = steps \o list, ctl' = "go",
             UNCHANGED <<raised, stopped>>, part = "try" => Def(s).type = "try",
             \/ part = "loop" /\ BeginForeach(s)
             \/ part # "loop" /\ UNCHANGED foreachStack
      PROVE  ControlInv'
  <2>1. /\ Shape(g) /\ g.step = s /\ g.part = part /\ g.list = list /\ g.at \in 0..1
        /\ g.offset = Len(steps) /\ g.before = Len(uncaught) /\ ~g.failed /\ g.failed \in BOOLEAN
    BY <1>p, FrameShape
  <2>2. StackInv' /\ ScopeInv' /\ (NoneFailed' => NoneFailed)
    BY <1>1, <1>3, <1>p, <1>s, <2>1, EnterKeeps
  <2>3. ret = None /\ NoneFailed' => Clean'
    BY <1>1, <1>2, <2>2 DEF Clean, Unmarked
  <2>4. FlowInv'
    BY <1>1, <1>2, <1>p, <2>3, GoFlow
  <2> QED BY <2>2, <2>4 DEF ControlInv
<1>4. CASE EnterTry
  <2>1. PICK list : list = Def(s).try
    OBVIOUS
  <2>2. Def(s).type = "try" /\ Push(s, "try", list) /\ UNCHANGED <<raised, stopped, foreachStack>>
    BY <1>4, <1>s, <2>1 DEF EnterTry, Starts
  <2>3. list \in Seq(DOMAIN program.step)
    BY <1>2, <1>3, <2>1, <2>2 DEF WellFormed, Def
  <2>4. PICK g : g = Frame(s, "try", list)
    OBVIOUS
  <2> QED BY <1>p, <2>2, <2>3, <2>4 DEF Push, Begins
<1>5. CASE EnterLoop(count)
  <2>1. PICK list : list = Def(s).steps
    OBVIOUS
  <2>2. /\ Def(s).type = "loop" /\ UNCHANGED <<raised, stopped>> /\ ctl' = "go"
        /\ stack' = Append(stack, [Frame(s, "loop", list) EXCEPT !.at = 0, !.left = count])
        /\ steps' = steps \o list /\ BeginForeach(s)
    BY <1>5, <1>s, <2>1 DEF EnterLoop, Starts
  <2>3. list \in Seq(DOMAIN program.step)
    BY <1>2, <1>3, <2>1, <2>2 DEF WellFormed, Def
  <2>4. PICK g : g = [Frame(s, "loop", list) EXCEPT !.at = 0, !.left = count]
    OBVIOUS
  <2> QED BY <1>p, <2>2, <2>3, <2>4 DEF Begins
<1>6. CASE EnterIfs(then) /\ then # <<>>
  <2>2. Def(s).type = "ifs" /\ then \in Def(s).branches /\ Push(s, "ifs", then)
        /\ UNCHANGED <<raised, stopped, foreachStack>>
    BY <1>6, <1>s DEF EnterIfs, Starts
  <2>3. then \in Seq(DOMAIN program.step)
    BY <1>2, <1>3, <2>2 DEF WellFormed, Def
  <2>4. PICK g : g = Frame(s, "ifs", then)
    OBVIOUS
  <2> QED BY <1>p, <2>2, <2>3, <2>4 DEF Push, Begins
<1>7. CASE EnterIfs(then) /\ then = <<>>
  <2>1. PICK ok \in BOOLEAN : ok = TRUE
    OBVIOUS
  <2>2. PICK m : m = mem
    OBVIOUS
  <2>3. Answer(ok, s, m, stopped) /\ UNCHANGED <<stack, steps, foreachStack>>
    BY <1>7, <1>s, <2>1, <2>2 DEF EnterIfs
  <2>4. StackInv' /\ ScopeInv' /\ (NoneFailed' <=> NoneFailed)
    <3>1. IsStack(uncaught') /\ Len(uncaught) <= Len(uncaught')
      BY <1>1, <1>3, StackFacts DEF StackInv
    <3> QED BY <1>1, <1>2, <2>3, <3>1, StayKeeps
  <2>5. ret = None /\ NoneFailed' => Clean'
    BY <1>1, <1>2, <2>4 DEF Clean, Unmarked
  <2>6. FlowInv'
    BY <1>1, <1>2, <2>1, <2>3, <2>5, AnswerFlow
  <2> QED BY <2>4, <2>6 DEF ControlInv
<1> QED BY <1>4, <1>5, <1>6, <1>7

(* The top frame goes on within its construct.                             *)
LEMMA GoingKeeps ==
  ASSUME ControlInv, NEW g, Replace(g), SameBlock(Top, g), g.at \in 0..(Len(g.list) + 1),
         ctl \in {"go", "ok"}, ctl' = "go",
         UNCHANGED <<program, steps, markers, uncaught, errorStack, foreachStack, raised, ret, stopped>>
  PROVE  ControlInv'
<1>1. StackInv /\ ScopeInv /\ FlowInv /\ Unmarked
  BY DEF ControlInv, Unmarked
<1>2. StackInv' /\ ScopeInv' /\ (NoneFailed' => NoneFailed)
  BY <1>1, GoesKeeps
<1>3. stopped # "cancelled" /\ (ret = None /\ NoneFailed => Clean)
  BY <1>1 DEF FlowInv
<1>4. ret = None /\ NoneFailed' => Clean'
  BY <1>2, <1>3 DEF Clean
<1>5. FlowInv'
  BY <1>1, <1>3, <1>4, GoFlow
<1> QED BY <1>2, <1>5 DEF ControlInv

LEMMA StepOkKeeps ==
  ASSUME ControlInv, StepOk
  PROVE  ControlInv'
<1>f. PICK f : f = Top
  OBVIOUS
<1>1. FrameInv(program, f) /\ TopFits(f, steps, uncaught, ctl) /\ ctl = "ok"
  BY <1>f, TopFacts DEF ControlInv, StepOk
<1>2. PICK r1, r2 : Replace([f EXCEPT !.at = f.at + 1, !.result = r1, !.handled = r2])
  BY <1>f DEF StepOk
<1>3. PICK g : g = [f EXCEPT !.at = f.at + 1, !.result = r1, !.handled = r2]
  OBVIOUS
<1>4. g = [step |-> f.step, part |-> f.part, list |-> f.list, at |-> f.at + 1, offset |-> f.offset,
           result |-> r1, handled |-> r2, failed |-> f.failed, left |-> f.left,
           collected |-> f.collected, before |-> f.before]
  BY <1>1, <1>3 DEF FrameInv, Shape
<1>5. SameBlock(f, g) /\ g.at = f.at + 1 /\ g.list = f.list
  BY <1>4 DEF SameBlock, Shape
<1>6. f.at \in 1..Len(f.list) /\ Len(f.list) \in Nat
  BY <1>1 DEF TopFits, FrameInv
<1>7. g.at \in 0..(Len(g.list) + 1)
  BY <1>5, <1>6
<1>8. /\ ctl' = "go"
      /\ UNCHANGED <<program, steps, markers, uncaught, errorStack, foreachStack, raised, ret, stopped>>
  BY DEF StepOk, stateVars
<1> QED BY <1>1, <1>2, <1>3, <1>5, <1>7, <1>8, <1>f, GoingKeeps

LEMMA NextItemKeeps ==
  ASSUME ControlInv, NextItem
  PROVE  ControlInv'
<1>f. PICK f : f = Top
  OBVIOUS
<1>1. FrameInv(program, f) /\ ctl = "go"
  BY <1>f, TopFacts DEF ControlInv, NextItem
<1>2. Replace([f EXCEPT !.at = 1, !.left = f.left - 1])
  BY <1>f DEF NextItem
<1>3. PICK g : g = [f EXCEPT !.at = 1, !.left = f.left - 1]
  OBVIOUS
<1>4. g = [step |-> f.step, part |-> f.part, list |-> f.list, at |-> 1, offset |-> f.offset,
           result |-> f.result, handled |-> f.handled, failed |-> f.failed, left |-> f.left - 1,
           collected |-> f.collected, before |-> f.before]
  BY <1>1, <1>3 DEF FrameInv, Shape
<1>5. SameBlock(f, g) /\ g.at = 1 /\ g.list = f.list
  BY <1>4 DEF SameBlock, Shape
<1>6. g.at \in 0..(Len(g.list) + 1)
  BY <1>1, <1>5 DEF FrameInv
<1>7. /\ ctl' = "go"
      /\ UNCHANGED <<program, steps, markers, uncaught, errorStack, foreachStack, raised, ret, stopped>>
  BY <1>1 DEF NextItem
<1> QED BY <1>1, <1>2, <1>3, <1>5, <1>6, <1>7, <1>f, GoingKeeps

(* The stack stays and an error is raised.                                 *)
LEMMA RaisingKeeps ==
  ASSUME ControlInv, ctl \in {"go", "failed"},
         UNCHANGED <<program, stack, steps, errorStack, foreachStack, uncaught, ret>>,
         markers' = [m \in Markers |-> markers'[m]], ctl' = "err", raised' # NoError,
         \/ stopped' \in {"cancelled", "budget"} /\ raised'.kind = stopped'
         \/ stopped' = stopped /\ stopped \notin {"cancelled", "budget", "return"}
  PROVE  ControlInv'
<1>1. StackInv /\ ScopeInv /\ FlowInv /\ IsStack(uncaught) /\ Len(uncaught) \in Nat
  BY StackFacts DEF ControlInv, StackInv
<1>2. StackInv' /\ ScopeInv'
  BY <1>1, StayKeeps
<1>3. FlowInv'
  BY <1>1, RaiseFlow
<1> QED BY <1>2, <1>3 DEF ControlInv

LEMMA RaisesKeep ==
  ASSUME ControlInv, PollFindsCancel \/ FailureEscapes \/ BadCount \/ BadExpression
  PROVE  ControlInv'
<1>1. markers = [m \in Markers |-> markers[m]] /\ StackInv /\ FlowInv
  BY DEF ControlInv, FlowInv
<1>2. CASE PollFindsCancel \/ FailureEscapes
  <2>1. /\ ctl \in {"go", "failed"} /\ UNCHANGED <<program, stack, stateVars, uncaught>>
        /\ ctl' = "err" /\ raised' = Error("cancelled", Current) /\ stopped' = "cancelled"
    BY <1>2 DEF PollFindsCancel, FailureEscapes, AtStep, Raise
  <2>2. raised' # NoError /\ raised'.kind = "cancelled"
    BY <2>1 DEF Error, NoError, None
  <2> QED BY <1>1, <2>1, <2>2, RaisingKeeps DEF stateVars
<1>3. CASE BadCount
  <2>1. /\ AtStep /\ UNCHANGED <<program, stack, steps, errorStack, foreachStack, uncaught, ret>>
        /\ ctl' = "err" /\ raised' = Error("failed", Current) /\ stopped' = stopped
        /\ markers' = [markers EXCEPT !["last"] = Current]
    BY <1>3 DEF BadCount, Starts, Raise
  <2>2. raised' # NoError
    BY <2>1 DEF Error, NoError, None
  <2>3. stopped \notin {"cancelled", "budget", "return"} /\ ctl = "go"
    BY <2>1, StartFacts
  <2>4. markers' = [m \in Markers |-> markers'[m]]
    BY <1>1, <2>1
  <2> QED BY <2>1, <2>2, <2>3, <2>4, RaisingKeeps
<1>4. CASE BadExpression
  <2>1. /\ ctl = "go" /\ ret = None /\ UNCHANGED <<program, stack, stateVars, uncaught>>
        /\ ctl' = "err" /\ raised' = Error("failed", None) /\ stopped' = stopped
    BY <1>4 DEF BadExpression, Starts, AtStep, BlockDone, Raise
  <2>2. raised' # NoError
    BY <2>1 DEF Error, NoError, None
  <2>3. stopped \notin {"cancelled", "budget", "return"}
    BY <1>1, <2>1 DEF FlowInv
  <2> QED BY <1>1, <2>1, <2>2, <2>3, RaisingKeeps DEF stateVars
<1> QED BY <1>2, <1>3, <1>4

LEMMA PassEndsKeeps ==
  ASSUME ControlInv, NEW n, NEW until, PassEnds(n, until)
  PROVE  ControlInv'
<1>f. PICK f : f = Top
  OBVIOUS
<1>1. /\ FrameInv(program, f) /\ ctl = "go" /\ UNCHANGED <<program, stateVars, uncaught>>
      /\ markers = [m \in Markers |-> markers[m]]
  BY <1>f, TopFacts DEF ControlInv, FlowInv, PassEnds, BlockDone
<1>2. CASE Raise(Error("budget", Top.step), "budget") /\ UNCHANGED stack
  <2>1. ctl' = "err" /\ raised' = Error("budget", Top.step) /\ stopped' = "budget"
    BY <1>2 DEF Raise
  <2>2. raised' # NoError /\ raised'.kind = "budget"
    BY <2>1 DEF Error, NoError, None
  <2> QED BY <1>1, <1>2, <2>1, <2>2, RaisingKeeps DEF stateVars
<1>3. CASE \E more, left : /\ Replace([f EXCEPT !.at = 0, !.collected = more, !.left = left])
                           /\ UNCHANGED <<ctl, raised, stopped>>
  <2>1. PICK more, left : /\ Replace([f EXCEPT !.at = 0, !.collected = more, !.left = left])
                          /\ UNCHANGED <<ctl, raised, stopped>>
    BY <1>3
  <2>2. PICK g : g = [f EXCEPT !.at = 0, !.collected = more, !.left = left]
    OBVIOUS
  <2>3. g = [step |-> f.step, part |-> f.part, list |-> f.list, at |-> 0, offset |-> f.offset,
             result |-> f.result, handled |-> f.handled, failed |-> f.failed, left |-> left,
             collected |-> more, before |-> f.before]
    BY <1>1, <2>2 DEF FrameInv, Shape
  <2>4. SameBlock(f, g) /\ g.at = 0 /\ g.list = f.list
    BY <2>3 DEF SameBlock, Shape
  <2>5. g.at \in 0..(Len(g.list) + 1)
    BY <1>1, <2>4 DEF FrameInv
  <2> QED BY <1>1, <1>f, <2>1, <2>2, <2>4, <2>5, GoingKeeps DEF stateVars
<1> QED BY <1>2, <1>3, <1>f DEF PassEnds

LEMMA RunReturnKeeps ==
  ASSUME ControlInv, NEW n, RunReturn(n)
  PROVE  ControlInv'
<1>s. PICK s : s = Current
  OBVIOUS
<1>m. PICK m : m = Stored(mem, Current, n)
  OBVIOUS
<1>1. /\ StackInv /\ ScopeInv /\ FlowInv /\ ctl = "go" /\ s # None /\ Top.at \in 1..Len(Top.list)
      /\ stopped \notin {"cancelled", "budget", "return"}
  BY <1>s, StartFacts DEF RunReturn, Starts, ControlInv
<1>2. /\ UNCHANGED <<program, stack, steps, errorStack, foreachStack, markers, uncaught>>
      /\ ret' = s /\ Answer(TRUE, s, m, "return")
  BY <1>s, <1>m DEF RunReturn
<1>3. StackInv' /\ ScopeInv'
  <2>1. IsStack(uncaught') /\ Len(uncaught) <= Len(uncaught')
    BY <1>1, <1>2, StackFacts DEF StackInv
  <2> QED BY <1>1, <1>2, <2>1, StayKeeps
<1>4. raised = NoError /\ markers' = [k \in Markers |-> markers'[k]] /\ Blamable'
  BY <1>1, <1>2 DEF FlowInv, Blamable
<1>5. CASE m.tripped
  <2>1. ctl' = "err" /\ raised' = [kind |-> "budget", step |-> s] /\ stopped' = "budget"
    BY <1>2, <1>5 DEF Answer, Raise, Error
  <2>2. raised' # NoError /\ raised'.kind = "budget"
    BY <2>1 DEF NoError, Error, None
  <2>3. FlowInv'
    BY <1>4, <2>1, <2>2 DEF FlowInv
  <2> QED BY <1>3, <2>3 DEF ControlInv
<1>6. CASE ~m.tripped
  <2>1. ctl' = "ok" /\ stopped' = "return" /\ raised' = NoError /\ ret' # None
    BY <1>1, <1>2, <1>4, <1>6 DEF Answer
  <2>2. FlowInv'
    BY <1>4, <2>1 DEF FlowInv
  <2> QED BY <1>3, <2>2 DEF ControlInv
<1> QED BY <1>5, <1>6

LEMMA UnwindKeeps ==
  ASSUME ControlInv, Unwind
  PROVE  ControlInv'
<1>f. PICK f : f = Top
  OBVIOUS
<1>1. /\ StackInv /\ ScopeInv /\ FlowInv /\ ctl = "err" /\ ctl' = "err" /\ Top.part # "top"
      /\ stack' = Inner /\ steps' = Truncated
      /\ UNCHANGED <<program, raised, markers, ret, uncaught, stopped>>
      /\ (Top.part = "catch" => ErrorPopped) /\ (Top.part # "catch" => UNCHANGED errorStack)
  BY DEF ControlInv, Unwind, ErrorPopped
<1>2. IsStack(uncaught') /\ Top.before <= Len(uncaught')
  BY <1>1, <1>f, TopFacts DEF TopFits
<1>3. StackInv' /\ ScopeInv'
  BY <1>1, <1>2, LeaveKeeps
<1>4. FlowInv'
  BY <1>1, SameFlow
<1> QED BY <1>3, <1>4 DEF ControlInv

LEMMA IdleKeeps ==
  ASSUME ControlInv, ActionEnds \/ Cancel \/ UNCHANGED vars
  PROVE  ControlInv'
<1>1. UNCHANGED <<program, stack, ctl, raised, steps, errorStack, foreachStack, markers, ret,
                  uncaught, stopped>>
  BY DEF ActionEnds, Cancel, vars, stateVars
<1>2. StackInv /\ ScopeInv /\ FlowInv /\ Len(uncaught) \in Nat /\ IsStack(uncaught)
      /\ (ctl \in {"ok", "failed"} => Top.at \in 1..Len(Top.list))
  BY StackFacts DEF ControlInv, StackInv, TopFits
<1>3. StackInv' /\ ScopeInv' /\ (NoneFailed' <=> NoneFailed)
  <2>1. ctl' \in {"ok", "failed"} => Top.at \in 1..Len(Top.list)
    BY <1>1, <1>2
  <2>2. IsStack(uncaught') /\ Len(uncaught) <= Len(uncaught') /\ (ctl' # "err" => ctl # "err")
    BY <1>1, <1>2
  <2> QED BY <1>1, <1>2, <2>1, <2>2, StayKeeps
<1>4. FlowInv'
  BY <1>1, <1>2, <1>3, SameFlow
<1> QED BY <1>3, <1>4 DEF ControlInv

LEMMA ScopeOfNone ==
  ASSUME NEW part
  PROVE  Scope(<<>>, part) = <<>>
<1>1. IsStack(<<>>) /\ Len(<<>>) = 0
  BY EmptySeq DEF IsStack
<1>2. PICK f : f = Scopes(<<>>, part)
  OBVIOUS
<1>3. f[0] = NextScope(<<>>, part, f, 0)
  BY <1>1, <1>2, ScopesExist, ScopesStep
<1> QED BY <1>1, <1>2, <1>3 DEF Scope, NextScope

LEMMA ControlInit ==
  ASSUME Init
  PROVE  ControlInv /\ outcome = NoError
<1>f. PICK f : f = [step |-> None, part |-> "top", list |-> program.top, at |-> 1, offset |-> 0,
                    result |-> 0, handled |-> 0, failed |-> FALSE, left |-> 0, collected |-> 0,
                    before |-> 0]
  OBVIOUS
<1>1. /\ stack = <<f>> /\ steps = f.list /\ program \in Programs /\ uncaught = <<>>
      /\ ctl = "go" /\ raised = NoError /\ markers = NoMarkers /\ ret = None /\ stopped = None
      /\ errorStack = <<>> /\ foreachStack = <<>> /\ outcome = NoError
  BY <1>f DEF Init
<1>2. f.part = "top" /\ f.list = program.top /\ f.at = 1 /\ f.offset = 0 /\ f.failed = FALSE
      /\ f.before = 0 /\ Shape(f)
  BY <1>f DEF Shape
<1>3. f.list \in Seq(DOMAIN program.step)
  BY <1>1, <1>2, ControlAssumption DEF WellFormed
<1>4. Len(f.list) \in Nat /\ IsStack(steps) /\ IsStack(uncaught) /\ Len(uncaught) = 0
  BY <1>1, <1>3, EmptySeq DEF IsStack
<1>5. IsStack(stack) /\ Len(stack) = 1 /\ stack[1] = f /\ Top = f
  <2>1. <<f>> \in Seq({f}) /\ Len(<<f>>) = 1 /\ <<f>>[1] = f
    OBVIOUS
  <2> QED BY <1>1, <2>1 DEF IsStack, Top
<1>6. FrameInv(program, f)
  <2>1. f.failed \in BOOLEAN /\ ~f.failed
    BY <1>2
  <2>2. f.at \in 0..(Len(f.list) + 1) /\ f.offset \in Nat /\ f.before \in Nat
    BY <1>2, <1>4
  <2> QED BY <1>2, <1>3, <2>1, <2>2 DEF FrameInv, Parts
<1>7. Lies(f, steps)
  BY <1>1, <1>2, <1>4 DEF Lies
<1>8. TopFits(f, steps, uncaught, ctl)
  BY <1>1, <1>2, <1>4 DEF TopFits
<1>9. StackInv
  BY <1>1, <1>2, <1>4, <1>5, <1>6, <1>7, <1>8 DEF StackInv
<1>10. ScopeInv
  <2>1. <<f>> = Append(<<>>, f) /\ IsStack(<<>>)
    BY EmptySeq DEF IsStack
  <2>2. \A p : Scope(Append(<<>>, f), p) = IF f.part = p THEN Append(Scope(<<>>, p), f.step)
                                          ELSE Scope(<<>>, p)
    BY <2>1, ScopeOfPush
  <2>3. Scope(stack, "catch") = <<>> /\ Scope(stack, "loop") = <<>>
    BY <1>1, <1>2, <2>1, <2>2, ScopeOfNone
  <2> QED BY <1>1, <2>3 DEF ScopeInv
<1>11. FlowInv
  BY <1>1 DEF FlowInv, NoMarkers, Blamable, Clean, None
<1> QED BY <1>1, <1>9, <1>10, <1>11 DEF ControlInv

LEMMA ControlStep ==
  ASSUME ControlInv, [Next]_vars
  PROVE  ControlInv'
<1>1. ASSUME NEW n \in Sizes, RunBody("ok", n) \/ RunBody("badmeta", n) PROVE ControlInv'
  <2>1. "ok" \in Bodies /\ "badmeta" \in Bodies
    BY DEF Bodies
  <2> QED BY <1>1, <2>1, RunBodyKeeps
<1>2. ASSUME NEW n \in Sizes, RunReturn(n) PROVE ControlInv'
  BY <1>2, RunReturnKeeps
<1>3. ASSUME NEW how \in Failures, RunBody(how, 0) PROVE ControlInv'
  <2>1. how \in Bodies
    BY DEF Bodies
  <2> QED BY <1>3, <2>1, RunBodyKeeps
<1>4. CASE PollFindsCancel \/ FailureEscapes \/ BadCount \/ BadExpression
  BY <1>4, RaisesKeep
<1>5. CASE StepOk
  BY <1>5, StepOkKeeps
<1>6. CASE Unwind
  BY <1>6, UnwindKeeps
<1>7. CASE TryEnds
  BY <1>7, TryEndsKeeps
<1>8. CASE CatchEnds
  BY <1>8, CatchEndsKeeps
<1>9. CASE FinallyEnds
  BY <1>9, FinallyEndsKeeps
<1>10. CASE LoopEnds \/ LoopFails \/ IfsEnds
  BY <1>10, LoopAndIfsKeep
<1>11. ASSUME EnterTry \/ (\E count : EnterLoop(count)) \/ (\E then : EnterIfs(then)) PROVE ControlInv'
  <2>1. PICK count, then : EnterTry \/ EnterLoop(count) \/ EnterIfs(then)
    BY <1>11
  <2> QED BY <2>1, EnterAllKeep
<1>12. CASE NextItem
  BY <1>12, NextItemKeeps
<1>13. ASSUME NEW n, NEW until, PassEnds(n, until) PROVE ControlInv'
  BY <1>13, PassEndsKeeps
<1>14. CASE ActionEnds \/ Cancel \/ UNCHANGED vars
  BY <1>14, IdleKeeps
<1> QED BY <1>1, <1>2, <1>3, <1>4, <1>5, <1>6, <1>7, <1>8, <1>9, <1>10, <1>11, <1>12, <1>13, <1>14
        DEF Next

THEOREM ControlInvariant == Spec => []ControlInv
<1>1. Init => ControlInv
  BY ControlInit
<1>2. ControlInv /\ [Next]_vars => ControlInv'
  BY ControlStep
<1> QED BY <1>1, <1>2, PTL DEF Spec

-----------------------------------------------------------------------------
(* The properties.                                                         *)

(* Every construct finds action.steps and the error and foreach stacks as  *)
(* it left them, however its inner steps ended: run_try, run_iteration and *)
(* run_ifs truncate and pop on each of their ways out.                     *)
THEOREM ScopesAreKept == Spec => []ScopesMatch
<1>1. ControlInv => ScopesMatch
  <2> SUFFICES ASSUME ControlInv PROVE ScopesMatch
    OBVIOUS
  <2>n. PICK n : n = Len(stack)
    OBVIOUS
  <2>1. n \in Nat /\ DOMAIN stack = 1..n /\ StackInv /\ ScopeInv
    BY <2>n, InnerFacts DEF ControlInv
  <2>2. ASSUME NEW k \in 1..n
        PROVE  SubSeq(steps, stack[k].offset + 1, stack[k].offset + Len(stack[k].list)) = stack[k].list
    <3>1. FrameInv(program, stack[k]) /\ Lies(stack[k], steps) /\ IsStack(steps)
      BY <2>n, <2>1 DEF StackInv
    <3>o. PICK o : o = stack[k].offset
      OBVIOUS
    <3>l. PICK l : l = stack[k].list
      OBVIOUS
    <3>m. PICK m : m = Len(l)
      OBVIOUS
    <3>2. o \in Nat /\ m \in Nat /\ IsStack(l)
      BY <3>1, <3>o, <3>l, <3>m DEF FrameInv, IsStack
    <3>3. o + m <= Len(steps) /\ \A i \in 1..m : steps[o + i] = l[i]
      BY <3>1, <3>o, <3>l, <3>m DEF Lies
    <3>s. PICK s : s = SubSeq(steps, o + 1, o + m)
      OBVIOUS
    <3>4. IsStack(s) /\ Len(s) = m /\ \A i \in 1..m : s[i] = steps[o + i]
      BY <3>1, <3>2, <3>3, <3>s, SliceFacts
    <3>5. s = l
      BY <3>2, <3>3, <3>4, <3>m, SameStack
    <3> QED BY <3>5, <3>s, <3>o, <3>l, <3>m
  <2>3. Len(steps) = Top.offset + Len(Top.list)
    BY <2>1 DEF StackInv, TopFits
  <2> QED BY <2>1, <2>2, <2>3 DEF ScopesMatch, ScopeInv
<1> QED BY <1>1, ControlInvariant, PTL

(* What the action ends with.                                              *)
EndInv == RecoveredNeverBlamed /\ StopIsFinal

LEMMA EndFits ==
  ASSUME ControlInv, ActionEnds
  PROVE  EndInv'
<1>1. /\ FlowInv /\ UNCHANGED <<raised, uncaught, stopped>>
      /\ \/ ctl = "go" /\ outcome' = Error("ok", ret)
         \/ ctl = "failed" /\ outcome' = StepFailureToError
         \/ ctl = "err" /\ outcome' = raised
  BY DEF ControlInv, ActionEnds, BlockDone
<1>2. Len(stack) = 1 /\ IsStack(uncaught) /\ DOMAIN uncaught = 1..Len(uncaught)
  <2>f. PICK f : f = Top
    OBVIOUS
  <2>1. f.part = "top" /\ StackInv
    BY <2>f DEF ActionEnds, ControlInv
  <2>2. Len(stack) = 1 /\ IsStack(uncaught)
    BY <2>f, <2>1, TopFacts
  <2> QED BY <2>2, StackFacts
<1>3. CASE ctl = "go"
  <2>1. outcome'.kind = "ok" /\ stopped' \notin {"cancelled", "budget"}
    BY <1>1, <1>3 DEF FlowInv, Error
  <2> QED BY <2>1 DEF EndInv, RecoveredNeverBlamed, StopIsFinal, Markers
<1>4. CASE ctl = "err"
  <2>1. outcome' = raised /\ raised # NoError
    BY <1>1, <1>4 DEF FlowInv
  <2>2. RecoveredNeverBlamed'
    BY <1>1, <2>1 DEF RecoveredNeverBlamed
  <2>3. stopped' = stopped /\ stopped # "return" /\ (stopped \in {"cancelled", "budget"} => raised.kind = stopped)
    BY <1>1, <1>4 DEF FlowInv
  <2>4. StopIsFinal'
    BY <1>1, <2>1, <2>3 DEF StopIsFinal
  <2> QED BY <2>2, <2>4 DEF EndInv
<1>5. CASE ctl = "failed"
  <2> DEFINE order == <<"fuel", "cancelled", "callee", "thrown", "last">>
             set == {i \in 1..Len(order) : markers[order[i]] # None}
             least == CHOOSE i \in set : \A j \in set : i <= j
  <2>1. /\ Len(order) = 5 /\ order[1] = "fuel" /\ order[2] = "cancelled" /\ order[3] = "callee"
        /\ order[4] = "thrown" /\ order[5] = "last"
    OBVIOUS
  <2>2. outcome' = IF set = {} THEN Error("failed", None)
                   ELSE Error(IF order[least] = "last" THEN "failed" ELSE order[least],
                              markers[order[least]])
    BY <1>1, <1>5 DEF StepFailureToError
  <2>3. set \subseteq 1..5 /\ \A i \in set : markers[order[i]] # None
    BY <2>1
  <2>4. ASSUME set # {} PROVE least \in set /\ \A j \in set : least <= j
    <3> HIDE DEF set
    <3>1. set \subseteq Nat /\ set # {}
      BY <2>3, <2>4
    <3>2. \E i \in set : \A j \in set : i <= j
      BY <3>1, LeastOne
    <3> QED BY <3>2
  <2>5. markers["cancelled"] # None => 2 \in set
    BY <2>1
  <2>6. markers["fuel"] = None => 1 \notin set
    BY <2>1
  <2> HIDE DEF set, least
  <2>7. \A i \in set : order[i] \in Markers
    BY <2>1, <2>3 DEF Markers
  <2>8. RecoveredNeverBlamed'
    <3>1. SUFFICES ASSUME outcome'.step # None
                   PROVE  \E i \in DOMAIN uncaught' : uncaught'[i].step = outcome'.step
      BY DEF RecoveredNeverBlamed
    <3>2. set # {}
      BY <2>2, <3>1 DEF Error
    <3>m. PICK m : m = order[least]
      OBVIOUS
    <3>3. m \in Markers /\ markers[m] # None /\ outcome'.step = markers[m]
      BY <2>2, <2>3, <2>4, <2>7, <3>2, <3>m DEF Error
    <3>4. Blamable
      BY <1>1, <1>5 DEF FlowInv
    <3> QED BY <1>1, <1>2, <3>3, <3>4 DEF Blamable
  <2>9. StopIsFinal'
    <3>1. stopped # "budget"
      BY <1>1, <1>5 DEF FlowInv
    <3>2. stopped = "return" => uncaught # <<>>
      BY <1>1, <1>5, EmptySeq DEF FlowInv
    <3>3. ASSUME stopped = "cancelled" PROVE outcome'.kind = "cancelled"
      <4>1. markers["cancelled"] # None /\ markers["fuel"] = None
        BY <1>1, <1>2, <1>5, <3>3 DEF FlowInv
      <4>2. 2 \in set /\ 1 \notin set
        BY <4>1, <2>5, <2>6
      <4>3. least = 2
        <5>1. PICK l : l = least
          OBVIOUS
        <5>2. l \in set /\ l <= 2
          BY <2>4, <4>2, <5>1
        <5>3. l \in 1..5 /\ l # 1
          BY <2>3, <4>2, <5>2
        <5> QED BY <5>1, <5>2, <5>3
      <4> QED BY <2>1, <2>2, <4>2, <4>3 DEF Error
    <3> QED BY <1>1, <3>1, <3>2, <3>3 DEF StopIsFinal
  <2> QED BY <2>8, <2>9 DEF EndInv
<1> QED BY <1>1, <1>3, <1>4, <1>5

(* Every other step runs while the action does, and leaves it running.     *)
LEMMA OnlyTheEnd ==
  ASSUME Next, ~ActionEnds
  PROVE  outcome = NoError /\ outcome' = NoError
<1>1. \A how, n : RunBody(how, n) => Running /\ UNCHANGED outcome
  BY DEF RunBody, Starts, AtStep
<1>2. \A n : RunReturn(n) => Running /\ UNCHANGED outcome
  BY DEF RunReturn, Starts, AtStep
<1>3. PollFindsCancel \/ FailureEscapes \/ BadCount \/ BadExpression => Running /\ UNCHANGED outcome
  BY DEF PollFindsCancel, FailureEscapes, BadCount, BadExpression, Starts, AtStep, BlockDone
<1>4. StepOk \/ Unwind \/ EnterTry \/ NextItem \/ Cancel => Running /\ UNCHANGED outcome
  BY DEF StepOk, Unwind, EnterTry, NextItem, Cancel, Starts, AtStep
<1>5. TryEnds \/ CatchEnds \/ FinallyEnds => Running /\ UNCHANGED outcome
  BY DEF TryEnds, CatchEnds, FinallyEnds, BlockDone, BlockFailed
<1>6. LoopEnds \/ LoopFails \/ IfsEnds => Running /\ UNCHANGED outcome
  BY DEF LoopEnds, LoopFails, IfsEnds, BlockDone, BlockFailed
<1>7. \A count : EnterLoop(count) => Running /\ UNCHANGED outcome
  BY DEF EnterLoop, Starts, AtStep
<1>8. \A then : EnterIfs(then) => Running /\ UNCHANGED outcome
  BY DEF EnterIfs, Starts, AtStep
<1>9. \A n, until : PassEnds(n, until) => Running /\ UNCHANGED outcome
  BY DEF PassEnds, BlockDone
<1> QED BY <1>1, <1>2, <1>3, <1>4, <1>5, <1>6, <1>7, <1>8, <1>9 DEF Next, Running

LEMMA EndHolds == Spec => []EndInv
<1>1. Init => EndInv
  BY DEF Init, EndInv, RecoveredNeverBlamed, StopIsFinal, NoError, Error, None, Markers
<1>2. ControlInv /\ EndInv /\ [Next]_vars => EndInv'
  <2> SUFFICES ASSUME ControlInv, EndInv, [Next]_vars PROVE EndInv'
    OBVIOUS
  <2>1. CASE ActionEnds
    BY <2>1, EndFits
  <2>2. CASE Next /\ ~ActionEnds
    <3>1. outcome' = NoError
      BY <2>2, OnlyTheEnd
    <3> QED BY <3>1 DEF EndInv, RecoveredNeverBlamed, StopIsFinal, NoError, Error, None, Markers
  <2>3. CASE UNCHANGED vars
    BY <2>3 DEF EndInv, RecoveredNeverBlamed, StopIsFinal, vars
  <2> QED BY <2>1, <2>2, <2>3
<1> QED BY <1>1, <1>2, ControlInvariant, PTL DEF Spec

(* A failure that a catch has recovered from is never the action's error:  *)
(* each marker step_failure_to_error reads is cleared with the failure it  *)
(* was set for.                                                            *)
THEOREM RecoveredStaysRecovered == Spec => []RecoveredNeverBlamed
<1>1. EndInv => RecoveredNeverBlamed
  BY DEF EndInv
<1> QED BY <1>1, EndHolds, PTL

(* No handler turns a cancellation or a tripped budget into another        *)
(* outcome, and none undoes a return.                                      *)
THEOREM StopsForGood == Spec => []StopIsFinal
<1>1. EndInv => StopIsFinal
  BY DEF EndInv
<1> QED BY <1>1, EndHolds, PTL

CleanupStep ==
  \A k \in DOMAIN stack :
    /\ stack[k].part \in {"try", "catch"}
    /\ k \notin DOMAIN stack'
    /\ ctl' # "err" /\ ret = None
    => Def(stack[k].step).finally = <<>>

(* The frames of a step that takes none away are there afterwards.         *)
LEMMA NoneGoes ==
  ASSUME StackInv, IsStack(stack'), Len(stack') >= Len(stack)
  PROVE  CleanupStep
<1>1. Len(stack) \in Nat /\ Len(stack') \in Nat /\ DOMAIN stack = 1..Len(stack)
      /\ DOMAIN stack' = 1..Len(stack')
  BY StackFacts DEF StackInv
<1>2. \A k \in DOMAIN stack : k \in DOMAIN stack'
  BY <1>1
<1> QED BY <1>2 DEF CleanupStep

LEMMA Replaced ==
  ASSUME StackInv, NEW g, Replace(g)
  PROVE  CleanupStep
<1>n. PICK n : n = Len(stack)
  OBVIOUS
<1>1. n \in Nat /\ IsStack(Inner) /\ Len(Inner) = n - 1
  BY <1>n, InnerFacts
<1>2. IsStack(Append(Inner, g)) /\ Len(Append(Inner, g)) = Len(Inner) + 1
  BY <1>1, PushFacts
<1>3. IsStack(stack') /\ Len(stack') >= n
  BY <1>1, <1>2 DEF Replace
<1> QED BY <1>3, <1>n, NoneGoes

LEMMA Pushed ==
  ASSUME StackInv, NEW g, stack' = Append(stack, g)
  PROVE  CleanupStep
<1>1. IsStack(stack') /\ Len(stack') = Len(stack) + 1 /\ Len(stack) \in Nat
  BY PushFacts, StackFacts DEF StackInv
<1>2. Len(stack') >= Len(stack)
  BY <1>1
<1> QED BY <1>1, <1>2, NoneGoes

LEMMA Stayed ==
  ASSUME StackInv, UNCHANGED stack
  PROVE  CleanupStep
BY StackFacts DEF CleanupStep, StackInv

(* Only the top frame goes.                                                *)
LEMMA Popped ==
  ASSUME StackInv, stack' = Inner,
         Top.part \in {"try", "catch"} /\ ctl' # "err" /\ ret = None => Def(Top.step).finally = <<>>
  PROVE  CleanupStep
<1>n. PICK n : n = Len(stack)
  OBVIOUS
<1>1. n \in Nat /\ n >= 1 /\ DOMAIN stack = 1..n /\ Top = stack[n] /\ IsStack(Inner)
      /\ Len(Inner) = n - 1
  BY <1>n, InnerFacts
<1>2. DOMAIN stack' = 1..(n - 1)
  BY <1>1, StackFacts
<1>3. \A k \in DOMAIN stack : k \notin DOMAIN stack' => k = n
  BY <1>1, <1>2
<1> QED BY <1>1, <1>3 DEF CleanupStep

LEMMA Cleans ==
  ASSUME StackInv, NEW failed, Cleanup(failed), UNCHANGED ret
  PROVE  CleanupStep
<1>1. CASE Compose(failed) /\ (Def(Top.step).finally = <<>> \/ ret # None)
  <2>1. stack' = Inner
    BY <1>1 DEF Compose, Leave
  <2> QED BY <1>1, <2>1, Popped
<1>2. CASE \E list : SwitchTo("finally", list, failed)
  <2>1. \E g : Replace(g)
    BY <1>2 DEF SwitchTo
  <2>2. PICK g : Replace(g)
    BY <2>1
  <2> QED BY <2>2, Replaced
<1> QED BY <1>1, <1>2 DEF Cleanup

LEMMA TryEndsCleans ==
  ASSUME StackInv, TryEnds
  PROVE  CleanupStep
<1>1. UNCHANGED ret
  BY DEF TryEnds
<1>2. CASE ret # None /\ Leave(TRUE, mem)
  BY <1>2, Popped DEF Leave
<1>3. CASE \E failed : Cleanup(failed)
  <2>1. PICK failed : Cleanup(failed)
    BY <1>3
  <2> QED BY <1>1, <2>1, Cleans
<1>4. CASE \E list : SwitchTo("catch", list, FALSE)
  <2>1. \E g : Replace(g)
    BY <1>4 DEF SwitchTo
  <2>2. PICK g : Replace(g)
    BY <2>1
  <2> QED BY <2>2, Replaced
<1> QED BY <1>2, <1>3, <1>4 DEF TryEnds

LEMMA OtherEndsClean ==
  ASSUME StackInv, FinallyEnds \/ LoopEnds \/ LoopFails \/ IfsEnds \/ Unwind
  PROVE  CleanupStep
<1>1. CASE Unwind
  BY <1>1, Popped DEF Unwind
<1>2. CASE FinallyEnds
  BY <1>2, Popped DEF FinallyEnds, Compose, Leave, BlockDone, BlockFailed
<1>3. CASE LoopEnds \/ LoopFails \/ IfsEnds
  BY <1>3, Popped DEF LoopEnds, LoopFails, IfsEnds, Leave, BlockDone, BlockFailed
<1> QED BY <1>1, <1>2, <1>3

(* A try that ends by itself has run its finally, unless a return skipped  *)
(* it: no other way out of run_try's rules leaves a cleanup out.           *)
THEOREM CleanupAlwaysRuns == Spec => CleanupRuns
<1>1. ControlInv /\ [Next]_vars => [CleanupStep]_vars
  <2> SUFFICES ASSUME StackInv, Next PROVE CleanupStep
    BY DEF ControlInv
  <2>1. \A how, n : RunBody(how, n) => CleanupStep
    BY Stayed DEF RunBody
  <2>2. \A n : RunReturn(n) => CleanupStep
    BY Stayed DEF RunReturn
  <2>3. PollFindsCancel \/ FailureEscapes \/ BadCount \/ BadExpression \/ ActionEnds \/ Cancel
        => CleanupStep
    BY Stayed DEF PollFindsCancel, FailureEscapes, BadCount, BadExpression, ActionEnds, Cancel
  <2>4. StepOk \/ NextItem => CleanupStep
    <3>1. StepOk \/ NextItem => \E g : Replace(g)
      BY DEF StepOk, NextItem
    <3> QED BY <3>1, Replaced
  <2>5. EnterTry => CleanupStep
    <3>1. EnterTry => \E g : stack' = Append(stack, g)
      BY DEF EnterTry, Push
    <3> QED BY <3>1, Pushed
  <2>6. ASSUME NEW count, EnterLoop(count) PROVE CleanupStep
    <3>1. \E g : stack' = Append(stack, g)
      BY <2>6 DEF EnterLoop
    <3> QED BY <3>1, Pushed
  <2>7. ASSUME NEW then, EnterIfs(then) PROVE CleanupStep
    <3>1. UNCHANGED stack \/ \E g : stack' = Append(stack, g)
      BY <2>7 DEF EnterIfs, Push
    <3> QED BY <3>1, Pushed, Stayed
  <2>8. ASSUME NEW n, NEW until, PassEnds(n, until) PROVE CleanupStep
    <3>1. UNCHANGED stack \/ \E g : Replace(g)
      BY <2>8 DEF PassEnds
    <3> QED BY <3>1, Replaced, Stayed
  <2>9. TryEnds => CleanupStep
    BY TryEndsCleans
  <2>10. CatchEnds => CleanupStep
    <3>1. CatchEnds => UNCHANGED ret /\ \E failed : Cleanup(failed)
      BY DEF CatchEnds
    <3> QED BY <3>1, Cleans
  <2>11. FinallyEnds \/ LoopEnds \/ LoopFails \/ IfsEnds \/ Unwind => CleanupStep
    BY OtherEndsClean
  <2> QED BY <2>1, <2>2, <2>3, <2>4, <2>5, <2>6, <2>7, <2>8, <2>9, <2>10, <2>11 DEF Next
<1> QED BY <1>1, ControlInvariant, PTL DEF CleanupRuns, CleanupStep, Spec

=============================================================================
