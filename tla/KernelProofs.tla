---------------------------- MODULE KernelProofs ----------------------------
(***************************************************************************)
(* TLAPS proofs about a kernel's plugins: first for ManifestLifecycle, for *)
(* any documents, namespaces and trust, that its tables always hold what   *)
(* the registered documents declare, that a failed reload puts them back   *)
(* and that its handles are those of ManifestStore; then for Calls, for    *)
(* any such tables, any orchestrator, any secret resolver and any depth,   *)
(* that calls stay on the chain of the plugin they started from, a body    *)
(* sees the secrets of the plugin whose code it is, and nothing is         *)
(* reported cancelled that nobody asked to stop.                           *)
(***************************************************************************)
EXTENDS Calls, ManifestLifecycle, SequenceTheorems, WellFoundedInduction, TLAPS

-----------------------------------------------------------------------------
(* Lists: the elements of one at the places I, in order.                   *)

(* A set of naturals without a least element is empty.                     *)
LEMMA NoLeast ==
  ASSUME NEW bad, bad \subseteq Nat,
         \A n \in bad : \E m \in bad : m < n
  PROVE  bad = {}
<1> SUFFICES ASSUME bad # {} PROVE FALSE
  OBVIOUS
<1>1. PICK n \in bad : \A m \in bad : ~ (<<m, n>> \in OpToRel(<, Nat))
  BY NatLessThanWellFounded, WFMin
<1>2. \A m \in bad : ~ (m < n)
  BY <1>1, Zenon DEF OpToRel
<1>3. PICK m \in bad : m < n
  BY <1>1
<1> QED BY <1>2, <1>3

(* What KeptUpTo says of itself: how each prefix follows from the last.    *)
NextKept(list, I, f, n) ==
  IF n = 0 THEN <<>> ELSE IF n \in I THEN Append(f[n - 1], list[n]) ELSE f[n - 1]
IsKept(list, I, f) == f = [n \in 0..Len(list) |-> NextKept(list, I, f, n)]

(* KeptUpTo is the function its recursion describes.                       *)
LEMMA KeptExists ==
  ASSUME NEW list, NEW I, IsList(list)
  PROVE  IsKept(list, I, KeptUpTo(list, I))
<1> DEFINE Has(k) == \E f : f = [n \in 0..k |-> NextKept(list, I, f, n)]
           lacks == {k \in 0..Len(list) : ~ Has(k)}
<1>0. Len(list) \in Nat
  BY DEF IsList
<1>1. Has(0)
  <2>1. PICK f : f = [n \in 0..0 |-> <<>>]
    OBVIOUS
  <2>2. \A n \in 0..0 : NextKept(list, I, f, n) = <<>>
    BY DEF NextKept
  <2>3. f = [n \in 0..0 |-> NextKept(list, I, f, n)]
    BY <2>1, <2>2
  <2> QED BY <2>3
<1>2. ASSUME NEW k \in 1..Len(list), Has(k - 1) PROVE Has(k)
  <2>1. PICK f : f = [n \in 0..(k - 1) |-> NextKept(list, I, f, n)]
    BY <1>2
  <2> DEFINE last == IF k \in I THEN Append(f[k - 1], list[k]) ELSE f[k - 1]
  <2>2. PICK g : g = [n \in 0..k |-> IF n = k THEN last ELSE f[n]]
    OBVIOUS
  <2>3. ASSUME NEW n \in 0..k PROVE g[n] = NextKept(list, I, g, n)
    <3>1. CASE n = k
      <4>1. g[k - 1] = f[k - 1] /\ g[k] = last
        BY <1>0, <2>2
      <4> QED BY <1>0, <3>1, <4>1 DEF NextKept
    <3>2. CASE n # k
      <4>1. n \in 0..(k - 1)
        BY <1>0, <3>2
      <4>2. g[n] = f[n] /\ (n # 0 => g[n - 1] = f[n - 1])
        BY <1>0, <2>2, <4>1
      <4>3. f[n] = NextKept(list, I, f, n)
        BY <2>1, <4>1, Zenon
      <4> QED BY <4>2, <4>3 DEF NextKept
    <3> QED BY <3>1, <3>2
  <2>4. g = [n \in 0..k |-> NextKept(list, I, g, n)]
    BY <2>2, <2>3
  <2> QED BY <2>4
<1> HIDE DEF Has
<1>3. lacks = {}
  <2>1. lacks \subseteq Nat /\ \A k \in lacks : \E l \in lacks : l < k
    <3> SUFFICES ASSUME NEW k \in lacks PROVE k - 1 \in lacks /\ k - 1 < k
      BY <1>0
    <3>1. k \in 1..Len(list)
      BY <1>0, <1>1
    <3> QED BY <1>0, <3>1, <1>2
  <2> HIDE DEF lacks
  <2> QED BY <2>1, NoLeast
<1>4. Has(Len(list))
  BY <1>0, <1>3
<1>5. KeptUpTo(list, I) = CHOOSE f : f = [n \in 0..Len(list) |-> NextKept(list, I, f, n)]
  BY DEF KeptUpTo, NextKept
<1>6. \E f : f = [n \in 0..Len(list) |-> NextKept(list, I, f, n)]
  BY <1>4 DEF Has
<1> QED BY <1>5, <1>6, Zenon DEF IsKept

(* A list without repetition, and one whose elements at I are all distinct. *)
Distinct(list) == \A i, j \in DOMAIN list : list[i] = list[j] => i = j
DistinctAt(list, I) == \A i, j \in DOMAIN list \cap I : list[i] = list[j] => i = j

KeptIs(list, I, k, s) ==
  /\ s \in Seq(Members(list))
  /\ Members(s) = {list[i] : i \in (1..k) \cap I}
  /\ DistinctAt(list, I) => Distinct(s)

(* Appending adds one element, and keeps a list free of repetition when    *)
(* the element is new.                                                     *)
LEMMA AppendMembers ==
  ASSUME NEW S, NEW s \in Seq(S), NEW x
  PROVE  /\ Members(Append(s, x)) = Members(s) \cup {x}
         /\ Distinct(s) /\ x \notin Members(s) => Distinct(Append(s, x))
<1>1. PICK t : t = Append(s, x)
  OBVIOUS
<1>2. /\ DOMAIN s = 1..Len(s) /\ Len(s) \in Nat
      /\ DOMAIN t = 1..(Len(s) + 1) /\ t[Len(s) + 1] = x
      /\ \A i \in 1..Len(s) : t[i] = s[i]
  <2>1. s \in Seq(S \cup {x}) /\ x \in S \cup {x}
    BY SeqDef
  <2> QED BY <1>1, <2>1, AppendProperties
<1>3. Members(t) = Members(s) \cup {x}
  <2>1. ASSUME NEW y \in Members(t) PROVE y \in Members(s) \cup {x}
    BY <1>2 DEF Members
  <2>2. ASSUME NEW y \in Members(s) PROVE y \in Members(t)
    <3>1. PICK i \in 1..Len(s) : y = s[i]
      BY <1>2 DEF Members
    <3>2. i \in DOMAIN t /\ t[i] = y
      BY <1>2, <3>1
    <3> QED BY <3>2 DEF Members
  <2>3. x \in Members(t)
    <3>1. Len(s) + 1 \in DOMAIN t
      BY <1>2
    <3> QED BY <1>2, <3>1 DEF Members
  <2> QED BY <2>1, <2>2, <2>3
<1>4. ASSUME Distinct(s), x \notin Members(s) PROVE Distinct(t)
  <2>1. \A i \in 1..Len(s) : t[i] # x
    BY <1>2, <1>4 DEF Members
  <2> SUFFICES ASSUME NEW i \in DOMAIN t, NEW j \in DOMAIN t, t[i] = t[j] PROVE i = j
    BY DEF Distinct
  <2>2. CASE i \in 1..Len(s) /\ j \in 1..Len(s)
    BY <1>2, <1>4, <2>2 DEF Distinct
  <2>3. CASE ~(i \in 1..Len(s) /\ j \in 1..Len(s))
    BY <1>2, <2>1, <2>3
  <2> QED BY <2>2, <2>3
<1> QED BY <1>1, <1>3, <1>4

(* What Kept returns: the elements at the places I, once each if they are  *)
(* distinct there.                                                         *)
LEMMA KeptFacts ==
  ASSUME NEW list, NEW I, IsList(list)
  PROVE  KeptIs(list, I, Len(list), Kept(list, I))
<1>l. DOMAIN list = 1..Len(list) /\ Len(list) \in Nat
  BY DEF IsList
<1>f. PICK f : f = KeptUpTo(list, I)
  OBVIOUS
<1>1. f = [n \in 0..Len(list) |-> NextKept(list, I, f, n)]
  BY <1>f, KeptExists DEF IsKept
<1>2. /\ f[0] = <<>>
      /\ \A n \in 1..Len(list) : f[n] = IF n \in I THEN Append(f[n - 1], list[n]) ELSE f[n - 1]
  <2>1. \A n \in 0..Len(list) : f[n] = NextKept(list, I, f, n)
    BY <1>1, Zenon
  <2> QED BY <1>l, <2>1 DEF NextKept
<1> DEFINE bad == {n \in 0..Len(list) : ~ KeptIs(list, I, n, f[n])}
<1>3. KeptIs(list, I, 0, <<>>)
  <2>1. Members(<<>>) = {} /\ Distinct(<<>>) /\ <<>> \in Seq(Members(list))
    BY EmptySeq DEF Members, Distinct
  <2>2. (1..0) \cap I = {}
    OBVIOUS
  <2> QED BY <2>1, <2>2 DEF KeptIs
<1>4. ASSUME NEW n \in 1..Len(list), KeptIs(list, I, n - 1, f[n - 1]) PROVE KeptIs(list, I, n, f[n])
  <2>1. CASE n \notin I
    <3>1. (1..n) \cap I = (1..(n - 1)) \cap I /\ f[n] = f[n - 1]
      BY <1>l, <1>2, <2>1
    <3> QED BY <1>4, <3>1 DEF KeptIs
  <2>2. CASE n \in I
    <3>s. PICK s : s = f[n - 1]
      OBVIOUS
    <3>1. f[n] = Append(s, list[n])
      BY <1>2, <2>2, <3>s
    <3>2. s \in Seq(Members(list)) /\ list[n] \in Members(list)
      BY <1>l, <1>4, <3>s DEF KeptIs, Members
    <3>3. f[n] \in Seq(Members(list))
      BY <3>1, <3>2, AppendProperties
    <3>4. Members(f[n]) = {list[i] : i \in (1..(n - 1)) \cap I} \cup {list[n]}
      BY <1>4, <3>s, <3>1, <3>2, AppendMembers DEF KeptIs
    <3>5. (1..n) \cap I = ((1..(n - 1)) \cap I) \cup {n}
      BY <1>l, <2>2
    <3>6. Members(f[n]) = {list[i] : i \in (1..n) \cap I}
      BY <3>4, <3>5
    <3>7. ASSUME DistinctAt(list, I) PROVE Distinct(f[n])
      <4>1. list[n] \notin {list[i] : i \in (1..(n - 1)) \cap I}
        BY <1>l, <2>2, <3>7 DEF DistinctAt
      <4> QED BY <1>4, <3>s, <3>1, <3>2, <3>7, <4>1, AppendMembers DEF KeptIs
    <3> QED BY <3>3, <3>6, <3>7 DEF KeptIs
  <2> QED BY <2>1, <2>2
<1>5. bad = {}
  <2>1. bad \subseteq Nat /\ \A n \in bad : \E m \in bad : m < n
    <3> SUFFICES ASSUME NEW n \in bad PROVE n - 1 \in bad /\ n - 1 < n
      BY <1>l
    <3>1. n \in 1..Len(list)
      BY <1>l, <1>2, <1>3
    <3> QED BY <1>l, <3>1, <1>4
  <2> HIDE DEF bad
  <2> QED BY <2>1, NoLeast
<1>6. KeptIs(list, I, Len(list), f[Len(list)])
  BY <1>l, <1>5
<1> QED BY <1>f, <1>6 DEF Kept

(* Concatenation joins the elements, and two disjoint lists free of        *)
(* repetition give a third.                                                *)
LEMMA ConcatMembers ==
  ASSUME NEW s, NEW t, IsList(s), IsList(t)
  PROVE  /\ IsList(s \o t) /\ Members(s \o t) = Members(s) \cup Members(t)
         /\ Distinct(s) /\ Distinct(t) /\ Members(s) \cap Members(t) = {} => Distinct(s \o t)
<1>1. PICK u : u = s \o t
  OBVIOUS
<1> DEFINE S == Members(s) \cup Members(t)
<1>2. s \in Seq(S) /\ t \in Seq(S)
  BY SeqDef DEF IsList
<1>3. /\ DOMAIN s = 1..Len(s) /\ Len(s) \in Nat /\ DOMAIN t = 1..Len(t) /\ Len(t) \in Nat
      /\ u \in Seq(S) /\ DOMAIN u = 1..(Len(s) + Len(t)) /\ Len(u) = Len(s) + Len(t)
      /\ \A i \in 1..(Len(s) + Len(t)) : u[i] = IF i <= Len(s) THEN s[i] ELSE t[i - Len(s)]
  BY <1>1, <1>2, ConcatProperties
<1>4. Members(u) \subseteq S
  <2> SUFFICES ASSUME NEW i \in DOMAIN u PROVE u[i] \in S
    BY DEF Members
  <2>1. CASE i <= Len(s)
    BY <1>3, <2>1 DEF Members
  <2>2. CASE ~(i <= Len(s))
    <3>1. i - Len(s) \in DOMAIN t /\ u[i] = t[i - Len(s)]
      BY <1>3, <2>2
    <3> QED BY <3>1 DEF Members
  <2> QED BY <2>1, <2>2
<1>5. S \subseteq Members(u)
  <2>1. ASSUME NEW i \in DOMAIN s PROVE s[i] \in Members(u)
    <3>1. i \in DOMAIN u /\ u[i] = s[i]
      BY <1>3
    <3> QED BY <3>1 DEF Members
  <2>2. ASSUME NEW i \in DOMAIN t PROVE t[i] \in Members(u)
    <3>1. i + Len(s) \in DOMAIN u /\ u[i + Len(s)] = t[i]
      BY <1>3
    <3> QED BY <3>1 DEF Members
  <2> QED BY <2>1, <2>2 DEF Members
<1>6. ASSUME Distinct(s), Distinct(t), Members(s) \cap Members(t) = {} PROVE Distinct(u)
  <2> SUFFICES ASSUME NEW i \in DOMAIN u, NEW j \in DOMAIN u, u[i] = u[j] PROVE i = j
    BY DEF Distinct
  <2>1. CASE i <= Len(s) /\ j <= Len(s)
    BY <1>3, <1>6, <2>1 DEF Distinct
  <2>2. CASE i > Len(s) /\ j > Len(s)
    <3>0. u[i] = t[i - Len(s)] /\ u[j] = t[j - Len(s)]
      BY <1>3, <2>2
    <3>1. i - Len(s) \in 1..Len(t) /\ j - Len(s) \in 1..Len(t)
      BY <1>3, <2>2
    <3>9. i - Len(s) \in DOMAIN t /\ j - Len(s) \in DOMAIN t /\ t[i - Len(s)] = t[j - Len(s)]
      BY <1>3, <3>0, <3>1
    <3>2. i - Len(s) = j - Len(s)
      BY <1>6, <3>9 DEF Distinct
    <3> QED BY <1>3, <3>2
  <2>3. \A a \in DOMAIN u, b \in DOMAIN u : a <= Len(s) /\ b > Len(s) => u[a] # u[b]
    <3> SUFFICES ASSUME NEW a \in DOMAIN u, NEW b \in DOMAIN u, a <= Len(s), b > Len(s) PROVE u[a] # u[b]
      OBVIOUS
    <3>1. a \in DOMAIN s /\ u[a] = s[a] /\ b - Len(s) \in DOMAIN t /\ u[b] = t[b - Len(s)]
      BY <1>3
    <3>2. u[a] \in Members(s) /\ u[b] \in Members(t)
      BY <3>1 DEF Members
    <3> QED BY <1>6, <3>2
  <2> QED BY <1>3, <2>1, <2>2, <2>3
<1>7. Members(u) = S /\ IsList(u)
  BY <1>3, <1>4, <1>5 DEF IsList
<1> QED BY <1>1, <1>6, <1>7

(* The places where an element is first met hold every element, once.      *)
LEMMA FirstsFacts ==
  ASSUME NEW list, IsList(list)
  PROVE  /\ \A i \in DOMAIN list : \E j \in Firsts(list) : list[j] = list[i]
         /\ DistinctAt(list, Firsts(list))
<1>1. DOMAIN list = 1..Len(list) /\ Len(list) \in Nat
  BY DEF IsList
<1>2. ASSUME NEW i \in DOMAIN list PROVE \E j \in Firsts(list) : list[j] = list[i]
  <2> DEFINE same == {j \in DOMAIN list : list[j] = list[i]}
  <2> SUFFICES ASSUME \A j \in same : \E k \in same : k < j PROVE FALSE
    BY <1>1 DEF Firsts
  <2>1. same \subseteq Nat /\ i \in same
    BY <1>1
  <2> HIDE DEF same
  <2> QED BY <2>1, NoLeast
<1>3. DistinctAt(list, Firsts(list))
  BY <1>1 DEF DistinctAt, Firsts
<1> QED BY <1>2, <1>3

(* The same of Kept, for use below.                                        *)
LEMMA KeptList ==
  ASSUME NEW list, NEW I, IsList(list)
  PROVE  /\ IsList(Kept(list, I))
         /\ Members(Kept(list, I)) = {list[i] : i \in DOMAIN list \cap I}
         /\ DistinctAt(list, I) => Distinct(Kept(list, I))
<1>1. DOMAIN list = 1..Len(list) /\ Len(list) \in Nat
  BY DEF IsList
<1>2. PICK s : s = Kept(list, I)
  OBVIOUS
<1>3. s \in Seq(Members(list)) /\ Members(s) = {list[i] : i \in DOMAIN list \cap I}
      /\ (DistinctAt(list, I) => Distinct(s))
  BY <1>1, <1>2, KeptFacts DEF KeptIs
<1>4. DOMAIN s = 1..Len(s) /\ Len(s) \in Nat /\ s \in Seq(Members(s))
  BY <1>3, SeqDef DEF Members
<1> QED BY <1>2, <1>3, <1>4 DEF IsList

-----------------------------------------------------------------------------
(* Tables that are made of one set of entries for each plugin.             *)

Entries(e) == UNION {DOMAIN e[p] : p \in DOMAIN e}
TableIs(t, e) ==
  /\ t = [k \in Entries(e) |-> t[k]]
  /\ \A p \in DOMAIN e : \A k \in DOMAIN e[p] : t[k] = e[p][k]
  /\ \A p, q \in DOMAIN e : p # q => DOMAIN e[p] \cap DOMAIN e[q] = {}

(* A table made of such entries is determined by them.                     *)
LEMMA TableSame ==
  ASSUME NEW t, NEW u, NEW e, TableIs(t, e), TableIs(u, e)
  PROVE  t = u
<1>1. \A k \in Entries(e) : t[k] = u[k]
  BY DEF TableIs, Entries
<1> QED BY <1>1 DEF TableIs

(* f adds the entries n of plugin p to e; f is e without those of p.       *)
GrowsBy(t, e, p, n, f) ==
  /\ TableIs(t, e) /\ p \notin DOMAIN e /\ DOMAIN n \cap DOMAIN t = {}
  /\ DOMAIN f = DOMAIN e \cup {p} /\ f[p] = n /\ \A q \in DOMAIN e : f[q] = e[q]

ShrinksBy(t, e, p, f) ==
  /\ TableIs(t, e) /\ p \in DOMAIN e
  /\ DOMAIN f = DOMAIN e \ {p} /\ \A q \in DOMAIN f : f[q] = e[q]

Minus(t, K) == [k \in {x \in DOMAIN t : x \notin K} |-> t[k]]

(* Laying the entries of a new plugin over a table adds exactly those.     *)
LEMMA TableGrows ==
  ASSUME NEW t, NEW e, NEW p, NEW n, NEW f, GrowsBy(t, e, p, n, f)
  PROVE  TableIs(Over(n, t), f)
<1> USE DEF GrowsBy
<1>1. PICK u : u = Over(n, t)
  OBVIOUS
<1>2. DOMAIN t = Entries(e)
  BY DEF TableIs
<1>3. Entries(f) = DOMAIN n \cup DOMAIN t
  BY <1>2 DEF Entries
<1>4. /\ u = [k \in DOMAIN n \cup DOMAIN t |-> u[k]]
      /\ \A k \in DOMAIN n : u[k] = n[k]
      /\ \A k \in DOMAIN t : u[k] = t[k]
  BY <1>1 DEF Over
<1>5. ASSUME NEW q \in DOMAIN f, NEW k \in DOMAIN f[q] PROVE u[k] = f[q][k]
  <2>1. CASE q = p
    BY <1>4, <2>1
  <2>2. CASE q # p
    <3>1. k \in DOMAIN t /\ t[k] = e[q][k] /\ f[q] = e[q]
      BY <1>2, <2>2 DEF Entries, TableIs
    <3> QED BY <1>4, <3>1
  <2> QED BY <2>1, <2>2
<1>6. ASSUME NEW q \in DOMAIN f, NEW o \in DOMAIN f, q # o PROVE DOMAIN f[q] \cap DOMAIN f[o] = {}
  <2>1. \A x \in DOMAIN e : DOMAIN e[x] \subseteq DOMAIN t
    BY <1>2 DEF Entries
  <2> QED BY <1>6, <2>1 DEF TableIs
<1> QED BY <1>1, <1>3, <1>4, <1>5, <1>6 DEF TableIs

(* Taking the entries of a plugin out of a table leaves those of the       *)
(* others.                                                                 *)
LEMMA TableShrinks ==
  ASSUME NEW t, NEW e, NEW p, NEW f, ShrinksBy(t, e, p, f)
  PROVE  TableIs(Minus(t, DOMAIN e[p]), f)
<1> USE DEF ShrinksBy
<1>1. PICK u : u = [k \in {x \in DOMAIN t : x \notin DOMAIN e[p]} |-> t[k]]
  OBVIOUS
<1>2. DOMAIN t = Entries(e)
  BY DEF TableIs
<1>3. Entries(f) = {x \in DOMAIN t : x \notin DOMAIN e[p]}
  BY <1>2 DEF Entries, TableIs
<1>4. u = [k \in Entries(f) |-> u[k]] /\ \A k \in Entries(f) : u[k] = t[k]
  BY <1>1, <1>3
<1>5. ASSUME NEW q \in DOMAIN f, NEW k \in DOMAIN f[q] PROVE u[k] = f[q][k]
  BY <1>4 DEF Entries, TableIs
<1>6. \A q, o \in DOMAIN f : q # o => DOMAIN f[q] \cap DOMAIN f[o] = {}
  BY DEF TableIs
<1>7. TableIs(u, f)
  BY <1>4, <1>5, <1>6 DEF TableIs
<1> QED BY <1>1, <1>7 DEF Minus

(* Entries that name their plugin.                                         *)
LEMMA TableOwners ==
  ASSUME NEW t, NEW e, TableIs(t, e),
         \A q \in DOMAIN e : \A k \in DOMAIN e[q] : e[q][k][1] = q,
         NEW p \in DOMAIN e
  PROVE  [k \in {x \in DOMAIN t : t[x][1] # p} |-> t[k]] = Minus(t, DOMAIN e[p])
<1> USE DEF Minus
<1> SUFFICES ASSUME NEW x \in DOMAIN t PROVE t[x][1] = p <=> x \in DOMAIN e[p]
  OBVIOUS
<1>1. DOMAIN t = Entries(e)
  BY DEF TableIs
<1>2. PICK q \in DOMAIN e : x \in DOMAIN e[q]
  BY <1>1 DEF Entries
<1>3. t[x][1] = q
  BY <1>2 DEF TableIs
<1>4. ASSUME x \in DOMAIN e[p] PROVE t[x][1] = p
  BY <1>4 DEF TableIs
<1> QED BY <1>2, <1>3, <1>4

-----------------------------------------------------------------------------
(* The tables of a kernel, from the documents m of its plugins.            *)

Fields == {"manifests", "actions", "roles", "subscriptions", "aliases", "permissions", "wasm", "defs",
           "impls", "edges", "importOwners", "imports"}

AliasTables(m) == [p \in DOMAIN m |-> AliasEntries(p, m[p])]
DefTables(m) == [p \in DOMAIN m |-> DefEntries(p, m[p])]
ImplTables(m) == [p \in DOMAIN m |-> ImplEntries(p, m[p])]
OwnerTables(m) == [p \in DOMAIN m |-> OwnerEntries(p, m[p])]
BodyTables(m) == [p \in DOMAIN m |-> LinkBodies(p, m[p])]
GrantTables(m) == [p \in DOMAIN m |-> [k \in {p} |-> ParseManifestPermissions(m[p].permissions)]]

ActionPairs(m) == UNION {{<<p, a>> : a \in DOMAIN m[p].actions} : p \in DOMAIN m}
ModulePairs(m) == UNION {{<<p, w>> : w \in DOMAIN m[p].modules} : p \in DOMAIN m}
Subscribed(p, list) == {<<list[i][1], <<p, list[i][2]>>>> : i \in DOMAIN list}
SubscribedPairs(m) == UNION {Subscribed(p, m[p].subscribes) : p \in DOMAIN m}
LiteralEdges(m) == UNION {LiteralInvokes(p, m[p]) : p \in DOMAIN m}

Identities == Seq(WellFormed) \ {<<>>}

TablesInv(r) ==
  /\ DOMAIN r = Fields
  /\ r.manifests = [p \in DOMAIN r.manifests |-> r.manifests[p]]
  /\ r.actions = ActionPairs(r.manifests)
  /\ r.wasm = ModulePairs(r.manifests)
  /\ TableIs(r.aliases, AliasTables(r.manifests))
  /\ TableIs(r.defs, DefTables(r.manifests))
  /\ TableIs(r.impls, ImplTables(r.manifests))
  /\ TableIs(r.importOwners, OwnerTables(r.manifests))
  /\ TableIs(r.imports, BodyTables(r.manifests))
  /\ TableIs(r.permissions, GrantTables(r.manifests))

RoleLists(roles, P) ==
  \A k \in DOMAIN roles :
    IsList(roles[k]) /\ Distinct(roles[k]) /\ Members(roles[k]) # {} /\ Members(roles[k]) \subseteq P

AreLists(lists) == \A e \in DOMAIN lists : IsList(lists[e])

ListsInv(r) ==
  /\ AreLists(r.subscriptions)
  /\ Pairs(r.subscriptions) = SubscribedPairs(r.manifests)
  /\ RoleLists(r.roles, DOMAIN r.manifests)

(* Every plugin has a valid identity, every body is its plugin's own step  *)
(* type's or a trusted provider's, and the edges hold every `invoke' that  *)
(* names its callee.                                                       *)
RulesInv(r) ==
  /\ \A p \in DOMAIN r.manifests :
       /\ p \in Identities
       /\ r.manifests[p] \in AllDocuments
       /\ \A impl \in Members(r.manifests[p].impls) :
            p \in TrustedProviders \/ DefinesLocally(r.manifests[p], impl.type)
  /\ LiteralEdges(r.manifests) \subseteq r.edges
  /\ Acyclic(r.edges)

RegInv(r) == TablesInv(r) /\ ListsInv(r) /\ RulesInv(r)

(* The written name of a step type can be read off its key.                *)
LEMMA KeyNames ==
  \A p, n : StepTypeKey(p, n)[2] = n
BY DEF StepTypeKey

(* What an entry is keyed by, and whose it is.                             *)
LEMMA EntriesFacts ==
  ASSUME NEW p, NEW doc
  PROVE  /\ DOMAIN AliasEntries(p, doc) = {StepTypeKey(p, n) : n \in DOMAIN doc.aliases}
         /\ DOMAIN DefEntries(p, doc) = {StepTypeKey(p, d.name) : d \in Members(doc.defs)}
         /\ DOMAIN ImplEntries(p, doc) =
              {<<StepTypeKey(p, impl.type), impl.selector>> :
                 impl \in {x \in Members(doc.impls) : x.kind = "wasm"}}
         /\ DOMAIN OwnerEntries(p, doc) = LinkedKeys(p, doc)
         /\ DOMAIN LinkBodies(p, doc) = LinkedKeys(p, doc)
         /\ \A k \in DOMAIN AliasEntries(p, doc) : AliasEntries(p, doc)[k][1] = p
         /\ \A k \in DOMAIN DefEntries(p, doc) : DefEntries(p, doc)[k][1] = p
         /\ \A k \in DOMAIN ImplEntries(p, doc) : ImplEntries(p, doc)[k][1] = p
         /\ \A k \in DOMAIN OwnerEntries(p, doc) : OwnerEntries(p, doc)[k] = p
<1>1. /\ DOMAIN AliasEntries(p, doc) = {StepTypeKey(p, n) : n \in DOMAIN doc.aliases}
      /\ \A k \in DOMAIN AliasEntries(p, doc) : AliasEntries(p, doc)[k][1] = p
  BY DEF AliasEntries
<1>2. /\ DOMAIN DefEntries(p, doc) = {StepTypeKey(p, d.name) : d \in Members(doc.defs)}
      /\ \A k \in DOMAIN DefEntries(p, doc) : DefEntries(p, doc)[k][1] = p
  BY DEF DefEntries
<1>3. /\ DOMAIN ImplEntries(p, doc) =
           {<<StepTypeKey(p, impl.type), impl.selector>> :
              impl \in {x \in Members(doc.impls) : x.kind = "wasm"}}
      /\ \A k \in DOMAIN ImplEntries(p, doc) : ImplEntries(p, doc)[k][1] = p
  BY DEF ImplEntries
<1>4. /\ DOMAIN OwnerEntries(p, doc) = LinkedKeys(p, doc)
      /\ \A k \in DOMAIN OwnerEntries(p, doc) : OwnerEntries(p, doc)[k] = p
  BY DEF OwnerEntries
<1>5. DOMAIN LinkBodies(p, doc) = LinkedKeys(p, doc)
  BY DEF LinkBodies
<1> QED BY <1>1, <1>2, <1>3, <1>4, <1>5

(* The entries each table has for one plugin.                              *)
LEMMA TablesFacts ==
  ASSUME NEW m, NEW q \in DOMAIN m
  PROVE  /\ \A k \in DOMAIN AliasTables(m)[q] : AliasTables(m)[q][k][1] = q
         /\ \A k \in DOMAIN DefTables(m)[q] : DefTables(m)[q][k][1] = q
         /\ \A k \in DOMAIN ImplTables(m)[q] : ImplTables(m)[q][k][1] = q
         /\ \A k \in DOMAIN OwnerTables(m)[q] : OwnerTables(m)[q][k] = q
         /\ DOMAIN OwnerTables(m)[q] = LinkedKeys(q, m[q])
         /\ DOMAIN BodyTables(m)[q] = LinkedKeys(q, m[q])
<1>d. PICK doc : doc = m[q]
  OBVIOUS
<1>1. /\ AliasTables(m)[q] = AliasEntries(q, doc) /\ DefTables(m)[q] = DefEntries(q, doc)
      /\ ImplTables(m)[q] = ImplEntries(q, doc) /\ OwnerTables(m)[q] = OwnerEntries(q, doc)
      /\ BodyTables(m)[q] = LinkBodies(q, doc)
  BY <1>d DEF AliasTables, DefTables, ImplTables, OwnerTables, BodyTables
<1>2. /\ \A k \in DOMAIN AliasEntries(q, doc) : AliasEntries(q, doc)[k][1] = q
      /\ \A k \in DOMAIN DefEntries(q, doc) : DefEntries(q, doc)[k][1] = q
      /\ \A k \in DOMAIN ImplEntries(q, doc) : ImplEntries(q, doc)[k][1] = q
      /\ \A k \in DOMAIN OwnerEntries(q, doc) : OwnerEntries(q, doc)[k] = q
      /\ DOMAIN OwnerEntries(q, doc) = LinkedKeys(q, doc)
      /\ DOMAIN LinkBodies(q, doc) = LinkedKeys(q, doc)
  BY EntriesFacts, Zenon
<1> QED BY <1>d, <1>1, <1>2, Zenon

(* The commit of register_plugin_in_as, table by table.                    *)
LEMMA RegisteredFields ==
  ASSUME NEW r, DOMAIN r = Fields, NEW s, NEW ns, NEW doc, NEW id, id = Qualify(ns, doc.name),
         NEW n, n = Registered(r, s, ns, doc)
  PROVE  /\ DOMAIN n = Fields
         /\ n.manifests = Put(r.manifests, id, doc)
         /\ n.actions = r.actions \cup {<<id, a>> : a \in DOMAIN doc.actions}
         /\ n.roles = RegisterRoles(r.roles, id, RoleKeysFor(s, ns, doc.roles))
         /\ n.subscriptions = RegisterSubscriptions(r.subscriptions, id, doc.subscribes)
         /\ n.aliases = Over(AliasEntries(id, doc), r.aliases)
         /\ n.permissions = Put(r.permissions, id, ParseManifestPermissions(doc.permissions))
         /\ n.wasm = r.wasm \cup {<<id, m>> : m \in DOMAIN doc.modules}
         /\ n.defs = Over(DefEntries(id, doc), r.defs)
         /\ n.impls = Over(ImplEntries(id, doc), r.impls)
         /\ n.edges = r.edges \cup NewEdges(r, id, doc)
         /\ n.importOwners = Over(OwnerEntries(id, doc), r.importOwners)
         /\ n.imports = Over(LinkBodies(id, doc), r.imports)
BY DEF Registered, Fields

(* The tables without plugin p, as unregister_plugin and                   *)
(* release_step_imports leave them.                                        *)
Released(r, p, doc) == ReleaseStepImports(UnregisterPlugin(r, p), p, doc)

InstalledBy(r, p, doc) ==
  {k \in DOMAIN r.importOwners : r.importOwners[k] = p /\ k \in LinkedKeys(p, doc)}
RolesWithout(roles, p) == Prune(roles, LAMBDA x : x = p)
EventsWithout(subscriptions, p) == Prune(subscriptions, LAMBDA x : x[1] = p)

(* n is r without plugin p, table by table.                                *)
ReleasedAs(r, p, doc, n) ==
  /\ DOMAIN n = Fields
  /\ n.manifests = [k \in {x \in DOMAIN r.manifests : x # p} |-> r.manifests[k]]
  /\ n.actions = {a \in r.actions : a[1] # p}
  /\ n.roles = RolesWithout(r.roles, p)
  /\ n.subscriptions = EventsWithout(r.subscriptions, p)
  /\ n.aliases = [k \in {x \in DOMAIN r.aliases : r.aliases[x][1] # p} |-> r.aliases[k]]
  /\ n.permissions = [k \in {x \in DOMAIN r.permissions : x # p} |-> r.permissions[k]]
  /\ n.wasm = {w \in r.wasm : w[1] # p}
  /\ n.defs = [k \in {x \in DOMAIN r.defs : r.defs[x][1] # p} |-> r.defs[k]]
  /\ n.impls = [k \in {x \in DOMAIN r.impls : r.impls[x][1] # p} |-> r.impls[k]]
  /\ n.edges = {e \in r.edges : e[1][1] # p}
  /\ n.importOwners = Minus(r.importOwners, InstalledBy(r, p, doc))
  /\ n.imports = Minus(r.imports, InstalledBy(r, p, doc))

(* unregister_plugin and release_step_imports, table by table.             *)
LEMMA ReleasedFields ==
  ASSUME NEW r, DOMAIN r = Fields, NEW p, NEW doc, NEW n, n = Released(r, p, doc)
  PROVE  ReleasedAs(r, p, doc, n)
<1> USE DEF ReleasedAs
<1>1. PICK u : u = UnregisterPlugin(r, p)
  OBVIOUS
<1>2. /\ DOMAIN u = Fields
      /\ u.manifests = [k \in {x \in DOMAIN r.manifests : x # p} |-> r.manifests[k]]
      /\ u.actions = {a \in r.actions : a[1] # p}
      /\ u.roles = RolesWithout(r.roles, p)
      /\ u.subscriptions = EventsWithout(r.subscriptions, p)
      /\ u.aliases = [k \in {x \in DOMAIN r.aliases : r.aliases[x][1] # p} |-> r.aliases[k]]
      /\ u.permissions = [k \in {x \in DOMAIN r.permissions : x # p} |-> r.permissions[k]]
      /\ u.wasm = {w \in r.wasm : w[1] # p}
      /\ u.defs = [k \in {x \in DOMAIN r.defs : r.defs[x][1] # p} |-> r.defs[k]]
      /\ u.impls = [k \in {x \in DOMAIN r.impls : r.impls[x][1] # p} |-> r.impls[k]]
      /\ u.edges = {e \in r.edges : e[1][1] # p}
      /\ u.importOwners = r.importOwners
      /\ u.imports = r.imports
  BY <1>1 DEF UnregisterPlugin, Without, Fields, RolesWithout, EventsWithout
<1>3. {k \in DOMAIN u.importOwners : u.importOwners[k] = p /\ \E x \in LinkedNames(doc) : k = StepTypeKey(p, x)}
        = InstalledBy(r, p, doc)
  BY <1>2 DEF LinkedKeys, InstalledBy
<1>4. n = ReleaseStepImports(u, p, doc)
  BY <1>1 DEF Released
<1> QED BY <1>2, <1>3, <1>4 DEF ReleaseStepImports, Without, Minus, Fields

(* Another document: one more plugin.                                      *)
WithDoc(m, id, doc, n) ==
  /\ DOMAIN n = DOMAIN m \cup {id} /\ n = [p \in DOMAIN n |-> n[p]]
  /\ n[id] = doc /\ \A p \in DOMAIN m : n[p] = m[p]

(* Putting in a document that was not there.                               *)
LEMMA PutFacts ==
  ASSUME NEW m, NEW id, id \notin DOMAIN m, NEW doc
  PROVE  WithDoc(m, id, doc, Put(m, id, doc))
BY DEF WithDoc, Put, Over

(* A registration adds to each table the entries of its document and       *)
(* overwrites none: the checks before the commit leave no key that is      *)
(* taken.                                                                  *)
LEMMA RegisteredTables ==
  ASSUME NEW r, TablesInv(r), NEW s, NEW ns, NEW doc, NEW own, RegisterAccepted(r, s, ns, doc, own)
  PROVE  TablesInv(Registered(r, s, ns, doc))
<1> DEFINE id == Qualify(ns, doc.name)
           m == r.manifests
<1>n. PICK n : n = Registered(r, s, ns, doc)
  OBVIOUS
<1>1. /\ id \notin DOMAIN m
      /\ AliasesAccepted(r, id, doc, own)
      /\ ImportsFree(r, id, doc)
      /\ DefsAccepted(r, id, doc)
      /\ ImplsAccepted(r, id, doc)
  BY DEF RegisterAccepted
<1>2. /\ DOMAIN n = Fields
      /\ n.manifests = Put(m, id, doc)
      /\ n.actions = r.actions \cup {<<id, a>> : a \in DOMAIN doc.actions}
      /\ n.aliases = Over(AliasEntries(id, doc), r.aliases)
      /\ n.permissions = Put(r.permissions, id, ParseManifestPermissions(doc.permissions))
      /\ n.wasm = r.wasm \cup {<<id, w>> : w \in DOMAIN doc.modules}
      /\ n.defs = Over(DefEntries(id, doc), r.defs)
      /\ n.impls = Over(ImplEntries(id, doc), r.impls)
      /\ n.importOwners = Over(OwnerEntries(id, doc), r.importOwners)
      /\ n.imports = Over(LinkBodies(id, doc), r.imports)
  BY <1>n, RegisteredFields DEF TablesInv
<1> HIDE DEF id, m
<1>3. WithDoc(m, id, doc, n.manifests)
  BY <1>1, <1>2, PutFacts
<1>p. PICK w : w = n.manifests
  OBVIOUS
<1>q. /\ DOMAIN w = DOMAIN m \cup {id} /\ w = [p \in DOMAIN w |-> w[p]]
      /\ w[id] = doc /\ \A p \in DOMAIN m : w[p] = m[p]
  BY <1>3, <1>p DEF WithDoc
<1>4. n.actions = ActionPairs(w)
  <2>1. r.actions = ActionPairs(m)
    BY DEF TablesInv, m
  <2> QED BY <1>2, <1>q, <2>1 DEF ActionPairs
<1>5. n.wasm = ModulePairs(w)
  <2>1. r.wasm = ModulePairs(m)
    BY DEF TablesInv, m
  <2> QED BY <1>2, <1>q, <2>1 DEF ModulePairs
<1>6. TableIs(n.aliases, AliasTables(w))
  <2>1. TableIs(r.aliases, AliasTables(m))
    BY DEF TablesInv, m
  <2>2. DOMAIN AliasEntries(id, doc) \cap DOMAIN r.aliases = {}
    <3>1. \A x \in DOMAIN doc.aliases : StepTypeKey(id, x) \notin DOMAIN r.aliases
      BY <1>1 DEF AliasesAccepted
    <3>2. DOMAIN AliasEntries(id, doc) = {StepTypeKey(id, x) : x \in DOMAIN doc.aliases}
      BY EntriesFacts
    <3> QED BY <3>1, <3>2
  <2>3. /\ DOMAIN AliasTables(m) = DOMAIN m
        /\ DOMAIN AliasTables(w) = DOMAIN m \cup {id}
        /\ AliasTables(w)[id] = AliasEntries(id, doc)
        /\ \A q \in DOMAIN m : AliasTables(w)[q] = AliasTables(m)[q]
    BY <1>q DEF AliasTables
  <2>4. GrowsBy(r.aliases, AliasTables(m), id, AliasEntries(id, doc), AliasTables(w))
    BY <1>1, <2>1, <2>2, <2>3 DEF GrowsBy
  <2> QED BY <1>2, <2>4, TableGrows
<1>7. TableIs(n.defs, DefTables(w))
  <2>1. TableIs(r.defs, DefTables(m))
    BY DEF TablesInv, m
  <2>2. DOMAIN DefEntries(id, doc) \cap DOMAIN r.defs = {}
    <3>1. \A d \in Members(doc.defs) : StepTypeKey(id, d.name) \notin DOMAIN r.defs
      BY <1>1 DEF DefsAccepted, Members
    <3>2. DOMAIN DefEntries(id, doc) = {StepTypeKey(id, d.name) : d \in Members(doc.defs)}
      BY EntriesFacts
    <3> QED BY <3>1, <3>2
  <2>3. /\ DOMAIN DefTables(m) = DOMAIN m
        /\ DOMAIN DefTables(w) = DOMAIN m \cup {id}
        /\ DefTables(w)[id] = DefEntries(id, doc)
        /\ \A q \in DOMAIN m : DefTables(w)[q] = DefTables(m)[q]
    BY <1>q DEF DefTables
  <2>4. GrowsBy(r.defs, DefTables(m), id, DefEntries(id, doc), DefTables(w))
    BY <1>1, <2>1, <2>2, <2>3 DEF GrowsBy
  <2> QED BY <1>2, <2>4, TableGrows
<1>8. TableIs(n.impls, ImplTables(w))
  <2>1. TableIs(r.impls, ImplTables(m))
    BY DEF TablesInv, m
  <2>2. DOMAIN ImplEntries(id, doc) \cap DOMAIN r.impls = {}
    <3>1. \A impl \in Members(doc.impls) : BodyFound(r, id, doc, impl)
      BY <1>1 DEF ImplsAccepted, Members
    <3>2. \A impl \in Members(doc.impls) : impl.kind = "wasm" =>
            <<StepTypeKey(id, impl.type), impl.selector>> \notin DOMAIN r.impls
      BY <3>1 DEF BodyFound
    <3>3. DOMAIN ImplEntries(id, doc) =
            {<<StepTypeKey(id, impl.type), impl.selector>> :
               impl \in {x \in Members(doc.impls) : x.kind = "wasm"}}
      BY EntriesFacts
    <3> QED BY <3>2, <3>3
  <2>3. /\ DOMAIN ImplTables(m) = DOMAIN m
        /\ DOMAIN ImplTables(w) = DOMAIN m \cup {id}
        /\ ImplTables(w)[id] = ImplEntries(id, doc)
        /\ \A q \in DOMAIN m : ImplTables(w)[q] = ImplTables(m)[q]
    BY <1>q DEF ImplTables
  <2>4. GrowsBy(r.impls, ImplTables(m), id, ImplEntries(id, doc), ImplTables(w))
    BY <1>1, <2>1, <2>2, <2>3 DEF GrowsBy
  <2> QED BY <1>2, <2>4, TableGrows
<1>o. TableIs(r.importOwners, OwnerTables(m)) /\ TableIs(r.imports, BodyTables(m))
  BY DEF TablesInv, m
<1>k. LinkedKeys(id, doc) \cap DOMAIN r.importOwners = {}
  <2> SUFFICES ASSUME NEW x \in LinkedNames(doc), StepTypeKey(id, x) \in DOMAIN r.importOwners PROVE FALSE
    BY DEF LinkedKeys
  <2>1. r.importOwners[StepTypeKey(id, x)] = id
    BY <1>1 DEF ImportsFree, Get
  <2>2. PICK q \in DOMAIN m : StepTypeKey(id, x) \in DOMAIN OwnerTables(m)[q]
    BY <1>o DEF TableIs, Entries, OwnerTables
  <2>3. r.importOwners[StepTypeKey(id, x)] = q
    <3>1. OwnerTables(m)[q][StepTypeKey(id, x)] = q
      BY <2>2, TablesFacts
    <3>2. q \in DOMAIN OwnerTables(m)
      BY DEF OwnerTables
    <3> QED BY <1>o, <2>2, <3>1, <3>2 DEF TableIs
  <2> QED BY <1>1, <2>1, <2>2, <2>3
<1>9. TableIs(n.importOwners, OwnerTables(w))
  <2>3. /\ DOMAIN OwnerTables(m) = DOMAIN m
        /\ DOMAIN OwnerTables(w) = DOMAIN m \cup {id}
        /\ OwnerTables(w)[id] = OwnerEntries(id, doc)
        /\ \A q \in DOMAIN m : OwnerTables(w)[q] = OwnerTables(m)[q]
    BY <1>q DEF OwnerTables
  <2>4. DOMAIN OwnerEntries(id, doc) \cap DOMAIN r.importOwners = {}
    BY <1>k, EntriesFacts
  <2>5. GrowsBy(r.importOwners, OwnerTables(m), id, OwnerEntries(id, doc), OwnerTables(w))
    BY <1>1, <1>o, <2>3, <2>4 DEF GrowsBy
  <2> QED BY <1>2, <2>5, TableGrows
<1>10. TableIs(n.imports, BodyTables(w))
  <2>3. /\ DOMAIN BodyTables(m) = DOMAIN m
        /\ DOMAIN BodyTables(w) = DOMAIN m \cup {id}
        /\ BodyTables(w)[id] = LinkBodies(id, doc)
        /\ \A q \in DOMAIN m : BodyTables(w)[q] = BodyTables(m)[q]
    BY <1>q DEF BodyTables
  <2>4. DOMAIN r.imports = DOMAIN r.importOwners
    <3>1. \A q \in DOMAIN m : DOMAIN BodyTables(m)[q] = DOMAIN OwnerTables(m)[q]
      BY TablesFacts
    <3>2. DOMAIN BodyTables(m) = DOMAIN OwnerTables(m)
      BY DEF BodyTables, OwnerTables
    <3>3. Entries(BodyTables(m)) = Entries(OwnerTables(m))
      BY <2>3, <3>1, <3>2 DEF Entries
    <3> QED BY <1>o, <3>3 DEF TableIs
  <2>5. DOMAIN LinkBodies(id, doc) \cap DOMAIN r.imports = {}
    BY <1>k, <2>4, EntriesFacts
  <2>6. GrowsBy(r.imports, BodyTables(m), id, LinkBodies(id, doc), BodyTables(w))
    BY <1>1, <1>o, <2>3, <2>5 DEF GrowsBy
  <2> QED BY <1>2, <2>6, TableGrows
<1>11. TableIs(n.permissions, GrantTables(w))
  <2>1. TableIs(r.permissions, GrantTables(m))
    BY DEF TablesInv, m
  <2> DEFINE own1 == [k \in {id} |-> ParseManifestPermissions(doc.permissions)]
  <2>2. /\ DOMAIN GrantTables(m) = DOMAIN m
        /\ DOMAIN GrantTables(w) = DOMAIN m \cup {id}
        /\ GrantTables(w)[id] = own1
        /\ \A q \in DOMAIN m : GrantTables(w)[q] = GrantTables(m)[q]
        /\ \A q \in DOMAIN m : DOMAIN GrantTables(m)[q] = {q}
    BY <1>q DEF GrantTables
  <2>3. DOMAIN own1 \cap DOMAIN r.permissions = {}
    BY <1>1, <2>1, <2>2 DEF TableIs, Entries
  <2>4. n.permissions = Over(own1, r.permissions)
    BY <1>2 DEF Put
  <2> HIDE DEF own1
  <2>5. GrowsBy(r.permissions, GrantTables(m), id, own1, GrantTables(w))
    BY <1>1, <2>1, <2>2, <2>3 DEF GrowsBy
  <2> QED BY <2>4, <2>5, TableGrows
<1> QED BY <1>n, <1>p, <1>q, <1>2, <1>4, <1>5, <1>6, <1>7, <1>8, <1>9, <1>10, <1>11 DEF TablesInv

(* Unregistering takes out of each table the entries of the plugin and of  *)
(* nobody else.                                                            *)
LEMMA ReleasedTables ==
  ASSUME NEW r, TablesInv(r), NEW p \in DOMAIN r.manifests
  PROVE  TablesInv(Released(r, p, r.manifests[p]))
<1>m. PICK m : m = r.manifests
  OBVIOUS
<1>d. PICK doc : doc = m[p]
  OBVIOUS
<1>n. PICK n : n = Released(r, p, doc)
  OBVIOUS
<1>w. PICK w : w = [k \in {x \in DOMAIN m : x # p} |-> m[k]]
  OBVIOUS
<1>q. DOMAIN w = DOMAIN m \ {p} /\ w = [k \in DOMAIN w |-> w[k]] /\ \A k \in DOMAIN w : w[k] = m[k]
  BY <1>w
<1> DEFINE mine == InstalledBy(r, p, doc)
<1>2. /\ DOMAIN n = Fields
      /\ n.manifests = w
      /\ n.actions = {a \in r.actions : a[1] # p}
      /\ n.aliases = [k \in {x \in DOMAIN r.aliases : r.aliases[x][1] # p} |-> r.aliases[k]]
      /\ n.permissions = [k \in {x \in DOMAIN r.permissions : x # p} |-> r.permissions[k]]
      /\ n.wasm = {x \in r.wasm : x[1] # p}
      /\ n.defs = [k \in {x \in DOMAIN r.defs : r.defs[x][1] # p} |-> r.defs[k]]
      /\ n.impls = [k \in {x \in DOMAIN r.impls : r.impls[x][1] # p} |-> r.impls[k]]
      /\ n.importOwners = Minus(r.importOwners, mine)
      /\ n.imports = Minus(r.imports, mine)
  <2>1. DOMAIN r = Fields
    BY DEF TablesInv
  <2> HIDE DEF mine
  <2>3. ReleasedAs(r, p, doc, n)
    BY <1>n, <2>1, ReleasedFields
  <2> QED BY <1>m, <1>w, <2>3 DEF mine, ReleasedAs
<1> HIDE DEF mine
<1>3. p \in DOMAIN m
  BY <1>m
<1>4. n.actions = ActionPairs(w)
  <2>1. r.actions = ActionPairs(m)
    BY <1>m DEF TablesInv
  <2> QED BY <1>2, <1>q, <2>1 DEF ActionPairs
<1>5. n.wasm = ModulePairs(w)
  <2>1. r.wasm = ModulePairs(m)
    BY <1>m DEF TablesInv
  <2> QED BY <1>2, <1>q, <2>1 DEF ModulePairs
<1>6. TableIs(n.aliases, AliasTables(w))
  <2> DEFINE e == AliasTables(m)
             f == AliasTables(w)
  <2>1. TableIs(r.aliases, e)
    BY <1>m DEF TablesInv
  <2>2. /\ DOMAIN e = DOMAIN m /\ DOMAIN f = DOMAIN m \ {p}
        /\ \A q \in DOMAIN f : f[q] = e[q]
        /\ \A q \in DOMAIN e : \A k \in DOMAIN e[q] : e[q][k][1] = q
    <3>1. \A q \in DOMAIN e : \A k \in DOMAIN e[q] : e[q][k][1] = q
      <4>1. DOMAIN e = DOMAIN m
        BY DEF AliasTables
      <4> QED BY <4>1, TablesFacts
    <3> QED BY <1>q, <3>1 DEF AliasTables
  <2> HIDE DEF e, f
  <2>3. n.aliases = Minus(r.aliases, DOMAIN e[p])
    BY <1>2, <1>3, <2>1, <2>2, TableOwners
  <2>4. ShrinksBy(r.aliases, e, p, f)
    BY <1>3, <2>1, <2>2 DEF ShrinksBy
  <2> QED BY <2>3, <2>4, TableShrinks DEF f
<1>7. TableIs(n.defs, DefTables(w))
  <2> DEFINE e == DefTables(m)
             f == DefTables(w)
  <2>1. TableIs(r.defs, e)
    BY <1>m DEF TablesInv
  <2>2. /\ DOMAIN e = DOMAIN m /\ DOMAIN f = DOMAIN m \ {p}
        /\ \A q \in DOMAIN f : f[q] = e[q]
        /\ \A q \in DOMAIN e : \A k \in DOMAIN e[q] : e[q][k][1] = q
    <3>1. \A q \in DOMAIN e : \A k \in DOMAIN e[q] : e[q][k][1] = q
      <4>1. DOMAIN e = DOMAIN m
        BY DEF DefTables
      <4> QED BY <4>1, TablesFacts
    <3> QED BY <1>q, <3>1 DEF DefTables
  <2> HIDE DEF e, f
  <2>3. n.defs = Minus(r.defs, DOMAIN e[p])
    BY <1>2, <1>3, <2>1, <2>2, TableOwners
  <2>4. ShrinksBy(r.defs, e, p, f)
    BY <1>3, <2>1, <2>2 DEF ShrinksBy
  <2> QED BY <2>3, <2>4, TableShrinks DEF f
<1>8. TableIs(n.impls, ImplTables(w))
  <2> DEFINE e == ImplTables(m)
             f == ImplTables(w)
  <2>1. TableIs(r.impls, e)
    BY <1>m DEF TablesInv
  <2>2. /\ DOMAIN e = DOMAIN m /\ DOMAIN f = DOMAIN m \ {p}
        /\ \A q \in DOMAIN f : f[q] = e[q]
        /\ \A q \in DOMAIN e : \A k \in DOMAIN e[q] : e[q][k][1] = q
    <3>1. \A q \in DOMAIN e : \A k \in DOMAIN e[q] : e[q][k][1] = q
      <4>1. DOMAIN e = DOMAIN m
        BY DEF ImplTables
      <4> QED BY <4>1, TablesFacts
    <3> QED BY <1>q, <3>1 DEF ImplTables
  <2> HIDE DEF e, f
  <2>3. n.impls = Minus(r.impls, DOMAIN e[p])
    BY <1>2, <1>3, <2>1, <2>2, TableOwners
  <2>4. ShrinksBy(r.impls, e, p, f)
    BY <1>3, <2>1, <2>2 DEF ShrinksBy
  <2> QED BY <2>3, <2>4, TableShrinks DEF f
<1>9. TableIs(n.permissions, GrantTables(w))
  <2> DEFINE e == GrantTables(m)
             f == GrantTables(w)
  <2>1. TableIs(r.permissions, e)
    BY <1>m DEF TablesInv
  <2>2. /\ DOMAIN e = DOMAIN m /\ DOMAIN f = DOMAIN m \ {p}
        /\ \A q \in DOMAIN f : f[q] = e[q]
        /\ DOMAIN e[p] = {p}
    BY <1>3, <1>q DEF GrantTables
  <2> HIDE DEF e, f
  <2>3. n.permissions = Minus(r.permissions, DOMAIN e[p])
    BY <1>2, <2>2 DEF Minus
  <2>4. ShrinksBy(r.permissions, e, p, f)
    BY <1>3, <2>1, <2>2 DEF ShrinksBy
  <2> QED BY <2>3, <2>4, TableShrinks DEF f
<1>10. TableIs(n.importOwners, OwnerTables(w)) /\ TableIs(n.imports, BodyTables(w))
  <2> DEFINE e == OwnerTables(m)
             f == OwnerTables(w)
             d == BodyTables(m)
             g == BodyTables(w)
  <2>1. TableIs(r.importOwners, e) /\ TableIs(r.imports, d)
    BY <1>m DEF TablesInv
  <2>2. /\ DOMAIN e = DOMAIN m /\ DOMAIN f = DOMAIN m \ {p}
        /\ \A q \in DOMAIN f : f[q] = e[q]
        /\ DOMAIN e[p] = LinkedKeys(p, doc)
        /\ \A k \in DOMAIN e[p] : e[p][k] = p
        /\ DOMAIN d = DOMAIN m /\ DOMAIN g = DOMAIN m \ {p}
        /\ \A q \in DOMAIN g : g[q] = d[q]
        /\ DOMAIN d[p] = LinkedKeys(p, doc)
    <3>1. /\ DOMAIN e[p] = LinkedKeys(p, doc) /\ DOMAIN d[p] = LinkedKeys(p, doc)
          /\ \A k \in DOMAIN e[p] : e[p][k] = p
      BY <1>3, <1>d, TablesFacts
    <3> QED BY <1>q, <3>1 DEF OwnerTables, BodyTables
  <2> HIDE DEF e, f, d, g
  <2>3. mine = LinkedKeys(p, doc)
    <3>1. \A k \in LinkedKeys(p, doc) : k \in DOMAIN r.importOwners /\ r.importOwners[k] = p
      BY <1>3, <2>1, <2>2 DEF TableIs, Entries
    <3> QED BY <3>1 DEF mine, InstalledBy
  <2>6. ShrinksBy(r.importOwners, e, p, f) /\ ShrinksBy(r.imports, d, p, g)
    BY <1>3, <2>1, <2>2 DEF ShrinksBy
  <2>7. n.importOwners = Minus(r.importOwners, DOMAIN e[p]) /\ n.imports = Minus(r.imports, DOMAIN d[p])
    BY <1>2, <2>2, <2>3
  <2>4. TableIs(n.importOwners, f)
    BY <2>6, <2>7, TableShrinks
  <2>5. TableIs(n.imports, g)
    BY <2>6, <2>7, TableShrinks
  <2> QED BY <2>4, <2>5 DEF f, g
<1> QED BY <1>m, <1>d, <1>n, <1>q, <1>2, <1>4, <1>5, <1>6, <1>7, <1>8, <1>9, <1>10 DEF TablesInv

-----------------------------------------------------------------------------
(* The lists of roles and subscriptions.                                   *)

(* A function on 1..n is a list.                                           *)
LEMMA FunctionsAreLists ==
  ASSUME NEW n \in Nat, NEW f, f = [i \in 1..n |-> f[i]]
  PROVE  IsList(f)
<1>1. f \in [1..n -> Members(f)]
  BY DEF Members
<1> QED BY <1>1, SeqDef DEF IsList

(* Only the empty list has no elements.                                    *)
LEMMA EmptyMembers ==
  /\ IsList(<<>>) /\ Members(<<>>) = {}
  /\ \A s : IsList(s) => (s = <<>> <=> Members(s) = {})
<1>1. IsList(<<>>) /\ Members(<<>>) = {}
  BY EmptySeq DEF IsList, Members
<1>2. ASSUME NEW s, IsList(s), Members(s) = {} PROVE s = <<>>
  <2>1. DOMAIN s = {} /\ s \in Seq({})
    BY <1>2 DEF IsList, Members
  <2> QED BY <2>1, EmptySeq
<1> QED BY <1>1, <1>2

(* role_keys_for names no key twice.                                       *)
LEMMA RoleKeysList ==
  ASSUME NEW s, NEW ns, NEW roles, IsList(roles), NEW keys, keys = RoleKeysFor(s, ns, roles)
  PROVE  IsList(keys) /\ Distinct(keys)
<1>1. PICK each : each = RoleKeysEach(s, ns, roles)
  OBVIOUS
<1>2. DOMAIN roles = 1..Len(roles) /\ Len(roles) \in Nat
  BY DEF IsList
<1>3. each = [i \in 1..Len(roles) |-> each[i]]
  BY <1>1, <1>2 DEF RoleKeysEach
<1>4. IsList(each)
  BY <1>2, <1>3, FunctionsAreLists
<1>5. keys = Kept(each, Firsts(each))
  BY <1>1 DEF RoleKeysFor
<1> QED BY <1>4, <1>5, KeptList, FirstsFacts

InRole(roles, k) == Members(Get(roles, k, <<>>))

(* Registering lists the plugin under each of its role keys and changes no *)
(* other list.                                                             *)
LEMMA RolesRegistered ==
  ASSUME NEW roles, NEW P, RoleLists(roles, P), NEW id, id \notin P,
         NEW keys, IsList(keys), Distinct(keys), NEW n, n = RegisterRoles(roles, id, keys)
  PROVE  /\ RoleLists(n, P \cup {id})
         /\ \A k : InRole(n, k) = InRole(roles, k) \cup IF k \in Members(keys) THEN {id} ELSE {}
<1> DEFINE same == [i \in DOMAIN keys |-> id]
           times(k) == Kept(same, {i \in DOMAIN keys : keys[i] = k})
           old(k) == Get(roles, k, <<>>)
<1>1. DOMAIN keys = 1..Len(keys) /\ Len(keys) \in Nat
  BY DEF IsList
<1>2. IsList(same)
  BY <1>1, FunctionsAreLists
<1>3. ASSUME NEW k \in Members(keys)
      PROVE  IsList(times(k)) /\ Members(times(k)) = {id} /\ Distinct(times(k))
  <2> DEFINE I == {i \in DOMAIN keys : keys[i] = k}
  <2>1. I # {} /\ \A i, j \in I : i = j
    BY DEF Members, Distinct
  <2>2. DistinctAt(same, I)
    BY <2>1 DEF DistinctAt
  <2>3. {same[i] : i \in DOMAIN same \cap I} = {id}
    BY <2>1
  <2> HIDE DEF I, same
  <2> QED BY <1>2, <2>2, <2>3, KeptList DEF I
<1>4. /\ DOMAIN n = Members(keys) \cup DOMAIN roles
      /\ \A k \in Members(keys) : n[k] = old(k) \o times(k)
      /\ \A k \in DOMAIN roles \ Members(keys) : n[k] = roles[k]
  BY DEF RegisterRoles, Over
<1> HIDE DEF times
<1>5. ASSUME NEW k PROVE IsList(old(k)) /\ Distinct(old(k)) /\ Members(old(k)) \subseteq P
  <2>1. CASE k \in DOMAIN roles
    BY <2>1 DEF Get, RoleLists
  <2>2. CASE k \notin DOMAIN roles
    <3>1. Distinct(<<>>)
      BY DEF Distinct
    <3> QED BY <2>2, <3>1, EmptyMembers DEF Get
  <2> QED BY <2>1, <2>2
<1>6. ASSUME NEW k \in Members(keys)
      PROVE  IsList(n[k]) /\ Distinct(n[k]) /\ Members(n[k]) = Members(old(k)) \cup {id}
  <2>1. PICK a : a = old(k)
    OBVIOUS
  <2>2. PICK b : b = times(k)
    OBVIOUS
  <2>3. /\ IsList(a) /\ Distinct(a) /\ Members(a) \subseteq P
        /\ IsList(b) /\ Distinct(b) /\ Members(b) = {id} /\ n[k] = a \o b
    BY <1>3, <1>4, <1>5, <2>1, <2>2
  <2>4. Members(a) \cap Members(b) = {}
    BY <2>3
  <2> QED BY <2>1, <2>3, <2>4, ConcatMembers
<1>7. ASSUME NEW k \in DOMAIN n
      PROVE  IsList(n[k]) /\ Distinct(n[k]) /\ Members(n[k]) # {} /\ Members(n[k]) \subseteq P \cup {id}
  <2>1. CASE k \in Members(keys)
    BY <1>5, <1>6, <2>1
  <2>2. CASE k \notin Members(keys)
    BY <1>4, <2>2 DEF RoleLists
  <2> QED BY <2>1, <2>2
<1>8. ASSUME NEW k PROVE InRole(n, k) = InRole(roles, k) \cup IF k \in Members(keys) THEN {id} ELSE {}
  <2>1. CASE k \in Members(keys)
    BY <1>4, <1>6, <2>1 DEF InRole, Get
  <2>2. CASE k \notin Members(keys)
    BY <1>4, <2>2 DEF InRole, Get
  <2> QED BY <2>1, <2>2
<1> QED BY <1>7, <1>8 DEF RoleLists

(* Unregistering takes the plugin off every role and leaves no empty list. *)
LEMMA RolesReleased ==
  ASSUME NEW roles, NEW P, RoleLists(roles, P), NEW p, NEW n, n = RolesWithout(roles, p)
  PROVE  /\ RoleLists(n, P \ {p})
         /\ \A k : InRole(n, k) = InRole(roles, k) \ {p}
<1> DEFINE left(k) == Kept(roles[k], {i \in DOMAIN roles[k] : ~(roles[k][i] = p)})
<1>1. /\ DOMAIN n = {k \in DOMAIN roles : left(k) # <<>>}
      /\ \A k \in DOMAIN n : n[k] = left(k)
  BY DEF RolesWithout, Prune, Without
<1>2. ASSUME NEW k \in DOMAIN roles
      PROVE  /\ IsList(left(k)) /\ Distinct(left(k)) /\ Members(left(k)) = Members(roles[k]) \ {p}
  <2> DEFINE I == {i \in DOMAIN roles[k] : ~(roles[k][i] = p)}
  <2>1. PICK list : list = roles[k]
    OBVIOUS
  <2>2. IsList(list) /\ Distinct(list)
    BY <2>1 DEF RoleLists
  <2>3. DistinctAt(list, I)
    BY <2>2 DEF Distinct, DistinctAt
  <2>4. {list[i] : i \in DOMAIN list \cap I} = Members(list) \ {p}
    BY <2>1 DEF Members
  <2> HIDE DEF I
  <2> QED BY <2>1, <2>2, <2>3, <2>4, KeptList DEF I
<1> HIDE DEF left
<1>3. \A k \in DOMAIN roles : left(k) = <<>> <=> Members(roles[k]) \ {p} = {}
  BY <1>2, EmptyMembers
<1>4. RoleLists(n, P \ {p})
  BY <1>1, <1>2, <1>3 DEF RoleLists
<1>5. ASSUME NEW k PROVE InRole(n, k) = InRole(roles, k) \ {p}
  <2>1. CASE k \in DOMAIN n
    BY <1>1, <1>2, <2>1 DEF InRole, Get
  <2>2. CASE k \in DOMAIN roles /\ k \notin DOMAIN n
    BY <1>1, <1>3, <2>2, EmptyMembers DEF InRole, Get
  <2>3. CASE k \notin DOMAIN roles
    BY <1>1, <2>3, EmptyMembers DEF InRole, Get
  <2> QED BY <1>1, <2>1, <2>2, <2>3
<1> QED BY <1>4, <1>5

(* Pairs as the elements of the lists.                                     *)
LEMMA PairsFacts ==
  ASSUME NEW lists, NEW z
  PROVE  z \in Pairs(lists) <=> \E k \in DOMAIN lists : \E x \in Members(lists[k]) : z = <<k, x>>
BY DEF Pairs, Members

(* Registering subscribes the plugin to exactly the events its document    *)
(* names.                                                                  *)
LEMMA EventsRegistered ==
  ASSUME NEW events, AreLists(events), NEW id, NEW list, IsList(list),
         NEW n, n = RegisterSubscriptions(events, id, list)
  PROVE  AreLists(n) /\ Pairs(n) = Pairs(events) \cup Subscribed(id, list)
<1> DEFINE named == {list[i][1] : i \in DOMAIN list}
           pairs == [i \in DOMAIN list |-> <<id, list[i][2]>>]
           old(e) == Get(events, e, <<>>)
           new(e) == {i \in Firsts(list) : list[i][1] = e /\ pairs[i] \notin Members(old(e))}
           now(e) == old(e) \o Kept(pairs, new(e))
           asked(e) == {pairs[i] : i \in {j \in DOMAIN list : list[j][1] = e}}
<1>1. DOMAIN list = 1..Len(list) /\ Len(list) \in Nat
  BY DEF IsList
<1>2. IsList(pairs)
  BY <1>1, FunctionsAreLists
<1>3. \A e : IsList(old(e))
  BY EmptyMembers DEF Get, AreLists
<1>4. ASSUME NEW e PROVE IsList(now(e)) /\ Members(now(e)) = Members(old(e)) \cup asked(e)
  <2>1. PICK a : a = old(e)
    OBVIOUS
  <2>2. PICK b : b = Kept(pairs, new(e))
    OBVIOUS
  <2>3. IsList(b) /\ Members(b) = {pairs[i] : i \in DOMAIN pairs \cap new(e)}
    <3> HIDE DEF pairs, new
    <3> QED BY <1>2, <2>2, KeptList
  <2>4. \A i \in DOMAIN list : list[i][1] = e => pairs[i] \in Members(a) \cup Members(b)
    <3> SUFFICES ASSUME NEW i \in DOMAIN list, list[i][1] = e PROVE pairs[i] \in Members(a) \cup Members(b)
      OBVIOUS
    <3>1. PICK j \in Firsts(list) : list[j] = list[i]
      BY FirstsFacts
    <3>2. j \in DOMAIN list /\ pairs[j] = pairs[i] /\ list[j][1] = e
      BY <3>1 DEF Firsts
    <3> QED BY <2>1, <2>3, <3>1, <3>2
  <2>5. Members(b) \subseteq asked(e)
    BY <2>3
  <2>6. Members(a) \cup Members(b) = Members(a) \cup asked(e)
    BY <2>4, <2>5
  <2>7. IsList(a) /\ now(e) = a \o b
    BY <1>3, <2>1, <2>2
  <2> QED BY <2>1, <2>3, <2>6, <2>7, ConcatMembers
<1>5. /\ DOMAIN n = named \cup DOMAIN events
      /\ \A e \in named : n[e] = now(e)
      /\ \A e \in DOMAIN events \ named : n[e] = events[e]
  BY DEF RegisterSubscriptions, Over
<1> HIDE DEF now
<1>6. AreLists(n)
  BY <1>4, <1>5 DEF AreLists
<1>7. \A e \in DOMAIN n : Members(n[e]) = Members(old(e)) \cup asked(e)
  <2> SUFFICES ASSUME NEW e \in DOMAIN n PROVE Members(n[e]) = Members(old(e)) \cup asked(e)
    OBVIOUS
  <2>1. CASE e \in named
    BY <1>4, <1>5, <2>1
  <2>2. CASE e \notin named
    <3>1. asked(e) = {} /\ old(e) = events[e] /\ n[e] = events[e]
      BY <1>5, <2>2 DEF Get
    <3> QED BY <3>1
  <2> QED BY <2>1, <2>2
<1>8. ASSUME NEW z PROVE z \in Pairs(n) <=> z \in Pairs(events) \cup Subscribed(id, list)
  <2>1. z \in Subscribed(id, list) <=> \E e \in named : \E x \in asked(e) : z = <<e, x>>
    BY DEF Subscribed
  <2>2. z \in Pairs(events) <=> \E e \in DOMAIN n : \E x \in Members(old(e)) : z = <<e, x>>
    <3>1. \A e : Members(old(e)) # {} => e \in DOMAIN events /\ old(e) = events[e]
      BY EmptyMembers DEF Get
    <3>2. \A e \in DOMAIN events : e \in DOMAIN n /\ old(e) = events[e]
      BY <1>5 DEF Get
    <3> HIDE DEF old
    <3>3. z \in Pairs(events) <=> \E k \in DOMAIN events : \E x \in Members(events[k]) : z = <<k, x>>
      BY PairsFacts
    <3> QED BY <3>1, <3>2, <3>3
  <2>3. \A e : asked(e) # {} => e \in named
    OBVIOUS
  <2>4. z \in Pairs(n) <=> \E k \in DOMAIN n : \E x \in Members(n[k]) : z = <<k, x>>
    BY PairsFacts
  <2> HIDE DEF asked, old, named
  <2> QED BY <1>5, <1>7, <2>1, <2>2, <2>3, <2>4
<1> QED BY <1>6, <1>8

(* Unregistering ends the subscriptions of the plugin and no others.       *)
LEMMA EventsReleased ==
  ASSUME NEW events, AreLists(events), NEW p, NEW n, n = EventsWithout(events, p)
  PROVE  AreLists(n) /\ Pairs(n) = {z \in Pairs(events) : z[2][1] # p}
<1> DEFINE left(k) == Kept(events[k], {i \in DOMAIN events[k] : ~(events[k][i][1] = p)})
<1>1. /\ DOMAIN n = {k \in DOMAIN events : left(k) # <<>>}
      /\ \A k \in DOMAIN n : n[k] = left(k)
  BY DEF EventsWithout, Prune, Without
<1>2. ASSUME NEW k \in DOMAIN events
      PROVE  IsList(left(k)) /\ Members(left(k)) = {x \in Members(events[k]) : x[1] # p}
  <2> DEFINE I == {i \in DOMAIN events[k] : ~(events[k][i][1] = p)}
  <2>1. PICK list : list = events[k]
    OBVIOUS
  <2>2. IsList(list)
    BY <2>1 DEF AreLists
  <2>4. {list[i] : i \in DOMAIN list \cap I} = {x \in Members(list) : x[1] # p}
    BY <2>1 DEF Members
  <2> HIDE DEF I
  <2> QED BY <2>1, <2>2, <2>4, KeptList DEF I
<1> HIDE DEF left
<1>3. \A k \in DOMAIN events \ DOMAIN n : {x \in Members(events[k]) : x[1] # p} = {}
  BY <1>1, <1>2, EmptyMembers
<1>4. AreLists(n)
  BY <1>1, <1>2 DEF AreLists
<1>5. ASSUME NEW z PROVE z \in Pairs(n) <=> z \in Pairs(events) /\ z[2][1] # p
  <2>1. z \in Pairs(n) <=> \E k \in DOMAIN n : \E x \in Members(n[k]) : z = <<k, x>>
    BY PairsFacts
  <2>2. z \in Pairs(events) <=> \E k \in DOMAIN events : \E x \in Members(events[k]) : z = <<k, x>>
    BY PairsFacts
  <2>3. \A k \in DOMAIN n : k \in DOMAIN events /\ Members(n[k]) = {x \in Members(events[k]) : x[1] # p}
    BY <1>1, <1>2
  <2> QED BY <1>3, <2>1, <2>2, <2>3
<1> QED BY <1>4, <1>5

-----------------------------------------------------------------------------
(* Registration and its undoing keep the registry's invariant.             *)

(* A graph with fewer edges has no new cycle.                              *)
LEMMA FewerEdgesAcyclic ==
  ASSUME NEW E, NEW F, F \subseteq E, Acyclic(E)
  PROVE  Acyclic(F)
<1> DEFINE inner(G) == {e[1] : e \in G} \cap {e[2] : e \in G}
<1>1. inner(F) \subseteq inner(E)
  OBVIOUS
<1>2. \A S \in (SUBSET inner(E)) \ {{}} : \E n \in S : \A m \in S : <<n, m>> \notin E
  BY DEF Acyclic
<1>3. \A S \in (SUBSET inner(F)) \ {{}} : \E n \in S : \A m \in S : <<n, m>> \notin F
  <2> HIDE DEF inner
  <2> QED BY <1>1, <1>2
<1> QED BY <1>3 DEF Acyclic

(* Registration records an edge for every step that names plugin and       *)
(* action.                                                                 *)
LEMMA LiteralsAreEdges ==
  ASSUME NEW r, NEW id, NEW doc
  PROVE  LiteralInvokes(id, doc) \subseteq NewEdges(r, id, doc)
<1> SUFFICES ASSUME NEW a \in DOMAIN doc.actions, NEW i \in DOMAIN Steps(doc, a),
                    Steps(doc, a)[i].type = <<"invoke">>,
                    Steps(doc, a)[i].plugin # <<>>, Steps(doc, a)[i].action # <<>>
             PROVE  <<<<id, a>>, <<Steps(doc, a)[i].plugin, Steps(doc, a)[i].action[1]>>>> \in NewEdges(r, id, doc)
  BY DEF LiteralInvokes, Members
<1>1. <<Steps(doc, a)[i].plugin, Steps(doc, a)[i].action[1]>> \in StepTargets(r, id, doc, Steps(doc, a)[i])
  BY DEF StepTargets
<1> QED BY <1>1 DEF NewEdges

(* Such an edge starts at the plugin whose document has the step.          *)
LEMMA LiteralOrigins ==
  ASSUME NEW id, NEW doc
  PROVE  \A e \in LiteralInvokes(id, doc) : e[1][1] = id
BY DEF LiteralInvokes

(* The names register_plugin_in_as lets through make a valid identity.     *)
LEMMA ValidIdentity ==
  ASSUME NEW ns \in Namespaces, ValidNamespace(ns), NEW name \in WellFormed
  PROVE  Qualify(ns, name) \in Identities
<1>1. ns \in Seq(WellFormed)
  <2>1. CASE ns = Root
    BY <2>1 DEF Root
  <2>2. CASE ns # Root
    <3>1. ns \in Seq(Members(ns)) /\ Len(ns) = 1 /\ ns[1] \in WellFormed
      BY <2>2, LifecycleAssumption DEF Namespaces, IsList, ValidNamespace, ValidName
    <3>2. ns = [i \in 1..1 |-> ns[i]] /\ \A i \in 1..1 : ns[i] \in WellFormed
      BY <3>1
    <3>3. \E k \in Nat : ns \in [1..k -> WellFormed]
      BY <3>2
    <3> QED BY <3>3, SeqDef
  <2> QED BY <2>1, <2>2
<1>2. Append(ns, name) \in Seq(WellFormed) /\ Append(ns, name) # <<>>
  BY <1>1, AppendProperties
<1> QED BY <1>2 DEF Qualify, Identities

(* n is r with the document, under identity id.                            *)
RegisteredWell(r, s, ns, doc, id, n) ==
  /\ RegInv(n)
  /\ id \notin DOMAIN r.manifests
  /\ WithDoc(r.manifests, id, doc, n.manifests)
  /\ \A k : InRole(n.roles, k) =
               InRole(r.roles, k) \cup IF k \in Members(RoleKeysFor(s, ns, doc.roles)) THEN {id} ELSE {}

(* Registration keeps the invariant of the registry.                       *)
LEMMA RegisteredKeeps ==
  ASSUME NEW r, RegInv(r), NEW s, NEW ns \in Namespaces, NEW doc \in AllDocuments, NEW own,
         RegisterAccepted(r, s, ns, doc, own)
  PROVE  RegisteredWell(r, s, ns, doc, Qualify(ns, doc.name), Registered(r, s, ns, doc))
<1>n. PICK n : n = Registered(r, s, ns, doc)
  OBVIOUS
<1>i. PICK id : id = Qualify(ns, doc.name)
  OBVIOUS
<1>m. PICK m : m = r.manifests
  OBVIOUS
<1>w. PICK w : w = n.manifests
  OBVIOUS
<1>1. /\ id \notin DOMAIN m
      /\ ImplsAccepted(r, id, doc)
      /\ Acyclic(r.edges \cup NewEdges(r, id, doc))
  BY <1>i, <1>m DEF RegisterAccepted
<1>2. /\ w = Put(m, id, doc)
      /\ n.roles = RegisterRoles(r.roles, id, RoleKeysFor(s, ns, doc.roles))
      /\ n.subscriptions = RegisterSubscriptions(r.subscriptions, id, doc.subscribes)
      /\ n.edges = r.edges \cup NewEdges(r, id, doc)
  <2>1. DOMAIN r = Fields
    BY DEF RegInv, TablesInv
  <2> QED BY <1>n, <1>i, <1>m, <1>w, <2>1, RegisteredFields
<1>3. WithDoc(m, id, doc, w)
  BY <1>1, <1>2, PutFacts
<1>4. IsList(doc.roles) /\ IsList(doc.subscribes)
  BY LifecycleAssumption
<1>5. TablesInv(n)
  BY <1>n, RegisteredTables DEF RegInv
<1>6. /\ RoleLists(n.roles, DOMAIN m \cup {id})
      /\ \A k : InRole(n.roles, k) =
           InRole(r.roles, k) \cup IF k \in Members(RoleKeysFor(s, ns, doc.roles)) THEN {id} ELSE {}
  <2>1. PICK keys : keys = RoleKeysFor(s, ns, doc.roles)
    OBVIOUS
  <2>2. IsList(keys) /\ Distinct(keys)
    BY <1>4, <2>1, RoleKeysList
  <2>3. RoleLists(r.roles, DOMAIN m)
    BY <1>m DEF RegInv, ListsInv
  <2> QED BY <1>1, <1>2, <2>1, <2>2, <2>3, RolesRegistered
<1>7. ListsInv(n)
  <2>1. AreLists(r.subscriptions) /\ Pairs(r.subscriptions) = SubscribedPairs(m)
    BY <1>m DEF RegInv, ListsInv
  <2>2. AreLists(n.subscriptions)
        /\ Pairs(n.subscriptions) = SubscribedPairs(m) \cup Subscribed(id, doc.subscribes)
    BY <1>2, <1>4, <2>1, EventsRegistered
  <2>3. SubscribedPairs(w) = SubscribedPairs(m) \cup Subscribed(id, doc.subscribes)
    BY <1>1, <1>3 DEF SubscribedPairs, WithDoc
  <2>4. DOMAIN w = DOMAIN m \cup {id}
    BY <1>3 DEF WithDoc
  <2> QED BY <1>w, <1>6, <2>2, <2>3, <2>4 DEF ListsInv
<1>8. RulesInv(n)
  <2>1. /\ DOMAIN w = DOMAIN m \cup {id} /\ w[id] = doc /\ \A p \in DOMAIN m : w[p] = m[p]
    BY <1>3 DEF WithDoc
  <2>5. id \in Identities
    <3>1. ValidNamespace(ns) /\ doc.name \in WellFormed
      BY DEF RegisterAccepted, ValidManifestNames, ValidName
    <3> QED BY <1>i, <3>1, ValidIdentity
  <2>2. \A impl \in Members(doc.impls) : id \in TrustedProviders \/ DefinesLocally(doc, impl.type)
    <3>1. \A impl \in Members(doc.impls) : ClaimAllowed(id, doc, impl)
      BY <1>1 DEF ImplsAccepted, Members
    <3> QED BY <3>1 DEF ClaimAllowed
  <2>3. \A p \in DOMAIN m :
          /\ p \in Identities /\ m[p] \in AllDocuments
          /\ \A impl \in Members(m[p].impls) : p \in TrustedProviders \/ DefinesLocally(m[p], impl.type)
    BY <1>m DEF RegInv, RulesInv
  <2>4. LiteralEdges(w) \subseteq n.edges
    <3>1. LiteralEdges(w) = LiteralEdges(m) \cup LiteralInvokes(id, doc)
      BY <1>1, <2>1 DEF LiteralEdges
    <3>2. LiteralEdges(m) \subseteq r.edges
      BY <1>m DEF RegInv, RulesInv
    <3> QED BY <1>2, <3>1, <3>2, LiteralsAreEdges
  <2> QED BY <1>w, <1>1, <1>2, <2>1, <2>2, <2>3, <2>4, <2>5 DEF RulesInv
<1>9. RegisteredWell(r, s, ns, doc, id, n)
  BY <1>m, <1>w, <1>1, <1>3, <1>5, <1>6, <1>7, <1>8 DEF RegInv, RegisteredWell
<1> QED BY <1>n, <1>i, <1>9

(* w is m without p.                                                       *)
WithoutDoc(m, p, w) ==
  DOMAIN w = DOMAIN m \ {p} /\ w = [q \in DOMAIN w |-> w[q]] /\ \A q \in DOMAIN w : w[q] = m[q]

ReleasedWell(r, p, n) ==
  /\ RegInv(n)
  /\ WithoutDoc(r.manifests, p, n.manifests)
  /\ \A k : InRole(n.roles, k) = InRole(r.roles, k) \ {p}

(* Unregistering a plugin with its own document keeps it too.              *)
LEMMA ReleasedKeeps ==
  ASSUME NEW r, RegInv(r), NEW p \in DOMAIN r.manifests
  PROVE  ReleasedWell(r, p, Released(r, p, r.manifests[p]))
<1>m. PICK m : m = r.manifests
  OBVIOUS
<1>d. PICK doc : doc = m[p]
  OBVIOUS
<1>n. PICK n : n = Released(r, p, doc)
  OBVIOUS
<1>w. PICK w : w = n.manifests
  OBVIOUS
<1>2. /\ w = [k \in {x \in DOMAIN m : x # p} |-> m[k]]
      /\ n.roles = RolesWithout(r.roles, p)
      /\ n.subscriptions = EventsWithout(r.subscriptions, p)
      /\ n.edges = {e \in r.edges : e[1][1] # p}
  <2>1. DOMAIN r = Fields
    BY DEF RegInv, TablesInv
  <2>2. ReleasedAs(r, p, doc, n)
    BY <1>n, <2>1, ReleasedFields
  <2> QED BY <1>m, <1>w, <2>2 DEF ReleasedAs
<1>3. WithoutDoc(m, p, w)
  BY <1>2 DEF WithoutDoc
<1>4. DOMAIN w = DOMAIN m \ {p} /\ \A q \in DOMAIN w : w[q] = m[q]
  BY <1>3 DEF WithoutDoc
<1>5. TablesInv(n)
  BY <1>m, <1>d, <1>n, ReleasedTables DEF RegInv
<1>6. /\ RoleLists(n.roles, DOMAIN m \ {p})
      /\ \A k : InRole(n.roles, k) = InRole(r.roles, k) \ {p}
  <2>1. RoleLists(r.roles, DOMAIN m)
    BY <1>m DEF RegInv, ListsInv
  <2> QED BY <1>2, <2>1, RolesReleased
<1>7. ListsInv(n)
  <2>1. AreLists(r.subscriptions) /\ Pairs(r.subscriptions) = SubscribedPairs(m)
    BY <1>m DEF RegInv, ListsInv
  <2>2. AreLists(n.subscriptions) /\ Pairs(n.subscriptions) = {z \in SubscribedPairs(m) : z[2][1] # p}
    BY <1>2, <2>1, EventsReleased
  <2>3. SubscribedPairs(w) = {z \in SubscribedPairs(m) : z[2][1] # p}
    <3>1. \A q, list : \A z \in Subscribed(q, list) : z[2][1] = q
      BY DEF Subscribed
    <3> QED BY <1>4, <3>1 DEF SubscribedPairs
  <2> QED BY <1>w, <1>4, <1>6, <2>2, <2>3 DEF ListsInv
<1>8. RulesInv(n)
  <2>1. RulesInv(r)
    BY DEF RegInv
  <2>2. LiteralEdges(w) \subseteq n.edges
    <3>1. LiteralEdges(m) \subseteq r.edges
      BY <1>m, <2>1 DEF RulesInv
    <3>2. \A q \in DOMAIN w : LiteralInvokes(q, w[q]) \subseteq r.edges
      BY <1>4, <3>1 DEF LiteralEdges
    <3>3. \A q \in DOMAIN w : q # p
      BY <1>4
    <3>4. \A q \in DOMAIN w : LiteralInvokes(q, w[q]) \subseteq n.edges
      BY <1>2, <3>2, <3>3, LiteralOrigins
    <3> QED BY <3>4 DEF LiteralEdges
  <2>3. Acyclic(n.edges)
    BY <1>2, <2>1, FewerEdgesAcyclic DEF RulesInv
  <2> QED BY <1>m, <1>w, <1>4, <2>1, <2>2, <2>3 DEF RulesInv
<1>9. ReleasedWell(r, p, n)
  BY <1>m, <1>w, <1>3, <1>5, <1>6, <1>7, <1>8 DEF RegInv, ReleasedWell
<1> QED BY <1>m, <1>d, <1>n, <1>9

(* The empty registry has it.                                              *)
LEMMA EmptyKeeps ==
  /\ RegInv(EmptyRegistry) /\ DOMAIN EmptyRegistry.manifests = {}
  /\ \A k : InRole(EmptyRegistry.roles, k) = {}
<1> DEFINE r == EmptyRegistry
<1>0. DOMAIN <<>> = {}
  OBVIOUS
<1>1. DOMAIN r = Fields
  BY DEF EmptyRegistry, Fields
<1>2. /\ r.manifests = <<>> /\ r.actions = {} /\ r.roles = <<>> /\ r.subscriptions = <<>>
      /\ r.aliases = <<>> /\ r.permissions = <<>> /\ r.wasm = {} /\ r.defs = <<>> /\ r.impls = <<>>
      /\ r.edges = {} /\ r.importOwners = <<>> /\ r.imports = <<>>
  BY DEF EmptyRegistry
<1> HIDE DEF r
<1>3. \A e : DOMAIN e = {} => TableIs(<<>>, e)
  <2>1. <<>> = [k \in {} |-> <<>>[k]]
    OBVIOUS
  <2> QED BY <1>0, <2>1 DEF TableIs, Entries
<1>4. TablesInv(r)
  <2>1. r.manifests = [p \in DOMAIN r.manifests |-> r.manifests[p]]
    BY <1>0, <1>2
  <2>2. ActionPairs(r.manifests) = {} /\ ModulePairs(r.manifests) = {}
    BY <1>0, <1>2 DEF ActionPairs, ModulePairs
  <2>3. /\ DOMAIN AliasTables(r.manifests) = {} /\ DOMAIN DefTables(r.manifests) = {}
        /\ DOMAIN ImplTables(r.manifests) = {} /\ DOMAIN OwnerTables(r.manifests) = {}
        /\ DOMAIN BodyTables(r.manifests) = {} /\ DOMAIN GrantTables(r.manifests) = {}
    BY <1>0, <1>2 DEF AliasTables, DefTables, ImplTables, OwnerTables, BodyTables, GrantTables
  <2> QED BY <1>1, <1>2, <1>3, <2>1, <2>2, <2>3 DEF TablesInv
<1>5. ListsInv(r)
  BY <1>0, <1>2 DEF ListsInv, AreLists, Pairs, SubscribedPairs, RoleLists
<1>6. RulesInv(r)
  <2>1. LiteralEdges(r.manifests) = {} /\ Acyclic(r.edges)
    <3>1. LiteralEdges(r.manifests) = {}
      BY <1>0, <1>2 DEF LiteralEdges
    <3> DEFINE inner(E) == {e[1] : e \in E} \cap {e[2] : e \in E}
    <3>2. inner({}) = {}
      OBVIOUS
    <3>3. \A S \in (SUBSET inner({})) \ {{}} : \E x \in S : \A y \in S : <<x, y>> \notin {}
      <4> HIDE DEF inner
      <4> QED BY <3>2
    <3>4. Acyclic({})
      BY <3>3 DEF Acyclic
    <3> QED BY <1>2, <3>1, <3>4
  <2> QED BY <1>0, <1>2, <2>1 DEF RulesInv
<1>7. \A k : InRole(r.roles, k) = {}
  BY <1>0, <1>2, EmptyMembers DEF InRole, Get
<1> QED BY <1>0, <1>2, <1>4, <1>5, <1>6, <1>7 DEF RegInv, r

-----------------------------------------------------------------------------
(* Handles, and the index of who uses a role.                              *)

UsersOf(u, k) == Get(u, k, {})

(* v is u with h as a user of each key in K.                               *)
Tracked(u, h, K, v) == \A k : UsersOf(v, k) = UsersOf(u, k) \cup IF k \in K THEN {h} ELSE {}

(* track_manifest counts a plugin's handle under each of its role keys,    *)
(* and a contract's nowhere.                                               *)
LEMMA TrackFacts ==
  ASSUME NEW u, NEW s, NEW h, NEW rec
  PROVE  IF rec.kind = "plugin"
         THEN Tracked(u, h, Members(RoleKeysFor(s, rec.namespace, rec.doc.roles)), Track(u, s, h, rec))
         ELSE Track(u, s, h, rec) = u
<1>1. CASE rec.kind # "plugin"
  BY <1>1 DEF Track
<1>2. CASE rec.kind = "plugin"
  <2>1. PICK K : K = Members(RoleKeysFor(s, rec.namespace, rec.doc.roles))
    OBVIOUS
  <2>2. PICK t : t = Track(u, s, h, rec)
    OBVIOUS
  <2>3. t = Over([k \in K |-> Get(u, k, {}) \cup {h}], u)
    BY <1>2, <2>1, <2>2 DEF Track
  <2>4. /\ DOMAIN t = K \cup DOMAIN u
        /\ \A k \in K : t[k] = Get(u, k, {}) \cup {h}
        /\ \A k \in DOMAIN u \ K : t[k] = u[k]
    BY <2>3 DEF Over
  <2>5. Tracked(u, h, K, t)
    BY <2>4 DEF UsersOf, Get, Tracked
  <2> QED BY <1>2, <2>1, <2>2, <2>5
<1> QED BY <1>1, <1>2

(* untrack_manifest takes a handle off every key.                          *)
LEMMA UntrackFacts ==
  ASSUME NEW u, NEW h
  PROVE  \A k : UsersOf(Untrack(u, h), k) = UsersOf(u, k) \ {h}
<1>1. PICK left : left = [k \in DOMAIN u |-> u[k] \ {h}]
  OBVIOUS
<1>2. PICK t : t = Untrack(u, h)
  OBVIOUS
<1>3. t = [k \in {x \in DOMAIN left : ~(left[x] = {})} |-> left[k]]
  BY <1>1, <1>2 DEF Untrack, Without
<1>4. \A k : UsersOf(t, k) = UsersOf(u, k) \ {h}
  BY <1>1, <1>3 DEF UsersOf, Get
<1> QED BY <1>2, <1>4

IsTable(t) == t = [k \in DOMAIN t |-> t[k]]
PluginsIn(l) == {h \in DOMAIN l : l[h].kind = "plugin"}

RecordInv(rec) ==
  /\ rec = ManifestRecord(rec.namespace, rec.doc, rec.immutable)
  /\ rec.namespace \in Namespaces /\ rec.doc \in AllDocuments /\ rec.immutable \in BOOLEAN
  /\ rec.kind \in {"plugin", "spi"}

HandlesInv(l, n) ==
  /\ n \in Nat \ {0}
  /\ IsTable(l) /\ DOMAIN l \subseteq 1..(n - 1)
  /\ \A h \in DOMAIN l : RecordInv(l[h])

(* The plugins are those the handles name, each by one, and the direct.    *)
NamesInv(m, l, d) ==
  /\ \A h \in PluginsIn(l) :
       /\ l[h].identifier \in DOMAIN m /\ m[l[h].identifier] = l[h].doc
       /\ l[h].identifier \notin d
  /\ \A g, h \in PluginsIn(l) : l[g].identifier = l[h].identifier => g = h
  /\ DOMAIN m \subseteq {l[h].identifier : h \in PluginsIn(l)} \cup d
  /\ d \subseteq DOMAIN m

(* A handle uses a role exactly while its plugin is listed under it.       *)
IndexInv(roles, l, u) ==
  \A k : /\ UsersOf(u, k) \subseteq PluginsIn(l)
         /\ \A h \in PluginsIn(l) : h \in UsersOf(u, k) <=> l[h].identifier \in InRole(roles, k)

Inv(r, l, u, n, d) ==
  RegInv(r) /\ HandlesInv(l, n) /\ NamesInv(r.manifests, l, d) /\ IndexInv(r.roles, l, u)

(* The fields of a manifest's record.                                      *)
LEMMA RecordFacts ==
  ASSUME NEW ns, NEW doc, NEW imm
  PROVE  LET rec == ManifestRecord(ns, doc, imm)
         IN /\ rec.identifier = Qualify(ns, doc.name) /\ rec.namespace = ns /\ rec.kind = Classify(doc)
            /\ rec.doc = doc /\ rec.immutable = imm
            /\ rec = ManifestRecord(rec.namespace, rec.doc, rec.immutable)
BY DEF ManifestRecord

(* A handle that is free, or given out now.                                *)
FreeHandle(l, n, h, n2) ==
  HandlesInv(l, n) /\ h \notin DOMAIN l /\ n2 \in Nat /\ n <= n2 /\ h \in 1..(n2 - 1)
PutAs(l, h, rec, n2, t) ==
  /\ HandlesInv(t, n2)
  /\ DOMAIN t = DOMAIN l \cup {h} /\ t[h] = rec /\ \A g \in DOMAIN l : t[g] = l[g]
ForgotAs(l, h, n, t) ==
  HandlesInv(t, n) /\ DOMAIN t = DOMAIN l \ {h} /\ \A g \in DOMAIN t : t[g] = l[g]

(* A record under a free handle.                                           *)
LEMMA PutHandle ==
  ASSUME NEW l, NEW n, NEW h, NEW n2, FreeHandle(l, n, h, n2), NEW rec, RecordInv(rec)
  PROVE  PutAs(l, h, rec, n2, Put(l, h, rec))
<1>t. PICK t : t = Put(l, h, rec)
  OBVIOUS
<1>1. IsTable(t) /\ DOMAIN t = DOMAIN l \cup {h} /\ t[h] = rec /\ \A g \in DOMAIN l : t[g] = l[g]
  BY <1>t DEF Put, Over, IsTable, FreeHandle
<1>2. DOMAIN t \subseteq 1..(n2 - 1) /\ n2 \in Nat \ {0}
  BY <1>1 DEF HandlesInv, FreeHandle
<1>3. \A g \in DOMAIN t : RecordInv(t[g])
  BY <1>1 DEF HandlesInv, FreeHandle
<1>4. PutAs(l, h, rec, n2, t)
  BY <1>1, <1>2, <1>3 DEF HandlesInv, PutAs
<1> QED BY <1>t, <1>4

(* The records without one handle.                                         *)
LEMMA ForgetHandle ==
  ASSUME NEW l, NEW n, HandlesInv(l, n), NEW h
  PROVE  ForgotAs(l, h, n, Forget(l, h))
<1>t. PICK t : t = Forget(l, h)
  OBVIOUS
<1>1. IsTable(t) /\ DOMAIN t = DOMAIN l \ {h} /\ \A g \in DOMAIN t : t[g] = l[g]
  BY <1>t DEF Forget, Without, IsTable
<1>2. ForgotAs(l, h, n, t)
  BY <1>1 DEF HandlesInv, ForgotAs
<1> QED BY <1>t, <1>2

(* Registering a plugin under a handle keeps handles, documents and role   *)
(* index in step.                                                          *)
LEMMA AddPlugin ==
  ASSUME NEW r, NEW l, NEW u, NEW n, NEW d, Inv(r, l, u, n, d),
         NEW s, NEW ns \in Namespaces, NEW doc \in AllDocuments, NEW imm \in BOOLEAN, NEW own,
         Classify(doc) = "plugin", RegisterAccepted(r, s, ns, doc, own),
         NEW h, h \notin DOMAIN l, NEW n2 \in Nat, n <= n2, h \in 1..(n2 - 1),
         NEW rec, rec = ManifestRecord(ns, doc, imm)
  PROVE  Inv(Registered(r, s, ns, doc), Put(l, h, rec), Track(u, s, h, rec), n2, d)
<1>q. PICK q : q = Registered(r, s, ns, doc)
  OBVIOUS
<1>t. PICK t : t = Put(l, h, rec)
  OBVIOUS
<1>v. PICK v : v = Track(u, s, h, rec)
  OBVIOUS
<1>m. PICK m : m = r.manifests
  OBVIOUS
<1>w. PICK w : w = q.manifests
  OBVIOUS
<1>i. PICK id : id = Qualify(ns, doc.name)
  OBVIOUS
<1>0. /\ rec.identifier = id /\ rec.namespace = ns /\ rec.kind = "plugin" /\ rec.doc = doc
      /\ RecordInv(rec)
  BY <1>i, RecordFacts DEF RecordInv
<1>1. /\ RegInv(q) /\ id \notin DOMAIN m /\ WithDoc(m, id, doc, w)
      /\ \A k : InRole(q.roles, k) =
           InRole(r.roles, k) \cup IF k \in Members(RoleKeysFor(s, ns, doc.roles)) THEN {id} ELSE {}
  <2>1. RegInv(r)
    BY DEF Inv
  <2>2. RegisteredWell(r, s, ns, doc, id, q)
    BY <1>q, <1>i, <2>1, RegisteredKeeps
  <2> QED BY <1>m, <1>w, <2>2 DEF RegisteredWell
<1>2. /\ HandlesInv(t, n2)
      /\ DOMAIN t = DOMAIN l \cup {h} /\ t[h] = rec /\ \A g \in DOMAIN l : t[g] = l[g]
  <2>1. FreeHandle(l, n, h, n2)
    BY DEF Inv, FreeHandle
  <2>2. PutAs(l, h, rec, n2, t)
    BY <1>t, <1>0, <2>1, PutHandle
  <2> QED BY <2>2 DEF PutAs
<1>3. PluginsIn(t) = PluginsIn(l) \cup {h} /\ \A g \in PluginsIn(l) : g # h /\ t[g] = l[g]
  BY <1>0, <1>2 DEF PluginsIn
<1>4. DOMAIN w = DOMAIN m \cup {id} /\ w[id] = doc /\ \A p \in DOMAIN m : w[p] = m[p]
  BY <1>1 DEF WithDoc
<1>5. NamesInv(m, l, d)
  BY <1>m DEF Inv
<1>6. NamesInv(w, t, d)
  <2>1. \A g \in PluginsIn(l) : t[g].identifier \in DOMAIN m /\ t[g].identifier # id
    BY <1>1, <1>3, <1>5 DEF NamesInv
  <2>2. \A g \in PluginsIn(t) :
          t[g].identifier \in DOMAIN w /\ w[t[g].identifier] = t[g].doc /\ t[g].identifier \notin d
    BY <1>0, <1>1, <1>2, <1>3, <1>4, <1>5 DEF NamesInv
  <2>3. \A g, f \in PluginsIn(t) : t[g].identifier = t[f].identifier => g = f
    BY <1>0, <1>2, <1>3, <1>5, <2>1 DEF NamesInv
  <2>4. DOMAIN w \subseteq {t[g].identifier : g \in PluginsIn(t)} \cup d /\ d \subseteq DOMAIN w
    BY <1>0, <1>2, <1>3, <1>4, <1>5 DEF NamesInv
  <2> QED BY <2>2, <2>3, <2>4 DEF NamesInv
<1>7. IndexInv(q.roles, t, v)
  <2> SUFFICES ASSUME NEW k
               PROVE  /\ UsersOf(v, k) \subseteq PluginsIn(t)
                      /\ \A g \in PluginsIn(t) : g \in UsersOf(v, k) <=> t[g].identifier \in InRole(q.roles, k)
    BY DEF IndexInv
  <2>1. PICK listed : listed = (k \in Members(RoleKeysFor(s, ns, doc.roles)))
    OBVIOUS
  <2>2. /\ UsersOf(u, k) \subseteq PluginsIn(l)
        /\ \A g \in PluginsIn(l) : g \in UsersOf(u, k) <=> l[g].identifier \in InRole(r.roles, k)
    BY DEF Inv, IndexInv
  <2>3. UsersOf(v, k) = UsersOf(u, k) \cup IF listed THEN {h} ELSE {}
    <3>1. Tracked(u, h, Members(RoleKeysFor(s, ns, doc.roles)), v)
      BY <1>0, <1>v, TrackFacts
    <3> QED BY <2>1, <3>1 DEF Tracked
  <2>4. InRole(q.roles, k) = InRole(r.roles, k) \cup IF listed THEN {id} ELSE {}
    BY <1>1, <2>1
  <2>5. h \notin PluginsIn(l)
    BY DEF PluginsIn
  <2>6. id \notin InRole(r.roles, k)
    <3>1. RoleLists(r.roles, DOMAIN m)
      BY <1>m DEF Inv, RegInv, ListsInv
    <3>2. InRole(r.roles, k) \subseteq DOMAIN m
      BY <3>1, EmptyMembers DEF InRole, Get, RoleLists
    <3> QED BY <1>1, <3>2
  <2>7. \A g \in PluginsIn(l) : t[g] = l[g] /\ t[g].identifier # id
    BY <1>1, <1>3, <1>5 DEF NamesInv
  <2> QED BY <1>0, <1>2, <1>3, <2>2, <2>3, <2>4, <2>5, <2>6, <2>7
<1>8. Inv(q, t, v, n2, d)
  BY <1>1, <1>2, <1>6, <1>7, <1>w DEF Inv
<1> QED BY <1>8, <1>q, <1>t, <1>v

(* So does taking the plugin of a handle out.                              *)
LEMMA RemovePlugin ==
  ASSUME NEW r, NEW l, NEW u, NEW n, NEW d, Inv(r, l, u, n, d), NEW h \in PluginsIn(l),
         NEW p, p = l[h].identifier, NEW doc, doc = l[h].doc
  PROVE  Inv(Released(r, p, doc), Forget(l, h), Untrack(u, h), n, d)
<1>t. PICK t : t = Forget(l, h)
  OBVIOUS
<1>v. PICK v : v = Untrack(u, h)
  OBVIOUS
<1>m. PICK m : m = r.manifests
  OBVIOUS
<1>0. NamesInv(m, l, d) /\ RegInv(r)
  BY <1>m DEF Inv
<1>1. p \in DOMAIN m /\ m[p] = doc /\ p \notin d
  BY <1>0 DEF NamesInv
<1>q. PICK q : q = Released(r, p, m[p])
  OBVIOUS
<1>w. PICK w : w = q.manifests
  OBVIOUS
<1>2. ReleasedWell(r, p, q)
  BY <1>0, <1>1, <1>m, <1>q, ReleasedKeeps
<1>3. /\ RegInv(q) /\ WithoutDoc(m, p, w)
      /\ \A k : InRole(q.roles, k) = InRole(r.roles, k) \ {p}
  BY <1>2, <1>m, <1>w DEF ReleasedWell
<1>4. HandlesInv(t, n) /\ DOMAIN t = DOMAIN l \ {h} /\ \A g \in DOMAIN t : t[g] = l[g]
  <2>1. HandlesInv(l, n)
    BY DEF Inv
  <2>2. ForgotAs(l, h, n, t)
    BY <1>t, <2>1, ForgetHandle
  <2> QED BY <2>2 DEF ForgotAs
<1>5. PluginsIn(t) = PluginsIn(l) \ {h} /\ \A g \in PluginsIn(t) : t[g] = l[g]
  BY <1>4 DEF PluginsIn
<1>6. DOMAIN w = DOMAIN m \ {p} /\ \A x \in DOMAIN w : w[x] = m[x]
  BY <1>3 DEF WithoutDoc
<1>7. \A g \in PluginsIn(t) : t[g].identifier # p
  BY <1>0, <1>5 DEF NamesInv
<1>8. NamesInv(w, t, d)
  <2>1. \A g \in PluginsIn(t) :
          t[g].identifier \in DOMAIN w /\ w[t[g].identifier] = t[g].doc /\ t[g].identifier \notin d
    BY <1>0, <1>5, <1>6, <1>7 DEF NamesInv
  <2>2. \A g, f \in PluginsIn(t) : t[g].identifier = t[f].identifier => g = f
    BY <1>0, <1>5 DEF NamesInv
  <2>3. d \subseteq DOMAIN w
    BY <1>0, <1>1, <1>6 DEF NamesInv
  <2>4. ASSUME NEW x \in DOMAIN w PROVE x \in {t[g].identifier : g \in PluginsIn(t)} \cup d
    <3>1. x \in DOMAIN m /\ x # p
      BY <1>6
    <3>2. CASE x \in d
      BY <3>2
    <3>3. CASE x \notin d
      <4>1. PICK g \in PluginsIn(l) : l[g].identifier = x
        BY <1>0, <3>1, <3>3 DEF NamesInv
      <4>2. g \in PluginsIn(t) /\ t[g].identifier = x
        BY <1>5, <3>1, <4>1
      <4> QED BY <4>2
    <3> QED BY <3>2, <3>3
  <2> QED BY <2>1, <2>2, <2>3, <2>4 DEF NamesInv
<1>9. IndexInv(q.roles, t, v)
  <2> SUFFICES ASSUME NEW k
               PROVE  /\ UsersOf(v, k) \subseteq PluginsIn(t)
                      /\ \A g \in PluginsIn(t) : g \in UsersOf(v, k) <=> t[g].identifier \in InRole(q.roles, k)
    BY DEF IndexInv
  <2>2. /\ UsersOf(u, k) \subseteq PluginsIn(l)
        /\ \A g \in PluginsIn(l) : g \in UsersOf(u, k) <=> l[g].identifier \in InRole(r.roles, k)
    BY DEF Inv, IndexInv
  <2>3. UsersOf(v, k) = UsersOf(u, k) \ {h}
    BY <1>v, UntrackFacts
  <2>4. InRole(q.roles, k) = InRole(r.roles, k) \ {p}
    BY <1>3
  <2> QED BY <1>5, <1>7, <2>2, <2>3, <2>4
<1>10. Inv(q, t, v, n, d)
  BY <1>3, <1>4, <1>8, <1>9, <1>w DEF Inv
<1> QED BY <1>10, <1>1, <1>q, <1>t, <1>v

(* So does a contract under a handle.                                      *)
LEMMA AddSpi ==
  ASSUME NEW r, NEW l, NEW u, NEW n, NEW d, Inv(r, l, u, n, d),
         NEW ns \in Namespaces, NEW doc \in AllDocuments, NEW imm \in BOOLEAN, Classify(doc) = "spi",
         NEW h, h \notin DOMAIN l, NEW n2 \in Nat, n <= n2, h \in 1..(n2 - 1),
         NEW rec, rec = ManifestRecord(ns, doc, imm), NEW s
  PROVE  Inv(r, Put(l, h, rec), Track(u, s, h, rec), n2, d)
<1>t. PICK t : t = Put(l, h, rec)
  OBVIOUS
<1>0. rec.kind = "spi" /\ RecordInv(rec)
  BY RecordFacts DEF RecordInv
<1>1. Track(u, s, h, rec) = u
  BY <1>0, TrackFacts
<1>2. /\ HandlesInv(t, n2)
      /\ DOMAIN t = DOMAIN l \cup {h} /\ t[h] = rec /\ \A g \in DOMAIN l : t[g] = l[g]
  <2>1. FreeHandle(l, n, h, n2)
    BY DEF Inv, FreeHandle
  <2>2. PutAs(l, h, rec, n2, t)
    BY <1>t, <1>0, <2>1, PutHandle
  <2> QED BY <2>2 DEF PutAs
<1>3. PluginsIn(t) = PluginsIn(l) /\ \A g \in PluginsIn(l) : t[g] = l[g]
  BY <1>0, <1>2 DEF PluginsIn
<1>4. NamesInv(r.manifests, t, d)
  BY <1>3 DEF Inv, NamesInv
<1>5. IndexInv(r.roles, t, u)
  BY <1>3 DEF Inv, IndexInv
<1> QED BY <1>1, <1>2, <1>4, <1>5, <1>t DEF Inv

(* And its going, whether or not untrack_manifest is reached.              *)
LEMMA RemoveSpi ==
  ASSUME NEW r, NEW l, NEW u, NEW n, NEW d, Inv(r, l, u, n, d), NEW h \in DOMAIN l, l[h].kind = "spi"
  PROVE  Inv(r, Forget(l, h), Untrack(u, h), n, d) /\ Inv(r, Forget(l, h), u, n, d)
<1>t. PICK t : t = Forget(l, h)
  OBVIOUS
<1>2. HandlesInv(t, n) /\ DOMAIN t = DOMAIN l \ {h} /\ \A g \in DOMAIN t : t[g] = l[g]
  <2>1. HandlesInv(l, n)
    BY DEF Inv
  <2>2. ForgotAs(l, h, n, t)
    BY <1>t, <2>1, ForgetHandle
  <2> QED BY <2>2 DEF ForgotAs
<1>3. PluginsIn(t) = PluginsIn(l) /\ h \notin PluginsIn(l) /\ \A g \in PluginsIn(l) : t[g] = l[g]
  BY <1>2 DEF PluginsIn
<1>4. NamesInv(r.manifests, t, d)
  BY <1>3 DEF Inv, NamesInv
<1>5. IndexInv(r.roles, t, u)
  BY <1>3 DEF Inv, IndexInv
<1>6. IndexInv(r.roles, t, Untrack(u, h))
  <2>1. PICK v : v = Untrack(u, h)
    OBVIOUS
  <2>2. \A k : UsersOf(v, k) = UsersOf(u, k) \ {h}
    BY <2>1, UntrackFacts
  <2>3. IndexInv(r.roles, t, v)
    BY <1>3, <1>5, <2>2 DEF IndexInv
  <2> QED BY <2>1, <2>3
<1> QED BY <1>2, <1>4, <1>5, <1>6, <1>t DEF Inv

(* And a plugin registered without a handle.                               *)
LEMMA AddDirect ==
  ASSUME NEW r, NEW l, NEW u, NEW n, NEW d, Inv(r, l, u, n, d),
         NEW s, NEW ns \in Namespaces, NEW doc \in AllDocuments, NEW own, RegisterAccepted(r, s, ns, doc, own)
  PROVE  Inv(Registered(r, s, ns, doc), l, u, n, d \cup {Qualify(ns, doc.name)})
<1>q. PICK q : q = Registered(r, s, ns, doc)
  OBVIOUS
<1>m. PICK m : m = r.manifests
  OBVIOUS
<1>w. PICK w : w = q.manifests
  OBVIOUS
<1>i. PICK id : id = Qualify(ns, doc.name)
  OBVIOUS
<1>1. /\ RegInv(q) /\ id \notin DOMAIN m /\ WithDoc(m, id, doc, w)
      /\ \A k : InRole(q.roles, k) =
           InRole(r.roles, k) \cup IF k \in Members(RoleKeysFor(s, ns, doc.roles)) THEN {id} ELSE {}
  <2>1. RegInv(r)
    BY DEF Inv
  <2>2. RegisteredWell(r, s, ns, doc, id, q)
    BY <1>q, <1>i, <2>1, RegisteredKeeps
  <2> QED BY <1>m, <1>w, <2>2 DEF RegisteredWell
<1>4. DOMAIN w = DOMAIN m \cup {id} /\ w[id] = doc /\ \A p \in DOMAIN m : w[p] = m[p]
  BY <1>1 DEF WithDoc
<1>5. NamesInv(m, l, d)
  BY <1>m DEF Inv
<1>6. \A g \in PluginsIn(l) : l[g].identifier \in DOMAIN m /\ l[g].identifier # id
  BY <1>1, <1>5 DEF NamesInv
<1>7. NamesInv(w, l, d \cup {id})
  BY <1>4, <1>5, <1>6 DEF NamesInv
<1>8. IndexInv(q.roles, l, u)
  BY <1>1, <1>6 DEF Inv, IndexInv
<1>9. Inv(q, l, u, n, d \cup {id})
  BY <1>1, <1>7, <1>8, <1>w DEF Inv
<1> QED BY <1>9, <1>q, <1>i

-----------------------------------------------------------------------------
(* The kernel: every call keeps the invariant.                             *)

KernelInv == Inv(registry, loaded, roleUsers, nextId, direct) /\ IsTable(spi)

(* register_classified_manifest followed by track_manifest.                *)
LEMMA AddManifest ==
  ASSUME NEW r, NEW l, NEW u, NEW n, NEW d, Inv(r, l, u, n, d), NEW h, NEW n2, FreeHandle(l, n, h, n2),
         NEW s, IsTable(s), NEW ns \in Namespaces, NEW doc \in AllDocuments, NEW imm \in BOOLEAN, NEW own,
         ClassifiedAccepted(r, s, ns, doc, own)
  PROVE  /\ Inv(ClassifiedRegistry(r, s, ns, doc), Put(l, h, ManifestRecord(ns, doc, imm)),
                Track(u, ClassifiedSpi(s, ns, doc), h, ManifestRecord(ns, doc, imm)), n2, d)
         /\ IsTable(ClassifiedSpi(s, ns, doc))
<1>r. PICK rec : rec = ManifestRecord(ns, doc, imm)
  OBVIOUS
<1>f. h \notin DOMAIN l /\ n2 \in Nat /\ n <= n2 /\ h \in 1..(n2 - 1)
  BY DEF FreeHandle
<1>1. CASE Classify(doc) = "plugin"
  <2>1. RegisterAccepted(r, s, ns, doc, own)
    BY <1>1 DEF ClassifiedAccepted
  <2>2. ClassifiedRegistry(r, s, ns, doc) = Registered(r, s, ns, doc) /\ ClassifiedSpi(s, ns, doc) = s
    BY <1>1 DEF ClassifiedRegistry, ClassifiedSpi
  <2>3. Inv(Registered(r, s, ns, doc), Put(l, h, rec), Track(u, s, h, rec), n2, d)
    BY <1>r, <1>f, <1>1, <2>1, AddPlugin
  <2> QED BY <1>r, <2>2, <2>3
<1>2. CASE Classify(doc) = "spi"
  <2>1. ClassifiedRegistry(r, s, ns, doc) = r
    BY <1>2 DEF ClassifiedRegistry
  <2>2. PICK s2 : s2 = ClassifiedSpi(s, ns, doc)
    OBVIOUS
  <2>3. IsTable(s2)
    BY <1>2, <2>2 DEF ClassifiedSpi, Put, Over, IsTable
  <2>4. Inv(r, Put(l, h, rec), Track(u, s2, h, rec), n2, d)
    BY <1>r, <1>f, <1>2, AddSpi
  <2> QED BY <1>r, <2>1, <2>2, <2>3, <2>4
<1> QED BY <1>1, <1>2 DEF ClassifiedAccepted

(* What is left once the manifest of a handle is gone.                     *)
LEMMA HandleFree ==
  ASSUME NEW l, NEW n, HandlesInv(l, n), NEW h \in DOMAIN l
  PROVE  /\ FreeHandle(Forget(l, h), n, h, n)
         /\ \A rec : Put(Forget(l, h), h, rec) = Put(l, h, rec)
<1>t. PICK t : t = Forget(l, h)
  OBVIOUS
<1>1. ForgotAs(l, h, n, t)
  BY <1>t, ForgetHandle
<1>2. DOMAIN t = DOMAIN l \ {h} /\ \A g \in DOMAIN t : t[g] = l[g]
  BY <1>1 DEF ForgotAs
<1>3. FreeHandle(t, n, h, n)
  BY <1>1, <1>2 DEF FreeHandle, ForgotAs, HandlesInv
<1>4. \A rec : Put(t, h, rec) = Put(l, h, rec)
  BY <1>2 DEF Put, Over
<1> QED BY <1>t, <1>3, <1>4

(* The next handle is free.                                                *)
LEMMA FreeNext ==
  ASSUME NEW l, NEW n, HandlesInv(l, n)
  PROVE  FreeHandle(l, n, n, n + 1)
BY DEF FreeHandle, HandlesInv

(* What the record of a handle says of the tables: a loaded plugin is      *)
(* registered with the document of its record.                             *)
LEMMA HandleFacts ==
  ASSUME KernelInv, NEW h \in DOMAIN loaded
  PROVE  /\ RecordInv(loaded[h]) /\ HandlesInv(loaded, nextId)
         /\ loaded[h].kind = "plugin" => loaded[h].identifier \in DOMAIN registry.manifests
                                         /\ registry.manifests[loaded[h].identifier] = loaded[h].doc
BY DEF KernelInv, Inv, HandlesInv, NamesInv, PluginsIn

(* The tables a reload registers against, with the old manifest gone.      *)
LEMMA ScrubbedKeeps ==
  ASSUME KernelInv, NEW h \in DOMAIN loaded
  PROVE  /\ Inv(Scrubbed(h), Forget(loaded, h), Untrack(roleUsers, h), nextId, direct)
         /\ IsTable(SpiWithout(h))
<1>1. Inv(registry, loaded, roleUsers, nextId, direct) /\ IsTable(spi)
  BY DEF KernelInv
<1>2. IsTable(SpiWithout(h))
  BY <1>1 DEF SpiWithout, Forget, Without, IsTable
<1>3. CASE loaded[h].kind = "plugin"
  <2>1. Scrubbed(h) = Released(registry, loaded[h].identifier, loaded[h].doc)
    BY <1>3 DEF Scrubbed, Released
  <2>2. h \in PluginsIn(loaded)
    BY <1>3 DEF PluginsIn
  <2> QED BY <1>1, <1>2, <2>1, <2>2, RemovePlugin
<1>4. CASE loaded[h].kind = "spi"
  <2>1. Scrubbed(h) = registry
    BY <1>4 DEF Scrubbed
  <2> QED BY <1>1, <1>2, <1>4, <2>1, RemoveSpi
<1>5. loaded[h].kind \in {"plugin", "spi"}
  BY HandleFacts DEF RecordInv
<1> QED BY <1>3, <1>4, <1>5

(* Booting registers the intrinsics into empty tables.                     *)
LEMMA KernelStarts == Boot => KernelInv
<1> SUFFICES ASSUME Boot PROVE KernelInv
  OBVIOUS
<1> DEFINE doc == Intrinsics
           rec == ManifestRecord(Root, doc, TRUE)
<1>1. IsTable(<<>>) /\ DOMAIN <<>> = {}
  BY DEF IsTable
<1>2. Inv(EmptyRegistry, <<>>, <<>>, 1, {})
  <2>1. RegInv(EmptyRegistry) /\ DOMAIN EmptyRegistry.manifests = {}
        /\ \A k : InRole(EmptyRegistry.roles, k) = {}
    BY EmptyKeeps
  <2>2. HandlesInv(<<>>, 1) /\ PluginsIn(<<>>) = {}
    BY <1>1 DEF HandlesInv, PluginsIn
  <2>3. NamesInv(EmptyRegistry.manifests, <<>>, {})
    BY <2>1, <2>2 DEF NamesInv
  <2>4. IndexInv(EmptyRegistry.roles, <<>>, <<>>)
    BY <1>1, <2>2 DEF IndexInv, UsersOf, Get
  <2> QED BY <2>1, <2>2, <2>3, <2>4 DEF Inv
<1>3. FreeHandle(<<>>, 1, 1, 2)
  BY <1>1, <1>2 DEF FreeHandle, Inv
<1>4. Root \in Namespaces /\ doc \in AllDocuments
  BY DEF Namespaces, AllDocuments
<1>5. /\ Classify(doc) = "plugin" /\ RegisterAccepted(EmptyRegistry, <<>>, Root, doc, TRUE)
  BY LifecycleAssumption
<1>6. Inv(Registered(EmptyRegistry, <<>>, Root, doc), Put(<<>>, 1, rec), Track(<<>>, <<>>, 1, rec), 2, {})
  <2>1. PICK o, e, a, b, d : o = <<>> /\ e = EmptyRegistry /\ a = 1 /\ b = 2 /\ d = {}
    OBVIOUS
  <2>2. PICK yes \in BOOLEAN : yes = TRUE
    OBVIOUS
  <2>3. /\ Inv(e, o, o, a, d) /\ IsTable(o) /\ FreeHandle(o, a, a, b)
        /\ ClassifiedAccepted(e, o, Root, doc, yes)
    BY <1>1, <1>2, <1>3, <1>5, <2>1, <2>2 DEF ClassifiedAccepted
  <2>4. Inv(ClassifiedRegistry(e, o, Root, doc), Put(o, a, ManifestRecord(Root, doc, yes)),
            Track(o, ClassifiedSpi(o, Root, doc), a, ManifestRecord(Root, doc, yes)), b, d)
    BY <1>4, <2>3, AddManifest
  <2>5. ClassifiedRegistry(e, o, Root, doc) = Registered(e, o, Root, doc) /\ ClassifiedSpi(o, Root, doc) = o
    BY <1>5 DEF ClassifiedRegistry, ClassifiedSpi
  <2> QED BY <2>1, <2>2, <2>4, <2>5
<1> QED BY <1>1, <1>6 DEF Boot, KernelInv

(* A refused call changes no table.                                        *)
LEMMA RefuseKeeps ==
  ASSUME KernelInv, NEW why, Refuse(why)
  PROVE  KernelInv'
BY DEF Refuse, tables, KernelInv

(* load_manifest.                                                          *)
LEMMA LoadKeeps ==
  ASSUME KernelInv, NEW doc \in AllDocuments, NEW ns \in Namespaces, LoadManifest(doc, ns)
  PROVE  KernelInv'
<1>1. CASE ~ClassifiedAccepted(registry, spi, ns, doc, FALSE)
  BY <1>1, RefuseKeeps DEF LoadManifest
<1>2. CASE ClassifiedAccepted(registry, spi, ns, doc, FALSE)
  <2>1. Inv(registry, loaded, roleUsers, nextId, direct) /\ IsTable(spi) /\ HandlesInv(loaded, nextId)
    BY DEF KernelInv, Inv
  <2>2. FreeHandle(loaded, nextId, nextId, nextId + 1)
    BY <2>1, FreeNext
  <2>3. /\ Inv(ClassifiedRegistry(registry, spi, ns, doc),
               Put(loaded, nextId, ManifestRecord(ns, doc, FALSE)),
               Track(roleUsers, ClassifiedSpi(spi, ns, doc), nextId, ManifestRecord(ns, doc, FALSE)),
               nextId + 1, direct)
        /\ IsTable(ClassifiedSpi(spi, ns, doc))
    BY <1>2, <2>1, <2>2, AddManifest
  <2>4. /\ registry' = ClassifiedRegistry(registry, spi, ns, doc)
        /\ spi' = ClassifiedSpi(spi, ns, doc)
        /\ loaded' = Put(loaded, nextId, ManifestRecord(ns, doc, FALSE))
        /\ roleUsers' = Track(roleUsers, ClassifiedSpi(spi, ns, doc), nextId, ManifestRecord(ns, doc, FALSE))
        /\ nextId' = nextId + 1 /\ direct' = direct
    BY <1>2 DEF LoadManifest
  <2> QED BY <2>3, <2>4 DEF KernelInv
<1> QED BY <1>1, <1>2

(* register_plugin.                                                        *)
LEMMA RegisterPluginKeeps ==
  ASSUME KernelInv, NEW doc \in AllDocuments, RegisterPlugin(doc)
  PROVE  KernelInv'
<1>1. CASE ~RegisterAccepted(registry, spi, Root, doc, FALSE)
  BY <1>1, RefuseKeeps DEF RegisterPlugin
<1>2. CASE RegisterAccepted(registry, spi, Root, doc, FALSE)
  <2>1. Inv(Registered(registry, spi, Root, doc), loaded, roleUsers, nextId,
            direct \cup {Qualify(Root, doc.name)})
    BY <1>2, AddDirect DEF KernelInv, Namespaces
  <2>2. /\ registry' = Registered(registry, spi, Root, doc) /\ spi' = spi /\ loaded' = loaded
        /\ roleUsers' = roleUsers /\ nextId' = nextId /\ direct' = direct \cup {Qualify(Root, doc.name)}
    BY <1>2 DEF RegisterPlugin
  <2> QED BY <2>1, <2>2 DEF KernelInv
<1> QED BY <1>1, <1>2

(* register_spi_from_json.                                                 *)
LEMMA RegisterSpiKeeps ==
  ASSUME KernelInv, NEW role, NEW doc, RegisterSpi(role, doc)
  PROVE  KernelInv'
<1>1. CASE Refuse("register refused")
  BY <1>1, RefuseKeeps
<1>2. CASE ~Refuse("register refused")
  <2>1. /\ spi' = Put(spi, Qualify(Root, role), doc.contract)
        /\ UNCHANGED <<registry, loaded, roleUsers, nextId, direct>>
    BY <1>2 DEF RegisterSpi
  <2>2. IsTable(spi')
    BY <2>1 DEF Put, Over, IsTable
  <2> QED BY <2>1, <2>2 DEF KernelInv
<1> QED BY <1>1, <1>2

(* unload_manifest, drift included: for a plugin it can not happen.        *)
LEMMA UnloadKeeps ==
  ASSUME KernelInv, NEW h, UnloadManifest(h)
  PROVE  KernelInv'
<1>0. Inv(registry, loaded, roleUsers, nextId, direct) /\ IsTable(spi)
  BY DEF KernelInv
<1>1. CASE UnloadUnknown(h)
  BY <1>1, RefuseKeeps DEF UnloadUnknown
<1>2. CASE h \in DOMAIN loaded /\ UnloadSpi(h)
  <2>1. /\ Inv(registry, Forget(loaded, h), Untrack(roleUsers, h), nextId, direct)
        /\ Inv(registry, Forget(loaded, h), roleUsers, nextId, direct)
    BY <1>0, <1>2, RemoveSpi DEF UnloadSpi
  <2>2. CASE Refuse("unload refused")
    BY <2>2, RefuseKeeps
  <2>3. CASE ~Refuse("unload refused")
    <3>1. /\ registry' = registry /\ loaded' = Forget(loaded, h) /\ nextId' = nextId /\ direct' = direct
          /\ roleUsers' \in {roleUsers, Untrack(roleUsers, h)}
          /\ spi' \in {spi, Forget(spi, loaded[h].identifier)}
      BY <1>2, <2>3 DEF UnloadSpi
    <3>2. IsTable(spi')
      BY <1>0, <3>1 DEF Forget, Without, IsTable
    <3> QED BY <2>1, <3>1, <3>2 DEF KernelInv
  <2> QED BY <2>2, <2>3
<1>3. CASE h \in DOMAIN loaded /\ UnloadPlugin(h)
  <2>1. loaded[h].kind = "plugin" /\ loaded[h].identifier \in DOMAIN registry.manifests
    BY <1>3, HandleFacts DEF UnloadPlugin
  <2>2. /\ registry' = Scrubbed(h) /\ roleUsers' = Untrack(roleUsers, h)
        /\ loaded' = Forget(loaded, h) /\ UNCHANGED <<spi, nextId, direct>>
    BY <1>3, <2>1 DEF UnloadPlugin, Scrubbed
  <2>3. Inv(Scrubbed(h), Forget(loaded, h), Untrack(roleUsers, h), nextId, direct)
    BY <1>3, ScrubbedKeeps
  <2> QED BY <1>0, <2>2, <2>3 DEF KernelInv
<1> QED BY <1>1, <1>2, <1>3 DEF UnloadManifest

(* The second half of a reload: a document registered where the old one    *)
(* was.                                                                    *)
LEMMA ReinstateKeeps ==
  ASSUME KernelInv, NEW h \in DOMAIN loaded, NEW doc \in AllDocuments, Reinstate(h, doc),
         ClassifiedAccepted(Scrubbed(h), SpiWithout(h), loaded[h].namespace, doc, FALSE),
         UNCHANGED <<nextId, direct>>
  PROVE  KernelInv'
<1> DEFINE ns == loaded[h].namespace
<1>r. PICK rec : rec = ManifestRecord(ns, doc, FALSE)
  OBVIOUS
<1>s. PICK s : s = SpiWithout(h)
  OBVIOUS
<1>l. PICK l : l = Forget(loaded, h)
  OBVIOUS
<1>1. Inv(Scrubbed(h), l, Untrack(roleUsers, h), nextId, direct) /\ IsTable(s)
  BY <1>l, <1>s, ScrubbedKeeps
<1>2. FreeHandle(l, nextId, h, nextId) /\ Put(l, h, rec) = Put(loaded, h, rec)
  BY <1>l, HandleFacts, HandleFree
<1>3. ns \in Namespaces
  BY HandleFacts DEF RecordInv
<1>4. /\ Inv(ClassifiedRegistry(Scrubbed(h), s, ns, doc), Put(l, h, rec),
             Track(Untrack(roleUsers, h), ClassifiedSpi(s, ns, doc), h, rec), nextId, direct)
      /\ IsTable(ClassifiedSpi(s, ns, doc))
  BY <1>r, <1>s, <1>1, <1>2, <1>3, AddManifest
<1>5. /\ registry' = ClassifiedRegistry(Scrubbed(h), s, ns, doc)
      /\ spi' = ClassifiedSpi(s, ns, doc)
      /\ loaded' = Put(l, h, rec)
      /\ roleUsers' = Track(Untrack(roleUsers, h), ClassifiedSpi(s, ns, doc), h, rec)
      /\ nextId' = nextId /\ direct' = direct
  BY <1>r, <1>s, <1>2 DEF Reinstate
<1> QED BY <1>4, <1>5 DEF KernelInv

(* reload_manifest, with its rollback and with the rollback that fails.    *)
LEMMA ReloadKeeps ==
  ASSUME KernelInv, NEW h, NEW doc \in AllDocuments, ReloadManifest(h, doc)
  PROVE  KernelInv'
<1>1. CASE Refuse("reload refused") \/ Refuse("drift")
  BY <1>1, RefuseKeeps
<1>2. CASE ~(Refuse("reload refused") \/ Refuse("drift"))
  <2>1. h \in DOMAIN loaded /\ UNCHANGED <<nextId, direct>>
    BY <1>2 DEF ReloadManifest
  <2>2. CASE Reinstate(h, doc)
              /\ ClassifiedAccepted(Scrubbed(h), SpiWithout(h), loaded[h].namespace, doc, FALSE)
    BY <2>1, <2>2, ReinstateKeeps
  <2>3. CASE Reinstate(h, loaded[h].doc)
              /\ ClassifiedAccepted(Scrubbed(h), SpiWithout(h), loaded[h].namespace, loaded[h].doc, FALSE)
    <3>1. loaded[h].doc \in AllDocuments
      BY <2>1, HandleFacts DEF RecordInv
    <3> QED BY <2>1, <2>3, <3>1, ReinstateKeeps
  <2>4. CASE /\ registry' = Scrubbed(h) /\ spi' = SpiWithout(h)
             /\ loaded' = Forget(loaded, h) /\ roleUsers' = Untrack(roleUsers, h)
    BY <2>1, <2>4, ScrubbedKeeps DEF KernelInv
  <2> QED BY <1>2, <2>2, <2>3, <2>4 DEF ReloadManifest
<1> QED BY <1>1, <1>2

(* Every call on the kernel keeps the invariant.                           *)
LEMMA KernelKeeps == KernelInv /\ [KernelNext]_kernelVars => KernelInv'
<1> SUFFICES ASSUME KernelInv, [KernelNext]_kernelVars PROVE KernelInv'
  OBVIOUS
<1>1. ASSUME NEW p \in Presented, LoadManifest(p[1], p[2]) PROVE KernelInv'
  <2>1. p[1] \in AllDocuments /\ p[2] \in Namespaces
    BY LifecycleAssumption DEF AllDocuments, Namespaces
  <2> QED BY <1>1, <2>1, LoadKeeps
<1>2. ASSUME NEW doc \in Direct, RegisterPlugin(doc) PROVE KernelInv'
  BY <1>2, RegisterPluginKeeps DEF AllDocuments
<1>3. ASSUME NEW doc, NEW role, RegisterSpi(role, doc) PROVE KernelInv'
  BY <1>3, RegisterSpiKeeps
<1>4. ASSUME NEW h, UnloadManifest(h) PROVE KernelInv'
  BY <1>4, UnloadKeeps
<1>5. ASSUME NEW h, NEW doc \in Documents, ReloadManifest(h, doc) PROVE KernelInv'
  BY <1>5, ReloadKeeps DEF AllDocuments
<1>6. CASE UNCHANGED kernelVars
  BY <1>6 DEF kernelVars, tables, KernelInv
<1> QED BY <1>1, <1>2, <1>3, <1>4, <1>5, <1>6 DEF KernelNext

(* The inductive invariant of a kernel, for any documents, any trust the   *)
(* embedder gives and any number of handles: the tables are those of the   *)
(* registered documents, the handles those of the registered plugins, and  *)
(* the two role indexes agree.                                             *)
THEOREM KernelSafe == KernelSpec => []KernelInv
BY KernelStarts, KernelKeeps, PTL DEF KernelSpec

(* A table holds what its plugins enter, and nothing else.                 *)
LEMMA InTable ==
  ASSUME NEW t, NEW e, TableIs(t, e), NEW p \in DOMAIN e, NEW k \in DOMAIN e[p]
  PROVE  k \in DOMAIN t /\ t[k] = e[p][k]
<1>1. DOMAIN t = Entries(e) /\ t[k] = e[p][k]
  BY DEF TableIs
<1>2. k \in Entries(e)
  BY DEF Entries
<1> QED BY <1>1, <1>2

(* And each of its entries is some plugin's.                               *)
LEMMA OfTable ==
  ASSUME NEW t, NEW e, TableIs(t, e), NEW k \in DOMAIN t
  PROVE  \E p \in DOMAIN e : k \in DOMAIN e[p] /\ t[k] = e[p][k]
<1>1. k \in Entries(e)
  BY DEF TableIs
<1>2. PICK p \in DOMAIN e : k \in DOMAIN e[p]
  BY <1>1 DEF Entries
<1> QED BY <1>2 DEF TableIs

(* The invariant says of each table what TablesMatchLoaded does.           *)
LEMMA TablesMatch == KernelInv => TablesMatchLoaded
<1> SUFFICES ASSUME KernelInv PROVE TablesMatchLoaded
  OBVIOUS
<1>m. PICK m : m = registry.manifests
  OBVIOUS
<1>1. TablesInv(registry) /\ ListsInv(registry) /\ NamesInv(m, loaded, direct)
  BY <1>m DEF KernelInv, Inv, RegInv
<1>2. /\ DOMAIN m = {loaded[h].identifier : h \in {g \in DOMAIN loaded : loaded[g].kind = "plugin"}} \cup direct
      /\ \A h \in DOMAIN loaded : loaded[h].kind = "plugin" => m[loaded[h].identifier] = loaded[h].doc
  <2>1. PICK P : P = PluginsIn(loaded)
    OBVIOUS
  <2>2. /\ DOMAIN m = {loaded[h].identifier : h \in P} \cup direct
        /\ \A h \in P : m[loaded[h].identifier] = loaded[h].doc
    <3>1. /\ \A h \in P : loaded[h].identifier \in DOMAIN m /\ m[loaded[h].identifier] = loaded[h].doc
          /\ DOMAIN m \subseteq {loaded[h].identifier : h \in P} \cup direct /\ direct \subseteq DOMAIN m
      BY <1>1, <2>1 DEF NamesInv
    <3> QED BY <3>1
  <2>3. P = {g \in DOMAIN loaded : loaded[g].kind = "plugin"}
    BY <2>1 DEF PluginsIn
  <2> QED BY <2>2, <2>3
<1>3. /\ registry.actions = UNION {{<<p, a>> : a \in DOMAIN m[p].actions} : p \in DOMAIN m}
      /\ registry.wasm = UNION {{<<p, w>> : w \in DOMAIN m[p].modules} : p \in DOMAIN m}
  BY <1>m, <1>1 DEF TablesInv, ActionPairs, ModulePairs
<1>4. DOMAIN registry.permissions = DOMAIN m
  <2>1. TableIs(registry.permissions, GrantTables(m))
    BY <1>m, <1>1 DEF TablesInv
  <2>2. Entries(GrantTables(m)) = DOMAIN m
    BY DEF Entries, GrantTables
  <2> QED BY <2>1, <2>2 DEF TableIs
<1>5. DOMAIN registry.aliases = UNION {{StepTypeKey(p, n) : n \in DOMAIN m[p].aliases} : p \in DOMAIN m}
  <2>1. DOMAIN registry.aliases = Entries(AliasTables(m))
    BY <1>m, <1>1 DEF TablesInv, TableIs
  <2>2. \A x : x \in Entries(AliasTables(m)) <=> \E p \in DOMAIN m : x \in DOMAIN AliasEntries(p, m[p])
    BY DEF Entries, AliasTables
  <2>3. \A p, x : x \in DOMAIN AliasEntries(p, m[p]) <=> \E n \in DOMAIN m[p].aliases : x = StepTypeKey(p, n)
    BY DEF AliasEntries
  <2>4. \A x : x \in UNION {{StepTypeKey(p, n) : n \in DOMAIN m[p].aliases} : p \in DOMAIN m}
                 <=> \E p \in DOMAIN m : \E n \in DOMAIN m[p].aliases : x = StepTypeKey(p, n)
    OBVIOUS
  <2> QED BY <2>1, <2>2, <2>3, <2>4
<1>6. DOMAIN registry.defs =
        UNION {{StepTypeKey(p, m[p].defs[i].name) : i \in DOMAIN m[p].defs} : p \in DOMAIN m}
  <2>1. DOMAIN registry.defs = Entries(DefTables(m))
    BY <1>m, <1>1 DEF TablesInv, TableIs
  <2>2. \A x : x \in Entries(DefTables(m)) <=> \E p \in DOMAIN m : x \in DOMAIN DefEntries(p, m[p])
    BY DEF Entries, DefTables
  <2>3. \A p, x : x \in DOMAIN DefEntries(p, m[p])
                    <=> \E i \in DOMAIN m[p].defs : x = StepTypeKey(p, m[p].defs[i].name)
    <3> SUFFICES ASSUME NEW p, NEW x
                 PROVE  x \in DOMAIN DefEntries(p, m[p])
                          <=> \E i \in DOMAIN m[p].defs : x = StepTypeKey(p, m[p].defs[i].name)
      OBVIOUS
    <3>1. PICK defs : defs = m[p].defs
      OBVIOUS
    <3>2. x \in DOMAIN DefEntries(p, m[p]) <=> \E d \in Members(defs) : x = StepTypeKey(p, d.name)
      BY <3>1 DEF DefEntries
    <3>3. (\E d \in Members(defs) : x = StepTypeKey(p, d.name))
            <=> \E i \in DOMAIN defs : x = StepTypeKey(p, defs[i].name)
      BY DEF Members
    <3> QED BY <3>1, <3>2, <3>3
  <2>4. \A x : x \in UNION {{StepTypeKey(p, m[p].defs[i].name) : i \in DOMAIN m[p].defs} : p \in DOMAIN m}
                 <=> \E p \in DOMAIN m : \E i \in DOMAIN m[p].defs : x = StepTypeKey(p, m[p].defs[i].name)
    OBVIOUS
  <2>5. ASSUME NEW x
        PROVE  x \in Entries(DefTables(m))
                 <=> x \in UNION {{StepTypeKey(p, m[p].defs[i].name) : i \in DOMAIN m[p].defs} : p \in DOMAIN m}
    BY <2>2, <2>3, <2>4, Zenon
  <2> QED BY <2>1, <2>5
<1>7. TableIs(registry.importOwners, OwnerTables(m)) /\ TableIs(registry.imports, BodyTables(m))
  BY <1>m, <1>1 DEF TablesInv
<1>8. \A p \in DOMAIN m : LinkedBy(p) = LinkedKeys(p, m[p])
  BY <1>m DEF LinkedBy, LinkedKeys
<1>9. DOMAIN registry.imports = UNION {LinkedBy(p) : p \in DOMAIN m}
  <2>1. DOMAIN registry.imports = Entries(BodyTables(m))
    BY <1>7 DEF TableIs
  <2>2. Entries(BodyTables(m)) = UNION {DOMAIN LinkBodies(p, m[p]) : p \in DOMAIN m}
    BY DEF Entries, BodyTables
  <2>3. \A p \in DOMAIN m : DOMAIN LinkBodies(p, m[p]) = LinkedKeys(p, m[p])
    BY EntriesFacts
  <2> QED BY <1>8, <2>1, <2>2, <2>3
<1>10. \A p \in DOMAIN m : \A k \in LinkedBy(p) : registry.importOwners[k] = p
  <2> SUFFICES ASSUME NEW p \in DOMAIN m, NEW k \in LinkedBy(p) PROVE registry.importOwners[k] = p
    OBVIOUS
  <2>1. PICK e : e = OwnerEntries(p, m[p])
    OBVIOUS
  <2>2. DOMAIN e = LinkedKeys(p, m[p]) /\ \A x \in DOMAIN e : e[x] = p
    BY <2>1 DEF OwnerEntries
  <2>3. p \in DOMAIN OwnerTables(m) /\ OwnerTables(m)[p] = e
    BY <2>1 DEF OwnerTables
  <2>4. \A x \in DOMAIN e : registry.importOwners[x] = e[x]
    BY <1>7, <2>3 DEF TableIs
  <2> QED BY <1>8, <2>2, <2>4
<1>11. Pairs(registry.subscriptions) =
         UNION {{<<m[p].subscribes[i][1], <<p, m[p].subscribes[i][2]>>>> : i \in DOMAIN m[p].subscribes}
                : p \in DOMAIN m}
  BY <1>m, <1>1 DEF ListsInv, SubscribedPairs, Subscribed
<1> QED BY <1>m, <1>2, <1>3, <1>4, <1>5, <1>6, <1>9, <1>10, <1>11 DEF TablesMatchLoaded, Registrants

(* And of both role indexes.                                               *)
LEMMA IndexesAgree == KernelInv => RoleIndexesAgree
<1> SUFFICES ASSUME KernelInv PROVE RoleIndexesAgree
  OBVIOUS
<1>m. PICK m : m = registry.manifests
  OBVIOUS
<1>1. /\ RoleLists(registry.roles, DOMAIN m) /\ NamesInv(m, loaded, direct)
      /\ IndexInv(registry.roles, loaded, roleUsers)
  BY <1>m DEF KernelInv, Inv, RegInv, ListsInv
<1>2. ASSUME NEW key
      PROVE  {loaded[h].identifier : h \in Get(roleUsers, key, {})}
               = Members(PluginsForRole(registry, key)) \ direct
  <2> DEFINE users == Get(roleUsers, key, {})
             listed == Members(PluginsForRole(registry, key))
  <2>1. listed = InRole(registry.roles, key)
    BY DEF PluginsForRole, InRole
  <2>2. /\ users \subseteq PluginsIn(loaded)
        /\ \A h \in PluginsIn(loaded) : h \in users <=> loaded[h].identifier \in listed
    BY <1>1, <2>1 DEF IndexInv, UsersOf
  <2>3. listed \subseteq DOMAIN m
    BY <1>1, <2>1, EmptyMembers DEF InRole, Get, RoleLists
  <2>4. /\ DOMAIN m \subseteq {loaded[h].identifier : h \in PluginsIn(loaded)} \cup direct
        /\ \A h \in PluginsIn(loaded) : loaded[h].identifier \notin direct
    BY <1>1 DEF NamesInv
  <2> HIDE DEF users, listed
  <2>5. {loaded[h].identifier : h \in users} = listed \ direct
    BY <2>2, <2>3, <2>4
  <2> QED BY <2>5 DEF users, listed
<1>3. ASSUME NEW key \in DOMAIN registry.roles
      PROVE  registry.roles[key] # <<>> /\ Distinct(registry.roles[key])
  BY <1>1, EmptyMembers DEF RoleLists
<1> QED BY <1>2, <1>3 DEF RoleIndexesAgree, Distinct

(* The `invoke' steps of root plugins are among the edges, which have no   *)
(* cycle.                                                                  *)
LEMMA InvokesAcyclic == KernelInv => LiteralInvokesAcyclic
<1> SUFFICES ASSUME KernelInv PROVE LiteralInvokesAcyclic
  OBVIOUS
<1> DEFINE rooted == UNION {LiteralInvokes(p, registry.manifests[p]) :
                              p \in {q \in Registrants : NamespaceOf(q) = Root}}
<1>1. LiteralEdges(registry.manifests) \subseteq registry.edges /\ Acyclic(registry.edges)
  BY DEF KernelInv, Inv, RegInv, RulesInv
<1>2. rooted \subseteq LiteralEdges(registry.manifests)
  BY DEF LiteralEdges, Registrants
<1>3. Acyclic(rooted)
  <2> HIDE DEF rooted
  <2> QED BY <1>1, <1>2, FewerEdgesAcyclic
<1> QED BY <1>3 DEF LiteralInvokesAcyclic

(* A plugin that may supply the body of a step type: the one that defines  *)
(* it, or one the embedder trusts.                                         *)
MayRun(key, p) == p \in TrustedProviders \/ (key \in DOMAIN registry.defs /\ registry.defs[key][1] = p)

(* A plugin that supplies a body defines the step type or is trusted.      *)
LEMMA OwnBodiesRun ==
  ASSUME KernelInv, NEW p \in Registrants, NEW impl \in Members(registry.manifests[p].impls)
  PROVE  MayRun(StepTypeKey(p, impl.type), p)
<1>m. PICK m : m = registry.manifests
  OBVIOUS
<1>1. p \in TrustedProviders \/ DefinesLocally(m[p], impl.type)
  BY <1>m DEF KernelInv, Inv, RegInv, RulesInv, Registrants
<1>2. ASSUME DefinesLocally(m[p], impl.type)
      PROVE  StepTypeKey(p, impl.type) \in DOMAIN registry.defs
             /\ registry.defs[StepTypeKey(p, impl.type)][1] = p
  <2>1. PICK e : e = DefEntries(p, m[p])
    OBVIOUS
  <2>2. PICK k : k = StepTypeKey(p, impl.type)
    OBVIOUS
  <2>3. k \in DOMAIN e /\ e[k][1] = p
    <3>1. /\ DOMAIN e = {StepTypeKey(p, d.name) : d \in Members(m[p].defs)}
          /\ \A x \in DOMAIN e : e[x][1] = p
      BY <2>1 DEF DefEntries
    <3>2. PICK d \in Members(m[p].defs) : d.name = impl.type
      BY <1>2 DEF DefinesLocally, Members
    <3> QED BY <2>2, <3>1, <3>2
  <2>4. p \in DOMAIN DefTables(m) /\ DefTables(m)[p] = e
    BY <1>m, <2>1 DEF DefTables, Registrants
  <2>5. TableIs(registry.defs, DefTables(m))
    BY <1>m DEF KernelInv, Inv, RegInv, TablesInv
  <2>6. k \in DOMAIN registry.defs /\ registry.defs[k] = e[k]
    BY <2>3, <2>4, <2>5, InTable
  <2> QED BY <2>2, <2>3, <2>6
<1> QED BY <1>1, <1>2 DEF MayRun

(* Every linked body and every wasm slot is such a plugin's.               *)
LEMMA BodiesTrusted == KernelInv => ForeignBodiesTrusted
<1> SUFFICES ASSUME KernelInv PROVE ForeignBodiesTrusted
  OBVIOUS
<1>m. PICK m : m = registry.manifests
  OBVIOUS
<1>t. TablesInv(registry) /\ DOMAIN m = Registrants
  BY <1>m DEF KernelInv, Inv, RegInv, Registrants
<1>1. ASSUME NEW k \in DOMAIN registry.importOwners, k \notin DOMAIN registry.aliases
      PROVE  MayRun(k, registry.importOwners[k])
  <2>1. TableIs(registry.importOwners, OwnerTables(m)) /\ TableIs(registry.aliases, AliasTables(m))
    BY <1>m, <1>t DEF TablesInv
  <2>2. PICK p \in DOMAIN OwnerTables(m) :
          k \in DOMAIN OwnerTables(m)[p] /\ registry.importOwners[k] = OwnerTables(m)[p][k]
    BY <2>1, OfTable
  <2>3. /\ p \in DOMAIN m /\ OwnerTables(m)[p] = OwnerEntries(p, m[p])
        /\ p \in DOMAIN AliasTables(m) /\ AliasTables(m)[p] = AliasEntries(p, m[p])
    BY <2>2 DEF OwnerTables, AliasTables
  <2>4. k \in LinkedKeys(p, m[p]) /\ registry.importOwners[k] = p
    BY <2>2, <2>3 DEF OwnerEntries
  <2>5. PICK x \in LinkedNames(m[p]) : k = StepTypeKey(p, x)
    BY <2>4 DEF LinkedKeys
  <2>6. x \notin DOMAIN m[p].aliases
    <3> SUFFICES ASSUME x \in DOMAIN m[p].aliases PROVE FALSE
      OBVIOUS
    <3>1. k \in DOMAIN AliasEntries(p, m[p])
      BY <2>5 DEF AliasEntries
    <3>2. k \in DOMAIN registry.aliases
      BY <2>1, <2>3, <3>1, InTable
    <3> QED BY <1>1, <3>2
  <2>7. PICK impl \in Members(m[p].impls) : impl.type = x
    BY <2>5, <2>6 DEF LinkedNames, LinkedImpls
  <2>8. MayRun(StepTypeKey(p, impl.type), p)
    BY <1>m, <1>t, <2>3, <2>7, OwnBodiesRun
  <2> QED BY <2>4, <2>5, <2>7, <2>8
<1>2. ASSUME NEW slot \in DOMAIN registry.impls
      PROVE  MayRun(slot[1], registry.impls[slot][1])
  <2>1. TableIs(registry.impls, ImplTables(m))
    BY <1>m, <1>t DEF TablesInv
  <2>2. PICK p \in DOMAIN ImplTables(m) :
          slot \in DOMAIN ImplTables(m)[p] /\ registry.impls[slot] = ImplTables(m)[p][slot]
    BY <2>1, OfTable
  <2>3. PICK e : e = ImplEntries(p, m[p])
    OBVIOUS
  <2>4. p \in DOMAIN m /\ slot \in DOMAIN e /\ registry.impls[slot] = e[slot]
    BY <2>2, <2>3 DEF ImplTables
  <2>5. PICK impl \in Members(m[p].impls) :
          slot = <<StepTypeKey(p, impl.type), impl.selector>> /\ e[slot][1] = p
    BY <2>3, <2>4 DEF ImplEntries
  <2> QED BY <1>m, <1>t, <2>4, <2>5, OwnBodiesRun
<1> QED BY <1>1, <1>2 DEF ForeignBodiesTrusted, MayRun

(* What Calls assumes of the tables it reads.                              *)
ActionsNamed == \A a \in registry.actions : a[1] \in Seq(WellFormed) /\ a[1] # <<>>

(* Whatever is loaded and unloaded, the tables a call reads are as Calls   *)
(* assumes them: every action belongs to a plugin with a valid identity    *)
(* (register_plugin_in_as checks namespace and name before it writes). So  *)
(* what is proved of calls holds on any tables a kernel can reach.         *)
THEOREM TablesServeCalls == KernelSpec => []ActionsNamed
<1>1. KernelInv => ActionsNamed
  BY DEF KernelInv, Inv, RegInv, RulesInv, TablesInv, ActionPairs, Identities, ActionsNamed
<1> QED BY <1>1, KernelSafe, PTL

(* For any documents and any sequence of loads, refusals, reloads and      *)
(* unloads, the tables hold exactly what the registered documents declare: *)
(* unregister_plugin and release_step_imports undo register_plugin_in_as   *)
(* table by table, and never take from another plugin.                     *)
THEOREM TablesFollowDocuments == KernelSpec => []TablesMatchLoaded
BY KernelSafe, TablesMatch, PTL

(* For any sequence of calls the index of handles by role and the          *)
(* registry's lists by role name the same plugins, however contracts came  *)
(* and went in between, and no plugin is listed twice (track_manifest,     *)
(* untrack_manifest, register_role).                                       *)
THEOREM RolesAgree == KernelSpec => []RoleIndexesAgree
BY KernelSafe, IndexesAgree, PTL

(* No documents can be loaded and reloaded, in any order, so that `invoke' *)
(* steps of root plugins form a cycle: an edge outlives the plugin it      *)
(* leads to and goes only with the plugin it starts from (check_acyclic,   *)
(* unregister_plugin).                                                     *)
THEOREM NoLiteralCycle == KernelSpec => []LiteralInvokesAcyclic
BY KernelSafe, InvokesAcyclic, PTL

(* No sequence of calls leaves a step type with a body of a plugin that    *)
(* neither defines it nor is trusted to provide it                         *)
(* (check_step_type_impl_claim, release_step_imports).                     *)
THEOREM OnlyTrustedBodies == KernelSpec => []ForeignBodiesTrusted
BY KernelSafe, BodiesTrusted, PTL

-----------------------------------------------------------------------------
(* Rolling a reload back.                                                  *)

(* The documents determine every table but the three kept in order.        *)
LEMMA TablesDetermined ==
  ASSUME NEW r, NEW q, RegInv(r), RegInv(q), q.manifests = r.manifests
  PROVE  /\ \A t \in DOMAIN r \ {"roles", "subscriptions", "edges"} : q[t] = r[t]
         /\ Pairs(q.subscriptions) = Pairs(r.subscriptions)
         /\ LiteralEdges(r.manifests) \subseteq q.edges
<1>m. PICK m : m = r.manifests /\ m = q.manifests
  OBVIOUS
<1>1. /\ DOMAIN r = Fields /\ q.actions = r.actions /\ q.wasm = r.wasm
      /\ Pairs(q.subscriptions) = Pairs(r.subscriptions)
      /\ LiteralEdges(m) \subseteq q.edges
  BY <1>m DEF RegInv, TablesInv, ListsInv, RulesInv
<1>2. /\ TableIs(r.aliases, AliasTables(m)) /\ TableIs(q.aliases, AliasTables(m))
      /\ TableIs(r.defs, DefTables(m)) /\ TableIs(q.defs, DefTables(m))
      /\ TableIs(r.impls, ImplTables(m)) /\ TableIs(q.impls, ImplTables(m))
      /\ TableIs(r.importOwners, OwnerTables(m)) /\ TableIs(q.importOwners, OwnerTables(m))
      /\ TableIs(r.imports, BodyTables(m)) /\ TableIs(q.imports, BodyTables(m))
      /\ TableIs(r.permissions, GrantTables(m)) /\ TableIs(q.permissions, GrantTables(m))
  BY <1>m DEF RegInv, TablesInv
<1>3. /\ q.aliases = r.aliases /\ q.defs = r.defs /\ q.impls = r.impls
      /\ q.importOwners = r.importOwners /\ q.imports = r.imports /\ q.permissions = r.permissions
  <2>1. \A t, u, e : TableIs(t, e) /\ TableIs(u, e) => u = t
    BY TableSame
  <2> QED BY <1>2, <2>1
<1> QED BY <1>m, <1>1, <1>3 DEF Fields

(* A rollback registers the document of the record again under its handle, *)
(* and the documents determine the tables.                                 *)
LEMMA RollbackUndoes ==
  ASSUME KernelInv, KernelInv', NEW h \in DOMAIN loaded, ~Immutable(h), ~Drifted(h),
         Reinstate(h, loaded[h].doc), UNCHANGED nextId
  PROVE  /\ UNCHANGED <<loaded, nextId>>
         /\ ContractsAsLoaded => UNCHANGED spi
         /\ \A t \in DOMAIN registry \ {"roles", "subscriptions", "edges"} : registry'[t] = registry[t]
         /\ Pairs(registry'.subscriptions) = Pairs(registry.subscriptions)
         /\ \A p \in Registrants : LiteralInvokes(p, registry.manifests[p]) \subseteq registry'.edges
<1>d. PICK doc, ns, p : doc = loaded[h].doc /\ ns = loaded[h].namespace /\ p = loaded[h].identifier
  OBVIOUS
<1>1. /\ loaded[h] = ManifestRecord(ns, doc, loaded[h].immutable) /\ loaded[h].immutable = FALSE
      /\ IsTable(loaded) /\ IsTable(spi) /\ RegInv(registry)
  <2>1. RecordInv(loaded[h]) /\ HandlesInv(loaded, nextId)
    BY HandleFacts
  <2> QED BY <1>d, <2>1 DEF RecordInv, HandlesInv, Immutable, KernelInv, Inv
<1>2. p = Qualify(ns, doc.name) /\ loaded[h].kind = Classify(doc)
  BY <1>1, <1>d, RecordFacts
<1>3. /\ registry' = ClassifiedRegistry(Scrubbed(h), SpiWithout(h), ns, doc)
      /\ spi' = ClassifiedSpi(SpiWithout(h), ns, doc)
      /\ loaded' = Put(loaded, h, ManifestRecord(ns, doc, FALSE))
  BY <1>d DEF Reinstate
<1>4. loaded' = loaded
  BY <1>1, <1>3 DEF Put, Over, IsTable
<1>5. ASSUME ContractsAsLoaded PROVE spi' = spi
  <2>1. CASE Classify(doc) = "spi"
    <3>1. p \in DOMAIN spi /\ spi[p] = doc.contract
      BY <1>d, <1>2, <1>5, <2>1 DEF ContractsAsLoaded, Get, Drifted
    <3>2. spi' = Put(Forget(spi, p), p, doc.contract)
      BY <1>d, <1>2, <1>3, <2>1 DEF ClassifiedSpi, SpiWithout
    <3> QED BY <1>1, <3>1, <3>2 DEF Put, Over, Forget, Without, IsTable
  <2>2. CASE Classify(doc) # "spi"
    BY <1>2, <1>3, <2>2 DEF ClassifiedSpi, SpiWithout
  <2> QED BY <2>1, <2>2
<1>6. registry'.manifests = registry.manifests /\ RegInv(registry')
  <2>0. RegInv(registry')
    BY DEF KernelInv, Inv
  <2>1. CASE Classify(doc) = "plugin"
    <3>m. PICK m : m = registry.manifests
      OBVIOUS
    <3>w. PICK w : w = registry'.manifests
      OBVIOUS
    <3>1. p \in DOMAIN m /\ m[p] = doc
      BY <1>d, <1>2, <2>1, <3>m, HandleFacts
    <3>2. Scrubbed(h) = Released(registry, p, doc)
      BY <1>d, <1>2, <2>1 DEF Scrubbed, Released
    <3>3. PICK q : q = Released(registry, p, doc)
      OBVIOUS
    <3>4. ReleasedWell(registry, p, q)
      BY <1>1, <3>1, <3>3, <3>m, ReleasedKeeps
    <3>5. DOMAIN q = Fields /\ DOMAIN q.manifests = DOMAIN m \ {p} /\ \A x \in DOMAIN q.manifests : q.manifests[x] = m[x]
      BY <3>4, <3>m DEF ReleasedWell, WithoutDoc, RegInv, TablesInv
    <3>6. registry' = Registered(q, SpiWithout(h), ns, doc)
      BY <1>3, <2>1, <3>2, <3>3 DEF ClassifiedRegistry
    <3>7. w = Put(q.manifests, p, doc)
      BY <1>2, <3>5, <3>6, <3>w, RegisteredFields
    <3>8. DOMAIN w = DOMAIN m /\ w[p] = doc /\ \A x \in DOMAIN m \ {p} : w[x] = m[x]
      BY <3>1, <3>5, <3>7 DEF Put, Over
    <3>9. m = [x \in DOMAIN m |-> m[x]] /\ w = [x \in DOMAIN w |-> w[x]]
      BY <1>1, <2>0, <3>m, <3>w DEF RegInv, TablesInv
    <3>10. w = m
      BY <3>1, <3>8, <3>9
    <3> QED BY <2>0, <3>10, <3>m, <3>w
  <2>2. CASE Classify(doc) # "plugin"
    BY <1>2, <1>3, <2>0, <2>2 DEF ClassifiedRegistry, Scrubbed
  <2> QED BY <2>1, <2>2
<1>7. /\ \A t \in DOMAIN registry \ {"roles", "subscriptions", "edges"} : registry'[t] = registry[t]
      /\ Pairs(registry'.subscriptions) = Pairs(registry.subscriptions)
      /\ LiteralEdges(registry.manifests) \subseteq registry'.edges
  BY <1>1, <1>6, TablesDetermined
<1>8. \A x \in Registrants : LiteralInvokes(x, registry.manifests[x]) \subseteq registry'.edges
  BY <1>7 DEF LiteralEdges, Registrants
<1> QED BY <1>4, <1>5, <1>7, <1>8

(* Only reload_manifest reports a rollback.                                *)
LEMMA RollbackStep ==
  ASSUME KernelInv, KernelInv', KernelNext, result' = "rolled back"
  PROVE  \E h \in DOMAIN loaded :
           ~Immutable(h) /\ ~Drifted(h) /\ Reinstate(h, loaded[h].doc) /\ UNCHANGED nextId
<1>1. ASSUME NEW doc, NEW ns, LoadManifest(doc, ns) PROVE FALSE
  BY <1>1 DEF LoadManifest, Refuse
<1>2. ASSUME NEW doc, RegisterPlugin(doc) PROVE FALSE
  BY <1>2 DEF RegisterPlugin, Refuse
<1>3. ASSUME NEW doc, NEW role, RegisterSpi(role, doc) PROVE FALSE
  BY <1>3 DEF RegisterSpi, Refuse
<1>4. ASSUME NEW h, UnloadManifest(h) PROVE FALSE
  BY <1>4 DEF UnloadManifest, UnloadUnknown, UnloadSpi, UnloadPlugin, Refuse
<1>5. ASSUME NEW h, NEW doc, ReloadManifest(h, doc)
      PROVE  h \in DOMAIN loaded /\ ~Immutable(h) /\ ~Drifted(h) /\ Reinstate(h, loaded[h].doc) /\ UNCHANGED nextId
  BY <1>5 DEF ReloadManifest, Refuse
<1> QED BY <1>1, <1>2, <1>3, <1>4, <1>5 DEF KernelNext

(* For any documents, a reload that reports the new document's error and   *)
(* keeps the handle has put back every handle, every grant, step type and  *)
(* body, the subscriptions, and an edge for every `invoke' that names its  *)
(* callee (reload_manifest).                                               *)
THEOREM RollbackPutsBack == KernelSpec => RollbackRestores
<1> DEFINE Back == result' = "rolled back" =>
       /\ UNCHANGED <<loaded, nextId>>
       /\ ContractsAsLoaded => UNCHANGED spi
       /\ \A t \in DOMAIN registry \ {"roles", "subscriptions", "edges"} : registry'[t] = registry[t]
       /\ Pairs(registry'.subscriptions) = Pairs(registry.subscriptions)
       /\ \A p \in Registrants :
            LiteralInvokes(p, registry.manifests[p]) \subseteq registry'.edges
<1>1. ASSUME KernelInv, KernelInv', KernelNext PROVE Back
  BY <1>1, RollbackStep, RollbackUndoes
<1>2. KernelInv /\ KernelInv' /\ [KernelNext]_kernelVars => [Back]_kernelVars
  BY <1>1
<1> HIDE DEF Back
<1>3. KernelSpec => [][Back]_kernelVars
  BY <1>2, KernelSafe, PTL DEF KernelSpec
<1> QED BY <1>3 DEF RollbackRestores, Back

-----------------------------------------------------------------------------
(* The kernel's handles are those of ManifestStore.                        *)

Entry(rec) == [kind |-> rec.kind, name |-> rec.identifier, fixed |-> rec.immutable]
Handles(l) == [h \in DOMAIN l |-> Entry(l[h])]

(* What ManifestStore sees of a record.                                    *)
LEMMA EntryFacts ==
  ASSUME NEW rec, RecordInv(rec)
  PROVE  /\ Entry(rec) \in Store!Records
         /\ Entry(rec).kind = rec.kind /\ Entry(rec).name = rec.identifier /\ Entry(rec).fixed = rec.immutable
<1>1. /\ Entry(rec).kind = rec.kind /\ Entry(rec).name = rec.identifier /\ Entry(rec).fixed = rec.immutable
  BY DEF Entry
<1>2. rec.identifier = Qualify(rec.namespace, rec.doc.name)
  <2>1. PICK ns, doc, imm : ns = rec.namespace /\ doc = rec.doc /\ imm = rec.immutable
    OBVIOUS
  <2>2. rec = ManifestRecord(ns, doc, imm)
    BY <2>1 DEF RecordInv
  <2> QED BY <2>1, <2>2 DEF ManifestRecord
<1>3. rec.identifier \in Identifiers
  BY <1>2 DEF RecordInv, Identifiers
<1> QED BY <1>1, <1>3 DEF Entry, Store!Records, RecordInv

(* A plugin whose handle is h shares its name with no other.               *)
LEMMA EntryFree ==
  ASSUME KernelInv', NEW h \in DOMAIN loaded', NEW S \in SUBSET (DOMAIN loaded), h \notin S,
         \A g \in S : g \in DOMAIN loaded' /\ loaded'[g] = loaded[g]
  PROVE  Store!Free(S, Entry(loaded'[h]))
<1>1. \A g, f \in PluginsIn(loaded') : loaded'[g].identifier = loaded'[f].identifier => g = f
  BY DEF KernelInv, Inv, NamesInv
<1> SUFFICES ASSUME loaded'[h].kind = "plugin", NEW g \in S, loaded[g].kind = "plugin"
             PROVE  loaded[g].identifier # loaded'[h].identifier
  BY DEF Store!Free, Entry
<1>2. h \in PluginsIn(loaded') /\ g \in PluginsIn(loaded') /\ loaded'[g].identifier = loaded[g].identifier
  BY DEF PluginsIn
<1> QED BY <1>1, <1>2

(* A kernel starts with one handle that can not be unloaded.               *)
LEMMA StoreStarts == Boot => Store!StoreInit
<1> SUFFICES ASSUME Boot PROVE Store!StoreInit
  OBVIOUS
<1>1. PICK rec : rec = ManifestRecord(Root, Intrinsics, TRUE)
  OBVIOUS
<1>2. loaded = Put(<<>>, 1, rec) /\ nextId = 2
  BY <1>1 DEF Boot
<1>3. DOMAIN loaded = {1} /\ loaded[1] = rec
  BY <1>2 DEF Put, Over
<1>4. RecordInv(rec)
  BY <1>3, KernelStarts DEF KernelInv, Inv, HandlesInv
<1>5. rec.immutable = TRUE
  BY <1>1 DEF ManifestRecord
<1>6. Entry(rec) \in Store!Records /\ Entry(rec).fixed = TRUE
  BY <1>4, <1>5, EntryFacts
<1>7. Handles(loaded) = [h \in {1} |-> Entry(rec)]
  BY <1>3 DEF Handles
<1> QED BY <1>2, <1>6, <1>7 DEF Store!StoreInit, Handles, Entry

(* A call that gives out the next handle.                                  *)
LEMMA StoreAdds ==
  ASSUME KernelInv, KernelInv', NEW rec, loaded' = Put(loaded, nextId, rec), rec.immutable = FALSE,
         nextId' = nextId + 1
  PROVE  Store!Add
<1>0. nextId \notin DOMAIN loaded
  BY DEF KernelInv, Inv, HandlesInv
<1>1. /\ DOMAIN loaded' = DOMAIN loaded \cup {nextId} /\ loaded'[nextId] = rec
      /\ \A g \in DOMAIN loaded : loaded'[g] = loaded[g]
  BY <1>0 DEF Put, Over
<1>2. RecordInv(rec)
  BY <1>1 DEF KernelInv, Inv, HandlesInv
<1>3. Entry(rec) \in Store!Records /\ ~Entry(rec).fixed
  BY <1>2, EntryFacts
<1>4. Store!Free(DOMAIN loaded, Entry(rec))
  <2>1. nextId \in DOMAIN loaded' /\ DOMAIN loaded \in SUBSET (DOMAIN loaded)
        /\ \A g \in DOMAIN loaded : g \in DOMAIN loaded' /\ loaded'[g] = loaded[g]
    BY <1>1
  <2>2. Store!Free(DOMAIN loaded, Entry(loaded'[nextId]))
    BY <1>0, <2>1, EntryFree
  <2> QED BY <1>1, <2>2
<1>5. Handles(loaded') = [h \in DOMAIN Handles(loaded) \cup {nextId} |->
                            IF h = nextId THEN Entry(rec) ELSE Handles(loaded)[h]]
  BY <1>0, <1>1 DEF Handles
<1> QED BY <1>3, <1>4, <1>5 DEF Store!Add, Handles, Entry

(* A call that ends with the handle gone.                                  *)
LEMMA StoreDrops ==
  ASSUME KernelInv, NEW h \in DOMAIN loaded, ~Immutable(h), loaded' = Forget(loaded, h), nextId' = nextId
  PROVE  Store!Drop(h)
<1>1. DOMAIN loaded' = DOMAIN loaded \ {h} /\ \A g \in DOMAIN loaded' : loaded'[g] = loaded[g]
  BY DEF Forget, Without
<1>2. ~Handles(loaded)[h].fixed
  BY DEF Handles, Entry, Immutable
<1>3. Handles(loaded') = [g \in DOMAIN Handles(loaded) \ {h} |-> Handles(loaded)[g]]
  BY <1>1 DEF Handles
<1> QED BY <1>2, <1>3 DEF Store!Drop, Handles, Entry

(* A call that leaves the handle with another manifest, or its own.        *)
LEMMA StoreSwaps ==
  ASSUME KernelInv, KernelInv', NEW h \in DOMAIN loaded, ~Immutable(h), nextId' = nextId,
         NEW rec, loaded' = Put(loaded, h, rec), rec.immutable = FALSE
  PROVE  Store!Swap(h)
<1>1. /\ DOMAIN loaded' = DOMAIN loaded /\ loaded'[h] = rec
      /\ \A g \in DOMAIN loaded \ {h} : loaded'[g] = loaded[g]
  BY DEF Put, Over
<1>2. RecordInv(rec)
  BY <1>1 DEF KernelInv, Inv, HandlesInv
<1>3. Entry(rec) \in Store!Records /\ ~Entry(rec).fixed
  BY <1>2, EntryFacts
<1>4. Store!Free(DOMAIN loaded \ {h}, Entry(rec))
  <2>1. PICK S : S = DOMAIN loaded \ {h}
    OBVIOUS
  <2>2. h \in DOMAIN loaded' /\ S \in SUBSET (DOMAIN loaded) /\ h \notin S
        /\ \A g \in S : g \in DOMAIN loaded' /\ loaded'[g] = loaded[g]
    BY <1>1, <2>1
  <2>3. Store!Free(S, Entry(loaded'[h]))
    BY <2>2, EntryFree
  <2> QED BY <1>1, <2>1, <2>3
<1>5. ~Handles(loaded)[h].fixed
  BY DEF Handles, Entry, Immutable
<1>6. Handles(loaded') = [Handles(loaded) EXCEPT ![h] = Entry(rec)]
  BY <1>1 DEF Handles
<1> QED BY <1>3, <1>4, <1>5, <1>6 DEF Store!Swap, Handles, Entry

(* A call that leaves the handles alone.                                   *)
LEMMA StoreStutters ==
  ASSUME UNCHANGED <<loaded, nextId>>
  PROVE  UNCHANGED Store!storeVars
BY DEF Store!storeVars

(* Every call gives out the next handle, drops one, replaces what one      *)
(* names, or leaves them all alone.                                        *)
LEMMA StoreSteps ==
  ASSUME KernelInv, KernelInv', KernelNext
  PROVE  [Store!StoreNext]_(Store!storeVars)
<1> DEFINE Goal == [Store!StoreNext]_(Store!storeVars)
<1>0. \A h \in DOMAIN loaded : Store!Drop(h) \/ Store!Swap(h) => Store!StoreNext
  BY DEF Store!StoreNext
<1>r. ASSUME NEW why, Refuse(why) PROVE Goal
  BY <1>r, StoreStutters DEF Refuse, tables
<1>1. ASSUME NEW doc, NEW ns, LoadManifest(doc, ns) PROVE Goal
  <2>1. PICK rec : rec = ManifestRecord(ns, doc, FALSE)
    OBVIOUS
  <2>2. rec.immutable = FALSE
    BY <2>1 DEF ManifestRecord
  <2>3. CASE loaded' = Put(loaded, nextId, rec) /\ nextId' = nextId + 1
    BY <2>2, <2>3, StoreAdds DEF Store!StoreNext
  <2> QED BY <1>1, <1>r, <2>1, <2>3 DEF LoadManifest
<1>2. ASSUME NEW doc, RegisterPlugin(doc) PROVE Goal
  BY <1>2, <1>r, StoreStutters DEF RegisterPlugin
<1>3. ASSUME NEW doc, NEW role, RegisterSpi(role, doc) PROVE Goal
  BY <1>3, <1>r, StoreStutters DEF RegisterSpi
<1>4. ASSUME NEW h, UnloadManifest(h) PROVE Goal
  <2>1. CASE UnloadUnknown(h)
    BY <1>r, <2>1 DEF UnloadUnknown
  <2>2. CASE h \in DOMAIN loaded /\ ~Immutable(h) /\ loaded' = Forget(loaded, h) /\ nextId' = nextId
    BY <1>0, <2>2, StoreDrops
  <2> QED BY <1>4, <1>r, <2>1, <2>2 DEF UnloadManifest, UnloadSpi, UnloadPlugin
<1>5. ASSUME NEW h, NEW doc, ReloadManifest(h, doc) PROVE Goal
  <2>1. CASE Refuse("reload refused") \/ Refuse("drift")
    BY <1>r, <2>1
  <2>2. ASSUME h \in DOMAIN loaded, ~Immutable(h), nextId' = nextId, NEW new, Reinstate(h, new) PROVE Goal
    <3>1. PICK rec : rec = ManifestRecord(loaded[h].namespace, new, FALSE)
      OBVIOUS
    <3>2. rec.immutable = FALSE /\ loaded' = Put(loaded, h, rec)
      BY <2>2, <3>1 DEF ManifestRecord, Reinstate
    <3> QED BY <1>0, <2>2, <3>2, StoreSwaps
  <2>3. CASE h \in DOMAIN loaded /\ ~Immutable(h) /\ loaded' = Forget(loaded, h) /\ nextId' = nextId
    BY <1>0, <2>3, StoreDrops
  <2> QED BY <1>5, <2>1, <2>2, <2>3 DEF ReloadManifest
<1> QED BY <1>1, <1>2, <1>3, <1>4, <1>5 DEF KernelNext

(* A kernel implements ManifestStore: a handle is given out once and names *)
(* one manifest, no two handles name the same plugin, and a call touches   *)
(* the manifest of one handle only (load_manifest, unload_manifest,        *)
(* reload_manifest).                                                       *)
THEOREM KernelImplementsStore == KernelSpec => KeepsTheStore
<1>1. KernelInv /\ KernelInv' /\ [KernelNext]_kernelVars => [Store!StoreNext]_(Store!storeVars)
  <2>1. ASSUME UNCHANGED kernelVars PROVE UNCHANGED Store!storeVars
    BY <2>1, StoreStutters DEF kernelVars, tables
  <2> QED BY <2>1, StoreSteps
<1> QED BY <1>1, KernelSafe, StoreStarts, PTL DEF KernelSpec, KeepsTheStore, Store!StoreSpec

-----------------------------------------------------------------------------
(***************************************************************************)
(* Calls.                                                                  *)
(***************************************************************************)

(* The inductive invariant.                                                *)

ActionShape(f) ==
  /\ f = [kind |-> "action", plugin |-> f.plugin, action |-> f.action, depth |-> f.depth,
          cascade |-> f.cascade, left |-> f.left, armed |-> f.armed, expired |-> f.expired,
          fired |-> f.fired, secrets |-> f.secrets, body |-> f.body, step |-> f.step, ends |-> f.ends]
  /\ f.plugin \in Identities
  /\ f.armed \in BOOLEAN /\ f.expired \in BOOLEAN /\ f.fired \in BOOLEAN
  /\ f.step # <<>> =>
       f.step = <<[type |-> f.step[1].type, key |-> f.step[1].key, got |-> f.step[1].got]>>
EventShape(f) == f = [kind |-> "event", left |-> f.left, cascade |-> f.cascade]

(* A view holds declared secrets of p alone.                               *)
Own(view, p) == \A s \in view : s[1] = p /\ s[2] \in DeclaredKeys(p)

(* A frame's own view is of its plugin; a body's view is there exactly     *)
(* while a step of another plugin's step type is, and is of that plugin.   *)
ViewInv(f) ==
  /\ Own(f.secrets, f.plugin)
  /\ f.body # <<>> => f.step # <<>>
  /\ f.step # <<>> =>
       LET owner == BodyOwner(f.plugin, f.step[1].type)
       IN /\ owner # <<>> /\ f.step[1].got = "" => f.body # <<>>
          /\ f.body # <<>> => owner # <<>> /\ Own(f.body[1], owner[1])

FrameInv(f) ==
  \/ f.kind = "action" /\ ActionShape(f) /\ ViewInv(f)
  \/ f.kind = "event" /\ EventShape(f)

(* A frame that was told to stop, or has a step that was; somebody further *)
(* out asked for that, and if it was a deadline its watchdog has fired.    *)
Stopping(f) ==
  /\ f.kind = "action"
  /\ \/ f.fired \/ f.ends = "cancelled"
     \/ f.step # <<>> /\ f.step[1].got = "cancelled"

Asked(i) ==
  \/ cancelled
  \/ \E j \in 1..i : CalledFrom(j, i) /\ Overdue(j) /\ stack[j].expired

IsStack(s) == \E S : s \in Seq(S)

CallsInv ==
  /\ IsStack(stack) /\ cancelled \in BOOLEAN
  /\ \A i \in 1..Len(stack) : FrameInv(stack[i])
  /\ CallsStayOnChain
  /\ \A i \in 1..Len(stack) : Stopping(stack[i]) => Asked(i)
  /\ report = "cancelled" => cancelled

-----------------------------------------------------------------------------
(* Namespaces: a target on the chain shares every segment of its namespace *)
(* with the identity it is on the chain of.                                *)

Shares(target, of) ==
  Len(target) <= Len(of) /\ \A k \in 1..(Len(target) - 1) : target[k] = of[k]

LEMMA PrefixFacts ==
  ASSUME NEW S, NEW s \in Seq(S), NEW n \in 0..Len(s)
  PROVE  /\ SubSeq(s, 1, n) \in Seq(S) /\ Len(SubSeq(s, 1, n)) = n
         /\ \A i \in 1..n : SubSeq(s, 1, n)[i] = s[i]
BY SubSeqProperties

LEMMA NamespaceFacts ==
  ASSUME NEW p \in Identities
  PROVE  /\ Len(p) \in Nat \ {0}
         /\ NamespaceOf(p) \in Seq(WellFormed)
         /\ Len(NamespaceOf(p)) = Len(p) - 1
         /\ \A k \in 1..(Len(p) - 1) : NamespaceOf(p)[k] = p[k]
<1>1. p \in Seq(WellFormed) /\ Len(p) \in Nat /\ Len(p) # 0
  BY EmptySeq DEF Identities
<1> DEFINE n == Len(p) - 1
<1>2. n \in 0..Len(p)
  BY <1>1
<1>3. NamespaceOf(p) = SubSeq(p, 1, n)
  BY DEF NamespaceOf
<1> HIDE DEF n
<1>4. NamespaceOf(p) \in Seq(WellFormed) /\ Len(NamespaceOf(p)) = n
      /\ \A k \in 1..n : NamespaceOf(p)[k] = p[k]
  BY <1>1, <1>2, <1>3, PrefixFacts
<1> QED BY <1>1, <1>4 DEF n

LEMMA OnChainShares ==
  ASSUME NEW t \in Identities, NEW o \in Identities
  PROVE  IsOnChain(t, o) <=> Shares(t, o)
<1> DEFINE a == NamespaceOf(t)
           b == NamespaceOf(o)
<1>1. a \in Seq(WellFormed) /\ b \in Seq(WellFormed) /\ Len(t) \in Nat \ {0} /\ Len(o) \in Nat \ {0}
      /\ Len(a) = Len(t) - 1 /\ Len(b) = Len(o) - 1
      /\ (\A k \in 1..(Len(t) - 1) : a[k] = t[k])
      /\ (\A k \in 1..(Len(o) - 1) : b[k] = o[k])
  BY NamespaceFacts
<1> HIDE DEF a, b
<1>2. IsOnChain(t, o) <=> \E i \in 1..(Len(b) + 1) : SubSeq(b, 1, Len(b) + 1 - i) = a
  BY DEF IsOnChain, AncestorNamespaces, a, b
<1>3. \A n \in 0..Len(b) : /\ SubSeq(b, 1, n) \in Seq(WellFormed) /\ Len(SubSeq(b, 1, n)) = n
                           /\ \A k \in 1..n : SubSeq(b, 1, n)[k] = b[k]
  BY <1>1, PrefixFacts
<1>4. ASSUME NEW i \in 1..(Len(b) + 1), SubSeq(b, 1, Len(b) + 1 - i) = a PROVE Shares(t, o)
  <2> DEFINE n == Len(b) + 1 - i
  <2>1. n \in 0..Len(b)
    BY <1>1
  <2>2. Len(a) = n /\ \A k \in 1..n : a[k] = b[k]
    BY <1>3, <1>4, <2>1
  <2> QED BY <1>1, <2>1, <2>2 DEF Shares
<1>5. ASSUME Shares(t, o)
      PROVE  \E i \in 1..(Len(b) + 1) : SubSeq(b, 1, Len(b) + 1 - i) = a
  <2> DEFINE n == Len(a)
             i == Len(b) + 1 - n
  <2>1. n \in 0..Len(b) /\ i \in 1..(Len(b) + 1) /\ Len(b) + 1 - i = n
    BY <1>1, <1>5 DEF Shares
  <2>2. \A k \in 1..n : SubSeq(b, 1, n)[k] = a[k]
    BY <1>1, <1>3, <1>5, <2>1 DEF Shares
  <2>3. SubSeq(b, 1, n) = a
    BY <1>1, <1>3, <2>1, <2>2, SeqEqual
  <2> QED BY <2>1, <2>3
<1> QED BY <1>2, <1>4, <1>5

(* So being on the chain is reflexive and transitive.                      *)
LEMMA OnChainReflexive ==
  ASSUME NEW p \in Identities
  PROVE  IsOnChain(p, p)
<1>1. Len(p) \in Nat
  BY NamespaceFacts
<1> QED BY <1>1, OnChainShares DEF Shares

LEMMA OnChainTransitive ==
  ASSUME NEW p \in Identities, NEW q \in Identities, NEW r \in Identities,
         IsOnChain(p, q), IsOnChain(q, r)
  PROVE  IsOnChain(p, r)
<1>1. Len(p) \in Nat /\ Len(q) \in Nat /\ Len(r) \in Nat
  BY NamespaceFacts
<1>2. Shares(p, q) /\ Shares(q, r)
  BY OnChainShares
<1>3. Shares(p, r)
  BY <1>1, <1>2 DEF Shares
<1> QED BY <1>3, OnChainShares

-----------------------------------------------------------------------------
(* Stacks.                                                                 *)

LEMMA StackFacts ==
  ASSUME NEW s, IsStack(s)
  PROVE  Len(s) \in Nat /\ DOMAIN s = 1..Len(s)
BY DEF IsStack

LEMMA ListIsStack ==
  ASSUME NEW n \in Nat, NEW s, s = [i \in 1..n |-> s[i]]
  PROVE  IsStack(s) /\ Len(s) = n
<1> DEFINE S == {s[i] : i \in 1..n}
<1>1. \A i \in 1..n : s[i] \in S
  OBVIOUS
<1> HIDE DEF S
<1>2. s \in [1..n -> S]
  BY <1>1
<1>3. s \in Seq(S) /\ Len(s) = n
  BY <1>2
<1> QED BY <1>3 DEF IsStack

LEMMA PushFacts ==
  ASSUME NEW s, IsStack(s), NEW x
  PROVE  /\ IsStack(Append(s, x)) /\ Len(Append(s, x)) = Len(s) + 1
         /\ \A i \in 1..Len(s) : Append(s, x)[i] = s[i]
         /\ Append(s, x)[Len(s) + 1] = x
<1>1. PICK S : s \in Seq(S)
  BY DEF IsStack
<1>2. s \in Seq(S \cup {x}) /\ x \in S \cup {x}
  BY <1>1
<1> HIDE <1>1
<1> DEFINE T == S \cup {x}
<1> HIDE DEF T
<1>3. s \in Seq(T) /\ x \in T
  BY <1>2 DEF T
<1> QED BY <1>3, AppendProperties DEF IsStack

LEMMA CutFacts ==
  ASSUME NEW s, IsStack(s), NEW n \in 0..Len(s)
  PROVE  /\ IsStack(SubSeq(s, 1, n)) /\ Len(SubSeq(s, 1, n)) = n
         /\ \A i \in 1..n : SubSeq(s, 1, n)[i] = s[i]
<1>1. PICK S : s \in Seq(S)
  BY DEF IsStack
<1>2. SubSeq(s, 1, n) \in Seq(S) /\ Len(SubSeq(s, 1, n)) = n
      /\ \A i \in 1..n : SubSeq(s, 1, n)[i] = s[i]
  BY <1>1, PrefixFacts
<1> QED BY <1>2 DEF IsStack

(* t is s with x in place n.                                               *)
IsSet(s, n, x, t) ==
  /\ IsStack(t) /\ Len(t) = Len(s)
  /\ \A i \in 1..Len(s) : t[i] = IF i = n THEN x ELSE s[i]

LEMMA SetFacts ==
  ASSUME NEW s, IsStack(s), NEW n \in 1..Len(s), NEW x
  PROVE  IsSet(s, n, x, [s EXCEPT ![n] = x])
<1>t. PICK t : t = [s EXCEPT ![n] = x]
  OBVIOUS
<1>1. Len(s) \in Nat /\ DOMAIN s = 1..Len(s)
  BY StackFacts
<1>2. t = [i \in 1..Len(s) |-> IF i = n THEN x ELSE s[i]]
  <2>1. s = [i \in 1..Len(s) |-> s[i]]
    BY <1>1 DEF IsStack
  <2> QED BY <2>1, <1>1, <1>t
<1>3. t = [i \in 1..Len(s) |-> t[i]] /\ \A i \in 1..Len(s) : t[i] = IF i = n THEN x ELSE s[i]
  BY <1>2
<1>4. IsStack(t) /\ Len(t) = Len(s)
  BY <1>1, <1>3, ListIsStack
<1> QED BY <1>t, <1>3, <1>4 DEF IsSet

-----------------------------------------------------------------------------
(* What a step may do to the frames under way: g is what becomes of f.     *)
Follows(f, g) ==
  /\ g.kind = f.kind
  /\ f.kind = "action" => /\ g.plugin = f.plugin /\ g.armed = f.armed
                          /\ f.expired => g.expired
                          /\ f.left = << 0 >> => g.left = << 0 >>

(* And how a frame comes on top: from outside, or called by the top one.   *)
Enters(x) ==
  \/ /\ stack = <<>> \/ Current.kind = "event"
     /\ Stopping(x) => cancelled
  \/ /\ stack # <<>> /\ Current.kind = "action"
     /\ IsOnChain(x.plugin, Current.plugin)
     /\ Stopping(x) => Stopping(Current)

(* The steps of the calls: frame by frame, a frame goes on and is told to  *)
(* stop only if it was asked to, and one frame may come on top.            *)
GoesOn(i) ==
  /\ Follows(stack[i], stack'[i])
  /\ Stopping(stack'[i]) => Stopping(stack[i]) \/ Asked(i) \/ Asked(i)'

Keeps ==
  /\ IsStack(stack') /\ Len(stack') <= Len(stack) + 1
  /\ cancelled' \in BOOLEAN /\ (cancelled => cancelled') /\ (report' = "cancelled" => cancelled')
  /\ \A i \in 1..Len(stack') : FrameInv(stack'[i])
  /\ \A i \in 1..Len(stack') : i <= Len(stack) => GoesOn(i)
  /\ Len(stack') = Len(stack) + 1 /\ stack'[Len(stack')].kind = "action"
       => Enters(stack'[Len(stack')])

(* A step that keeps to this keeps the invariant.                          *)
LEMMA StepKeeps ==
  ASSUME CallsInv, Keeps
  PROVE  CallsInv'
<1>n. PICK n : n = Len(stack)
  OBVIOUS
<1>m. PICK m : m = Len(stack')
  OBVIOUS
<1>1. n \in Nat /\ m \in Nat /\ DOMAIN stack = 1..n /\ DOMAIN stack' = 1..m
  BY <1>n, <1>m, StackFacts DEF CallsInv, Keeps
<1>2. /\ m <= n + 1 /\ (cancelled => cancelled')
      /\ \A i \in 1..m : i <= n => GoesOn(i)
      /\ m = n + 1 /\ stack'[m].kind = "action" => Enters(stack'[m])
      /\ n > 0 => Current = stack[n]
      /\ \A i \in 1..n : Stopping(stack[i]) => Asked(i)
  BY <1>n, <1>m DEF Keeps, Current, CallsInv
<1>3. \A i \in 1..m : stack'[i].kind = "action" => stack'[i].plugin \in Identities
  BY <1>m DEF Keeps, FrameInv, ActionShape
<1>4. \A i \in 1..n : stack[i].kind = "action" => stack[i].plugin \in Identities
  BY <1>n DEF CallsInv, FrameInv, ActionShape
<1>5. n = 0 <=> stack = <<>>
  BY <1>n, EmptySeq DEF CallsInv, IsStack
<1>6. CallsStayOnChain <=>
        \A i, j \in 1..n : CalledFrom(i, j) => IsOnChain(stack[j].plugin, stack[i].plugin)
  BY <1>1 DEF CallsStayOnChain
<1>7. CallsStayOnChain' <=>
        \A i, j \in 1..m : CalledFrom(i, j)' => IsOnChain(stack'[j].plugin, stack'[i].plugin)
  BY <1>1 DEF CallsStayOnChain
<1>8. CallsStayOnChain
  BY DEF CallsInv
<1>9. CallsStayOnChain' /\ (\A i \in 1..m : Stopping(stack'[i]) => Asked(i)') => CallsInv'
  BY <1>m DEF CallsInv, Keeps
<1>10. ASSUME NEW i \in 1..m, NEW j \in 1..m, i <= n, j <= n
      PROVE  CalledFrom(i, j)' <=> CalledFrom(i, j)
  <2>1. \A k \in i..j : k \in 1..m /\ k <= n
    BY <1>1, <1>10
  <2>2. \A k \in i..j : stack'[k].kind = stack[k].kind
    BY <2>1, <1>2 DEF GoesOn, Follows
  <2> QED BY <2>2 DEF CalledFrom
<1>11. ASSUME NEW i \in 1..m, i <= n, Asked(i) PROVE Asked(i)'
  <2>1. CASE cancelled
    BY <2>1, <1>2 DEF Asked
  <2>2. CASE ~cancelled
    <3>1. PICK j \in 1..i : CalledFrom(j, i) /\ Overdue(j) /\ stack[j].expired
      BY <1>11, <2>2 DEF Asked
    <3>2. j \in 1..m /\ j <= n
      BY <1>1, <1>11
    <3>3. Follows(stack[j], stack'[j])
      BY <3>2, <1>2 DEF GoesOn
    <3>4. Overdue(j)' /\ stack'[j].expired
      BY <3>1, <3>3 DEF Overdue, Follows
    <3> QED BY <1>10, <1>11, <3>1, <3>2, <3>4 DEF Asked
  <2> QED BY <2>1, <2>2
<1>12. ASSUME m = n + 1, n > 0, Current.kind = "action", NEW i \in 1..m,
             stack'[m].kind = "action"
      PROVE  CalledFrom(i, m)' <=> (i = m \/ CalledFrom(i, n))
  <2>1. n \in 1..m /\ n <= n /\ Current = stack[n]
    BY <1>2, <1>1, <1>12
  <2>2. CASE i = m
    BY <2>2, <1>1, <1>12 DEF CalledFrom
  <2>3. CASE i # m
    <3>1. i <= n
      BY <1>1, <1>12, <2>3
    <3>2. CalledFrom(i, n)' <=> CalledFrom(i, n)
      BY <1>10, <2>1, <3>1
    <3>3. i..m = (i..n) \cup {m}
      BY <1>1, <1>12, <3>1
    <3>4. CalledFrom(i, m)' <=> CalledFrom(i, n)'
      BY <1>1, <1>12, <3>1, <3>3 DEF CalledFrom
    <3> QED BY <2>3, <3>2, <3>4
  <2> QED BY <2>2, <2>3
<1>13. ASSUME m = n + 1, n = 0 \/ Current.kind = "event", NEW i \in 1..m, CalledFrom(i, m)'
      PROVE  i = m
  <2>1. CASE n = 0
    BY <2>1, <1>1, <1>13
  <2>2. CASE n > 0 /\ i # m
    <3>1. n \in i..m /\ n \in 1..m /\ Current = stack[n]
      BY <1>2, <1>1, <1>13, <2>2
    <3>2. stack'[n].kind = "event"
      BY <3>1, <1>1, <1>13, <2>2, <1>2 DEF GoesOn, Follows
    <3> QED BY <3>1, <3>2, <1>13 DEF CalledFrom
  <2> QED BY <2>1, <2>2, <1>1
<1>14. CallsStayOnChain'
  <2> SUFFICES ASSUME NEW i \in 1..m, NEW j \in 1..m, CalledFrom(i, j)'
               PROVE  IsOnChain(stack'[j].plugin, stack'[i].plugin)
    BY <1>7
  <2>1. i <= j /\ stack'[i].kind = "action" /\ stack'[j].kind = "action"
    BY <1>1 DEF CalledFrom
  <2>2. CASE i = j
    BY <2>1, <2>2, <1>3, OnChainReflexive
  <2>3. CASE j <= n
    <3>1. i <= n /\ CalledFrom(i, j)
      BY <2>1, <2>3, <1>1, <1>10
    <3>2. IsOnChain(stack[j].plugin, stack[i].plugin)
      BY <3>1, <2>3, <1>6, <1>8
    <3> QED BY <3>1, <3>2, <2>1, <2>3, <1>2 DEF GoesOn, Follows
  <2>4. CASE i # j /\ ~ (j <= n)
    <3>1. j = m /\ m = n + 1 /\ i <= n /\ Enters(stack'[m])
      BY <2>1, <2>4, <1>2, <1>1
    <3>2. n > 0 /\ Current.kind = "action" /\ IsOnChain(stack'[m].plugin, Current.plugin)
      BY <3>1, <2>4, <1>1, <1>5, <1>13 DEF Enters
    <3>3. CalledFrom(i, n)
      BY <3>1, <3>2, <2>1, <2>4, <1>12
    <3>4. n \in 1..n /\ i \in 1..n /\ Current = stack[n]
      BY <1>2, <3>1, <3>2, <1>1
    <3>5. IsOnChain(Current.plugin, stack[i].plugin)
      BY <3>3, <3>4, <1>6, <1>8
    <3>6. stack'[i].plugin = stack[i].plugin /\ stack[i].kind = "action"
      BY <3>1, <2>1, <1>2 DEF GoesOn, Follows
    <3> QED BY <3>1, <3>2, <3>4, <3>5, <3>6, <2>1, <1>3, <1>4, OnChainTransitive
  <2> QED BY <2>2, <2>3, <2>4
<1>15. ASSUME NEW i \in 1..m, Stopping(stack'[i]) PROVE Asked(i)'
  <2>1. CASE i <= n
    BY <2>1, <1>1, <1>2, <1>11, <1>15 DEF GoesOn
  <2>2. CASE ~ (i <= n)
    <3>1. i = m /\ m = n + 1 /\ stack'[m].kind = "action" /\ Enters(stack'[m])
      BY <2>2, <1>2, <1>1, <1>15 DEF Stopping
    <3>2. CASE cancelled
      BY <3>2, <1>2 DEF Asked
    <3>3. CASE ~cancelled
      <4>1. n > 0 /\ Current.kind = "action" /\ Stopping(Current)
        BY <3>1, <3>3, <1>1, <1>5, <1>15 DEF Enters
      <4>2. n \in 1..n /\ n \in 1..m /\ Current = stack[n]
        BY <1>2, <4>1, <3>1, <1>1
      <4>3. Asked(n)'
        BY <4>1, <4>2, <1>2, <1>11
      <4>4. CASE cancelled'
        BY <4>4 DEF Asked
      <4>5. CASE ~cancelled'
        <5>1. PICK j \in 1..n : CalledFrom(j, n)' /\ Overdue(j)' /\ stack'[j].expired
          BY <4>3, <4>5 DEF Asked
        <5>2. j \in 1..m /\ j <= n
          BY <5>1, <3>1, <1>1
        <5>3. CalledFrom(j, n)
          BY <5>1, <5>2, <4>2, <1>10
        <5>4. CalledFrom(j, m)'
          BY <5>2, <5>3, <3>1, <4>1, <1>12
        <5> QED BY <5>1, <5>2, <5>4, <3>1 DEF Asked
      <4> QED BY <4>4, <4>5
    <3> QED BY <3>2, <3>3
  <2> QED BY <2>1, <2>2
<1> QED BY <1>14, <1>15, <1>9

-----------------------------------------------------------------------------
(* Frames.                                                                 *)

LEMMA PullIsOwn ==
  ASSUME NEW p, NEW e, NEW answer, Pull(p, e, answer) # <<>>
  PROVE  Own(Pull(p, e, answer)[1], p)
BY DEF Pull, Own, IntersectDeclared

LEMMA NewFrame ==
  ASSUME NEW p \in Identities, NEW a, NEW d, NEW c, NEW cap, cap.armed \in BOOLEAN,
         NEW fired \in BOOLEAN, NEW secrets, Own(secrets, p)
  PROVE  LET f == Frame(p, a, d, c, cap, fired, secrets)
         IN FrameInv(f) /\ f.kind = "action" /\ f.plugin = p /\ (Stopping(f) <=> fired)
<1> DEFINE f == Frame(p, a, d, c, cap, fired, secrets)
<1>1. /\ f.kind = "action" /\ f.plugin = p /\ f.action = a /\ f.depth = d /\ f.cascade = c
      /\ f.left = cap.left /\ f.armed = cap.armed /\ f.expired = FALSE /\ f.fired = fired
      /\ f.secrets = secrets /\ f.body = <<>> /\ f.step = <<>> /\ f.ends = ""
  BY DEF Frame
<1>2. f = [kind |-> "action", plugin |-> f.plugin, action |-> f.action, depth |-> f.depth,
           cascade |-> f.cascade, left |-> f.left, armed |-> f.armed, expired |-> f.expired,
           fired |-> f.fired, secrets |-> f.secrets, body |-> f.body, step |-> f.step, ends |-> f.ends]
  BY DEF Frame
<1> HIDE DEF f
<1>3. ActionShape(f)
  BY <1>1, <1>2 DEF ActionShape
<1>4. ViewInv(f)
  BY <1>1 DEF ViewInv
<1>5. Stopping(f) <=> fired
  BY <1>1 DEF Stopping
<1> QED BY <1>1, <1>3, <1>4, <1>5 DEF FrameInv, f

LEMMA NewLoop ==
  ASSUME NEW e, NEW c
  PROVE  FrameInv(EventLoop(e, c)) /\ EventLoop(e, c).kind = "event"
BY DEF EventLoop, FrameInv, EventShape

WithAnswer(f, got) == [f EXCEPT !.step[1].got = got]

HasAnswer(f, got, g) ==
  /\ ActionShape(g) /\ g.kind = "action" /\ g.plugin = f.plugin /\ g.armed = f.armed
  /\ g.left = f.left /\ g.expired = f.expired /\ g.fired = f.fired /\ g.ends = f.ends
  /\ g.secrets = f.secrets /\ g.body = f.body
  /\ g.step # <<>> /\ g.step[1].got = got /\ g.step[1].type = f.step[1].type

LEMMA GetsAnswer ==
  ASSUME NEW f, NEW got, ActionShape(f), f.step # <<>>
  PROVE  HasAnswer(f, got, WithAnswer(f, got))
<1>g. PICK g : g = WithAnswer(f, got)
  OBVIOUS
<1> DEFINE st == <<[type |-> f.step[1].type, key |-> f.step[1].key, got |-> got]>>
<1>1. f.step = <<[type |-> f.step[1].type, key |-> f.step[1].key, got |-> f.step[1].got]>>
  BY DEF ActionShape
<1>2. [f.step EXCEPT ![1].got = got] = st
  BY <1>1
<1>3. g = [f EXCEPT !.step = [f.step EXCEPT ![1].got = got]]
  BY <1>g DEF WithAnswer, ActionShape
<1>4. g = [f EXCEPT !.step = st]
  BY <1>2, <1>3
<1>5. st # <<>> /\ st[1].got = got /\ st[1].type = f.step[1].type /\ st[1].key = f.step[1].key
  OBVIOUS
<1>6. st = <<[type |-> st[1].type, key |-> st[1].key, got |-> st[1].got]>>
  BY <1>5
<1> HIDE DEF st
<1>7. g = [kind |-> "action", plugin |-> f.plugin, action |-> f.action, depth |-> f.depth,
           cascade |-> f.cascade, left |-> f.left, armed |-> f.armed, expired |-> f.expired,
           fired |-> f.fired, secrets |-> f.secrets, body |-> f.body, step |-> st, ends |-> f.ends]
  BY <1>4 DEF ActionShape
<1>8. HasAnswer(f, got, g)
  BY <1>5, <1>6, <1>7 DEF ActionShape, HasAnswer
<1> QED BY <1>g, <1>8

LEMMA NoStepNoAnswer ==
  ASSUME NEW f, NEW got, ActionShape(f), f.step = <<>>
  PROVE  WithAnswer(f, got) = f
<1>1. [f.step EXCEPT ![1].got = got] = f.step
  OBVIOUS
<1> QED BY <1>1 DEF ActionShape, WithAnswer

(* An answer to a caller's step: the frame goes on, and stops only if that *)
(* is the answer.                                                          *)
LEMMA AnsweredFacts ==
  ASSUME NEW f, NEW got, got # "", FrameInv(f), f.kind = "action"
  PROVE  LET g == Answered(f, got)
         IN FrameInv(g) /\ Follows(f, g) /\ (Stopping(g) => Stopping(f) \/ got = "cancelled")
<1>1. ActionShape(f) /\ ViewInv(f)
  BY DEF FrameInv
<1>2. Answered(f, got) \in {f, WithAnswer(f, got)}
  BY DEF Answered, WithAnswer
<1>3. CASE Answered(f, got) = f
  BY <1>3 DEF Follows
<1>4. CASE Answered(f, got) = WithAnswer(f, got) /\ f.step = <<>>
  <2>1. Answered(f, got) = f
    BY <1>1, <1>4, NoStepNoAnswer
  <2> QED BY <2>1 DEF Follows
<1>5. CASE Answered(f, got) = WithAnswer(f, got) /\ f.step # <<>>
  <2>g. PICK g : g = Answered(f, got)
    OBVIOUS
  <2>1. HasAnswer(f, got, g)
    BY <1>1, <1>5, <2>g, GetsAnswer
  <2>2. ViewInv(g)
    BY <1>1, <1>5, <2>1 DEF ViewInv, HasAnswer
  <2>3. Follows(f, g)
    BY <2>1 DEF Follows, HasAnswer
  <2>4. Stopping(g) => Stopping(f) \/ got = "cancelled"
    BY <2>1 DEF Stopping, HasAnswer
  <2> QED BY <2>g, <2>1, <2>2, <2>3, <2>4 DEF FrameInv, HasAnswer
<1> QED BY <1>2, <1>3, <1>4, <1>5

-----------------------------------------------------------------------------
(* The kinds of step.                                                      *)

LEMMA CurrentFacts ==
  ASSUME CallsInv, stack # <<>>
  PROVE  /\ Len(stack) \in 1..Len(stack) /\ Current = stack[Len(stack)] /\ FrameInv(Current)
         /\ Current.kind = "action" => ActionShape(Current) /\ ViewInv(Current)
<1>1. Len(stack) \in Nat /\ Len(stack) # 0
  BY EmptySeq DEF CallsInv, IsStack
<1> QED BY <1>1 DEF CallsInv, FrameInv, Current

LEMMA FollowsItself ==
  ASSUME NEW f
  PROVE  Follows(f, f)
BY DEF Follows

(* Only the top frame changes.                                             *)
LEMMA SetTopKeeps ==
  ASSUME CallsInv, stack # <<>>, UNCHANGED <<cancelled, report>>, NEW g, SetTop(g),
         FrameInv(g), Follows(Current, g),
         Stopping(g) => Stopping(Current) \/ Asked(Len(stack))
  PROVE  CallsInv'
<1>n. PICK n : n = Len(stack)
  OBVIOUS
<1>1. n \in Nat /\ n \in 1..n /\ Current = stack[n]
  BY <1>n, CurrentFacts, StackFacts DEF CallsInv
<1>2. IsStack(stack') /\ Len(stack') = n
      /\ \A i \in 1..n : stack'[i] = IF i = n THEN g ELSE stack[i]
  <2>1. IsStack(stack) /\ n \in 1..Len(stack) /\ stack' = [stack EXCEPT ![n] = g]
    BY <1>n, <1>1 DEF CallsInv, SetTop
  <2>2. IsSet(stack, n, g, stack')
    BY <2>1, SetFacts, Zenon
  <2> QED BY <1>n, <2>2 DEF IsSet
<1>3. \A i \in 1..n : GoesOn(i)
  <2> TAKE i \in 1..n
  <2>1. CASE i = n
    BY <2>1, <1>n, <1>1, <1>2 DEF GoesOn
  <2>2. CASE i # n
    BY <2>2, <1>2, FollowsItself DEF GoesOn
  <2> QED BY <2>1, <2>2
<1>4. \A i \in 1..n : FrameInv(stack'[i])
  BY <1>n, <1>2 DEF CallsInv
<1>5. Keeps
  BY <1>n, <1>1, <1>2, <1>3, <1>4 DEF Keeps, CallsInv
<1> QED BY <1>5, StepKeeps

(* A frame comes on top of a stack that does not change.                   *)
LEMMA PushKeeps ==
  ASSUME CallsInv, NEW x, Push(x), FrameInv(x), x.kind = "action" => Enters(x)
  PROVE  CallsInv'
<1>n. PICK n : n = Len(stack)
  OBVIOUS
<1>1. n \in Nat
  BY <1>n, StackFacts DEF CallsInv
<1>2. IsStack(stack') /\ Len(stack') = n + 1 /\ stack'[n + 1] = x
      /\ \A i \in 1..n : stack'[i] = stack[i]
  BY <1>n, PushFacts DEF CallsInv, Push
<1>3. \A i \in 1..(n + 1) : i <= n => GoesOn(i)
  BY <1>1, <1>2, FollowsItself DEF GoesOn
<1>4. \A i \in 1..(n + 1) : FrameInv(stack'[i])
  <2> TAKE i \in 1..(n + 1)
  <2>1. CASE i = n + 1
    BY <2>1, <1>2
  <2>2. CASE i # n + 1
    <3>1. i \in 1..n
      BY <2>2, <1>1
    <3> QED BY <3>1, <1>n, <1>2 DEF CallsInv
  <2> QED BY <2>1, <2>2
<1>5. Keeps
  BY <1>n, <1>1, <1>2, <1>3, <1>4 DEF Keeps, CallsInv, Push
<1> QED BY <1>5, StepKeeps

(* Every frame changes in place.                                           *)
LEMMA MapKeeps ==
  ASSUME CallsInv, NEW n, n = Len(stack), stack' = [i \in 1..n |-> stack'[i]],
         cancelled' \in BOOLEAN, cancelled => cancelled', UNCHANGED report,
         \A i \in 1..n : FrameInv(stack'[i]) /\ GoesOn(i)
  PROVE  CallsInv'
<1>1. n \in Nat
  BY StackFacts DEF CallsInv
<1>2. IsStack(stack') /\ Len(stack') = n
  BY <1>1, ListIsStack
<1>3. Keeps
  BY <1>1, <1>2 DEF Keeps, CallsInv
<1> QED BY <1>3, StepKeeps

(* A frame that goes on with other flags, or with another step.            *)
SameButFlags(f, g) ==
  /\ g = [kind |-> "action", plugin |-> f.plugin, action |-> f.action, depth |-> f.depth,
          cascade |-> f.cascade, left |-> g.left, armed |-> f.armed, expired |-> g.expired,
          fired |-> g.fired, secrets |-> f.secrets, body |-> f.body, step |-> f.step, ends |-> f.ends]
  /\ g.expired \in BOOLEAN /\ g.fired \in BOOLEAN
  /\ f.expired => g.expired
  /\ f.left = << 0 >> => g.left = << 0 >>

LEMMA FlagsFacts ==
  ASSUME NEW f, FrameInv(f), f.kind = "action", NEW g, SameButFlags(f, g)
  PROVE  /\ FrameInv(g) /\ Follows(f, g) /\ g.kind = "action" /\ g.armed = f.armed
         /\ Stopping(g) => Stopping(f) \/ g.fired # f.fired
<1>1. ActionShape(f) /\ ViewInv(f)
  BY DEF FrameInv
<1>2. /\ g.kind = "action" /\ g.plugin = f.plugin /\ g.action = f.action /\ g.depth = f.depth
      /\ g.cascade = f.cascade /\ g.armed = f.armed
      /\ g.secrets = f.secrets /\ g.body = f.body /\ g.step = f.step /\ g.ends = f.ends
  BY DEF SameButFlags
<1>3. ActionShape(g)
  BY <1>1, <1>2 DEF ActionShape, SameButFlags
<1>4. ViewInv(g)
  BY <1>1, <1>2 DEF ViewInv
<1>5. Follows(f, g) /\ (Stopping(g) => Stopping(f) \/ g.fired # f.fired)
  BY <1>2 DEF Follows, Stopping, SameButFlags
<1> QED BY <1>2, <1>3, <1>4, <1>5 DEF FrameInv

Told(f) == [f EXCEPT !.fired = TRUE]
Expired(f) == [[f EXCEPT !.fired = TRUE] EXCEPT !.expired = TRUE]
WithLeft(f, l) == [f EXCEPT !.left = l]

LEMMA FlagForms ==
  ASSUME NEW f, FrameInv(f), f.kind = "action", NEW g
  PROVE  /\ g = Told(f) => SameButFlags(f, g)
         /\ g = Expired(f) => SameButFlags(f, g) /\ g.left = f.left /\ g.expired
         /\ \A l : g = WithLeft(f, l) /\ f.left # << 0 >> => SameButFlags(f, g) /\ g.fired = f.fired
<1>1. ActionShape(f)
  BY DEF FrameInv
<1>2. ASSUME g = Told(f) PROVE SameButFlags(f, g)
  BY <1>1, <1>2 DEF ActionShape, Told, SameButFlags
<1>3. ASSUME g = Expired(f) PROVE SameButFlags(f, g) /\ g.left = f.left /\ g.expired
  BY <1>1, <1>3 DEF ActionShape, Expired, SameButFlags
<1>4. ASSUME NEW l, g = WithLeft(f, l), f.left # << 0 >> PROVE SameButFlags(f, g) /\ g.fired = f.fired
  BY <1>1, <1>4 DEF ActionShape, WithLeft, SameButFlags
<1> QED BY <1>2, <1>3, <1>4

LEMMA StepFacts ==
  ASSUME NEW f, FrameInv(f), f.kind = "action", NEW g, NEW st, NEW b, NEW e,
         g = [f EXCEPT !.step = st, !.body = b, !.ends = e],
         st # <<>> => st = <<[type |-> st[1].type, key |-> st[1].key, got |-> st[1].got]>>,
         b # <<>> => st # <<>>,
         st # <<>> =>
           LET owner == BodyOwner(f.plugin, st[1].type)
           IN /\ owner # <<>> /\ st[1].got = "" => b # <<>>
              /\ b # <<>> => owner # <<>> /\ Own(b[1], owner[1]),
         st # <<>> => st[1].got # "cancelled",
         e = "cancelled" => Stopping(f)
  PROVE  FrameInv(g) /\ Follows(f, g) /\ (Stopping(g) => Stopping(f))
<1>1. ActionShape(f) /\ ViewInv(f)
  BY DEF FrameInv
<1>2. g = [kind |-> "action", plugin |-> f.plugin, action |-> f.action, depth |-> f.depth,
           cascade |-> f.cascade, left |-> f.left, armed |-> f.armed, expired |-> f.expired,
           fired |-> f.fired, secrets |-> f.secrets, body |-> b, step |-> st, ends |-> e]
  BY <1>1 DEF ActionShape
<1>3. /\ g.kind = "action" /\ g.plugin = f.plugin /\ g.action = f.action /\ g.depth = f.depth
      /\ g.cascade = f.cascade /\ g.left = f.left /\ g.armed = f.armed /\ g.expired = f.expired
      /\ g.fired = f.fired /\ g.secrets = f.secrets /\ g.body = b /\ g.step = st /\ g.ends = e
  BY <1>2
<1>4. ActionShape(g)
  BY <1>1, <1>2, <1>3 DEF ActionShape
<1>5. ViewInv(g)
  BY <1>1, <1>3 DEF ViewInv
<1>6. Follows(f, g)
  BY <1>3 DEF Follows
<1>7. Stopping(g) => Stopping(f)
  BY <1>3 DEF Stopping
<1> QED BY <1>3, <1>4, <1>5, <1>6, <1>7 DEF FrameInv

(* Frames go, down to i, which answers the frame below it.                 *)
LEMMA PopKeeps ==
  ASSUME CallsInv, NEW i, i \in 1..Len(stack), NEW outcome, PopTo(i, outcome), UNCHANGED cancelled,
         outcome = "cancelled" => \/ cancelled
                                  \/ i > 1 /\ Asked(i - 1)
  PROVE  CallsInv'
<1>n. PICK n : n = Len(stack)
  OBVIOUS
<1>1. n \in Nat /\ i \in 1..n /\ IsStack(stack)
  BY <1>n, StackFacts DEF CallsInv
<1>2. CASE i = 1
  <2>1. stack' = <<>> /\ (report' = "cancelled" => cancelled)
    BY <1>2 DEF PopTo
  <2>2. IsStack(stack') /\ Len(stack') = 0
    BY <2>1, EmptySeq DEF IsStack
  <2>3. Keeps
    BY <1>n, <1>1, <2>1, <2>2 DEF Keeps, CallsInv
  <2> QED BY <2>3, StepKeeps
<1>3. CASE i > 1
  <2>t. PICK m : m = i - 1
    OBVIOUS
  <2>1. m \in 0..n /\ m \in 1..m /\ m \in 1..n /\ m <= n
    BY <1>1, <1>3, <2>t
  <2>s. PICK s : s = SubSeq(stack, 1, m)
    OBVIOUS
  <2>2. IsStack(s) /\ Len(s) = m /\ \A j \in 1..m : s[j] = stack[j]
    BY <1>n, <1>1, <2>1, <2>s, CutFacts
  <2>3. UNCHANGED report /\ stack' = IF stack[m].kind = "event" THEN s
                   ELSE [s EXCEPT ![m] = Answered(@, FromCallee(outcome))]
    BY <1>3, <2>t, <2>s DEF PopTo
  <2>4. \A j \in 1..m : FrameInv(stack[j])
    BY <1>n, <2>1 DEF CallsInv
  <2>x. PICK x : x = IF stack[m].kind = "event" THEN s[m] ELSE Answered(s[m], FromCallee(outcome))
    OBVIOUS
  <2>5. IsStack(stack') /\ Len(stack') = m
        /\ \A j \in 1..m : stack'[j] = IF j = m THEN x ELSE stack[j]
    <3>1. CASE stack[m].kind = "event"
      BY <3>1, <2>1, <2>2, <2>3, <2>x
    <3>2. CASE stack[m].kind # "event"
      <4>1. stack' = [s EXCEPT ![m] = x] /\ m \in 1..Len(s)
        BY <3>2, <2>1, <2>2, <2>3, <2>x
      <4>2. IsSet(s, m, x, stack')
        BY <4>1, <2>2, SetFacts, Zenon
      <4> QED BY <4>2, <2>2 DEF IsSet
    <3> QED BY <3>1, <3>2
  <2>6. FromCallee(outcome) # "" /\ (FromCallee(outcome) = "cancelled" => outcome = "cancelled")
    BY DEF FromCallee
  <2>7. FrameInv(x) /\ Follows(stack[m], x)
        /\ (Stopping(x) => Stopping(stack[m]) \/ outcome = "cancelled")
    <3>1. s[m] = stack[m] /\ FrameInv(stack[m])
      BY <2>1, <2>2, <2>4
    <3>2. CASE stack[m].kind = "event"
      BY <3>1, <3>2, <2>x, FollowsItself
    <3>3. CASE stack[m].kind # "event"
      <4>1. stack[m].kind = "action" /\ x = Answered(stack[m], FromCallee(outcome))
        BY <3>1, <3>3, <2>x DEF FrameInv
      <4> QED BY <4>1, <3>1, <2>6, AnsweredFacts
    <3> QED BY <3>2, <3>3
  <2>8. \A j \in 1..m : GoesOn(j)
    <3> TAKE j \in 1..m
    <3>1. CASE j # m
      BY <3>1, <2>5, FollowsItself DEF GoesOn
    <3>2. CASE j = m
      <4>1. outcome = "cancelled" => Asked(m)
        BY <2>t DEF Asked
      <4>2. stack'[m] = x
        BY <2>1, <2>5
      <4> QED BY <3>2, <2>7, <4>1, <4>2 DEF GoesOn
    <3> QED BY <3>1, <3>2
  <2>9. \A j \in 1..m : FrameInv(stack'[j])
    BY <2>4, <2>5, <2>7
  <2>10. Keeps
    BY <1>n, <1>1, <2>1, <2>3, <2>5, <2>8, <2>9 DEF Keeps, CallsInv
  <2> QED BY <2>10, StepKeeps
<1> QED BY <1>1, <1>2, <1>3

LEMMA SameStack ==
  ASSUME CallsInv, UNCHANGED <<stack, cancelled>>, report' = "cancelled" => cancelled
  PROVE  CallsInv'
BY DEF CallsInv, CallsStayOnChain, CalledFrom, Asked, Overdue

-----------------------------------------------------------------------------
(* The actions, one by one.                                                *)

LEMMA ActionPlugins ==
  ASSUME NEW p, NEW a, HasAction(p, a)
  PROVE  p \in Identities
<1>1. <<p, a>> \in Tables.actions /\ <<p, a>>[1] = p
  BY DEF HasAction
<1> QED BY <1>1, CallsAssumption DEF Identities

LEMMA CapFacts ==
  ASSUME NEW action, NEW left
  PROVE  OwnCap(action).armed \in BOOLEAN /\ CalleeWallclock(action, left).armed \in BOOLEAN
BY DEF OwnCap, CalleeWallclock

LEMMA StartKeeps ==
  ASSUME CallsInv, NEW p, NEW a, Idle, Start(p, a)
  PROVE  CallsInv'
<1>1. CASE RunFailed
  BY <1>1, SameStack DEF RunFailed
<1>2. CASE ~RunFailed
  <2>1. HasAction(p, a)
    BY <1>2 DEF Start
  <2>2. PICK answer \in Answers :
          /\ Pull(p, p, answer) # <<>>
          /\ Push(Frame(p, a, 0, 0, OwnCap(ActionOf(p, a)), cancelled, Pull(p, p, answer)[1]))
    BY <1>2, <2>1 DEF Start
  <2>f. PICK f : f = Frame(p, a, 0, 0, OwnCap(ActionOf(p, a)), cancelled, Pull(p, p, answer)[1])
    OBVIOUS
  <2>3. FrameInv(f) /\ (Stopping(f) <=> cancelled)
    <3>1. p \in Identities /\ OwnCap(ActionOf(p, a)).armed \in BOOLEAN /\ cancelled \in BOOLEAN
      BY <2>1, ActionPlugins, CapFacts DEF CallsInv
    <3>2. Own(Pull(p, p, answer)[1], p)
      BY <2>2, PullIsOwn
    <3> QED BY <3>1, <3>2, <2>f, NewFrame
  <2>4. Enters(f)
    BY <2>3 DEF Enters, Idle
  <2> QED BY <2>2, <2>3, <2>4, <2>f, PushKeeps
<1> QED BY <1>1, <1>2

LEMMA BeginKeeps ==
  ASSUME CallsInv, NEW written, BeginStep(written)
  PROVE  CallsInv'
<1>1. /\ stack # <<>> /\ Current.kind = "action" /\ Current.step = <<>> /\ Current.ends = ""
      /\ UNCHANGED <<cancelled, report>>
  BY DEF BeginStep, IsAction
<1>2. FrameInv(Current) /\ ActionShape(Current) /\ ViewInv(Current)
  BY <1>1, CurrentFacts
<1>3. Current.body = <<>>
  BY <1>1, <1>2 DEF ViewInv
<1>o. PICK owner : owner = BodyOwner(Current.plugin, written)
  OBVIOUS
<1>k. PICK key : key = ResolveStepType(Current.plugin, written)[1]
  OBVIOUS
<1>s. PICK step : step = [type |-> written, key |-> key, got |-> ""]
  OBVIOUS
<1>f. PICK failed : failed = [step EXCEPT !.got = "failed"]
  OBVIOUS
<1>r. /\ step = [type |-> step.type, key |-> step.key, got |-> step.got]
      /\ step.type = written /\ step.got = ""
  BY <1>s
<1>t. /\ failed = [type |-> failed.type, key |-> failed.key, got |-> failed.got]
      /\ failed.type = written /\ failed.got = "failed"
  BY <1>s, <1>f
<1>d. failed # step
  BY <1>s, <1>f
<1>4. \/ SetTop([Current EXCEPT !.ends = "failed"])
      \/ owner = <<>> /\ SetTop([Current EXCEPT !.step = <<step>>])
      \/ SetTop([Current EXCEPT !.step = <<failed>>])
      \/ \E answer \in Answers :
           /\ owner # <<>> /\ Pull(owner[1], Current.plugin, answer) # <<>>
           /\ SetTop([Current EXCEPT !.step = <<step>>, !.body = Pull(owner[1], Current.plugin, answer)])
  <2>1. \/ SetTop([Current EXCEPT !.ends = "failed"])
        \/ owner = <<>> /\ SetTop([Current EXCEPT !.step = <<step>>])
        \/ /\ owner # <<>>
           /\ \E answer \in Answers :
                \/ SetTop([Current EXCEPT !.step = <<failed>>])
                \/ /\ Pull(owner[1], Current.plugin, answer) # <<>>
                   /\ SetTop([Current EXCEPT !.step = <<step>>, !.body = Pull(owner[1], Current.plugin, answer)])
    BY <1>o, <1>k, <1>s, <1>f, Zenon DEF BeginStep
  <2> QED BY <2>1, Zenon
<1>5. /\ [Current EXCEPT !.ends = "failed"]
           = [Current EXCEPT !.step = <<>>, !.body = <<>>, !.ends = "failed"]
      /\ \A st : [Current EXCEPT !.step = st]
           = [Current EXCEPT !.step = st, !.body = <<>>, !.ends = ""]
      /\ \A st, b : [Current EXCEPT !.step = st, !.body = b]
           = [Current EXCEPT !.step = st, !.body = b, !.ends = ""]
  BY <1>1, <1>2, <1>3 DEF ActionShape
<1>6. ASSUME NEW st, NEW b, NEW e, SetTop([Current EXCEPT !.step = st, !.body = b, !.ends = e]),
             st \in {<<>>, <<step>>, <<failed>>}, e \in {"", "failed"},
             b # <<>> => st # <<>> /\ owner # <<>> /\ Own(b[1], owner[1]),
             st = <<step>> /\ owner # <<>> => b # <<>>
      PROVE  CallsInv'
  <2>g. PICK g : g = [Current EXCEPT !.step = st, !.body = b, !.ends = e]
    OBVIOUS
  <2>1. st # <<>> => /\ st = <<[type |-> st[1].type, key |-> st[1].key, got |-> st[1].got]>>
                     /\ st[1].type = written /\ st[1].got # "cancelled"
                     /\ st[1].got = "" => st = <<step>>
    <3>1. CASE st = <<step>>
      BY <3>1, <1>r
    <3>2. CASE st = <<failed>>
      BY <3>2, <1>t
    <3> QED BY <3>1, <3>2, <1>6
  <2>2. st # <<>> =>
          LET o == BodyOwner(Current.plugin, st[1].type)
          IN /\ o # <<>> /\ st[1].got = "" => b # <<>>
             /\ b # <<>> => o # <<>> /\ Own(b[1], o[1])
    BY <1>6, <1>o, <2>1
  <2>3. FrameInv(g) /\ Follows(Current, g) /\ (Stopping(g) => Stopping(Current))
    BY <1>1, <1>2, <1>6, <2>g, <2>1, <2>2, StepFacts
  <2> QED BY <1>1, <1>6, <2>g, <2>3, SetTopKeeps
<1>7. CASE SetTop([Current EXCEPT !.ends = "failed"])
  BY <1>5, <1>6, <1>7
<1>8. CASE owner = <<>> /\ SetTop([Current EXCEPT !.step = <<step>>])
  BY <1>5, <1>6, <1>8
<1>9. CASE SetTop([Current EXCEPT !.step = <<failed>>])
  <2>1. <<failed>> # <<step>> /\ <<failed>> # <<>>
    BY <1>d
  <2> QED BY ZenonT(40), <1>5, <1>6, <1>9, <2>1
<1>10. ASSUME NEW answer \in Answers, owner # <<>>, Pull(owner[1], Current.plugin, answer) # <<>>,
              SetTop([Current EXCEPT !.step = <<step>>, !.body = Pull(owner[1], Current.plugin, answer)])
       PROVE  CallsInv'
  <2>1. Own(Pull(owner[1], Current.plugin, answer)[1], owner[1])
    BY <1>10, PullIsOwn
  <2>b. PICK b : b = Pull(owner[1], Current.plugin, answer)
    OBVIOUS
  <2>2. b # <<>> /\ Own(b[1], owner[1]) /\ <<step>> # <<>>
        /\ SetTop([Current EXCEPT !.step = <<step>>, !.body = b, !.ends = ""])
    BY <1>5, <1>10, <2>1, <2>b
  <2> QED BY <1>6, <1>10, <2>2
<1> QED BY <1>4, <1>7, <1>8, <1>9, <1>10

LEMMA EndStepKeeps ==
  ASSUME CallsInv, NEW caught, EndStep(caught)
  PROVE  CallsInv'
<1>1. /\ stack # <<>> /\ Current.kind = "action" /\ Current.step # <<>>
      /\ UNCHANGED <<cancelled, report>>
  BY DEF EndStep, IsAction
<1>e. PICK e : e = IF caught \/ Current.step[1].got = "ok" THEN "" ELSE Current.step[1].got
  OBVIOUS
<1>g. PICK g : g = [Current EXCEPT !.step = <<>>, !.body = <<>>, !.ends = e]
  OBVIOUS
<1>2. SetTop(g)
  BY <1>e, <1>g DEF EndStep
<1>3. e = "cancelled" => Stopping(Current)
  BY <1>1, <1>e DEF Stopping
<1>4. FrameInv(Current)
  BY <1>1, CurrentFacts
<1>5. FrameInv(g) /\ Follows(Current, g) /\ (Stopping(g) => Stopping(Current))
  BY <1>1, <1>3, <1>4, <1>g, StepFacts
<1> QED BY <1>1, <1>2, <1>5, SetTopKeeps

LEMMA CallFailsKeeps ==
  ASSUME CallsInv, IsAction, CallFails
  PROVE  CallsInv'
<1>1. stack # <<>> /\ Current.kind = "action" /\ UNCHANGED <<cancelled, report>>
  BY DEF IsAction, CallFails
<1>g. PICK g : g = Answered(Current, "failed")
  OBVIOUS
<1>2. SetTop(g)
  BY <1>g DEF CallFails
<1>3. FrameInv(g) /\ Follows(Current, g) /\ (Stopping(g) => Stopping(Current))
  BY <1>1, <1>g, CurrentFacts, AnsweredFacts
<1> QED BY <1>1, <1>2, <1>3, SetTopKeeps

LEMMA EnterKeeps ==
  ASSUME CallsInv, IsAction, NEW plan, IsOnChain(plan[1], Current.plugin), Enter(plan)
  PROVE  CallsInv'
<1>1. CASE CallFails
  BY <1>1, CallFailsKeeps
<1>2. CASE ~CallFails
  <2>1. HasAction(plan[1], plan[2])
    BY <1>2 DEF Enter
  <2>c. PICK cap : cap = CalleeWallclock(ActionOf(plan[1], plan[2]), Current.left)
    OBVIOUS
  <2>d. PICK depth : depth = Current.depth + 1
    OBVIOUS
  <2>2. PICK answer \in Answers :
          /\ Pull(plan[1], plan[1], answer) # <<>>
          /\ Push(Frame(plan[1], plan[2], depth, 0, cap, Current.fired,
                        Pull(plan[1], plan[1], answer)[1]))
    BY <1>2, <2>1, <2>c, <2>d DEF Enter
  <2>f. PICK f : f = Frame(plan[1], plan[2], depth, 0, cap, Current.fired,
                           Pull(plan[1], plan[1], answer)[1])
    OBVIOUS
  <2>3. stack # <<>> /\ Current.kind = "action" /\ Current.fired \in BOOLEAN
    BY CurrentFacts DEF IsAction, ActionShape
  <2>4. FrameInv(f) /\ f.plugin = plan[1] /\ (Stopping(f) <=> Current.fired)
    <3>1. plan[1] \in Identities /\ cap.armed \in BOOLEAN
      BY <2>1, <2>c, ActionPlugins, CapFacts
    <3>2. Own(Pull(plan[1], plan[1], answer)[1], plan[1])
      BY <2>2, PullIsOwn
    <3> QED BY <3>1, <3>2, <2>3, <2>f, NewFrame
  <2>5. Enters(f)
    BY <2>3, <2>4 DEF Enters, Stopping
  <2> QED BY <2>2, <2>4, <2>5, <2>f, PushKeeps
<1> QED BY <1>1, <1>2

LEMMA DispatchKeeps ==
  ASSUME CallsInv, IsAction, NEW request, NEW also, Dispatch(request, also)
  PROVE  CallsInv'
<1>1. PICK plan \in PlansFor(Current.plugin, request) :
        IF plan # <<>> /\ Authorized(Current.plugin, request, plan[1][1], also)
        THEN Enter(plan[1]) ELSE CallFails
  BY DEF Dispatch
<1>2. CASE CallFails
  BY <1>2, CallFailsKeeps
<1>3. CASE Enter(plan[1]) /\ Authorized(Current.plugin, request, plan[1][1], also)
  BY <1>3, EnterKeeps DEF Authorized
<1> QED BY <1>1, <1>2, <1>3

LEMMA InvokeKeeps ==
  ASSUME CallsInv, NEW target, Invoke(target)
  PROVE  CallsInv'
<1>1. IsAction
  BY DEF Invoke, Linked, InStep
<1>2. CallFails \/ \E request : Dispatch(request, <<>>)
  BY DEF Invoke
<1> QED BY <1>1, <1>2, CallFailsKeeps, DispatchKeeps

LEMMA DispatchRoleKeeps ==
  ASSUME CallsInv, NEW target, DispatchRole(target)
  PROVE  CallsInv'
<1>1. IsAction
  BY DEF DispatchRole, InNativeBody, InStep
<1>2. CallFails \/ \E request : Dispatch(request, <<>>)
  BY DEF DispatchRole
<1> QED BY <1>1, <1>2, CallFailsKeeps, DispatchKeeps

LEMMA AliasKeeps ==
  ASSUME CallsInv, AliasDispatch
  PROVE  CallsInv'
<1>1. IsAction
  BY DEF AliasDispatch, Linked, InStep
<1>2. CallFails \/ \E request, also : Dispatch(request, also)
  BY DEF AliasDispatch
<1> QED BY <1>1, <1>2, CallFailsKeeps, DispatchKeeps

LEMMA PublishKeeps ==
  ASSUME CallsInv, NEW event, EmbedderPublishes(event) \/ Publish(event)
  PROVE  CallsInv'
<1>1. UNCHANGED vars \/ \E cascade : Push(EventLoop(event, cascade))
  BY DEF EmbedderPublishes, Publish
<1>2. CASE UNCHANGED vars
  BY <1>2, SameStack DEF vars, CallsInv
<1>3. ASSUME NEW cascade, Push(EventLoop(event, cascade)) PROVE CallsInv'
  <2>x. PICK x : x = EventLoop(event, cascade)
    OBVIOUS
  <2> QED BY <1>3, <2>x, NewLoop, PushKeeps
<1> QED BY <1>1, <1>2, <1>3

LEMMA StepReturnsKeeps ==
  ASSUME CallsInv, NEW outcome, outcome # "", StepReturns(outcome)
  PROVE  CallsInv'
<1>1. /\ stack # <<>> /\ Current.kind = "action" /\ Current.step # <<>>
      /\ outcome = "cancelled" => Current.fired
      /\ UNCHANGED <<cancelled, report>>
  BY DEF StepReturns, InStep, IsAction
<1>g. PICK g : g = WithAnswer(Current, outcome)
  OBVIOUS
<1>2. SetTop(g)
  BY <1>g DEF StepReturns, WithAnswer
<1>3. ActionShape(Current) /\ ViewInv(Current)
  BY <1>1, CurrentFacts
<1>4. HasAnswer(Current, outcome, g)
  BY <1>1, <1>3, <1>g, GetsAnswer
<1>5. ViewInv(g)
  BY <1>1, <1>3, <1>4 DEF ViewInv, HasAnswer
<1>6. FrameInv(g)
  BY <1>4, <1>5 DEF FrameInv, HasAnswer
<1>7. Follows(Current, g) /\ (Stopping(g) => Stopping(Current))
  BY <1>1, <1>4 DEF Follows, Stopping, HasAnswer
<1> QED BY <1>1, <1>2, <1>6, <1>7, SetTopKeeps

(* The end of an action is reported as a cancellation only when somebody   *)
(* further out asked: had its own watchdog, the wrapper would have made a  *)
(* timeout of it.                                                          *)
LEMMA EndActionKeeps ==
  ASSUME CallsInv, NEW outcome, EndAction(outcome)
  PROVE  CallsInv'
<1>n. PICK n : n = Len(stack)
  OBVIOUS
<1>1. stack # <<>> /\ Current.kind = "action" /\ UNCHANGED cancelled
  BY DEF EndAction, IsAction
<1>2. n \in Nat /\ n \in 1..Len(stack) /\ Current = stack[n]
  BY <1>n, <1>1, CurrentFacts, StackFacts DEF CallsInv
<1>r. PICK told : told = IF Current.armed
                         THEN Report(outcome, Current.expired, Current.fired, Current.left = << 0 >>)
                         ELSE outcome
  OBVIOUS
<1>3. PopTo(n, told)
  BY <1>n, <1>r DEF EndAction
<1>4. ASSUME told = "cancelled", ~cancelled PROVE n > 1 /\ Asked(n - 1)
  <2>1. outcome = "cancelled" /\ ~ (Current.armed /\ Current.expired)
    BY <1>4, <1>r DEF Report, StoppedByCancellation, DeadlineReached
  <2>2. Stopping(Current)
    BY <1>1, <2>1 DEF EndAction, Stopping
  <2>3. Asked(n)
    BY <1>n, <1>2, <2>2 DEF CallsInv
  <2>4. PICK j \in 1..n : CalledFrom(j, n) /\ Overdue(j) /\ stack[j].expired
    BY <1>4, <2>3 DEF Asked
  <2>5. j # n
    BY <1>2, <2>1, <2>4 DEF Overdue
  <2>6. n > 1 /\ j \in 1..(n - 1) /\ (\A k \in j..(n - 1) : k \in j..n)
    BY <1>2, <2>5
  <2>7. CalledFrom(j, n - 1)
    BY <1>2, <2>4, <2>6 DEF CalledFrom
  <2> QED BY <2>4, <2>6, <2>7 DEF Asked
<1> QED BY <1>1, <1>2, <1>3, <1>4, PopKeeps

LEMMA EventDoneKeeps ==
  ASSUME CallsInv, EventDone
  PROVE  CallsInv'
<1>1. stack # <<>> /\ PopTo(Len(stack), "ok") /\ UNCHANGED cancelled
  BY DEF EventDone
<1>2. Len(stack) \in 1..Len(stack)
  BY <1>1, CurrentFacts
<1> QED BY <1>1, <1>2, PopKeeps

LEMMA DropKeeps ==
  ASSUME CallsInv, NEW i \in DOMAIN stack, DropOverdue(i)
  PROVE  CallsInv'
<1>1. i \in 1..Len(stack) /\ PopTo(i, "timeout") /\ UNCHANGED cancelled
  BY StackFacts DEF CallsInv, DropOverdue
<1> QED BY <1>1, PopKeeps

LEMMA CancelKeeps ==
  ASSUME CallsInv, Cancel
  PROVE  CallsInv'
<1>n. PICK n : n = Len(stack)
  OBVIOUS
<1>1. n \in Nat /\ DOMAIN stack = 1..n /\ cancelled' = TRUE /\ UNCHANGED report
      /\ stack' = FireFrom(stack, 1)
  BY <1>n, StackFacts DEF CallsInv, Cancel
<1>2. stack' = [j \in 1..n |-> stack'[j]]
      /\ \A j \in 1..n : \/ stack'[j] = stack[j]
                         \/ /\ stack'[j] = [stack[j] EXCEPT !.fired = TRUE]
                            /\ stack[j].kind = "action"
  BY <1>1 DEF FireFrom
<1>3. ASSUME NEW j \in 1..n PROVE FrameInv(stack'[j]) /\ GoesOn(j)
  <2>1. FrameInv(stack[j])
    BY <1>n DEF CallsInv
  <2>2. Asked(j)'
    BY <1>1 DEF Asked
  <2>g. PICK g : g = stack'[j]
    OBVIOUS
  <2>3. CASE stack'[j] = stack[j]
    BY <2>1, <2>2, <2>3, FollowsItself DEF GoesOn
  <2>4. CASE g = [stack[j] EXCEPT !.fired = TRUE] /\ stack[j].kind = "action"
    <3>1. SameButFlags(stack[j], g)
      BY <2>1, <2>4, FlagForms DEF Told
    <3>2. FrameInv(g) /\ Follows(stack[j], g)
      BY <2>1, <2>4, <3>1, FlagsFacts
    <3> QED BY <3>2, <2>2, <2>g DEF GoesOn
  <2> QED BY <1>2, <2>3, <2>4, <2>g
<1> QED BY <1>n, <1>1, <1>2, <1>3, MapKeeps

LEMMA TickKeeps ==
  ASSUME CallsInv, Tick
  PROVE  CallsInv'
<1>n. PICK n : n = Len(stack)
  OBVIOUS
<1>1. n \in Nat /\ DOMAIN stack = 1..n /\ UNCHANGED <<cancelled, report>>
      /\ cancelled \in BOOLEAN
  BY <1>n, StackFacts DEF CallsInv, Tick
<1>2. stack' = [j \in 1..n |-> stack'[j]]
      /\ \A j \in 1..n : \/ stack'[j] = stack[j]
                         \/ /\ stack[j].kind = "action" /\ stack[j].left # << 0 >>
                            /\ \E l : stack'[j] = [stack[j] EXCEPT !.left = l]
  <2>1. stack' = [i \in 1..n |->
                    IF stack[i].kind = "action" /\ stack[i].left \notin {<<>>, << 0 >>}
                    THEN [stack[i] EXCEPT !.left = <<@[1] - 1>>] ELSE stack[i]]
    BY <1>1 DEF Tick
  <2> QED BY <2>1
<1>3. ASSUME NEW j \in 1..n PROVE FrameInv(stack'[j]) /\ GoesOn(j)
  <2>1. FrameInv(stack[j])
    BY <1>n DEF CallsInv
  <2>g. PICK g : g = stack'[j]
    OBVIOUS
  <2>3. CASE stack'[j] = stack[j]
    BY <2>1, <2>3, FollowsItself DEF GoesOn
  <2>4. ASSUME NEW l, g = [stack[j] EXCEPT !.left = l], stack[j].kind = "action",
               stack[j].left # << 0 >>
        PROVE  FrameInv(stack'[j]) /\ GoesOn(j)
    <3>1. SameButFlags(stack[j], g) /\ g.fired = stack[j].fired
      BY <2>1, <2>4, FlagForms DEF WithLeft
    <3>2. FrameInv(g) /\ Follows(stack[j], g) /\ (Stopping(g) => Stopping(stack[j]))
      BY <2>1, <2>4, <3>1, FlagsFacts
    <3> QED BY <3>2, <2>g DEF GoesOn
  <2> QED BY <1>2, <2>3, <2>4, <2>g
<1> QED BY <1>n, <1>1, <1>2, <1>3, MapKeeps

LEMMA WatchdogKeeps ==
  ASSUME CallsInv, NEW i \in DOMAIN stack, Watchdog(i)
  PROVE  CallsInv'
<1>n. PICK n : n = Len(stack)
  OBVIOUS
<1>1. n \in Nat /\ DOMAIN stack = 1..n /\ i \in 1..n /\ UNCHANGED <<cancelled, report>>
      /\ cancelled \in BOOLEAN /\ Overdue(i)
      /\ stack' = [FireFrom(stack, i) EXCEPT ![i].expired = TRUE]
  BY <1>n, StackFacts DEF CallsInv, Watchdog
<1>2. stack' = [j \in 1..n |-> stack'[j]]
      /\ (\A j \in 1..n : j # i => \/ stack'[j] = stack[j]
                                  \/ /\ stack'[j] = [stack[j] EXCEPT !.fired = TRUE]
                                     /\ CalledFrom(i, j))
      /\ stack'[i] = [[stack[i] EXCEPT !.fired = TRUE] EXCEPT !.expired = TRUE]
  <2>s. PICK s : s = FireFrom(stack, i)
    OBVIOUS
  <2>1. s = [j \in 1..n |->
               IF j >= i /\ \A k \in i..j : stack[k].kind = "action"
               THEN [stack[j] EXCEPT !.fired = TRUE] ELSE stack[j]]
    BY <1>1, <2>s DEF FireFrom
  <2>2. s[i] = [stack[i] EXCEPT !.fired = TRUE]
    BY <1>1, <2>1 DEF Overdue
  <2>3. \A j \in 1..n : s[j] = stack[j] \/ (s[j] = [stack[j] EXCEPT !.fired = TRUE] /\ CalledFrom(i, j))
    BY <1>1, <2>1 DEF CalledFrom
  <2>4. stack' = [j \in 1..n |-> IF j = i THEN [s[i] EXCEPT !.expired = TRUE] ELSE s[j]]
    BY <1>1, <2>1, <2>s
  <2> QED BY <1>1, <2>2, <2>3, <2>4
<1>3. ASSUME NEW j \in 1..n
      PROVE  FrameInv(stack'[j]) /\ Follows(stack[j], stack'[j])
             /\ (stack'[j] = stack[j] \/ CalledFrom(i, j))
  <2>1. FrameInv(stack[j])
    BY <1>n DEF CallsInv
  <2>g. PICK g : g = stack'[j]
    OBVIOUS
  <2>2. CASE j = i
    <3>1. stack[i].kind = "action"
      BY <1>1 DEF Overdue
    <3>2. CalledFrom(i, i)
      BY <1>1, <3>1 DEF CalledFrom
    <3>3. SameButFlags(stack[i], g)
      BY <1>2, <2>1, <2>2, <2>g, <3>1, FlagForms DEF Expired
    <3>4. FrameInv(g) /\ Follows(stack[i], g)
      BY <2>1, <2>2, <3>1, <3>3, FlagsFacts
    <3> QED BY <3>2, <3>4, <2>2, <2>g
  <2>3. CASE j # i /\ stack'[j] = stack[j]
    BY <2>1, <2>3, FollowsItself
  <2>4. CASE j # i /\ g = [stack[j] EXCEPT !.fired = TRUE] /\ CalledFrom(i, j)
    <3>1. stack[j].kind = "action"
      BY <1>1, <2>4 DEF CalledFrom
    <3>2. SameButFlags(stack[j], g)
      BY <2>1, <2>4, <3>1, FlagForms DEF Told
    <3>3. FrameInv(g) /\ Follows(stack[j], g)
      BY <2>1, <3>1, <3>2, FlagsFacts
    <3> QED BY <3>3, <2>4, <2>g
  <2> QED BY <1>2, <2>2, <2>3, <2>4, <2>g
<1>4. Overdue(i)' /\ stack'[i].expired
  <2>1. FrameInv(stack[i]) /\ stack[i].kind = "action"
    BY <1>n, <1>1 DEF CallsInv, Overdue
  <2>g. PICK g : g = stack'[i]
    OBVIOUS
  <2>2. SameButFlags(stack[i], g) /\ g.left = stack[i].left /\ g.expired
    BY <1>2, <2>1, <2>g, FlagForms DEF Expired
  <2>3. g.kind = "action" /\ g.armed = stack[i].armed
    BY <2>1, <2>2, FlagsFacts
  <2> QED BY <1>1, <2>2, <2>3, <2>g DEF Overdue
<1>5. ASSUME NEW j \in 1..n, CalledFrom(i, j) PROVE Asked(j)'
  <2>1. \A k \in i..j : k \in 1..n
    BY <1>1, <1>5
  <2>2. \A k \in i..j : stack'[k].kind = stack[k].kind
    BY <2>1, <1>3 DEF Follows
  <2>3. CalledFrom(i, j)' /\ i \in 1..j
    BY <1>1, <1>5, <2>2 DEF CalledFrom
  <2> QED BY <1>4, <2>3 DEF Asked
<1>6. \A j \in 1..n : FrameInv(stack'[j]) /\ GoesOn(j)
  BY <1>3, <1>5 DEF GoesOn
<1> QED BY <1>n, <1>1, <1>2, <1>6, MapKeeps

LEMMA NextSubscriberKeeps ==
  ASSUME CallsInv, NextSubscriber
  PROVE  CallsInv'
<1>n. PICK n : n = Len(stack)
  OBVIOUS
<1>1. stack # <<>> /\ Current.kind = "event" /\ UNCHANGED <<cancelled, report>>
  BY DEF NextSubscriber
<1>2. n \in Nat /\ n > 0 /\ Current = stack[n] /\ FrameInv(Current) /\ IsStack(stack)
  BY <1>n, <1>1, CurrentFacts, StackFacts DEF CallsInv
<1>l. PICK loop : loop = [Current EXCEPT !.left = Tail(@)]
  OBVIOUS
<1>r. PICK rest : rest = Append(SubSeq(stack, 1, n - 1), loop)
  OBVIOUS
<1>3. FrameInv(loop) /\ loop.kind = "event"
  BY <1>1, <1>2, <1>l DEF FrameInv, EventShape
<1>4. IsStack(rest) /\ Len(rest) = n /\ rest[n] = loop /\ \A i \in 1..n : i # n => rest[i] = stack[i]
  <2>m. PICK m : m = n - 1
    OBVIOUS
  <2>s. PICK s : s = SubSeq(stack, 1, m)
    OBVIOUS
  <2>1. m \in 0..Len(stack) /\ m + 1 = n /\ m \in Nat
    BY <1>n, <1>2, <2>m
  <2>2. IsStack(s) /\ Len(s) = m /\ \A i \in 1..m : s[i] = stack[i]
    BY <1>2, <2>1, <2>s, CutFacts
  <2>3. rest = Append(s, loop)
    BY <1>r, <2>m, <2>s
  <2>4. IsStack(rest) /\ Len(rest) = m + 1 /\ rest[m + 1] = loop /\ \A i \in 1..m : rest[i] = s[i]
    BY <2>2, <2>3, PushFacts
  <2>5. \A i \in 1..n : i # n => i \in 1..m
    BY <2>1
  <2> QED BY <2>1, <2>2, <2>4, <2>5
<1>5. \A i \in 1..n : FrameInv(rest[i]) /\ Follows(stack[i], rest[i]) /\ (Stopping(rest[i]) => Stopping(stack[i]))
  <2> TAKE i \in 1..n
  <2>1. CASE i = n
    BY <2>1, <1>1, <1>2, <1>3, <1>4 DEF Follows, Stopping
  <2>2. CASE i # n
    BY <2>2, <1>n, <1>4, FollowsItself DEF CallsInv
  <2> QED BY <2>1, <2>2
<1>6. CASE stack' = rest
  <2>1. \A i \in 1..n : FrameInv(stack'[i]) /\ GoesOn(i)
    BY <1>5, <1>6 DEF GoesOn
  <2>2. Keeps
    BY <1>n, <1>1, <1>2, <1>4, <1>6, <2>1 DEF Keeps, CallsInv
  <2> QED BY <2>2, StepKeeps
<1>7. ASSUME NEW p, NEW a, NEW answer, NEW cascade, HasAction(p, a), Pull(p, p, answer) # <<>>,
             stack' = Append(rest, Frame(p, a, 0, cascade, OwnCap(ActionOf(p, a)), FALSE,
                                         Pull(p, p, answer)[1]))
      PROVE  CallsInv'
  <2>d. PICK fired \in BOOLEAN : fired = FALSE
    OBVIOUS
  <2>f. PICK f : f = Frame(p, a, 0, cascade, OwnCap(ActionOf(p, a)), fired, Pull(p, p, answer)[1])
    OBVIOUS
  <2>1. FrameInv(f) /\ ~Stopping(f)
    <3>1. p \in Identities /\ OwnCap(ActionOf(p, a)).armed \in BOOLEAN
      BY <1>7, ActionPlugins, CapFacts
    <3>2. Own(Pull(p, p, answer)[1], p)
      BY <1>7, PullIsOwn
    <3> QED BY <3>1, <3>2, <2>d, <2>f, NewFrame
  <2>2. Enters(f)
    BY <1>1, <2>1 DEF Enters
  <2>3. IsStack(stack') /\ Len(stack') = n + 1 /\ stack'[n + 1] = f
        /\ \A i \in 1..n : stack'[i] = rest[i]
    BY ZenonT(40), <1>4, <1>7, <2>d, <2>f, PushFacts
  <2>4. \A i \in 1..n : FrameInv(stack'[i]) /\ GoesOn(i)
    BY <1>5, <2>3 DEF GoesOn
  <2>5. \A i \in 1..(n + 1) : FrameInv(stack'[i])
    <3> TAKE i \in 1..(n + 1)
    <3>1. i = n + 1 \/ i \in 1..n
      BY <1>2
    <3> QED BY <3>1, <2>1, <2>3, <2>4
  <2>6. \A i \in 1..(n + 1) : i <= n => GoesOn(i)
    BY <1>2, <2>4
  <2>7. Keeps
    BY <1>n, <1>1, <1>2, <2>2, <2>3, <2>5, <2>6 DEF Keeps, CallsInv
  <2> QED BY <2>7, StepKeeps
<1>8. \/ stack' = rest
      \/ \E p, a, answer, cascade :
           /\ HasAction(p, a) /\ Pull(p, p, answer) # <<>>
           /\ stack' = Append(rest, Frame(p, a, 0, cascade, OwnCap(ActionOf(p, a)), FALSE,
                                          Pull(p, p, answer)[1]))
  <2>1. rest = Append(SubSeq(stack, 1, Len(stack) - 1), [Current EXCEPT !.left = Tail(@)])
    BY <1>n, <1>l, <1>r
  <2>2. PICK plan \in PlansFor(Root, ByPlugin(Current.left[1][1], Current.left[1][2])),
             answer \in Answers :
          IF \/ plan = <<>>
             \/ ~HasAction(plan[1][1], plan[1][2])
             \/ Pull(plan[1][1], plan[1][1], answer) = <<>>
          THEN stack' = Append(SubSeq(stack, 1, Len(stack) - 1), [Current EXCEPT !.left = Tail(@)])
          ELSE stack' = Append(Append(SubSeq(stack, 1, Len(stack) - 1), [Current EXCEPT !.left = Tail(@)]),
                 Frame(plan[1][1], plan[1][2], 0, Current.cascade + 1,
                       OwnCap(ActionOf(plan[1][1], plan[1][2])), FALSE,
                       Pull(plan[1][1], plan[1][1], answer)[1]))
    BY Zenon DEF NextSubscriber
  <2>3. CASE stack' = rest
    BY <2>3
  <2>4. CASE stack' # rest
    BY <2>1, <2>2, <2>4, Zenon
  <2> QED BY <2>3, <2>4
<1> QED BY <1>6, <1>7, <1>8

-----------------------------------------------------------------------------
(* The theorems.                                                           *)

LEMMA CallsInvInductive ==
  /\ Init => CallsInv
  /\ CallsInv /\ [Next]_vars => CallsInv'
<1>1. ASSUME Init PROVE CallsInv
  <2>1. stack = <<>> /\ cancelled \in BOOLEAN /\ report # "cancelled"
    BY <1>1 DEF Init
  <2>2. IsStack(stack) /\ Len(stack) = 0
    BY <2>1, EmptySeq DEF IsStack
  <2>3. 1..Len(stack) = {} /\ DOMAIN stack = {}
    BY <2>2, StackFacts
  <2> QED BY <2>1, <2>2, <2>3 DEF CallsInv, CallsStayOnChain
<1>2. ASSUME CallsInv, UNCHANGED vars PROVE CallsInv'
  BY <1>2, SameStack DEF vars, CallsInv
<1>3. ASSUME CallsInv, Next PROVE CallsInv'
  <2> USE <1>3
  <2>1. ASSUME NEW s \in Starts, Execute(s[1], s[2]) PROVE CallsInv'
    BY <2>1, StartKeeps DEF Execute
  <2>2. ASSUME NEW s \in StartRoles, ExecuteByRole(s[1], s[2]) PROVE CallsInv'
    <3>1. CASE RunFailed
      BY <3>1, SameStack DEF RunFailed
    <3>2. CASE ~RunFailed
      BY <2>2, <3>2, StartKeeps DEF ExecuteByRole
    <3> QED BY <3>1, <3>2
  <2>3. ASSUME NEW o \in {"ok", "failed", "cancelled"}, StepReturns(o) PROVE CallsInv'
    BY <2>3, StepReturnsKeeps
  <2>4. CASE \E e \in Events : EmbedderPublishes(e) \/ Publish(e)
    BY <2>4, PublishKeeps
  <2>5. CASE \E t \in StepTypes : BeginStep(t)
    BY <2>5, BeginKeeps
  <2>6. CASE \E t \in Targets : Invoke(t) \/ DispatchRole(t)
    BY <2>6, InvokeKeeps, DispatchRoleKeeps
  <2>7. CASE AliasDispatch
    BY <2>7, AliasKeeps
  <2>8. CASE \E c \in BOOLEAN : EndStep(c)
    BY <2>8, EndStepKeeps
  <2>9. CASE \E o \in {"ok", "failed", "cancelled", "callee_stopped"} : EndAction(o)
    BY <2>9, EndActionKeeps
  <2>10. CASE NextSubscriber \/ EventDone
    BY <2>10, NextSubscriberKeeps, EventDoneKeeps
  <2>11. CASE Cancel \/ Tick
    BY <2>11, CancelKeeps, TickKeeps
  <2>12. CASE \E i \in DOMAIN stack : Watchdog(i) \/ DropOverdue(i)
    BY <2>12, WatchdogKeeps, DropKeeps
  <2> QED BY <2>1, <2>2, <2>3, <2>4, <2>5, <2>6, <2>7, <2>8, <2>9, <2>10, <2>11, <2>12 DEF Next
<1> QED BY <1>1, <1>2, <1>3

(* Whatever an orchestrator answers and however deep the calls go, they    *)
(* lead only into the namespace of the plugin they started from or one     *)
(* that encloses it (authorize_resolved_dispatch): each hop is checked     *)
(* against its own caller alone, and being on the chain is transitive.     *)
THEOREM NeverOffTheChain == Spec => []CallsStayOnChain
<1>1. CallsInv => CallsStayOnChain
  BY DEF CallsInv
<1> QED BY <1>1, CallsInvInductive, PTL DEF Spec

(* A running body sees the declared secrets of the plugin whose code it    *)
(* is, whatever the resolver answers (dispatch_trait_step_core,            *)
(* SecretBroker::pull).                                                    *)
THEOREM SecretsStayPrivate == Spec => []BodiesSeeOwnSecrets
<1>1. ASSUME CallsInv PROVE BodiesSeeOwnSecrets
  <2> SUFFICES ASSUME NEW i \in DOMAIN stack, stack[i].kind = "action"
               PROVE  LET f == stack[i]
                          visible == IF f.body # <<>> THEN f.body[1] ELSE f.secrets
                          owner == IF f.step = <<>> THEN <<>> ELSE BodyOwner(f.plugin, f.step[1].type)
                          whose == IF owner = <<>> \/ f.step[1].got # "" THEN f.plugin ELSE owner[1]
                      IN f.step = <<>> \/ f.step[1].got = ""
                           => \A s \in visible : s[1] = whose /\ s[2] \in DeclaredKeys(whose)
    BY DEF BodiesSeeOwnSecrets
  <2>1. ViewInv(stack[i])
    BY <1>1, StackFacts DEF CallsInv, FrameInv
  <2>f. PICK f : f = stack[i]
    OBVIOUS
  <2>2. CASE f.step = <<>>
    BY <2>1, <2>2, <2>f DEF ViewInv, Own
  <2>3. CASE f.step # <<>>
    <3>o. PICK owner : owner = BodyOwner(f.plugin, f.step[1].type)
      OBVIOUS
    <3>1. Own(f.secrets, f.plugin)
          /\ (owner # <<>> /\ f.step[1].got = "" => f.body # <<>>)
          /\ (f.body # <<>> => owner # <<>> /\ Own(f.body[1], owner[1]))
      BY <2>1, <2>3, <2>f, <3>o DEF ViewInv
    <3>2. f.step[1].got = "" =>
            \A s \in IF f.body # <<>> THEN f.body[1] ELSE f.secrets :
              LET whose == IF owner = <<>> THEN f.plugin ELSE owner[1]
              IN s[1] = whose /\ s[2] \in DeclaredKeys(whose)
      BY <3>1 DEF Own
    <3> QED BY <2>3, <2>f, <3>o, <3>2
  <2> QED BY <2>2, <2>3
<1> QED BY <1>1, CallsInvInductive, PTL DEF Spec

(* Nothing is reported cancelled that nobody asked to stop: a callee's own *)
(* deadline stays a failed step of its caller (callee_invocation,          *)
(* from_callee, run_with_wallclock_timeout).                               *)
THEOREM NobodyCancelsUnasked == Spec => []CancelledOnlyWhenAsked
<1>1. ASSUME CallsInv PROVE CancelledOnlyWhenAsked
  <2>1. ASSUME NEW i \in DOMAIN stack, stack[i].kind = "action", stack[i].step # <<>>,
               stack[i].step[1].got = "cancelled"
        PROVE  cancelled \/ \E j \in 1..i : CalledFrom(j, i) /\ Overdue(j)
    <3>1. i \in 1..Len(stack) /\ Stopping(stack[i])
      BY <1>1, <2>1, StackFacts DEF CallsInv, Stopping
    <3>2. Asked(i)
      BY <1>1, <3>1 DEF CallsInv
    <3> QED BY <3>2 DEF Asked
  <2> QED BY <1>1, <2>1 DEF CancelledOnlyWhenAsked, CallsInv
<1> QED BY <1>1, CallsInvInductive, PTL DEF Spec

=============================================================================
