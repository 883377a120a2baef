------------------------------ MODULE Identity ------------------------------
(***************************************************************************)
(* Names and how they resolve (src/kernel/identity.rs).                    *)
(*                                                                         *)
(* A written name is the sequence of its segments: a plugin or role        *)
(* identity is split at '/', so <<"tenant", "vault">> is the plugin vault  *)
(* of the namespace tenant and <<"vault">> the one of the root namespace,  *)
(* which is <<>>.  A step type and an implRef are split at '.'.  Segments  *)
(* are compared, never built: WellFormed holds the ones the name grammar   *)
(* accepts, so any other stands for an empty, an overlong or an ill-formed *)
(* name.                                                                   *)
(***************************************************************************)
EXTENDS Sequences, Integers

CONSTANTS
  WellFormed,   \* the segments the grammar accepts
  DigitLed      \* the ones among them that start with a digit

Root == <<>>

(* Every prefix of a sequence, longest first: ancestor_namespaces.         *)
AncestorNamespaces(ns) == [i \in 1..(Len(ns) + 1) |-> SubSeq(ns, 1, Len(ns) + 1 - i)]

ValidName(kind, name) == name \in WellFormed /\ ~(kind = "step id" /\ name \in DigitLed)

ValidNamespace(ns) == ns = Root \/ (Len(ns) = 1 /\ ValidName("namespace", ns[1]))

Qualify(ns, name) == Append(ns, name)
NamespaceOf(identity) == SubSeq(identity, 1, Len(identity) - 1)
LocalNameOf(identity) == identity[Len(identity)]

(* target is in the namespace of `of' or in one of its ancestors.          *)
IsOnChain(target, of) ==
  \E i \in DOMAIN AncestorNamespaces(NamespaceOf(of)) :
    AncestorNamespaces(NamespaceOf(of))[i] = NamespaceOf(target)

(* What a reference may name, nearest namespace first; nothing when it is  *)
(* not a name: a caller can not write a qualified one.                     *)
PluginReferenceCandidates(caller, reference) ==
  IF ~ValidName("plugin", reference) THEN <<>>
  ELSE [i \in DOMAIN AncestorNamespaces(NamespaceOf(caller)) |->
          Qualify(AncestorNamespaces(NamespaceOf(caller))[i], reference)]

(* The elements of seq that Test accepts, in order, and the first of them. *)
FirstIn(seq, Test(_)) ==
  LET hits == {i \in DOMAIN seq : Test(seq[i])}
  IN IF hits = {} THEN <<>> ELSE <<seq[CHOOSE i \in hits : \A j \in hits : i <= j]>>

(* A step type with a separator has an owner; without, it is the kernel's. *)
HasOwner(stepType) == Len(stepType) > 1

ValidStepTypeReference(stepType) ==
  /\ Len(stepType) \in {1, 2}
  /\ \A i \in DOMAIN stepType : ValidName("step type", stepType[i])

ValidStepTypeName(stepType, plugin, kernelOwned) ==
  /\ ValidStepTypeReference(stepType)
  /\ IF HasOwner(stepType) THEN stepType[1] = plugin ELSE kernelOwned

ValidImplRef(ref) == ref # <<>> /\ \A i \in DOMAIN ref : ValidName("implRef segment", ref[i])

(* The plugin an implRef <owner>.<plugin>.<step> belongs to, as <<>> or a  *)
(* sequence of one.                                                        *)
ImplRefOwner(ref) == IF Len(ref) = 3 THEN <<ref[2]>> ELSE <<>>

=============================================================================
