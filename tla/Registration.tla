---------------------------- MODULE Registration ----------------------------
(***************************************************************************)
(* register_plugin_in_as (src/kernel/mod.rs): what a plugin document must  *)
(* satisfy against the tables as they are, and what its registration adds  *)
(* to them.  All checks come before the first write, so registration is a  *)
(* guard, RegisterAccepted, and a function on the tables, Registered.      *)
(* Which check refuses a document, and in which words, is left out.        *)
(*                                                                         *)
(* A document is a record.  An optional field is <<>> or a sequence of     *)
(* one.  The steps of an action are listed in document order with the      *)
(* bodies they are nested in: path holds, outermost first, the place of    *)
(* each enclosing step and the branch of it.  A step that does not have    *)
(* the shape its type asks for (an `ifs' without branches, a body that is  *)
(* no array) has shaped = FALSE.                                           *)
(***************************************************************************)
EXTENDS PluginRegistry

CONSTANTS
  Templated,          \* names that are {{templates}} or $references
  ReservedStepTypes,  \* step types the kernel keeps for itself
  TrustedProviders,   \* the embedder's trusted_step_type_providers
  NativeBindings,     \* <<plugin, implRef>>, the authorised bindings
  Inventory,          \* submitted native bodies: [name, body, kernelOwned], in order
  Seeds,              \* native bodies the embedder put in the table: implRef -> body
  IntrinsicBodies     \* the engine's own bodies: implRef -> body

Control == {<<"for_each">>, <<"repeat">>, <<"ifs">>, <<"try">>, <<"parallel">>}

(* The kernel's table of native bodies: an embedder's seed wins, the first *)
(* of several submissions too, and a name under "gwead" is the engine's.   *)
Reserved(ref) == ref[1] = "gwead"
TableBuilds ==
  /\ \A ref \in DOMAIN Seeds : ~Reserved(ref)
  /\ \A i \in DOMAIN Inventory : Reserved(Inventory[i].name) => Inventory[i].kernelOwned
EnsureFromEntries ==
  LET of(name) == {i \in DOMAIN Inventory : Inventory[i].name = name}
  IN Over(Seeds, [name \in {Inventory[i].name : i \in DOMAIN Inventory} |->
                    Inventory[CHOOSE i \in of(name) : \A j \in of(name) : i <= j].body])
NativeBodies == EnsureFromEntries

ASSUME BootAssumption == TableBuilds

Steps(doc, action) == doc.actions[action].steps
Top(step) == step.path = <<>>

(***************************************************************************)
(* The checks, in the order of the code.                                   *)
(***************************************************************************)
ValidManifestNames(doc, kernelOwned) ==
  /\ ValidName("plugin", doc.name)
  /\ \A i \in DOMAIN doc.roles : ValidName("role", doc.roles[i])
  /\ \A i \in DOMAIN doc.defs : ValidStepTypeName(doc.defs[i].name, doc.name, kernelOwned)
  /\ \A i \in DOMAIN doc.impls :
       /\ ValidStepTypeReference(doc.impls[i].type)
       /\ \A j \in DOMAIN doc.impls[i].selector : ValidName("selector", doc.impls[i].selector[j])

(* No key twice, and only a root document may let the levels below it      *)
(* override one.                                                           *)
SecretsAccepted(ns, doc) ==
  /\ \A i, j \in DOMAIN doc.secrets : doc.secrets[i].key = doc.secrets[j].key => i = j
  /\ ns # Root => \A i \in DOMAIN doc.secrets : ~doc.secrets[i].overridable

ValidStepTypeAlias(alias, plugin, kernelOwned) ==
  ValidStepTypeName(alias, plugin, kernelOwned) /\ alias \notin ReservedStepTypes

AliasesAccepted(r, id, doc, kernelOwned) ==
  \A alias \in DOMAIN doc.aliases :
    /\ ValidStepTypeAlias(alias, doc.name, kernelOwned)
    /\ doc.aliases[alias] \in DOMAIN doc.actions
    /\ StepTypeKey(id, alias) \notin DOMAIN r.aliases

(* Nobody else has linked a body under a name this document links, and it  *)
(* links none twice: its bodies and its aliases share one table.           *)
ImportsFree(r, id, doc) ==
  LET linked == {i \in DOMAIN doc.impls : doc.impls[i].kind # "wasm"}
  IN /\ \A name \in LinkedNames(doc) :
          Get(r.importOwners, StepTypeKey(id, name), id) = id
     /\ \A i, j \in linked : doc.impls[i].type = doc.impls[j].type => i = j
     /\ \A i \in linked : doc.impls[i].type \notin DOMAIN doc.aliases

ActionFlagsAccepted(doc) ==
  \A a \in DOMAIN doc.actions :
    LET action == doc.actions[a]
        long == {i \in DOMAIN action.steps : Top(action.steps[i]) /\ action.steps[i].longRunning}
    IN /\ ~(action.dataflow /\ action.continuous)
       /\ action.dataflow <=> long # {}
       /\ action.wallclock # <<0>>

(* A script step needs a language somebody implements, this document       *)
(* included.                                                               *)
ScriptRuns(r, doc, step) ==
  step.type = <<"script">> =>
    /\ step.language # <<>>
    /\ \/ <<<<Root, <<"script">>>>, step.language>> \in DOMAIN r.impls
       \/ \E i \in DOMAIN doc.impls :
            doc.impls[i].type = <<"script">> /\ doc.impls[i].selector = step.language

(* Steps of two branches of one `parallel' share neither an id nor a       *)
(* variable they store to.                                                 *)
BranchesDisjoint(steps, i) ==
  \A j, k \in DOMAIN steps :
    (\E m \in DOMAIN steps[j].path, n \in DOMAIN steps[k].path :
       /\ steps[j].path[m][1] = i /\ steps[k].path[n][1] = i
       /\ steps[j].path[m][2] # steps[k].path[n][2])
    => /\ steps[j].id # steps[k].id
       /\ steps[j].variable = <<>> \/ steps[j].variable # steps[k].variable

ValidateStepShapes(r, doc, steps) ==
  \A i \in DOMAIN steps :
    LET step == steps[i]
    IN /\ ValidName("step id", step.id)
       /\ step.type = <<"invoke">> =>
            \A j \in DOMAIN step.plugin :
              step.plugin[j] \in Templated \/ ValidName("plugin", step.plugin[j])
       /\ ScriptRuns(r, doc, step)
       /\ step.shaped
       /\ step.type = <<"parallel">> => BranchesDisjoint(steps, i)

(* The edges a document's actions declare: an `invoke' step to the plugin  *)
(* as it is written, and a step whose type is an alias, of this document   *)
(* or found along its chain, to the alias's action.                        *)
StepAlias(r, id, doc, written) ==
  IF written \in DOMAIN doc.aliases THEN <<<<id, doc.aliases[written]>>>>
  ELSE IF HasOwner(written) THEN AliasCandidate(r, id, written) ELSE <<>>

StepTargets(r, id, doc, step) ==
  IF step.type = <<"invoke">>
  THEN IF step.plugin # <<>> /\ step.action # <<>> THEN {<<step.plugin, step.action[1]>>} ELSE {}
  ELSE IF step.type \in Control THEN {}
  ELSE Members(StepAlias(r, id, doc, step.type))

(* A step type may declare which of its params name a plugin and an action *)
(* (references); only top-level steps are looked at.                       *)
DeclaredTargets(r, doc, step) ==
  LET own == SelectSeq(doc.defs, LAMBDA d : d.name = step.type)
      def == IF own # <<>> THEN <<own[Len(own)]>>
             ELSE IF <<Root, step.type>> \in DOMAIN r.defs THEN <<r.defs[<<Root, step.type>>][2]>>
             ELSE <<>>
  IN IF /\ Top(step) /\ def # <<>> /\ def[1].references
        /\ step.plugin # <<>> /\ step.action # <<>>
        /\ step.plugin[1] \notin Templated /\ step.action[1] \notin Templated
     THEN {<<step.plugin, step.action[1]>>} ELSE {}

(* What such a step names must be there; a name is compared with this      *)
(* plugin's identity as it stands.                                         *)
DeclaredKnown(r, id, doc, target) ==
  IF target[1] = id THEN target[2] \in DOMAIN doc.actions
  ELSE target[1] \in DOMAIN r.manifests /\ target \in r.actions

NewEdges(r, id, doc) ==
  UNION {UNION {{<<<<id, a>>, t>> : t \in StepTargets(r, id, doc, Steps(doc, a)[i])
                                           \cup DeclaredTargets(r, doc, Steps(doc, a)[i])}
                : i \in DOMAIN Steps(doc, a)} : a \in DOMAIN doc.actions}

(* A finite graph has a cycle when some nodes all lead to one another: the *)
(* depth-first search of check_acyclic finds one exactly then.             *)
Acyclic(edges) ==
  LET inner == {e[1] : e \in edges} \cap {e[2] : e \in edges}
  IN \A S \in (SUBSET inner) \ {{}} : \E n \in S : \A m \in S : <<n, m>> \notin edges

DefsAccepted(r, id, doc) ==
  /\ \A i \in DOMAIN doc.defs :
       ~doc.defs[i].reservedKey /\ StepTypeKey(id, doc.defs[i].name) \notin DOMAIN r.defs
  /\ \A i, j \in DOMAIN doc.defs : doc.defs[i].name = doc.defs[j].name => i = j

DefinesLocally(doc, stepType) == \E i \in DOMAIN doc.defs : doc.defs[i].name = stepType

(* Mutant: declaring the claim is enough.                                  *)
ClaimDeclared(id, doc, impl) ==
  \/ DefinesLocally(doc, impl.type)
  \/ \E p \in Grants(ParseManifestPermissions(doc.permissions), "provide") :
       p.type = impl.type /\ p.selector = impl.selector

(* Supplying the body of somebody else's step type takes a declared claim  *)
(* and the embedder's trust.                                               *)
ClaimAllowed(id, doc, impl) ==
  \/ DefinesLocally(doc, impl.type)
  \/ /\ \E p \in Grants(ParseManifestPermissions(doc.permissions), "provide") :
          p.type = impl.type /\ p.selector = impl.selector
     /\ id \in TrustedProviders

(* Running somebody else's native body takes a declared binding and the    *)
(* embedder's authorisation; a body is its owner's only in the root        *)
(* namespace.                                                              *)
BindingAllowed(id, doc, ref) ==
  \/ ImplRefOwner(ref) = <<LocalNameOf(id)>> /\ NamespaceOf(id) = Root
  \/ /\ \E p \in Grants(ParseManifestPermissions(doc.permissions), "bind") : p.ref = ref
     /\ <<id, ref>> \in NativeBindings

(* require_impl_ref: an implRef, no module and no selector.                *)
RefOnly(impl) == impl.ref # <<>> /\ impl.module = <<>> /\ impl.selector = <<>>

BodyFound(r, id, doc, impl) ==
  \/ /\ impl.kind = "wasm"
     /\ impl.module # <<>> /\ impl.ref = <<>>
     /\ impl.module[1] \in DOMAIN doc.modules
     /\ <<StepTypeKey(id, impl.type), impl.selector>> \notin DOMAIN r.impls
  \/ /\ impl.kind = "native"
     /\ RefOnly(impl)
     /\ BindingAllowed(id, doc, impl.ref[1])
     /\ impl.ref[1] \in DOMAIN NativeBodies
  \/ /\ impl.kind = "intrinsic"
     /\ RefOnly(impl)
     /\ impl.ref[1] \in DOMAIN IntrinsicBodies

ImplsAccepted(r, id, doc) ==
  /\ \A i \in DOMAIN doc.impls :
       /\ DefinesLocally(doc, doc.impls[i].type)
            \/ StepTypeKey(id, doc.impls[i].type) \in DOMAIN r.defs
       /\ ClaimAllowed(id, doc, doc.impls[i])
       /\ BodyFound(r, id, doc, doc.impls[i])
  /\ \A i, j \in DOMAIN doc.impls :
       doc.impls[i].type = doc.impls[j].type /\ doc.impls[i].selector = doc.impls[j].selector => i = j

RegisterAccepted(r, spi, ns, doc, kernelOwned) ==
  LET id == Qualify(ns, doc.name)
  IN /\ ValidNamespace(ns)
     /\ doc.formatSupported
     /\ ValidManifestNames(doc, kernelOwned)
     /\ SecretsAccepted(ns, doc)
     /\ id \notin DOMAIN r.manifests
     /\ SpiSatisfied(spi, ns, doc)
     /\ PermissionsAccepted(doc.permissions)
     /\ AliasesAccepted(r, id, doc, kernelOwned)
     /\ ImportsFree(r, id, doc)
     /\ ActionFlagsAccepted(doc)
     /\ \A a \in DOMAIN doc.actions : doc.actions[a].planned
     /\ \A a \in DOMAIN doc.actions : ValidateStepShapes(r, doc, Steps(doc, a))
     /\ \A m \in DOMAIN doc.modules : doc.modules[m] = "compiles"
     /\ \A a \in DOMAIN doc.actions : \A i \in DOMAIN Steps(doc, a) :
          \A t \in DeclaredTargets(r, doc, Steps(doc, a)[i]) : DeclaredKnown(r, id, doc, t)
     /\ Acyclic(r.edges \cup NewEdges(r, id, doc))
     /\ DefsAccepted(r, id, doc)
     /\ ImplsAccepted(r, id, doc)

(***************************************************************************)
(* The commit: what the document adds to each table.  The checks leave one *)
(* entry for a key.                                                        *)
(***************************************************************************)
AliasEntries(id, doc) ==
  [k \in {StepTypeKey(id, n) : n \in DOMAIN doc.aliases} |-> <<id, doc.aliases[k[2]]>>]

DefEntries(id, doc) ==
  [k \in {StepTypeKey(id, d.name) : d \in Members(doc.defs)} |->
     <<id, CHOOSE d \in Members(doc.defs) : d.name = k[2]>>]

ImplEntries(id, doc) ==
  LET wasm == {impl \in Members(doc.impls) : impl.kind = "wasm"}
      slot(impl) == <<StepTypeKey(id, impl.type), impl.selector>>
  IN [s \in {slot(impl) : impl \in wasm} |->
        <<id, (CHOOSE impl \in wasm : slot(impl) = s).module[1]>>]

(* The bodies linked for native and intrinsic impls and for aliases, and   *)
(* who installed them (upsert_import).                                     *)
LinkedKeys(id, doc) == {StepTypeKey(id, n) : n \in LinkedNames(doc)}
OwnerEntries(id, doc) == [k \in LinkedKeys(id, doc) |-> id]
LinkBodies(id, doc) ==
  [k \in LinkedKeys(id, doc) |->
     IF k[2] \in DOMAIN doc.aliases THEN "step_alias_dispatch"
     ELSE LET impl == CHOOSE i \in LinkedImpls(doc) : i.type = k[2]
          IN IF impl.kind = "native" THEN NativeBodies[impl.ref[1]] ELSE IntrinsicBodies[impl.ref[1]]]

Registered(r, spi, ns, doc) ==
  LET id == Qualify(ns, doc.name)
  IN [r EXCEPT
       !.manifests = Put(@, id, doc),
       !.actions = @ \cup {<<id, a>> : a \in DOMAIN doc.actions},
       !.roles = RegisterRoles(@, id, RoleKeysFor(spi, ns, doc.roles)),
       !.subscriptions = RegisterSubscriptions(@, id, doc.subscribes),
       !.aliases = Over(AliasEntries(id, doc), @),
       !.permissions = Put(@, id, ParseManifestPermissions(doc.permissions)),
       !.wasm = @ \cup {<<id, m>> : m \in DOMAIN doc.modules},
       !.defs = Over(DefEntries(id, doc), @),
       !.impls = Over(ImplEntries(id, doc), @),
       !.edges = @ \cup NewEdges(r, id, doc),
       !.importOwners = Over(OwnerEntries(id, doc), @),
       !.imports = Over(LinkBodies(id, doc), @)]

=============================================================================
