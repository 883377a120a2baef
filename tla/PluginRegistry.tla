--------------------------- MODULE PluginRegistry ---------------------------
(***************************************************************************)
(* The tables a kernel looks plugins up in (src/kernel/registry.rs) and    *)
(* the SPI contracts (src/spi/loader.rs, validator.rs), as operators on a  *)
(* record of tables.  The engine's import table (additional_imports in     *)
(* runtime.rs) and the kernel's record of who installed each entry         *)
(* (step_import_owners in mod.rs) are part of the record: both are keyed   *)
(* by step type.                                                           *)
(*                                                                         *)
(* A step type's key is the namespace it was declared in with its written  *)
(* name; a kernel step type, written without an owner, has one key.        *)
(***************************************************************************)
EXTENDS Permissions

(* Lists, and the elements of one at the places I, in order.               *)
Members(list) == {list[i] : i \in DOMAIN list}
IsList(list) == list \in Seq(Members(list))

KeptUpTo(list, I) ==
  LET kept[n \in 0..Len(list)] ==
        IF n = 0 THEN <<>>
        ELSE IF n \in I THEN Append(kept[n - 1], list[n]) ELSE kept[n - 1]
  IN kept
Kept(list, I) == KeptUpTo(list, I)[Len(list)]

(* The places where an element is met for the first time.                  *)
Firsts(list) == {i \in DOMAIN list : \A j \in DOMAIN list : list[j] = list[i] => i <= j}

(* Tables: one with entries laid over it, and one entry.                   *)
Over(entries, table) ==
  [k \in DOMAIN entries \cup DOMAIN table |-> IF k \in DOMAIN entries THEN entries[k] ELSE table[k]]
Put(table, key, value) == Over([k \in {key} |-> value], table)
Get(table, key, default) == IF key \in DOMAIN table THEN table[key] ELSE default

EmptyRegistry ==
  [manifests |-> <<>>,   \* plugin -> its document
   actions |-> {},       \* <<plugin, action>>
   roles |-> <<>>,       \* role key -> plugins, in order of registration
   subscriptions |-> <<>>, \* event -> <<plugin, action>>, in order of registration
   aliases |-> <<>>,     \* step type key -> <<plugin, action>>
   permissions |-> <<>>, \* plugin -> parsed grants
   wasm |-> {},          \* <<plugin, module>>
   defs |-> <<>>,        \* step type key -> <<plugin, definition>>
   impls |-> <<>>,       \* <<step type key, selector>> -> <<plugin, module>>
   edges |-> {},         \* <<from, to>>, each <<plugin, action>>
   importOwners |-> <<>>, \* step type key -> the plugin that installed its body
   imports |-> <<>>]     \* step type key -> the body linked for it

StepTypeKey(plugin, written) ==
  <<IF HasOwner(written) THEN NamespaceOf(plugin) ELSE Root, written>>

(* A plugin subscribes an action to an event once: the list of each event  *)
(* a document names is extended by the pairs that are new to it.           *)
RegisterSubscriptions(subscriptions, plugin, subscribes) ==
  LET pairs == [i \in DOMAIN subscribes |-> <<plugin, subscribes[i][2]>>]
      bucket(e) == Get(subscriptions, e, <<>>)
      new(e) == {i \in Firsts(subscribes) : subscribes[i][1] = e /\ pairs[i] \notin Members(bucket(e))}
  IN Over([e \in {subscribes[i][1] : i \in DOMAIN subscribes} |-> bucket(e) \o Kept(pairs, new(e))],
          subscriptions)

(* A plugin is appended to the list of each of its keys, as often as the   *)
(* key is given.                                                           *)
RegisterRoles(roles, plugin, keys) ==
  LET times(k) == Kept([i \in DOMAIN keys |-> plugin], {i \in DOMAIN keys : keys[i] = k})
  IN Over([k \in Members(keys) |-> Get(roles, k, <<>>) \o times(k)], roles)

(* What another plugin's name resolves to along a caller's chain.          *)
AliasCandidate(r, from, written) ==
  LET namespaces == AncestorNamespaces(NamespaceOf(from))
      hit == FirstIn(namespaces, LAMBDA ns : <<ns, written>> \in DOMAIN r.aliases)
  IN IF hit = <<>> THEN <<>> ELSE <<r.aliases[<<hit[1], written>>]>>

SubscribersFor(r, event) == Get(r.subscriptions, event, <<>>)
PluginsForRole(r, key) == Get(r.roles, key, <<>>)
PermissionsFor(r, plugin) == Get(r.permissions, plugin, <<>>)

(* unregister_plugin: every slice the plugin touched, its own invoke edges *)
(* but not the ones into it; then release_step_imports, which drops a body *)
(* only while the plugin still owns it.                                    *)
Without(table, Mine(_)) == [k \in {x \in DOMAIN table : ~Mine(x)} |-> table[k]]
Prune(lists, Mine(_)) ==
  LET left == [k \in DOMAIN lists |-> Kept(lists[k], {i \in DOMAIN lists[k] : ~Mine(lists[k][i])})]
  IN Without(left, LAMBDA k : left[k] = <<>>)

(* Mutant: the edges into the plugin go too.                               *)
UnregisterWithCallers(r, p) ==
  [r EXCEPT
    !.manifests = Without(@, LAMBDA k : k = p),
    !.actions = {a \in @ : a[1] # p},
    !.permissions = Without(@, LAMBDA k : k = p),
    !.wasm = {w \in @ : w[1] # p},
    !.aliases = Without(@, LAMBDA k : r.aliases[k][1] = p),
    !.defs = Without(@, LAMBDA k : r.defs[k][1] = p),
    !.impls = Without(@, LAMBDA k : r.impls[k][1] = p),
    !.roles = Prune(@, LAMBDA x : x = p),
    !.subscriptions = Prune(@, LAMBDA x : x[1] = p),
    !.edges = {e \in @ : e[1][1] # p /\ e[2][1] # p}]

UnregisterPlugin(r, p) ==
  [r EXCEPT
    !.manifests = Without(@, LAMBDA k : k = p),
    !.actions = {a \in @ : a[1] # p},
    !.permissions = Without(@, LAMBDA k : k = p),
    !.wasm = {w \in @ : w[1] # p},
    !.aliases = Without(@, LAMBDA k : r.aliases[k][1] = p),
    !.defs = Without(@, LAMBDA k : r.defs[k][1] = p),
    !.impls = Without(@, LAMBDA k : r.impls[k][1] = p),
    !.roles = Prune(@, LAMBDA x : x = p),
    !.subscriptions = Prune(@, LAMBDA x : x[1] = p),
    !.edges = {e \in @ : e[1][1] # p}]

(* The names a document links bodies under: its native and intrinsic       *)
(* bodies and its aliases (a wasm body is looked up in impls instead).     *)
LinkedImpls(doc) == {impl \in Members(doc.impls) : impl.kind # "wasm"}
LinkedNames(doc) == {impl.type : impl \in LinkedImpls(doc)} \cup DOMAIN doc.aliases

(* Mutant: the bodies of aliases stay linked.                              *)
ReleaseImplsOnly(r, p, doc) ==
  LET mine == {k \in DOMAIN r.importOwners :
                 r.importOwners[k] = p /\ \E i \in DOMAIN doc.impls : k = StepTypeKey(p, doc.impls[i].type)}
  IN [r EXCEPT !.importOwners = Without(@, LAMBDA k : k \in mine),
               !.imports = Without(@, LAMBDA k : k \in mine)]

ReleaseStepImports(r, p, doc) ==
  LET mine == {k \in DOMAIN r.importOwners :
                 r.importOwners[k] = p /\ \E n \in LinkedNames(doc) : k = StepTypeKey(p, n)}
  IN [r EXCEPT !.importOwners = Without(@, LAMBDA k : k \in mine),
               !.imports = Without(@, LAMBDA k : k \in mine)]

(* SPI contracts: role key -> the actions it requires and those it knows.  *)
(* Registering the same contract again is accepted, another one refused.   *)
SpiRegisters(spi, key, contract) == key \in DOMAIN spi => spi[key] = contract

(* The nearest contract along a namespace's chain.                         *)
ResolveSpi(spi, ns, role) ==
  FirstIn([i \in DOMAIN AncestorNamespaces(ns) |-> Qualify(AncestorNamespaces(ns)[i], role)],
          LAMBDA key : key \in DOMAIN spi)

(* validate_manifest: a known role's required actions are there.           *)
SpiSatisfied(spi, ns, doc) ==
  \A i \in DOMAIN doc.roles :
    LET known == ResolveSpi(spi, ns, doc.roles[i])
    IN known # <<>> => spi[known[1]].required \subseteq DOMAIN doc.actions

(* The key of each of a plugin's roles: the contract it resolves to, or    *)
(* the role's name in the plugin's own namespace.                          *)
RoleKeysEach(spi, ns, roles) ==
  [i \in DOMAIN roles |-> IF ResolveSpi(spi, ns, roles[i]) = <<>> THEN Qualify(ns, roles[i])
                          ELSE ResolveSpi(spi, ns, roles[i])[1]]

(* The keys a plugin's roles are indexed under, none twice.                *)
RoleKeysFor(spi, ns, roles) ==
  LET keys == RoleKeysEach(spi, ns, roles) IN Kept(keys, Firsts(keys))

=============================================================================
