------------------------- MODULE ManifestLifecycle -------------------------
(***************************************************************************)
(* Loading, unloading and reloading manifests on a kernel                  *)
(* (src/kernel/mod.rs): the handles it gives out, the index of which       *)
(* handle uses which SPI role, and the tables of PluginRegistry they must  *)
(* agree with.  Every call holds the kernel exclusively (&mut self), so a  *)
(* call is one step.  next_manifest_id saturates at 2^64 - 1; here calls   *)
(* stop at MaxHandles.                                                     *)
(***************************************************************************)
EXTENDS Registration

CONSTANTS
  Documents,   \* the documents an embedder may present
  Presented,   \* <<document, namespace>>, what it may load
  Direct,      \* the documents it may register without a handle
  Intrinsics,  \* the engine's own manifest, loaded at boot
  MaxHandles   \* bound on the handles given out

AllDocuments == Documents \cup Direct \cup {Intrinsics}

VARIABLES
  registry,    \* the tables of PluginRegistry
  spi,         \* role key -> contract
  loaded,      \* handle -> the record of its manifest
  roleUsers,   \* role key -> the handles of the plugins that claim it
  nextId,      \* the next handle
  direct,      \* plugins registered without a handle (history)
  unloaded,    \* handles given to unload_manifest and accepted by it (history)
  result       \* how the last call ended

tables == <<registry, spi, loaded, roleUsers, nextId, direct>>
kernelVars == <<tables, unloaded, result>>

(* classify_manifest: `actions' with steps, or the extension blocks        *)
(* without `actions', make a plugin; `actions' without any steps a         *)
(* contract; then the document must pass that kind's schema.               *)
Classify(doc) ==
  IF ~doc.json THEN "error"
  ELSE IF doc.actionsKey = "absent"
  THEN IF doc.blocks /\ doc.schema THEN "plugin" ELSE "error"
  ELSE IF ~doc.schema THEN "error"
  ELSE IF doc.actionsKey = "with steps" THEN "plugin" ELSE "spi"

(* Mutant: a plugin that is there already is registered again.             *)
ClassifiedAgain(r, s, ns, doc, kernelOwned) ==
  \/ Classify(doc) = "spi" /\ ValidNamespace(ns) /\ SpiRegisters(s, Qualify(ns, doc.name), doc.contract)
  \/ /\ Classify(doc) = "plugin"
     /\ \/ RegisterAccepted(r, s, ns, doc, kernelOwned)
        \/ Qualify(ns, doc.name) \in DOMAIN r.manifests

(* register_classified_manifest, as a guard and what it writes.            *)
ClassifiedAccepted(r, s, ns, doc, kernelOwned) ==
  \/ Classify(doc) = "spi" /\ ValidNamespace(ns) /\ SpiRegisters(s, Qualify(ns, doc.name), doc.contract)
  \/ Classify(doc) = "plugin" /\ RegisterAccepted(r, s, ns, doc, kernelOwned)

ClassifiedRegistry(r, s, ns, doc) ==
  IF Classify(doc) = "plugin" THEN Registered(r, s, ns, doc) ELSE r
ClassifiedSpi(s, ns, doc) ==
  IF Classify(doc) = "spi" THEN Put(s, Qualify(ns, doc.name), doc.contract) ELSE s

ManifestRecord(ns, doc, immutable) ==
  [identifier |-> Qualify(ns, doc.name), namespace |-> ns,
   kind |-> Classify(doc), doc |-> doc, immutable |-> immutable]

(* track_manifest and untrack_manifest: no role keeps an empty set.        *)
Track(users, s, h, record) ==
  IF record.kind # "plugin" THEN users
  ELSE Over([key \in Members(RoleKeysFor(s, record.namespace, record.doc.roles)) |->
                 Get(users, key, {}) \cup {h}], users)

Untrack(users, h) ==
  LET left == [k \in DOMAIN users |-> users[k] \ {h}]
  IN Without(left, LAMBDA k : left[k] = {})

Forget(table, h) == Without(table, LAMBDA k : k = h)

(* A namespace is a list of segments, a document's roles and subscriptions *)
(* are arrays, and the engine's own manifest is a plugin that registers: a *)
(* kernel that could not register it does not boot.                        *)
ASSUME LifecycleAssumption ==
  /\ \A p \in Presented : p[1] \in Documents /\ IsList(p[2])
  /\ \A doc \in AllDocuments : IsList(doc.roles) /\ IsList(doc.subscribes)
  /\ Classify(Intrinsics) = "plugin"
  /\ RegisterAccepted(EmptyRegistry, <<>>, Root, Intrinsics, TRUE)

(* boot: the intrinsics are the first manifest, immutable and the only one *)
(* that may declare kernel step types.                                     *)
Boot ==
  LET record == ManifestRecord(Root, Intrinsics, TRUE)
  IN /\ registry = Registered(EmptyRegistry, <<>>, Root, Intrinsics)
     /\ spi = <<>>
     /\ loaded = Put(<<>>, 1, record)
     /\ roleUsers = Track(<<>>, <<>>, 1, record)
     /\ nextId = 2
     /\ direct = {}
     /\ unloaded = {}
     /\ result = "ok"

Refuse(why) == result' = why /\ UNCHANGED <<tables, unloaded>>

LoadManifest(doc, ns) ==
  /\ nextId <= MaxHandles
  /\ IF ClassifiedAccepted(registry, spi, ns, doc, FALSE)
     THEN LET record == ManifestRecord(ns, doc, FALSE)
          IN /\ registry' = ClassifiedRegistry(registry, spi, ns, doc)
             /\ spi' = ClassifiedSpi(spi, ns, doc)
             /\ loaded' = Put(loaded, nextId, record)
             /\ roleUsers' = Track(roleUsers, spi', nextId, record)
             /\ nextId' = nextId + 1
             /\ result' = "ok"
             /\ UNCHANGED <<direct, unloaded>>
     ELSE Refuse("load refused")

(* register_plugin: into the root namespace, without a handle.             *)
RegisterPlugin(doc) ==
  /\ Classify(doc) = "plugin"
  /\ IF RegisterAccepted(registry, spi, Root, doc, FALSE)
     THEN /\ registry' = Registered(registry, spi, Root, doc)
          /\ direct' = direct \cup {Qualify(Root, doc.name)}
          /\ result' = "ok"
          /\ UNCHANGED <<spi, loaded, roleUsers, nextId, unloaded>>
     ELSE Refuse("register refused")

(* register_spi_from_json: a contract without a handle; its name must be a *)
(* role's and the one it is registered under.                              *)
RegisterSpi(role, doc) ==
  /\ doc.json
  /\ IF /\ ValidName("role", role)
        /\ Classify(doc) = "spi"
        /\ doc.name = role
        /\ SpiRegisters(spi, Qualify(Root, role), doc.contract)
     THEN /\ spi' = Put(spi, Qualify(Root, role), doc.contract)
          /\ result' = "ok"
          /\ UNCHANGED <<registry, loaded, roleUsers, nextId, direct, unloaded>>
     ELSE Refuse("register refused")

Immutable(h) == h \in DOMAIN loaded /\ loaded[h].immutable

UnloadUnknown(h) ==
  /\ h \notin DOMAIN loaded \/ Immutable(h)
  /\ Refuse("unload refused")

(* A contract somebody claims stays.  One that is gone although a handle   *)
(* still holds it is reported as drift, and the handle is dropped.         *)
UnloadSpi(h) ==
  LET role == loaded[h].identifier
  IN /\ loaded[h].kind = "spi"
     /\ IF Get(roleUsers, role, {}) # {} THEN Refuse("unload refused")
        ELSE /\ loaded' = Forget(loaded, h)
             /\ unloaded' = unloaded \cup {h}
             /\ UNCHANGED <<registry, nextId, direct>>
             /\ IF role \in DOMAIN spi
                THEN /\ spi' = Forget(spi, role)
                     /\ roleUsers' = Untrack(roleUsers, h)
                     /\ result' = "ok"
                ELSE UNCHANGED <<spi, roleUsers>> /\ result' = "drift"

UnloadPlugin(h) ==
  LET p == loaded[h].identifier
  IN /\ loaded[h].kind = "plugin"
     /\ loaded' = Forget(loaded, h)
     /\ unloaded' = unloaded \cup {h}
     /\ UNCHANGED <<spi, nextId, direct>>
     /\ IF p \in DOMAIN registry.manifests
        THEN /\ registry' = ReleaseStepImports(UnregisterPlugin(registry, p), p, loaded[h].doc)
             /\ roleUsers' = Untrack(roleUsers, h)
             /\ result' = "ok"
        ELSE UNCHANGED <<registry, roleUsers>> /\ result' = "drift"

UnloadManifest(h) ==
  \/ UnloadUnknown(h)
  \/ /\ h \in DOMAIN loaded /\ ~Immutable(h)
     /\ UnloadSpi(h) \/ UnloadPlugin(h)

(* What reload_manifest registers against: the tables without the old one. *)
Scrubbed(h) ==
  LET old == loaded[h]
  IN IF old.kind = "plugin"
     THEN ReleaseStepImports(UnregisterPlugin(registry, old.identifier), old.identifier, old.doc)
     ELSE registry
SpiWithout(h) == IF loaded[h].kind = "spi" THEN Forget(spi, loaded[h].identifier) ELSE spi

Drifted(h) ==
  \/ loaded[h].kind = "spi" /\ loaded[h].identifier \notin DOMAIN spi
  \/ loaded[h].kind = "plugin" /\ loaded[h].identifier \notin DOMAIN registry.manifests

(* Mutant: the replacement lands in the root namespace.                    *)
ReinstateInRoot(h, doc) ==
  LET record == ManifestRecord(Root, doc, FALSE)
  IN /\ registry' = ClassifiedRegistry(Scrubbed(h), SpiWithout(h), Root, doc)
     /\ spi' = ClassifiedSpi(SpiWithout(h), Root, doc)
     /\ loaded' = Put(loaded, h, record)
     /\ roleUsers' = Track(Untrack(roleUsers, h), spi', h, record)

Reinstate(h, doc) ==
  LET record == ManifestRecord(loaded[h].namespace, doc, FALSE)
  IN /\ registry' = ClassifiedRegistry(Scrubbed(h), SpiWithout(h), loaded[h].namespace, doc)
     /\ spi' = ClassifiedSpi(SpiWithout(h), loaded[h].namespace, doc)
     /\ loaded' = Put(loaded, h, record)
     /\ roleUsers' = Track(Untrack(roleUsers, h), spi', h, record)

(* The old manifest goes first; if the new one is refused the old one is   *)
(* registered again, and if that is refused too the handle is lost.        *)
ReloadManifest(h, doc) ==
  LET ns == loaded[h].namespace
  IN IF h \notin DOMAIN loaded \/ Immutable(h) THEN Refuse("reload refused")
     ELSE IF Drifted(h) THEN Refuse("drift")
     ELSE /\ UNCHANGED <<nextId, direct, unloaded>>
          /\ IF ClassifiedAccepted(Scrubbed(h), SpiWithout(h), ns, doc, FALSE)
             THEN Reinstate(h, doc) /\ result' = "ok"
             ELSE IF ClassifiedAccepted(Scrubbed(h), SpiWithout(h), ns, loaded[h].doc, FALSE)
             THEN Reinstate(h, loaded[h].doc) /\ result' = "rolled back"
             ELSE /\ registry' = Scrubbed(h)
                  /\ spi' = SpiWithout(h)
                  /\ loaded' = Forget(loaded, h)
                  /\ roleUsers' = Untrack(roleUsers, h)
                  /\ result' = "rollback failed"

KernelNext ==
  \/ \E p \in Presented : LoadManifest(p[1], p[2])
  \/ \E doc \in Direct : RegisterPlugin(doc)
  \/ \E doc \in Direct, role \in {d.name : d \in Direct} : RegisterSpi(role, doc)
  \/ \E h \in 1..nextId : UnloadManifest(h)
  \/ \E h \in 1..nextId, doc \in Documents : ReloadManifest(h, doc)

KernelSpec == Boot /\ [][KernelNext]_kernelVars

-----------------------------------------------------------------------------
(***************************************************************************)
(* Properties.                                                             *)
(***************************************************************************)
Registrants == DOMAIN registry.manifests
Pairs(lists) == UNION {{<<k, lists[k][i]>> : i \in DOMAIN lists[k]} : k \in DOMAIN lists}
LiteralInvokes(p, doc) ==
  UNION {{<<<<p, a>>, <<s.plugin, s.action[1]>>>> :
            s \in {x \in Members(Steps(doc, a)) :
                     x.type = <<"invoke">> /\ x.plugin # <<>> /\ x.action # <<>>}}
         : a \in DOMAIN doc.actions}
LinkedBy(p) == {StepTypeKey(p, n) : n \in LinkedNames(registry.manifests[p])}

(* Whatever was loaded, refused, reloaded and unloaded before, the tables  *)
(* hold exactly what the documents of the registered plugins declare: no   *)
(* plugin leaves a step type, an alias, a body, a grant or a subscription  *)
(* behind, and none loses one to another's unloading (unregister_plugin    *)
(* and release_step_imports undo what the commit wrote, table by table).   *)
TablesMatchLoaded ==
  LET Doc(p) == registry.manifests[p]
  IN /\ Registrants = {loaded[h].identifier : h \in {g \in DOMAIN loaded : loaded[g].kind = "plugin"}} \cup direct
     /\ \A h \in DOMAIN loaded : loaded[h].kind = "plugin" => Doc(loaded[h].identifier) = loaded[h].doc
     /\ registry.actions = UNION {{<<p, a>> : a \in DOMAIN Doc(p).actions} : p \in Registrants}
     /\ registry.wasm = UNION {{<<p, m>> : m \in DOMAIN Doc(p).modules} : p \in Registrants}
     /\ DOMAIN registry.permissions = Registrants
     /\ DOMAIN registry.aliases = UNION {{StepTypeKey(p, n) : n \in DOMAIN Doc(p).aliases} : p \in Registrants}
     /\ DOMAIN registry.defs = UNION {{StepTypeKey(p, Doc(p).defs[i].name) : i \in DOMAIN Doc(p).defs} : p \in Registrants}
     /\ DOMAIN registry.imports = UNION {LinkedBy(p) : p \in Registrants}
     /\ \A p \in Registrants : \A k \in LinkedBy(p) : registry.importOwners[k] = p
     /\ Pairs(registry.subscriptions) =
          UNION {{<<Doc(p).subscribes[i][1], <<p, Doc(p).subscribes[i][2]>>>> : i \in DOMAIN Doc(p).subscribes}
                 : p \in Registrants}

(* The two indexes of who fulfils a role agree: a handle is counted as a   *)
(* user of a contract exactly while its plugin is listed under it, however *)
(* contracts came and went since (untrack_manifest works by handle because *)
(* resolving the role again could land elsewhere), and no plugin is listed *)
(* twice.  unload_manifest relies on the first, role dispatch on the       *)
(* second.                                                                 *)
RoleIndexesAgree ==
  /\ \A key \in DOMAIN roleUsers \cup DOMAIN registry.roles :
       {loaded[h].identifier : h \in Get(roleUsers, key, {})}
         = Members(PluginsForRole(registry, key)) \ direct
  /\ \A key \in DOMAIN registry.roles :
       LET list == registry.roles[key]
       IN list # <<>> /\ \A i, j \in DOMAIN list : list[i] = list[j] => i = j

(* No chain of `invoke' steps of root plugins that name plugin and action  *)
(* comes back to where it started, computed from the documents registered  *)
(* now: the edge table is never short of one, although a plugin may come   *)
(* back after others began to name it (check_acyclic).                     *)
LiteralInvokesAcyclic ==
  Acyclic(UNION {LiteralInvokes(p, registry.manifests[p]) :
                   p \in {q \in Registrants : NamespaceOf(q) = Root}})

(* Whoever's code runs for a step type is the plugin that defines it now   *)
(* or one the embedder trusts to provide it, also after the definer was    *)
(* unloaded and somebody else took its name                                *)
(* (check_step_type_impl_claim).                                           *)
ForeignBodiesTrusted ==
  LET Allowed(key, p) ==
        p \in TrustedProviders \/ (key \in DOMAIN registry.defs /\ registry.defs[key][1] = p)
  IN /\ \A key \in DOMAIN registry.importOwners :
          key \notin DOMAIN registry.aliases => Allowed(key, registry.importOwners[key])
     /\ \A slot \in DOMAIN registry.impls : Allowed(slot[1], registry.impls[slot][1])

(* Two handles may hold one role's contract (the second load is accepted   *)
(* when it says the same); once one of them is reloaded the other's        *)
(* document is no longer the contract in force.                            *)
ContractsAsLoaded ==
  \A h \in DOMAIN loaded :
    loaded[h].kind = "spi" => Get(spi, loaded[h].identifier, <<>>) = loaded[h].doc.contract

(* A reload that reports the new document's error and keeps the handle has *)
(* put everything back: the same documents under the same handles, the     *)
(* same grants, step types and bodies, and the same contracts unless two   *)
(* handles disagree on one.  No edge of an `invoke' that names its callee  *)
(* is lost.  (The order of a role's plugins and of an event's subscribers, *)
(* the key a role resolves to and the action an alias step leads to may    *)
(* have changed: the plugin is registered anew.)                           *)
RollbackRestores ==
  [][result' = "rolled back" =>
       /\ UNCHANGED <<loaded, nextId>>
       /\ ContractsAsLoaded => UNCHANGED spi
       /\ \A t \in DOMAIN registry \ {"roles", "subscriptions", "edges"} : registry'[t] = registry[t]
       /\ Pairs(registry'.subscriptions) = Pairs(registry.subscriptions)
       /\ \A p \in Registrants :
            LiteralInvokes(p, registry.manifests[p]) \subseteq registry'.edges]_kernelVars

(* reload_manifest's promise: "The handle stays valid and continues to     *)
(* point at the old manifest in either outcome".                           *)
HandleStaysValid == \A h \in 1..(nextId - 1) : h \in DOMAIN loaded \cup unloaded

Namespaces == {Root} \cup {p[2] : p \in Presented}
Identifiers == {Qualify(ns, doc.name) : ns \in Namespaces, doc \in AllDocuments}

(* A kernel keeps the promises of ManifestStore about its handles.         *)
Store == INSTANCE ManifestStore WITH
  Kinds <- {"plugin", "spi"},
  Names <- Identifiers,
  held <- [h \in DOMAIN loaded |-> [kind |-> loaded[h].kind, name |-> loaded[h].identifier,
                                    fixed |-> loaded[h].immutable]],
  next <- nextId

KeepsTheStore == Store!StoreSpec

=============================================================================
