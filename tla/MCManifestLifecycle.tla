------------------------ MODULE MCManifestLifecycle ------------------------
(***************************************************************************)
(* Small instances of ManifestLifecycle.                                   *)
(***************************************************************************)
EXTENDS ManifestLifecycle

Tenant == <<"t">>
MCWellFormed == {"t", "a", "b", "lua", "acme", "gwead", "native_impl", "script", "let", "intrinsics",
                 "store", "events", "enc", "go", "get", "put", "s1", "s2", "1st", "gwead_intrinsics", "ship"}
MCDigitLed == {"1st"}
MCGlobby == {"*", "a*"}
MCTemplated == {"{{x}}"}
MCReserved == {<<"script">>, <<"let">>, <<"invoke">>, <<"parallel">>, <<"try">>}
MCTrusted == {<<"lua">>}
MCBindings == {<<<<"gwead_intrinsics">>, <<"gwead", "intrinsics", "let">>>>}
MCInventory == <<[name |-> <<"gwead", "intrinsics", "let">>, body |-> "let", kernelOwned |-> TRUE],
                 [name |-> <<"acme", "b", "enc">>, body |-> "enc", kernelOwned |-> FALSE],
                 [name |-> <<"acme", "b", "enc">>, body |-> "other enc", kernelOwned |-> FALSE]>>
MCSeeds == <<>>
MCIntrinsicBodies == [r \in {<<"gwead", "intrinsics", "script">>} |-> "script"]
MCAppCategories == [c \in {<<"acme", "events">>} |-> {<<<<"publish">>>>}]

Step(id, type) ==
  [id |-> id, type |-> type, path |-> <<>>, longRunning |-> FALSE, plugin |-> <<>>, action |-> <<>>,
   language |-> <<>>, variable |-> <<>>, shaped |-> TRUE]
Invoke(id, plugin, action) == [Step(id, <<"invoke">>) EXCEPT !.plugin = <<plugin>>, !.action = <<action>>]
Action(steps) ==
  [dataflow |-> FALSE, continuous |-> FALSE, wallclock |-> <<>>, planned |-> TRUE, steps |-> steps]
Def(name) == [name |-> name, reservedKey |-> FALSE, references |-> FALSE]
Impl(type, kind) ==
  [type |-> type, selector |-> <<>>, kind |-> kind, module |-> <<>>, ref |-> <<>>]
Plugin(name) ==
  [json |-> TRUE, actionsKey |-> "with steps", blocks |-> FALSE, schema |-> TRUE,
   name |-> name, formatSupported |-> TRUE, roles |-> <<>>, secrets |-> <<>>, permissions |-> <<>>,
   aliases |-> <<>>, defs |-> <<>>, impls |-> <<>>, modules |-> <<>>, actions |-> <<>>,
   subscribes |-> <<>>, contract |-> <<>>]
Spi(name, required) ==
  [Plugin(name) EXCEPT !.actionsKey = "without steps", !.contract = [required |-> required]]

(* The engine's own manifest.                                              *)
MCIntrinsics ==
  [Plugin("gwead_intrinsics") EXCEPT
    !.actionsKey = "absent", !.blocks = TRUE,
    !.permissions = <<<<<<"bind">>, <<"native_impl">>, <<"gwead", "intrinsics", "let">>>>>>,
    !.defs = <<Def(<<"script">>), Def(<<"let">>)>>,
    !.impls = <<[Impl(<<"script">>, "intrinsic") EXCEPT !.ref = <<<<"gwead", "intrinsics", "script">>>>],
                [Impl(<<"let">>, "native") EXCEPT !.ref = <<<<"gwead", "intrinsics", "let">>>>]>>]

(* A plugin that fulfils a role and calls another.                         *)
PluginA ==
  [Plugin("a") EXCEPT
    !.roles = <<"store", "store">>,
    !.permissions = <<<<<<"invoke">>, <<"plugin">>, <<"b">>>>>>,
    !.actions = [x \in {"get"} |-> Action(<<Invoke("s1", "b", "go")>>)],
    !.subscribes = <<<<"put", "get">>, <<"put", "get">>>>]
(* Its next version runs a script instead.                                 *)
PluginAScript ==
  [PluginA EXCEPT !.roles = <<"store">>,
     !.actions = [x \in {"get"} |-> Action(<<[Step("s1", <<"script">>) EXCEPT !.language = <<"lua">>]>>)]]
(* A plugin that defines a step type with a native body and an alias.      *)
PluginB ==
  [Plugin("b") EXCEPT
    !.defs = <<Def(<<"b", "enc">>)>>,
    !.impls = <<[Impl(<<"b", "enc">>, "native") EXCEPT !.ref = <<<<"acme", "b", "enc">>>>]>>,
    !.aliases = [n \in {<<"b", "ship">>} |-> "go"],
    !.actions = [x \in {"go"} |-> Action(<<Step("s1", <<"b", "enc">>)>>)]]
(* Its next version calls back into a.                                     *)
PluginBCalls ==
  [Plugin("b") EXCEPT !.actions = [x \in {"go"} |-> Action(<<Invoke("s1", "a", "get")>>)]]
(* The runtime of a script language.                                       *)
PluginLua ==
  [Plugin("lua") EXCEPT
    !.actionsKey = "absent", !.blocks = TRUE,
    !.permissions = <<<<<<"provide">>, <<"step_type">>, <<"script">>, <<"lua">>>>>>,
    !.modules = [m \in {"vm"} |-> "compiles"],
    !.impls = <<[Impl(<<"script">>, "wasm") EXCEPT !.selector = <<"lua">>, !.module = <<"vm">>]>>]
(* Supplies a body for b's step type although nobody trusts it.            *)
Impostor ==
  [Plugin("acme") EXCEPT
    !.actionsKey = "absent", !.blocks = TRUE,
    !.permissions = <<<<<<"provide">>, <<"step_type">>, <<"b", "enc">>>>>>,
    !.modules = [m \in {"vm"} |-> "compiles"],
    !.impls = <<[Impl(<<"b", "enc">>, "wasm") EXCEPT !.module = <<"vm">>]>>]
Contract == Spi("store", {"get"})
Stricter == Spi("store", {"get", "put"})
NotJson == [Plugin("a") EXCEPT !.json = FALSE]

MCDocuments ==
  {PluginA, PluginAScript, PluginB, PluginBCalls, PluginLua, Impostor, Contract, Stricter, NotJson}
MCPresented ==
  {<<PluginA, Root>>, <<PluginA, Tenant>>, <<PluginAScript, Root>>, <<PluginB, Root>>,
   <<PluginLua, Root>>, <<Impostor, Root>>, <<Contract, Root>>, <<Contract, Tenant>>, <<Stricter, <<"">>>>}
MCDirect == {PluginBCalls, Contract}

(* How the last call ended guards nothing, so it tells no states apart.    *)
MCView == <<tables, unloaded>>

(* What an entry grants, over all of up to three atoms: "*" everything,    *)
(* "*.s" the host s and those below it, "p/*" the path p and those below   *)
(* it, any other only itself; an entry with a star elsewhere is refused.   *)
Words(atoms) == UNION {[1..n -> atoms] : n \in 1..3}
ASSUME GrantsMeanWhatTheySay ==
  \A e \in Words({"*", "x", "y"}), w \in Words({"x", "y"}) :
    /\ CheckNetworkEgress(<<ParsePermission(<<<<"network">>, <<"egress">>, e>>)>>, w)
         <=> e \in {<<"*">>, w} \cup {<<"*">> \o SubSeq(w, k, Len(w)) : k \in DOMAIN w}
    /\ CheckBlobs(<<ParsePermission(<<<<"blobs">>, <<"read">>, e>>)>>, "read", w)
         <=> e \in {<<"*">>, w} \cup {SubSeq(w, 1, k) \o <<"*">> : k \in DOMAIN w}
    /\ ~CheckBlobs(<<ParsePermission(<<<<"blobs">>, <<"write">>, e>>)>>, "read", w)

=============================================================================
