------------------------------- MODULE MCCalls -------------------------------
(***************************************************************************)
(* A small instance of Calls: plugins registered through Registration in   *)
(* the root namespace and in two tenants.                                  *)
(***************************************************************************)
EXTENDS Calls

LOCAL INSTANCE TLC
LOCAL INSTANCE SequencesExt

Names == {"t", "u", "app", "vault", "gwead", "intrinsics", "invoke", "script", "gwead_intrinsics",
          "acme", "enc", "seal", "ship", "go", "put", "store", "key", "s1", "helper"}
MCReserved == {<<"invoke">>, <<"script">>}
Intrinsic(name) == <<"gwead", "intrinsics", name>>
NativeRef(name) == <<"acme", name, "enc">>

R == INSTANCE Registration WITH
  Templated <- {}, ReservedStepTypes <- MCReserved, TrustedProviders <- {},
  NativeBindings <- {<<<<t, "app">>, NativeRef("vault")>> : t \in {"t", "u"}},
  Inventory <- <<[name |-> NativeRef("vault"), body |-> "enc", kernelOwned |-> FALSE]>>,
  Seeds <- <<>>,
  IntrinsicBodies <- [r \in {Intrinsic("invoke"), Intrinsic("script")} |-> r[3]]

Action == [dataflow |-> FALSE, continuous |-> FALSE, wallclock |-> <<>>, planned |-> TRUE, steps |-> <<>>]
Pipeline == [Action EXCEPT !.dataflow = TRUE,
               !.steps = <<[id |-> "s1", type |-> <<"invoke">>, path |-> <<>>, longRunning |-> TRUE,
                            plugin |-> <<>>, action |-> <<>>, language |-> <<>>, variable |-> <<>>,
                            shaped |-> TRUE]>>]
Def(name) == [name |-> name, reservedKey |-> FALSE, references |-> FALSE, freelyUsable |-> FALSE]
Impl(type, kind, ref) ==
  [type |-> type, selector |-> <<>>, kind |-> kind, module |-> <<>>, ref |-> <<ref>>]
Document(name) ==
  [name |-> name, formatSupported |-> TRUE, roles |-> <<>>, secrets |-> <<>>, permissions |-> <<>>,
   aliases |-> <<>>, defs |-> <<>>, impls |-> <<>>, modules |-> <<>>, actions |-> <<>>, subscribes |-> <<>>]
Secret(key) == <<[key |-> key, overridable |-> FALSE]>>

MCIntrinsics ==
  [Document("gwead_intrinsics") EXCEPT
    !.defs = <<Def(<<"invoke">>), Def(<<"script">>)>>,
    !.impls = <<Impl(<<"invoke">>, "intrinsic", Intrinsic("invoke")),
                Impl(<<"script">>, "intrinsic", Intrinsic("script"))>>]

(* Defines a step type with a native body, which reads its secret, and an  *)
(* alias; fulfils a role; hears of the event.                              *)
Vault ==
  [Document("vault") EXCEPT
    !.roles = <<"store">>,
    !.secrets = Secret("key"),
    !.defs = <<Def(<<"vault", "seal">>)>>,
    !.impls = <<Impl(<<"vault", "seal">>, "native", NativeRef("vault"))>>,
    !.aliases = [n \in {<<"vault", "ship">>} |-> "put"],
    !.permissions = <<<<<<"invoke">>, <<"role">>, <<"*">>>>>>,
    !.actions = [a \in {"put"} |-> [Action EXCEPT !.wallclock = <<1>>]],
    !.subscribes = <<<<"changed", "put">>>>]

(* A tenant's plugin that may use those, and call every plugin of its      *)
(* namespace.                                                              *)
App ==
  [Document("app") EXCEPT
    !.secrets = Secret("key"),
    !.permissions = <<<<<<"step_type">>, <<"vault", "seal">>>>, <<<<"step_type">>, <<"vault", "ship">>>>,
                      <<<<"invoke">>, <<"plugin">>, <<"*">>>>, <<<<"invoke">>, <<"role">>, <<"store">>>>>>,
    !.actions = [a \in {"go"} |-> Pipeline]]

(* Another tenant's plugin of the same name fulfils the role there.        *)
Other == [App EXCEPT !.roles = <<"store">>, !.actions = [a \in {"go", "put"} |-> Action]]

(* What registering the four leaves in the tables.                         *)
Documents == <<<<Root, MCIntrinsics, TRUE>>, <<Root, Vault, FALSE>>, <<<<"t">>, App, FALSE>>,
               <<<<"u">>, Other, FALSE>>>>
Registering(n) == FoldLeft(LAMBDA r, d : R!Registered(r, <<>>, d[1], d[2]), EmptyRegistry, SubSeq(Documents, 1, n))

StepType(name) == [category |-> "step_type", type |-> <<"vault", name>>]
AnyPlugin == [category |-> "invoke", kind |-> "plugin", name |-> [pattern |-> "any", of |-> <<>>]]
AnyRole == [AnyPlugin EXCEPT !.kind = "role"]
StoreRole == [AnyRole EXCEPT !.name = [pattern |-> "exact", of |-> <<"store">>]]
AppGrants == <<StepType("seal"), StepType("ship"), AnyPlugin, StoreRole>>

MCTables ==
  [manifests |-> <<"gwead_intrinsics">> :> MCIntrinsics @@ <<"vault">> :> Vault
                   @@ <<"t", "app">> :> App @@ <<"u", "app">> :> Other,
   actions |-> {<<<<"vault">>, "put">>, <<<<"t", "app">>, "go">>, <<<<"u", "app">>, "go">>,
                <<<<"u", "app">>, "put">>},
   roles |-> <<"store">> :> <<<<"vault">>>> @@ <<"u", "store">> :> <<<<"u", "app">>>>,
   subscriptions |-> "changed" :> <<<<<<"vault">>, "put">>>>,
   aliases |-> <<Root, <<"vault", "ship">>>> :> <<<<"vault">>, "put">>,
   permissions |-> <<"gwead_intrinsics">> :> <<>> @@ <<"vault">> :> <<AnyRole>>
                     @@ <<"t", "app">> :> AppGrants @@ <<"u", "app">> :> AppGrants,
   wasm |-> {},
   defs |-> <<Root, <<"invoke">>>> :> <<<<"gwead_intrinsics">>, Def(<<"invoke">>)>>
              @@ <<Root, <<"script">>>> :> <<<<"gwead_intrinsics">>, Def(<<"script">>)>>
              @@ <<Root, <<"vault", "seal">>>> :> <<<<"vault">>, Def(<<"vault", "seal">>)>>,
   impls |-> <<>>,
   edges |-> {},
   importOwners |-> <<Root, <<"invoke">>>> :> <<"gwead_intrinsics">> @@ <<Root, <<"script">>>> :> <<"gwead_intrinsics">>
                      @@ <<Root, <<"vault", "seal">>>> :> <<"vault">> @@ <<Root, <<"vault", "ship">>>> :> <<"vault">>,
   imports |-> <<Root, <<"invoke">>>> :> "invoke" @@ <<Root, <<"script">>>> :> "script" @@ <<Root, <<"vault", "seal">>>> :> "enc"
                 @@ <<Root, <<"vault", "ship">>>> :> "step_alias_dispatch"]

ASSUME AllRegister ==
  /\ \A i \in DOMAIN Documents :
       R!RegisterAccepted(Registering(i - 1), <<>>, Documents[i][1], Documents[i][2], Documents[i][3])
  /\ MCTables = Registering(Len(Documents))

MCStarts == {<<<<"t", "app">>, "go">>, <<<<"vault">>, "put">>, <<<<"vault">>, "get">>}
MCStartRoles == {<<"store", "put">>, <<"none", "put">>}
Target(plugin, role) == [plugin |-> plugin, role |-> role, action |-> "put"]
MCTargets ==
  {Target(<<"vault">>, <<>>), Target(<<"app">>, <<>>), Target(<<"?">>, <<>>),
   Target(<<>>, <<"store">>), Target(<<>>, <<>>)}
MCRedirects == {<<<<"u", "app">>, "put">>}
MCAnswers == {<<{"key", "other"}>>, <<>>}
MCNone == <<>>
MCGlobby == {"*"}

=============================================================================
