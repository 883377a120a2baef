-------------------------------- MODULE Calls --------------------------------
(***************************************************************************)
(* Calls between plugins (src/kernel/mod.rs, host_api.rs, secrets.rs,      *)
(* dispatch.rs): an action started by the embedder, the actions it reaches *)
(* through `invoke' and alias steps, dispatch_role and io.invoke, and the  *)
(* subscribers of the events its bodies publish.  Every call is awaited,   *)
(* so one invocation tree is a stack; trees share nothing but the tables,  *)
(* which no call changes.                                                  *)
(*                                                                         *)
(* What a step resolves its templates to, what the embedder's dispatch     *)
(* orchestrator and secret resolver answer, and what plugin code does      *)
(* between calls are choices.  Input, output, hints and config are left    *)
(* out.  A deadline is the time left until it.                             *)
(***************************************************************************)
EXTENDS PluginRegistry, Wallclock

CONSTANTS
  Tables,           \* the tables of PluginRegistry, as registration left them
  ReservedNames,    \* RESERVED_STEP_TYPE_NAMES
  InvokeMaxDepth,   \* INVOKE_MAX_DEPTH
  DispatchMaxDepth, \* DISPATCH_MAX_DEPTH
  DefaultTimeout,   \* limits.default_wallclock_timeout
  Ceiling,          \* limits.max_wallclock_timeout, <<>> or a sequence of one
  Starts,           \* <<plugin, action>>, what the embedder executes
  StartRoles,       \* <<role, action>>, what it executes by role
  Events,           \* the events it and its native bodies publish
  Targets,          \* what steps and scripts ask for: [plugin, role, action]
  Redirects,        \* the plans an embedder's orchestrator may return
  Answers,          \* what its secret resolver may answer: <<keys>>, or <<>> for an error
  MaxStack          \* bound on the calls under way

(* Registration qualifies every plugin by its namespace, and checks each   *)
(* segment against the name grammar.                                       *)
ASSUME CallsAssumption == \A a \in Tables.actions : a[1] \in Seq(WellFormed) /\ a[1] # <<>>

VARIABLES
  stack,       \* the calls under way, outermost first
  cancelled,   \* the embedder has fired the token it passed in
  report       \* what the embedder was told, "" before

vars == <<stack, cancelled, report>>

Plugins == DOMAIN Tables.manifests
HasAction(p, a) == <<p, a>> \in Tables.actions
ActionOf(p, a) == Tables.manifests[p].actions[a]
GrantsOf(p) == PermissionsFor(Tables, p)
DeclaredKeys(p) == {Tables.manifests[p].secrets[i].key : i \in DOMAIN Tables.manifests[p].secrets}
LowerOf(a, b) == IF a <= b THEN a ELSE b

-----------------------------------------------------------------------------
(* Wallclock: whose cap bounds a call, and whether it has its own watchdog *)

EffectiveWallclock(action) ==
  LET requested == IF action.wallclock # <<>> THEN action.wallclock
                   ELSE IF action.dataflow THEN <<>> ELSE <<DefaultTimeout>>
  IN IF Ceiling = <<>> THEN requested
     ELSE IF requested = <<>> THEN Ceiling
     ELSE <<LowerOf(requested[1], Ceiling[1])>>

OwnCap(action) == [left |-> EffectiveWallclock(action), armed |-> EffectiveWallclock(action) # <<>>]

(* Mutant: a call from an uncapped caller is as uncapped as its caller.    *)
CalleeOfUncapped(action, left) ==
  IF left = <<>> THEN [left |-> <<>>, armed |-> FALSE]
  ELSE IF action.wallclock # <<>> /\ action.wallclock[1] <= left[1]
  THEN [left |-> action.wallclock, armed |-> TRUE]
  ELSE [left |-> left, armed |-> FALSE]

(* A callee that declares no cap, or one the caller will not see, runs     *)
(* bare under the caller's.                                                *)
CalleeWallclock(action, left) ==
  IF left = <<>> THEN OwnCap(action)
  ELSE IF action.wallclock # <<>> /\ action.wallclock[1] <= left[1]
  THEN [left |-> action.wallclock, armed |-> TRUE]
  ELSE [left |-> left, armed |-> FALSE]

-----------------------------------------------------------------------------
(* Secrets: <<>> for an error, else a sequence of one, the view.           *)

IntersectDeclared(subject, answer, declared) == {<<subject, k>> : k \in answer[1] \cap declared}

Pull(subject, executing, answer) ==
  IF DeclaredKeys(subject) = {} THEN <<{}>>
  ELSE IF ~IsOnChain(subject, executing) \/ answer = <<>> THEN <<>>
  ELSE <<IntersectDeclared(subject, answer, DeclaredKeys(subject))>>

-----------------------------------------------------------------------------
(* Step types: what a plugin may use, along its chain.  A nearer one that  *)
(* it may not use does not hide a farther one that it may.                 *)

UsableDef(p, key) ==
  /\ key \in DOMAIN Tables.defs
  /\ \/ Tables.defs[key][1] = p
     \/ Tables.defs[key][2].freelyUsable
     \/ CheckStepType(GrantsOf(p), key[2])

UsableAlias(p, key) ==
  /\ key \in DOMAIN Tables.aliases
  /\ Tables.aliases[key][1] = p \/ CheckStepType(GrantsOf(p), key[2])

StepTypeAccess(p, written) ==
  LET keys == [i \in DOMAIN AncestorNamespaces(NamespaceOf(p)) |->
                 <<AncestorNamespaces(NamespaceOf(p))[i], written>>]
  IN FirstIn(keys, LAMBDA k : UsableDef(p, k) \/ UsableAlias(p, k))

ResolveStepType(p, written) ==
  IF written \in ReservedNames THEN <<<<Root, written>>>> ELSE StepTypeAccess(p, written)

(* Whose secrets the body of a step sees when it is not the plugin's own.  *)
BodyOwner(p, written) ==
  LET hit == StepTypeAccess(p, written)
  IN IF hit # <<>> /\ UsableDef(p, hit[1]) /\ Tables.defs[hit[1]][1] # p
     THEN <<Tables.defs[hit[1]][1]>> ELSE <<>>

-----------------------------------------------------------------------------
(* Resolution and authority                                                *)

ResolvePluginReference(caller, reference) ==
  LET candidates == PluginReferenceCandidates(caller, reference)
      known == FirstIn(candidates, LAMBDA c : c \in Plugins)
  IN IF candidates = <<>> THEN <<>> ELSE IF known = <<>> THEN <<candidates[1]>> ELSE known

CheckInvokePlugin(caller, target) ==
  \E g \in Grants(GrantsOf(caller), "invoke") :
    /\ g.kind = "plugin"
    /\ IF g.name = AnyOne THEN NamespaceOf(caller) = NamespaceOf(target)
       ELSE ResolvePluginReference(caller, g.name.of[1]) = <<target>>

ByRole(role, action) == [by |-> "role", role |-> role, action |-> action]
ByPlugin(plugin, action) == [by |-> "plugin", plugin |-> plugin, action |-> action]

CheckInvokeGrant(caller, request) ==
  IF request.by = "role" THEN CheckInvokeRole(GrantsOf(caller), request.role)
  ELSE request.plugin = caller \/ CheckInvokePlugin(caller, request.plugin)

(* The nearest namespace with a fulfiller the caller may reach; those, the *)
(* nearest first.  The embedder, <<>>, reaches the root namespace.         *)
RoleCandidates(caller, role) ==
  LET chain == AncestorNamespaces(NamespaceOf(caller))
      reachable(ns) == SelectSeq(PluginsForRole(Tables, Qualify(ns, role)),
                                 LAMBDA c : IsOnChain(c, caller))
      hit == FirstIn(chain, LAMBDA ns : reachable(ns) # <<>>)
      at(list, ns) == SelectSeq(list, LAMBDA c : NamespaceOf(c) = ns)
      near[i \in 0..Len(chain)] ==
        IF i = 0 THEN <<>> ELSE near[i - 1] \o at(reachable(hit[1]), chain[i])
  IN IF hit = <<>> THEN <<>>
     ELSE near[Len(chain)]

(* DefaultOrchestrator, and whatever the embedder's own does.              *)
DefaultPlan(caller, request) ==
  IF request.by = "plugin" THEN <<<<request.plugin, request.action>>>>
  ELSE [i \in 1..LowerOf(1, Len(RoleCandidates(caller, request.role))) |->
          <<RoleCandidates(caller, request.role)[i], request.action>>]
PlansFor(caller, request) ==
  {DefaultPlan(caller, request), <<>>} \cup {<<plan>> : plan \in Redirects}

(* Mutant: the plugin the plan names need not be on the caller's chain.    *)
AuthorizedByGrant(caller, request, target, also) ==
  \/ target = caller
  \/ <<target>> = also
  \/ CheckInvokePlugin(caller, target)
  \/ request.by = "role" /\ CheckInvokeRole(GrantsOf(caller), request.role)

(* authorize_resolved_dispatch, on the plan the orchestrator returned.     *)
Authorized(caller, request, target, also) ==
  /\ IsOnChain(target, caller)
  /\ \/ target = caller
     \/ <<target>> = also
     \/ CheckInvokePlugin(caller, target)
     \/ request.by = "role" /\ CheckInvokeRole(GrantsOf(caller), request.role)

-----------------------------------------------------------------------------
(* The stack.  A frame is an action under way or the loop of dispatch_event*)
(* over the subscribers it has left.                                       *)

Frame(p, a, depth, cascade, cap, fired, secrets) ==
  [kind |-> "action", plugin |-> p, action |-> a, depth |-> depth, cascade |-> cascade,
   left |-> cap.left, armed |-> cap.armed, expired |-> FALSE, fired |-> fired,
   secrets |-> secrets, body |-> <<>>, step |-> <<>>, ends |-> ""]

EventLoop(event, cascade) ==
  [kind |-> "event", left |-> SubscribersFor(Tables, event), cascade |-> cascade]

Current == stack[Len(stack)]
IsAction == stack # <<>> /\ Current.kind = "action"
SetTop(frame) == stack' = [stack EXCEPT ![Len(stack)] = frame]

(* The step under way in the top frame, and the body linked for it.        *)
InStep == IsAction /\ Current.step # <<>> /\ Current.step[1].got = ""
BodyOf(frame) == Get(Tables.imports, frame.step[1].key, "")

(* An invoke or alias step ends with its call.  A native body or a script  *)
(* is handed the answer and goes on.                                       *)
Answered(frame, outcome) ==
  IF BodyOf(frame) \in {"invoke", "step_alias_dispatch"}
  THEN [frame EXCEPT !.step[1].got = outcome] ELSE frame

Linked(name) == InStep /\ BodyOf(Current) = name
CallFails == SetTop(Answered(Current, "failed")) /\ UNCHANGED <<cancelled, report>>

Push(frame) == stack' = Append(stack, frame) /\ UNCHANGED <<cancelled, report>>

Init == stack = <<>> /\ cancelled = FALSE /\ report = ""

-----------------------------------------------------------------------------
(* The embedder                                                            *)

Idle == stack = <<>> /\ report = ""

RunFailed == report' = "failed" /\ UNCHANGED <<stack, cancelled>>

Start(p, a) ==
  IF ~HasAction(p, a) THEN RunFailed
  ELSE \E answer \in Answers :
         LET secrets == Pull(p, p, answer)
         IN IF secrets = <<>> THEN RunFailed
            ELSE Push(Frame(p, a, 0, 0, OwnCap(ActionOf(p, a)), cancelled, secrets[1]))

Execute(p, a) == Idle /\ Start(p, a)

ExecuteByRole(role, a) ==
  /\ Idle
  /\ IF RoleCandidates(Root, role) = <<>> THEN RunFailed
     ELSE Start(RoleCandidates(Root, role)[1], a)

EmbedderPublishes(event) == Idle /\ Push(EventLoop(event, 0))

(* The token reaches the actions below the top one through child tokens,   *)
(* but no subscriber: those run under a token of their own.                *)
FireFrom(s, i) ==
  [j \in DOMAIN s |->
     IF j >= i /\ \A k \in i..j : s[k].kind = "action" THEN [s[j] EXCEPT !.fired = TRUE] ELSE s[j]]

Cancel ==
  /\ ~cancelled /\ report = ""
  /\ cancelled' = TRUE
  /\ stack' = FireFrom(stack, 1)
  /\ UNCHANGED report

-----------------------------------------------------------------------------
(* The steps of the top action                                             *)

(* A step type the plugin may not use ends the action.  A body of another  *)
(* plugin runs with that plugin's secrets, or not at all.                  *)
BeginStep(written) ==
  /\ IsAction /\ Current.step = <<>> /\ Current.ends = ""
  /\ UNCHANGED <<cancelled, report>>
  /\ LET key == ResolveStepType(Current.plugin, written)
         owner == BodyOwner(Current.plugin, written)
         step == [type |-> written, key |-> key[1], got |-> ""]
     IN IF key = <<>> THEN SetTop([Current EXCEPT !.ends = "failed"])
        ELSE IF owner = <<>> THEN SetTop([Current EXCEPT !.step = <<step>>])
        ELSE \E answer \in Answers :
               LET view == Pull(owner[1], Current.plugin, answer)
               IN IF view = <<>> THEN SetTop([Current EXCEPT !.step = <<[step EXCEPT !.got = "failed"]>>])
                  ELSE SetTop([Current EXCEPT !.step = <<step>>, !.body = view])

(* execute_action_invoked: one deeper, under a child of the caller's token,*)
(* with the cascade counted from 0.                                        *)
Enter(plan) ==
  IF ~HasAction(plan[1], plan[2]) THEN CallFails
  ELSE \E answer \in Answers :
         LET secrets == Pull(plan[1], plan[1], answer)
         IN IF secrets = <<>> THEN CallFails
            ELSE Push(Frame(plan[1], plan[2], Current.depth + 1, 0,
                            CalleeWallclock(ActionOf(plan[1], plan[2]), Current.left),
                            Current.fired, secrets[1]))

Dispatch(request, also) ==
  \E plan \in PlansFor(Current.plugin, request) :
    IF plan # <<>> /\ Authorized(Current.plugin, request, plan[1][1], also)
    THEN Enter(plan[1]) ELSE CallFails

(* step_invoke, and a script's io.invoke: exactly one of plugin and role.  *)
Invoke(target) ==
  LET reference == IF target.plugin = <<>> THEN <<>>
                   ELSE ResolvePluginReference(Current.plugin, target.plugin[1])
      request == IF target.role # <<>>
                 THEN ByRole(target.role[1], target.action) ELSE ByPlugin(reference[1], target.action)
  IN /\ Linked("invoke") \/ Linked("script")
     /\ Len(stack) < MaxStack
     /\ IF \/ Current.depth >= InvokeMaxDepth
           \/ (target.plugin = <<>>) = (target.role = <<>>)
           \/ target.plugin # <<>> /\ reference = <<>>
           \/ ~CheckInvokeGrant(Current.plugin, request)
        THEN CallFails
        ELSE Dispatch(request, <<>>)

AliasDispatch ==
  /\ Linked("step_alias_dispatch")
  /\ Len(stack) < MaxStack
  /\ LET alias == Tables.aliases[Current.step[1].key]
     IN IF \/ Current.depth >= InvokeMaxDepth
           \/ alias[1] # Current.plugin /\ ~CheckStepType(GrantsOf(Current.plugin), Current.step[1].type)
        THEN CallFails
        ELSE Dispatch(ByPlugin(alias[1], alias[2]), <<alias[1]>>)

InNativeBody == InStep /\ BodyOf(Current) \notin {"invoke", "script", "step_alias_dispatch"}

(* A native body calls dispatch_role: what it snapshots of its execution   *)
(* is what an invoke step would use.                                       *)
DispatchRole(target) ==
  LET request == ByRole(target.role[1], target.action)
  IN /\ InNativeBody /\ target.role # <<>>
     /\ Len(stack) < MaxStack
     /\ IF ~CheckInvokeGrant(Current.plugin, request) \/ Current.depth >= InvokeMaxDepth
        THEN CallFails ELSE Dispatch(request, <<>>)

(* A native body publishes an event, passing its dispatch_depth; at the    *)
(* cap nobody hears of it.                                                 *)
Publish(event) ==
  /\ InNativeBody /\ Len(stack) < MaxStack
  /\ IF Current.cascade >= DispatchMaxDepth
     THEN UNCHANGED vars
     ELSE Push(EventLoop(event, Current.cascade))

StepReturns(outcome) ==
  /\ InStep /\ BodyOf(Current) \notin {"invoke", "step_alias_dispatch"}
  /\ outcome = "cancelled" => Current.fired
  /\ SetTop([Current EXCEPT !.step[1].got = outcome])
  /\ UNCHANGED <<cancelled, report>>

(* Mutant: the body's secrets outlive the step.                            *)
EndStepKeepingBody(caught) ==
  /\ IsAction /\ Current.step # <<>> /\ Current.step[1].got # ""
  /\ caught => Current.step[1].got # "cancelled"
  /\ SetTop([Current EXCEPT !.step = <<>>,
               !.ends = IF caught \/ Current.step[1].got = "ok" THEN "" ELSE Current.step[1].got])
  /\ UNCHANGED <<cancelled, report>>

(* A failed step is caught by a `try' or ends the action; a cancelled one  *)
(* ends it.                                                                *)
EndStep(caught) ==
  /\ IsAction /\ Current.step # <<>> /\ Current.step[1].got # ""
  /\ caught => Current.step[1].got # "cancelled"
  /\ SetTop([Current EXCEPT !.step = <<>>, !.body = <<>>,
               !.ends = IF caught \/ Current.step[1].got = "ok" THEN "" ELSE Current.step[1].got])
  /\ UNCHANGED <<cancelled, report>>

-----------------------------------------------------------------------------
(* Returning                                                               *)

(* StepError::from_callee: only KernelError::Cancelled is the caller's own *)
(* cancellation.                                                           *)
FromCallee(outcome) ==
  IF outcome \in {"ok", "cancelled"} THEN outcome
  ELSE IF StoppedByCancellation(outcome) THEN "callee_stopped" ELSE "failed"

(* What is left when frame i ends and reports: its caller's step, or the   *)
(* publisher's loop, goes on.                                              *)
PopTo(i, outcome) ==
  IF i = 1 THEN stack' = <<>> /\ report' = outcome
  ELSE /\ UNCHANGED report
       /\ stack' = IF stack[i - 1].kind = "event" THEN SubSeq(stack, 1, i - 1)
                   ELSE [SubSeq(stack, 1, i - 1) EXCEPT ![i - 1] = Answered(@, FromCallee(outcome))]

EndAction(outcome) ==
  /\ IsAction /\ Current.step = <<>>
  /\ \/ Current.ends = outcome
     \/ Current.ends = "" /\ (outcome \in {"ok", "failed"} \/ (outcome = "cancelled" /\ Current.fired))
  /\ PopTo(Len(stack),
           IF Current.armed THEN Report(outcome, Current.expired, Current.fired, Current.left = <<0>>) ELSE outcome)
  /\ UNCHANGED cancelled

(* One subscriber at a time, whatever became of the one before.  There is  *)
(* no caller to confine or to ask for a grant.                             *)
NextSubscriber ==
  /\ stack # <<>> /\ Current.kind = "event" /\ Current.left # <<>>
  /\ Len(stack) < MaxStack
  /\ UNCHANGED <<cancelled, report>>
  /\ \E plan \in PlansFor(Root, ByPlugin(Current.left[1][1], Current.left[1][2])),
        answer \in Answers :
       LET loop == [Current EXCEPT !.left = Tail(@)]
           rest == Append(SubSeq(stack, 1, Len(stack) - 1), loop)
       IN IF \/ plan = <<>>
             \/ ~HasAction(plan[1][1], plan[1][2])
             \/ Pull(plan[1][1], plan[1][1], answer) = <<>>
          THEN stack' = rest
          ELSE stack' = Append(rest,
                 Frame(plan[1][1], plan[1][2], 0, Current.cascade + 1,
                       OwnCap(ActionOf(plan[1][1], plan[1][2])), FALSE,
                       Pull(plan[1][1], plan[1][1], answer)[1]))

EventDone ==
  /\ stack # <<>> /\ Current.kind = "event" /\ Current.left = <<>>
  /\ PopTo(Len(stack), "ok")
  /\ UNCHANGED cancelled

-----------------------------------------------------------------------------
(* Time                                                                    *)

Tick ==
  /\ stack' = [i \in DOMAIN stack |->
                 IF stack[i].kind = "action" /\ stack[i].left \notin {<<>>, <<0>>}
                 THEN [stack[i] EXCEPT !.left = <<@[1] - 1>>] ELSE stack[i]]
  /\ stack' # stack
  /\ UNCHANGED <<cancelled, report>>

Overdue(i) == stack[i].kind = "action" /\ stack[i].armed /\ stack[i].left = <<0>>

(* Mutant: the callee runs under its caller's token, not under a child.    *)
WatchdogOnSharedToken(i) ==
  /\ Overdue(i) /\ ~stack[i].expired
  /\ stack' = [FireFrom(stack, IF i > 1 /\ stack[i - 1].kind = "action" THEN i - 1 ELSE i)
                 EXCEPT ![i].expired = TRUE]
  /\ UNCHANGED <<cancelled, report>>

Watchdog(i) ==
  /\ Overdue(i) /\ ~stack[i].expired
  /\ stack' = [FireFrom(stack, i) EXCEPT ![i].expired = TRUE]
  /\ UNCHANGED <<cancelled, report>>

(* The backstop: the future is dropped with everything it awaits.          *)
DropOverdue(i) ==
  /\ Overdue(i) /\ stack[i].expired
  /\ PopTo(i, "timeout")
  /\ UNCHANGED cancelled

-----------------------------------------------------------------------------
StepTypes == {k[2] : k \in DOMAIN Tables.imports}

Next ==
  \/ \E s \in Starts : Execute(s[1], s[2])
  \/ \E s \in StartRoles : ExecuteByRole(s[1], s[2])
  \/ \E e \in Events : EmbedderPublishes(e) \/ Publish(e)
  \/ \E t \in StepTypes : BeginStep(t)
  \/ \E t \in Targets : Invoke(t) \/ DispatchRole(t)
  \/ AliasDispatch
  \/ \E o \in {"ok", "failed", "cancelled"} : StepReturns(o)
  \/ \E c \in BOOLEAN : EndStep(c)
  \/ \E o \in {"ok", "failed", "cancelled", "callee_stopped"} : EndAction(o)
  \/ NextSubscriber \/ EventDone
  \/ Cancel \/ Tick
  \/ \E i \in DOMAIN stack : Watchdog(i) \/ DropOverdue(i)

(* The clock moves, and the wallclock wrapper's timers are served.  Plugin *)
(* code is free to stay in a step for ever.                                *)
Fairness ==
  /\ WF_vars(Tick)
  /\ \A i \in 1..MaxStack : WF_vars(i <= Len(stack) /\ Watchdog(i))
  /\ \A i \in 1..MaxStack : WF_vars(i <= Len(stack) /\ DropOverdue(i))

Spec == Init /\ [][Next]_vars /\ Fairness

-----------------------------------------------------------------------------
(***************************************************************************)
(* Properties.                                                             *)
(***************************************************************************)

(* j was reached from i through calls alone, no event in between.          *)
CalledFrom(i, j) == i <= j /\ \A k \in i..j : stack[k].kind = "action"

(* Whatever the orchestrator answers, and over however many hops, a call   *)
(* leads only into the namespace of the plugin it started from or one that *)
(* encloses it: never into a sibling tenant, nor from the root into any    *)
(* (authorize_resolved_dispatch).                                          *)
CallsStayOnChain ==
  \A i, j \in DOMAIN stack : CalledFrom(i, j) => IsOnChain(stack[j].plugin, stack[i].plugin)

(* A body sees the declared secrets of one plugin, the one whose code it   *)
(* is: of the plugin executing, or, while the body of a step type defined  *)
(* elsewhere runs, of the definer - not after it, not in a callee, not     *)
(* when resolving them failed (dispatch_trait_step_core sets and clears    *)
(* body_secrets, pull asks).                                               *)
BodiesSeeOwnSecrets ==
  \A i \in DOMAIN stack : stack[i].kind = "action" =>
    LET f == stack[i]
        visible == IF f.body # <<>> THEN f.body[1] ELSE f.secrets
        owner == IF f.step = <<>> THEN <<>> ELSE BodyOwner(f.plugin, f.step[1].type)
        whose == IF owner = <<>> \/ f.step[1].got # "" THEN f.plugin ELSE owner[1]
    IN f.step = <<>> \/ f.step[1].got = ""
         => \A s \in visible : s[1] = whose /\ s[2] \in DeclaredKeys(whose)

(* A step, or the run, is reported cancelled only when somebody asked for  *)
(* that: the embedder, or the deadline of a caller further out.  A         *)
(* callee's own deadline is a failed step of its caller                    *)
(* (callee_invocation's child token, from_callee,                          *)
(* run_with_wallclock_timeout).                                            *)
CancelledOnlyWhenAsked ==
  /\ \A i \in DOMAIN stack :
       stack[i].kind = "action" /\ stack[i].step # <<>> /\ stack[i].step[1].got = "cancelled"
         => \/ cancelled
            \/ \E j \in 1..i : CalledFrom(j, i) /\ Overdue(j)
  /\ report = "cancelled" => cancelled

(* An action that is not a dataflow pipeline comes to an end however it    *)
(* was reached and whatever its code does, also under a caller without a   *)
(* cap (callee_wallclock, wallclock_cap).                                  *)
Bounded(i) ==
  /\ i <= Len(stack)
  /\ stack[i].kind = "action"
  /\ ~ActionOf(stack[i].plugin, stack[i].action).dataflow
HelpersEnd == \A i \in 1..MaxStack : Bounded(i) ~> ~Bounded(i)

(* Event-driven cycles end: no more loops of dispatch_event are under way  *)
(* in one another than DISPATCH_MAX_DEPTH.                                 *)
CascadesAreCapped ==
  Len(SelectSeq(stack, LAMBDA f : f.kind = "event")) <= DispatchMaxDepth

=============================================================================
