---------------------------- MODULE ControlSteps ----------------------------
(***************************************************************************)
(* The control constructs of an action (src/kernel/runtime.rs): try, the   *)
(* loops for_each and repeat, ifs and return, nested in each other, around *)
(* step bodies that end in every way a body can.  The recursion of         *)
(* run_step through run_try, run_iteration and run_ifs is a stack of       *)
(* frames, one per construct under way.                                    *)
(*                                                                         *)
(* What the frames share is the invocation's state: action.steps, onto     *)
(* which each construct splices its inner steps for as long as they run;   *)
(* the error and foreach stacks; the failure markers, from which           *)
(* step_failure_to_error makes the action's error; the results and the     *)
(* bytes they are charged.  Sizes are in units of NODE_OVERHEAD: null and  *)
(* the empty array have size 1, 0 stands for no result.                    *)
(***************************************************************************)
EXTENDS Integers, Sequences, Folds, Functions

CONSTANTS
  Programs,   \* the actions tried: top, a sequence of steps, and the steps
  Sizes,      \* the sizes a body's result can have
  Limit,      \* max_step_results_bytes
  MaxCount    \* the most items a loop has

(* The blocks of a construct are sequences of the action's steps.          *)
WellFormed(p) ==
  /\ "none" \notin DOMAIN p.step /\ p.top \in Seq(DOMAIN p.step)
  /\ \A s \in DOMAIN p.step :
       LET d == p.step[s]
       IN /\ d.type = "try" => {d.try, d.catch, d.finally} \subseteq Seq(DOMAIN p.step)
          /\ d.type = "loop" => d.steps \in Seq(DOMAIN p.step)
          /\ d.type = "ifs" => d.branches \subseteq Seq(DOMAIN p.step)

ASSUME ControlAssumption ==
  /\ Sizes \subseteq Nat \ {0} /\ Limit \in Nat /\ MaxCount \in Nat
  /\ \A p \in Programs : WellFormed(p)

VARIABLES
  program,       \* the action
  stack,         \* the constructs under way, innermost last
  ctl,           \* "go", or what the last step answered: "ok", "failed", "err"
  raised,        \* the error that "err" carries
  steps,         \* action.steps
  errorStack,    \* error_stack, by the try that pushed the message
  foreachStack,  \* foreach_stack, by the loop that pushed the items
  markers,       \* last_error, plugin_error, callee_error, ...: who set them
  mem,           \* step_results, step_results_bytes, the budget's marker
  ret,           \* return_signal: the step that raised it
  token,         \* the invocation's token has fired
  outcome,       \* what the action ended with
  uncaught,      \* history: the failures that nothing has recovered from
  stopped        \* history: what ended the invocation, if anything did

stateVars == <<steps, errorStack, foreachStack, markers, mem, ret>>
vars == <<program, stack, ctl, raised, stateVars, token, outcome, uncaught, stopped>>

None == "none"
Ids == DOMAIN program.step
Def(s) == program.step[s]

Error(kind, s) == [kind |-> kind, step |-> s]
NoError == Error(None, None)

Markers == {"last", "thrown", "callee", "fuel", "cancelled"}
NoMarkers == [m \in Markers |-> None]

Frame(s, part, list) ==
  [step |-> s, part |-> part, list |-> list, at |-> 1,
   offset |-> Len(steps),       \* inner_offset
   result |-> 0, handled |-> 0, \* last_try_result, last_catch_result
   failed |-> FALSE,            \* catch_failed
   left |-> 0, collected |-> 0, \* of a loop: items left, collected_bytes
   before |-> Len(uncaught)]

Init ==
  /\ program \in Programs
  /\ steps = program.top
  /\ stack = << [step |-> None, part |-> "top", list |-> program.top, at |-> 1, offset |-> 0,
                 result |-> 0, handled |-> 0, failed |-> FALSE, left |-> 0, collected |-> 0,
                 before |-> 0] >>
  /\ ctl = "go" /\ raised = NoError
  /\ errorStack = <<>> /\ foreachStack = <<>>
  /\ markers = NoMarkers
  /\ mem = [results |-> [s \in Ids |-> 0], bytes |-> 0, tripped |-> FALSE]
  /\ ret = None /\ token = FALSE
  /\ outcome = NoError /\ uncaught = <<>> /\ stopped = None

-----------------------------------------------------------------------------
Running == outcome = NoError
Top == stack[Len(stack)]
Inner == SubSeq(stack, 1, Len(stack) - 1)
Current == Top.list[Top.at]
Replace(f) == stack' = Append(Inner, f)

Push(s, part, list) ==
  /\ stack' = Append(stack, Frame(s, part, list))
  /\ steps' = steps \o list
  /\ ctl' = "go"

(* Mutant: the inner steps stay on action.steps.                           *)
NotTruncated == steps

Truncated == SubSeq(steps, 1, Top.offset)

(* store_step_result: a result that does not fit is refused and marks the  *)
(* state; the one it replaces is no longer charged.                        *)
Stored(m, s, n) ==
  LET projected == m.bytes - m.results[s] + n
  IN IF projected > Limit
     THEN [m EXCEPT !.tripped = TRUE]
     ELSE [m EXCEPT !.bytes = projected, !.results[s] = n]

Raise(error, why) == ctl' = "err" /\ raised' = error /\ stopped' = why

(* The end of run_step: a tripped budget is an error whatever the step     *)
(* answered.                                                               *)
Answer(ok, s, m, why) ==
  /\ mem' = m
  /\ IF m.tripped
     THEN Raise(Error("budget", s), "budget")
     ELSE ctl' = (IF ok THEN "ok" ELSE "failed") /\ stopped' = why /\ UNCHANGED raised

(* A construct ends: its frame goes and its inner steps are truncated.     *)
Leave(ok, m) ==
  /\ stack' = Inner /\ steps' = Truncated
  /\ Answer(ok, Top.step, m, stopped)

-----------------------------------------------------------------------------
(* Every block polls the token before each of its steps, and stops behind  *)
(* a step that raised the return signal.                                   *)
AtStep == Running /\ ctl = "go" /\ ret = None /\ Top.at \in 1..Len(Top.list)
Starts(type) == AtStep /\ ~token /\ Def(Current).type = type

PollFindsCancel ==
  /\ AtStep /\ token
  /\ Raise(Error("cancelled", Current), "cancelled")
  /\ UNCHANGED <<program, stack, stateVars, token, outcome, uncaught>>

(* dispatch_trait_step_core's markers: a dispatch resets two of them,      *)
(* unless the owner's secrets could not be pulled; a failure sets          *)
(* last_error and the marker of its kind.                                  *)
Marked(s, how) ==
  LET base == IF how \in {"nosecret", "refused"}
              THEN markers ELSE [markers EXCEPT !["cancelled"] = None, !["callee"] = None]
  IN IF how = "ok" THEN base
     ELSE [m \in Markers |-> IF m \in {"last", how} THEN s ELSE base[m]]

KindOf(how) == IF how \in Markers THEN how ELSE "failed"

(* A step body runs and ends.  "badmeta": it succeeds, and fails for the   *)
(* metadata it emits when its result is already stored.  "refused": the    *)
(* step type is not one the plugin may use, which no try catches.          *)
RunBody(how, n) ==
  /\ Starts("body")
  /\ markers' = Marked(Current, how)
  /\ uncaught' = IF how = "ok" THEN uncaught ELSE Append(uncaught, Error(KindOf(how), Current))
  /\ IF how = "refused"
     THEN Raise(Error("validation", Current), stopped) /\ UNCHANGED mem
     ELSE Answer(how = "ok", Current,
                 IF how \in {"ok", "badmeta"} THEN Stored(mem, Current, n) ELSE mem,
                 IF how = "cancelled" THEN "cancelled" ELSE stopped)
  /\ UNCHANGED <<program, stack, steps, errorStack, foreachStack, ret, token, outcome>>

RunReturn(n) ==
  /\ Starts("return")
  /\ ret' = Current
  /\ Answer(TRUE, Current, Stored(mem, Current, n), "return")
  /\ UNCHANGED <<program, stack, steps, errorStack, foreachStack, markers, token, outcome, uncaught>>

(* The step answered true: the block goes on to its next step.             *)
StepOk ==
  /\ Running /\ ctl = "ok"
  /\ Replace([Top EXCEPT
       !.at = @ + 1,
       !.result = IF Top.part = "try" THEN mem.results[Current] ELSE @,
       !.handled = IF Top.part = "catch" THEN mem.results[Current] ELSE @])
  /\ ctl' = "go"
  /\ UNCHANGED <<program, raised, stateVars, token, outcome, uncaught, stopped>>

(* Mutant: a cancelled step is a failed one.                               *)
EscapesNever == FALSE

(* escape_if_cancelled                                                     *)
Escapes == markers["cancelled"] # None

FailureEscapes ==
  /\ Running /\ ctl = "failed" /\ Top.part # "top"
  /\ Escapes
  /\ Raise(Error("cancelled", Current), "cancelled")
  /\ UNCHANGED <<program, stack, stateVars, token, outcome, uncaught>>

(* An Err goes through every construct by `?`: each truncates its inner    *)
(* steps and a catch pops its message, but no loop pops its items.         *)
Unwind ==
  /\ Running /\ ctl = "err" /\ Top.part # "top"
  /\ stack' = Inner /\ steps' = Truncated
  /\ errorStack' = IF Top.part = "catch" THEN SubSeq(errorStack, 1, Len(errorStack) - 1)
                                         ELSE errorStack
  /\ UNCHANGED <<program, ctl, raised, foreachStack, markers, mem, ret, token, outcome,
                 uncaught, stopped>>

BlockDone(part) == Running /\ Top.part = part /\ ctl = "go" /\ (Top.at > Len(Top.list) \/ ret # None)
BlockFailed(part) == Running /\ Top.part = part /\ ctl = "failed" /\ ~Escapes

-----------------------------------------------------------------------------
(* try                                                                     *)

EnterTry ==
  /\ Starts("try")
  /\ Push(Current, "try", Def(Current).try)
  /\ UNCHANGED <<program, raised, errorStack, foreachStack, markers, mem, ret, token, outcome,
                 uncaught, stopped>>

(* The try step's own result, if it has one.                               *)
Compose(failed) ==
  LET f == Top
      value == IF f.handled # 0 THEN f.handled ELSE IF f.result # 0 THEN f.result ELSE 1
  IN Leave(~failed, IF failed THEN mem ELSE Stored(mem, f.step, value))

SwitchTo(part, list, failed) ==
  /\ Replace([Top EXCEPT !.part = part, !.list = list, !.at = 1, !.failed = failed])
  /\ steps' = Truncated \o list
  /\ ctl' = "go"
  /\ UNCHANGED <<raised, mem, stopped>>

(* Mutant: a try that failed for good does not clean up.                   *)
CleanupIfOk(failed) ==
  LET finally == Def(Top.step).finally
  IN IF finally # <<>> /\ ret = None /\ ~failed
     THEN SwitchTo("finally", finally, failed)
     ELSE Compose(failed)

Cleanup(failed) ==
  LET finally == Def(Top.step).finally
  IN IF finally # <<>> /\ ret = None
     THEN SwitchTo("finally", finally, failed)
     ELSE Compose(failed)

(* Mutant: only the message is cleared.                                    *)
ClearMessage == markers' = [markers EXCEPT !["last"] = None]

ClearMarkers == markers' = NoMarkers

Recovered == ClearMarkers /\ uncaught' = SubSeq(uncaught, 1, Top.before)

TryEnds ==
  /\ BlockDone("try") \/ BlockFailed("try")
  /\ LET f == Top
         d == Def(f.step)
         ok == ctl # "failed"
     IN \/ /\ ret # None
           /\ Leave(TRUE, mem)
           /\ UNCHANGED <<errorStack, markers, uncaught>>
        \/ /\ ret = None /\ (ok \/ ~d.hasCatch)
           /\ Cleanup(~ok)
           /\ UNCHANGED <<errorStack, markers, uncaught>>
        \/ /\ ret = None /\ ~ok /\ d.hasCatch /\ d.catch = <<>>
           /\ Recovered
           /\ Cleanup(FALSE)
           /\ UNCHANGED errorStack
        \/ /\ ret = None /\ ~ok /\ d.hasCatch /\ d.catch # <<>>
           /\ Recovered
           /\ errorStack' = Append(errorStack, f.step)
           /\ SwitchTo("catch", d.catch, FALSE)
  /\ UNCHANGED <<program, foreachStack, ret, token, outcome>>

CatchEnds ==
  /\ BlockDone("catch") \/ BlockFailed("catch")
  /\ errorStack' = SubSeq(errorStack, 1, Len(errorStack) - 1)
  /\ Cleanup(ctl = "failed")
  /\ UNCHANGED <<program, foreachStack, markers, ret, token, outcome, uncaught>>

FinallyEnds ==
  /\ BlockDone("finally") \/ BlockFailed("finally")
  /\ IF ctl = "failed" THEN Leave(FALSE, mem) ELSE Compose(Top.failed)
  /\ UNCHANGED <<program, errorStack, foreachStack, markers, ret, token, outcome, uncaught>>

-----------------------------------------------------------------------------
(* for_each and repeat: run_iteration and its host functions.  A frame     *)
(* with at = 0 is about to ask for the next item.                          *)

(* The items, a list or a count, go onto the stack, and off it again; the  *)
(* end of a loop that did not fail stores the empty array.                 *)
BeginForeach(s) == foreachStack' = Append(foreachStack, s)
HasItem(f) == f.left > 0
PopItems == foreachStack' = SubSeq(foreachStack, 1, Len(foreachStack) - 1)
EndForeach(m, s) == Stored(m, s, 1)

EnterLoop(count) ==
  /\ Starts("loop")
  /\ stack' = Append(stack, [Frame(Current, "loop", Def(Current).steps) EXCEPT !.at = 0, !.left = count])
  /\ steps' = steps \o Def(Current).steps
  /\ BeginForeach(Current)
  /\ ctl' = "go"
  /\ UNCHANGED <<program, raised, errorStack, markers, mem, ret, token, outcome, uncaught, stopped>>

(* The count of a repeat is not a number: an error, not a failed step.     *)
BadCount ==
  /\ Starts("loop")
  /\ markers' = [markers EXCEPT !["last"] = Current]
  /\ Raise(Error("failed", Current), stopped)
  /\ UNCHANGED <<program, stack, steps, errorStack, foreachStack, mem, ret, token, outcome, uncaught>>

(* next_foreach has an item: the body's results of the pass before are     *)
(* removed, and stay charged.                                              *)
NextItem ==
  /\ Running /\ Top.part = "loop" /\ ctl = "go" /\ Top.at = 0 /\ HasItem(Top)
  /\ Replace([Top EXCEPT !.at = 1, !.left = @ - 1])
  /\ mem' = [mem EXCEPT !.results =
               [s \in Ids |-> IF s \in Range(Top.list) THEN 0 ELSE @[s]]]
  /\ UNCHANGED <<program, ctl, raised, steps, errorStack, foreachStack, markers, ret, token,
                 outcome, uncaught, stopped>>

(* The pass is over: its value is collected, charged on top of what is     *)
(* stored, and until is looked at.                                         *)
PassEnds(n, until) ==
  /\ BlockDone("loop") /\ ret = None /\ Top.at > 0
  /\ until => Def(Top.step).until
  /\ LET more == IF Def(Top.step).collect THEN Top.collected + n ELSE 0
     IN IF mem.bytes + more > Limit /\ Def(Top.step).collect
        THEN /\ Raise(Error("budget", Top.step), "budget")
             /\ UNCHANGED stack
        ELSE /\ Replace([Top EXCEPT !.at = 0, !.collected = more, !.left = IF until THEN 0 ELSE @])
             /\ UNCHANGED <<ctl, raised, stopped>>
  /\ UNCHANGED <<program, stateVars, token, outcome, uncaught>>

LoopEnds ==
  /\ Running /\ Top.part = "loop" /\ ctl = "go"
  /\ (Top.at = 0 /\ ~HasItem(Top)) \/ ret # None
  /\ PopItems
  /\ LET ended == EndForeach(mem, Top.step)
     IN Leave(TRUE, IF Def(Top.step).collect THEN Stored(ended, Top.step, 1 + Top.collected) ELSE ended)
  /\ UNCHANGED <<program, errorStack, markers, ret, token, outcome, uncaught>>

LoopFails ==
  /\ BlockFailed("loop")
  /\ PopItems
  /\ Leave(FALSE, mem)
  /\ UNCHANGED <<program, errorStack, markers, ret, token, outcome, uncaught>>

-----------------------------------------------------------------------------
(* ifs: the first branch whose test is true, or none.                      *)

EnterIfs(then) ==
  /\ Starts("ifs")
  /\ then \in Def(Current).branches
  /\ IF then = <<>>
     THEN Answer(TRUE, Current, mem, stopped) /\ UNCHANGED <<stack, steps>>
     ELSE Push(Current, "ifs", then) /\ UNCHANGED <<raised, mem, stopped>>
  /\ UNCHANGED <<program, errorStack, foreachStack, markers, ret, token, outcome, uncaught>>

IfsEnds ==
  /\ BlockDone("ifs") \/ BlockFailed("ifs")
  /\ Leave(ctl # "failed", mem)
  /\ UNCHANGED <<program, errorStack, foreachStack, markers, ret, token, outcome, uncaught>>

(* The expression of a test, an until or a collect does not parse.         *)
BadExpression ==
  /\ \/ Starts("ifs")
     \/ BlockDone("loop") /\ ret = None /\ Top.at > 0
          /\ (Def(Top.step).collect \/ Def(Top.step).until)
  /\ Raise(Error("failed", None), stopped)
  /\ UNCHANGED <<program, stack, stateVars, token, outcome, uncaught>>

-----------------------------------------------------------------------------
(* The action's end.                                                       *)

(* step_failure_to_error: the first marker that is set, in this order.     *)
StepFailureToError ==
  LET order == <<"fuel", "cancelled", "callee", "thrown", "last">>
      set == {i \in 1..Len(order) : markers[order[i]] # None}
      m == order[CHOOSE i \in set : \A j \in set : i <= j]
  IN IF set = {} THEN Error("failed", None)
     ELSE Error(IF m = "last" THEN "failed" ELSE m, markers[m])

ActionEnds ==
  /\ Running /\ Top.part = "top"
  /\ \/ BlockDone("top") /\ outcome' = Error("ok", ret)
     \/ ctl = "failed" /\ outcome' = StepFailureToError
     \/ ctl = "err" /\ outcome' = raised
  /\ UNCHANGED <<program, stack, ctl, raised, stateVars, token, uncaught, stopped>>

Cancel ==
  /\ Running /\ ~token
  /\ token' = TRUE
  /\ UNCHANGED <<program, stack, ctl, raised, stateVars, outcome, uncaught, stopped>>

Failures == {"failed", "thrown", "callee", "fuel", "cancelled", "nosecret", "refused"}

Next ==
  \/ \E n \in Sizes : RunBody("ok", n) \/ RunBody("badmeta", n) \/ RunReturn(n)
  \/ \E how \in Failures : RunBody(how, 0)
  \/ PollFindsCancel \/ StepOk \/ FailureEscapes \/ Unwind
  \/ EnterTry \/ TryEnds \/ CatchEnds \/ FinallyEnds
  \/ \E count \in 0..MaxCount : EnterLoop(count)
  \/ BadCount \/ NextItem \/ LoopEnds \/ LoopFails
  \/ \E n \in Sizes, until \in BOOLEAN : PassEnds(n, until)
  \/ AtStep /\ Def(Current).type = "ifs" /\ \E then \in Def(Current).branches : EnterIfs(then)
  \/ IfsEnds \/ BadExpression
  \/ ActionEnds \/ Cancel

Spec == Init /\ [][Next]_vars

-----------------------------------------------------------------------------
(* The steps of those frames that are in one part, outermost first.        *)
Scopes(frames, part) ==
  LET upto[k \in 0..Len(frames)] ==
        IF k = 0 THEN <<>>
        ELSE IF frames[k].part = part THEN Append(upto[k - 1], frames[k].step) ELSE upto[k - 1]
  IN upto
Scope(frames, part) == Scopes(frames, part)[Len(frames)]

(* Every construct finds the invocation's state as it left it, however its *)
(* inner steps ended: each block's steps lie on action.steps at its        *)
(* offset, so that a host function finds its step by the index it is       *)
(* given; {{$.error}} and {{$item}} are those of the innermost catch and   *)
(* loop; and an action that was not ended by an error leaves nothing       *)
(* behind.                                                                 *)
ScopesMatch ==
  /\ \A k \in DOMAIN stack :
       SubSeq(steps, stack[k].offset + 1, stack[k].offset + Len(stack[k].list)) = stack[k].list
  /\ Len(steps) = Top.offset + Len(Top.list)
  /\ errorStack = Scope(stack, "catch")
  /\ ctl # "err" => foreachStack = Scope(stack, "loop")

(* A failure that a catch has recovered from is never the action's error,  *)
(* whatever fails later and however.                                       *)
RecoveredNeverBlamed ==
  outcome.kind \in Markers \cup {"failed"} /\ raised = NoError /\ outcome.step # None
    => \E i \in DOMAIN uncaught : uncaught[i].step = outcome.step

(* What ends the invocation cannot be caught: behind a cancelled step or a *)
(* tripped budget no handler turns the action's outcome into another, and  *)
(* behind a return only a result that does not fit does.                   *)
StopIsFinal ==
  /\ stopped \in {"cancelled", "budget"} => outcome.kind \in {None, stopped}
  /\ stopped = "return" /\ uncaught = <<>> => outcome.kind \in {None, "ok"}

(* A try that ends by itself has run its finally, unless a return in its   *)
(* try or catch block skipped it: it is not enough that the body, or the   *)
(* handler, failed.                                                        *)
CleanupRuns ==
  [][\A k \in DOMAIN stack :
       /\ stack[k].part \in {"try", "catch"}
       /\ k \notin DOMAIN stack'
       /\ ctl' # "err" /\ ret = None
       => Def(stack[k].step).finally = <<>>]_vars

LiveBytes == MapThenFoldSet(+, 0, LAMBDA s : mem.results[s], LAMBDA S : CHOOSE s \in S : TRUE, Ids)

-----------------------------------------------------------------------------
(* Statements of the documentation that the code does not keep.            *)

(* run_try's rules 2 and 3: the failure of a catch "is what propagates     *)
(* after `finally` runs", and a finally's failure "supersedes any prior    *)
(* failure": the action's error is the last failure nothing caught.        *)
LastUncaughtPropagates ==
  outcome.kind \notin {None, "ok", "cancelled"} /\ raised = NoError
    => outcome = uncaught[Len(uncaught)]

(* step_results_bytes' doc: it is the "Running total of                    *)
(* [`Self::step_results`]".                                                *)
CounterIsTheTotal == mem.bytes = LiveBytes
=============================================================================
