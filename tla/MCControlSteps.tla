--------------------------- MODULE MCControlSteps ---------------------------
(* TLC instance of ControlSteps: actions that nest each construct in each  *)
(* place where it meets another's unwinding.                               *)
EXTENDS ControlSteps

Body == [type |-> "body"]
Return == [type |-> "return"]
Try(try, hasCatch, catch, finally) ==
  [type |-> "try", try |-> try, hasCatch |-> hasCatch, catch |-> catch, finally |-> finally]
Loop(inner, collect, until) ==
  [type |-> "loop", steps |-> inner, collect |-> collect, until |-> until]
Ifs(branches) == [type |-> "ifs", branches |-> branches]

(* A try with everything, and a step behind it.                            *)
Guarded ==
  [top |-> <<"t", "z">>,
   step |-> [t |-> Try(<<"a", "b">>, TRUE, <<"c">>, <<"d">>),
             a |-> Body, b |-> Body, c |-> Body, d |-> Body, z |-> Body]]

(* A try without catch whose finally recovers from a failure of its own.   *)
NestedFinally ==
  [top |-> <<"t">>,
   step |-> [t |-> Try(<<"a">>, FALSE, <<>>, <<"u">>),
             u |-> Try(<<"b">>, TRUE, <<>>, <<>>),
             a |-> Body, b |-> Body]]

(* A loop around a try that swallows failures, and loops in a handler.     *)
LoopedTry ==
  [top |-> <<"l", "z">>,
   step |-> [l |-> Loop(<<"a", "t">>, TRUE, FALSE),
             t |-> Try(<<"b">>, TRUE, <<>>, <<>>),
             a |-> Body, b |-> Body, z |-> Body]]

(* Returns in a loop, a handler and a finally.                             *)
Returning ==
  [top |-> <<"t", "z">>,
   step |-> [t |-> Try(<<"l">>, TRUE, <<"i">>, <<"j">>),
             l |-> Loop(<<"k">>, FALSE, TRUE),
             k |-> Ifs({<<>>, <<"a", "r">>}),
             i |-> Ifs({<<"b">>, <<"s">>}),
             j |-> Ifs({<<>>, <<"q">>}),
             a |-> Body, b |-> Body, z |-> Body,
             r |-> Return, s |-> Return, q |-> Return]]

Actions == {Guarded, NestedFinally, LoopedTry, Returning}
=============================================================================
