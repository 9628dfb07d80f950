--------------------------------- MODULE MCLoopper ---------------------------------
(***************************************************************************)
(* Programs for TLC.                                                       *)
(***************************************************************************)
EXTENDS LoopperProperties, TLC

CONSTANTS c1, c2, c3, c4

\* Two starts, triggers, and two clients that shut the loop down.
ShutdownProgram ==
  c1 :> <<"start", "start">> @@ c2 :> <<"trigger", "trigger">>
  @@ c3 :> <<"stop", "wait">> @@ c4 :> <<"trigger", "stop", "wait">>
=============================================================================
