--------------------------------- MODULE MCWorkflow ---------------------------------
(***************************************************************************)
(* A stage of two steps, an empty one, and the compensation stage, whose   *)
(* second step is the compensation step.                                   *)
(***************************************************************************)
EXTENDS WorkflowProperties, TLC

Symmetric == Permutations(Instance)
MCStages == <<"main", "empty", "undo">>
MCStepsOf == "main" :> <<"make", "send">> @@ "empty" :> <<>> @@ "undo" :> <<"ask", "revert">>
MCStep == {"make", "send", "ask", "revert"}
MCMaxRetries == [s \in MCStep |-> IF s = "make" THEN 2 ELSE 1]
MCControlFlow ==
  "make" :> {"skip stage"} @@ "send" :> {"break"} @@ "ask" :> {"skip step"} @@ "revert" :> {"exit"}
NoJumps == [s \in MCStep |-> {}]
MCJumps == [NoJumps EXCEPT !["make"] = {<<"undo", "revert">>}]
=============================================================================
