----------------------------- MODULE WorkflowProperties -----------------------------
(***************************************************************************)
(* What the workflow engine promises across runs, restarts and abandoned   *)
(* runs.                                                                   *)
(***************************************************************************)
EXTENDS Workflow

\* The types of the variables.
TypeOK ==
  /\ mem \in [Instance -> Snapshot]
  /\ proc \in [Instance -> Process]
  /\ durable \in Snapshot
  /\ owner \in Instance \cup {None}
  /\ runs \in 0 .. MaxRuns

Passed(m) == {s \in Step : m.status[s] \in {"completed", "skipped"}}

\* handleStep never calls the function of a step that the last snapshot, which this
\* object saved or was restored from, shows as completed or skipped.
CompletedOnce ==
  \A i \in Instance : owner = i /\ At(i, "func") => StepOf(i) \notin Passed(durable)

\* A step is executed, and the workflow is completed, only when every step before it has
\* been completed or skipped, or is passed over because a step, or compensation, has asked
\* for it.
NothingForgotten ==
  \A i \in Instance :
    LET done == Passed(mem[i]) \cup proc[i].over
    IN  /\ At(i, "func") =>
             /\ StepsIn(1, proc[i].stage - 1) \subseteq done
             /\ \A k \in 1 .. proc[i].step - 1 : Steps(i)[k] \in done
        /\ At(i, "returned") /\ proc[i].started /\ mem[i].completed =>
             StepsIn(1, Len(Stages)) \subseteq done

\* After a failed run the next step that executes, in this object or in one restored
\* from the snapshot that finish saved, is the compensation step, unless it has been
\* completed or skipped already.
CompensationFirst ==
  [][\A i \in Instance :
       At(i, "steps") /\ mem[i].routed /\ At(i, "func")' =>
         \/ StepOf(i) = CompensationStep
         \/ CompensationStep \in Passed(mem[i])]_vars

\* An object restored from a snapshot in which a step is being executed goes on with
\* that step (README.md: "Resumes from where it stopped").
ResumesWhereItStopped ==
  [][\A i \in Instance :
       At(i, "steps") /\ At(i, "func")' =>
         \A s \in Step : mem[i].status[s] = "processing" => s = StepOf(i)]_vars
=============================================================================
