------------------------------- MODULE MCMigration -------------------------------
(***************************************************************************)
(* Three releases for TLC.  The second takes the runs of the first as they *)
(* are.  The third migrates: it puts a new step in front, gives a name of  *)
(* the first two to another step, and that step's name to none.            *)
(***************************************************************************)
EXTENDS MigrationProperties

CONSTANTS charge, check, deliver, ship,   \* names
          audit, pay, send                \* operations

StepOf(name, does, compensates) == [name |-> name, does |-> does, compensates |-> compensates]

FirstSteps == <<StepOf(charge, pay, TRUE), StepOf(ship, send, TRUE)>>

Definitions ==
  <<[steps |-> FirstSteps, minResume |-> 1, migrator |-> TRUE],
    [steps |-> FirstSteps, minResume |-> 1, migrator |-> FALSE],
    [steps |-> <<StepOf(check, audit, FALSE), StepOf(ship, pay, TRUE), StepOf(deliver, send, TRUE)>>,
     minResume |-> 3, migrator |-> TRUE]>>
=============================================================================
