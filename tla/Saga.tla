---------------------------------- MODULE Saga ----------------------------------
(***************************************************************************)
(* What the durable state of a pipeline run promises to whoever reads it:  *)
(* a saga.  The ledger lists the compensable steps that completed, in the  *)
(* order they did.  It grows one entry at a time while the saga goes       *)
(* forward, and each entry is undone once, last first, when it rolls back. *)
(***************************************************************************)
EXTENDS Naturals, Sequences

CONSTANT Entry   \* what the ledger may hold

VARIABLES
  phase,    \* "forward", "rollback", "done" or "aborted"
  ledger,   \* the compensable completions
  left      \* how many entries are still to be undone in a rollback

vars == <<phase, ledger, left>>

Init == phase = "forward" /\ ledger = <<>> /\ left = 0

\* A compensable step completes, which had not before.
Extend ==
  /\ phase = "forward"
  /\ Len(ledger') = Len(ledger) + 1
  /\ SubSeq(ledger', 1, Len(ledger)) = ledger
  /\ LET e == ledger'[Len(ledger) + 1]
     IN e \in Entry /\ \A i \in DOMAIN ledger : ledger[i] # e
  /\ UNCHANGED <<phase, left>>

Commit == phase = "forward" /\ phase' = "done" /\ UNCHANGED <<ledger, left>>

Abort ==
  /\ phase = "forward" /\ phase' = "rollback"
  /\ left' = Len(ledger)
  /\ UNCHANGED ledger

\* The last entry not yet undone is undone.
Undo ==
  /\ phase = "rollback" /\ left > 0
  /\ left' = left - 1
  /\ UNCHANGED <<phase, ledger>>

Finish ==
  /\ phase = "rollback" /\ left = 0
  /\ phase' = "aborted"
  /\ UNCHANGED <<ledger, left>>

Next == Extend \/ Commit \/ Abort \/ Undo \/ Finish

Spec == Init /\ [][Next]_vars
=============================================================================
