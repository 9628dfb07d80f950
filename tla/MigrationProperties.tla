--------------------------- MODULE MigrationProperties ---------------------------
(***************************************************************************)
(* What a run promises while its definition changes.                       *)
(***************************************************************************)
EXTENDS Migration

\* What the journal of m records.
Recorded(m) == {m.completed[k].does : k \in DOMAIN m.completed}

\* "completed steps are never re-executed on resume" (pipeline/README.md), also
\* not under another name and not by another release: no worker is about to do
\* what the state that it works on has recorded.
NeverRepeated ==
  \A w \in Worker :
    Calling(w) => Steps(w)[proc[w].i].does \notin Recorded(proc[w].mem)

\* The compensable entries of the durable journal behind the compensation index
\* while the run rolls back, all of them once it has failed.
ToBeUndone ==
  {k \in DOMAIN store.completed :
     /\ store.completed[k].compensator
     /\ store.status = "failed" \/ (store.status = "compensating" /\ k - 1 > store.index)}

\* A rollback undoes what was done, whichever releases did it, renamed it and
\* roll it back: no entry is passed over for want of a step of its name, and
\* none undone by a step that does something else.
RollbackUndoes == \A k \in ToBeUndone : store.completed[k].does \in undone

\* No worker takes the run back: the durable version does not decrease, the
\* journal loses nothing, and a run that is over stays so.
NoWayBack ==
  [][/\ store'.version >= store.version
     /\ IsPrefix([k \in DOMAIN store.completed |-> store.completed[k].does],
                 [k \in DOMAIN store'.completed |-> store'.completed[k].does])
     /\ IsTerminal(store) => store' = store]_vars

\* If a worker of a release that accepts the run is there, the run ends.  (Since
\* releases only grow, the worker that wrote the state last is such a worker.)
RunEnds == <>IsTerminal(store)
=============================================================================
