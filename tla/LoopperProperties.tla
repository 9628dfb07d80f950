----------------------------- MODULE LoopperProperties -----------------------------
(***************************************************************************)
(* What the loop promises.                                                 *)
(***************************************************************************)
EXTENDS Loopper

\* Every variable has its type, and no counter falls below zero.
TypeOK ==
  /\ running \in BOOLEAN /\ started \in BOOLEAN /\ stopped \in BOOLEAN
  /\ cancelled \in BOOLEAN /\ panicked \in BOOLEAN
  /\ count \in Nat /\ bodies \in Nat /\ finishing \in Nat
  /\ thread \in [Client \cup {Ticker} -> Label]
  /\ calls \in [Client -> Nat]

\* "Only one instance of the task runs at a time" (loopper/doc.go), though ticks,
\* triggers and a second Start come at any moment, also while the run before is
\* still on its way out.
NoOverlap == bodies <= 1

\* The call number i of c is a Wait of someone who has stopped the loop before.
ShutdownWait(c, i) ==
  /\ i \in DOMAIN Program[c] /\ Program[c][i] = "wait"
  /\ \E j \in DOMAIN Program[c] : j < i /\ Program[c][j] = "stop"

Drained == \E c \in Client : \E i \in DOMAIN Program[c] : i <= calls[c] /\ ShutdownWait(c, i)

\* When a Wait after a Stop has returned, no run is under way, the ticker is not
\* either, and none begins any more.
QuietAfterWait ==
  Drained => bodies = 0 /\ finishing = 0 /\ thread[Ticker] \in {"off", "gone"}

\* The WaitGroup never panics: "It is safe to call from any goroutine, including
\* concurrently with Loopper.Stop and Loopper.Wait" (doc.go, of Trigger).  It can only
\* hold where every Wait follows a Stop of the same client (Orderly, below), as in the
\* programs that are checked; a Wait without Stop races with the Add of Trigger.
NoMisuse == ~panicked

\* Wait comes back: "Loopper.Wait blocks until all in-flight executions complete"
\* (doc.go), and they do.  In the programs that are checked every Wait follows a Stop
\* of the same client (Orderly, below): the ticker is waited for too, and ends only
\* with its context.
WaitReturns == \A c \in Client : thread[c] = "waiting" ~> thread[c] # "waiting"

-----------------------------------------------------------------------------
(* The inductive invariant.  The proofs rest on it; TLC checks it first.   *)

Holds(t) == thread[t] \in {"locking", "undo"}

\* The flag has one owner: the run in the function, or a call of tryRun that has
\* set it and not started the run yet.
OneOwner ==
  /\ bodies \in {0, 1}
  /\ bodies = 1 => running
  /\ \A t \in Client \cup {Ticker} : Holds(t) => running /\ bodies = 0
  /\ \A t, u \in Client \cup {Ticker} : Holds(t) /\ Holds(u) => t = u

\* The call that c is in, and the labels where each operation may be.
Current(c) == Program[c][calls[c] + 1]

CallsFit ==
  \A c \in Client :
    /\ calls[c] <= Len(Program[c])
    /\ thread[c] # "idle" => calls[c] < Len(Program[c])
    /\ thread[c] \in {"idle", "leading", "locking", "undo", "spawn", "cancel", "waiting", "woken"}
    /\ thread[c] \in {"leading", "spawn"} => Current(c) = "start"
    /\ Holds(c) => Current(c) \in {"start", "trigger"}
    /\ thread[c] = "cancel" => Current(c) = "stop" /\ stopped
    /\ thread[c] \in {"waiting", "woken"} => Current(c) = "wait"

\* The call of Start that has begun and not created its goroutine yet.
Starting(c) == thread[c] \in {"leading", "locking", "undo", "spawn"} /\ Current(c) = "start"

\* The ticker is created once, by the Start that set the flag.
TickerOnce ==
  /\ thread[Ticker] \in {"off", "ticking", "locking", "undo", "gone"}
  /\ thread[Ticker] # "off" => started
  /\ \A c \in Client : Starting(c) => started /\ thread[Ticker] = "off"
  /\ \A c, d \in Client : Starting(c) /\ Starting(d) => c = d

\* The ticker is on the WaitGroup from the critical section of Start until it
\* returns, also while it does not exist yet.
Counted ==
  count = bodies + finishing + IF started /\ thread[Ticker] # "gone" THEN 1 ELSE 0

\* Everyone who waits has stopped the loop before: the order of calls that
\* doc.go shows under Graceful Shutdown.
Orderly == \A c \in Client : \A i \in DOMAIN Program[c] :
             Program[c][i] = "wait" => ShutdownWait(c, i)

\* Who is past a Stop has stopped the loop; a loop that is waited for stays at
\* zero once it is there.
ShutDown ==
  /\ \A c \in Client : \A j \in DOMAIN Program[c] :
       j <= calls[c] /\ Program[c][j] = "stop" => stopped
  /\ Drained => count = 0
  /\ Orderly => \A c \in Client : thread[c] = "woken" => count = 0

\* What keeps the flag, the ticker and the counter of the WaitGroup in step, while
\* each of them is changed at another moment than the others.
LoopInvariant == OneOwner /\ CallsFit /\ TickerOnce /\ Counted /\ ShutDown
=============================================================================
