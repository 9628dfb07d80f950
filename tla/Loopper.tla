---------------------------------- MODULE Loopper ----------------------------------
(***************************************************************************)
(* The periodic runner (loopper/loop.go).  Clients call Start, Trigger,    *)
(* Stop and Wait; the ticker, a goroutine of Start, tries to run the       *)
(* function at every tick; each run is a goroutine of its own.             *)
(*                                                                         *)
(* A critical section of mu is one action: it touches nothing else that    *)
(* is shared but the WaitGroup, once.  Goroutines of runs are alike, so    *)
(* they are counted.  The WaitGroup is modelled with the two windows in    *)
(* which package sync panics: an Add from zero while someone waits, and an *)
(* Add between the release of a waiter and its return.                     *)
(*                                                                         *)
(* Left out: the context that a run gets, the value that Trigger returns,  *)
(* the recovered panic of a run (it ends as any other) and the logger.     *)
(***************************************************************************)
EXTENDS Integers, Sequences

CONSTANTS
  Client,       \* goroutines that use the loop
  Program,      \* Program[c]: the calls that c makes, one after the other
  Ticker,       \* the goroutine that Start creates
  Leading,      \* WithLeading
  MaxFinishing  \* bound: ticks wait while so many runs have still to call Done

Operation == {"start", "trigger", "stop", "wait"}

ASSUME LoopperAssumption ==
  /\ Program \in [Client -> Seq(Operation)]
  /\ Ticker \notin Client
  /\ Leading \in BOOLEAN
  /\ MaxFinishing \in Nat

VARIABLES
  running,    \* the flag that keeps runs apart
  started,
  stopped,
  cancelled,  \* the context that Start made has ended
  count,      \* the counter of the WaitGroup
  thread,     \* thread[t]: what the client or the ticker t is doing
  calls,      \* calls[c]: how many of its calls c has finished
  bodies,     \* runs that are in the function
  finishing,  \* runs that have cleared the flag and not yet called Done
  panicked    \* the WaitGroup has panicked

vars == <<running, started, stopped, cancelled, count, thread, calls, bodies, finishing, panicked>>
gate == <<started, stopped, cancelled>>

-----------------------------------------------------------------------------
\* "off" is a ticker that does not exist yet, "gone" one that has returned.
Label == {"off", "idle", "leading", "locking", "undo", "spawn", "cancel", "waiting", "woken",
          "ticking", "gone"}

Init ==
  /\ running = FALSE /\ started = FALSE /\ stopped = FALSE /\ cancelled = FALSE
  /\ count = 0 /\ bodies = 0 /\ finishing = 0 /\ panicked = FALSE
  /\ thread = [t \in Client \cup {Ticker} |-> IF t = Ticker THEN "off" ELSE "idle"]
  /\ calls = [c \in Client |-> 0]

\* c is about to call op.
Calls(c, op) ==
  /\ c \in Client /\ thread[c] = "idle"
  /\ calls[c] < Len(Program[c]) /\ Program[c][calls[c] + 1] = op

Goto(t, l) == thread' = [thread EXCEPT ![t] = l] /\ UNCHANGED calls

Finish(c) ==
  /\ thread' = [thread EXCEPT ![c] = "idle"]
  /\ calls' = [calls EXCEPT ![c] = @ + 1]

Waiting == {c \in Client : thread[c] = "waiting"}

\* WaitGroup.Add(1): an Add from zero must not meet a waiter.
Add == count' = count + 1 /\ panicked' = (count = 0 /\ Waiting # {})

\* WaitGroup.Done.
Done == count' = count - 1 /\ UNCHANGED panicked

-----------------------------------------------------------------------------
(* tryRun, which Trigger, Start and the ticker call.                       *)

\* t is about to call tryRun.  A tick is the first step of the ticker's call.
Tries(t) ==
  \/ Calls(t, "trigger")
  \/ thread[t] = "leading"
  \/ t = Ticker /\ thread[t] = "ticking" /\ finishing < MaxFinishing

\* tryRun returns to its caller.
TryReturns(t) ==
  IF t = Ticker THEN Goto(t, "ticking")
  ELSE IF Program[t][calls[t] + 1] = "start" THEN Goto(t, "spawn") ELSE Finish(t)

\* Mutation of CompareAndSwap: the flag is set, whatever it was.
CompareAndSwapBlindly(t) ==
  /\ Tries(t)
  /\ running' = TRUE /\ Goto(t, "locking")
  /\ UNCHANGED <<gate, count, bodies, finishing, panicked>>

CompareAndSwap(t) ==
  /\ Tries(t)
  /\ running' = TRUE
  /\ IF running THEN TryReturns(t) ELSE Goto(t, "locking")
  /\ UNCHANGED <<gate, count, bodies, finishing, panicked>>

\* Mutation of Launch: tryRun does not look at stopped.
LaunchAnyway(t) ==
  /\ thread[t] = "locking"
  /\ Add /\ bodies' = bodies + 1 /\ TryReturns(t)
  /\ UNCHANGED <<running, gate, finishing>>

\* The critical section of tryRun, and the start of the run.
Launch(t) ==
  /\ thread[t] = "locking"
  /\ IF stopped
       THEN Goto(t, "undo") /\ UNCHANGED <<count, panicked, bodies>>
       ELSE Add /\ bodies' = bodies + 1 /\ TryReturns(t)
  /\ UNCHANGED <<running, gate, finishing>>

\* A stopped loop runs nothing: the flag is cleared again.
Undo(t) ==
  /\ thread[t] = "undo"
  /\ running' = FALSE /\ TryReturns(t)
  /\ UNCHANGED <<gate, count, bodies, finishing, panicked>>

\* The function returns or panics, and the flag is cleared.
RunEnds ==
  /\ bodies > 0
  /\ bodies' = bodies - 1 /\ finishing' = finishing + 1 /\ running' = FALSE
  /\ UNCHANGED <<gate, count, thread, calls, panicked>>

RunDone ==
  /\ finishing > 0
  /\ finishing' = finishing - 1 /\ Done
  /\ UNCHANGED <<running, gate, thread, calls, bodies>>

-----------------------------------------------------------------------------
(* Start and its goroutine.                                                *)

Start(c) ==
  /\ Calls(c, "start")
  /\ IF started \/ stopped
       THEN Finish(c) /\ UNCHANGED <<started, count, panicked>>
       ELSE started' = TRUE /\ Add /\ Goto(c, IF Leading THEN "leading" ELSE "spawn")
  /\ UNCHANGED <<running, stopped, cancelled, bodies, finishing>>

Spawn(c) ==
  /\ thread[c] = "spawn"
  /\ thread' = [thread EXCEPT ![c] = "idle", ![Ticker] = "ticking"]
  /\ calls' = [calls EXCEPT ![c] = @ + 1]
  /\ UNCHANGED <<running, gate, count, bodies, finishing, panicked>>

TickerExit ==
  /\ thread[Ticker] = "ticking" /\ cancelled
  /\ Done /\ Goto(Ticker, "gone")
  /\ UNCHANGED <<running, gate, bodies, finishing>>

-----------------------------------------------------------------------------
(* Stop and Wait.                                                          *)

Stop(c) ==
  /\ Calls(c, "stop")
  /\ stopped' = TRUE
  /\ IF ~stopped /\ started THEN Goto(c, "cancel") ELSE Finish(c)
  /\ UNCHANGED <<running, started, cancelled, count, bodies, finishing, panicked>>

\* Mutation of Cancel: the context is not cancelled.
CancelForgotten(c) ==
  /\ thread[c] = "cancel" /\ Finish(c)
  /\ UNCHANGED <<running, gate, count, bodies, finishing, panicked>>

Cancel(c) ==
  /\ thread[c] = "cancel"
  /\ cancelled' = TRUE /\ Finish(c)
  /\ UNCHANGED <<running, started, stopped, count, bodies, finishing, panicked>>

Wait(c) ==
  /\ Calls(c, "wait")
  /\ IF count = 0 THEN Finish(c) ELSE Goto(c, "waiting")
  /\ UNCHANGED <<running, gate, count, bodies, finishing, panicked>>

\* The Done that brought the counter to zero wakes those who wait.
Release ==
  /\ count = 0 /\ Waiting # {}
  /\ thread' = [t \in DOMAIN thread |-> IF t \in Waiting THEN "woken" ELSE thread[t]]
  /\ UNCHANGED <<running, gate, count, calls, bodies, finishing, panicked>>

\* Wait returns, unless the WaitGroup is in use again.
WaitReturn(c) ==
  /\ thread[c] = "woken"
  /\ IF count = 0 THEN Finish(c) /\ UNCHANGED panicked
                  ELSE panicked' = TRUE /\ UNCHANGED <<thread, calls>>
  /\ UNCHANGED <<running, gate, count, bodies, finishing>>

\* The context that the caller gave to Start ends.
ParentCancel ==
  /\ started /\ ~cancelled /\ cancelled' = TRUE
  /\ UNCHANGED <<running, started, stopped, count, thread, calls, bodies, finishing, panicked>>

-----------------------------------------------------------------------------
ClientStep(c) ==
  \/ CompareAndSwap(c) \/ Launch(c) \/ Undo(c) \/ Start(c) \/ Spawn(c)
  \/ Stop(c) \/ Cancel(c) \/ Wait(c) \/ WaitReturn(c)

Tick == CompareAndSwap(Ticker)
TickerStep == Launch(Ticker) \/ Undo(Ticker)

\* The clients have made their calls and nothing runs, or the process crashed.
Terminated ==
  /\ \/ panicked
     \/ /\ \A c \in Client : thread[c] = "idle" /\ calls[c] = Len(Program[c])
        /\ count = 0
  /\ UNCHANGED vars

Next ==
  \/ /\ ~panicked
     /\ \/ \E c \in Client : ClientStep(c)
        \/ Tick \/ TickerStep \/ TickerExit
        \/ RunEnds \/ RunDone \/ Release \/ ParentCancel
  \/ Terminated

Spec == Init /\ [][Next]_vars

\* Goroutines are scheduled, and the function returns.  The ticker's select takes
\* each of its ready cases in the long run, so a cancelled context is seen between
\* ticks.  Ticks and the end of the caller's context may fail to come.
Fairness ==
  /\ \A c \in Client : WF_vars(~panicked /\ ClientStep(c))
  /\ WF_vars(~panicked /\ TickerStep) /\ SF_vars(~panicked /\ TickerExit)
  /\ WF_vars(~panicked /\ RunEnds) /\ WF_vars(~panicked /\ RunDone)
  /\ WF_vars(~panicked /\ Release)

FairSpec == Spec /\ Fairness
=============================================================================
