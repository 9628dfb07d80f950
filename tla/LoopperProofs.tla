------------------------------ MODULE LoopperProofs ------------------------------
(***************************************************************************)
(* The loop keeps its runs apart, and a Wait after a Stop finds it quiet,  *)
(* whatever the clients, their programs and the options.                   *)
(***************************************************************************)
EXTENDS LoopperProperties, TLAPS

Inv == TypeOK /\ LoopInvariant

\* All threads but t stay where they are, and all clients but t in their call.
Alone(t) ==
  /\ thread' \in [Client \cup {Ticker} -> Label]
  /\ calls' \in [Client -> Nat]
  /\ \A u \in Client \cup {Ticker} : u # t => thread'[u] = thread[u]
  /\ \A c \in Client : c # t => calls'[c] = calls[c]

\* t goes to l, in the same call.
Moves(t, l) == Alone(t) /\ thread'[t] = l /\ calls' = calls

\* The client t has finished its call.
Returns(t) == Alone(t) /\ thread'[t] = "idle" /\ calls'[t] = calls[t] + 1

LEMMA GotoMoves ==
  ASSUME TypeOK, NEW t \in Client \cup {Ticker}, NEW l \in Label, Goto(t, l)
  PROVE  Moves(t, l)
  BY DEF Goto, TypeOK, Moves, Alone

LEMMA FinishReturns ==
  ASSUME TypeOK, NEW c \in Client, Finish(c)
  PROVE  Returns(c)
  BY LoopperAssumption DEF Finish, TypeOK, Returns, Alone, Label

\* A tryRun that returns: the ticker to its loop, a client out of Trigger or on in Start.
LEMMA TryReturnsEffect ==
  ASSUME TypeOK, NEW t \in Client \cup {Ticker}, TryReturns(t)
  PROVE  \/ t = Ticker /\ Moves(t, "ticking")
         \/ t \in Client /\ Current(t) = "start" /\ Moves(t, "spawn")
         \/ t \in Client /\ Current(t) # "start" /\ Returns(t)
<1>1. CASE t = Ticker
  <2>1. Goto(t, "ticking") BY <1>1 DEF TryReturns
  <2> QED BY <1>1, <2>1, GotoMoves DEF Label
<1>2. CASE t # Ticker /\ Current(t) = "start"
  <2>1. Goto(t, "spawn") BY <1>2 DEF TryReturns, Current
  <2> QED BY <1>2, <2>1, GotoMoves DEF Label
<1>3. CASE t # Ticker /\ Current(t) # "start"
  <2>1. Finish(t) BY <1>3 DEF TryReturns, Current
  <2> QED BY <1>3, <2>1, FinishReturns
<1> QED BY <1>1, <1>2, <1>3

-----------------------------------------------------------------------------
\* A client that finishes a call other than Wait has drained nothing more.
LEMMA DrainedBefore ==
  ASSUME Inv, NEW t \in Client \cup {Ticker}, Drained',
         calls' = calls \/ (t \in Client /\ Returns(t) /\ Current(t) # "wait")
  PROVE  Drained
<1>1. PICK c \in Client : \E i \in DOMAIN Program[c] : i <= calls'[c] /\ ShutdownWait(c, i)
  BY DEF Drained
<1>2. PICK i \in DOMAIN Program[c] : i <= calls'[c] /\ ShutdownWait(c, i)
  BY <1>1
<1>3. i \in Nat /\ Program[c][i] = "wait" BY <1>2, LoopperAssumption DEF ShutdownWait
<1>4. i <= calls[c]
  <2> SUFFICES ASSUME ~(i <= calls[c]) PROVE FALSE
    OBVIOUS
  <2>1. c = t /\ Returns(t) /\ Current(t) # "wait" BY <1>2 DEF Returns, Alone
  <2>2. i = calls[c] + 1 BY <1>2, <1>3, <2>1 DEF Returns, Inv, TypeOK
  <2> QED BY <1>3, <2>1, <2>2 DEF Current
<1> QED BY <1>2, <1>4 DEF Drained

\* A finished call that is no Stop leaves the finished Stops as they were.
LEMMA StopsBefore ==
  ASSUME Inv, NEW t \in Client \cup {Ticker}, stopped => stopped',
         calls' = calls \/ (t \in Client /\ Returns(t) /\ (Current(t) = "stop" => stopped'))
  PROVE  \A c \in Client : \A j \in DOMAIN Program[c] :
           j <= calls'[c] /\ Program[c][j] = "stop" => stopped'
<1> SUFFICES ASSUME NEW c \in Client, NEW j \in DOMAIN Program[c],
                    j <= calls'[c], Program[c][j] = "stop"
             PROVE  stopped'
  OBVIOUS
<1>1. CASE j <= calls[c] BY <1>1 DEF Inv, LoopInvariant, ShutDown
<1>2. CASE ~(j <= calls[c])
  <2>1. j = calls[c] + 1 /\ c = t
    BY <1>2, LoopperAssumption DEF Inv, TypeOK, Returns, Alone
  <2>2. Current(t) = "stop" BY <2>1 DEF Current
  <2>3. calls' # calls BY <1>2
  <2> QED BY <2>2, <2>3
<1> QED BY <1>1, <1>2

\* A loop that somebody waits for, or has waited for, after Stop is stopped.
LEMMA WaitedForStopped ==
  ASSUME Inv
  PROVE  /\ Drained => stopped
         /\ Orderly => \A c \in Client : thread[c] \in {"waiting", "woken"} => stopped
<1>1. ASSUME Drained PROVE stopped
  <2>0. PICK c \in Client : \E i \in DOMAIN Program[c] : i <= calls[c] /\ ShutdownWait(c, i)
    BY <1>1 DEF Drained
  <2>1. PICK i \in DOMAIN Program[c] : i <= calls[c] /\ ShutdownWait(c, i)
    BY <2>0
  <2>2. PICK j \in DOMAIN Program[c] : j < i /\ Program[c][j] = "stop"
    BY <2>1 DEF ShutdownWait
  <2>3. j <= calls[c] BY <2>1, <2>2, LoopperAssumption DEF Inv, TypeOK
  <2> QED BY <2>2, <2>3 DEF Inv, LoopInvariant, ShutDown
<1>2. ASSUME Orderly, NEW c \in Client, thread[c] \in {"waiting", "woken"} PROVE stopped
  <2>1. calls[c] + 1 \in DOMAIN Program[c] /\ Program[c][calls[c] + 1] = "wait"
    BY <1>2, LoopperAssumption DEF Inv, TypeOK, LoopInvariant, CallsFit, Current
  <2>2. ShutdownWait(c, calls[c] + 1) BY <1>2, <2>1 DEF Orderly
  <2>3. PICK j \in DOMAIN Program[c] : j < calls[c] + 1 /\ Program[c][j] = "stop"
    BY <2>2 DEF ShutdownWait
  <2>4. j <= calls[c] BY <2>3, LoopperAssumption DEF Inv, TypeOK
  <2> QED BY <2>3, <2>4 DEF Inv, LoopInvariant, ShutDown
<1> QED BY <1>1, <1>2

-----------------------------------------------------------------------------
(* What a step of one thread does to the parts that speak of threads.      *)

\* The client's label still fits the call that it is in.
LEMMA CallsFitAfter ==
  ASSUME Inv, NEW t \in Client \cup {Ticker}, NEW l, stopped => stopped',
         \/ t \in Client /\ Returns(t) /\ calls[t] < Len(Program[t])
         \/ t = Ticker /\ Moves(t, l)
         \/ /\ t \in Client /\ Moves(t, l) /\ calls[t] < Len(Program[t])
            /\ \/ l \in {"leading", "spawn"} /\ Current(t) = "start"
               \/ l \in {"locking", "undo"} /\ Current(t) \in {"start", "trigger"}
               \/ l = "cancel" /\ Current(t) = "stop" /\ stopped'
               \/ l \in {"waiting", "woken"} /\ Current(t) = "wait"
  PROVE  CallsFit'
<1> SUFFICES ASSUME NEW c \in Client
             PROVE  /\ calls'[c] <= Len(Program[c])
                    /\ thread'[c] # "idle" => calls'[c] < Len(Program[c])
                    /\ thread'[c] \in {"idle", "leading", "locking", "undo", "spawn", "cancel",
                                       "waiting", "woken"}
                    /\ thread'[c] \in {"leading", "spawn"} => Current(c)' = "start"
                    /\ Holds(c)' => Current(c)' \in {"start", "trigger"}
                    /\ thread'[c] = "cancel" => Current(c)' = "stop" /\ stopped'
                    /\ thread'[c] \in {"waiting", "woken"} => Current(c)' = "wait"
  BY DEF CallsFit
<1>1. CASE c # t \/ t = Ticker
  <2>1. thread'[c] = thread[c] /\ calls'[c] = calls[c]
    BY <1>1, LoopperAssumption DEF Returns, Moves, Alone
  <2>2. Current(c)' = Current(c) BY <2>1 DEF Current
  <2> QED BY <2>1, <2>2 DEF Inv, LoopInvariant, CallsFit, Holds
<1>2. CASE c = t /\ t # Ticker /\ Returns(t)
  BY <1>2, LoopperAssumption DEF Returns, Holds, Inv, TypeOK
<1>3. CASE c = t /\ t # Ticker /\ ~Returns(t)
  <2>1. thread'[c] = l /\ calls'[c] = calls[c] /\ calls[c] < Len(Program[c])
    BY <1>3 DEF Moves
  <2>2. Current(c)' = Current(c) BY <2>1 DEF Current
  <2>3. calls[c] <= Len(Program[c]) BY DEF Inv, LoopInvariant, CallsFit
  <2> QED BY <1>3, <2>1, <2>2, <2>3 DEF Holds
<1> QED BY <1>1, <1>2, <1>3

\* Who is on the way to a label of Start was there before, so the ticker is still
\* created once.
LEMMA TickerOnceAfter ==
  ASSUME Inv, NEW t \in Client \cup {Ticker}, NEW l, started' = started,
         \/ t \in Client /\ Returns(t) /\ thread[t] # "spawn"
         \/ t \in Client /\ Moves(t, l) /\ (Starting(t)' => Starting(t))
         \/ t = Ticker /\ Moves(t, l) /\ thread[t] # "off" /\ l \in {"ticking", "locking", "undo", "gone"}
  PROVE  TickerOnce'
<1>1. t # Ticker => thread'[Ticker] = thread[Ticker]
  BY DEF Returns, Moves, Alone
<1>2. \A c \in Client : Starting(c)' => Starting(c)
  <2> SUFFICES ASSUME NEW c \in Client, Starting(c)' PROVE Starting(c)
    OBVIOUS
  <2>1. CASE c # t \/ t = Ticker
    <3>1. thread'[c] = thread[c] /\ calls'[c] = calls[c]
      BY <2>1, LoopperAssumption DEF Returns, Moves, Alone
    <3> QED BY <3>1 DEF Starting, Current
  <2>2. CASE c = t /\ t # Ticker BY <2>2 DEF Starting, Returns
  <2> QED BY <2>1, <2>2
<1>3. t = Ticker => \A c \in Client : ~Starting(c)
  BY LoopperAssumption DEF Inv, LoopInvariant, TickerOnce
<1>4. TickerOnce BY DEF Inv, LoopInvariant
<1>5. /\ thread'[Ticker] \in {"off", "ticking", "locking", "undo", "gone"}
      /\ thread'[Ticker] # "off" => started'
  <2>1. CASE t = Ticker
    <3>1. thread'[Ticker] = l /\ thread[Ticker] # "off" /\ l \in {"ticking", "locking", "undo", "gone"}
      BY <2>1, LoopperAssumption DEF Moves
    <3> QED BY <1>4, <3>1 DEF TickerOnce
  <2>2. CASE t # Ticker BY <1>1, <1>4, <2>2 DEF TickerOnce
  <2> QED BY <2>1, <2>2
<1>6. \A c \in Client : Starting(c)' => started' /\ thread'[Ticker] = "off"
  BY <1>1, <1>2, <1>3, <1>4 DEF TickerOnce
<1> QED BY <1>2, <1>4, <1>5, <1>6 DEF TickerOnce

\* A step that makes nobody the owner of the flag, and takes it from nobody else.
LEMMA OneOwnerAfter ==
  ASSUME Inv, NEW t \in Client \cup {Ticker}, Alone(t), running' = running, bodies' = bodies,
         Holds(t)' => Holds(t)
  PROVE  OneOwner'
<1>1. \A u \in Client \cup {Ticker} : Holds(u)' => Holds(u) BY DEF Alone, Holds
<1> QED BY <1>1 DEF Inv, LoopInvariant, OneOwner

\* A step after which nobody else is in Wait than before, and which does not use the
\* counter of a loop that is being shut down.
LEMMA ShutDownAfter ==
  ASSUME Inv, NEW t \in Client \cup {Ticker}, stopped => stopped',
         stopped /\ count = 0 => count' = 0,
         \A c \in Client : thread'[c] = "woken" => thread[c] = "woken",
         calls' = calls
           \/ (t \in Client /\ Returns(t) /\ Current(t) # "wait" /\ (Current(t) = "stop" => stopped'))
  PROVE  ShutDown'
<1>1. \A c \in Client : \A j \in DOMAIN Program[c] :
        j <= calls'[c] /\ Program[c][j] = "stop" => stopped'
  BY StopsBefore
<1>2. Drained' => count' = 0
  BY DrainedBefore, WaitedForStopped DEF Inv, LoopInvariant, ShutDown
<1>3. Orderly => \A c \in Client : thread'[c] = "woken" => count' = 0
  BY WaitedForStopped DEF Inv, LoopInvariant, ShutDown
<1> QED BY <1>1, <1>2, <1>3 DEF ShutDown, Orderly, ShutdownWait

-----------------------------------------------------------------------------
(* The steps of tryRun.                                                    *)

\* t may be in tryRun: the ticker's loop calls it, Start does, and Trigger.
TryRunner(t) ==
  \/ t = Ticker /\ thread[t] \in {"ticking", "locking", "undo"}
  \/ /\ t \in Client /\ calls[t] < Len(Program[t])
     /\ \/ Current(t) = "start" /\ thread[t] \in {"leading", "locking", "undo"}
        \/ Current(t) = "trigger" /\ thread[t] \in {"idle", "locking", "undo"}

LEMMA TriesFits ==
  ASSUME Inv, NEW t \in Client \cup {Ticker}, Tries(t)
  PROVE  TryRunner(t) /\ ~Holds(t)
<1>1. CASE t = Ticker
  BY <1>1, LoopperAssumption DEF Tries, Calls, TryRunner, Holds, Inv, LoopInvariant, TickerOnce
<1>2. CASE t # Ticker
  BY <1>2 DEF Tries, Calls, TryRunner, Holds, Current, Inv, LoopInvariant, CallsFit
<1> QED BY <1>1, <1>2

LEMMA HoldsFits ==
  ASSUME Inv, NEW t \in Client \cup {Ticker}, Holds(t)
  PROVE  TryRunner(t)
<1>1. CASE t = Ticker BY <1>1 DEF TryRunner, Holds
<1>2. CASE t # Ticker BY <1>2 DEF TryRunner, Holds, Inv, LoopInvariant, CallsFit
<1> QED BY <1>1, <1>2

\* t stays in tryRun, at a label where it has set the flag.
LEMMA GotoKeeps ==
  ASSUME Inv, NEW t \in Client \cup {Ticker}, NEW l \in {"locking", "undo"},
         TryRunner(t), Goto(t, l), UNCHANGED <<started, stopped, count>>
  PROVE  /\ Alone(t) /\ thread'[t] = l
         /\ CallsFit' /\ TickerOnce' /\ ShutDown'
         /\ thread'[Ticker] = "gone" <=> thread[Ticker] = "gone"
<1>1. Moves(t, l) BY GotoMoves DEF Inv, Label
<1>2. CallsFit' BY <1>1, CallsFitAfter DEF TryRunner
<1>3. TickerOnce'
  BY <1>1, TickerOnceAfter, LoopperAssumption DEF TryRunner, Starting, Current, Moves
<1>4. \A c \in Client : thread'[c] = "woken" => thread[c] = "woken" BY <1>1 DEF Moves, Alone
<1>5. ShutDown' BY <1>1, <1>4, ShutDownAfter DEF Moves
<1>6. thread'[Ticker] = "gone" <=> thread[Ticker] = "gone"
  BY <1>1, LoopperAssumption DEF Moves, Alone, TryRunner
<1> QED BY <1>1, <1>2, <1>3, <1>5, <1>6 DEF Moves

\* tryRun returns.
LEMMA TryReturnsKeeps ==
  ASSUME Inv, NEW t \in Client \cup {Ticker}, TryRunner(t), TryReturns(t),
         UNCHANGED <<started, stopped>>, stopped => count' = count
  PROVE  /\ Alone(t) /\ ~Holds(t)'
         /\ CallsFit' /\ TickerOnce' /\ ShutDown'
         /\ thread'[Ticker] = "gone" <=> thread[Ticker] = "gone"
<1>1. \/ t = Ticker /\ Moves(t, "ticking")
      \/ t \in Client /\ t # Ticker /\ Current(t) = "start" /\ Moves(t, "spawn")
      \/ t \in Client /\ t # Ticker /\ Current(t) = "trigger" /\ Returns(t)
  BY TryReturnsEffect, LoopperAssumption DEF Inv, TryRunner, TryReturns
<1>2. CallsFit' BY <1>1, CallsFitAfter, LoopperAssumption DEF TryRunner
<1>3. TickerOnce'
  BY <1>1, TickerOnceAfter, LoopperAssumption DEF TryRunner, Starting, Current, Moves
<1>4. \A c \in Client : thread'[c] = "woken" => thread[c] = "woken"
  BY <1>1 DEF Returns, Moves, Alone
<1>5. ShutDown' BY <1>1, <1>4, ShutDownAfter DEF Moves
<1>6. thread'[Ticker] = "gone" <=> thread[Ticker] = "gone"
  BY <1>1, LoopperAssumption DEF Returns, Moves, Alone, TryRunner
<1>7. Alone(t) /\ ~Holds(t)' BY <1>1 DEF Returns, Moves, Holds
<1> QED BY <1>2, <1>3, <1>5, <1>6, <1>7

LEMMA CompareAndSwapKeeps ==
  ASSUME Inv, NEW t \in Client \cup {Ticker}, CompareAndSwap(t)
  PROVE  Inv'
<1>1. TryRunner(t) /\ ~Holds(t) BY TriesFits DEF CompareAndSwap
<1>2. CASE running
  <2>1. TryReturns(t) /\ running' = running BY <1>2 DEF CompareAndSwap, Inv, TypeOK
  <2>2. /\ Alone(t) /\ ~Holds(t)' /\ CallsFit' /\ TickerOnce' /\ ShutDown'
        /\ thread'[Ticker] = "gone" <=> thread[Ticker] = "gone"
    BY <1>1, <2>1, TryReturnsKeeps DEF CompareAndSwap, gate
  <2>3. OneOwner' BY <2>1, <2>2, OneOwnerAfter DEF CompareAndSwap
  <2>4. Counted' BY <2>2 DEF CompareAndSwap, gate, Inv, LoopInvariant, Counted
  <2>5. TypeOK' BY <2>1, <2>2 DEF CompareAndSwap, gate, Inv, TypeOK, Alone
  <2> QED BY <2>2, <2>3, <2>4, <2>5 DEF Inv, LoopInvariant
<1>3. CASE ~running
  <2>1. Goto(t, "locking") /\ running' = TRUE BY <1>3 DEF CompareAndSwap
  <2>2. /\ Alone(t) /\ thread'[t] = "locking" /\ CallsFit' /\ TickerOnce' /\ ShutDown'
        /\ thread'[Ticker] = "gone" <=> thread[Ticker] = "gone"
    BY <1>1, <2>1, GotoKeeps DEF CompareAndSwap, gate
  <2>3. OneOwner'
    <3>1. bodies = 0 /\ \A u \in Client \cup {Ticker} : ~Holds(u)
      BY <1>3 DEF Inv, LoopInvariant, OneOwner
    <3>2. \A u \in Client \cup {Ticker} : Holds(u)' => u = t
      BY <2>2, <3>1 DEF Alone, Holds
    <3> QED BY <2>1, <3>1, <3>2 DEF CompareAndSwap, OneOwner
  <2>4. Counted' BY <2>2 DEF CompareAndSwap, gate, Inv, LoopInvariant, Counted
  <2>5. TypeOK' BY <2>1, <2>2 DEF CompareAndSwap, gate, Inv, TypeOK, Alone
  <2> QED BY <2>2, <2>3, <2>4, <2>5 DEF Inv, LoopInvariant
<1> QED BY <1>2, <1>3

LEMMA LaunchKeeps ==
  ASSUME Inv, NEW t \in Client \cup {Ticker}, Launch(t)
  PROVE  Inv'
<1>1. Holds(t) /\ TryRunner(t) BY HoldsFits DEF Launch, Holds
<1>2. CASE stopped
  <2>1. Goto(t, "undo") BY <1>2 DEF Launch
  <2>2. /\ Alone(t) /\ thread'[t] = "undo" /\ CallsFit' /\ TickerOnce' /\ ShutDown'
        /\ thread'[Ticker] = "gone" <=> thread[Ticker] = "gone"
    BY <1>1, <1>2, <2>1, GotoKeeps DEF Launch, gate
  <2>3. OneOwner' BY <1>1, <1>2, <2>2, OneOwnerAfter DEF Launch
  <2>4. Counted' BY <1>2, <2>2 DEF Launch, gate, Inv, LoopInvariant, Counted
  <2>5. TypeOK' BY <1>2, <2>2 DEF Launch, gate, Inv, TypeOK, Alone
  <2> QED BY <2>2, <2>3, <2>4, <2>5 DEF Inv, LoopInvariant
<1>3. CASE ~stopped
  <2>1. TryReturns(t) /\ count' = count + 1 /\ bodies' = bodies + 1 BY <1>3 DEF Launch, Add
  <2>2. /\ Alone(t) /\ ~Holds(t)' /\ CallsFit' /\ TickerOnce' /\ ShutDown'
        /\ thread'[Ticker] = "gone" <=> thread[Ticker] = "gone"
    BY <1>1, <1>3, <2>1, TryReturnsKeeps DEF Launch, gate
  <2>3. OneOwner'
    <3>1. running /\ bodies = 0 /\ \A u \in Client \cup {Ticker} : Holds(u) => u = t
      BY <1>1 DEF Inv, LoopInvariant, OneOwner
    <3>2. \A u \in Client \cup {Ticker} : ~Holds(u)'
      BY <2>2, <3>1 DEF Alone, Holds
    <3> QED BY <2>1, <3>1, <3>2 DEF Launch, OneOwner
  <2>4. Counted' BY <2>1, <2>2 DEF Launch, gate, Inv, TypeOK, LoopInvariant, Counted
  <2>5. panicked' \in BOOLEAN BY <1>3 DEF Launch, Add
  <2>6. TypeOK' BY <2>1, <2>2, <2>5 DEF Launch, gate, Inv, TypeOK, Alone
  <2> QED BY <2>2, <2>3, <2>4, <2>6 DEF Inv, LoopInvariant
<1> QED BY <1>2, <1>3

LEMMA UndoKeeps ==
  ASSUME Inv, NEW t \in Client \cup {Ticker}, Undo(t)
  PROVE  Inv'
<1>1. Holds(t) /\ TryRunner(t) BY HoldsFits DEF Undo, Holds
<1>2. /\ Alone(t) /\ ~Holds(t)' /\ CallsFit' /\ TickerOnce' /\ ShutDown'
      /\ thread'[Ticker] = "gone" <=> thread[Ticker] = "gone"
  BY <1>1, TryReturnsKeeps DEF Undo, gate
<1>3. OneOwner'
  <2>1. bodies = 0 /\ \A u \in Client \cup {Ticker} : Holds(u) => u = t
    BY <1>1 DEF Inv, LoopInvariant, OneOwner
  <2>2. \A u \in Client \cup {Ticker} : ~Holds(u)' BY <1>2, <2>1 DEF Alone, Holds
  <2> QED BY <2>1, <2>2 DEF Undo, OneOwner
<1>4. Counted' BY <1>2 DEF Undo, gate, Inv, LoopInvariant, Counted
<1>5. TypeOK' BY <1>2 DEF Undo, gate, Inv, TypeOK, Alone
<1> QED BY <1>2, <1>3, <1>4, <1>5 DEF Inv, LoopInvariant

-----------------------------------------------------------------------------
(* The steps of runs and of the ticker.                                    *)

\* A step that moves no thread and does not stop the loop.
LEMMA NobodyMoves ==
  ASSUME Inv, UNCHANGED <<started, stopped, thread, calls>>, count = 0 => count' = 0
  PROVE  CallsFit' /\ TickerOnce' /\ ShutDown'
<1>1. CallsFit' BY DEF Inv, LoopInvariant, CallsFit, Holds, Current
<1>2. TickerOnce' BY DEF Inv, LoopInvariant, TickerOnce, Starting, Current
<1>3. ShutDown' BY DEF Inv, LoopInvariant, ShutDown, Drained, ShutdownWait, Orderly
<1> QED BY <1>1, <1>2, <1>3

LEMMA RunEndsKeeps ==
  ASSUME Inv, RunEnds
  PROVE  Inv'
<1>1. CallsFit' /\ TickerOnce' /\ ShutDown' BY NobodyMoves DEF RunEnds, gate
<1>2. OneOwner' BY DEF RunEnds, Inv, LoopInvariant, OneOwner, Holds
<1>3. Counted' BY DEF RunEnds, gate, Inv, TypeOK, LoopInvariant, Counted
<1>4. TypeOK'
  <2>1. bodies' \in Nat /\ finishing' \in Nat BY DEF RunEnds, Inv, TypeOK
  <2>2. running' \in BOOLEAN BY DEF RunEnds
  <2> QED BY <2>1, <2>2 DEF RunEnds, gate, Inv, TypeOK
<1> QED BY <1>1, <1>2, <1>3, <1>4 DEF Inv, LoopInvariant

LEMMA RunDoneKeeps ==
  ASSUME Inv, RunDone
  PROVE  Inv'
<1>1. count > 0 BY DEF RunDone, Inv, TypeOK, LoopInvariant, Counted
<1>2. CallsFit' /\ TickerOnce' /\ ShutDown' BY <1>1, NobodyMoves DEF RunDone, gate
<1>3. OneOwner' BY DEF RunDone, Inv, LoopInvariant, OneOwner, Holds
<1>4. Counted' BY DEF RunDone, Done, gate, Inv, TypeOK, LoopInvariant, Counted
<1>5. TypeOK' BY <1>1 DEF RunDone, Done, gate, Inv, TypeOK
<1> QED BY <1>2, <1>3, <1>4, <1>5 DEF Inv, LoopInvariant

LEMMA ParentCancelKeeps ==
  ASSUME Inv, ParentCancel
  PROVE  Inv'
<1>1. CallsFit' /\ TickerOnce' /\ ShutDown' BY NobodyMoves DEF ParentCancel
<1>2. OneOwner' BY DEF ParentCancel, Inv, LoopInvariant, OneOwner, Holds
<1>3. Counted' BY DEF ParentCancel, Inv, LoopInvariant, Counted
<1>4. TypeOK' BY DEF ParentCancel, Inv, TypeOK
<1> QED BY <1>1, <1>2, <1>3, <1>4 DEF Inv, LoopInvariant

LEMMA TickerExitKeeps ==
  ASSUME Inv, TickerExit
  PROVE  Inv'
<1>1. Moves(Ticker, "gone") BY GotoMoves DEF TickerExit, Inv, Label
<1>2. started BY DEF TickerExit, Inv, LoopInvariant, TickerOnce
<1>3. count > 0 BY <1>2 DEF TickerExit, Inv, TypeOK, LoopInvariant, Counted
<1>4. CallsFit' BY <1>1, CallsFitAfter DEF TickerExit, gate
<1>5. TickerOnce' BY <1>1, TickerOnceAfter DEF TickerExit, gate
<1>6. ShutDown'
  <2>1. \A c \in Client : thread'[c] = "woken" => thread[c] = "woken"
    BY <1>1 DEF Moves, Alone
  <2> QED BY <1>1, <1>3, <2>1, ShutDownAfter DEF Moves, TickerExit, gate
<1>7. OneOwner' BY <1>1, OneOwnerAfter DEF Moves, TickerExit, Holds
<1>8. Counted' BY <1>1, <1>2 DEF TickerExit, Done, Moves, gate, Inv, TypeOK, LoopInvariant, Counted
<1>9. TypeOK' BY <1>1, <1>3 DEF TickerExit, Done, Moves, Alone, gate, Inv, TypeOK
<1> QED BY <1>4, <1>5, <1>6, <1>7, <1>8, <1>9 DEF Inv, LoopInvariant

-----------------------------------------------------------------------------
(* The steps of Start, Stop and Wait.                                      *)

LEMMA CallsCurrent ==
  ASSUME TypeOK, NEW c, NEW op, Calls(c, op)
  PROVE  /\ c \in Client /\ c # Ticker /\ thread[c] = "idle" /\ ~Holds(c) /\ ~Starting(c)
         /\ calls[c] < Len(Program[c]) /\ Current(c) = op
  BY LoopperAssumption DEF Calls, Current, Holds, Starting

\* A client finishes a call, a Wait only at zero, and starts no ticker.
LEMMA FinishKeeps ==
  ASSUME Inv, NEW c \in Client, Finish(c), ~Holds(c), thread[c] # "spawn", calls[c] < Len(Program[c]),
         Current(c) = "wait" => count = 0, Current(c) = "stop" => stopped', stopped => stopped',
         started' = started, UNCHANGED <<running, count, bodies, finishing>>
  PROVE  /\ Alone(c) /\ CallsFit' /\ TickerOnce' /\ ShutDown' /\ OneOwner' /\ Counted'
         /\ calls' \in [Client -> Nat] /\ thread' \in [Client \cup {Ticker} -> Label]
<1>1. Returns(c) BY FinishReturns DEF Inv
<1>2. CallsFit' BY <1>1, CallsFitAfter
<1>3. TickerOnce' BY <1>1, TickerOnceAfter
<1>4. \A d \in Client : thread'[d] = "woken" => thread[d] = "woken" BY <1>1 DEF Returns, Alone
<1>5. ShutDown'
  <2>1. CASE Current(c) = "wait" BY <1>1, <2>1, StopsBefore DEF ShutDown, Orderly, ShutdownWait
  <2>2. CASE Current(c) # "wait" BY <1>1, <1>4, <2>2, ShutDownAfter
  <2> QED BY <2>1, <2>2
<1>6. OneOwner' BY <1>1, OneOwnerAfter DEF Returns, Holds
<1>7. thread'[Ticker] = thread[Ticker] BY <1>1, LoopperAssumption DEF Returns, Alone
<1>8. Counted' BY <1>7 DEF Inv, LoopInvariant, Counted
<1> QED BY <1>1, <1>2, <1>3, <1>5, <1>6, <1>8 DEF Returns, Alone

LEMMA StartKeeps ==
  ASSUME Inv, NEW c \in Client, Start(c)
  PROVE  Inv'
<1>0. /\ thread[c] = "idle" /\ ~Holds(c) /\ ~Starting(c) /\ c # Ticker
      /\ calls[c] < Len(Program[c]) /\ Current(c) = "start"
  BY CallsCurrent DEF Start, Inv
<1>1. CASE started \/ stopped
  <2>1. Finish(c) /\ UNCHANGED <<running, started, stopped, cancelled, count, bodies, finishing, panicked>>
    BY <1>1 DEF Start
  <2>2. /\ CallsFit' /\ TickerOnce' /\ ShutDown' /\ OneOwner' /\ Counted'
        /\ calls' \in [Client -> Nat] /\ thread' \in [Client \cup {Ticker} -> Label]
    BY <1>0, <2>1, FinishKeeps
  <2>3. TypeOK' BY <2>1, <2>2 DEF Inv, TypeOK
  <2> QED BY <2>2, <2>3 DEF Inv, LoopInvariant
<1>2. CASE ~started /\ ~stopped
  <2>1. PICK l \in {"leading", "spawn"} : Goto(c, l)
    BY <1>2 DEF Start
  <2>2. Moves(c, l) BY <2>1, GotoMoves DEF Inv, Label
  <2>3. /\ started' = TRUE /\ count' = count + 1 /\ panicked' \in BOOLEAN
        /\ UNCHANGED <<running, stopped, cancelled, bodies, finishing>>
    BY <1>2 DEF Start, Add
  <2>4. CallsFit' BY <1>0, <2>2, <2>3, CallsFitAfter
  <2>5. thread'[Ticker] = "off" /\ thread[Ticker] = "off"
    BY <1>0, <1>2, <2>2 DEF Moves, Alone, Inv, LoopInvariant, TickerOnce
  <2>6. TickerOnce'
    <3>1. \A d \in Client : ~Starting(d) BY <1>2 DEF Inv, LoopInvariant, TickerOnce
    <3>2. \A d \in Client : Starting(d)' => d = c
      BY <2>2, <3>1 DEF Starting, Current, Moves, Alone
    <3> QED BY <2>3, <2>5, <3>2 DEF TickerOnce
  <2>7. \A d \in Client : thread'[d] = "woken" => thread[d] = "woken"
    BY <2>2 DEF Moves, Alone
  <2>8. ShutDown' BY <1>2, <2>2, <2>3, <2>7, ShutDownAfter DEF Moves
  <2>9. OneOwner' BY <2>2, <2>3, OneOwnerAfter DEF Moves, Holds
  <2>10. Counted' BY <1>2, <2>3, <2>5 DEF Inv, TypeOK, LoopInvariant, Counted
  <2>11. TypeOK' BY <2>2, <2>3 DEF Inv, TypeOK, Moves, Alone
  <2> QED BY <2>4, <2>6, <2>8, <2>9, <2>10, <2>11 DEF Inv, LoopInvariant
<1> QED BY <1>1, <1>2

LEMMA SpawnKeeps ==
  ASSUME Inv, NEW c \in Client, Spawn(c)
  PROVE  Inv'
<1>0. /\ calls[c] < Len(Program[c]) /\ Current(c) = "start" /\ c # Ticker /\ Starting(c)
      /\ started /\ thread[Ticker] = "off"
  BY LoopperAssumption DEF Spawn, Starting, Inv, LoopInvariant, CallsFit, TickerOnce
<1>1. /\ thread' \in [Client \cup {Ticker} -> Label] /\ calls' \in [Client -> Nat]
      /\ thread'[c] = "idle" /\ thread'[Ticker] = "ticking" /\ calls'[c] = calls[c] + 1
      /\ \A d \in Client : d # c => thread'[d] = thread[d] /\ calls'[d] = calls[d]
  BY <1>0, LoopperAssumption DEF Spawn, Label, Inv, TypeOK
<1>2. UNCHANGED <<running, started, stopped, cancelled, count, bodies, finishing, panicked>>
  BY DEF Spawn, gate
<1>3. CallsFit'
  <2>1. ASSUME NEW d \in Client, d # c
        PROVE  Current(d)' = Current(d) /\ thread'[d] = thread[d] /\ calls'[d] = calls[d]
    BY <1>1, <2>1 DEF Current
  <2>2. calls'[c] <= Len(Program[c]) BY <1>0, <1>1, LoopperAssumption DEF Inv, TypeOK
  <2> QED BY <1>1, <1>2, <2>1, <2>2 DEF Inv, LoopInvariant, CallsFit, Holds
<1>4. \A d \in Client : ~Starting(d)'
  <2>1. \A d \in Client : d # c => ~Starting(d)
    BY <1>0 DEF Inv, LoopInvariant, TickerOnce
  <2> QED BY <1>1, <2>1 DEF Starting, Current
<1>5. TickerOnce' BY <1>0, <1>1, <1>2, <1>4 DEF TickerOnce
<1>6. ShutDown'
  <2>1. \A d \in Client : thread'[d] = "woken" => thread[d] = "woken" BY <1>1
  <2>2. \A d \in Client : \A j \in DOMAIN Program[d] :
          j <= calls'[d] /\ Program[d][j] = "stop" => stopped'
    <3> SUFFICES ASSUME NEW d \in Client, NEW j \in DOMAIN Program[d],
                        j <= calls'[d], Program[d][j] = "stop"
                 PROVE  stopped'
      OBVIOUS
    <3>1. j <= calls[d]
      <4> SUFFICES ASSUME ~(j <= calls[d]) PROVE FALSE
        OBVIOUS
      <4>1. d = c BY <1>1
      <4>2. j = calls[c] + 1 BY <1>1, <4>1, LoopperAssumption DEF Inv, TypeOK
      <4> QED BY <1>0, <4>1, <4>2 DEF Current
    <3> QED BY <1>2, <3>1 DEF Inv, LoopInvariant, ShutDown
  <2>3. Drained' => Drained
    <3> SUFFICES ASSUME NEW d \in Client, NEW i \in DOMAIN Program[d],
                        i <= calls'[d], ShutdownWait(d, i)
                 PROVE  Drained
      BY DEF Drained, ShutdownWait
    <3>1. i <= calls[d]
      <4> SUFFICES ASSUME ~(i <= calls[d]) PROVE FALSE
        OBVIOUS
      <4>1. d = c BY <1>1
      <4>2. i = calls[c] + 1 BY <1>1, <4>1, LoopperAssumption DEF Inv, TypeOK
      <4> QED BY <1>0, <4>1, <4>2 DEF Current, ShutdownWait
    <3> QED BY <3>1 DEF Drained
  <2> QED BY <1>2, <2>1, <2>2, <2>3 DEF Inv, LoopInvariant, ShutDown, Orderly, ShutdownWait
<1>7. OneOwner'
  <2>1. \A u \in Client \cup {Ticker} : Holds(u)' => Holds(u) BY <1>1 DEF Holds
  <2> QED BY <1>2, <2>1 DEF Inv, LoopInvariant, OneOwner
<1>8. Counted' BY <1>0, <1>1, <1>2 DEF Inv, LoopInvariant, Counted
<1>9. TypeOK' BY <1>1, <1>2 DEF Inv, TypeOK
<1> QED BY <1>3, <1>5, <1>6, <1>7, <1>8, <1>9 DEF Inv, LoopInvariant

LEMMA StopKeeps ==
  ASSUME Inv, NEW c \in Client, Stop(c)
  PROVE  Inv'
<1>0. /\ thread[c] = "idle" /\ ~Holds(c) /\ ~Starting(c) /\ c # Ticker
      /\ calls[c] < Len(Program[c]) /\ Current(c) = "stop"
  BY CallsCurrent DEF Stop, Inv
<1>1. stopped' = TRUE /\ UNCHANGED <<running, started, cancelled, count, bodies, finishing, panicked>>
  BY DEF Stop
<1>2. CASE ~stopped /\ started
  <2>1. Goto(c, "cancel") BY <1>2 DEF Stop
  <2>2. Moves(c, "cancel") BY <2>1, GotoMoves DEF Inv, Label
  <2>3. CallsFit' BY <1>0, <1>1, <2>2, CallsFitAfter
  <2>4. TickerOnce'
    BY <1>1, <2>2, TickerOnceAfter DEF Starting, Moves
  <2>5. \A d \in Client : thread'[d] = "woken" => thread[d] = "woken"
    BY <2>2 DEF Moves, Alone
  <2>6. ShutDown' BY <1>1, <2>2, <2>5, ShutDownAfter DEF Moves
  <2>7. OneOwner' BY <1>1, <2>2, OneOwnerAfter DEF Moves, Holds
  <2>8. thread'[Ticker] = thread[Ticker] BY <1>0, <2>2 DEF Moves, Alone
  <2>9. Counted' BY <1>1, <2>8 DEF Inv, LoopInvariant, Counted
  <2>10. TypeOK' BY <1>1, <2>2 DEF Inv, TypeOK, Moves, Alone
  <2> QED BY <2>3, <2>4, <2>6, <2>7, <2>9, <2>10 DEF Inv, LoopInvariant
<1>3. CASE ~(~stopped /\ started)
  <2>1. Finish(c) BY <1>3 DEF Stop
  <2>2. /\ CallsFit' /\ TickerOnce' /\ ShutDown' /\ OneOwner' /\ Counted'
        /\ calls' \in [Client -> Nat] /\ thread' \in [Client \cup {Ticker} -> Label]
    BY <1>0, <1>1, <2>1, FinishKeeps
  <2>3. TypeOK' BY <1>1, <2>2 DEF Inv, TypeOK
  <2> QED BY <2>2, <2>3 DEF Inv, LoopInvariant
<1> QED BY <1>2, <1>3

LEMMA CancelKeeps ==
  ASSUME Inv, NEW c \in Client, Cancel(c)
  PROVE  Inv'
<1>0. thread[c] = "cancel" /\ ~Holds(c) /\ calls[c] < Len(Program[c]) /\ Current(c) = "stop" /\ stopped
  BY DEF Cancel, Holds, Inv, LoopInvariant, CallsFit
<1>1. /\ Finish(c) /\ cancelled' = TRUE
      /\ UNCHANGED <<running, started, stopped, count, bodies, finishing, panicked>>
  BY DEF Cancel
<1>2. /\ CallsFit' /\ TickerOnce' /\ ShutDown' /\ OneOwner' /\ Counted'
      /\ calls' \in [Client -> Nat] /\ thread' \in [Client \cup {Ticker} -> Label]
  BY <1>0, <1>1, FinishKeeps
<1>3. TypeOK' BY <1>1, <1>2 DEF Inv, TypeOK
<1> QED BY <1>2, <1>3 DEF Inv, LoopInvariant

LEMMA WaitKeeps ==
  ASSUME Inv, NEW c \in Client, Wait(c)
  PROVE  Inv'
<1>0. /\ thread[c] = "idle" /\ ~Holds(c) /\ ~Starting(c) /\ c # Ticker
      /\ calls[c] < Len(Program[c]) /\ Current(c) = "wait"
  BY CallsCurrent DEF Wait, Inv
<1>1. UNCHANGED <<running, started, stopped, cancelled, count, bodies, finishing, panicked>>
  BY DEF Wait, gate
<1>2. CASE count = 0
  <2>1. Finish(c) BY <1>2 DEF Wait
  <2>2. /\ CallsFit' /\ TickerOnce' /\ ShutDown' /\ OneOwner' /\ Counted'
        /\ calls' \in [Client -> Nat] /\ thread' \in [Client \cup {Ticker} -> Label]
    BY <1>0, <1>1, <1>2, <2>1, FinishKeeps
  <2>3. TypeOK' BY <1>1, <2>2 DEF Inv, TypeOK
  <2> QED BY <2>2, <2>3 DEF Inv, LoopInvariant
<1>3. CASE count # 0
  <2>1. Goto(c, "waiting") BY <1>3 DEF Wait
  <2>2. Moves(c, "waiting") BY <2>1, GotoMoves DEF Inv, Label
  <2>3. CallsFit' BY <1>0, <1>1, <2>2, CallsFitAfter
  <2>4. TickerOnce' BY <1>1, <2>2, TickerOnceAfter DEF Starting, Moves
  <2>5. \A d \in Client : thread'[d] = "woken" => thread[d] = "woken"
    BY <2>2 DEF Moves, Alone
  <2>6. ShutDown' BY <1>1, <2>2, <2>5, ShutDownAfter DEF Moves
  <2>7. OneOwner' BY <1>1, <2>2, OneOwnerAfter DEF Moves, Holds
  <2>8. thread'[Ticker] = thread[Ticker] BY <1>0, <2>2 DEF Moves, Alone
  <2>9. Counted' BY <1>1, <2>8 DEF Inv, LoopInvariant, Counted
  <2>10. TypeOK' BY <1>1, <2>2 DEF Inv, TypeOK, Moves, Alone
  <2> QED BY <2>3, <2>4, <2>6, <2>7, <2>9, <2>10 DEF Inv, LoopInvariant
<1> QED BY <1>2, <1>3

LEMMA WaitReturnKeeps ==
  ASSUME Inv, NEW c \in Client, WaitReturn(c)
  PROVE  Inv'
<1>0. thread[c] = "woken" /\ ~Holds(c) /\ calls[c] < Len(Program[c]) /\ Current(c) = "wait"
  BY DEF WaitReturn, Holds, Inv, LoopInvariant, CallsFit
<1>1. UNCHANGED <<running, started, stopped, cancelled, count, bodies, finishing>>
  BY DEF WaitReturn, gate
<1>2. CASE count = 0
  <2>1. Finish(c) /\ UNCHANGED panicked BY <1>2 DEF WaitReturn
  <2>2. /\ CallsFit' /\ TickerOnce' /\ ShutDown' /\ OneOwner' /\ Counted'
        /\ calls' \in [Client -> Nat] /\ thread' \in [Client \cup {Ticker} -> Label]
    BY <1>0, <1>1, <1>2, <2>1, FinishKeeps
  <2>3. TypeOK' BY <1>1, <2>1, <2>2 DEF Inv, TypeOK
  <2> QED BY <2>2, <2>3 DEF Inv, LoopInvariant
<1>3. CASE count # 0
  <2>1. panicked' = TRUE /\ UNCHANGED <<thread, calls>> BY <1>3 DEF WaitReturn
  <2>2. CallsFit' /\ TickerOnce' /\ ShutDown' BY <1>1, <2>1, NobodyMoves
  <2>3. OneOwner' BY <1>1, <2>1 DEF Inv, LoopInvariant, OneOwner, Holds
  <2>4. Counted' BY <1>1, <2>1 DEF Inv, LoopInvariant, Counted
  <2>5. TypeOK' BY <1>1, <2>1 DEF Inv, TypeOK
  <2> QED BY <2>2, <2>3, <2>4, <2>5 DEF Inv, LoopInvariant
<1> QED BY <1>2, <1>3

LEMMA ReleaseKeeps ==
  ASSUME Inv, Release
  PROVE  Inv'
<1>1. UNCHANGED <<running, started, stopped, cancelled, count, calls, bodies, finishing, panicked>>
  BY DEF Release, gate
<1>2. /\ thread' \in [Client \cup {Ticker} -> Label]
      /\ \A u \in Client \cup {Ticker} :
           \/ u \in Client /\ thread[u] = "waiting" /\ thread'[u] = "woken"
           \/ thread'[u] = thread[u]
  BY DEF Release, Waiting, Inv, TypeOK, Label
<1>3. \A u \in Client \cup {Ticker} : Holds(u)' <=> Holds(u) BY <1>2 DEF Holds
<1>4. \A c \in Client : Current(c)' = Current(c) BY <1>1 DEF Current
<1>5. \A c \in Client : Starting(c)' <=> Starting(c) BY <1>2, <1>4 DEF Starting
<1>6. thread'[Ticker] = thread[Ticker] BY <1>2, LoopperAssumption
<1>7. CallsFit' BY <1>1, <1>2, <1>3, <1>4 DEF Inv, LoopInvariant, CallsFit
<1>8. TickerOnce' BY <1>1, <1>5, <1>6 DEF Inv, LoopInvariant, TickerOnce
<1>9. ShutDown'
  <2>1. count' = 0 BY DEF Release
  <2> QED BY <1>1, <2>1 DEF Inv, LoopInvariant, ShutDown
<1>10. OneOwner' BY <1>1, <1>3 DEF Inv, LoopInvariant, OneOwner
<1>11. Counted' BY <1>1, <1>6 DEF Inv, LoopInvariant, Counted
<1>12. TypeOK' BY <1>1, <1>2 DEF Inv, TypeOK
<1> QED BY <1>7, <1>8, <1>9, <1>10, <1>11, <1>12 DEF Inv, LoopInvariant

-----------------------------------------------------------------------------
(* The theorems.                                                           *)

LEMMA InitHolds == Init => Inv
<1> SUFFICES ASSUME Init PROVE Inv
  OBVIOUS
<1>1. TypeOK BY DEF Init, TypeOK, Label
<1>2. \A t \in Client \cup {Ticker} : ~Holds(t) BY DEF Init, Holds
<1>3. OneOwner BY <1>2 DEF Init, OneOwner
<1>4. \A c \in Client : thread[c] = "idle" /\ calls[c] = 0
  BY LoopperAssumption DEF Init
<1>5. thread[Ticker] = "off" BY DEF Init
<1>6. CallsFit
  <2>1. ASSUME NEW c \in Client PROVE calls[c] <= Len(Program[c])
    <3>1. Program[c] \in Seq(Operation) BY LoopperAssumption
    <3>2. Len(Program[c]) \in Nat BY <3>1
    <3>3. calls[c] = 0 BY <1>4
    <3> QED BY <3>2, <3>3
  <2> QED BY <1>2, <1>4, <2>1 DEF CallsFit
<1>7. TickerOnce BY <1>4, <1>5 DEF TickerOnce, Starting
<1>8. Counted BY DEF Init, Counted
<1>9. ShutDown
  <2>1. \A c \in Client : \A j \in DOMAIN Program[c] : ~(j <= calls[c])
    BY <1>4, LoopperAssumption
  <2> QED BY <1>4, <2>1 DEF Init, ShutDown, Drained
<1> QED BY <1>1, <1>3, <1>6, <1>7, <1>8, <1>9 DEF Inv, LoopInvariant

LEMMA StepHolds == Inv /\ [Next]_vars => Inv'
<1> SUFFICES ASSUME Inv, [Next]_vars PROVE Inv'
  OBVIOUS
<1>1. CASE UNCHANGED vars
  <2>1. CallsFit' /\ TickerOnce' /\ ShutDown' BY <1>1, NobodyMoves DEF vars
  <2>2. OneOwner' BY <1>1 DEF vars, Inv, LoopInvariant, OneOwner, Holds
  <2>3. Counted' BY <1>1 DEF vars, Inv, LoopInvariant, Counted
  <2>4. TypeOK' BY <1>1 DEF vars, Inv, TypeOK
  <2> QED BY <2>1, <2>2, <2>3, <2>4 DEF Inv, LoopInvariant
<1>2. ASSUME NEW c \in Client, ClientStep(c) PROVE Inv'
  BY <1>2, CompareAndSwapKeeps, LaunchKeeps, UndoKeeps, StartKeeps, SpawnKeeps, StopKeeps,
     CancelKeeps, WaitKeeps, WaitReturnKeeps DEF ClientStep
<1>3. CASE Tick \/ TickerStep
  BY <1>3, CompareAndSwapKeeps, LaunchKeeps, UndoKeeps DEF Tick, TickerStep
<1> QED BY <1>1, <1>2, <1>3, TickerExitKeeps, RunEndsKeeps, RunDoneKeeps, ReleaseKeeps,
           ParentCancelKeeps DEF Next, Terminated

\* Every variable has its type, and the counter of the WaitGroup never falls below zero.
THEOREM LoopTypeCorrect == Spec => []TypeOK
<1>1. Inv => TypeOK BY DEF Inv
<1> QED BY <1>1, InitHolds, StepHolds, PTL DEF Spec

\* The flag, the ticker, the counter and the calls stay in step (loop.go, tryRun and Start).
THEOREM LoopInvariantHolds == Spec => []LoopInvariant
<1>1. Inv => LoopInvariant BY DEF Inv
<1> QED BY <1>1, InitHolds, StepHolds, PTL DEF Spec

\* Two runs never overlap, whoever starts them (loop.go, tryRun).
THEOREM NoOverlapHolds == Spec => []NoOverlap
<1>1. Inv => NoOverlap BY DEF Inv, LoopInvariant, OneOwner, NoOverlap
<1> QED BY <1>1, InitHolds, StepHolds, PTL DEF Spec

\* Once a Wait after a Stop has returned nothing runs any more (loop.go, Stop and Wait).
THEOREM QuietAfterWaitHolds == Spec => []QuietAfterWait
<1>1. ASSUME Inv, Drained
      PROVE  bodies = 0 /\ finishing = 0 /\ thread[Ticker] \in {"off", "gone"}
  <2>1. count = 0 BY <1>1 DEF Inv, LoopInvariant, ShutDown
  <2>2. bodies = 0 /\ finishing = 0 /\ ~(started /\ thread[Ticker] # "gone")
    BY <1>1, <2>1 DEF Inv, TypeOK, LoopInvariant, Counted
  <2> QED BY <1>1, <2>2 DEF Inv, LoopInvariant, TickerOnce
<1>2. Inv => QuietAfterWait BY <1>1 DEF QuietAfterWait
<1> QED BY <1>2, InitHolds, StepHolds, PTL DEF Spec

\* If everyone who waits has stopped the loop before, the WaitGroup never panics
\* (loop.go, tryRun, and the comment on the field mu).
THEOREM NoMisuseHolds == Orderly => (Spec => []NoMisuse)
<1> SUFFICES ASSUME Orderly PROVE Spec => []NoMisuse
  OBVIOUS
<1>1. Init => NoMisuse BY DEF Init, NoMisuse
<1>2. ASSUME Inv, NoMisuse, [Next]_vars PROVE NoMisuse'
  <2>1. \A c \in Client : thread[c] \in {"waiting", "woken"} => stopped
    BY <1>2, WaitedForStopped
  <2>2. \A c \in Client : thread[c] = "woken" => count = 0
    BY <1>2 DEF Inv, LoopInvariant, ShutDown
  <2>3. ASSUME NEW t \in Client \cup {Ticker}, Launch(t) PROVE NoMisuse'
    BY <1>2, <2>1, <2>3 DEF Launch, Add, Waiting, NoMisuse
  <2>4. ASSUME NEW c \in Client, Start(c) PROVE NoMisuse'
    BY <1>2, <2>1, <2>4 DEF Start, Add, Waiting, NoMisuse
  <2>5. ASSUME NEW c \in Client, WaitReturn(c) PROVE NoMisuse'
    BY <1>2, <2>2, <2>5 DEF WaitReturn, NoMisuse
  <2>6. ASSUME NEW t \in Client \cup {Ticker}, CompareAndSwap(t) \/ Undo(t) PROVE NoMisuse'
    BY <1>2, <2>6 DEF CompareAndSwap, Undo, NoMisuse
  <2>7. ASSUME NEW c \in Client, Spawn(c) \/ Stop(c) \/ Cancel(c) \/ Wait(c) PROVE NoMisuse'
    BY <1>2, <2>7 DEF Spawn, Stop, Cancel, Wait, NoMisuse
  <2>8. CASE TickerExit \/ RunEnds \/ RunDone \/ Release \/ ParentCancel \/ UNCHANGED vars
    BY <1>2, <2>8 DEF TickerExit, RunEnds, RunDone, Release, ParentCancel, Done, vars, NoMisuse
  <2> QED BY <1>2, <2>3, <2>4, <2>5, <2>6, <2>7, <2>8
          DEF Next, ClientStep, Tick, TickerStep, Terminated
<1> QED BY <1>1, <1>2, InitHolds, StepHolds, PTL DEF Spec
=============================================================================
