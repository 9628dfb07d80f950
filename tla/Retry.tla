---------------------------------- MODULE Retry ----------------------------------
(***************************************************************************)
(* The retry loops: Retry.Do (retry/retry.go) with its three policies,     *)
(* runWithRetry of the pipeline (pipeline/executor.go), RunWithLinear and  *)
(* RunWithBackoff of the workflow (workflow/step_retry_policies.go).  They *)
(* are written apart, but each calls a function until it succeeds, and     *)
(* waits between two attempts for a delay that may double.                 *)
(*                                                                         *)
(* A delay is a time.Duration: a signed integer of Width bits, 64 in the   *)
(* code.  One call of one loop is modelled, with any configuration.        *)
(*                                                                         *)
(* Left out: loggers, and the hooks OnFailed and OnSuccess.                *)
(***************************************************************************)
EXTENDS Integers

CONSTANTS
  Width,      \* bits of a duration
  Second,     \* the default delay
  Delay,      \* delays a caller may configure
  MaxDelay,   \* caps a caller may configure; 0 is no cap
  Limit       \* limits of attempts a caller may configure

ASSUME RetryAssumption ==
  /\ Width \in Nat /\ Width > 2
  /\ Delay \cup MaxDelay \cup {Second} \subseteq -(2^(Width - 1))..(2^(Width - 1) - 1)
  /\ Second > 0
  /\ Limit \subseteq Int

VARIABLES
  conf,       \* the loop and its configuration
  pc,         \* where the call is
  attempts,   \* calls of the function that have failed
  delay,      \* what the loop keeps as its delay (pipeline and workflow)
  wait,       \* the wait that the loop is in
  cancelled,  \* the context has ended
  ended,      \* history: where the call was when it did
  late,       \* history: attempts that came to an end since then, up to MaxLate
  result      \* what the call returned

vars == <<conf, pc, attempts, delay, wait, cancelled, ended, late, result>>

-----------------------------------------------------------------------------
(* Durations.                                                              *)

Top == 2^(Width - 1) - 1

\* What the machine makes of the integer n.
Wrap(n) == LET r == n % 2^Width IN IF r > Top THEN r - 2^Width ELSE r

Smaller(a, b) == IF a < b THEN a ELSE b

\* Mutation of BackoffDelay: shifted by one more.
BackoffDelayLate(c, attempt) ==
  LET d == Wrap(c.delay * 2^Smaller(attempt, Width - 2))
  IN IF d <= 0 THEN IF c.maxDelay > 0 THEN c.maxDelay ELSE c.delay
     ELSE IF c.maxDelay > 0 /\ d > c.maxDelay THEN c.maxDelay ELSE d

\* backoffDelay of retry: the shift is bounded, a result that is not positive
\* counts as overflow.
BackoffDelay(c, attempt) ==
  LET d == Wrap(c.delay * 2^Smaller(attempt - 1, Width - 2))
  IN IF d <= 0 THEN IF c.maxDelay > 0 THEN c.maxDelay ELSE c.delay
     ELSE IF c.maxDelay > 0 /\ d > c.maxDelay THEN c.maxDelay ELSE d

\* nextBackoffDelay of the pipeline.
NextBackoffDelay(d) ==
  IF d > Top \div 2 THEN Top ELSE IF Wrap(2 * d) < 0 THEN 0 ELSE Wrap(2 * d)

-----------------------------------------------------------------------------
(* The configurations.                                                     *)

Config ==
  [loop : {"Do", "runWithRetry", "workflow"},
   policy : {"linear", "backoff", "infinite"},
   delay : Delay, maxDelay : MaxDelay, limit : Limit, context : BOOLEAN]

\* Only Do has a policy without end of its own, a cap, and may have no context;
\* validate refuses a negative delay of a pipeline's step.
Possible(c) ==
  /\ c.loop # "Do" => c.policy # "infinite" /\ c.maxDelay = 0 /\ c.context
  /\ c.loop = "runWithRetry" => c.delay >= 0

\* The first delay, after defaults.
InitialDelay(c) ==
  IF \/ c.loop = "runWithRetry" /\ c.delay <= 0
     \/ c.loop = "workflow" /\ (c.delay = 0 \/ (c.policy = "backoff" /\ c.delay < 0))
    THEN Second ELSE c.delay

\* The number of attempts, after defaults.
Attempts(c) ==
  IF \/ c.loop = "runWithRetry" /\ c.limit <= 0
     \/ c.loop = "workflow" /\ c.limit = 0
    THEN 1 ELSE c.limit

\* The loop has no limit.
Endless(c) == c.policy = "infinite" \/ (c.loop = "workflow" /\ c.limit < 0)

\* Do refuses the configuration.
Invalid(c) ==
  /\ c.loop = "Do"
  /\ IF c.policy = "infinite" THEN ~c.context ELSE c.limit < 1

\* Of the failures of an endless loop no more are counted: its delay is constant
\* by then.
MaxCount == Width + 2

\* Bound of late: no more are told apart.
MaxLate == 2

Count(n) == IF Endless(conf) THEN Smaller(n + 1, MaxCount) ELSE n + 1

-----------------------------------------------------------------------------
Init ==
  /\ conf \in {c \in Config : Possible(c)}
  /\ pc = "start"
  /\ attempts = 0
  /\ delay = InitialDelay(conf)
  /\ wait = 0
  /\ cancelled = FALSE
  /\ ended = "never"
  /\ late = 0
  /\ result = "none"

Return(r) == pc' = "done" /\ result' = r

\* The checks of Do; the other loops have none.
Start ==
  /\ pc = "start"
  /\ IF Invalid(conf) THEN Return("invalid")
                      ELSE pc' = "check" /\ UNCHANGED result
  /\ UNCHANGED <<conf, attempts, delay, wait, cancelled, ended, late>>

\* Mutation of CheckContext: Do does not look either.
CheckNothing ==
  /\ pc = "check"
  /\ pc' = "call"
  /\ UNCHANGED <<conf, attempts, delay, wait, cancelled, ended, late, result>>

\* ctxErr, before every attempt of Do; the other loops do not look.
CheckContext ==
  /\ pc = "check"
  /\ IF conf.loop = "Do" /\ cancelled THEN Return("context")
                                      ELSE pc' = "call" /\ UNCHANGED result
  /\ UNCHANGED <<conf, attempts, delay, wait, cancelled, ended, late>>

\* History: an attempt comes to an end.
AttemptEnds == late' = IF cancelled THEN Smaller(late + 1, MaxLate) ELSE late

\* The function returns nil, or an error that ends the loop at once: ErrExit, a
\* deferred continuation, a control-flow error.
CallEnds ==
  /\ pc = "call"
  /\ \E r \in {"nil", "exit"} : Return(r)
  /\ AttemptEnds
  /\ UNCHANGED <<conf, attempts, delay, wait, cancelled, ended>>

\* Whether another attempt follows the n-th.
More(n) == Endless(conf) \/ n < Attempts(conf)

\* The wait after the n-th attempt, and the delay that the loop keeps.
WaitAfter(n) ==
  IF conf.loop = "Do" /\ conf.policy = "backoff" THEN BackoffDelay(conf, n) ELSE delay

NextDelay ==
  CASE conf.policy # "backoff" \/ conf.loop = "Do" -> delay
    [] conf.policy = "backoff" /\ conf.loop = "runWithRetry" -> NextBackoffDelay(delay)
    [] conf.policy = "backoff" /\ conf.loop = "workflow" -> Wrap(2 * delay)

\* The function returns another error.
CallFails ==
  LET n == attempts + 1 IN
  /\ pc = "call"
  /\ attempts' = Count(attempts)
  /\ AttemptEnds
  /\ IF More(n) THEN /\ pc' = "wait"
                     /\ wait' = WaitAfter(n)
                     /\ UNCHANGED result
                ELSE /\ Return("exhausted")
                     /\ UNCHANGED wait
  /\ UNCHANGED <<conf, delay, cancelled, ended>>

\* The timer fires.  The context may have ended too, even before the wait began:
\* nothing looks at it before the select, which takes any case that is ready when
\* the goroutine comes to run.
TimerFires ==
  /\ pc = "wait"
  /\ pc' = "check"
  /\ delay' = NextDelay
  /\ UNCHANGED <<conf, attempts, wait, cancelled, ended, late, result>>

\* Mutation of WaitCancelled: the error of the wait is dropped.
WaitCutShort ==
  /\ pc = "wait" /\ cancelled
  /\ pc' = "check"
  /\ UNCHANGED <<conf, attempts, delay, wait, cancelled, ended, late, result>>

WaitCancelled ==
  /\ pc = "wait" /\ cancelled
  /\ Return("context")
  /\ UNCHANGED <<conf, attempts, delay, wait, cancelled, ended, late>>

\* The context ends.  A call that is past the last look at it is still made.
Cancel ==
  /\ conf.context /\ ~cancelled /\ pc # "done"
  /\ cancelled' = TRUE
  /\ ended' = pc
  /\ UNCHANGED <<conf, pc, attempts, delay, wait, late, result>>

Done == pc = "done" /\ UNCHANGED vars

-----------------------------------------------------------------------------
LoopStep ==
  \/ Start \/ CheckContext \/ CallEnds \/ CallFails \/ TimerFires \/ WaitCancelled

Next == LoopStep \/ Cancel \/ Done

Spec == Init /\ [][Next]_vars

\* The loop is scheduled, the function returns, timers fire; and a select that finds
\* the context ended again and again takes that case in the long run.
Fairness == WF_vars(LoopStep) /\ SF_vars(WaitCancelled)

FairSpec == Spec /\ Fairness
=============================================================================
