----------------------------- MODULE RetryProperties -----------------------------
(***************************************************************************)
(* What the retry loops promise, and the invariants that their proofs rest *)
(* on.                                                                     *)
(***************************************************************************)
EXTENDS Retry

\* The powers of two that a loop comes to are the doubles of each other: a law of
\* arithmetic, not a condition on the constants, which the provers do not know.
ASSUME PowerAssumption ==
  \A l \in Limit \cup {MaxCount} : \A n \in 0..l : 2^(n + 1) = 2 * 2^n

\* The types of the variables.  Delays need not be durations here.
TypeOK ==
  /\ conf \in {c \in Config : Possible(c)}
  /\ pc \in {"start", "check", "call", "wait", "done"}
  /\ attempts \in Nat
  /\ delay \in Int
  /\ wait \in Int
  /\ cancelled \in BOOLEAN
  /\ ended \in {"never", "start", "check", "call", "wait"}
  /\ late \in 0..MaxLate
  /\ result \in {"none", "invalid", "context", "nil", "exit", "exhausted"}

\* "delay * 2^(attempt-1)" (retry/doc.go), for the wait after the n-th attempt.
Exact(n) == InitialDelay(conf) * 2^(n - 1)

Capped(d) == IF conf.maxDelay > 0 THEN Smaller(d, conf.maxDelay) ELSE d

\* A wait lies between two attempts.  While the doubled delay is a duration, the
\* wait is that delay, or the cap of Do if that is smaller.  Beyond, the pipeline
\* waits as long as it can, and Do for some time that is not above the cap.
WaitsAsDocumented ==
  pc = "wait" /\ InitialDelay(conf) > 0 =>
    /\ Endless(conf) \/ attempts < Attempts(conf)
    /\ CASE conf.policy # "backoff" -> wait = InitialDelay(conf)
         [] conf.policy = "backoff" /\ Exact(attempts) <= Top -> wait = Capped(Exact(attempts))
         [] conf.policy = "backoff" /\ Exact(attempts) > Top ->
              /\ conf.loop = "runWithRetry" => wait = Top
              /\ conf.loop = "Do" => wait > 0 /\ wait = Capped(wait)

\* Once its context has ended, Do comes to the end of an attempt only if that was
\* under way, or past the look at the context, also when the timer of a wait wins
\* against the context; if none was, "Do then returns the context error"
\* (retry/doc.go), unless it has refused the configuration.  The other loops do not
\* look again after a wait, and promise no number.
CancelStops ==
  conf.loop = "Do" /\ cancelled =>
    /\ late <= IF ended = "call" THEN 1 ELSE 0
    /\ ended # "call" => result \in {"none", "context", "invalid"}

\* A loop with a limit returns; one without does when its context ends ("until
\* context cancellation", workflow/doc.go), also after its delay has overflowed.
LoopReturns == ~Endless(conf) \/ cancelled ~> pc = "done"

-----------------------------------------------------------------------------
(* The inductive invariants.                                               *)

\* A loop that goes on has attempts left; of an endless one they are counted up to
\* MaxCount; and who waits has made one.
Counted ==
  /\ pc = "start" => attempts = 0
  /\ pc \in {"check", "call", "wait"} => Endless(conf) \/ attempts < Attempts(conf)
  /\ Endless(conf) => attempts <= MaxCount
  /\ pc = "wait" => attempts >= 1

\* The loop keeps the delay d for the wait after the n-th attempt.
Keeps(d, n) ==
  CASE conf.policy # "backoff" \/ conf.loop = "Do" -> d = InitialDelay(conf)
    [] conf.policy = "backoff" /\ conf.loop = "runWithRetry" -> d = Smaller(Exact(n), Top)
    [] conf.policy = "backoff" /\ conf.loop = "workflow" ->
         Exact(n) \in 1..Top => d = Exact(n)

\* The delay is that of the wait that comes next, or of the wait under way.
Delayed ==
  /\ pc \in {"start", "check", "call"} => Keeps(delay, attempts + 1)
  /\ pc = "wait" => Keeps(delay, attempts) /\ wait = WaitAfter(attempts)

\* What Do has done since its context ended: it is in an attempt only if it was when
\* that happened, and has come to the end of no other.  Who has not returned has no
\* result.
Stopping ==
  /\ pc # "done" => result = "none"
  /\ ~cancelled => ended = "never" /\ late = 0
  /\ conf.loop = "Do" /\ cancelled =>
       /\ pc = "call" => ended = "call" /\ late = 0
       /\ late <= IF ended = "call" THEN 1 ELSE 0
       /\ ended # "call" => result \in {"none", "context", "invalid"}

RetryInvariant == Counted /\ Delayed /\ Stopping
=============================================================================
