--------------------------------- MODULE MCRetry ---------------------------------
(***************************************************************************)
(* The retry loops for TLC, with durations of six bits.                    *)
(***************************************************************************)
EXTENDS RetryProperties

\* No delay, a negative one, the powers of two, and odd ones whose shifts wrap.
Delays == {-3, 0, 1, 3, 9, 17, 31}

\* No cap, one below and one above the middle.
Caps == {0, 5, 20}

\* Without limit (in the workflow), refused or replaced, one, and more attempts
\* than there are bits.
Limits == {-1, 0, 1, 2, 9}
=============================================================================
