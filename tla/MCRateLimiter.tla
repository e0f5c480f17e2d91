---------------------------- MODULE MCRateLimiter ----------------------------
(***************************************************************************)
(* Three goroutines on a limiter that earns a token in two ticks and holds *)
(* two.                                                                    *)
(***************************************************************************)
EXTENDS RateLimiter

CONSTANTS c1, c2, c3

MCCallers == {c1, c2, c3}
===============================================================================
