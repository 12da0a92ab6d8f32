--------------------------- MODULE MCRateLimiter ---------------------------
(* Limits for TLC: a bucket that fills before it may be swept, as for login, *)
(* one that does not, as for signup, and one request per window.             *)
EXTENDS RateLimiter

MCLimits == {[Burst |-> 2, Per |-> 2], [Burst |-> 2, Per |-> 6], [Burst |-> 1, Per |-> 2]}
=============================================================================
