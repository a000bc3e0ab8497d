--------------------------- MODULE MCRateLimiter ---------------------------
(* RateLimiter for a client that heeds Retry-After and one that does not.  *)
EXTENDS RateLimiter
=============================================================================
