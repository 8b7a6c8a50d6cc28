--------------------------- MODULE MCRateLimiter ---------------------------
(* RateLimiter for TLC: interchangeable keys and requests, and a view that *)
(* counts the shard's time back from now: only differences of it matter.   *)
EXTENDS RateLimiter, TLC

Symmetry == Permutations(Keys) \cup Permutations(Checkers)

Ago(k) == [i \in DOMAIN let[k] |-> [let[k][i] EXCEPT !.passed = passed - @]]

View == <<now, check, held, bucket, swept, read, [k \in Keys |-> Ago(k)]>>
=============================================================================
