---------------------------- MODULE MCRateLimiter ----------------------------
\* Instances of RateLimiter for TLC.
EXTENDS RateLimiter, TLC

Interchangeable == Permutations(Bucket) \cup Permutations(Client) \cup Permutations(Request)
=============================================================================
