----------------------------- MODULE MCRateLimit -----------------------------
(* A small instance of RateLimit for TLC: two routes of one bucket. *)
EXTENDS RateLimit, TLC
CONSTANTS t1, t2, t3, post, get, bucket

MCRouteOf == [t \in Tasks |-> IF t = t3 THEN get ELSE post]
MCBucketOf == [r \in Routes |-> bucket]
=============================================================================
