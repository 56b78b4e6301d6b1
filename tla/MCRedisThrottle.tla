-------------------------- MODULE MCRedisThrottle --------------------------
(* Values of the constants of RedisThrottle for TLC.                       *)
EXTENDS RedisThrottle

CONSTANTS w1, w2

MCRules == {[algorithm |-> SimpleRate, max |-> 2, duration |-> 3],
            [algorithm |-> LeakyBucket, max |-> 2, duration |-> 3]}

(* The second worker runs on a host that is two thirds of a second ahead.  *)
MCSkew == [w \in Worker |-> IF w = w1 THEN 0 ELSE 2]
=============================================================================
