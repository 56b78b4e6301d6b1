---------------------------- MODULE MCThrottle ----------------------------
(* Values of the constants of DjangoCacheThrottle for TLC.                 *)
EXTENDS DjangoCacheThrottle

CONSTANTS w1, w2, e1, e2, ann, staff, op1, op2

(* RemoteAddr gives every client of one address the same key; UserPk gives *)
(* none to a member of the staff.                                          *)
MCCacheKey == <<[c \in Client |-> "address"],
                [c \in Client |-> IF c = staff THEN None ELSE "user"]>>

MCRule == <<[algorithm |-> SimpleRate, max |-> 2, duration |-> 2],
            [algorithm |-> LeakyBucket, max |-> 3, duration |-> 2]>>

OneKey == <<[c \in Client |-> "address"]>>
OneRule == <<[algorithm |-> SimpleRate, max |-> 2, duration |-> 2]>>

DistinctIds == [e \in Endpoint |-> IF e = e1 THEN op1 ELSE op2]
DefaultIds == [e \in Endpoint |-> None]
AllGet == [e \in Endpoint |-> "GET"]
=============================================================================
