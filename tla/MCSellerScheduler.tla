------------------------- MODULE MCSellerScheduler -------------------------
(***************************************************************************)
(* Instances of SellerScheduler: two monitors that share the free pool,    *)
(* one with a strict seller filter whose lookups are retried, the other    *)
(* with a background retry and a refresh of the seller cache.              *)
(***************************************************************************)
EXTENDS SellerScheduler

CONSTANTS a, b, s, r, f, w1

\* Item a of monitor 1, item b of monitor 2, the strict retries s of b, the
\* refresh r and the background retry f of monitor 1.
Lanes == {"free:1", "free:2", "strict-retry:free:2", "background:free:1"}
Classed == [l \in Lanes |-> IF l = "strict-retry:free:2" THEN "strict"
                            ELSE IF l = "background:free:1" THEN "background"
                            ELSE "foreground"]
InLane == [j \in Job |-> CASE j = a -> "free:1"
                           [] j = b -> "free:2"
                           [] j = s -> "strict-retry:free:2"
                           [] j \in {r, f} -> "background:free:1"]
Retries == [j \in Job |-> (IF j = a THEN {f} ELSE IF j \in {b, s} THEN {s}
                           ELSE {}) \cap Job]
=============================================================================
