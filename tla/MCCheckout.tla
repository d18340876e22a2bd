----------------------------- MODULE MCCheckout -----------------------------
(* Small instances of Checkout for TLC.                                      *)
EXTENDS Checkout, TLC

CONSTANTS b1, b2, p1, p2

(* p1 is open in the first browser, every other page in the second.          *)
MCHost == [p \in Page |-> IF p = p1 THEN b1 ELSE b2]

(* The two browsers, each with its page, are interchangeable.                *)
MCSymmetry == {(b1 :> b2) @@ (b2 :> b1) @@ (p1 :> p2) @@ (p2 :> p1)}
=============================================================================
