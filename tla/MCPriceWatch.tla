---------------------------- MODULE MCPriceWatch ----------------------------
(***************************************************************************)
(* Instances of PriceWatch.  In the first, two members watch one item, one *)
(* of them also through a proxy group, and a worker polls it.  In the      *)
(* second nobody polls: three bookings compete for slots and for the       *)
(* shared budget.                                                          *)
(***************************************************************************)
EXTENDS PriceWatch

CONSTANTS ann, bob, i1, i2, j1

OneItem  == {<<ann, i1>>, <<bob, i1>>}
TwoItems == {<<ann, i1>>, <<ann, i2>>, <<bob, i1>>}
=============================================================================
