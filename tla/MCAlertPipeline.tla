-------------------------- MODULE MCAlertPipeline --------------------------
(***************************************************************************)
(* An ordinary and a strict item of one seller, and one of another.        *)
(***************************************************************************)
EXTENDS AlertPipeline

CONSTANTS n1, s1, s2, ann, bob

Sellers == [i \in Item |-> IF i = s2 THEN bob ELSE ann]
Delays  == <<1>>
=============================================================================
