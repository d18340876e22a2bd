--------------------------- MODULE MCAlertOutbox ---------------------------
(***************************************************************************)
(* Small instances of AlertOutbox.  A lease of one tick runs out before an *)
(* alert of two does, so an alert can be claimed again.                    *)
(***************************************************************************)
EXTENDS AlertOutbox, TLC

CONSTANTS w1, w2

\* A price drop and a later alert of the same item to one Discord webhook.
Webhook         == {1, 2}
WebhookSelf     == [d \in Webhook |-> d]
WebhookTarget   == [d \in Webhook |-> "webhook"]
WebhookChannel  == [d \in Webhook |-> "discord"]
WebhookItem     == [n \in Webhook |-> "item"]
WebhookLifetime == <<2, 2>>

\* Two monitors of one member find the same item; the first also alerts on
\* Telegram.
SameItem         == {1, 2}
SameItemDelivery == {<<1, "discord">>, <<1, "telegram">>, <<2, "discord">>}
SameItemOf       == [d \in SameItemDelivery |-> d[1]]
SameItemTarget   == [d \in SameItemDelivery |-> d[2]]
SameItemItem     == [n \in SameItem |-> "item"]
SameItemLifetime == <<1, 2>>

Workers == {w1, w2}
Symmetry == Permutations(Workers)
=============================================================================
