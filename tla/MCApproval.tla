----------------------------- MODULE MCApproval -----------------------------
(* Instances of Approval for TLC. *)
EXTENDS Approval, TLC

CONSTANTS i1, i2, n1, app, ver, dev, prod, bot, boss, guest

Offer(id, e, es) == [id |-> id, service |-> app, version |-> ver,
                     environment |-> e, environments |-> es]

\* One task for prod, with an id of the gateway's.
Single == i1 :> Offer(n1, prod, <<prod>>)

\* Two tasks that are split and collide in both environments; the second one
\* gets generated ids only.
Split == [i \in Items |-> IF i = i1 THEN Offer(n1, prod, <<prod, dev>>)
                         ELSE Offer(NoId, dev, <<dev, prod>>)]

OneConfirmEnv == <<prod>>
OneBot == app :> bot
=============================================================================
