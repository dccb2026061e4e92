------------------------- MODULE MCIntegrationOutbox -------------------------
(* Instances of IntegrationOutbox for TLC. *)
EXTENDS IntegrationOutbox

CONSTANTS e1, e2, work, ci, im

OneHook == <<ci>>
TwoHooks == <<ci, im>>
OnlyWork == [e \in Events |-> work]
\* Everybody subscribes to everything.
AllKinds == [w \in Webhooks |-> Kinds]
\* Workers are started without a filter on event types.
AllTypes == [w \in Workers |-> Kinds]
\* An operator asks for one event, by its id or its type, or for everything.
OneOrAll == {{<<e, KindOf[e]>>} : e \in Events} \cup {Items}

\* How often an item has arrived decides nothing, only that something has is told apart.
WithoutCounts ==
  <<now, registry, pc, buf, round, request, published, accepted,
    reached = [r \in Webhooks \X Items |-> 0]>>
=============================================================================
