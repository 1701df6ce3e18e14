---------------------------- MODULE MCIngestKernel ----------------------------
EXTENDS IngestKernel

CONSTANTS n1, n2, o1, j1, j2, r1, r2

Event(name, kind, event, fields, transaction, sealsAt) ==
    [name |-> name, kind |-> kind, event |-> event, fields |-> fields,
     transaction |-> transaction, sealsAt |-> sealsAt]

Never == 99

Jump(event, sealsAt) == Event("jump", "generic", event, {"nick", "email"}, "", sealsAt)
Dash(event) == Event("dash", "generic", event, {}, "", Never)
Session(event, fields) == Event("session", "generic", event, fields, "", Never)
Revenue(event, transaction) ==
    Event("purchase", "purchase", event, RevenueShape \cup {"source=server", "eligible"}, transaction, Never)
Companion(event, fields) == Event("purchase", "purchase", event, fields, "", Never)

\* Two names for a cap of one, one with a day that seals under way; an event
\* and its second delivery; a session that declares itself generic beside a
\* malformed economy event; a purchase and its retry under another event id; a
\* companion beside a nameless event; an unknown kind beside an economy event.
MCDeliveries == {
    r1 :> Jump("e1", 1) @@ r2 :> Dash("e2"),
    r1 :> Jump("e1", Never) @@ r2 :> Jump("e1", Never),
    r1 :> Session("e1", SessionShape) @@
        r2 :> Event("economy", "generic", "e2", {"flow_type", "reason"}, "", Never),
    r1 :> Revenue("e1", "t1") @@ r2 :> Revenue("e2", "t1"),
    r1 :> Companion("e1", {"source=client", "purchase_attempt_id"}) @@
        r2 :> Event("", "generic", "e2", {"nick"}, "", Never),
    r1 :> Event("spin", "telemetry", "e1", {"nick"}, "", Never) @@
        r2 :> Event("economy", "economy", "e2", EconomyShape \cup {"nick"}, "", 1) }

\* Two batches of one worker, and an administrator served by another node.
MCNodeOf == o1 :> n2 @@ r1 :> n1 @@ r2 :> n1
MCJobOf  == r1 :> j1 @@ r2 :> j2

MCRow == "event_name_cap_per_game" :> Num(1)

\* Two changes, and two requests that are refused.
MCRequests == {<<"pii_prop_denylist", List(<<"nick">>)>>, <<"event_name_cap_per_game", Num(2)>>,
               <<"event_name_cap_per_game", Num(0)>>, <<"reporting_offset", Num(60)>>}

\* Two store purchases with the numeric transaction ids a store gives them.
MCStoreDeliveries == {r1 :> Revenue("e1", "2000000123456781") @@ r2 :> Revenue("e2", "2000000123456782")}

\* A sandbox purchase.
MCSandboxDeliveries == {
    r1 :> Event("purchase", "purchase", "e1", RevenueShape \cup {"source=server"}, "t1", Never) @@
        r2 :> Dash("e2")}
MCDigitRuns == {"2000000123456781", "2000000123456782"}
===============================================================================
