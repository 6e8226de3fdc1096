------------------------------ MODULE MCBroker ------------------------------
(***************************************************************************)
(* Instances of Broker for TLC.                                            *)
(***************************************************************************)
EXTENDS Broker

CONSTANTS p1

Q(name, cp, online) == [name |-> name, cp |-> cp, online |-> online]

\* The queries whose deltas are rows fetched from the gateway.
RowQueries == {Q("charge-points", NoCp, BOOLEAN), Q("charge-points", NoCp, {TRUE}),
               Q("charge-point", p1, BOOLEAN), Q("charge-point", NoCp, BOOLEAN)}

\* The queries whose deltas are made from the event alone, and one whose calls
\* wait for the gateway.
TailQueries == {Q("charge-point", p1, BOOLEAN), Q("meter-history", p1, BOOLEAN), Q("status-history", p1, BOOLEAN),
                  Q("device-events", p1, BOOLEAN), Q("device-events", NoCp, BOOLEAN),
                  Q("transactions-active", NoCp, BOOLEAN)}

\* One query of each kind, for two subscriptions on two connections.
FleetQueries == {Q("charge-points", NoCp, {TRUE}), Q("status-history", p1, BOOLEAN)}

DetailQuery == {Q("charge-point", p1, BOOLEAN)}

RowTopics    == {"cp.status", "cp.connected", "cp.disconnected", "cp.meter"}
FleetTopics  == {"cp.status", "cp.connected"}
TailTopics == {"cp.meter", "cp.status", "tx.started"}
=============================================================================
