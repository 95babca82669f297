------------------------------ MODULE MCExporter ------------------------------
(* One virtualserver, two polls, up to two signals; PID 1 and not.          *)
EXTENDS Exporter, TLC

CONSTANTS v1, a, A

MCIds == {v1}
MCNames == {a}
MCLabels == {A}
MCLabelValue == (a :> A)
MCUnnamed == (v1 :> A)
MCValues == {0, 1}
MCStatuses == {"online", "offline"}
MCListings == {<<[id |-> v1, status |-> s, name |-> a]>> : s \in MCStatuses}
MCInfos == {[name |-> a, values |-> <<x>>] : x \in {1, None}}
MCTimes == {1}
===============================================================================
