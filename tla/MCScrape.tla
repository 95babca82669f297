------------------------------ MODULE MCScrape ------------------------------
(* A host of two virtualservers for Scrape: one that stops and starts, a   *)
(* name that may be shared, fields that come and go.                       *)
EXTENDS Scrape

CONSTANTS v1, v2, a, b, A, B

MCIds == {v1, v2}
MCNames == {a, b}
MCLabels == {A, B}
MCLabelValue == [n \in MCNames |-> IF n = a THEN A ELSE B]
MCUnnamed == [v \in MCIds |-> IF v = v1 THEN A ELSE B]
MCValues == {0, 5, 7}
MCStatuses == {"online", "offline"}

Listed(v, s, n) == [id |-> v, status |-> s, name |-> n]
MCListings == {
  <<Listed(v1, "online", a)>>,
  <<Listed(v1, "online", a), Listed(v2, "online", b)>>,
  <<Listed(v1, "offline", a), Listed(v2, "online", b)>> }

Info(n, x, y) == [name |-> n, values |-> [f \in 1..2 |-> IF f = 1 THEN x ELSE y]]
MCInfos == { Info(a, 7, 5), Info(b, 5, 7), Info(b, 7, None) }
MCTimes == {1}
===============================================================================
