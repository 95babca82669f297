--------------------------- MODULE MCPollService ---------------------------
(* A small host for PollService: two virtualservers, two label values onto *)
(* which three names fall, two contract fields.                            *)
EXTENDS PollService

CONSTANTS v1, v2, a, aCut, b, A, B

MCIds == {v1, v2}
MCNames == {a, aCut, b}
MCLabels == {A, B}
\* aCut is redacted or cut to the same label as a.
MCLabelValue == [n \in MCNames |-> IF n = b THEN B ELSE A]
MCUnnamed == [v \in MCIds |-> IF v = v1 THEN A ELSE B]
MCValues == {0, 7}
MCStatuses == {"online", "offline", "booting"}

Listed(v, s, n) == [id |-> v, status |-> s, name |-> n]
MCListings == {
  <<>>,
  <<Listed(v1, "online", a)>>,
  <<Listed(v1, "online", a), Listed(v2, "online", b)>>,
  <<Listed(v1, "online", None), Listed(v2, "offline", b)>>,
  <<Listed(v1, "booting", a), Listed(v2, "online", aCut)>> }

Info(n, x, y) == [name |-> n, values |-> [f \in 1..2 |-> IF f = 1 THEN x ELSE y]]
MCInfos == { Info(a, 7, 0), Info(aCut, None, 7), Info(b, 7, None), Info(None, 0, 7) }
MCTimes == {1, 2}
===============================================================================
