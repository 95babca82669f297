----------------------------- MODULE MCPollLoop -----------------------------
(* Intervals below, at and above the backoff cap of 12, powers of two of   *)
(* it and not; polls shorter and longer than the delays.                   *)
EXTENDS PollLoop

MCIntervals == {1, 2, 3, 5, 7, 12, 20}
MCDurations == {0, 4, 30}
MCLateness == {0, 1}
===============================================================================
