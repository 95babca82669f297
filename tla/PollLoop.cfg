\* Six polls: one more than the doublings from the shortest interval to the cap.
CONSTANTS
  Intervals <- MCIntervals
  MaxBackoff = 12
  Iterations = 6
  Durations <- MCDurations
  Lateness <- MCLateness
SPECIFICATION Spec
INVARIANTS
  StartToStart
