------------------------------ MODULE Snapshot ------------------------------
(***************************************************************************)
(* What the exporter promises a reader of its labelled gauges: a table     *)
(* that is replaced as a whole.  Between switches it does not move and is  *)
(* the table of one completed session.  A switch is not atomic: its cells  *)
(* change one by one, through values that need not belong to either table, *)
(* but it ends, and only when the whole new table is there.                *)
(***************************************************************************)
CONSTANTS Columns, Labels, Cells, Empty

VARIABLES
  exported,   \* what a reader sees
  target,     \* the table of the last completed session
  switching   \* exported is on its way to target

vars == <<exported, target, switching>>

Tables == [Columns -> [Labels -> Cells]]

Init == exported = Empty /\ target = Empty /\ switching = FALSE

\* A session has completed.
Begin ==
  /\ ~switching
  /\ switching' = TRUE
  /\ target' \in Tables
  /\ exported' = exported

\* One cell changes.
Write ==
  /\ switching
  /\ \E c \in Columns, n \in Labels :
       /\ exported'[c][n] \in Cells
       /\ exported' = [exported EXCEPT ![c][n] = exported'[c][n]]
  /\ UNCHANGED <<target, switching>>

\* The switch ends, and only on the whole new table.
Commit ==
  /\ switching /\ exported = target
  /\ switching' = FALSE
  /\ UNCHANGED <<exported, target>>

Next == Begin \/ Write \/ Commit

Spec == Init /\ [][Next]_vars

FairSpec == Spec /\ []<>(~switching)
===============================================================================
