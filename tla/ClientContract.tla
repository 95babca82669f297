--------------------------- MODULE ClientContract ---------------------------
(***************************************************************************)
(* What the poll service and the ServerQuery client promise each other     *)
(* (the Protocol Ts3Client and the factory): the order of the calls, which *)
(* call may raise what, and that a client that was opened is closed.       *)
(* ServerQuerySession implements it from the client's side, PollService    *)
(* from the caller's, so the two fit together.                             *)
(***************************************************************************)
EXTENDS Integers

CONSTANTS
  None,   \* no exception
  Counts  \* how many online virtualservers serverlist may show

VARIABLES
  phase,   \* the call under way
  left,    \* online virtualservers still to be asked about after this one
  raised   \* what the session ended with, by error reason

contractVars == <<phase, left, raised>>

Calls == {"login", "serverlist", "use", "serverinfo"}

\* One refused virtualserver ends nothing, so `use` and `serverinfo` raise no
\* "query"; a rejected password is the login's only.
MayRaise ==
  [call \in Calls |-> {"connection", "unexpected"} \cup
     CASE call = "login" -> {"login", "query"}
       [] call = "serverlist" -> {"query"}
       [] OTHER -> {}]

Init == phase \in {"closed", "connect"} /\ left = 0 /\ raised = None

\* A poll begins.
Open == phase = "closed" /\ phase' = "connect" /\ raised' = None /\ left' = left

\* Nothing was opened: there is nothing to close.
ConnectFails ==
  /\ phase = "connect" /\ phase' = "closed"
  /\ raised' \in {"connection", "unexpected"} /\ left' = left

\* The calls after the n virtualservers still to be asked about.
Ask(n) ==
  /\ phase' = IF n > 0 THEN "use" ELSE "close"
  /\ left' = IF n > 0 THEN n - 1 ELSE 0
  /\ raised' = raised

Returns ==
  \/ phase = "connect" /\ phase' = "login" /\ UNCHANGED <<left, raised>>
  \/ phase = "login" /\ phase' = "serverlist" /\ UNCHANGED <<left, raised>>
  \/ phase = "serverlist" /\ \E n \in Counts : Ask(n)
  \/ phase = "use" /\ phase' = "serverinfo" /\ UNCHANGED <<left, raised>>
  \/ phase = "serverinfo" /\ Ask(left)

\* ServerQueryError of `use` or `serverinfo`: on with the next virtualserver.
Skips == phase \in {"use", "serverinfo"} /\ Ask(left)

Raises ==
  /\ phase \in Calls /\ raised' \in MayRaise[phase]
  /\ phase' = "close" /\ left' = 0

Closes == phase = "close" /\ phase' = "closed" /\ UNCHANGED <<left, raised>>

\* poll() has counted the exception.
Counted == phase = "closed" /\ raised' = None /\ UNCHANGED <<phase, left>>

Session == ConnectFails \/ Returns \/ Skips \/ Raises \/ Closes

Next == Open \/ Session \/ Counted

Spec == Init /\ [][Next]_contractVars

\* Every call comes back, and a session comes to its end.
FairSpec == Spec /\ WF_contractVars(Session)
===============================================================================
