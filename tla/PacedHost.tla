------------------------------ MODULE PacedHost ------------------------------
(***************************************************************************)
(* A session with a host that throttles as TeamSpeak does: it lets through *)
(* Allowance commands per Window, refuses the others with error id=524 and *)
(* says how long to wait.  ServerQuerySession leaves the host free to do   *)
(* anything; this module composes its actions with the command budget of   *)
(* tests/fake_ts3_server.py (_FloodGuard), under which the session should  *)
(* read every virtualserver.                                               *)
(***************************************************************************)
EXTENDS ServerQuerySession, FiniteSetsExt

CONSTANTS
  Allowance,  \* commands let through per window
  Window,     \* the window, in ticks
  Latencies,  \* how long the host takes to answer, in ticks
  Earlier     \* commands of an earlier poll still in the window at the start

\* The limits the code is set for: retries enough, and no wait it cuts short.
ASSUME PacingAssumption ==
  /\ Allowance \in Nat \ {0} /\ Window \in Nat \ {0}
  /\ Latencies \subseteq Nat /\ Earlier \subseteq 0..Allowance
  /\ Window <= MaxFloodWait /\ FloodRetries >= 3

VARIABLES
  latency,   \* of this host
  stopped,   \* whether the last virtualserver has stopped since serverlist
  accepted,  \* _FloodGuard.accepted: when the commands in the window came
  told,      \* the wait the last command was refused with, -1: let through
  lost       \* history: virtualservers skipped though they run

hostVars == <<latency, stopped, accepted, told, lost>>
pacedVars == <<vars, hostVars>>

PacedInit ==
  /\ Init /\ ~blocking
  /\ latency \in Latencies /\ stopped \in BOOLEAN
  /\ \E n \in Earlier : accepted = [i \in 1..n |-> 0]
  /\ told = -1 /\ lost = 0

-----------------------------------------------------------------------------

\* wait_needed: the oldest times are dropped until one is still in the window.
InWindow ==
  LET kept == {i \in DOMAIN accepted : now - accepted[i] < Window}
                \cup {Len(accepted) + 1}
  IN  SubSeq(accepted, Min(kept), Len(accepted))

\* wait_needed: until the oldest one leaves the window.  TeamSpeak does not say
\* how it rounds: up, as the stub does, or down, to "0 seconds" even.
WaitNeeded ==
  LET ticks == InWindow[1] + Window - now
  IN  {(ticks + Second - 1) \div Second, ticks \div Second}

HostRuns ==
  IF Len(InWindow) < Allowance
  THEN accepted' = Append(InWindow, now) /\ told' = -1
  ELSE accepted' = InWindow /\ told' \in WaitNeeded

Reply ==
  CASE Greeting -> <<"TS3", "text">>
    [] ~Greeting /\ told >= 0 -> <<"flood">>
    [] ~Greeting /\ told < 0 /\ cmd = "use" /\ left = 0 /\ stopped -> <<"other">>
    [] OTHER -> IF cmd \in {"serverlist", "serverinfo"} THEN <<"text", "ok">> ELSE <<"ok">>

PacedSend == Send /\ HostRuns /\ UNCHANGED <<latency, stopped, lost>>

PacedRecv ==
  /\ \/ RecvAfter(latency, Reply)
     \/ latency >= ReadTimeout /\ RecvFails /\ now' = now + timeout'
  /\ UNCHANGED hostVars

PacedFlooded == FloodedFor(told) /\ UNCHANGED hostVars

\* A virtualserver refused by the throttle is lost to this poll.
PacedRefused ==
  /\ Refused
  /\ lost' = IF Head(buffer) = "flood" THEN lost + 1 ELSE lost
  /\ UNCHANGED <<latency, stopped, accepted, told>>

Client ==
  /\ Greet \/ Welcome \/ Skip \/ Succeed \/ OutOfTime \/ Close
  /\ UNCHANGED hostVars

PacedStep == PacedSend \/ PacedRecv \/ PacedFlooded \/ PacedRefused \/ Client
PacedDone == pc = "closed" /\ UNCHANGED pacedVars
PacedNext == PacedStep \/ PacedDone

PacedSpec == PacedInit /\ [][PacedNext]_pacedVars /\ WF_pacedVars(PacedStep)

-----------------------------------------------------------------------------
(* Properties.                                                             *)

\* "The exporter waits as told and retries the command this many times before
\* giving up on it" (serverquery.py:38): waiting as told is enough.  The last
\* attempt is never refused, however full the window was when the session came
\* and however the host rounds, so no command follows a refused one unpaced.
RetriesSuffice == attempt = FloodRetries => told < 0

\* A throttled host is read completely, up to the last virtualserver: the budget
\* grows with the work, and neither it nor the retries run out.
ReadCompletely == <>(outcome = "ok" /\ left = 0 /\ lost = 0)
===============================================================================
