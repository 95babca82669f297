------------------------- MODULE ServerQuerySession -------------------------
(***************************************************************************)
(* One session of ServerQueryClient (serverquery.py) in time, from the     *)
(* greeting to close(), driven the way _read (service.py) drives it: login,*)
(* serverlist, then use and serverinfo for every online virtualserver.     *)
(*                                                                         *)
(* Time is an integer.  Only what may block takes any: recv, sendall and   *)
(* the sleep of a flood wait.  The host is arbitrary: it may answer early, *)
(* late or never, several lines at once, a line in pieces, or more lines   *)
(* than it was asked for.                                                  *)
(***************************************************************************)
EXTENDS Integers, Sequences, FiniteSets

CONSTANTS
  Second,      \* one second, in ticks of the clock; the times below are in ticks
  T,           \* SERVERQUERY_TIMEOUT_IN_SECONDS
  Budget,      \* POLL_TIMEOUT_IN_SECONDS
  PerServer,   \* PER_VIRTUALSERVER_TIMEOUT_IN_SECONDS
  MaxBudget,   \* MAX_SESSION_TIMEOUT_IN_SECONDS
  FloodRetries,
  MaxFloodWait,
  MaxReceived, \* MAX_SESSION_BYTES, counted in calls of recv
  Waits,       \* the N of "please wait N seconds"; 0 when there is none
  Online,      \* how many online virtualservers a serverlist answer may show
  Chunks,      \* what one recv may return: the lines it completes
  SendTimes    \* how long one sendall may block, where writes block

Trailers == {"ok", "invalid", "flood", "other", "malformed"}
Lines == Trailers \cup {"TS3", "text"}

ASSUME TimeoutAssumption ==
  /\ T \in Nat \ {0} /\ Budget \in Nat \ {0} /\ PerServer \in Nat
  /\ MaxBudget \in Nat /\ Budget <= MaxBudget /\ Second \in Nat \ {0}
ASSUME FloodAssumption == FloodRetries \in Nat /\ MaxFloodWait \in Nat \ {0}
ASSUME HostAssumption ==
  /\ Waits \subseteq Nat /\ Online \subseteq Nat /\ MaxReceived \in Nat
  /\ 0 \in SendTimes /\ SendTimes \subseteq Nat /\ Chunks \subseteq Seq(Lines)

VARIABLES
  blocking,  \* whether the writes of this session may block
  pc,        \* "send", "read", "close", "closed"
  cmd,       \* the command under way, or the greeting line awaited
  attempt,   \* how often the command was sent again
  left,      \* online virtualservers not asked about yet
  now,       \* the monotonic clock; the session started at 0
  deadline,  \* _deadline
  timeout,   \* the socket timeout last set
  buffer,    \* complete lines in _buffer
  received,  \* _received
  outcome,   \* how the session ended: "ok" or the reason of the exception
  verdict    \* history: the last error trailer each command got

vars == <<blocking, pc, cmd, attempt, left, now, deadline, timeout, buffer,
          received, outcome, verdict>>

Commands == {"TS3", "welcome", "login", "serverlist", "use", "serverinfo"}

Lesser(x, y) == IF x <= y THEN x ELSE y
Greater(x, y) == IF x <= y THEN y ELSE x

\* connect() has a socket with the default timeout; __init__ takes the time.
Init ==
  /\ blocking \in BOOLEAN
  /\ pc = "read" /\ cmd = "TS3" /\ attempt = 0 /\ left = 0
  /\ now = 0 /\ deadline = Budget /\ timeout = T
  /\ buffer = <<>> /\ received = 0 /\ outcome = "none"
  /\ verdict = [c \in Commands |-> "none"]

-----------------------------------------------------------------------------

Greeting == cmd \in {"TS3", "welcome"}

\* An exception ends the session.  During the greeting connect() closes the
\* socket itself; afterwards the caller's finally calls close().
Raise(reason) ==
  /\ outcome' = reason
  /\ pc' = IF Greeting THEN "closed" ELSE "close"

\* A write blocks once the host has stopped reading for long enough.
SendTime == IF blocking THEN SendTimes ELSE {0}

\* _send: the socket timeout is the one the last read left behind.
Send ==
  /\ pc = "send"
  /\ \E d \in SendTime : d < timeout /\ now' = now + d
  /\ pc' = "read"
  /\ UNCHANGED <<blocking, cmd, attempt, left, deadline, timeout, buffer,
                 received, outcome, verdict>>

\* sendall times out, or the connection is gone.
SendFails ==
  /\ pc = "send"
  /\ \E d \in SendTime : d <= timeout /\ now' = now + d
  /\ Raise("connection")
  /\ UNCHANGED <<blocking, cmd, attempt, left, deadline, timeout, buffer,
                 received, verdict>>

Remaining == deadline - now
MustRead == pc = "read" /\ buffer = <<>>

\* "Never wait on one read past the session deadline."
Mutant_ReadTimeoutFixed == T
ReadTimeout == Lesser(Remaining, T)

\* _read_line: no time left, nothing is read any more.
OutOfTime ==
  /\ MustRead /\ Remaining <= 0
  /\ Raise("timeout")
  /\ UNCHANGED <<blocking, cmd, attempt, left, now, deadline, timeout, buffer,
                 received, verdict>>

\* recv returns a chunk before the time set for it has passed.
RecvAfter(d, chunk) ==
  /\ MustRead /\ Remaining > 0
  /\ timeout' = ReadTimeout
  /\ d < timeout' /\ now' = now + d
  /\ received' = received + 1
  /\ IF received' > MaxReceived
     THEN Raise("connection") /\ buffer' = buffer
     ELSE buffer' = chunk /\ UNCHANGED <<pc, outcome>>
  /\ UNCHANGED <<blocking, cmd, attempt, left, deadline, verdict>>

Recv == \E d \in 0..(T - 1), chunk \in Chunks : RecvAfter(d, chunk)

\* recv times out, the host closes the connection, or the line grows too long.
RecvFails ==
  /\ MustRead /\ Remaining > 0
  /\ timeout' = ReadTimeout
  /\ \E d \in 0..timeout' : now' = now + d
  /\ Raise("connection")
  /\ UNCHANGED <<blocking, cmd, attempt, left, deadline, buffer, received, verdict>>

\* A complete line leaves the buffer, whatever the clock says.
Line(kinds) ==
  /\ pc = "read" /\ buffer # <<>>
  /\ Head(buffer) \in kinds
  /\ buffer' = Tail(buffer)
  /\ verdict' = IF Head(buffer) \in Trailers
                THEN [verdict EXCEPT ![cmd] = Head(buffer)] ELSE verdict
  /\ UNCHANGED <<blocking, timeout, received>>

Call(command) == cmd' = command /\ attempt' = 0 /\ pc' = "send"

\* __init__: "TS3", then a welcome line of any kind.
Greet ==
  /\ cmd = "TS3"
  /\ \/ Line({"TS3"}) /\ cmd' = "welcome" /\ UNCHANGED <<pc, outcome>>
     \/ Line(Lines \ {"TS3"}) /\ Raise("connection") /\ cmd' = cmd
  /\ UNCHANGED <<attempt, left, now, deadline>>

Welcome ==
  /\ cmd = "welcome"
  /\ Line(Lines)
  /\ Call("login")
  /\ UNCHANGED <<left, now, deadline, outcome>>

\* _read_response: records and notifications go by until a trailer comes.
Skip ==
  /\ ~Greeting
  /\ Line(Lines \ Trailers)
  /\ UNCHANGED <<pc, cmd, attempt, left, now, deadline, outcome>>

\* The caller's next step once a virtualserver is done with.
NextServer(n) ==
  IF n > 0 THEN Call("use") /\ left' = n - 1 /\ outcome' = outcome
  ELSE pc' = "close" /\ outcome' = "ok" /\ UNCHANGED <<cmd, attempt, left>>

\* _error_id: a trailer without a numeric id is not success.
Mutant_Success == {"ok", "malformed"}
Success == {"ok"}

\* The budget serverlist grows to.
Mutant_NotGrown(online) == deadline
Mutant_Grown(online) == deadline + online * PerServer
Grown(online) == Lesser(deadline + online * PerServer, MaxBudget)

\* error id=0.  serverlist also grows the deadline.
Succeed ==
  /\ ~Greeting
  /\ Line(Success)
  /\ \/ cmd = "login" /\ Call("serverlist") /\ UNCHANGED <<left, deadline, outcome>>
     \/ /\ cmd = "serverlist"
        /\ \E online \in Online :
             /\ deadline' = Grown(online)
             /\ NextServer(online)
     \/ cmd = "use" /\ Call("serverinfo") /\ UNCHANGED <<left, deadline, outcome>>
     \/ cmd = "serverinfo" /\ NextServer(left) /\ deadline' = deadline
  /\ now' = now

Mutant_FloodWait(n) == Lesser(n * Second, MaxFloodWait)
FloodWait(n) == Lesser(Greater(n, 1) * Second, MaxFloodWait)

Mutant_FitsBudget(n) == TRUE
FitsBudget(n) == now + FloodWait(n) < deadline

\* error id=524 with retries left: a wait that reaches the deadline is not slept.
FloodedFor(n) ==
  /\ ~Greeting /\ attempt < FloodRetries
  /\ Line({"flood"})
  /\ \/ /\ ~FitsBudget(n)
        /\ Raise("timeout") /\ UNCHANGED <<now, attempt>>
     \/ /\ FitsBudget(n)
        /\ now' = now + FloodWait(n)
        /\ attempt' = attempt + 1
        /\ pc' = "send" /\ outcome' = outcome
  /\ UNCHANGED <<cmd, left, deadline>>

Flooded == \E n \in Waits : FloodedFor(n)

Mutant_Refused ==
  /\ ~Greeting
  /\ Line(Trailers \ {"ok", "flood"}) \/ (attempt = FloodRetries /\ Line({"flood"}))
  /\ Raise(IF cmd = "login" /\ Head(buffer) = "invalid" THEN "login" ELSE "query")
  /\ UNCHANGED <<cmd, attempt, left, now, deadline>>

\* ServerQueryError: ends login and serverlist, skips a virtualserver.
Refused ==
  /\ ~Greeting
  /\ Line(Trailers \ {"ok", "flood"}) \/ (attempt = FloodRetries /\ Line({"flood"}))
  /\ IF cmd \in {"use", "serverinfo"} THEN NextServer(left)
     ELSE /\ Raise(IF cmd = "login" /\ Head(buffer) = "invalid" THEN "login"
                   ELSE "query")
          /\ UNCHANGED <<cmd, attempt, left>>
  /\ UNCHANGED <<now, deadline>>

\* close(): one try to say quit, then the socket is closed.
Close ==
  /\ pc = "close"
  /\ \E d \in SendTime : d <= timeout /\ now' = now + d
  /\ pc' = "closed"
  /\ UNCHANGED <<blocking, cmd, attempt, left, deadline, timeout, buffer,
                 received, outcome, verdict>>

Step ==
  \/ Send \/ SendFails
  \/ OutOfTime \/ Recv \/ RecvFails
  \/ Greet \/ Welcome \/ Skip \/ Succeed \/ Flooded \/ Refused
  \/ Close

Done == pc = "closed" /\ UNCHANGED vars

Next == Step \/ Done

Spec == Init /\ [][Next]_vars
FairSpec == Spec /\ WF_vars(Step)

-----------------------------------------------------------------------------
(* Properties.                                                             *)

\* Where writes do not block, a session is over when its deadline comes, its
\* flood waits and its quit included.
EndsByDeadline == ~blocking => now <= deadline

\* "Deadline for one whole ServerQuery session" (serverquery.py:18), whatever
\* its writes do.
DeadlineAsDocumented == now <= deadline

\* Whatever writes may do, no read and no flood wait runs past the deadline: a
\* trickling or flooding host buys no time with them.
OnlyWritesOverrun == [][now' > now /\ now' > deadline' => pc \in {"send", "close"}]_vars

\* The deadline moves only when serverlist is answered, never backwards, and
\* never beyond MAX_SESSION_TIMEOUT_IN_SECONDS.
DeadlineCapped ==
  [][deadline' # deadline =>
       cmd = "serverlist" /\ deadline < deadline' /\ deadline' <= MaxBudget]_vars

\* How a session ends is what the host said.  A refused, flooded or garbled
\* answer is never taken for "no virtualservers", a bad password is reported
\* exactly when the host says so, and one refused virtualserver ends nothing.
OutcomeHonest ==
  /\ outcome = "ok" => verdict["login"] = "ok" /\ verdict["serverlist"] = "ok"
  /\ outcome = "login" <=> verdict["login"] = "invalid"
  /\ outcome = "query" =>
       /\ cmd \in {"login", "serverlist"}
       /\ verdict[cmd] \in {"invalid", "other", "malformed", "flood"}

\* The session as its caller sees it: the call under way, the virtualservers
\* left, and the exception; a TimeoutError is an OSError like any other.
Phase ==
  CASE pc \in {"close", "closed"} -> pc
    [] pc \in {"send", "read"} /\ Greeting -> "connect"
    [] OTHER -> cmd

Contract == INSTANCE ClientContract WITH
  None <- "none",
  Counts <- Online,
  phase <- Phase,
  left <- IF Phase \in {"use", "serverinfo"} THEN left ELSE 0,
  raised <- CASE outcome = "ok" -> "none" [] outcome = "timeout" -> "connection"
              [] OTHER -> outcome

\* The client keeps its side of the contract against every host: the calls in
\* order, no exception a call may not raise, and the end always reached, also
\* when notifications never stop.
KeepsContract == Contract!FairSpec
===============================================================================
