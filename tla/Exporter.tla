------------------------------ MODULE Exporter ------------------------------
(***************************************************************************)
(* The life of the exporter process (main.py) around its polls: main reads *)
(* the configuration, installs the SIGTERM handler, serve binds the        *)
(* metrics port and polls until a signal arrives.  A signal is raised as   *)
(* an exception in the main thread, between any two of its steps and       *)
(* inside a blocking one, and unwinds through poll(), the finally clause   *)
(* of _poll and main.                                                      *)
(***************************************************************************)
EXTENDS PollService

CONSTANT MaxSignals   \* bound on the signals sent to the process

ASSUME SignalsAssumption == MaxSignals \in Nat

VARIABLES
  pid1,       \* the process is PID 1 of its container
  phase,      \* how far main() is
  handler,    \* SIGTERM raises Shutdown
  exit,       \* the exit status
  signals,    \* history: the phases in which a signal was raised or lost
  caught_at   \* history: where the polling thread was when it was interrupted

processVars == <<pid1, phase, handler, exit, signals, caught_at>>
exporterVars == <<vars, processVars>>

\* Exit statuses: 128 + SIGTERM for a process killed by it, 1 for an exception
\* nobody caught, 130 for a KeyboardInterrupt nobody caught.
Killed == 143
Uncaught(s) == IF s = "INT" THEN 130 ELSE 1

ExporterInit ==
  /\ Init
  /\ pid1 \in BOOLEAN
  /\ phase = "configure" /\ handler = FALSE
  /\ exit = None
  /\ signals = <<>> /\ caught_at = None

Exit(status) == phase' = "exited" /\ exit' = status

\* resolve_config: an invalid value ends the process before anything else.
Configure ==
  /\ phase = "configure"
  /\ \/ phase' = "install" /\ exit' = exit
     \/ Exit(2)
  /\ UNCHANGED <<vars, pid1, handler, signals, caught_at>>

\* handle_termination(), called outside the try of main.
Install ==
  /\ phase = "install"
  /\ handler' = TRUE /\ phase' = "installed"
  /\ UNCHANGED <<vars, pid1, exit, signals, caught_at>>

EnterTry ==
  /\ phase = "installed"
  /\ phase' = "bind"
  /\ UNCHANGED <<vars, pid1, handler, exit, signals, caught_at>>

\* start_http_server: the port may be taken.
Bind ==
  /\ phase = "bind"
  /\ \/ phase' = "serve" /\ exit' = exit
     \/ Exit(1)
  /\ UNCHANGED <<vars, pid1, handler, signals, caught_at>>

\* poll_forever.  poll() catches every Exception, so nothing but a signal
\* leaves the loop.
Mutant_Serve ==
  /\ phase = "serve"
  /\ Step
  /\ IF pc = "failed" /\ exc = "unexpected" THEN Exit(1)
     ELSE UNCHANGED <<phase, exit>>
  /\ UNCHANGED <<pid1, handler, signals, caught_at>>

Serve ==
  /\ phase = "serve"
  /\ Step
  /\ UNCHANGED processVars

-----------------------------------------------------------------------------
(* Signals: SIGTERM, and SIGINT, for which Python has a handler of its own *)

Handled(s) == s = "INT" \/ handler

\* Without a handler the kernel drops a SIGTERM sent to PID 1, and kills any
\* other process.
Unhandled(s) ==
  /\ ~Handled(s)
  /\ IF pid1 THEN UNCHANGED <<phase, exit>> ELSE Exit(Killed)
  /\ UNCHANGED <<vars, caught_at>>

\* Raised where main has no try around it, or in its except clause.
Escapes(s) ==
  /\ Handled(s)
  /\ phase \in {"configure", "install", "installed", "stopped"}
  /\ Exit(Uncaught(s))
  /\ UNCHANGED <<vars, caught_at>>

\* Raised inside main's try.  Neither Shutdown nor KeyboardInterrupt is an
\* Exception: no except clause of poll() stops it.  Where the socket is open and
\* no try would close it, nothing closes it; where it is being closed, in the
\* finally clause of _poll or in the except clause of connect, the signal arrives
\* before close() has run, or inside it.
Unguarded == {"dialled", "created"}
Closing == {"close", "abandon"}

Mutant_Interrupts(s) ==
  /\ Handled(s)
  /\ phase \in {"bind", "serve"}
  /\ IF pc = "idle" THEN phase' = "unwind" /\ UNCHANGED <<pc, exc>>
     ELSE pc' = "failed" /\ exc' = "unexpected" /\ phase' = phase
  /\ caught_at' = pc
  /\ UNCHANGED <<readVars, applyVars, memoryVars, series, poll_errors,
                 healthVars, pollVars, recorded, logVars, exit>>

Interrupts(s) ==
  /\ Handled(s)
  /\ phase \in {"bind", "serve"}
  /\ phase' \in IF pc \in Closing THEN {"release", "stopped"}
               ELSE IF pc \in Unguarded THEN {"stopped"}
               ELSE {"unwind"}
  /\ caught_at' = pc
  /\ UNCHANGED <<vars, exit>>

\* A second signal while the first one unwinds: close() may be cut short in
\* quit, where its own finally closes the socket, or before it begins.
InterruptsAgain(s) ==
  /\ Handled(s)
  /\ phase \in {"unwind", "release"}
  /\ phase' \in {"release", "stopped"}
  /\ UNCHANGED <<vars, exit, caught_at>>

Signal ==
  /\ phase # "exited" /\ Len(signals) < MaxSignals
  /\ \E s \in {"TERM", "INT"} :
       Unhandled(s) \/ Escapes(s) \/ Interrupts(s) \/ InterruptsAgain(s)
  /\ signals' = Append(signals, phase)
  /\ UNCHANGED <<pid1, handler>>

-----------------------------------------------------------------------------
(* The way out.                                                            *)

\* The try statement around the open session, if it is open: _poll's quits, which
\* may fail.
Mutant_Unwind ==
  /\ phase = "unwind"
  /\ phase' = "stopped"
  /\ UNCHANGED <<vars, pid1, handler, exit, signals, caught_at>>

Unwind ==
  /\ phase = "unwind"
  /\ phase' = IF connected THEN "release" ELSE "stopped"
  /\ UNCHANGED <<vars, pid1, handler, exit, signals, caught_at>>

\* ... and the socket is closed.
Release ==
  /\ phase = "release"
  /\ connected' = FALSE /\ selected' = None
  /\ phase' = "stopped"
  /\ UNCHANGED <<pc, exc, session, index, applyVars, memoryVars, series,
                 poll_errors, healthVars, pollVars, recorded, logVars,
                 pid1, handler, exit, signals, caught_at>>

\* main logs `Stopped` and returns 0.
Stop ==
  /\ phase = "stopped"
  /\ Exit(0)
  /\ UNCHANGED <<vars, pid1, handler, signals, caught_at>>

MainThread ==
  \/ Configure \/ Install \/ EnterTry \/ Bind \/ Serve
  \/ Unwind \/ Release \/ Stop

\* The process is gone, or asleep after the last poll of the model.
Ended ==
  /\ phase = "exited" \/ (phase = "serve" /\ pc = "idle" /\ polls = MaxPolls)
  /\ UNCHANGED exporterVars

ExporterNext == MainThread \/ Signal \/ Ended

\* The main thread is never blocked for good: module ServerQuerySession bounds
\* its calls, and a signal interrupts them.
ExporterSpec ==
  ExporterInit /\ [][ExporterNext]_exporterVars /\ WF_exporterVars(MainThread)

-----------------------------------------------------------------------------
(* Properties.                                                             *)

\* One signal that finds the exporter serving, wherever its poll is, ends it
\* with status 0 and the ServerQuery session closed.  Only a signal raised between
\* the opening of the socket and a try statement around it (serverquery.py:102,
\* service.py:128), or while the socket is being closed, may leave the closing to
\* the kernel; "the ``finally`` blocks still close the ServerQuery session"
\* (handle_termination) is not so there.
CleanStop ==
  phase = "exited" /\ Len(signals) = 1 /\ signals[1] \in {"bind", "serve"} =>
    /\ exit = 0
    /\ caught_at \notin Unguarded \cup Closing => ~connected

\* "The process only exits for invalid configuration or a metrics port it cannot
\* bind" (docs/architecture.md): left alone, it has either not polled yet or it
\* keeps polling, whatever the host does to its polls.
OnlyStartupFails ==
  phase = "exited" /\ signals = <<>> => polls = 0 /\ exit \in {1, 2}

\* A signal the process handles ends it: no except clause on the way takes it
\* for the failure of a poll.
StopsWhenAsked ==
  handler /\ signals # <<>> /\ signals[Len(signals)] \notin {"configure", "install"}
    ~> phase = "exited"
===============================================================================
