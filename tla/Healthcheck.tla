---------------------------- MODULE Healthcheck ----------------------------
(***************************************************************************)
(* One container healthcheck (healthcheck.py) while the processes of its   *)
(* container start, exec and exit.  The check reads /proc twice, one file  *)
(* after the other: once for the passwords its output must hide, once for  *)
(* the port to probe.                                                      *)
(*                                                                         *)
(* PID 1 is the exporter, docker-init, or a shell that forks it or execs   *)
(* it; somebody may start a second exporter in the container.  When PID 1  *)
(* exits the check goes with it, so it does not exit here.                 *)
(***************************************************************************)
EXTENDS Config

CONSTANTS
  None,
  Commands,    \* what the container runs
  Environments,\* what the container is configured with
  Others,      \* flags somebody may start a second exporter with
  Scripts,     \* the texts whose last path component is app.py
  Digits,      \* a port number in print
  MaxPid       \* bound on the processes of the container

Censored == "***"

ASSUME PidAssumption ==
  MaxPid \in Nat \ {0} /\ None \notin Nat \cup {"healthy"} /\ ~IsEnvironment(None)
\* Only a shell sets variables for the exporter, or becomes it.
ASSUME CommandAssumption ==
  /\ (\A e \in Environments : IsEnvironment(e)) /\ Others \subseteq Seq(Arguments)
  /\ \A c \in Commands :
       /\ c.wrapper \in {"none", "init", "shell"} /\ c.text \in STRING
       /\ c.flags \in Seq(Arguments) /\ c.execs \in BOOLEAN /\ IsEnvironment(c.sets)
       /\ c.wrapper # "shell" => ~c.execs /\ DOMAIN c.sets = {}
ASSUME ScriptAssumption ==
  /\ Scripts \subseteq STRING /\ "/app/app.py" \in Scripts
  /\ {"python", "docker-init", "--", "sh", "-c", "/app/healthcheck.py"}
       \subseteq STRING \ Scripts

VARIABLES
  command,  \* [wrapper, text, execs, flags, sets]: the container's command
  env,      \* the container's environment, which the check inherits
  procs,    \* pid -> [args, env, stage, child: of PID 1, port, warned]
  next_pid,
  phase,    \* where the check is
  scan,     \* 1: exporter_secrets, 2: check
  own_pid,
  entries,  \* pids iterdir() listed and find_exporter has not read yet
  found,    \* [pid, argv, env] find_exporter is about to return
  secrets, port, verdict,
  output,   \* the port as printed
  steady,   \* history: the exporter that serves all along, if one does
  first     \* history: the exporter [pid, argv, env] that runs all through scan 1

containerVars == <<command, env, procs, next_pid>>
checkVars == <<phase, scan, own_pid, entries, found, secrets, port, verdict, output>>
vars == <<containerVars, checkVars, steady, first>>

Process(args, environment, stage) ==
  [args |-> args, env |-> environment, stage |-> stage, child |-> FALSE,
   port |-> 0, warned |-> {}]

ExporterArgs(flags) == <<Word("python"), Word("/app/app.py")>> \o flags

\* A variable assignment before a command wins over the container's value.
With(environment, sets) ==
  [option \in DOMAIN environment \cup DOMAIN sets |->
     IF option \in DOMAIN sets THEN sets[option] ELSE environment[option]]

First ==
  CASE command.wrapper = "none" -> Process(ExporterArgs(command.flags), env, "exporter")
    [] command.wrapper = "init" ->
         Process(<<Word("docker-init"), Word("--")>> \o ExporterArgs(command.flags),
                 env, "wrapper")
    [] command.wrapper = "shell" ->
         Process(<<Word("sh"), Word("-c"), Word(command.text)>>, env, "wrapper")

Nobody == [pid |-> None, argv |-> <<>>, env |-> None]

Init ==
  /\ command \in Commands /\ env \in Environments
  /\ procs = [pid \in {1} |-> First] /\ next_pid = 2
  /\ phase = "idle" /\ scan = 1 /\ own_pid = None /\ entries = {} /\ found = Nobody
  /\ secrets = {} /\ port = 0 /\ verdict = None /\ output = None
  /\ steady = None /\ first = Nobody

-----------------------------------------------------------------------------
(* The container.                                                          *)

New(process) ==
  /\ next_pid <= MaxPid
  /\ procs' = [pid \in DOMAIN procs \cup {next_pid} |->
                IF pid = next_pid THEN process ELSE procs[pid]]
  /\ next_pid' = next_pid + 1

\* A wrapper forks; until it execs, the child looks like its parent.
Fork ==
  /\ procs[1].stage = "wrapper" /\ ~command.execs
  /\ ~\E pid \in DOMAIN procs : procs[pid].child
  /\ New([procs[1] EXCEPT !.stage = "forked", !.child = TRUE])
  /\ UNCHANGED <<command, env, checkVars, steady, first>>

\* execve, in the child or, with `exec`, in the shell itself.
Exec ==
  /\ \E pid \in DOMAIN procs :
       /\ procs[pid].stage = IF command.execs THEN "wrapper" ELSE "forked"
       /\ procs' = [procs EXCEPT ![pid].args = ExporterArgs(command.flags),
                                 ![pid].env = With(env, command.sets),
                                 ![pid].stage = "exporter"]
  /\ UNCHANGED <<command, env, next_pid, checkVars, steady, first>>

\* docker exec: another exporter in the same container.
StartAnother ==
  /\ \E flags \in Others : New(Process(ExporterArgs(flags), env, "exporter"))
  /\ UNCHANGED <<command, env, checkVars, steady, first>>

Gone(pids) == [pid \in DOMAIN procs \ pids |-> procs[pid]]
Argv(pid) == SubSeq(procs[pid].args, 3, Len(procs[pid].args))
PortsInUse == {procs[pid].port : pid \in DOMAIN procs} \ {0}
Unheard(pid) == IF pid = first.pid /\ scan = 1 THEN Nobody ELSE first

\* The container ends with PID 1, and docker-init with its child.
MayExit(pid) == pid # 1 /\ (command.wrapper = "init" => ~procs[pid].child)

\* main() up to the bound port, or to its exit.
Serve ==
  /\ \E pid \in DOMAIN procs :
       /\ procs[pid].stage = "exporter"
       /\ LET args == parse_args(Argv(pid))
              configs == UNION {resolve_config(a, procs[pid].env) : a \in args}
              bound == {c \in configs : c["metricsport"] \cap PortsInUse = {}}
          IN \/ /\ \E config \in bound, a \in args :
                     procs' = [procs EXCEPT ![pid].stage = "serving",
                                 ![pid].port = CHOOSE p \in config["metricsport"] : TRUE,
                                 ![pid].warned = overridden_flags(a, procs[pid].env)]
                /\ first' = first
             \/ bound = {} /\ MayExit(pid) /\ procs' = Gone({pid}) /\ first' = Unheard(pid)
  /\ UNCHANGED <<command, env, next_pid, checkVars, steady>>

\* An exporter exits; a shell may start it again.
Exit ==
  /\ \E pid \in DOMAIN procs :
       /\ procs[pid].stage = "serving" /\ MayExit(pid)
       /\ procs' = Gone({pid})
       /\ steady' = IF steady = pid THEN None ELSE steady
       /\ first' = Unheard(pid)
  /\ UNCHANGED <<command, env, next_pid, checkVars>>

-----------------------------------------------------------------------------
(* The check.                                                              *)

Serving == {pid \in DOMAIN procs : procs[pid].stage = "serving"}
Own == {pid \in DOMAIN procs : pid = 1 \/ procs[pid].child}
Running == {pid \in DOMAIN procs : procs[pid].stage \in {"exporter", "serving"}}

\* Docker starts the check, at any time.
Begin ==
  /\ phase = "idle"
  /\ New(Process(<<Word("python"), Word("/app/healthcheck.py")>>, env, "check"))
  /\ own_pid' = next_pid
  /\ phase' = "list"
  /\ steady' = IF Running # {} /\ Min(Running) \in Own \cap Serving
               THEN Min(Running) ELSE None
  /\ first' = IF Running # {} /\ Min(Running) \in Own
              THEN [pid |-> Min(Running), argv |-> Argv(Min(Running)),
                    env |-> procs[Min(Running)].env]
              ELSE Nobody
  /\ UNCHANGED <<command, env, scan, entries, found, secrets, port, verdict, output>>

\* iterdir(): the processes there are now.
List ==
  /\ phase = "list"
  /\ entries' = DOMAIN procs
  /\ found' = Nobody
  /\ phase' = "cmdline"
  /\ UNCHANGED <<containerVars, scan, own_pid, secrets, port, verdict, output, steady, first>>

Lowest == Min(entries)

\* Where app.py stands in a command line: the first argument of that name.
ScriptAt(args) == {i \in DOMAIN args : args[i].value \in Scripts /\ args[i].option = "none"}

\* One command line.  A process that is gone is passed over.
ReadCmdline ==
  /\ phase = "cmdline" /\ entries # {}
  /\ LET pid == Lowest
         args == IF pid \in DOMAIN procs /\ pid # own_pid THEN procs[pid].args ELSE <<>>
     IN IF ScriptAt(args) = {}
        THEN UNCHANGED <<found, phase>>
        ELSE /\ found' = [pid |-> pid, env |-> None,
                          argv |-> SubSeq(args, Min(ScriptAt(args)) + 1, Len(args))]
             /\ phase' = "environ"
  /\ entries' = entries \ {Lowest}
  /\ UNCHANGED <<containerVars, scan, own_pid, secrets, port, verdict, output, steady, first>>

\* The environment of the process found, unless it exited in between.
ReadEnviron ==
  /\ phase = "environ"
  /\ found' = [found EXCEPT !.env = IF found.pid \in DOMAIN procs
                                    THEN procs[found.pid].env ELSE None]
  /\ phase' = "found"
  /\ UNCHANGED <<containerVars, scan, own_pid, entries, secrets, port, verdict, output,
                 steady, first>>

NoneFound ==
  /\ phase = "cmdline" /\ entries = {}
  /\ phase' = "found"
  /\ UNCHANGED <<containerVars, scan, own_pid, entries, found, secrets, port, verdict,
                 output, steady, first>>

\* effective(): the container's environment stands in for an unreadable one.
Mutant_EffectiveEnv == env
EffectiveEnv == IF found.env = None THEN env ELSE found.env

\* exporter_secrets(): the exporter's passwords and the container's.
Mutant_Collected(argv) == password_candidates(<<>>, env)
Collected(argv) ==
  password_candidates(IF parse_args(argv) = {} THEN <<>> ELSE argv, EffectiveEnv)
    \cup password_candidates(<<>>, env)

CollectSecrets ==
  /\ phase = "found" /\ scan = 1
  /\ secrets' = Collected(found.argv)
  /\ scan' = 2 /\ phase' = "list"
  /\ UNCHANGED <<containerVars, own_pid, entries, found, port, verdict, output, steady, first>>

\* metrics_port(): the exporter's own rules; an error names no argument.
ResolvePort ==
  /\ phase = "found" /\ scan = 2
  /\ LET ports == UNION {config["metricsport"] : config \in
                    UNION {resolve_config(args, EffectiveEnv) : args \in parse_args(found.argv)}}
     IN \/ \E p \in ports : port' = p /\ phase' = "probe" /\ verdict' = verdict
        \/ ports = {} /\ phase' = "done" /\ verdict' = "unhealthy" /\ port' = port
  /\ UNCHANGED <<containerVars, scan, own_pid, entries, found, secrets, output, steady, first>>

\* probe(), and the line main() prints.
Probe ==
  /\ phase = "probe"
  /\ verdict' = IF port \in PortsInUse THEN "healthy" ELSE "unhealthy"
  /\ output' = IF Digits[port] \in secrets THEN Censored ELSE Digits[port]
  /\ phase' = "done"
  /\ UNCHANGED <<containerVars, scan, own_pid, entries, found, secrets, port, steady, first>>

Container == Fork \/ Exec \/ StartAnother \/ Serve \/ Exit
Check ==
  \/ Begin \/ List \/ ReadCmdline \/ ReadEnviron \/ NoneFound
  \/ CollectSecrets \/ ResolvePort \/ Probe

Next == Container \/ Check
Spec == Init /\ [][Next]_vars

-----------------------------------------------------------------------------
(* Properties.                                                             *)

\* A shell whose -c text ends in .../app.py: find_exporter takes it for the
\* exporter.
Mistakable == command.wrapper = "shell" /\ command.text \in Scripts

\* The type invariant.
TypeOK ==
  /\ 1 \in DOMAIN procs /\ DOMAIN procs \subseteq 1..MaxPid
  /\ next_pid \in 2..(MaxPid + 1)
  /\ {port} \cup {procs[pid].port : pid \in DOMAIN procs} \subseteq 0..(PortLimit - 1)
  /\ phase \in {"idle", "list", "cmdline", "environ", "found", "probe", "done"}
  /\ scan \in {1, 2}
  /\ entries \subseteq 1..MaxPid
  /\ verdict \in {None, "healthy", "unhealthy"}
  /\ own_pid \in 1..MaxPid \cup {None}
  /\ steady \in (1..MaxPid \ {own_pid}) \cup {None}

\* An exporter that serves during the whole check, started before every other
\* one, is found healthy on its own port: behind docker-init, behind a shell, with
\* flags and with variables the container's configuration does not show,
\* whatever else starts or exits meanwhile.  (Shells of Mistakable aside.)
HealthyWhenServing ==
  phase = "done" /\ steady # None /\ ~Mistakable =>
    verdict = "healthy" /\ port = procs[steady].port

\* What an exporter was given to log in with.  argparse refuses some command
\* lines: those give nothing.
Given(exporter) ==
  IF exporter = Nobody THEN {}
  ELSE password_candidates(
         IF parse_args(exporter.argv) = {} THEN <<>> ELSE exporter.argv, exporter.env)

\* Whatever starts, execs or exits between and during the two scans, and whoever
\* the second one finds, the output is none of the passwords of the container's
\* configuration (healthcheck.py:200), nor of the exporter that ran, before every
\* other one, during the first scan: an overridden password and one of an exporter
\* that has gone since included.  (Shells of Mistakable aside.)
PasswordsHidden ==
  output # None =>
    /\ output \notin password_candidates(<<>>, env) \ {Censored}
    /\ ~Mistakable => output \notin Given(first) \ {Censored}

\* "the output is censored with every password given to the exporter: a port
\* number can be the password" (healthcheck.py:19): given to the exporter it
\* probes, which the second scan found.
OutputAsDocumented ==
  output # None /\ found.pid \in Serving =>
    output \notin Given([found EXCEPT !.env = procs[found.pid].env]) \ {Censored}

\* The exporter warns of exactly the flags that would change its configuration,
\* or break it, were their variables not set.
OverriddenReported ==
  \A pid \in Serving : \A args \in parse_args(Argv(pid)) :
    LET environment == procs[pid].env
        Without(option) == [o \in DOMAIN environment \ {option} |-> environment[o]]
    IN procs[pid].warned =
         {option \in DOMAIN args \cap DOMAIN environment :
            resolve_config(args, Without(option)) # resolve_config(args, environment)}
=============================================================================
