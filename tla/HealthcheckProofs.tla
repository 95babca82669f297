-------------------------- MODULE HealthcheckProofs --------------------------
(***************************************************************************)
(* The container healthcheck, for every command of the container, every    *)
(* environment and every number of processes, whatever they do meanwhile.  *)
(***************************************************************************)
EXTENDS Healthcheck, SequenceTheorems, WellFoundedInduction, TLAPS

\* A set of numbers has a least one.
LEMMA LeastExists ==
  ASSUME NEW S, S \subseteq Nat, S # {}
  PROVE  Min(S) \in S /\ \A i \in S : Min(S) <= i
<1>1. PICK m \in S : \A i \in S : ~(<<i, m>> \in OpToRel(<, Nat))
  <2>1. \A R, U, V : IsWellFoundedOn(R, U) /\ V \subseteq U /\ V # {} =>
          \E x \in V : \A y \in V : ~(<<y, x>> \in R)
    BY WFMin
  <2>2. QED
    BY <2>1, NatLessThanWellFounded
<1>2. \A i \in S : m <= i
  <2>1. \A i \in S : ~(i < m)
    BY <1>1 DEF OpToRel
  <2>2. QED
    BY <2>1
<1>3. QED
  BY <1>2 DEF Min

-----------------------------------------------------------------------------
(* Arguments and configuration (module Config).                            *)

\* A command line argparse accepts has one meaning, and names options only.
LEMMA ParsedArguments ==
  ASSUME NEW argv \in Seq(Arguments), NEW args \in parse_args(argv)
  PROVE  parse_args(argv) = {args} /\ DOMAIN args \subseteq Options
<1> DEFINE At(option) == {i \in DOMAIN argv : argv[i].option = option}
<1>1. At("none") = {} /\
      args = [option \in {argv[i].option : i \in DOMAIN argv} |-> argv[Max(At(option))].value]
  BY DEF parse_args
<1>2. ASSUME NEW i \in DOMAIN argv PROVE argv[i].option \in Options
  <2>1. argv[i] \in Arguments
    OBVIOUS
  <2>2. argv[i].option \in Options \cup {"none"}
    BY <2>1 DEF Arguments
  <2>3. QED
    BY <1>1, <2>2
<1>3. QED
  BY <1>1, <1>2 DEF parse_args

\* Environment over flag over default.
LEMMA ChosenValue ==
  ASSUME NEW args, NEW environment, NEW option \in Options
  PROVE  Chosen(args, environment, option) =
           IF option \in DOMAIN environment THEN environment[option]
           ELSE IF option \in DOMAIN args THEN args[option] ELSE Defaults[option]
<1>1. option \in DOMAIN Defaults
  BY DEF Defaults, Options, Ports, Required
<1>2. \A table : option \in DOMAIN table => Read(table, option) = {table[option]}
  BY DEF Read
<1>3. \A table : option \in DOMAIN table =>
        (CHOOSE raw \in Read(table, option) : TRUE) = table[option]
  BY <1>2
<1>4. QED
  BY <1>1, <1>3 DEF Chosen

PortNumbers == {p \in Int : IsPort(p)}

\* A port option has one value, a port, or none.
LEMMA ParsedPort ==
  ASSUME NEW raw, NEW p \in Parse("metricsport", raw)
  PROVE  Parse("metricsport", raw) = {p} /\ p \in PortNumbers
<1>1. Parse("metricsport", raw) = {n \in Read(AsInt, raw) : IsPort(n)}
  <2>1. "metricsport" \in Ports /\ "metricsport" \notin Required
    BY DEF Ports, Required
  <2>2. "metricsport" \notin {"pollinterval", "loglevel", "ts3password"}
    OBVIOUS
  <2>3. QED
    BY Zenon, <2>1, <2>2 DEF Parse
<1>2. raw \in DOMAIN AsInt /\ p = AsInt[raw] /\ IsPort(p)
  BY <1>1 DEF Read
<1>3. p \in Int
  BY <1>2, TableAssumption
<1>4. p \in PortNumbers
  BY <1>2, <1>3 DEF PortNumbers
<1>5. QED
  BY <1>1, <1>2, <1>4 DEF Read

\* A configuration that resolves is the only one, with the port it names.
LEMMA Resolved ==
  ASSUME NEW args, NEW environment, NEW config \in resolve_config(args, environment)
  PROVE  /\ resolve_config(args, environment) = {config}
         /\ config = [option \in Options |-> Parse(option, Chosen(args, environment, option))]
         /\ \A option \in Options : config[option] # {}
         /\ \E p \in PortNumbers : config["metricsport"] = {p}
<1>1. /\ resolve_config(args, environment) = {config}
      /\ config = [option \in Options |-> Parse(option, Chosen(args, environment, option))]
      /\ \A option \in Options : config[option] # {}
  BY DEF resolve_config
<1>2. "metricsport" \in Options
  BY DEF Options, Ports
<1>3. PICK p : p \in Parse("metricsport", Chosen(args, environment, "metricsport"))
  BY <1>1, <1>2
<1>4. p \in PortNumbers /\ config["metricsport"] = {p}
  BY <1>1, <1>2, <1>3, ParsedPort
<1>5. QED
  BY <1>1, <1>4

\* The environment without one option: the flag counts again.
Unset(environment, option) == [o \in DOMAIN environment \ {option} |-> environment[o]]

\* A flag is reported exactly if the configuration would be another one, or none,
\* without its variable.
LEMMA OverriddenMatters ==
  ASSUME NEW args, NEW environment, DOMAIN args \subseteq Options,
         resolve_config(args, environment) # {},
         NEW option \in DOMAIN args \cap DOMAIN environment
  PROVE  option \in overridden_flags(args, environment) <=>
         resolve_config(args, Unset(environment, option)) # resolve_config(args, environment)
<1> DEFINE without == Unset(environment, option)
<1>1. option \in Options
  OBVIOUS
<1>2. PICK config : config \in resolve_config(args, environment)
  OBVIOUS
<1>3. /\ resolve_config(args, environment) = {config}
      /\ config = [o \in Options |-> Parse(o, Chosen(args, environment, o))]
      /\ \A o \in Options : config[o] # {}
  BY <1>2, Resolved
<1>4. /\ Chosen(args, environment, option) = environment[option]
      /\ Chosen(args, without, option) = args[option]
  BY <1>1, ChosenValue DEF Unset
<1>5. ASSUME NEW o \in Options \ {option}
      PROVE  Chosen(args, without, o) = Chosen(args, environment, o)
  BY <1>5, ChosenValue DEF Unset
<1>6. option \in overridden_flags(args, environment) <=>
        \/ Parse(option, args[option]) = {}
        \/ Parse(option, args[option]) # Parse(option, environment[option])
  BY <1>1, <1>3, <1>4 DEF overridden_flags
<1> DEFINE other == [o \in Options |-> Parse(o, Chosen(args, without, o))]
<1>7. resolve_config(args, without) = IF \E o \in Options : other[o] = {} THEN {} ELSE {other}
  BY DEF resolve_config
<1>8. CASE Parse(option, args[option]) = {}
  BY <1>1, <1>3, <1>4, <1>6, <1>7, <1>8
<1>9. CASE Parse(option, args[option]) # {}
  <2>1. \A o \in Options : other[o] # {}
    BY <1>1, <1>3, <1>4, <1>5, <1>9
  <2>2. resolve_config(args, without) = {other}
    BY <1>7, <2>1
  <2>3. other = config <=> Parse(option, args[option]) = Parse(option, environment[option])
    BY <1>1, <1>3, <1>4, <1>5
  <2>4. QED
    BY <1>3, <1>6, <1>9, <2>2, <2>3
<1>10. QED
  BY <1>8, <1>9

-----------------------------------------------------------------------------
(* Command lines and environments of processes.                            *)

Variables == UNION {[names -> STRING] : names \in SUBSET Options}

LEMMA Environment == \A e : IsEnvironment(e) <=> e \in Variables
BY DEF IsEnvironment, Variables

LEMMA WithType ==
  ASSUME NEW e \in Variables, NEW sets \in Variables
  PROVE  With(e, sets) \in Variables /\ (DOMAIN sets = {} => With(e, sets) = e)
<1>1. PICK names \in SUBSET Options : e \in [names -> STRING]
  BY DEF Variables
<1>2. PICK others \in SUBSET Options : sets \in [others -> STRING]
  BY DEF Variables
<1>3. With(e, sets) \in [names \cup others -> STRING]
  BY <1>1, <1>2 DEF With
<1>4. names \cup others \in SUBSET Options
  OBVIOUS
<1>5. DOMAIN sets = {} => With(e, sets) = e
  BY <1>1 DEF With
<1>6. QED
  BY <1>3, <1>4, <1>5 DEF Variables

\* Two words before the flags.
LEMMA TwoWords ==
  ASSUME NEW a \in Arguments, NEW b \in Arguments, NEW rest \in Seq(Arguments)
  PROVE  /\ <<a, b>> \o rest \in Seq(Arguments)
         /\ Len(<<a, b>> \o rest) = Len(rest) + 2
         /\ (<<a, b>> \o rest)[1] = a /\ (<<a, b>> \o rest)[2] = b
         /\ \A i \in 1..Len(rest) : (<<a, b>> \o rest)[i + 2] = rest[i]
         /\ \A i \in Nat \ {0} : SubSeq(<<a, b>> \o rest, i + 2, Len(rest) + 2) =
                                 SubSeq(rest, i, Len(rest))
<1> DEFINE all == <<a, b>> \o rest
<1>1. <<a, b>> \in Seq(Arguments) /\ Len(<<a, b>>) = 2
  OBVIOUS
<1>2. all \in Seq(Arguments) /\ Len(all) = Len(rest) + 2
  BY <1>1
<1>3. all[1] = a /\ all[2] = b
  BY <1>1
<1>4. ASSUME NEW i \in 1..Len(rest) PROVE all[i + 2] = rest[i]
  BY <1>1
<1>5. ASSUME NEW i \in Nat \ {0}
      PROVE  SubSeq(all, i + 2, Len(rest) + 2) = SubSeq(rest, i, Len(rest))
  <2> DEFINE here == SubSeq(all, i + 2, Len(rest) + 2)
             there == SubSeq(rest, i, Len(rest))
  <2> HIDE DEF all
  <2>1. \A k \in i..Len(rest) : rest[k] \in Arguments
    OBVIOUS
  <2>2. /\ here \in Seq(Arguments) /\ there \in Seq(Arguments)
        /\ Len(here) = Len(there)
        /\ Len(there) = IF i <= Len(rest) THEN Len(rest) - i + 1 ELSE 0
        /\ \A k \in 1..(Len(rest) - i + 1) :
             here[k] = all[i + 2 + k - 1] /\ there[k] = rest[i + k - 1]
    <3>1. /\ here \in Seq(Arguments)
          /\ Len(here) = IF i + 2 <= Len(rest) + 2 THEN Len(rest) + 2 - (i + 2) + 1 ELSE 0
          /\ \A k \in 1..(Len(rest) + 2 - (i + 2) + 1) : here[k] = all[i + 2 + k - 1]
      <4>1. i + 2 \in Int /\ Len(rest) + 2 \in Int
        OBVIOUS
      <4>2. \A k \in (i + 2)..(Len(rest) + 2) : all[k] \in Arguments
        BY <1>2
      <4>3. QED
        BY <4>1, <4>2, SubSeqProperties
    <3>2. /\ there \in Seq(Arguments)
          /\ Len(there) = IF i <= Len(rest) THEN Len(rest) - i + 1 ELSE 0
          /\ \A k \in 1..(Len(rest) - i + 1) : there[k] = rest[i + k - 1]
      <4>1. i \in Int /\ Len(rest) \in Int
        OBVIOUS
      <4>2. QED
        BY <2>1, <4>1, SubSeqProperties
    <3> HIDE DEF here, there
    <3>3. Len(rest) + 2 - (i + 2) + 1 = Len(rest) - i + 1 /\ (i + 2 <= Len(rest) + 2 <=> i <= Len(rest))
      OBVIOUS
    <3>4. QED
      BY <3>1, <3>2, <3>3
  <2> HIDE DEF here, there
  <2>3. ASSUME NEW k \in 1..Len(here) PROVE here[k] = there[k]
    <3>1. k \in 1..(Len(rest) - i + 1) /\ i + k - 1 \in 1..Len(rest)
          /\ i + 2 + k - 1 = (i + k - 1) + 2
      BY <2>2
    <3>2. QED
      BY <1>4, <2>2, <3>1
  <2>4. here = there
    BY <2>2, <2>3, SeqEqual
  <2>5. QED
    BY <2>4 DEF here, there
<1>6. QED
  BY <1>2, <1>3, <1>4, <1>5

LEMMA WordType == \A text \in STRING : Word(text) \in Arguments
BY DEF Word, Arguments

Wrapper(flags) == <<Word("docker-init"), Word("--")>> \o ExporterArgs(flags)

LEMMA ExporterArgsType ==
  ASSUME NEW flags \in Seq(Arguments)
  PROVE  /\ ExporterArgs(flags) \in Seq(Arguments)
         /\ Len(ExporterArgs(flags)) = Len(flags) + 2
         /\ SubSeq(ExporterArgs(flags), 3, Len(ExporterArgs(flags))) = flags
<1>1. /\ ExporterArgs(flags) \in Seq(Arguments) /\ Len(ExporterArgs(flags)) = Len(flags) + 2
      /\ \A i \in Nat \ {0} : SubSeq(ExporterArgs(flags), i + 2, Len(flags) + 2) =
                              SubSeq(flags, i, Len(flags))
  <2>1. Word("python") \in Arguments /\ Word("/app/app.py") \in Arguments
    <3>1. "python" \in STRING /\ "/app/app.py" \in STRING
      BY ScriptAssumption
    <3>2. QED
      BY <3>1, WordType
  <2>2. QED
    BY <2>1, TwoWords DEF ExporterArgs
<1>2. SubSeq(flags, 1, Len(flags)) = flags
  OBVIOUS
<1>3. SubSeq(ExporterArgs(flags), 3, Len(flags) + 2) = SubSeq(flags, 1, Len(flags))
  BY <1>1
<1>4. QED
  BY <1>1, <1>2, <1>3

\* The exporter is found by its script, the second of its words; docker-init by
\* the same one, two words later; a shell by neither of its own.
LEMMA ScriptFound ==
  ASSUME NEW flags \in Seq(Arguments)
  PROVE  LET args == ExporterArgs(flags)
         IN  ScriptAt(args) # {} /\ SubSeq(args, Min(ScriptAt(args)) + 1, Len(args)) = flags
<1> DEFINE args == ExporterArgs(flags)
           a == Word("python")
           b == Word("/app/app.py")
<1>0. args = <<a, b>> \o flags
  BY DEF ExporterArgs
<1>1. a \in Arguments /\ b \in Arguments
  BY ScriptAssumption, WordType
<1>2. args \in Seq(Arguments) /\ Len(args) \in Nat /\ Len(args) >= 2 /\ args[1] = a /\ args[2] = b
  BY <1>0, <1>1, TwoWords
<1>3. /\ a.value = "python" /\ b.value = "/app/app.py" /\ b.option = "none"
  BY DEF Word
<1> HIDE DEF a, b, args
<1>4. 2 \in ScriptAt(args) /\ 1 \notin ScriptAt(args) /\ ScriptAt(args) \subseteq Nat \ {0}
  BY <1>2, <1>3, ScriptAssumption DEF ScriptAt
<1>5. Min(ScriptAt(args)) = 2
  <2>1. Min(ScriptAt(args)) \in ScriptAt(args) /\ Min(ScriptAt(args)) <= 2
    BY <1>4, LeastExists
  <2>2. QED
    BY <1>4, <2>1
<1>6. SubSeq(args, 3, Len(args)) = flags
  BY ExporterArgsType DEF args
<1>7. QED
  BY <1>4, <1>5, <1>6 DEF args

LEMMA InitFound ==
  ASSUME NEW flags \in Seq(Arguments)
  PROVE  LET args == Wrapper(flags)
         IN  /\ args \in Seq(Arguments) /\ ScriptAt(args) # {}
             /\ SubSeq(args, Min(ScriptAt(args)) + 1, Len(args)) = flags
<1> DEFINE inner == ExporterArgs(flags)
           args == Wrapper(flags)
           a == Word("docker-init")
           b == Word("--")
<1>0. args = <<a, b>> \o inner
  BY DEF Wrapper
<1>1. a \in Arguments /\ b \in Arguments
  BY ScriptAssumption, WordType
<1>2. inner \in Seq(Arguments) /\ Len(inner) = Len(flags) + 2
      /\ SubSeq(inner, 3, Len(inner)) = flags
  BY ExporterArgsType
<1>3. inner[1] = Word("python") /\ inner[2] = Word("/app/app.py")
  <2>1. Word("python") \in Arguments /\ Word("/app/app.py") \in Arguments
    BY ScriptAssumption, WordType
  <2>2. QED
    BY <2>1, TwoWords DEF ExporterArgs
<1> HIDE DEF inner
<1>4. /\ args \in Seq(Arguments) /\ Len(args) = Len(inner) + 2 /\ args[1] = a /\ args[2] = b
      /\ \A i \in 1..Len(inner) : args[i + 2] = inner[i]
      /\ \A i \in Nat \ {0} : SubSeq(args, i + 2, Len(inner) + 2) = SubSeq(inner, i, Len(inner))
  BY <1>0, <1>1, <1>2, TwoWords
<1>5. Len(args) \in Nat /\ Len(args) >= 4 /\ args[3] = Word("python") /\ args[4] = Word("/app/app.py")
  <2>1. Len(flags) \in Nat /\ 1 \in 1..Len(inner) /\ 2 \in 1..Len(inner)
    BY <1>2
  <2>2. args[1 + 2] = inner[1] /\ args[2 + 2] = inner[2]
    BY <1>4, <2>1
  <2>3. QED
    BY <1>2, <1>3, <1>4, <2>1, <2>2
<1>6. /\ a.value = "docker-init" /\ b.value = "--" /\ Word("python").value = "python"
      /\ Word("/app/app.py").value = "/app/app.py" /\ Word("/app/app.py").option = "none"
  BY DEF Word
<1> HIDE DEF a, b, args
<1>7. /\ 4 \in ScriptAt(args) /\ ScriptAt(args) \subseteq Nat \ {0}
      /\ 1 \notin ScriptAt(args) /\ 2 \notin ScriptAt(args) /\ 3 \notin ScriptAt(args)
  BY <1>4, <1>5, <1>6, ScriptAssumption DEF ScriptAt
<1>8. Min(ScriptAt(args)) = 4
  <2>1. Min(ScriptAt(args)) \in ScriptAt(args) /\ Min(ScriptAt(args)) <= 4
    BY <1>7, LeastExists
  <2>2. QED
    BY <1>7, <2>1
<1>9. SubSeq(args, 5, Len(args)) = flags
  <2>1. \A i \in Nat \ {0} : SubSeq(args, i + 2, Len(args)) = SubSeq(inner, i, Len(inner))
    BY <1>4
  <2>2. 3 \in Nat \ {0} /\ 3 + 2 = 5
    OBVIOUS
  <2>3. SubSeq(args, 5, Len(args)) = SubSeq(inner, 3, Len(inner))
    BY <2>1, <2>2
  <2>4. QED
    BY <1>2, <2>3
<1>10. QED
  BY <1>4, <1>7, <1>8, <1>9 DEF args

LEMMA ShellPassed ==
  ASSUME NEW text \in STRING \ Scripts
  PROVE  LET args == <<Word("sh"), Word("-c"), Word(text)>>
         IN  args \in Seq(Arguments) /\ ScriptAt(args) = {}
<1> DEFINE args == <<Word("sh"), Word("-c"), Word(text)>>
<1>1. {Word("sh"), Word("-c"), Word(text)} \subseteq Arguments
  BY ScriptAssumption, WordType
<1>2. args \in Seq(Arguments)
  BY <1>1
<1>3. \A i \in DOMAIN args : args[i] \in {Word("sh"), Word("-c"), Word(text)}
  OBVIOUS
<1>4. \A i \in DOMAIN args : args[i].value \in {"sh", "-c", text}
  BY <1>3 DEF Word
<1>5. \A i \in DOMAIN args : args[i].value \notin Scripts
  BY <1>4, ScriptAssumption
<1>6. QED
  BY <1>2, <1>5 DEF ScriptAt

-----------------------------------------------------------------------------
(* The processes of the container.                                         *)

Stages == {"wrapper", "forked", "exporter", "serving", "check"}
Processes == [args: Seq(Arguments), env: Variables, stage: Stages, child: BOOLEAN,
              port: PortNumbers \cup {0}, warned: SUBSET Options]

\* A serving exporter has its port and its warnings from its own configuration.
Configured(p) ==
  \E args \in parse_args(SubSeq(p.args, 3, Len(p.args))) :
    /\ p.warned = overridden_flags(args, p.env)
    /\ \E config \in resolve_config(args, p.env) : config["metricsport"] = {p.port}

\* What stands at a stage of its life: a wrapper is PID 1 as the container started
\* it, and keeps its only child; what becomes of either is the exporter configured.
ProcessInv(pid, p) ==
  /\ p.stage = "wrapper" => pid = 1 /\ p = First
  /\ p.stage = "forked" => p.child
  /\ p.child => /\ pid # 1 /\ procs[1].stage = "wrapper" /\ ~command.execs
                /\ p.stage \in {"forked", "exporter", "serving"}
                /\ \A other \in DOMAIN procs : procs[other].child => other = pid
  /\ p.stage \in {"exporter", "serving"} => \E flags \in Seq(Arguments) : p.args = ExporterArgs(flags)
  /\ p.stage \in {"exporter", "serving"} /\ (pid = 1 \/ p.child) =>
       p.args = ExporterArgs(command.flags) /\ p.env = With(env, command.sets)
  /\ p.stage = "serving" => Configured(p)
  /\ p.stage = "check" => pid = own_pid

ContainerType ==
  /\ command \in Commands /\ env \in Environments
  /\ procs \in [DOMAIN procs -> Processes] /\ 1 \in DOMAIN procs
  /\ next_pid \in 2..(MaxPid + 1) /\ DOMAIN procs \subseteq 1..(next_pid - 1)

CheckType ==
  /\ phase \in {"idle", "list", "cmdline", "environ", "found", "probe", "done"}
  /\ scan \in {1, 2} /\ (phase = "idle" => scan = 1)
  /\ entries \subseteq 1..MaxPid /\ DOMAIN found = {"pid", "argv", "env"}
  /\ port \in PortNumbers \cup {0} /\ verdict \in {None, "healthy", "unhealthy"}
  /\ IF phase = "idle" THEN own_pid = None ELSE own_pid \in 1..(next_pid - 1)
  /\ steady # None => steady \in Serving /\ phase # "idle" /\ steady < own_pid

ContainerInv ==
  ContainerType /\ CheckType /\ \A pid \in DOMAIN procs : ProcessInv(pid, procs[pid])

\* The wrappers' own command lines.
LEMMA FirstProcess ==
  ASSUME command \in Commands, env \in Environments
  PROVE  /\ First \in Processes /\ First.child = FALSE /\ First.port = 0
         /\ First.stage \in {"wrapper", "exporter"} /\ env \in Variables
         /\ First.stage = "exporter" =>
              First.args = ExporterArgs(command.flags) /\ First.env = With(env, command.sets)
<1>1. /\ command.wrapper \in {"none", "init", "shell"} /\ command.text \in STRING
      /\ command.flags \in Seq(Arguments) /\ command.sets \in Variables
      /\ command.wrapper # "shell" => DOMAIN command.sets = {}
      /\ env \in Variables
  BY CommandAssumption, Environment
<1>2. ASSUME NEW args \in Seq(Arguments), NEW stage \in Stages
      PROVE  /\ Process(args, env, stage) \in Processes
             /\ Process(args, env, stage).child = FALSE /\ Process(args, env, stage).port = 0
             /\ Process(args, env, stage).stage = stage
             /\ Process(args, env, stage).args = args /\ Process(args, env, stage).env = env
  BY <1>1 DEF Process, Processes
<1>3. CASE command.wrapper = "none"
  <2>1. First = Process(ExporterArgs(command.flags), env, "exporter")
    BY <1>3, Zenon DEF First
  <2>2. ExporterArgs(command.flags) \in Seq(Arguments) /\ "exporter" \in Stages
    BY <1>1, ExporterArgsType DEF Stages
  <2>3. With(env, command.sets) = env
    BY <1>1, <1>3, WithType
  <2>4. /\ First \in Processes /\ First.child = FALSE /\ First.port = 0
        /\ First.stage = "exporter" /\ First.args = ExporterArgs(command.flags)
        /\ First.env = env
    BY <1>2, <2>1, <2>2
  <2>5. QED
    BY <1>1, <2>3, <2>4
<1>4. CASE command.wrapper = "init"
  <2>1. First = Process(Wrapper(command.flags), env, "wrapper")
    BY <1>4, Zenon DEF First, Wrapper
  <2>2. Wrapper(command.flags) \in Seq(Arguments) /\ "wrapper" \in Stages
    BY <1>1, InitFound DEF Stages
  <2>3. /\ First \in Processes /\ First.child = FALSE /\ First.port = 0
        /\ First.stage = "wrapper"
    BY <1>2, <2>1, <2>2
  <2>4. QED
    BY <1>1, <2>3
<1>5. CASE command.wrapper = "shell"
  <2> DEFINE args == <<Word("sh"), Word("-c"), Word(command.text)>>
  <2>1. First = Process(args, env, "wrapper")
    BY <1>5, Zenon DEF First
  <2>2. args \in Seq(Arguments)
    <3>1. {Word("sh"), Word("-c"), Word(command.text)} \subseteq Arguments
      BY <1>1, ScriptAssumption, WordType
    <3>2. QED
      BY <3>1
  <2>3. "wrapper" \in Stages
    BY DEF Stages
  <2> HIDE DEF args
  <2>4. /\ First \in Processes /\ First.child = FALSE /\ First.port = 0
        /\ First.stage = "wrapper"
    BY <1>2, <2>1, <2>2, <2>3
  <2>5. QED
    BY <1>1, <2>4
<1>6. QED
  BY <1>1, <1>3, <1>4, <1>5

\* What execve and the bound port make of a process.
Execs(p, q, args, e) == q = [p EXCEPT !.args = args, !.env = e, !.stage = "exporter"]
Binds(p, q, number, flags) ==
  q = [p EXCEPT !.stage = "serving", !.port = number, !.warned = flags]

LEMMA Execed ==
  ASSUME NEW p \in Processes, NEW q, NEW args \in Seq(Arguments), NEW e \in Variables,
         Execs(p, q, args, e)
  PROVE  /\ q \in Processes /\ q.stage = "exporter" /\ q.child = p.child
         /\ q.args = args /\ q.env = e
BY DEF Processes, Stages, Execs

LEMMA Bound ==
  ASSUME NEW p \in Processes, NEW q, NEW number \in PortNumbers, NEW flags \in SUBSET Options,
         Binds(p, q, number, flags)
  PROVE  /\ q \in Processes /\ q.stage = "serving" /\ q.child = p.child
         /\ q.args = p.args /\ q.env = p.env /\ q.port = number /\ q.warned = flags
BY DEF Processes, Stages, Binds

\* A process joins.
LEMMA Joins ==
  ASSUME ContainerType, NEW p \in Processes, New(p)
  PROVE  /\ procs' \in [DOMAIN procs' -> Processes]
         /\ next_pid \notin DOMAIN procs /\ DOMAIN procs' = DOMAIN procs \cup {next_pid}
         /\ procs'[next_pid] = p /\ \A pid \in DOMAIN procs : procs'[pid] = procs[pid]
         /\ next_pid' \in 2..(MaxPid + 1) /\ DOMAIN procs' \subseteq 1..(next_pid' - 1)
         /\ next_pid \in Nat /\ next_pid > 1 /\ next_pid <= MaxPid
         /\ next_pid' = next_pid + 1
<1>1. next_pid \in 2..(MaxPid + 1) /\ MaxPid \in Nat /\ next_pid <= MaxPid /\ next_pid' = next_pid + 1
  BY PidAssumption DEF ContainerType, New
<1>2. next_pid \notin DOMAIN procs
  BY <1>1 DEF ContainerType
<1>3. procs' = [pid \in DOMAIN procs \cup {next_pid} |-> IF pid = next_pid THEN p ELSE procs[pid]]
  BY DEF New
<1>4. DOMAIN procs' \subseteq 1..(next_pid' - 1)
  BY <1>1, <1>3 DEF ContainerType
<1>5. QED
  BY <1>1, <1>2, <1>3, <1>4 DEF ContainerType

\* A process goes.
LEMMA Goes ==
  ASSUME ContainerType, NEW pid \in DOMAIN procs, pid # 1, procs' = Gone({pid}),
         UNCHANGED <<command, env, next_pid>>
  PROVE  /\ ContainerType' /\ DOMAIN procs' \subseteq DOMAIN procs
         /\ \A other \in DOMAIN procs : other # pid => other \in DOMAIN procs'
         /\ \A other \in DOMAIN procs' : procs'[other] = procs[other]
BY DEF ContainerType, Gone

\* What stands for a process goes on standing while nothing it speaks of changes.
LEMMA Unmoved ==
  ASSUME ContainerInv, UNCHANGED <<command, env>>,
         NEW pid \in DOMAIN procs, pid \in DOMAIN procs', procs'[pid] = procs[pid],
         procs[pid].stage = "check" => own_pid' = own_pid,
         procs[pid].child =>
           /\ procs'[1].stage = procs[1].stage
           /\ \A other \in DOMAIN procs' : procs'[other].child =>
                other \in DOMAIN procs /\ procs[other].child
  PROVE  ProcessInv(pid, procs[pid])'
<1>1. ProcessInv(pid, procs[pid])
  BY DEF ContainerInv
<1>2. First' = First
  BY DEF First
<1>3. QED
  BY <1>1, <1>2 DEF ProcessInv

-----------------------------------------------------------------------------
(* Every step of the container keeps ContainerInv.                         *)

\* The check stands still while a process of the container takes a step.
LEMMA CheckStays ==
  ASSUME ContainerInv, UNCHANGED checkVars, next_pid' \in {next_pid, next_pid + 1},
         steady' \in {steady, None},
         steady' # None => steady \in DOMAIN procs' /\ procs'[steady] = procs[steady]
  PROVE  CheckType'
<1>1. CheckType /\ next_pid \in Nat
  BY DEF ContainerInv, ContainerType
<1>2. IF phase = "idle" THEN own_pid = None ELSE own_pid \in 1..(next_pid' - 1)
  BY <1>1 DEF CheckType
<1>3. steady' # None => steady' \in Serving'
  BY <1>1 DEF CheckType, Serving
<1>4. QED
  BY <1>1, <1>2, <1>3 DEF CheckType, checkVars

LEMMA ForkKeeps ==
  ASSUME ContainerInv, Fork
  PROVE  ContainerInv'
<1> DEFINE p == [procs[1] EXCEPT !.stage = "forked", !.child = TRUE]
<1>1. /\ New(p) /\ UNCHANGED <<command, env, checkVars, steady>>
      /\ procs[1].stage = "wrapper" /\ ~command.execs
      /\ ~\E pid \in DOMAIN procs : procs[pid].child
  BY DEF Fork
<1>2. ContainerType /\ CheckType
  BY DEF ContainerInv
<1>3. /\ p \in Processes /\ p.stage = "forked" /\ p.child = TRUE
  <2>1. procs[1] \in Processes
    BY <1>2 DEF ContainerType
  <2>2. QED
    BY <2>1 DEF Processes, Stages
<1> HIDE DEF p
<1>4. /\ procs' \in [DOMAIN procs' -> Processes]
      /\ next_pid \notin DOMAIN procs /\ DOMAIN procs' = DOMAIN procs \cup {next_pid}
      /\ procs'[next_pid] = p /\ \A pid \in DOMAIN procs : procs'[pid] = procs[pid]
      /\ next_pid' \in 2..(MaxPid + 1) /\ DOMAIN procs' \subseteq 1..(next_pid' - 1)
      /\ next_pid \in Nat /\ next_pid > 1 /\ next_pid' = next_pid + 1
  BY <1>1, <1>2, <1>3, Joins
<1>5. ContainerType'
  BY <1>1, <1>2, <1>4 DEF ContainerType
<1>6. CheckType'
  BY <1>1, <1>2, <1>4, CheckStays DEF CheckType, Serving
<1>7. ASSUME NEW pid \in DOMAIN procs'
      PROVE  ProcessInv(pid, procs[pid])'
  <2>1. CASE pid = next_pid
    BY <1>1, <1>2, <1>3, <1>4, <2>1 DEF ProcessInv, ContainerType
  <2>2. CASE pid # next_pid
    BY <1>1, <1>4, <2>2, Unmoved DEF checkVars
  <2>3. QED
    BY <2>1, <2>2
<1>8. QED
  BY <1>5, <1>6, <1>7 DEF ContainerInv

\* What becomes an exporter by execve.
LEMMA ExecKeeps ==
  ASSUME ContainerInv, Exec
  PROVE  ContainerInv'
<1>1. PICK pid \in DOMAIN procs :
        /\ procs[pid].stage = IF command.execs THEN "wrapper" ELSE "forked"
        /\ procs' = [procs EXCEPT ![pid].args = ExporterArgs(command.flags),
                                  ![pid].env = With(env, command.sets),
                                  ![pid].stage = "exporter"]
  BY DEF Exec
<1>2. UNCHANGED <<command, env, next_pid, checkVars, steady>>
  BY DEF Exec
<1>3. ContainerType /\ CheckType /\ ProcessInv(pid, procs[pid])
  BY DEF ContainerInv
<1>4. /\ command.flags \in Seq(Arguments) /\ ExporterArgs(command.flags) \in Seq(Arguments)
      /\ With(env, command.sets) \in Variables
  <2>1. command.flags \in Seq(Arguments) /\ env \in Variables /\ command.sets \in Variables
    BY <1>3, CommandAssumption, Environment DEF ContainerType
  <2>2. QED
    BY <2>1, ExporterArgsType, WithType
<1> DEFINE p == procs'[pid]
<1>5. /\ p \in Processes /\ p.stage = "exporter" /\ p.child = procs[pid].child
      /\ p.args = ExporterArgs(command.flags) /\ p.env = With(env, command.sets)
  <2>1. procs[pid] \in Processes
    BY <1>3 DEF ContainerType
  <2>2. Execs(procs[pid], p, ExporterArgs(command.flags), With(env, command.sets))
    BY <1>1, <1>3 DEF ContainerType, Execs
  <2> HIDE DEF p
  <2>3. QED
    BY <1>4, <2>1, <2>2, Execed
<1>6. /\ DOMAIN procs' = DOMAIN procs
      /\ \A other \in DOMAIN procs : other # pid => procs'[other] = procs[other]
  BY <1>1, <1>3 DEF ContainerType
<1> HIDE DEF p
<1>7. ContainerType'
  <2>1. \A other \in DOMAIN procs : procs'[other] \in Processes
    BY <1>3, <1>5, <1>6 DEF ContainerType, p
  <2>2. procs' = [other \in DOMAIN procs' |-> procs'[other]]
    BY <1>1
  <2>3. QED
    BY <1>2, <1>3, <1>6, <2>1, <2>2 DEF ContainerType
<1>8. CheckType'
  <2>1. steady # None => steady # pid
    BY <1>1, <1>3 DEF CheckType, Serving
  <2>2. QED
    BY <1>2, <1>3, <1>6, <2>1, CheckStays DEF CheckType, Serving, ContainerType
<1>9. ASSUME NEW other \in DOMAIN procs'
      PROVE  ProcessInv(other, procs[other])'
  <2>1. CASE command.execs
    <3>1. pid = 1 /\ procs[pid].child = FALSE /\ \A q \in DOMAIN procs : ~procs[q].child
      BY <1>1, <1>3, <2>1, FirstProcess DEF ContainerInv, ContainerType, ProcessInv
    <3>2. CASE other = pid
      BY <1>2, <1>4, <1>5, <1>6, <3>1, <3>2 DEF ProcessInv, p
    <3>3. CASE other # pid
      BY <1>2, <1>6, <3>1, <3>3, Unmoved DEF checkVars
    <3>4. QED
      BY <3>2, <3>3
  <2>2. CASE ~command.execs
    <3>1. /\ procs[pid].child /\ pid # 1 /\ procs[1].stage = "wrapper" /\ 1 \in DOMAIN procs
          /\ \A q \in DOMAIN procs : procs[q].child => q = pid
      BY <1>1, <1>3, <2>2 DEF ProcessInv, ContainerType
    <3>2. CASE other = pid
      <4>1. \A q \in DOMAIN procs' : procs'[q].child => q = pid
        BY <1>6, <3>1
      <4>2. procs'[1].stage = "wrapper"
        BY <1>6, <3>1
      <4>3. QED
        BY <1>2, <1>4, <1>5, <2>2, <3>1, <3>2, <4>1, <4>2 DEF ProcessInv, p
    <3>3. CASE other # pid
      BY <1>2, <1>6, <3>1, <3>3, Unmoved DEF checkVars
    <3>4. QED
      BY <3>2, <3>3
  <2>3. QED
    BY <2>1, <2>2
<1>10. QED
  BY <1>7, <1>8, <1>9 DEF ContainerInv

\* A new process that has done nothing yet, and no child of PID 1, joins.
LEMMA JoinKeeps ==
  ASSUME ContainerInv, NEW p \in Processes, New(p), ~p.child,
         UNCHANGED <<command, env>>, own_pid' \in {own_pid, next_pid},
         own_pid = None \/ own_pid' = own_pid,
         \/ p.stage = "exporter" /\ \E flags \in Seq(Arguments) : p.args = ExporterArgs(flags)
         \/ p.stage = "check" /\ own_pid' = next_pid
  PROVE  ContainerType' /\ \A pid \in DOMAIN procs' : ProcessInv(pid, procs[pid])'
<1>1. ContainerType /\ CheckType
  BY DEF ContainerInv
<1>2. /\ procs' \in [DOMAIN procs' -> Processes]
      /\ next_pid \notin DOMAIN procs /\ DOMAIN procs' = DOMAIN procs \cup {next_pid}
      /\ procs'[next_pid] = p /\ \A pid \in DOMAIN procs : procs'[pid] = procs[pid]
      /\ next_pid' \in 2..(MaxPid + 1) /\ DOMAIN procs' \subseteq 1..(next_pid' - 1)
      /\ next_pid \in Nat /\ next_pid > 1 /\ next_pid <= MaxPid /\ next_pid' = next_pid + 1
  BY <1>1, Joins
<1>3. ContainerType'
  BY <1>1, <1>2 DEF ContainerType
<1>4. ASSUME NEW pid \in DOMAIN procs'
      PROVE  ProcessInv(pid, procs[pid])'
  <2>1. CASE pid = next_pid
    BY <1>2, <2>1 DEF ProcessInv
  <2>2. CASE pid # next_pid
    <3>1. pid \in DOMAIN procs /\ procs'[pid] = procs[pid] /\ 1 \in DOMAIN procs
      BY <1>1, <1>2, <2>2 DEF ContainerType
    <3>2. procs[pid].stage = "check" => own_pid' = own_pid
      <4>1. procs[pid].stage = "check" => pid = own_pid
        BY <3>1 DEF ContainerInv, ProcessInv
      <4>2. pid \in Nat
        BY <1>1, <3>1 DEF ContainerType
      <4>3. QED
        BY <4>1, <4>2, PidAssumption
    <3>3. /\ procs'[1].stage = procs[1].stage
          /\ \A other \in DOMAIN procs' : procs'[other].child =>
               other \in DOMAIN procs /\ procs[other].child
      BY <1>2, <3>1
    <3>4. QED
      BY <3>1, <3>2, <3>3, <1>2, Unmoved
  <2>3. QED
    BY <2>1, <2>2
<1>5. QED
  BY <1>3, <1>4

LEMMA StartAnotherKeeps ==
  ASSUME ContainerInv, StartAnother
  PROVE  ContainerInv'
<1>1. PICK flags \in Others : New(Process(ExporterArgs(flags), env, "exporter"))
  BY DEF StartAnother
<1>2. UNCHANGED <<command, env, checkVars, steady>>
  BY DEF StartAnother
<1>3. ContainerType /\ CheckType
  BY DEF ContainerInv
<1> DEFINE p == Process(ExporterArgs(flags), env, "exporter")
<1>4. flags \in Seq(Arguments) /\ ExporterArgs(flags) \in Seq(Arguments) /\ env \in Variables
  BY <1>3, CommandAssumption, ExporterArgsType, Environment DEF ContainerType
<1>5. /\ p \in Processes /\ p.stage = "exporter" /\ p.child = FALSE
      /\ p.args = ExporterArgs(flags)
  BY <1>4 DEF Process, Processes, Stages
<1>6. New(p)
  BY <1>1
<1> HIDE DEF p
<1>7. ContainerType' /\ \A pid \in DOMAIN procs' : ProcessInv(pid, procs[pid])'
  BY <1>2, <1>4, <1>5, <1>6, JoinKeeps DEF checkVars
<1>8. CheckType'
  <2>1. DOMAIN procs \subseteq DOMAIN procs' /\ \A pid \in DOMAIN procs : procs'[pid] = procs[pid]
    BY <1>3, <1>5, <1>6, Joins
  <2>2. next_pid' = next_pid + 1
    BY <1>6 DEF New
  <2>3. QED
    BY <1>2, <1>3, <2>1, <2>2, CheckStays DEF CheckType, Serving
<1>9. QED
  BY <1>7, <1>8 DEF ContainerInv

\* An exporter or a serving one exits.
LEMMA GoneKeeps ==
  ASSUME ContainerInv, NEW pid \in DOMAIN procs, MayExit(pid), procs' = Gone({pid}),
         UNCHANGED <<command, env, next_pid, checkVars>>, steady' \in {steady, None},
         steady = pid => steady' = None
  PROVE  ContainerInv'
<1>1. ContainerType /\ CheckType /\ pid # 1
  BY DEF ContainerInv, MayExit
<1>2. /\ ContainerType' /\ DOMAIN procs' \subseteq DOMAIN procs
      /\ \A other \in DOMAIN procs : other # pid => other \in DOMAIN procs'
      /\ \A other \in DOMAIN procs' : procs'[other] = procs[other]
  BY <1>1, Goes
<1>3. CheckType'
  BY <1>1, <1>2, CheckStays DEF CheckType, Serving
<1>4. ASSUME NEW other \in DOMAIN procs'
      PROVE  ProcessInv(other, procs[other])'
  <2>1. 1 \in DOMAIN procs'
    BY <1>2 DEF ContainerType
  <2>2. QED
    BY <1>2, <2>1, Unmoved DEF checkVars
<1>5. QED
  BY <1>2, <1>3, <1>4 DEF ContainerInv

LEMMA ExitKeeps ==
  ASSUME ContainerInv, Exit
  PROVE  ContainerInv'
BY GoneKeeps DEF Exit

\* What a serving exporter has of its own arguments.
LEMMA ExporterServes ==
  ASSUME ContainerInv, NEW pid \in DOMAIN procs, procs[pid].stage = "exporter",
         NEW args \in parse_args(Argv(pid)),
         NEW config \in UNION {resolve_config(a, procs[pid].env) : a \in parse_args(Argv(pid))}
  PROVE  /\ config \in resolve_config(args, procs[pid].env)
         /\ \E p \in PortNumbers : config["metricsport"] = {p}
         /\ overridden_flags(args, procs[pid].env) \subseteq Options
<1>1. PICK flags \in Seq(Arguments) : procs[pid].args = ExporterArgs(flags)
  BY DEF ContainerInv, ProcessInv
<1>2. Argv(pid) = flags
  BY <1>1, ExporterArgsType DEF Argv
<1>3. parse_args(Argv(pid)) = {args} /\ DOMAIN args \subseteq Options
  BY <1>2, ParsedArguments
<1>4. config \in resolve_config(args, procs[pid].env)
  BY <1>3
<1>5. QED
  BY <1>3, <1>4, Resolved DEF overridden_flags

LEMMA ServeKeeps ==
  ASSUME ContainerInv, Serve
  PROVE  ContainerInv'
<1> DEFINE Configs(pid) == UNION {resolve_config(a, procs[pid].env) : a \in parse_args(Argv(pid))}
<1>1. PICK pid \in DOMAIN procs :
        /\ procs[pid].stage = "exporter"
        /\ \/ \E config \in Configs(pid), a \in parse_args(Argv(pid)) :
                procs' = [procs EXCEPT ![pid].stage = "serving",
                            ![pid].port = CHOOSE p \in config["metricsport"] : TRUE,
                            ![pid].warned = overridden_flags(a, procs[pid].env)]
           \/ MayExit(pid) /\ procs' = Gone({pid})
  BY DEF Serve
<1>2. UNCHANGED <<command, env, next_pid, checkVars, steady>>
  BY DEF Serve
<1>3. ContainerType /\ CheckType /\ ProcessInv(pid, procs[pid])
  BY DEF ContainerInv
<1>4. steady # None => steady \in DOMAIN procs /\ steady # pid
  BY <1>1, <1>3 DEF CheckType, Serving
<1>5. CASE MayExit(pid) /\ procs' = Gone({pid})
  <2>1. steady = pid => steady' = None
    BY <1>2, <1>4
  <2>2. QED
    BY <1>2, <1>5, <2>1, GoneKeeps
<1>6. ASSUME NEW config \in Configs(pid), NEW a \in parse_args(Argv(pid)),
             procs' = [procs EXCEPT ![pid].stage = "serving",
                         ![pid].port = CHOOSE p \in config["metricsport"] : TRUE,
                         ![pid].warned = overridden_flags(a, procs[pid].env)]
      PROVE  ContainerInv'
  <2>1. /\ config \in resolve_config(a, procs[pid].env)
        /\ overridden_flags(a, procs[pid].env) \subseteq Options
    BY <1>1, ExporterServes
  <2>2. PICK number \in PortNumbers : config["metricsport"] = {number}
    BY <1>1, ExporterServes
  <2>3. (CHOOSE p \in config["metricsport"] : TRUE) = number
    BY <2>2
  <2> DEFINE p == procs'[pid]
  <2>4. /\ p \in Processes /\ p.stage = "serving" /\ p.child = procs[pid].child
        /\ p.args = procs[pid].args /\ p.env = procs[pid].env
        /\ p.port = number /\ p.warned = overridden_flags(a, procs[pid].env)
    <3>1. procs[pid] \in Processes
      BY <1>3 DEF ContainerType
    <3>2. Binds(procs[pid], p, number, overridden_flags(a, procs[pid].env))
      BY <1>3, <1>6, <2>3 DEF ContainerType, Binds
    <3> HIDE DEF p
    <3>3. QED
      BY <2>1, <2>2, <3>1, <3>2, Bound
  <2>5. /\ DOMAIN procs' = DOMAIN procs
        /\ \A other \in DOMAIN procs : other # pid => procs'[other] = procs[other]
    BY <1>3, <1>6 DEF ContainerType
  <2>6. procs' = [other \in DOMAIN procs' |-> procs'[other]]
    <3> DEFINE serving == [[[procs EXCEPT ![pid].stage = "serving"]
                              EXCEPT ![pid].port = number]
                              EXCEPT ![pid].warned = overridden_flags(a, procs[pid].env)]
    <3>1. procs' = serving
      BY <1>6, <2>3
    <3>2. serving = [other \in DOMAIN serving |-> serving[other]]
      OBVIOUS
    <3> HIDE DEF serving
    <3>3. QED
      BY <3>1, <3>2
  <2> HIDE DEF p
  <2>7. ContainerType'
    <3>1. \A other \in DOMAIN procs : procs'[other] \in Processes
      BY <1>3, <2>4, <2>5 DEF ContainerType, p
    <3>2. QED
      BY <1>2, <1>3, <2>5, <2>6, <3>1 DEF ContainerType
  <2>8. CheckType'
    BY <1>2, <1>3, <1>4, <2>5, CheckStays DEF ContainerType
  <2>9. ASSUME NEW other \in DOMAIN procs'
        PROVE  ProcessInv(other, procs[other])'
    <3>1. /\ \A q \in DOMAIN procs' : procs'[q].child => procs[q].child
          /\ procs'[1].stage = "wrapper" \/ procs[1].stage # "wrapper"
      BY <1>1, <1>3, <2>4, <2>5 DEF ContainerType, p
    <3>2. CASE other = pid
      <4>1. Configured(p)
        BY <2>1, <2>2, <2>4 DEF Configured, Argv
      <4>2. /\ p.child => pid # 1 /\ procs'[1].stage = "wrapper" /\ ~command.execs
            /\ \A q \in DOMAIN procs' : p.child /\ procs'[q].child => q = pid
        BY <1>3, <2>4, <2>5, <3>1 DEF ProcessInv
      <4>3. /\ \E flags \in Seq(Arguments) : p.args = ExporterArgs(flags)
            /\ pid = 1 \/ p.child =>
                 p.args = ExporterArgs(command.flags) /\ p.env = With(env, command.sets)
        BY <1>1, <1>3, <2>4 DEF ProcessInv
      <4>4. ProcessInv(pid, procs[pid])'
        <5>1. Configured(procs[pid])'
          BY <4>1 DEF p, Configured
        <5>2. QED
          BY <1>2, <2>4, <4>2, <4>3, <5>1 DEF ProcessInv, p
      <4>5. QED
        BY <3>2, <4>4
    <3>3. CASE other # pid
      <4>1. procs[other].child => procs'[1].stage = procs[1].stage
        <5>1. procs[other].child => procs[1].stage = "wrapper"
          BY <2>5 DEF ContainerInv, ProcessInv
        <5>2. QED
          BY <3>1, <5>1
      <4>2. QED
        BY <1>2, <2>5, <3>1, <3>3, <4>1, Unmoved DEF checkVars
    <3>4. QED
      BY <3>2, <3>3
  <2>10. QED
    BY <2>7, <2>8, <2>9 DEF ContainerInv
<1>7. QED
  BY <1>1, <1>5, <1>6

\* What there is when the check begins: the exporter it will follow, and nothing
\* before it but its wrapper.
LEMMA BeginsAhead ==
  ASSUME ContainerInv, phase = "idle", Running # {}, Min(Running) \in Own,
         NEW pid \in DOMAIN procs, pid < Min(Running)
  PROVE  pid = 1 /\ procs[1].stage = "wrapper" /\ ~command.execs
<1> DEFINE least == Min(Running)
<1>1. ContainerType /\ CheckType /\ ProcessInv(pid, procs[pid]) /\ ProcessInv(least, procs[least])
  BY DEF ContainerInv, Own, Serving
<1>2. Running \subseteq Nat /\ DOMAIN procs \subseteq Nat /\ 1 \in DOMAIN procs
  BY <1>1 DEF ContainerType, Running
<1>3. least \in Running /\ (\A other \in Running : least <= other) /\ pid < least
  BY <1>2, LeastExists
<1> HIDE DEF least
<1>4. pid \notin Running /\ pid \in Nat /\ least \in Nat /\ pid < least
  <2>1. pid \in Nat /\ least \in Nat
    BY <1>2, <1>3
  <2>2. QED
    BY <1>3, <2>1
<1>5. procs[pid].stage \in {"wrapper", "forked", "check"}
  BY <1>1, <1>4 DEF Running, ContainerType, Processes, Stages
<1>6. procs[pid].stage # "check"
  <2>1. own_pid = None
    BY <1>1 DEF CheckType
  <2>2. QED
    BY <1>1, <1>4, <2>1, PidAssumption DEF ProcessInv
<1>7. least \in DOMAIN procs /\ least # 1 /\ procs[least].child
  <2>1. 1 <= pid
    BY <1>1 DEF ContainerType
  <2>2. QED
    BY <1>4, <2>1 DEF Own, least
<1>8. /\ procs[1].stage = "wrapper" /\ ~command.execs
      /\ \A other \in DOMAIN procs : procs[other].child => other = least
  BY <1>1, <1>7 DEF ProcessInv
<1>9. procs[pid].stage # "forked"
  BY <1>1, <1>4, <1>8 DEF ProcessInv
<1>10. QED
  BY <1>1, <1>5, <1>6, <1>8, <1>9 DEF ProcessInv

LEMMA BeginKeeps ==
  ASSUME ContainerInv, Begin
  PROVE  ContainerInv'
<1> DEFINE p == Process(<<Word("python"), Word("/app/healthcheck.py")>>, env, "check")
<1>1. /\ phase = "idle" /\ New(p) /\ own_pid' = next_pid /\ phase' = "list"
      /\ steady' = IF Running # {} /\ Min(Running) \in Own \cap Serving
                   THEN Min(Running) ELSE None
      /\ UNCHANGED <<command, env, scan, entries, found, secrets, port, verdict, output>>
  BY DEF Begin
<1>2. ContainerType /\ CheckType /\ own_pid = None
  BY <1>1 DEF ContainerInv, CheckType
<1>3. p \in Processes /\ p.stage = "check" /\ p.child = FALSE
  <2>1. {Word("python"), Word("/app/healthcheck.py")} \subseteq Arguments
    BY ScriptAssumption, WordType
  <2>2. <<Word("python"), Word("/app/healthcheck.py")>> \in Seq(Arguments) /\ env \in Variables
    BY <1>2, <2>1, CommandAssumption, Environment DEF ContainerType
  <2>3. QED
    BY <2>2 DEF Process, Processes, Stages
<1> HIDE DEF p
<1>4. ContainerType' /\ \A pid \in DOMAIN procs' : ProcessInv(pid, procs[pid])'
  BY <1>1, <1>2, <1>3, JoinKeeps
<1>5. /\ next_pid \in Nat /\ next_pid' = next_pid + 1 /\ next_pid > 1
      /\ DOMAIN procs \subseteq DOMAIN procs' /\ \A pid \in DOMAIN procs : procs'[pid] = procs[pid]
  BY <1>1, <1>2, <1>3, Joins
<1>6. steady' # None => steady' \in Serving /\ steady' < next_pid
  BY <1>1, <1>2 DEF Serving, ContainerType
<1>7. CheckType'
  <2>1. steady' # None => steady' \in Serving'
    BY <1>5, <1>6 DEF Serving
  <2>2. own_pid' \in 1..(next_pid' - 1)
    BY <1>1, <1>5
  <2>3. QED
    BY <1>1, <1>2, <1>6, <2>1, <2>2 DEF CheckType
<1>8. QED
  BY <1>4, <1>7 DEF ContainerInv

\* The check itself only reads.
LEMMA ReadKeeps ==
  ASSUME ContainerInv,
         UNCHANGED <<containerVars, own_pid, steady>>, phase # "idle",
         phase' \in {"list", "cmdline", "environ", "found", "probe", "done"},
         scan' \in {1, 2}, entries' \subseteq 1..MaxPid, DOMAIN found' = {"pid", "argv", "env"},
         port' \in PortNumbers \cup {0}, verdict' \in {None, "healthy", "unhealthy"}
  PROVE  ContainerInv'
<1>1. ContainerType' /\ CheckType'
  <2>1. Serving' = Serving
    BY DEF Serving, containerVars
  <2>2. QED
    BY <2>1 DEF ContainerInv, ContainerType, CheckType, containerVars
<1>2. ASSUME NEW pid \in DOMAIN procs'
      PROVE  ProcessInv(pid, procs[pid])'
  BY Unmoved DEF containerVars
<1>3. QED
  BY <1>1, <1>2 DEF ContainerInv

\* The configurations an accepted command line resolves to name ports.
LEMMA PortsNamed ==
  ASSUME NEW argv, NEW environment
  PROVE  UNION {config["metricsport"] : config \in
           UNION {resolve_config(args, environment) : args \in parse_args(argv)}}
             \subseteq PortNumbers
BY Resolved

LEMMA CheckKeeps ==
  ASSUME ContainerInv, Check
  PROVE  ContainerInv'
<1>1. ContainerType /\ CheckType
  BY DEF ContainerInv
<1>2. /\ scan \in {1, 2} /\ entries \subseteq 1..MaxPid /\ DOMAIN found = {"pid", "argv", "env"}
      /\ port \in PortNumbers \cup {0} /\ verdict \in {None, "healthy", "unhealthy"}
      /\ DOMAIN procs \subseteq 1..MaxPid
  <2>1. next_pid - 1 \in Nat /\ next_pid - 1 <= MaxPid /\ MaxPid \in Nat
    BY <1>1, PidAssumption DEF ContainerType
  <2>2. QED
    BY <1>1, <2>1 DEF CheckType, ContainerType
<1>3. CASE Begin
  BY <1>3, BeginKeeps
<1>4. CASE List
  BY <1>2, <1>4, ReadKeeps DEF List, Nobody
<1>5. CASE ReadCmdline
  <2>1. DOMAIN found' = {"pid", "argv", "env"} /\ phase' \in {"cmdline", "environ"}
    BY <1>2, <1>5 DEF ReadCmdline
  <2>2. QED
    BY <1>2, <1>5, <2>1, ReadKeeps DEF ReadCmdline
<1>6. CASE ReadEnviron
  <2>1. DOMAIN found' = {"pid", "argv", "env"}
    BY <1>2, <1>6 DEF ReadEnviron
  <2>2. QED
    BY <1>2, <1>6, <2>1, ReadKeeps DEF ReadEnviron
<1>7. CASE NoneFound
  BY <1>2, <1>7, ReadKeeps DEF NoneFound
<1>8. CASE CollectSecrets
  BY <1>2, <1>8, ReadKeeps DEF CollectSecrets
<1>9. CASE ResolvePort
  <2>1. /\ port' \in PortNumbers \cup {0} /\ verdict' \in {None, "healthy", "unhealthy"}
        /\ phase' \in {"probe", "done"}
    BY <1>2, <1>9, PortsNamed DEF ResolvePort
  <2>2. QED
    BY <1>2, <1>9, <2>1, ReadKeeps DEF ResolvePort
<1>10. CASE Probe
  BY <1>2, <1>10, ReadKeeps DEF Probe
<1>11. QED
  BY <1>3, <1>4, <1>5, <1>6, <1>7, <1>8, <1>9, <1>10 DEF Check

LEMMA ContainerInit == Init => ContainerInv
<1> SUFFICES ASSUME Init PROVE ContainerInv
  OBVIOUS
<1>1. /\ command \in Commands /\ env \in Environments
      /\ procs = [pid \in {1} |-> First] /\ next_pid = 2
      /\ phase = "idle" /\ scan = 1 /\ own_pid = None /\ entries = {} /\ found = Nobody
      /\ port = 0 /\ verdict = None /\ steady = None
  BY DEF Init
<1>2. /\ First \in Processes /\ First.child = FALSE /\ First.port = 0
      /\ First.stage \in {"wrapper", "exporter"} /\ env \in Variables
      /\ First.stage = "exporter" =>
           First.args = ExporterArgs(command.flags) /\ First.env = With(env, command.sets)
  BY <1>1, FirstProcess
<1>3. ContainerType
  BY <1>1, <1>2, PidAssumption DEF ContainerType
<1>4. CheckType
  BY <1>1 DEF CheckType, Nobody
<1>5. ProcessInv(1, procs[1])
  <2>1. procs[1] = First
    BY <1>1
  <2>2. command.flags \in Seq(Arguments)
    BY <1>1, CommandAssumption
  <2>3. QED
    BY <1>2, <2>1, <2>2 DEF ProcessInv
<1>6. QED
  BY <1>1, <1>3, <1>4, <1>5 DEF ContainerInv

LEMMA ContainerNext == ContainerInv /\ [Next]_vars => ContainerInv'
<1> SUFFICES ASSUME ContainerInv, [Next]_vars PROVE ContainerInv'
  OBVIOUS
<1>1. CASE Container
  BY <1>1, ForkKeeps, ExecKeeps, StartAnotherKeeps, ServeKeeps, ExitKeeps DEF Container
<1>2. CASE Check
  BY <1>2, CheckKeeps
<1>3. CASE UNCHANGED vars
  <2>1. UNCHANGED <<containerVars, own_pid, steady, phase, scan, entries, found, port, verdict>>
    BY <1>3 DEF vars, checkVars
  <2>2. CheckType'
    BY <2>1 DEF ContainerInv, CheckType, Serving, containerVars
  <2>3. ContainerType'
    BY <2>1 DEF ContainerInv, ContainerType, containerVars
  <2>4. ASSUME NEW pid \in DOMAIN procs' PROVE ProcessInv(pid, procs[pid])'
    BY <2>1, Unmoved DEF containerVars
  <2>5. QED
    BY <2>2, <2>3, <2>4 DEF ContainerInv
<1>4. QED
  BY <1>1, <1>2, <1>3 DEF Next

LEMMA ContainerAlways == Spec => []ContainerInv
BY ContainerInit, ContainerNext, PTL DEF Spec

\* Every port is a port, every process a process, and the check is none of the
\* exporters.
THEOREM TypeCorrect == Spec => []TypeOK
<1>1. ContainerInv => TypeOK
  <2> SUFFICES ASSUME ContainerInv PROVE TypeOK
    OBVIOUS
  <2>1. ContainerType /\ CheckType
    BY DEF ContainerInv
  <2>2. /\ next_pid \in 2..(MaxPid + 1) /\ MaxPid \in Nat /\ 1..(next_pid - 1) \subseteq 1..MaxPid
        /\ None \notin Nat
    BY <2>1, PidAssumption DEF ContainerType
  <2>3. {port} \cup {procs[pid].port : pid \in DOMAIN procs} \subseteq 0..(PortLimit - 1)
    <3>1. {port} \cup {procs[pid].port : pid \in DOMAIN procs} \subseteq PortNumbers \cup {0}
      BY <2>1 DEF ContainerType, CheckType, Processes
    <3>2. PICK limit : limit = PortLimit
      OBVIOUS
    <3>3. limit \in Nat \ {0}
      BY <3>2 DEF PortLimit
    <3>4. PortNumbers \cup {0} \subseteq 0..(limit - 1)
      BY <3>2, <3>3 DEF PortNumbers, IsPort
    <3>5. QED
      BY <3>1, <3>2, <3>4
  <2>4. own_pid \in 1..MaxPid \cup {None}
    BY <2>1, <2>2 DEF CheckType
  <2>5. steady \in (1..MaxPid \ {own_pid}) \cup {None}
    <3>1. CASE steady = None
      BY <3>1
    <3>2. CASE steady # None
      <4>1. steady \in 1..MaxPid /\ steady < own_pid /\ own_pid \in Nat
        BY <2>1, <2>2, <3>2 DEF CheckType, Serving, ContainerType
      <4>2. QED
        BY <4>1
    <3>3. QED
      BY <3>1, <3>2
  <2>6. QED
    BY <2>1, <2>2, <2>3, <2>4, <2>5 DEF TypeOK, ContainerType, CheckType
<1>2. QED
  BY <1>1, ContainerAlways, PTL

-----------------------------------------------------------------------------
(* The check of a container with one exporter before every other one.      *)

\* It runs, and nothing before it but its wrapper is there.
Ahead(e) ==
  /\ e \in Own \cap Running
  /\ \A pid \in DOMAIN procs : pid < e =>
       pid = 1 /\ procs[1].stage = "wrapper" /\ ~command.execs

\* The scan does not pass it by, and takes its arguments and its environment, or
\* equal ones.
Followed(e) ==
  /\ phase = "cmdline" => e \in entries
  /\ phase = "environ" =>
       /\ found.pid \in {1, e} /\ found.argv = Argv(e)
       /\ procs[found.pid].env = procs[e].env
  /\ phase = "found" => found.argv = Argv(e) /\ found.env = procs[e].env

\* A step of the container that leaves the exporter there leaves it what it was
\* given, and what is before it.
Kept(e) ==
  /\ \A pid \in DOMAIN procs' : pid < e => pid \in DOMAIN procs /\ procs'[pid] = procs[pid]
  /\ \A pid \in DOMAIN procs : pid < e => pid \in DOMAIN procs'
  /\ procs'[e].args = procs[e].args /\ procs'[e].env = procs[e].env
  /\ procs'[e].child = procs[e].child /\ procs'[e].stage \in {"exporter", "serving"}
  /\ procs[e].stage = "serving" => procs'[e] = procs[e]

LEMMA Served ==
  ASSUME NEW p \in Processes, NEW q, NEW number, NEW flags, Binds(p, q, number, flags)
  PROVE  q.stage = "serving" /\ q.child = p.child /\ q.args = p.args /\ q.env = p.env
BY DEF Processes, Binds

LEMMA AheadKept ==
  ASSUME ContainerInv, NEW e, Ahead(e), Container, e \in DOMAIN procs'
  PROVE  Kept(e)
<1>1. ContainerType
  BY DEF ContainerInv
<1>2. /\ e \in DOMAIN procs /\ procs[e].stage \in {"exporter", "serving"}
      /\ DOMAIN procs \subseteq Nat /\ \A pid \in DOMAIN procs : 1 <= pid /\ pid < next_pid
      /\ next_pid \in Nat /\ e \in Nat
  BY <1>1 DEF Ahead, Running, ContainerType
<1>3. ASSUME NEW pid \in DOMAIN procs, pid < e
      PROVE  pid = 1 /\ procs[pid].stage = "wrapper" /\ ~command.execs
  BY <1>3 DEF Ahead
<1>4. ASSUME NEW p, New(p) PROVE Kept(e)
  <2>1. procs' = [pid \in DOMAIN procs \cup {next_pid} |->
                    IF pid = next_pid THEN p ELSE procs[pid]]
    BY <1>4 DEF New
  <2>2. e < next_pid
    BY <1>2
  <2>3. ASSUME NEW pid \in DOMAIN procs', pid < e PROVE pid \in DOMAIN procs /\ procs'[pid] = procs[pid]
    <3>1. pid # next_pid
      BY <1>2, <2>2, <2>3
    <3>2. QED
      BY <2>1, <3>1
  <2>4. procs'[e] = procs[e] /\ \A pid \in DOMAIN procs : pid \in DOMAIN procs'
    BY <1>2, <2>1, <2>2
  <2>5. QED
    BY <1>2, <2>3, <2>4 DEF Kept
<1>5. ASSUME NEW pid \in DOMAIN procs, ~(pid < e), pid # e,
             procs' = Gone({pid}) \/ \E rest : procs' = [procs EXCEPT ![pid] = rest]
      PROVE  Kept(e)
  <2>1. /\ \A other \in DOMAIN procs' : other # pid =>
             other \in DOMAIN procs /\ procs'[other] = procs[other]
        /\ \A other \in DOMAIN procs : other # pid => other \in DOMAIN procs'
    BY <1>5 DEF Gone
  <2>2. DOMAIN procs' \subseteq DOMAIN procs
    BY <1>5 DEF Gone
  <2>3. \A other \in DOMAIN procs : other < e => other # pid
    BY <1>5
  <2>4. QED
    BY <1>2, <1>5, <2>1, <2>2, <2>3 DEF Kept
<1>6. CASE Fork
  BY <1>4, <1>6 DEF Fork
<1>7. CASE Exec
  <2>1. PICK pid \in DOMAIN procs :
          /\ procs[pid].stage = IF command.execs THEN "wrapper" ELSE "forked"
          /\ procs' = [procs EXCEPT ![pid].args = ExporterArgs(command.flags),
                                    ![pid].env = With(env, command.sets),
                                    ![pid].stage = "exporter"]
    BY <1>7 DEF Exec
  <2>2. ~(pid < e) /\ pid # e
    BY <1>2, <1>3, <2>1
  <2>3. \E rest : procs' = [procs EXCEPT ![pid] = rest]
    BY <2>1
  <2>4. QED
    BY <1>5, <2>2, <2>3
<1>8. CASE StartAnother
  BY <1>4, <1>8 DEF StartAnother
<1>9. CASE Serve
  <2> DEFINE Configs(pid) == UNION {resolve_config(a, procs[pid].env) : a \in parse_args(Argv(pid))}
  <2>1. PICK pid \in DOMAIN procs :
          /\ procs[pid].stage = "exporter"
          /\ \/ \E config \in Configs(pid), a \in parse_args(Argv(pid)) :
                  procs' = [procs EXCEPT ![pid].stage = "serving",
                              ![pid].port = CHOOSE p \in config["metricsport"] : TRUE,
                              ![pid].warned = overridden_flags(a, procs[pid].env)]
             \/ procs' = Gone({pid})
    BY <1>9 DEF Serve
  <2>2. ~(pid < e)
    BY <1>3, <2>1
  <2>3. CASE pid # e
    <3>1. procs' = Gone({pid}) \/ \E rest : procs' = [procs EXCEPT ![pid] = rest]
      BY <2>1
    <3>2. QED
      BY <1>5, <2>2, <2>3, <3>1
  <2>4. CASE pid = e
    <3>1. procs' # Gone({pid})
      BY <2>4 DEF Gone
    <3>2. PICK config \in Configs(pid), a \in parse_args(Argv(pid)) :
            procs' = [procs EXCEPT ![pid].stage = "serving",
                        ![pid].port = CHOOSE p \in config["metricsport"] : TRUE,
                        ![pid].warned = overridden_flags(a, procs[pid].env)]
      BY <2>1, <2>4, <3>1
    <3> DEFINE number == CHOOSE p \in config["metricsport"] : TRUE
               flags == overridden_flags(a, procs[pid].env)
    <3>3. procs' = [procs EXCEPT ![e].stage = "serving", ![e].port = number, ![e].warned = flags]
      BY <2>4, <3>2
    <3> HIDE DEF number, flags
    <3>4. Binds(procs[e], procs'[e], number, flags) /\ procs[e] \in Processes
      BY <1>1, <1>2, <3>3 DEF ContainerType, Binds
    <3>5. /\ procs'[e].stage = "serving" /\ procs'[e].child = procs[e].child
          /\ procs'[e].args = procs[e].args /\ procs'[e].env = procs[e].env
      BY <3>4, Served
    <3>6. /\ DOMAIN procs' = DOMAIN procs
          /\ \A other \in DOMAIN procs : other # e => procs'[other] = procs[other]
      BY <1>1, <3>3 DEF ContainerType
    <3>7. \A other \in DOMAIN procs : other < e => other # e
      BY <1>2
    <3>8. QED
      BY <2>1, <2>4, <3>5, <3>6, <3>7 DEF Kept
  <2>5. QED
    BY <2>3, <2>4
<1>10. CASE Exit
  <2>1. PICK pid \in DOMAIN procs : procs[pid].stage = "serving" /\ procs' = Gone({pid})
    BY <1>10 DEF Exit
  <2>2. ~(pid < e) /\ pid # e
    BY <1>3, <2>1 DEF Gone
  <2>3. QED
    BY <1>5, <2>1, <2>2
<1>11. QED
  BY <1>6, <1>7, <1>8, <1>9, <1>10 DEF Container

\* Nor does it overtake the exporter, or take the scan off it.
LEMMA AheadStays ==
  ASSUME ContainerInv, NEW e, Ahead(e), Container, e \in DOMAIN procs'
  PROVE  /\ UNCHANGED <<command, env, checkVars>> /\ Mistakable' = Mistakable
         /\ e \in DOMAIN procs /\ Argv(e)' = Argv(e) /\ procs'[e].env = procs[e].env
         /\ Ahead(e)' /\ (Followed(e) => Followed(e)')
<1>1. UNCHANGED <<command, env, checkVars>>
  BY DEF Container, Fork, Exec, StartAnother, Serve, Exit
<1>2. Kept(e)
  BY AheadKept
<1>3. /\ e \in DOMAIN procs /\ 1 \in DOMAIN procs /\ DOMAIN procs \subseteq Nat /\ e \in Nat
      /\ \A pid \in DOMAIN procs : 1 <= pid
  BY DEF ContainerInv, ContainerType, Ahead, Running
<1>4. Argv(e)' = Argv(e) /\ procs'[e].env = procs[e].env
  BY <1>2 DEF Kept, Argv
<1>5. 1 \in DOMAIN procs' /\ (e # 1 => procs'[1] = procs[1])
  <2>1. CASE e = 1
    BY <2>1
  <2>2. CASE e # 1
    <3>1. 1 < e
      BY <1>3, <2>2
    <3>2. 1 \in DOMAIN procs'
      BY <1>2, <1>3, <3>1 DEF Kept
    <3>3. QED
      BY <1>2, <3>1, <3>2 DEF Kept
  <2>3. QED
    BY <2>1, <2>2
<1>6. Ahead(e)'
  <2>1. e \in (Own \cap Running)'
    BY <1>2 DEF Kept, Ahead, Own, Running
  <2>2. ASSUME NEW pid \in DOMAIN procs', pid < e
        PROVE  pid = 1 /\ procs'[1].stage = "wrapper" /\ ~command.execs
    <3>1. pid \in DOMAIN procs /\ procs'[pid] = procs[pid]
      BY <1>2, <2>2 DEF Kept
    <3>2. QED
      BY <2>2, <3>1 DEF Ahead
  <2>3. QED
    BY <1>1, <2>1, <2>2 DEF Ahead
<1>7. ASSUME Followed(e) PROVE Followed(e)'
  <2>1. found.pid \in {1, e} => procs'[found.pid].env = procs[found.pid].env
    BY <1>4, <1>5
  <2>2. QED
    BY <1>1, <1>4, <1>7, <2>1 DEF Followed, checkVars
<1>8. QED
  BY <1>1, <1>3, <1>4, <1>6, <1>7 DEF Mistakable

\* The exporter has the command line and the variables of the container's command.
LEMMA AheadExporter ==
  ASSUME ContainerInv, NEW e, Ahead(e)
  PROVE  /\ e \in DOMAIN procs /\ e \in Nat /\ 1 <= e /\ 1 \in DOMAIN procs
         /\ procs[e].args = ExporterArgs(command.flags)
         /\ Argv(e) = command.flags /\ command.flags \in Seq(Arguments)
         /\ procs[e].env = With(env, command.sets) /\ procs[e].env \in Variables
         /\ env \in Variables /\ command.sets \in Variables
<1>1. /\ ContainerType /\ ProcessInv(e, procs[e]) /\ procs[e] \in Processes
      /\ e \in DOMAIN procs /\ procs[e].stage \in {"exporter", "serving"}
      /\ e = 1 \/ procs[e].child
  BY DEF ContainerInv, ContainerType, Ahead, Own, Running
<1>2. procs[e].args = ExporterArgs(command.flags) /\ procs[e].env = With(env, command.sets)
  BY <1>1 DEF ProcessInv
<1>3. /\ command.flags \in Seq(Arguments) /\ env \in Variables /\ command.sets \in Variables
      /\ procs[e].env \in Variables
  BY <1>1, CommandAssumption, Environment DEF ContainerType, Processes
<1>4. Argv(e) = command.flags
  BY <1>2, <1>3, ExporterArgsType DEF Argv
<1>5. QED
  BY <1>1, <1>2, <1>3, <1>4 DEF ContainerType

\* One that serves has an accepted command line, one configuration, and a port.
LEMMA ServesOnPort ==
  ASSUME ContainerInv, NEW e \in Serving
  PROVE  Configured(procs[e]) /\ procs[e].port \in PortNumbers
<1>1. Configured(procs[e])
  BY DEF ContainerInv, Serving, ProcessInv
<1>2. PICK args : \E config \in resolve_config(args, procs[e].env) :
        config["metricsport"] = {procs[e].port}
  BY <1>1 DEF Configured
<1>3. PICK config \in resolve_config(args, procs[e].env) :
        config["metricsport"] = {procs[e].port}
  BY <1>2
<1>4. \E p \in PortNumbers : config["metricsport"] = {p}
  BY <1>3, Resolved
<1>5. QED
  BY <1>1, <1>3, <1>4

\* find_exporter at one process: at the exporter followed, or before it.
LEMMA ReadCmdlineFollows ==
  ASSUME ContainerInv, NEW e, Ahead(e), e < own_pid, own_pid \in Nat, ~Mistakable, Followed(e), ReadCmdline
  PROVE  Followed(e)'
<1> DEFINE pid == Lowest
           args == IF pid \in DOMAIN procs /\ pid # own_pid THEN procs[pid].args ELSE <<>>
<1>1. /\ phase = "cmdline" /\ entries # {} /\ entries' = entries \ {pid}
      /\ IF ScriptAt(args) = {}
         THEN UNCHANGED <<found, phase>>
         ELSE /\ found' = [pid |-> pid, env |-> None,
                           argv |-> SubSeq(args, Min(ScriptAt(args)) + 1, Len(args))]
              /\ phase' = "environ"
      /\ UNCHANGED <<containerVars, scan, own_pid, secrets, port, verdict, output, steady, first>>
  BY DEF ReadCmdline
<1>2. ContainerType /\ CheckType
  BY DEF ContainerInv
<1>3. /\ e \in DOMAIN procs /\ e \in Nat /\ 1 <= e /\ 1 \in DOMAIN procs
      /\ procs[e].args = ExporterArgs(command.flags)
      /\ Argv(e) = command.flags /\ command.flags \in Seq(Arguments)
      /\ procs[e].env = With(env, command.sets)
      /\ env \in Variables /\ command.sets \in Variables
  BY AheadExporter
<1>4. /\ e \in entries /\ pid \in entries /\ pid <= e /\ pid \in Nat
      /\ pid # own_pid
  <2>1. entries \subseteq Nat /\ e \in entries
    BY <1>1, <1>2 DEF CheckType, Followed
  <2>2. pid \in entries /\ pid <= e
    BY <1>1, <2>1, LeastExists DEF Lowest
  <2>3. QED
    BY <1>3, <2>1, <2>2
<1> HIDE DEF pid, args
<1>5. Argv(e)' = Argv(e)
  BY <1>1 DEF Argv, containerVars
\* It is passed by, and not the exporter followed.
<1>6. ASSUME ScriptAt(args) = {}, pid # e PROVE Followed(e)'
  BY <1>1, <1>4, <1>5, <1>6 DEF Followed, containerVars
\* Its arguments are the exporter's.
<1>7. ASSUME ScriptAt(args) # {}, pid \in {1, e}, procs[pid].env = procs[e].env,
             SubSeq(args, Min(ScriptAt(args)) + 1, Len(args)) = command.flags
      PROVE  Followed(e)'
  <2>1. found' = [pid |-> pid, env |-> None, argv |-> command.flags] /\ phase' = "environ"
    BY <1>1, <1>7, Zenon
  <2>2. QED
    BY <1>1, <1>3, <1>5, <1>7, <2>1 DEF Followed, containerVars
<1>8. CASE pid = e
  <2>1. args = ExporterArgs(command.flags)
    BY <1>3, <1>4, <1>8 DEF args
  <2>2. QED
    BY <1>3, <1>7, <1>8, <2>1, ScriptFound
<1>9. CASE pid # e /\ pid \notin DOMAIN procs
  <2>1. args = <<>>
    BY <1>9 DEF args
  <2>2. ScriptAt(args) = {}
    BY <2>1 DEF ScriptAt
  <2>3. QED
    BY <1>6, <1>9, <2>2
<1>10. CASE pid # e /\ pid \in DOMAIN procs
  <2>1. pid = 1 /\ procs[1].stage = "wrapper"
    BY <1>3, <1>4, <1>10 DEF Ahead
  <2>2. procs[1] = First /\ args = First.args
    BY <1>2, <1>4, <1>10, <2>1 DEF ContainerInv, ProcessInv, args
  <2>3. /\ command.wrapper \in {"none", "init", "shell"} /\ command.text \in STRING
        /\ command.wrapper # "shell" => DOMAIN command.sets = {}
    BY <1>2, CommandAssumption DEF ContainerType
  <2>4. CASE command.wrapper = "none"
    <3>1. First.stage = "exporter"
      BY <2>4, Zenon DEF First, Process
    <3>2. QED
      BY <2>1, <2>2, <3>1
  <2>5. CASE command.wrapper = "init"
    <3>1. First = Process(Wrapper(command.flags), env, "wrapper")
      BY <2>5, Zenon DEF First, Wrapper
    <3>2. args = Wrapper(command.flags) /\ procs[pid].env = env
      BY <2>1, <2>2, <3>1 DEF Process
    <3>3. With(env, command.sets) = env
      BY <1>3, <2>3, <2>5, WithType
    <3>4. ScriptAt(args) # {} /\ SubSeq(args, Min(ScriptAt(args)) + 1, Len(args)) = command.flags
      BY <1>3, <3>2, InitFound
    <3>5. QED
      BY <1>3, <1>7, <2>1, <3>2, <3>3, <3>4
  <2>6. CASE command.wrapper = "shell"
    <3>1. First = Process(<<Word("sh"), Word("-c"), Word(command.text)>>, env, "wrapper")
      BY <2>6, Zenon DEF First
    <3>2. args = <<Word("sh"), Word("-c"), Word(command.text)>>
      BY <2>2, <3>1 DEF Process
    <3>3. command.text \in STRING \ Scripts
      BY <2>3, <2>6 DEF Mistakable
    <3>4. ScriptAt(args) = {}
      BY <3>2, <3>3, ShellPassed
    <3>5. QED
      BY <1>6, <1>10, <3>4
  <2>7. QED
    BY <2>3, <2>4, <2>5, <2>6
<1>11. QED
  BY <1>8, <1>9, <1>10

\* Nor does what the check reads, or does with it, take the scan off it.
LEMMA ReadsFollow ==
  ASSUME ContainerInv, NEW e, Ahead(e), Followed(e),
         List \/ ReadEnviron \/ NoneFound \/ CollectSecrets \/ ResolvePort \/ Probe
  PROVE  Followed(e)'
<1>1. e \in DOMAIN procs /\ 1 \in DOMAIN procs
  BY AheadExporter
<1>2. UNCHANGED containerVars
  BY DEF List, ReadEnviron, NoneFound, CollectSecrets, ResolvePort, Probe
<1>3. Argv(e)' = Argv(e) /\ procs' = procs
  BY <1>2 DEF Argv, containerVars
<1>4. CASE List
  BY <1>1, <1>3, <1>4 DEF List, Followed
<1>5. CASE ReadEnviron
  <2>1. DOMAIN found = {"pid", "argv", "env"}
    BY DEF ContainerInv, CheckType
  <2>2. /\ found.pid \in {1, e} /\ found.argv = Argv(e)
        /\ procs[found.pid].env = procs[e].env
    BY <1>5 DEF ReadEnviron, Followed
  <2>3. found'.argv = found.argv /\ found'.env = procs[e].env
    BY <1>1, <1>5, <2>1, <2>2 DEF ReadEnviron
  <2>4. QED
    BY <1>3, <1>5, <2>2, <2>3 DEF ReadEnviron, Followed
<1>6. CASE NoneFound
  BY <1>6 DEF NoneFound, Followed
<1>7. CASE CollectSecrets
  BY <1>7 DEF CollectSecrets, Followed
<1>8. CASE ResolvePort
  BY <1>8 DEF ResolvePort, Followed
<1>9. CASE Probe
  BY <1>9 DEF Probe, Followed
<1>10. QED
  BY <1>4, <1>5, <1>6, <1>7, <1>8, <1>9

\* The check begins with the exporter before every other one.
LEMMA BeginFollows ==
  ASSUME ContainerInv, Begin, Running # {}, Min(Running) \in Own,
         NEW e, e = Min(Running)
  PROVE  /\ Ahead(e)' /\ Followed(e)' /\ e \in DOMAIN procs /\ e # None
         /\ e < own_pid' /\ own_pid' \in Nat /\ procs'[e] = procs[e]
<1>1. /\ phase = "idle" /\ phase' = "list" /\ UNCHANGED <<command, env>>
      /\ own_pid' = next_pid
      /\ New(Process(<<Word("python"), Word("/app/healthcheck.py")>>, env, "check"))
  BY DEF Begin
<1>2. ContainerType
  BY DEF ContainerInv
<1>3. /\ \A pid \in DOMAIN procs : pid \in DOMAIN procs' /\ procs'[pid] = procs[pid] /\ pid < next_pid
      /\ \A pid \in DOMAIN procs' : pid < next_pid => pid \in DOMAIN procs
      /\ DOMAIN procs' \subseteq Nat /\ next_pid \in Nat
  <2>1. DOMAIN procs' = DOMAIN procs \cup {next_pid} /\ DOMAIN procs \subseteq 1..(next_pid - 1)
        /\ next_pid \in Nat
    BY <1>1, <1>2 DEF New, ContainerType
  <2>2. \A pid \in DOMAIN procs : pid < next_pid /\ pid \in Nat /\ pid # next_pid
    BY <2>1
  <2>3. \A pid \in DOMAIN procs : procs'[pid] = procs[pid]
    BY <1>1, <2>2 DEF New
  <2>4. QED
    BY <2>1, <2>2, <2>3
<1>4. e \in Own \cap Running /\ e \in DOMAIN procs /\ 1 \in DOMAIN procs
  <2>1. Running \subseteq Nat
    BY <1>2 DEF Running, ContainerType
  <2>2. e \in Running
    BY <2>1, LeastExists
  <2>3. QED
    BY <1>2, <2>2 DEF Running, ContainerType
<1>5. e \in (Own \cap Running)'
  BY <1>3, <1>4 DEF Own, Running
<1>6. ASSUME NEW pid \in DOMAIN procs', pid < e
      PROVE  pid = 1 /\ procs'[1].stage = "wrapper" /\ ~command'.execs
  <2>1. pid \in Nat /\ e \in Nat /\ e < next_pid /\ pid < next_pid
    BY <1>3, <1>4, <1>6
  <2>2. pid \in DOMAIN procs
    BY <1>3, <2>1
  <2>3. pid = 1 /\ procs[1].stage = "wrapper" /\ ~command.execs
    BY <1>1, <1>6, <2>2, BeginsAhead
  <2>4. QED
    BY <1>1, <1>3, <1>4, <2>3
<1>7. e \in Nat /\ e < next_pid
  BY <1>3, <1>4
<1>8. Followed(e)'
  BY <1>1 DEF Followed
<1>9. QED
  BY <1>1, <1>3, <1>4, <1>5, <1>6, <1>7, <1>8, PidAssumption DEF Ahead

-----------------------------------------------------------------------------
(* The exporter that serves all along.                                     *)

\* Both scans find it, and the probe answers.
Answers(e) ==
  /\ Ahead(e)
  /\ ~Mistakable =>
       /\ Followed(e)
       /\ phase \in {"probe", "done"} => port = procs[e].port
       /\ phase = "done" => verdict = "healthy"

SteadyInv == \A e : e = steady /\ e # None => Answers(e)

LEMMA ContainerKeepsSteady ==
  ASSUME ContainerInv, SteadyInv, Container
  PROVE  SteadyInv'
<1> SUFFICES ASSUME NEW e, e = steady', e # None PROVE Answers(e)'
  BY DEF SteadyInv
<1>1. steady = e /\ Answers(e) /\ procs[e].stage = "serving" /\ e \in DOMAIN procs
  <2>1. steady = e
    BY DEF Container, Fork, Exec, StartAnother, Serve, Exit
  <2>2. QED
    BY <2>1 DEF SteadyInv, ContainerInv, CheckType, Serving
<1>2. e \in DOMAIN procs'
  BY ContainerNext DEF Next, ContainerInv, CheckType, Serving
<1>3. UNCHANGED <<command, env, checkVars>> /\ Mistakable' = Mistakable
      /\ Ahead(e)' /\ (Followed(e) => Followed(e)')
  BY <1>1, <1>2, AheadStays DEF Answers
<1>4. procs'[e] = procs[e]
  BY <1>1, <1>2, AheadKept DEF Answers, Kept
<1>5. QED
  BY <1>1, <1>3, <1>4 DEF Answers, checkVars

\* The scan finds it and resolves its port, which answers.
LEMMA CheckAnswers ==
  ASSUME ContainerInv, NEW e \in Serving, Answers(e),
         List \/ ReadEnviron \/ NoneFound \/ CollectSecrets \/ ResolvePort \/ Probe
  PROVE  Answers(e)'
<1>1. UNCHANGED containerVars
  BY DEF List, ReadEnviron, NoneFound, CollectSecrets, ResolvePort, Probe
<1>2. Ahead(e) /\ Ahead(e)' /\ Mistakable' = Mistakable
  BY <1>1 DEF Answers, Ahead, Own, Running, Mistakable, containerVars
<1> SUFFICES ASSUME ~Mistakable
             PROVE  /\ Followed(e)'
                    /\ phase' \in {"probe", "done"} => port' = procs'[e].port
                    /\ phase' = "done" => verdict' = "healthy"
  BY <1>2 DEF Answers
<1>3. /\ Followed(e) /\ Followed(e)' /\ procs' = procs /\ e \in DOMAIN procs
      /\ phase \in {"probe", "done"} => port = procs[e].port
      /\ phase = "done" => verdict = "healthy"
  BY <1>1, <1>2, ReadsFollow, AheadExporter DEF Answers, containerVars
<1>4. CASE List \/ ReadEnviron \/ NoneFound \/ CollectSecrets
  BY <1>3, <1>4 DEF List, ReadEnviron, NoneFound, CollectSecrets
<1>5. CASE ResolvePort
  <2>1. Configured(procs[e]) /\ procs[e].env \in Variables
    BY <1>2, ServesOnPort, AheadExporter
  <2>2. PICK given \in parse_args(Argv(e)) :
          \E config \in resolve_config(given, procs[e].env) :
            config["metricsport"] = {procs[e].port}
    BY <2>1 DEF Configured, Argv
  <2>3. PICK config \in resolve_config(given, procs[e].env) :
          config["metricsport"] = {procs[e].port}
    BY <2>2
  <2>4. EffectiveEnv = procs[e].env /\ found.argv = Argv(e) /\ Argv(e) \in Seq(Arguments)
    <3>1. None \notin Variables
      BY PidAssumption, Environment
    <3>2. found.argv = Argv(e) /\ found.env = procs[e].env
      BY <1>3, <1>5 DEF ResolvePort, Followed
    <3>3. QED
      BY <1>2, <2>1, <3>1, <3>2, AheadExporter DEF EffectiveEnv
  <2>5. parse_args(found.argv) = {given}
    BY <2>2, <2>4, ParsedArguments
  <2>6. resolve_config(given, EffectiveEnv) = {config}
    BY <2>3, <2>4, Resolved
  <2>7. UNION {c["metricsport"] : c \in
          UNION {resolve_config(args, EffectiveEnv) : args \in parse_args(found.argv)}}
            = {procs[e].port}
    BY <2>3, <2>5, <2>6
  <2>8. port' = procs[e].port /\ phase' = "probe"
    BY <1>5, <2>7 DEF ResolvePort
  <2>9. QED
    BY <1>3, <2>8
<1>6. CASE Probe
  <2>1. port = procs[e].port /\ port # 0
    BY <1>3, <1>6, ServesOnPort DEF Probe, PortNumbers, IsPort
  <2>2. verdict' = "healthy" /\ port' = port
    BY <1>3, <1>6, <2>1 DEF Probe, PortsInUse
  <2>3. QED
    BY <1>3, <2>1, <2>2
<1>7. QED
  BY <1>4, <1>5, <1>6

LEMMA SteadyNext ==
  ASSUME ContainerInv, SteadyInv, [Next]_vars
  PROVE  SteadyInv'
<1>1. CASE Container
  BY <1>1, ContainerKeepsSteady
<1>2. CASE Begin
  <2> SUFFICES ASSUME NEW e, e = steady', e # None PROVE Answers(e)'
    BY DEF SteadyInv
  <2>1. e = Min(Running) /\ Running # {} /\ Min(Running) \in Own /\ phase' = "list"
    BY <1>2 DEF Begin
  <2>2. Ahead(e)' /\ Followed(e)'
    BY <1>2, <2>1, BeginFollows
  <2>3. QED
    BY <2>1, <2>2 DEF Answers
<1>3. ASSUME Check, ~Begin PROVE SteadyInv'
  <2> SUFFICES ASSUME NEW e, e = steady', e # None PROVE Answers(e)'
    BY DEF SteadyInv
  <2>1. /\ UNCHANGED <<containerVars, own_pid, steady>>
        /\ ReadCmdline \/ List \/ ReadEnviron \/ NoneFound \/ CollectSecrets \/ ResolvePort \/ Probe
    BY <1>3 DEF Check, List, ReadCmdline, ReadEnviron, NoneFound, CollectSecrets, ResolvePort, Probe
  <2>2. Answers(e) /\ e \in Serving /\ e < own_pid /\ own_pid \in Nat
    BY <2>1 DEF SteadyInv, ContainerInv, CheckType, ContainerType
  <2>3. CASE ReadCmdline
    <3>1. Ahead(e)' /\ Mistakable' = Mistakable
      BY <2>1, <2>2 DEF Answers, Ahead, Own, Running, Mistakable, containerVars
    <3>2. phase' \in {"cmdline", "environ"}
      BY <2>3 DEF ReadCmdline
    <3>3. ~Mistakable => Followed(e)'
      BY <2>2, <2>3, ReadCmdlineFollows DEF Answers
    <3>4. QED
      BY <3>1, <3>2, <3>3 DEF Answers
  <2>4. QED
    BY <2>1, <2>2, <2>3, CheckAnswers
<1>4. CASE UNCHANGED vars
  <2> SUFFICES ASSUME NEW e, e = steady', e # None PROVE Answers(e)'
    BY DEF SteadyInv
  <2>1. Answers(e)
    BY <1>4 DEF SteadyInv, vars
  <2>2. QED
    BY <1>4, <2>1 DEF Answers, Ahead, Followed, Own, Running, Argv, Mistakable, vars,
                      containerVars, checkVars
<1>5. QED
  BY <1>1, <1>2, <1>3, <1>4 DEF Next, Check

\* An exporter that serves during the whole check, started before every other
\* one, is found healthy on its own port.
THEOREM ServingIsHealthy == Spec => []HealthyWhenServing
<1>1. Init => SteadyInv
  BY DEF Init, SteadyInv
<1>2. SteadyInv => HealthyWhenServing
  BY DEF SteadyInv, Answers, HealthyWhenServing
<1>3. QED
  BY <1>1, <1>2, ContainerInit, ContainerNext, SteadyNext, PTL DEF Spec

-----------------------------------------------------------------------------
(* What the first scan hears.                                              *)

\* While that scan runs it is after the exporter; afterwards it knows its passwords,
\* whatever has become of it.
Heard(e) ==
  /\ scan = 1 =>
       /\ Ahead(e) /\ e < own_pid /\ own_pid \in Nat
       /\ first.argv = Argv(e) /\ first.env = procs[e].env
       /\ ~Mistakable => Followed(e)
  /\ scan = 2 /\ ~Mistakable => Given(first) \subseteq secrets

FirstInv == \A e : e = first.pid /\ first # Nobody => Heard(e)

\* The container's own passwords are in the list, and the list censors the output.
OutputInv ==
  /\ phase \in {"probe", "done"} => scan = 2
  /\ scan = 2 => password_candidates(<<>>, env) \subseteq secrets
  /\ output # None =>
       phase = "done" /\ output = IF Digits[port] \in secrets THEN Censored ELSE Digits[port]

LEMMA ContainerKeepsFirst ==
  ASSUME ContainerInv, FirstInv, Container
  PROVE  FirstInv'
<1> SUFFICES ASSUME NEW e, e = first'.pid, first' # Nobody PROVE Heard(e)'
  BY DEF FirstInv
<1>1. /\ UNCHANGED <<command, env, checkVars>> /\ first' = first
  BY DEF Container, Fork, Exec, StartAnother, Serve, Exit, Unheard
<1>2. Heard(e) /\ Mistakable' = Mistakable
  BY <1>1 DEF FirstInv, Mistakable
<1>3. CASE scan = 2
  <2>1. Given(first)' = Given(first)
    BY <1>1 DEF Given
  <2>2. QED
    BY <1>1, <1>2, <1>3, <2>1 DEF Heard, checkVars
<1>4. CASE scan # 2
  <2>1. scan = 1
    BY <1>4 DEF ContainerInv, CheckType
  <2>2. Ahead(e) /\ e \in DOMAIN procs
    BY <1>2, <2>1 DEF Heard, Ahead, Running
  <2>3. e \in DOMAIN procs'
    <3>1. ASSUME NEW p, New(p) PROVE e \in DOMAIN procs'
      BY <2>2, <3>1 DEF New
    <3>2. ASSUME NEW pid, procs' = Gone({pid}), first' = Unheard(pid) PROVE e \in DOMAIN procs'
      BY <1>1, <2>1, <2>2, <3>2 DEF Gone, Unheard
    <3>3. CASE Serve
      <4>1. \/ \E pid : procs' = Gone({pid}) /\ first' = Unheard(pid)
            \/ DOMAIN procs' = DOMAIN procs
        BY <3>3 DEF Serve
      <4>2. QED
        BY <2>2, <3>2, <4>1
    <3>4. CASE Exit
      BY <3>2, <3>4 DEF Exit
    <3>5. CASE Exec
      BY <2>2, <3>5 DEF Exec
    <3>6. QED
      BY <3>1, <3>3, <3>4, <3>5 DEF Container, Fork, StartAnother
  <2>4. /\ Ahead(e)' /\ Argv(e)' = Argv(e) /\ procs'[e].env = procs[e].env
        /\ (Followed(e) => Followed(e)')
    BY <2>2, <2>3, AheadStays
  <2>5. QED
    BY <1>1, <1>2, <2>1, <2>4 DEF Heard, checkVars
<1>5. QED
  BY <1>3, <1>4

\* The passwords collected are those of the exporter found.
LEMMA CollectedGiven ==
  ASSUME ContainerInv, FirstInv, CollectSecrets, ~Mistakable, first # Nobody
  PROVE  Given(first) \subseteq secrets'
<1>1. PICK e : e = first.pid
  OBVIOUS
<1>2. Heard(e) /\ phase = "found" /\ scan = 1 /\ secrets' = Collected(found.argv)
  BY <1>1 DEF FirstInv, CollectSecrets
<1>3. /\ Ahead(e) /\ first.argv = Argv(e) /\ first.env = procs[e].env
      /\ found.argv = Argv(e) /\ found.env = procs[e].env
  BY <1>2 DEF Heard, Followed
<1>4. EffectiveEnv = first.env
  <2>1. procs[e].env \in Variables /\ None \notin Variables
    BY <1>3, AheadExporter, PidAssumption, Environment
  <2>2. QED
    BY <1>3, <2>1 DEF EffectiveEnv
<1>5. QED
  BY <1>2, <1>3, <1>4 DEF Given, Collected

LEMMA FirstNext ==
  ASSUME ContainerInv, FirstInv, [Next]_vars
  PROVE  FirstInv'
<1>1. CASE Container
  BY <1>1, ContainerKeepsFirst
<1>2. CASE Begin
  <2> SUFFICES ASSUME NEW e, e = first'.pid, first' # Nobody PROVE Heard(e)'
    BY DEF FirstInv
  <2>1. /\ e = Min(Running) /\ Running # {} /\ Min(Running) \in Own
        /\ first'.argv = Argv(e) /\ first'.env = procs[e].env /\ scan' = scan /\ phase = "idle"
    BY <1>2 DEF Begin
  <2>2. /\ Ahead(e)' /\ Followed(e)' /\ e \in DOMAIN procs
        /\ e < own_pid' /\ own_pid' \in Nat /\ procs'[e] = procs[e]
    BY <1>2, <2>1, BeginFollows
  <2>3. Argv(e)' = Argv(e) /\ scan' = 1
    BY <2>1, <2>2 DEF Argv, ContainerInv, CheckType
  <2>4. QED
    BY <2>1, <2>2, <2>3 DEF Heard
<1>3. ASSUME Check, ~Begin PROVE FirstInv'
  <2> SUFFICES ASSUME NEW e, e = first'.pid, first' # Nobody PROVE Heard(e)'
    BY DEF FirstInv
  <2>1. /\ UNCHANGED <<containerVars, own_pid, first>>
        /\ ReadCmdline \/ List \/ ReadEnviron \/ NoneFound \/ CollectSecrets \/ ResolvePort \/ Probe
    BY <1>3 DEF Check, List, ReadCmdline, ReadEnviron, NoneFound, CollectSecrets, ResolvePort, Probe
  <2>2. Heard(e)
    BY <2>1 DEF FirstInv
  <2>3. Mistakable' = Mistakable /\ Given(first)' = Given(first) /\ Argv(e)' = Argv(e)
        /\ procs' = procs
    BY <2>1 DEF Mistakable, Given, Argv, containerVars
  <2>4. Ahead(e) => Ahead(e)'
    BY <2>1 DEF Ahead, Own, Running, containerVars
  <2>5. CASE CollectSecrets
    <3>1. scan' = 2
      BY <2>5 DEF CollectSecrets
    <3>2. ~Mistakable => Given(first) \subseteq secrets'
      BY <2>1, <2>5, CollectedGiven
    <3>3. QED
      BY <2>3, <3>1, <3>2 DEF Heard
  <2>6. CASE ~CollectSecrets
    <3>1. UNCHANGED <<scan, secrets>>
      BY <2>1, <2>6 DEF List, ReadCmdline, ReadEnviron, NoneFound, ResolvePort, Probe
    <3>2. CASE scan = 2
      BY <2>2, <2>3, <3>1, <3>2 DEF Heard
    <3>3. CASE scan = 1
      <4>1. /\ Ahead(e) /\ e < own_pid /\ own_pid \in Nat
            /\ first.argv = Argv(e) /\ first.env = procs[e].env
            /\ ~Mistakable => Followed(e)
        BY <2>2, <3>3 DEF Heard
      <4>2. ~Mistakable => Followed(e)'
        <5>1. CASE ReadCmdline
          BY <4>1, <5>1, ReadCmdlineFollows
        <5>2. CASE List \/ ReadEnviron \/ NoneFound \/ ResolvePort \/ Probe
          BY <4>1, <5>2, ReadsFollow
        <5>3. QED
          BY <2>1, <2>6, <5>1, <5>2
      <4>3. QED
        BY <2>1, <2>3, <2>4, <3>1, <3>3, <4>1, <4>2 DEF Heard
    <3>4. QED
      BY <3>2, <3>3 DEF ContainerInv, CheckType
  <2>7. QED
    BY <2>5, <2>6
<1>4. CASE UNCHANGED vars
  <2> SUFFICES ASSUME NEW e, e = first'.pid, first' # Nobody PROVE Heard(e)'
    BY DEF FirstInv
  <2>1. Heard(e)
    BY <1>4 DEF FirstInv, vars
  <2>2. QED
    BY <1>4, <2>1 DEF Heard, Ahead, Followed, Own, Running, Argv, Mistakable, Given, vars,
                      containerVars, checkVars
<1>5. QED
  BY <1>1, <1>2, <1>3, <1>4 DEF Next, Check

LEMMA OutputNext ==
  ASSUME ContainerInv, OutputInv, [Next]_vars
  PROVE  OutputInv'
<1>1. CASE Container \/ UNCHANGED vars
  <2>1. UNCHANGED <<env, checkVars>>
    BY <1>1 DEF Container, Fork, Exec, StartAnother, Serve, Exit, vars, containerVars
  <2>2. QED
    BY <2>1 DEF OutputInv, checkVars
<1>2. CASE Begin
  BY <1>2 DEF Begin, OutputInv, ContainerInv, CheckType
<1>3. CASE List \/ ReadCmdline \/ ReadEnviron \/ NoneFound
  BY <1>3 DEF List, ReadCmdline, ReadEnviron, NoneFound, OutputInv, containerVars
<1>4. CASE CollectSecrets
  BY <1>4 DEF CollectSecrets, Collected, OutputInv, containerVars
<1>5. CASE ResolvePort
  BY <1>5 DEF ResolvePort, OutputInv, containerVars
<1>6. CASE Probe
  BY <1>6 DEF Probe, OutputInv, containerVars
<1>7. QED
  BY <1>1, <1>2, <1>3, <1>4, <1>5, <1>6 DEF Next, Check

\* Whichever exporter the second scan finds, what the check prints is no password of
\* the container's configuration, nor of the exporter that ran, before every other
\* one, while the first scan did.
THEOREM OutputCensored == Spec => []PasswordsHidden
<1>1. Init => FirstInv /\ OutputInv
  BY DEF Init, FirstInv, OutputInv
<1>2. FirstInv /\ OutputInv => PasswordsHidden
  <2> SUFFICES ASSUME FirstInv, OutputInv, output # None PROVE PasswordsHidden
    BY DEF PasswordsHidden
  <2>1. /\ scan = 2 /\ password_candidates(<<>>, env) \subseteq secrets
        /\ output = IF Digits[port] \in secrets THEN Censored ELSE Digits[port]
    BY DEF OutputInv
  <2>2. output \notin secrets \ {Censored}
    BY <2>1
  <2>3. ~Mistakable => Given(first) \subseteq secrets
    <3>1. CASE first = Nobody
      BY <3>1 DEF Given
    <3>2. CASE first # Nobody
      BY <2>1, <3>2 DEF FirstInv, Heard
    <3>3. QED
      BY <3>1, <3>2
  <2>4. QED
    BY <2>1, <2>2, <2>3 DEF PasswordsHidden
<1>3. QED
  BY <1>1, <1>2, ContainerInit, ContainerNext, FirstNext, OutputNext, PTL DEF Spec

\* An exporter reports as overridden exactly the flags that would have mattered.
THEOREM WarnedExactly == Spec => []OverriddenReported
<1>1. ASSUME ContainerInv, NEW pid \in Serving, NEW args \in parse_args(Argv(pid))
      PROVE  procs[pid].warned =
               {option \in DOMAIN args \cap DOMAIN procs[pid].env :
                  resolve_config(args, Unset(procs[pid].env, option)) #
                    resolve_config(args, procs[pid].env)}
  <2>1. ProcessInv(pid, procs[pid]) /\ procs[pid].stage = "serving"
    BY <1>1 DEF ContainerInv, Serving
  <2>2. PICK flags \in Seq(Arguments) : procs[pid].args = ExporterArgs(flags)
    BY <2>1 DEF ProcessInv
  <2>3. Argv(pid) = flags
    BY <2>2, ExporterArgsType DEF Argv
  <2>4. parse_args(Argv(pid)) = {args} /\ DOMAIN args \subseteq Options
    BY <1>1, <2>3, ParsedArguments
  <2>5. /\ procs[pid].warned = overridden_flags(args, procs[pid].env)
        /\ resolve_config(args, procs[pid].env) # {}
    BY <2>1, <2>4 DEF ProcessInv, Configured, Argv
  <2>6. overridden_flags(args, procs[pid].env) \subseteq DOMAIN args \cap DOMAIN procs[pid].env
    BY DEF overridden_flags
  <2>7. QED
    BY <2>4, <2>5, <2>6, OverriddenMatters
<1>2. ContainerInv => OverriddenReported
  BY <1>1 DEF OverriddenReported, Unset
<1>3. QED
  BY <1>2, ContainerAlways, PTL
===============================================================================
