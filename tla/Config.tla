------------------------------- MODULE Config -------------------------------
(***************************************************************************)
(* How the exporter's arguments and environment become its configuration   *)
(* (cli.py, config.py).  Every option has one name here: it stands for the *)
(* flag in an argument list and for the variable in an environment.        *)
(*                                                                         *)
(* What a parser returns is a set: {value}, or {} where it raises.         *)
(***************************************************************************)
EXTENDS Integers, Sequences, FiniteSetsExt

CONSTANTS
  AsInt,    \* what int() reads: the texts it accepts, with their numbers
  AsTenths, \* what float() reads, in tenths
  Upper,    \* what str.upper() returns
  Blank     \* texts that strip() empties

ASSUME TableAssumption == AsInt \in [DOMAIN AsInt -> Int]

Ports == {"ts3port", "metricsport"}
Required == {"ts3host", "ts3username"}
Options == Ports \cup Required \cup {"ts3password", "pollinterval", "loglevel"}
LogLevels == {"DEBUG", "INFO", "WARNING", "ERROR"}

\* An environment sets some options to some text.
IsEnvironment(env) == \E names \in SUBSET Options : env \in [names -> STRING]

Defaults ==
  [ts3host |-> "localhost", ts3port |-> "10011", ts3username |-> "serveradmin",
   ts3password |-> "", metricsport |-> "8000", pollinterval |-> "5.0",
   loglevel |-> "INFO"]

Read(table, raw) == IF raw \in DOMAIN table THEN {table[raw]} ELSE {}

PortLimit == 65536
Mutant_IsPort(n) == 0 < n
IsPort(n) == 0 < n /\ n < PortLimit

\* Between 1 second and a day, in tenths.
IsInterval(t) == 10 <= t /\ t <= 864000

Parse(option, raw) ==
  CASE option \in Ports -> {n \in Read(AsInt, raw) : IsPort(n)}
    [] option \in Required -> {raw} \ Blank
    [] option = "pollinterval" -> {t \in Read(AsTenths, raw) : IsInterval(t)}
    [] option = "loglevel" -> Read(Upper, raw) \cap LogLevels
    [] option = "ts3password" -> {raw}

-----------------------------------------------------------------------------
(* The command line.                                                       *)

\* An argument is --option=value, or a word that is no flag.
Flag(option, value) == [option |-> option, value |-> value]
Word(text) == [option |-> "none", value |-> text]
Arguments == [option: Options \cup {"none"}, value: STRING]

\* The last of repeated flags wins; a word makes argparse exit.
parse_args(argv) ==
  LET At(option) == {i \in DOMAIN argv : argv[i].option = option}
  IN IF At("none") # {} THEN {}
     ELSE {[option \in {argv[i].option : i \in DOMAIN argv} |->
              argv[Max(At(option))].value]}

\* RememberEveryValue: every repeat of --ts3password, also without a Namespace.
given_values(argv) ==
  {argv[i].value : i \in {j \in DOMAIN argv : argv[j].option = "ts3password"}}

password_candidates(argv, env) ==
  (given_values(argv) \cup Read(env, "ts3password")) \ {""}

-----------------------------------------------------------------------------
(* Environment over flag over default.                                     *)

Chosen(args, env, option) ==
  CHOOSE raw \in Read(IF option \in DOMAIN env THEN env ELSE
                      IF option \in DOMAIN args THEN args ELSE Defaults, option) : TRUE

\* A configuration maps each option to what its parser returned.
resolve_config(args, env) ==
  LET values == [option \in Options |-> Parse(option, Chosen(args, env, option))]
  IN IF \E option \in Options : values[option] = {} THEN {} ELSE {values}

\* An invalid flag that the environment overrides differs, and is not fatal.
Mutant_overridden_flags(args, env) ==
  {option \in DOMAIN args \cap DOMAIN env : args[option] # env[option]}
overridden_flags(args, env) ==
  {option \in DOMAIN args \cap DOMAIN env :
     \/ Parse(option, args[option]) = {} \/ Parse(option, env[option]) = {}
     \/ Parse(option, args[option]) # Parse(option, env[option])}
=============================================================================
