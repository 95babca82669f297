----------------------------- MODULE CommandLine -----------------------------
(***************************************************************************)
(* The exporter's command line (cli.py): argparse reads the arguments one  *)
(* after another, and SafeArgumentParser decides what of them an error     *)
(* message, the usage or the help may repeat.                              *)
(*                                                                         *)
(* A text is a sequence of pieces no argument divides: "--ts3port" is      *)
(* <<"-", "-", "ts", "3", "port">>.  Clusters of single-dash options, "--" *)
(* and arguments with white space are left out.                            *)
(***************************************************************************)
EXTENDS Redaction, FiniteSets

CONSTANTS
  Options,        \* the option strings, in the order they are added
  PasswordOption, \* the one of secret_options
  HelpOption,     \* the only option without a value
  HelpText,       \* what --help says besides the usage
  Tokens,         \* what an argument may be
  MaxArgs,        \* bound on their number
  SecretSets      \* the passwords known from the environment

Known == ToSet(Options)

ASSUME OptionsAssumption ==
  /\ Options \in Seq(Known) /\ {PasswordOption, HelpOption} \subseteq Known
  /\ PasswordOption # HelpOption
  /\ \A option \in {PasswordOption, HelpOption} :
       Len(option) > 2 /\ option[1] = "-" /\ option[2] = "-"
ASSUME TextAssumption ==
  \A text \in Tokens \cup Known \cup {HelpText} \cup UNION SecretSets :
    text \in Seq(ToSet(text))
\* The code's candidates are all printable characters from U+2580 on.
ASSUME CandidatesAssumption ==
  /\ MaxArgs \in Nat
  /\ \A args \in SeqOf(Tokens, MaxArgs), S \in SecretSets :
       \E k \in DOMAIN Candidates : \A text \in S \cup ToSet(args) : Candidates[k] \notin ToSet(text)

VARIABLES
  argv, secrets,
  next,    \* the argument argparse looks at
  extras,  \* the arguments it has no use for
  phase,   \* "parse", "parsed", or "exited"
  usage,   \* what has been printed: the usage or the help ...
  error    \* ... and the line of the error

vars == <<argv, secrets, next, extras, phase, usage, error>>

Init ==
  /\ argv \in SeqOf(Tokens, MaxArgs) /\ secrets \in SecretSets
  /\ next = 1 /\ extras = <<>> /\ phase = "parse"
  /\ usage = <<>> /\ error = <<>>

-----------------------------------------------------------------------------
(* str.partition("=").                                                     *)

Equals(token) == {i \in DOMAIN token : token[i] = "="}
Separated(token) == Equals(token) # {}
Name(token) == IF Separated(token) THEN SubSeq(token, 1, Min(Equals(token)) - 1) ELSE token
Value(token) == IF Separated(token) THEN SubSeq(token, Min(Equals(token)) + 1, Len(token))
                ELSE <<>>

-----------------------------------------------------------------------------
(* Hiding.                                                                 *)

\* _option_values: given to any option a name may abbreviate.
Mutant_option_values ==
  LET given == {k \in DOMAIN argv : Name(argv[k]) = PasswordOption}
  IN {Value(argv[k]) : k \in {j \in given : Separated(argv[j])}}
     \cup {argv[k + 1] : k \in {j \in given : ~Separated(argv[j]) /\ j < Len(argv)}}
option_values ==
  LET given == {k \in DOMAIN argv :
        Len(Name(argv[k])) >= 3 /\ IsPrefix(Name(argv[k]), PasswordOption)}
  IN {Value(argv[k]) : k \in {j \in given : Separated(argv[j])}}
     \cup {argv[k + 1] : k \in {j \in given : ~Separated(argv[j]) /\ j < Len(argv)}}

Secrets == secrets_for_redaction(secrets \cup option_values)

\* What _mask_values hides: an argument, or only what follows its "=".
Mutant_Fragment(token) ==
  IF token[1] = "-" /\ ~Separated(token) THEN <<>> ELSE Value(token)
Fragment(token) ==
  CASE token \in Known -> <<>>
    [] token \notin Known /\ Separated(token) /\ Name(token) \in Known -> Value(token)
    [] OTHER -> token

\* A fragment stands alone here: blanks or quotes around it, or "=" before it.
StandsAlone(fragment, text, i) ==
  LET end == i + Len(fragment)
  IN /\ Occurs(fragment, text, i)
     /\ i = 1 \/ text[i - 1] \in {" ", "'", "="}
     /\ end > Len(text) \/ text[end] \in {" ", "'"}

\* re.sub of one fragment.
Masked(text, fragment) ==
  Rewritten(Len(text),
    [i \in DOMAIN text |-> IF StandsAlone(fragment, text, i) THEN <<"hidden">> ELSE <<text[i]>>],
    [i \in DOMAIN text |-> IF StandsAlone(fragment, text, i) THEN Len(fragment) ELSE 1])

\* The fragments, the longest first; a set of Python's has no order of its own.
Orders ==
  {order \in SetToSeqs({Fragment(argv[k]) : k \in DOMAIN argv} \ {<<>>}) :
     \A i, j \in DOMAIN order : i < j => Len(order[i]) >= Len(order[j])}

\* _mask_values: one fragment after another, and a note if one was hidden.
mask_values(message, order) ==
  LET after[k \in 0..Len(order)] ==
        IF k = 0 THEN message ELSE Masked(after[k - 1], order[k])
      masked == after[Len(order)]
  IN masked \o IF masked = message THEN <<>>
               ELSE <<" ", "(argument values hidden; see">> \o <<" ">> \o HelpOption

-----------------------------------------------------------------------------
(* The ways out.                                                           *)

Spaced(texts) == FlattenSeq([k \in DOMAIN texts |-> <<" ">> \o texts[k]])

Usage == <<"usage:">> \o Spaced(Options)

\* error: the usage, then exit with the masked message, both censored.
Fail(message) ==
  /\ usage' = redact(Usage, Secrets)
  /\ \E order \in Orders :
       error' = redact(<<"error:", " ">> \o mask_values(message, order), Secrets)
  /\ phase' = "exited"
  /\ UNCHANGED <<argv, secrets, next, extras>>

Advance(by) ==
  /\ next' = next + by
  /\ UNCHANGED <<argv, secrets, phase, usage, error>>

Reading == phase = "parse" /\ next <= Len(argv)
Token == argv[next]

\* An argument that looks like an option, and the options it may mean.
LooksLikeOption(token) == Len(token) > 1 /\ token[1] = "-"
Meant(token) ==
  IF Name(token) \in Known THEN {Name(token)}
  ELSE {option \in Known : LooksLikeOption(token) /\ IsPrefix(Name(token), option)}

\* The one option it means.
Means(option) == Reading /\ Meant(Token) = {option}

ValueFollows == next < Len(argv) /\ ~LooksLikeOption(argv[next + 1])

Unrecognized ==
  /\ Reading /\ Meant(Token) = {}
  /\ extras' = Append(extras, Token) /\ Advance(1)

Ambiguous ==
  /\ Reading /\ Cardinality(Meant(Token)) > 1
  /\ Fail(<<"ambiguous option:", " ">> \o Token \o <<" ", "could match">> \o
          FlattenSeq([k \in DOMAIN Options |->
            IF Options[k] \in Meant(Token) THEN <<" ">> \o Options[k] \o <<",">> ELSE <<>>]))

\* --option=value, and --option value.
Store ==
  \E option \in Known \ {HelpOption} :
    /\ Means(option) /\ extras' = extras
    /\ \/ Separated(Token) /\ Advance(1)
       \/ ~Separated(Token) /\ ValueFollows /\ Advance(2)

MissingValue ==
  \E option \in Known \ {HelpOption} :
    /\ Means(option) /\ ~Separated(Token) /\ ~ValueFollows
    /\ Fail(<<"argument", " ">> \o option \o <<":", " ", "expected one argument">>)

\* --help takes no value.
NeedlessValue ==
  /\ Means(HelpOption) /\ Separated(Token)
  /\ Fail(<<"argument", " ">> \o HelpOption \o
          <<":", " ", "ignored explicit argument", " ", "'">> \o Value(Token) \o <<"'">>)

print_help ==
  /\ Means(HelpOption) /\ ~Separated(Token)
  /\ usage' = redact(Usage \o HelpText, Secrets)
  /\ phase' = "exited"
  /\ UNCHANGED <<argv, secrets, next, extras, error>>

\* parse_args: no argument may be left over.
Finish ==
  /\ phase = "parse" /\ next > Len(argv)
  /\ \/ /\ extras = <<>> /\ phase' = "parsed"
        /\ UNCHANGED <<argv, secrets, next, extras, usage, error>>
     \/ extras # <<>> /\ Fail(<<"unrecognized arguments:">> \o Spaced(extras))

Done == phase # "parse" /\ UNCHANGED vars

Next ==
  \/ Unrecognized \/ Ambiguous \/ Store \/ MissingValue \/ NeedlessValue
  \/ print_help \/ Finish \/ Done

Spec == Init /\ [][Next]_vars

-----------------------------------------------------------------------------
(* Properties.                                                             *)

\* Every password on the command line, wherever argparse stopped reading: the
\* value, or what stands in its place, of each argument that means the option.
Passwords ==
  LET given == {k \in DOMAIN argv : Meant(argv[k]) = {PasswordOption}}
  IN (secrets \cup {Value(argv[k]) : k \in {j \in given : Separated(argv[j])}}
        \cup {argv[k + 1] : k \in {j \in given : ~Separated(argv[j]) /\ j < Len(argv)}})
     \ {<<>>}

\* Nothing argparse prints contains a password, given before or after the
\* argument it stopped at, also where one is part of an option string, of the
\* usage, or of a default in the help.
PasswordsCensored ==
  phase = "exited" => \A p \in Passwords : ~Contained(p, usage) /\ ~Contained(p, error)

\* The text stands between blanks or punctuation.
Word(word, text) ==
  \E i \in DOMAIN text :
    /\ Occurs(word, text, i)
    /\ i = 1 \/ text[i - 1] \in {" ", "'", "=", ":"}
    /\ i + Len(word) > Len(text) \/ text[i + Len(word)] \in {" ", "'", ":", ","}

\* An error names the option it is about, unless that shows a password, and of
\* everything else on the command line only what is an option string itself:
\* the value of a mistyped password flag looks like any other argument.
OnlyOptionsShown ==
  phase = "exited" /\ error # <<>> =>
    /\ \A k \in DOMAIN argv : \A text \in {argv[k], Value(argv[k])} \ {<<>>} :
         Word(text, error) => text \in Known
    /\ next <= Len(argv) /\ Token \in Known =>
         \/ Word(Token, error)
         \/ \E p \in Secrets : Contained(p, <<"error:", " ", "argument", " ">> \o Token)
===============================================================================
