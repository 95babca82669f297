------------------------------ MODULE Redaction ------------------------------
(***************************************************************************)
(* Keeping secrets and control characters out of labels and log lines      *)
(* (redaction.py, label_value in metrics.py) as pure operators on texts.   *)
(***************************************************************************)
EXTENDS Texts, SequencesExt

CONSTANTS
  REDACTED,          \* the marker '*censored*'
  Candidates,        \* characters for another marker, in order of preference
  MAX_LABEL_LENGTH,
  Controls           \* [control characters -> their escape letters]

Ellipsis == "..."

ASSUME LabelLengthAssumption == MAX_LABEL_LENGTH \in Nat \ {0}
ASSUME MarkerAssumption ==
  /\ REDACTED \in Seq(ToSet(REDACTED)) \ {<<>>}
  /\ Candidates \in Seq(ToSet(Candidates))
\* What is written in place of a control character, or of a secret, is printable.
ASSUME ControlsAssumption ==
  /\ "\\" \notin DOMAIN Controls
  /\ \A c \in DOMAIN Controls : Controls[c] \notin DOMAIN Controls
  /\ (ToSet(REDACTED) \cup ToSet(Candidates)) \cap DOMAIN Controls = {}

Occurs(secret, text, i) ==
  i + Len(secret) - 1 <= Len(text)
  /\ SubSeq(text, i, i + Len(secret) - 1) = secret

Contained(secret, text) == \E i \in DOMAIN text : Occurs(secret, text, i)

\* Some secret is left in the text.
Leaks(text, secrets) == \E s \in secrets : Contained(s, text)

\* secrets_for_redaction: the empty one matches everywhere and is dropped.
secrets_for_redaction(secrets) == secrets \ {<<>>}

\* pattern.sub: at each place the longest secret first.
Censored(text, secrets, marker) ==
  LET At(i) == {s \in secrets : Occurs(s, text, i)}
      Longest(i) == CHOOSE s \in At(i) : \A t \in At(i) : Len(t) <= Len(s)
  IN Rewritten(Len(text),
       [i \in DOMAIN text |-> IF At(i) = {} THEN <<text[i]>> ELSE marker],
       [i \in DOMAIN text |-> IF At(i) = {} THEN 1 ELSE Len(Longest(i))])

\* _marker_avoiding: eight copies of the first character in no secret.
MarkerAvoiding(secrets) ==
  LET used == UNION {ToSet(s) : s \in secrets}
      free == {k \in DOMAIN Candidates : Candidates[k] \notin used}
  IN [i \in 1..8 |-> Candidates[Min(free)]]

\* The usual marker, unless it brings a secret back.
Mutant_redact(text, secrets) == Censored(text, secrets, REDACTED)
redact(text, secrets) ==
  LET result == Censored(text, secrets, REDACTED)
  IN IF Leaks(result, secrets)
     THEN Censored(text, secrets, MarkerAvoiding(secrets)) ELSE result

escape_control_characters(text) ==
  FlattenSeq([i \in DOMAIN text |->
    IF text[i] \in DOMAIN Controls THEN <<"\\", Controls[text[i]]>>
    ELSE <<text[i]>>])

\* Every secret and its escaped form, which reads like it.
Forms(secrets) ==
  secrets_for_redaction(secrets \cup {escape_control_characters(s) : s \in secrets})

\* RedactingFilter.clean and printable: censored, escaped ...
Clean(text, secrets) ==
  escape_control_characters(redact(text, Forms(secrets)))

\* ... and censored again, together with the template around it.
Mutant_LogLine(template, text, secrets) == template \o Clean(text, secrets)
LogLine(template, text, secrets) ==
  redact(template \o Clean(text, secrets), Forms(secrets))

\* label_value: cut to MAX_LABEL_LENGTH, the last character then an ellipsis.
CutLabel(text) ==
  IF Len(text) <= MAX_LABEL_LENGTH THEN text
  ELSE SubSeq(text, 1, MAX_LABEL_LENGTH - 1) \o <<Ellipsis>>

\* The label of a name: censor first, then cut.
Label(name, secrets) ==
  CutLabel(redact(name, secrets_for_redaction(secrets)))
===============================================================================
