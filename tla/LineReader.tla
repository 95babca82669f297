----------------------------- MODULE LineReader -----------------------------
(***************************************************************************)
(* _read_line and _read_response of ServerQueryClient (serverquery.py) on  *)
(* the bytes of one answer, and what becomes of a name in it: the label    *)
(* and the log line the exporter makes of it.  TCP delivers the stream in  *)
(* pieces of any size.  Characters stand for bytes; the words `error` and  *)
(* `notify` that lines are told apart by are characters of their own.      *)
(***************************************************************************)
EXTENDS Wire, Redaction

CONSTANTS
  MAX_LINE_BYTES,
  MAX_SESSION_BYTES,
  ChunkSize,        \* what one recv asks for: 4096
  Answers,          \* what the host means to say: sequences of records
  RawAnswers,       \* what any other host may send, terminators included
  NameKey,          \* virtualserver_name
  Otherwise,        \* a virtualserver without one: its name in the list, or its id
  SecretSets,       \* the passwords given
  Template,         \* the exporter's own text in front of a name
  None

\* The host's side: escaped values, records joined by `|`, then the trailer.
Joined(texts, separator) ==
  FlattenSeq([k \in DOMAIN texts |->
    IF k = 1 THEN texts[k] ELSE <<separator>> \o texts[k]])

Encoded(record) ==
  LET keys == SetToSeq(DOMAIN record)
  IN Joined([k \in DOMAIN keys |-> keys[k] \o <<"=">> \o escape(record[keys[k]])],
            " ")

Trailer == <<"error", " ", "i", "d", "=", "0">>

Sent(meant) ==
  Joined([k \in DOMAIN meant |-> Encoded(meant[k])], "|")
    \o LINE_TERMINATOR \o <<"notify">> \o LINE_TERMINATOR \o Trailer \o LINE_TERMINATOR

ASSUME LimitsAssumption ==
  /\ MAX_LINE_BYTES \in Nat \ {0} /\ MAX_SESSION_BYTES \in Nat
  /\ ChunkSize \in Nat \ {0, 1}
\* The characters that can mark a password are many more than the passwords hold.
ASSUME SecretsAssumption ==
  \A S \in SecretSets :
    /\ \A s \in S : s \in Seq(ToSet(s))
    /\ \E k \in DOMAIN Candidates : \A s \in Forms(S) : Candidates[k] \notin ToSet(s)
\* What is sent is a text, and so is what the exporter says itself, on one line.
ASSUME TextAssumption ==
  /\ \A text \in {Sent(a) : a \in Answers} \cup RawAnswers \cup {Otherwise, Template} :
       text \in Seq(ToSet(text))
  /\ ToSet(Template) \cap DOMAIN Controls = {}

\* Records have fields, and their names are neither empty nor hold a character that a
\* line, a record or a field is told apart by; there is no limit on the values.
ASSUME AnswersAssumption ==
  \A meant \in Answers :
    /\ meant \in Seq(ToSet(meant)) /\ meant # <<>>
    /\ \A record \in ToSet(meant) :
         /\ IsFiniteSet(DOMAIN record) /\ DOMAIN record # {}
         /\ \A key \in DOMAIN record :
              /\ key \in Seq(ToSet(key)) /\ key # <<>>
              /\ ToSet(key) \cap (Whitespace \cup {"=", "|", "error", "notify"}) = {}
              /\ record[key] \in Seq(ToSet(record[key]))

VARIABLES
  stream,    \* what the host sends
  answer,    \* history: the records it means; None for a raw one
  delivered, \* how much of the stream was received
  buffer,    \* _buffer
  lines,     \* history: the lines read
  records,   \* the records read so far
  trailer,   \* the decoded error line
  status,    \* "reading", "answered", "published" or why the session ends
  secrets, label, logged

textVars == <<secrets, label, logged>>
vars == <<stream, answer, delivered, buffer, lines, records, trailer, status,
          textVars>>

Init ==
  /\ \/ answer \in Answers /\ stream = Sent(answer)
     \/ /\ answer = None
        /\ stream \in {raw \o LINE_TERMINATOR \o Trailer : raw \in RawAnswers}
  /\ delivered = 0 /\ buffer = <<>>
  /\ lines = <<>> /\ records = <<>> /\ trailer = None
  /\ status = "reading"
  /\ secrets = {} /\ label = None /\ logged = None

-----------------------------------------------------------------------------

\* Where LINE_TERMINATOR begins in a text.
Ends(text) ==
  {i \in 1..(Len(text) - 1) : SubSeq(text, i, i + 1) = LINE_TERMINATOR}

MustRead == status = "reading" /\ Ends(buffer) = {}

\* The length is tested before the next chunk is asked for.
Mutant_TooLong == Len(buffer) >= MAX_LINE_BYTES
TooLong == Len(buffer) > MAX_LINE_BYTES

RefuseLine ==
  /\ MustRead /\ TooLong
  /\ status' = "too long"
  /\ UNCHANGED <<stream, answer, delivered, buffer, lines, records, trailer,
                 textVars>>

Recv ==
  /\ MustRead /\ ~TooLong
  /\ \E n \in 1..ChunkSize :
       /\ delivered + n <= Len(stream)
       /\ delivered' = delivered + n
       /\ IF delivered' > MAX_SESSION_BYTES
          THEN status' = "too much" /\ buffer' = buffer
          ELSE /\ buffer' = buffer \o SubSeq(stream, delivered + 1, delivered')
               /\ status' = status
  /\ UNCHANGED <<stream, answer, lines, records, trailer, textVars>>

\* An empty chunk: the host has closed the connection.
Closed ==
  /\ MustRead /\ ~TooLong
  /\ delivered = Len(stream)
  /\ status' = "closed"
  /\ UNCHANGED <<stream, answer, delivered, buffer, lines, records, trailer,
                 textVars>>

\* buffer.partition(LINE_TERMINATOR): the line leaves, the rest stays.
Line == SubSeq(buffer, 1, Min(Ends(buffer)) - 1)
Mutant_Rest == <<>>
Rest == SubSeq(buffer, Min(Ends(buffer)) + 2, Len(buffer))

StartsWith(text, prefix) == IsPrefix(prefix, text)

\* The records of a line; one of an empty line is an empty record.
RecordsOf(line) ==
  LET parts == Split(line, "|")
  IN [k \in DOMAIN parts |-> decode_record(parts[k], None)]

ReadLine ==
  /\ status = "reading" /\ Ends(buffer) # {}
  /\ lines' = Append(lines, Line)
  /\ buffer' = Rest
  /\ \/ /\ StartsWith(Line, <<"error", " ">>)
        /\ trailer' = decode_record(SubSeq(Line, 3, Len(Line)), None)
        /\ status' = "answered" /\ records' = records
     \/ /\ StartsWith(Line, <<"notify">>)
        /\ UNCHANGED <<records, trailer, status>>
     \/ /\ ~StartsWith(Line, <<"error", " ">>) /\ ~StartsWith(Line, <<"notify">>)
        /\ records' = records \o RecordsOf(Line)
        /\ UNCHANGED <<trailer, status>>
  /\ UNCHANGED <<stream, answer, delivered, textVars>>

\* serverinfo.get(VIRTUALSERVER_LABEL) or what else names the virtualserver.
name ==
  IF records # <<>> /\ NameKey \in DOMAIN records[1] /\ records[1][NameKey] \notin {None, <<>>}
  THEN records[1][NameKey] ELSE Otherwise

\* The name becomes a label and part of a log line.
Publish ==
  /\ status = "answered" /\ answer # None
  /\ secrets' \in SecretSets
  /\ label' = Label(name, secrets')
  /\ logged' = LogLine(Template, name, secrets')
  /\ status' = "published"
  /\ UNCHANGED <<stream, answer, delivered, buffer, lines, records, trailer>>

Done ==
  /\ status \notin {"reading", "answered"} \/ (status = "answered" /\ answer = None)
  /\ UNCHANGED vars

Next == RefuseLine \/ Recv \/ Closed \/ ReadLine \/ Publish \/ Done

Spec == Init /\ [][Next]_vars

-----------------------------------------------------------------------------
(* Properties.                                                             *)

\* However the network cuts the stream -- between the two bytes of a terminator,
\* or with several lines in one piece --, the lines read are the lines sent, in
\* their order, and only while they last.
LinesWhole ==
  \E end \in [DOMAIN lines -> Ends(stream)] :
    \A k \in DOMAIN lines :
      LET last == IF k = 1 THEN -1 ELSE end[k - 1]
      IN /\ last < end[k] /\ \A i \in Ends(stream) : i > last => i >= end[k]
         /\ lines[k] = SubSeq(stream, last + 2, end[k] - 1)

\* The limit on a line as the code keeps it: the buffer never exceeds it by more
\* than a chunk, a shorter line is never refused, and one longer by a chunk never
\* accepted.  In between the cuts decide.
LineLimit ==
  /\ Len(buffer) <= MAX_LINE_BYTES + ChunkSize
  /\ \A k \in DOMAIN lines : Len(lines[k]) <= MAX_LINE_BYTES + ChunkSize - 2
  /\ status = "too long" =>
       \A i \in 1..MAX_LINE_BYTES : i \notin Ends(buffer \o
         SubSeq(stream, delivered + 1, Len(stream)))

\* A value without the white space at its end that the wire does not escape:
\* strip() removes it from the last value of a record.
Trimmed(value) ==
  LET solid == {i \in DOMAIN value : value[i] # "NBSP"}
  IN IF solid = {} THEN <<>> ELSE SubSeq(value, 1, Max(solid))

\* The records the client returns are the ones the host meant: whatever a value
\* contains, no part of it becomes a separator, a terminator or another value.
AnswerArrives ==
  status = "answered" /\ answer # None =>
    /\ Len(records) = Len(answer)
    /\ \A k \in DOMAIN answer :
         /\ DOMAIN records[k] = DOMAIN answer[k]
         /\ \A key \in DOMAIN answer[k] :
              records[k][key] \in {answer[k][key], Trimmed(answer[k][key])}

\* The cut made this secret up: it stands at the end of the label, and its last
\* character is the ellipsis.
MadeByCut(secret, text, i) ==
  /\ Len(text) > MAX_LABEL_LENGTH
  /\ i + Len(secret) - 1 = MAX_LABEL_LENGTH
  /\ secret[Len(secret)] = Ellipsis

\* redact()'s promise, through the cut: no part of the name that is a password
\* reaches a label, and a name without one is exported as it is.  The ellipsis comes
\* after redact (metrics.py:199), so a label that was cut can end in a password that
\* ends in an ellipsis itself, and in no other ("`redact()` guarantees its result
\* contains no secret", docs/architecture.md: the label is not its result).
LabelClean ==
  status = "published" =>
    LET given == secrets_for_redaction(secrets) IN
    /\ \A s \in given : \A i \in DOMAIN label :
         Occurs(s, label, i) => MadeByCut(s, redact(name, given), i)
    /\ Len(label) <= MAX_LABEL_LENGTH
    /\ ~Leaks(name, given) => label = CutLabel(name)

\* No log line holds a password or its escaped form, also not one put together
\* from the template, the name and the escaping, and one call is one line.
LogLineClean ==
  status = "published" =>
    /\ ~Leaks(logged, Forms(secrets))
    /\ \A i \in DOMAIN logged : logged[i] \notin DOMAIN Controls
===============================================================================
