--------------------------- MODULE ExporterProofs ---------------------------
(***************************************************************************)
(* The poll service and the exporter around it, for every host, every      *)
(* number of fields, gauges, polls and signals, and any interleaving with  *)
(* the HTTP threads.  In four parts: the types and the snapshot a poll     *)
(* writes; what a poll does with its session, its memory and its log;      *)
(* what a scrape may show; how the process ends.                           *)
(***************************************************************************)
EXTENDS Scrape, Exporter, FiniteSetTheorems, WellFoundedInduction, TLAPS

-----------------------------------------------------------------------------
(* Type correctness and the snapshot invariant of PollService.             *)

\* missing_fields counts: the fields a reading lacks are finitely many.
LEMMA SkippedIsCounted ==
  ASSUME NEW reading
  PROVE  Cardinality(Skipped(reading)) \in Nat
<1>1. IsFiniteSet(Fields)
  BY FieldsAssumption, FS_Interval DEF Fields
<1>2. Skipped(reading) \subseteq Fields
  BY DEF Skipped
<1>3. QED
  BY <1>1, <1>2, FS_Subset, FS_CardinalityType

\* A reading fills every column with something a gauge can hold.
LEMMA CellType ==
  ASSUME NEW reading \in Readings, NEW c \in Columns
  PROVE  Cell(reading, c) \in Cells
<1>1. CASE c = Missing
  BY <1>1, SkippedIsCounted DEF Cell, Cells
<1>2. CASE c # Missing
  <2>1. c \in Fields
    BY <1>2, FieldsAssumption DEF Columns, Fields, Missing
  <2>2. QED
    BY <1>2, <2>1 DEF Cell, Cells, Readings
<1>3. QED
  BY <1>1, <1>2

\* Whatever name the host gives, and if it gives none, the label is a label.
LEMMA LabelType ==
  ASSUME NEW info \in InfoRecords, NEW server \in ServerRecords
  PROVE  LabelOf(info, server) \in Labels
BY LabelAssumption DEF LabelOf, InfoRecords, ServerRecords

\* TypeOK needs to know that serverinfo answers for a listed virtualserver and
\* that a failed poll has a reason.
PhaseOK ==
  /\ pc = "serverinfo" => index <= Len(session.servers)
  /\ pc \in {"abandon", "failed"} => exc # None

TypeInv == TypeOK /\ PhaseOK

LEMMA TypeInit == Init => TypeInv
<1> SUFFICES ASSUME Init PROVE TypeInv
  OBVIOUS
<1>1. ControlType /\ PhaseOK
  BY DEF Init, ControlType, PhaseOK, Phases
<1>2. NoSession \in Session
  BY DEF NoSession, Session, Results
<1>3. ReadType /\ recorded \in Session
  BY <1>2 DEF Init, ReadType
<1>4. ApplyType
  BY FieldsAssumption DEF Init, ApplyType, Columns
<1>5. MemoryType
  BY DEF Init, MemoryType
<1>6. SeriesType
  BY DEF Init, SeriesType, Cells
<1>7. ErrorsType
  BY DEF Init, ErrorsType
<1>8. HealthType
  BY DEF Init, HealthType
<1>9. PollType
  BY MaxPollsAssumption DEF Init, PollType
<1>10. LogType
  BY DEF Init, LogType
<1>11. connected \in BOOLEAN
  BY DEF Init
<1>12. QED
  BY <1>1, <1>3, <1>4, <1>5, <1>6, <1>7, <1>8, <1>9, <1>10, <1>11
     DEF TypeInv, TypeOK

\* Which steps touch which part of the state: the others leave it as it is.
LEMMA Frames ==
  ASSUME Step
  PROVE  /\ \/ UNCHANGED readVars
            \/ Connect \/ Login \/ Serverlist \/ SkipNotOnline \/ Use
            \/ Serverinfo \/ Close \/ Failed \/ SetSuccess \/ Stamp
         /\ \/ UNCHANGED applyVars
            \/ SetField \/ RemoveField \/ SetMissing \/ Report
            \/ ForgetField \/ ForgetName
         /\ \/ UNCHANGED memoryVars
            \/ SetMissing \/ Report \/ ForgetName \/ Recorded
         /\ \/ UNCHANGED series
            \/ CreateChild \/ SetField \/ RemoveField \/ SetMissing
            \/ ForgetField \/ ForgetName
         /\ UNCHANGED logVars \/ SetMissing \/ Report \/ ForgetName
         /\ UNCHANGED recorded \/ Recorded
         /\ UNCHANGED pollVars \/ StartPoll
         /\ UNCHANGED healthVars \/ StartPoll \/ SetSuccess \/ Stamp
BY DEF Step, StartPoll,
   Connect, Dial, EnterGreeting, Greet, Abandon, EnterSession, Quiet,
   Login, Serverlist, SkipNotOnline, Use,
       Serverinfo, EndOfList, Close, CreateChild, SetField, RemoveField,
       SetMissing, Report, ForgetField, ForgetName, Recorded, Failed, SetSuccess,
       Stamp

\* The phases follow one another.
LEMMA ControlStep ==
  ASSUME TypeInv, Step
  PROVE  ControlType' /\ PhaseOK'
<1> USE DEF TypeInv, TypeOK, ControlType, PhaseOK, Phases, readVars
<1>1. CASE StartPoll
  BY <1>1 DEF StartPoll
<1>2. CASE Connect
  BY <1>2, NoneAssumption DEF
     Connect, Dial, EnterGreeting, Greet, Abandon, EnterSession, Quiet,
     Reasons
<1>3. CASE Login
  BY <1>3 DEF Login, Raise
<1>4. CASE Serverlist
  BY <1>4 DEF Serverlist, Raise, Reasons
<1>5. CASE SkipNotOnline
  BY <1>5 DEF SkipNotOnline
<1>6. CASE Use
  BY <1>6 DEF Use, SkipFailed, Raise, Reasons
<1>7. CASE Serverinfo
  BY <1>7 DEF Serverinfo, SkipFailed, Raise, Reasons
<1>8. CASE EndOfList
  BY <1>8 DEF EndOfList
<1>9. CASE Close
  BY <1>9 DEF Close
<1>10. CASE CreateChild \/ SetField \/ RemoveField \/ SetMissing
  BY <1>10 DEF CreateChild, SetField, RemoveField, SetMissing, Recording
<1>11. CASE Report \/ ForgetField \/ ForgetName \/ Recorded
  BY <1>11 DEF Report, ForgetField, ForgetName, Forgets, Recorded
<1>12. CASE Failed
  BY <1>12 DEF Failed
<1>13. CASE SetSuccess \/ Stamp
  BY <1>13 DEF SetSuccess, Stamp, Return
<1>14. QED
  BY <1>1, <1>2, <1>3, <1>4, <1>5, <1>6, <1>7, <1>8, <1>9, <1>10, <1>11, <1>12,
     <1>13 DEF Step

\* What the session holds: answers of the host, readings with labels.
LEMMA ReadStep ==
  ASSUME TypeInv, Step
  PROVE  ReadType'
<1> USE DEF TypeInv, TypeOK, ReadType, readVars
<1>1. CASE UNCHANGED readVars
  BY <1>1
<1>2. CASE Connect \/ Close
  BY <1>2 DEF
     Connect, Dial, EnterGreeting, Greet, Abandon, EnterSession, Quiet,
     Close
<1>3. CASE Login
  BY <1>3 DEF Login, Raise
<1>4. CASE Serverlist
  BY <1>4, AnswersAssumption DEF Serverlist, Raise, Session
<1>5. ASSUME index <= Len(session.servers) PROVE Server \in ServerRecords
  BY <1>5 DEF Server, Session
<1>6. CASE SkipNotOnline
  <2> DEFINE marked == [session.not_online EXCEPT ![Server.id] = Server.status]
  <2>1. Server.status \in Statuses
    BY <1>5, <1>6 DEF SkipNotOnline, ServerRecords
  <2>2. session.not_online \in [Ids -> Statuses \cup {None}]
    BY DEF Session
  <2>3. marked \in [Ids -> Statuses \cup {None}]
    BY <2>1, <2>2
  <2>4. session' = [session EXCEPT !.not_online = marked]
    BY <1>6 DEF SkipNotOnline
  <2> HIDE DEF marked
  <2>5. session' \in Session
    BY <2>3, <2>4 DEF Session
  <2>6. QED
    BY <1>6, <2>5 DEF SkipNotOnline
<1>7. ASSUME SkipFailed, selected' \in Ids \cup {None} PROVE ReadType'
  BY <1>7 DEF SkipFailed, Session, Results
<1>8. CASE Use
  BY <1>5, <1>7, <1>8 DEF Use, Raise, ServerRecords
<1>9. CASE Serverinfo
  <2>1. Server \in ServerRecords /\ Server.id \in Ids
    BY <1>5, <1>9 DEF Serverinfo, PhaseOK, ServerRecords
  <2>2. ASSUME NEW info \in Infos
        PROVE  [id |-> Server.id, selected |-> selected,
                name |-> LabelOf(info, Server), values |-> info.values]
                 \in Readings
    BY <2>1, LabelType, AnswersAssumption DEF Readings, InfoRecords
  <2>3. ASSUME NEW reading \in Readings,
               session' = [session EXCEPT !.readings = Append(@, reading)]
        PROVE  session' \in Session
    <3> DEFINE longer == Append(session.readings, reading)
    <3>1. session.readings \in Seq(Readings)
      BY DEF Session
    <3>2. longer \in Seq(Readings)
      BY <3>1
    <3>3. session' = [session EXCEPT !.readings = longer]
      BY <2>3
    <3> HIDE DEF longer
    <3>4. QED
      BY <3>2, <3>3 DEF Session
  <2>4. ASSUME NEW info \in Infos,
               session' = [session EXCEPT !.readings =
                 Append(@, [id |-> Server.id, selected |-> selected,
                            name |-> LabelOf(info, Server),
                            values |-> info.values])]
        PROVE  session' \in Session
    BY <2>2, <2>3, <2>4
  <2>5. \/ session' \in Session /\ selected' = selected /\ index' \in {index, index + 1}
        \/ SkipFailed /\ selected' = selected
    BY <1>9, <2>4 DEF Serverinfo, Raise
  <2>6. QED
    BY <1>7, <2>5
<1>10. NoSession \in Session
  BY DEF NoSession, Session, Results
<1>11. CASE Failed
  BY <1>11 DEF Failed, Session, Results
<1>12. CASE SetSuccess \/ Stamp
  BY <1>10, <1>12 DEF SetSuccess, Stamp, Return
<1>13. QED
  BY <1>1, <1>2, <1>3, <1>4, <1>6, <1>8, <1>9, <1>11, <1>12, Frames

\* While a reading is written it is one of the session's readings.
LEMMA ReadingType ==
  ASSUME TypeInv, Recording
  PROVE  Reading \in Readings /\ Reading.name \in Labels
<1>1. session.readings \in Seq(Readings) /\ rec \in 1..Len(session.readings)
  BY DEF TypeInv, TypeOK, ReadType, ApplyType, Session, Recording
<1>2. Reading \in Readings
  BY <1>1 DEF Reading
<1>3. QED
  BY <1>2 DEF Readings

LEMMA NamesReadType ==
  ASSUME NEW readings \in Seq(Readings)
  PROVE  NamesRead(readings) \subseteq Labels
<1>1. ASSUME NEW k \in DOMAIN readings
      PROVE  readings[k] \in Readings
  OBVIOUS
<1>2. ASSUME NEW k \in DOMAIN readings
      PROVE  readings[k].name \in Labels
  BY <1>1 DEF Readings
<1>3. QED
  BY <1>2 DEF NamesRead

LEMMA ApplyStep ==
  ASSUME TypeInv, Step
  PROVE  ApplyType'
<1> USE DEF TypeInv, TypeOK, ApplyType
<1>1. CASE UNCHANGED applyVars
  BY <1>1 DEF applyVars
<1>2. CASE SetField \/ RemoveField
  BY <1>2, FieldsAssumption DEF SetField, RemoveField, Columns, Fields
<1>3. CASE SetMissing
  BY <1>3, FieldsAssumption DEF SetMissing, Columns
<1>4. CASE Report
  BY <1>4, FieldsAssumption DEF Report, Columns, MemoryType
<1>5. CASE ForgetField
  BY <1>5, FieldsAssumption DEF ForgetField, Columns, Fields
<1>6. CASE ForgetName
  BY <1>6, FieldsAssumption DEF ForgetName, Columns
<1>7. QED
  BY <1>1, <1>2, <1>3, <1>4, <1>5, <1>6, Frames

LEMMA MemoryStep ==
  ASSUME TypeInv, Step
  PROVE  MemoryType'
<1> USE DEF TypeInv, TypeOK, MemoryType
<1>1. CASE UNCHANGED memoryVars
  BY <1>1 DEF memoryVars
<1>2. CASE SetMissing
  <2>1. Reading.name \in Labels /\ Skipped(Reading) \subseteq Fields
    BY <1>2, ReadingType DEF SetMissing, Skipped
  <2>2. QED
    BY <1>2, <2>1 DEF SetMissing
<1>3. session.readings \in Seq(Readings)
  BY DEF ReadType, Session
<1>4. CASE Report
  <2>1. session.not_online \in [Ids -> Statuses \cup {None}]
    BY DEF ReadType, Session
  <2>2. Duplicates(session.readings) \subseteq Labels
    BY <1>3, NamesReadType DEF Duplicates
  <2>3. QED
    BY <1>4, <2>1, <2>2 DEF Report
<1>5. CASE ForgetName
  BY <1>5 DEF ForgetName
<1>6. CASE Recorded
  BY <1>3, <1>6, NamesReadType DEF Recorded
<1>7. QED
  BY <1>1, <1>2, <1>4, <1>5, <1>6, Frames

LEMMA SeriesStep ==
  ASSUME TypeInv, Step
  PROVE  SeriesType'
<1> USE DEF TypeInv, TypeOK, SeriesType
<1>1. CASE UNCHANGED series
  BY <1>1
<1>2. ASSUME NEW c \in Columns, NEW n \in Labels, NEW v \in Cells,
             series' = [series EXCEPT ![c][n] = v]
      PROVE  SeriesType'
  BY <1>2
<1>3. 0 \in Cells /\ None \in Cells
  BY DEF Cells
<1>4. col \in Columns
  BY DEF ApplyType
<1>5. CASE CreateChild
  BY <1>2, <1>3, <1>4, <1>5, ReadingType DEF CreateChild
<1>6. CASE SetField \/ SetMissing
  BY <1>2, <1>4, <1>6, ReadingType, CellType DEF SetField, SetMissing, Recording
<1>7. CASE RemoveField
  BY <1>2, <1>3, <1>4, <1>7, ReadingType DEF RemoveField
<1>8. CASE ForgetField \/ ForgetName
  BY <1>2, <1>3, <1>4, <1>8 DEF ForgetField, ForgetName, Forgets
<1>9. QED
  BY <1>1, <1>5, <1>6, <1>7, <1>8, Frames

LEMMA CountersStep ==
  ASSUME TypeInv, Step
  PROVE  ErrorsType' /\ HealthType' /\ PollType'
<1> USE DEF TypeInv, TypeOK
<1>1. HealthType'
  <2> USE DEF HealthType, healthVars
  <2>1. CASE UNCHANGED healthVars
    BY <2>1
  <2>2. CASE StartPoll
    BY <2>2 DEF StartPoll
  <2>3. CASE SetSuccess \/ Stamp
    BY <2>3 DEF SetSuccess, Stamp
  <2>4. QED
    BY <2>1, <2>2, <2>3, Frames
<1>2. PollType'
  <2> USE DEF PollType, pollVars
  <2>1. CASE UNCHANGED pollVars
    BY <2>1
  <2>2. CASE StartPoll
    BY <2>2, MaxPollsAssumption DEF StartPoll, ErrorsType
  <2>3. QED
    BY <2>1, <2>2, Frames
<1>3. ErrorsType'
  <2> USE DEF ErrorsType
  <2>1. ASSUME NEW r \in Reasons,
               poll_errors' = [poll_errors EXCEPT ![r] = @ + 1]
        PROVE  ErrorsType'
    BY <2>1
  <2>2. CASE Failed
    <3>1. exc \in Reasons
      BY <2>2 DEF Failed, PhaseOK, ControlType
    <3>2. QED
      BY <2>1, <2>2, <3>1 DEF Failed
  <2>3. CASE Use \/ Serverinfo
    BY <2>1, <2>3 DEF Use, Serverinfo, SkipFailed, Raise, Reasons
  <2>4. CASE Login \/ Serverlist
    BY <2>4 DEF Login, Serverlist, Raise
  <2>5. CASE UNCHANGED poll_errors
    BY <2>5
  <2>6. QED
    BY <2>2, <2>3, <2>4, <2>5
       DEF Step, StartPoll,
          Connect, Dial, EnterGreeting, Greet, Abandon, EnterSession, Quiet,
          SkipNotOnline, EndOfList, Close, CreateChild,
           SetField, RemoveField, SetMissing, Report, ForgetField, ForgetName,
           Recorded, SetSuccess, Stamp
<1>4. QED
  BY <1>1, <1>2, <1>3

LEMMA LogStep ==
  ASSUME TypeInv, Step
  PROVE  LogType'
<1> USE DEF TypeInv, TypeOK, LogType
<1>1. CASE UNCHANGED logVars
  BY <1>1 DEF logVars
<1>2. CASE SetMissing
  <2> DEFINE lines == [f \in Fields |->
        IF f \in Unwarned(Reading)
        THEN missing_log[Reading.name][f] + 1 ELSE missing_log[Reading.name][f]]
  <2>1. Reading.name \in Labels
    BY <1>2, ReadingType DEF SetMissing
  <2>2. lines \in [Fields -> Nat]
    BY <2>1
  <2>3. missing_log' = [missing_log EXCEPT ![Reading.name] = lines]
    BY <1>2 DEF SetMissing
  <2> HIDE DEF lines
  <2>4. QED
    BY <1>2, <2>2, <2>3 DEF SetMissing
<1>3. CASE Report
  <2>1. session.not_online \in [Ids -> Statuses \cup {None}]
    BY DEF ReadType, Session
  <2>2. shared_log' \in [Labels -> Nat]
    BY <1>3 DEF Report
  <2>3. status_log' \in [Ids -> Statuses \cup {None}]
    BY <1>3, <2>1, StatusAssumption DEF Report, StatusLine, Stopped, Left
  <2>4. lapsed' \subseteq Ids
    BY <1>3 DEF Report
  <2>5. QED
    BY <1>3, <2>2, <2>3, <2>4 DEF Report
<1>4. CASE ForgetName
  <2>1. [f \in Fields |-> 0] \in [Fields -> Nat]
    OBVIOUS
  <2>2. QED
    BY <1>4, <2>1 DEF ForgetName
<1>5. QED
  BY <1>1, <1>2, <1>3, <1>4, Frames

LEMMA RestStep ==
  ASSUME TypeInv, Step
  PROVE  recorded' \in Session /\ connected' \in BOOLEAN
<1> USE DEF TypeInv, TypeOK
<1>1. recorded' \in Session
  BY Frames DEF Recorded, ReadType
<1>2. connected' \in BOOLEAN
  <2>1. connected' \in {connected, TRUE, FALSE}
    BY DEF Step, readVars, StartPoll,
       Connect, Dial, EnterGreeting, Greet, Abandon, EnterSession, Quiet,
       Login, Raise, Serverlist, SkipNotOnline,
           Use, SkipFailed, Serverinfo, EndOfList, Close, CreateChild, SetField,
           RemoveField, SetMissing, Report, ForgetField, ForgetName, Recorded,
           Failed, SetSuccess, Return, Stamp
  <2>2. QED
    BY <2>1
<1>3. QED
  BY <1>1, <1>2

LEMMA TypeNext == TypeInv /\ [Next]_vars => TypeInv'
<1> SUFFICES ASSUME TypeInv, [Next]_vars PROVE TypeInv'
  OBVIOUS
<1>1. CASE Step
  BY <1>1, ControlStep, ReadStep, ApplyStep, MemoryStep, SeriesStep, CountersStep,
     LogStep, RestStep DEF TypeInv, TypeOK
<1>2. CASE UNCHANGED vars
  BY <1>2 DEF vars, readVars, applyVars, memoryVars, healthVars, pollVars, logVars,
              TypeInv, TypeOK, ControlType, PhaseOK, ReadType, ApplyType, MemoryType,
              SeriesType, ErrorsType, HealthType, PollType, LogType
<1>3. QED
  BY <1>1, <1>2 DEF Next, Done

\* Every variable keeps its type, for every host: no step of a poll, failed or
\* not, leaves a gauge, a counter or the service's memory malformed.
THEOREM TypeCorrect == Spec => []TypeOK
<1>1. TypeInv => TypeOK
  BY DEF TypeInv
<1>2. QED
  BY TypeInit, TypeNext, <1>1, PTL DEF Spec

-----------------------------------------------------------------------------
(* The snapshot.  SnapshotWhole speaks of the time between two switches;   *)
(* to be inductive it needs to know how far a switch has come.             *)

\* How many readings column c has received when the cursor is at (rec, col).
Written(c) == IF c < col THEN rec ELSE rec - 1

\* Cell (c, n) of the table is what the first k readings leave there: the last
\* one of name n, or nothing unless n was among the names known before.
SaysUpTo(table, before, readings, k, c, n) ==
  /\ \A j \in 1..k :
       IsLast(readings, k, n, j) => table[c][n] = Cell(readings[j], c)
  /\ (\A j \in 1..k : readings[j].name # n) => n \in before \/ table[c][n] = None

\* While readings are written, every cell but the one under the cursor is what
\* the readings written so far make it.
RecordInv ==
  pc = "record" =>
    /\ rec <= Len(session.readings) + 1
    /\ rec = Len(session.readings) + 1 => col = 1
    /\ \A c \in Columns, n \in Labels :
         \/ Recording /\ c = col /\ n = Reading.name
         \/ SaysUpTo(series, known, session.readings, Written(c), c, n)

\* While names are forgotten, the names read are complete, the names neither
\* read nor waiting to be forgotten are gone, and the name being forgotten is
\* gone from the columns before the cursor.
ForgetInv ==
  pc = "forget" =>
    /\ rec = 1
    /\ \A n \in forgetting : n \notin NamesRead(session.readings)
    /\ victim = None => col = 1
    /\ victim # None =>
         victim \in forgetting /\ \A c \in Columns : c < col => series[c][victim] = None
    /\ \A c \in Columns, n \in Labels :
         /\ n \notin NamesRead(session.readings) /\ n \notin forgetting
              => series[c][n] = None
         /\ \A j \in DOMAIN session.readings :
              IsLast(session.readings, Len(session.readings), n, j)
                => series[c][n] = Cell(session.readings[j], c)

\* The cursors rest at their start, and the known names are the recorded ones.
RestInv ==
  /\ ~Switching => rec = 1 /\ col = 1
  /\ pc # "forget" => victim = None
  /\ known = NamesRead(recorded.readings)

SnapshotInv == TypeInv /\ RestInv /\ RecordInv /\ ForgetInv /\ SnapshotWhole

\* Of the first k readings, the k-th is the last one of its name, and of any
\* other name the last one is among those before it.
LEMMA LastStep ==
  ASSUME NEW readings, NEW k \in Nat \ {0}, NEW n, NEW j, IsLast(readings, k, n, j)
  PROVE  /\ readings[k].name = n => j = k
         /\ readings[k].name # n => j \in 1..(k - 1) /\ IsLast(readings, k - 1, n, j)
BY DEF IsLast

LEMMA SnapshotInit == Init => SnapshotInv
<1> SUFFICES ASSUME Init PROVE SnapshotInv
  OBVIOUS
<1>1. NamesRead(<<>>) = {}
  BY DEF NamesRead
<1>2. RestInv
  BY <1>1 DEF Init, RestInv, NoSession
<1>3. RecordInv /\ ForgetInv
  BY DEF Init, RecordInv, ForgetInv
<1>4. SnapshotWhole
  BY <1>1 DEF Init, SnapshotWhole, Holds, NoSession, IsLast
<1>5. QED
  BY <1>2, <1>3, <1>4, TypeInit DEF SnapshotInv

\* Writing one cell moves its column from rec - 1 readings to rec, and touches
\* no other cell.
LEMMA CellWritten ==
  ASSUME TypeInv, RestInv, RecordInv, Recording,
         series' = [series EXCEPT ![col][Reading.name] = Cell(Reading, col)],
         NEW c \in Columns, NEW n \in Labels
  PROVE  SaysUpTo(series', known, session.readings,
                  IF c = col THEN rec ELSE Written(c), c, n)
<1> DEFINE rs == session.readings
<1>1. Reading.name \in Labels /\ col \in Columns /\ rec \in Nat \ {0}
  BY ReadingType DEF TypeInv, TypeOK, ApplyType
<1>2. series \in [Columns -> [Labels -> Cells]]
  BY DEF TypeInv, TypeOK, SeriesType
<1>3. series'[c][n] = IF c = col /\ n = Reading.name THEN Cell(Reading, col)
                      ELSE series[c][n]
  BY <1>1, <1>2
<1>4. (c = col /\ n = Reading.name) \/ SaysUpTo(series, known, rs, Written(c), c, n)
  BY DEF RecordInv, Recording
<1>5. CASE c # col
  BY <1>3, <1>4, <1>5 DEF SaysUpTo
<1>6. CASE c = col /\ n = Reading.name
  <2>1. \A j \in 1..rec : IsLast(rs, rec, n, j) => j = rec
    BY <1>1, <1>6, LastStep DEF Reading
  <2>2. rec \in 1..rec /\ rs[rec].name = n
    BY <1>1, <1>6 DEF Reading
  <2>3. QED
    BY <1>3, <1>6, <2>1, <2>2 DEF SaysUpTo, Reading
<1>7. CASE c = col /\ n # Reading.name
  <2>1. Written(c) = rec - 1
    BY <1>1, <1>7 DEF Written, Columns
  <2>2. SaysUpTo(series, known, rs, rec - 1, c, n) /\ series'[c][n] = series[c][n]
    BY <1>3, <1>4, <1>7, <2>1
  <2>3. \A j \in 1..rec : IsLast(rs, rec, n, j)
          => j \in 1..(rec - 1) /\ IsLast(rs, rec - 1, n, j)
    BY <1>1, <1>7, LastStep DEF Reading
  <2>4. (\A j \in 1..rec : rs[j].name # n) => \A j \in 1..(rec - 1) : rs[j].name # n
    BY <1>1
  <2>5. SaysUpTo(series', known, rs, rec, c, n)
    BY <2>2, <2>3, <2>4 DEF SaysUpTo
  <2>6. QED
    BY <1>7, <2>5
<1>8. QED
  BY <1>5, <1>6, <1>7

\* The steps of a session and of the end of a poll leave the gauges alone and
\* open no switch.
LEMMA QuietStep ==
  ASSUME SnapshotInv, ~Switching, ~Switching',
         UNCHANGED <<series, recorded, known, applyVars>>
  PROVE  RestInv' /\ RecordInv' /\ ForgetInv' /\ SnapshotWhole'
<1> USE DEF SnapshotInv, Switching, applyVars
<1>1. RestInv'
  BY DEF RestInv
<1>2. RecordInv' /\ ForgetInv'
  BY DEF RecordInv, ForgetInv
<1>3. SnapshotWhole'
  BY DEF SnapshotWhole, Holds
<1>4. QED
  BY <1>1, <1>2, <1>3

\* A session that completed opens the switch: nothing is written yet, and what
\* the gauges hold belongs to known names.
LEMMA CloseStep ==
  ASSUME SnapshotInv, Close
  PROVE  RestInv' /\ RecordInv' /\ ForgetInv' /\ SnapshotWhole'
<1>1. CASE pc' = "failed"
  BY <1>1, QuietStep DEF Close, Switching, memoryVars
<1>2. CASE pc' = "record"
  <2> USE DEF Close, applyVars, memoryVars
  <2>1. rec = 1 /\ col = 1 /\ victim = None /\ Holds(series, recorded.readings)
    BY DEF SnapshotInv, RestInv, SnapshotWhole, Switching
  <2>2. RestInv' /\ ForgetInv' /\ SnapshotWhole'
    BY <1>2, <2>1 DEF SnapshotInv, RestInv, ForgetInv, SnapshotWhole, Switching
  <2>3. Len(session.readings) \in Nat
    BY DEF SnapshotInv, TypeInv, TypeOK, ReadType, Session
  <2>4. ASSUME NEW c \in Columns, NEW n \in Labels
        PROVE  SaysUpTo(series, known, session.readings, 0, c, n)
    BY <2>1 DEF SaysUpTo, Holds, SnapshotInv, RestInv
  <2>5. \A c \in Columns : Written(c)' = 0
    BY <2>1 DEF Written, Columns
  <2>6. RecordInv'
    BY <1>2, <2>1, <2>3, <2>4, <2>5 DEF RecordInv
  <2>7. QED
    BY <2>2, <2>6
<1>3. QED
  BY <1>1, <1>2 DEF Close

\* Creating a child touches only the cell under the cursor.
LEMMA CreateStep ==
  ASSUME SnapshotInv, CreateChild
  PROVE  RestInv' /\ RecordInv' /\ ForgetInv' /\ SnapshotWhole'
<1> USE DEF SnapshotInv, CreateChild, applyVars, memoryVars, readVars
<1>1. pc = "record" /\ pc' = "record"
  BY DEF Recording
<1>2. RestInv' /\ ForgetInv' /\ SnapshotWhole'
  BY <1>1 DEF RestInv, ForgetInv, SnapshotWhole, Switching
<1>3. ASSUME NEW c \in Columns, NEW n \in Labels, ~(c = col /\ n = Reading.name)
      PROVE  series'[c][n] = series[c][n]
  BY <1>3, ReadingType DEF TypeInv, TypeOK, SeriesType, ApplyType
<1>4. ASSUME NEW c \in Columns, NEW n \in Labels, ~(c = col /\ n = Reading.name)
      PROVE  SaysUpTo(series', known, session.readings, Written(c), c, n)
  BY <1>1, <1>3, <1>4 DEF RecordInv, SaysUpTo
<1>5. Recording' /\ Reading' = Reading /\ \A c \in Columns : Written(c)' = Written(c)
  BY DEF Recording, Reading, Written
<1>6. RecordInv'
  BY <1>1, <1>4, <1>5 DEF RecordInv, Recording
<1>7. QED
  BY <1>2, <1>6

\* A field is set or removed, and the cursor moves to the next column.
LEMMA FieldStep ==
  ASSUME SnapshotInv, SetField \/ RemoveField
  PROVE  RestInv' /\ RecordInv' /\ ForgetInv' /\ SnapshotWhole'
<1>1. /\ pc = "record" /\ pc' = "record" /\ rec' = rec /\ col' = col + 1
      /\ session' = session /\ known' = known /\ Recording /\ col \in Fields
      /\ series' = [series EXCEPT ![col][Reading.name] = Cell(Reading, col)]
  BY DEF SetField, RemoveField, memoryVars, readVars, Recording
<1>2. RestInv' /\ ForgetInv' /\ SnapshotWhole'
  BY <1>1 DEF SnapshotInv, RestInv, ForgetInv, SnapshotWhole, Switching, SetField, RemoveField, memoryVars, readVars
<1>3. rec \in Nat \ {0} /\ col \in Nat /\ Len(session.readings) \in Nat
  BY <1>1 DEF SnapshotInv, TypeInv, TypeOK, ApplyType, ReadType, Session, Fields
<1>4. ASSUME NEW c \in Columns
      PROVE  Written(c)' = IF c = col THEN rec ELSE Written(c)
  BY <1>1, <1>3 DEF Written, Columns
<1>5. ASSUME NEW c \in Columns, NEW n \in Labels
      PROVE  SaysUpTo(series, known, session.readings, Written(c), c, n)'
  <2>1. SaysUpTo(series', known, session.readings,
                 IF c = col THEN rec ELSE Written(c), c, n)
    BY <1>1, CellWritten DEF SnapshotInv
  <2>2. SaysUpTo(series', known, session.readings, Written(c)', c, n)
    BY <1>4, <2>1
  <2>3. QED
    BY <1>1, <2>2 DEF SaysUpTo
<1>6. rec' <= Len(session.readings)' + 1 /\ (rec' = Len(session.readings)' + 1 => col' = 1)
  BY <1>1, <1>3 DEF Recording
<1>7. RecordInv'
  BY <1>5, <1>6 DEF RecordInv
<1>8. QED
  BY <1>2, <1>7

\* missing_fields completes a reading: the cursor moves to the next one.
LEMMA MissingStep ==
  ASSUME SnapshotInv, SetMissing
  PROVE  RestInv' /\ RecordInv' /\ ForgetInv' /\ SnapshotWhole'
<1>1. /\ pc = "record" /\ pc' = "record" /\ rec' = rec + 1 /\ col' = 1
      /\ session' = session /\ known' = known /\ Recording /\ col = Missing
      /\ series' = [series EXCEPT ![col][Reading.name] = Cell(Reading, col)]
  BY DEF SetMissing, readVars, Recording
<1>2. RestInv' /\ ForgetInv' /\ SnapshotWhole'
  BY <1>1 DEF SnapshotInv, RestInv, ForgetInv, SnapshotWhole, Switching, SetMissing, readVars
<1>3. rec \in Nat \ {0} /\ Len(session.readings) \in Nat
  BY <1>1 DEF SnapshotInv, TypeInv, TypeOK, ApplyType, ReadType, Session
<1>4. ASSUME NEW c \in Columns
      PROVE  Written(c)' = IF c = col THEN rec ELSE Written(c)
  BY <1>1, <1>3, FieldsAssumption DEF Written, Columns, Missing
<1>5. ASSUME NEW c \in Columns, NEW n \in Labels
      PROVE  SaysUpTo(series, known, session.readings, Written(c), c, n)'
  <2>1. SaysUpTo(series', known, session.readings,
                 IF c = col THEN rec ELSE Written(c), c, n)
    BY <1>1, CellWritten DEF SnapshotInv
  <2>2. SaysUpTo(series', known, session.readings, Written(c)', c, n)
    BY <1>4, <2>1
  <2>3. QED
    BY <1>1, <2>2 DEF SaysUpTo
<1>6. rec' <= Len(session.readings)' + 1 /\ (rec' = Len(session.readings)' + 1 => col' = 1)
  BY <1>1, <1>3 DEF Recording
<1>7. RecordInv'
  BY <1>5, <1>6 DEF RecordInv
<1>8. QED
  BY <1>2, <1>7

\* All readings are written: what is left is to forget the known names not read.
LEMMA ReportStep ==
  ASSUME SnapshotInv, Report
  PROVE  RestInv' /\ RecordInv' /\ ForgetInv' /\ SnapshotWhole'
<1> DEFINE rs == session.readings
<1>1. /\ pc = "record" /\ pc' = "forget" /\ rec' = 1 /\ col' = 1
      /\ victim' = None /\ forgetting' = known \ NamesRead(rs)
      /\ UNCHANGED <<session, series, known, recorded>>
  BY DEF SnapshotInv, RestInv, Report, readVars
<1>2. rs \in Seq(Readings) /\ rec \in Nat \ {0}
  BY DEF SnapshotInv, TypeInv, TypeOK, ReadType, ApplyType, Session
<1>3. rec = Len(rs) + 1 /\ col = 1 /\ ~Recording
  BY <1>1, <1>2 DEF SnapshotInv, RecordInv, Report, Recording
<1>4. ASSUME NEW c \in Columns, NEW n \in Labels
      PROVE  SaysUpTo(series, known, rs, Len(rs), c, n)
  <2>1. Written(c) = Len(rs)
    BY <1>2, <1>3 DEF Written, Columns
  <2>2. SaysUpTo(series, known, rs, Written(c), c, n)
    BY <1>1, <1>3 DEF SnapshotInv, RecordInv
  <2>3. QED
    BY <2>1, <2>2
<1>5. RestInv' /\ RecordInv' /\ SnapshotWhole'
  BY <1>1 DEF SnapshotInv, RestInv, RecordInv, SnapshotWhole, Switching
<1>6. ASSUME NEW c \in Columns, NEW n \in Labels
      PROVE  /\ n \notin NamesRead(rs) /\ n \notin forgetting' => series[c][n] = None
             /\ \A j \in DOMAIN rs :
                  IsLast(rs, Len(rs), n, j) => series[c][n] = Cell(rs[j], c)
  BY <1>1, <1>2, <1>4 DEF SaysUpTo, NamesRead
<1>7. ForgetInv'
  BY <1>1, <1>6 DEF ForgetInv
<1>8. QED
  BY <1>5, <1>7

\* Forgetting removes cells of names that were not read, and of no other name.
LEMMA ForgetStep ==
  ASSUME SnapshotInv, ForgetField \/ ForgetName
  PROVE  RestInv' /\ RecordInv' /\ ForgetInv' /\ SnapshotWhole'
<1> DEFINE rs == session.readings
<1>1. PICK n \in Labels :
        /\ Forgets(n)
        /\ \/ col \in Fields /\ victim' = n /\ col' = col + 1 /\ forgetting' = forgetting
           \/ col = Missing /\ victim' = None /\ col' = 1 /\ forgetting' = forgetting \ {n}
  BY DEF ForgetField, ForgetName
<1>2. /\ pc = "forget" /\ pc' = "forget" /\ rec' = rec
      /\ UNCHANGED <<session, known, recorded>>
  BY <1>1 DEF ForgetField, ForgetName, Forgets, readVars, memoryVars
<1>3. RestInv' /\ RecordInv' /\ SnapshotWhole'
  BY <1>2 DEF SnapshotInv, RestInv, RecordInv, SnapshotWhole, Switching
<1>4. n \in forgetting /\ n \notin NamesRead(rs) /\ victim \in {None, n}
  BY <1>1, <1>2 DEF SnapshotInv, ForgetInv, Forgets
<1>5. rs \in Seq(Readings) /\ col \in Columns /\ series \in [Columns -> [Labels -> Cells]]
  BY DEF SnapshotInv, TypeInv, TypeOK, ReadType, ApplyType, SeriesType, Session
<1>6. ASSUME NEW c \in Columns, NEW m \in Labels
      PROVE  series'[c][m] = IF c = col /\ m = n THEN None ELSE series[c][m]
  BY <1>1, <1>5 DEF Forgets
<1>7. ASSUME NEW c \in Columns, c <= col
      PROVE  series'[c][n] = None
  <2>1. CASE c = col
    BY <1>6, <2>1
  <2>2. CASE c < col
    <3>1. victim = n
      BY <1>2, <1>4, <1>5, <2>2 DEF SnapshotInv, ForgetInv, Columns
    <3>2. series[c][n] = None
      BY <1>2, <2>2, <3>1, NoneAssumption DEF SnapshotInv, ForgetInv
    <3>3. QED
      BY <1>6, <3>2
  <2>3. QED
    BY <1>5, <1>7, <2>1, <2>2 DEF Columns
<1>8. ASSUME NEW c \in Columns, NEW m \in Labels, m \notin NamesRead(rs),
             m \notin forgetting'
      PROVE  series'[c][m] = None
  <2>1. CASE m = n
    BY <1>1, <1>4, <1>5, <1>7, <1>8, <2>1, FieldsAssumption DEF Columns, Missing
  <2>2. CASE m # n
    BY <1>1, <1>2, <1>6, <1>8, <2>2 DEF SnapshotInv, ForgetInv
  <2>3. QED
    BY <2>1, <2>2
<1>9. ASSUME NEW c \in Columns, NEW m \in Labels, NEW j \in DOMAIN rs,
             IsLast(rs, Len(rs), m, j)
      PROVE  series'[c][m] = Cell(rs[j], c)
  <2>1. m \in NamesRead(rs)
    BY <1>9 DEF IsLast, NamesRead
  <2>2. QED
    BY <1>2, <1>4, <1>6, <1>9, <2>1 DEF SnapshotInv, ForgetInv
<1>10. victim' # None => victim' \in forgetting' /\
         \A c \in Columns : c < col' => series'[c][victim'] = None
  <2>1. ASSUME victim' = n, forgetting' = forgetting, col' = col + 1,
               NEW c \in Columns, c < col'
        PROVE  series'[c][n] = None
    BY <1>5, <1>7, <2>1 DEF Columns
  <2>2. QED
    BY <1>1, <1>4, <2>1
<1>11. victim' = None => col' = 1
  BY <1>1, NoneAssumption
<1>12. ForgetInv'
  BY <1>1, <1>2, <1>8, <1>9, <1>10, <1>11 DEF SnapshotInv, ForgetInv
<1>13. QED
  BY <1>3, <1>12

\* Nothing is left to forget: the switch closes on the whole table of the
\* session, which becomes the recorded one.
LEMMA RecordedStep ==
  ASSUME SnapshotInv, Recorded
  PROVE  RestInv' /\ RecordInv' /\ ForgetInv' /\ SnapshotWhole'
<1>1. /\ pc = "forget" /\ pc' = "success" /\ forgetting = {}
      /\ known' = NamesRead(session.readings) /\ recorded' = session
      /\ UNCHANGED <<series, rec, col, victim>>
  BY DEF Recorded, applyVars
<1>2. rec = 1 /\ victim = None /\ col = 1
  BY <1>1 DEF SnapshotInv, ForgetInv
<1>3. RestInv'
  BY <1>1, <1>2 DEF RestInv
<1>4. RecordInv' /\ ForgetInv'
  BY <1>1 DEF RecordInv, ForgetInv
<1>5. Holds(series, session.readings)
  BY <1>1 DEF SnapshotInv, ForgetInv, Holds
<1>6. SnapshotWhole'
  BY <1>1, <1>5 DEF SnapshotWhole, Holds
<1>7. QED
  BY <1>3, <1>4, <1>6

LEMMA SnapshotNext == SnapshotInv /\ [Next]_vars => SnapshotInv'
<1> SUFFICES ASSUME SnapshotInv, [Next]_vars PROVE SnapshotInv'
  OBVIOUS
<1> USE DEF vars, readVars, applyVars, memoryVars
<1>1. TypeInv'
  BY TypeNext DEF SnapshotInv
<1>2. CASE StartPoll \/ Connect \/ Login \/ Serverlist \/ SkipNotOnline \/ Use
           \/ Serverinfo \/ EndOfList
  <2>1. ~Switching /\ ~Switching' /\ UNCHANGED <<series, recorded, known, applyVars>>
    BY <1>2 DEF Switching, StartPoll,
       Connect, Dial, EnterGreeting, Greet, Abandon, EnterSession, Quiet,
       Login, Serverlist, SkipNotOnline, Use,
                Serverinfo, EndOfList, Raise, SkipFailed
  <2>2. QED
    BY <1>1, <2>1, QuietStep DEF SnapshotInv
<1>3. CASE Failed \/ SetSuccess \/ Stamp
  <2>1. ~Switching /\ ~Switching' /\ UNCHANGED <<series, recorded, known, applyVars>>
    BY <1>3 DEF Switching, Failed, SetSuccess, Stamp, Return
  <2>2. QED
    BY <1>1, <2>1, QuietStep DEF SnapshotInv
<1>4. CASE Close \/ CreateChild \/ SetField \/ RemoveField \/ SetMissing
           \/ Report \/ ForgetField \/ ForgetName \/ Recorded
  BY <1>1, <1>4, CloseStep, CreateStep, FieldStep, MissingStep, ReportStep,
     ForgetStep, RecordedStep DEF SnapshotInv
<1>5. CASE UNCHANGED vars
  <2>1. RestInv'
    BY <1>5 DEF SnapshotInv, RestInv, Switching
  <2>2. RecordInv'
    BY <1>5 DEF SnapshotInv, RecordInv, Recording, Reading, Written, SaysUpTo
  <2>3. ForgetInv'
    BY <1>5 DEF SnapshotInv, ForgetInv
  <2>4. SnapshotWhole'
    BY <1>5 DEF SnapshotInv, SnapshotWhole, Switching, Holds
  <2>5. QED
    BY <1>1, <2>1, <2>2, <2>3, <2>4 DEF SnapshotInv
<1>6. QED
  BY <1>2, <1>3, <1>4, <1>5 DEF Next, Step, Done

\* "Read first, write after" for every host, every listing and every failure:
\* outside a switch the gauges hold exactly the last completed session.
THEOREM SnapshotCorrect == Spec => []SnapshotWhole
<1>1. SnapshotInv => SnapshotWhole
  BY DEF SnapshotInv
<1>2. QED
  BY SnapshotInit, SnapshotNext, <1>1, PTL DEF Spec

-----------------------------------------------------------------------------
(* What a poll does with its session: the client is closed in time,        *)
(* readings are filed under the right virtualserver, an aborted session is *)
(* never applied, the memory stays within the exported names, the log says *)
(* every problem once, and the whole implements what the client and a      *)
(* scrape are promised.                                                    *)

\* The client is closed on every way out, before anything is written.
THEOREM ClosedCorrect == Spec => []SessionClosed
<1>1. Init => SessionClosed
  BY DEF Init, SessionClosed
<1>2. SessionClosed /\ [Next]_vars => SessionClosed'
  <2> SUFFICES ASSUME SessionClosed, [Next]_vars PROVE SessionClosed'
    OBVIOUS
  <2> USE DEF SessionClosed, readVars
  <2>1. CASE Connect \/ Login \/ Serverlist \/ SkipNotOnline \/ Use \/ Serverinfo
    BY <2>1 DEF
       Connect, Dial, EnterGreeting, Greet, Abandon, EnterSession, Quiet,
       Login, Serverlist, SkipNotOnline, Use, Serverinfo, Raise,
                SkipFailed
  <2>2. CASE StartPoll \/ EndOfList \/ Close
    BY <2>2 DEF StartPoll, EndOfList, Close
  <2>3. CASE CreateChild \/ SetField \/ RemoveField \/ SetMissing \/ Report
    BY <2>3 DEF CreateChild, SetField, RemoveField, SetMissing, Report, Recording
  <2>4. CASE ForgetField \/ ForgetName \/ Recorded
    BY <2>4 DEF ForgetField, ForgetName, Forgets, Recorded
  <2>5. CASE Failed \/ SetSuccess \/ Stamp
    BY <2>5 DEF Failed, SetSuccess, Stamp, Return
  <2>6. CASE UNCHANGED vars
    BY <2>6 DEF vars
  <2>7. QED
    BY <2>1, <2>2, <2>3, <2>4, <2>5, <2>6 DEF Next, Step, Done
<1>3. QED
  BY <1>1, <1>2, PTL DEF Spec

\* However the wall clock is stepped, a successful poll leaves its own stamp.
THEOREM StampCorrect == Spec => []SuccessStamped
<1>1. Init => SuccessStamped
  BY DEF Init, SuccessStamped
<1>2. SuccessStamped /\ [Next]_vars => SuccessStamped'
  <2> SUFFICES ASSUME SuccessStamped, [Next]_vars PROVE SuccessStamped'
    OBVIOUS
  <2> USE DEF SuccessStamped, healthVars
  <2>1. CASE StartPoll \/ Connect \/ Login \/ Serverlist \/ SkipNotOnline
    BY <2>1 DEF StartPoll,
       Connect, Dial, EnterGreeting, Greet, Abandon, EnterSession, Quiet,
       Login, Serverlist, SkipNotOnline, Raise
  <2>2. CASE Use \/ Serverinfo \/ EndOfList \/ Close \/ Failed
    BY <2>2 DEF Use, Serverinfo, EndOfList, Close, Failed, Raise, SkipFailed
  <2>3. CASE CreateChild \/ SetField \/ RemoveField \/ SetMissing \/ Report
    BY <2>3 DEF CreateChild, SetField, RemoveField, SetMissing, Report, Recording
  <2>4. CASE ForgetField \/ ForgetName \/ Recorded
    BY <2>4 DEF ForgetField, ForgetName, Forgets, Recorded
  <2>5. CASE SetSuccess \/ Stamp
    BY <2>5 DEF SetSuccess, Stamp, Return
  <2>6. CASE UNCHANGED vars
    BY <2>6 DEF vars
  <2>7. QED
    BY <2>1, <2>2, <2>3, <2>4, <2>5, <2>6 DEF Next, Step, Done
<1>3. QED
  BY <1>1, <1>2, PTL DEF Spec

-----------------------------------------------------------------------------
(* Readings and the virtualserver selected.                                *)

\* serverinfo is asked only after `use` of the same virtualserver went through.
FiledInv ==
  /\ pc = "serverinfo" => selected = Server.id
  /\ ReadingsBelong

LEMMA FiledNext == TypeInv /\ FiledInv /\ [Next]_vars => FiledInv'
<1> SUFFICES ASSUME TypeInv, FiledInv, [Next]_vars PROVE FiledInv'
  OBVIOUS
<1> USE DEF FiledInv, ReadingsBelong, readVars, Server
<1>1. session \in Session /\ session.readings \in Seq(Readings)
      /\ session.servers \in Seq(ServerRecords)
  BY DEF TypeInv, TypeOK, ReadType, Session
<1>2. CASE Serverinfo
  <2>1. ASSUME NEW info \in Infos,
               session' = [session EXCEPT !.readings =
                 Append(@, [id |-> Server.id, selected |-> selected,
                            name |-> LabelOf(info, Server),
                            values |-> info.values])],
               pc' = "read"
        PROVE  FiledInv'
    <3> DEFINE new == [id |-> Server.id, selected |-> selected,
                       name |-> LabelOf(info, Server), values |-> info.values]
    <3>1. session'.readings = Append(session.readings, new)
      BY <1>1, <2>1 DEF Session
    <3>2. new.id = new.selected
      BY <1>2 DEF Serverinfo
    <3>3. \A k \in DOMAIN session'.readings :
            session'.readings[k] =
              IF k = Len(session.readings) + 1 THEN new ELSE session.readings[k]
      BY <1>1, <3>1
    <3>4. \A k \in DOMAIN session'.readings :
            k = Len(session.readings) + 1 \/ k \in DOMAIN session.readings
      BY <1>1, <3>1
    <3>5. QED
      BY <2>1, <3>2, <3>3, <3>4
  <2>2. CASE SkipFailed
    BY <1>1, <2>2 DEF SkipFailed, Session
  <2>3. CASE Raise({"connection", "unexpected"})
    BY <2>3 DEF Raise
  <2>4. QED
    BY <1>2, <2>1, <2>2, <2>3 DEF Serverinfo
<1>3. CASE Use
  BY <1>1, <1>3 DEF Use, SkipFailed, Raise, Session
<1>4. CASE Serverlist \/ SkipNotOnline \/ Failed
  BY <1>1, <1>4 DEF Serverlist, SkipNotOnline, Failed, Raise, Session
<1>5. CASE Connect \/ Login \/ Close
  BY <1>5 DEF
     Connect, Dial, EnterGreeting, Greet, Abandon, EnterSession, Quiet,
     Login, Close, Raise
<1>6. CASE SetSuccess \/ Stamp
  BY <1>6 DEF SetSuccess, Stamp, Return, NoSession
<1>7. CASE StartPoll \/ EndOfList
  BY <1>7 DEF StartPoll, EndOfList
<1>8. CASE CreateChild \/ SetField \/ RemoveField \/ SetMissing \/ Report
  BY <1>8 DEF CreateChild, SetField, RemoveField, SetMissing, Report, Recording
<1>9. CASE ForgetField \/ ForgetName \/ Recorded
  BY <1>9 DEF ForgetField, ForgetName, Forgets, Recorded
<1>10. CASE UNCHANGED vars
  BY <1>10 DEF vars
<1>11. QED
  BY <1>2, <1>3, <1>4, <1>5, <1>6, <1>7, <1>8, <1>9, <1>10 DEF Next, Step, Done

\* No reading is ever filed under a virtualserver that was not the selected one,
\* for every host and whatever it refuses.
THEOREM FiledCorrect == Spec => []ReadingsBelong
<1>1. Init => FiledInv
  BY DEF Init, FiledInv, ReadingsBelong, NoSession
<1>2. FiledInv => ReadingsBelong
  BY DEF FiledInv
<1>3. QED
  BY TypeInit, TypeNext, FiledNext, <1>1, <1>2, PTL DEF Spec

-----------------------------------------------------------------------------
(* Only complete sessions are applied.                                     *)

\* Every virtualserver before position n that serverlist showed online was read.
Covered(n) ==
  \A k \in DOMAIN session.servers :
    k < n /\ session.servers[k].status = "online" =>
      \E j \in DOMAIN session.readings :
        session.readings[j].id = session.servers[k].id

\* Nothing of the session has been read.
Starting ==
  {"idle", "connect", "dialled", "greeting", "created", "login", "serverlist"}

\* No exception is on its way where the session is read or written, and as long
\* as nothing was skipped, everything behind the cursor was read.
AppliedInv ==
  /\ pc \notin {"abandon", "close", "failed", "success", "stamp"} => exc = None
  /\ pc \in Starting => index = 1
  /\ pc \in {"read", "serverinfo"} /\ session.result = "OK" => Covered(index)
  /\ pc = "close" /\ exc = None /\ session.result = "OK" =>
       Covered(Len(session.servers) + 1)
  /\ AppliedComplete

LEMMA AppliedInit == Init => AppliedInv
BY DEF Init, AppliedInv, Starting, AppliedComplete, Switching

\* One virtualserver was read, or was not online: the cursor moves on.
LEMMA CursorMoves ==
  ASSUME TypeInv, AppliedInv, SkipNotOnline \/ Serverinfo, pc' = "read",
         session'.result = "OK"
  PROVE  Covered(index)'
<1>1. session.readings \in Seq(Readings) /\ session.servers \in Seq(ServerRecords)
      /\ session \in Session /\ index \in Nat
  BY DEF TypeInv, TypeOK, ReadType, Session
<1>2. CASE SkipNotOnline
  <2>1. /\ index' = index + 1 /\ session'.servers = session.servers
        /\ session'.readings = session.readings /\ session.result = "OK"
        /\ pc = "read" /\ session.servers[index].status # "online"
    BY <1>1, <1>2 DEF SkipNotOnline, Session, Server
  <2>2. \A k \in DOMAIN session.servers : k < index + 1 => k < index \/ k = index
    BY <1>1
  <2>3. QED
    BY <2>1, <2>2 DEF AppliedInv, Starting, Covered
<1>3. CASE Serverinfo
  <2>1. ~SkipFailed
    BY <1>1 DEF SkipFailed, Session
  <2>2. ~Raise({"connection", "unexpected"})
    BY DEF Raise
  <2>3. PICK info \in Infos :
          session' = [session EXCEPT !.readings =
            Append(@, [id |-> Server.id, selected |-> selected,
                       name |-> LabelOf(info, Server), values |-> info.values])]
    BY <1>3, <2>1, <2>2 DEF Serverinfo
  <2> DEFINE new == [id |-> Server.id, selected |-> selected,
                     name |-> LabelOf(info, Server), values |-> info.values]
  <2>4. index' = index + 1 /\ pc = "serverinfo"
    BY <1>3, <2>1, <2>2 DEF Serverinfo
  <2>5. /\ session'.servers = session.servers /\ session.result = "OK"
        /\ session'.readings = Append(session.readings, new)
    BY <1>1, <2>3 DEF Session
  <2>6. /\ \A j \in DOMAIN session.readings :
             j \in DOMAIN session'.readings /\ session'.readings[j] = session.readings[j]
        /\ Len(session.readings) + 1 \in DOMAIN session'.readings
        /\ session'.readings[Len(session.readings) + 1].id = session.servers[index].id
    <3>1. new.id = session.servers[index].id
      BY DEF Server
    <3>2. QED
      BY <1>1, <2>5, <3>1
  <2>7. \A k \in DOMAIN session.servers : k < index + 1 => k < index \/ k = index
    BY <1>1
  <2>8. QED
    BY <2>4, <2>5, <2>6, <2>7 DEF AppliedInv, Starting, Covered
<1>4. QED
  BY <1>2, <1>3

LEMMA AppliedNext == TypeInv /\ AppliedInv /\ [Next]_vars => AppliedInv'
<1> SUFFICES ASSUME TypeInv, AppliedInv, [Next]_vars PROVE AppliedInv'
  OBVIOUS
<1> USE DEF AppliedInv, Starting, AppliedComplete, Switching, readVars
<1>1. session.readings \in Seq(Readings) /\ session.servers \in Seq(ServerRecords)
      /\ session \in Session /\ index \in Nat
  BY DEF TypeInv, TypeOK, ReadType, Session
<1>2. CASE StartPoll \/ Connect \/ Login
  BY <1>2, NoneAssumption DEF StartPoll,
     Connect, Dial, EnterGreeting, Greet, Abandon, EnterSession, Quiet,
     Login, Raise, Reasons
<1>3. CASE Serverlist
  <2>1. CASE pc' = "read"
    <3>1. index' = 1 /\ exc' = None
      BY <1>3, <2>1 DEF Serverlist, Raise
    <3>2. session'.servers \in Seq(ServerRecords)
      <4>1. PICK servers \in Listings : session' = [session EXCEPT !.servers = servers]
        BY <1>3, <2>1 DEF Serverlist, Raise
      <4>2. servers \in Seq(ServerRecords)
        BY AnswersAssumption
      <4>3. session'.servers = servers
        BY <1>1, <4>1 DEF Session
      <4>4. QED
        BY <4>2, <4>3
    <3>3. Covered(index)'
      BY <3>1, <3>2 DEF Covered
    <3>4. QED
      BY <2>1, <3>1, <3>3
  <2>2. CASE pc' # "read"
    BY <1>3, <2>2, NoneAssumption DEF Serverlist, Raise, Reasons
  <2>3. QED
    BY <2>1, <2>2
<1>4. CASE SkipNotOnline
  <2>1. pc' = "read" /\ exc' = None
    BY <1>4 DEF SkipNotOnline
  <2>2. QED
    BY <1>4, <2>1, CursorMoves
<1>5. CASE Use
  <2>1. CASE SkipFailed
    BY <1>1, <1>5, <2>1 DEF Use, SkipFailed, Session
  <2>2. CASE Raise({"connection", "unexpected"})
    BY <2>2, NoneAssumption DEF Raise, Reasons
  <2>3. CASE pc' = "serverinfo"
    BY <1>5, <2>3 DEF Use, SkipFailed, Raise, Covered
  <2>4. QED
    BY <1>5, <2>1, <2>2, <2>3 DEF Use
<1>6. CASE Serverinfo
  <2>1. CASE pc' = "read"
    <3>1. exc' = None
      BY <1>6, <2>1 DEF Serverinfo, SkipFailed, Raise
    <3>2. QED
      BY <1>6, <2>1, <3>1, CursorMoves
  <2>2. CASE pc' # "read"
    BY <1>6, <2>2, NoneAssumption DEF Serverinfo, SkipFailed, Raise, Reasons
  <2>3. QED
    BY <2>1, <2>2
<1>7. CASE EndOfList
  BY <1>1, <1>7 DEF EndOfList, Covered
<1>8. CASE Close
  BY <1>1, <1>8 DEF Close, Covered
<1>9. CASE CreateChild \/ SetField \/ RemoveField \/ SetMissing \/ Report
  BY <1>9 DEF CreateChild, SetField, RemoveField, SetMissing, Report, Recording
<1>10. CASE ForgetField \/ ForgetName \/ Recorded
  BY <1>10 DEF ForgetField, ForgetName, Forgets, Recorded
<1>11. CASE Failed \/ SetSuccess \/ Stamp
  BY <1>11 DEF Failed, SetSuccess, Stamp, Return
<1>12. CASE UNCHANGED vars
  BY <1>12 DEF vars, Covered
<1>13. QED
  BY <1>2, <1>3, <1>4, <1>5, <1>6, <1>7, <1>8, <1>9, <1>10, <1>11, <1>12
     DEF Next, Step, Done

\* A session that broke off is never applied, and one that calls itself complete
\* holds every virtualserver the host showed online: for every host, any number of
\* virtualservers, and failures at any call.
THEOREM AppliedCorrect == Spec => []AppliedComplete
<1>1. AppliedInv => AppliedComplete
  BY DEF AppliedInv, Starting
<1>2. QED
  BY TypeInit, TypeNext, AppliedInit, AppliedNext, <1>1, PTL DEF Spec

-----------------------------------------------------------------------------
(* The memory is about exported names.                                     *)

\* While a session is written, what is remembered is about a name known before,
\* about a name read, or about one that _forget has still to remove.
MemoryInv ==
  /\ ~Switching =>
       warned_duplicates \subseteq known /\ \A e \in warned_missing : e[1] \in known
  /\ pc = "record" =>
       \A e \in warned_missing : e[1] \in known \cup NamesRead(session.readings)
  /\ pc = "forget" =>
       /\ warned_duplicates \subseteq NamesRead(session.readings)
       /\ \A e \in warned_missing :
            e[1] \in NamesRead(session.readings) \cup forgetting

LEMMA MemoryNext == TypeInv /\ MemoryInv /\ [Next]_vars => MemoryInv'
<1> SUFFICES ASSUME TypeInv, MemoryInv, [Next]_vars PROVE MemoryInv'
  OBVIOUS
<1> USE DEF MemoryInv, Switching, memoryVars, readVars
<1>1. CASE SetMissing
  <2>1. Reading.name \in NamesRead(session.readings)
    BY <1>1 DEF SetMissing, Recording, Reading, NamesRead, TypeInv, TypeOK, ReadType,
                ApplyType, Session
  <2>2. \A e \in warned_missing' : e \in warned_missing \/ e[1] = Reading.name
    BY <1>1 DEF SetMissing
  <2>3. QED
    BY <1>1, <2>1, <2>2 DEF SetMissing, Recording
<1>2. CASE Report
  BY <1>2 DEF Report, Duplicates
<1>3. CASE ForgetName
  <2>1. PICK n \in Labels : /\ forgetting' = forgetting \ {n}
                            /\ warned_missing' = {e \in warned_missing : e[1] # n}
    BY <1>3 DEF ForgetName
  <2>2. QED
    BY <1>3, <2>1 DEF ForgetName, Forgets
<1>4. CASE Recorded
  BY <1>4 DEF Recorded
<1>5. CASE StartPoll \/ Connect \/ Login \/ Serverlist \/ SkipNotOnline
  BY <1>5 DEF StartPoll,
     Connect, Dial, EnterGreeting, Greet, Abandon, EnterSession, Quiet,
     Login, Serverlist, SkipNotOnline, Raise
<1>6. CASE Use \/ Serverinfo \/ EndOfList \/ Close \/ Failed
  BY <1>6 DEF Use, Serverinfo, EndOfList, Close, Failed, Raise, SkipFailed
<1>7. CASE CreateChild \/ SetField \/ RemoveField \/ ForgetField
  BY <1>7 DEF CreateChild, SetField, RemoveField, ForgetField, Forgets, Recording
<1>8. CASE SetSuccess \/ Stamp
  BY <1>8 DEF SetSuccess, Stamp, Return
<1>9. CASE UNCHANGED vars
  BY <1>9 DEF vars, applyVars, NamesRead
<1>10. QED
  BY <1>1, <1>2, <1>3, <1>4, <1>5, <1>6, <1>7, <1>8, <1>9 DEF Next, Step, Done

\* The memory between polls never outgrows the exported names, and every name
\* with a series is a known one: with any host that renames its virtualservers.
THEOREM MemoryCorrect == Spec => []MemoryBounded
<1>1. Init => MemoryInv
  BY DEF Init, MemoryInv, Switching
<1>2. SnapshotInv /\ MemoryInv => MemoryBounded
  BY DEF SnapshotInv, RestInv, SnapshotWhole, Holds, MemoryInv, MemoryBounded
<1>3. SnapshotInv => TypeInv
  BY DEF SnapshotInv
<1>4. QED
  BY SnapshotInit, SnapshotNext, MemoryNext, <1>1, <1>2, <1>3, PTL DEF Spec

-----------------------------------------------------------------------------
(* The self-metrics agree about a poll.                                    *)

\* During a poll, no error counter is below its start, and the session is "OK"
\* as long as none is above it.
CountedInv ==
  /\ pc = "idle" => session.result = "OK"
  /\ pc # "idle" =>
       /\ \A r \in Reasons : errors_before[r] <= poll_errors[r]
       /\ session.result = "OK" <=> poll_errors = errors_before
  /\ pc = "stamp" => session.result = "OK" /\ poll_success = 1
  /\ NoSilentFailure

\* Counting one more error leaves the counters above the start of the poll.
LEMMA OneMoreError ==
  ASSUME TypeInv, CountedInv, pc # "idle", NEW reason \in Reasons,
         poll_errors' = [poll_errors EXCEPT ![reason] = @ + 1]
  PROVE  /\ \A r \in Reasons : errors_before[r] <= poll_errors'[r]
         /\ poll_errors' # errors_before
<1>1. poll_errors \in [Reasons -> Nat] /\ errors_before \in [Reasons -> Nat]
  BY DEF TypeInv, TypeOK, ErrorsType, PollType
<1>2. \A r \in Reasons : poll_errors'[r] =
        IF r = reason THEN poll_errors[r] + 1 ELSE poll_errors[r]
  BY <1>1
<1>3. \A r \in Reasons : errors_before[r] <= poll_errors[r]
  BY DEF CountedInv
<1>4. poll_errors'[reason] # errors_before[reason]
  BY <1>1, <1>2, <1>3
<1>5. QED
  BY <1>1, <1>2, <1>3, <1>4

LEMMA CountedNext == TypeInv /\ CountedInv /\ [Next]_vars => CountedInv'
<1> SUFFICES ASSUME TypeInv, CountedInv, [Next]_vars PROVE CountedInv'
  OBVIOUS
<1> USE DEF CountedInv, NoSilentFailure, readVars, pollVars, healthVars
<1>1. session \in Session /\ poll_errors \in [Reasons -> Nat]
      /\ exc \in Reasons \cup {None} /\ "query" \in Reasons
  BY DEF TypeInv, TypeOK, ReadType, ErrorsType, ControlType, Reasons
<1>2. CASE StartPoll
  BY <1>1, <1>2 DEF StartPoll
<1>3. ASSUME SkipFailed, pc # "idle", UNCHANGED pollVars
      PROVE  CountedInv'
  <2>1. session'.result = "PARTIAL" /\ pc' = "read"
    BY <1>1, <1>3 DEF SkipFailed, Session
  <2>2. \A r \in Reasons : errors_before[r] <= poll_errors'[r]
    BY <1>1, <1>3, OneMoreError DEF SkipFailed
  <2>3. poll_errors' # errors_before
    BY <1>1, <1>3, OneMoreError DEF SkipFailed
  <2>4. QED
    BY <1>3, <2>1, <2>2, <2>3
<1>4. CASE Use
  BY <1>3, <1>4 DEF Use, Raise
<1>5. CASE Serverinfo
  <2>1. CASE SkipFailed
    BY <1>3, <1>5, <2>1 DEF Serverinfo
  <2>2. CASE ~SkipFailed
    <3>1. session'.result = session.result /\ pc' # "idle" /\ pc' # "stamp"
      BY <1>1, <1>5, <2>2 DEF Serverinfo, Raise, Session
    <3>2. QED
      BY <1>5, <2>2, <3>1 DEF Serverinfo, Raise
  <2>3. QED
    BY <2>1, <2>2
<1>6. CASE Serverlist \/ SkipNotOnline
  <2>1. session'.result = session.result /\ pc' # "idle" /\ pc' # "stamp"
    BY <1>1, <1>6 DEF Serverlist, SkipNotOnline, Raise, Session
  <2>2. QED
    BY <1>6, <2>1 DEF Serverlist, SkipNotOnline, Raise
<1>7. CASE Connect \/ Login \/ EndOfList \/ Close
  BY <1>7 DEF
     Connect, Dial, EnterGreeting, Greet, Abandon, EnterSession, Quiet,
     Login, EndOfList, Close, Raise
<1>8. CASE Failed
  <2>1. exc \in Reasons
    BY <1>1, <1>8 DEF Failed, TypeInv, PhaseOK
  <2>2. session'.result = "FAILED" /\ pc' = "success"
    BY <1>1, <1>8 DEF Failed, Session
  <2>3. /\ \A r \in Reasons : errors_before[r] <= poll_errors'[r]
        /\ poll_errors' # errors_before
    BY <1>8, <2>1, OneMoreError DEF Failed
  <2>4. QED
    BY <1>8, <2>2, <2>3 DEF Failed
<1>9. CASE SetSuccess \/ Stamp
  BY <1>9 DEF SetSuccess, Stamp, Return, NoSession
<1>10. CASE CreateChild \/ SetField \/ RemoveField \/ SetMissing \/ Report
  BY <1>10 DEF CreateChild, SetField, RemoveField, SetMissing, Report, Recording
<1>11. CASE ForgetField \/ ForgetName \/ Recorded
  BY <1>11 DEF ForgetField, ForgetName, Forgets, Recorded
<1>12. CASE UNCHANGED vars
  BY <1>12 DEF vars
<1>13. QED
  BY <1>2, <1>4, <1>5, <1>6, <1>7, <1>8, <1>9, <1>10, <1>11, <1>12 DEF Next, Step, Done

\* After a poll, poll_success is 1 exactly when the poll counted no error: none is
\* ever lost, whichever virtualserver or call it came from.
THEOREM CountedCorrect == Spec => []NoSilentFailure
<1>1. Init => CountedInv
  BY DEF Init, CountedInv, NoSession, NoSilentFailure
<1>2. CountedInv => NoSilentFailure
  BY DEF CountedInv
<1>3. QED
  BY TypeInit, TypeNext, CountedNext, <1>1, <1>2, PTL DEF Spec

\* The success metric, the error counters and the two timestamps never contradict
\* each other between two polls (service.py:91-118), whatever failed and however the
\* wall clock was stepped.
THEOREM SelfMetricsCorrect == Spec => []SelfMetricsAgree
<1>1. NoSilentFailure /\ SuccessStamped => SelfMetricsAgree
  BY DEF SelfMetricsAgree
<1>2. QED
  BY CountedCorrect, StampCorrect, <1>1, PTL

-----------------------------------------------------------------------------
(* What the log says: every problem of the exported snapshot once, and the *)
(* present status of every virtualserver, for every host and any sequence  *)
(* of failed polls.  The histories follow the service's own memory, which  *)
(* is what the two invariants say.                                         *)

\* The steps that touch neither the log, nor its memory, nor what is recorded.
Silent ==
  UNCHANGED <<warned_missing, not_online, warned_duplicates, logVars>>

LEMMA SilentStep ==
  ASSUME [Next]_vars
  PROVE  \/ SetMissing \/ Report \/ ForgetName
         \/ Silent
<1> USE DEF Silent, logVars, memoryVars
<1>1. CASE StartPoll \/ Connect \/ Login \/ Serverlist \/ SkipNotOnline
  BY <1>1 DEF StartPoll,
     Connect, Dial, EnterGreeting, Greet, Abandon, EnterSession, Quiet,
     Login, Serverlist, SkipNotOnline
<1>2. CASE Use \/ Serverinfo \/ EndOfList \/ Close \/ Failed
  BY <1>2 DEF Use, Serverinfo, EndOfList, Close, Failed
<1>3. CASE CreateChild \/ SetField \/ RemoveField \/ ForgetField \/ Recorded
  BY <1>3 DEF CreateChild, SetField, RemoveField, ForgetField, Recorded
<1>4. CASE SetSuccess \/ Stamp
  BY <1>4 DEF SetSuccess, Stamp
<1>5. CASE UNCHANGED vars
  BY <1>5 DEF vars
<1>6. QED
  BY <1>1, <1>2, <1>3, <1>4, <1>5 DEF Next, Step, Done

-----------------------------------------------------------------------------
(* Warnings.                                                               *)

\* A warning was logged exactly when it is remembered, and only once.
Remembered ==
  /\ \A n \in Labels : shared_log[n] = IF n \in warned_duplicates THEN 1 ELSE 0
  /\ \A n \in Labels, f \in Fields :
       missing_log[n][f] = IF <<n, f>> \in warned_missing THEN 1 ELSE 0

\* The fields these readings lack are remembered.
Warned(readings) ==
  \A j \in DOMAIN readings : \A f \in Skipped(readings[j]) :
    <<readings[j].name, f>> \in warned_missing

\* What is remembered is about the recorded session, until Report brings it to
\* the one being written; the missing fields come reading by reading.
WarnedInv ==
  /\ Remembered
  /\ pc # "forget" => warned_duplicates = Duplicates(recorded.readings)
  /\ pc = "forget" =>
       warned_duplicates = Duplicates(session.readings) /\ Warned(session.readings)
  /\ pc = "record" =>
       \A j \in DOMAIN session.readings : j < rec =>
         \A f \in Skipped(session.readings[j]) :
           <<session.readings[j].name, f>> \in warned_missing
  /\ ~Switching => Warned(recorded.readings)

LEMMA RememberedNext ==
  ASSUME TypeInv, Remembered, [Next]_vars PROVE Remembered'
<1> USE DEF Remembered
<1>1. CASE SetMissing
  <2>1. Reading \in Readings
    BY <1>1, ReadingType DEF SetMissing, Recording
  <2>2. shared_log' = shared_log /\ warned_duplicates' = warned_duplicates
    BY <1>1 DEF SetMissing
  <2>3. /\ missing_log \in [Labels -> [Fields -> Nat]]
        /\ missing_log' = [missing_log EXCEPT ![Reading.name] = [f \in Fields |->
             IF f \in Unwarned(Reading) THEN @[f] + 1 ELSE @[f]]]
        /\ warned_missing' = warned_missing \cup ({Reading.name} \X Skipped(Reading))
    BY <1>1 DEF SetMissing, TypeInv, TypeOK, LogType
  <2>4. ASSUME NEW n \in Labels, NEW f \in Fields
        PROVE  missing_log'[n][f] = IF <<n, f>> \in warned_missing' THEN 1 ELSE 0
    <3>1. CASE n = Reading.name
      <4>1. missing_log'[n][f] =
              IF f \in Unwarned(Reading) THEN missing_log[n][f] + 1 ELSE missing_log[n][f]
        BY <2>3, <3>1
      <4>2. <<n, f>> \in warned_missing' <=>
              <<n, f>> \in warned_missing \/ f \in Skipped(Reading)
        BY <2>3, <3>1
      <4>3. QED
        BY <3>1, <4>1, <4>2 DEF Unwarned
    <3>2. CASE n # Reading.name
      <4>1. missing_log'[n] = missing_log[n]
        BY <2>3, <3>2
      <4>2. <<n, f>> \in warned_missing' <=> <<n, f>> \in warned_missing
        BY <2>3, <3>2
      <4>3. QED
        BY <4>1, <4>2
    <3>3. QED
      BY <3>1, <3>2
  <2>5. QED
    BY <2>2, <2>4
<1>2. CASE Report
  <2>1. missing_log' = missing_log /\ warned_missing' = warned_missing
    BY <1>2 DEF Report
  <2>2. ASSUME NEW n \in Labels
        PROVE  shared_log'[n] = IF n \in warned_duplicates' THEN 1 ELSE 0
    BY <1>2 DEF Report
  <2>3. QED
    BY <2>1, <2>2
<1>3. CASE ForgetName
  <2>1. PICK m \in Labels :
          /\ warned_missing' = {e \in warned_missing : e[1] # m}
          /\ missing_log' = [missing_log EXCEPT ![m] = [f \in Fields |-> 0]]
    BY <1>3 DEF ForgetName
  <2>2. shared_log' = shared_log /\ warned_duplicates' = warned_duplicates
    BY <1>3 DEF ForgetName
  <2>3. ASSUME NEW n \in Labels, NEW f \in Fields
        PROVE  missing_log'[n][f] = IF <<n, f>> \in warned_missing' THEN 1 ELSE 0
    <3>1. missing_log'[n][f] = IF n = m THEN 0 ELSE missing_log[n][f]
      BY <2>1 DEF TypeInv, TypeOK, LogType
    <3>2. <<n, f>> \in warned_missing' <=> <<n, f>> \in warned_missing /\ n # m
      BY <2>1
    <3>3. QED
      BY <3>1, <3>2
  <2>4. QED
    BY <2>2, <2>3
<1>4. CASE Silent
  BY <1>4 DEF Silent, logVars
<1>5. QED
  BY <1>1, <1>2, <1>3, <1>4, SilentStep

LEMMA WarnedNext == SnapshotInv /\ WarnedInv /\ [Next]_vars => WarnedInv'
<1> SUFFICES ASSUME SnapshotInv, WarnedInv, [Next]_vars PROVE WarnedInv'
  OBVIOUS
<1>1. Remembered'
  BY RememberedNext DEF SnapshotInv, WarnedInv
<1>2. session.readings \in Seq(Readings) /\ rec \in Nat
  BY DEF SnapshotInv, TypeInv, TypeOK, ReadType, ApplyType, Session
<1> USE DEF Switching
<1>3. CASE SetMissing
  <2>1. /\ pc = "record" /\ pc' = "record" /\ rec' = rec + 1
        /\ session' = session /\ recorded' = recorded
        /\ warned_duplicates' = warned_duplicates
        /\ warned_missing' = warned_missing \cup ({Reading.name} \X Skipped(Reading))
    BY <1>3 DEF SetMissing, Recording, readVars
  <2>2. ASSUME NEW j \in DOMAIN session.readings, j < rec + 1,
               NEW f \in Skipped(session.readings[j])
        PROVE  <<session.readings[j].name, f>> \in warned_missing'
    <3>1. CASE j < rec
      BY <2>1, <2>2, <3>1 DEF WarnedInv
    <3>2. CASE j = rec
      BY <2>1, <2>2, <3>2 DEF Reading
    <3>3. QED
      BY <1>2, <2>2, <3>1, <3>2
  <2>3. QED
    BY <1>1, <2>1, <2>2 DEF WarnedInv
<1>4. CASE Report
  <2>1. /\ pc = "record" /\ rec > Len(session.readings) /\ pc' = "forget"
        /\ session' = session /\ warned_missing' = warned_missing
        /\ warned_duplicates' = Duplicates(session.readings)
    BY <1>4 DEF Report, readVars
  <2>2. Warned(session.readings)
    BY <1>2, <2>1 DEF WarnedInv, Warned
  <2>3. QED
    BY <1>1, <2>1, <2>2 DEF WarnedInv, Warned
<1>5. CASE ForgetName
  <2>1. PICK m \in Labels :
          m \in forgetting /\ warned_missing' = {e \in warned_missing : e[1] # m}
    BY <1>5 DEF ForgetName, Forgets
  <2>2. /\ pc = "forget" /\ pc' = "forget" /\ session' = session
        /\ warned_duplicates' = warned_duplicates
    BY <1>5 DEF ForgetName, Forgets, readVars
  <2>3. \A j \in DOMAIN session.readings : session.readings[j].name # m
    BY <2>1, <2>2 DEF SnapshotInv, ForgetInv, NamesRead
  <2>4. Warned(session.readings)'
    BY <2>1, <2>2, <2>3 DEF WarnedInv, Warned
  <2>5. QED
    BY <1>1, <2>2, <2>4 DEF WarnedInv
<1>6. CASE Recorded
  <2>1. /\ pc = "forget" /\ pc' = "success" /\ recorded' = session
        /\ warned_missing' = warned_missing /\ warned_duplicates' = warned_duplicates
    BY <1>6 DEF Recorded
  <2>2. QED
    BY <1>1, <2>1 DEF WarnedInv, Warned
<1>7. ASSUME Silent, recorded' = recorded, pc \notin {"record", "forget"},
             pc' \notin {"record", "forget"}
      PROVE  WarnedInv'
  BY <1>1, <1>7 DEF Silent, WarnedInv, Warned
<1>8. CASE Close
  <2>1. /\ pc = "close" /\ pc' # "forget" /\ recorded' = recorded /\ rec' = rec
        /\ session' = session /\ warned_missing' = warned_missing
        /\ warned_duplicates' = warned_duplicates
    BY <1>8 DEF Close, applyVars, memoryVars
  <2>2. rec = 1
    BY <2>1 DEF SnapshotInv, RestInv
  <2>3. QED
    BY <1>1, <1>2, <2>1, <2>2 DEF WarnedInv, Warned
<1>9. CASE CreateChild \/ SetField \/ RemoveField
  <2>1. /\ UNCHANGED <<pc, rec, session, recorded, warned_missing, warned_duplicates>>
        /\ pc = "record"
    BY <1>9 DEF CreateChild, SetField, RemoveField, Recording, readVars, applyVars, memoryVars
  <2>2. QED
    BY <1>1, <2>1 DEF WarnedInv
<1>10. CASE ForgetField
  <2>1. /\ UNCHANGED <<pc, rec, session, recorded, warned_missing, warned_duplicates>>
        /\ pc = "forget"
    BY <1>10 DEF ForgetField, Forgets, readVars, memoryVars
  <2>2. QED
    BY <1>1, <2>1 DEF WarnedInv, Warned
<1>11. CASE StartPoll \/ Connect \/ Login \/ Serverlist \/ SkipNotOnline
  <2>1. Silent /\ recorded' = recorded
    BY <1>11 DEF StartPoll,
       Connect, Dial, EnterGreeting, Greet, Abandon, EnterSession, Quiet,
       Login, Serverlist, SkipNotOnline, Silent,
                 memoryVars, logVars
  <2>2. pc \notin {"record", "forget"} /\ pc' \notin {"record", "forget"}
    BY <1>11 DEF StartPoll,
       Connect, Dial, EnterGreeting, Greet, Abandon, EnterSession, Quiet,
       Login, Serverlist, SkipNotOnline, Raise
  <2>3. QED
    BY <1>7, <2>1, <2>2
<1>12. CASE Use \/ Serverinfo \/ EndOfList
  <2>1. Silent /\ recorded' = recorded
    BY <1>12 DEF Use, Serverinfo, EndOfList, Silent, memoryVars, logVars
  <2>2. pc \notin {"record", "forget"} /\ pc' \notin {"record", "forget"}
    BY <1>12 DEF Use, Serverinfo, EndOfList, Raise, SkipFailed
  <2>3. QED
    BY <1>7, <2>1, <2>2
<1>13. CASE Failed \/ SetSuccess \/ Stamp
  <2>1. Silent /\ recorded' = recorded
    BY <1>13 DEF Failed, SetSuccess, Stamp, Silent, memoryVars, logVars
  <2>2. pc \notin {"record", "forget"} /\ pc' \notin {"record", "forget"}
    BY <1>13 DEF Failed, SetSuccess, Stamp, Return
  <2>3. QED
    BY <1>7, <2>1, <2>2
<1>14. CASE UNCHANGED vars
  BY <1>1, <1>14 DEF vars, WarnedInv, Warned, readVars, applyVars, memoryVars
<1>15. QED
  BY <1>3, <1>4, <1>5, <1>6, <1>8, <1>9, <1>10, <1>11, <1>12, <1>13, <1>14
     DEF Next, Step, Done

\* For any host and any number of polls, failed ones included: what the exported
\* snapshot lacks or shares was logged, and logged once.
THEOREM WarnedCorrect == Spec => []WarnedExactlyOnce
<1>1. Init => WarnedInv
  <2> SUFFICES ASSUME Init PROVE WarnedInv
    OBVIOUS
  <2>1. Duplicates(<<>>) = {}
    BY DEF Duplicates, NamesRead
  <2>2. QED
    BY <2>1 DEF Init, WarnedInv, Remembered, Warned, NoSession, Switching
<1>2. WarnedInv => WarnedExactlyOnce
  <2> SUFFICES ASSUME WarnedInv, ~Switching PROVE WarnedExactlyOnce
    BY DEF WarnedExactlyOnce
  <2>1. pc # "forget" /\ Warned(recorded.readings) /\ Remembered
    BY DEF WarnedInv, Switching
  <2>2. ASSUME NEW n \in Labels
        PROVE  shared_log[n] = IF n \in Duplicates(recorded.readings) THEN 1 ELSE 0
    BY <2>1 DEF WarnedInv, Remembered
  <2>3. ASSUME NEW n \in Labels, NEW f \in Fields
        PROVE  /\ missing_log[n][f] \in {0, 1}
               /\ \A j \in DOMAIN recorded.readings :
                    recorded.readings[j].name = n /\ f \in Skipped(recorded.readings[j])
                      => missing_log[n][f] = 1
    BY <2>1 DEF Remembered, Warned
  <2>4. QED
    BY <2>2, <2>3 DEF WarnedExactlyOnce
<1>3. QED
  BY SnapshotInit, SnapshotNext, WarnedNext, <1>1, <1>2, PTL DEF Spec

-----------------------------------------------------------------------------
(* Status changes.                                                         *)

\* The log follows the memory: a virtualserver remembered as not online was last
\* logged with that status, any other one as online or not at all, unless its
\* status was forgotten without a line.
Followed ==
  \A v \in Ids :
    IF not_online[v] = None
    THEN status_log[v] \in {None, "online"} \/ v \in lapsed
    ELSE status_log[v] = not_online[v]

\* Before position n, the statuses noted are those listed, and no others are.
Noted(s, n) ==
  /\ \A k \in DOMAIN s.servers : k < n =>
       s.not_online[s.servers[k].id] =
         IF s.servers[k].status = "online" THEN None ELSE s.servers[k].status
  /\ \A v \in Ids : s.not_online[v] # None =>
       \E k \in DOMAIN s.servers : k < n /\ s.servers[k].id = v

NotedWhole(s) == Noted(s, Len(s.servers) + 1)

\* The host lists no virtualserver twice.
UniqueIds ==
  \A listing \in Listings : \A j, k \in DOMAIN listing :
    listing[j].id = listing[k].id => j = k

\* The session notes statuses up to its cursor; one that is applied has noted
\* them all, and between polls the memory is that of the recorded session.
StatusInv ==
  /\ Followed
  /\ pc \in Starting => session = NoSession
  /\ pc \in {"read", "serverinfo"} =>
       session.servers \in Listings /\ Noted(session, index)
  /\ pc = "serverinfo" => Server.status = "online"
  /\ (pc = "close" /\ exc = None) \/ Switching => NotedWhole(session)
  /\ pc = "forget" => not_online = session.not_online
  /\ ~Switching => not_online = recorded.not_online /\ NotedWhole(recorded)

LEMMA FollowedNext ==
  ASSUME TypeInv, StatusInv, [Next]_vars PROVE Followed'
<1>1. CASE Report
  <2>1. /\ status_log' = [v \in Ids |-> StatusLine(v)]
        /\ lapsed' = {v \in lapsed : ~Stopped(v)} \cup
                     {v \in Ids : Left(v) /\ v \notin ListedIds(session)}
        /\ not_online' = session.not_online /\ pc = "record"
    BY <1>1 DEF Report
  <2>2. ASSUME NEW v \in Ids, session.not_online[v] # None
        PROVE  StatusLine(v) = session.not_online[v]
    BY <2>2 DEF StatusInv, Starting, Followed, StatusLine, Stopped, Left
  <2>3. ASSUME NEW v \in Ids, session.not_online[v] = None
        PROVE  StatusLine(v) \in {None, "online"} \/ v \in lapsed'
    <3>1. ~Stopped(v)
      BY <2>3 DEF Stopped
    <3>2. CASE Left(v)
      BY <2>1, <3>1, <3>2 DEF StatusLine
    <3>3. CASE ~Left(v)
      BY <2>1, <2>3, <3>1, <3>3 DEF StatusLine, Left, StatusInv, Starting, Followed
    <3>4. QED
      BY <3>2, <3>3
  <2>4. QED
    BY <2>1, <2>2, <2>3 DEF Followed
<1>2. CASE SetMissing \/ ForgetName
  BY <1>2 DEF SetMissing, ForgetName, StatusInv, Starting, Followed
<1>3. CASE Silent
  BY <1>3 DEF Silent, logVars, StatusInv, Starting, Followed
<1>4. QED
  BY <1>1, <1>2, <1>3, SilentStep

\* An online virtualserver has no status noted when the cursor comes to it, and
\* the cursor may pass it.
LEMMA PassOnline ==
  ASSUME UniqueIds, TypeInv, StatusInv, pc \in {"read", "serverinfo"},
         index \in DOMAIN session.servers, Server.status = "online",
         session'.servers = session.servers, session'.not_online = session.not_online,
         index' = index + 1
  PROVE  session'.servers \in Listings /\ Noted(session, index)'
<1>1. /\ session.servers \in Seq(ServerRecords) /\ index \in Nat
      /\ session.servers \in Listings /\ Noted(session, index)
  BY DEF TypeInv, TypeOK, ReadType, Session, StatusInv, Starting
<1>2. Server.id \in Ids
  <2>1. session.servers[index] \in ServerRecords
    BY <1>1
  <2>2. QED
    BY <2>1 DEF Server, ServerRecords
<1>3. session.not_online[Server.id] = None
  <2>1. ASSUME NEW k \in DOMAIN session.servers, session.servers[k].id = Server.id
        PROVE  k = index
    BY <1>1, <2>1 DEF UniqueIds, Server
  <2>2. QED
    BY <1>1, <1>2, <2>1 DEF Noted
<1>4. \A k \in DOMAIN session.servers : k < index + 1 => k < index \/ k = index
  BY <1>1
<1>5. ASSUME NEW k \in DOMAIN session.servers, k < index + 1
      PROVE  session.not_online[session.servers[k].id] =
               IF session.servers[k].status = "online" THEN None
               ELSE session.servers[k].status
  BY <1>1, <1>3, <1>4, <1>5 DEF Noted, Server
<1>6. ASSUME NEW v \in Ids, session.not_online[v] # None
      PROVE  \E k \in DOMAIN session.servers : k < index + 1 /\ session.servers[k].id = v
  BY <1>1, <1>6 DEF Noted
<1>7. QED
  BY <1>1, <1>5, <1>6 DEF Noted

LEMMA NoteNotOnline ==
  ASSUME UniqueIds, TypeInv, StatusInv, SkipNotOnline
  PROVE  session'.servers \in Listings /\ Noted(session, index)'
<1>1. /\ session.servers \in Seq(ServerRecords) /\ index \in Nat
      /\ session.not_online \in [Ids -> Statuses \cup {None}] /\ session \in Session
      /\ session.servers \in Listings /\ Noted(session, index)
  BY DEF TypeInv, TypeOK, ReadType, Session, StatusInv, Starting, SkipNotOnline
<1>2. index \in DOMAIN session.servers /\ Server.id \in Ids
  <2>1. index \in DOMAIN session.servers
    BY <1>1 DEF SkipNotOnline, TypeInv, TypeOK, ReadType
  <2>2. session.servers[index] \in ServerRecords
    BY <1>1, <2>1
  <2>3. QED
    BY <2>1, <2>2 DEF Server, ServerRecords
<1>3. /\ session'.servers = session.servers /\ index' = index + 1
      /\ session'.not_online = [session.not_online EXCEPT ![Server.id] = Server.status]
      /\ Server.status # "online"
  BY <1>1 DEF SkipNotOnline, Session
<1>4. \A k \in DOMAIN session.servers : k < index + 1 => k < index \/ k = index
  BY <1>1
<1>5. ASSUME NEW k \in DOMAIN session.servers, k < index + 1
      PROVE  session'.not_online[session.servers[k].id] =
               IF session.servers[k].status = "online" THEN None
               ELSE session.servers[k].status
  <2>1. CASE k = index
    BY <1>1, <1>2, <1>3, <2>1 DEF Server
  <2>2. CASE k < index
    <3>1. session.servers[k].id # Server.id
      BY <1>1, <1>2, <2>2 DEF UniqueIds, Server
    <3>2. session.servers[k].id \in Ids
      <4>1. session.servers[k] \in ServerRecords
        BY <1>1
      <4>2. QED
        BY <4>1 DEF ServerRecords
    <3>3. session'.not_online[session.servers[k].id] =
            session.not_online[session.servers[k].id]
      BY <1>1, <1>3, <3>1, <3>2
    <3>4. QED
      BY <1>1, <2>2, <3>3 DEF Noted
  <2>3. QED
    BY <1>4, <1>5, <2>1, <2>2
<1>6. ASSUME NEW v \in Ids, session'.not_online[v] # None
      PROVE  \E k \in DOMAIN session.servers : k < index + 1 /\ session.servers[k].id = v
  <2>1. CASE v = Server.id
    BY <1>1, <1>2, <2>1 DEF Server
  <2>2. CASE v # Server.id
    BY <1>1, <1>3, <1>6, <2>2 DEF Noted
  <2>3. QED
    BY <2>1, <2>2
<1>7. QED
  BY <1>1, <1>3, <1>5, <1>6 DEF Noted

LEMMA StatusNext ==
  ASSUME UniqueIds, TypeInv, AppliedInv, StatusInv, [Next]_vars PROVE StatusInv'
<1>1. Followed'
  BY FollowedNext
<1>2. /\ session \in Session /\ session.servers \in Seq(ServerRecords) /\ index \in Nat
      /\ session.not_online \in [Ids -> Statuses \cup {None}]
  BY DEF TypeInv, TypeOK, ReadType, Session
<1> USE DEF Switching
<1>3. CASE StartPoll \/ Connect \/ Login
  BY <1>1, <1>3, NoneAssumption DEF StartPoll,
     Connect, Dial, EnterGreeting, Greet, Abandon, EnterSession, Quiet,
     Login, Raise, StatusInv, Starting,
     NotedWhole, Noted, readVars, memoryVars, Reasons, AppliedInv
<1>4. CASE Serverlist
  <2>1. CASE pc' = "read"
    <3>1. PICK servers \in Listings : session' = [session EXCEPT !.servers = servers]
      BY <1>4, <2>1 DEF Serverlist, Raise
    <3>2. index' = 1 /\ session = NoSession /\ UNCHANGED <<not_online, recorded>>
      BY <1>4, <2>1 DEF Serverlist, Raise, AppliedInv, Starting, StatusInv, memoryVars
    <3>3. session'.servers = servers /\ \A v \in Ids : session'.not_online[v] = None
      BY <3>1, <3>2 DEF NoSession
    <3>4. servers \in Seq(ServerRecords)
      BY AnswersAssumption
    <3>5. Noted(session, index)'
      BY <3>2, <3>3, <3>4 DEF Noted
    <3>6. pc = "serverlist"
      BY <1>4 DEF Serverlist
    <3>7. QED
      BY <1>1, <2>1, <3>2, <3>3, <3>5, <3>6 DEF StatusInv, Starting, NotedWhole, Noted
  <2>2. CASE pc' # "read"
    <3>1. pc = "serverlist" /\ pc' = "close" /\ exc' # None /\ UNCHANGED <<not_online, recorded>>
      BY <1>4, <2>2, NoneAssumption DEF Serverlist, Raise, Reasons, memoryVars
    <3>2. QED
      BY <1>1, <3>1 DEF StatusInv, Starting, NotedWhole, Noted
  <2>3. QED
    BY <2>1, <2>2
<1>5. CASE SkipNotOnline
  <2>1. pc = "read" /\ pc' = "read" /\ UNCHANGED <<not_online, recorded>>
    BY <1>5 DEF SkipNotOnline, memoryVars
  <2>2. QED
    BY <1>1, <1>5, <2>1, NoteNotOnline DEF StatusInv, Starting, NotedWhole, Noted
\* `use` and serverinfo
<1>6. CASE Use \/ Serverinfo
  <2>1. /\ pc \in {"read", "serverinfo"} /\ index \in DOMAIN session.servers
        /\ Server.status = "online" /\ UNCHANGED <<not_online, recorded>>
    <3>1. index <= Len(session.servers) /\ index \in Nat \ {0}
      BY <1>6 DEF Use, Serverinfo, TypeInv, TypeOK, ReadType, PhaseOK
    <3>2. index \in DOMAIN session.servers
      BY <1>2, <3>1
    <3>3. QED
      BY <1>6, <3>2 DEF Use, Serverinfo, StatusInv, Starting, memoryVars
  <2>2. /\ session'.servers = session.servers
        /\ session'.not_online = session.not_online
    BY <1>2, <1>6 DEF Use, Serverinfo, SkipFailed, Raise, Session
  <2>3. CASE pc' = "read"
    <3>1. index' = index + 1
      BY <1>6, <2>3 DEF Use, Serverinfo, SkipFailed, Raise
    <3>2. session'.servers \in Listings /\ Noted(session, index)'
      BY <2>1, <2>2, <3>1, PassOnline
    <3>3. QED
      BY <1>1, <2>1, <2>3, <3>2 DEF StatusInv, Starting, NotedWhole, Noted
  <2>4. CASE pc' = "serverinfo"
    <3>1. index' = index
      BY <1>6, <2>4 DEF Use, Serverinfo, SkipFailed, Raise
    <3>2. session'.servers \in Listings /\ Noted(session, index)' /\ Server' = Server
      BY <2>1, <2>2, <3>1 DEF StatusInv, Starting, Noted, Server
    <3>3. QED
      BY <1>1, <2>1, <2>4, <3>2 DEF StatusInv, Starting, NotedWhole, Noted
  <2>5. CASE pc' \notin {"read", "serverinfo"}
    <3>1. pc' = "close" /\ exc' # None
      BY <1>6, <2>5, NoneAssumption DEF Use, Serverinfo, SkipFailed, Raise, Reasons
    <3>2. QED
      BY <1>1, <2>1, <3>1 DEF StatusInv, Starting, NotedWhole, Noted
  <2>6. QED
    BY <2>3, <2>4, <2>5
<1>7. CASE EndOfList
  <2>1. /\ pc = "read" /\ pc' = "close" /\ index > Len(session.servers)
        /\ UNCHANGED <<session, not_online, recorded>>
    BY <1>7 DEF EndOfList, readVars, memoryVars
  <2>2. NotedWhole(session)
    <3>1. \A k \in DOMAIN session.servers : k < index /\ k < Len(session.servers) + 1
      BY <1>2, <2>1
    <3>2. QED
      BY <2>1, <3>1 DEF StatusInv, Starting, NotedWhole, Noted
  <2>3. QED
    BY <1>1, <2>1, <2>2 DEF StatusInv, Starting, NotedWhole, Noted
<1>8. CASE Close
  <2>1. /\ pc = "close" /\ pc' = (IF exc = None THEN "record" ELSE "failed")
        /\ UNCHANGED <<session, not_online, recorded>>
    BY <1>8 DEF Close, memoryVars
  <2>2. QED
    BY <1>1, <2>1 DEF StatusInv, Starting, NotedWhole, Noted
<1>9. CASE CreateChild \/ SetField \/ RemoveField \/ SetMissing
  <2>1. pc = "record" /\ UNCHANGED <<pc, session, not_online, recorded>>
    BY <1>9 DEF CreateChild, SetField, RemoveField, SetMissing, Recording, readVars,
                memoryVars
  <2>2. QED
    BY <1>1, <2>1 DEF StatusInv, Starting, NotedWhole, Noted
<1>10. CASE Report
  <2>1. /\ pc = "record" /\ pc' = "forget" /\ session' = session
        /\ not_online' = session.not_online
    BY <1>10 DEF Report, readVars
  <2>2. QED
    BY <1>1, <2>1 DEF StatusInv, Starting, NotedWhole, Noted
<1>11. CASE ForgetField \/ ForgetName
  <2>1. pc = "forget" /\ UNCHANGED <<pc, session, not_online, recorded>>
    BY <1>11 DEF ForgetField, ForgetName, Forgets, readVars, memoryVars
  <2>2. QED
    BY <1>1, <2>1 DEF StatusInv, Starting, NotedWhole, Noted
<1>12. CASE Recorded
  <2>1. /\ pc = "forget" /\ pc' = "success" /\ recorded' = session
        /\ not_online' = not_online
    BY <1>12 DEF Recorded
  <2>2. QED
    BY <1>1, <2>1 DEF StatusInv, Starting, NotedWhole, Noted
<1>13. CASE Failed \/ SetSuccess \/ Stamp
  <2>1. UNCHANGED <<not_online, recorded>>
    BY <1>13 DEF Failed, SetSuccess, Stamp, memoryVars
  <2>2. pc \in {"failed", "success", "stamp"}
    BY <1>13 DEF Failed, SetSuccess, Stamp
  <2>3. pc' \in {"success", "stamp"} \/ (pc' = "idle" /\ session' = NoSession)
    BY <1>13 DEF Failed, SetSuccess, Stamp, Return
  <2>4. QED
    BY <1>1, <2>1, <2>2, <2>3 DEF StatusInv, Starting, NotedWhole, Noted
<1>14. CASE UNCHANGED vars
  BY <1>1, <1>14 DEF vars, StatusInv, Starting, NotedWhole, Noted, Server, readVars, memoryVars
<1>15. QED
  BY <1>3, <1>4, <1>5, <1>6, <1>7, <1>8, <1>9, <1>10, <1>11, <1>12, <1>13, <1>14
     DEF Next, Step, Done

\* For every host that lists no virtualserver twice: who follows the log knows the
\* status of each, whatever failed in between.
THEOREM StatusCorrect == UniqueIds => (Spec => []StatusLogged)
<1> SUFFICES ASSUME UniqueIds PROVE Spec => []StatusLogged
  OBVIOUS
<1>1. Init => StatusInv
  BY DEF Init, StatusInv, Starting, Followed, NotedWhole, Noted, NoSession, Switching
<1>2. TypeInv /\ StatusInv => StatusLogged
  <2> SUFFICES ASSUME TypeInv, StatusInv, ~Switching, NEW k \in DOMAIN recorded.servers
               PROVE  LET server == recorded.servers[k] IN
                        IF server.status = "online"
                        THEN status_log[server.id] \in {None, "online"}
                               \/ server.id \in lapsed
                        ELSE status_log[server.id] = server.status
    BY DEF StatusLogged
  <2>1. recorded.servers[k] \in ServerRecords /\ k < Len(recorded.servers) + 1
    BY DEF TypeInv, TypeOK, Session
  <2>2. recorded.servers[k].id \in Ids /\ recorded.servers[k].status # None
    BY <2>1, NoneAssumption DEF ServerRecords
  <2>3. not_online[recorded.servers[k].id] =
          IF recorded.servers[k].status = "online" THEN None ELSE recorded.servers[k].status
    BY <2>1 DEF StatusInv, Starting, NotedWhole, Noted
  <2>4. QED
    BY <2>2, <2>3 DEF StatusInv, Starting, Followed
<1>3. TypeInv /\ AppliedInv /\ StatusInv /\ [Next]_vars => StatusInv'
  BY StatusNext
<1>4. QED
  BY TypeInit, TypeNext, AppliedInit, AppliedNext, <1>1, <1>2, <1>3, PTL DEF Spec

-----------------------------------------------------------------------------
(* The poll service implements both of its abstract specifications, for    *)
(* every number of virtualservers and whatever the client's calls raise:   *)
(* towards the client the caller's side of ClientContract, towards a       *)
(* scrape the table of Snapshot.  Initial states and steps, not fairness.  *)

\* `use` is sent for online virtualservers only, so serverinfo is.
AskedInv == pc = "serverinfo" => Server.status = "online"

LEMMA AskedNext == ASSUME AskedInv, TypeInv, [Next]_vars PROVE AskedInv'
<1>1. CASE Use
  <2>1. session \in Session /\ Server.status = "online"
    BY <1>1 DEF Use, TypeInv, TypeOK, ReadType
  <2>2. pc' = "serverinfo" => session' = session /\ index' = index
    BY <1>1 DEF Use, SkipFailed, Raise
  <2>3. QED
    BY <2>1, <2>2 DEF AskedInv, Server
<1>2. CASE UNCHANGED vars
  BY <1>2 DEF AskedInv, vars, readVars, Server
<1>3. CASE ~Use /\ ~UNCHANGED vars
  <2>1. pc' # "serverinfo"
    BY <1>3 DEF Next, Step, Done, StartPoll,
       Connect, Dial, EnterGreeting, Greet, Abandon, EnterSession, Quiet,
       Login, Serverlist, SkipNotOnline,
       Serverinfo, EndOfList, Close, CreateChild, SetField, RemoveField, SetMissing,
       Report, ForgetField, ForgetName, Recorded, Failed, SetSuccess, Stamp, Return,
       SkipFailed, Raise, Recording, Forgets
  <2>2. QED
    BY <2>1 DEF AskedInv
<1>4. QED
  BY <1>1, <1>2, <1>3

-----------------------------------------------------------------------------
(* Counting the virtualservers still to be asked about.                    *)

LEMMA PendingFinite ==
  ASSUME TypeInv
  PROVE  /\ IsFiniteSet(Pending) /\ Cardinality(Pending) \in Nat
         /\ Cardinality(Pending) = 0 <=> Pending = {}
<1>1. IsFiniteSet(1..Len(session.servers))
  BY FS_Interval DEF TypeInv, TypeOK, ReadType, Session
<1>2. Pending \subseteq 1..Len(session.servers)
  BY DEF Pending, OnlineIn, TypeInv, TypeOK, ReadType, Session
<1>3. QED
  BY <1>1, <1>2, FS_Subset, FS_CardinalityType, FS_EmptySet

\* The cursor passes an online virtualserver: one less is pending.
LEMMA PassPending ==
  ASSUME TypeInv, index \in DOMAIN session.servers, index' = index + 1,
         session'.servers = session.servers
  PROVE  Pending' = Pending \ {index}
<1>1. index \in Nat \ {0}
  BY DEF TypeInv, TypeOK, ReadType
<1>2. OnlineIn(session.servers)' = OnlineIn(session.servers)
  BY DEF OnlineIn
<1>3. 1..(index' - 1) = 1..(index - 1) \cup {index}
  BY <1>1
<1>4. QED
  BY <1>2, <1>3 DEF Pending

\* An online virtualserver is done with, read or skipped.
LEMMA AskNext ==
  ASSUME TypeInv, TypeInv', pc \in {"read", "serverinfo"}, index \in DOMAIN session.servers,
         Server.status = "online", index' = index + 1,
         session'.servers = session.servers, pc' = "read", exc' = exc
  PROVE  /\ CallUnderWay = (IF pc = "read" THEN "use" ELSE "serverinfo")
         /\ Contract!Ask(Cardinality(Pending) - 1)
<1>1. index \in Pending
  BY DEF Pending, OnlineIn, Server, TypeInv, TypeOK, ReadType
<1>2. CallUnderWay = IF pc = "read" THEN "use" ELSE "serverinfo"
  BY <1>1 DEF CallUnderWay
<1>3. /\ IsFiniteSet(Pending) /\ Cardinality(Pending) \in Nat /\ Pending' = Pending \ {index}
      /\ Cardinality(Pending') = Cardinality(Pending) - 1
  BY <1>1, PendingFinite, PassPending, FS_RemoveElement
<1>4. Cardinality(Pending') = 0 <=> Pending' = {}
  <2>1. IsFiniteSet(Pending')
    BY <1>3, FS_RemoveElement
  <2>2. QED
    BY <2>1, FS_EmptySet
<1>5. Cardinality(Pending') \in Nat
  <2>1. IsFiniteSet(Pending')
    BY <1>3, FS_RemoveElement
  <2>2. QED
    BY <2>1, FS_CardinalityType
<1>6. CASE Pending' = {}
  <2>1. ~(Cardinality(Pending) - 1 > 0)
    BY <1>3, <1>4, <1>6
  <2>2. CallUnderWay' = "close"
    BY <1>6 DEF CallUnderWay
  <2>3. QED
    BY <1>2, <2>1, <2>2 DEF Contract!Ask
<1>7. CASE Pending' # {}
  BY <1>2, <1>3, <1>4, <1>5, <1>7 DEF Contract!Ask, CallUnderWay
<1>8. QED
  BY <1>2, <1>6, <1>7

-----------------------------------------------------------------------------
(* Every step of the service is a step of the contract or none of it.      *)

LEMMA ServerlistCall ==
  ASSUME TypeInv, TypeInv', AppliedInv, Serverlist PROVE Contract!Next
<1>1. pc = "serverlist" /\ CallUnderWay = "serverlist" /\ exc = None
  BY DEF Serverlist, CallUnderWay, AppliedInv, Starting
<1>2. CASE pc' = "read"
  <2>1. PICK servers \in Listings : session' = [session EXCEPT !.servers = servers]
    BY <1>2 DEF Serverlist, Raise
  <2>2. index' = 1 /\ session'.servers = servers /\ exc' = exc
    BY <1>1, <1>2, <2>1 DEF Serverlist, Raise, AppliedInv, Starting, TypeInv, TypeOK, ReadType, Session
  <2>3. Pending' = OnlineIn(servers)
    BY <2>2 DEF Pending, OnlineIn
  <2>4. /\ Cardinality(Pending') \in Nat
        /\ Cardinality(Pending') = 0 <=> Pending' = {}
        /\ Cardinality(Pending') \in {Cardinality(OnlineIn(s)) : s \in Listings}
    <3>1. IsFiniteSet(1..Len(servers)) /\ OnlineIn(servers) \subseteq 1..Len(servers)
      <4>1. servers \in Seq(ServerRecords)
        BY AnswersAssumption
      <4>2. QED
        BY <4>1, FS_Interval DEF OnlineIn
    <3>2. IsFiniteSet(OnlineIn(servers))
      BY <3>1, FS_Subset
    <3>3. QED
      BY <2>3, <3>2, FS_CardinalityType, FS_EmptySet
  <2>5. Contract!Ask(Cardinality(Pending'))
    <3>1. CASE Pending' = {}
      <4>1. CallUnderWay' = "close" /\ ~(Cardinality(Pending') > 0)
        BY <1>2, <2>4, <3>1 DEF CallUnderWay
      <4>2. QED
        BY <2>2, <4>1 DEF Contract!Ask
    <3>2. CASE Pending' # {}
      <4>1. CallUnderWay' = "use" /\ Cardinality(Pending') > 0
        BY <1>2, <2>4, <3>2 DEF CallUnderWay
      <4>2. QED
        BY <2>2, <4>1 DEF Contract!Ask
    <3>3. QED
      BY <3>1, <3>2
  <2>6. QED
    BY <1>1, <2>4, <2>5 DEF Contract!Next, Contract!Session, Contract!Returns
<1>3. CASE pc' # "read"
  <2>1. pc' = "close" /\ exc' \in {"query", "connection", "unexpected"}
    BY <1>3 DEF Serverlist, Raise
  <2>2. QED
    BY <1>1, <2>1 DEF Contract!Next, Contract!Session, Contract!Raises, Contract!MayRaise,
       Contract!Calls, CallUnderWay
<1>4. QED
  BY <1>2, <1>3

LEMMA ServerCall ==
  ASSUME TypeInv, TypeInv', AppliedInv, Use \/ Serverinfo, Server.status = "online"
  PROVE  Contract!Next
<1>1. /\ pc \in {"read", "serverinfo"} /\ index \in DOMAIN session.servers
      /\ session'.servers = session.servers
  <2>1. /\ pc \in {"read", "serverinfo"} /\ index \in Nat \ {0}
        /\ session.servers \in Seq(ServerRecords) /\ session \in Session
    BY DEF Use, Serverinfo, TypeInv, TypeOK, ReadType, Session
  <2>2. index <= Len(session.servers)
    BY DEF Use, Serverinfo, TypeInv, PhaseOK
  <2>3. index \in DOMAIN session.servers
    BY <2>1, <2>2
  <2>4. session'.servers = session.servers
    BY <2>1 DEF Use, Serverinfo, SkipFailed, Raise, Session
  <2>5. QED
    BY <2>1, <2>3, <2>4
<1>2. index \in Pending
  BY <1>1 DEF Pending, OnlineIn, Server, TypeInv, TypeOK, ReadType
<1>3. CallUnderWay = IF pc = "read" THEN "use" ELSE "serverinfo"
  BY <1>1, <1>2 DEF CallUnderWay
<1>4. CASE pc' = "read"
  <2>1. index' = index + 1 /\ exc' = exc
    BY <1>4 DEF Use, Serverinfo, SkipFailed, Raise
  <2>2. Contract!Ask(Cardinality(Pending) - 1)
    BY <1>1, <1>4, <2>1, AskNext
  <2>3. QED
    BY <1>1, <1>3, <2>2 DEF Contract!Next, Contract!Session, Contract!Skips
<1>5. CASE pc' = "serverinfo"
  <2>1. index' = index /\ exc' = exc /\ pc = "read"
    BY <1>5 DEF Use, Serverinfo, SkipFailed, Raise
  <2>2. Pending' = Pending
    BY <1>1, <2>1 DEF Pending, OnlineIn
  <2>3. QED
    BY <1>3, <1>5, <2>1, <2>2 DEF Contract!Next, Contract!Session, Contract!Returns,
       CallUnderWay
<1>6. CASE pc' \notin {"read", "serverinfo"}
  <2>1. pc' = "close" /\ exc' \in {"connection", "unexpected"}
    BY <1>6 DEF Use, Serverinfo, SkipFailed, Raise
  <2>2. QED
    BY <1>1, <1>3, <2>1 DEF Contract!Next, Contract!Session, Contract!Raises,
       Contract!MayRaise, Contract!Calls, CallUnderWay
<1>7. QED
  BY <1>4, <1>5, <1>6

\* The steps of the read the client does not see.
LEMMA UnseenCall ==
  ASSUME TypeInv, SkipNotOnline \/ EndOfList PROVE UNCHANGED Contract!contractVars
<1>1. CASE SkipNotOnline
  <2>1. /\ index \in DOMAIN session.servers /\ index' = index + 1 /\ pc = "read" /\ pc' = "read"
        /\ exc' = exc /\ session'.servers = session.servers
    <3>1. index \in Nat \ {0} /\ session.servers \in Seq(ServerRecords) /\ session \in Session
      BY DEF TypeInv, TypeOK, ReadType, Session
    <3>2. QED
      BY <1>1, <3>1 DEF SkipNotOnline, Session
  <2>2. index \notin Pending
    BY <1>1 DEF SkipNotOnline, Pending, OnlineIn, Server
  <2>3. Pending' = Pending
    BY <2>1, <2>2, PassPending
  <2>4. QED
    BY <2>1, <2>3 DEF Contract!contractVars, CallUnderWay
<1>2. CASE EndOfList
  <2>1. Pending = {}
    BY <1>2 DEF EndOfList, Pending, OnlineIn, TypeInv, TypeOK, ReadType, Session
  <2>2. QED
    BY <1>2, <2>1 DEF EndOfList, Contract!contractVars, CallUnderWay
<1>3. QED
  BY <1>1, <1>2

LEMMA CallNext ==
  ASSUME TypeInv, TypeInv', AppliedInv, AskedInv, [Next]_vars
  PROVE  [Contract!Next]_Contract!contractVars
<1> USE DEF Contract!Next, Contract!Session
<1>1. CASE StartPoll
  BY <1>1 DEF StartPoll, Contract!Open, CallUnderWay, AppliedInv, Starting
<1>2. CASE Connect
  <2> USE DEF CallUnderWay, Contract!contractVars
  <2>1. CASE Dial
    BY <2>1 DEF Dial, Contract!ConnectFails, AppliedInv
  <2>2. CASE EnterGreeting \/ Abandon
    BY <2>2 DEF EnterGreeting, Abandon
  <2>3. CASE Greet
    BY <2>3 DEF Greet, Contract!ConnectFails
  <2>4. CASE EnterSession
    BY <2>4 DEF EnterSession, Contract!Returns
  <2>5. QED
    BY <1>2, <2>1, <2>2, <2>3, <2>4 DEF Connect
<1>3. CASE Login
  BY <1>3 DEF Login, Raise, Reasons, Contract!Raises, Contract!MayRaise, Contract!Calls,
     Contract!Returns, CallUnderWay, AppliedInv, Starting
<1>4. CASE Serverlist
  BY <1>4, ServerlistCall
<1>5. CASE SkipNotOnline \/ EndOfList
  BY <1>5, UnseenCall
<1>6. CASE Use \/ Serverinfo
  <2>1. Server.status = "online"
    BY <1>6 DEF Use, Serverinfo, AskedInv
  <2>2. QED
    BY <1>6, <2>1, ServerCall
<1>7. CASE Close
  BY <1>7 DEF Close, Contract!Closes, CallUnderWay
<1>8. CASE CreateChild \/ SetField \/ RemoveField \/ SetMissing \/ Report
           \/ ForgetField \/ ForgetName \/ Recorded \/ Failed
  <2>1. /\ pc \in {"record", "forget", "failed"} /\ pc' \in {"record", "forget", "success"}
        /\ exc' = exc
    BY <1>8 DEF CreateChild, SetField, RemoveField, SetMissing, Report, ForgetField,
       ForgetName, Recorded, Failed, Recording, Forgets
  <2>2. QED
    BY <2>1 DEF Contract!contractVars, CallUnderWay
<1>9. CASE SetSuccess \/ Stamp
  BY <1>9 DEF SetSuccess, Stamp, Return, Contract!Counted, Contract!contractVars, CallUnderWay
<1>10. CASE UNCHANGED vars
  BY <1>10 DEF vars, readVars, Contract!contractVars, CallUnderWay, Pending, OnlineIn
<1>11. QED
  BY <1>1, <1>2, <1>3, <1>4, <1>5, <1>6, <1>7, <1>8, <1>9, <1>10 DEF Next, Step, Done

\* For any number of virtualservers: the service makes the calls of the contract
\* in order, goes on after a refused one, and closes what it opened.
THEOREM CallsKept == Spec => Contract!Spec
<1>1. Init => AskedInv /\ Contract!Init
  BY DEF Init, AskedInv, Contract!Init, CallUnderWay
<1>2. QED
  BY TypeInit, TypeNext, AppliedInit, AppliedNext, AskedNext,
     CallNext, <1>1, PTL DEF Spec, Contract!Spec

-----------------------------------------------------------------------------
(* The published table.                                                    *)

\* A name that was read has a last reading.
LEMMA LastExists ==
  ASSUME NEW readings \in Seq(Readings), NEW n \in NamesRead(readings)
  PROVE  \E j \in DOMAIN readings : IsLast(readings, Len(readings), n, j)
<1> DEFINE after == {m \in Nat : \E k \in DOMAIN readings :
                       readings[k].name = n /\ m = Len(readings) - k}
<1>1. after \subseteq Nat /\ after # {}
  <2>1. PICK k \in DOMAIN readings : readings[k].name = n
    BY DEF NamesRead
  <2>2. Len(readings) - k \in Nat
    OBVIOUS
  <2>3. QED
    BY <2>1, <2>2
<1>2. PICK m \in after : \A i \in after : m <= i
  <2>1. PICK m \in after : \A i \in after : ~(<<i, m>> \in OpToRel(<, Nat))
    <3> HIDE DEF after
    <3>1. \A R, S, U : IsWellFoundedOn(R, S) /\ U \subseteq S /\ U # {} =>
            \E x \in U : \A y \in U : ~(<<y, x>> \in R)
      BY WFMin
    <3>2. QED
      BY <1>1, <3>1, NatLessThanWellFounded
  <2>2. ASSUME NEW i \in after, i < m PROVE FALSE
    BY <1>1, <2>1, <2>2 DEF OpToRel
  <2>3. \A i \in after : m <= i
    <3> HIDE DEF after
    <3>1. m \in Nat /\ \A i \in after : i \in Nat /\ ~(i < m)
      BY <1>1, <2>2
    <3>2. QED
      BY <3>1
  <2>4. QED
    BY <2>3
<1>3. PICK j \in DOMAIN readings : readings[j].name = n /\ m = Len(readings) - j
  BY <1>2
<1>4. ASSUME NEW i \in (j + 1)..Len(readings), readings[i].name = n
      PROVE  FALSE
  <2>1. i \in DOMAIN readings /\ Len(readings) - i \in Nat
    BY <1>3
  <2>2. Len(readings) - i \in after
    BY <1>4, <2>1
  <2>3. QED
    BY <1>2, <1>3, <2>2
<1>5. QED
  BY <1>3, <1>4 DEF IsLast

\* The table is a table, and a table that holds the readings is it.
LEMMA TableCells ==
  ASSUME NEW readings \in Seq(Readings), NEW c \in Columns, NEW n \in Labels
  PROVE  /\ Table(readings)[c][n] \in Cells
         /\ n \notin NamesRead(readings) => Table(readings)[c][n] = None
         /\ n \in NamesRead(readings) =>
              \E j \in DOMAIN readings :
                /\ IsLast(readings, Len(readings), n, j)
                /\ Table(readings)[c][n] = Cell(readings[j], c)
<1>1. CASE n \notin NamesRead(readings)
  BY <1>1 DEF Table, Cells
<1>2. CASE n \in NamesRead(readings)
  <2> DEFINE j == CHOOSE i \in DOMAIN readings : IsLast(readings, Len(readings), n, i)
  <2>1. j \in DOMAIN readings /\ IsLast(readings, Len(readings), n, j)
    BY <1>2, LastExists
  <2>2. Table(readings)[c][n] = Cell(readings[j], c)
    BY <1>2 DEF Table
  <2>3. readings[j] \in Readings
    BY <2>1
  <2>4. QED
    BY <1>2, <2>1, <2>2, <2>3, CellType
<1>3. QED
  BY <1>1, <1>2

LEMMA TableType ==
  ASSUME NEW readings \in Seq(Readings) PROVE Table(readings) \in Promise!Tables
BY TableCells DEF Promise!Tables, Table

LEMMA HeldIsTable ==
  ASSUME SeriesType, NEW readings \in Seq(Readings), Holds(series, readings)
  PROVE  series = Table(readings)
<1>1. ASSUME NEW c \in Columns, NEW n \in Labels
      PROVE  series[c][n] = Table(readings)[c][n]
  BY TableCells DEF Holds
<1>2. Table(readings) \in [Columns -> [Labels -> Cells]]
  BY TableType DEF Promise!Tables
<1>3. QED
  BY <1>1, <1>2 DEF SeriesType

\* A write changes one cell.
LEMMA OneCell ==
  ASSUME SeriesType', NEW c \in Columns, NEW n \in Labels, NEW v,
         series' = [series EXCEPT ![c][n] = v], SeriesType
  PROVE  /\ series'[c][n] \in Cells
         /\ series' = [series EXCEPT ![c][n] = series'[c][n]]
BY DEF SeriesType

\* The readings of the table being switched to.
Announced == IF Switching THEN session.readings ELSE recorded.readings

LEMMA AnnouncedTable ==
  ASSUME series' = series, Switching' <=> Switching, Announced' = Announced
  PROVE  UNCHANGED Promise!vars
BY DEF Announced, Promise!vars, Switching

LEMMA PromiseNext ==
  ASSUME SnapshotInv, SnapshotInv', [Next]_vars PROVE [Promise!Next]_Promise!vars
<1>0. /\ session.readings \in Seq(Readings) /\ recorded.readings \in Seq(Readings)
      /\ SeriesType /\ SeriesType'
  BY DEF SnapshotInv, TypeInv, TypeOK, ReadType, Session
<1>1. CASE StartPoll \/ Connect \/ Login \/ Serverlist \/ SkipNotOnline \/ Use
           \/ Serverinfo \/ EndOfList
  <2>1. ~Switching /\ ~Switching' /\ UNCHANGED <<series, recorded>>
    BY <1>1 DEF Switching, StartPoll,
       Connect, Dial, EnterGreeting, Greet, Abandon, EnterSession, Quiet,
       Login, Serverlist, SkipNotOnline, Use,
                Serverinfo, EndOfList, Raise, SkipFailed
  <2>2. Announced' = Announced
    BY <2>1 DEF Announced
  <2>3. QED
    BY <2>1, <2>2, AnnouncedTable
<1>2. CASE Failed \/ SetSuccess \/ Stamp
  <2>1. ~Switching /\ ~Switching' /\ UNCHANGED <<series, recorded>>
    BY <1>2 DEF Switching, Failed, SetSuccess, Stamp, Return
  <2>2. Announced' = Announced
    BY <2>1 DEF Announced
  <2>3. QED
    BY <2>1, <2>2, AnnouncedTable
\* The switch begins.
<1>3. CASE Close
  <2>1. ~Switching /\ UNCHANGED <<series, session, recorded>> /\ pc' \in {"record", "failed"}
    BY <1>3 DEF Close, Switching
  <2>2. CASE pc' = "failed"
    <3>1. ~Switching' /\ Announced' = Announced
      BY <2>1, <2>2 DEF Switching, Announced
    <3>2. QED
      BY <2>1, <3>1, AnnouncedTable
  <2>3. CASE pc' = "record"
    <3>1. Switching' /\ Table(session.readings) \in Promise!Tables
      BY <1>0, <2>3, TableType DEF Switching
    <3>2. QED
      BY <2>1, <3>1 DEF Promise!Next, Promise!Begin
  <2>4. QED
    BY <2>1, <2>2, <2>3
\* One cell changes.
<1>4. CASE CreateChild \/ SetField \/ RemoveField \/ SetMissing
  <2>1. /\ Switching /\ Switching' /\ session' = session /\ Recording
        /\ series' = [series EXCEPT ![col][Reading.name] = 0]
             \/ series' = [series EXCEPT ![col][Reading.name] = Cell(Reading, col)]
    BY <1>4 DEF CreateChild, SetField, RemoveField, SetMissing, Recording, Switching, readVars
  <2>2. col \in Columns /\ Reading.name \in Labels
    BY <2>1, ReadingType DEF SnapshotInv, TypeInv, TypeOK, ApplyType
  <2>3. /\ series'[col][Reading.name] \in Cells
        /\ series' = [series EXCEPT ![col][Reading.name] = series'[col][Reading.name]]
    BY <1>0, <2>1, <2>2, OneCell
  <2>4. Switching' = Switching /\ UNCHANGED Table(Announced)
    BY <2>1 DEF Announced
  <2>5. Promise!Write
    BY <2>1, <2>2, <2>3, <2>4 DEF Promise!Write, Announced
  <2>6. QED
    BY <2>5 DEF Promise!Next
<1>5. CASE ForgetField \/ ForgetName
  <2>1. PICK n \in Labels : Forgets(n)
    BY <1>5 DEF ForgetField, ForgetName
  <2>2. /\ Switching /\ Switching' /\ session' = session /\ col \in Columns
        /\ series' = [series EXCEPT ![col][n] = None]
    BY <1>5, <2>1 DEF ForgetField, ForgetName, Forgets, Switching, readVars, SnapshotInv,
       TypeInv, TypeOK, ApplyType
  <2>3. QED
    BY <1>0, <2>2, OneCell DEF Promise!Next, Promise!Write
<1>6. CASE Report
  <2>1. Switching' = Switching /\ UNCHANGED <<series, session, recorded>>
    BY <1>6 DEF Report, Switching, readVars
  <2>2. QED
    BY <2>1, AnnouncedTable DEF Announced
\* The switch ends, and what was announced is there.
<1>7. CASE Recorded
  <2>1. Switching /\ ~Switching' /\ series' = series /\ recorded' = session
    BY <1>7 DEF Recorded, Switching
  <2>2. Holds(series, session.readings)
    BY <2>1 DEF SnapshotInv, SnapshotWhole, Holds
  <2>3. series = Table(session.readings)
    BY <1>0, <2>2, HeldIsTable
  <2>4. Announced = session.readings /\ Announced' = session.readings
    BY <2>1 DEF Announced
  <2>5. series = Table(Announced) /\ Table(Announced)' = Table(Announced)
    BY <2>3, <2>4
  <2>6. QED
    BY <2>1, <2>5 DEF Promise!Next, Promise!Commit, Announced
<1>8. CASE UNCHANGED vars
  <2>1. Switching' = Switching /\ UNCHANGED <<series, session, recorded>>
    BY <1>8 DEF vars, readVars, Switching
  <2>2. QED
    BY <2>1, AnnouncedTable DEF Announced
<1>9. QED
  BY <1>1, <1>2, <1>3, <1>4, <1>5, <1>6, <1>7, <1>8 DEF Next, Step, Done

\* For every host and every number of gauges: between switches nothing moves, and
\* a switch ends on the whole table of the session that began it.
THEOREM TableKept == Spec => Promise!Spec
<1>1. Init => Promise!Init
  BY DEF Init, Promise!Init, Table, NamesRead, NoSession, Switching
<1>2. QED
  BY SnapshotInit, SnapshotNext, PromiseNext, <1>1, PTL DEF Spec, Promise!Spec

-----------------------------------------------------------------------------
(* What a scrape may show, for every host, every number of gauges and any  *)
(* interleaving of the HTTP thread with the polling thread.                *)

\* What the recorded session, and the one being written, say of a cell.
Before(c, n) ==
  IF CellsOf(recorded.readings, n, c) = {} THEN {None}
  ELSE CellsOf(recorded.readings, n, c)

After(c, n) == CellsOf(session.readings, n, c)

\* A reading of this name has been written into the column.
Reached(c, n) ==
  \E j \in DOMAIN session.readings : j <= Written(c) /\ session.readings[j].name = n

\* The cell under the cursor when its child was just created: it was empty.
Fresh(c, n) ==
  /\ Recording /\ c = col /\ n = Reading.name
  /\ series[c][n] = 0 /\ None \in Before(c, n) \cup After(c, n)

\* At every moment of a switch, every cell holds what one of the two sessions
\* says of it; it is emptied only if the new one does not say anything.
CellInv ==
  \A c \in Columns, n \in Labels :
    /\ ~Switching => series[c][n] \in Before(c, n)
    /\ pc = "record" =>
         series[c][n] \in (IF Reached(c, n) THEN After(c, n) ELSE Before(c, n))
         \/ Fresh(c, n)
    /\ pc = "forget" =>
         series[c][n] \in IF n \in NamesRead(session.readings) THEN After(c, n)
                          ELSE Before(c, n) \cup {None}

LEMMA CellInit == Init => CellInv
<1> SUFFICES ASSUME Init, NEW c \in Columns, NEW n \in Labels
             PROVE  series[c][n] \in Before(c, n)
  BY DEF CellInv, Init
<1>1. CellsOf(recorded.readings, n, c) = {}
  BY DEF Init, NoSession, CellsOf
<1>2. QED
  BY <1>1 DEF Before, Init

\* What a reading says of its own name in a column.
LEMMA SaidByReading ==
  ASSUME NEW c, NEW j \in DOMAIN session.readings
  PROVE  Cell(session.readings[j], c) \in After(c, session.readings[j].name)
BY DEF After, CellsOf

\* Outside a switch nothing moves.
LEMMA CellQuiet ==
  ASSUME CellInv, ~Switching, ~Switching', series' = series, recorded' = recorded
  PROVE  CellInv'
BY DEF CellInv, Switching, Before

LEMMA CellClose ==
  ASSUME SnapshotInv, CellInv, Close PROVE CellInv'
<1>1. CASE pc' = "failed"
  BY <1>1, CellQuiet DEF Close, Switching
<1>2. CASE pc' = "record"
  <2>1. /\ rec = 1 /\ col = 1 /\ ~Switching
        /\ UNCHANGED <<series, recorded, session, rec, col>>
    BY <1>2 DEF Close, SnapshotInv, RestInv, Switching, applyVars
  <2>2. \A c \in Columns : Written(c)' = 0
    BY <2>1 DEF Written, Columns
  <2>3. \A j \in DOMAIN session.readings : ~(j <= 0)
    BY DEF SnapshotInv, TypeInv, TypeOK, ReadType, Session
  <2>4. \A c \in Columns, n \in Labels : ~Reached(c, n)'
    BY <2>1, <2>2, <2>3 DEF Reached
  <2>5. QED
    BY <1>2, <2>1, <2>4 DEF CellInv, Before, Switching
<1>3. QED
  BY <1>1, <1>2 DEF Close

LEMMA CellCreate ==
  ASSUME SnapshotInv, CellInv, CreateChild PROVE CellInv'
<1>1. /\ pc = "record" /\ pc' = "record" /\ Recording /\ series[col][Reading.name] = None
      /\ UNCHANGED <<session, recorded, rec, col>>
      /\ series' = [series EXCEPT ![col][Reading.name] = 0]
  BY DEF CreateChild, Recording, applyVars, readVars
<1>2. Recording' /\ Reading' = Reading /\ col \in Columns /\ Reading.name \in Labels
  BY <1>1, ReadingType DEF Recording, Reading, SnapshotInv, TypeInv, TypeOK, ApplyType
<1>3. \A c \in Columns, n \in Labels :
        /\ Reached(c, n)' = Reached(c, n)
        /\ Before(c, n)' = Before(c, n) /\ After(c, n)' = After(c, n)
  BY <1>1 DEF Reached, Written, Before, After
<1>4. None \in Before(col, Reading.name) \cup After(col, Reading.name)
  <2>1. None # 0
    BY NoneAssumption
  <2>2. QED
    BY <1>1, <1>2, <2>1 DEF CellInv, Fresh
<1>5. series'[col][Reading.name] = 0
  BY <1>1, <1>2 DEF SnapshotInv, TypeInv, TypeOK, SeriesType
<1>6. ASSUME NEW c \in Columns, NEW n \in Labels
      PROVE  series'[c][n] \in (IF Reached(c, n)' THEN After(c, n)' ELSE Before(c, n)')
             \/ Fresh(c, n)'
  <2>1. CASE c = col /\ n = Reading.name
    BY <1>1, <1>2, <1>3, <1>4, <1>5, <2>1 DEF Fresh
  <2>2. CASE ~(c = col /\ n = Reading.name)
    <3>1. series'[c][n] = series[c][n]
      BY <1>1, <1>2, <2>2 DEF SnapshotInv, TypeInv, TypeOK, SeriesType
    <3>2. QED
      BY <1>1, <1>3, <2>2, <3>1 DEF CellInv, Fresh
  <2>3. QED
    BY <2>1, <2>2
<1>7. QED
  BY <1>1, <1>6 DEF CellInv, Switching

\* The cell under the cursor gets what the reading says, and is written.
WritesCell == SetField \/ RemoveField \/ SetMissing

LEMMA CellStored ==
  ASSUME SnapshotInv, CellInv, WritesCell PROVE CellInv'
<1> USE DEF WritesCell
<1>1. /\ pc = "record" /\ pc' = "record" /\ Recording
      /\ UNCHANGED <<session, recorded>>
      /\ series' = [series EXCEPT ![col][Reading.name] = Cell(Reading, col)]
  BY DEF SetField, RemoveField, SetMissing, Recording, readVars
<1>2. /\ session.readings \in Seq(Readings) /\ rec \in Nat \ {0} /\ col \in Columns
      /\ rec \in DOMAIN session.readings /\ Reading.name \in Labels
  BY <1>1, ReadingType DEF Recording, SnapshotInv, TypeInv, TypeOK, ReadType, ApplyType, Session
<1>3. ASSUME NEW c \in Columns
      PROVE  Written(c)' = IF c = col THEN rec ELSE Written(c)
  <2>1. CASE SetField \/ RemoveField
    <3>1. rec' = rec /\ col' = col + 1
      BY <2>1 DEF SetField, RemoveField
    <3>2. QED
      BY <1>2, <3>1 DEF Written, Columns
  <2>2. CASE SetMissing
    <3>1. rec' = rec + 1 /\ col' = 1 /\ col = Missing
      BY <2>2 DEF SetMissing
    <3>2. QED
      BY <1>2, <3>1, FieldsAssumption DEF Written, Columns, Missing
  <2>3. QED
    BY <2>1, <2>2
<1>4. Written(col) = rec - 1
  BY <1>2 DEF Written, Columns
<1>5. ASSUME NEW c \in Columns, NEW n \in Labels
      PROVE  series'[c][n] \in IF Reached(c, n)' THEN After(c, n)' ELSE Before(c, n)'
  <2>1. Before(c, n)' = Before(c, n) /\ After(c, n)' = After(c, n)
    BY <1>1 DEF Before, After
  <2>2. CASE c = col /\ n = Reading.name
    <3>1. series'[c][n] = Cell(Reading, c)
      BY <1>1, <1>2, <2>2 DEF SnapshotInv, TypeInv, TypeOK, SeriesType
    <3>2. Cell(Reading, c) \in After(c, n)
      BY <1>2, <2>2, SaidByReading DEF Reading
    <3>3. Reached(c, n)'
      BY <1>1, <1>2, <1>3, <2>2 DEF Reached, Reading
    <3>4. QED
      BY <2>1, <3>1, <3>2, <3>3
  <2>3. CASE ~(c = col /\ n = Reading.name)
    <3>1. series'[c][n] = series[c][n]
      BY <1>1, <1>2, <2>3 DEF SnapshotInv, TypeInv, TypeOK, SeriesType
    <3>2. Reached(c, n)' <=> Reached(c, n)
      <4>1. CASE c # col
        BY <1>1, <1>3, <4>1 DEF Reached
      <4>2. CASE c = col
        <5>1. n # session.readings[rec].name
          BY <2>3, <4>2 DEF Reading
        <5>2. \A j \in DOMAIN session.readings : j <= rec => j <= rec - 1 \/ j = rec
          BY <1>2
        <5>3. \A j \in DOMAIN session.readings : j <= rec - 1 => j <= rec
          BY <1>2
        <5>4. QED
          BY <1>1, <1>3, <1>4, <4>2, <5>1, <5>2, <5>3 DEF Reached
      <4>3. QED
        BY <4>1, <4>2
    <3>3. ~Fresh(c, n)
      BY <2>3 DEF Fresh
    <3>4. QED
      BY <1>1, <2>1, <3>1, <3>2, <3>3 DEF CellInv
  <2>4. QED
    BY <2>2, <2>3
<1>6. ASSUME NEW c \in Columns, NEW n \in Labels
      PROVE  series'[c][n] \in (IF Reached(c, n)' THEN After(c, n)' ELSE Before(c, n)')
             \/ Fresh(c, n)'
  BY <1>5
<1>7. QED
  BY <1>1, <1>6 DEF CellInv, Switching

\* All readings are written.
LEMMA CellReport ==
  ASSUME SnapshotInv, CellInv, Report PROVE CellInv'
<1>1. /\ pc = "record" /\ pc' = "forget" /\ ~Recording
      /\ UNCHANGED <<series, session, recorded>> /\ rec > Len(session.readings)
  BY DEF Report, Recording, readVars, SnapshotInv, TypeInv, TypeOK, ReadType, ApplyType, Session
<1>2. /\ session.readings \in Seq(Readings) /\ rec \in Nat \ {0}
      /\ rec = Len(session.readings) + 1 /\ col = 1
  BY <1>1 DEF SnapshotInv, RecordInv, TypeInv, TypeOK, ReadType, ApplyType, Session
<1>3. \A c \in Columns : Written(c) = Len(session.readings)
  BY <1>2 DEF Written, Columns
<1>4. \A j \in DOMAIN session.readings : j <= Len(session.readings)
  BY <1>2
<1>5. \A c \in Columns, n \in Labels : Reached(c, n) <=> n \in NamesRead(session.readings)
  BY <1>3, <1>4 DEF Reached, NamesRead
<1>6. QED
  BY <1>1, <1>5 DEF CellInv, Switching, Fresh, Before, After

\* A name that is forgotten is not one that was read.
LEMMA CellForget ==
  ASSUME SnapshotInv, CellInv, ForgetField \/ ForgetName PROVE CellInv'
<1>1. PICK m \in Labels : Forgets(m)
  BY DEF ForgetField, ForgetName
<1>2. /\ pc = "forget" /\ pc' = "forget" /\ UNCHANGED <<session, recorded>>
      /\ series' = [series EXCEPT ![col][m] = None]
      /\ m \notin NamesRead(session.readings)
  BY <1>1 DEF ForgetField, ForgetName, Forgets, readVars, SnapshotInv, ForgetInv
<1>3. ASSUME NEW c \in Columns, NEW n \in Labels
      PROVE  series'[c][n] = series[c][n] \/ (n = m /\ series'[c][n] = None)
  BY <1>2 DEF SnapshotInv, TypeInv, TypeOK, SeriesType
<1>4. ASSUME NEW c \in Columns, NEW n \in Labels
      PROVE  series'[c][n] \in IF n \in NamesRead(session.readings) THEN After(c, n)
                               ELSE Before(c, n) \cup {None}
  <2>1. series[c][n] \in IF n \in NamesRead(session.readings) THEN After(c, n)
                         ELSE Before(c, n) \cup {None}
    BY <1>2 DEF CellInv
  <2>2. QED
    BY <1>2, <1>3, <2>1
<1>5. \A c \in Columns, n \in Labels :
        /\ Before(c, n)' = Before(c, n) /\ After(c, n)' = After(c, n)
        /\ NamesRead(session.readings)' = NamesRead(session.readings)
  BY <1>2 DEF Before, After
<1>6. QED
  BY <1>2, <1>4, <1>5 DEF CellInv, Switching

\* Nothing is left but what the session says.
LEMMA CellRecorded ==
  ASSUME SnapshotInv, CellInv, Recorded PROVE CellInv'
<1>1. /\ pc = "forget" /\ pc' = "success" /\ recorded' = session /\ series' = series
      /\ forgetting = {}
  BY DEF Recorded
<1>2. ASSUME NEW c \in Columns, NEW n \in Labels
      PROVE  series[c][n] \in Before(c, n)'
  <2>1. CASE n \in NamesRead(session.readings)
    <3>1. CellsOf(session.readings, n, c) # {}
      BY <2>1 DEF NamesRead, CellsOf
    <3>2. series[c][n] \in CellsOf(session.readings, n, c)
      BY <1>1, <2>1 DEF CellInv, After
    <3>3. QED
      BY <1>1, <3>1, <3>2 DEF Before
  <2>2. CASE n \notin NamesRead(session.readings)
    <3>1. series[c][n] = None
      BY <1>1, <2>2 DEF SnapshotInv, ForgetInv
    <3>2. CellsOf(session.readings, n, c) = {}
      BY <2>2 DEF NamesRead, CellsOf
    <3>3. QED
      BY <1>1, <3>1, <3>2 DEF Before
  <2>3. QED
    BY <2>1, <2>2
<1>3. QED
  BY <1>1, <1>2 DEF CellInv, Switching

LEMMA CellNext ==
  ASSUME SnapshotInv, CellInv, Step PROVE CellInv'
<1>1. CASE StartPoll \/ Connect \/ Login \/ Serverlist \/ SkipNotOnline \/ Use
           \/ Serverinfo \/ EndOfList
  <2>1. ~Switching /\ ~Switching' /\ UNCHANGED <<series, recorded>>
    BY <1>1 DEF Switching, StartPoll,
       Connect, Dial, EnterGreeting, Greet, Abandon, EnterSession, Quiet,
       Login, Serverlist, SkipNotOnline, Use,
                Serverinfo, EndOfList, Raise, SkipFailed
  <2>2. QED
    BY <2>1, CellQuiet
<1>2. CASE Failed \/ SetSuccess \/ Stamp
  <2>1. ~Switching /\ ~Switching' /\ UNCHANGED <<series, recorded>>
    BY <1>2 DEF Switching, Failed, SetSuccess, Stamp, Return
  <2>2. QED
    BY <2>1, CellQuiet
<1>3. CASE Close \/ CreateChild \/ SetField \/ RemoveField \/ SetMissing
           \/ Report \/ ForgetField \/ ForgetName \/ Recorded
  <2>1. CASE Close \/ CreateChild
    BY <2>1, CellClose, CellCreate
  <2>2. CASE SetField \/ RemoveField \/ SetMissing
    BY <2>2, CellStored DEF WritesCell
  <2>3. CASE Report \/ Recorded
    BY <2>3, CellReport, CellRecorded
  <2>4. CASE ForgetField \/ ForgetName
    BY <2>4, CellForget
  <2>5. QED
    BY <1>3, <2>1, <2>2, <2>3, <2>4
<1>4. QED
  BY <1>1, <1>2, <1>3 DEF Step

-----------------------------------------------------------------------------
(* The scrape.                                                             *)

\* The series a scrape collects now: without gap or spike, and its own.
Continuous(c, n, cell) ==
  (\A readings \in sources :
      CellsOf(readings, n, c) # {} /\ None \notin CellsOf(readings, n, c))
    => cell \in Said(n, c)

Belongs(c, n, cell) == cell \in {None, 0} \cup Said(n, c)

\* A scrape that met no switch has collected what is still there; the tables a
\* reader can meet are among its sources; what it collected passes both tests.
ScrapeInv ==
  /\ scan \in 0..(Missing + 1) /\ DOMAIN scraped = Columns
  /\ scan # 0 /\ ~overlap =>
       ~Switching /\ \A c \in Collected : scraped[c] = series[c]
  /\ scan # 0 => Current \subseteq sources
  /\ \A c \in Collected, n \in Labels :
       Continuous(c, n, scraped[c][n]) /\ Belongs(c, n, scraped[c][n])

LEMMA CollectedNow ==
  ASSUME CellInv, Current \subseteq sources, NEW c \in Columns, NEW n \in Labels
  PROVE  Continuous(c, n, series[c][n]) /\ Belongs(c, n, series[c][n])
<1>1. recorded.readings \in sources /\ (Switching => session.readings \in sources)
  BY DEF Current
<1>2. CellsOf(recorded.readings, n, c) \subseteq Said(n, c)
  BY <1>1 DEF Said
<1>3. Switching => After(c, n) \subseteq Said(n, c)
  BY <1>1 DEF Said, After
<1>4. CASE ~Switching
  BY <1>1, <1>2, <1>4 DEF CellInv, Before, Continuous, Belongs
<1>5. CASE pc = "record"
  BY <1>1, <1>2, <1>3, <1>5 DEF CellInv, Before, After, Fresh, Continuous, Belongs, Switching
<1>6. CASE pc = "forget"
  <2>1. n \notin NamesRead(session.readings) => After(c, n) = {}
    BY DEF NamesRead, After, CellsOf
  <2>2. QED
    BY <1>1, <1>2, <1>3, <1>6, <2>1 DEF CellInv, Before, After, Continuous, Belongs, Switching
<1>7. QED
  BY <1>4, <1>5, <1>6 DEF Switching

LEMMA ScrapeInitial == ScrapeInit => CellInv /\ ScrapeInv
<1> SUFFICES ASSUME ScrapeInit PROVE ScrapeInv
  BY CellInit DEF ScrapeInit
<1>1. Collected = {}
  BY FieldsAssumption DEF ScrapeInit, Collected, Columns
<1>2. QED
  BY <1>1, FieldsAssumption DEF ScrapeInit, ScrapeInv, Missing, Nothing

\* The polling thread moves under a scrape.
LEMMA PollStep ==
  ASSUME SnapshotInv, CellInv, ScrapeInv, Poll PROVE ScrapeInv'
<1>1. /\ Step /\ UNCHANGED <<scan, scraped>> /\ Collected' = Collected
      /\ overlap' = (overlap \/ (scan # 0 /\ Switching'))
      /\ sources' = IF scan = 0 THEN {} ELSE sources \cup Current'
  BY DEF Poll, Collected
<1>2. scan # 0 /\ ~overlap' => ~Switching' /\ \A c \in Collected : scraped[c] = series'[c]
  <2>1. ~Switching /\ ~Switching' => series' = series
    <3>1. \/ series' = series
          \/ CreateChild \/ SetField \/ RemoveField \/ SetMissing \/ ForgetField \/ ForgetName
      BY <1>1, Frames
    <3>2. CreateChild \/ SetField \/ RemoveField \/ SetMissing => Switching
      BY DEF Switching, CreateChild, SetField, RemoveField, SetMissing, Recording
    <3>3. ForgetField \/ ForgetName => Switching
      BY DEF Switching, ForgetField, ForgetName, Forgets
    <3>4. QED
      BY <3>1, <3>2, <3>3
  <2>2. QED
    BY <1>1, <2>1 DEF ScrapeInv
<1>3. CASE scan = 0
  <2>1. Collected = {}
    BY <1>3 DEF Collected, Columns
  <2>2. QED
    BY <1>1, <1>3, <2>1 DEF ScrapeInv
<1>4. CASE scan # 0
  <2>1. sources \subseteq sources' /\ Current' \subseteq sources'
    BY <1>1, <1>4
  <2>2. ASSUME NEW c \in Collected, NEW n \in Labels
        PROVE  Continuous(c, n, scraped[c][n])' /\ Belongs(c, n, scraped[c][n])'
    <3> DEFINE cell == scraped[c][n]
    <3>1. Continuous(c, n, cell) /\ Belongs(c, n, cell)
      BY DEF ScrapeInv
    <3>2. Said(n, c) \subseteq Said(n, c)'
      BY <2>1 DEF Said
    <3>3. QED
      BY <1>1, <2>1, <3>1, <3>2 DEF Continuous, Belongs
  <2>3. QED
    BY <1>1, <1>2, <1>4, <2>1, <2>2 DEF ScrapeInv
<1>5. QED
  BY <1>3, <1>4

LEMMA CollectStep ==
  ASSUME SnapshotInv, CellInv, ScrapeInv, Collect PROVE ScrapeInv'
<1>1. /\ scan \in Columns /\ scan' = scan + 1 /\ scan # 0
      /\ scraped' = [scraped EXCEPT ![scan] = series[scan]]
      /\ UNCHANGED <<vars, overlap, sources>>
  BY DEF Collect, Columns
<1>2. /\ scan' \in 1..(Missing + 1) /\ DOMAIN scraped' = Columns
      /\ \A c \in Columns : scraped'[c] = IF c = scan THEN series[c] ELSE scraped[c]
  BY <1>1, FieldsAssumption DEF ScrapeInv, Columns, Missing
<1>3. Collected' = Collected \cup {scan}
  BY <1>1 DEF Collected, Columns
<1>4. Collected \subseteq Columns
  BY DEF Collected
<1>5. series' = series /\ Switching' = Switching /\ Current' = Current
  BY <1>1 DEF vars, readVars, Switching, Current
<1>6. ASSUME NEW c \in Collected', NEW n \in Labels
      PROVE  Continuous(c, n, scraped[c][n])' /\ Belongs(c, n, scraped[c][n])'
  <2>1. CASE c = scan
    <3>1. Continuous(c, n, series[c][n]) /\ Belongs(c, n, series[c][n])
      BY <1>1, <2>1, CollectedNow DEF ScrapeInv
    <3>2. scraped'[c][n] = series[c][n]
      BY <1>1, <1>2, <2>1
    <3>3. QED
      BY <1>1, <3>1, <3>2 DEF Continuous, Belongs, Said
  <2>2. CASE c # scan
    <3>1. c \in Collected /\ scraped'[c][n] = scraped[c][n]
      BY <1>2, <1>3, <1>4, <2>2
    <3>2. QED
      BY <1>1, <3>1 DEF ScrapeInv, Continuous, Belongs, Said
  <2>3. QED
    BY <2>1, <2>2
<1>7. scan' # 0 /\ ~overlap' =>
        ~Switching' /\ \A c \in Collected' : scraped'[c] = series'[c]
  BY <1>1, <1>2, <1>3, <1>4, <1>5 DEF ScrapeInv
<1>8. Current' \subseteq sources'
  BY <1>1, <1>5 DEF ScrapeInv
<1>9. QED
  BY <1>2, <1>6, <1>7, <1>8 DEF ScrapeInv

\* A scrape begins or ends: nothing is collected yet.
LEMMA EndsStep ==
  ASSUME ScrapeInv, StartScrape \/ EndScrape PROVE ScrapeInv'
<1>1. /\ scan' \in {0, 1} /\ DOMAIN scraped' = Columns /\ UNCHANGED vars
      /\ scan' = 1 => overlap' = Switching /\ sources' = Current
  BY DEF StartScrape, EndScrape, ScrapeInv, Nothing
<1>2. Collected' = {}
  BY <1>1 DEF Collected, Columns
<1>3. Switching' = Switching /\ Current' = Current
  BY <1>1 DEF vars, readVars, Switching, Current
<1>4. scan' \in 0..(Missing + 1)
  BY <1>1, FieldsAssumption DEF Missing
<1>5. QED
  BY <1>1, <1>2, <1>3, <1>4 DEF ScrapeInv

\* The whole invariant of the two threads.
AllInv == SnapshotInv /\ CellInv /\ ScrapeInv

LEMMA AllInit == ScrapeInit => AllInv
BY SnapshotInit, ScrapeInitial DEF ScrapeInit, AllInv

LEMMA AllNext == AllInv /\ [ScrapeNext]_allVars => AllInv'
<1> SUFFICES ASSUME SnapshotInv, CellInv, ScrapeInv, [ScrapeNext]_allVars PROVE AllInv'
  BY DEF AllInv
<1>1. SnapshotInv'
  BY SnapshotNext DEF ScrapeNext, allVars, StartScrape, Collect, EndScrape, Poll, Next
<1>2. CellInv'
  <2>1. CASE Poll
    BY <2>1, CellNext DEF Poll
  <2>2. CASE UNCHANGED vars
    <3>1. UNCHANGED <<pc, session, rec, col, series, recorded>>
      BY <2>2 DEF vars, readVars, applyVars
    <3>2. \A c \in Columns, n \in Labels :
            /\ Before(c, n)' = Before(c, n) /\ After(c, n)' = After(c, n)
            /\ Reached(c, n)' = Reached(c, n)
      BY <3>1 DEF Before, After, Reached, Written
    <3>3. \A c \in Columns, n \in Labels : Fresh(c, n)' = Fresh(c, n)
      BY <3>1, <3>2 DEF Fresh, Recording, Reading
    <3>4. Switching' = Switching
      BY <3>1 DEF Switching
    <3>5. QED
      BY <3>1, <3>2, <3>3, <3>4 DEF CellInv
  <2>3. QED
    BY <2>1, <2>2 DEF ScrapeNext, allVars, StartScrape, Collect, EndScrape
<1>3. ScrapeInv'
  <2>1. CASE Poll \/ Collect \/ StartScrape \/ EndScrape
    BY <2>1, PollStep, CollectStep, EndsStep
  <2>2. CASE UNCHANGED allVars
    BY <2>2 DEF allVars, vars, readVars, scrapeVars, ScrapeInv, Collected, Switching,
       Current, Continuous, Belongs, Said
  <2>3. QED
    BY <2>1, <2>2 DEF ScrapeNext
<1>4. QED
  BY <1>1, <1>2, <1>3 DEF AllInv

\* For every host and every number of gauges: a scrape that meets no write shows
\* one whole session, whatever polls read or fail meanwhile.
THEOREM ScrapeWholeCorrect == ScrapeSpec => []ScrapeWhole
<1>1. AllInv => ScrapeWhole
  <2> SUFFICES ASSUME AllInv, scan = Missing + 1, ~overlap
               PROVE  Holds(scraped, recorded.readings)
    BY DEF ScrapeWhole
  <2>1. scan # 0 /\ Collected = Columns
    BY FieldsAssumption DEF Collected, Columns, Missing
  <2>2. ~Switching /\ \A c \in Columns : scraped[c] = series[c]
    BY <2>1 DEF AllInv, ScrapeInv
  <2>3. Holds(series, recorded.readings)
    BY <2>2 DEF AllInv, SnapshotInv, SnapshotWhole
  <2>4. QED
    BY <2>2, <2>3 DEF Holds
<1>2. QED
  BY AllInit, AllNext, <1>1, PTL DEF ScrapeSpec

\* For every interleaving: a series that both sessions have is in the scrape, with
\* a number one of them read for it.
THEOREM ScrapeContinuityCorrect == ScrapeSpec => []ScrapeContinuity
<1>1. AllInv => ScrapeContinuity
  BY DEF AllInv, ScrapeInv, ScrapeContinuity, Continuous
<1>2. QED
  BY AllInit, AllNext, <1>1, PTL DEF ScrapeSpec

\* For every interleaving: no number under a name it was not read for.
THEOREM ScrapeBelongsCorrect == ScrapeSpec => []ScrapeBelongs
<1>1. AllInv => ScrapeBelongs
  BY DEF AllInv, ScrapeInv, ScrapeBelongs, Belongs
<1>2. QED
  BY AllInit, AllNext, <1>1, PTL DEF ScrapeSpec

-----------------------------------------------------------------------------
(* How the process ends, for every host, every number of polls and of      *)
(* signals, and wherever they find the main thread.                        *)

Startup == {"configure", "install", "installed", "bind"}
Leaving == {"unwind", "release", "stopped"}
ProcessPhases == Startup \cup {"serve", "exited"} \cup Leaving

\* Nothing is polled before the port is bound, nothing but a signal makes main
\* leave, and the handler is there when signals are answered.
LifeInv ==
  /\ phase \in ProcessPhases /\ signals \in Seq(ProcessPhases)
  /\ phase \in Startup => polls = 0
  /\ phase \in Leaving => signals # <<>>
  /\ phase \in {"installed", "bind", "serve"} => handler
  /\ phase = "exited" /\ signals = <<>> => polls = 0 /\ exit \in {1, 2}

\* The only signal so far found the exporter serving.
StruckOnce == Len(signals) = 1 /\ signals[1] \in {"bind", "serve"}

\* It is on its way out then, and its session is closed, or about to be.
StopInv ==
  StruckOnce =>
    /\ phase \in Leaving \cup {"exited"}
    /\ phase \in {"stopped", "exited"} /\ caught_at \notin Unguarded \cup Closing
         => ~connected
    /\ phase = "exited" => exit = 0

LEMMA LifeInit == ExporterInit => LifeInv /\ StopInv
BY DEF ExporterInit, Init, LifeInv, StopInv, StruckOnce, ProcessPhases, Startup, Leaving

\* A signal is remembered with the phase it came in.
LEMMA Appended ==
  ASSUME LifeInv, Signal
  PROVE  /\ signals' \in Seq(ProcessPhases) /\ signals' # <<>>
         /\ StruckOnce' => phase \in {"bind", "serve"}
<1>1. signals' = Append(signals, phase) /\ signals \in Seq(ProcessPhases)
      /\ phase \in ProcessPhases
  BY DEF Signal, LifeInv
<1>2. signals' \in Seq(ProcessPhases) /\ Len(signals') = Len(signals) + 1
      /\ signals'[Len(signals) + 1] = phase
  BY <1>1
<1>3. QED
  BY <1>2 DEF StruckOnce

LEMMA LifeNext ==
  ASSUME LifeInv, [ExporterNext]_exporterVars PROVE LifeInv'
<1> USE DEF LifeInv, ProcessPhases, Startup, Leaving
<1>1. CASE Configure \/ Install \/ EnterTry \/ Bind
  BY <1>1 DEF Configure, Install, EnterTry, Bind, Exit, vars, pollVars
<1>2. CASE Serve \/ Unwind \/ Release \/ Stop
  BY <1>2 DEF Serve, Unwind, Release, Stop, Exit, processVars, vars, pollVars
<1>3. CASE Signal
  <2>1. signals' \in Seq(ProcessPhases) /\ signals' # <<>>
    BY <1>3, Appended
  <2>2. handler' = handler /\ polls' = polls
    BY <1>3 DEF Signal, Unhandled, Escapes, Interrupts, InterruptsAgain, vars, pollVars
  <2>3. \/ phase' \in {phase, "exited"}
        \/ phase' \in Leaving
    BY <1>3 DEF Signal, Unhandled, Escapes, Interrupts, InterruptsAgain, Exit
  <2>4. QED
    BY <2>1, <2>2, <2>3
<1>4. CASE UNCHANGED exporterVars
  BY <1>4 DEF exporterVars, processVars, vars, pollVars
<1>5. QED
  BY <1>1, <1>2, <1>3, <1>4 DEF ExporterNext, MainThread, Ended

LEMMA StopNext ==
  ASSUME LifeInv, StopInv, [ExporterNext]_exporterVars PROVE StopInv'
<1> USE DEF StopInv, StruckOnce, Startup, Leaving
<1>1. CASE Configure \/ Install \/ EnterTry \/ Bind \/ Serve
  <2>1. signals' = signals /\ phase \notin Leaving \cup {"exited"}
    BY <1>1 DEF Configure, Install, EnterTry, Bind, Serve, processVars
  <2>2. QED
    BY <2>1
<1>2. CASE Unwind \/ Release \/ Stop
  BY <1>2 DEF Unwind, Release, Stop, Exit, vars, readVars
<1>3. CASE Signal
  <2> SUFFICES ASSUME StruckOnce' PROVE StopInv'
    OBVIOUS
  <2>1. phase \in {"bind", "serve"} /\ handler
    BY <1>3, Appended DEF LifeInv
  <2>2. PICK s \in {"TERM", "INT"} : Interrupts(s)
    BY <1>3, <2>1 DEF Signal, Unhandled, Handled, Escapes, InterruptsAgain
  <2>3. /\ phase' \in {"unwind", "release", "stopped"}
        /\ pc \notin Unguarded \cup Closing => phase' = "unwind"
    BY <2>2 DEF Interrupts
  <2>4. caught_at' = pc
    BY <2>2 DEF Interrupts
  <2>5. QED
    BY <2>3, <2>4
<1>4. CASE UNCHANGED exporterVars
  BY <1>4 DEF exporterVars, processVars, vars, readVars
<1>5. QED
  BY <1>1, <1>2, <1>3, <1>4 DEF ExporterNext, MainThread, Ended

\* However many polls and virtualservers: one signal to a serving exporter ends it
\* with status 0 and its session closed, unless it strikes where no try is around
\* the open socket yet, or the closing itself.
THEOREM CleanStopCorrect == ExporterSpec => []CleanStop
<1>1. StopInv => CleanStop
  BY DEF StopInv, StruckOnce, CleanStop
<1>2. QED
  BY LifeInit, LifeNext, StopNext, <1>1, PTL DEF ExporterSpec

\* Nothing the host does to any poll ends the process: without a signal it ends
\* before its first poll or not at all.
THEOREM OnlyStartupFailsCorrect == ExporterSpec => []OnlyStartupFails
<1>1. LifeInv => OnlyStartupFails
  BY DEF LifeInv, OnlyStartupFails
<1>2. QED
  BY LifeInit, LifeNext, <1>1, PTL DEF ExporterSpec
=============================================================================
