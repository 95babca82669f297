---------------------------- MODULE PollService ----------------------------
(***************************************************************************)
(* One poll of Teamspeak3MetricService (service.py): a ServerQuery session *)
(* is read completely, then its readings are written into the Prometheus   *)
(* gauges cell by cell, then the bookkeeping of the service is brought up  *)
(* to date.  A step of this specification is one call the polling thread   *)
(* makes on the client, on a gauge, or on its own memory, so that another  *)
(* thread (module Scrape) can be interleaved with it.                      *)
(*                                                                         *)
(* The labelled gauges are one table.  Column f \in Fields is the gauge of *)
(* the f-th entry of METRICS_NAMES; the last column is missing_fields.     *)
(* A cell holds None when the gauge has no child for that label.           *)
(***************************************************************************)
EXTENDS Integers, Sequences, FiniteSets

CONSTANTS
  Ids,          \* virtualserver ids
  Names,        \* names as the server spells them
  Labels,       \* label values
  label_value,  \* [Names -> Labels]: redact, then cut; two names may collide
  Unnamed,      \* [Ids -> Labels]: 'virtualserver <id>'
  NFields,      \* number of entries of METRICS_NAMES
  Values,       \* the numbers a serverinfo field may hold
  Statuses,     \* virtualserver_status; a missing one counts as "online"
  Listings,     \* the answers serverlist may give
  Infos,        \* the answers serverinfo may give
  Times,        \* readings of the wall clock, in no order: it may be stepped
  MaxPolls,     \* bound on the number of polls
  None          \* no name, no selection, no child of a gauge

Fields  == 1..NFields
Columns == 1..(NFields + 1)
Missing == NFields + 1
Cells   == Values \cup Nat \cup {None}
Reasons == {"connection", "login", "query", "unexpected"}
Results == {"OK", "PARTIAL", "FAILED"}

ServerRecords == [id: Ids, status: Statuses, name: Names \cup {None}]
InfoRecords == [name: Names \cup {None}, values: [Fields -> Values \cup {None}]]
\* A reading remembers the id it is filed under and, as history, the
\* virtualserver the host had selected when it answered.
Readings == [id: Ids, selected: Ids \cup {None}, name: Labels,
             values: [Fields -> Values \cup {None}]]

ASSUME FieldsAssumption == NFields \in Nat \ {0}
ASSUME ValuesAssumption == 0 \in Values
ASSUME NoneAssumption ==
  /\ None \notin Ids \cup Names \cup Labels
  /\ None \notin Values \cup Nat
  /\ None \notin Statuses \cup Reasons
ASSUME LabelAssumption ==
  label_value \in [Names -> Labels] /\ Unnamed \in [Ids -> Labels]
ASSUME AnswersAssumption ==
  Listings \subseteq Seq(ServerRecords) /\ Infos \subseteq InfoRecords
ASSUME StatusAssumption == "online" \in Statuses
ASSUME MaxPollsAssumption == MaxPolls \in Nat

VARIABLES
  pc,                \* where the polling thread is
  exc,               \* the exception on its way to poll(), by error reason
  connected,         \* the ServerQuery socket is open
  selected,          \* the virtualserver the host has selected for this client
  session,           \* the _Session being read
  index,             \* position in session.servers
  rec, col,          \* reading and column being written, column being removed
  forgetting,        \* names _forget still has to remove
  victim,            \* the name _forget is removing
  known,             \* known_virtualservers
  warned_missing,    \* _warned_missing
  not_online,        \* _not_online
  warned_duplicates, \* _warned_duplicates
  series,            \* the labelled gauges
  poll_errors,       \* the counter, by reason
  poll_success, last_poll, last_successful,
  polls,             \* polls started
  recorded,          \* history: the last session written completely
  errors_before,     \* history: poll_errors when the poll started
  missing_log,       \* history: warnings about a field since its name was read
  shared_log,        \* history: warnings about a name since it became shared
  status_log,        \* history: the last status logged for a virtualserver
  lapsed             \* history: the ones whose status was forgotten, not logged

readVars   == <<connected, selected, session, index>>
applyVars  == <<rec, col, forgetting, victim>>
memoryVars == <<known, warned_missing, not_online, warned_duplicates>>
healthVars == <<poll_success, last_poll, last_successful>>
pollVars   == <<polls, errors_before>>
logVars    == <<missing_log, shared_log, status_log, lapsed>>
vars == <<pc, exc, readVars, applyVars, memoryVars, series, poll_errors,
          healthVars, pollVars, recorded, logVars>>

NoSession == [servers |-> <<>>, result |-> "OK", readings |-> <<>>,
              not_online |-> [v \in Ids |-> None]]

Init ==
  /\ pc = "idle"
  /\ exc = None
  /\ connected = FALSE
  /\ selected = None
  /\ session = NoSession
  /\ index = 1
  /\ rec = 1 /\ col = 1
  /\ forgetting = {} /\ victim = None
  /\ known = {} /\ warned_missing = {} /\ warned_duplicates = {}
  /\ not_online = [v \in Ids |-> None]
  /\ series = [c \in Columns |-> [n \in Labels |-> None]]
  /\ poll_errors = [r \in Reasons |-> 0]
  /\ poll_success = 0 /\ last_poll = 0 /\ last_successful = 0
  /\ polls = 0
  /\ recorded = NoSession
  /\ errors_before = [r \in Reasons |-> 0]
  /\ missing_log = [n \in Labels |-> [f \in Fields |-> 0]]
  /\ shared_log = [n \in Labels |-> 0]
  /\ status_log = [v \in Ids |-> None] /\ lapsed = {}

-----------------------------------------------------------------------------
(* The session: connect, login, serverlist, then use and serverinfo for    *)
(* every online virtualserver.  Every call may fail.                       *)

\* poll(): read the wall clock, publish it, enter _poll().
StartPoll ==
  /\ pc = "idle" /\ polls < MaxPolls
  /\ \E t \in Times : last_poll' = t
  /\ polls' = polls + 1
  /\ errors_before' = poll_errors
  /\ pc' = "connect"
  /\ UNCHANGED <<exc, readVars, applyVars, memoryVars, series, poll_errors,
                 poll_success, last_successful, recorded, logVars>>

\* The client factory: create_connection, then the greeting in a try that
\* closes the socket.  Between the two, and between its return and the try of
\* _poll, the socket is open and no try statement would close it.
Quiet ==
  UNCHANGED <<selected, session, index, applyVars, memoryVars, series,
              poll_errors, healthVars, pollVars, recorded, logVars>>

Dial ==
  /\ pc = "connect"
  /\ \/ connected' = TRUE /\ pc' = "dialled" /\ exc' = exc
     \/ \E r \in {"connection", "unexpected"} :
          exc' = r /\ pc' = "failed" /\ connected' = connected
  /\ Quiet

EnterGreeting ==
  pc = "dialled" /\ pc' = "greeting" /\ UNCHANGED <<exc, connected>> /\ Quiet

Greet ==
  /\ pc = "greeting"
  /\ \/ pc' = "created" /\ exc' = exc
     \/ \E r \in {"connection", "unexpected"} : exc' = r /\ pc' = "abandon"
  /\ UNCHANGED connected /\ Quiet

\* except BaseException: the socket of a host that did not greet is closed.
Abandon ==
  /\ pc = "abandon"
  /\ connected' = FALSE /\ pc' = "failed" /\ exc' = exc
  /\ Quiet

EnterSession ==
  pc = "created" /\ pc' = "login" /\ UNCHANGED <<exc, connected>> /\ Quiet

Connect == Dial \/ EnterGreeting \/ Greet \/ Abandon \/ EnterSession

\* An exception leaves the session: the finally clause closes the client.
Raise(reasons) ==
  /\ \E r \in reasons : exc' = r
  /\ pc' = "close"
  /\ UNCHANGED <<connected, selected, session, index, poll_errors>>

Login ==
  /\ pc = "login"
  /\ \/ pc' = "serverlist" /\ UNCHANGED <<exc, readVars, poll_errors>>
     \/ Raise(Reasons)
  /\ UNCHANGED <<applyVars, memoryVars, series, healthVars, pollVars, recorded,
                 logVars>>

Serverlist ==
  /\ pc = "serverlist"
  /\ \/ /\ \E servers \in Listings :
             session' = [session EXCEPT !.servers = servers]
        /\ pc' = "read"
        /\ UNCHANGED <<exc, connected, selected, index, poll_errors>>
     \/ Raise({"query", "connection", "unexpected"})
  /\ UNCHANGED <<applyVars, memoryVars, series, healthVars, pollVars, recorded,
                 logVars>>

Server == session.servers[index]

\* Stopped, booting, ...: skipped silently, its status kept for the report.
SkipNotOnline ==
  /\ pc = "read" /\ index <= Len(session.servers)
  /\ Server.status # "online"
  /\ session' = [session EXCEPT !.not_online[Server.id] = Server.status]
  /\ index' = index + 1
  /\ UNCHANGED <<pc, exc, connected, selected, applyVars, memoryVars, series,
                 poll_errors, healthVars, pollVars, recorded, logVars>>

\* except ServerQueryError: counted, the poll becomes partial, the next
\* virtualserver follows.
Mutant_SkipFailed ==
  /\ session' = [session EXCEPT !.result = "PARTIAL"]
  /\ index' = index + 1
  /\ pc' = "read"
  /\ UNCHANGED <<exc, connected, poll_errors>>

Mutant_SkipFailedAgain ==
  /\ poll_errors' = [poll_errors EXCEPT !["query"] = @ + 1]
  /\ session' = [session EXCEPT !.result = "PARTIAL"]
  /\ pc' = "read"
  /\ UNCHANGED <<exc, connected, index>>

SkipFailed ==
  /\ poll_errors' = [poll_errors EXCEPT !["query"] = @ + 1]
  /\ session' = [session EXCEPT !.result = "PARTIAL"]
  /\ index' = index + 1
  /\ pc' = "read"
  /\ UNCHANGED <<exc, connected>>

\* client.use(): a refusal leaves the host on the old selection or on none.
Mutant_Use ==
  /\ pc = "read" /\ index <= Len(session.servers)
  /\ Server.status = "online"
  /\ selected' \in {Server.id, selected, None} /\ pc' = "serverinfo"
  /\ UNCHANGED <<exc, connected, session, index, poll_errors, applyVars,
                 memoryVars, series, healthVars, pollVars, recorded, logVars>>

Use ==
  /\ pc = "read" /\ index <= Len(session.servers)
  /\ Server.status = "online"
  /\ \/ /\ selected' = Server.id /\ pc' = "serverinfo"
        /\ UNCHANGED <<exc, connected, session, index, poll_errors>>
     \/ selected' \in {selected, None} /\ SkipFailed
     \/ Raise({"connection", "unexpected"})
  /\ UNCHANGED <<applyVars, memoryVars, series, healthVars, pollVars, recorded,
                 logVars>>

\* The label: the name of serverinfo, else of serverlist, else the id.
Mutant_LabelOf(info, server) ==
  IF info.name # None THEN info.name
  ELSE IF server.name # None THEN server.name
  ELSE Unnamed[server.id]

LabelOf(info, server) ==
  IF info.name # None THEN label_value[info.name]
  ELSE IF server.name # None THEN label_value[server.name]
  ELSE Unnamed[server.id]

Serverinfo ==
  /\ pc = "serverinfo"
  /\ \/ \E info \in Infos :
          /\ session' = [session EXCEPT !.readings =
               Append(@, [id |-> Server.id, selected |-> selected,
                          name |-> LabelOf(info, Server),
                          values |-> info.values])]
          /\ index' = index + 1
          /\ pc' = "read"
          /\ UNCHANGED <<exc, connected, selected, poll_errors>>
     \/ SkipFailed /\ selected' = selected
     \/ Raise({"connection", "unexpected"})
  /\ UNCHANGED <<applyVars, memoryVars, series, healthVars, pollVars, recorded,
                 logVars>>

EndOfList ==
  /\ pc = "read" /\ index > Len(session.servers)
  /\ pc' = "close"
  /\ UNCHANGED <<exc, readVars, applyVars, memoryVars, series, poll_errors,
                 healthVars, pollVars, recorded, logVars>>

\* The finally clause.  Only a session without an exception is applied.
Mutant_CloseApplies ==
  /\ pc = "close"
  /\ connected' = FALSE /\ selected' = None
  /\ pc' = "record"
  /\ UNCHANGED <<exc, session, index, applyVars, memoryVars, series,
                 poll_errors, healthVars, pollVars, recorded, logVars>>

Mutant_CloseClears ==
  /\ pc = "close"
  /\ connected' = FALSE /\ selected' = None
  /\ pc' = IF exc = None THEN "record" ELSE "failed"
  /\ series' = IF exc = None THEN [c \in Columns |-> [n \in Labels |-> None]]
               ELSE series
  /\ UNCHANGED <<exc, session, index, applyVars, memoryVars,
                 poll_errors, healthVars, pollVars, recorded, logVars>>

Close ==
  /\ pc = "close"
  /\ connected' = FALSE /\ selected' = None
  /\ pc' = IF exc = None THEN "record" ELSE "failed"
  /\ UNCHANGED <<exc, session, index, applyVars, memoryVars, series,
                 poll_errors, healthVars, pollVars, recorded, logVars>>

-----------------------------------------------------------------------------
(* _apply: the readings are written one cell at a time, in order.          *)

Skipped(reading) == {f \in Fields : reading.values[f] = None}

\* What a reading puts into a column: its value, or how many it lacks.
Cell(reading, c) ==
  IF c = Missing THEN Cardinality(Skipped(reading)) ELSE reading.values[c]

Reading == session.readings[rec]
Recording == pc = "record" /\ rec <= Len(session.readings)

\* gauge.labels(...) on a name the gauge does not have creates a child, at 0.
CreateChild ==
  /\ Recording
  /\ Cell(Reading, col) # None /\ series[col][Reading.name] = None
  /\ series' = [series EXCEPT ![col][Reading.name] = 0]
  /\ UNCHANGED <<pc, exc, readVars, applyVars, memoryVars, poll_errors,
                 healthVars, pollVars, recorded, logVars>>

\* .set(value) on the child of a contract field.
SetField ==
  /\ Recording /\ col \in Fields
  /\ Cell(Reading, col) # None /\ series[col][Reading.name] # None
  /\ series' = [series EXCEPT ![col][Reading.name] = Cell(Reading, col)]
  /\ col' = col + 1
  /\ UNCHANGED <<pc, exc, readVars, rec, forgetting, victim, memoryVars,
                 poll_errors, healthVars, pollVars, recorded, logVars>>

\* A field that is missing or not a number: its stale series goes.
Mutant_RemoveField ==
  /\ Recording /\ col \in Fields
  /\ Cell(Reading, col) = None
  /\ col' = col + 1
  /\ UNCHANGED <<pc, exc, readVars, rec, forgetting, victim, memoryVars, series,
                 poll_errors, healthVars, pollVars, recorded, logVars>>

RemoveField ==
  /\ Recording /\ col \in Fields
  /\ Cell(Reading, col) = None
  /\ series' = [series EXCEPT ![col][Reading.name] = None]
  /\ col' = col + 1
  /\ UNCHANGED <<pc, exc, readVars, rec, forgetting, victim, memoryVars,
                 poll_errors, healthVars, pollVars, recorded, logVars>>

\* The fields of a reading nothing was logged about yet.
Mutant_Unwarned(reading) == Skipped(reading)
Unwarned(reading) ==
  {f \in Skipped(reading) : <<reading.name, f>> \notin warned_missing}

\* missing_fields.set, then one warning per field not warned about before.
SetMissing ==
  /\ Recording /\ col = Missing
  /\ series[col][Reading.name] # None
  /\ series' = [series EXCEPT ![col][Reading.name] = Cell(Reading, col)]
  /\ warned_missing' = warned_missing \cup ({Reading.name} \X Skipped(Reading))
  /\ missing_log' = [missing_log EXCEPT ![Reading.name] = [f \in Fields |->
       IF f \in Unwarned(Reading) THEN @[f] + 1 ELSE @[f]]]
  /\ rec' = rec + 1 /\ col' = 1
  /\ UNCHANGED <<pc, exc, readVars, forgetting, victim, known, not_online,
                 warned_duplicates, poll_errors, healthVars, pollVars, recorded,
                 shared_log, status_log, lapsed>>

NamesRead(readings) == {readings[k].name : k \in DOMAIN readings}

\* session.owners with more than one id.
Duplicates(readings) ==
  {n \in NamesRead(readings) :
     \E j, k \in DOMAIN readings :
       j # k /\ readings[j].name = n /\ readings[k].name = n}

ListedIds(s) == {s.servers[k].id : k \in DOMAIN s.servers}

\* The last status logged for v after _report_status_changes: a status that is
\* new, or "is online again" if serverlist still shows v.  Nothing is logged for
\* a virtualserver no longer listed: its last line stays, its status is forgotten.
Stopped(v) == session.not_online[v] \notin {None, not_online[v]}
Left(v) == session.not_online[v] = None /\ not_online[v] # None

Mutant_StatusLine(v) ==
  IF Stopped(v) THEN session.not_online[v] ELSE status_log[v]

StatusLine(v) ==
  IF Stopped(v) THEN session.not_online[v]
  ELSE IF Left(v) /\ v \in ListedIds(session) THEN "online"
  ELSE status_log[v]

\* _report_duplicates and _report_status_changes: log lines and memory only.
Report ==
  /\ pc = "record" /\ rec > Len(session.readings)
  /\ LET shared == Duplicates(session.readings) IN
       /\ shared_log' = [n \in Labels |->
            IF n \notin shared THEN 0
            ELSE IF n \in warned_duplicates THEN shared_log[n]
            ELSE shared_log[n] + 1]
       /\ warned_duplicates' = shared
  /\ status_log' = [v \in Ids |-> StatusLine(v)]
  /\ lapsed' = {v \in lapsed : ~Stopped(v)} \cup
               {v \in Ids : Left(v) /\ v \notin ListedIds(session)}
  /\ not_online' = session.not_online
  /\ forgetting' = known \ NamesRead(session.readings)
  /\ rec' = 1 /\ col' = 1
  /\ pc' = "forget"
  /\ UNCHANGED <<exc, readVars, victim, known, warned_missing, series,
                 poll_errors, healthVars, pollVars, recorded, missing_log>>

\* _forget takes the names of a set in any order, one gauge after the other.
Mutant_Forgets(n) ==
  /\ pc = "forget" /\ n \in forgetting
  /\ victim \in {None, n}
  /\ series' = IF col = Missing THEN [series EXCEPT ![col][n] = None] ELSE series

Forgets(n) ==
  /\ pc = "forget" /\ n \in forgetting
  /\ victim \in {None, n}
  /\ series' = [series EXCEPT ![col][n] = None]

ForgetField ==
  /\ col \in Fields
  /\ \E n \in Labels : Forgets(n) /\ victim' = n
  /\ col' = col + 1
  /\ UNCHANGED <<pc, exc, readVars, rec, forgetting, memoryVars, poll_errors,
                 healthVars, pollVars, recorded, logVars>>

Mutant_ForgetName ==
  /\ col = Missing
  /\ \E n \in Labels :
       /\ Forgets(n)
       /\ forgetting' = forgetting \ {n}
       /\ missing_log' = [missing_log EXCEPT ![n] = [f \in Fields |-> 0]]
  /\ victim' = None /\ col' = 1
  /\ UNCHANGED <<pc, exc, readVars, rec, memoryVars, poll_errors, healthVars,
                 pollVars, recorded, shared_log, status_log, lapsed>>

ForgetName ==
  /\ col = Missing
  /\ \E n \in Labels :
       /\ Forgets(n)
       /\ forgetting' = forgetting \ {n}
       /\ warned_missing' = {e \in warned_missing : e[1] # n}
       /\ missing_log' = [missing_log EXCEPT ![n] = [f \in Fields |-> 0]]
  /\ victim' = None /\ col' = 1
  /\ UNCHANGED <<pc, exc, readVars, rec, known, not_online, warned_duplicates,
                 poll_errors, healthVars, pollVars, recorded, shared_log,
                 status_log, lapsed>>

\* known_virtualservers = seen: the session has been recorded.
Recorded ==
  /\ pc = "forget" /\ forgetting = {}
  /\ known' = NamesRead(session.readings)
  /\ recorded' = session
  /\ pc' = "success"
  /\ UNCHANGED <<exc, readVars, applyVars, warned_missing, not_online,
                 warned_duplicates, series, poll_errors, healthVars, pollVars,
                 logVars>>

-----------------------------------------------------------------------------
(* The end of poll(): the self-metrics, one gauge at a time.               *)

Failed ==
  /\ pc = "failed"
  /\ poll_errors' = [poll_errors EXCEPT ![exc] = @ + 1]
  /\ session' = [session EXCEPT !.result = "FAILED"]
  /\ pc' = "success"
  /\ UNCHANGED <<exc, connected, selected, index, applyVars, memoryVars, series,
                 healthVars, pollVars, recorded, logVars>>

\* What poll() held in its frame is gone once it returns.
Return ==
  /\ pc' = "idle" /\ exc' = None
  /\ session' = NoSession /\ index' = 1
  /\ UNCHANGED <<connected, selected>>

SetSuccess ==
  /\ pc = "success"
  /\ \/ /\ session.result = "OK"
        /\ poll_success' = 1 /\ pc' = "stamp"
        /\ UNCHANGED <<exc, readVars>>
     \/ /\ session.result # "OK"
        /\ poll_success' = 0
        /\ Return
  /\ UNCHANGED <<applyVars, memoryVars, series, poll_errors, last_poll,
                 last_successful, pollVars, recorded, logVars>>

Mutant_Stamp ==
  /\ pc = "stamp"
  /\ \E t \in Times : last_successful' = t
  /\ Return
  /\ UNCHANGED <<applyVars, memoryVars, series, poll_errors, poll_success,
                 last_poll, pollVars, recorded, logVars>>

Stamp ==
  /\ pc = "stamp"
  /\ last_successful' = last_poll
  /\ Return
  /\ UNCHANGED <<applyVars, memoryVars, series, poll_errors, poll_success,
                 last_poll, pollVars, recorded, logVars>>

\* The loop returns after `iterations` polls (poll_forever).
Done == pc = "idle" /\ polls = MaxPolls /\ UNCHANGED vars

Step ==
  \/ StartPoll \/ Connect \/ Login \/ Serverlist
  \/ SkipNotOnline \/ Use \/ Serverinfo \/ EndOfList \/ Close
  \/ CreateChild \/ SetField \/ RemoveField \/ SetMissing \/ Report
  \/ ForgetField \/ ForgetName \/ Recorded
  \/ Failed \/ SetSuccess \/ Stamp

Next == Step \/ Done

Spec == Init /\ [][Next]_vars

\* The polling thread keeps running: no client call blocks forever
\* (module ServerQuerySession shows that each is bounded).
FairSpec == Spec /\ WF_vars(Step)

-----------------------------------------------------------------------------
(* Properties.                                                             *)

Phases == {"idle", "connect", "dialled", "greeting", "created", "abandon",
           "login", "serverlist", "read", "serverinfo",
           "close", "record", "forget", "failed", "success", "stamp"}

Session == [servers: Seq(ServerRecords), result: Results,
            readings: Seq(Readings), not_online: [Ids -> Statuses \cup {None}]]

\* The type invariant: every variable holds a value of its kind.
ControlType == pc \in Phases /\ exc \in Reasons \cup {None}

ReadType ==
  /\ selected \in Ids \cup {None}
  /\ session \in Session /\ index \in Nat \ {0}

ApplyType ==
  /\ rec \in Nat \ {0} /\ col \in Columns
  /\ forgetting \subseteq Labels /\ victim \in Labels \cup {None}

MemoryType ==
  /\ known \subseteq Labels
  /\ warned_missing \subseteq Labels \X Fields
  /\ not_online \in [Ids -> Statuses \cup {None}]
  /\ warned_duplicates \subseteq Labels

SeriesType == series \in [Columns -> [Labels -> Cells]]

ErrorsType == poll_errors \in [Reasons -> Nat]

HealthType ==
  /\ poll_success \in {0, 1}
  /\ last_poll \in Times \cup {0} /\ last_successful \in Times \cup {0}

PollType == polls \in 0..MaxPolls /\ errors_before \in [Reasons -> Nat]

LogType ==
  /\ missing_log \in [Labels -> [Fields -> Nat]]
  /\ shared_log \in [Labels -> Nat]
  /\ status_log \in [Ids -> Statuses \cup {None}] /\ lapsed \subseteq Ids

TypeOK ==
  /\ ControlType /\ ReadType /\ ApplyType /\ MemoryType /\ SeriesType
  /\ ErrorsType /\ HealthType /\ PollType /\ LogType
  /\ recorded \in Session /\ connected \in BOOLEAN

\* The gauges are being rewritten: the only time they may mix two sessions.
Switching == pc \in {"record", "forget"}

\* Among the first k readings, j is the last one of name n.
IsLast(readings, k, n, j) ==
  /\ j \in 1..k /\ readings[j].name = n
  /\ \A m \in (j + 1)..k : readings[m].name # n

\* The table holds exactly what these readings say: for every name the last
\* one, in every column, and nothing for a name not read.
Holds(table, readings) ==
  \A c \in Columns, n \in Labels :
    /\ n \notin NamesRead(readings) => table[c][n] = None
    /\ \A j \in DOMAIN readings :
         IsLast(readings, Len(readings), n, j) => table[c][n] = Cell(readings[j], c)

\* "Read first, write after" (service.py:133): except during the short write,
\* the gauges hold exactly the readings of one session, the last one that
\* completed, whatever failed since and wherever it failed.
SnapshotWhole == ~Switching => Holds(series, recorded.readings)

\* Only a session that ended without an exception is written, and an "OK" one
\* covers every virtualserver serverlist showed online: a connection lost or a
\* budget spent part-way publishes nothing of what was read.
AppliedComplete ==
  Switching =>
    /\ exc = None
    /\ session.result = "OK" =>
         \A k \in DOMAIN session.servers :
           session.servers[k].status = "online" =>
             \E j \in DOMAIN session.readings :
               session.readings[j].id = session.servers[k].id

\* A reading is filed under the virtualserver that was selected when the host
\* answered serverinfo, also after a `use` of another one was refused.
ReadingsBelong ==
  \A k \in DOMAIN session.readings :
    session.readings[k].selected = session.readings[k].id

\* What the service remembers between polls is about names it exports: the
\* warned fields of a renamed or deleted virtualserver are dropped with its
\* series, and a name of the table is a known one, so that the next poll can
\* remove it.
MemoryBounded ==
  ~Switching =>
    /\ \A e \in warned_missing : e[1] \in known
    /\ \A c \in Columns, n \in Labels : series[c][n] # None => n \in known
    /\ warned_duplicates \subseteq known

\* Every problem the exported snapshot has was logged, and logged once, however
\* many polls it lasted and however many failed in between.
WarnedExactlyOnce ==
  ~Switching =>
    /\ \A n \in Labels : shared_log[n] =
         IF n \in Duplicates(recorded.readings) THEN 1 ELSE 0
    /\ \A n \in Labels, f \in Fields :
         /\ missing_log[n][f] \in {0, 1}
         /\ \A j \in DOMAIN recorded.readings :
              recorded.readings[j].name = n /\ f \in Skipped(recorded.readings[j])
                => missing_log[n][f] = 1

\* Whoever follows the log knows a stopped virtualserver for what it is: the last
\* line about one that is listed and not online names its status.  A running one
\* is never taken for a stopped one, except when it left serverlist while it was
\* stopped: then its status is forgotten without a line (service.py:229), and
\* nothing is logged when it is back online, whatever the docstring says ("Log
\* once when a virtualserver stops or starts being online").
StatusLogged ==
  ~Switching =>
    \A k \in DOMAIN recorded.servers :
      LET server == recorded.servers[k] IN
      IF server.status = "online"
      THEN status_log[server.id] \in {None, "online"} \/ server.id \in lapsed
      ELSE status_log[server.id] = server.status

\* poll_success and the error counters tell the same story of the last poll:
\* it is 1 exactly when that poll counted no error.
NoSilentFailure ==
  pc = "idle" /\ polls > 0 => (poll_success = 1 <=> poll_errors = errors_before)

\* After a successful poll both timestamps agree, whichever way the wall clock
\* was stepped; alerts compare them.
SuccessStamped ==
  pc = "idle" /\ poll_success = 1 => last_successful = last_poll

\* The metrics about the poll agree with each other and with what was counted:
\* whoever alerts on one of them alerts on the same poll as the others.
SelfMetricsAgree == NoSilentFailure /\ SuccessStamped

\* The client is closed before anything is written and on every way out.
SessionClosed ==
  connected => pc \in {"dialled", "greeting", "created", "abandon",
                       "login", "serverlist", "read", "serverinfo", "close"}

\* The table these readings make, as one value.
Table(readings) ==
  [c \in Columns |-> [n \in Labels |->
     IF n \notin NamesRead(readings) THEN None
     ELSE LET j == CHOOSE i \in DOMAIN readings :
                     IsLast(readings, Len(readings), n, i)
          IN Cell(readings[j], c)]]

\* The gauges are the published table of module Snapshot: a session that
\* completes opens a switch to its table, and Recorded closes it.
Promise == INSTANCE Snapshot WITH
  Empty <- Table(<<>>),
  exported <- series,
  target <- Table(IF Switching THEN session.readings ELSE recorded.readings),
  switching <- Switching

\* The polling thread implements the published table: between switches nothing
\* moves, a switch ends with the gauges equal to the table it announced, and
\* every switch ends.
ImplementsSnapshot == Promise!FairSpec

\* The poll as the client sees it: the positions not read yet that are online.
OnlineIn(servers) == {k \in DOMAIN servers : servers[k].status = "online"}
Pending == OnlineIn(session.servers) \ 1..(index - 1)

CallUnderWay ==
  CASE pc \in {"connect", "login", "serverlist", "serverinfo", "close"} -> pc
    [] pc \in {"dialled", "greeting", "created"} -> "connect"
    [] pc = "read" -> IF Pending = {} THEN "close" ELSE "use"
    [] OTHER -> "closed"

Contract == INSTANCE ClientContract WITH
  Counts <- {Cardinality(OnlineIn(servers)) : servers \in Listings},
  phase <- CallUnderWay,
  left <- IF CallUnderWay \in {"use", "serverinfo"} THEN Cardinality(Pending) - 1 ELSE 0,
  raised <- exc

\* The caller keeps its side: every online virtualserver is asked about once, in
\* order, a skipped one ends nothing, every other exception ends the session,
\* and an open client is closed before the next poll.
KeepsContract == Contract!FairSpec
===============================================================================
