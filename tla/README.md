# teamspeak-prometheus, specified in TLA+

The exporter polls a TeamSpeak 3 host over its ServerQuery protocol and serves
what it read as Prometheus gauges. This directory holds TLA+ modules for it, the
TLC configurations that check them on small instances, and proofs checked by
TLAPS. Paths are those of the repository; lines are given in `PROJECT.json`.

## The system

| Component | State it keeps | Operations |
|---|---|---|
| Poll service (`service.py`) | known names, warned fields, warned duplicates, statuses of stopped virtualservers; one `_Session` per poll | `poll`, `_poll`, `_read`, `_apply`, `_record`, `_forget`, two reports |
| Metrics (`metrics.py`) | the labelled gauges, the error counter, success and time stamps | `update_gauges`, `contract_values`, `_remove_series`, `label_value` |
| ServerQuery client (`serverquery.py`) | socket, its timeout, session deadline, receive buffer, bytes received | `connect`, `login`, `serverlist`, `use`, `serverinfo`, `close`; `command`, `_read_line` below them |
| Wire format (`wire.py`) | none | `escape`, `unescape`, `decode_record` |
| Redaction (`redaction.py`) | the secrets | `redact`, `RedactingFilter.filter`, `printable` |
| Poll loop (`loop.py`) | failures in a row | `poll_forever`, `next_delay` |
| Process (`main.py`) | SIGTERM handler, exit status | `main`, `serve`, `handle_termination` |
| Configuration (`config.py`) | none | `resolve_config`, `overridden_flags` |
| Command line (`cli.py`) | none | `parse_args`, `SafeArgumentParser.error`, `format_help` |
| Health check (`healthcheck.py`) | none of its own; reads `/proc` | `find_exporter`, `effective`, `metrics_port`, `probe`, `exporter_secrets` |
| Logging, errors (`logs.py`, `errors.py`) | none | exception classes that select the branches of `poll` |
| Release workflow (`release.yml`, `validate-release-tag.sh`, `changelog_section.py`) | the changelog, the tags and their runs, the references of two registries, attestations, releases | validate, take the notes, push, attest, create the release; a run again, or the end by hand |

**How they interact.** `main` reads the configuration, installs the handler,
starts the HTTP server of `prometheus_client` in a second thread and stays in
`poll_forever`. Each turn calls `Teamspeak3MetricService.poll`, which opens a
client, reads a whole session, closes the client and only then writes the
gauges. The HTTP thread collects the same gauges whenever a scrape arrives;
nothing but the collection of one gauge is atomic against the writer. A signal
raises an exception in the main thread anywhere. The health check is a separate
process that knows the exporter by its `/proc` entry only. A release is a run of
a hosted workflow per tag; runs of two tags overlap and share the references
that move.

**What is hard.** The two threads share dozens of gauges; any call of a poll may
fail after others succeeded; what the service remembers must agree with what is
exported through failures, renames and shared names; the host may be slow,
flooded, silent, talkative or garbled while the session has a deadline; the
network cuts lines anywhere; a signal can land in a `finally`; processes come
and go between two reads of `/proc`; a password may stand anywhere on a command
line that argparse gives up on; a release may break off between two references.
Each is listed under `hazards` in
`PROJECT.json` with the properties that watch it.

**What makes each part correct.** *Service and metrics*: outside the short write
the gauges are exactly one completed session; numbers stay with their
virtualserver; memory does not outlive what it is about; problems are logged
once; self-metrics never call a partial poll successful. *Client*: reads and
waits stop at the deadline, every session ends, its outcome is the host's
verdict, lines and records arrive whole. *Loop*: start-to-start spacing is the
documented backoff. *Process*: only startup fails by itself, a signal stops it
cleanly. *Health check*: an exporter that serves is found healthy, and no password
the first scan could hear of is printed.
*Redaction, command line*: no password in a label, a log line, an error or the
help. *Release*: notes that stand alone, nothing published that was not
validated, a version's image never replaced.

## The modules

| Module | Models | How state and actions correspond |
|---|---|---|
| `PollService` | one poll, call by call | `pc` is the call under way, `exc` the exception on its way up; `session` is `_Session`; `series[column][label]` is the table of gauges, `None` where there is no child. One action per call on the client (`Login` .. `Close`), five for the opening of one (`Connect`: the socket, the `try` around the greeting, the greeting, the `except` that closes, the `try` of `_poll`), per gauge call (`CreateChild`, `SetField`, `RemoveField`, `ForgetField`), per piece of bookkeeping |
| `Snapshot` | abstract: a table that is replaced as a whole | implemented by `PollService` (`Promise`) |
| `ClientContract` | abstract: the `Ts3Client` protocol, which calls come in which order, which may raise what, and that an open client is closed | implemented from the caller's side by `PollService`, from the client's by `ServerQuerySession` (`Contract` in both) |
| `Scrape` | the polling thread with a scrape of the HTTP thread, gauge by gauge | extends `PollService`; `scan` is the collector's position |
| `Exporter` | `main` around the polls, with signals | extends `PollService`; `phase` is how far `main` is, `Interrupts` is the exception raised by a signal |
| `PollLoop` | `poll_forever`, `next_delay` | times are integers, a poll is its result and duration |
| `ServerQuerySession` | the client's session in time, against any host | `now`, `deadline`, `timeout` are the clocks of the code, one action per blocking call and per kind of answer |
| `PacedHost` | the same session against a host that throttles | extends `ServerQuerySession`; `accepted` is the host's window of commands, `told` the wait it asked for |
| `LineReader` | `_read_line`, `_read_response` on bytes, and what becomes of a name | `stream` is what the host sends, `Recv` any chunk of it |
| `CommandLine` | argparse as `cli.py` uses it, argument by argument, and `SafeArgumentParser` | `next` is the argument under the cursor, `usage` and `error` what was printed |
| `Wire`, `Redaction`, `Config` | pure algorithms as operators | names as in the code |
| `Texts` | one pass over a text from left to right, as `re.sub` makes it | used by `Wire`, `Redaction` and `CommandLine` |
| `Healthcheck` | two scans of `/proc`, resolution, probe, output | `procs` are the container's processes; one action per file read |
| `Changelog` | `changelog_section.py` on documents of blocks | one operator per function, under its name |
| `Release` | the life of a release, from writing the changelog on | `step[t]` is the step of the run of tag `t`, one action per step of `release.yml`; `images[registry][reference]` is what a pull gives |
| `ExporterProofs` | theorems about `PollService`, its refinements, `Scrape` and `Exporter` | one lemma per action or group of actions |
| `ServerQuerySessionProofs` | theorems about `ServerQuerySession`, its refinement and `PacedHost` | the same |
| `RedactionProofs` | lemmas about `Texts` and `Redaction`, and `redact`'s guarantee | extended by the next two |
| `CommandLineProofs`, `LineReaderProofs` | theorems about `CommandLine`, and about `LineReader` and the operators of `Wire` | as above |
| `PollLoopProofs`, `HealthcheckProofs`, `ReleaseProofs` | theorems about the module of that name | as above |
| `MC*` | small instances for TLC | |

A definition `Mutant_X` next to `X` is a deliberately wrong variant of it, the
way a plausible bug would have it (a dropped guard, a missing reset, an
off-by-one). No specification uses one; put in the place of `X` it makes TLC
report the property `PROJECT.json` names, which shows that the property can fail.
Variables commented `history` only record what happened for a property to speak
about.

Data is abstract where no property looks at it: names, labels, ids and numbers
are members of small sets, an error trailer is its kind, a line in
`ServerQuerySession` is one of a few kinds. Where the bytes matter (`LineReader`,
`Wire`, `Redaction`) texts are sequences of characters, over an alphabet of those
the conversions treat differently; in `CommandLine` a text is a sequence of the
pieces that options and passwords share. A changelog is a sequence of blocks.

## What the runs show

| Run | Instance and bounds | Shows |
|---|---|---|
| `poll_service` | 2 virtualservers, 2 labels, 3 names, 2 fields, 3 polls | `SnapshotWhole`, `AppliedComplete`, `ReadingsBelong`, `MemoryBounded`, `WarnedExactlyOnce`, `StatusLogged`, `SelfMetricsAgree`; the service implements `Snapshot` and keeps the caller's side of `ClientContract`, fairness included: every poll returns |
| `scrape` | 2 virtualservers, 2 fields, 2 polls, any number of scrapes | a scrape that meets no switch is one session; one that does has no gap for a running virtualserver and nobody else's number |
| `session` | socket timeout 3, budget 6 growing by 2 up to 9, 3 flood retries, 12 reads, any host | `EndsByDeadline`, `OnlyWritesOverrun`, `DeadlineCapped`, `OutcomeHonest`; the client keeps its side of `ClientContract` and every session ends |
| `paced_host` | the times of the code at 5 ticks a second, 10 commands per 3 seconds, up to 170 virtualservers, an empty, part-full and full window, 3 latencies, both roundings | `RetriesSuffice`: the last retry is never refused; `ReadCompletely`: a throttled host is read to the last virtualserver within the budget |
| `deadline_overrun` (refuted) | as `session` | a write that blocks passes the deadline |
| `line_reader` | lines up to 8 characters, chunks up to 3, sessions up to 24 | lines whole, limit kept to a chunk, records arrive, label and log line clean, with passwords that end in an ellipsis |
| `poll_loop` | 7 intervals around a cap of 12, 6 polls | `StartToStart`: the delay between two starts is the documented backoff, after any sequence of results |
| `exporter` | 1 virtualserver, 1 field, 2 polls, 2 signals | `CleanStop`, `OnlyStartupFails`, `StopsWhenAsked` |
| `command_line` | up to 3 arguments out of 16, 3 sets of known passwords | `PasswordsCensored`: no password in what is printed; `OnlyOptionsShown`: an error shows the option it is about, and no stray value |
| `healthcheck` | 5 processes, every wrapper, 3 environments, 7 argument lists | `HealthyWhenServing`, `PasswordsHidden`, `OverriddenReported` |
| `password_printed` (refuted) | the same | the second scan finds an exporter whose password the first one never saw, and the port that is it is printed |
| `release` | 2 versions and an odd tag, changelogs of up to 6 blocks, 2 runs per tag, 2 registries | `NotesStandalone`, `LinkBlockDropped`, `RefusedForCause`, `PublishedHonest`, `VersionsImmutable` |

**Why the bounds are enough.** Three polls are one to fill the table, one to fail
or change it, one to come back; what is remembered from a poll is only compared
with the next. Two labels and three names give a shared, a cut, a renamed and a
missing name. Two fields distinguish "all missing" from "one missing" and make
the field-by-field write tear. The session's numbers keep the inequalities of the
real ones (timeout < budget < maximum) and let a flood wait fit, just not fit and
not fit at all. A chunk of three characters splits a terminator and holds the end
of one line and the start of the next. Six polls pass the number of doublings
that reach the cap from an interval of 1. Five pids hold a wrapper, an exporter,
its restart, a second exporter and the check. `paced_host` is not scaled: 150
virtualservers are the code's own example, 170 reach the longest budget. Three
arguments are a mistyped flag, its value and a flag behind the point where
argparse stopped. Six blocks are two headings, a paragraph, its definition, a
second one, and a fence anywhere; two runs are one that breaks and the next.

The bounds are constants named in the configurations: `MaxPolls`, `MaxSignals`,
`MaxPid`, `MaxReceived` (`MAX_SESSION_BYTES` counted in reads), `Iterations`,
`MAX_LINE_BYTES`, `MAX_SESSION_BYTES`, `MAX_LABEL_LENGTH`, `ChunkSize`,
`MaxArgs`, `MaxBlocks`, `MaxAttempts`. Deadlock is checked everywhere but in the
health check's runs, which end when the check is done or an exporter that is
PID 1 cannot start, and in `release`, which ends when every tag is released or
given up; the other specifications have a `Done` step for the states where the
program has ended. `release` takes references and targets as symmetric: no
definition names one of them.

**Fairness.** `PollService` assumes weak fairness of the polling thread: a client
call is a blocking call that returns or raises, which is the fairness of
`ClientContract`, and that is what `ServerQuerySession` shows (`KeepsContract`)
under weak fairness of its own steps, that is, of sockets with a timeout and a
sleep that ends. `PacedHost` assumes the same. `Exporter` assumes it of the main
thread for the same reason, and none of signals. `PollLoop` assumes that `sleep`
returns. Everything else (the scrape, the network's cuts, the command line, the
health check, the release) has safety properties only and no fairness.

**The host of `paced_host`** is no part of the repository; it is the one
`tests/fake_ts3_server.py` (`_FloodGuard`) stands for, with a liberty it leaves
open: the wait it tells is rounded up or down.

## What the code does otherwise than documented

Two claims of the repository are refuted by a run of their own:

1. `serverquery.py:183` (`deadline_overrun`): `sendall` runs with whatever timeout
   the last read set, so a session whose write blocks outlives its deadline by up to
   that timeout. Reads and flood waits never do (`OnlyWritesOverrun`, also proved).
2. `healthcheck.py:213` (`password_printed`): the passwords to censor come from one
   scan of `/proc`, the port from a second one. A wrapper that becomes the exporter
   in between is known to the second scan only; if its port is its password, the port
   is printed, although `healthcheck.py:19` says that every password given to the
   exporter is censored. The passwords of the container's configuration and of the
   exporter that ran during the first scan are censored whatever the second one finds
   (`PasswordsHidden`, also proved).

Four more are refuted by an exception that a property has to make. Each property
below holds with its exception, and TLC reports a trace as soon as the exception is
taken out of it:

3. `service.py:229`: a virtualserver that stopped and then was missing from one
   `serverlist` is forgotten without a line, so nothing is logged when it is listed
   online again. The log's last word is that it is offline, although `service.py:214`
   says "Log once when a virtualserver stops or starts being online". `StatusLogged`
   excepts what is in `lapsed`.
4. `serverquery.py:99`-`102`, `service.py:127`-`128`: a signal that arrives after the
   socket was opened and before the `try` around it leaves it to the interpreter or
   the kernel; no `finally` closes it, as `main.py:40` has it. `CleanStop` excepts
   `Unguarded`, and `Closing`, where a signal cuts the closing itself short.
5. `metrics.py:199`: the ellipsis of a label that is cut comes after `redact`, so the
   label can end in a password that itself ends in `…`, against
   `docs/architecture.md:214`-`223`. `LabelClean` excepts what is `MadeByCut`.
6. `healthcheck.py:83`: a shell's `-c` text that ends in a path to `app.py` has
   that as its last path component, so the shell is taken for the exporter and its
   environment for the exporter's, against `tests/test_healthcheck.py:87`-`88`.
   `HealthyWhenServing` and `PasswordsHidden` except what is `Mistakable`.

Smaller observations, which have no run of their own because the properties that
hold are stated around them:

* `metrics.py:167`: a child of a gauge is visible at 0 before its value is set, so
  a scrape that meets the write may show a 0 nobody sent (`ScrapeBelongs` allows
  just that).
* `serverquery.py:199`: the length of a line is tested before a chunk is added, so
  a line up to one chunk above `MAX_LINE_BYTES` is accepted if that chunk ends it
  (`LineLimit`).
* `decode_record` strips white space that the wire does not escape (a no-break
  space) from the end of a record's last value (`Trimmed` in `LineReader`).
* A signal between `handle_termination()` and the `try` of `main`, or in its
  `except` clause, ends the process with a traceback (`Escapes` in `Exporter`), and
  one before the handler is installed as the kernel has it (`Unhandled`). No
  property asks for more: `StopsWhenAsked` is about that it ends, not how.
* `changelog_section.py:167`: in the changelog the first definition of a reference
  is in effect, in the notes the section's own one. Where an earlier section defines
  the same reference, the two differ; `tests/test_release_notes.py:153` wants that,
  and `Shadowed` in `Release` makes it the one exception to "the same targets".
* `changelog_section.py:139`: of two definitions of one reference at the end of
  the last section, both are found superfluous when tried one at a time and both
  are dropped; the section is then refused for a link whose definition it had
  (second disjunct of `RefusedForCause`). Nothing wrong is published. That a good
  section is never refused is therefore not among the properties.
* `release.yml`: runs of two tags are not serialised, so `latest` may end at the
  older one, or differ between the registries; `VersionsImmutable` and
  `PublishedHonest` are about what does not depend on the order.

## What is proved

TLAPS checks these for every value of the constants that satisfies the named
assumptions of the modules: a positive number of fields, `None` outside the data
sets, answers within their record types; timeouts and budgets natural numbers with
the budget at most the maximum; a throttling window no longer than the longest
wait the client honours, and at least the three retries it has; environments and
argument lists that are ones; passwords that are texts, and some printable
character in none of them, where the code has every one from U+2580 on. TLC
evaluates the same assumptions for the instances it checks.

**The poll service** (`ExporterProofs`)

* `TypeCorrect`: `Spec => []TypeOK`. The invariant adds two facts TLC never needed
  to be told: `serverinfo` answers for a listed virtualserver, and a failed poll
  has a reason (`PhaseOK`). One lemma per group of variables, and `Frames` says
  which actions touch which group.
* `SnapshotCorrect`: `Spec => []SnapshotWhole`, for every host, any number of
  fields, names and polls, and failures anywhere. `SnapshotWhole` speaks of the
  time between two writes only and is not inductive: nothing in it says how far
  a write has come. `SnapshotInv` adds `RecordInv` (every cell but the one under
  the cursor is what the readings written so far make it), `ForgetInv` (names
  read are complete, names neither read nor waiting to be forgotten are gone) and
  `RestInv` (cursors at rest; the known names are those of the last session).
  The step from `RecordInv` to `ForgetInv` is where a name known before but not
  read becomes one to forget, and the end of `ForgetInv` is `SnapshotWhole` again.
* `AppliedCorrect`, `FiledCorrect`, `MemoryCorrect`, `SelfMetricsCorrect` and
  `ClosedCorrect`: `AppliedComplete`, `ReadingsBelong`, `MemoryBounded`,
  `SelfMetricsAgree` and `SessionClosed`. The
  first needs that everything behind the cursor of `_read` was read as long as the
  session is "OK" (`AppliedInv`), the second that `serverinfo` is asked only after a
  `use` of the same virtualserver (`FiledInv`), the third what the memory may hold
  in the middle of a write (`MemoryInv`, and `SnapshotInv` for the names with a
  series), the fourth that the counters only grow during a poll (`CountedInv`).
* `WarnedCorrect` and `StatusCorrect`: `WarnedExactlyOnce` and `StatusLogged`. The
  histories of the log are tied to the service's memory (`Remembered`,
  `Followed`), and the memory to the recorded session until `Report` moves it to
  the session being written; the log's last line about a virtualserver that runs may
  say that it stopped only if it is in `lapsed`. `StatusCorrect` has a hypothesis, `UniqueIds`: no
  listing names an id twice. With an id listed twice, under two statuses, the last
  line can only be about one of them.
* `TableKept` and `CallsKept`: every behaviour of `Spec` satisfies `Promise!Spec`
  and `Contract!Spec`. The first rests on `SnapshotInv` and on `Table`, a table as a
  value, being what `Holds` says cell by cell (`HeldIsTable`; the last reading of a
  name exists by well-founded induction). The second counts the virtualservers
  still to be asked about.
* `ScrapeWholeCorrect`, `ScrapeContinuityCorrect`, `ScrapeBelongsCorrect`: all three
  properties of `Scrape`, for any number of fields, polls and scrapes. `CellInv`
  says of each single cell, at every step of a write, whether it shows the old
  session or the new one, and that it is emptied only if the new one has nothing
  for it; `ScrapeInv` says the same of what was collected, relative to the tables
  the scrape has met.
* `CleanStopCorrect`, `OnlyStartupFailsCorrect`: `LifeInv` is how far `main` can be
  with which signals, `StopInv` where a process struck once is on its way out, and
  whether a `try` statement around its socket is still to close it.

**The client's session** (`ServerQuerySessionProofs`)

* `OnlyWritesOverrunProved`, `DeadlineCappedProved`, `EndsByDeadlineProved`,
  `OutcomeCorrect` and `ContractKept`, for all timeouts, budgets and retries and
  every host. The first three rest on what a read or a wait may add to the clock
  (`Waiting`), what a write may (`Writing`), and how the deadline moves
  (`Growing`); `OutcomeCorrect` on the order of the verdicts (`VerdictInv`).
  `ContractKept` and `CallsKept` are the two sides of `ClientContract`: what one may
  do is what the other expects.
* `RetriesSufficeProved`: `PacedSpec => []RetriesSuffice`. `PaceInv` follows for
  how long the oldest command still fills the window (`Rest`): the first wait leaves
  less than a second of that, however the host rounds what it tells, and the second
  one, of a second at least, nothing. A third refusal is impossible.

**The poll loop** (`PollLoopProofs`)

* `SpacingCorrect`: `Spec => []StartToStart` for every interval and cap. The code
  computes the doublings with a logarithm and scales once; the property doubles step
  by step and caps each time. That the two agree (`next_delay` and `Doubled`) is
  shown by well-founded induction over the failures, with powers of two
  unbounded and the cap reached after `Needed` of them.

**The health check** (`HealthcheckProofs`)

* `TypeCorrect`: `Spec => []TypeOK`, with the ports every exporter binds and the
  check resolves. `ContainerInv` is what a process can be: which process becomes an
  exporter, and that a configuration that was accepted is still the one its
  arguments and environment give.
* `WarnedExactly`: `OverriddenReported` from the same invariant and what
  `overridden_flags` computes (`OverriddenMatters`).
* `ServingIsHealthy`: `HealthyWhenServing`. `Followed` says of each file the check has
  yet to read or has read what it can still find there: the exporter that runs before
  every other one is listed, and everything below its pid is no exporter by its
  arguments (`Ahead`), whatever the container does (`AheadStays`).
* `OutputCensored`: `PasswordsHidden`. The first scan finds the exporter that ran all
  through it (`Heard`), so its passwords are in the list; nothing is said of the
  exporter the second scan finds, which need not be the same one, nor need the first
  one still be there.

**Texts** (`RedactionProofs`, `CommandLineProofs`, `LineReaderProofs`)

* `NoneLeft`: no secret is in what `redact` returns, for every text and every set of
  secrets, as `redaction.py:32` says ("provably cannot contain or re-form one").
  `Rewritten` is a recursion over places; `PassDefined` shows that it has a
  solution and `CensoredPass` what it is at each place: copied, where no secret
  occurs, or the marker. An occurrence in the result cannot touch a marker foreign
  to it, so it lies in a stretch that was copied, and there the pass would have
  found it (`CensoredClean`).
* `Uncovered`: `Spec => []PasswordsCensored`. `ParserInv` says that all that has been
  printed went through `redact` with the passwords known and those `option_values`
  found; `PasswordsSecret` that these are all a command line can hold.
* `RoundTrip`: `unescape(escape(v)) = v` for every text. After the first `k` of the
  replacements each character is spelled as an escape or by itself (`Spelled`), and
  the next replacement touches neither the backslashes nor the letters that are
  there (`SpellingStep`): the backslash goes first, and no other raw character but
  the slash, whose turn it is, is a letter. `EscapeDelimits`: what is left holds
  none of the characters that end an entry, a record or a line.
* `Lines`: `Spec => []LinesWhole`. `FrameInv` keeps the place in the stream where the
  buffer begins (`Placed`): the first terminator of the buffer is then the next one
  of the stream, also when it arrived in two pieces.
* `Limits`: `Spec => []LineLimit`.
* `Arrives`: `Spec => []AnswerArrives`. `JoinedLayout` gives each part of a joined text
  its place and the separator before it, `SplitLayout` that splitting finds the parts
  again if none of them holds the separator, which is what `EscapeDelimits` says of
  the values and `AnswersAssumption` of the names. `strip()` can only shorten the
  last value (`StripLayout`), and takes there what it would take from the value
  itself (`TrimmedTrip`); so `decode_record` reads each record (`RecordArrives`). The
  lines around it are told apart (`KindsTold`), and `Lines` makes them the lines read
  (`LinesTold`). `HeardInv` is the invariant: nothing, or the one line of records.
* `Labels`, `LogLines`: `LabelClean`, `LogLineClean`, from `NoneLeft` by way of the
  characters each text is made of: those a record can decode to (`DecodeType`),
  those that escaping leaves (`EscapedType`). Cutting can make up no password but
  one that ends in the ellipsis, at the end of the label (`CutClean`).

**The release** (`ReleaseProofs`)

* `VersionsLast`: `VersionsImmutable` for any number of versions, overlapping runs,
  failures and re-runs. `ImageInv` is what makes it so: a version's reference shows
  the image of the present run, and a new run starts only where there is none.
* `NotesAlone`: `Spec => []NotesStandalone`, for changelogs of any length. Whether a
  block is visible depends on the number of fences before it. A section begins behind
  a visible heading, so that number is even there (`BodyIs`, `FencesShift`, `Parity`)
  and the section shows what the changelog shows of it. The links of a document are
  those it has itself and those it borrows (`LinksAre`); no broken link means that
  nothing is borrowed. For the last section, `Trims` says what
  `without_the_link_block` leaves: the blocks up to the cut, and of the definitions
  behind it those that `Kept` names. These are the first of their reference, so what
  the notes define has the target it had (`TrimsDefined`). That this target is the
  changelog's, but for shadowed references, is `OwnDestinations`: a definition the
  section has and no earlier one is the first of the changelog too.
* `LinkBlockTrimmed`: `Spec => []LinkBlockDropped`. The code tries each definition with
  all the others in place and keeps those that matter there. `Needless` says which do
  not: one whose reference is not used, or that is not the first of it. So a kept one
  is the first and the only one in the notes, and taking it out loses a link
  (`KeptNeeded`).
* `RefusalsJustified`: `Spec => []RefusedForCause`. A reference that the section uses
  and defines can be missing from the notes only if the definition behind the cut
  that is the first was superfluous; then another one took its place when it was left
  out (`DefinedTwice`).
* `PublishedCorrect`: `Spec => []PublishedHonest`, with `NotesAlone` for the notes of
  what is published. `StageInv` says what a run has behind it at every step,
  `ShownInv` what any reference shows, also one that moves and also after the run
  broke off.

None of these needs induction over a document: all that is said of a place is said
of the blocks up to it, and what is kept is written by its ranks (`At` and `Only` in
`Changelog`: the k-th is the one with k up to it, `Ranks`), because the provers do
not know the library's sort.

**Only model-checked.** Whatever needs fairness (`KeepsContract` and
`ImplementsSnapshot` beyond their steps, which `ContractKept`, `CallsKept` and
`TableKept` prove; `StopsWhenAsked`, `ReadCompletely`), which is outside this prover's
reach. And `OnlyOptionsShown`, which is a property of actual texts and not of all of
them: an argument that is a word of argparse's own messages, or the marker, is shown.

## Not modelled

* The poll duration gauge, help texts and build info: no other state depends on
  them.
* Clusters of single-dash options, `--` and arguments with white space on the
  command line; tracebacks and ill-formed format strings in the log filter; the
  set-up of logging. They are string formatting without state, and a model of
  them would be a second implementation of a library.
* In the release workflow: the manual run that only builds, the Docker Hub
  description, building the image itself.
* Entry points, packaging, dashboards; the tests and the fake server, except as
  the description of a throttling host.
* Memory of the host across sessions: two sessions share no state in the client;
  `PacedHost` starts with what an earlier poll left in the window.

## Assumptions of the models

* A flood wait and a read take integer time; `time.sleep` may be late but never
  early.
* A scrape collects one gauge atomically: `prometheus_client` copies a gauge's
  children under its lock.
* The logarithm of `next_delay` is exact: that rounding cannot add or lose a doubling
  is not checked.
* A host's answer is at least one record of at least one field, and the names of
  fields are ServerQuery's: not empty, without white space, `=` or `|`, and without
  the words `error` and `notify` that lines are told apart by (`AnswersAssumption`).
  The values are arbitrary.
* The health check can read `/proc/<pid>/environ` of a process that is there: it
  runs as the same user. A password in the printed line is a whole port number.
* A container ends with its PID 1, and the check with it.
* `markdown-it-py` follows CommonMark in what `Changelog` uses of it: an unclosed
  fence runs to the end of its container, the first definition of a reference is
  the one in effect, a reference nothing defines is text.
* Maintainers do after a failure what `docs/releasing.md` says: run again before
  the first push, finish by hand after it.

## Plan

The components are in this order, the most important first: the poll service with
its table, its scrape and its log; the client's session, its host and the contract
between the two; the process and its loop; bytes and names; the command line and
the configuration; the health check; the release.

What is left is what the prover cannot do: the properties that need fairness are
checked on the instances above.
