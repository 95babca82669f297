------------------------------- MODULE Scrape -------------------------------
(***************************************************************************)
(* The polling thread together with a Prometheus scrape.  The HTTP server  *)
(* of prometheus_client (start_http_server, main.py) answers a scrape in a *)
(* thread of its own and collects the registered gauges one after another, *)
(* in the order of their registration: the contract gauges of              *)
(* build_gauges, then missing_fields.  Only the collection of one gauge is *)
(* atomic with respect to the polling thread.                              *)
(***************************************************************************)
EXTENDS PollService

VARIABLES
  scan,      \* the next column to collect; 0 when no scrape is running
  scraped,   \* the columns collected so far
  overlap,   \* history: the gauges were switching during this scrape
  sources    \* history: the readings this scrape may show parts of

scrapeVars == <<scan, scraped, overlap, sources>>
allVars == <<vars, scrapeVars>>

Nothing == [c \in Columns |-> [n \in Labels |-> None]]

\* The tables a reader can meet now: the last one and the one being written.
Current ==
  {recorded.readings} \cup (IF Switching THEN {session.readings} ELSE {})

ScrapeInit ==
  /\ Init
  /\ scan = 0 /\ scraped = Nothing /\ overlap = FALSE /\ sources = {}

\* GET /metrics arrives.
StartScrape ==
  /\ scan = 0
  /\ scan' = 1
  /\ overlap' = Switching
  /\ sources' = Current
  /\ UNCHANGED <<vars, scraped>>

\* One gauge is collected.
Collect ==
  /\ scan \in Columns
  /\ scraped' = [scraped EXCEPT ![scan] = series[scan]]
  /\ scan' = scan + 1
  /\ UNCHANGED <<vars, overlap, sources>>

\* The answer is sent.
EndScrape ==
  /\ scan = Missing + 1
  /\ scan' = 0 /\ scraped' = Nothing /\ overlap' = FALSE /\ sources' = {}
  /\ UNCHANGED vars

\* A step of the polling thread, seen by a scrape that is under way.
Poll ==
  /\ Step
  /\ overlap' = (overlap \/ (scan # 0 /\ Switching'))
  /\ sources' = IF scan = 0 THEN {} ELSE sources \cup Current'
  /\ UNCHANGED <<scan, scraped>>

ScrapeNext == StartScrape \/ Collect \/ EndScrape \/ Poll

ScrapeSpec == ScrapeInit /\ [][ScrapeNext]_allVars

-----------------------------------------------------------------------------

Collected == {c \in Columns : c < scan}

\* A scrape that meets no switch shows exactly the last completed session, also
\* while a poll is reading or failing (docs/architecture.md:163).
ScrapeWhole ==
  scan = Missing + 1 /\ ~overlap => Holds(scraped, recorded.readings)

\* What the readings of name n put into column c.
CellsOf(readings, n, c) ==
  {Cell(readings[k], c) : k \in {i \in DOMAIN readings : readings[i].name = n}}

\* Everything a scrape may legitimately show in a cell.
Said(n, c) == UNION {CellsOf(readings, n, c) : readings \in sources}

\* A series that exists in every table the scrape meets neither disappears from
\* it nor shows a number that was not read for it: a dashboard of a virtualserver
\* that keeps running has no gap and no spike.
ScrapeContinuity ==
  \A c \in Collected, n \in Labels :
    (\A readings \in sources :
        /\ CellsOf(readings, n, c) # {}
        /\ None \notin CellsOf(readings, n, c))
      => scraped[c][n] \in Said(n, c)

\* A scrape never shows under one name what was read for another one, and never
\* anything older than the tables it meets; a child that was just created is the
\* only other thing it can see, at 0.
ScrapeBelongs ==
  \A c \in Collected, n \in Labels : scraped[c][n] \in {None, 0} \cup Said(n, c)
===============================================================================
