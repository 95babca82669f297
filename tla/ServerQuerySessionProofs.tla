---------------------- MODULE ServerQuerySessionProofs ----------------------
(***************************************************************************)
(* The deadline of a ServerQuery session, its outcome and its side of the  *)
(* contract, for every timeout, budget and retry count, and for every      *)
(* host; and its flood retries against a host that throttles.              *)
(***************************************************************************)
EXTENDS PacedHost, WellFoundedInduction, TLAPS

\* What the clock arguments need to know of the state.
ClockType ==
  /\ blocking \in BOOLEAN
  /\ now \in Nat /\ deadline \in Nat
  /\ timeout \in 1..T
  /\ deadline <= MaxBudget

LEMMA FloodWaitNat ==
  ASSUME NEW n \in Nat PROVE FloodWait(n) \in Nat
<1> DEFINE seconds == Greater(n, 1)
<1>1. seconds \in Nat
  BY DEF Greater
<1>2. seconds * Second \in Nat
  BY <1>1, TimeoutAssumption
<1>3. QED
  BY <1>2, FloodAssumption DEF FloodWait, Lesser

\* Reads stop at the deadline, flood waits before it.
LEMMA Waiting ==
  ASSUME ClockType, Step, ~(pc \in {"send", "close"})
  PROVE  /\ now' \in Nat /\ now <= now'
         /\ now' = now \/ now' <= deadline
         /\ timeout' \in 1..T
<1> USE TimeoutAssumption, FloodAssumption, HostAssumption DEF ClockType
<1>1. CASE Recv \/ RecvFails
  BY <1>1 DEF Recv, RecvAfter, RecvFails, ReadTimeout, Remaining, Lesser
<1>2. CASE Flooded
  <2>1. PICK n \in Waits : FloodedFor(n)
    BY <1>2 DEF Flooded
  <2>2. FloodWait(n) \in Nat
    BY FloodWaitNat, <2>1
  <2>3. QED
    BY <2>1, <2>2 DEF FloodedFor, FitsBudget, Line
<1>3. CASE OutOfTime \/ Greet \/ Welcome \/ Skip \/ Succeed \/ Refused
  BY <1>3 DEF OutOfTime, Greet, Welcome, Skip, Succeed, Refused, Line
<1>4. QED
  BY <1>1, <1>2, <1>3 DEF Step, Send, SendFails, Close

\* A write takes what SendTime allows and leaves the rest of the clock alone.
LEMMA Writing ==
  ASSUME ClockType, Step, pc \in {"send", "close"}
  PROVE  /\ \E d \in SendTime : now' = now + d
         /\ timeout' = timeout /\ deadline' = deadline
<1>1. CASE Send \/ SendFails \/ Close
  BY <1>1 DEF Send, SendFails, Close
<1>2. QED
  BY <1>1 DEF Step, OutOfTime, MustRead, Recv, RecvAfter, RecvFails, Greet, Welcome, Skip,
              Succeed, Flooded, FloodedFor, Refused, Line

\* The deadline moves only when serverlist is answered: forward, up to the cap.
LEMMA Growing ==
  ASSUME ClockType, Step
  PROVE  \/ deadline' = deadline
         \/ /\ cmd = "serverlist" /\ deadline' \in Nat
            /\ deadline < deadline' /\ deadline' <= MaxBudget
<1> USE TimeoutAssumption, HostAssumption DEF ClockType
<1>1. CASE Succeed
  <2>1. CASE cmd = "serverlist"
    <3>1. PICK online \in Online :
            deadline' = Grown(online)
      BY <1>1, <2>1 DEF Succeed
    <3>2. online * PerServer \in Nat
      OBVIOUS
    <3>3. QED
      BY <2>1, <3>1, <3>2 DEF Grown, Lesser
  <2>2. CASE cmd # "serverlist"
    BY <1>1, <2>2 DEF Succeed
  <2>3. QED
    BY <2>1, <2>2
<1>2. CASE ~Succeed
  BY <1>2 DEF Step, Send, SendFails, OutOfTime, Recv, RecvAfter, RecvFails, Greet, Welcome,
              Skip, Flooded, FloodedFor, Refused, Close
<1>3. QED
  BY <1>1, <1>2

\* Whether writes block is settled when the session starts.
LEMMA Settled == Step => blocking' = blocking
BY DEF Step, Send, SendFails, OutOfTime, Recv, RecvAfter, RecvFails, Greet, Welcome, Skip,
       Succeed, Flooded, FloodedFor, Refused, Close, Line

LEMMA SendTimeNat == SendTime \subseteq Nat
BY HostAssumption DEF SendTime

LEMMA ClockInit == Init => ClockType /\ EndsByDeadline
BY TimeoutAssumption DEF Init, ClockType, EndsByDeadline

LEMMA ClockNext == ClockType /\ [Next]_vars => ClockType'
<1> SUFFICES ASSUME ClockType, [Next]_vars PROVE ClockType'
  OBVIOUS
<1>1. CASE Step
  <2>1. deadline' \in Nat /\ deadline' <= MaxBudget
    BY <1>1, Growing DEF ClockType
  <2>2. now' \in Nat /\ timeout' \in 1..T
    BY <1>1, Waiting, Writing, SendTimeNat DEF ClockType
  <2>3. QED
    BY <1>1, <2>1, <2>2, Settled DEF ClockType
<1>2. CASE UNCHANGED vars
  BY <1>2 DEF vars, ClockType
<1>3. QED
  BY <1>1, <1>2 DEF Next, Done

\* The session budget holds against every host: neither a read nor a flood wait
\* crosses the deadline, only a blocked write can.
THEOREM OnlyWritesOverrunProved == Spec => OnlyWritesOverrun
<1>1. ClockType /\ [Next]_vars => [now' > now /\ now' > deadline' => pc \in {"send", "close"}]_vars
  <2> SUFFICES ASSUME ClockType, Step, now' > now, now' > deadline',
                      ~(pc \in {"send", "close"})
               PROVE  FALSE
    BY DEF Next, Done
  <2>1. now' \in Nat /\ now' <= deadline
    BY Waiting DEF ClockType
  <2>2. deadline' \in Nat /\ deadline <= deadline'
    BY Growing DEF ClockType
  <2>3. QED
    BY <2>1, <2>2 DEF ClockType
<1>2. QED
  BY ClockInit, ClockNext, <1>1, PTL DEF Spec, OnlyWritesOverrun

\* The budget is never shortened, never beyond MAX_SESSION_TIMEOUT_IN_SECONDS,
\* and moves for serverlist only.
THEOREM DeadlineCappedProved == Spec => DeadlineCapped
<1>1. ClockType /\ [Next]_vars =>
        [deadline' # deadline =>
           cmd = "serverlist" /\ deadline < deadline' /\ deadline' <= MaxBudget]_vars
  BY Growing DEF Next, Done
<1>2. QED
  BY ClockInit, ClockNext, <1>1, PTL DEF Spec, DeadlineCapped

\* Where writes do not block, a session is over when its deadline comes.
THEOREM EndsByDeadlineProved == Spec => []EndsByDeadline
<1>1. ClockType /\ EndsByDeadline /\ [Next]_vars => EndsByDeadline'
  <2> SUFFICES ASSUME ClockType, EndsByDeadline, [Next]_vars PROVE EndsByDeadline'
    OBVIOUS
  <2>1. CASE Step
    <3>0. SUFFICES ASSUME ~blocking PROVE now' <= deadline'
      BY <2>1, Settled DEF EndsByDeadline
    <3>1. deadline' \in Nat /\ deadline <= deadline'
      BY <2>1, Growing DEF ClockType
    <3>2. CASE pc \in {"send", "close"}
      BY <2>1, <3>0, <3>1, <3>2, Writing DEF ClockType, EndsByDeadline, SendTime
    <3>3. CASE ~(pc \in {"send", "close"})
      BY <2>1, <3>0, <3>1, <3>3, Waiting DEF ClockType, EndsByDeadline
    <3>4. QED
      BY <3>2, <3>3
  <2>2. CASE UNCHANGED vars
    BY <2>2 DEF vars, EndsByDeadline
  <2>3. QED
    BY <2>1, <2>2 DEF Next, Done
<1>2. QED
  BY ClockInit, ClockNext, <1>1, PTL DEF Spec

-----------------------------------------------------------------------------
(* The client keeps its side of the contract.                              *)

\* Nothing is raised while a call is under way.
CallInv ==
  /\ pc \in {"send", "read", "close", "closed"} /\ cmd \in Commands
  /\ left \in Nat
  /\ pc \in {"send", "read"} => outcome = "none"

LEMMA CallInit == Init => CallInv /\ Contract!Init
BY DEF Init, CallInv, Commands, Contract!Init, Phase, Greeting

LEMMA CallNext == CallInv /\ [Next]_vars => CallInv'
<1> SUFFICES ASSUME CallInv, [Next]_vars PROVE CallInv'
  OBVIOUS
<1> USE DEF CallInv, Commands
<1>1. CASE Send \/ SendFails \/ OutOfTime \/ Recv \/ RecvFails \/ Close
  BY <1>1 DEF Send, SendFails, OutOfTime, MustRead, Recv, RecvAfter, RecvFails, Close, Raise
<1>2. CASE Greet \/ Welcome \/ Skip
  BY <1>2 DEF Greet, Welcome, Skip, Line, Raise, Call
<1>3. CASE Succeed
  BY <1>3, HostAssumption DEF Succeed, Line, NextServer, Call
<1>4. CASE Flooded \/ Refused
  BY <1>4 DEF Flooded, FloodedFor, Refused, Line, Raise, NextServer, Call
<1>5. CASE UNCHANGED vars
  BY <1>5 DEF vars
<1>6. QED
  BY <1>1, <1>2, <1>3, <1>4, <1>5 DEF Next, Step, Done

\* An exception of the client is one its call may raise.
LEMMA Raising ==
  ASSUME CallInv, pc \in {"send", "read"}, NEW reason, Raise(reason),
         UNCHANGED <<cmd, left>>,
         \/ reason \in {"connection", "timeout"}
         \/ reason = "login" /\ cmd = "login"
         \/ reason = "query" /\ cmd \in {"login", "serverlist"}
  PROVE  Contract!Session
<1> USE DEF CallInv, Commands, Raise, Phase
<1>1. CASE Greeting
  BY <1>1 DEF Greeting, Contract!Session, Contract!ConnectFails
<1>2. CASE ~Greeting
  BY <1>2 DEF Greeting, Contract!Session, Contract!Raises, Contract!MayRaise, Contract!Calls
<1>3. QED
  BY <1>1, <1>2

\* Nothing the caller can see has happened.
LEMMA Unseen ==
  ASSUME CallInv, UNCHANGED <<cmd, left, outcome>>,
         pc \in {"send", "read"}, pc' \in {"send", "read"}
  PROVE  UNCHANGED Contract!contractVars
BY DEF Contract!contractVars, Phase, Greeting

\* The next virtualserver, or the end, is what the contract asks for.
LEMMA Following ==
  ASSUME CallInv, ~Greeting, pc = "read", NEW n \in Nat, NextServer(n),
         cmd \in {"serverlist", "use", "serverinfo"}
  PROVE  Contract!Ask(n)
BY DEF CallInv, NextServer, Call, Contract!Ask, Phase, Greeting

\* A successful answer returns from the call under way.
LEMMA Returning == CallInv /\ Succeed => Contract!Returns
<1> SUFFICES ASSUME CallInv, Succeed PROVE Contract!Returns
  OBVIOUS
<1>0. pc = "read" /\ ~Greeting /\ Phase = cmd
  BY DEF Succeed, Line, Phase, Greeting
<1>1. CASE cmd = "login"
  BY <1>0, <1>1 DEF Succeed, Call, Contract!Returns, Phase, Greeting
<1>2. CASE cmd = "serverlist"
  <2>1. PICK online \in Online : NextServer(online)
    BY <1>2 DEF Succeed
  <2>2. Contract!Ask(online)
    BY <1>0, <1>2, <2>1, Following, HostAssumption
  <2>3. QED
    BY <1>0, <1>2, <2>1, <2>2 DEF Contract!Returns
<1>3. CASE cmd = "use"
  BY <1>0, <1>3 DEF Succeed, Call, Contract!Returns, Phase, Greeting, CallInv
<1>4. CASE cmd = "serverinfo"
  <2>1. Contract!Ask(left)
    BY <1>0, <1>4, Following DEF Succeed, CallInv
  <2>2. QED
    BY <1>0, <1>4, <2>1 DEF Contract!Returns
<1>5. QED
  BY <1>1, <1>2, <1>3, <1>4 DEF Succeed

\* A refusal skips a virtualserver, or ends login and serverlist.
LEMMA Refusing == CallInv /\ Refused => Contract!Session
<1> SUFFICES ASSUME CallInv, Refused PROVE Contract!Session
  OBVIOUS
<1>0. pc = "read" /\ ~Greeting /\ Phase = cmd
  BY DEF Refused, Line, Phase, Greeting
<1>1. CASE cmd \in {"use", "serverinfo"}
  <2>1. Contract!Ask(left)
    BY <1>0, <1>1, Following DEF Refused, CallInv
  <2>2. QED
    BY <1>0, <1>1, <2>1 DEF Contract!Session, Contract!Skips
<1>2. CASE cmd \notin {"use", "serverinfo"}
  <2>1. PICK reason \in {"login", "query"} :
          Raise(reason) /\ (reason = "login" => cmd = "login")
    BY <1>2 DEF Refused
  <2>2. cmd \in {"login", "serverlist"} /\ UNCHANGED <<cmd, left>>
    BY <1>0, <1>2 DEF Refused, CallInv, Commands, Greeting
  <2>3. QED
    BY <1>0, <2>1, <2>2, Raising
<1>3. QED
  BY <1>1, <1>2

\* Every step of the client is a step of the contract, or none the caller sees.
LEMMA CallStep ==
  ASSUME CallInv, Step
  PROVE  Contract!Session \/ UNCHANGED Contract!contractVars
<1>1. CASE Send \/ Skip
  BY <1>1, Unseen DEF Send, Skip, Line
<1>2. CASE SendFails \/ OutOfTime \/ RecvFails
  BY <1>2, Raising DEF SendFails, OutOfTime, MustRead, RecvFails
<1>3. CASE Recv
  <2>1. PICK d \in 0..(T - 1), chunk \in Chunks : RecvAfter(d, chunk)
    BY <1>3 DEF Recv
  <2>2. CASE received' > MaxReceived
    BY <2>1, <2>2, Raising DEF RecvAfter, MustRead
  <2>3. CASE ~(received' > MaxReceived)
    BY <2>1, <2>3, Unseen DEF RecvAfter, MustRead
  <2>4. QED
    BY <2>2, <2>3
<1>4. CASE Greet
  <2>1. CASE Raise("connection") /\ cmd' = cmd
    BY <1>4, <2>1, Raising DEF Greet, Line
  <2>2. CASE cmd' = "welcome" /\ UNCHANGED <<pc, outcome>>
    BY <1>4, <2>2 DEF Greet, Line, Contract!contractVars, Phase, Greeting, CallInv
  <2>3. QED
    BY <1>4, <2>1, <2>2 DEF Greet
<1>5. CASE Welcome
  BY <1>5 DEF Welcome, Line, Call, Phase, Greeting, Contract!Session, Contract!Returns
<1>6. CASE Succeed
  BY <1>6, Returning DEF Contract!Session
<1>7. CASE Flooded
  <2>1. PICK n \in Waits : FloodedFor(n)
    BY <1>7 DEF Flooded
  <2>2. CASE Raise("timeout")
    BY <2>1, <2>2, Raising DEF FloodedFor, Line
  <2>3. CASE ~Raise("timeout")
    BY <2>1, <2>3, Unseen DEF FloodedFor, Line
  <2>4. QED
    BY <2>2, <2>3
<1>8. CASE Refused
  BY <1>8, Refusing
<1>9. CASE Close
  BY <1>9 DEF Close, Phase, Contract!Session, Contract!Closes
<1>10. QED
  BY <1>1, <1>2, <1>3, <1>4, <1>5, <1>6, <1>7, <1>8, <1>9 DEF Step

\* Whatever the host sends and whenever, the caller sees the calls of the
\* contract in their order and no exception the call under way may not raise.
THEOREM ContractKept == Spec => Contract!Spec
<1>1. CallInv /\ [Next]_vars => [Contract!Next]_Contract!contractVars
  <2> SUFFICES ASSUME CallInv, [Next]_vars
               PROVE  Contract!Next \/ UNCHANGED Contract!contractVars
    OBVIOUS
  <2>1. CASE Step
    BY <2>1, CallStep DEF Contract!Next
  <2>2. CASE UNCHANGED vars
    BY <2>2 DEF vars, Contract!contractVars, Phase, Greeting
  <2>3. QED
    BY <2>1, <2>2 DEF Next, Done
<1>2. QED
  BY CallInit, CallNext, <1>1, PTL DEF Spec, Contract!Spec
-----------------------------------------------------------------------------
(* The outcome of a session is the host's verdict.                         *)

\* The commands before the one under way were accepted, the login that is not
\* over has not been rejected, and a verdict is never forgotten.
VerdictInv ==
  /\ verdict \in [Commands -> Trailers \cup {"none"}]
  /\ cmd \in {"serverlist", "use", "serverinfo"} => verdict["login"] = "ok"
  /\ cmd \in {"use", "serverinfo"} => verdict["serverlist"] = "ok"
  /\ pc \in {"send", "read"} => verdict["login"] # "invalid"

\* What a line does to the verdicts.
LEMMA Judging ==
  ASSUME CallInv, VerdictInv, NEW kinds \in SUBSET Lines, Line(kinds)
  PROVE  /\ verdict' \in [Commands -> Trailers \cup {"none"}]
         /\ \A c \in Commands : c # cmd => verdict'[c] = verdict[c]
         /\ verdict'[cmd] = IF Head(buffer) \in Trailers THEN Head(buffer) ELSE verdict[cmd]
BY DEF CallInv, VerdictInv, Line

\* Nothing the verdicts speak about moves.
LEMMA Unjudged ==
  ASSUME VerdictInv, OutcomeHonest, CallInv, UNCHANGED <<cmd, verdict>>,
         \/ outcome' = outcome /\ (pc' \in {"send", "read"} => pc \in {"send", "read"})
         \/ /\ outcome' \in {"connection", "timeout"} /\ pc \in {"send", "read"}
            /\ pc' \in {"close", "closed"}
  PROVE  VerdictInv' /\ OutcomeHonest'
BY DEF VerdictInv, OutcomeHonest, CallInv

LEMMA VerdictNext ==
  ASSUME CallInv, VerdictInv, OutcomeHonest, [Next]_vars
  PROVE  VerdictInv' /\ OutcomeHonest'
<1> USE DEF Commands
<1>1. CASE Send \/ SendFails \/ Close
  BY <1>1, Unjudged DEF Send, SendFails, Close, Raise
<1>2. CASE OutOfTime \/ RecvFails
  BY <1>2, Unjudged DEF OutOfTime, RecvFails, MustRead, Raise
<1>3. CASE Recv
  <2>1. PICK d \in 0..(T - 1), chunk \in Chunks : RecvAfter(d, chunk)
    BY <1>3 DEF Recv
  <2>2. pc = "read" /\ UNCHANGED <<cmd, verdict>>
    BY <2>1 DEF RecvAfter, MustRead
  <2>3. UNCHANGED <<pc, outcome>> \/ Raise("connection")
    BY <2>1 DEF RecvAfter
  <2>4. QED
    BY <2>2, <2>3, Unjudged DEF Raise
<1>4. CASE Greet \/ Welcome
  <2>1. PICK kinds \in SUBSET Lines : Line(kinds)
    <3>1. {"TS3"} \in SUBSET Lines /\ Lines \ {"TS3"} \in SUBSET Lines /\ Lines \in SUBSET Lines
      BY DEF Lines
    <3>2. QED
      BY <1>4, <3>1 DEF Greet, Welcome
  <2>2. /\ cmd \in {"TS3", "welcome"} /\ pc = "read"
        /\ cmd' \in {"TS3", "welcome", "login"}
        /\ outcome' \in {outcome, "connection"}
    BY <1>4, <2>1 DEF Greet, Welcome, Call, Raise, Line
  <2>3. verdict'["login"] = verdict["login"]
    BY <2>1, <2>2, Judging
  <2>4. verdict' \in [Commands -> Trailers \cup {"none"}]
    BY <2>1, Judging
  <2>5. QED
    BY <2>2, <2>3, <2>4 DEF VerdictInv, OutcomeHonest, CallInv
<1>5. CASE Skip
  <2>1. Line(Lines \ Trailers) /\ Lines \ Trailers \in SUBSET Lines
    BY <1>5 DEF Skip
  <2>2. verdict' = verdict
    BY <2>1 DEF Line
  <2>3. QED
    BY <1>5, <2>2, Unjudged DEF Skip
<1>6. CASE Succeed
  <2>1. /\ pc = "read" /\ cmd \in {"login", "serverlist", "use", "serverinfo"}
        /\ Line({"ok"}) /\ {"ok"} \in SUBSET Lines /\ Head(buffer) = "ok"
    BY <1>6 DEF Succeed, Success, Line, Lines, Trailers
  <2>2. /\ verdict' \in [Commands -> Trailers \cup {"none"}]
        /\ \A c \in Commands : c # cmd => verdict'[c] = verdict[c]
        /\ verdict'[cmd] = "ok"
    BY <2>1, Judging DEF Trailers
  <2>3. \/ cmd = "login" /\ cmd' = "serverlist" /\ outcome' = outcome
        \/ cmd \in {"serverlist", "use", "serverinfo"} /\ cmd' \in {cmd, "use", "serverinfo"}
             /\ outcome' \in {outcome, "ok"}
    BY <1>6 DEF Succeed, Call, NextServer
  <2>4. QED
    BY <2>1, <2>2, <2>3 DEF VerdictInv, OutcomeHonest, CallInv
<1>7. CASE Flooded
  <2>1. PICK n \in Waits : FloodedFor(n)
    BY <1>7 DEF Flooded
  <2>2. /\ pc = "read" /\ Line({"flood"}) /\ {"flood"} \in SUBSET Lines
        /\ Head(buffer) = "flood" /\ cmd' = cmd /\ outcome' \in {outcome, "timeout"}
        /\ cmd \in {"login", "serverlist", "use", "serverinfo"}
    BY <2>1 DEF FloodedFor, Line, Lines, Trailers, Raise, Greeting, CallInv
  <2>3. /\ verdict' \in [Commands -> Trailers \cup {"none"}]
        /\ \A c \in Commands : c # cmd => verdict'[c] = verdict[c]
        /\ verdict'[cmd] = "flood"
    BY <2>2, Judging DEF Trailers
  <2>4. QED
    BY <2>2, <2>3 DEF VerdictInv, OutcomeHonest, CallInv
<1>8. CASE Refused
  <2>1. /\ pc = "read" /\ cmd \in {"login", "serverlist", "use", "serverinfo"}
        /\ \E kinds \in SUBSET Lines : Line(kinds)
        /\ Head(buffer) \in {"invalid", "other", "malformed", "flood"}
    BY <1>8 DEF Refused, Line, Lines, Trailers, Greeting, CallInv
  <2>2. /\ verdict' \in [Commands -> Trailers \cup {"none"}]
        /\ \A c \in Commands : c # cmd => verdict'[c] = verdict[c]
        /\ verdict'[cmd] = Head(buffer)
    BY <2>1, Judging DEF Trailers
  <2>3. CASE cmd \in {"use", "serverinfo"}
    BY <1>8, <2>1, <2>2, <2>3 DEF Refused, NextServer, Call, VerdictInv, OutcomeHonest, CallInv
  <2>4. CASE cmd \in {"login", "serverlist"}
    BY <1>8, <2>1, <2>2, <2>4 DEF Refused, Raise, Greeting, VerdictInv, OutcomeHonest, CallInv
  <2>5. QED
    BY <2>1, <2>3, <2>4
<1>9. CASE UNCHANGED vars
  BY <1>9 DEF vars, VerdictInv, OutcomeHonest
<1>10. QED
  BY <1>1, <1>2, <1>3, <1>4, <1>5, <1>6, <1>7, <1>8, <1>9 DEF Next, Step, Done

\* For every host, in whatever order its lines arrive: the login reason means the
\* host rejected the login, success means it accepted login and serverlist.
THEOREM OutcomeCorrect == Spec => []OutcomeHonest
<1>1. Init => VerdictInv /\ OutcomeHonest
  BY DEF Init, VerdictInv, OutcomeHonest, Commands
<1>2. QED
  BY CallInit, CallNext, VerdictNext, <1>1, PTL DEF Spec

-----------------------------------------------------------------------------
(* A host that throttles (module PacedHost).                               *)

\* A set of numbers has a least one.
LEMMA LeastExists ==
  ASSUME NEW S, S \subseteq Nat, S # {}
  PROVE  Min(S) \in S /\ \A i \in S : Min(S) <= i
<1>1. PICK m \in S : \A i \in S : ~(<<i, m>> \in OpToRel(<, Nat))
  <2>1. \A R, U, V : IsWellFoundedOn(R, U) /\ V \subseteq U /\ V # {} =>
          \E x \in V : \A y \in V : ~(<<y, x>> \in R)
    BY WFMin
  <2>2. QED
    BY <2>1, NatLessThanWellFounded
<1>2. \A i \in S : m <= i
  <2>1. \A i \in S : ~(i < m)
    BY <1>1 DEF OpToRel
  <2>2. QED
    BY <2>1
<1>3. QED
  BY <1>2 DEF Min

\* What is left of the window once the oldest command has left it.
Rest == accepted[1] + Window - now

HostType ==
  /\ blocking = FALSE /\ now \in Nat /\ latency \in Nat
  /\ accepted \in Seq(Nat) /\ Len(accepted) <= Allowance
  /\ \A i \in DOMAIN accepted : accepted[i] <= now
  /\ told \in Nat \cup {-1}

\* The times still in the window are the last ones, from the first of them on.
LEMMA WindowShrinks ==
  ASSUME HostType
  PROVE  /\ InWindow \in Seq(Nat) /\ Len(InWindow) <= Len(accepted)
         /\ \A i \in DOMAIN InWindow : InWindow[i] <= now
         /\ InWindow # <<>> => now - InWindow[1] < Window
         /\ Len(InWindow) = Len(accepted) => InWindow = accepted
         /\ accepted # <<>> /\ Rest <= 0 => Len(InWindow) < Len(accepted)
<1>0. /\ now \in Nat /\ accepted \in Seq(Nat) /\ Len(accepted) \in Nat
      /\ \A i \in DOMAIN accepted : accepted[i] \in Nat /\ accepted[i] <= now
  BY DEF HostType
<1> DEFINE kept == {i \in DOMAIN accepted : now - accepted[i] < Window} \cup {Len(accepted) + 1}
           first == Min(kept)
<1>1. first \in kept /\ first \in 1..(Len(accepted) + 1)
  <2>1. kept \subseteq Nat /\ kept # {} /\ kept \subseteq 1..(Len(accepted) + 1)
    BY <1>0
  <2> HIDE DEF kept
  <2>2. QED
    BY <2>1, LeastExists
<1>2. InWindow = SubSeq(accepted, first, Len(accepted))
  BY DEF InWindow
<1> HIDE DEF first, kept
<1>3. /\ InWindow \in Seq(Nat) /\ Len(InWindow) = Len(accepted) - first + 1
      /\ \A i \in 1..Len(InWindow) : InWindow[i] = accepted[first + i - 1]
  <2>1. first - 1 \in Nat /\ first \in 1..(Len(accepted) + 1)
    BY <1>0, <1>1
  <2>2. /\ Len(InWindow) = Len(accepted) - first + 1
        /\ \A i \in 1..Len(InWindow) : InWindow[i] = accepted[first + i - 1]
    BY <1>0, <1>2, <2>1
  <2>3. InWindow \in Seq(Nat)
    BY <1>0, <1>2, <2>1
  <2>4. QED
    BY <2>2, <2>3
<1>4. ASSUME NEW i \in DOMAIN InWindow PROVE InWindow[i] <= now
  <2>1. i \in 1..Len(InWindow) /\ first + i - 1 \in DOMAIN accepted
    <3>1. i \in 1..Len(InWindow) /\ i \in Nat \ {0}
      BY <1>3
    <3>2. QED
      BY <1>0, <1>1, <1>3, <3>1
  <2>2. QED
    BY <1>0, <1>3, <2>1
<1>5. ASSUME InWindow # <<>> PROVE now - InWindow[1] < Window
  <2>1. first \in DOMAIN accepted /\ InWindow[1] = accepted[first]
    <3>1. Len(InWindow) \in Nat \ {0}
      BY <1>3, <1>5
    <3>2. first \in Nat /\ first <= Len(accepted) /\ first >= 1
      BY <1>0, <1>1, <1>3, <3>1
    <3>3. 1 \in 1..Len(InWindow) /\ first + 1 - 1 = first
      BY <3>1, <3>2
    <3>4. InWindow[1] = accepted[first]
      BY <1>3, <3>3
    <3>5. QED
      BY <1>0, <3>2, <3>4
  <2>2. QED
    BY <1>0, <1>1, <2>1 DEF kept
<1>6. ASSUME accepted # <<>>, Rest <= 0 PROVE first # 1
  BY <1>0, <1>1, <1>6, PacingAssumption DEF kept, Rest
<1>7. ASSUME Len(InWindow) = Len(accepted) PROVE InWindow = accepted
  <2>1. first = 1
    BY <1>0, <1>1, <1>3, <1>7
  <2>2. SubSeq(accepted, 1, Len(accepted)) = accepted
    BY <1>0
  <2>3. QED
    BY <1>2, <2>1, <2>2
<1>8. QED
  BY <1>0, <1>1, <1>3, <1>4, <1>5, <1>6, <1>7

\* A throttled command is told to come back when the oldest one has left the
\* window, up to a second that rounding down may cost.
LEMMA ToldEnough ==
  ASSUME NEW ticks \in Nat, NEW n \in {(ticks + Second - 1) \div Second, ticks \div Second}
  PROVE  n \in Nat /\ ticks < n * Second + Second
<1>1. Second \in Nat \ {0}
  BY TimeoutAssumption
<1>2. CASE n = ticks \div Second
  BY <1>1, <1>2
<1>3. CASE n = (ticks + Second - 1) \div Second
  <2> DEFINE upper == ticks + Second - 1
  <2>1. upper \in Nat /\ ticks <= upper
    BY <1>1
  <2>2. upper \div Second \in Nat /\ upper < (upper \div Second) * Second + Second
    BY <1>1, <2>1
  <2>3. QED
    BY <1>1, <1>3, <2>1, <2>2
<1>4. QED
  BY <1>2, <1>3

\* The exporter waits at least as long as it was told, and at least a second,
\* unless it waits longer than a window is.
LEMMA WaitsAsTold ==
  ASSUME NEW n \in Nat
  PROVE  /\ FloodWait(n) \in Nat
         /\ FloodWait(n) >= Window \/ (FloodWait(n) >= n * Second /\ FloodWait(n) >= Second)
<1> DEFINE seconds == Greater(n, 1)
<1>1. seconds \in Nat /\ (seconds = n \/ n = 0) /\ seconds >= 1
  BY DEF Greater
<1>2. Second \in Nat \ {0}
  BY TimeoutAssumption
<1>3. seconds * Second \in Nat /\ seconds * Second >= Second /\ seconds * Second >= n * Second
  <2>1. CASE seconds = n
    BY <1>1, <1>2, <2>1
  <2>2. CASE n = 0 /\ seconds # n
    BY <1>1, <1>2, <2>2
  <2>3. QED
    BY <1>1, <2>1, <2>2
<1>4. FloodWait(n) = Lesser(seconds * Second, MaxFloodWait)
  BY DEF FloodWait
<1>5. QED
  BY <1>3, <1>4, PacingAssumption, FloodAssumption DEF Lesser

\* The first wait lacks less than a second, the second one makes up for it.
Waited ==
  accepted # <<>> =>
    /\ attempt = 1 => Rest < Second
    /\ attempt = 2 => Rest <= 0

\* A refusal was told enough, and is the first or the second of its command.
Throttled ==
  /\ ~Greeting /\ attempt < 2
  /\ accepted # <<>> /\ Rest <= Window /\ Rest < told * Second + Second

\* Two waits are enough: no command is sent a fourth time, and none is refused
\* a third.
PaceInv ==
  /\ HostType
  /\ attempt \in 0..2
  /\ pc = "send" => Waited /\ ~Greeting
  /\ pc = "read" => Waited \/ told = -1
  /\ pc = "read" /\ told # -1 => Throttled
  /\ \A i \in DOMAIN buffer : buffer[i] = "flood" =>
       pc = "read" /\ told # -1 /\ buffer = <<"flood">>
  /\ buffer \in Seq(Lines)

LEMMA PaceInit == PacedInit => PaceInv
<1> SUFFICES ASSUME PacedInit PROVE PaceInv
  OBVIOUS
<1>1. PICK n \in Earlier : accepted = [i \in 1..n |-> 0]
  BY DEF PacedInit
<1>2. n \in 0..Allowance /\ n \in Nat
  BY PacingAssumption
<1>3. accepted \in Seq(Nat) /\ Len(accepted) = n /\ \A i \in DOMAIN accepted : accepted[i] = 0
  BY <1>1, <1>2
<1>4. HostType
  BY <1>2, <1>3, PacingAssumption DEF PacedInit, Init, HostType
<1>5. QED
  BY <1>4 DEF PacedInit, Init, PaceInv, Lines

\* The host decides on a command when it comes.
LEMMA PaceSend ==
  ASSUME PaceInv, PacedSend PROVE PaceInv'
<1>1. /\ pc = "send" /\ pc' = "read" /\ HostRuns
      /\ \A i \in DOMAIN buffer : buffer[i] # "flood"
      /\ UNCHANGED <<blocking, cmd, attempt, buffer, latency>>
  BY DEF PacedSend, Send, PaceInv
<1>2. now' = now /\ now \in Nat
  BY DEF PacedSend, Send, SendTime, PaceInv, HostType
<1>0. HostType
  BY DEF PaceInv
<1>3. /\ InWindow \in Seq(Nat) /\ Len(InWindow) <= Allowance
      /\ \A i \in DOMAIN InWindow : InWindow[i] <= now
  <2>1. Len(accepted) \in Nat /\ Len(accepted) <= Allowance
    BY <1>0 DEF HostType
  <2>2. QED
    BY <1>0, <2>1, WindowShrinks, PacingAssumption
<1>4. CASE Len(InWindow) < Allowance
  <2>1. accepted' = Append(InWindow, now) /\ told' = -1
    BY <1>1, <1>4 DEF HostRuns
  <2>2. /\ accepted' \in Seq(Nat) /\ Len(accepted') <= Allowance
        /\ \A i \in DOMAIN accepted' : accepted'[i] <= now
    <3>1. Len(accepted') = Len(InWindow) + 1 /\ Len(InWindow) \in Nat
      BY <1>3, <2>1
    <3>2. accepted' \in Seq(Nat)
      BY <1>2, <1>3, <2>1
    <3>3. ASSUME NEW i \in DOMAIN accepted' PROVE accepted'[i] <= now
      BY <1>2, <1>3, <2>1, <3>1, <3>3
    <3>4. QED
      BY <1>4, <3>1, <3>2, <3>3, PacingAssumption
  <2>3. HostType'
    BY <1>1, <1>2, <2>1, <2>2 DEF PaceInv, HostType
  <2>4. QED
    BY <1>1, <2>1, <2>3 DEF PaceInv
<1>5. CASE ~(Len(InWindow) < Allowance)
  <2> DEFINE ticks == InWindow[1] + Window - now
  <2>1. accepted' = InWindow /\ told' \in WaitNeeded
    BY <1>1, <1>5 DEF HostRuns
  <2>2. InWindow # <<>> /\ InWindow[1] \in Nat /\ InWindow[1] <= now
    BY <1>3, <1>5, PacingAssumption
  <2>3. ticks \in Nat /\ ticks <= Window /\ Rest' = ticks
    <3>1. now - InWindow[1] < Window /\ now \in Nat
      BY <1>0, <2>2, WindowShrinks DEF HostType
    <3>2. QED
      BY <1>2, <2>1, <2>2, <3>1, PacingAssumption DEF Rest
  <2>4. told' \in Nat /\ ticks < told' * Second + Second
    BY <2>1, <2>3, ToldEnough DEF WaitNeeded
  <2>5. HostType'
    BY <1>1, <1>2, <1>3, <2>1, <2>4 DEF PaceInv, HostType
  \* The window was full, so its oldest command has not left it.
  <2>6. InWindow = accepted /\ ~(Rest <= 0)
    <3>1. /\ Len(InWindow) \in Nat /\ Len(accepted) \in Nat /\ Len(accepted) <= Allowance
          /\ Len(InWindow) <= Len(accepted) /\ Len(InWindow) >= Allowance
      <4>1. Len(InWindow) <= Len(accepted)
        BY <1>0, WindowShrinks
      <4>2. Len(InWindow) \in Nat /\ Len(accepted) \in Nat /\ Len(accepted) <= Allowance
        BY <1>0, <1>3 DEF HostType
      <4>3. QED
        BY <1>5, <4>1, <4>2, PacingAssumption
    <3>2. Len(InWindow) = Len(accepted)
      BY <3>1, PacingAssumption
    <3>3. InWindow = accepted /\ accepted # <<>>
      BY <1>0, <2>2, <3>2, WindowShrinks
    <3>4. QED
      BY <1>0, <3>2, <3>3, WindowShrinks
  <2>7. attempt < 2
    BY <1>1, <2>2, <2>6 DEF PaceInv, Waited
  <2>8. attempt = 1 => ticks < Second
    BY <1>1, <2>2, <2>6 DEF PaceInv, Waited, Rest
  <2>9. QED
    BY <1>1, <2>1, <2>2, <2>3, <2>4, <2>5, <2>7, <2>8 DEF PaceInv, Throttled, Waited, Greeting
<1>6. QED
  BY <1>4, <1>5

\* Time passes, a refusal stays enough.
LEMMA Later ==
  ASSUME HostType, now' \in Nat, now' >= now, UNCHANGED <<blocking, latency, accepted, told>>
  PROVE  /\ HostType'
         /\ accepted # <<>> => Rest \in Int /\ Rest' \in Int /\ Rest' <= Rest
<1>1. HostType'
  BY DEF HostType
<1>2. ASSUME accepted # <<>> PROVE Rest \in Int /\ Rest' \in Int /\ Rest' <= Rest
  <2>1. accepted[1] \in Nat
    BY <1>2 DEF HostType
  <2>2. QED
    BY <2>1, PacingAssumption DEF Rest, HostType
<1>3. QED
  BY <1>1, <1>2

\* The host answers, or lets a recv time out.
LEMMA PaceRecv ==
  ASSUME PaceInv, PacedRecv PROVE PaceInv'
<1>0. HostType /\ UNCHANGED <<blocking, cmd, attempt, latency, accepted, told>>
  BY DEF PaceInv, PacedRecv, RecvAfter, RecvFails, hostVars
<1>1. pc = "read" /\ buffer = <<>> /\ now' \in Nat /\ now' >= now
  <2>1. CASE RecvAfter(latency, Reply)
    BY <1>0, <2>1 DEF RecvAfter, MustRead, HostType
  <2>2. CASE RecvFails
    BY <1>0, <2>2 DEF RecvFails, MustRead, HostType
  <2>3. QED
    BY <2>1, <2>2 DEF PacedRecv
<1>2. \/ pc' = "read" /\ buffer' = Reply
      \/ pc' \in {"close", "closed"} /\ buffer' = buffer
  BY DEF PacedRecv, RecvAfter, RecvFails, Raise, MustRead
<1>3. HostType'
  BY <1>0, <1>1, Later
<1>4. ASSUME pc' = "read" PROVE /\ Waited' \/ told' = -1
                                /\ told' # -1 => Throttled'
  <2>1. Waited \/ told = -1
    BY <1>1 DEF PaceInv
  <2>2. Waited => Waited'
    BY <1>0, <1>1, Later, TimeoutAssumption DEF Waited
  <2>3. told # -1 => Throttled'
    <3> SUFFICES ASSUME told # -1 PROVE Throttled'
      OBVIOUS
    <3>1. Throttled /\ told \in Nat
      BY <1>0, <1>1 DEF PaceInv, HostType
    <3>2. Rest \in Int /\ Rest' \in Int /\ Rest' <= Rest /\ accepted' # <<>>
      BY <1>0, <1>1, <3>1, Later DEF Throttled
    <3>3. told * Second + Second \in Int
      BY <3>1, TimeoutAssumption
    <3>4. QED
      BY <1>0, <3>1, <3>2, <3>3, PacingAssumption DEF Throttled, Greeting
  <2>4. QED
    BY <1>0, <2>1, <2>2, <2>3
<1>5. /\ Reply \in Seq(Lines)
      /\ \A i \in DOMAIN Reply : Reply[i] = "flood" => told # -1 /\ Reply = <<"flood">>
  <2>1. Reply \in {<<"TS3", "text">>, <<"other">>, <<"text", "ok">>, <<"ok">>}
        \/ (told # -1 /\ Reply = <<"flood">>)
    BY <1>0 DEF Reply, HostType
  <2>2. \A a, b \in Lines : <<a>> \in Seq(Lines) /\ <<a, b>> \in Seq(Lines)
    OBVIOUS
  <2>3. {"TS3", "text", "ok", "other", "flood"} \subseteq Lines
    BY DEF Lines, Trailers
  <2>4. Reply \in Seq(Lines)
    BY <2>1, <2>2, <2>3
  <2>5. ASSUME NEW i \in DOMAIN Reply, Reply[i] = "flood" PROVE Reply = <<"flood">>
    <3>1. CASE Reply = <<"TS3", "text">>
      BY <2>5, <3>1
    <3>2. CASE Reply = <<"text", "ok">>
      BY <2>5, <3>2
    <3>3. CASE Reply = <<"other">> \/ Reply = <<"ok">>
      BY <2>5, <3>3
    <3>4. QED
      BY <2>1, <3>1, <3>2, <3>3
  <2>6. ASSUME Reply = <<"flood">> PROVE told # -1
    BY <2>1, <2>6
  <2>7. QED
    BY <2>4, <2>5, <2>6
<1>6. QED
  BY <1>0, <1>1, <1>2, <1>3, <1>4, <1>5 DEF PaceInv

\* A flood line is the only one of its answer.
LEMMA FloodLine ==
  ASSUME PaceInv, Line({"flood"})
  PROVE  pc = "read" /\ told # -1 /\ Throttled /\ buffer' = <<>>
<1>1. buffer # <<>> /\ buffer[1] = "flood" /\ buffer' = Tail(buffer)
  BY DEF Line
<1>2. 1 \in DOMAIN buffer
  BY <1>1 DEF PaceInv
<1>3. pc = "read" /\ told # -1 /\ buffer = <<"flood">>
  BY <1>1, <1>2 DEF PaceInv
<1>4. QED
  BY <1>1, <1>3 DEF PaceInv

\* Every wait but the last one needed is short by less than a second.
LEMMA PaceFlooded ==
  ASSUME PaceInv, PacedFlooded PROVE PaceInv'
<1>1. Throttled /\ told \in Nat /\ buffer' = <<>> /\ HostType
  BY FloodLine DEF PacedFlooded, FloodedFor, PaceInv, HostType
<1>2. UNCHANGED <<blocking, cmd, latency, accepted, told>>
  BY DEF PacedFlooded, FloodedFor, Line, hostVars
<1>3. CASE now' = now /\ attempt' = attempt /\ pc' = "close"
  <2>1. HostType'
    BY <1>1, <1>2, <1>3 DEF HostType
  <2>2. QED
    BY <1>1, <1>3, <2>1 DEF PaceInv
<1>4. CASE now' = now + FloodWait(told) /\ attempt' = attempt + 1 /\ pc' = "send"
  <2>0. FloodWait(told) \in Nat
    BY <1>1, WaitsAsTold
  <2>1. FloodWait(told) \in Nat /\ now \in Nat /\ now' \in Nat /\ now' >= now
    BY <1>1, <1>4, <2>0 DEF HostType
  <2>2. HostType'
    BY <1>1, <1>2, <2>1, Later
  <2>3. Rest \in Int /\ Rest <= Window /\ Rest < told * Second + Second /\ accepted # <<>>
    BY <1>1, <1>2, <2>1, Later DEF Throttled
  <2>4. Rest' = Rest - FloodWait(told)
    <3>1. accepted[1] \in Nat /\ Window \in Nat
      BY <1>1, <2>3, PacingAssumption DEF HostType
    <3>2. QED
      BY <1>2, <1>4, <2>1, <3>1 DEF Rest
  <2>5. attempt \in 0..1 /\ (attempt = 1 => Rest < Second)
    <3>1. pc = "read" /\ told # -1
      BY FloodLine DEF PacedFlooded, FloodedFor
    <3>2. Waited
      BY <3>1 DEF PaceInv
    <3>3. QED
      BY <1>1, <2>3, <3>2 DEF PaceInv, Throttled, Waited
  <2>6. told * Second \in Nat /\ Second \in Nat \ {0}
    BY <1>1, TimeoutAssumption
  <2>7. Rest' < Second /\ (attempt = 1 => Rest' <= 0)
    <3> DEFINE wait == FloodWait(told)
               asked == told * Second
    <3>1. wait >= Window \/ (wait >= asked /\ wait >= Second)
      BY <1>1, WaitsAsTold
    <3>2. wait \in Nat /\ asked \in Nat /\ Rest < asked + Second /\ Rest' = Rest - wait
      BY <2>1, <2>3, <2>4, <2>6
    <3> HIDE DEF wait, asked
    <3>3. QED
      BY <2>3, <2>5, <2>6, <3>1, <3>2, PacingAssumption
  <2>8. Waited'
    BY <1>2, <1>4, <2>5, <2>7 DEF Waited
  <2>9. QED
    BY <1>1, <1>2, <1>4, <2>2, <2>5, <2>8 DEF PaceInv, Throttled, Greeting
<1>5. QED
  BY <1>3, <1>4 DEF PacedFlooded, FloodedFor, Raise, Greeting

\* What else the client does: it takes the lines of an answer one by one.
LEMMA PaceClient ==
  ASSUME PaceInv, PacedRefused \/ Client PROVE PaceInv'
<1>0. /\ HostType /\ UNCHANGED <<blocking, latency, accepted, told>>
      /\ buffer \in Seq(Lines)
  BY DEF PaceInv, PacedRefused, Client, Greet, Welcome, Skip, Succeed, OutOfTime, Close,
         Refused, Line, hostVars
<1>1. now' \in Nat /\ now' >= now
  BY <1>0 DEF PacedRefused, Client, Greet, Welcome, Skip, Succeed, OutOfTime, Close,
              Refused, HostType, SendTime
<1>2. HostType'
  BY <1>0, <1>1, Later
<1>3. CASE OutOfTime \/ Close
  BY <1>0, <1>2, <1>3 DEF OutOfTime, MustRead, Close, Raise, PaceInv
\* The lines that are left.
<1>4. ASSUME buffer # <<>>, buffer' = Tail(buffer)
      PROVE  /\ buffer' \in Seq(Lines) /\ Len(buffer') = Len(buffer) - 1
             /\ \A i \in DOMAIN buffer' : buffer'[i] # "flood"
  <2>1. /\ buffer' \in Seq(Lines) /\ Len(buffer') = Len(buffer) - 1
        /\ \A i \in DOMAIN buffer' : i + 1 \in DOMAIN buffer /\ buffer'[i] = buffer[i + 1]
    BY <1>0, <1>4
  <2>2. ASSUME NEW i \in DOMAIN buffer', buffer'[i] = "flood" PROVE FALSE
    <3>1. i + 1 \in DOMAIN buffer /\ buffer[i + 1] = "flood" /\ i \in Nat \ {0}
      BY <2>1, <2>2
    <3>2. buffer = <<"flood">>
      BY <3>1 DEF PaceInv
    <3>3. QED
      BY <3>1, <3>2
  <2>3. QED
    BY <2>1, <2>2
\* The greeting, before any command was refused.
<1>5. CASE Greet
  <2>1. /\ pc = "read" /\ Greeting /\ pc' \in {"read", "closed"} /\ buffer' = Tail(buffer)
        /\ buffer # <<>> /\ UNCHANGED <<attempt, now>>
    BY <1>5 DEF Greet, Line, Raise, Greeting
  <2>2. told = -1
    BY <2>1 DEF PaceInv, Throttled
  <2>3. QED
    BY <1>0, <1>2, <1>4, <2>1, <2>2 DEF PaceInv
\* A record or a notification goes by.
<1>6. CASE Skip
  <2>1. /\ pc = "read" /\ buffer' = Tail(buffer) /\ buffer # <<>>
        /\ UNCHANGED <<pc, cmd, attempt, now>>
    BY <1>6 DEF Skip, Line
  <2>2. Waited' = Waited /\ Throttled' = Throttled
    BY <1>0, <2>1 DEF Waited, Throttled, Rest, Greeting
  <2>3. QED
    BY <1>0, <1>2, <1>4, <2>1, <2>2 DEF PaceInv
\* A command is done with: the next one is sent for the first time.
<1>7. CASE Welcome \/ Succeed \/ PacedRefused
  <2>1. buffer' = Tail(buffer) /\ buffer # <<>>
    BY <1>7 DEF Welcome, Succeed, PacedRefused, Refused, Line
  <2>2. \/ pc' = "send" /\ attempt' = 0 /\ cmd' \in Commands \ {"TS3", "welcome"}
        \/ pc' = "close" /\ attempt' = attempt
    <3>1. CASE Welcome \/ Succeed
      BY <3>1 DEF Welcome, Succeed, Call, NextServer, Commands
    <3>2. CASE PacedRefused
      BY <3>2 DEF PacedRefused, Refused, Call, NextServer, Commands, Raise, Greeting
    <3>3. QED
      BY <1>7, <3>1, <3>2
  <2>3. pc' = "send" => Waited' /\ ~Greeting'
    BY <2>2 DEF Waited, Greeting, Commands
  <2>4. QED
    BY <1>0, <1>2, <1>4, <2>1, <2>2, <2>3 DEF PaceInv
<1>8. QED
  BY <1>3, <1>5, <1>6, <1>7 DEF Client

LEMMA PaceNext == PaceInv /\ [PacedNext]_pacedVars => PaceInv'
<1> SUFFICES ASSUME PaceInv, [PacedNext]_pacedVars PROVE PaceInv'
  OBVIOUS
<1>1. CASE UNCHANGED pacedVars
  <2>1. UNCHANGED <<blocking, pc, cmd, attempt, now, buffer, latency, accepted, told>>
    BY <1>1 DEF pacedVars, vars, hostVars
  <2>2. HostType' = HostType /\ Waited' = Waited /\ Throttled' = Throttled
        /\ Greeting' = Greeting
    BY <2>1 DEF HostType, Waited, Throttled, Rest, Greeting
  <2>3. QED
    BY <2>1, <2>2 DEF PaceInv
<1>2. QED
  BY <1>1, PaceSend, PaceRecv, PaceFlooded, PaceClient DEF PacedNext, PacedStep, PacedDone

\* However often the host throttles, however fast it answers, and whichever way it
\* rounds the wait: a command is refused at most twice, so the retries suffice.
THEOREM RetriesSufficeProved == PacedSpec => []RetriesSuffice
<1>1. PaceInv => RetriesSuffice
  BY PacingAssumption, FloodAssumption DEF PaceInv, RetriesSuffice
<1>2. QED
  BY PaceInit, PaceNext, <1>1, PTL DEF PacedSpec
===============================================================================
