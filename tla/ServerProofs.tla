---------------------------- MODULE ServerProofs ----------------------------
(***************************************************************************)
(* What the server tells its endpoints: the one-time work of Work, for any *)
(* schedule, number of runs and faults, and then the releases of           *)
(* Publication.                                                            *)
(***************************************************************************)
EXTENDS Work, Publication, TLAPS, SequenceTheorems, NaturalsInduction,
        WellFoundedInduction

-----------------------------------------------------------------------------
(***************************************************************************)
(* WORK                                                                    *)
(*                                                                         *)
(* The invariant.                                                          *)
(***************************************************************************)
Done == {"success", "failed"}
Result == [run : Nat, status : Done, started : Minute]
Outcome == {"none", "ready", "failed"}
AfterResults == {"due", "collect", "answered"}
Status == {"pending", "dispatched", "running", "ready", "failed", "expired"}

Agents == [pc : {"ready", "waiting", "crons", "upgrade", "diagnose", "upload"},
           version : Nat, installed : Nat, results : Seq(Result), report : Nat,
           outcome : Outcome, phase : {"none", "failed"}, desired : Nat, due : Nat,
           instruction : Nat, collect : Nat]

Calls == [pc : {"none", "sent", "read", "upgrade", "diagnostic", "results"}
               \cup AfterResults,
          version : Nat, results : Seq(Result), report : Nat, outcome : Outcome,
          phase : {"none", "failed"}, desired : Nat, clear : BOOLEAN,
          recorded : BOOLEAN, blocked : BOOLEAN, due : Nat, instruction : Nat,
          collect : Nat]

WorkTypes ==
    /\ clock \in Minute
    /\ last \in [status : {"none", "running"} \cup Done, run : Nat, slot : Minute \cup {Never},
                 started : Minute \cup {Never}]
    /\ runs \in Seq([slot : Minute, at : Minute])
    /\ ep \in [desired : Nat, reported : Nat]
    /\ diag \in Seq(Status)
    /\ asking \in Nat
    /\ serving \in {"served", "blocked", "unmanaged"}
    /\ agent \in Agents
    /\ call \in Calls
    /\ history \in [executed : SUBSET DOMAIN runs, lost : SUBSET DOMAIN runs,
                    undelivered : SUBSET DOMAIN runs, misfiled : SUBSET DOMAIN runs,
                    asked : Nat, raced : BOOLEAN]
    /\ left \in Scenario

\* What the agent and the call have of a request for diagnostics is of one there is.
Requested(x) ==
    /\ x.report \in DOMAIN diag \cup {None} /\ x.collect \in DOMAIN diag \cup {None}
    /\ x.report # None => x.outcome # "none"

\* A call is the agent's, and carries what it has to report; a run is on its way to the
\* agent, or with it, before its result is.
Exchange ==
    /\ call.pc # "none" <=> agent.pc = "waiting"
    /\ call.pc # "none" => call.results = agent.results
    /\ call.pc \notin AfterResults => ~call.recorded /\ call.due = None
    /\ call.due # None => call.pc # "due" /\ call.due = Len(runs)
    /\ agent.due # None => agent.pc = "crons" /\ agent.due = Len(runs)
    /\ agent.pc = "crons" => agent.results = <<>>
    /\ Len(agent.results) <= 1
    /\ ReportedRuns(agent.results) \subseteq history.executed
    /\ call.due \notin history.executed /\ agent.due \notin history.executed
    /\ Requested(agent) /\ Requested(call)
    /\ agent.pc = "upload" => agent.collect # None

\* A row whose run is under way has the last run and its slot; a run is for a minute of
\* the schedule that had come.
Slots ==
    /\ last.status = "none" <=> runs = <<>>
    /\ last.status = "running" =>
          last.run = Len(runs) /\ last.slot = runs[Len(runs)].slot
    /\ last.status \in Done => last.slot \in Minute
    /\ \A r \in DOMAIN runs : /\ runs[r].slot <= runs[r].at /\ runs[r].at <= clock
                              /\ Matches(runs[r].slot)

\* The slot of a run is not due again.
Closed(r) == last.status \in Done \/ last.slot # runs[r].slot

SameSlot(q) == {r \in history.executed : runs[r].slot = runs[q].slot}

\* The runs whose results the server got or will get.
Told == history.executed \ history.lost

\* Where the result of a run that was carried out is, and that the row is not for an
\* earlier slot.
Results ==
    /\ \A r \in Told : /\ r \in ReportedRuns(agent.results) \/ Closed(r)
                       /\ runs[r].slot <= last.slot
    /\ call.recorded => \A r \in ReportedRuns(call.results) \ history.lost : Closed(r)
    /\ call.due # None =>
          \A r \in SameSlot(call.due) \ history.lost :
             r \in ReportedRuns(call.results) /\ ~call.recorded
    /\ agent.due # None => SameSlot(agent.due) \subseteq history.lost

\* A result with the agent is of a run that started after the slots that were carried
\* out, and a row that is done has it already; one that is not has a run on its way.
Newest(result) ==
    /\ \A r \in Told : runs[r].slot <= result.started
    /\ last.status \in Done => last.run = result.run /\ last.started = result.started

Pending ==
    /\ call.due # None \/ agent.due # None => last.status = "running"
    /\ \A i \in DOMAIN agent.results : Newest(agent.results[i])

\* What was dispatched after a result that is still with the agent was not delivered.
Undone == \A r \in ReportedRuns(agent.results), n \in DOMAIN runs :
             r < n => n \in history.undelivered \cup {call.due}

WorkInv == /\ WorkTypes /\ Exchange /\ Slots /\ Results /\ Pending /\ Undone
           /\ TwiceOnlyIfLost /\ DoneNamesItsRun

LEMMA Constants ==
    /\ MaxTime \in Nat /\ WheelSize \in Nat \ {0} /\ MaxScan \in Nat \ {0}
    /\ Never \in Nat /\ Never = MaxTime + 1 /\ None = 0
    /\ Scenarios \subseteq Scenario
BY WheelTurns, TimeoutIsInTime, ScanIsPositive, ScenariosAreTyped DEF Never, None

-----------------------------------------------------------------------------
(***************************************************************************)
(* The latest of some instants.                                            *)
(***************************************************************************)
LEMMA Least ==
    ASSUME NEW S \in SUBSET Nat, S # {}
    PROVE  \E n \in S : \A m \in S : n <= m
<1>1. IsWellFoundedOn(OpToRel(<, Nat), Nat)
  BY NatLessThanWellFounded, Zenon
<1>2. PICK n \in S : \A m \in S : <<m, n>> \notin OpToRel(<, Nat)
  BY <1>1, WFMin, Zenon
<1>3. \A m \in S : ~(m < n)
  BY <1>2 DEF OpToRel
<1> QED
  BY <1>3

\* Latest returns the greatest of a bounded set of numbers: what is least of its bounds
\* is in it.
LEMMA LatestIsGreatest ==
    ASSUME NEW S \in SUBSET Nat, S # {}, NEW n \in Nat, \A s \in S : s <= n
    PROVE  Latest(S) \in S /\ \A s \in S : s <= Latest(S)
<1> DEFINE B == {b \in Nat : \A m \in S : m <= b}
<1>1. PICK b \in B : \A c \in B : b <= c
  BY Least
<1>2. CASE b \in S
  BY <1>1, <1>2 DEF Latest
<1>3. CASE b \notin S
  <2>1. \A m \in S : m < b
    BY <1>1, <1>3
  <2>2. b - 1 \in B
    <3>1. b \in Nat /\ b # 0
      <4>1. PICK m \in S : TRUE
        OBVIOUS
      <4>2. m \in Nat /\ m < b /\ b \in Nat
        BY <2>1, <4>1
      <4> QED
        BY <4>2
    <3>2. \A m \in Nat : m < b => m <= b - 1
      BY <3>1
    <3>3. \A m \in S : m <= b - 1
      BY <2>1, <3>2
    <3> QED
      BY <3>1, <3>3
  <2> QED
    BY <1>1, <2>2
<1> QED
  BY <1>2, <1>3

\* The latest of some instants up to n, or of some places of a sequence.
LEMMA LatestOfMinutes ==
    ASSUME NEW S \in SUBSET Minute, S # {}
    PROVE  Latest(S) \in S /\ \A s \in S : s <= Latest(S)
<1>1. S \in SUBSET Nat /\ MaxTime \in Nat /\ \A s \in S : s <= MaxTime
  BY Constants DEF Minute
<1> QED
  BY <1>1, LatestIsGreatest

LEMMA LatestOfPlaces ==
    ASSUME NEW T, NEW seq \in Seq(T), NEW S \in SUBSET DOMAIN seq, S # {}
    PROVE  Latest(S) \in S
<1>1. Len(seq) \in Nat /\ \A s \in S : s \in Nat /\ s <= Len(seq)
  BY LenProperties
<1> QED
  BY <1>1, LatestIsGreatest

-----------------------------------------------------------------------------
(***************************************************************************)
(* The schedule.                                                           *)
(***************************************************************************)
\* What is dispatched is for a minute of the schedule that has come.
LEMMA DueSlotsAreDue ==
    ASSUME WorkTypes
    PROVE  /\ DueSlots(clock) \subseteq Due(clock, Anchor)
           /\ Due(clock, Anchor) \subseteq {m \in Minute : m <= clock /\ Matches(m)}
           /\ \A s \in DueSlots(clock), m \in Due(clock, Anchor) : m <= s
           /\ Anchor # Never => \A m \in Due(clock, Anchor) : Anchor < m
<1> DEFINE D == Due(clock, Anchor)
<1>1. Anchor \in Nat /\ clock \in Nat /\ clock <= MaxTime
  BY Constants DEF Anchor, WorkTypes, Minute, Done
<1>2. D \subseteq {m \in Minute : m <= clock /\ Matches(m)}
  <2>1. Anchor = Never => Scanned(clock, Anchor) \subseteq Minute
    BY DEF Scanned
  <2>2. Anchor # Never => Scanned(clock, Anchor) \subseteq Nat
    BY <1>1, Constants DEF Scanned
  <2>3. \A m \in Nat : m <= clock => m \in Minute
    BY <1>1, Constants DEF Minute
  <2> QED
    BY <2>1, <2>2, <2>3 DEF Due
<1>3. Anchor # Never => \A m \in D : Anchor < m
  BY <1>1, Constants DEF Due, Scanned
<1>4. ASSUME NEW s \in DueSlots(clock)
      PROVE  s \in D /\ \A m \in D : m <= s
  <2> DEFINE due == IF ~left.crons \/ UnderWay(clock) THEN {} ELSE D
  <2>1. due # {} /\ s = Latest(due)
    BY <1>4 DEF DueSlots
  <2>2. due = D
    BY <2>1
  <2>3. D \in SUBSET Minute /\ D # {} /\ s = Latest(D)
    BY <1>2, <2>1, <2>2
  <2> HIDE DEF due, D
  <2> QED
    BY <2>3, LatestOfMinutes
<1> QED
  BY <1>2, <1>3, <1>4

LEMMA RunsAreNumbered ==
    ASSUME WorkTypes
    PROVE  /\ Len(runs) \in Nat /\ DOMAIN runs = 1..Len(runs)
           /\ \A r \in DOMAIN runs : /\ r \in Nat /\ runs[r].slot \in Minute
                                     /\ runs[r].at \in Minute
           /\ runs # <<>> => Len(runs) \in DOMAIN runs
<1> DEFINE Run == [slot : Minute, at : Minute]
<1>1. runs \in Seq(Run)
  BY DEF WorkTypes
<1>2. Len(runs) \in Nat /\ DOMAIN runs = 1..Len(runs) /\ runs \in [1..Len(runs) -> Run]
  BY <1>1, LenProperties
<1>3. runs # <<>> => Len(runs) \in Nat \ {0}
  BY <1>1, EmptySeq
<1> QED
  BY <1>2, <1>3

\* It is not for a slot before that of the row, nor for that slot where it is done.
LEMMA DueSlotIsNext ==
    ASSUME WorkTypes, Slots, NEW s \in DueSlots(clock)
    PROVE  /\ s \in Minute /\ s <= clock /\ Matches(s)
           /\ last.status # "none" => last.slot \in Minute /\ last.slot <= s
           /\ last.status \in Done => last.slot < s
<1>1. s \in Minute /\ s <= clock /\ Matches(s)
  BY DueSlotsAreDue
<1>2. s \in Nat /\ clock \in Nat
  BY <1>1, Constants DEF WorkTypes, Minute
<1>3. CASE last.status \in Done
  <2>1. last.slot \in Minute
    BY <1>3 DEF Slots
  <2>2. Anchor = last.slot /\ Anchor # Never
    BY <1>3, <2>1, Constants DEF Anchor, Done, Minute
  <2>3. Anchor < s
    BY <2>2, DueSlotsAreDue
  <2> QED
    BY <1>1, <1>2, <2>1, <2>2, <2>3, Constants DEF Minute
<1>4. CASE last.status = "running"
  <2>1. runs # <<>> /\ last.slot = runs[Len(runs)].slot
    BY <1>4 DEF Slots
  <2>2. Len(runs) \in DOMAIN runs /\ runs[Len(runs)].slot \in Minute
        /\ runs[Len(runs)].at \in Minute
    BY <2>1, RunsAreNumbered
  <2>3. /\ runs[Len(runs)].slot <= runs[Len(runs)].at /\ runs[Len(runs)].at <= clock
        /\ Matches(runs[Len(runs)].slot)
    BY <2>2 DEF Slots
  <2>4. last.slot \in Minute /\ last.slot \in Nat /\ last.slot <= clock /\ Matches(last.slot)
    BY <1>2, <2>1, <2>2, <2>3, Constants DEF Minute
  <2>5. Anchor = Never
    BY <1>4 DEF Anchor
  <2>6. CASE last.slot + MaxScan >= clock
    <3>1. last.slot \in Due(clock, Anchor)
      BY <2>4, <2>5, <2>6 DEF Due, Scanned
    <3> QED
      BY <1>1, <1>4, <2>4, <3>1, DueSlotsAreDue DEF Done
  <2>7. CASE ~(last.slot + MaxScan >= clock)
    <3>1. s \in Scanned(clock, Anchor)
      BY DueSlotsAreDue DEF Due
    <3>2. s + MaxScan >= clock
      BY <2>5, <3>1 DEF Scanned
    <3>3. last.slot <= s
      BY <1>2, <2>4, <2>7, <3>2, Constants
    <3> QED
      BY <1>1, <1>4, <2>4, <3>3 DEF Done
  <2> QED
    BY <2>6, <2>7
<1>5. CASE last.status = "none"
  BY <1>1, <1>5 DEF Done
<1> QED
  BY <1>3, <1>4, <1>5 DEF WorkTypes

-----------------------------------------------------------------------------
(***************************************************************************)
(* Types.                                                                  *)
(***************************************************************************)
LEMMA NoCallTyped == NoCall \in Calls
BY Constants DEF NoCall, Calls, Outcome, AfterResults

LEMMA InitTypes == Init => WorkTypes /\ Exchange
<1> SUFFICES ASSUME Init
             PROVE  WorkTypes /\ Exchange
  OBVIOUS
<1>1. agent \in Agents
  BY Constants DEF Init, Agents, Outcome
<1>2. call \in Calls
  BY NoCallTyped DEF Init
<1>3. WorkTypes
  BY <1>1, <1>2, Constants DEF Init, WorkTypes, Minute, Done
<1>4. Exchange
  BY DEF Init, Exchange, Requested, NoCall, AfterResults, ReportedRuns, None
<1> QED
  BY <1>3, <1>4

\* What is sent is what the agent has to report.
LEMMA TypesSend == ASSUME WorkTypes, Exchange, Send PROVE WorkTypes' /\ Exchange'
<1>1. agent' \in Agents
  BY DEF Send, WorkTypes, Agents
<1>2. call' \in Calls
  <2>1. /\ agent.version \in Nat /\ agent.results \in Seq(Result) /\ agent.report \in Nat
        /\ agent.outcome \in Outcome /\ agent.phase \in {"none", "failed"}
        /\ agent.desired \in Nat
    BY DEF WorkTypes, Agents
  <2>2. /\ NoCall \in Calls
        /\ call' = [NoCall EXCEPT
           !.pc = "sent", !.version = agent.version, !.results = agent.results,
           !.report = agent.report, !.outcome = agent.outcome,
           !.phase = agent.phase, !.desired = agent.desired]
    BY NoCallTyped DEF Send
  <2> QED
    BY <2>1, <2>2 DEF Calls
<1>3. WorkTypes'
  BY <1>1, <1>2 DEF Send, WorkTypes, server
<1>4. Exchange'
  <2>1. /\ agent' = [agent EXCEPT !.pc = "waiting"] /\ agent \in Agents
        /\ diag' = diag /\ history' = history /\ runs' = runs
        /\ agent.pc = "ready" /\ call.pc = "none"
    BY DEF Send, WorkTypes, server
  <2>2. /\ call'.pc = "sent" /\ call'.results = agent.results
        /\ call'.report = agent.report /\ call'.outcome = agent.outcome
        /\ ~call'.recorded /\ call'.due = None /\ call'.collect = None
    BY DEF Send, NoCall
  <2>3. /\ agent'.pc = "waiting" /\ agent'.results = agent.results
        /\ agent'.due = agent.due /\ agent'.report = agent.report
        /\ agent'.collect = agent.collect /\ agent'.outcome = agent.outcome
    BY <2>1 DEF Agents
  <2> QED
    BY <2>1, <2>2, <2>3 DEF Exchange, Requested, AfterResults, ReportedRuns
<1> QED
  BY <1>3, <1>4

\* A step of the handler leaves what was sent, and the agent, as they are.
LEMMA HandlerExchange ==
    ASSUME Exchange, agent' = agent, history'.executed = history.executed, runs' = runs,
           DOMAIN diag \subseteq DOMAIN diag',
           call.pc # "none", call'.pc # "none",
           call'.results = call.results, call'.report = call.report,
           call'.outcome = call.outcome, call'.collect \in DOMAIN diag' \cup {None},
           call'.due = call.due, call.due = None,
           call'.recorded => call'.pc \in AfterResults
    PROVE  Exchange'
BY DEF Exchange, Requested, ReportedRuns

LEMMA TypesReadEndpoint ==
    ASSUME WorkTypes, Exchange, ReadEndpoint
    PROVE  WorkTypes' /\ Exchange'
<1>1. PICK instruction \in Nat :
         call' = [call EXCEPT
              !.pc = IF serving = "unmanaged" THEN "answered" ELSE "read",
              !.blocked = serving # "served", !.instruction = instruction]
  BY Constants DEF ReadEndpoint, Instructed, WorkTypes
<1>2. call' \in Calls
  BY <1>1 DEF WorkTypes, Calls, AfterResults
<1>3. WorkTypes'
  BY <1>2 DEF ReadEndpoint, WorkTypes, server
<1>4. /\ call'.pc \in {"answered", "read"} /\ call'.results = call.results
      /\ call'.report = call.report /\ call'.outcome = call.outcome
      /\ call'.collect = call.collect /\ call'.due = call.due
      /\ call'.recorded = call.recorded
  BY <1>1 DEF WorkTypes, Calls
<1>5. Exchange'
  <2>1. /\ call.pc = "sent" /\ agent' = agent /\ history' = history /\ runs' = runs
        /\ diag' = diag
    BY DEF ReadEndpoint, server
  <2>2. ~call.recorded /\ call.due = None /\ call.collect \in DOMAIN diag \cup {None}
    BY <2>1 DEF Exchange, AfterResults, Requested
  <2> QED
    BY <1>4, <2>1, <2>2, HandlerExchange
<1> QED
  BY <1>3, <1>5

LEMMA TypesUpgradeRead ==
    ASSUME WorkTypes, Exchange, UpgradeRead
    PROVE  WorkTypes' /\ Exchange'
<1>1. Clears \in BOOLEAN
  BY DEF Clears
<1>2. /\ call' = [call EXCEPT !.pc = "upgrade", !.clear = Clears]
      /\ call.pc = "read" /\ agent' = agent /\ history' = history /\ runs' = runs
      /\ diag' = diag
  BY DEF UpgradeRead, server
<1>3. call' \in Calls
  BY <1>1, <1>2 DEF WorkTypes, Calls
<1>4. WorkTypes'
  BY <1>3 DEF UpgradeRead, WorkTypes, server
<1>5. /\ call'.pc = "upgrade" /\ call'.results = call.results
      /\ call'.report = call.report /\ call'.outcome = call.outcome
      /\ call'.collect = call.collect /\ call'.due = call.due
      /\ call'.recorded = call.recorded
  BY <1>2 DEF WorkTypes, Calls
<1>6. ~call.recorded /\ call.due = None /\ call.collect \in DOMAIN diag \cup {None}
  BY <1>2 DEF Exchange, AfterResults, Requested
<1>7. Exchange'
  BY <1>2, <1>5, <1>6, HandlerExchange
<1> QED
  BY <1>4, <1>7

LEMMA TypesUpgradeWrite ==
    ASSUME WorkTypes, Exchange, UpgradeWrite
    PROVE  WorkTypes' /\ Exchange'
<1>1. /\ call' = [call EXCEPT !.pc = "diagnostic"]
      /\ call.pc = "upgrade" /\ agent' = agent /\ history' = history /\ runs' = runs
      /\ diag' = diag
  BY DEF UpgradeWrite
<1>2. call' \in Calls /\ ep' \in [desired : Nat, reported : Nat]
  BY <1>1, Constants DEF WorkTypes, Calls, UpgradeWrite
<1>3. WorkTypes'
  BY <1>2 DEF UpgradeWrite, WorkTypes
<1>4. /\ call'.pc = "diagnostic" /\ call'.results = call.results
      /\ call'.report = call.report /\ call'.outcome = call.outcome
      /\ call'.collect = call.collect /\ call'.due = call.due
      /\ call'.recorded = call.recorded
  BY <1>1 DEF WorkTypes, Calls
<1>5. ~call.recorded /\ call.due = None /\ call.collect \in DOMAIN diag \cup {None}
  BY <1>1 DEF Exchange, AfterResults, Requested
<1>6. Exchange'
  BY <1>1, <1>4, <1>5, HandlerExchange
<1> QED
  BY <1>3, <1>6

\* A scenario with one failure less.
LEMMA FaultLess ==
    ASSUME left \in Scenario, left.faults > 0
    PROVE  [left EXCEPT !.faults = @ - 1] \in Scenario
<1>1. left.faults - 1 \in Nat
  BY DEF Scenario
<1> QED
  BY <1>1 DEF Scenario

\* The status of a request changes in its place.
LEMMA StatusSet ==
    ASSUME NEW d \in DOMAIN diag, NEW status \in Status, diag \in Seq(Status)
    PROVE  /\ [diag EXCEPT ![d] = status] \in Seq(Status)
           /\ DOMAIN [diag EXCEPT ![d] = status] = DOMAIN diag
BY ExceptSeq

LEMMA TypesPersistDiagnostic ==
    ASSUME WorkTypes, Exchange, PersistDiagnostic
    PROVE  WorkTypes' /\ Exchange'
<1>1. /\ call' = [call EXCEPT !.pc = "results"]
      /\ call.pc = "diagnostic" /\ agent' = agent /\ history' = history /\ runs' = runs
  BY DEF PersistDiagnostic
<1>2. call' \in Calls
  BY <1>1 DEF WorkTypes, Calls
<1>3. diag' \in Seq(Status) /\ DOMAIN diag' = DOMAIN diag /\ left' \in Scenario
  <2>1. diag \in Seq(Status) /\ left \in Scenario
    BY DEF WorkTypes
  <2>2. CASE call.report = None
    BY <2>1, <2>2 DEF PersistDiagnostic
  <2>3. CASE call.report # None
    <3>1. call.report \in DOMAIN diag /\ call.outcome \in {"ready", "failed"}
      BY <2>3 DEF Exchange, Requested, WorkTypes, Calls, Outcome
    <3>2. CASE diag' = [diag EXCEPT ![call.report] = call.outcome] /\ left' = left
      BY <2>1, <3>1, <3>2, StatusSet DEF Status
    <3>3. CASE /\ diag' = [diag EXCEPT ![call.report] = "failed"] /\ left.faults > 0
               /\ left' = [left EXCEPT !.faults = @ - 1]
      BY <2>1, <3>1, <3>3, StatusSet, FaultLess DEF Status
    <3> QED
      BY <2>3, <3>2, <3>3 DEF PersistDiagnostic
  <2> QED
    BY <2>2, <2>3
<1>4. WorkTypes'
  BY <1>2, <1>3 DEF PersistDiagnostic, WorkTypes
<1>5. /\ call'.pc = "results" /\ call'.results = call.results
      /\ call'.report = call.report /\ call'.outcome = call.outcome
      /\ call'.collect = call.collect /\ call'.due = call.due
      /\ call'.recorded = call.recorded
  BY <1>1 DEF WorkTypes, Calls
<1>6. ~call.recorded /\ call.due = None /\ call.collect \in DOMAIN diag \cup {None}
  BY <1>1 DEF Exchange, AfterResults, Requested
<1>7. Exchange'
  BY <1>1, <1>3, <1>5, <1>6, HandlerExchange
<1> QED
  BY <1>4, <1>7

\* What the server does with the results that were sent.
Outcomes == {"kept", "misfiled", "failed"}

Persists(outcome) ==
    /\ outcome = "kept" \/ (call.results # <<>> /\ left.faults > 0)
    /\ call' = [call EXCEPT !.pc = IF call.blocked THEN "answered" ELSE "due",
                            !.recorded = outcome # "failed"]
    /\ last' = IF call.results = <<>> \/ outcome = "failed" THEN last
               ELSE Recorded(call.results[1], outcome = "kept")
    /\ history' = IF outcome # "misfiled" THEN history
                  ELSE [history EXCEPT !.misfiled = @ \cup ReportedRuns(call.results)]
    /\ left' = IF outcome = "kept" THEN left ELSE [left EXCEPT !.faults = @ - 1]

LEMMA FirstResult ==
    ASSUME WorkTypes, call.results # <<>>
    PROVE  1 \in DOMAIN call.results /\ call.results[1] \in Result
<1>1. call.results \in Seq(Result)
  BY DEF WorkTypes, Calls
<1> QED
  BY <1>1, EmptySeq, LenProperties

LEMMA TypesPersistResults ==
    ASSUME WorkTypes, Exchange, PersistResults
    PROVE  WorkTypes' /\ Exchange'
<1>1. PICK outcome \in Outcomes : Persists(outcome)
  BY DEF PersistResults, Persists, Outcomes
<1>2. /\ call.pc = "results" /\ agent' = agent /\ runs' = runs
      /\ diag' = diag
  BY DEF PersistResults
<1>3. call' \in Calls
  BY <1>1 DEF Persists, WorkTypes, Calls, AfterResults
<1>4. last' \in [status : {"none", "running"} \cup Done, run : Nat,
                 slot : Minute \cup {Never}, started : Minute \cup {Never}]
  <2>1. CASE ~(outcome = "failed") /\ call.results # <<>>
    <3> DEFINE result == call.results[1]
    <3>1. result \in Result
      BY <2>1, FirstResult
    <3>2. last' = Recorded(result, outcome = "kept")
      BY <1>1, <2>1 DEF Persists
    <3> HIDE DEF result
    <3> QED
      BY <3>1, <3>2 DEF Recorded, Result, WorkTypes
  <2>2. CASE outcome = "failed" \/ call.results = <<>>
    BY <1>1, <2>2 DEF Persists, WorkTypes
  <2> QED
    BY <2>1, <2>2
<1>5. left' \in Scenario
  BY <1>1, FaultLess DEF Persists, WorkTypes
<1>6. /\ history' \in [executed : SUBSET DOMAIN runs, lost : SUBSET DOMAIN runs,
                       undelivered : SUBSET DOMAIN runs, misfiled : SUBSET DOMAIN runs,
                       asked : Nat, raced : BOOLEAN]
      /\ history'.executed = history.executed
  <2>1. ReportedRuns(call.results) \subseteq DOMAIN runs
    BY <1>2 DEF Exchange, WorkTypes
  <2> QED
    BY <1>1, <2>1 DEF Persists, WorkTypes
<1>7. WorkTypes'
  BY <1>2, <1>3, <1>4, <1>5, <1>6 DEF PersistResults, WorkTypes
<1>8. /\ call'.pc \in AfterResults /\ call'.results = call.results
      /\ call'.report = call.report /\ call'.outcome = call.outcome
      /\ call'.collect = call.collect /\ call'.due = call.due
  BY <1>1 DEF Persists, WorkTypes, Calls, AfterResults
<1>9. call.due = None /\ call.collect \in DOMAIN diag \cup {None}
  BY <1>2 DEF Exchange, AfterResults, Requested
<1>10. Exchange'
  <2>1. call'.pc # "none"
    BY <1>8 DEF AfterResults
  <2> QED
    BY <1>2, <1>6, <1>8, <1>9, <2>1, HandlerExchange
<1> QED
  BY <1>7, <1>10

\* What a dispatch does: it adds the last run, which is on its way, or does nothing.
Dispatched(s) ==
    /\ s \in DueSlots(clock)
    /\ runs' = Append(runs, [slot |-> s, at |-> clock])
    /\ last' = [status |-> "running", run |-> Len(runs'), slot |-> s, started |-> clock]
    /\ call' = [call EXCEPT !.pc = "collect", !.due = Len(runs')]

LEMMA DispatchOrNot ==
    ASSUME DispatchDue
    PROVE  \/ /\ call' = [call EXCEPT !.pc = "collect"]
              /\ UNCHANGED <<last, runs>>
           \/ \E s \in DueSlots(clock) : Dispatched(s)
BY DEF DispatchDue, Dispatched

\* The runs after a dispatch are those before it and one more.
LEMMA RunAdded ==
    ASSUME WorkTypes, NEW s \in Minute, runs' = Append(runs, [slot |-> s, at |-> clock])
    PROVE  /\ runs' \in Seq([slot : Minute, at : Minute])
           /\ Len(runs') = Len(runs) + 1 /\ DOMAIN runs' = 1..Len(runs')
           /\ DOMAIN runs' = DOMAIN runs \cup {Len(runs')}
           /\ Len(runs') \notin DOMAIN runs /\ runs' # <<>>
           /\ Len(runs') \in Nat \ {0}
           /\ \A r \in DOMAIN runs : runs'[r] = runs[r]
           /\ runs'[Len(runs')] = [slot |-> s, at |-> clock]
<1> DEFINE Run == [slot : Minute, at : Minute]
           new == [slot |-> s, at |-> clock]
<1>1. runs \in Seq(Run) /\ new \in Run
  BY DEF WorkTypes
<1> HIDE DEF Run, new
<1>2. /\ Append(runs, new) \in Seq(Run) /\ Append(runs, new) # <<>>
      /\ Len(Append(runs, new)) = Len(runs) + 1
      /\ \A i \in 1..Len(runs) : Append(runs, new)[i] = runs[i]
      /\ Append(runs, new)[Len(runs) + 1] = new
  BY <1>1, AppendProperties
<1>3. /\ Len(runs) \in Nat /\ DOMAIN runs = 1..Len(runs)
      /\ DOMAIN Append(runs, new) = 1..Len(Append(runs, new))
  BY <1>1, <1>2, LenProperties
<1>4. runs' = Append(runs, new)
  BY DEF new
<1> QED
  BY <1>2, <1>3, <1>4 DEF Run, new

LEMMA TypesDispatchDue ==
    ASSUME WorkTypes, Exchange, DispatchDue
    PROVE  WorkTypes' /\ Exchange'
<1>1. /\ call.pc = "due" /\ agent' = agent /\ history' = history /\ diag' = diag
      /\ ep' = ep /\ clock' = clock /\ asking' = asking /\ serving' = serving
      /\ left' = left
  BY DEF DispatchDue
<1>2. call.due = None /\ agent.pc = "waiting" /\ agent.due = None
  BY <1>1, Constants DEF Exchange, WorkTypes, Agents
<1>3. CASE call' = [call EXCEPT !.pc = "collect"] /\ UNCHANGED <<last, runs>>
  <2>1. call' \in Calls
    BY <1>3 DEF WorkTypes, Calls, AfterResults
  <2>2. WorkTypes'
    BY <1>1, <1>3, <2>1 DEF WorkTypes
  <2>3. /\ call'.pc = "collect" /\ call'.results = call.results
        /\ call'.report = call.report /\ call'.outcome = call.outcome
        /\ call'.collect = call.collect /\ call'.due = call.due
    BY <1>3 DEF WorkTypes, Calls
  <2>4. call.collect \in DOMAIN diag \cup {None}
    BY DEF Exchange, Requested
  <2>5. Exchange'
    BY <1>1, <1>2, <1>3, <2>3, <2>4, HandlerExchange DEF AfterResults
  <2> QED
    BY <2>2, <2>5
<1>4. CASE \E s \in DueSlots(clock) : Dispatched(s)
  <2>1. PICK s \in DueSlots(clock) : Dispatched(s)
    BY <1>4
  <2>2. s \in Minute
    BY DueSlotsAreDue
  <2>3. /\ runs' \in Seq([slot : Minute, at : Minute])
        /\ DOMAIN runs' = DOMAIN runs \cup {Len(runs')}
        /\ Len(runs') \notin DOMAIN runs
        /\ Len(runs') \in Nat \ {0}
    BY <2>1, <2>2, RunAdded DEF Dispatched
  <2>4. call' \in Calls
    BY <2>1, <2>3 DEF WorkTypes, Calls, AfterResults, Dispatched
  <2>5. last' \in [status : {"none", "running"} \cup Done, run : Nat, slot : Minute \cup {Never},
                   started : Minute \cup {Never}]
    BY <2>1, <2>2 DEF WorkTypes, Dispatched
  <2>6. WorkTypes'
    BY <1>1, <2>3, <2>4, <2>5 DEF WorkTypes
  <2>7. /\ call'.pc = "collect" /\ call'.results = call.results
        /\ call'.report = call.report /\ call'.outcome = call.outcome
        /\ call'.collect = call.collect /\ call'.due = Len(runs')
    BY <2>1 DEF WorkTypes, Calls, Dispatched
  <2>8. history.executed \subseteq DOMAIN runs
    BY DEF WorkTypes
  <2>9. Exchange'
    BY <1>1, <1>2, <2>3, <2>7, <2>8 DEF Exchange, AfterResults, Requested, ReportedRuns
  <2> QED
    BY <2>6, <2>9
<1> QED
  BY <1>3, <1>4, DispatchOrNot

LEMMA TypesDispatchDiagnostic ==
    ASSUME WorkTypes, Exchange, DispatchDiagnostic
    PROVE  WorkTypes' /\ Exchange'
<1>1. /\ call.pc = "collect" /\ agent' = agent /\ history' = history /\ runs' = runs
      /\ last' = last /\ ep' = ep /\ clock' = clock /\ asking' = asking
      /\ serving' = serving /\ left' = left
  BY DEF DispatchDiagnostic
<1>2. PICK d \in DOMAIN diag \cup {None} :
         /\ call' = [call EXCEPT !.pc = "answered", !.collect = d]
         /\ diag' \in Seq(Status) /\ DOMAIN diag' = DOMAIN diag
  <2>1. diag \in Seq(Status)
    BY DEF WorkTypes
  <2>2. CASE Offered = {}
    <3>1. call' = [call EXCEPT !.pc = "answered"] /\ diag' = diag
      BY <2>2 DEF DispatchDiagnostic
    <3>2. call.collect \in DOMAIN diag \cup {None}
      BY DEF Exchange, Requested
    <3>3. call' = [call EXCEPT !.pc = "answered", !.collect = call.collect]
      BY <3>1 DEF WorkTypes, Calls
    <3> QED
      BY <2>1, <3>1, <3>2, <3>3
  <2>3. CASE Offered # {}
    <3>1. PICK d \in {Latest(Offered)} :
              /\ call' = [call EXCEPT !.pc = "answered", !.collect = d]
              /\ diag' = [diag EXCEPT ![d] = IF @ = "pending" THEN "dispatched" ELSE @]
      BY <2>3 DEF DispatchDiagnostic
    <3>2. d \in DOMAIN diag
      <4>1. Offered \in SUBSET DOMAIN diag
        BY DEF Offered
      <4> QED
        BY <2>1, <2>3, <3>1, <4>1, LatestOfPlaces
    <3>3. diag[d] \in Status
      BY <2>1, <3>2, LenProperties
    <3>4. PICK status \in Status : diag' = [diag EXCEPT ![d] = status]
      <4>1. CASE diag[d] = "pending"
        BY <3>1, <4>1 DEF Status
      <4>2. CASE diag[d] # "pending"
        BY <3>1, <3>3, <4>2
      <4> QED
        BY <4>1, <4>2
    <3> QED
      BY <2>1, <3>1, <3>2, <3>4, StatusSet
  <2> QED
    BY <2>2, <2>3
<1>3. call' \in Calls
  <2>1. d \in Nat
    BY LenProperties, Constants DEF WorkTypes
  <2> QED
    BY <1>2, <2>1 DEF WorkTypes, Calls, AfterResults
<1>4. WorkTypes'
  BY <1>1, <1>2, <1>3 DEF WorkTypes
<1>5. /\ call'.pc = "answered" /\ call'.results = call.results
      /\ call'.report = call.report /\ call'.outcome = call.outcome
      /\ call'.collect = d /\ call'.due = call.due
  BY <1>2 DEF WorkTypes, Calls
<1>6. Exchange'
  BY <1>1, <1>2, <1>5 DEF Exchange, AfterResults, Requested, ReportedRuns
<1> QED
  BY <1>4, <1>6

\* The runs that some results are of.
LEMMA RunsOfResults ==
    ASSUME NEW results \in Seq(Result)
    PROVE  /\ ReportedRuns(results) \subseteq Nat
           /\ results = <<>> => ReportedRuns(results) = {}
<1>1. \A i \in DOMAIN results : results[i] \in Result
  BY LenProperties
<1>2. results = <<>> => DOMAIN results = {}
  OBVIOUS
<1> QED
  BY <1>1, <1>2 DEF ReportedRuns, Result

\* A result that is added to none is of the one run.
LEMMA OneResult ==
    ASSUME NEW q \in Nat, NEW status \in Done, NEW t \in Minute
    PROVE  LET new == Append(<<>>, [run |-> q, status |-> status, started |-> t])
           IN  /\ new \in Seq(Result) /\ Len(new) = 1 /\ ReportedRuns(new) = {q}
               /\ \A i \in DOMAIN new : new[i].started = t
<1> DEFINE elt == [run |-> q, status |-> status, started |-> t]
           new == Append(<<>>, elt)
<1>1. elt \in Result
  BY DEF Result
<1>2. <<>> \in Seq(Result) /\ Len(<<>>) = 0
  BY EmptySeq
<1> HIDE DEF elt
<1>3. new \in Seq(Result) /\ Len(new) = 1 /\ new[1] = elt
  BY <1>1, <1>2, AppendProperties
<1> HIDE DEF new
<1>4. DOMAIN new = {1}
  BY <1>3, LenProperties
<1>5. ReportedRuns(new) = {elt.run}
  BY <1>3, <1>4 DEF ReportedRuns
<1> QED
  BY <1>3, <1>4, <1>5 DEF new, elt

\* What the answer leaves with the agent.
LEMMA ReceivedAgent ==
    ASSUME WorkTypes, Exchange, Receive
    PROVE  /\ agent' \in Agents /\ agent'.pc = "crons" /\ agent'.results = <<>>
           /\ agent'.report = None /\ agent'.due = call.due /\ agent'.collect = call.collect
           /\ call.results = agent.results /\ call' = NoCall
<1>1. /\ agent' = [agent EXCEPT
           !.pc = "crons", !.results = ClearSent(call.results), !.report = None,
           !.outcome = "none", !.phase = "none", !.desired = None,
           !.due = call.due, !.instruction = call.instruction, !.collect = call.collect]
      /\ call' = NoCall /\ call.pc = "answered"
  BY DEF Receive
<1>2. call.results = agent.results
  BY <1>1 DEF Exchange
<1>3. ClearSent(call.results) = <<>>
  BY <1>2 DEF ClearSent
<1>4. /\ call.due \in Nat /\ call.instruction \in Nat /\ call.collect \in Nat
      /\ <<>> \in Seq(Result) /\ None \in Nat
  BY Constants, EmptySeq DEF WorkTypes, Calls
<1>5. agent' = [agent EXCEPT
           !.pc = "crons", !.results = <<>>, !.report = None,
           !.outcome = "none", !.phase = "none", !.desired = None,
           !.due = call.due, !.instruction = call.instruction, !.collect = call.collect]
  BY <1>1, <1>3
<1>6. agent \in Agents
  BY DEF WorkTypes
<1>7. /\ agent'.pc = "crons" /\ agent'.results = <<>> /\ agent'.report = None
      /\ agent'.due = call.due /\ agent'.collect = call.collect
  BY <1>5, <1>6 DEF Agents
<1>8. agent' \in Agents
  <2> DEFINE due == call.due
             instruction == call.instruction
             collect == call.collect
  <2>1. due \in Nat /\ instruction \in Nat /\ collect \in Nat
    BY <1>4
  <2>2. agent' = [agent EXCEPT
             !.pc = "crons", !.results = <<>>, !.report = None,
             !.outcome = "none", !.phase = "none", !.desired = None,
             !.due = due, !.instruction = instruction, !.collect = collect]
    BY <1>5
  <2> HIDE DEF due, instruction, collect
  <2> QED
    BY <1>4, <1>6, <2>1, <2>2 DEF Agents, Outcome
<1> QED
  BY <1>1, <1>2, <1>7, <1>8

LEMMA TypesReceive ==
    ASSUME WorkTypes, Exchange, Receive
    PROVE  WorkTypes' /\ Exchange'
<1>1. /\ call.pc = "answered" /\ runs' = runs /\ diag' = diag
      /\ last' = last /\ ep' = ep /\ clock' = clock /\ asking' = asking
      /\ serving' = serving /\ left' = left
  BY DEF Receive, server
<1>2. /\ history' = [history EXCEPT
             !.lost = IF call.recorded THEN @ ELSE @ \cup ReportedRuns(call.results)]
  BY DEF Receive
<1>3. ReportedRuns(call.results) \subseteq DOMAIN runs
  BY ReceivedAgent DEF Exchange, WorkTypes
<1>4. /\ history' \in [executed : SUBSET DOMAIN runs, lost : SUBSET DOMAIN runs,
                       undelivered : SUBSET DOMAIN runs, misfiled : SUBSET DOMAIN runs,
                       asked : Nat, raced : BOOLEAN]
      /\ history'.executed = history.executed
  BY <1>2, <1>3 DEF WorkTypes
<1>5. WorkTypes'
  BY <1>1, <1>4, ReceivedAgent, NoCallTyped DEF WorkTypes
<1>6. /\ call.collect \in DOMAIN diag \cup {None} /\ call.due \notin history.executed
      /\ call.due # None => call.due = Len(runs)
      /\ None \notin history.executed
  BY RunsAreNumbered, Constants DEF Exchange, Requested, WorkTypes
<1>7. Exchange'
  <2>1. /\ call'.pc = "none" /\ ~call'.recorded /\ call'.due = None
        /\ call'.report = None /\ call'.collect = None
    BY ReceivedAgent DEF NoCall
  <2>2. ReportedRuns(agent'.results) = {} /\ Len(agent'.results) = 0
    BY ReceivedAgent, RunsOfResults, EmptySeq DEF ReportedRuns
  <2> QED
    BY <1>1, <1>4, <1>6, <2>1, <2>2, ReceivedAgent DEF Exchange, Requested
<1> QED
  BY <1>5, <1>7

\* What a run of the due job leaves with the agent.
LEMMA RanAgent ==
    ASSUME WorkTypes, Exchange, RunCron, agent.due # None
    PROVE  /\ agent' \in Agents /\ agent'.pc = "upgrade" /\ agent'.due = None
           /\ Len(agent'.results) = 1 /\ ReportedRuns(agent'.results) = {agent.due}
           /\ agent'.report = agent.report /\ agent'.outcome = agent.outcome
           /\ agent'.collect = agent.collect
           /\ \A i \in DOMAIN agent'.results : agent'.results[i].started = clock
           /\ history' = [history EXCEPT !.executed = @ \cup {agent.due}]
<1>1. PICK status \in Done :
         /\ agent' = [agent EXCEPT
                !.pc = "upgrade", !.due = None,
                !.results = Append(@, [run |-> agent.due, status |-> status,
                                       started |-> clock])]
         /\ history' = [history EXCEPT !.executed = @ \cup {agent.due}]
  BY DEF RunCron, Done
<1>2. agent.results = <<>> /\ agent.due \in Nat /\ agent \in Agents
  BY DEF RunCron, Exchange, WorkTypes, Agents
<1> DEFINE new == Append(<<>>, [run |-> agent.due, status |-> status, started |-> clock])
<1>3. /\ new \in Seq(Result) /\ Len(new) = 1 /\ ReportedRuns(new) = {agent.due}
      /\ \A i \in DOMAIN new : new[i].started = clock
  <2>1. clock \in Minute
    BY DEF WorkTypes
  <2> QED
    BY <1>2, <2>1, OneResult
<1>4. agent' = [agent EXCEPT !.pc = "upgrade", !.due = None, !.results = new]
  BY <1>1, <1>2
<1> HIDE DEF new
<1>5. agent' \in Agents
  BY <1>2, <1>3, <1>4, Constants DEF Agents
<1>6. /\ agent'.pc = "upgrade" /\ agent'.due = None /\ agent'.results = new
      /\ agent'.report = agent.report /\ agent'.outcome = agent.outcome
      /\ agent'.collect = agent.collect
  BY <1>2, <1>4 DEF Agents
<1> QED
  BY <1>1, <1>3, <1>5, <1>6

LEMMA TypesRunCron ==
    ASSUME WorkTypes, Exchange, RunCron
    PROVE  WorkTypes' /\ Exchange'
<1>1. /\ agent.pc = "crons" /\ call' = call /\ runs' = runs /\ diag' = diag
      /\ last' = last /\ ep' = ep /\ clock' = clock /\ asking' = asking
      /\ serving' = serving /\ left' = left
  BY DEF RunCron, server
<1>2. call.pc = "none" /\ call.due = None
  BY <1>1 DEF Exchange, AfterResults
<1>3. None \notin history.executed /\ history.executed \subseteq DOMAIN runs
  BY RunsAreNumbered, Constants DEF WorkTypes
<1>4. CASE agent.due = None
  <2>1. agent' = [agent EXCEPT !.pc = "upgrade"] /\ history' = history
    BY <1>4 DEF RunCron
  <2>2. agent' \in Agents
    BY <2>1 DEF WorkTypes, Agents
  <2>3. WorkTypes'
    BY <1>1, <2>1, <2>2 DEF WorkTypes
  <2>4. /\ agent'.pc = "upgrade" /\ agent'.results = agent.results
        /\ agent'.due = None /\ agent'.report = agent.report
        /\ agent'.outcome = agent.outcome /\ agent'.collect = agent.collect
    BY <1>4, <2>1 DEF WorkTypes, Agents
  <2>5. Exchange'
    BY <1>1, <1>2, <1>3, <2>1, <2>4 DEF Exchange, Requested
  <2> QED
    BY <2>3, <2>5
<1>5. CASE agent.due # None
  <2>1. agent.due \in DOMAIN runs
    <3>1. agent.due = Len(runs) /\ agent.due \in Nat /\ agent.due # 0
      BY <1>5, Constants DEF Exchange, WorkTypes, Agents
    <3> QED
      BY <3>1, RunsAreNumbered
  <2>2. /\ history' \in [executed : SUBSET DOMAIN runs, lost : SUBSET DOMAIN runs,
                         undelivered : SUBSET DOMAIN runs, misfiled : SUBSET DOMAIN runs,
                         asked : Nat, raced : BOOLEAN]
        /\ history'.executed = history.executed \cup {agent.due}
    <3> DEFINE ran == history.executed \cup {agent.due}
    <3>1. ran \in SUBSET DOMAIN runs
      BY <2>1 DEF WorkTypes
    <3>2. history' = [history EXCEPT !.executed = ran]
      BY <1>5, RanAgent
    <3> HIDE DEF ran
    <3>3. /\ history' \in [executed : SUBSET DOMAIN runs, lost : SUBSET DOMAIN runs,
                           undelivered : SUBSET DOMAIN runs,
                           misfiled : SUBSET DOMAIN runs, asked : Nat, raced : BOOLEAN]
          /\ history'.executed = ran
      BY <3>1, <3>2 DEF WorkTypes
    <3> QED
      BY <3>3 DEF ran
  <2>3. WorkTypes'
    BY <1>1, <1>5, <2>2, RanAgent DEF WorkTypes
  <2>4. Requested(agent)' /\ Requested(call)'
    BY <1>1, <1>5, RanAgent DEF Exchange, Requested
  <2>5. /\ ReportedRuns(agent.results)' \subseteq history'.executed
        /\ Len(agent'.results) <= 1
    <3>1. /\ ReportedRuns(agent'.results) = {agent.due} /\ Len(agent'.results) = 1
          /\ history'.executed = history.executed \cup {agent.due}
      BY <1>5, <2>2, RanAgent
    <3> QED
      BY <3>1 DEF ReportedRuns
  <2>6. /\ agent'.pc = "upgrade" /\ agent'.due = None /\ None \notin history'.executed
    BY <1>3, <1>5, <2>2, RanAgent
  <2>7. Exchange'
    BY <1>1, <1>2, <2>4, <2>5, <2>6 DEF Exchange
  <2> QED
    BY <2>3, <2>7
<1> QED
  BY <1>4, <1>5

\* What a restart leaves of the agent: none of what was in its memory.
LEMMA RestartedAgent ==
    ASSUME WorkTypes, NEW v \in Nat
    PROVE  /\ Restarted(agent, v) \in Agents
           /\ Restarted(agent, v).pc = "ready" /\ Restarted(agent, v).results = <<>>
           /\ Restarted(agent, v).due = None /\ Restarted(agent, v).report = None
           /\ Restarted(agent, v).collect = None
<1>1. agent \in Agents /\ None \in Nat /\ <<>> \in Seq(Result)
  BY Constants, EmptySeq DEF WorkTypes
<1>2. Restarted(agent, v) \in Agents
  BY <1>1 DEF Restarted, Agents, Outcome
<1> QED
  BY <1>1, <1>2 DEF Restarted, Agents

\* The runs a restart loses.
LEMMA RestartLoses ==
    ASSUME WorkTypes, Exchange
    PROVE  LostByRestart \subseteq DOMAIN runs
<1>1. agent.due # None => agent.due \in DOMAIN runs
  <2> SUFFICES ASSUME agent.due # None
               PROVE  agent.due \in DOMAIN runs
    OBVIOUS
  <2>1. agent.due = Len(runs) /\ agent.due \in Nat /\ agent.due # 0
    BY Constants DEF Exchange, WorkTypes, Agents
  <2> QED
    BY <2>1, RunsAreNumbered
<1> QED
  BY <1>1 DEF LostByRestart, Exchange, WorkTypes

\* A run on its way is one of those that were dispatched.
LEMMA RunOnItsWay ==
    ASSUME WorkTypes, Exchange
    PROVE  Undelivered \subseteq DOMAIN runs /\ history.undelivered \subseteq Undelivered
<1>1. call.due # None => call.due \in DOMAIN runs
  <2> SUFFICES ASSUME call.due # None
               PROVE  call.due \in DOMAIN runs
    OBVIOUS
  <2>1. call.due = Len(runs) /\ call.due \in Nat /\ call.due # 0
    BY Constants DEF Exchange, WorkTypes, Calls
  <2> QED
    BY <2>1, RunsAreNumbered
<1> QED
  BY <1>1 DEF Undelivered, WorkTypes

\* Where an agent that calls nobody is ready or on its way to be, with no run to do.
LEMMA AgentExchange ==
    ASSUME WorkTypes, Exchange, agent' \in Agents, runs' = runs, DOMAIN diag' = DOMAIN diag,
           call'.pc = "none", ~call'.recorded, call'.due = None,
           Requested(call)', Requested(agent)',
           history'.executed = history.executed,
           agent'.pc \notin {"waiting", "crons"}, agent'.due = None,
           agent'.results = agent.results \/ agent'.results = <<>>,
           agent'.pc = "upload" => agent'.collect # None
    PROVE  Exchange'
<1>1. /\ Len(agent'.results) <= 1
      /\ ReportedRuns(agent'.results) \subseteq history'.executed
  <2>1. CASE agent'.results = agent.results
    BY <2>1 DEF Exchange, ReportedRuns
  <2>2. CASE agent'.results = <<>>
    <3>1. ReportedRuns(agent'.results) = {} /\ Len(agent'.results) = 0
      BY <2>2, EmptySeq DEF ReportedRuns
    <3> QED
      BY <3>1
  <2> QED
    BY <2>1, <2>2
<1>2. None \notin history'.executed
  BY RunsAreNumbered, Constants DEF WorkTypes
<1> QED
  BY <1>1, <1>2 DEF Exchange, ReportedRuns

LEMMA TypesUpgrade ==
    ASSUME WorkTypes, Exchange, Upgrade
    PROVE  WorkTypes' /\ Exchange'
<1>1. /\ agent.pc = "upgrade" /\ call' = call /\ runs' = runs /\ diag' = diag
      /\ last' = last /\ ep' = ep /\ clock' = clock /\ asking' = asking
      /\ serving' = serving
  BY DEF Upgrade, server
<1>2. call.pc = "none" /\ call.due = None /\ ~call.recorded /\ agent.due = None
  BY <1>1 DEF Exchange, AfterResults
<1>3. Requested(call)' /\ Requested(agent)
  BY <1>1 DEF Exchange, Requested
<1>4. /\ agent.instruction \in Nat /\ agent.installed \in Nat /\ agent \in Agents
      /\ left \in Scenario
  BY DEF WorkTypes, Agents
<1>5. CASE /\ agent' = [agent EXCEPT !.pc = "diagnose", !.instruction = None]
           /\ UNCHANGED <<history, left>>
  <2>1. /\ agent' \in Agents /\ agent'.pc = "diagnose" /\ agent'.due = None
        /\ agent'.results = agent.results /\ agent'.report = agent.report
        /\ agent'.outcome = agent.outcome /\ agent'.collect = agent.collect
    BY <1>2, <1>4, <1>5, Constants DEF Agents
  <2>2. WorkTypes'
    BY <1>1, <1>5, <2>1 DEF WorkTypes
  <2>3. Requested(agent)'
    BY <1>1, <1>3, <2>1 DEF Requested
  <2>4. Exchange'
    BY <1>1, <1>2, <1>3, <1>5, <2>1, <2>3, AgentExchange
  <2> QED
    BY <2>2, <2>4
<1>6. CASE /\ agent' = Restarted(agent, agent.instruction)
           /\ history' = [history EXCEPT !.lost = LostByRestart]
           /\ UNCHANGED left
  <2>1. /\ agent' \in Agents /\ agent'.pc = "ready" /\ agent'.due = None
        /\ agent'.results = <<>> /\ agent'.report = None /\ agent'.collect = None
    BY <1>4, <1>6, RestartedAgent
  <2>2. /\ history' \in [executed : SUBSET DOMAIN runs, lost : SUBSET DOMAIN runs,
                         undelivered : SUBSET DOMAIN runs, misfiled : SUBSET DOMAIN runs,
                         asked : Nat, raced : BOOLEAN]
        /\ history'.executed = history.executed
    BY <1>6, RestartLoses DEF WorkTypes
  <2>3. WorkTypes'
    BY <1>1, <1>6, <2>1, <2>2 DEF WorkTypes
  <2>4. Requested(agent)'
    BY <2>1 DEF Requested
  <2>5. Exchange'
    BY <1>1, <1>2, <1>3, <2>1, <2>2, <2>4, AgentExchange
  <2> QED
    BY <2>3, <2>5
<1>7. CASE /\ \E installed \in {agent.installed} \cup ({agent.instruction} \ Broken) :
                 agent' = [agent EXCEPT !.pc = "ready", !.installed = installed,
                                 !.phase = "failed", !.desired = agent.instruction,
                                 !.instruction = None, !.collect = None]
           /\ left' = IF agent.instruction \in Broken THEN left
                      ELSE [left EXCEPT !.faults = @ - 1]
           /\ agent.instruction \in Broken \/ left.faults > 0
           /\ UNCHANGED history
  <2>1. PICK installed \in Nat :
                 agent' = [agent EXCEPT !.pc = "ready", !.installed = installed,
                                 !.phase = "failed", !.desired = agent.instruction,
                                 !.instruction = None, !.collect = None]
    BY <1>4, <1>7
  <2>2. /\ agent' \in Agents /\ agent'.pc = "ready" /\ agent'.due = None
        /\ agent'.results = agent.results /\ agent'.report = agent.report
        /\ agent'.outcome = agent.outcome /\ agent'.collect = None
    BY <1>2, <1>4, <2>1, Constants DEF Agents
  <2>3. left' \in Scenario
    BY <1>4, <1>7, FaultLess
  <2>4. WorkTypes'
    BY <1>1, <1>7, <2>2, <2>3 DEF WorkTypes
  <2>5. Requested(agent)'
    BY <1>1, <1>3, <2>2 DEF Requested
  <2>6. Exchange'
    BY <1>1, <1>2, <1>3, <1>7, <2>2, <2>5, AgentExchange
  <2> QED
    BY <2>4, <2>6
<1> QED
  BY <1>5, <1>6, <1>7 DEF Upgrade

LEMMA TypesRequestUpload ==
    ASSUME WorkTypes, Exchange, RequestUpload
    PROVE  WorkTypes' /\ Exchange'
<1>1. /\ agent.pc = "diagnose" /\ call' = call /\ runs' = runs /\ history' = history
      /\ last' = last /\ ep' = ep /\ clock' = clock /\ asking' = asking
      /\ serving' = serving /\ left' = left
  BY DEF RequestUpload
<1>2. call.pc = "none" /\ call.due = None /\ ~call.recorded /\ agent.due = None
  BY <1>1 DEF Exchange, AfterResults
<1>3. /\ agent.collect \in Nat /\ agent \in Agents /\ diag \in Seq(Status)
      /\ Requested(call) /\ Requested(agent)
  BY DEF WorkTypes, Agents, Exchange
<1>4. /\ agent' \in Agents /\ agent'.pc \in {"ready", "upload"} /\ agent'.due = None
      /\ agent'.results = agent.results
      /\ agent'.pc = "upload" => agent'.collect # None
      /\ diag' \in Seq(Status) /\ DOMAIN diag' = DOMAIN diag
      /\ Requested(agent)'
  <2>1. CASE agent.collect = None
    <3>1. agent' = [agent EXCEPT !.pc = "ready"] /\ diag' = diag
      BY <2>1 DEF RequestUpload
    <3> QED
      BY <1>2, <1>3, <3>1 DEF Agents, Requested
  <2>2. CASE agent.collect # None /\ diag[agent.collect] \in {"dispatched", "running"}
    <3>1. /\ diag' = [diag EXCEPT ![agent.collect] = "running"]
          /\ agent' = [agent EXCEPT !.pc = "upload"]
      BY <2>2 DEF RequestUpload
    <3>2. agent.collect \in DOMAIN diag
      BY <1>3, <2>2 DEF Requested
    <3>3. diag' \in Seq(Status) /\ DOMAIN diag' = DOMAIN diag
      BY <1>3, <3>1, <3>2, StatusSet DEF Status
    <3> QED
      BY <1>2, <1>3, <2>2, <3>1, <3>3 DEF Agents, Requested
  <2>3. CASE agent.collect # None /\ diag[agent.collect] \notin {"dispatched", "running"}
    <3>1. /\ agent' = [agent EXCEPT !.pc = "ready", !.collect = None,
                                    !.report = agent.collect, !.outcome = "failed"]
          /\ diag' = diag
      BY <2>3 DEF RequestUpload
    <3>2. agent.collect \in DOMAIN diag
      BY <1>3, <2>3 DEF Requested
    <3> QED
      BY <1>2, <1>3, <3>1, <3>2, Constants DEF Agents, Requested, Outcome
  <2> QED
    BY <2>1, <2>2, <2>3
<1>5. WorkTypes'
  BY <1>1, <1>4 DEF WorkTypes
<1>6. Exchange'
  <2>1. Requested(call)'
    BY <1>1, <1>3, <1>4 DEF Requested
  <2> QED
    BY <1>1, <1>2, <1>4, <2>1, AgentExchange
<1> QED
  BY <1>5, <1>6

LEMMA TypesUpload ==
    ASSUME WorkTypes, Exchange, Upload
    PROVE  WorkTypes' /\ Exchange'
<1>1. /\ agent.pc = "upload" /\ call' = call /\ runs' = runs /\ history' = history
      /\ last' = last /\ ep' = ep /\ clock' = clock /\ asking' = asking
      /\ serving' = serving /\ diag' = diag
  BY DEF Upload, server
<1>2. call.pc = "none" /\ call.due = None /\ ~call.recorded /\ agent.due = None
  BY <1>1 DEF Exchange, AfterResults
<1>3. /\ agent.collect \in DOMAIN diag /\ agent.collect \in Nat /\ agent \in Agents
      /\ Requested(call)
  BY <1>1 DEF WorkTypes, Agents, Exchange, Requested
<1>4. PICK outcome \in {"ready", "failed"} :
         /\ outcome = "failed" => left.faults > 0
         /\ left' = IF outcome = "failed" THEN [left EXCEPT !.faults = @ - 1] ELSE left
         /\ agent' = [agent EXCEPT !.pc = "ready", !.collect = None,
                                   !.report = agent.collect, !.outcome = outcome]
  BY DEF Upload
<1>5. left' \in Scenario
  BY <1>4, FaultLess DEF WorkTypes
<1>6. /\ agent' \in Agents /\ agent'.pc = "ready" /\ agent'.due = None
      /\ agent'.results = agent.results /\ Requested(agent)'
  BY <1>1, <1>2, <1>3, <1>4, Constants DEF Agents, Requested, Outcome
<1>7. WorkTypes'
  BY <1>1, <1>5, <1>6 DEF WorkTypes
<1>8. Exchange'
  <2>1. Requested(call)'
    BY <1>1, <1>3 DEF Requested
  <2> QED
    BY <1>1, <1>2, <1>6, <2>1, AgentExchange
<1> QED
  BY <1>7, <1>8

LEMMA NoCallIsOver ==
    /\ NoCall.pc = "none" /\ ~NoCall.recorded /\ NoCall.due = None
    /\ NoCall.report = None /\ NoCall.collect = None
BY DEF NoCall

LEMMA TypesCallLost ==
    ASSUME WorkTypes, Exchange, CallLost
    PROVE  WorkTypes' /\ Exchange'
<1>1. /\ call.pc # "none" /\ call' = NoCall /\ runs' = runs /\ diag' = diag
      /\ last' = last /\ ep' = ep /\ clock' = clock /\ asking' = asking
      /\ serving' = serving
      /\ agent' = [agent EXCEPT !.pc = "ready"]
      /\ history' = [history EXCEPT !.undelivered = Undelivered]
  BY DEF CallLost, server
<1>2. left' \in Scenario
  BY FaultLess DEF WorkTypes, CallLost
<1>3. /\ agent \in Agents /\ agent.due = None /\ Requested(agent)
  BY <1>1 DEF WorkTypes, Exchange
<1>4. /\ agent' \in Agents /\ agent'.pc = "ready" /\ agent'.due = None
      /\ agent'.results = agent.results /\ Requested(agent)'
  BY <1>1, <1>3 DEF Agents, Requested
<1>5. /\ history' \in [executed : SUBSET DOMAIN runs, lost : SUBSET DOMAIN runs,
                       undelivered : SUBSET DOMAIN runs, misfiled : SUBSET DOMAIN runs,
                       asked : Nat, raced : BOOLEAN]
      /\ history'.executed = history.executed
  BY <1>1, RunOnItsWay DEF WorkTypes
<1>6. WorkTypes'
  BY <1>1, <1>2, <1>4, <1>5, NoCallTyped DEF WorkTypes
<1>7. Exchange'
  <2>1. Requested(call)'
    BY <1>1, NoCallIsOver DEF Requested
  <2> QED
    BY <1>1, <1>4, <1>5, <2>1, NoCallIsOver, AgentExchange
<1> QED
  BY <1>6, <1>7

LEMMA TypesAgentRestart ==
    ASSUME WorkTypes, Exchange, AgentRestart
    PROVE  WorkTypes' /\ Exchange'
<1>1. /\ call' = NoCall /\ runs' = runs /\ diag' = diag
      /\ last' = last /\ ep' = ep /\ clock' = clock /\ asking' = asking
      /\ serving' = serving
      /\ agent' = Restarted(agent, agent.installed)
      /\ history' = [history EXCEPT !.undelivered = Undelivered, !.lost = LostByRestart]
  BY DEF AgentRestart, server
<1>2. left' \in Scenario
  BY FaultLess DEF WorkTypes, AgentRestart
<1>3. /\ agent' \in Agents /\ agent'.pc = "ready" /\ agent'.due = None
      /\ agent'.results = <<>> /\ agent'.report = None /\ agent'.collect = None
  <2>1. agent.installed \in Nat
    BY DEF WorkTypes, Agents
  <2> QED
    BY <1>1, <2>1, RestartedAgent
<1>4. /\ history' \in [executed : SUBSET DOMAIN runs, lost : SUBSET DOMAIN runs,
                       undelivered : SUBSET DOMAIN runs, misfiled : SUBSET DOMAIN runs,
                       asked : Nat, raced : BOOLEAN]
      /\ history'.executed = history.executed
  BY <1>1, RunOnItsWay, RestartLoses DEF WorkTypes
<1>5. WorkTypes'
  BY <1>1, <1>2, <1>3, <1>4, NoCallTyped DEF WorkTypes
<1>6. Exchange'
  <2>1. Requested(call)' /\ Requested(agent)'
    BY <1>1, <1>3, NoCallIsOver DEF Requested
  <2> QED
    BY <1>1, <1>3, <1>4, <2>1, NoCallIsOver, AgentExchange
<1> QED
  BY <1>5, <1>6

\* Where neither the agent nor its call moves, and no run is dispatched.
LEMMA OthersExchange ==
    ASSUME WorkTypes, Exchange, agent' = agent, call' = call, runs' = runs,
           DOMAIN diag \subseteq DOMAIN diag', history'.executed = history.executed
    PROVE  Exchange'
BY DEF Exchange, Requested, ReportedRuns

\* Operators, releases and time.
Others == \/ Publish \/ Tick \/ CreateLook \/ CreateInsert
          \/ \E v \in left.versions : RequestUpgrade(v)
          \/ \E d \in DOMAIN diag : Expire(d)

LEMMA OthersLeave ==
    ASSUME WorkTypes, Others
    PROVE  /\ agent' = agent /\ call' = call /\ runs' = runs /\ last' = last
           /\ DOMAIN diag \subseteq DOMAIN diag' /\ diag' \in Seq(Status)
           /\ clock' \in Minute /\ clock <= clock' /\ left' \in Scenario
           /\ left'.job = left.job
           /\ ep' \in [desired : Nat, reported : Nat]
           /\ asking' \in Nat /\ serving' \in {"served", "blocked", "unmanaged"}
           /\ history'.executed = history.executed /\ history'.lost = history.lost
           /\ history'.undelivered = history.undelivered
           /\ history'.misfiled = history.misfiled
           /\ history' \in [executed : SUBSET DOMAIN runs, lost : SUBSET DOMAIN runs,
                            undelivered : SUBSET DOMAIN runs, misfiled : SUBSET DOMAIN runs,
                            asked : Nat, raced : BOOLEAN]
<1> USE DEF server
<1>1. /\ clock \in Nat /\ clock <= MaxTime /\ left \in Scenario /\ diag \in Seq(Status)
      /\ MaxTime \in Nat /\ Minute = 0..MaxTime
  BY Constants DEF WorkTypes, Minute
<1>2. CASE Publish
  <2>1. left' \in Scenario /\ left'.job = left.job
    BY <1>1, <1>2 DEF Publish, Scenario
  <2> QED
    BY <1>1, <1>2, <2>1 DEF Publish, WorkTypes
<1>3. CASE Tick
  BY <1>1, <1>3 DEF Tick, WorkTypes
<1>4. CASE CreateLook
  <2>1. left' \in Scenario /\ left'.job = left.job
    BY <1>1, <1>4 DEF CreateLook, Scenario
  <2> QED
    BY <1>1, <1>4, <2>1 DEF CreateLook, WorkTypes
<1>5. CASE CreateInsert
  <2>1. diag' = Append(diag, "pending") /\ "pending" \in Status
    BY <1>5 DEF CreateInsert, Status
  <2>2. diag' \in Seq(Status) /\ Len(diag') = Len(diag) + 1
    BY <1>1, <2>1, AppendProperties
  <2>3. DOMAIN diag \subseteq DOMAIN diag'
    BY <1>1, <2>2, LenProperties
  <2> QED
    BY <1>1, <1>5, <2>2, <2>3 DEF CreateInsert, WorkTypes
<1>6. CASE \E v \in left.versions : RequestUpgrade(v)
  <2>1. PICK v \in left.versions : RequestUpgrade(v)
    BY <1>6
  <2>2. v \in Nat
    BY <1>1 DEF Scenario
  <2>3. left' \in Scenario /\ left'.job = left.job
    BY <1>1, <2>1 DEF RequestUpgrade, Scenario
  <2>4. /\ history'.executed = history.executed /\ history'.lost = history.lost
        /\ history'.undelivered = history.undelivered
        /\ history'.misfiled = history.misfiled
        /\ history' \in [executed : SUBSET DOMAIN runs, lost : SUBSET DOMAIN runs,
                         undelivered : SUBSET DOMAIN runs, misfiled : SUBSET DOMAIN runs,
                         asked : Nat, raced : BOOLEAN]
    BY <2>1, <2>2 DEF RequestUpgrade, WorkTypes
  <2>5. ep' \in [desired : Nat, reported : Nat]
    BY <2>1, <2>2 DEF RequestUpgrade, WorkTypes
  <2>6. /\ agent' = agent /\ call' = call /\ runs' = runs /\ last' = last /\ diag' = diag
        /\ clock' = clock /\ asking' = asking /\ serving' = serving
    BY <2>1 DEF RequestUpgrade
  <2> QED
    BY <1>1, <2>3, <2>4, <2>5, <2>6 DEF WorkTypes
<1>7. CASE \E d \in DOMAIN diag : Expire(d)
  <2>1. PICK d \in DOMAIN diag : Expire(d)
    BY <1>7
  <2>2. left' \in Scenario /\ left'.job = left.job
    BY <1>1, <2>1, FaultLess DEF Expire, Scenario
  <2>3. diag' \in Seq(Status) /\ DOMAIN diag' = DOMAIN diag
    BY <1>1, <2>1, StatusSet DEF Expire, Status
  <2> QED
    BY <1>1, <2>1, <2>2, <2>3 DEF Expire, WorkTypes
<1> QED
  BY <1>2, <1>3, <1>4, <1>5, <1>6, <1>7 DEF Others

LEMMA TypesOthers == ASSUME WorkTypes, Exchange, Others PROVE WorkTypes' /\ Exchange'
<1>1. WorkTypes'
  BY OthersLeave DEF WorkTypes
<1>2. Exchange'
  BY OthersLeave, OthersExchange
<1> QED
  BY <1>1, <1>2

LEMMA StepTypes == ASSUME WorkTypes, Exchange, [Next]_vars PROVE WorkTypes' /\ Exchange'
<1>1. CASE Handler
  BY <1>1, TypesReadEndpoint, TypesUpgradeRead, TypesUpgradeWrite, TypesPersistDiagnostic,
     TypesPersistResults, TypesDispatchDue, TypesDispatchDiagnostic DEF Handler
<1>2. CASE Agent
  BY <1>2, TypesSend, TypesReceive, TypesRunCron, TypesUpgrade, TypesRequestUpload,
     TypesUpload DEF Agent
<1>3. CASE CallLost \/ AgentRestart
  BY <1>3, TypesCallLost, TypesAgentRestart
<1>4. CASE Others
  BY <1>4, TypesOthers
<1>5. CASE UNCHANGED vars
  <2>1. WorkTypes'
    BY <1>5 DEF vars, WorkTypes
  <2>2. Exchange'
    BY <1>5 DEF vars, Exchange, Requested, ReportedRuns
  <2> QED
    BY <2>1, <2>2
<1> QED
  BY <1>1, <1>2, <1>3, <1>4, <1>5 DEF Next, Others

-----------------------------------------------------------------------------
(***************************************************************************)
(* What a step does to the runs and their results.                         *)
(***************************************************************************)
\* The job of a scenario stays, and with it the schedule.
LEMMA JobStays ==
    ASSUME WorkTypes, [Next]_vars
    PROVE  left'.job = left.job /\ clock <= clock'
<1>1. left \in Scenario /\ clock \in Nat
  BY Constants DEF WorkTypes, Minute
<1>2. [left EXCEPT !.faults = @ - 1].job = left.job
  BY <1>1 DEF Scenario
<1>3. CASE Others
  BY <1>3, OthersLeave
<1>4. CASE Handler
  <2>1. clock' = clock
    BY <1>4 DEF Handler, ReadEndpoint, UpgradeRead, UpgradeWrite, PersistDiagnostic,
       PersistResults, DispatchDue, DispatchDiagnostic
  <2>2. left' \in {left, [left EXCEPT !.faults = @ - 1]}
    BY <1>4 DEF Handler, ReadEndpoint, UpgradeRead, UpgradeWrite, PersistDiagnostic,
       PersistResults, DispatchDue, DispatchDiagnostic
  <2>3. left'.job = left.job
    <3> DEFINE less == [left EXCEPT !.faults = @ - 1]
    <3>1. less.job = left.job /\ left' \in {left, less}
      BY <1>2, <2>2
    <3> HIDE DEF less
    <3> QED
      BY <3>1
  <2> QED
    BY <1>1, <2>1, <2>3
<1>5. CASE Agent \/ CallLost \/ AgentRestart
  <2>1. clock' = clock
    BY <1>5 DEF Agent, Send, Receive, RunCron, Upgrade, RequestUpload, Upload, CallLost,
       AgentRestart
  <2>2. left' \in {left, [left EXCEPT !.faults = @ - 1]}
    BY <1>5 DEF Agent, Send, Receive, RunCron, Upgrade, RequestUpload, Upload, CallLost,
       AgentRestart
  <2>3. left'.job = left.job
    <3> DEFINE less == [left EXCEPT !.faults = @ - 1]
    <3>1. less.job = left.job /\ left' \in {left, less}
      BY <1>2, <2>2
    <3> HIDE DEF less
    <3> QED
      BY <3>1
  <2> QED
    BY <1>1, <2>1, <2>3
<1>6. CASE UNCHANGED vars
  BY <1>1, <1>6 DEF vars
<1> QED
  BY <1>3, <1>4, <1>5, <1>6 DEF Next, Others

SameHistory == /\ history'.executed = history.executed /\ history'.lost = history.lost
               /\ history'.undelivered = history.undelivered
               /\ history.misfiled \subseteq history'.misfiled

\* Nothing happens to runs or results, or a call begins.
Quiet == /\ last' = last /\ runs' = runs /\ SameHistory
         /\ agent'.results = agent.results /\ agent'.due = agent.due
         /\ call'.due = call.due
         /\ \/ call'.results = call.results /\ call'.recorded = call.recorded
            \/ call'.due = None /\ ~call'.recorded
            \/ call'.due = None /\ call'.results = <<>>

\* The result that was sent is filed.
Records == /\ call.pc = "results" /\ call.results # <<>>
           /\ runs' = runs /\ SameHistory
           /\ agent' = agent
           /\ \E found \in BOOLEAN :
                 /\ last' = Recorded(call.results[1], found)
                 /\ found \/ call.results[1].run \in history'.misfiled
           /\ call'.results = call.results /\ call'.due = call.due

\* A run is dispatched.
Dispatches == /\ agent' = agent /\ history' = history
              /\ call.pc = "due" /\ clock' = clock /\ left' = left
              /\ \E s \in DueSlots(clock) : Dispatched(s)

\* A call is over without its answer, or the agent's memory is.
Loses == /\ last' = last /\ runs' = runs
         /\ history'.executed = history.executed
         /\ history'.misfiled = history.misfiled
         /\ history'.undelivered = Undelivered
         /\ call'.due = None /\ ~call'.recorded
         /\ agent'.due = None
         /\ \/ agent'.results = agent.results /\ history'.lost = history.lost
            \/ agent'.results = <<>> /\ history'.lost = LostByRestart

LEMMA QuietHandler ==
    ASSUME WorkTypes, Exchange,
           \/ ReadEndpoint \/ UpgradeRead \/ UpgradeWrite \/ PersistDiagnostic
           \/ DispatchDiagnostic
    PROVE  Quiet
<1>1. call \in Calls
  BY DEF WorkTypes
<1>2. /\ last' = last /\ runs' = runs /\ history' = history /\ agent' = agent
  BY DEF ReadEndpoint, UpgradeRead, UpgradeWrite, PersistDiagnostic, DispatchDiagnostic,
     server
<1>3. /\ call'.due = call.due /\ call'.results = call.results
      /\ call'.recorded = call.recorded
  <2>1. CASE ReadEndpoint
    BY <1>1, <2>1 DEF ReadEndpoint, Calls
  <2>2. CASE UpgradeRead
    BY <1>1, <2>2 DEF UpgradeRead, Calls
  <2>3. CASE UpgradeWrite
    BY <1>1, <2>3 DEF UpgradeWrite, Calls
  <2>4. CASE PersistDiagnostic
    BY <1>1, <2>4 DEF PersistDiagnostic, Calls
  <2>5. CASE DispatchDiagnostic
    BY <1>1, <2>5 DEF DispatchDiagnostic, Calls
  <2> QED
    BY <2>1, <2>2, <2>3, <2>4, <2>5
<1> QED
  BY <1>2, <1>3 DEF Quiet, SameHistory

LEMMA ResultsAreFiled ==
    ASSUME WorkTypes, Exchange, PersistResults
    PROVE  Quiet \/ Records
<1>1. PICK outcome \in Outcomes : Persists(outcome)
  BY DEF PersistResults, Persists, Outcomes
<1>2. /\ call.pc = "results" /\ runs' = runs /\ agent' = agent
  BY DEF PersistResults
<1>3. /\ call'.due = call.due /\ call'.results = call.results
      /\ call'.recorded = (outcome # "failed")
  BY <1>1 DEF Persists, WorkTypes, Calls
<1>4. call.due = None
  BY <1>2 DEF Exchange, AfterResults
<1>5. /\ SameHistory
      /\ outcome = "misfiled" => ReportedRuns(call.results) \subseteq history'.misfiled
  BY <1>1 DEF Persists, SameHistory, WorkTypes
<1>6. CASE outcome # "failed" /\ call.results # <<>>
  <2>1. last' = Recorded(call.results[1], outcome = "kept")
    BY <1>1, <1>6 DEF Persists
  <2>2. call.results[1].run \in ReportedRuns(call.results)
    BY <1>6, FirstResult DEF ReportedRuns
  <2>3. (outcome = "kept") \/ call.results[1].run \in history'.misfiled
    BY <1>5, <1>6, <2>2 DEF Outcomes
  <2> QED
    BY <1>2, <1>3, <1>5, <1>6, <2>1, <2>3 DEF Records
<1>7. CASE outcome = "failed" \/ call.results = <<>>
  <2>1. last' = last
    BY <1>1, <1>7 DEF Persists
  <2> QED
    BY <1>2, <1>3, <1>4, <1>5, <1>7, <2>1 DEF Quiet
<1> QED
  BY <1>6, <1>7

LEMMA RunIsDispatched ==
    ASSUME WorkTypes, Exchange, DispatchDue
    PROVE  Quiet \/ Dispatches
<1>1. /\ call.pc = "due" /\ history' = history /\ agent' = agent
      /\ clock' = clock /\ left' = left
  BY DEF DispatchDue
<1>2. CASE call' = [call EXCEPT !.pc = "collect"] /\ UNCHANGED <<last, runs>>
  <2>1. /\ call'.due = call.due /\ call'.results = call.results
        /\ call'.recorded = call.recorded
    BY <1>2 DEF WorkTypes, Calls
  <2> QED
    BY <1>1, <1>2, <2>1 DEF Quiet, SameHistory
<1>3. CASE \E s \in DueSlots(clock) : Dispatched(s)
  BY <1>1, <1>3 DEF Dispatches
<1> QED
  BY <1>2, <1>3, DispatchOrNot

LEMMA SendIsQuiet == ASSUME WorkTypes, Exchange, Send PROVE Quiet
<1>1. /\ last' = last /\ runs' = runs /\ history' = history
      /\ agent' = [agent EXCEPT !.pc = "waiting"] /\ call.pc = "none"
  BY DEF Send, server
<1>2. agent'.results = agent.results /\ agent'.due = agent.due
  BY <1>1 DEF WorkTypes, Agents
<1>3. ~call'.recorded /\ call'.due = None
  BY DEF Send, NoCall
<1>4. call.due = None
  BY <1>1 DEF Exchange, AfterResults
<1> QED
  BY <1>1, <1>2, <1>3, <1>4 DEF Quiet, SameHistory

LEMMA UpgradeLoses == ASSUME WorkTypes, Exchange, Upgrade PROVE Quiet \/ Loses
<1>1. /\ last' = last /\ runs' = runs /\ call' = call /\ agent.pc = "upgrade"
  BY DEF Upgrade, server
<1>2. call.due = None /\ ~call.recorded /\ agent.due = None
  BY <1>1 DEF Exchange, AfterResults
<1>3. agent \in Agents /\ agent.instruction \in Nat
  BY DEF WorkTypes, Agents
<1>4. CASE /\ agent' = Restarted(agent, agent.instruction)
           /\ history' = [history EXCEPT !.lost = LostByRestart]
  <2>1. agent'.results = <<>> /\ agent'.due = None
    BY <1>3, <1>4, RestartedAgent
  <2>2. /\ history'.executed = history.executed /\ history'.lost = LostByRestart
        /\ history'.undelivered = history.undelivered
        /\ history'.misfiled = history.misfiled
    BY <1>4 DEF WorkTypes
  <2>3. Undelivered = history.undelivered
    BY <1>2 DEF Undelivered
  <2> QED
    BY <1>1, <1>2, <2>1, <2>2, <2>3 DEF Loses
<1>5. CASE /\ history' = history
           /\ \/ agent' = [agent EXCEPT !.pc = "diagnose", !.instruction = None]
              \/ \E installed \in {agent.installed} \cup ({agent.instruction} \ Broken) :
                    agent' = [agent EXCEPT !.pc = "ready", !.installed = installed,
                                 !.phase = "failed", !.desired = agent.instruction,
                                 !.instruction = None, !.collect = None]
  <2>1. agent'.results = agent.results /\ agent'.due = agent.due
    BY <1>3, <1>5 DEF Agents
  <2> QED
    BY <1>1, <1>5, <2>1 DEF Quiet, SameHistory
<1> QED
  BY <1>4, <1>5 DEF Upgrade

LEMMA DiagnosticsAreQuiet ==
    ASSUME WorkTypes, Exchange, RequestUpload \/ Upload
    PROVE  Quiet
<1>1. last' = last /\ runs' = runs /\ call' = call /\ history' = history
  BY DEF RequestUpload, Upload, server
<1>2. agent'.results = agent.results /\ agent'.due = agent.due
  <2>1. agent \in Agents
    BY DEF WorkTypes
  <2>2. CASE RequestUpload
    BY <2>1, <2>2 DEF RequestUpload, Agents
  <2>3. CASE Upload
    BY <2>1, <2>3 DEF Upload, Agents
  <2> QED
    BY <2>2, <2>3
<1> QED
  BY <1>1, <1>2 DEF Quiet, SameHistory

LEMMA IdleIsQuiet ==
    ASSUME WorkTypes, RunCron, agent.due = None
    PROVE  Quiet
<1>1. last' = last /\ runs' = runs /\ call' = call /\ history' = history
  BY DEF RunCron, server
<1>2. agent'.results = agent.results /\ agent'.due = agent.due
  BY DEF RunCron, WorkTypes, Agents
<1> QED
  BY <1>1, <1>2 DEF Quiet, SameHistory

LEMMA FailuresLose ==
    ASSUME WorkTypes, Exchange, CallLost \/ AgentRestart
    PROVE  Loses
<1>1. last' = last /\ runs' = runs /\ call' = NoCall
  BY DEF CallLost, AgentRestart, server
<1>2. call'.due = None /\ ~call'.recorded
  BY <1>1, NoCallIsOver
<1>3. agent \in Agents /\ agent.installed \in Nat
  BY DEF WorkTypes, Agents
<1>4. CASE CallLost
  <2>1. /\ agent' = [agent EXCEPT !.pc = "ready"] /\ call.pc # "none"
        /\ history' = [history EXCEPT !.undelivered = Undelivered]
    BY <1>4 DEF CallLost
  <2>2. agent'.results = agent.results /\ agent'.due = agent.due /\ agent.due = None
    BY <1>3, <2>1 DEF Agents, Exchange
  <2>3. /\ history'.executed = history.executed /\ history'.lost = history.lost
        /\ history'.undelivered = Undelivered /\ history'.misfiled = history.misfiled
    BY <2>1 DEF WorkTypes
  <2> QED
    BY <1>1, <1>2, <2>2, <2>3 DEF Loses
<1>5. CASE AgentRestart
  <2>1. /\ agent' = Restarted(agent, agent.installed)
        /\ history' = [history EXCEPT !.undelivered = Undelivered, !.lost = LostByRestart]
    BY <1>5 DEF AgentRestart
  <2>2. agent'.results = <<>> /\ agent'.due = None
    BY <1>3, <2>1, RestartedAgent
  <2>3. /\ history'.executed = history.executed /\ history'.lost = LostByRestart
        /\ history'.undelivered = Undelivered /\ history'.misfiled = history.misfiled
    BY <2>1 DEF WorkTypes
  <2> QED
    BY <1>1, <1>2, <2>2, <2>3 DEF Loses
<1> QED
  BY <1>4, <1>5

\* What a step may do to the runs and their results.
LEMMA StepEffect ==
    ASSUME WorkTypes, Exchange, [Next]_vars
    PROVE  \/ Quiet \/ Records \/ Dispatches \/ Receive \/ Loses
           \/ RunCron /\ agent.due # None
<1>1. CASE Handler
  BY <1>1, QuietHandler, ResultsAreFiled, RunIsDispatched DEF Handler
<1>2. CASE Agent
  BY <1>2, SendIsQuiet, UpgradeLoses, DiagnosticsAreQuiet, IdleIsQuiet DEF Agent
<1>3. CASE CallLost \/ AgentRestart
  BY <1>3, FailuresLose
<1>4. CASE Others
  BY <1>4, OthersLeave DEF Quiet, SameHistory
<1>5. CASE UNCHANGED vars
  BY <1>5 DEF vars, Quiet, SameHistory
<1> QED
  BY <1>1, <1>2, <1>3, <1>4, <1>5 DEF Next, Others

-----------------------------------------------------------------------------
(***************************************************************************)
(* The slots of runs.                                                      *)
(***************************************************************************)
OnJob(job, t) == \E p \in job : PartMatches(p, t % WheelSize)

LEMMA InitSlots == Init => Slots
BY DEF Init, Slots, Done

LEMMA RunsKept ==
    ASSUME WorkTypes, Exchange, Slots, [Next]_vars, runs' = runs
    PROVE  \A r \in DOMAIN runs' :
              /\ runs'[r].slot <= runs'[r].at /\ runs'[r].at <= clock'
              /\ OnJob(left'.job, runs'[r].slot)
<1>1. left'.job = left.job /\ clock <= clock'
  BY JobStays
<1>2. clock \in Nat /\ clock' \in Nat
  BY StepTypes, Constants DEF WorkTypes, Minute
<1>3. \A r \in DOMAIN runs : runs[r].at \in Nat
  BY RunsAreNumbered, Constants DEF Minute
<1>4. \A r \in DOMAIN runs : runs[r].at <= clock => runs[r].at <= clock'
  BY <1>1, <1>2, <1>3
<1> QED
  BY <1>1, <1>4 DEF Slots, Matches, OnJob

LEMMA SlotsKept ==
    ASSUME WorkTypes, Exchange, Slots, [Next]_vars, runs' = runs, last' = last
    PROVE  Slots'
BY RunsKept DEF Slots, Matches, OnJob

\* A result is of a run that was dispatched.
LEMMA ResultHasRun ==
    ASSUME WorkTypes, Exchange, agent.results # <<>>
    PROVE  runs # <<>>
<1>1. agent.results \in Seq(Result)
  BY DEF WorkTypes, Agents
<1>2. 1 \in DOMAIN agent.results
  BY <1>1, EmptySeq, LenProperties
<1>3. agent.results[1].run \in DOMAIN runs
  BY <1>2 DEF Exchange, ReportedRuns, WorkTypes
<1> QED
  BY <1>3

\* What the row holds of the result that was sent, and of its slot.
LEMMA RowOfResult ==
    ASSUME WorkTypes, Exchange, Slots, Records
    PROVE  /\ 1 \in DOMAIN agent.results /\ agent.results[1] \in Result
           /\ last.status # "none" /\ last.slot \in Minute
           /\ last'.status \in Done /\ last'.slot \in Minute
           /\ last'.run = agent.results[1].run /\ last'.started = agent.results[1].started
           /\ \/ last'.slot = last.slot
              \/ /\ last'.slot = last'.started
                 /\ last'.run \in history'.misfiled
<1>1. call.results = agent.results /\ call.results # <<>>
  BY DEF Records, Exchange
<1>2. 1 \in DOMAIN agent.results /\ agent.results[1] \in Result
  BY <1>1, FirstResult
<1>3. runs # <<>> /\ last.status # "none"
  BY <1>1, ResultHasRun DEF Slots
<1>4. last.slot \in Minute
  <2>1. CASE last.status = "running"
    BY <1>3, <2>1, RunsAreNumbered DEF Slots
  <2>2. CASE last.status \in Done
    BY <2>2 DEF Slots
  <2> QED
    BY <1>3, <2>1, <2>2 DEF WorkTypes
<1> DEFINE result == agent.results[1]
<1>5. PICK found \in BOOLEAN : /\ last' = Recorded(result, found)
                               /\ found \/ result.run \in history'.misfiled
  BY <1>1 DEF Records
<1>6. result \in Result
  BY <1>2
<1> HIDE DEF result
<1>7. /\ last'.status \in Done /\ last'.run = result.run /\ last'.started = result.started
      /\ result.started \in Minute
  BY <1>5, <1>6 DEF Recorded, Result
<1>8. /\ found => last'.slot = last.slot
      /\ ~found => last'.slot = result.started
  BY <1>5 DEF Recorded
<1> QED
  BY <1>2, <1>3, <1>4, <1>5, <1>7, <1>8 DEF result

LEMMA StepSlots ==
    ASSUME WorkTypes, Exchange, Slots, [Next]_vars
    PROVE  Slots'
<1>1. CASE Quiet \/ Loses
  BY <1>1, SlotsKept DEF Quiet, Loses
<1>2. CASE Receive \/ RunCron
  <2>1. last' = last /\ runs' = runs
    BY <1>2 DEF Receive, RunCron, server
  <2> QED
    BY <2>1, SlotsKept
<1>3. CASE Records
  <2>1. runs' = runs /\ last.status # "none" /\ last'.status \in Done
        /\ last'.slot \in Minute
    BY <1>3, RowOfResult DEF Records
  <2> QED
    BY <2>1, RunsKept DEF Slots, Matches, OnJob, Done
<1>4. CASE Dispatches
  <2>1. PICK s \in DueSlots(clock) : Dispatched(s)
    BY <1>4 DEF Dispatches
  <2>2. s \in Minute /\ s <= clock /\ Matches(s)
    BY DueSlotIsNext
  <2>3. /\ runs' # <<>> /\ DOMAIN runs' = DOMAIN runs \cup {Len(runs')}
        /\ \A r \in DOMAIN runs : runs'[r] = runs[r]
        /\ runs'[Len(runs')] = [slot |-> s, at |-> clock]
    BY <2>1, <2>2, RunAdded DEF Dispatched
  <2>4. clock' = clock /\ left' = left
    BY <1>4 DEF Dispatches
  <2>5. \A r \in DOMAIN runs' : /\ runs'[r].slot <= runs'[r].at /\ runs'[r].at <= clock'
                                /\ OnJob(left'.job, runs'[r].slot)
    <3>1. clock <= clock
      BY Constants DEF WorkTypes, Minute
    <3>2. \A r \in DOMAIN runs : /\ runs[r].slot <= runs[r].at /\ runs[r].at <= clock
                                 /\ OnJob(left.job, runs[r].slot)
      BY DEF Slots, Matches, OnJob
    <3>3. OnJob(left.job, s)
      BY <2>2 DEF Matches, OnJob
    <3>4. \A r \in DOMAIN runs : /\ runs'[r].slot <= runs'[r].at /\ runs'[r].at <= clock'
                                 /\ OnJob(left'.job, runs'[r].slot)
      BY <2>3, <2>4, <3>2
    <3>5. runs'[Len(runs')].slot = s /\ runs'[Len(runs')].at = clock
      BY <2>3
    <3> QED
      BY <2>2, <2>3, <2>4, <3>1, <3>3, <3>4, <3>5
  <2>6. /\ last'.status = "running" /\ last'.run = Len(runs')
        /\ last'.slot = runs'[Len(runs')].slot
    BY <2>1, <2>3 DEF Dispatched
  <2> QED
    BY <2>3, <2>5, <2>6 DEF Slots, Matches, OnJob, Done
<1> QED
  BY <1>1, <1>2, <1>3, <1>4, StepEffect

-----------------------------------------------------------------------------
(***************************************************************************)
(* Where the results are.                                                  *)
(***************************************************************************)
\* What is sent is of runs that were carried out.
LEMMA SentWasCarriedOut ==
    ASSUME WorkTypes, Exchange
    PROVE  /\ ReportedRuns(agent.results) \subseteq history.executed
           /\ history.executed \subseteq DOMAIN runs
           /\ call.pc # "none" => call.results = agent.results
BY DEF WorkTypes, Exchange

\* The slot dispatched is not before that of a run that is told, nor that of one that is
\* closed.
LEMMA DispatchedIsNew ==
    ASSUME WorkTypes, Exchange, Slots, Results, NEW s \in DueSlots(clock), NEW r \in Told
    PROVE  /\ runs[r].slot <= s
           /\ Closed(r) => runs[r].slot # s
<1>1. r \in DOMAIN runs
  BY SentWasCarriedOut DEF Told
<1>2. last.status # "none" /\ runs[r].slot <= last.slot
  BY <1>1 DEF Slots, Results
<1>3. /\ last.slot <= s
      /\ last.status \in Done => last.slot < s
      /\ last.slot \in Nat /\ s \in Nat /\ runs[r].slot \in Nat
  BY <1>1, <1>2, DueSlotIsNext, RunsAreNumbered, Constants DEF Minute
<1>4. CASE last.status \in Done
  BY <1>2, <1>3, <1>4
<1>5. CASE last.slot # runs[r].slot
  BY <1>2, <1>3, <1>5
<1> QED
  BY <1>2, <1>3, <1>4, <1>5 DEF Closed

ResultInv == Results /\ Pending /\ Undone /\ TwiceOnlyIfLost /\ DoneNamesItsRun

LEMMA InitResults == Init => ResultInv
<1> SUFFICES ASSUME Init
             PROVE  ResultInv
  OBVIOUS
<1>1. /\ history.executed = {} /\ ~call.recorded /\ call.due = None /\ agent.due = None
      /\ runs = <<>> /\ last.status = "none" /\ agent.results = <<>>
  BY DEF Init, NoCall
<1>2. Results /\ Undone
  BY <1>1 DEF Results, Undone, Told
<1>3. Pending
  BY <1>1 DEF Pending
<1>4. TwiceOnlyIfLost /\ DoneNamesItsRun
  BY <1>1 DEF TwiceOnlyIfLost, DoneNamesItsRun
<1> QED
  BY <1>2, <1>3, <1>4 DEF ResultInv

\* What the row says of runs that are done stays so while the row and the runs do.
LEMMA DoneKept ==
    ASSUME DoneNamesItsRun, last' = last, runs' = runs,
           history.executed \subseteq history'.executed,
           history.undelivered \subseteq history'.undelivered,
           history.misfiled \subseteq history'.misfiled
    PROVE  DoneNamesItsRun'
BY DEF DoneNamesItsRun

LEMMA QuietResults ==
    ASSUME WorkTypes, Exchange, ResultInv, Quiet
    PROVE  ResultInv'
<1>1. /\ last' = last /\ runs' = runs /\ agent'.results = agent.results
      /\ agent'.due = agent.due /\ call'.due = call.due
      /\ history'.executed = history.executed /\ history'.lost = history.lost
      /\ history'.undelivered = history.undelivered
      /\ history.misfiled \subseteq history'.misfiled
  BY DEF Quiet, SameHistory
<1>2. \/ call'.results = call.results /\ call'.recorded = call.recorded
      \/ call'.due = None /\ ~call'.recorded
      \/ call'.due = None /\ ReportedRuns(call'.results) = {}
  BY DEF Quiet, ReportedRuns
<1>3. Results'
  <2>1. \A r \in Told' : /\ r \in ReportedRuns(agent'.results) \/ Closed(r)'
                         /\ runs'[r].slot <= last'.slot
    BY <1>1 DEF ResultInv, Results, Closed, Told
  <2>2. call'.recorded =>
           \A r \in ReportedRuns(call'.results) \ history'.lost : Closed(r)'
    BY <1>1, <1>2 DEF ResultInv, Results, Closed
  <2>3. call'.due # None =>
           \A r \in SameSlot(call.due)' \ history'.lost :
              r \in ReportedRuns(call'.results) /\ ~call'.recorded
    BY <1>1, <1>2 DEF ResultInv, Results, SameSlot
  <2>4. agent'.due # None => SameSlot(agent.due)' \subseteq history'.lost
    BY <1>1 DEF ResultInv, Results, SameSlot
  <2> QED
    BY <2>1, <2>2, <2>3, <2>4 DEF Results, ReportedRuns
<1>4. Pending'
  BY <1>1 DEF ResultInv, Pending, Newest, Told
<1>5. Undone'
  BY <1>1 DEF ResultInv, Undone, ReportedRuns
<1>6. TwiceOnlyIfLost'
  BY <1>1 DEF ResultInv, TwiceOnlyIfLost
<1>7. DoneNamesItsRun'
  BY <1>1, DoneKept DEF ResultInv
<1> QED
  BY <1>3, <1>4, <1>5, <1>6, <1>7 DEF ResultInv

LEMMA RecordsResults ==
    ASSUME WorkTypes, Exchange, Slots, ResultInv, Records
    PROVE  ResultInv'
<1>1. /\ runs' = runs /\ agent' = agent
      /\ history'.executed = history.executed /\ history'.lost = history.lost
      /\ history'.undelivered = history.undelivered
      /\ history.misfiled \subseteq history'.misfiled
      /\ call'.results = call.results /\ call'.due = call.due
      /\ call.pc = "results" /\ call.results # <<>>
  BY DEF Records, SameHistory
<1>2. /\ call.due = None /\ agent.due = None /\ call.results = agent.results
  BY <1>1 DEF Exchange, AfterResults
<1> DEFINE result == agent.results[1]
           r == result.run
           n == Len(runs)
<1>3. /\ 1 \in DOMAIN agent.results /\ result \in Result
      /\ last'.status \in Done /\ last'.run = r /\ last'.started = result.started
      /\ last.status # "none"
      /\ \/ last'.slot = last.slot
         \/ last'.slot = last'.started /\ r \in history'.misfiled
  BY RowOfResult
<1>4. DOMAIN agent.results = {1}
  <2>1. agent.results \in Seq(Result) /\ Len(agent.results) <= 1
    BY DEF WorkTypes, Agents, Exchange
  <2> QED
    BY <1>3, <2>1, LenProperties
<1>5. /\ \A q \in Told : runs[q].slot <= result.started
      /\ last.status \in Done => last.run = r /\ last.started = result.started
  BY <1>3 DEF ResultInv, Pending, Newest
<1>6. r \in ReportedRuns(agent.results) /\ r \in history.executed /\ r \in DOMAIN runs
  BY <1>3, SentWasCarriedOut DEF ReportedRuns
<1>7. n \in DOMAIN runs /\ n # None /\ r \in Nat /\ n \in Nat
  BY <1>6, RunsAreNumbered, Constants
<1>8. Results'
  <2>1. Told' = Told /\ \A q \in Told : runs[q].slot <= last'.slot
    BY <1>1, <1>3, <1>5 DEF Told, ResultInv, Results
  <2>2. \A q : Closed(q)'
    BY <1>3 DEF Closed
  <2> QED
    BY <1>1, <1>2, <2>1, <2>2 DEF Results
<1>9. Pending'
  <2>1. \A i \in DOMAIN agent.results : agent.results[i] = result
    BY <1>4
  <2>2. \A q \in Told' : runs'[q].slot <= result.started
    BY <1>1, <1>5 DEF Told
  <2>3. \A i \in DOMAIN agent'.results : Newest(agent.results[i])'
    BY <1>1, <1>3, <2>1, <2>2 DEF Newest
  <2> QED
    BY <1>1, <1>2, <2>3 DEF Pending
<1>10. Undone'
  BY <1>1 DEF ResultInv, Undone, ReportedRuns
<1>11. TwiceOnlyIfLost'
  BY <1>1 DEF ResultInv, TwiceOnlyIfLost
<1>12. DoneNamesItsRun'
  <2>1. \A q \in DOMAIN runs : q > r => q \in history.undelivered
    <3>1. \A q \in DOMAIN runs : q \in Nat /\ q # None
      BY RunsAreNumbered, Constants
    <3> QED
      BY <1>2, <1>6, <1>7, <3>1 DEF ResultInv, Undone
  <2>2. \/ last'.slot = runs[n].slot
        \/ r \in history'.misfiled /\ last'.slot = last'.started
    <3>1. CASE last'.slot = last.slot /\ last.status = "running"
      BY <3>1 DEF Slots
    <3>2. CASE last'.slot = last.slot /\ last.status \in Done
      <4>1. \/ last.slot = runs[n].slot
            \/ last.run \in history.misfiled /\ last.slot = last.started
        BY <3>2 DEF ResultInv, DoneNamesItsRun, Done
      <4> QED
        BY <1>1, <1>3, <1>5, <3>2, <4>1
    <3>3. last.status = "running" \/ last.status \in Done
      BY <1>3 DEF WorkTypes
    <3> QED
      BY <1>3, <3>1, <3>2, <3>3
  <2> HIDE DEF n, r, result
  <2>3. last'.run = r /\ Len(runs') = n
    BY <1>1, <1>3 DEF n
  <2> QED
    BY <1>1, <1>6, <2>1, <2>2, <2>3 DEF DoneNamesItsRun, n
<1> QED
  BY <1>8, <1>9, <1>10, <1>11, <1>12 DEF ResultInv

LEMMA DispatchesResults ==
    ASSUME WorkTypes, Exchange, Slots, ResultInv, Dispatches
    PROVE  ResultInv'
<1>1. PICK s \in DueSlots(clock) : Dispatched(s)
  BY DEF Dispatches
<1>2. agent' = agent /\ history' = history /\ call.pc = "due"
  BY DEF Dispatches
<1>3. /\ call'.due = Len(runs') /\ call'.results = call.results
      /\ call'.recorded = call.recorded
      /\ last'.status = "running" /\ last'.slot = s
  BY <1>1 DEF Dispatched, WorkTypes, Calls
<1>4. /\ call.due = None /\ agent.due = None /\ call.results = agent.results
  BY <1>2 DEF Exchange
<1>5. /\ DOMAIN runs' = DOMAIN runs \cup {Len(runs')}
      /\ \A r \in DOMAIN runs : runs'[r] = runs[r]
      /\ runs'[Len(runs')].slot = s
      /\ Len(runs') \notin DOMAIN runs
  <2>1. s \in Minute
    BY DueSlotIsNext
  <2> QED
    BY <1>1, <2>1, RunAdded DEF Dispatched
<1>6. /\ ReportedRuns(call.results) \subseteq DOMAIN runs
      /\ history.executed \subseteq DOMAIN runs /\ Told \subseteq DOMAIN runs
      /\ Told' = Told
  BY <1>2, <1>4, SentWasCarriedOut DEF Told
<1>7. \A r \in Told : /\ runs'[r].slot <= s
                      /\ Closed(r) => runs'[r].slot # s
  <2>1. Results
    BY DEF ResultInv
  <2> QED
    BY <1>5, <1>6, <2>1, DispatchedIsNew
<1>8. \A r \in Told : Closed(r) => Closed(r)'
  BY <1>3, <1>7 DEF Closed
<1>9. Results'
  <2>1. \A r \in Told' : /\ r \in ReportedRuns(agent'.results) \/ Closed(r)'
                         /\ runs'[r].slot <= last'.slot
    BY <1>2, <1>3, <1>6, <1>7, <1>8 DEF ResultInv, Results
  <2>2. call'.recorded =>
           \A r \in ReportedRuns(call'.results) \ history'.lost : Closed(r)'
    <3>1. ReportedRuns(call.results) \ history.lost \subseteq Told
      BY <1>4, SentWasCarriedOut DEF Told
    <3> QED
      BY <1>2, <1>3, <1>8, <3>1 DEF ResultInv, Results
  <2>3. \A r \in Told :
           runs'[r].slot = s => r \in ReportedRuns(call.results) /\ ~call.recorded
    BY <1>4, <1>7 DEF ResultInv, Results, Told
  <2>4. \A r \in SameSlot(call.due)' \ history'.lost :
           r \in ReportedRuns(call'.results) /\ ~call'.recorded
    BY <1>2, <1>3, <1>5, <2>3 DEF SameSlot, Told
  <2> QED
    BY <1>2, <1>4, <2>1, <2>2, <2>4 DEF Results, ReportedRuns
<1>10. Pending'
  <2>1. \A i \in DOMAIN agent'.results : Newest(agent.results[i])'
    BY <1>2, <1>3, <1>5, <1>6 DEF ResultInv, Pending, Newest, Done
  <2> QED
    BY <1>3, <2>1 DEF Pending
<1>11. Undone'
  <2>1. \A n \in DOMAIN runs : n # call.due
    BY <1>4, RunsAreNumbered, Constants
  <2>2. ReportedRuns(agent'.results) = ReportedRuns(agent.results)
    BY <1>2
  <2>3. ASSUME NEW r \in ReportedRuns(agent.results), NEW n \in DOMAIN runs', r < n
        PROVE  n \in history'.undelivered \cup {call'.due}
    <3>1. CASE n \in DOMAIN runs
      <4>1. n \in history.undelivered \cup {call.due}
        BY <2>3, <3>1 DEF ResultInv, Undone
      <4> QED
        BY <1>2, <2>1, <3>1, <4>1
    <3>2. CASE n = Len(runs')
      BY <1>3, <3>2
    <3> QED
      BY <1>5, <3>1, <3>2
  <2> QED
    BY <2>2, <2>3 DEF Undone, ReportedRuns
<1>12. TwiceOnlyIfLost'
  BY <1>2, <1>5, <1>6 DEF ResultInv, TwiceOnlyIfLost
<1>13. DoneNamesItsRun'
  BY <1>3 DEF DoneNamesItsRun
<1> QED
  BY <1>9, <1>10, <1>11, <1>12, <1>13 DEF ResultInv

LEMMA ReceiveResults ==
    ASSUME WorkTypes, Exchange, ResultInv, Receive
    PROVE  ResultInv'
<1>1. /\ call.pc = "answered" /\ runs' = runs /\ last' = last
      /\ history'.executed = history.executed
      /\ history'.undelivered = history.undelivered
      /\ history'.misfiled = history.misfiled
      /\ history'.lost = IF call.recorded THEN history.lost
                         ELSE history.lost \cup ReportedRuns(call.results)
  BY DEF Receive, server, WorkTypes
<1>2. /\ agent'.results = <<>> /\ agent'.due = call.due /\ call' = NoCall
      /\ call.results = agent.results
  BY ReceivedAgent
<1>3. /\ ReportedRuns(agent'.results) = {} /\ call'.due = None /\ ~call'.recorded
      /\ DOMAIN agent'.results = {}
  BY <1>2, NoCallIsOver DEF ReportedRuns
<1>4. Results'
  <2>1. \A r \in Told' : Closed(r)' /\ runs'[r].slot <= last'.slot
    BY <1>1, <1>2 DEF ResultInv, Results, Closed, Told
  <2>2. agent'.due # None => SameSlot(agent.due)' \subseteq history'.lost
    BY <1>1, <1>2 DEF ResultInv, Results, SameSlot
  <2> QED
    BY <1>3, <2>1, <2>2 DEF Results
<1>5. Pending' /\ Undone'
  BY <1>1, <1>2, <1>3 DEF ResultInv, Pending, Undone, ReportedRuns
<1>6. TwiceOnlyIfLost'
  BY <1>1 DEF ResultInv, TwiceOnlyIfLost
<1>7. DoneNamesItsRun'
  BY <1>1, DoneKept DEF ResultInv
<1> QED
  BY <1>4, <1>5, <1>6, <1>7 DEF ResultInv

LEMMA RunCronResults ==
    ASSUME WorkTypes, Exchange, Slots, ResultInv, RunCron, agent.due # None
    PROVE  ResultInv'
<1> DEFINE q == agent.due
<1>1. /\ agent.pc = "crons" /\ runs' = runs /\ last' = last /\ call' = call
  BY DEF RunCron, server
<1>2. /\ history'.executed = history.executed \cup {q}
      /\ history'.lost = history.lost /\ history'.undelivered = history.undelivered
      /\ history'.misfiled = history.misfiled
  BY RanAgent DEF WorkTypes
<1>3. ReportedRuns(agent'.results) = {q} /\ agent'.due = None
  BY RanAgent
<1>4. agent.results = <<>> /\ q = Len(runs) /\ last.status = "running"
  BY <1>1 DEF Exchange, ResultInv, Pending
<1>5. call.due = None /\ ~call.recorded
  BY <1>1 DEF Exchange, AfterResults
<1>6. /\ Told' \subseteq Told \cup {q} /\ Told \cup {q} \subseteq DOMAIN runs
      /\ runs[q].slot = last.slot
  <2>1. q \in DOMAIN runs /\ runs[q].slot = last.slot
    <3>1. runs # <<>>
      BY <1>4 DEF Slots
    <3> QED
      BY <1>4, <3>1, RunsAreNumbered DEF Slots
  <2> QED
    BY <1>2, <2>1, SentWasCarriedOut DEF Told
<1>7. Results'
  <2>1. ReportedRuns(agent.results) = {}
    BY <1>4 DEF ReportedRuns
  <2>2. last.slot <= last.slot
    <3>1. last.slot \in Nat
      BY <1>6, RunsAreNumbered, Constants DEF Minute
    <3> QED
      BY <3>1
  <2>3. \A r \in Told' : /\ r \in ReportedRuns(agent'.results) \/ Closed(r)'
                         /\ runs'[r].slot <= last'.slot
    BY <1>1, <1>3, <1>6, <2>1, <2>2 DEF ResultInv, Results, Closed
  <2> QED
    BY <1>1, <1>3, <1>5, <2>3 DEF Results, ReportedRuns
<1>8. Pending'
  <2>1. \A r \in Told' : runs'[r].slot <= clock
    <3> SUFFICES ASSUME NEW r \in Told'
                 PROVE  runs[r].slot <= clock
      BY <1>1
    <3>1. r \in DOMAIN runs
      BY <1>6
    <3>2. runs[r].slot <= runs[r].at /\ runs[r].at <= clock
      BY <3>1 DEF Slots
    <3>3. runs[r].slot \in Nat /\ runs[r].at \in Nat /\ clock \in Nat
      BY <3>1, RunsAreNumbered, Constants DEF Minute, WorkTypes
    <3> QED
      BY <3>2, <3>3
  <2>2. \A i \in DOMAIN agent'.results : agent'.results[i].started = clock
    BY RanAgent
  <2>3. \A i \in DOMAIN agent'.results : Newest(agent.results[i])'
    BY <1>1, <1>4, <2>1, <2>2 DEF Newest, Done
  <2> QED
    BY <1>1, <1>3, <1>5, <2>3 DEF Pending
<1>9. Undone'
  <2>1. \A n \in DOMAIN runs : ~(q < n)
    BY <1>4, RunsAreNumbered
  <2> QED
    BY <1>1, <1>3, <2>1 DEF Undone, ReportedRuns
<1>10. TwiceOnlyIfLost'
  <2> SUFFICES ASSUME NEW r \in history'.executed, NEW p \in history'.executed,
                      r < p, runs[r].slot = runs[p].slot
               PROVE  r \in history.lost
    BY <1>1, <1>2 DEF TwiceOnlyIfLost
  <2>1. history.executed \subseteq DOMAIN runs
    BY SentWasCarriedOut
  <2>2. CASE r \in history.executed /\ p \in history.executed
    BY <2>2 DEF ResultInv, TwiceOnlyIfLost
  <2>3. CASE r \in history.executed /\ p = q
    BY <2>3 DEF ResultInv, Results, SameSlot
  <2>4. r # q
    <3>1. \A n \in DOMAIN runs : ~(q < n)
      BY <1>4, RunsAreNumbered
    <3>2. ~(q < q)
      BY <1>4, RunsAreNumbered
    <3> QED
      BY <1>2, <2>1, <3>1, <3>2
  <2> QED
    BY <1>2, <2>2, <2>3, <2>4
<1>11. DoneNamesItsRun'
  BY <1>1, <1>2, DoneKept DEF ResultInv
<1> QED
  BY <1>7, <1>8, <1>9, <1>10, <1>11 DEF ResultInv

LEMMA LosesResults ==
    ASSUME WorkTypes, Exchange, ResultInv, Loses
    PROVE  ResultInv'
<1>1. /\ last' = last /\ runs' = runs /\ history'.executed = history.executed
      /\ history'.undelivered = Undelivered /\ history'.misfiled = history.misfiled
      /\ call'.due = None /\ ~call'.recorded /\ agent'.due = None
  BY DEF Loses
<1>2. /\ history.undelivered \subseteq Undelivered
      /\ call.due # None => call.due \in Undelivered
  BY DEF Undelivered
<1>3. \/ /\ agent'.results = agent.results
         /\ ReportedRuns(agent'.results) = ReportedRuns(agent.results)
         /\ history'.lost = history.lost
      \/ /\ DOMAIN agent'.results = {}
         /\ ReportedRuns(agent'.results) = {}
         /\ history.lost \cup ReportedRuns(agent.results) \subseteq history'.lost
  BY DEF Loses, ReportedRuns, LostByRestart
<1>4. Told' \subseteq Told
  BY <1>1, <1>3 DEF Told
<1>5. Results'
  <2>1. \A r \in Told' : /\ r \in ReportedRuns(agent'.results) \/ Closed(r)'
                         /\ runs'[r].slot <= last'.slot
    BY <1>1, <1>3, <1>4 DEF ResultInv, Results, Closed, Told
  <2> QED
    BY <1>1, <2>1 DEF Results, ReportedRuns
<1>6. Pending'
  BY <1>1, <1>3, <1>4 DEF ResultInv, Pending, Newest
<1>7. Undone'
  <2>1. \A n \in DOMAIN runs : n # None
    BY RunsAreNumbered, Constants
  <2> QED
    BY <1>1, <1>2, <1>3, <2>1 DEF ResultInv, Undone, ReportedRuns
<1>8. TwiceOnlyIfLost'
  <2>1. history.lost \subseteq history'.lost
    BY <1>3
  <2> QED
    BY <1>1, <2>1 DEF ResultInv, TwiceOnlyIfLost
<1>9. DoneNamesItsRun'
  BY <1>1, <1>2, DoneKept DEF ResultInv
<1> QED
  BY <1>5, <1>6, <1>7, <1>8, <1>9 DEF ResultInv

LEMMA StepResults ==
    ASSUME WorkTypes, Exchange, Slots, ResultInv, [Next]_vars
    PROVE  ResultInv'
BY StepEffect, QuietResults, RecordsResults, DispatchesResults, ReceiveResults,
   RunCronResults, LosesResults

LEMMA WorkInvariant == Spec => []WorkInv
<1>1. Init => WorkInv
  BY InitTypes, InitSlots, InitResults DEF WorkInv, ResultInv
<1>2. WorkInv /\ [Next]_vars => WorkInv'
  BY StepTypes, StepSlots, StepResults DEF WorkInv, ResultInv
<1> QED
  BY <1>1, <1>2, PTL DEF Spec

\* A slot is carried out twice only if the result of its first run was lost, for any
\* schedule, any number of lost calls, restarts and upgrades, and any give-up time.
THEOREM NoSlotIsRunTwice == Spec => []TwiceOnlyIfLost
<1>1. WorkInv => TwiceOnlyIfLost
  BY DEF WorkInv
<1> QED
  BY <1>1, WorkInvariant, PTL

-----------------------------------------------------------------------------
(***************************************************************************)
(* Runs are for the latest slot.                                           *)
(***************************************************************************)
\* LastDue looks as far from now, and ahead of a slot, as the clock goes: in the code, a
\* year.
ScanReaches == MaxTime <= MaxScan

LatestAtDispatch ==
    \A r \in DOMAIN runs : \A m \in Minute :
        m <= runs[r].at /\ Matches(m) => m <= runs[r].slot

\* No slot of the schedule that has come is after the one that is dispatched.
LEMMA DueSlotIsLatest ==
    ASSUME ScanReaches, WorkTypes, Slots, NEW s \in DueSlots(clock),
           NEW m \in Minute, m <= clock, Matches(m)
    PROVE  m <= s
<1>1. s \in Nat /\ m \in Nat /\ m <= MaxTime /\ clock \in Nat
  BY DueSlotIsNext, Constants DEF Minute, WorkTypes
<1>2. CASE Anchor = Never
  <2>1. clock <= MaxTime /\ m + MaxScan >= clock
    BY <1>1, Constants DEF WorkTypes, Minute, ScanReaches
  <2>2. m \in Due(clock, Anchor)
    BY <1>2, <2>1 DEF Due, Scanned
  <2> QED
    BY <2>2, DueSlotsAreDue
<1>3. CASE Anchor # Never
  <2>1. Anchor \in Nat
    BY Constants DEF Anchor, WorkTypes, Minute
  <2>2. CASE m <= Anchor
    <3>1. s \in Due(clock, Anchor)
      BY DueSlotsAreDue
    <3>2. Anchor < s
      BY <1>3, <3>1, DueSlotsAreDue
    <3> QED
      BY <1>1, <2>1, <2>2, <3>2
  <2>3. CASE Anchor < m
    <3>1. m \in (Anchor + 1)..(Anchor + 2 + MaxScan)
      BY <1>1, <2>1, <2>3, Constants DEF ScanReaches
    <3>2. m \in Due(clock, Anchor)
      BY <1>3, <3>1 DEF Due, Scanned
    <3> QED
      BY <3>2, DueSlotsAreDue
  <2> QED
    BY <1>1, <2>1, <2>2, <2>3
<1> QED
  BY <1>2, <1>3

LEMMA StepLatest ==
    ASSUME ScanReaches, WorkTypes, Exchange, Slots, LatestAtDispatch, [Next]_vars
    PROVE  LatestAtDispatch'
<1>1. left'.job = left.job
  BY JobStays
<1>2. \A r \in DOMAIN runs : \A m \in Minute :
         m <= runs[r].at /\ OnJob(left'.job, m) => m <= runs[r].slot
  BY <1>1 DEF LatestAtDispatch, Matches, OnJob
<1>3. CASE runs' = runs
  BY <1>2, <1>3 DEF LatestAtDispatch, Matches, OnJob
<1>4. CASE Dispatches
  <2>1. PICK s \in DueSlots(clock) : Dispatched(s)
    BY <1>4 DEF Dispatches
  <2>2. s \in Minute
    BY DueSlotIsNext
  <2>3. /\ DOMAIN runs' = DOMAIN runs \cup {Len(runs')}
        /\ \A r \in DOMAIN runs : runs'[r] = runs[r]
        /\ runs'[Len(runs')] = [slot |-> s, at |-> clock]
    BY <2>1, <2>2, RunAdded DEF Dispatched
  <2>4. \A m \in Minute : m <= clock /\ OnJob(left'.job, m) => m <= s
    BY <1>1, DueSlotIsLatest DEF Matches, OnJob
  <2>5. \A r \in DOMAIN runs' : \A m \in Minute :
           m <= runs'[r].at /\ OnJob(left'.job, m) => m <= runs'[r].slot
    <3>1. ASSUME NEW r \in DOMAIN runs
          PROVE  \A m \in Minute :
                    m <= runs'[r].at /\ OnJob(left'.job, m) => m <= runs'[r].slot
      <4>1. runs'[r] = runs[r]
        BY <2>3
      <4> QED
        BY <1>2, <4>1
    <3>2. /\ runs'[Len(runs')].at = clock /\ runs'[Len(runs')].slot = s
      BY <2>3
    <3> QED
      BY <2>3, <2>4, <3>1, <3>2
  <2> QED
    BY <2>5 DEF LatestAtDispatch, Matches, OnJob
<1>5. Quiet \/ Records \/ Receive \/ RunCron \/ Loses => runs' = runs
  BY DEF Quiet, Records, Receive, RunCron, Loses, server
<1> QED
  BY <1>3, <1>4, <1>5, StepEffect

\* Division with remainder.
LEMMA DivMod ==
    ASSUME NEW a \in Nat, NEW b \in Nat \ {0}
    PROVE  a = b * (a \div b) + (a % b) /\ a % b \in 0..(b - 1) /\ a \div b \in Nat
OBVIOUS

LEMMA MultipleHasNoRest ==
    ASSUME NEW a \in Nat, NEW b \in Nat \ {0}, NEW q \in Nat, a = b * q
    PROVE  a % b = 0
<1> DEFINE d == a \div b
           m == a % b
<1>1. a = b * d + m /\ m \in 0..(b - 1) /\ d \in Nat
  BY DivMod
<1>2. d \in Nat /\ m \in Int /\ b * (q - d) = m /\ m < b /\ 0 <= m
  BY <1>1
<1> HIDE DEF d, m
<1>3. CASE q - d >= 1
  <2>1. b * (q - d) >= b
    BY <1>2, <1>3
  <2> QED
    BY <1>2, <2>1
<1>4. CASE q - d <= -1
  <2>1. b * (q - d) <= -b
    BY <1>2, <1>4
  <2> QED
    BY <1>2, <2>1
<1>5. CASE q - d = 0
  BY <1>2, <1>5 DEF m
<1> QED
  BY <1>2, <1>3, <1>4, <1>5

\* Where a range begins at a multiple of its step, counting from zero and counting from
\* its beginning are the same.
LEMMA PartIsStandard ==
    ASSUME NEW p \in Part, p.lo % p.step = 0, NEW v \in 0..(WheelSize - 1)
    PROVE  PartMatches(p, v) <=>
               \E k \in 0..WheelSize : v = p.lo + k * p.step /\ v <= p.hi
<1> DEFINE lo == p.lo
           hi == p.hi
           step == p.step
           dl == lo \div step
           dv == v \div step
<1>1. lo \in Nat /\ hi \in Nat /\ step \in Nat \ {0} /\ v \in Nat /\ v < WheelSize
  BY Constants DEF Part
<1>2. lo % step = 0
  OBVIOUS
<1>3. PartMatches(p, v) <=> lo <= v /\ v <= hi /\ v % step = 0
  BY <1>1 DEF PartMatches
<1> HIDE DEF lo, hi, step
<1>4. dl \in Nat /\ lo = step * dl
  BY <1>1, <1>2, DivMod
<1>5. ASSUME lo <= v, v <= hi, v % step = 0
      PROVE  \E k \in 0..WheelSize : v = lo + k * step /\ v <= hi
  <2>1. dv \in Nat /\ v = step * dv
    BY <1>1, <1>5, DivMod
  <2> HIDE DEF dl, dv
  <2> DEFINE k == dv - dl
  <2>2. v = lo + k * step
    BY <1>1, <1>4, <2>1
  <2>3. k \in Int /\ k * step >= 0
    BY <1>1, <1>4, <1>5, <2>1, <2>2
  <2> HIDE DEF k
  <2>4. k >= 0
    <3> SUFFICES ASSUME k <= -1
                 PROVE  FALSE
      BY <2>3
    <3>1. k * step <= -step
      BY <1>1, <2>3
    <3> QED
      BY <1>1, <2>3, <3>1
  <2>5. k * step >= k
    BY <1>1, <2>3, <2>4
  <2>6. k <= WheelSize
    <3>1. k * step \in Int
      BY <1>1, <2>3
    <3> QED
      BY <1>1, <2>2, <2>3, <2>5, <3>1, Constants
  <2> QED
    BY <1>5, <2>2, <2>3, <2>4, <2>6, Constants
<1>6. ASSUME NEW k \in 0..WheelSize, v = lo + k * step, v <= hi
      PROVE  lo <= v /\ v % step = 0
  <2> HIDE DEF dl, dv
  <2>1. k \in Nat /\ dl + k \in Nat /\ v = step * (dl + k)
    BY <1>1, <1>4, <1>6, Constants
  <2>2. v % step = 0
    BY <1>1, <2>1, MultipleHasNoRest
  <2>3. k * step >= 0
    BY <1>1, <2>1
  <2> QED
    BY <1>1, <1>6, <2>1, <2>2, <2>3
<1> QED
  BY <1>3, <1>5, <1>6 DEF lo, hi, step

LEMMA ReadingsAgree ==
    ASSUME WorkTypes, Aligned, NEW t \in Nat
    PROVE  Matches(t) <=> Standard(t)
<1>1. t % WheelSize \in 0..(WheelSize - 1)
  BY DivMod, Constants
<1>2. \A p \in left.job : p \in Part /\ p.lo % p.step = 0
  BY DEF WorkTypes, Scenario, Aligned
<1>3. \A p \in left.job :
         PartMatches(p, t % WheelSize) <=>
            \E k \in 0..WheelSize : t % WheelSize = p.lo + k * p.step
                                    /\ t % WheelSize <= p.hi
  BY <1>1, <1>2, PartIsStandard
<1> QED
  BY <1>3 DEF Matches, Standard

\* The greatest of a set is its latest.
LEMMA LatestIs ==
    ASSUME NEW S \in SUBSET Nat, NEW s \in S, \A m \in S : m <= s
    PROVE  Latest(S) = s
<1>1. Latest(S) \in S /\ \A m \in S : m <= Latest(S)
  BY DEF Latest
<1>2. s <= Latest(S) /\ Latest(S) <= s /\ s \in Nat /\ Latest(S) \in Nat
  BY <1>1
<1> HIDE DEF Latest
<1> QED
  BY <1>2

LEMMA LatestSlots ==
    ASSUME WorkTypes, Slots, LatestAtDispatch
    PROVE  RunsAreForTheLatestSlot
<1> SUFFICES ASSUME Aligned, NEW r \in DOMAIN runs
             PROVE  runs[r].slot = Latest({m \in Minute : m <= runs[r].at /\ Standard(m)})
  BY DEF RunsAreForTheLatestSlot
<1> DEFINE S == {m \in Minute : m <= runs[r].at /\ Standard(m)}
<1>1. Minute \subseteq Nat
  BY Constants DEF Minute
<1>2. S = {m \in Minute : m <= runs[r].at /\ Matches(m)}
  BY <1>1, ReadingsAgree
<1>3. runs[r].slot \in S
  BY <1>2, RunsAreNumbered DEF Slots
<1>4. \A m \in S : m <= runs[r].slot
  BY <1>2 DEF LatestAtDispatch
<1>5. S \in SUBSET Nat
  BY <1>1
<1> HIDE DEF S
<1>6. Latest(S) = runs[r].slot
  BY <1>3, <1>4, <1>5, LatestIs
<1> QED
  BY <1>6 DEF S

LEMMA WorkTyped == WorkInv => TypeOK
<1> SUFFICES ASSUME WorkInv
             PROVE  TypeOK
  OBVIOUS
<1>1. WorkTypes /\ Exchange
  BY DEF WorkInv
<1>2. \A r \in DOMAIN runs : runs[r].slot \in Minute /\ runs[r].at \in Minute
  BY <1>1, RunsAreNumbered
<1>3. \A d \in DOMAIN diag : diag[d] \in Status
  BY <1>1, LenProperties DEF WorkTypes
<1>4. \A d \in DOMAIN diag : Active(diag[d]) \/ diag[d] \in {"ready", "failed", "expired"}
  BY <1>3 DEF Active, Status
<1> QED
  BY <1>1, <1>2, <1>4 DEF TypeOK, WorkTypes, Exchange, Requested, Done

\* What the server records of a job, for any schedule and whatever is lost: a run
\* is for the latest slot when it is dispatched, while LastDue scans as far as the clock
\* goes, and a row that is done is of a run that was carried out, with none after it that
\* reached the agent.
THEOREM DoneRunsWereCarriedOut == ScanReaches => (Spec => []RunsInv)
<1> SUFFICES ASSUME ScanReaches
             PROVE  Spec => []RunsInv
  OBVIOUS
<1>1. Init => LatestAtDispatch
  BY DEF Init, LatestAtDispatch
<1>2. WorkInv /\ LatestAtDispatch /\ [Next]_vars => LatestAtDispatch'
  BY StepLatest DEF WorkInv
<1>3. WorkInv /\ LatestAtDispatch => RunsInv
  BY LatestSlots, WorkTyped DEF WorkInv, RunsInv
<1> QED
  BY <1>1, <1>2, <1>3, WorkInvariant, PTL DEF Spec

-----------------------------------------------------------------------------
(***************************************************************************)
(* PUBLICATION                                                             *)
(*                                                                         *)
(* What a published release is made of, for any history of the branch, any *)
(* number of checkouts and of syncs on them, and whatever fails, crashes   *)
(* or is pruned on the way.                                                *)
(***************************************************************************)
Pcs == {"idle", "resolve", "prev", "render", "store", "variants", "set"}

\* Where the ref of a sync is known, where it holds what it rendered, where the tree it
\* composes has passed the validation, and which renderings it then has passed.
HasRef == {"prev", "render", "store", "variants", "set"}
Storing == {"store", "variants"}
Validated == {"store", "variants", "set"}
Passed(pc) == IF pc \in {"variants", "set"} THEN Renderings ELSE {"canonical"}

GitSync == [pc : Pcs, ref : Refs \cup {NoRef}, prev : Refs \cup {NoRef},
            from : Refs \cup {NoRef}, todo : SUBSET Rows]

Types == GitTypeOK /\ ahead \in History

\* Where a sync stands on a checkout that has t: its ref is not later than the tree,
\* what it stores is not of an earlier commit than its ref.
StandsOn(q, t) ==
  /\ q.pc # "idle" => t # NoRef
  /\ q.pc \in HasRef => q.ref # NoRef /\ q.ref <= t
  /\ q.pc \in Storing => q.ref <= q.from

\* Checkouts follow the branch, syncs their checkout.
Forward == /\ \A h \in Hosts : tree[h] <= remote
           /\ \A s \in Syncs : StandsOn(sync[s], tree[Home(s)])

\* A ref that is not mixed has rows of its own commit alone, and only what that renders.
Own(r) == \A x \in Rows : rows[r][x] # NoRef => rows[r][x] = r /\ x \in Rendered(r)
Unmixed == \A r \in Refs \ mixed : Own(r)

\* What must be there of the ref when a sync has `todo` left to store.
Owed(pc, r, todo) == IF pc = "store" THEN Contents[r] \ todo ELSE Rendered(r) \ todo

\* No rendering of r that is one of the parts is refused.
Clear(r, parts, rejected) ==
  \A t \in Targets : \A part \in parts : <<r, t, part>> \notin rejected

\* How far a sync is whose ref is not mixed: it stores what the commit of its ref
\* renders, that commit was accepted, and unless the prune took a row, what is no longer
\* to do is there.
Composes(q, composedMixed, composedPruned, composed, rejected) ==
  q.ref \notin composedMixed =>
    /\ q.pc \in Validated => Clear(q.ref, Passed(q.pc), rejected)
    /\ q.pc \in Storing => q.from = q.ref
    /\ q.pc = "store" => q.todo \subseteq Contents[q.ref]
    /\ q.pc = "variants" => q.todo \subseteq Variants(q.ref)
    /\ q.pc = "set" => q.todo = {}
    /\ q.pc \in Validated /\ q.ref \notin composedPruned =>
         \A x \in Owed(q.pc, q.ref, q.todo) : composed[q.ref][x] = q.ref

Composing == \A s \in Syncs : Composes(sync[s], mixed, pruned, rows, ahead.rejected)

PublicationInv ==
  Types /\ NeverAnEarlierCommit /\ Forward /\ Unmixed /\ Composing /\ ReleaseIsWhole

-----------------------------------------------------------------------------
(***************************************************************************)
(* The operators of the model.                                             *)
(***************************************************************************)
LEMMA RowFacts ==
  /\ NoRef \notin Refs
  /\ \A r \in Refs : /\ r \in Nat /\ r > 0
                     /\ Contents[r] \subseteq Rows /\ Variants(r) \subseteq Rows
                     /\ Rendered(r) \subseteq Rows
                     /\ \A x \in Contents[r] : x[2] # "variants"
<1>1. \A r \in Refs : /\ Contents[r] \subseteq Targets \X {"desired", "crons"}
  BY TreesHaveRows, RowsAreCanonical
<1>2. ASSUME NEW r \in Refs, NEW x \in Contents[r]
      PROVE  /\ x \in Rows /\ x[2] # "variants" /\ <<x[1], "variants">> \in Rows
  BY <1>1, <1>2 DEF Rows, Kinds
<1>3. \A r \in Refs : Variants(r) \subseteq Rows
  BY <1>2 DEF Variants
<1>4. \A r \in Refs : Contents[r] \subseteq Rows
  BY <1>2
<1>5. \A r \in Refs : Rendered(r) \subseteq Rows
  BY <1>3, <1>4 DEF Rendered
<1>6. NoRef \notin Refs /\ \A r \in Refs : r \in Nat /\ r > 0
  BY RefsAreCommits DEF NoRef
<1> QED
  BY <1>2, <1>3, <1>4, <1>5, <1>6

LEMMA IdleTyped ==
  Idle \in GitSync /\ Idle.pc = "idle" /\ Idle.ref = NoRef /\ Idle.todo = {}
  BY DEF Idle, GitSync, Pcs

LEMMA IdleKeeps ==
  ASSUME NEW t, NEW mx, NEW pr, NEW rw, NEW rj
  PROVE  StandsOn(Idle, t) /\ Composes(Idle, mx, pr, rw, rj)
  BY IdleTyped DEF StandsOn, Composes, HasRef, Storing, Validated

LEMMA AcceptedIsClear ==
  \A r : /\ Accepted(r) <=> Clear(r, Renderings, ahead.rejected)
         /\ \A part : Rejected(r, part) = {} <=> Clear(r, {part}, ahead.rejected)
  BY DEF Accepted, Rejected, Clear

\* What may happen to the rows of refs while a sync does nothing.
Kept(mx, mxNew, pr, prNew, rw, rwNew) ==
  /\ mx \subseteq mxNew /\ pr \subseteq prNew
  /\ \A r \in Refs \ (mxNew \cup prNew) : \A x \in Rows : rw[r][x] = r => rwNew[r][x] = r

LEMMA ComposesKept ==
  ASSUME NEW q \in GitSync, NEW mx, NEW mxNew, NEW pr, NEW prNew, NEW rw, NEW rwNew, NEW rj,
         q.pc \in HasRef => q.ref \in Refs,
         Composes(q, mx, pr, rw, rj), Kept(mx, mxNew, pr, prNew, rw, rwNew)
  PROVE  Composes(q, mxNew, prNew, rwNew, rj)
<1> SUFFICES ASSUME q.ref \notin mxNew
             PROVE  Composes(q, mxNew, prNew, rwNew, rj)
  BY DEF Composes
<1>1. q.ref \notin mx
  BY DEF Kept
<1>2. ASSUME q.pc \in Validated, q.ref \notin prNew, NEW x \in Owed(q.pc, q.ref, q.todo)
      PROVE  rwNew[q.ref][x] = q.ref
  <2>1. q.ref \in Refs
    BY <1>2 DEF Validated, HasRef
  <2>2. q.ref \notin pr
    BY <1>2 DEF Kept
  <2>3. x \in Rows
    BY <2>1, <1>2, RowFacts DEF Owed
  <2>4. rw[q.ref][x] = q.ref
    BY <1>1, <1>2, <2>2 DEF Composes
  <2> QED
    BY <1>2, <2>1, <2>3, <2>4 DEF Kept
<1> QED
  BY <1>1, <1>2 DEF Composes

LEMMA NothingLost ==
  ASSUME NEW mx, NEW pr, NEW rw
  PROVE  Kept(mx, mx, pr, pr, rw, rw)
  BY DEF Kept

\* A step of one sync that changes neither rows nor what is said of them.
LEMMA SyncKeeps ==
  ASSUME PublicationInv, NEW s \in Syncs, NEW q \in GitSync,
         sync' = [sync EXCEPT ![s] = q],
         q.pc = "idle" => q = Idle,
         remote' = remote, locked' \subseteq Hosts, ahead' \in History, ahead'.home = ahead.home,
         ahead'.rejected = ahead.rejected,
         tree' \in [Hosts -> Refs \cup {NoRef}],
         \A h \in Hosts : tree[h] <= tree'[h] /\ tree'[h] <= remote,
         StandsOn(q, tree'[Home(s)]),
         rows' = rows, old' = old, release' = release, pruned' = pruned,
         mixed \subseteq mixed', mixed' \subseteq Refs,
         Composes(q, mixed', pruned, rows, ahead.rejected)
  PROVE  PublicationInv'
<1> USE DEF PublicationInv, Types
<1>1. /\ sync \in [Syncs -> GitSync] /\ tree \in [Hosts -> Refs \cup {NoRef}]
      /\ ahead \in History
  BY DEF GitTypeOK, GitSync, Pcs
<1>2. /\ sync' \in [Syncs -> GitSync] /\ sync'[s] = q
      /\ \A u \in Syncs \ {s} : sync'[u] = sync[u]
  BY <1>1
<1>3. GitTypeOK'
  BY <1>2 DEF GitTypeOK, GitSync, Pcs, At
<1>4. NeverAnEarlierCommit'
  BY DEF NeverAnEarlierCommit
<1>5. \A u \in Syncs : Home(u) \in Hosts /\ Home(u)' = Home(u)
  BY <1>1 DEF History, Home
<1>6. Forward'
  <2>1. ASSUME NEW u \in Syncs
        PROVE  StandsOn(sync'[u], tree'[Home(u)])
    <3>1. CASE u = s
      BY <3>1, <1>2
    <3>2. CASE u # s
      <4>1. StandsOn(sync[u], tree[Home(u)])
        BY DEF Forward
      <4>2. sync[u] \in GitSync /\ sync'[u] = sync[u]
        BY <1>1, <1>2, <3>2
      <4>3. tree[Home(u)] \in Nat /\ tree'[Home(u)] \in Nat
            /\ tree[Home(u)] <= tree'[Home(u)]
        BY <1>1, <1>5, RowFacts DEF NoRef
      <4> QED
        BY <4>1, <4>2, <4>3, RowFacts DEF StandsOn, GitSync, NoRef
    <3> QED
      BY <3>1, <3>2
  <2> QED
    BY <2>1, <1>5 DEF Forward
<1>7. Unmixed'
  BY DEF Unmixed, Own
<1>8. Composing'
  <2>1. Kept(mixed, mixed', pruned, pruned', rows, rows')
    BY DEF Kept
  <2>2. ASSUME NEW u \in Syncs \ {s}
        PROVE  Composes(sync'[u], mixed', pruned', rows', ahead'.rejected)
    <3>1. sync[u] \in GitSync /\ sync'[u] = sync[u]
      BY <1>1, <1>2
    <3>2. Composes(sync[u], mixed, pruned, rows, ahead.rejected)
      BY DEF Composing
    <3>3. sync[u].pc \in HasRef => sync[u].ref \in Refs
      BY <3>1 DEF Forward, StandsOn, GitSync
    <3>4. Composes(sync[u], mixed', pruned', rows', ahead.rejected)
      BY <2>1, <3>1, <3>2, <3>3, ComposesKept
    <3> QED
      BY <3>1, <3>4
  <2> QED
    BY <2>2, <1>2 DEF Composing
<1>9. ReleaseIsWhole'
  BY DEF ReleaseIsWhole, Whole, Accepted, Rejected
<1> QED
  BY <1>3, <1>4, <1>6, <1>7, <1>8, <1>9

\* What the invariant says of one sync.
LEMMA OfSync ==
  ASSUME PublicationInv, NEW s \in Syncs
  PROVE  /\ sync[s] \in GitSync /\ Home(s) \in Hosts
         /\ sync \in [Syncs -> GitSync]
         /\ tree \in [Hosts -> Refs \cup {NoRef}] /\ tree[Home(s)] \in Refs \cup {NoRef}
         /\ \A h \in Hosts : tree[h] \in Nat /\ tree[h] <= remote
         /\ remote \in Refs /\ remote \in Nat
         /\ ahead \in History /\ mixed \subseteq Refs /\ locked \subseteq Hosts
         /\ StandsOn(sync[s], tree[Home(s)])
         /\ sync[s].pc = "idle" => sync[s] = Idle
         /\ sync[s].pc # "idle" => tree[Home(s)] \in Refs
         /\ sync[s].pc \in HasRef => sync[s].ref \in Refs
         /\ sync[s].pc \in Storing => sync[s].from \in Refs
         /\ Composes(sync[s], mixed, pruned, rows, ahead.rejected)
<1> USE DEF PublicationInv, Types
<1>1. /\ sync \in [Syncs -> GitSync] /\ tree \in [Hosts -> Refs \cup {NoRef}]
      /\ ahead \in History /\ remote \in Refs /\ mixed \subseteq Refs
      /\ locked \subseteq Hosts
  BY DEF GitTypeOK, GitSync, Pcs
<1>2. Home(s) \in Hosts /\ sync[s] \in GitSync
  BY <1>1 DEF History, Home
<1>3. StandsOn(sync[s], tree[Home(s)]) /\ \A h \in Hosts : tree[h] <= remote
  BY DEF Forward
<1>4. sync[s].pc = "idle" => sync[s] = Idle
  BY DEF GitTypeOK, At
<1>5. \A h \in Hosts : tree[h] \in Nat
  BY <1>1, RowFacts DEF NoRef
<1>6. sync[s].pc \in Storing => sync[s].from \in Refs
  <2>1. sync[s].pc \in Storing => sync[s].ref \in Refs /\ sync[s].ref <= sync[s].from
    BY <1>2, <1>3 DEF StandsOn, GitSync, Storing, HasRef
  <2>2. sync[s].from \in Refs \cup {NoRef}
    BY <1>2 DEF GitSync
  <2> QED
    BY <2>1, <2>2, RowFacts DEF NoRef
<1>7. sync[s].pc \in HasRef => sync[s].ref \in Refs
  BY <1>2, <1>3 DEF StandsOn, GitSync
<1>8. sync[s].pc # "idle" => tree[Home(s)] \in Refs
  BY <1>1, <1>2, <1>3 DEF StandsOn
<1>9. Composes(sync[s], mixed, pruned, rows, ahead.rejected)
  BY DEF Composing
<1>10. remote \in Nat
  BY <1>1, RowFacts
<1> QED
  BY <1>1, <1>2, <1>3, <1>4, <1>5, <1>6, <1>7, <1>8, <1>9, <1>10

LEMMA CheckoutKeeps ==
  ASSUME PublicationInv, NEW s \in Syncs, Checkout(s)
  PROVE  PublicationInv'
<1> DEFINE q == [sync[s] EXCEPT !.pc = "resolve"]
<1>1. q \in GitSync /\ q.pc = "resolve" /\ q.ref = NoRef /\ q.todo = {}
  BY OfSync, IdleTyped DEF GitSync, Pcs, Checkout, At
<1>2. sync' = [sync EXCEPT ![s] = q]
  BY DEF Checkout
<1> HIDE DEF q
<1>3. /\ tree' \in [Hosts -> Refs \cup {NoRef}]
      /\ \A h \in Hosts : tree[h] <= tree'[h] /\ tree'[h] <= remote
      /\ tree'[Home(s)] = remote
  BY OfSync DEF Checkout
<1>4. StandsOn(q, tree'[Home(s)])
  BY <1>1, <1>3, OfSync, RowFacts DEF StandsOn, HasRef, Storing
<1>5. Composes(q, mixed', pruned, rows, ahead.rejected)
  BY <1>1 DEF Composes, Storing, Validated
<1>6. /\ remote' = remote /\ ahead' = ahead /\ rows' = rows /\ old' = old
      /\ release' = release /\ pruned' = pruned /\ mixed' = mixed /\ locked' = locked
  BY DEF Checkout
<1> QED
  BY <1>1, <1>2, <1>3, <1>4, <1>5, <1>6, OfSync, SyncKeeps

\* A git that is killed: its sync ends before it began.
LEMMA KilledKeeps ==
  ASSUME PublicationInv, NEW s \in Syncs, Killed(s)
  PROVE  PublicationInv'
<1>1. /\ sync[s] \in GitSync /\ sync[s] = Idle /\ sync' = [sync EXCEPT ![s] = sync[s]]
  BY OfSync DEF Killed, At
<1>2. /\ tree' \in [Hosts -> Refs \cup {NoRef}]
      /\ \A h \in Hosts : tree[h] <= tree'[h] /\ tree'[h] <= remote
  BY OfSync DEF Killed
<1>3. /\ remote' = remote /\ rows' = rows /\ old' = old /\ release' = release
      /\ pruned' = pruned /\ mixed' = mixed /\ mixed' \subseteq Refs
      /\ locked' \subseteq Hosts
  BY OfSync DEF Killed
<1>4. /\ ahead' \in History /\ ahead'.home = ahead.home /\ ahead'.rejected = ahead.rejected
  BY OfSync DEF History, Killed
<1>5. /\ StandsOn(sync[s], tree'[Home(s)])
      /\ Composes(sync[s], mixed', pruned, rows, ahead.rejected)
  BY <1>1, IdleKeeps
<1> QED
  BY <1>1, <1>2, <1>3, <1>4, <1>5, SyncKeeps

\* The same for a step that leaves the checkouts alone.
LEMMA ReadingKeeps ==
  ASSUME PublicationInv, NEW s \in Syncs, NEW q \in GitSync,
         sync' = [sync EXCEPT ![s] = q],
         q.pc = "idle" => q = Idle,
         ahead' \in History, ahead'.home = ahead.home, ahead'.rejected = ahead.rejected,
         UNCHANGED <<remote, tree, locked, rows, old, release, pruned>>,
         StandsOn(q, tree[Home(s)]),
         mixed \subseteq mixed', mixed' \subseteq Refs,
         Composes(q, mixed', pruned, rows, ahead.rejected)
  PROVE  PublicationInv'
<1>1. /\ tree' \in [Hosts -> Refs \cup {NoRef}]
      /\ \A h \in Hosts : tree[h] <= tree'[h] /\ tree'[h] <= remote
      /\ locked' \subseteq Hosts
  BY OfSync
<1>2. StandsOn(q, tree'[Home(s)])
  OBVIOUS
<1> QED
  BY <1>1, <1>2, SyncKeeps

LEMMA ResolveKeeps ==
  ASSUME PublicationInv, NEW s \in Syncs, Resolve(s)
  PROVE  PublicationInv'
<1> DEFINE q == [sync[s] EXCEPT !.pc = "prev", !.ref = tree[Home(s)]]
<1>1. q \in GitSync /\ q.pc = "prev" /\ q.ref = tree[Home(s)] /\ q.ref \in Refs
  BY OfSync DEF GitSync, Pcs, Resolve, At
<1>2. sync' = [sync EXCEPT ![s] = q]
  BY DEF Resolve, CheckedOutRef
<1> HIDE DEF q
<1>3. StandsOn(q, tree[Home(s)])
  BY <1>1, RowFacts DEF StandsOn, HasRef, Storing
<1>4. Composes(q, mixed', pruned, rows, ahead.rejected)
  BY <1>1 DEF Composes, Storing, Validated
<1>5. /\ remote' = remote /\ ahead' = ahead /\ rows' = rows /\ old' = old
      /\ release' = release /\ pruned' = pruned /\ mixed' = mixed /\ tree' = tree
      /\ locked' = locked
  BY DEF Resolve
<1> QED
  BY <1>1, <1>2, <1>3, <1>4, <1>5, OfSync, ReadingKeeps

LEMMA ReadPrevKeeps ==
  ASSUME PublicationInv, NEW s \in Syncs, ReadPrev(s)
  PROVE  PublicationInv'
<1> DEFINE q == [sync[s] EXCEPT !.pc = "render", !.prev = release]
<1>1. q \in GitSync /\ q.pc = "render" /\ q.ref = sync[s].ref /\ q.todo = sync[s].todo
  <2>1. release \in Refs \cup {NoRef}
    BY DEF PublicationInv, Types, GitTypeOK
  <2> QED
    BY <2>1, OfSync DEF GitSync, Pcs
<1>2. sync' = [sync EXCEPT ![s] = q]
  BY DEF ReadPrev
<1> HIDE DEF q
<1>3. StandsOn(q, tree[Home(s)])
  BY <1>1, OfSync DEF StandsOn, HasRef, Storing, ReadPrev, At
<1>4. Composes(q, mixed', pruned, rows, ahead.rejected)
  BY <1>1 DEF Composes, Storing, Validated
<1>5. /\ remote' = remote /\ ahead' = ahead /\ rows' = rows /\ old' = old
      /\ release' = release /\ pruned' = pruned /\ mixed' = mixed /\ tree' = tree
      /\ locked' = locked
  BY DEF ReadPrev
<1> QED
  BY <1>1, <1>2, <1>3, <1>4, <1>5, OfSync, ReadingKeeps

\* A sync that stops, whatever stops it.
LEMMA StopKeeps ==
  ASSUME PublicationInv, NEW s \in Syncs, sync' = Stopped(s),
         ahead' \in History, ahead'.home = ahead.home, ahead'.rejected = ahead.rejected,
         UNCHANGED <<remote, tree, locked, rows, release, old, mixed, pruned>>
  PROVE  PublicationInv'
<1>1. StandsOn(Idle, tree[Home(s)]) /\ Composes(Idle, mixed', pruned, rows, ahead.rejected)
  BY IdleKeeps
<1>2. sync' = [sync EXCEPT ![s] = Idle]
  BY DEF Stopped
<1> QED
  BY <1>1, <1>2, IdleTyped, OfSync, ReadingKeeps

LEMMA FailKeeps ==
  ASSUME PublicationInv, NEW s \in Syncs, Fail(s)
  PROVE  PublicationInv'
<1>1. /\ ahead' \in History /\ ahead'.home = ahead.home /\ ahead'.rejected = ahead.rejected
  BY OfSync DEF History, Fail
<1> QED
  BY <1>1, StopKeeps DEF Fail

LEMMA StoreUnenrolledKeeps ==
  ASSUME PublicationInv, NEW s \in Syncs, StoreUnenrolled(s)
  PROVE  PublicationInv'
  BY OfSync, StopKeeps DEF StoreUnenrolled

\* A tree that is read anew makes the ref mixed unless it is the tree of the ref.
LEMMA RenderKeeps ==
  ASSUME PublicationInv, NEW s \in Syncs, Render(s)
  PROVE  PublicationInv'
<1> DEFINE r == tree[Home(s)]
           q == [sync[s] EXCEPT !.pc = "store", !.from = r, !.todo = Contents[r]]
<1>1. r \in Refs /\ Contents[r] \subseteq Rows
  BY OfSync, RowFacts DEF Render, At
<1> HIDE DEF r
<1>2. CASE Rejected(r, "canonical") = {}
  <2>1. q \in GitSync /\ q.pc = "store" /\ q.ref = sync[s].ref /\ q.from = r
        /\ q.todo = Contents[r]
    BY <1>1, OfSync DEF GitSync, Pcs
  <2>2. /\ sync' = [sync EXCEPT ![s] = q]
        /\ mixed' = IF r = sync[s].ref THEN mixed ELSE mixed \cup {sync[s].ref}
    BY <1>2 DEF Render, r
  <2> HIDE DEF q
  <2>3. sync[s].ref \in Refs /\ sync[s].ref <= r
    BY OfSync DEF Render, At, HasRef, StandsOn, r
  <2>4. StandsOn(q, tree[Home(s)])
    BY <2>1, <2>3, <1>1, RowFacts DEF StandsOn, HasRef, Storing, r, NoRef
  <2>5. Composes(q, mixed', pruned, rows, ahead.rejected)
    <3>1. Clear(r, Passed(q.pc), ahead.rejected)
      BY <2>1, <1>2, AcceptedIsClear DEF Passed
    <3> QED
      BY <2>1, <2>2, <3>1 DEF Composes, Storing, Validated, Owed
  <2>6. /\ remote' = remote /\ ahead' = ahead /\ rows' = rows /\ old' = old
        /\ release' = release /\ pruned' = pruned /\ tree' = tree /\ locked' = locked
        /\ mixed \subseteq mixed' /\ mixed' \subseteq Refs
    BY <2>2, <2>3, OfSync DEF Render
  <2> QED
    BY <2>1, <2>2, <2>4, <2>5, <2>6, OfSync, ReadingKeeps
<1>3. CASE Rejected(r, "canonical") # {}
  BY <1>3, OfSync, StopKeeps DEF Render, r
<1> QED
  BY <1>2, <1>3

LEMMA RenderVariantsKeeps ==
  ASSUME PublicationInv, NEW s \in Syncs, RenderVariants(s)
  PROVE  PublicationInv'
<1> DEFINE r == tree[Home(s)]
           q == [sync[s] EXCEPT !.pc = "variants", !.from = r, !.todo = Variants(r)]
<1>1. r \in Refs /\ Variants(r) \subseteq Rows
  BY OfSync, RowFacts DEF RenderVariants, At
<1> HIDE DEF r
<1>2. CASE Rejected(r, "variants") = {}
  <2>1. q \in GitSync /\ q.pc = "variants" /\ q.ref = sync[s].ref /\ q.from = r
        /\ q.todo = Variants(r)
    BY <1>1, OfSync DEF GitSync, Pcs
  <2>2. /\ sync' = [sync EXCEPT ![s] = q]
        /\ mixed' = IF r = sync[s].ref THEN mixed ELSE mixed \cup {sync[s].ref}
    BY <1>2 DEF RenderVariants, r
  <2> HIDE DEF q
  <2>3. /\ sync[s].ref \in Refs /\ sync[s].ref <= r
        /\ sync[s].pc = "store" /\ sync[s].todo = {}
    BY OfSync DEF RenderVariants, AllStored, At, HasRef, StandsOn, r
  <2>4. StandsOn(q, tree[Home(s)])
    BY <1>1, <2>1, <2>3, RowFacts DEF StandsOn, HasRef, Storing, r, NoRef
  <2>5. Composes(q, mixed', pruned, rows, ahead.rejected)
    <3> SUFFICES ASSUME q.ref \notin mixed'
                 PROVE  Composes(q, mixed', pruned, rows, ahead.rejected)
      BY DEF Composes
    <3>1. r = q.ref /\ q.ref \notin mixed
      BY <2>1, <2>2
    <3>2. Composes(sync[s], mixed, pruned, rows, ahead.rejected)
      BY OfSync
    <3>3. /\ Clear(q.ref, {"canonical"}, ahead.rejected)
          /\ q.ref \notin pruned => \A x \in Contents[q.ref] : rows[q.ref][x] = q.ref
      BY <2>1, <2>3, <3>1, <3>2 DEF Composes, Validated, Owed, Passed
    <3>4. Clear(q.ref, Passed(q.pc), ahead.rejected)
      <4>1. Clear(q.ref, {"variants"}, ahead.rejected)
        BY <1>2, <3>1, AcceptedIsClear
      <4> QED
        BY <2>1, <3>3, <4>1 DEF Clear, Passed, Renderings
    <3>5. Owed("variants", q.ref, q.todo) \subseteq Contents[q.ref]
      BY <2>1, <3>1 DEF Owed, Rendered
    <3> QED
      BY <2>1, <3>1, <3>3, <3>4, <3>5 DEF Composes, Storing, Validated
  <2>6. /\ remote' = remote /\ ahead' = ahead /\ rows' = rows /\ old' = old
        /\ release' = release /\ pruned' = pruned /\ tree' = tree /\ locked' = locked
        /\ mixed \subseteq mixed' /\ mixed' \subseteq Refs
    BY <2>2, <2>3, OfSync DEF RenderVariants
  <2> QED
    BY <2>1, <2>2, <2>4, <2>5, <2>6, OfSync, ReadingKeeps
<1>3. CASE Rejected(r, "variants") # {}
  BY <1>3, OfSync, StopKeeps DEF RenderVariants, r
<1> QED
  BY <1>2, <1>3

\* The row that RenderAll lists first is one of those that are left: there are four
\* canonical rows.
LEMMA FirstIsLeft ==
  ASSUME NEW todo, todo \subseteq DOMAIN RowOrder, todo # {}
  PROVE  First(todo) \in todo
<1> DEFINE fd == <<"fleet", "desired">>
           fc == <<"fleet", "crons">>
           ed == <<"endpoint", "desired">>
           ec == <<"endpoint", "crons">>
           Earliest(x) == \A y \in todo : RowOrder[x] <= RowOrder[y]
<1>1. todo \subseteq {fd, fc, ed, ec}
  BY RowsAreCanonical DEF Targets
<1>2. \A x \in todo : RowOrder[x] \in Nat
  BY RowsAreCanonical
<1>3. \E x \in todo : Earliest(x)
  <2> HIDE DEF fd, fc, ed, ec
  <2>1. \A x \in todo : RowOrder[x] <= RowOrder[x]
    BY <1>2
  <2>2. \A x, y \in todo : RowOrder[x] <= RowOrder[y] \/ RowOrder[y] <= RowOrder[x]
    BY <1>2
  <2>3. \A x, y, z \in todo : RowOrder[x] <= RowOrder[y] /\ RowOrder[y] <= RowOrder[z]
                                => RowOrder[x] <= RowOrder[z]
    BY <1>2
  <2>4. PICK a \in todo : \A y \in todo \cap {fd, fc} : RowOrder[a] <= RowOrder[y]
    BY <2>1, <2>2
  <2>5. PICK b \in todo : \A y \in todo \cap {ed, ec} : RowOrder[b] <= RowOrder[y]
    BY <2>1, <2>2
  <2>6. CASE RowOrder[a] <= RowOrder[b]
    BY <1>1, <2>3, <2>4, <2>5, <2>6
  <2>7. CASE RowOrder[b] <= RowOrder[a]
    BY <1>1, <2>3, <2>4, <2>5, <2>7
  <2> QED
    BY <2>2, <2>6, <2>7
<1> HIDE DEF Earliest
<1> QED
  BY <1>3 DEF First, Earliest

\* The upsert of one row of what the sync has to store.
LEMMA UpsertKeeps ==
  ASSUME PublicationInv, NEW s \in Syncs, NEW row, sync[s].pc \in Storing,
         sync[s].ref \notin mixed => row \in sync[s].todo,
         Upsert(s, row), UNCHANGED <<remote, tree, locked, release, mixed, pruned, ahead>>
  PROVE  PublicationInv'
<1> DEFINE k == sync[s].ref
           f == sync[s].from
           q == [sync[s] EXCEPT !.todo = @ \ {row}]
<1> USE DEF PublicationInv, Types
<1>1. /\ sync[s] \in GitSync /\ sync \in [Syncs -> GitSync]
      /\ k \in Refs /\ f \in Refs /\ k <= f /\ sync[s].pc # "idle"
  BY OfSync DEF StandsOn, Storing, HasRef
<1>2. /\ q \in GitSync /\ q.pc = sync[s].pc /\ q.ref = k /\ q.from = f
      /\ q.todo = sync[s].todo \ {row}
  BY <1>1 DEF GitSync
<1>3. sync' = [sync EXCEPT ![s] = q]
  BY DEF Upsert
<1>4. /\ rows' = [rows EXCEPT ![k][row] = f] /\ old' = old \ {<<k, row>>}
      /\ rows \in [Refs -> [Rows -> Refs \cup {NoRef}]]
  BY DEF Upsert, KeyOf, GitTypeOK
<1> HIDE DEF q, f
<1>5. /\ rows' \in [Refs -> [Rows -> Refs \cup {NoRef}]]
      /\ \A r \in Refs : \A x \in Rows :
            rows'[r][x] = IF r = k /\ x = row THEN f ELSE rows[r][x]
  BY <1>1, <1>4
<1> HIDE DEF k
<1>6. /\ sync' \in [Syncs -> GitSync] /\ sync'[s] = q
      /\ \A u \in Syncs \ {s} : sync'[u] = sync[u]
  BY <1>1, <1>2, <1>3
<1>7. k \notin mixed => /\ f = k /\ row \in Rendered(k) /\ row \in sync[s].todo
                        /\ sync[s].todo \subseteq Rendered(k)
  BY OfSync DEF Composes, Storing, Rendered, k, f
<1>8. GitTypeOK'
  <2>1. \A u \in Syncs : sync'[u].pc = "idle" => sync'[u] = Idle
    BY <1>1, <1>2, <1>6 DEF GitTypeOK, At
  <2>2. old' \subseteq {x \in Refs \X Rows : rows'[x[1]][x[2]] # NoRef}
    <3>1. \A x \in old' : x \in Refs \X Rows /\ rows[x[1]][x[2]] # NoRef
      BY <1>4 DEF GitTypeOK
    <3>2. \A r \in Refs : \A x \in Rows : rows[r][x] # NoRef => rows'[r][x] # NoRef
      BY <1>1, <1>5, RowFacts
    <3>3. \A x \in old' : rows'[x[1]][x[2]] # NoRef
      BY <3>1, <3>2
    <3> QED
      BY <3>1, <3>3
  <2> QED
    BY <1>5, <1>6, <2>1, <2>2 DEF GitTypeOK, GitSync, Pcs, At
<1>9. NeverAnEarlierCommit'
  BY <1>1, <1>5 DEF NeverAnEarlierCommit
<1>10. Forward'
  <2>1. \A u \in Syncs : Home(u)' = Home(u)
    BY DEF Home
  <2>2. StandsOn(q, tree[Home(s)])
    BY <1>2, OfSync DEF StandsOn, k, f
  <2> QED
    BY <1>6, <2>1, <2>2 DEF Forward
<1>11. Unmixed'
  BY <1>5, <1>7 DEF Unmixed, Own
<1>12. Kept(mixed, mixed', pruned, pruned', rows, rows')
  BY <1>5, <1>7 DEF Kept
<1>13. Composing'
  <2>1. ASSUME NEW u \in Syncs
        PROVE  Composes(sync[u], mixed', pruned', rows', ahead'.rejected)
    BY <2>1, <1>12, OfSync, ComposesKept
  <2>2. Composes(q, mixed', pruned', rows', ahead'.rejected)
    <3> SUFFICES ASSUME k \notin mixed
                 PROVE  Composes(q, mixed', pruned', rows', ahead'.rejected)
      BY <1>2 DEF Composes
    <3>1. Composes(sync[s], mixed', pruned', rows', ahead'.rejected)
      BY <2>1
    <3>2. ASSUME k \notin pruned, NEW x \in Owed(q.pc, k, q.todo)
          PROVE  rows'[k][x] = k
      <4>1. x \in Rows
        BY <1>1, <3>2, RowFacts DEF Owed
      <4>2. CASE x = row
        BY <1>1, <1>5, <1>7, <4>1, <4>2
      <4>3. CASE x # row
        <5>1. x \in Owed(sync[s].pc, k, sync[s].todo)
          BY <1>2, <3>2, <4>3 DEF Owed
        <5> QED
          BY <3>1, <3>2, <5>1 DEF Composes, Storing, Validated, k
      <4> QED
        BY <4>2, <4>3
    <3>3. /\ sync[s].pc \in Validated => Clear(k, Passed(sync[s].pc), ahead'.rejected)
          /\ sync[s].pc = "store" => sync[s].todo \subseteq Contents[k]
          /\ sync[s].pc = "variants" => sync[s].todo \subseteq Variants(k)
          /\ sync[s].pc # "set"
      BY <3>1 DEF Composes, Storing, k
    <3>4. pruned' = pruned /\ f = k
      BY <1>7
    <3> QED
      BY <1>2, <3>2, <3>3, <3>4 DEF Composes
  <2> QED
    BY <1>6, <2>1, <2>2 DEF Composing
<1>14. ReleaseIsWhole'
  <2>1. ASSUME release # NoRef, release \notin mixed \cup pruned
        PROVE  Whole(release)'
    <3>1. Whole(release) /\ release \in Refs
      BY <2>1 DEF ReleaseIsWhole, GitTypeOK
    <3>2. ASSUME NEW x \in Rows
          PROVE  rows'[release][x] = rows[release][x]
      BY <1>5, <1>7, <2>1, <3>1 DEF Whole
    <3>3. release' = release /\ Rendered(release)' = Rendered(release)
      BY DEF Rendered, Variants
    <3> QED
      BY <3>1, <3>2, <3>3 DEF Whole
  <2> QED
    BY <2>1 DEF ReleaseIsWhole, Accepted, Rejected
<1> QED
  BY <1>8, <1>9, <1>10, <1>11, <1>13, <1>14

LEMMA StoreKeeps ==
  ASSUME PublicationInv, NEW s \in Syncs, Store(s)
  PROVE  PublicationInv'
<1>1. sync[s].pc \in Storing /\ sync[s].pc = "store" /\ sync[s].todo # {}
  BY DEF Store, At, Storing
<1>2. ASSUME sync[s].ref \notin mixed
      PROVE  First(sync[s].todo) \in sync[s].todo
  <2>1. sync[s].ref \in Refs
    BY <1>1, OfSync DEF HasRef
  <2>2. sync[s].todo \subseteq Contents[sync[s].ref]
    BY <1>1, <1>2, OfSync DEF Composes
  <2> QED
    BY <1>1, <2>1, <2>2, FirstIsLeft, TreesHaveRows
<1>3. /\ Upsert(s, First(sync[s].todo))
      /\ UNCHANGED <<remote, tree, locked, release, mixed, pruned, ahead>>
  BY DEF Store
<1> HIDE DEF First
<1> QED
  BY <1>1, <1>2, <1>3, UpsertKeeps

LEMMA StoreVariantsKeeps ==
  ASSUME PublicationInv, NEW s \in Syncs, StoreVariants(s)
  PROVE  PublicationInv'
<1>1. sync[s].pc \in Storing
  BY DEF StoreVariants, At, Storing
<1>2. PICK row \in sync[s].todo : Upsert(s, row)
  BY DEF StoreVariants
<1>3. UNCHANGED <<remote, tree, locked, release, mixed, pruned, ahead>>
  BY DEF StoreVariants
<1> QED
  BY <1>1, <1>2, <1>3, UpsertKeeps

\* The prune, or the attempt: a ref that lost a row is one of the pruned.
LEMMA PruneKeeps ==
  ASSUME PublicationInv, NEW s \in Syncs, Prune(s)
  PROVE  PublicationInv'
<1> DEFINE q == [sync[s] EXCEPT !.pc = "set"]
<1> USE DEF PublicationInv, Types
<1>1. /\ sync[s] \in GitSync /\ sync \in [Syncs -> GitSync]
      /\ sync[s].pc = "variants" /\ sync[s].todo = {}
  BY OfSync DEF Prune, AllStored, At
<1>2. /\ q \in GitSync /\ q.pc = "set" /\ q.ref = sync[s].ref /\ q.todo = {}
  BY <1>1 DEF GitSync, Pcs
<1>3. sync' = [sync EXCEPT ![s] = q]
  BY DEF Prune
<1> HIDE DEF q
<1>4. /\ sync' \in [Syncs -> GitSync] /\ sync'[s] = q
      /\ \A u \in Syncs \ {s} : sync'[u] = sync[u]
  BY <1>1, <1>2, <1>3
<1>5. /\ remote' = remote /\ tree' = tree /\ release' = release /\ mixed' = mixed
      /\ locked' = locked
      /\ ahead' \in History /\ ahead'.home = ahead.home /\ ahead'.rejected = ahead.rejected
  BY OfSync DEF Prune, History
<1>6. /\ rows' \in [Refs -> [Rows -> Refs \cup {NoRef}]]
      /\ \A r \in Refs : \A x \in Rows :
            rows'[r][x] = rows[r][x] \/ (rows'[r][x] = NoRef /\ r \in pruned')
      /\ old' \subseteq {x \in Refs \X Rows : rows'[x[1]][x[2]] # NoRef}
      /\ pruned \subseteq pruned' /\ pruned' \subseteq Refs
  <2>1. CASE UNCHANGED <<rows, old, pruned>>
    BY <2>1 DEF GitTypeOK
  <2>2. CASE /\ rows' = [r \in Refs |-> [x \in Rows |->
                           IF <<r, x>> \in old THEN NoRef ELSE rows[r][x]]]
             /\ pruned' = pruned \cup {x[1] : x \in old}
             /\ old' = {}
    <3>1. \A r \in Refs : \A x \in Rows : <<r, x>> \in old => r \in pruned'
      BY <2>2
    <3>2. {x[1] : x \in old} \subseteq Refs
      BY DEF GitTypeOK
    <3> QED
      BY <2>2, <3>1, <3>2 DEF GitTypeOK
  <2> QED
    BY <2>1, <2>2 DEF Prune
<1>7. GitTypeOK'
  <2>1. \A u \in Syncs : sync'[u].pc = "idle" => sync'[u] = Idle
    BY <1>2, <1>4 DEF GitTypeOK, At
  <2> QED
    BY <1>4, <1>5, <1>6, <2>1 DEF GitTypeOK, GitSync, Pcs, At
<1>8. NeverAnEarlierCommit'
  BY <1>6 DEF NeverAnEarlierCommit
<1>9. Forward'
  <2>1. \A u \in Syncs : Home(u)' = Home(u)
    BY <1>5 DEF Home
  <2>2. StandsOn(q, tree[Home(s)])
    BY <1>1, <1>2, OfSync DEF StandsOn, HasRef, Storing
  <2> QED
    BY <1>4, <1>5, <2>1, <2>2 DEF Forward
<1>10. Unmixed'
  BY <1>5, <1>6 DEF Unmixed, Own
<1>11. Kept(mixed, mixed', pruned, pruned', rows, rows')
  BY <1>5, <1>6 DEF Kept
<1>12. Composing'
  <2>1. ASSUME NEW u \in Syncs
        PROVE  Composes(sync[u], mixed', pruned', rows', ahead'.rejected)
    BY <1>5, <1>11, OfSync, ComposesKept
  <2>2. Composes(q, mixed', pruned', rows', ahead'.rejected)
    <3>1. Composes(sync[s], mixed', pruned', rows', ahead'.rejected)
      BY <2>1
    <3>2. Owed("set", q.ref, {}) = Owed("variants", q.ref, {})
      BY DEF Owed
    <3> QED
      BY <1>1, <1>2, <3>1, <3>2 DEF Composes, Validated, Storing, Passed
  <2> QED
    BY <1>4, <2>1, <2>2 DEF Composing
<1>13. ReleaseIsWhole'
  <2>1. ASSUME release # NoRef, release \notin mixed \cup pruned'
        PROVE  Whole(release)' /\ Accepted(release)'
    <3>1. Whole(release) /\ release \in Refs /\ Accepted(release)
      BY <1>6, <2>1 DEF ReleaseIsWhole, GitTypeOK
    <3>2. \A x \in Rows : rows'[release][x] = rows[release][x]
      BY <1>6, <2>1, <3>1
    <3>3. /\ release' = release /\ Rendered(release)' = Rendered(release)
          /\ Accepted(release)'
      BY <1>5, <3>1 DEF Rendered, Variants, Accepted, Rejected
    <3> QED
      BY <3>1, <3>2, <3>3 DEF Whole
  <2> QED
    BY <1>5, <2>1 DEF ReleaseIsWhole
<1> QED
  BY <1>5, <1>7, <1>8, <1>9, <1>10, <1>12, <1>13

\* A ref that is set names what its sync has composed.
LEMMA SetRefKeeps ==
  ASSUME PublicationInv, NEW s \in Syncs, SetRef(s)
  PROVE  PublicationInv'
<1> DEFINE k == sync[s].ref
<1> USE DEF PublicationInv, Types
<1>1. /\ sync[s] \in GitSync /\ sync[s].pc = "set" /\ k \in Refs
  BY OfSync DEF SetRef, At, HasRef
<1>2. release' = release \/ release' = k
  BY DEF SetRef
<1>3. sync' = [sync EXCEPT ![s] = Idle]
  BY DEF SetRef, Stopped
<1>4. /\ sync' \in [Syncs -> GitSync] /\ sync'[s] = Idle
      /\ \A u \in Syncs \ {s} : sync'[u] = sync[u]
  BY <1>3, IdleTyped, OfSync
<1>5. UNCHANGED <<remote, tree, locked, rows, old, mixed, pruned, ahead>>
  BY DEF SetRef
<1>6. GitTypeOK'
  BY <1>1, <1>2, <1>4, <1>5 DEF GitTypeOK, GitSync, Pcs, At
<1>7. NeverAnEarlierCommit' /\ Unmixed'
  BY <1>5 DEF NeverAnEarlierCommit, Unmixed, Own
<1>8. Forward'
  <2>1. \A u \in Syncs : Home(u)' = Home(u)
    BY <1>5 DEF Home
  <2> QED
    BY <1>4, <1>5, <2>1, IdleKeeps DEF Forward
<1>9. Composing'
  BY <1>4, <1>5, IdleKeeps DEF Composing
<1>10. ReleaseIsWhole'
  <2>1. CASE release' = release
    BY <1>5, <2>1 DEF ReleaseIsWhole, Whole, Accepted, Rejected, Rendered, Variants
  <2>2. CASE release' = k
    <3> SUFFICES ASSUME k \notin mixed \cup pruned
                 PROVE  Accepted(release)' /\ Whole(release)'
      BY <1>5, <2>2 DEF ReleaseIsWhole
    <3>1. /\ Clear(k, Renderings, ahead.rejected) /\ sync[s].todo = {}
          /\ \A x \in Owed("set", k, {}) : rows[k][x] = k
      BY <1>1, OfSync DEF Composes, Validated, Passed
    <3>2. \A x \in Rendered(k) : rows[k][x] = k
      BY <3>1 DEF Owed
    <3>3. Own(k)
      BY <1>1 DEF Unmixed
    <3>4. Whole(k) /\ Accepted(k)
      BY <3>1, <3>2, <3>3, AcceptedIsClear DEF Whole, Own
    <3>5. Accepted(release)'
      BY <1>5, <2>2, <3>4 DEF Accepted, Rejected
    <3>6. Rendered(release)' = Rendered(k)
      BY <2>2 DEF Rendered, Variants
    <3> HIDE DEF k
    <3> QED
      BY <1>5, <2>2, <3>4, <3>5, <3>6 DEF Whole
  <2> QED
    BY <1>2, <2>1, <2>2
<1> QED
  BY <1>5, <1>6, <1>7, <1>8, <1>9, <1>10

\* The syncs of a server are gone, what they stored is not.
LEMMA CrashKeeps ==
  ASSUME PublicationInv, NEW h \in Hosts, Crash(h)
  PROVE  PublicationInv'
<1> USE DEF PublicationInv, Types
<1>1. /\ ahead' \in History /\ ahead'.home = ahead.home /\ ahead'.rejected = ahead.rejected
  BY DEF History, Crash
<1>2. sync \in [Syncs -> GitSync]
  BY DEF GitTypeOK, GitSync, Pcs
<1>3. /\ sync' \in [Syncs -> GitSync]
      /\ \A u \in Syncs : sync'[u] = Idle \/ sync'[u] = sync[u]
  BY <1>2, IdleTyped DEF Crash
<1>4. UNCHANGED <<remote, tree, locked, rows, release, old, mixed, pruned>>
  BY DEF Crash
<1>5. GitTypeOK'
  BY <1>3, <1>4 DEF GitTypeOK, GitSync, Pcs, At
<1>6. Forward'
  <2>1. \A u \in Syncs : Home(u)' = Home(u)
    BY <1>1 DEF Home
  <2> QED
    BY <1>3, <1>4, <2>1, IdleKeeps DEF Forward
<1>7. Composing'
  BY <1>1, <1>3, <1>4, IdleKeeps DEF Composing
<1>8. NeverAnEarlierCommit' /\ Unmixed'
  BY <1>4 DEF NeverAnEarlierCommit, Unmixed, Own
<1>9. ReleaseIsWhole'
  BY <1>1, <1>4 DEF ReleaseIsWhole, Whole, Accepted, Rejected
<1> QED
  BY <1>1, <1>5, <1>6, <1>7, <1>8, <1>9

LEMMA PushKeeps == PublicationInv /\ Push => PublicationInv'
<1> SUFFICES ASSUME PublicationInv, Push
             PROVE  PublicationInv'
  OBVIOUS
<1> USE DEF PublicationInv, Types
<1>1. UNCHANGED <<tree, locked, sync, rows, release, old, mixed, pruned, ahead>>
  BY DEF Push
<1>2. GitTypeOK' /\ ahead' \in History
  BY <1>1 DEF Push, GitTypeOK, At
<1>3. Forward'
  <2>1. \A h \in Hosts : tree[h] \in Nat
    BY RowFacts DEF GitTypeOK, NoRef
  <2>2. remote \in Nat /\ remote' = remote + 1
    BY RowFacts DEF GitTypeOK, Push
  <2>3. \A h \in Hosts : tree[h] <= remote'
    BY <2>1, <2>2 DEF Forward
  <2>4. \A u \in Syncs : Home(u)' = Home(u)
    BY <1>1 DEF Home
  <2> QED
    BY <1>1, <2>3, <2>4 DEF Forward
<1>4. NeverAnEarlierCommit' /\ Unmixed' /\ Composing' /\ ReleaseIsWhole'
  BY <1>1 DEF NeverAnEarlierCommit, Unmixed, Own, Composing, ReleaseIsWhole, Whole,
     Accepted, Rejected
<1> QED
  BY <1>2, <1>3, <1>4

LEMMA EnrollKeeps == PublicationInv /\ Enroll => PublicationInv'
<1> SUFFICES ASSUME PublicationInv, Enroll
             PROVE  PublicationInv'
  OBVIOUS
<1> USE DEF PublicationInv, Types
<1>1. /\ UNCHANGED <<remote, tree, locked, sync, rows, release, old, mixed, pruned>>
      /\ ahead' \in History /\ ahead'.home = ahead.home /\ ahead'.rejected = ahead.rejected
  BY DEF Enroll, History
<1>2. GitTypeOK'
  BY <1>1 DEF GitTypeOK, At
<1>3. Forward'
  <2>1. \A u \in Syncs : Home(u)' = Home(u)
    BY <1>1 DEF Home
  <2> QED
    BY <1>1, <2>1 DEF Forward
<1>4. NeverAnEarlierCommit' /\ Unmixed' /\ Composing' /\ ReleaseIsWhole'
  BY <1>1 DEF NeverAnEarlierCommit, Unmixed, Own, Composing, ReleaseIsWhole, Whole,
     Accepted, Rejected
<1> QED
  BY <1>1, <1>2, <1>3, <1>4

LEMMA AgeKeeps == PublicationInv /\ Age => PublicationInv'
<1> SUFFICES ASSUME PublicationInv, Age
             PROVE  PublicationInv'
  OBVIOUS
<1> USE DEF PublicationInv, Types
<1>1. /\ UNCHANGED <<remote, tree, locked, sync, rows, release, mixed, pruned>>
      /\ old' = {x \in Refs \X Rows : rows[x[1]][x[2]] # NoRef}
      /\ ahead' \in History /\ ahead'.home = ahead.home /\ ahead'.rejected = ahead.rejected
  BY DEF Age, History
<1>2. GitTypeOK'
  BY <1>1 DEF GitTypeOK, At
<1>3. Forward'
  <2>1. \A u \in Syncs : Home(u)' = Home(u)
    BY <1>1 DEF Home
  <2> QED
    BY <1>1, <2>1 DEF Forward
<1>4. NeverAnEarlierCommit' /\ Unmixed' /\ Composing' /\ ReleaseIsWhole'
  BY <1>1 DEF NeverAnEarlierCommit, Unmixed, Own, Composing, ReleaseIsWhole, Whole,
     Accepted, Rejected
<1> QED
  BY <1>1, <1>2, <1>3, <1>4

-----------------------------------------------------------------------------
(***************************************************************************)
(* The invariant, and what follows from it.                                *)
(***************************************************************************)
LEMMA InitPublicationInv == GitInit => PublicationInv
<1> SUFFICES ASSUME GitInit
             PROVE  PublicationInv
  OBVIOUS
<1> USE DEF PublicationInv, Types
<1>1. /\ ahead \in History /\ remote = 1 /\ 1 \in Refs /\ release = NoRef
      /\ tree = [h \in Hosts |-> NoRef] /\ locked = {}
      /\ sync = [s \in Syncs |-> Idle]
      /\ rows = [r \in Refs |-> [x \in Rows |-> NoRef]]
      /\ old = {} /\ mixed = {} /\ pruned = {}
  BY HistoriesAreTyped, RefsAreCommits DEF GitInit
<1>2. GitTypeOK
  BY <1>1, IdleTyped DEF GitTypeOK, GitSync, Pcs, At
<1>3. NeverAnEarlierCommit /\ Unmixed /\ ReleaseIsWhole
  BY <1>1 DEF NeverAnEarlierCommit, Unmixed, Own, ReleaseIsWhole
<1>4. Composing
  BY <1>1, IdleKeeps DEF Composing
<1>5. Forward
  BY <1>1, IdleKeeps DEF Forward, NoRef
<1> QED
  BY <1>1, <1>2, <1>3, <1>4, <1>5

LEMMA StepPublicationInv == PublicationInv /\ [GitNext]_gitVars => PublicationInv'
<1> SUFFICES ASSUME PublicationInv, [GitNext]_gitVars
             PROVE  PublicationInv'
  OBVIOUS
<1>1. CASE UNCHANGED gitVars
  BY <1>1 DEF gitVars, PublicationInv, Types, GitTypeOK, At, NeverAnEarlierCommit,
     Forward, Home, Unmixed, Own, Composing, ReleaseIsWhole, Whole, Accepted, Rejected
<1>2. ASSUME NEW s \in Syncs, Step(s) \/ Killed(s) \/ CheckoutRefused(s) \/ Fail(s)
      PROVE  PublicationInv'
  <2>1. CASE CheckoutRefused(s)
    BY <1>1, <2>1 DEF CheckoutRefused
  <2> QED
    BY <1>2, <2>1, CheckoutKeeps, ResolveKeeps, ReadPrevKeeps, RenderKeeps, StoreKeeps,
       StoreUnenrolledKeeps, RenderVariantsKeeps, StoreVariantsKeeps, PruneKeeps,
       SetRefKeeps, KilledKeeps, FailKeeps DEF Step
<1> QED
  BY <1>1, <1>2, CrashKeeps, PushKeeps, EnrollKeeps, AgeKeeps DEF GitNext

LEMMA PublicationInvariant == GitSpec => []PublicationInv
  BY InitPublicationInv, StepPublicationInv, PTL DEF GitSpec

\* The rows of a commit are of that commit or a later one (resolveHEAD).
THEOREM NoEarlierCommit == GitSpec => []RowsInv
<1>1. PublicationInv => RowsInv
  BY DEF PublicationInv, Types, RowsInv
<1> QED
  BY <1>1, PublicationInvariant, PTL

\* A release ref names an accepted commit with all its artifacts and none of another's,
\* unless its ref was mixed by an overlap or lost rows to the prune (gitsync.Sync).
THEOREM ReleasesAreWhole == GitSpec => []ReleaseIsWhole
<1>1. PublicationInv => ReleaseIsWhole
  BY DEF PublicationInv
<1> QED
  BY <1>1, PublicationInvariant, PTL

\* The branch keeps a desired state for the endpoint's fleet. Without one the endpoint is
\* offered what the checkout renders, whatever the release (OnDemandArtifactResolver).
FleetIsKept == \A r \in Refs : <<"fleet", "desired">> \in Contents[r]

\* While the fleet has a desired state, what is offered under a release is of that
\* release, with the exceptions of ReleasesAreWhole, and scheduled jobs of another commit
\* only where the release has none (resolveDesiredArtifact, resolveCronsArtifact).
THEOREM OffersAreOfTheRelease == FleetIsKept => (GitSpec => []OfferedIsOfRelease)
<1> SUFFICES ASSUME FleetIsKept
             PROVE  GitSpec => []OfferedIsOfRelease
  OBVIOUS
<1>1. PublicationInv => OfferedIsOfRelease
  <2> SUFFICES ASSUME PublicationInv, release # NoRef, release \notin mixed \cup pruned,
                      NEW h \in Hosts
               PROVE  /\ ServedArtifact(h, "variants") = release
                      /\ ServedArtifact(h, "desired") = release
                      /\ \/ ServedArtifact(h, "crons") = release
                         \/ {<<"fleet", "crons">>, <<"endpoint", "crons">>}
                              \cap Contents[release] = {}
    BY DEF OfferedIsOfRelease
  <2>1. Whole(release) /\ release \in Refs
    BY DEF PublicationInv, Types, GitTypeOK, ReleaseIsWhole
  <2>2. ASSUME NEW t \in Targets, NEW k \in Kinds
        PROVE  Found(t, k) = IF <<t, k>> \in Rendered(release) THEN release ELSE NoRef
    BY <2>1 DEF Found, Whole, Rows
  <2>3. ASSUME NEW k \in Kinds,
               \/ <<"fleet", k>> \in Rendered(release)
               \/ <<"endpoint", k>> \in Rendered(release)
        PROVE  ServedArtifact(h, k) = release
    BY <2>2, <2>3 DEF ServedArtifact, Stored, Targets
  <2>4. <<"fleet", "desired">> \in Rendered(release)
    BY <2>1 DEF FleetIsKept, Rendered
  <2>5. <<"fleet", "variants">> \in Rendered(release)
    <3>1. <<"fleet", "desired">> \in {y \in Contents[release] : y[2] = "desired"}
      BY <2>1 DEF FleetIsKept
    <3>2. <<"fleet", "variants">> \in Variants(release)
      BY <3>1 DEF Variants
    <3> QED
      BY <3>2 DEF Rendered
  <2>6. ServedArtifact(h, "variants") = release /\ ServedArtifact(h, "desired") = release
    BY <2>3, <2>4, <2>5 DEF Kinds
  <2>7. ASSUME {<<"fleet", "crons">>, <<"endpoint", "crons">>} \cap Contents[release] # {}
        PROVE  ServedArtifact(h, "crons") = release
    BY <2>3, <2>7 DEF Kinds, Rendered
  <2> QED
    BY <2>6, <2>7
<1> QED
  BY <1>1, PublicationInvariant, PTL
=============================================================================
