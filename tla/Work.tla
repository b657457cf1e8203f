-------------------------------- MODULE Work --------------------------------
(***************************************************************************)
(* The work one endpoint is given in the answers of its Syncs: the due run *)
(* of a scheduled job, an upgrade of the agent, a diagnostic collection.   *)
(* The server records what is under way in Postgres; the agent carries it  *)
(* out after the answer and keeps what it has to report in memory until a  *)
(* Sync succeeds.  Calls are lost at every step of the handler, the agent  *)
(* restarts, and its own upgrade restarts it.                              *)
(*                                                                         *)
(* A handler is over when the agent calls again; Delivery has those that   *)
(* are not.  Time is a minute on a wheel of WheelSize minutes, and of the  *)
(* five fields of a schedule only the minute is kept, the others being     *)
(* matched by the same function.                                           *)
(***************************************************************************)
EXTENDS Naturals, Sequences, FiniteSets

CONSTANTS WheelSize,        \* minutes of an hour
          MaxTime,          \* bound on the clock
          RunningTimeout,   \* minutes after which a run under way is given up
          MaxScan,          \* minutes LastDue scans
          Broken,           \* versions of the agent that cannot be installed
          Scenarios         \* [job, crons, versions, diagnostics, faults, releases]:
                            \* the schedule, whether it is served, what operators ask
                            \* for, how often something fails, how often delivery of
                            \* the endpoint's release is blocked or resumes

ASSUME WheelTurns == WheelSize \in Nat \ {0}
ASSUME TimeoutIsInTime == MaxTime \in Nat /\ RunningTimeout \in 1..MaxTime
ASSUME ScanIsPositive == MaxScan \in Nat \ {0}

Part == [lo : Nat, hi : Nat, step : Nat \ {0}]      \* a part of the minute field
Scenario == [job : SUBSET Part, crons : BOOLEAN, versions : SUBSET Nat,
             diagnostics : Nat, faults : Nat, releases : Nat]
ASSUME ScenariosAreTyped == Scenarios \subseteq Scenario

None == 0               \* no version, no run, no request
Never == MaxTime + 1    \* the zero time
Minute == 0..MaxTime

VARIABLES clock,
          last,         \* cron_last_runs of the job: status, run, slot, started
          runs,         \* what was dispatched: slot and time, by run id
          ep,           \* the endpoint's row: desired and reported version
          diag,         \* diagnostic_requests, oldest first: their status
          asking,       \* operators between the check and the insert of a request
          serving,      \* how the endpoint's release is answered
          agent,        \* the agent: version, what it reports, what it has to do
          call,         \* the Sync in progress
          history,      \* executed, lost, undelivered and misfiled runs; the version
                        \* asked for
          left          \* what is left of the scenario

vars == <<clock, last, runs, ep, diag, asking, serving, agent, call, history, left>>
server == <<last, runs, ep, diag>>

NoCall == [pc |-> "none", version |-> None, results |-> <<>>, report |-> None,
           outcome |-> "none", phase |-> "none", desired |-> None,
           clear |-> FALSE, recorded |-> FALSE, blocked |-> FALSE, due |-> None,
           instruction |-> None, collect |-> None]

Init == /\ left \in Scenarios
        /\ clock = 0
        /\ last = [status |-> "none", run |-> None, slot |-> Never, started |-> Never]
        /\ runs = <<>>
        /\ ep = [desired |-> None, reported |-> 1]
        /\ diag = <<>>
        /\ asking = 0
        /\ serving = "served"
        /\ agent = [pc |-> "ready", version |-> 1, installed |-> 1, results |-> <<>>,
                    report |-> None, outcome |-> "none", phase |-> "none",
                    desired |-> None, due |-> None, instruction |-> None,
                    collect |-> None]
        /\ call = NoCall
        /\ history = [executed |-> {}, lost |-> {}, undelivered |-> {}, misfiled |-> {},
                      asked |-> None, raced |-> FALSE]

(***************************************************************************)
(* The schedule.  A job is the set of the parts of its minute field.       *)
(***************************************************************************)
\* partMatches: the step is counted from the least value of the field
PartMatches(p, v) == v \in p.lo..p.hi /\ v % p.step = 0

Matches(t) == \E p \in left.job : PartMatches(p, t % WheelSize)

\* The zero time scans back from now; the scan ends after the first minute that is
\* more than MaxScan from its beginning.
Scanned(now, after) == IF after = Never THEN {m \in Minute : m + MaxScan >= now}
                       ELSE (after + 1)..(after + 2 + MaxScan)

\* Faulty form: the slot of the anchor is still due.
DueFrom(now, after) == {s \in Minute : s <= now /\ (after = Never \/ s >= after) /\ Matches(s)}
Due(now, after) == {s \in Scanned(now, after) : s <= now /\ Matches(s)}

Latest(S) == CHOOSE s \in S : \A other \in S : other <= s

\* Faulty form: a run under way is waited for, however long.
UnderWayForEver(now) == last.status = "running"
UnderWay(now) == last.status = "running" /\ now - last.started < RunningTimeout

\* dueJob: a run that failed is done as well, one given up is not
Anchor == IF last.status \in {"success", "failed"} THEN last.slot ELSE Never

DueSlots(now) ==
    LET due == IF ~left.crons \/ UnderWay(now) THEN {} ELSE Due(now, Anchor)
    IN IF due = {} \/ (last.status = "success" /\ last.slot = Latest(due)) THEN {}
       ELSE {Latest(due)}

(***************************************************************************)
(* The handler.                                                            *)
(***************************************************************************)
\* runOnce sends what it has to report and keeps it until the answer
Send ==
    /\ agent.pc = "ready" /\ call.pc = "none"
    /\ agent' = [agent EXCEPT !.pc = "waiting"]
    /\ call' = [NoCall EXCEPT
           !.pc = "sent", !.version = agent.version, !.results = agent.results,
           !.report = agent.report, !.outcome = agent.outcome,
           !.phase = agent.phase, !.desired = agent.desired]
    /\ UNCHANGED <<clock, server, asking, serving, history, left>>

\* agentUpgradeInstruction of the endpoint as it was read
Instructed == IF ep.desired # ep.reported THEN ep.desired ELSE None

\* The endpoint is read.  A blocked endpoint that has no active artifact has
\* nothing persisted; whether a blocked one is told to upgrade the release
\* catalog decides.
ReadEndpoint ==
    /\ call.pc = "sent"
    /\ \E instruction \in {Instructed} \cup (IF serving = "served" THEN {} ELSE {None}) :
          call' = [call EXCEPT
              !.pc = IF serving = "unmanaged" THEN "answered" ELSE "read",
              !.blocked = serving # "served", !.instruction = instruction]
    /\ UNCHANGED <<clock, server, asking, serving, agent, history, left>>

\* Faulty form: any report without a failure clears the request.
ClearsUnlessFailed == call.phase \notin {"failed", "installing"}
\* persistAgentUpgradeTelemetry and the row UpdateAgentUpgradeReport reads
Clears == \/ call.phase = "completed" /\ call.desired = call.version
          \/ ep.desired = call.version /\ call.phase \notin {"failed", "installing"}

UpgradeRead ==
    /\ call.pc = "read"
    /\ call' = [call EXCEPT !.pc = "upgrade", !.clear = Clears]
    /\ UNCHANGED <<clock, server, asking, serving, agent, history, left>>

UpgradeWrite ==
    /\ call.pc = "upgrade"
    /\ ep' = [desired |-> IF call.clear THEN None ELSE ep.desired, reported |-> call.version]
    /\ call' = [call EXCEPT !.pc = "diagnostic"]
    /\ UNCHANGED <<clock, last, runs, diag, asking, serving, agent, history, left>>

\* persistDiagnosticResult; a bundle that cannot be read or validated fails it
PersistDiagnostic ==
    /\ call.pc = "diagnostic"
    /\ call' = [call EXCEPT !.pc = "results"]
    /\ IF call.report = None THEN UNCHANGED <<diag, left>>
       ELSE \/ /\ diag' = [diag EXCEPT ![call.report] = call.outcome]
               /\ UNCHANGED left
            \/ /\ call.outcome = "ready" /\ left.faults > 0
               /\ diag' = [diag EXCEPT ![call.report] = "failed"]
               /\ left' = [left EXCEPT !.faults = @ - 1]
    /\ UNCHANGED <<clock, last, runs, ep, asking, serving, agent, history>>

ReportedRuns(results) == {results[i].run : i \in DOMAIN results}

\* Faulty form: the result is filed under the slot that is due by now.
RecordedNow(result, found) ==
    [status |-> result.status, run |-> result.run, started |-> result.started,
     slot |-> IF Due(clock, Never) = {} THEN last.slot ELSE Latest(Due(clock, Never))]
\* recordCronResult goes by the name of the job and keeps the slot of the row, whichever
\* run it is the result of; a row that cannot be read gets the time the run started
Recorded(result, found) ==
    [status |-> result.status, run |-> result.run, started |-> result.started,
     slot |-> IF found THEN last.slot ELSE result.started]

\* persistCronResults, whose failures are logged; a blocked endpoint is given no work
PersistResults ==
    /\ call.pc = "results"
    /\ \E outcome \in {"kept", "misfiled", "failed"} :
         /\ outcome = "kept" \/ (call.results # <<>> /\ left.faults > 0)
         /\ call' = [call EXCEPT !.pc = IF call.blocked THEN "answered" ELSE "due",
                                 !.recorded = outcome # "failed"]
         /\ last' = IF call.results = <<>> \/ outcome = "failed" THEN last
                    ELSE Recorded(call.results[1], outcome = "kept")
         /\ history' = IF outcome # "misfiled" THEN history
                       ELSE [history EXCEPT !.misfiled = @ \cup ReportedRuns(call.results)]
         /\ left' = IF outcome = "kept" THEN left ELSE [left EXCEPT !.faults = @ - 1]
    /\ UNCHANGED <<clock, runs, ep, diag, asking, serving, agent>>

\* dueCronsForEndpoint: a run is marked before it is handed out
DispatchDue ==
    /\ call.pc = "due"
    /\ \E slots \in {DueSlots(clock)} :
         IF slots = {}
         THEN /\ call' = [call EXCEPT !.pc = "collect"]
              /\ UNCHANGED <<last, runs>>
         ELSE \E slot \in slots :
              /\ runs' = Append(runs, [slot |-> slot, at |-> clock])
              /\ last' = [status |-> "running", run |-> Len(runs'), slot |-> slot,
                          started |-> clock]
              /\ call' = [call EXCEPT !.pc = "collect", !.due = Len(runs')]
    /\ UNCHANGED <<clock, ep, diag, asking, serving, agent, history, left>>

Active(status) == status \in {"pending", "dispatched", "running"}
\* Faulty form: a request that was handed out is not handed out again.
OfferedOnce == {d \in DOMAIN diag : diag[d] = "pending"}
\* GetActiveDiagnosticRequestForEndpoint, of which the latest is taken
Offered == {d \in DOMAIN diag : Active(diag[d])}

DispatchDiagnostic ==
    /\ call.pc = "collect"
    /\ IF Offered = {}
       THEN /\ call' = [call EXCEPT !.pc = "answered"]
            /\ UNCHANGED diag
       ELSE \E d \in {Latest(Offered)} :
            /\ call' = [call EXCEPT !.pc = "answered", !.collect = d]
            /\ diag' = [diag EXCEPT ![d] = IF @ = "pending" THEN "dispatched" ELSE @]
    /\ UNCHANGED <<clock, last, runs, ep, asking, serving, agent, history, left>>

Handler == \/ ReadEndpoint \/ UpgradeRead \/ UpgradeWrite \/ PersistDiagnostic
           \/ PersistResults \/ DispatchDue \/ DispatchDiagnostic

(***************************************************************************)
(* The agent.                                                              *)
(***************************************************************************)
ClearSent(sent) == IF sent = <<>> THEN agent.results ELSE <<>>

\* the agent takes the answer for a proof that what it sent is kept
Receive ==
    /\ call.pc = "answered"
    /\ agent' = [agent EXCEPT
           !.pc = "crons", !.results = ClearSent(call.results), !.report = None,
           !.outcome = "none", !.phase = "none", !.desired = None,
           !.due = call.due, !.instruction = call.instruction, !.collect = call.collect]
    /\ history' = [history EXCEPT
           !.lost = IF call.recorded THEN @ ELSE @ \cup ReportedRuns(call.results)]
    /\ call' = NoCall
    /\ UNCHANGED <<clock, server, asking, serving, left>>

\* runDueCrons
RunCron ==
    /\ agent.pc = "crons"
    /\ IF agent.due = None
       THEN /\ agent' = [agent EXCEPT !.pc = "upgrade"]
            /\ UNCHANGED history
       ELSE \E status \in {"success", "failed"} :
            /\ agent' = [agent EXCEPT
                   !.pc = "upgrade", !.due = None,
                   !.results = Append(@, [run |-> agent.due, status |-> status,
                                          started |-> clock])]
            /\ history' = [history EXCEPT !.executed = @ \cup {agent.due}]
    /\ UNCHANGED <<clock, server, asking, serving, call, left>>

\* What a restart leaves: the results in memory are gone.
Restarted(a, version) ==
    [a EXCEPT !.pc = "ready", !.version = version, !.installed = version,
              !.results = <<>>, !.report = None, !.outcome = "none", !.phase = "none",
              !.desired = None, !.due = None, !.instruction = None, !.collect = None]
LostByRestart == history.lost \cup ReportedRuns(agent.results)
                     \cup (IF agent.due = None THEN {} ELSE {agent.due})

\* maybeUpgrade: the installed agent is restarted; a failure ends the run of the loop
\* before the diagnostic collection, and the instruction comes again
Upgrade ==
    LET v == agent.instruction
    IN /\ agent.pc = "upgrade"
       /\ IF v \in {None, agent.version}
          THEN /\ agent' = [agent EXCEPT !.pc = "diagnose", !.instruction = None]
               /\ UNCHANGED <<history, left>>
          ELSE \/ /\ v \notin Broken
                  /\ agent' = Restarted(agent, v)
                  /\ history' = [history EXCEPT !.lost = LostByRestart]
                  /\ UNCHANGED left
               \/ /\ v \in Broken \/ left.faults > 0
                  /\ \E installed \in {agent.installed} \cup ({v} \ Broken) :
                       agent' = [agent EXCEPT !.pc = "ready", !.installed = installed,
                                     !.phase = "failed", !.desired = v,
                                     !.instruction = None, !.collect = None]
                  /\ left' = IF v \in Broken THEN left
                             ELSE [left EXCEPT !.faults = @ - 1]
                  /\ UNCHANGED history
       /\ UNCHANGED <<clock, server, asking, serving, call>>

\* handleDiagnosticUploadURL, which a request that is over refuses
RequestUpload ==
    LET d == agent.collect
    IN /\ agent.pc = "diagnose"
       /\ IF d = None
          THEN /\ agent' = [agent EXCEPT !.pc = "ready"]
               /\ UNCHANGED diag
          ELSE IF diag[d] \in {"dispatched", "running"}
               THEN /\ diag' = [diag EXCEPT ![d] = "running"]
                    /\ agent' = [agent EXCEPT !.pc = "upload"]
               ELSE /\ agent' = [agent EXCEPT !.pc = "ready", !.collect = None,
                                              !.report = d, !.outcome = "failed"]
                    /\ UNCHANGED diag
       /\ UNCHANGED <<clock, last, runs, ep, asking, serving, call, history, left>>

\* the bundle is put into the object store, or is not
Upload ==
    /\ agent.pc = "upload"
    /\ \E outcome \in {"ready", "failed"} :
         /\ outcome = "failed" => left.faults > 0
         /\ left' = IF outcome = "failed" THEN [left EXCEPT !.faults = @ - 1] ELSE left
         /\ agent' = [agent EXCEPT !.pc = "ready", !.collect = None,
                                   !.report = agent.collect, !.outcome = outcome]
    /\ UNCHANGED <<clock, server, asking, serving, call, history>>

Agent == Send \/ Receive \/ RunCron \/ Upgrade \/ RequestUpload \/ Upload

(***************************************************************************)
(* Operators, failures, time.                                              *)
(***************************************************************************)
\* RequestAgentUpgrade, or ClearAgentUpgrade for None
RequestUpgrade(v) ==
    /\ v \in left.versions
    /\ ep' = [ep EXCEPT !.desired = v]
    /\ left' = [left EXCEPT !.versions = @ \ {v}]
    /\ history' = [history EXCEPT !.asked = v,
                       !.raced = (call.pc = "upgrade" /\ call.clear)]
    /\ UNCHANGED <<clock, last, runs, diag, asking, serving, agent, call>>

\* CreateDiagnosticRequest looks for an active request and inserts its own
CreateLook ==
    /\ left.diagnostics > 0
    /\ Offered = {}
    /\ left' = [left EXCEPT !.diagnostics = @ - 1]
    /\ asking' = asking + 1
    /\ UNCHANGED <<clock, server, serving, agent, call, history>>

CreateInsert ==
    /\ asking > 0
    /\ asking' = asking - 1
    /\ diag' = Append(diag, "pending")
    /\ UNCHANGED <<clock, last, runs, ep, serving, agent, call, history, left>>

\* ExpireDiagnosticRequests, when an operator looks at a request that is too old
Expire(d) ==
    /\ left.faults > 0
    /\ diag[d] # "expired"
    /\ left' = [left EXCEPT !.faults = @ - 1]
    /\ diag' = [diag EXCEPT ![d] = "expired"]
    /\ UNCHANGED <<clock, last, runs, ep, asking, serving, agent, call, history>>

\* A release comes that the agent cannot take, or one it can again.
Publish ==
    /\ left.releases > 0
    /\ left' = [left EXCEPT !.releases = @ - 1]
    /\ serving' \in {"served", "blocked", "unmanaged"} \ {serving}
    /\ UNCHANGED <<clock, server, asking, agent, call, history>>

Undelivered == IF call.due = None THEN history.undelivered
               ELSE history.undelivered \cup {call.due}

\* The call fails where it is: the handler stops, answers an error, or its answer is
\* lost.  The agent keeps what it sent.
CallLost ==
    /\ call.pc # "none" /\ left.faults > 0
    /\ call' = NoCall
    /\ agent' = [agent EXCEPT !.pc = "ready"]
    /\ history' = [history EXCEPT !.undelivered = Undelivered]
    /\ left' = [left EXCEPT !.faults = @ - 1]
    /\ UNCHANGED <<clock, server, asking, serving>>

AgentRestart ==
    /\ left.faults > 0
    /\ agent' = Restarted(agent, agent.installed)
    /\ call' = NoCall
    /\ history' = [history EXCEPT !.undelivered = Undelivered, !.lost = LostByRestart]
    /\ left' = [left EXCEPT !.faults = @ - 1]
    /\ UNCHANGED <<clock, server, asking, serving>>

Tick == /\ clock < MaxTime
        /\ clock' = clock + 1
        /\ UNCHANGED <<server, asking, serving, agent, call, history, left>>

Next == \/ Handler \/ Agent \/ CallLost \/ AgentRestart \/ Publish \/ Tick
        \/ CreateLook \/ CreateInsert
        \/ \E v \in left.versions : RequestUpgrade(v)
        \/ \E d \in DOMAIN diag : Expire(d)

Spec == Init /\ [][Next]_vars
\* The loop of the agent polls, handlers answer, time passes, inserts end.
FairSpec == Spec /\ WF_vars(Handler \/ Agent) /\ WF_vars(Tick) /\ WF_vars(CreateInsert)

-----------------------------------------------------------------------------
\* The cron and upgrade rows, what the agent has on disk and the requests and
\* answers under way are all of the kinds the code gives them.
TypeOK ==
    /\ clock \in Minute
    /\ last.status \in {"none", "running", "success", "failed"}
    /\ last.slot \in Minute \cup {Never} /\ last.started \in Minute \cup {Never}
    /\ \A r \in DOMAIN runs : runs[r].slot \in Minute /\ runs[r].at \in Minute
    /\ \A d \in DOMAIN diag : Active(diag[d]) \/ diag[d] \in {"ready", "failed", "expired"}
    /\ history.executed \cup history.lost \cup history.undelivered \cup history.misfiled
         \subseteq DOMAIN runs
    /\ Len(agent.results) <= 1
    /\ agent.report \in DOMAIN diag \cup {None}

\* The standard reading of a stepped range counts from its beginning.
Standard(t) == \E p \in left.job :
                  \E k \in 0..WheelSize : t % WheelSize = p.lo + k * p.step
                                          /\ t % WheelSize <= p.hi
Aligned == \A p \in left.job : p.lo % p.step = 0

\* "One run is dispatched on the next check-in": a run is for the latest slot of the
\* schedule at the time it is dispatched, not for one of the past, where every stepped
\* range begins at a multiple of its step; a range that does not is read otherwise.
RunsAreForTheLatestSlot ==
    Aligned => \A r \in DOMAIN runs :
                  runs[r].slot = Latest({s \in Minute : s <= runs[r].at /\ Standard(s)})

\* A slot is carried out twice only if the result of the first run was lost: with the
\* agent's memory in a restart or an upgrade, or by a Sync that succeeded and kept
\* nothing; never because the endpoint was away or the call failed.
TwiceOnlyIfLost ==
    \A r, q \in history.executed :
        r < q /\ runs[r].slot = runs[q].slot => r \in history.lost

\* A row that is done names a run that was carried out, and none that was dispatched
\* after it reached the agent.  Its slot is that of the last run, which was not carried
\* out where the result of an earlier one was sent again, or the minute the run started,
\* where the row could not be read: in both cases a slot is held to be done that never
\* was.
DoneNamesItsRun ==
    last.status \in {"success", "failed"} =>
        /\ last.run \in history.executed
        /\ \A r \in DOMAIN runs : r > last.run => r \in history.undelivered
        /\ \/ last.slot = runs[Len(runs)].slot
           \/ last.run \in history.misfiled /\ last.slot = last.started

\* What the server records of a job: its runs are for the latest slot, and a row that is
\* done names a run that was carried out, through lost answers, results sent again and
\* results filed under the wrong slot.
RunsInv == TypeOK /\ RunsAreForTheLatestSlot /\ DoneNamesItsRun

\* However often calls fail and agents restart, the latest slot of an endpoint that is
\* served is recorded in the end, or a later minute a result was filed under.  A run
\* whose time to be given up is after the end of the model's clock stays under way.
LatestSlotIsDone ==
    left.crons /\ Due(MaxTime, Never) # {} /\ <>[](serving = "served")
        => <>[](IF last.status = "running" THEN last.started + RunningTimeout > MaxTime
                ELSE last.status # "none" /\ last.slot >= Latest(Due(MaxTime, Never)))

\* The version an operator asked for last runs in the end, unless it cannot be
\* installed: only its own report clears the request, or one that was about to clear
\* the request before it.
RequestedVersionRuns ==
    <>[](serving = "served")
        => <>[](\/ history.asked \in Broken \cup {None}
                \/ history.raced
                \/ agent.version = history.asked /\ ep.desired = None)

\* Every diagnostic request is over in the end, also of two that were created at once,
\* unless the agent is asked for a version it cannot install, which comes first.
DiagnosticsSettle ==
    <>[](serving = "served")
        => \/ <>[](ep.desired \in Broken)
           \/ <>[](\A d \in DOMAIN diag : ~Active(diag[d]))
=============================================================================
