------------------------- MODULE RebootCoordination -------------------------
(***************************************************************************)
(* Coordinated reboots on one endpoint: the reboot resource                *)
(* (internal/applicators/reboots), the durable state it shares with the    *)
(* agent (internal/agent/rebootstate) and the agent's cycle                *)
(* (cmd/remotr-agent).                                                     *)
(*                                                                         *)
(* One cycle refreshes the state against the boot identity, sends a Sync   *)
(* that carries a prepared intent, acts on the acknowledgement, applies    *)
(* the artifact if there is one, and records which resources asked for a   *)
(* reboot.  The process may crash and the machine may boot between any two *)
(* of these.  The state file is replaced atomically: a save that reports   *)
(* an error has either left the old file or put the new one in place.      *)
(***************************************************************************)
EXTENDS Naturals, FiniteSets

CONSTANTS
    Generation,   \* reboot generations
    Source,       \* resources that may report that they need a reboot
    None,         \* no intent, no completion, nothing acknowledged
    Artifacts,    \* the sets of reboot resources that releases declare
    Timeout,      \* how long an attempt may take
    MaxReleases,  \* bound: changes of the desired artifact
    MaxFaults,    \* bound: crashes, failed saves, lost Syncs, unasked boots
    MaxBoot,      \* bound: last boot of the machine
    MaxTime       \* bound: last instant of the clock

\* A reboot resource; a deadline of zero is none.
Resource == [generation: Generation, onlyIfRequired: BOOLEAN, delay: Nat, deadline: Nat]

ASSUME ConstantsAssumption ==
    /\ Artifacts \subseteq SUBSET Resource /\ Artifacts # {}
    /\ None \notin Generation
    /\ Timeout \in Nat \ {0}
    /\ {MaxReleases, MaxFaults, MaxBoot, MaxTime} \subseteq Nat

VARIABLES
    disk,       \* the state file
    pc,         \* what the agent does next, "down" when it is not running
    pending,    \* generation queued for the next Sync
    acked,      \* generation the last response acknowledged
    boot,       \* identity of the running boot
    rebooting,  \* the reboot command was accepted
    desired,    \* the reboot resources of the current release
    clock,
    releases, faults,
    commands    \* history: reboot commands, with the boot they ran in

agent == <<pc, pending, acked>>
vars == <<disk, agent, boot, rebooting, desired, clock, releases, faults, commands>>

Intent == [generation: Generation,
           phase: {"awaiting", "attempting", "timed-out", "failed"},
           priorBoot: Nat, currentBoot: Nat, notBefore: Nat, deadline: Nat,
           attempt: Nat, attemptedAt: Nat, attemptDeadline: Nat]
Completion == [generation: Generation, boot: Nat, attempt: Nat]
ASSUME NoneIsAbsent == None \notin Intent \cup Completion

Status == [sources: SUBSET Source, intent: Intent \cup {None},
           completion: Completion \cup {None}, attempts: Nat]

Active(st) == st.intent # None /\ st.intent.phase \in {"awaiting", "attempting"}
Expired(intent, t) == intent.deadline # 0 /\ t >= intent.deadline

\* validatePersistedState: a state file that is not like this is refused by
\* every later operation.
Parses(st) ==
    /\ st.intent # None =>
        LET i == st.intent IN
        /\ i.deadline # 0 => i.deadline > i.notBefore
        /\ i.currentBoot \in {0, i.priorBoot} \/ i.phase = "timed-out"
        /\ i.attempt <= st.attempts
        /\ i.phase = "awaiting" => i.attempt = 0
        /\ i.phase \in {"attempting", "failed"} => i.attempt > 0
        /\ i.attempt > 0 => i.attemptDeadline > i.attemptedAt
    /\ st.completion # None => st.completion.attempt \in 1..st.attempts
    /\ st.intent # None /\ st.completion # None
           => st.intent.generation # st.completion.generation

-----------------------------------------------------------------------------
(***************************************************************************)
(* Saving the state file.                                                  *)
(***************************************************************************)
Fault == faults < MaxFaults /\ faults' = faults + 1

SaveFails(new) == Fault /\ disk' \in {disk, new}

-----------------------------------------------------------------------------
(***************************************************************************)
(* Refreshing: Reconcile, then queue what is due for acknowledgement.      *)
(***************************************************************************)
TimedOut(st) == [st EXCEPT !.intent.phase = "timed-out"]

CompletedBy(st) ==
    [st EXCEPT !.intent = None, !.sources = {},
               !.completion = [generation |-> st.intent.generation, boot |-> boot,
                               attempt |-> st.intent.attempt]]

\* Faulty form: the reboot command alone completes the attempt.
ReconciledUnverified(st) ==
    IF st.intent # None /\ st.intent.phase = "attempting" THEN CompletedBy(st) ELSE st

\* Faulty form: an attempt has no deadline.
ReconciledForever(st) ==
    IF st.intent # None /\ st.intent.phase = "attempting" /\ boot # st.intent.priorBoot
    THEN CompletedBy(st) ELSE st

Reconciled(st) ==
    IF ~Active(st) THEN st
    ELSE IF st.intent.phase = "awaiting"
         THEN IF Expired(st.intent, clock) THEN TimedOut(st) ELSE st
    ELSE IF clock >= st.intent.attemptDeadline
         THEN [TimedOut(st) EXCEPT !.intent.currentBoot = boot]
    ELSE IF boot # st.intent.priorBoot THEN CompletedBy(st)
    ELSE [st EXCEPT !.intent.currentBoot = boot]

Due(st) ==
    IF /\ st.intent # None /\ st.intent.phase = "awaiting"
       /\ clock >= st.intent.notBefore /\ ~Expired(st.intent, clock)
    THEN st.intent.generation ELSE None

\* At the start of a cycle and once more after an artifact was applied.
Refresh ==
    /\ pc \in {"refresh", "settle"}
    /\ pc' = IF pc = "refresh" THEN "sync" ELSE "refresh"
    /\ \/ /\ disk' = Reconciled(disk)
          /\ pending' = Due(Reconciled(disk))
          /\ UNCHANGED faults
       \/ /\ SaveFails(Reconciled(disk))
          /\ UNCHANGED pending
    /\ UNCHANGED <<acked, boot, rebooting, desired, clock, releases, commands>>

-----------------------------------------------------------------------------
(***************************************************************************)
(* Syncing and acting on the acknowledgement.  The server acknowledges     *)
(* whatever well-formed intent a request carries.                          *)
(***************************************************************************)
SyncFails ==
    /\ pc = "sync"
    /\ pc' = "refresh"
    /\ Fault
    /\ UNCHANGED <<disk, pending, acked, boot, rebooting, desired, clock, releases, commands>>

SyncAnswered ==
    /\ pc = "sync"
    /\ pc' = IF pending = None THEN "apply" ELSE "acknowledge"
    /\ acked' = pending
    /\ pending' = None
    /\ UNCHANGED <<disk, boot, rebooting, desired, clock, releases, faults, commands>>

AckDue ==
    /\ disk.intent # None
    /\ disk.intent.generation = acked
    /\ disk.intent.phase = "awaiting"
    /\ clock >= disk.intent.notBefore

MayAttempt ==
    /\ AckDue
    /\ ~Expired(disk.intent, clock)
    /\ boot = disk.intent.priorBoot

Attempting ==
    LET i == disk.intent
        end == IF i.deadline # 0 /\ i.deadline < clock + Timeout
               THEN i.deadline ELSE clock + Timeout
    IN [disk EXCEPT !.attempts = @ + 1,
                    !.intent = [i EXCEPT !.phase = "attempting", !.attempt = disk.attempts + 1,
                                         !.attemptedAt = clock, !.attemptDeadline = end]]

\* The attempt is durable before the command may run.
Acknowledge ==
    /\ pc = "acknowledge"
    /\ \/ MayAttempt /\ disk' = Attempting /\ pc' = "command" /\ UNCHANGED faults
       \/ MayAttempt /\ SaveFails(Attempting) /\ pc' = "apply"
       \/ /\ ~MayAttempt
          /\ LET new == IF AckDue /\ Expired(disk.intent, clock) THEN TimedOut(disk) ELSE disk
             IN (disk' = new /\ UNCHANGED faults) \/ SaveFails(new)
          /\ pc' = "apply"
    /\ UNCHANGED <<pending, acked, boot, rebooting, desired, clock, releases, commands>>

\* systemctl reboot, which returns before the machine goes down, or fails.
RunReboot ==
    /\ pc = "command"
    /\ \/ /\ pc' = "apply"
          /\ rebooting' = TRUE
          /\ commands' = commands \cup
                 {[generation |-> acked, attempt |-> disk.intent.attempt, boot |-> boot]}
       \/ pc' = "mark" /\ UNCHANGED <<rebooting, commands>>
    /\ UNCHANGED <<disk, pending, acked, boot, desired, clock, releases, faults>>

MarkAttemptFailed ==
    /\ pc = "mark"
    /\ pc' = "apply"
    /\ LET new == [disk EXCEPT !.intent.phase = "failed"]
       IN (disk' = new /\ UNCHANGED faults) \/ SaveFails(new)
    /\ UNCHANGED <<pending, acked, boot, rebooting, desired, clock, releases, commands>>

-----------------------------------------------------------------------------
(***************************************************************************)
(* Applying the artifact.                                                  *)
(***************************************************************************)

\* Check finds the resource drifted, and ApplyResult gets past its own tests.
\* An inhibitor, the power supply or the maintenance window may still defer it,
\* and then it is as if the artifact had not been sent.
Eligible(res) ==
    /\ ~(/\ disk.completion # None
         /\ disk.completion.generation = res.generation
         /\ disk.completion.boot = boot)
    /\ ~Active(disk)
    /\ disk.intent # None => disk.intent.generation # res.generation
    /\ res.onlyIfRequired => disk.sources # {}
    /\ res.deadline # 0 => res.deadline > clock + res.delay
    /\ clock + res.delay + Timeout <= MaxTime

\* Faulty form: the completed generation is not remembered.
PreparableWhatever(res) == Eligible(res)

\* Prepare refuses the completed generation, and one that is or was in progress.
Preparable(res) ==
    /\ Eligible(res)
    /\ disk.completion # None => disk.completion.generation # res.generation

Prepared(res) ==
    [disk EXCEPT !.intent =
        [generation |-> res.generation, phase |-> "awaiting", priorBoot |-> boot,
         currentBoot |-> 0, notBefore |-> clock + res.delay, deadline |-> res.deadline,
         attempt |-> 0, attemptedAt |-> 0, attemptDeadline |-> 0]]

\* At most one reboot resource of an artifact can be prepared: the next finds
\* another generation active.
ApplyReboot ==
    /\ pc = "apply"
    /\ pc' = "record"
    /\ \E res \in desired :
          /\ Preparable(res)
          /\ (disk' = Prepared(res) /\ UNCHANGED faults) \/ SaveFails(Prepared(res))
    /\ UNCHANGED <<pending, acked, boot, rebooting, desired, clock, releases, commands>>

\* The artifact has nothing to prepare, or everything is deferred.
ApplyOthers ==
    /\ pc = "apply"
    /\ pc' = "record"
    /\ UNCHANGED <<disk, pending, acked, boot, rebooting, desired, clock, releases, faults,
                   commands>>

\* The response carried no artifact.
NoArtifact ==
    /\ pc = "apply"
    /\ pc' = "refresh"
    /\ UNCHANGED <<disk, pending, acked, boot, rebooting, desired, clock, releases, faults,
                   commands>>

\* Record: sources are added, never taken away; with none to add nothing is saved.
Record ==
    /\ pc = "record"
    /\ pc' = "settle"
    /\ \E asked \in SUBSET Source :
          LET new == [disk EXCEPT !.sources = @ \cup asked] IN
          \/ disk' = new /\ UNCHANGED faults
          \/ new # disk /\ SaveFails(new)
    /\ UNCHANGED <<pending, acked, boot, rebooting, desired, clock, releases, commands>>

-----------------------------------------------------------------------------
(***************************************************************************)
(* The machine.                                                            *)
(***************************************************************************)
Stopped == pc' = "down" /\ pending' = None /\ acked' = None

Crash ==
    /\ pc # "down"
    /\ Fault
    /\ Stopped
    /\ UNCHANGED <<disk, boot, rebooting, desired, clock, releases, commands>>

\* The boot the command asked for, or one that nobody asked for.
Boot ==
    /\ boot < MaxBoot
    /\ (rebooting /\ UNCHANGED faults) \/ (~rebooting /\ Fault)
    /\ boot' = boot + 1
    /\ rebooting' = FALSE
    /\ Stopped
    /\ UNCHANGED <<disk, desired, clock, releases, commands>>

Start ==
    /\ pc = "down"
    /\ pc' = "refresh"
    /\ UNCHANGED <<disk, pending, acked, boot, rebooting, desired, clock, releases, faults,
                   commands>>

\* Bounds: an intent is prepared, and waits, only while its attempt still fits.
Tick ==
    /\ clock < MaxTime
    /\ disk.intent # None /\ disk.intent.phase = "awaiting" => clock + Timeout < MaxTime
    /\ clock' = clock + 1
    /\ UNCHANGED <<disk, agent, boot, rebooting, desired, releases, faults, commands>>

Release ==
    /\ releases < MaxReleases
    /\ releases' = releases + 1
    /\ desired' \in Artifacts
    /\ UNCHANGED <<disk, agent, boot, rebooting, clock, faults, commands>>

Init ==
    /\ disk = [sources |-> {}, intent |-> None, completion |-> None, attempts |-> 0]
    /\ pc = "down" /\ pending = None /\ acked = None
    /\ boot = 1 /\ rebooting = FALSE
    /\ desired \in Artifacts
    /\ clock = 1 /\ releases = 0 /\ faults = 0
    /\ commands = {}

AgentStep ==
    \/ Refresh \/ SyncFails \/ SyncAnswered \/ Acknowledge \/ RunReboot
    \/ MarkAttemptFailed \/ ApplyReboot \/ ApplyOthers \/ NoArtifact \/ Record
    \/ Start

Next == AgentStep \/ Crash \/ Boot \/ Tick \/ Release

Spec == Init /\ [][Next]_vars

\* The agent is a service that the init system restarts, its cycle never waits
\* for ever, and time passes.
FairSpec == Spec /\ WF_vars(AgentStep) /\ WF_vars(Tick)

-----------------------------------------------------------------------------
(***************************************************************************)
(* What must hold.                                                         *)
(***************************************************************************)

\* Every variable has its type, and the state file is one that parses: no
\* sequence of saves, torn by crashes, locks the coordinator out of its state.
TypeOK ==
    /\ disk \in Status
    /\ Parses(disk)
    /\ pc \in {"down", "refresh", "sync", "acknowledge", "command", "mark", "apply",
               "record", "settle"}
    /\ {pending, acked} \subseteq Generation \cup {None}
    /\ boot \in Nat /\ clock \in Nat /\ rebooting \in BOOLEAN
    /\ desired \in SUBSET Resource

\* No attempt number, and no generation within one artifact's life, is used for
\* two reboot commands, whatever crashes and failed saves come in between.
NoSecondCommand ==
    \A c, d \in commands :
        c # d => c.attempt # d.attempt /\ c.generation # d.generation

\* The state file always parses and never leads to a second command, whatever was
\* saved or not when the agent or the machine stopped (store.Prepare).
StatusInv == TypeOK /\ NoSecondCommand

\* A generation completes only when the machine did boot after the attempt
\* became durable and the agent saw that before the attempt's deadline.
CompletionIsVerified ==
    [][disk'.completion # disk.completion =>
          /\ disk.intent # None /\ disk.intent.phase = "attempting"
          /\ disk'.completion.attempt = disk.intent.attempt
          /\ disk'.completion.boot > disk.intent.priorBoot
          /\ clock < disk.intent.attemptDeadline]_disk

\* Whatever happens to it, an attempt ends, and so does an intent that has a
\* deadline: completed, failed or timed out, neither holds up its successors.
AttemptSettles ==
    (Active(disk) /\ (disk.intent.phase = "attempting" \/ disk.intent.deadline # 0))
        ~> ~Active(disk)
=============================================================================
