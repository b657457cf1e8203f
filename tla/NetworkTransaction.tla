------------------------ MODULE NetworkTransaction ------------------------
(***************************************************************************)
(* Guarded network changes on one endpoint: the transaction state and its  *)
(* protected recovery record (internal/agent/networkstate, over            *)
(* internal/rollbackstore), the applicators that open a transaction before *)
(* they change the network, their watchdogs, and the agent's cycle, which  *)
(* confirms a transaction when a Sync got through (cmd/remotr-agent).      *)
(*                                                                         *)
(* Nothing is locked between the cycle and the watchdogs: each operation   *)
(* looks at the files, acts, and writes them one by one, and the process   *)
(* may crash between any two of these.  A backend restores the snapshot    *)
(* that the record holds (nftables, netplan, systemd-networkd) or, with    *)
(* NetworkManager, a checkpoint that NetworkManager keeps and times.       *)
(***************************************************************************)
EXTENDS Naturals

CONSTANTS
    MaxTx,      \* bound: transactions, numbered as their attempts
    None,       \* no transaction
    Main,       \* the agent's cycle
    Timeout,    \* time an acknowledgement may take
    Sensitive,  \* a record holds a file, and may be kept for Retention only
    Retention,
    Scenarios,  \* bounds of the behaviours explored
    MaxTime     \* bound: last instant of the clock

\* A scenario allows so many transactions and faults (crashes, failed writes,
\* failed commands), and may say that no operation lasts until a deadline comes.
\* The backend is NetworkManager or one that restores the record's snapshot.
Scenario == [transactions : 1..MaxTx, faults : Nat, prompt : BOOLEAN, manager : BOOLEAN]

ASSUME ConstantsAssumption ==
    /\ {MaxTx, Timeout, Retention} \subseteq Nat \ {0}
    /\ MaxTime \in Nat
    /\ Timeout < Retention
    /\ Sensitive \in BOOLEAN
    /\ Scenarios \subseteq Scenario
    /\ {None, Main} \cap Nat = {}

Tx == 1..MaxTx
Process == {Main} \cup Tx   \* the cycle, and the watchdog of each transaction

VARIABLES
    state,      \* state.json: the last transaction and its phase
    record,     \* the recovery record of each transaction
    snapshot,   \* the configuration a record restores
    prepared,   \* when a transaction was prepared
    net,        \* the configuration in effect: that of a transaction, or 0
    checkpoints, \* transactions whose checkpoint NetworkManager holds
    pc,         \* where the cycle is, "down" when the agent is not running
    op,         \* the operation each process is in the middle of
    open,       \* the agent could open the store when it started
    pending,    \* transaction queued for the next Sync
    timers,     \* watchdogs that will fire
    scenario,   \* which of the Scenarios this behaviour is in
    clock, faults,
    confirmed   \* history: transactions ever recorded as acknowledged

files == <<state, record, snapshot, prepared>>
network == <<net, checkpoints>>
cycle == <<pc, op, open, pending, timers>>
vars == <<files, network, cycle, scenario, clock, faults, confirmed>>

Phase == {"awaiting", "acknowledged", "rolled-back", "rollback-failed"}

-----------------------------------------------------------------------------
(***************************************************************************)
(* The two files.                                                          *)
(***************************************************************************)
Awaiting == state.phase = "awaiting"

\* The record still holds its payload.  A sensitive one is dropped by whoever
\* reads it after its time.
Armed(tx) ==
    /\ record[tx] = "armed"
    /\ Sensitive => clock < prepared[tx] + Retention

\* validateStartup: what every New demands.
Healthy == {tx \in Tx : Armed(tx)} = IF Awaiting THEN {state.tx} ELSE {}

Fault == faults < scenario.faults /\ faults' = faults + 1

\* A failed write of state.json leaves the old one.
Write(tx, phase) == state' = [tx |-> tx, phase |-> phase] /\ UNCHANGED faults
WriteFails == Fault /\ UNCHANGED state

\* A failed write of a record may have put the new one in place.
Put(tx, content) == record' = [record EXCEPT ![tx] = content] /\ UNCHANGED faults
PutFails(tx, content) == Fault /\ record' \in {record, [record EXCEPT ![tx] = content]}

Idle(p) == op[p].at = "idle"
Goto(p, at, tx) == op' = [op EXCEPT ![p] = [at |-> at, tx |-> tx]]
Done(p) == Goto(p, "idle", None)

-----------------------------------------------------------------------------
(***************************************************************************)
(* Rolling back, by the cycle or by a watchdog, once it looked at the      *)
(* files: restore, write the state, let the record go.                     *)
(***************************************************************************)

\* Reconcile rolls back what awaits an acknowledgement past its deadline, if
\* the record can be read.
Overdue == Awaiting /\ Armed(state.tx) /\ clock >= prepared[state.tx] + Timeout

\* NetworkManager restores from a checkpoint of its own, while it still has it.
Restorable(tx) == scenario.manager => tx \in checkpoints

Restore(p) ==
    LET tx == op[p].tx IN
    /\ op[p].at = "restore"
    /\ \/ /\ Restorable(tx)
          /\ net' = snapshot[tx] /\ checkpoints' = checkpoints \ {tx}
          /\ Goto(p, "write", tx)
          /\ UNCHANGED faults
       \/ /\ Restorable(tx) /\ Fault
          /\ net' \in {net, snapshot[tx]}
          /\ checkpoints' \in {checkpoints, checkpoints \ {tx}}
          /\ Goto(p, "fail", tx)
       \/ ~Restorable(tx) /\ Goto(p, "fail", tx) /\ UNCHANGED <<network, faults>>
    /\ UNCHANGED <<files, pc, open, pending, timers, scenario, clock, confirmed>>

WriteRolledBack(p) ==
    /\ op[p].at = "write"
    /\ \/ /\ Write(op[p].tx, "rolled-back")
          /\ Goto(p, "release", op[p].tx)
          /\ pending' = IF p = Main THEN None ELSE pending
       \/ WriteFails /\ Done(p) /\ UNCHANGED pending
    /\ UNCHANGED <<record, snapshot, prepared, network, pc, open, timers, scenario,
                   clock, confirmed>>

\* Faulty form: the record of a failed rollback is let go.
MarkRollbackFailureReleasing(p) ==
    /\ op[p].at = "fail"
    /\ state' = [tx |-> op[p].tx, phase |-> "rollback-failed"]
    /\ Goto(p, "release", op[p].tx)
    /\ UNCHANGED <<record, snapshot, prepared, network, pc, open, pending, timers,
                   scenario, clock, faults, confirmed>>

MarkRollbackFailure(p) ==
    /\ op[p].at = "fail"
    /\ Write(op[p].tx, "rollback-failed") \/ WriteFails
    /\ Done(p)
    /\ UNCHANGED <<record, snapshot, prepared, network, pc, open, pending, timers,
                   scenario, clock, confirmed>>

Release(p) ==
    /\ op[p].at = "release"
    /\ Put(op[p].tx, "released") \/ PutFails(op[p].tx, "released")
    /\ Done(p)
    /\ UNCHANGED <<state, snapshot, prepared, network, pc, open, pending, timers,
                   scenario, clock, confirmed>>

RollingBack(p) == Restore(p) \/ WriteRolledBack(p) \/ MarkRollbackFailure(p) \/ Release(p)

-----------------------------------------------------------------------------
(***************************************************************************)
(* The agent's cycle.                                                      *)
(***************************************************************************)
At(here) == pc = here /\ Idle(Main)

Start ==
    /\ pc = "down"
    /\ pc' = "refresh"
    /\ open' = Healthy
    /\ UNCHANGED <<files, network, op, pending, timers,
                   scenario, clock, faults, confirmed>>

\* Faulty form: a deadline that has passed is left to the watchdog.
RefreshWithoutRollback ==
    /\ At("refresh") \/ At("settle")
    /\ pc' = IF pc = "refresh" THEN "sync" ELSE "refresh"
    /\ pending' = IF open /\ Awaiting THEN state.tx ELSE None
    /\ UNCHANGED <<files, network, op, open, timers,
                   scenario, clock, faults, confirmed>>

\* At the start of a cycle and once more after an artifact was applied.  When
\* the record cannot be read, what is queued stays queued.
Refresh ==
    /\ At("refresh") \/ At("settle")
    /\ pc' = IF pc = "refresh" THEN "sync" ELSE "refresh"
    /\ \/ open /\ Overdue /\ Goto(Main, "restore", state.tx) /\ UNCHANGED pending
       \/ ~(open /\ Overdue) /\ UNCHANGED op
          /\ pending' = IF ~(open /\ Awaiting) THEN None
                        ELSE IF Armed(state.tx) THEN state.tx ELSE pending
    /\ UNCHANGED <<files, network, open, timers, scenario, clock, faults, confirmed>>

\* The network may or may not let the Sync through.
SyncFails ==
    /\ At("sync")
    /\ pc' = "refresh"
    /\ UNCHANGED <<files, network, op, open, pending, timers,
                   scenario, clock, faults, confirmed>>

SyncAnswered ==
    /\ At("sync")
    /\ pc' = IF pending = None THEN "apply" ELSE "acknowledge"
    /\ UNCHANGED <<files, network, op, open, pending, timers,
                   scenario, clock, faults, confirmed>>

\* The server acknowledged what was pending: Reconcile, then confirm if it is
\* still what awaits.
Acknowledge ==
    /\ At("acknowledge")
    /\ pc' = "apply"
    /\ pending' = None
    /\ \/ Overdue /\ Goto(Main, "restore", state.tx)
       \/ /\ Awaiting /\ Armed(state.tx) /\ ~Overdue /\ state.tx = pending
          /\ Goto(Main, IF scenario.manager THEN "destroy" ELSE "confirm", state.tx)
       \/ ~(Awaiting /\ Armed(state.tx) /\ (Overdue \/ state.tx = pending)) /\ UNCHANGED op
    /\ UNCHANGED <<files, network, open, timers, scenario, clock, faults, confirmed>>

\* Faulty form: a checkpoint that could not be destroyed does not stop it.
DestroyCheckpointOrNot ==
    LET tx == op[Main].tx IN
    /\ op[Main].at = "destroy"
    /\ \/ checkpoints' = checkpoints \ {tx} /\ UNCHANGED faults
       \/ Fault /\ UNCHANGED checkpoints
    /\ Goto(Main, "confirm", tx)
    /\ UNCHANGED <<files, net, pc, open, pending, timers, scenario, clock, confirmed>>

\* NetworkManager lets go of its checkpoint before the state says acknowledged.
DestroyCheckpoint ==
    LET tx == op[Main].tx IN
    /\ op[Main].at = "destroy"
    /\ \/ /\ tx \in checkpoints
          /\ checkpoints' = checkpoints \ {tx}
          /\ Goto(Main, "confirm", tx)
          /\ UNCHANGED faults
       \/ /\ tx \in checkpoints /\ Fault
          /\ checkpoints' \in {checkpoints, checkpoints \ {tx}}
          /\ Done(Main)
       \/ tx \notin checkpoints /\ Done(Main) /\ UNCHANGED <<checkpoints, faults>>
    /\ UNCHANGED <<files, net, pc, open, pending, timers, scenario, clock, confirmed>>

Confirm ==
    /\ op[Main].at = "confirm"
    /\ \/ /\ Write(op[Main].tx, "acknowledged")
          /\ confirmed' = confirmed \cup {op[Main].tx}
          /\ Goto(Main, "release", op[Main].tx)
       \/ WriteFails /\ Done(Main) /\ UNCHANGED confirmed
    /\ UNCHANGED <<record, snapshot, prepared, network, pc, open, pending, timers,
                   scenario, clock>>

-----------------------------------------------------------------------------
(***************************************************************************)
(* Applying a network resource: the record, the state, the change.         *)
(***************************************************************************)
Attempt == IF state.tx = None THEN 1 ELSE state.tx + 1
Taken(tx) == checkpoints \cup (IF scenario.manager THEN {tx} ELSE {})

\* NetworkManager takes its checkpoint first, and not while it has another.  The
\* record may fail to be armed; the checkpoint is then destroyed, if that works.
\* Bound: a transaction is opened only while its deadline still comes.
Reserve ==
    /\ At("apply")
    /\ Healthy /\ ~Awaiting /\ Attempt \notin checkpoints
    /\ Attempt <= scenario.transactions /\ clock + Timeout <= MaxTime
    /\ snapshot' = [snapshot EXCEPT ![Attempt] = net]
    /\ prepared' = [prepared EXCEPT ![Attempt] = clock]
    /\ \/ /\ Put(Attempt, "armed")
          /\ checkpoints' = Taken(Attempt)
          /\ Goto(Main, "open", Attempt)
          /\ UNCHANGED pc
       \/ PutFails(Attempt, "armed") /\ pc' = "settle" /\ UNCHANGED <<op, checkpoints>>
       \/ /\ scenario.manager
          /\ PutFails(Attempt, "armed")
          /\ checkpoints' = checkpoints \cup {Attempt}
          /\ pc' = "settle"
          /\ UNCHANGED op
    /\ UNCHANGED <<state, net, open, pending, timers, scenario, clock, confirmed>>

\* When the state cannot be written the record is let go, whether or not that
\* works, and so is the checkpoint.
OpenTransaction ==
    /\ op[Main].at = "open"
    /\ \/ /\ Write(op[Main].tx, "awaiting")
          /\ Goto(Main, "change", op[Main].tx)
          /\ UNCHANGED <<pc, checkpoints>>
       \/ /\ WriteFails
          /\ Goto(Main, "release", op[Main].tx)
          /\ pc' = "settle"
          /\ checkpoints' \in {checkpoints, checkpoints \ {op[Main].tx}}
    /\ UNCHANGED <<record, snapshot, prepared, net, open, pending, timers, scenario,
                   clock, confirmed>>

\* The change, which may fail half way and is then rolled back at once.
Change ==
    /\ op[Main].at = "change"
    /\ pc' = "settle"
    /\ \/ /\ net' = op[Main].tx
          /\ timers' = timers \cup {op[Main].tx}
          /\ Done(Main)
          /\ UNCHANGED faults
       \/ /\ Fault
          /\ net' \in {net, op[Main].tx}
          /\ IF Awaiting /\ Armed(state.tx)
             THEN Goto(Main, "restore", state.tx) ELSE Done(Main)
          /\ UNCHANGED timers
    /\ UNCHANGED <<files, checkpoints, open, pending, scenario, clock, confirmed>>

\* No artifact, no drift, or a transaction that cannot be opened.
NoChange ==
    /\ At("apply")
    /\ pc' \in {"settle", "refresh"}
    /\ UNCHANGED <<files, network, op, open, pending, timers,
                   scenario, clock, faults, confirmed>>

-----------------------------------------------------------------------------
(***************************************************************************)
(* Watchdogs, crashes and time.                                            *)
(***************************************************************************)
WatchdogFires(tx) ==
    /\ tx \in timers
    /\ clock >= prepared[tx] + Timeout
    /\ timers' = timers \ {tx}
    /\ IF Overdue THEN Goto(tx, "restore", state.tx) ELSE UNCHANGED op
    /\ UNCHANGED <<files, network, pc, open, pending,
                   scenario, clock, faults, confirmed>>

\* NetworkManager restores a checkpoint by itself when nobody destroyed it in
\* time: its timer is as long as the watchdog's, and survives the agent.
CheckpointExpires(tx) ==
    /\ tx \in checkpoints
    /\ clock >= prepared[tx] + Timeout
    /\ net' = snapshot[tx]
    /\ checkpoints' = checkpoints \ {tx}
    /\ UNCHANGED <<files, cycle, scenario, clock, faults, confirmed>>

Crash ==
    /\ pc # "down"
    /\ Fault
    /\ pc' = "down"
    /\ op' = [p \in Process |-> [at |-> "idle", tx |-> None]]
    /\ open' = FALSE /\ pending' = None /\ timers' = {}
    /\ UNCHANGED <<files, network, scenario, clock, confirmed>>

Tick ==
    /\ clock < MaxTime
    /\ scenario.prompt => \A p \in Process : Idle(p)
    /\ clock' = clock + 1
    /\ UNCHANGED <<files, network, cycle, scenario, faults, confirmed>>

Init ==
    /\ state = [tx |-> None, phase |-> "rolled-back"]
    /\ record = [tx \in Tx |-> "none"]
    /\ snapshot = [tx \in Tx |-> 0] /\ prepared = [tx \in Tx |-> 0]
    /\ net = 0 /\ checkpoints = {}
    /\ pc = "down" /\ open = FALSE /\ pending = None /\ timers = {}
    /\ op = [p \in Process |-> [at |-> "idle", tx |-> None]]
    /\ scenario \in Scenarios
    /\ clock = 0 /\ faults = 0 /\ confirmed = {}

MainStep ==
    \/ Start \/ Refresh \/ SyncFails \/ SyncAnswered \/ Acknowledge
    \/ DestroyCheckpoint \/ Confirm \/ Reserve \/ OpenTransaction \/ Change \/ NoChange
    \/ RollingBack(Main)

WatchdogStep(tx) == WatchdogFires(tx) \/ RollingBack(tx)

Next ==
    \/ MainStep \/ Crash \/ Tick
    \/ \E tx \in Tx : WatchdogStep(tx) \/ CheckpointExpires(tx)

Spec == Init /\ [][Next]_vars

\* The agent is a service that the init system restarts, no command hangs for
\* ever, and time passes.
FairSpec ==
    /\ Spec
    /\ WF_vars(MainStep)
    /\ \A tx \in Tx : WF_vars(WatchdogStep(tx)) /\ WF_vars(CheckpointExpires(tx))
    /\ WF_vars(Tick)

-----------------------------------------------------------------------------
(***************************************************************************)
(* What must hold.                                                         *)
(***************************************************************************)

\* Every variable has its type, and whatever operation is under way concerns a
\* transaction whose record was armed.
TypeOK ==
    /\ state \in [tx : Tx \cup {None}, phase : Phase]
    /\ record \in [Tx -> {"none", "armed", "released"}]
    /\ snapshot \in [Tx -> Tx \cup {0}] /\ prepared \in [Tx -> Nat]
    /\ net \in Tx \cup {0} /\ checkpoints \subseteq Tx
    /\ pc \in {"down", "refresh", "sync", "acknowledge", "apply", "settle"}
    /\ op \in [Process -> [at : {"idle", "restore", "write", "fail", "release",
                                 "destroy", "confirm", "open", "change"},
                           tx : Tx \cup {None}]]
    /\ open \in BOOLEAN /\ pending \in Tx \cup {None} /\ timers \subseteq Tx
    /\ scenario \in Scenarios
    /\ clock \in Nat /\ faults \in Nat /\ confirmed \subseteq Tx
    /\ Awaiting => state.tx \in Tx
    /\ \A p \in Process : ~Idle(p) => op[p].tx \in Tx /\ record[op[p].tx] # "none"

\* A change that is in effect and was never confirmed can be undone: its record is
\* armed and restores something else.
Undoable == net # 0 /\ net \notin confirmed => record[net] = "armed" /\ snapshot[net] # net

\* That holds whatever crashes, fails or races, for one transaction however long its
\* operations take, and for several whose operations end before a deadline comes.  It
\* does not for a slow one that follows another: the watchdog of the first may roll the
\* second back and let its record go before the change it was opened for is made.
UnconfirmedIsProtected == scenario.transactions = 1 \/ scenario.prompt => Undoable

\* What a transaction would restore was confirmed, or is what the endpoint had
\* before any: rolling back never brings back a change that nobody confirmed.
RestorePointIsConfirmed ==
    \A tx \in Tx : record[tx] = "armed" => snapshot[tx] \in confirmed \cup {0}

\* What was not confirmed can be undone, and undoing it leads to something that was:
\* also after a rollback that failed and through the transactions that follow.
ProtectedInv == TypeOK /\ UnconfirmedIsProtected /\ RestorePointIsConfirmed

\* docs/reference/configuration-format.md:1332: "expiry restores the prior
\* network state": a change in effect is at some time confirmed, undone, or
\* reported as one whose rollback failed.
UnconfirmedIsUndone ==
    scenario.transactions = 1 =>
      \A tx \in Tx :
        (net = tx /\ tx \notin confirmed)
            ~> \/ net # tx \/ tx \in confirmed
               \/ state = [tx |-> tx, phase |-> "rollback-failed"]

\* With NetworkManager no timer, watchdog or restart takes back a change in effect
\* that was recorded as acknowledged: the checkpoint went before the state said so.
AcknowledgedStays ==
    [][scenario.manager /\ net \in confirmed => net' # snapshot[net]]_vars

\* openspec/specs/applicator-execution-contract/spec.md:405: "the server
\* acknowledges the attempt and the endpoint cancels its armed rollback": what the
\* state says is acknowledged is in effect.
AcknowledgedIsInEffect == state.phase = "acknowledged" => net = state.tx
=============================================================================
