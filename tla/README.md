# Verification of Remotr

TLA+ models of the parts of Remotr whose correctness depends on order, failure
and time, the TLC configurations that check them on small instances, and TLAPS
proofs of what matters most for instances of any size. Paths are relative to the
repository's root.

## 1. The system

Remotr keeps Linux endpoints in a desired state. `remotr-server` composes
artifacts from a Git repository and serves them; `remotr-agent` on each endpoint
polls it (Sync), checks and applies; operators approve what is risky, through the
`remotr` command line or the desktop application. One Sync carries the agent's
evidence up and an artifact, a policy, leases, acknowledgements and due work
down; nothing else connects an agent to the server, but the resolution of secrets.

### Server

| Component | State | Operations | What is hard | Correct means | Module |
|---|---|---|---|---|---|
| Change-control registry (`internal/changecontrol`) | requests, approvals, rollouts, leases, attempts, baselines, outcomes, break-glass records: in memory, and as one JSON row with a revision | create, approve, finalize, pause, resume, revoke, issue a lease, report progress, regenerate a legacy adoption, load, save | compare-and-swap saves that fail or whose answer is lost, several processes, restarts, windows and expiry | no lease without a quorum; attempt and concurrency limits; nothing is granted that is not durable; nothing durable is lost | `ChangeRegistry`, `ChangeGate` |
| Unchanged-Sync fast path (`internal/server/unchanged_sync_cache.go`) | cached answers, owed checkpoints, generation and unstable counters per scope | look up, fill, evict, checkpoint, begin and complete a mutation | handlers that read while others change the authority; two Syncs of one endpoint; bounds | what is served is what the database says; agents learn of changes; bounded | `SyncCache` |
| Redis Sync backend (`internal/server/redis_sync_backend.go`) | the same, outside the process | the same | counters that outlive the process that raised them | the same | in part in `Secrets` |
| Sync handler (`internal/server/server.go`) | none of its own | authenticate, restore and persist documents, acknowledge, select, lease, answer | many database accesses without a transaction; calls that were given up | the answer is consistent enough to act on | cut up over `SyncCache`, `Delivery`, `Secrets`, `Work` |
| Delivery state (`internal/store/postgres/delivery_state.go`) | target, offered, active artifact per endpoint | offer, acknowledge, block, seed | read-modify-write without a transaction | what is active was processed; the row ends at what release and endpoint say | `Delivery` |
| Document-hash protocol (`internal/documenthash`, `internal/agent/sync/unchanged.go`) | hashes of documents accepted, at both ends | declare, restore, leave out, demand again | lost answers, failed writes, lost rows | the server never acts on a document it does not have | `Delivery` |
| Capability selection (`capabilitydoc`, `artifactrequirements`, `artifactvariant`) | none: pure | match the variants of a release | stale or missing documents, legacy agents | what is served fits what its request declared | `Selection` |
| Secrets (`internal/secrets`, `internal/server/secret_activation.go`) | versions, the active generation, bindings to Change requests, the agent's cache of answers | activate, authorize, revoke, delete, resolve | activation spans the registry and the secret tables; statements that overlap; an answer that outlives its authority | risky uses resolve only under an authorized rollout of that activation; revocation reaches the cache | `Secrets` |
| Git sync, composition (`gitsync`, `configcompose`, `internal/server/composition.go`) | checkout, release ref, composed artifacts | poll or webhook, compose, prune, advance, serve | syncs at once on one checkout; failure between composing and advancing | the ref names a whole, accepted commit, and ends at the head | `Publication` |
| Crons (`cronscheduler`, `schedule`, `postgres/cron.go`) | last run, executions | due, dispatch, execute, report | lost answers and results; time-out of a run; restarts | the latest slot runs, once unless a result was lost | `Work` |
| Agent upgrade (`postgres/agent_upgrade.go`, `internal/agent/upgrade`) | desired and reported version | request, instruct, install, report, clear | the agent restarts in the middle; a new request while an old one is reported | the version asked for last runs | `Work` |
| Diagnostics (`internal/diagnostics`) | requests and their status | create, offer, collect, upload, expire | two requests at once; a blocked release | every request ends | `Work` |
| Enrollment, deployment tokens, identity | tokens, endpoints, certificates | create, use, enroll, reassign | a lost answer after a token was used | a token is used as often as it allows, by whom it names | planned |
| RBAC, audit, packages, admin API | tables and files | requests | little interaction | per request | not modelled |

### Agent

| Component | State | Operations | What is hard | Correct means | Module |
|---|---|---|---|---|---|
| Cycle (`cmd/remotr-agent`) | pending acknowledgements and results, accepted hashes | refresh, Sync, acknowledge, act, apply, record | crash between any two steps | see the components below | in the modules below |
| Reboot coordination (`internal/agent/rebootstate`, `internal/applicators/reboots`) | one state file: sources, intent, completion, attempts | record, prepare, acknowledge, mark failed, reconcile | the process stops, the host boots at any moment, with and without being asked | one command per generation; completion verified; no attempt waits for ever | `RebootCoordination` |
| Network transactions (`internal/agent/networkstate`, `internal/applicators/networkresources`, `networkmanager`, `firewall`) | one state file, a protected record per transaction, NetworkManager's checkpoints, the network itself | prepare, change, acknowledge, roll back, reconcile, expire; a timer as watchdog for each transaction | cycle, watchdog and NetworkManager's timer share files and network without a lock; torn operations | an unconfirmed change is undone; a confirmed one stays | `NetworkTransaction` |
| Rollback store (`internal/rollbackstore`) | encrypted records, reservations, keys | reserve, arm, roll back, acknowledge, prune, rotate | crashes between files; budget; expiry | an armed record can be restored until it is let go | `RollbackStore` |
| Apply engine (`internal/agent/engine`, `internal/executor`, `internal/agent/pipeline`) | one run's graph | check, order, lease, arm, change, verify, roll back, activate | partial failure; a run that ends anywhere; changes from outside | dependencies first; a run that counts as done left nothing out; every release ends known | `ApplyEngine` |
| Inventory throttle (`internal/agent/inventory`) | what was sent, when | report when due | a held-back snapshot against an accepted hash | the server's snapshot ends up to date | `Delivery` |
| Applicators (`internal/applicators`) | the host | check, apply | external tools | per resource kind | not modelled, but for reboots and the network |

The command line, the desktop application and the load-test, performance and
traceability tools are clients of, or sit beside, what is above. `PROJECT.json`
has one entry for every component, with what is left out of it and why, and the
hazards of this code at the lines where they bite.

### How components interact

A Sync goes through the fast path first; on a miss the handler reads the endpoint,
the generations and then the database, restores or stores the documents, moves the
delivery row, asks the change-control registry for leases, adds due work, and may
fill the cache with its answer. Admin handlers bracket each authority change with a
mutation of the barrier, whose counters are also the token under which the agent
keeps the secrets it was given. The registry serializes its operations with a mutex,
and with other processes through the revision of its row. The secrets registry asks
it whether a rollout is active. Git syncs write the rows the handler serves from.
On the endpoint the cycle drives the engine, the engine the applicators, and two of
these leave transactions behind that a later Sync has to acknowledge.

## 2. Modules and the code

| Module | Models | State | Actions |
|---|---|---|---|
| `ChangeRegistry` | the registry with its row, any number of processes | `store` the row, `mem` each process's copy, `granted` leases that left a server, `clock` | each operation: `CreateChangeRequests`, `RecordApproval` and `AuthorizeRollout` (the two ends of ApproveRollout), `Pause`, `Resume`, `Revoke`, `IssueExecutionLease`, `CompleteExecutionLease`, `UpdateExecutionProgress`, `RegenerateLegacy`, `Start`, `Crash`. The mutex makes each one step, which includes the save in all its outcomes |
| `ChangeGate` | what change control promises: one gate per request | approvals, open, bound, used | approve, open with a quorum, shut, reopen, attempt |
| `ChangeRegistryGate` | the refinement mapping from one to the other, read off the row alone | | |
| `SyncCache` | the memory backend and the handler around it | `release`, `policy`, `fleet` the database; `entries`, `recent`, `owed`; `generation`, `unstable`; `sync` a record of what each request has read so far; `agent`, `waiting` | lookup (`Hit`, `Miss`), then one action for each access the handler makes, `Reply` with the fill, and mutations in their three parts |
| `Selection` | the choice among the variants of a release | none | operators only |
| `Delivery` | delivery row, repeatable documents and throttle, one endpoint | `agent` memory and state.json, `facts` what it would say now, `handler` what each handler holds, `row`, `stored`, `checkIn`, `release` | `Ask`; `Documents`, `AckRead`, `AckWrite`, `Resolve`, `TargetRead`, `TargetWrite`: the handler cut where it touches the database; `Receive`, `Apply`; `LoseCall` with a handler that stops or goes on, `Restart`, `LoseDocument`, `FactsChange`, `Publish` |
| `Secrets` | one secret, its Change requests, the agent's cache | `store` versions and the active generation, `requests`, `counters` of the barrier, `op` operators' requests in flight, `agent`, `handed` | activation in five steps and deletion in three, a statement that looks and writes being two of them; `Revoke`, `Authorize`, `Withdraw`, `Resume`, `Publish`; `ResolveRead` and `ResolveAnswer` (the gate after the row), `SyncSnapshot`, `SyncAnswer`; `Restart`, `CallLost` |
| `Publication` | Git syncs from checkout to release ref, and what is then served | `remote`, `tree` of each checkout and `locked`, those git left its lock in, `sync`, `rows` as the commit each was rendered from, `release` | `Checkout`, `Resolve`, `ReadPrev`, `Render`, `Store`, `RenderVariants`, `StoreVariants`, `Prune`, `SetRef`; what ends a sync: `Killed`, `CheckoutRefused`, `StoreUnenrolled`, `Fail`, `Crash`; `Push`, `Enroll`, `Age` |
| `Work` | jobs, upgrade and diagnostics of one endpoint | `last` and `runs` the cron tables, `ep` desired and reported version, `diag`, `agent`, `call` the Sync in progress | the handler's accesses (`ReadEndpoint`, `UpgradeRead`, `UpgradeWrite`, `PersistDiagnostic`, `PersistResults`, `DispatchDue`, `DispatchDiagnostic`), the agent's work after the answer (`RunCron`, `Upgrade`, `RequestUpload`, `Upload`), operators, `CallLost`, `AgentRestart` |
| `RollbackStore` | the set of records: retention, capacity, attempts, arming, restoring, letting go | none | operators only, run by `ApplyEngine` |
| `ApplyEngine` | one run over an artifact, and the runs after it | `actual`, `records`, `leases`, `pc`, `current`, what the run saw and did | `StartRun`, `Skip`, `Blocked`, `AlreadyMet`, `Arm`, `Begin`, `Change`, `Restore`, `NothingToRestore`, `MarkRolledBack`, `Activate`, `Finish`; `Crash`, `Drift`, `NewRelease`, leases |
| `RebootCoordination` | the state file, the reboot resource, the cycle and the machine | `disk`, `pc` and what the cycle carries, `boot`, `rebooting`, `desired` | one action for each step of the cycle, with its save; `Crash`, `Boot`, `Release` |
| `NetworkTransaction` | state file, records, network, cycle, watchdogs and NetworkManager's timers | `state`, `record`, `snapshot`, `net`, `checkpoints`, `op` what each process is in the middle of | the operations of `store.go` cut at every file written and every command run; `WatchdogFires`, `CheckpointExpires` |
| `ChangeRegistryProofs`, `SyncCacheProofs`, `DeliveryProofs`, `SecretsProofs`, `ApplyProofs`, `RebootProofs`, `NetworkProofs` | theorems of these components, with their proofs | | |
| `ServerProofs` | theorems of `Work` and of `Publication`: it extends both, so that the second names its specification `GitSpec` and its budgets `Histories` | | |
| `MC…` | constants of the runs | | |

A definition whose comment calls it a faulty form is the code with one plausible
mistake in it. The mutation runs put it in place of the real one to see that a
property notices; no specification uses it. A property named `…Inv` is the
conjunction of the module's type invariant with invariants that are stated and
commented one by one before it.

What the models leave out of the code they cover:

- *ChangeRegistry.* Hashes and plans are one flag, canonical or not; baselines,
  outcomes and break-glass authorizations have no place in the state: only the
  creation of a baseline adoption has a caller at this commit. Weekly windows are sets
  of instants. Progress operations are in `ReportingSpec`, not in `Spec`: no handler
  calls them. `Crash` and `Start` are those of a process.
- *SyncCache.* One certificate per endpoint, no Redis and no secret token; entries
  of equal size; no observation counts; due work that holds an entry back; release and
  policy are read in one step, which only hides answers that mix two releases while a
  mutation is in progress, and these are never cached.
- *Delivery.* One endpoint. A hash stands for its content. The fast path in front of
  the handler is `SyncCache`; leases and due work have no part in the row.
- *Selection.* Validation, digests, features and the list of what is missing.
- *Secrets.* One secret and one process that holds the Change requests; uploading,
  scopes, envelopes and keys, and rollback references, which only tests create.
- *Publication.* Clones, credentials and the webhook's secret; a branch that is rewritten
  (a forced push); a tree that is partly checked out, which is taken as the one before or
  the one after; an operator who removes git's lock. Variants of one target are one row,
  and the two statements of the prune one step. Merge and validation are data: which
  rows a tree renders, which renderings fail, and whose overrides cannot be stored.
- *Work.* One endpoint and one job, the minute field of its schedule on a short hour; the
  clocks of server and agent are one; templates, labels, downloads, checksums, and what
  a bundle contains.
- *ApplyEngine, RollbackStore.* Parsing, facts, operation locks, providers; keys,
  rotation, the migration of old records, and `RecoverArmed`, which nothing calls.
- *RebootCoordination.* An inhibitor, the power supply and maintenance windows defer
  as one choice. The command either is accepted or fails.
- *NetworkTransaction.* How a backend takes a snapshot and finds its devices; the
  migration of old records.

## 3. Runs

| Run | Instance | Shows |
|---|---|---|
| `two_servers` | 2 processes, 1 request, 2 operators, threshold 2, leases of 2 instants, 3 instants, 6 revisions | The row only grows, whatever a stale process writes to it; memory is never ahead of it; a lease that left a server is in the row, and was granted while the row itself authorized it. The row implements `ChangeGate` |
| `leases` | 1 process, 2 requests (1 legacy, with threshold 1, and 1 with threshold 2), 2 operators, 2 endpoints, two rollout shapes, 4 instants | Slots, attempts, validity and windows under competition (`LimitsInv`); a lease has its quorum, whatever comes between two approvals: a pause, a revocation, another plan, the same operator again; a legacy row grants nothing, and regenerating it keeps the row loadable |
| `sync_cache` | 2 endpoints, 2 fleets, 1 place, 2 requests, 1 mutation, 1 fault, 3 instants | What a lookup would serve is what the database says; the two halves of the cache exclude each other within the bound (`CacheInv`); every agent catches up |
| `delivery` | 1 endpoint, 2 handlers, 3 releases with 5 variants, 2 capability documents, 4 scenarios of up to 3 disturbances | What the row calls active was processed, where no handlers overlapped, and what is called unmanaged has nothing (`RowInv`); what is served fits what its request declared, and a hash the agent keeps is of a document the server held (`EvidenceInv`); documents, target and blocking end at what endpoint and release say, also after overlaps, and the active artifact where there were none |
| `secrets` | 2 versions, 2 releases, 2 operators at once, 4 scenarios of 2 or 3 requests, 1 fault | Overlapping activations, revocations and deletions leave a whole registry (`RegistryInv`); under one token only the clock outdates an answer; what was revoked is withheld; material of a risky use was authorized; answers settle |
| `publication` | 3 commits, 2 syncs, 1 or 2 checkouts, 1 commit that is refused, does not render or cannot be stored, or none, 1 disturbance, a killed git among them | A ref is composed whole from an accepted commit, never from an earlier one (`RowsInv`, `ReleaseIsWhole`); what is offered is the release's; a head that can be composed is released |
| `publication_refused` | 2 syncs on one checkout, nothing fails | violation: variants of a refused commit are offered as the release before it |
| `work` | an hour of 6 minutes, 3 schedules, 3 agent versions (1 broken), 2 diagnostic requests, 6 scenarios | A run is for the latest slot, and a row that is done names a run that was carried out, though not always under that run's slot (`RunsInv`); a slot is carried out twice only if a result was lost; the latest slot is done, the version asked for runs, every diagnostic ends |
| `apply` | 4 resources, 2 releases, 3 instants, 2 faults or a fault and a change from outside | The store stays usable (`StoreInv`); what a change broke can be restored; dependencies are in place; a run that counts as done left nothing out; every release ends known |
| `reboot_cycle` | 2 generations in turn, one of them conditional with delay and deadline; 2 faults, 3 boots | The state file parses and no second command is given (`StatusInv`); completion is verified; every attempt, and intent with a deadline, ends |
| `network_guarded` | 1 transaction with 4 faults, 1 with NetworkManager's timer and 3 faults, or 2 prompt ones with 2 | What nobody confirmed stays undoable, to something confirmed (`ProtectedInv`), and the change of a single transaction is undone or reported; what was confirmed under NetworkManager is not taken back |
| `network_race` | 1 transaction, no faults | violation: the watchdog restores while the cycle writes "acknowledged" |

**Bounds.** Each is a constant in a guard, named in the module, or a field of
`Scenarios` (`Histories` in `Publication`), a set of budgets one of which a behaviour
draws at the start and spends: it keeps the product of all disturbances out, and in what
bears on one another.
Two processes, handlers, syncs or operators are enough for a stale one; a second
request or endpoint for competition; three or four instants for a lease (of one or
two) to expire within a rollout and the rollout to expire after it; the revisions
allow create, approve, approve, pause, resume and a lease, in any order. Faults are
counted together, so two are any two of crash, failed save, lost Sync and boot. A
cache of one place makes each fill evict or give up, one of `MaxAttempts` 2 and size
4 makes arming clean up. One mutation is enough to be begun, to take effect and to be
completed around every read of a handler; `CacheCorrect` (below) says that more change
nothing. Three commits are a base, one to overlap and the head that heals. The five
variants of `delivery` have a digest in two releases, a newer schema, and a more
specific target without a fallback. The hour of `work` is long enough for a slot, its
time-out and the next.

**Fairness.** Safety needs none. For liveness the code justifies this:

- *Agent.* The init system restarts the service and its loop has no step that
  waits for ever, so weak fairness of the cycle (`AgentStep`, `MainStep`, `Run`,
  `RunStep`), and of the watchdogs, timers of the agent (`time.AfterFunc`), which
  fire and whose commands end; a crash drops them, and the cycle looks at the deadline
  itself. Syncs and acknowledgements may fail: they are faults or free choices.
- *Server.* Go schedules every handler: weak fairness of `Handle(p)`, `HandlerStep(h)`,
  `Handler`, of an operator's request once it is in (`Proceed(a)`, `CreateInsert`) and of
  a Git sync, which the poll starts again (`Step(s)`). That operators ask is
  not assumed; that they grant and end the leases of a change they approved is, in
  `apply` (`Lease`, `LeaseEnds`).
- *Quiet polls.* Agents poll for ever, and if they so choose with nothing but hashes.
  Strong fairness of `QuietPoll(e)` in `SyncCache` stands for this: a poll may be
  disabled for a moment, when all places in the handler are taken, and the places are
  a bound of the model. `AgentsCatchUp` then needs the code to end each entry's life,
  which it does by the checkpoint.
- *Time* passes. Faults, mutations and changes are finite: each liveness
  property says what happens once they are over.

**Deadlock** is checked in every run: at its bounds a model still crashes, restarts,
polls, or has its saves refused, so a state without a successor would be one of the code.

## 4. Proofs

Every theorem is for any value of the constants: any number of servers, requests,
endpoints, handlers, syncs, resources, and without the bounds of the runs.

| Theorem | Statement | Rests on |
|---|---|---|
| `TypeCorrect` | `[]TypeOK` of `Spec` and `ReportingSpec` | `MemoryInv` |
| `MemoryCorrect` | `[]MemoryNeverAhead` of both | `MemoryInv` |
| `RowGrows`, `GrantsAreAuthorized` | `DurableOnlyGrows`, `GrantUnderDurableAuthority` of both | `MemoryInv` |
| `StartsAreAccepted`, `GrantsAreDurable`, `GrantsAreQuorate` | `[]StartNeverRefused`, `[]GrantedLeasesDurable`, `[]GrantsHaveQuorum` of both | `MemoryInv`, `BookInv` |
| `LimitsAreKept` | `Spec => []LimitsInv` | these and `Slots` |
| `RegistryImplementsGate` | `ImplementsGate` of both: the registry refines `ChangeGate` | `MemoryInv`, `BookInv` |
| `CacheCorrect` | `Spec => []ServedIsAuthorized` | `Sound` |
| `CacheKeepsWithin` | `Spec => []CacheInv` | the order of use |
| `OnlyProcessedIsActive`, `ServedFitsDeclared` | `Spec => []RowInv`, `Spec => []EvidenceInv` | `DeliveryInv` |
| `RegistryIsWhole`, `OnlyTheClockOutdates`, `RevokedVersionsAreWithheld`, `HighRiskMaterialWasAuthorized` | `Spec => []RegistryInv`, `[]ClockAloneOutdates`, `[]RevokedIsWithheld`, `[]MaterialWasAuthorized` | `SecretsInv` |
| `NoSlotIsRunTwice` | `Spec => []TwiceOnlyIfLost` | `WorkInv` |
| `DoneRunsWereCarriedOut` | `ScanReaches => (Spec => []RunsInv)` | `WorkInv`, `LatestAtDispatch` |
| `NoEarlierCommit`, `ReleasesAreWhole` | `GitSpec => []RowsInv`, `GitSpec => []ReleaseIsWhole` | `PublicationInv` |
| `OffersAreOfTheRelease` | `FleetIsKept => (GitSpec => []OfferedIsOfRelease)` | `PublicationInv` |
| `StoreIsFit`, `HalfDoneIsRecoverable`, `DependenciesAreKept`, `DoneIsApplied` | `Spec => []StoreInv`, `[]BrokenIsRecoverable`, `[]DependenciesAreThere`, `[]DoneMeansApplied` | `ApplyInv` |
| `AttemptsAreCommandedOnce` | `Spec => []AttemptsAreNew` | `RebootInv` |
| `NothingIsCommandedTwice` | `OneGeneration => (Spec /\ [][NoReturn]_desired => []StatusInv)` | and `GenerationsInv` |
| `CompletionsAreVerified` | `Spec => CompletionIsVerified` | `RebootInv` |
| `ChangesAreProtected` | `OneAtATime => (Spec => []ProtectedInv)` | `NetworkInv`, `AloneInv` |
| `ConfirmedIsNotTakenBack` | `OneAtATime /\ ManagedAlone => (Spec => AcknowledgedStays)` | and `CheckpointsInv` |

### The invariants, and why they are needed

*Change-control registry.* `MemoryNeverAhead` is what the expected revision of a save
stands on: only if a process that knows the current revision also holds the current
snapshot does the compare-and-swap reject every stale writer. It is not inductive: a
load normalizes the row, so a save by a process that held an unnormalized snapshot would
give the row something a reload differs from. `MemoryNormal` adds that memory is always
normalized. A refused save is then a stutter of the process, an unanswered one leaves
it behind the row, a successful one makes it the row.

So whatever any process does, the row moves by one whole operation on the row itself
(`ReportingNextIsRowStep`), and what is said of the row can be shown operation by
operation, without processes. It is said of `Book`, the normalized row, as a row from
before the hash contract is only normalized by the next save. `BookInv` says of it that
a start accepts it, that approvals and rollouts belong together, that attempts are
counted, and that what was granted is in it. Normalization is an operation like the
others. The refinement mapping of `ChangeRegistryGate` reads the row alone, so each of
these steps is one step of one gate, or none.

`Slots` (a lease is under its rollout, one to an endpoint, no more than its concurrency)
is kept by `Next` and not by the progress operations, which no handler calls: a late
report makes an ended lease active again, beside those granted since. `LimitsAreKept` is
therefore a theorem of `Spec` alone, the others of `ReportingSpec` too.

*Unchanged-Sync cache.* A mutation that completes makes its scope stable again, and a
request being answered may hold a snapshot from before. `Sound` says of each stable
snapshot, and of each of its three scopes, that its generation is the current one with no
mutation in progress, or a past one; and of each answer, in a request or in the cache,
that it is right while its snapshot counts as current. `BarrierKeepsSound` shows this for
every step of the database and barrier. The bounds on the cache need that the order of use
has every cached endpoint once: `Remaining`, which takes endpoints out of it, is a
recursive function, and what it returns is shown by a least counterexample.

*Delivery.* `DeliveryInv` follows what can still become true: an artifact that any
handler, given up or not, any row or any answer on its way may make the active one was
processed (`Processed`); a hash that any of them may accept is of a document the server
held (`Evidence`); what a handler selected fits what it was declared (`Suited`). `Alone`
adds what holds while no handler overlaps another.

*Secrets.* An activation looks at Change requests and versions, and writes both later.
`SecretsInv` says of each operator's request what it has looked up and still relies on
(`Operations`), of the registry that its active generation has the Change request of
each use that was planned for it (`Registry`), and of the agent that its cache is of
one token, and an answer resolved under the token is what the server would say
(`Material`): the counters have moved for whoever changed that since.

*Work.* The server forgets a run when the next one is dispatched, and files a result it
receives by the name of the job; so where each result is has to be followed. `Exchange`
says that a call carries what the agent has to report, at most one result, of a run it
carried out, and that a run on its way to the agent is the last one and not yet carried
out. `Slots` says that a run was for a minute that had come, and that the row of one that
is under way has the last one. `Results` says of each run that was carried out, unless
its result was lost (`Told`), that the result is still with the agent or its slot is not
due again (`Closed`); and of a run on its way that its slot was carried out before only
if that result was lost, or is in the very call that dispatched it and was not kept.
`Pending` says that a result with the agent is of a run that started after all slots that
were carried out, so that even one that is filed under the minute it started closes them,
and that a row that is done has that very result (`Newest`). `Undone` says that every run
dispatched since was not delivered, or is on its way. Together they make a done row name
a run that was carried out, none dispatched after it having reached the agent; the slot
it is filed under may be another (section 5). A step of the system does one of six things to
all this (`StepEffect`), and the proof goes by these and not by the actions. That a run is
for the latest slot needs what `Latest` returns (`LatestIsGreatest`), that it stays the
latest of its moment (`LatestAtDispatch`), and that a stepped range which begins at a
multiple of its step is read as the standard has it (`PartIsStandard`). `ScanReaches` (the
clock does not go past the minutes that `LastDue` scans) is needed: a scan that is cut
off returns an older slot.

*Publication.* Checkouts only go forward, and a sync reads its ref from the checkout, so
that it never stores rows of an earlier commit than its ref. `Composing` says for a
ref that no overlap mixed what of it is there at each step of its composition, unless the
prune took it, and that the renderings it has passed were not refused (`Clear`); a ref
with an override that cannot be stored never reaches the last of these steps, and a git
that is killed leaves a tree no step relies on. `FleetIsKept` (each commit has a desired
state for the endpoint's fleet) is needed: without one the server composes on demand
from whatever is checked out.

*Apply engine.* The store stays fit for use as cleaning, making room and ending records
never add an armed record, bytes or attempts (`SubsetIsSound`, `EndedIsSound`), and
arming, the one operation that adds a record, looks for an armed one first. A guarded resource
that may be half done, or whose change is next, has its armed record (`RecoverInv`); what
is armed of a guarded resource was not half done, as it was armed when none was.
`RunInv` says that a run works on a resource that was off and that it has not visited,
whose dependencies are applied or were found right, so that what it does undoes nothing
it did; and that what it passed by has an excuse, or depends on something passed by.

*Coordinated reboots.* An attempt is in the state file, as the last one, before it is
commanded (`Commands`), so no two commands carry the same number, whatever releases ask for. The
state file remembers one completed generation and one intent. No generation is
commanded twice therefore only while a release declares one generation (`OneGeneration`)
and none that was commanded before (`NoReturn`); both are what operators are meant to
do, and the code does not ensure them (section 5).

*Network transactions.* The proof is about who may still be busy with which transaction.
Where operations end before a deadline comes, a watchdog is busy only with an overdue
transaction, which the cycle refuses to pass over, and the record of the one under way
leads back to what was confirmed. Where there is a single transaction, however long it
takes, nobody rolls it back or confirms it before its change is made (`Alone`): only then
is there a network to go back from. `OneAtATime` says that each scenario is of one of
these kinds, and that a record of the first kind keeps its payload. `UnconfirmedIsProtected`
has the same two cases, and TLC has a counterexample without them: where the second of two
transactions is slow, the watchdog of the first rolls it back and lets its record go before
its change is made. `ManagedAlone` (NetworkManager guards one transaction) is needed as
well: with two, the restored checkpoint of the first takes the second back.

### Assumptions

The theorems assume what their modules assume of the constants, which TLC evaluates in
their runs, and no bound of a run: `ConstantsAssumption` and `NoneIsAbsent` (`ChangeRegistry`,
`SyncCache`, `RebootCoordination`), `ConstantsAssumption` (`NetworkTransaction`),
`VariantsAreComposed` (`Selection`), `ReleasesAreNumbered`, `VariantsAreTold`,
`HandlersAreNamed`, `ScenariosAreTyped`, `LegacyIsLeast` (`Delivery`),
`VersionsAreNumbered`, `ReleasesAreNumbered`, `CacheHoldsSomething`, `ScenariosAreBounded`
(`Secrets`), `RefsAreCommits`, `RowsAreCanonical`, `TreesHaveRows`, `HistoriesAreTyped`
(`Publication`), `WheelTurns`, `TimeoutIsInTime`, `ScanIsPositive`, `ScenariosAreTyped`
(`Work`), `StoreAssumption` (`RollbackStore`), `EngineAssumption` (`ApplyEngine`).
They are types, that numbers are numbers and that `None` is none of the values; beyond
that, `LegacyIsLeast` has every document an agent sends include what the server credits a
legacy agent with, and `VariantsAreTold` a digest name one variant of a release. Where a
theorem needs more, that is its hypothesis, and the instance of its run satisfies it.

### What is only model-checked

Every invariant and every action property of the runs is stated by a theorem. What the
prover does not do stays with TLC: the liveness properties, which stand on fairness, and
the two violations, whose counterexamples are what they show.

## 5. Disagreements between the code and what it says

Two runs end in a counterexample; `PROJECT.json` quotes the sentence and
the line for each.

1. `internal/agent/networkstate/store.go:402` (`network_race`): acknowledgement and
   watchdog race.
2. `internal/server/composition.go:94` (`publication_refused`): variants come from a
   second reading of the checkout and are not validated.

Others were met on the way, and most can be reproduced by a constant, a scenario or
one more property. Where a property above would run into one, it names the case in its
antecedent.

Change control:

- *Resumed by approval* (`changecontrol/approval.go:43`): the approval that completes a
  quorum makes a request active that is paused, or revoked; the guide has a pause stop it
  until a resume.
- *Late progress report* (`changecontrol/progress.go:60`): a report after the terminal
  one reopens the lease. No handler calls the operation.

Sync:

- *Generations after the endpoint* (`server.go:366`): the endpoint is read before the
  generations, so a reassignment in between lets an answer for the fleet it has left be
  cached as current, until the next checkpoint.
- *Handlers that were given up* (`server.go:1199`) still write the delivery row they
  read, over what a later Sync acknowledged. Target and blocking heal by the next Syncs
  (`TargetConverges`); the active artifact does not, as the agent acknowledged once and
  is answered that nothing changed, until another artifact is offered.
- *Requests for a document* (`sync_run.go:456`): system information the server asks for
  is sent when the throttle next allows it, not on the next Sync
  (`docs/reference/http-api.md:184`).

Secrets:

- *DELETE against ACTIVATE* (`secret_versions.sql.go:192`): the condition is on another
  row, so that a version can be deleted while its activation commits; the active
  version then names a row that is gone, until another is activated.
- *Purposes* (`server/secrets.go:77`): certificate, chain and anchor references are
  planned for at activation, and then not served.

Publication:

- *Recomposition* (`composition.go:98`) writes rows and removes none: a ref composed from
  two commits keeps what only the first had.
- *Killed git* (`gitsync/sync.go:230`): its commands run under the context of the request,
  so a webhook that is cut off may leave `.git/index.lock`, which nothing removes; every
  later sync of that checkout fails.
- *Override of an endpoint not enrolled* (`sql/schema.sql:281`): the foreign key refuses its
  rows at every poll, after those of the fleets, and no commit that has one is released
  until the endpoint is enrolled.
- *Prune* (`composition.go:113`) goes by age alone, and may take rows of the ref that is
  still served.
- *Crons* (`composition.go:334`) fall back to the working tree, whatever is checked out,
  and templates always come from it (`server/crons.go:60`).

Work:

- *Results sent again* (`postgres/cron.go:78`) are filed under the slot of the run that is
  under way by then, and where the row cannot be read (`cron.go:77`) under the minute
  the run started: a slot is then held to be done that never was.
- *A year without a run* (`schedule/next.go:52`): the scan from the last slot ends after
  366 days, and a job that is due then gets a slot of that time, not the latest.
- *Stepped ranges* (`schedule/next.go:118`) count from zero, not from the start of the
  range, and day of month and of week must both match; the format is described as
  standard (`docs/reference/crons-format.md:73`).
- *Taint* (`postgres/agent_upgrade.go:84`) is cleared by any matching version that is not
  installing or failed; the guide says phase `completed`
  (`docs/guides/agent-deployment.md:156`). A report read before a new request clears it.

Agent:

- *Reboot generations* (`rebootstate/store.go:171`): only the last completed one is
  remembered; two reboot resources at once, or a release that goes back, reboot again.
- *Stranded intent* (`rebootstate/store.go:222`): after a boot nobody asked for, an intent
  without a deadline waits for ever and holds up the next generation.
- *Requirement cleared* (`rebootstate/store.go:288`): when the save of a completion fails
  and is made up for later in the same boot, the sources recorded in between go with it.
- *Record without state* (`networkstate/store.go:197`): a crash between the two keeps the
  agent out of its network store.
- *Overwritten outcome* (`networkstate/store.go:455`): a slow watchdog writes the outcome
  of its transaction over the state of the next.
- *Early watchdog* (`networkmanager/profile.go:453`): a watchdog rolls back whatever awaits
  when it fires. Where that is the next transaction, slow and past its own deadline, its
  record is let go before its change is made, and nothing can undo the change.
- *Expired record* (`networkstate/store.go:370`): once a sensitive record is gone, its
  transaction awaits for ever (`Sensitive = TRUE`).
- *Second change* (`rollbackstore/handle.go:94`): its rollback restores the content from
  before the first one.

## 6. What is not modelled, and why

Most of the repository's lines are not protocol. Some fifty applicators drive external
tools; the parsers, validators and renderers of the configuration language are pure
functions of a text whose interesting part is the text; the command line, the desktop
application, the HTTP client of the operators and the load-test and traceability
tools are clients and tooling; the generated queries are conversions. They are left
out for that reason, and so is the cryptography of the stores. Of what does keep
state, enrollment with its tokens is planned; RBAC, audit and the package catalogue are
tables that no other step depends on.

Hazards that were seen and have no property: a rollout window of more than a day
(`changecontrol/authorization.go:25`), a baseline adoption whose validation follows its
save (`lifecycle.go:95`), a reboot check that looks at the current boot only
(`reboots/applicator.go:60`), activations of resources that were reverted
(`engine.go:775`), a lease that ends within a run (`engine.go:722`), due work that a
cached answer holds back (`unchanged_sync_cache.go:550`), a second preflight of a Sync
whose lease fails to be saved (`server.go:1044`), and an endpoint that is blocked with
no row to seed (`server.go:1301`).

## 7. Plan

1. The hypotheses of the theorems about reboots and the network as guards, where the
   code comes to ensure them.
2. `Enrollment` and deployment tokens.
3. Several preflights to a Sync, due work in `SyncCache`, and the Redis backend as a
   second implementation of one barrier.
