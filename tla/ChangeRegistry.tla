--------------------------- MODULE ChangeRegistry ---------------------------
(***************************************************************************)
(* The change-control registry of the Remotr server                        *)
(* (internal/changecontrol): change requests, operator approvals, rollout  *)
(* authorizations, execution leases and attempt accounting.                *)
(*                                                                         *)
(* Every mutation runs under the registry mutex, so it is one action here: *)
(* take a snapshot, change the in-memory state, save the whole new         *)
(* snapshot with a compare-and-swap on the stored revision, and put the    *)
(* old snapshot back when the save reports an error.  A save has three     *)
(* outcomes: it commits and says so, it is refused (stale revision or an   *)
(* unavailable database), or it commits and the answer is lost.            *)
(*                                                                         *)
(* Several server processes may share the database row.  A process that    *)
(* crashes loses its memory and reloads the row when it starts again.      *)
(***************************************************************************)
EXTENDS Naturals, Sequences, FiniteSets

CONSTANTS
    Server,           \* server processes sharing the change_control_state row
    Request,          \* change-request identifiers
    Operator,         \* operators that approve
    Endpoint,         \* endpoints
    None,             \* a map key that is absent, or no migration marker
    Awaiting,         \* the marker "explicit_regeneration_required"
    Required,         \* the approval threshold each request is created with
    RolloutSpecs,     \* the rollout bounds operators submit
    LegacyRequests,   \* requests of a pre-contract row that may be found at start
    DefaultValidity,  \* validity of a rollout with no end, in ticks
    LeaseTTL,         \* lifetime of an execution lease, in ticks
    MaxTime,          \* bound: last instant of the clock
    MaxRevision       \* bound: last revision of the row

(***************************************************************************)
(* What operators submit.  Zero stands for an omitted field; windows is    *)
(* the set of instants the recurring windows cover, empty when there are   *)
(* none.                                                                   *)
(***************************************************************************)
RolloutSpec == [from: Nat, until: Nat, limit: Nat, concurrency: Nat, windows: SUBSET Nat]

ASSUME ConstantsAssumption ==
    /\ Required \in [Request -> Nat \ {0}]
    /\ RolloutSpecs \subseteq RolloutSpec
    /\ LegacyRequests \subseteq Request
    /\ DefaultValidity \in Nat \ {0}
    /\ LeaseTTL \in Nat \ {0}
    /\ MaxTime \in Nat
    /\ MaxRevision \in Nat
    /\ Awaiting # None
    /\ None \notin Request /\ Awaiting \notin Request

VARIABLES
    store,    \* the durable row: its revision and its snapshot
    mem,      \* each server's registry, None while the process is down
    granted,  \* leases that a server handed out in a Sync response
    clock

vars == <<store, mem, granted, clock>>

(***************************************************************************)
(* Snapshots.  A lease is named by its request, its endpoint and its       *)
(* attempt number.  The rollout's copy of hashes and frozen targets never  *)
(* differs from its request's, which is kept once, as the set of endpoints *)
(* frozen compatible and preflight-ready.                                  *)
(***************************************************************************)
AuthorizationState == {"pending", "authorized", "paused", "revoked"}
Migration == {None, Awaiting} \cup Request

ChangeRequest == [canonical: BOOLEAN, migration: Migration, required: Nat,
                  approvals: Seq(Operator), state: AuthorizationState,
                  ready: SUBSET Endpoint]
Rollout == [from: Nat, until: Nat, limit: Nat \ {0}, concurrency: Nat \ {0},
            windows: SUBSET Nat, migration: Migration]
Lease == [request: Request, endpoint: Endpoint, attempt: Nat,
          expires: Nat, completed: BOOLEAN]
Snapshot == [requests: [Request -> ChangeRequest \cup {None}],
             rollouts: [Request -> Rollout \cup {None}],
             leases: SUBSET Lease,
             attempts: [Request -> [Endpoint -> Nat]]]
Row == [rev: Nat, state: Snapshot]

\* An absent entry is none of the entries there can be.
ASSUME NoneIsAbsent == None \notin ChangeRequest /\ None \notin Rollout /\ None \notin Row

EmptySnapshot == [requests |-> [r \in Request |-> None],
                  rollouts |-> [r \in Request |-> None],
                  leases   |-> {},
                  attempts |-> [r \in Request |-> [e \in Endpoint |-> 0]]]

\* A row written before the canonical hash contract: r was authorized, and
\* nothing in the row says that it no longer counts.
LegacySnapshot(r) ==
    [EmptySnapshot EXCEPT
        !.requests[r] = [canonical |-> FALSE, migration |-> None, required |-> 1,
                         approvals |-> <<>>, state |-> "authorized", ready |-> Endpoint],
        !.rollouts[r] = [from |-> 1, until |-> 1 + DefaultValidity, limit |-> 1,
                         concurrency |-> 1, windows |-> {}, migration |-> None]]

\* normalize(): a request with no hash contract, and its rollout, are marked
\* as awaiting regeneration wherever a snapshot is put in force.
NormalizedRequest(req) ==
    IF req # None /\ ~req.canonical /\ req.migration = None
    THEN [req EXCEPT !.migration = Awaiting] ELSE req

NormalizedRollout(rollout, req) ==
    IF rollout # None /\ req # None /\ ~req.canonical /\ rollout.migration = None
    THEN [rollout EXCEPT !.migration = Awaiting] ELSE rollout

Normalize(st) ==
    [st EXCEPT
        !.requests = [r \in Request |-> NormalizedRequest(st.requests[r])],
        !.rollouts = [r \in Request |-> NormalizedRollout(st.rollouts[r], st.requests[r])]]

ValidRequest(st, r) ==
    LET req == st.requests[r] IN
    /\ req.canonical <=> req.migration = None
    /\ req.migration \in Request =>
           /\ st.requests[req.migration] # None
           /\ st.requests[req.migration].canonical
           /\ st.requests[req.migration].migration = None
    /\ req.state = "authorized" => st.rollouts[r] # None

ValidRollout(st, r) ==
    /\ st.requests[r] # None
    /\ st.rollouts[r].migration = st.requests[r].migration

\* validate(): a process refuses to start on any other row.
Valid(st) ==
    /\ \A r \in Request : st.requests[r] # None => ValidRequest(st, r)
    /\ \A r \in Request : st.rollouts[r] # None => ValidRollout(st, r)
    /\ \A l \in st.leases : st.requests[l.request] # None

-----------------------------------------------------------------------------
(***************************************************************************)
(* Saving.                                                                 *)
(***************************************************************************)
\* Faulty form: the save does not compare revisions.
CanSaveBlindly(s) == store.rev < MaxRevision

CanSave(s) == mem[s].rev = store.rev /\ store.rev < MaxRevision

\* The compare-and-swap succeeds and the process learns of it.
Saved(s, new) ==
    /\ CanSave(s)
    /\ store' = [rev |-> store.rev + 1, state |-> new]
    /\ mem' = [mem EXCEPT ![s] = [rev |-> store.rev + 1, state |-> new]]

\* Faulty form: the revision is advanced before the error is looked at.
SaveUnansweredAdvancing(s, new) ==
    /\ CanSave(s)
    /\ store' = [rev |-> store.rev + 1, state |-> new]
    /\ mem' = [mem EXCEPT ![s] = [rev |-> store.rev + 1, state |-> Normalize(mem[s].state)]]

\* The compare-and-swap commits but the process is told of an error: it puts
\* the previous snapshot back in force and keeps the revision it knew.
SaveUnanswered(s, new) ==
    /\ CanSave(s)
    /\ store' = [rev |-> store.rev + 1, state |-> new]
    /\ mem' = [mem EXCEPT ![s].state = Normalize(mem[s].state)]

\* A stale revision, or no database: nothing is written.
SaveRefused(s) ==
    /\ mem' = [mem EXCEPT ![s].state = Normalize(mem[s].state)]
    /\ UNCHANGED store

Persist(s, new) == Saved(s, new) \/ SaveUnanswered(s, new) \/ SaveRefused(s)

Running(s) == mem[s] # None
Requests(s) == mem[s].state.requests
Rollouts(s) == mem[s].state.rollouts

-----------------------------------------------------------------------------
(***************************************************************************)
(* Reviewing.                                                              *)
(***************************************************************************)
PendingRequest(r, ready) ==
    [canonical |-> TRUE, migration |-> None, required |-> Required[r],
     approvals |-> <<>>, state |-> "pending", ready |-> ready]

\* A plan, a secret activation or a baseline adoption: one request for each of
\* its groups, saved together, each with the frozen ready targets in its scope.
\* A plan with nothing of high risk has no groups and is saved all the same.
\* Every caller outside the tests submits canonical plans.
CreateChangeRequests(s, ready) ==
    /\ Running(s)
    /\ \A r \in DOMAIN ready : Requests(s)[r] = None
    /\ Persist(s, [mem[s].state EXCEPT !.requests =
           [r \in Request |-> IF r \in DOMAIN ready THEN PendingRequest(r, ready[r])
                              ELSE Requests(s)[r]]])
    /\ UNCHANGED <<granted, clock>>

\* finalizeRolloutLocked: the defaults of the omitted bounds.
RolloutOf(spec, migration) ==
    LET from  == IF spec.from = 0 THEN clock ELSE spec.from
        until == IF spec.until = 0 THEN from + DefaultValidity ELSE spec.until
    IN [from |-> from, until |-> until,
        limit |-> IF spec.limit = 0 THEN 1 ELSE spec.limit,
        concurrency |-> IF spec.concurrency = 0 THEN 1 ELSE spec.concurrency,
        windows |-> spec.windows, migration |-> migration]

\* Faulty form: nobody looks who approved before.
ApprovableAgain(s, r, o) ==
    /\ Requests(s)[r] # None
    /\ Requests(s)[r].migration = None

Approvable(s, r, o) ==
    /\ Requests(s)[r] # None
    /\ Requests(s)[r].migration = None
    /\ \A i \in DOMAIN Requests(s)[r].approvals : Requests(s)[r].approvals[i] # o

Approved(s, r, o) ==
    [Requests(s)[r] EXCEPT !.approvals = Append(Requests(s)[r].approvals, o)]

QuorumReached(req) == Len(req.approvals) >= req.required

\* An approval below the threshold is saved on its own.
RecordApproval(s, r, o) ==
    /\ Running(s)
    /\ Approvable(s, r, o)
    /\ ~QuorumReached(Approved(s, r, o))
    /\ Persist(s, [mem[s].state EXCEPT !.requests[r] = Approved(s, r, o)])
    /\ UNCHANGED <<granted, clock>>

\* The approval that reaches the threshold also creates the rollout; a
\* request that already has one keeps it and the approval is dropped.
AuthorizeRollout(s, r, o, spec) ==
    /\ Running(s)
    /\ Approvable(s, r, o)
    /\ QuorumReached(Approved(s, r, o))
    /\ Rollouts(s)[r] = None
    /\ LET rollout == RolloutOf(spec, None) IN
       /\ rollout.until > rollout.from
       /\ Persist(s, [mem[s].state EXCEPT
                         !.requests[r] = [Approved(s, r, o) EXCEPT !.state = "authorized"],
                         !.rollouts[r] = rollout])
    /\ UNCHANGED <<granted, clock>>

\* Pause and Revoke; from any state.
SetLifecycleState(s, r, state) ==
    /\ Running(s)
    /\ Requests(s)[r] # None
    /\ Persist(s, [mem[s].state EXCEPT !.requests[r].state = state])
    /\ UNCHANGED <<granted, clock>>

Pause(s, r) == SetLifecycleState(s, r, "paused")
Revoke(s, r) == SetLifecycleState(s, r, "revoked")

\* Faulty form: any reviewed request can be resumed.
ResumeUnauthorized(s, r) ==
    /\ Running(s)
    /\ Requests(s)[r] # None
    /\ SetLifecycleState(s, r, "authorized")

\* Resume looks for the rollout and the migration marker under a read lock it
\* gives up before setLifecycleState; neither fact changes back in between.
Resume(s, r) ==
    /\ Running(s)
    /\ Rollouts(s)[r] # None
    /\ Requests(s)[r].migration = None
    /\ SetLifecycleState(s, r, "authorized")

\* Faulty form: the legacy rollout keeps its old marker.
RegenerateLegacyRequestOnly(s, r, replacement, ready) ==
    /\ Running(s)
    /\ Requests(s)[r] # None
    /\ Requests(s)[r].migration = Awaiting
    /\ Requests(s)[replacement] = None
    /\ Persist(s, [mem[s].state EXCEPT
            !.requests = [Requests(s) EXCEPT
                             ![r].migration = replacement,
                             ![replacement] = PendingRequest(replacement, ready)]])
    /\ UNCHANGED <<granted, clock>>

\* A legacy request gets a canonical replacement: its own marker, and its
\* rollout's, now name the replacement.
RegenerateLegacy(s, r, replacement, ready) ==
    /\ Running(s)
    /\ Requests(s)[r] # None
    /\ Requests(s)[r].migration = Awaiting
    /\ Requests(s)[replacement] = None
    /\ Persist(s, [mem[s].state EXCEPT
            !.requests = [Requests(s) EXCEPT
                             ![r].migration = replacement,
                             ![replacement] = PendingRequest(replacement, ready)],
            !.rollouts[r] = IF Rollouts(s)[r] = None THEN None
                            ELSE [Rollouts(s)[r] EXCEPT !.migration = replacement]])
    /\ UNCHANGED <<granted, clock>>

-----------------------------------------------------------------------------
(***************************************************************************)
(* Leases.                                                                 *)
(***************************************************************************)
InWindow(rollout, t) == rollout.windows = {} \/ t \in rollout.windows

InForce(rollout, t) ==
    /\ rollout.migration = None
    /\ rollout.from <= t /\ t < rollout.until
    /\ InWindow(rollout, t)

\* The gate that active-secret resolution asks; it reads only the memory.
RolloutActive(s, r) ==
    /\ Rollouts(s)[r] # None
    /\ Requests(s)[r].migration = None
    /\ Requests(s)[r].state = "authorized"
    /\ InForce(Rollouts(s)[r], clock)

ActiveLeases(st, r) ==
    {l \in st.leases : l.request = r /\ ~l.completed /\ clock < l.expires}

NewLease(st, r, e) ==
    [request |-> r, endpoint |-> e, attempt |-> st.attempts[r][e] + 1,
     expires |-> clock + LeaseTTL, completed |-> FALSE]

AttemptsLeft(st, r, e) == st.attempts[r][e] < st.rollouts[r].limit

\* Faulty form: only the endpoint's own lease is looked for.
SlotFreeForEndpoint(st, r, e) == \A l \in ActiveLeases(st, r) : l.endpoint # e

SlotFree(st, r, e) ==
    /\ \A l \in ActiveLeases(st, r) : l.endpoint # e
    /\ Cardinality(ActiveLeases(st, r)) < st.rollouts[r].concurrency

\* Faulty form: the lease goes out whatever the save reports.
HandOutUnsaved(s, new, lease) ==
    /\ Persist(s, new)
    /\ granted' = granted \cup {lease}

\* The lease goes out with the Sync response only when the save answered.
HandOut(s, new, lease) ==
    \/ Saved(s, new) /\ granted' = granted \cup {lease}
    \/ (SaveUnanswered(s, new) \/ SaveRefused(s)) /\ UNCHANGED granted

\* A Sync that reports matching hashes and a ready preflight.
IssueExecutionLease(s, r, e) ==
    /\ Running(s)
    /\ Requests(s)[r] # None
    /\ RolloutActive(s, r)
    /\ e \in Requests(s)[r].ready
    /\ AttemptsLeft(mem[s].state, r, e)
    /\ SlotFree(mem[s].state, r, e)
    /\ LET st == mem[s].state IN
       HandOut(s, [st EXCEPT !.attempts[r][e] = @ + 1,
                             !.leases = @ \cup {NewLease(st, r, e)}],
               NewLease(st, r, e))
    /\ UNCHANGED clock

\* Faulty form: a finished lease is dropped from the book.
WithCompletedDropped(leases, lease, completed) ==
    IF completed THEN leases \ {lease} ELSE leases

WithCompleted(leases, lease, completed) ==
    (leases \ {lease}) \cup {[lease EXCEPT !.completed = completed]}

CompleteExecutionLease(s, lease) ==
    /\ Running(s)
    /\ lease \in mem[s].state.leases
    /\ Persist(s, [mem[s].state EXCEPT !.leases = WithCompleted(@, lease, TRUE)])
    /\ UNCHANGED <<granted, clock>>

\* A progress report: a terminal state completes the lease, and any other
\* valid state makes it incomplete again.
UpdateExecutionProgress(s, lease, terminal) ==
    /\ Running(s)
    /\ lease \in mem[s].state.leases
    /\ Persist(s, [mem[s].state EXCEPT !.leases = WithCompleted(@, lease, terminal)])
    /\ UNCHANGED <<granted, clock>>

-----------------------------------------------------------------------------
(***************************************************************************)
(* Processes and time.                                                     *)
(***************************************************************************)
Crash(s) ==
    /\ Running(s)
    /\ mem' = [mem EXCEPT ![s] = None]
    /\ UNCHANGED <<store, granted, clock>>

\* NewPersistentRegistry: load, normalize, validate.
Start(s) ==
    /\ ~Running(s)
    /\ Valid(Normalize(store.state))
    /\ mem' = [mem EXCEPT ![s] = [rev |-> store.rev, state |-> Normalize(store.state)]]
    /\ UNCHANGED <<store, granted, clock>>

Tick ==
    /\ clock < MaxTime
    /\ clock' = clock + 1
    /\ UNCHANGED <<store, mem, granted>>

Init ==
    /\ store \in {[rev |-> 0, state |-> EmptySnapshot]}
                 \cup {[rev |-> 1, state |-> LegacySnapshot(r)] : r \in LegacyRequests}
    /\ mem = [s \in Server |-> None]
    /\ granted = {}
    /\ clock = 1

\* What the server's handlers call.
ServerStep(s) ==
    \/ \E fresh \in SUBSET Request : \E ready \in [fresh -> SUBSET Endpoint] :
          CreateChangeRequests(s, ready)
    \/ \E r \in Request, o \in Operator : RecordApproval(s, r, o)
    \/ \E r \in Request, o \in Operator, spec \in RolloutSpecs : AuthorizeRollout(s, r, o, spec)
    \/ \E r \in Request : Pause(s, r) \/ Revoke(s, r) \/ Resume(s, r)
    \/ \E r, replacement \in Request, ready \in SUBSET Endpoint :
          RegenerateLegacy(s, r, replacement, ready)
    \/ \E r \in Request, e \in Endpoint : IssueExecutionLease(s, r, e)
    \/ Crash(s)
    \/ Start(s)

\* The registry's operations that no handler calls yet.
ReportStep(s) ==
    /\ Running(s)
    /\ \E lease \in mem[s].state.leases :
          \/ CompleteExecutionLease(s, lease)
          \/ \E terminal \in BOOLEAN : UpdateExecutionProgress(s, lease, terminal)

Next == Tick \/ \E s \in Server : ServerStep(s)
ReportingNext == Next \/ \E s \in Server : ReportStep(s)

Spec == Init /\ [][Next]_vars
ReportingSpec == Init /\ [][ReportingNext]_vars

-----------------------------------------------------------------------------
(***************************************************************************)
(* What must hold.                                                         *)
(***************************************************************************)
Durable == store.state

\* Every variable has its type.
TypeOK ==
    /\ store \in Row
    /\ mem \in [Server -> Row \cup {None}]
    /\ granted \in SUBSET Lease
    /\ clock \in Nat

\* A process that believes it holds the current revision holds the current
\* snapshot, and none is ahead of the row: this is what the expected-revision
\* save of persistLocked stands on, across lost answers and restarts.
MemoryNeverAhead ==
    \A s \in Server : Running(s) =>
        /\ mem[s].rev <= store.rev
        /\ mem[s].rev = store.rev => mem[s].state = Normalize(Durable)

\* No sequence of the registry's own saves writes a row that validate() would
\* refuse, which would keep every later process from starting.
StartNeverRefused == Valid(Normalize(Durable))

\* A lease that reached an endpoint is in the row, with its attempt counted:
\* no failed, refused or unanswered save hands out an unpersisted lease.
GrantedLeasesDurable ==
    \A g \in granted :
        /\ \E completed \in BOOLEAN : [g EXCEPT !.completed = completed] \in Durable.leases
        /\ g.attempt <= Durable.attempts[g.request][g.endpoint]

\* The number of leases an endpoint ever received for a request stays within
\* the attempt limit, over restarts and competing processes.
AttemptLimitHolds ==
    \A r \in Request, e \in Endpoint : Durable.rollouts[r] # None =>
        Cardinality({g \in granted : g.request = r /\ g.endpoint = e})
            <= Durable.rollouts[r].limit

\* At any instant a request has at most its rollout's number of active
\* leases, and an endpoint at most one ("maximum concurrent active leases").
ConcurrencyHolds ==
    \A r \in Request :
        /\ Durable.rollouts[r] # None =>
               Cardinality(ActiveLeases(Durable, r)) <= Durable.rollouts[r].concurrency
        /\ \A l, m \in ActiveLeases(Durable, r) : l.endpoint = m.endpoint => l = m

\* The limits the operators approved are kept, in attempts and at any instant, also
\* while leases run out, servers restart and others compete (IssueExecutionLease).
LimitsInv == TypeOK /\ AttemptLimitHolds /\ ConcurrencyHolds

\* Whoever got a lease was a frozen ready target of a canonical request that as many
\* distinct operators as its threshold asks had approved (ApproveRollout), whatever
\* was paused, revoked, resumed or submitted between their approvals, and whatever
\* an old authorization in a migrated row says.
GrantsHaveQuorum ==
    \A g \in granted :
        LET req == Durable.requests[g.request] IN
        /\ req # None
        /\ req.canonical
        /\ g.endpoint \in req.ready
        /\ Cardinality({req.approvals[i] : i \in DOMAIN req.approvals}) >= req.required

\* Everything of the old snapshot is in the new one: approvals are appended to,
\* attempts and leases stay, and a rollout once written keeps its bounds.
Extends(old, new) ==
    /\ \A r \in Request : old.requests[r] # None =>
          /\ new.requests[r] # None
          /\ Len(new.requests[r].approvals) >= Len(old.requests[r].approvals)
          /\ SubSeq(new.requests[r].approvals, 1, Len(old.requests[r].approvals))
                 = old.requests[r].approvals
          /\ new.requests[r].ready = old.requests[r].ready
          /\ new.requests[r].required = old.requests[r].required
    /\ \A r \in Request : old.rollouts[r] # None =>
          /\ new.rollouts[r] # None
          /\ [new.rollouts[r] EXCEPT !.migration = None]
                 = [old.rollouts[r] EXCEPT !.migration = None]
    /\ \A r \in Request, e \in Endpoint : new.attempts[r][e] >= old.attempts[r][e]
    /\ \A l \in old.leases : \E m \in new.leases :
          [m EXCEPT !.completed = FALSE] = [l EXCEPT !.completed = FALSE]

\* Every save extends the row it replaces.  A stale writer would break this by
\* writing back what it read earlier.
DurableOnlyGrows == [][Extends(Durable, Durable')]_store

\* The row itself, not just some server's copy of it, authorizes the request now.
DurablyAuthorized(r) ==
    /\ Durable.requests[r].state = "authorized"
    /\ Normalize(Durable).requests[r].migration = None
    /\ Durable.rollouts[r] # None
    /\ clock \in Durable.rollouts[r].from .. (Durable.rollouts[r].until - 1)
    /\ InWindow(Durable.rollouts[r], clock)

\* A lease leaves a server only while the row authorizes its request: a pause or
\* revoke that another process saved, or whose answer was lost, already stops the
\* stale process.
GrantUnderDurableAuthority ==
    [][\A g \in granted' \ granted : DurablyAuthorized(g.request)]_granted
=============================================================================
