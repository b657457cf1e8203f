----------------------------- MODULE SyncCache -----------------------------
(***************************************************************************)
(* The unchanged-Sync fast path of the Remotr server, memory backend       *)
(* (internal/server/unchanged_sync_cache.go), and the Sync handler around  *)
(* it (internal/server/server.go).                                         *)
(*                                                                         *)
(* A Sync that changes nothing leaves its answer in a cache; the next one  *)
(* is answered from there without looking at the database, until an        *)
(* authority mutation removes the entry or its checkpoint is due.  Several *)
(* Syncs are in the handler at once, two of one endpoint when its agent    *)
(* gave up on the first.  The handler reads the endpoint, the generations  *)
(* and what the database says one after the other.                         *)
(*                                                                         *)
(* The cache is under one mutex, so each of its operations is one action.  *)
(* Entries are of one size, their observations are not counted, and no     *)
(* configuration lets the TTL end before the checkpoint interval.          *)
(***************************************************************************)
EXTENDS Naturals, Sequences, FiniteSets

CONSTANTS
    Endpoint, Fleet, Global, None,
    Home,           \* the fleet in which each endpoint enrolled
    MaxEntries,     \* entries and owed checkpoints the cache holds
    Interval,       \* the checkpoint interval
    MaxRequests,    \* bound: requests in the handler at a time
    MaxMutations,   \* bound: authority mutations
    MaxFaults,      \* bound: server restarts, failed checkpoints, agents giving up
    MaxTime         \* bound: last instant of the clock

ASSUME ConstantsAssumption ==
    /\ Home \in [Endpoint -> Fleet]
    /\ {MaxEntries, Interval} \subseteq Nat \ {0}
    /\ {MaxRequests, MaxMutations, MaxFaults, MaxTime} \subseteq Nat
    /\ None \notin Endpoint \cup Fleet \cup Nat
    /\ Global \notin Endpoint \cup Fleet /\ Endpoint \cap Fleet = {}

Request == 1..MaxRequests   \* places in the handler, the first free one taken

VARIABLES
    release, policy, fleet, \* the durable authority: the release, the policy of
                            \* each fleet, the fleet of each endpoint
    entries,                \* the cached decisions
    recent,                 \* endpoints that have one, least recently used first
    owed,                   \* fleets of the checkpoints yet to be persisted
    generation, unstable,   \* of each scope: mutations begun, and in progress
    sync,                   \* where each request is and what it has read
    waiting,                \* the request each agent waits for
    agent,                  \* what each agent was told last
    clock, mutations, faults

authority == <<release, policy, fleet>>
cache == <<entries, recent, owed>>
barrier == <<generation, unstable>>
agents == <<waiting, agent>>
bounds == <<clock, mutations, faults>>
vars == <<authority, cache, barrier, sync, agents, bounds>>

Scope == {Global} \cup Fleet \cup Endpoint   \* of a mutation

\* An answer stands for the artifact of a fleet in a release, and a policy.
Answer == [release: Nat, fleet: Fleet, policy: Nat]
Snapshot == [stable: BOOLEAN, global: Nat, fleet: Nat, endpoint: Nat]
Entry == [answer: Answer, snapshot: Snapshot, start: Nat]
ASSUME NoneIsAbsent == None \notin Entry
InHandler ==
    [at: {"idle", "endpoint", "snapshot", "persist", "complete", "resolve", "answer"},
     endpoint: Endpoint \cup {None}, last: Answer \cup {None}, fleet: Fleet \cup {None},
     snapshot: Snapshot \cup {None}, release: Nat, policy: Nat]

Idle == [at |-> "idle", endpoint |-> None, last |-> None, fleet |-> None, snapshot |-> None,
         release |-> 0, policy |-> 0]

Fault == faults < MaxFaults /\ faults' = faults + 1
Without(f, drop) == [e \in Endpoint |-> IF e \in drop THEN None ELSE f[e]]
\* s without the elements of drop
Remaining(s, drop) ==
    LET kept[i \in 0..Len(s)] ==
            IF i = 0 THEN <<>>
            ELSE IF s[i] \in drop THEN kept[i - 1] ELSE Append(kept[i - 1], s[i])
    IN kept[Len(s)]
Dropped(drop) == Remaining(recent, drop)
Cached == {e \in Endpoint : entries[e] # None}
Owing == {e \in Endpoint : owed[e] # None}

\* authoritySnapshot
SnapshotOf(e, f) ==
    [stable |-> \A k \in {Global, f, e} : unstable[k] = 0,
     global |-> generation[Global], fleet |-> generation[f], endpoint |-> generation[e]]

\* Faulty form: mutations under way are not looked at.
AuthorityCurrentWhileUnstable(e, f, snapshot) ==
    [SnapshotOf(e, f) EXCEPT !.stable = snapshot.stable] = snapshot

AuthorityCurrent(e, f, snapshot) == snapshot.stable /\ SnapshotOf(e, f) = snapshot

-----------------------------------------------------------------------------
(***************************************************************************)
(* Looking up.                                                             *)
(***************************************************************************)
\* Faulty form: an entry that is in use has no checkpoint.
DueNever(e) == FALSE

Due(e) == entries[e] # None /\ clock >= entries[e].start + Interval

Usable(e) ==
    /\ entries[e] # None /\ ~Due(e)
    /\ entries[e].answer.release = agent[e].release
    /\ entries[e].answer.fleet = agent[e].fleet
    /\ AuthorityCurrent(e, entries[e].answer.fleet, entries[e].snapshot)

CanSend(p, e) ==
    /\ sync[p] = Idle /\ \A q \in 1..(p - 1) : sync[q] # Idle
    /\ waiting[e] = None

\* getWithCheckpoint finds the answer.
Hit(p, e) ==
    /\ CanSend(p, e) /\ Usable(e)
    /\ recent' = Append(Dropped({e}), e)
    /\ agent' = [agent EXCEPT ![e] = entries[e].answer]
    /\ UNCHANGED <<authority, entries, owed, barrier, sync, waiting, bounds>>

\* Faulty form: the entry stays where it is.
CheckpointLeavingEntry(e) ==
    /\ owed' = [owed EXCEPT ![e] = entries[e].answer.fleet]
    /\ UNCHANGED <<entries, recent>>

Checkpoint(e) ==
    /\ entries' = Without(entries, {e}) /\ recent' = Dropped({e})
    /\ owed' = [owed EXCEPT ![e] = entries[e].answer.fleet]

\* It does not, and an entry whose checkpoint is due leaves the cache.  A request
\* with more to say than hashes is not looked up at all.
Miss(p, e, quiet) ==
    /\ CanSend(p, e) /\ ~(quiet /\ Usable(e))
    /\ IF quiet /\ Due(e)
       THEN Checkpoint(e)
       ELSE UNCHANGED cache
    /\ sync' = [sync EXCEPT ![p].at = "endpoint", ![p].endpoint = e, ![p].last = agent[e]]
    /\ waiting' = [waiting EXCEPT ![e] = p]
    /\ UNCHANGED <<authority, barrier, agent, bounds>>

-----------------------------------------------------------------------------
(***************************************************************************)
(* The full path.                                                          *)
(***************************************************************************)
ReadEndpoint(p) ==
    /\ sync[p].at = "endpoint"
    /\ sync' = [sync EXCEPT ![p].at = "snapshot", ![p].fleet = fleet[sync[p].endpoint]]
    /\ UNCHANGED <<authority, cache, barrier, agents, bounds>>

\* authoritySnapshot and, right after it, pendingCheckpoint.
TakeSnapshot(p) ==
    /\ sync[p].at = "snapshot"
    /\ sync' = [sync EXCEPT ![p].at = IF sync[p].endpoint \in Owing THEN "persist" ELSE "resolve",
                            ![p].snapshot = SnapshotOf(sync[p].endpoint, sync[p].fleet)]
    /\ UNCHANGED <<authority, cache, barrier, agents, bounds>>

\* persistSyncCheckpoint; when it fails the request is refused.
PersistCheckpoint(p) ==
    /\ sync[p].at = "persist"
    /\ \/ /\ sync' = [sync EXCEPT ![p].at = "complete"]
          /\ UNCHANGED <<waiting, faults>>
       \/ /\ Fault
          /\ sync' = [sync EXCEPT ![p] = Idle]
          /\ waiting' = [e \in Endpoint |-> IF waiting[e] = p THEN None ELSE waiting[e]]
    /\ UNCHANGED <<authority, cache, barrier, agent, clock, mutations>>

CompleteCheckpoint(p) ==
    /\ sync[p].at = "complete"
    /\ owed' = [owed EXCEPT ![sync[p].endpoint] = None]
    /\ sync' = [sync EXCEPT ![p].at = "resolve"]
    /\ UNCHANGED <<authority, entries, recent, barrier, agents, bounds>>

\* The release, its artifact for the fleet, and the fleet's policy, which the
\* handler reads in this order and the model at one time.
Resolve(p) ==
    /\ sync[p].at = "resolve"
    /\ sync' = [sync EXCEPT ![p].at = "answer", ![p].release = release,
                            ![p].policy = policy[sync[p].fleet]]
    /\ UNCHANGED <<authority, cache, barrier, agents, bounds>>

AnswerOf(p) == [release |-> sync[p].release, fleet |-> sync[p].fleet, policy |-> sync[p].policy]

Unchanged(p) ==
    sync[p].last.release = sync[p].release /\ sync[p].last.fleet = sync[p].fleet

\* Bound: an entry is cached only while its checkpoint still comes.
Fillable(p) ==
    /\ AuthorityCurrent(sync[p].endpoint, sync[p].fleet, sync[p].snapshot)
    /\ sync[p].endpoint \notin Owing
    /\ clock + Interval <= MaxTime

\* The order of use once the least recently used made room for e, all of them in
\* vain when owed checkpoints fill the cache.
Kept(e, places) ==
    LET others == Dropped({e})
        keep == IF places - 1 < Len(others) THEN places - 1 ELSE Len(others)
    IN IF places = 0 THEN <<>>
       ELSE Append(SubSeq(others, Len(others) - keep + 1, Len(others)), e)

Places == IF Cardinality(Owing) < MaxEntries THEN MaxEntries - Cardinality(Owing) ELSE 0

\* putWithSnapshot
Put(p) ==
    LET e == sync[p].endpoint
        order == Kept(e, Places)
        kept == {order[i] : i \in DOMAIN order}
    IN IF ~Fillable(p) THEN UNCHANGED cache
       ELSE /\ recent' = order
            /\ entries' = [x \in Endpoint |->
                  IF x \notin kept THEN None
                  ELSE IF x # e THEN entries[x]
                  ELSE [answer |-> AnswerOf(p), snapshot |-> sync[p].snapshot, start |-> clock]]
            /\ UNCHANGED owed

\* The answer, which reaches the agent if it still waits for this request.
Reply(p) ==
    LET e == sync[p].endpoint IN
    /\ sync[p].at = "answer"
    /\ IF Unchanged(p) THEN Put(p) ELSE UNCHANGED cache
    /\ sync' = [sync EXCEPT ![p] = Idle]
    /\ IF waiting[e] = p
       THEN /\ agent' = [agent EXCEPT ![e] = AnswerOf(p)]
            /\ waiting' = [waiting EXCEPT ![e] = None]
       ELSE UNCHANGED agents
    /\ UNCHANGED <<authority, barrier, bounds>>

GiveUp(e) ==
    /\ waiting[e] # None
    /\ Fault
    /\ waiting' = [waiting EXCEPT ![e] = None]
    /\ UNCHANGED <<authority, cache, barrier, sync, agent, clock, mutations>>

-----------------------------------------------------------------------------
(***************************************************************************)
(* Authority mutations: begin, change the database, complete.              *)
(***************************************************************************)
Within(k) == {e \in Endpoint : k \in {Global, e}}
EntriesOf(k) == Within(k) \cup {e \in Endpoint : entries[e] # None /\ entries[e].answer.fleet = k}
OwedOf(k) == Within(k) \cup {e \in Owing : owed[e] = k}

\* beginMutationChecked
BeginMutation(k) ==
    /\ mutations < MaxMutations
    /\ mutations' = mutations + 1
    /\ generation' = [generation EXCEPT ![k] = @ + 1]
    /\ unstable' = [unstable EXCEPT ![k] = @ + 1]
    /\ entries' = Without(entries, EntriesOf(k)) /\ recent' = Dropped(EntriesOf(k))
    /\ owed' = Without(owed, OwedOf(k))
    /\ UNCHANGED <<authority, sync, agents, clock, faults>>

\* What a handler changes between the two; it may fail and change nothing.
Advance ==
    /\ unstable[Global] > 0 /\ release < mutations
    /\ release' = release + 1
    /\ UNCHANGED <<policy, fleet, cache, barrier, sync, agents, bounds>>

SetPolicy(f) ==
    /\ unstable[f] > 0 /\ policy[f] < mutations
    /\ policy' = [policy EXCEPT ![f] = @ + 1]
    /\ UNCHANGED <<release, fleet, cache, barrier, sync, agents, bounds>>

Reassign(e, f) ==
    /\ unstable[e] > 0
    /\ fleet' = [fleet EXCEPT ![e] = f]
    /\ UNCHANGED <<release, policy, cache, barrier, sync, agents, bounds>>

CompleteMutation(k) ==
    /\ unstable[k] > 0
    /\ unstable' = [unstable EXCEPT ![k] = @ - 1]
    /\ UNCHANGED <<authority, cache, generation, sync, agents, bounds>>

-----------------------------------------------------------------------------
Empty == [e \in Endpoint |-> None]
Quiet == [k \in Scope |-> 0]

\* A new process starts cold.
Restart ==
    /\ Fault
    /\ entries' = Empty /\ owed' = Empty /\ recent' = <<>>
    /\ generation' = Quiet /\ unstable' = Quiet
    /\ sync' = [p \in Request |-> Idle] /\ waiting' = Empty
    /\ UNCHANGED <<authority, agent, clock, mutations>>

Tick ==
    /\ clock < MaxTime
    /\ clock' = clock + 1
    /\ UNCHANGED <<authority, cache, barrier, sync, agents, mutations, faults>>

Init ==
    /\ release = 0 /\ policy = [f \in Fleet |-> 0]
    /\ fleet = Home
    /\ entries = Empty /\ owed = Empty /\ recent = <<>>
    /\ generation = Quiet /\ unstable = Quiet
    /\ sync = [p \in Request |-> Idle] /\ waiting = Empty
    /\ agent = [e \in Endpoint |-> [release |-> 0, fleet |-> Home[e], policy |-> 0]]
    /\ clock = 0 /\ mutations = 0 /\ faults = 0

QuietPoll(e) == \E p \in Request : Hit(p, e) \/ Miss(p, e, TRUE)
Poll(e) == QuietPoll(e) \/ \E p \in Request : Miss(p, e, FALSE)

Handle(p) ==
    \/ ReadEndpoint(p) \/ TakeSnapshot(p)
    \/ PersistCheckpoint(p) \/ CompleteCheckpoint(p)
    \/ Resolve(p) \/ Reply(p)

Mutate ==
    \/ \E k \in Scope : BeginMutation(k) \/ CompleteMutation(k)
    \/ Advance
    \/ \E f \in Fleet : SetPolicy(f)
    \/ \E e \in Endpoint, f \in Fleet : Reassign(e, f)

Next ==
    \/ \E e \in Endpoint : Poll(e) \/ GiveUp(e)
    \/ \E p \in Request : Handle(p)
    \/ Mutate \/ Restart \/ Tick

Spec == Init /\ [][Next]_vars

\* Agents poll for ever, with nothing but hashes if they so choose, and get in if
\* there is a place again and again; no request stays in the handler for ever, and
\* time passes.
FairSpec ==
    /\ Spec
    /\ \A e \in Endpoint : SF_vars(QuietPoll(e))
    /\ \A p \in Request : WF_vars(Handle(p))
    /\ WF_vars(Tick)

-----------------------------------------------------------------------------
(***************************************************************************)
(* What must hold.                                                         *)
(***************************************************************************)
Served(e) == entries[e] # None /\ AuthorityCurrent(e, entries[e].answer.fleet, entries[e].snapshot)

\* Every variable has its type, and the order of use lists what is cached.
TypeOK ==
    /\ release \in Nat /\ policy \in [Fleet -> Nat] /\ fleet \in [Endpoint -> Fleet]
    /\ entries \in [Endpoint -> Entry \cup {None}]
    /\ owed \in [Endpoint -> Fleet \cup {None}]
    /\ recent \in Seq(Endpoint)
    /\ {recent[i] : i \in DOMAIN recent} = Cached /\ Len(recent) = Cardinality(Cached)
    /\ {generation, unstable} \subseteq [Scope -> Nat]
    /\ waiting \in [Endpoint -> Request \cup {None}]
    /\ agent \in [Endpoint -> Answer]
    /\ sync \in [Request -> InHandler]
    /\ {clock, mutations, faults} \subseteq Nat

\* An entry that a lookup would use names the current release, and the current policy of
\* the fleet the answer was made for, whatever mutations came between the reads it was
\* made from and its being cached.  That this is the endpoint's fleet is not said: one
\* reassigned after it was read is served for the fleet it has left.
ServedIsAuthorized ==
    \A e \in Endpoint : Served(e) =>
        /\ entries[e].answer.release = release
        /\ entries[e].answer.policy = policy[entries[e].answer.fleet]

\* openspec/changes/add-unchanged-sync-fast-path/design.md:87: the endpoint "cannot
\* resume ordinary cache hits until a later full path completes the checkpoint".
OwedKeepsOut == \A e \in Owing : entries[e] = None

\* Entries and owed checkpoints together stay within the cache's bound.
CacheIsBounded ==
    Cardinality(Cached) + Cardinality(Owing) <= MaxEntries

\* The two halves of the cache, answers and owed checkpoints, have no endpoint in
\* common and no more places than there are, whatever fills, evicts and owes meanwhile.
CacheInv == TypeOK /\ OwedKeepsOut /\ CacheIsBounded

\* Once the mutations are over every agent is told what the database says,
\* even where a stale entry was cached.
AgentsCatchUp ==
    \A e \in Endpoint :
        []<>(agent[e] = [release |-> release, fleet |-> fleet[e], policy |-> policy[fleet[e]]])
=============================================================================
