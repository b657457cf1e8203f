------------------------------ MODULE Secrets -------------------------------
(***************************************************************************)
(* One server-managed secret, from its activation to the endpoint that     *)
(* uses it: the version registry, the Change requests an activation plans  *)
(* and an operator authorizes, the resolution of a reference, and the      *)
(* cache in the agent that reuses an answer while the authority token of   *)
(* the last Sync stands.  Operators' requests overlap, and a statement on  *)
(* the version store looks and writes at two moments, as Postgres does     *)
(* under READ COMMITTED; the server dies between any two steps.            *)
(*                                                                         *)
(* A use is a Resource and a purpose; the purpose names it.  Material is   *)
(* the version it belongs to, an artifact digest is its release.  Only one *)
(* process holds the Change requests: several are ChangeRegistry.          *)
(***************************************************************************)
EXTENDS Naturals, Sequences, FiniteSets
S == INSTANCE SequencesExt

CONSTANTS Admin,        \* operators' requests that can be in flight at once
          Version,      \* versions of the secret, 1..n
          Release,      \* release refs, 1..n
          References,   \* [Release -> [purposes -> the selector they refer to]]
          HighRisk,     \* purposes of Resources that need a preflight
          MaxEntries,   \* entries the agent's cache holds
          MaxTime,      \* bound on the clock
          Scenarios     \* [kinds, budget, time, openings, faults, shared]: what operators
                        \* ask and how often, how far the clock goes, when a rollout
                        \* may be open, how often something fails, and whether the
                        \* counters outlive the process

None == 0
FollowsActive == None           \* the selector "@active"; others are versions
NoToken == <<>>

\* The purposes activationUseIndexFromState plans a rollout for
Planned == {"repository-credential", "password-hash", "schedule-environment",
            "network-credential", "certificate-public", "certificate-private-key",
            "certificate-chain", "ca-trust-anchor", "ubuntu-pro-token"}
\* The purposes ArtifactAuthorizes knows
Served == {"repository-credential", "download-authentication", "password-hash",
           "schedule-environment", "network-credential", "ubuntu-pro-token"}

UsesOf(r) == DOMAIN References[r]
Use == UNION {UsesOf(r) : r \in Release}

\* What operators ask for: the handlers of internal/server/admin_secrets.go, of a Change
\* request and its rollout, and of the release.
Kinds == {"activate", "revoke", "delete", "authorize", "withdraw", "resume", "publish"}

Scenario == [kinds: SUBSET Kinds, budget: Nat, time: 0..MaxTime,
             openings: SUBSET (SUBSET Nat), faults: Nat, shared: BOOLEAN]

ASSUME VersionsAreNumbered == Version \subseteq Nat \ {None}
ASSUME ReleasesAreNumbered == 1 \in Release /\ Release \subseteq Nat \ {None}
ASSUME CacheHoldsSomething == MaxEntries \in Nat \ {0}
ASSUME ScenariosAreBounded == MaxTime \in Nat /\ Scenarios \subseteq Scenario

VARIABLES store,        \* secret_names and secret_versions of the secret
          requests,     \* the Change requests activations planned, and their rollouts
          release,      \* the server's current release ref
          counters,     \* epoch, generation and leaks of the fast-path authority
          op,           \* [Admin -> the operator's request in flight]
          agent,        \* the agent: its artifact, its token, its cache, its run
          handed,       \* [Use -> what the last resolution of this run gave]
          overlapped,   \* versions whose deletion overlapped an activation of theirs
          clock,
          left          \* what is left of the scenario

vars == <<store, requests, release, counters, op, agent, handed, overlapped, clock,
          left>>

Unbound == [u \in {} |-> None]
NoOp == [kind |-> "none", pc |-> "idle", version |-> None, uses |-> {},
         generation |-> 0, request |-> None, passed |-> FALSE]
Denied == [version |-> None, generation |-> 0, request |-> None]
Waiting == [given |-> FALSE, answer |-> Denied]

Init == /\ store = [live |-> Version, revoked |-> {}, active |-> None, generation |-> 0,
                    bound |-> [v \in Version |-> Unbound]]
        /\ requests = <<>>
        /\ release = 1
        /\ counters = [epoch |-> 1, generation |-> 0, leaked |-> FALSE]
        /\ op = [a \in Admin |-> NoOp]
        /\ agent = [pc |-> "ready", release |-> 1, token |-> NoToken, cache |-> <<>>,
                    todo |-> UsesOf(1), use |-> "none", row |-> Denied,
                    offered |-> NoToken, told |-> {}, known |-> {}]
        /\ handed = [u \in Use |-> Waiting]
        /\ overlapped = {}
        /\ clock = 0
        /\ left \in Scenarios

(***************************************************************************)
(* The authority token.                                                    *)
(***************************************************************************)
Mutating(a) == op[a].pc \notin {"idle", "discovered"}
\* Faulty form: the token of an authority that is being changed.
TokenWhileUnstable == <<counters.epoch, counters.generation>>
\* secretAuthorityTokenFromSnapshot: no token while a mutation is in flight, or
\* counted as in flight for good
Token == IF counters.leaked \/ \E a \in Admin : Mutating(a) THEN NoToken
         ELSE <<counters.epoch, counters.generation>>

\* Faulty form: only the completion of a mutation moves the generation.
BeginQuietly(a, started) ==
    /\ op' = [op EXCEPT ![a] = started]
    /\ UNCHANGED counters
\* beginMutationChecked of the global scope
BeginMutation(a, started) ==
    /\ op' = [op EXCEPT ![a] = started]
    /\ counters' = [counters EXCEPT !.generation = @ + 1]

\* the deferred completion of a handler
CompleteMutation(a) ==
    /\ op[a].pc = "ending"
    /\ op' = [op EXCEPT ![a] = NoOp]
    /\ UNCHANGED <<store, requests, release, counters, agent, handed, overlapped,
                   clock, left>>

GoTo(a, pc) == [op EXCEPT ![a].pc = pc]

(***************************************************************************)
(* An operator's request.  An activation discovers its uses in the current *)
(* release before it begins its mutation; the others begin at once.        *)
(***************************************************************************)
Asked(a, kind) == /\ op[a].pc = "idle"
                  /\ kind \in left.kinds
                  /\ left.budget > 0
                  /\ left' = [left EXCEPT !.budget = @ - 1]

\* handleActivateSecretVersion: GetMetadata and secretActivationUses
DiscoverUses(a, v) ==
    /\ Asked(a, "activate")
    /\ v \in store.live
    /\ op' = [op EXCEPT ![a] = [NoOp EXCEPT
           !.kind = "activate", !.pc = "discovered", !.version = v,
           !.uses = {u \in UsesOf(release) \cap Planned :
                         References[release][u] = FollowsActive}]]
    /\ UNCHANGED <<store, requests, release, counters, agent, handed, overlapped, clock>>

BeginOther(a, kind, v) ==
    /\ Asked(a, kind)
    /\ kind \in {"revoke", "delete"} => v \in store.live
    /\ kind \in {"authorize", "withdraw", "resume"} => v \in DOMAIN requests
    /\ kind = "publish" => v = release + 1 /\ v \in Release
    /\ BeginMutation(a, [NoOp EXCEPT !.kind = kind, !.pc = kind, !.version = v])
    /\ UNCHANGED <<store, requests, release, agent, handed, overlapped, clock>>

(***************************************************************************)
(* Activate.                                                               *)
(***************************************************************************)
Usable(v) == v \in store.live \ store.revoked

\* The mutation begins; GetExactVersion and ActivationGeneration
ActivateRead(a) ==
    /\ op[a].pc = "discovered"
    /\ BeginMutation(a, IF Usable(op[a].version)
                        THEN [op[a] EXCEPT !.pc = "plan", !.generation = store.generation]
                        ELSE [op[a] EXCEPT !.pc = "ending"])
    /\ UNCHANGED <<store, requests, release, agent, handed, overlapped, clock, left>>

\* CreateActivationRollouts: one Change request for the uses, saved before the
\* version is active; a failure saves none
ActivatePlan(a) ==
    /\ op[a].pc = "plan"
    /\ \/ /\ op[a].uses = {}
          /\ op' = GoTo(a, "store")
          /\ UNCHANGED <<requests, left>>
       \/ /\ op[a].uses # {}
          /\ requests' = Append(requests,
                 [version |-> op[a].version, generation |-> op[a].generation + 1,
                  authorized |-> FALSE, active |-> FALSE, open |-> {}])
          /\ op' = [op EXCEPT ![a].pc = "store", ![a].request = Len(requests')]
          /\ UNCHANGED left
       \/ /\ left.faults > 0
          /\ left' = [left EXCEPT !.faults = @ - 1]
          /\ op' = GoTo(a, "ending")
          /\ UNCHANGED requests
    /\ UNCHANGED <<store, release, counters, agent, handed, overlapped, clock>>

\* ActivateSecretVersion as it begins: the candidate is read from its snapshot
ActivateLook(a) ==
    /\ op[a].pc = "store"
    /\ op' = [op EXCEPT ![a].pc = "activating", ![a].passed = Usable(op[a].version)]
    /\ UNCHANGED <<store, requests, release, counters, agent, handed, overlapped,
                   clock, left>>

\* Faulty form: the generation of the name is not compared.
GenerationTaken(a) == TRUE
\* the update of secret_names rechecks the generation in the row it locks
GenerationCurrent(a) == store.generation = op[a].generation

\* ... and as it commits.  The row of the name and the row of the version are
\* updated by two parts of the statement: when the version is gone by now the
\* first takes effect all the same, and the call answers that it is not found.
ActivateCommit(a) ==
    LET v == op[a].version
        commits == op[a].passed /\ GenerationCurrent(a)
    IN /\ op[a].pc = "activating"
       /\ op' = GoTo(a, "ending")
       /\ store' = IF ~commits THEN store
                   ELSE [store EXCEPT !.active = v, !.generation = @ + 1,
                            !.bound[v] = IF v \in store.live
                                         THEN [u \in op[a].uses |-> op[a].request]
                                         ELSE @]
       /\ UNCHANGED <<requests, release, counters, agent, handed, overlapped, clock,
                      left>>

(***************************************************************************)
(* Revoke, DeleteVersion.                                                  *)
(***************************************************************************)
\* RevokeVersion: one update, of the row it locks
Revoke(a) ==
    /\ op[a].pc = "revoke"
    /\ store' = [store EXCEPT !.revoked = @ \cup ({op[a].version} \cap store.live)]
    /\ op' = GoTo(a, "ending")
    /\ UNCHANGED <<requests, release, counters, agent, handed, overlapped, clock, left>>

\* GetExactVersion: a version that is active is not deleted
DeleteRead(a) ==
    /\ op[a].pc = "delete"
    /\ op' = GoTo(a, IF op[a].version \in store.live \ {store.active} THEN "remove"
                     ELSE "ending")
    /\ UNCHANGED <<store, requests, release, counters, agent, handed, overlapped,
                   clock, left>>

\* the condition of DeleteSecretVersion on secret_names
Deletable(v) == v # store.active

DeleteLook(a) ==
    /\ op[a].pc = "remove"
    /\ op' = [op EXCEPT ![a].pc = "deleting", ![a].passed = Deletable(op[a].version),
                        ![a].generation = store.generation]
    /\ UNCHANGED <<store, requests, release, counters, agent, handed, overlapped,
                   clock, left>>

\* an activation of the version has looked and not written, or has written since the
\* deletion looked
Overlaps(a) ==
    LET v == op[a].version
    IN \/ \E b \in Admin : op[b].pc = "activating" /\ op[b].version = v /\ op[b].passed
       \/ store.active = v /\ store.generation # op[a].generation

DeleteCommit(a) ==
    LET v == op[a].version
    IN /\ op[a].pc = "deleting"
       /\ op' = GoTo(a, "ending")
       /\ store' = IF op[a].passed THEN [store EXCEPT !.live = @ \ {v}] ELSE store
       /\ overlapped' = IF op[a].passed /\ Overlaps(a) THEN overlapped \cup {v}
                        ELSE overlapped
       /\ UNCHANGED <<requests, release, counters, agent, handed, clock, left>>

(***************************************************************************)
(* Rollout authorization and its lifecycle, and the release.               *)
(***************************************************************************)
\* AuthorizeRollout, once; validity and windows together are the times it is open
Authorize(a, open) ==
    LET q == op[a].version
    IN /\ op[a].pc = "authorize"
       /\ requests' = IF requests[q].authorized THEN requests
                      ELSE [requests EXCEPT ![q].authorized = TRUE, ![q].active = TRUE,
                                            ![q].open = open]
       /\ op' = GoTo(a, "ending")
       /\ UNCHANGED <<store, release, counters, agent, handed, overlapped, clock, left>>

\* Pause and Revoke of a Change request
Withdraw(a) ==
    /\ op[a].pc = "withdraw"
    /\ requests' = [requests EXCEPT ![op[a].version].active = FALSE]
    /\ op' = GoTo(a, "ending")
    /\ UNCHANGED <<store, release, counters, agent, handed, overlapped, clock, left>>

Resume(a) ==
    /\ op[a].pc = "resume"
    /\ requests' = [requests EXCEPT ![op[a].version].active =
           @ \/ requests[op[a].version].authorized]
    /\ op' = GoTo(a, "ending")
    /\ UNCHANGED <<store, release, counters, agent, handed, overlapped, clock, left>>

Publish(a) ==
    /\ op[a].pc = "publish"
    /\ release' = IF op[a].version > release THEN op[a].version ELSE release
    /\ op' = GoTo(a, "ending")
    /\ UNCHANGED <<store, requests, counters, agent, handed, overlapped, clock, left>>

Interrupted ==
    [agent EXCEPT !.pc = "ready", !.use = "none", !.row = Denied, !.offered = NoToken,
                  !.told = {},
                  !.todo = CASE agent.pc = "syncing" -> UsesOf(agent.release)
                             [] agent.pc = "resolving" -> @ \ {agent.use}
                             [] OTHER -> @]

\* The server dies with its requests and those of the agent.  Counters of its own start over with
\* another epoch; shared ones keep the mutations nobody will complete.
Restart ==
    /\ left.faults > 0
    /\ left' = [left EXCEPT !.faults = @ - 1]
    /\ op' = [a \in Admin |-> NoOp]
    /\ counters' = IF left.shared
                   THEN [counters EXCEPT !.leaked = @ \/ \E a \in Admin : Mutating(a)]
                   ELSE [epoch |-> counters.epoch + 1, generation |-> 0, leaked |-> FALSE]
    /\ agent' = Interrupted
    /\ UNCHANGED <<store, requests, release, handed, overlapped, clock>>

(***************************************************************************)
(* The resolution of a reference.                                          *)
(***************************************************************************)
RolloutActive(q, t) == /\ q # None
                       /\ requests[q].active
                       /\ t \in requests[q].open

\* handleResolveSecret and Resolve as far as the store goes.  The artifact the
\* agent names has to be the current one and to hold the reference.
Row(u, digest) ==
    LET selector == References[digest][u]
        v == IF selector = FollowsActive THEN store.active ELSE selector
    IN IF /\ digest = release
          /\ u \in Served
          /\ v # None /\ v \in store.live \ store.revoked
          /\ selector = FollowsActive => u \in DOMAIN store.bound[v]
       THEN [version |-> v,
             generation |-> IF v = store.active THEN store.generation ELSE 0,
             request |-> IF selector = FollowsActive THEN store.bound[v][u] ELSE None]
       ELSE Denied

\* Faulty form: the rollout has to exist, not to be active.
GatedOnRequest(row, u, digest, t) ==
    IF References[digest][u] = FollowsActive /\ u \in HighRisk /\ row.request = None
    THEN Denied ELSE row
\* the rollout gate, which follows the read of the row
Gated(row, u, digest, t) ==
    IF /\ References[digest][u] = FollowsActive
       /\ u \in HighRisk
       /\ ~RolloutActive(row.request, t)
    THEN Denied ELSE row

\* what the server answers about an artifact at a time
AnswerAt(u, digest, t) == Gated(Row(u, digest), u, digest, t)

(***************************************************************************)
(* The agent: a run resolves the uses of its artifact, then syncs.         *)
(***************************************************************************)
Cached(u) == {i \in DOMAIN agent.cache :
                 agent.cache[i].use = u /\ agent.cache[i].digest = agent.release}

\* insertLocked makes room: the entry that was used least recently goes
Evicted(s) == IF Len(s) >= MaxEntries THEN Tail(s) ELSE s

Hand(u, answer) == handed' = [handed EXCEPT ![u] = [given |-> TRUE, answer |-> answer]]

\* a hit hands out a copy and makes the entry the latest
ResolveCached(u) ==
    /\ agent.pc = "ready" /\ u \in agent.todo
    /\ agent.token # NoToken
    /\ \E i \in Cached(u) :
         /\ Hand(u, agent.cache[i].answer)
         /\ agent' = [agent EXCEPT !.todo = @ \ {u},
                          !.cache = Append(S!RemoveAt(agent.cache, i), agent.cache[i])]
    /\ UNCHANGED <<store, requests, release, counters, op, overlapped, clock, left>>

\* a miss asks the server, which reads the row
ResolveRead(u) ==
    /\ agent.pc = "ready" /\ u \in agent.todo
    /\ agent.token = NoToken \/ Cached(u) = {}
    /\ agent' = [agent EXCEPT !.pc = "resolving", !.use = u, !.row = Row(u, agent.release)]
    /\ UNCHANGED <<store, requests, release, counters, op, handed, overlapped, clock,
                   left>>

\* ... and asks the gate; the answer is kept under a token, a denial too
ResolveAnswer ==
    LET u == agent.use
    IN /\ agent.pc = "resolving"
       /\ \E answer \in {Gated(agent.row, u, agent.release, clock)} :
            /\ Hand(u, answer)
            /\ agent' = [agent EXCEPT
                   !.pc = "ready", !.todo = @ \ {u}, !.use = "none", !.row = Denied,
                   !.cache = IF agent.token = NoToken THEN @
                             ELSE Append(Evicted(@), [use |-> u, digest |-> agent.release,
                                                      answer |-> answer, at |-> clock])]
       /\ UNCHANGED <<store, requests, release, counters, op, overlapped, clock, left>>

\* handleSync: the token is that of the snapshot taken before the answer is made
SyncSnapshot ==
    /\ agent.pc = "ready" /\ agent.todo = {}
    /\ agent' = [agent EXCEPT !.pc = "syncing", !.offered = Token, !.told = store.revoked]
    /\ UNCHANGED <<store, requests, release, counters, op, handed, overlapped, clock,
                   left>>

\* Faulty form: only a missing token clears what is retained.
KeptWhileGiven(token) == IF token = NoToken THEN <<>> ELSE agent.cache
\* SetAuthorityToken: a changed or missing token clears what is retained
Kept(token) == IF token = agent.token THEN agent.cache ELSE <<>>

SyncAnswer ==
    /\ agent.pc = "syncing"
    /\ agent' = [agent EXCEPT
           !.pc = "ready", !.token = agent.offered, !.cache = Kept(agent.offered),
           !.release = release, !.todo = UsesOf(release), !.known = agent.told,
           !.offered = NoToken, !.told = {}]
    /\ handed' = [u \in Use |-> Waiting]
    /\ UNCHANGED <<store, requests, release, counters, op, overlapped, clock, left>>

\* A call fails: nothing of it is kept, the run goes on to the next use, or the
\* next run follows the Sync that failed.
CallLost ==
    /\ agent.pc # "ready"
    /\ left.faults > 0
    /\ left' = [left EXCEPT !.faults = @ - 1]
    /\ agent' = Interrupted
    /\ UNCHANGED <<store, requests, release, counters, op, handed, overlapped, clock>>

Tick == /\ clock < left.time
        /\ clock' = clock + 1
        /\ UNCHANGED <<store, requests, release, counters, op, agent, handed, overlapped,
                       left>>

Proceed(a) == \/ ActivateRead(a) \/ ActivatePlan(a)
              \/ ActivateLook(a) \/ ActivateCommit(a)
              \/ Revoke(a) \/ DeleteRead(a) \/ DeleteLook(a) \/ DeleteCommit(a)
              \/ \E open \in left.openings : Authorize(a, open)
              \/ Withdraw(a) \/ Resume(a) \/ Publish(a) \/ CompleteMutation(a)

Run == \/ \E u \in Use : ResolveCached(u) \/ ResolveRead(u)
       \/ ResolveAnswer \/ SyncSnapshot \/ SyncAnswer

Ask(a) == \/ \E v \in Version : DiscoverUses(a, v)
          \/ \E kind \in left.kinds \ {"activate"},
                v \in Version \cup Release \cup DOMAIN requests : BeginOther(a, kind, v)

Next == \/ \E a \in Admin : Ask(a) \/ Proceed(a)
        \/ Run \/ CallLost \/ Restart \/ Tick

Spec == Init /\ [][Next]_vars
\* An agent polls, a handler runs to its end, time passes.
FairSpec == Spec /\ WF_vars(Run) /\ (\A a \in Admin : WF_vars(Proceed(a))) /\ WF_vars(Tick)

-----------------------------------------------------------------------------
\* What the server would answer the endpoint now
Now(u) == IF u \in UsesOf(release) THEN AnswerAt(u, release, clock) ELSE Denied

\* The rows of the registry, the rollouts, the bindings, the requests being
\* answered and what the endpoints hold are all of the kinds the code gives them.
TypeOK ==
    /\ store.live \subseteq Version /\ store.revoked \subseteq Version
    /\ store.active \in Version \cup {None} /\ store.generation \in Nat
    /\ \A v \in Version : DOMAIN store.bound[v] \subseteq Use \cap Planned
    /\ \A q \in DOMAIN requests : requests[q].version \in Version
    /\ release \in Release /\ agent.release \in Release
    /\ agent.pc \in {"ready", "resolving", "syncing"}
    /\ agent.todo \subseteq Use /\ Len(agent.cache) <= MaxEntries
    /\ agent.token = NoToken => agent.cache = <<>>
    /\ overlapped \subseteq Version /\ clock \in 0..MaxTime

\* While the agent holds the token the server would issue now, only the clock can make
\* a retained answer differ from the server's: no activation, revocation, deletion,
\* release or authorization completes behind the token's back, whatever it overlaps
\* (the begin barrier of beginMutationChecked around every one of them).
ClockAloneOutdates ==
    agent.token # NoToken /\ agent.token = Token
        => \A i \in DOMAIN agent.cache :
             LET e == agent.cache[i] IN AnswerAt(e.use, e.digest, e.at) = e.answer

\* A version that was revoked before the last Sync began is neither retained nor handed
\* out in the run that follows: RevokeVersion runs inside a mutation, and the token of
\* that Sync clears the cache (OS-LSM-082).
RevokedIsWithheld ==
    /\ \A i \in DOMAIN agent.cache : agent.cache[i].answer.version \notin agent.known
    /\ \A u \in Use : handed[u].answer.version \notin agent.known

\* The active version is bound to the Change requests of its own activation, and of
\* this activation of it: two activations planned for one generation never both
\* commit, and a version that becomes active again is bound anew (OS-LSM-023).
BoundToItsGeneration ==
    store.active \in store.live
        => \A u \in DOMAIN store.bound[store.active] :
             LET q == requests[store.bound[store.active][u]]
             IN q.version = store.active /\ q.generation = store.generation

\* Material of an active reference of a high-risk Resource reaches the endpoint only
\* after the Change request of that very activation was authorized, also through the
\* cache and also when the activation of its request lost the race (OS-LSM-021).
MaterialWasAuthorized ==
    \A u \in HighRisk \cap Use : LET m == handed[u].answer IN
        m.version # None /\ m.request # None
            => /\ requests[m.request].authorized
               /\ requests[m.request].version = m.version
               /\ requests[m.request].generation = m.generation

\* The active version exists, unless its deletion overlapped an activation of it: the
\* look of DeleteVersion at the version is not the last one, the statement looks again.
ActiveSurvives ==
    store.active # None /\ store.active \notin overlapped => store.active \in store.live

\* Of overlapping activations, revocations and deletions one wins whole: the active
\* version exists and is bound to the Change requests of its own activation.
RegistryInv == TypeOK /\ BoundToItsGeneration /\ ActiveSurvives

\* When rollouts are open at all times, the runs of the endpoint settle on what the
\* server answers: no denial and no material stays in the cache for good.
Untimed == left.openings = {0..MaxTime}
AnswersArrive ==
    Untimed => /\ <>[](\A u \in Use : handed[u].given => handed[u].answer = Now(u))
               /\ \A u \in UsesOf(1) : []<>(handed[u].given)
=============================================================================
