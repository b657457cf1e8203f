--------------------------- MODULE SyncCacheProofs ---------------------------
(***************************************************************************)
(* What the unchanged-Sync cache would serve is what the database says,    *)
(* for any number of endpoints, fleets, requests and mutations.            *)
(*                                                                         *)
(* A lookup trusts an entry whose three generations are current and were   *)
(* stable when the handler noted them.  That is not inductive: the request *)
(* being answered may still hold a snapshot, and a mutation that completes *)
(* makes its scope stable again.  Sound adds that a snapshot noted as      *)
(* stable belongs to a past generation as soon as a mutation of its scope  *)
(* begins, and says the same of requests and of entries.                   *)
(***************************************************************************)
EXTENDS SyncCache, SequenceTheorems, FiniteSetTheorems, WellFoundedInduction, TLAPS

Noted == {"persist", "complete", "resolve", "answer"}   \* with a snapshot

\* Nothing has begun in scope k since generation n was noted as stable, or n is past.
Fresh(k, n) == n < generation[k] \/ (n = generation[k] /\ unstable[k] = 0)

FreshSnapshot(e, f, s) ==
    s.stable => Fresh(Global, s.global) /\ Fresh(f, s.fleet) /\ Fresh(e, s.endpoint)

\* An answer with release r and policy q, found under snapshot s.
Says(e, f, s, r, q) == AuthorityCurrent(e, f, s) => r = release /\ q = policy[f]

EntrySound(e) == entries[e] # None =>
    /\ FreshSnapshot(e, entries[e].answer.fleet, entries[e].snapshot)
    /\ Says(e, entries[e].answer.fleet, entries[e].snapshot,
            entries[e].answer.release, entries[e].answer.policy)

RequestSound(p) ==
    /\ sync[p].at \in Noted =>
          FreshSnapshot(sync[p].endpoint, sync[p].fleet, sync[p].snapshot)
    /\ sync[p].at = "answer" =>
          Says(sync[p].endpoint, sync[p].fleet, sync[p].snapshot,
               sync[p].release, sync[p].policy)

EntriesSound == \A e \in Endpoint : EntrySound(e)
RequestsSound == \A p \in Request : RequestSound(p)

Stages ==
    \A p \in Request :
        /\ sync[p].at # "idle" => sync[p].endpoint \in Endpoint
        /\ sync[p].at \notin {"idle", "endpoint"} => sync[p].fleet \in Fleet
        /\ sync[p].at \in Noted => sync[p].snapshot \in Snapshot

Types ==
    /\ release \in Nat /\ policy \in [Fleet -> Nat] /\ fleet \in [Endpoint -> Fleet]
    /\ entries \in [Endpoint -> Entry \cup {None}]
    /\ generation \in [Scope -> Nat] /\ unstable \in [Scope -> Nat]
    /\ agent \in [Endpoint -> Answer]
    /\ sync \in [Request -> InHandler]
    /\ clock \in Nat

Sound == Types /\ Stages /\ EntriesSound /\ RequestsSound

-----------------------------------------------------------------------------
LEMMA SnapshotType ==
    ASSUME Types, NEW e \in Endpoint, NEW f \in Fleet
    PROVE  SnapshotOf(e, f) \in Snapshot
BY DEF Types, SnapshotOf, Snapshot, Scope

\* A snapshot just noted is fresh.
LEMMA NotedIsFresh ==
    ASSUME Types, NEW e \in Endpoint, NEW f \in Fleet
    PROVE  FreshSnapshot(e, f, SnapshotOf(e, f))
BY DEF Types, SnapshotOf, FreshSnapshot, Fresh, Scope

\* What a step of the database or of the barrier leaves of a snapshot: it stays
\* fresh, and an answer found under it stays right while it counts as current.
BarrierStep ==
    \/ \E k \in Scope : BeginMutation(k) \/ CompleteMutation(k)
    \/ Advance
    \/ \E f \in Fleet : SetPolicy(f)
    \/ \E e \in Endpoint, f \in Fleet : Reassign(e, f)
    \/ UNCHANGED <<authority, barrier>>

LEMMA BarrierKeepsSound ==
    ASSUME Types, BarrierStep,
           NEW e \in Endpoint, NEW f \in Fleet, NEW s \in Snapshot, NEW r, NEW q,
           FreshSnapshot(e, f, s), Says(e, f, s, r, q)
    PROVE  FreshSnapshot(e, f, s)' /\ Says(e, f, s, r, q)'
<1> USE DEF Types, FreshSnapshot, Fresh, Says, AuthorityCurrent, SnapshotOf, Snapshot, Scope
<1>1. ASSUME NEW k \in Scope, BeginMutation(k)
      PROVE  FreshSnapshot(e, f, s)' /\ Says(e, f, s, r, q)'
  BY <1>1 DEF BeginMutation, authority
<1>2. ASSUME NEW k \in Scope, CompleteMutation(k)
      PROVE  FreshSnapshot(e, f, s)' /\ Says(e, f, s, r, q)'
  BY <1>2 DEF CompleteMutation, authority
<1>3. CASE Advance
  BY <1>3 DEF Advance, barrier
<1>4. ASSUME NEW g \in Fleet, SetPolicy(g)
      PROVE  FreshSnapshot(e, f, s)' /\ Says(e, f, s, r, q)'
  BY <1>4 DEF SetPolicy, barrier
<1>5. ASSUME NEW x \in Endpoint, NEW g \in Fleet, Reassign(x, g)
      PROVE  FreshSnapshot(e, f, s)' /\ Says(e, f, s, r, q)'
  BY <1>5 DEF Reassign, barrier
<1>6. CASE UNCHANGED <<authority, barrier>>
  BY <1>6 DEF authority, barrier
<1> QED
  BY <1>1, <1>2, <1>3, <1>4, <1>5, <1>6 DEF BarrierStep

\* An entry that stays, or goes, stays sound through a step of database and barrier.
LEMMA EntryStaysSound ==
    ASSUME Types, EntriesSound, BarrierStep,
           NEW e \in Endpoint, entries'[e] \in {None, entries[e]}
    PROVE  EntrySound(e)'
<1> SUFFICES ASSUME entries'[e] # None
             PROVE  /\ FreshSnapshot(e, entries[e].answer.fleet, entries[e].snapshot)'
                    /\ Says(e, entries[e].answer.fleet, entries[e].snapshot,
                            entries[e].answer.release, entries[e].answer.policy)'
  BY DEF EntrySound
<1>1. entries'[e] = entries[e] /\ entries[e] \in Entry
  BY DEF Types
<1> DEFINE f == entries[e].answer.fleet
           s == entries[e].snapshot
           r == entries[e].answer.release
           q == entries[e].answer.policy
<1>2. f \in Fleet /\ s \in Snapshot
  BY <1>1 DEF Entry, Answer
<1>3. FreshSnapshot(e, f, s) /\ Says(e, f, s, r, q)
  BY <1>1 DEF EntriesSound, EntrySound
<1>4. PICK cf \in Fleet, cs \in Snapshot : cf = f /\ cs = s
  BY <1>2
<1>4a. PICK cr, cq : cr = r /\ cq = q
  OBVIOUS
<1>5. FreshSnapshot(e, cf, cs) /\ Says(e, cf, cs, cr, cq)
  BY <1>3, <1>4, <1>4a
<1>6. FreshSnapshot(e, cf, cs)' /\ Says(e, cf, cs, cr, cq)'
  BY <1>5, BarrierKeepsSound
<1>7. cf = f' /\ cs = s' /\ cr = r' /\ cq = q'
  BY <1>1, <1>4, <1>4a
<1> QED
  BY <1>6, <1>7

\* The same of a request.
LEMMA RequestStaysSound ==
    ASSUME Types, Stages, RequestsSound, BarrierStep,
           NEW p \in Request, sync'[p] \in {Idle, sync[p]}
    PROVE  RequestSound(p)'
<1> USE DEF RequestSound
<1>1. CASE sync'[p] = Idle
  BY <1>1 DEF Idle, Noted
<1>2. CASE sync'[p] = sync[p] /\ sync[p].at \in Noted
  <2> DEFINE e == sync[p].endpoint
             f == sync[p].fleet
             s == sync[p].snapshot
             r == sync[p].release
             q == sync[p].policy
  <2>1. e \in Endpoint /\ f \in Fleet /\ s \in Snapshot
    BY <1>2 DEF Stages, Noted
  <2>2. PICK ce \in Endpoint, cf \in Fleet, cs \in Snapshot : ce = e /\ cf = f /\ cs = s
    BY <2>1
  <2>2a. PICK cr, cq : cr = r /\ cq = q
    OBVIOUS
  <2>3. ce = e' /\ cf = f' /\ cs = s' /\ cr = r' /\ cq = q'
    BY <1>2, <2>2, <2>2a
  <2>4. FreshSnapshot(ce, cf, cs) /\ (sync[p].at = "answer" => Says(ce, cf, cs, cr, cq))
    BY <1>2, <2>2, <2>2a DEF RequestsSound
  <2>5. FreshSnapshot(ce, cf, cs)'
    <3>1. Says(ce, cf, cs, IF AuthorityCurrent(ce, cf, cs) THEN release ELSE 0,
                           IF AuthorityCurrent(ce, cf, cs) THEN policy[cf] ELSE 0)
      BY DEF Says
    <3>2. PICK r1, q1 : Says(ce, cf, cs, r1, q1)
      BY <3>1
    <3> QED
      BY <2>4, <3>2, BarrierKeepsSound
  <2>6. sync[p].at = "answer" => Says(ce, cf, cs, cr, cq)'
    BY <2>4, BarrierKeepsSound
  <2> QED
    BY <1>2, <2>3, <2>5, <2>6
<1>3. CASE sync'[p] = sync[p] /\ sync[p].at \notin Noted
  BY <1>3 DEF Noted
<1> QED
  BY <1>1, <1>2, <1>3

-----------------------------------------------------------------------------
\* The types and stages.

LEMMA InitTypes == ASSUME Init PROVE Types /\ Stages
BY ConstantsAssumption
   DEF Init, Types, Stages, InHandler, Idle, Answer, Empty, Quiet, Noted

\* What is cached is of the right type.
LEMMA PutEntries ==
    ASSUME Types, Stages, NEW p \in Request, sync[p].at = "answer", Put(p),
           NEW e \in Endpoint
    PROVE  \/ entries'[e] \in {None, entries[e]}
           \/ /\ e = sync[p].endpoint /\ Fillable(p)
              /\ entries'[e] = [answer |-> AnswerOf(p), snapshot |-> sync[p].snapshot,
                                start |-> clock]
BY DEF Put, Types, cache

\* One request goes on as n.
LEMMA RequestMoves ==
    ASSUME Types, Stages, NEW p \in Request, NEW n \in InHandler,
           sync' = [sync EXCEPT ![p] = n],
           n.at # "idle" => n.endpoint \in Endpoint,
           n.at \notin {"idle", "endpoint"} => n.fleet \in Fleet,
           n.at \in Noted => n.snapshot \in Snapshot
    PROVE  sync' \in [Request -> InHandler] /\ Stages'
BY DEF Types, Stages

LEMMA StepTypes == ASSUME Types, Stages, [Next]_vars PROVE Types' /\ Stages'
<1> USE DEF Types, Stages
<1>1. ASSUME NEW e \in Endpoint, NEW p \in Request, Hit(p, e)
      PROVE  Types' /\ Stages'
  BY <1>1 DEF Hit, Usable, authority, barrier, bounds, Entry
<1>2. ASSUME NEW e \in Endpoint, NEW p \in Request, NEW quiet \in BOOLEAN, Miss(p, e, quiet)
      PROVE  Types' /\ Stages'
  <2>1. entries' \in [Endpoint -> Entry \cup {None}]
    BY <1>2 DEF Miss, Checkpoint, Without, cache
  <2>2. sync' = [sync EXCEPT ![p].at = "endpoint", ![p].endpoint = e, ![p].last = agent[e]]
        /\ UNCHANGED <<release, policy, fleet, generation, unstable, agent, clock>>
    BY <1>2 DEF Miss, authority, barrier, bounds
  <2> DEFINE n == [sync[p] EXCEPT !.at = "endpoint", !.endpoint = e, !.last = agent[e]]
  <2>3. n \in InHandler /\ n.at = "endpoint" /\ n.endpoint = e
    BY DEF InHandler
  <2>4. sync' = [sync EXCEPT ![p] = n]
    BY <2>2
  <2>5. sync' \in [Request -> InHandler] /\ Stages'
    <3> HIDE DEF n
    <3> QED
      BY <2>3, <2>4, RequestMoves DEF Noted
  <2> QED
    BY <2>1, <2>2, <2>5
<1>3. ASSUME NEW p \in Request, ReadEndpoint(p)
      PROVE  Types' /\ Stages'
  <2> DEFINE n == [sync[p] EXCEPT !.at = "snapshot", !.fleet = fleet[sync[p].endpoint]]
  <2>1. sync' = [sync EXCEPT ![p] = n] /\ UNCHANGED <<authority, cache, barrier, agents, bounds>>
    BY <1>3 DEF ReadEndpoint
  <2>2. sync[p] \in InHandler /\ sync[p].endpoint \in Endpoint
    BY <1>3 DEF ReadEndpoint
  <2>3. n \in InHandler /\ n.at = "snapshot" /\ n.endpoint \in Endpoint /\ n.fleet \in Fleet
    BY <2>2 DEF InHandler
  <2>4. sync' \in [Request -> InHandler] /\ Stages'
    <3> HIDE DEF n
    <3> QED
      BY <2>1, <2>3, RequestMoves DEF Noted
  <2> QED
    BY <2>1, <2>4 DEF authority, cache, barrier, agents, bounds
<1>4. ASSUME NEW p \in Request, TakeSnapshot(p)
      PROVE  Types' /\ Stages'
  <2> DEFINE e == sync[p].endpoint
             s == SnapshotOf(e, sync[p].fleet)
             n == [sync[p] EXCEPT !.at = IF e \in Owing THEN "persist" ELSE "resolve",
                                  !.snapshot = s]
  <2>1. sync' = [sync EXCEPT ![p] = n] /\ UNCHANGED <<authority, cache, barrier, agents, bounds>>
    BY <1>4 DEF TakeSnapshot
  <2>2. sync[p] \in InHandler /\ e \in Endpoint /\ sync[p].fleet \in Fleet
    BY <1>4 DEF TakeSnapshot
  <2>3. s \in Snapshot
    BY <2>2, SnapshotType
  <2>4. n \in InHandler /\ n.endpoint \in Endpoint /\ n.fleet \in Fleet /\ n.snapshot \in Snapshot
    <3> HIDE DEF s
    <3> QED
      BY <2>2, <2>3 DEF InHandler
  <2>5. sync' \in [Request -> InHandler] /\ Stages'
    <3> HIDE DEF n
    <3> QED
      BY <2>1, <2>4, RequestMoves
  <2> QED
    BY <2>1, <2>5 DEF authority, cache, barrier, agents, bounds
<1>5. ASSUME NEW p \in Request, PersistCheckpoint(p)
      PROVE  Types' /\ Stages'
  <2>1. CASE sync' = [sync EXCEPT ![p].at = "complete"]
    <3> DEFINE n == [sync[p] EXCEPT !.at = "complete"]
    <3>1. sync' = [sync EXCEPT ![p] = n] /\ sync[p] \in InHandler /\ sync[p].at = "persist"
      BY <1>5, <2>1 DEF PersistCheckpoint
    <3>2. /\ n \in InHandler /\ n.endpoint \in Endpoint /\ n.fleet \in Fleet
          /\ n.snapshot \in Snapshot
      BY <3>1 DEF InHandler, Noted
    <3> HIDE DEF n
    <3> QED
      BY <1>5, <3>1, <3>2, RequestMoves DEF PersistCheckpoint, authority, cache, barrier
  <2>2. CASE sync' = [sync EXCEPT ![p] = Idle]
    <3>1. Idle \in InHandler /\ Idle.at = "idle"
      BY DEF Idle, InHandler
    <3> QED
      BY <1>5, <2>2, <3>1, RequestMoves DEF PersistCheckpoint, authority, cache, barrier, Noted
  <2> QED
    BY <1>5, <2>1, <2>2 DEF PersistCheckpoint
<1>6. ASSUME NEW p \in Request, CompleteCheckpoint(p)
      PROVE  Types' /\ Stages'
  BY <1>6 DEF CompleteCheckpoint, authority, barrier, agents, bounds, InHandler, Noted
<1>7. ASSUME NEW p \in Request, Resolve(p)
      PROVE  Types' /\ Stages'
  <2> DEFINE n == [sync[p] EXCEPT !.at = "answer", !.release = release,
                                  !.policy = policy[sync[p].fleet]]
  <2>1. sync' = [sync EXCEPT ![p] = n] /\ UNCHANGED <<authority, cache, barrier, agents, bounds>>
    BY <1>7 DEF Resolve
  <2>2. /\ sync[p] \in InHandler /\ sync[p].endpoint \in Endpoint
        /\ sync[p].fleet \in Fleet /\ sync[p].snapshot \in Snapshot
    BY <1>7 DEF Resolve, Noted
  <2>3. n \in InHandler /\ n.endpoint \in Endpoint /\ n.fleet \in Fleet /\ n.snapshot \in Snapshot
    BY <2>2 DEF InHandler
  <2>4. sync' \in [Request -> InHandler] /\ Stages'
    <3> HIDE DEF n
    <3> QED
      BY <2>1, <2>3, RequestMoves
  <2> QED
    BY <2>1, <2>4 DEF authority, cache, barrier, agents, bounds
<1>8. ASSUME NEW p \in Request, Reply(p)
      PROVE  Types' /\ Stages'
  <2>1. AnswerOf(p) \in Answer
    BY <1>8 DEF Reply, AnswerOf, Answer, InHandler
  <2>2. sync' = [sync EXCEPT ![p] = Idle]
        /\ UNCHANGED <<release, policy, fleet, generation, unstable, clock>>
    BY <1>8 DEF Reply, authority, barrier, bounds
  <2>3. agent' \in [Endpoint -> Answer]
    BY <1>8, <2>1 DEF Reply, agents
  <2>4. entries' \in [Endpoint -> Entry \cup {None}]
    <3>1. CASE UNCHANGED cache
      BY <3>1 DEF cache
    <3>2. CASE Put(p)
      <4>1. sync[p].at = "answer" /\ sync[p].snapshot \in Snapshot
        BY <1>8 DEF Reply, Noted
      <4>2. ASSUME NEW e \in Endpoint PROVE entries'[e] \in Entry \cup {None}
        <5>1. [answer |-> AnswerOf(p), snapshot |-> sync[p].snapshot, start |-> clock] \in Entry
          BY <2>1, <4>1 DEF Entry
        <5>2. \/ entries'[e] \in {None, entries[e]}
              \/ entries'[e] = [answer |-> AnswerOf(p), snapshot |-> sync[p].snapshot,
                                start |-> clock]
          BY <1>8, <3>2, PutEntries DEF Reply
        <5> QED
          BY <5>1, <5>2
      <4>3. entries' = [x \in Endpoint |-> entries'[x]]
        BY <3>2 DEF Put, cache
      <4> QED
        BY <4>2, <4>3
    <3> QED
      BY <1>8, <3>1, <3>2 DEF Reply
  <2> QED
    BY <2>2, <2>3, <2>4, ConstantsAssumption DEF InHandler, Idle, Noted
<1>9. ASSUME NEW e \in Endpoint, GiveUp(e)
      PROVE  Types' /\ Stages'
  BY <1>9 DEF GiveUp, authority, cache, barrier
<1>10. ASSUME NEW k \in Scope, BeginMutation(k)
       PROVE  Types' /\ Stages'
  BY <1>10 DEF BeginMutation, Without, authority, agents
<1>11. ASSUME NEW k \in Scope, CompleteMutation(k)
       PROVE  Types' /\ Stages'
  BY <1>11 DEF CompleteMutation, authority, cache, agents, bounds
<1>12. CASE Advance
  BY <1>12 DEF Advance, cache, barrier, agents, bounds
<1>13. ASSUME NEW f \in Fleet, SetPolicy(f)
       PROVE  Types' /\ Stages'
  BY <1>13 DEF SetPolicy, cache, barrier, agents, bounds
<1>14. ASSUME NEW e \in Endpoint, NEW f \in Fleet, Reassign(e, f)
       PROVE  Types' /\ Stages'
  BY <1>14 DEF Reassign, cache, barrier, agents, bounds
<1>15. CASE Restart
  BY <1>15 DEF Restart, authority, Empty, Quiet, InHandler, Idle, Noted
<1>16. CASE Tick
  BY <1>16 DEF Tick, authority, cache, barrier, agents
<1>17. CASE UNCHANGED vars
  BY <1>17 DEF vars, authority, cache, barrier, agents, bounds
<1> QED
  BY <1>1, <1>2, <1>3, <1>4, <1>5, <1>6, <1>7, <1>8, <1>9, <1>10, <1>11, <1>12, <1>13,
     <1>14, <1>15, <1>16, <1>17 DEF Next, Poll, QuietPoll, Handle, Mutate

-----------------------------------------------------------------------------
\* Every step keeps entries sound.

\* But for a restart, that is a step of database and barrier.
LEMMA StepIsBarrierStep == ASSUME [Next]_vars, ~Restart PROVE BarrierStep
<1>1. ASSUME NEW e \in Endpoint, Poll(e) \/ GiveUp(e)
      PROVE  UNCHANGED <<authority, barrier>>
  BY <1>1 DEF Poll, QuietPoll, Hit, Miss, GiveUp
<1>2. ASSUME NEW p \in Request, Handle(p)
      PROVE  UNCHANGED <<authority, barrier>>
  BY <1>2 DEF Handle, ReadEndpoint, TakeSnapshot, PersistCheckpoint, CompleteCheckpoint,
              Resolve, Reply
<1>3. CASE Mutate
  BY <1>3 DEF Mutate, BarrierStep
<1>4. CASE Tick \/ UNCHANGED vars
  BY <1>4 DEF Tick, vars, BarrierStep
<1> QED
  BY <1>1, <1>2, <1>3, <1>4 DEF Next, BarrierStep

LEMMA StepEntries ==
    ASSUME Types, Stages, EntriesSound, RequestsSound, [Next]_vars
    PROVE  EntriesSound'
<1> SUFFICES ASSUME NEW e \in Endpoint PROVE EntrySound(e)'
  BY DEF EntriesSound
<1>1. ASSUME NEW p \in Request, Reply(p) PROVE EntrySound(e)'
  <2>1. BarrierStep /\ (UNCHANGED cache \/ Put(p)) /\ UNCHANGED <<authority, barrier>>
    BY <1>1 DEF Reply, BarrierStep
  <2>2. CASE entries'[e] \in {None, entries[e]}
    BY <2>1, <2>2, EntryStaysSound
  <2>3. CASE entries'[e] \notin {None, entries[e]}
    <3>1. /\ e = sync[p].endpoint
          /\ entries'[e] = [answer |-> AnswerOf(p), snapshot |-> sync[p].snapshot,
                            start |-> clock]
      BY <1>1, <2>1, <2>3, PutEntries DEF Reply, cache
    <3>2. RequestSound(p) /\ sync[p].at = "answer" /\ sync[p].fleet \in Fleet
      BY <1>1 DEF Reply, RequestsSound, Stages
    <3>3. /\ FreshSnapshot(e, sync[p].fleet, sync[p].snapshot)
          /\ Says(e, sync[p].fleet, sync[p].snapshot, sync[p].release, sync[p].policy)
      BY <3>1, <3>2 DEF RequestSound, Noted
    <3>4. /\ entries'[e].answer.fleet = sync[p].fleet /\ entries'[e].snapshot = sync[p].snapshot
          /\ entries'[e].answer.release = sync[p].release
          /\ entries'[e].answer.policy = sync[p].policy
      BY <3>1 DEF AnswerOf
    <3>5. UNCHANGED <<release, policy, generation, unstable>>
      BY <2>1 DEF authority, barrier
    <3> QED
      BY <3>3, <3>4, <3>5
         DEF EntrySound, FreshSnapshot, Fresh, Says, AuthorityCurrent, SnapshotOf
  <2> QED
    BY <2>2, <2>3
<1>2. CASE Restart
  BY <1>2 DEF Restart, Empty, EntrySound
<1>3. CASE ~Restart /\ \A p \in Request : ~Reply(p)
  <2>1. ASSUME NEW x \in Endpoint, Poll(x) \/ GiveUp(x)
        PROVE  entries'[e] \in {None, entries[e]}
    BY <2>1 DEF Poll, QuietPoll, Hit, Miss, Checkpoint, GiveUp, Without, cache, Types
  <2>2. ASSUME NEW k \in Scope, BeginMutation(k)
        PROVE  entries'[e] \in {None, entries[e]}
    BY <2>2 DEF BeginMutation, Without, Types
  <2>3. ASSUME NEW p \in Request, Handle(p)
        PROVE  UNCHANGED entries
    BY <1>3, <2>3 DEF Handle, ReadEndpoint, TakeSnapshot, PersistCheckpoint, CompleteCheckpoint,
                      Resolve, cache
  <2>4. entries'[e] \in {None, entries[e]}
    BY <1>3, <2>1, <2>2, <2>3
       DEF Next, Mutate, CompleteMutation, Advance, SetPolicy, Reassign, Tick, vars, cache
  <2>5. BarrierStep
    BY <1>3, StepIsBarrierStep
  <2> QED
    BY <2>4, <2>5, EntryStaysSound
<1> QED
  BY <1>1, <1>2, <1>3

\* Every step keeps requests sound.
LEMMA StepRequests ==
    ASSUME Types, Stages, RequestsSound, [Next]_vars
    PROVE  RequestsSound'
<1> SUFFICES ASSUME NEW p \in Request PROVE RequestSound(p)'
  BY DEF RequestsSound
<1> DEFINE Advances == \/ TakeSnapshot(p) \/ PersistCheckpoint(p) \/ CompleteCheckpoint(p)
                       \/ Resolve(p)
           Enters == ReadEndpoint(p) \/ sync'[p].at = "endpoint"
<1>1. CASE TakeSnapshot(p)
  <2>1. /\ sync'[p].at \in {"persist", "resolve"}
        /\ sync[p].endpoint \in Endpoint /\ sync[p].fleet \in Fleet
        /\ sync'[p].endpoint = sync[p].endpoint /\ sync'[p].fleet = sync[p].fleet
        /\ sync'[p].snapshot = SnapshotOf(sync[p].endpoint, sync[p].fleet)
        /\ UNCHANGED <<authority, barrier>>
    BY <1>1 DEF TakeSnapshot, Types, Stages, InHandler
  <2>2. FreshSnapshot(sync[p].endpoint, sync[p].fleet, SnapshotOf(sync[p].endpoint, sync[p].fleet))
    BY <2>1, NotedIsFresh
  <2> QED
    BY <2>1, <2>2 DEF RequestSound, FreshSnapshot, Fresh, SnapshotOf, barrier
<1>2. CASE PersistCheckpoint(p) \/ CompleteCheckpoint(p)
  <2>1. \/ sync'[p] = Idle
        \/ /\ sync[p].at \in Noted /\ sync'[p].at \in {"complete", "resolve"}
           /\ sync'[p].endpoint = sync[p].endpoint /\ sync'[p].fleet = sync[p].fleet
           /\ sync'[p].snapshot = sync[p].snapshot
    BY <1>2 DEF PersistCheckpoint, CompleteCheckpoint, Types, InHandler, Noted
  <2>2. UNCHANGED <<authority, barrier>>
    BY <1>2 DEF PersistCheckpoint, CompleteCheckpoint
  <2> QED
    BY <2>1, <2>2 DEF RequestsSound, RequestSound, FreshSnapshot, Fresh, barrier, Idle, Noted
<1>3. CASE Resolve(p)
  <2>1. /\ sync[p].at \in Noted /\ sync'[p].at = "answer"
        /\ sync'[p].endpoint = sync[p].endpoint /\ sync'[p].fleet = sync[p].fleet
        /\ sync'[p].snapshot = sync[p].snapshot
        /\ sync'[p].release = release /\ sync'[p].policy = policy[sync[p].fleet]
        /\ UNCHANGED <<authority, barrier>>
    BY <1>3 DEF Resolve, Types, InHandler, Noted
  <2> QED
    BY <2>1 DEF RequestsSound, RequestSound, FreshSnapshot, Fresh, Says, authority, barrier
<1>4. CASE Enters
  <2>1. sync'[p].at \in {"endpoint", "snapshot"}
    BY <1>4 DEF ReadEndpoint, Types, InHandler
  <2> QED
    BY <2>1 DEF RequestSound, Noted
<1>5. CASE Restart
  BY <1>5 DEF Restart, RequestSound, Idle, Noted
<1>6. CASE ~Advances /\ ~Enters /\ ~Restart
  <2>1. BarrierStep
    BY <1>6, StepIsBarrierStep
  <2>2. ASSUME NEW e \in Endpoint, Poll(e) \/ GiveUp(e)
        PROVE  sync'[p] = sync[p]
    <3>1. ASSUME NEW q \in Request, NEW quiet, Miss(q, e, quiet)
          PROVE  sync'[p] = sync[p]
      <4>1. sync' = [sync EXCEPT ![q].at = "endpoint", ![q].endpoint = e, ![q].last = agent[e]]
        BY <3>1 DEF Miss
      <4>2. q # p
        BY <1>6, <4>1 DEF Types, InHandler
      <4> QED
        BY <4>1, <4>2 DEF Types
    <3> QED
      BY <2>2, <3>1 DEF Poll, QuietPoll, Hit, GiveUp
  <2>3. ASSUME NEW q \in Request, Handle(q)
        PROVE  sync'[p] \in {Idle, sync[p]}
    <3>1. CASE q = p
      BY <1>6, <2>3, <3>1 DEF Handle, Reply, Types
    <3>2. CASE q # p
      BY <2>3, <3>2 DEF Handle, ReadEndpoint, TakeSnapshot, PersistCheckpoint,
                        CompleteCheckpoint, Resolve, Reply, Types
    <3> QED
      BY <3>1, <3>2
  <2>4. Mutate \/ Tick \/ UNCHANGED vars => UNCHANGED sync
    BY DEF Mutate, BeginMutation, CompleteMutation, Advance, SetPolicy, Reassign, Tick, vars
  <2>5. sync'[p] \in {Idle, sync[p]}
    BY <1>6, <2>2, <2>3, <2>4 DEF Next
  <2> QED
    BY <2>1, <2>5, RequestStaysSound
<1> QED
  BY <1>1, <1>2, <1>3, <1>4, <1>5, <1>6

LEMMA SoundInvariant == Spec => []Sound
<1>1. Init => Sound
  <2> SUFFICES ASSUME Init PROVE Sound
    OBVIOUS
  <2>1. Types /\ Stages
    BY InitTypes
  <2>2. EntriesSound /\ RequestsSound
    BY DEF Init, EntriesSound, RequestsSound, EntrySound, RequestSound, Empty, Idle, Noted
  <2> QED
    BY <2>1, <2>2 DEF Sound
<1>2. Sound /\ [Next]_vars => Sound'
  BY StepTypes, StepEntries, StepRequests DEF Sound
<1> QED
  BY <1>1, <1>2, PTL DEF Spec

\* An entry that a lookup would use says what the database says (getWithCheckpoint,
\* internal/server/unchanged_sync_cache.go:235).
THEOREM CacheCorrect == Spec => []ServedIsAuthorized
<1>1. Sound => ServedIsAuthorized
  BY DEF Sound, EntriesSound, EntrySound, Says, ServedIsAuthorized, Served
<1> QED
  BY <1>1, SoundInvariant, PTL

-----------------------------------------------------------------------------
(***************************************************************************)
(* What Remaining leaves.  The library's induction over the naturals as it *)
(* can be used here: the least element a set of naturals lacks.            *)
(***************************************************************************)
\* A set of naturals with 0, and with the successor of each of its elements, has all.
LEMMA Induction ==
    ASSUME NEW T \in SUBSET Nat, 0 \in T, \A n \in T : n + 1 \in T
    PROVE  \A n \in Nat : n \in T
<1> SUFFICES ASSUME Nat \ T # {}
             PROVE  FALSE
  OBVIOUS
<1>1. PICK n \in Nat \ T : \A m \in Nat \ T : ~(m < n)
  <2>1. IsWellFoundedOn(OpToRel(<, Nat), Nat)
    BY NatLessThanWellFounded, Zenon
  <2>2. PICK n \in Nat \ T : \A m \in Nat \ T : <<m, n>> \notin OpToRel(<, Nat)
    <3> Nat \ T \subseteq Nat
      OBVIOUS
    <3> QED
      BY <2>1, WFMin, Zenon
  <2>3. \A m \in Nat \ T : <<m, n>> \in Nat \X Nat
    OBVIOUS
  <2> QED
    BY <2>2, <2>3 DEF OpToRel
<1>2. n \in Nat /\ n # 0 /\ n - 1 \in Nat /\ n - 1 < n /\ (n - 1) + 1 = n
  BY <1>1
<1> QED
  BY <1>1, <1>2

KeptStep(g, i, s, drop) ==
    IF i = 0 THEN <<>>
    ELSE IF s[i] \in drop THEN g[i - 1] ELSE Append(g[i - 1], s[i])

LEMMA KeptExists ==
    ASSUME NEW s, NEW drop
    PROVE  \A n \in Nat : \E g : g = [i \in 0..n |-> KeptStep(g, i, s, drop)]
<1> DEFINE D(n) == \E g : g = [i \in 0..n |-> KeptStep(g, i, s, drop)]
           T == {n \in Nat : D(n)}
<1>1. 0 \in T
  <2> DEFINE g == [i \in {0} |-> <<>>]
  <2>1. 0..0 = {0}
    OBVIOUS
  <2>2. g = [i \in 0..0 |-> KeptStep(g, i, s, drop)]
    BY <2>1 DEF KeptStep
  <2> QED
    BY <2>2
<1>2. ASSUME NEW n \in T
      PROVE  n + 1 \in T
  <2>1. PICK g : g = [i \in 0..n |-> KeptStep(g, i, s, drop)]
    OBVIOUS
  <2> DEFINE last == KeptStep(g, n + 1, s, drop)
             h == [i \in 0..(n + 1) |-> IF i = n + 1 THEN last ELSE g[i]]
  <2>2. ASSUME NEW i \in 0..(n + 1)
        PROVE  h[i] = KeptStep(h, i, s, drop)
    <3>1. CASE i = n + 1
      <4>1. i # 0 /\ i - 1 = n /\ n \in 0..(n + 1) /\ n # n + 1
        BY <3>1
      <4>2. h[n] = g[n] /\ h[i] = last
        BY <3>1, <4>1
      <4> QED
        BY <3>1, <4>1, <4>2 DEF KeptStep
    <3>2. CASE i = 0
      <4>1. 0 \in 0..n /\ n + 1 # 0
        OBVIOUS
      <4>2. h[i] = g[0] /\ g[0] = KeptStep(g, 0, s, drop)
        BY <2>1, <3>2, <4>1
      <4> QED
        BY <3>2, <4>2 DEF KeptStep
    <3>3. CASE i # 0 /\ i # n + 1
      <4>1. i \in 0..n /\ i - 1 \in 0..n /\ i - 1 # n + 1
        BY <3>3
      <4>2. h[i] = g[i] /\ h[i - 1] = g[i - 1]
        BY <3>3, <4>1
      <4>3. g[i] = KeptStep(g, i, s, drop)
        BY <2>1, <4>1
      <4> QED
        BY <3>3, <4>2, <4>3 DEF KeptStep
    <3> QED
      BY <3>1, <3>2, <3>3
  <2>3. h = [i \in 0..(n + 1) |-> h[i]]
    OBVIOUS
  <2>4. h = [i \in 0..(n + 1) |-> KeptStep(h, i, s, drop)]
    <3> HIDE DEF h
    <3> QED
      BY <2>2, <2>3
  <2>5. D(n + 1)
    <3> HIDE DEF h
    <3> QED
      BY <2>4
  <2> HIDE DEF D
  <2> QED
    BY <2>5
<1>3. T \in SUBSET Nat
  OBVIOUS
<1>4. \A n \in Nat : n \in T
  <2> HIDE DEF T
  <2> QED
    BY <1>1, <1>2, <1>3, Induction
<1>5. \A n \in Nat : D(n)
  <2> HIDE DEF D
  <2> QED
    BY <1>4
<1> QED
  BY <1>5

LEMMA KeptIs ==
    ASSUME NEW s, NEW drop, Len(s) \in Nat
    PROVE  \E g : /\ g = [i \in 0..Len(s) |-> KeptStep(g, i, s, drop)]
                  /\ Remaining(s, drop) = g[Len(s)]
<1> DEFINE K(g) == g = [i \in 0..Len(s) |-> KeptStep(g, i, s, drop)]
           k == CHOOSE g : K(g)
<1>1. K(k)
  BY KeptExists
<1>2. Remaining(s, drop) = k[Len(s)]
  BY DEF Remaining, KeptStep
<1> QED
  BY <1>1, <1>2

-----------------------------------------------------------------------------
(***************************************************************************)
(* The order of use, as a sequence without repetitions.                    *)
(***************************************************************************)
Elements(s) == {s[i] : i \in DOMAIN s}
Once(s) == \A i, j \in DOMAIN s : s[i] = s[j] => i = j

LEMMA NoElements == <<>> \in Seq(Endpoint) /\ Once(<<>>) /\ Elements(<<>>) = {}
  BY DEF Once, Elements

LEMMA AppendOnce ==
    ASSUME NEW E, NEW s \in Seq(E), NEW x \in E, Once(s), x \notin Elements(s)
    PROVE  /\ Append(s, x) \in Seq(E) /\ Once(Append(s, x))
           /\ Elements(Append(s, x)) = Elements(s) \cup {x}
<1> DEFINE n == Len(s)
           t == Append(s, x)
<1>1. n \in Nat /\ DOMAIN s = 1..n /\ n + 1 \in 1..(n + 1)
  BY LenProperties
<1>2. /\ t \in Seq(E) /\ DOMAIN t = 1..(n + 1)
      /\ t[n + 1] = x /\ \A i \in 1..n : t[i] = s[i]
  BY AppendProperties, LenProperties
<1> HIDE DEF t, n
<1>3. \A i \in 1..(n + 1) : i = n + 1 \/ i \in 1..n
  BY <1>1
<1>4. Elements(t) = Elements(s) \cup {x}
  <2>1. 1..n \subseteq 1..(n + 1)
    BY <1>1
  <2> QED
    BY <1>1, <1>2, <1>3, <2>1 DEF Elements
<1>5. \A i \in 1..n : s[i] # x
  BY <1>1 DEF Elements
<1>6. Once(t)
  BY <1>1, <1>2, <1>3, <1>5 DEF Once
<1> QED
  BY <1>2, <1>4, <1>6 DEF t

\* What is left is what was not dropped, each once.
LEMMA RemainingIs ==
    ASSUME NEW E, NEW s \in Seq(E), NEW drop, Once(s)
    PROVE  /\ Remaining(s, drop) \in Seq(E) /\ Once(Remaining(s, drop))
           /\ Elements(Remaining(s, drop)) = Elements(s) \ drop
<1> DEFINE n == Len(s)
           First(i) == {s[j] : j \in 1..i}
<1>1. n \in Nat /\ DOMAIN s = 1..n /\ \A i \in 1..n : s[i] \in E
  BY LenProperties, ElementOfSeq
<1>2. PICK g : /\ g = [i \in 0..n |-> KeptStep(g, i, s, drop)]
               /\ Remaining(s, drop) = g[n]
  BY <1>1, KeptIs
<1> DEFINE D(i) == i <= n => /\ g[i] \in Seq(E) /\ Once(g[i])
                             /\ Elements(g[i]) = First(i) \ drop
           T == {i \in Nat : D(i)}
<1>3. D(0)
  <2>1. g[0] = <<>> /\ First(0) = {}
    BY <1>1, <1>2 DEF KeptStep
  <2>2. <<>> \in Seq(E) /\ Once(<<>>) /\ Elements(<<>>) = {}
    BY DEF Once, Elements
  <2> QED
    BY <2>1, <2>2
<1>4. ASSUME NEW i \in Nat, D(i)
      PROVE  D(i + 1)
  <2> SUFFICES ASSUME i + 1 <= n
               PROVE  /\ g[i + 1] \in Seq(E) /\ Once(g[i + 1])
                      /\ Elements(g[i + 1]) = First(i + 1) \ drop
    OBVIOUS
  <2>1. /\ i <= n /\ i + 1 \in 0..n /\ i + 1 \in 1..n /\ i + 1 # 0 /\ (i + 1) - 1 = i
        /\ 1..(i + 1) = 1..i \cup {i + 1} /\ i + 1 \notin 1..i /\ 1..i \subseteq 1..n
    BY <1>1
  <2>2. g[i + 1] = IF s[i + 1] \in drop THEN g[i] ELSE Append(g[i], s[i + 1])
    BY <1>2, <2>1 DEF KeptStep
  <2>3. g[i] \in Seq(E) /\ Once(g[i]) /\ Elements(g[i]) = First(i) \ drop
    BY <1>4, <2>1
  <2>4. First(i + 1) = First(i) \cup {s[i + 1]}
    BY <2>1
  <2>5. s[i + 1] \notin First(i)
    BY <1>1, <2>1 DEF Once
  <2> HIDE DEF First
  <2>6. CASE s[i + 1] \in drop
    BY <2>2, <2>3, <2>4, <2>6
  <2>7. CASE s[i + 1] \notin drop
    <3>1. s[i + 1] \in E /\ s[i + 1] \notin Elements(g[i])
      BY <1>1, <2>1, <2>3, <2>5
    <3>2. /\ Append(g[i], s[i + 1]) \in Seq(E) /\ Once(Append(g[i], s[i + 1]))
          /\ Elements(Append(g[i], s[i + 1])) = Elements(g[i]) \cup {s[i + 1]}
      BY <2>3, <3>1, AppendOnce
    <3> QED
      BY <2>2, <2>3, <2>4, <2>7, <3>2
  <2> QED
    BY <2>6, <2>7
<1>5. T \in SUBSET Nat /\ 0 \in T /\ \A i \in T : i + 1 \in T
  <2> HIDE DEF D
  <2> QED
    BY <1>3, <1>4
<1>6. n \in T
  <2> HIDE DEF T
  <2> QED
    BY <1>1, <1>5, Induction
<1>7. g[n] \in Seq(E) /\ Once(g[n]) /\ Elements(g[n]) = First(n) \ drop
  BY <1>1, <1>6
<1>8. First(n) = Elements(s)
  BY <1>1 DEF Elements
<1> QED
  BY <1>2, <1>7, <1>8

\* The last ones of the order.
LEMMA LastOnes ==
    ASSUME NEW E, NEW s \in Seq(E), Once(s), NEW k \in Nat, k <= Len(s)
    PROVE  LET t == SubSeq(s, Len(s) - k + 1, Len(s)) IN
           /\ t \in Seq(E) /\ Len(t) = k /\ Once(t) /\ Elements(t) \subseteq Elements(s)
<1> DEFINE n == Len(s)
           m == n - k + 1
           t == SubSeq(s, m, n)
<1>1. n \in Nat /\ DOMAIN s = 1..n /\ m \in 1..(n + 1) /\ n - m + 1 = k
  BY LenProperties
<1>2. /\ t \in Seq(E) /\ Len(t) = k /\ DOMAIN t = 1..k
      /\ \A i \in 1..k : t[i] = s[m + i - 1] /\ m + i - 1 \in 1..n
  BY <1>1, SubSeqProperties, LenProperties
<1> HIDE DEF t, m, n
<1>3. Elements(t) \subseteq Elements(s)
  BY <1>1, <1>2 DEF Elements
<1>4. ASSUME NEW i \in 1..k, NEW j \in 1..k, t[i] = t[j]
      PROVE  i = j
  <2>1. \A a, b \in 1..n : s[a] = s[b] => a = b
    BY <1>1 DEF Once
  <2>2. m + i - 1 \in 1..n /\ m + j - 1 \in 1..n /\ s[m + i - 1] = s[m + j - 1]
    BY <1>2, <1>4
  <2>3. m + i - 1 = m + j - 1
    BY <2>1, <2>2
  <2> QED
    BY <1>1, <2>3
<1>5. Once(t)
  BY <1>2, <1>4 DEF Once
<1> QED
  BY <1>2, <1>3, <1>5 DEF t, m, n

LEMMA OnceCounts ==
    ASSUME NEW E, NEW s \in Seq(E), Once(s)
    PROVE  IsFiniteSet(Elements(s)) /\ Cardinality(Elements(s)) = Len(s)
<1>1. Len(s) \in Nat /\ DOMAIN s = 1..Len(s) /\ s \in [1..Len(s) -> Elements(s)]
  BY LenProperties DEF Elements
<1>2. s \in Bijection(1..Len(s), Elements(s))
  BY <1>1 DEF Bijection, Injection, IsInjective, Surjection, Once, Elements
<1>3. ExistsBijection(1..Len(s), Elements(s))
  BY <1>2 DEF ExistsBijection
<1>4. IsFiniteSet(1..Len(s)) /\ Cardinality(1..Len(s)) = Len(s)
  BY <1>1, FS_Interval
<1> QED
  BY <1>3, <1>4, FS_Bijection


-----------------------------------------------------------------------------
(***************************************************************************)
(* The order of use lists what is cached, each endpoint once; what is owed *)
(* is not cached; both fit in the cache.                                   *)
(***************************************************************************)
OthersTyped ==
    /\ owed \in [Endpoint -> Fleet \cup {None}]
    /\ waiting \in [Endpoint -> Request \cup {None}]
    /\ mutations \in Nat /\ faults \in Nat

Ordered == recent \in Seq(Endpoint) /\ Once(recent) /\ Elements(recent) = Cached
Bounded == IsFiniteSet(Owing) /\ CacheIsBounded
Shape == OthersTyped /\ Ordered /\ OwedKeepsOut /\ Bounded

LEMMA CachedIsFinite ==
    ASSUME Ordered
    PROVE  IsFiniteSet(Cached) /\ Cardinality(Cached) = Len(recent)
                               /\ Cardinality(Cached) \in Nat
  BY OnceCounts, LenProperties DEF Ordered

LEMMA Drops ==
    ASSUME Types, Ordered, NEW drop, entries' = Without(entries, drop), recent' = Dropped(drop)
    PROVE  Ordered' /\ Cached' = Cached \ drop
<1>1. Cached' = Cached \ drop
  BY DEF Types, Cached, Without
<1>2. /\ Dropped(drop) \in Seq(Endpoint) /\ Once(Dropped(drop))
      /\ Elements(Dropped(drop)) = Elements(recent) \ drop
  BY RemainingIs DEF Dropped, Ordered
<1> QED
  BY <1>1, <1>2 DEF Ordered

\* Fewer entries and fewer owed checkpoints fit as well.
LEMMA FitsStill ==
    ASSUME Ordered, Bounded, Cached' \subseteq Cached, Owing' \subseteq Owing
    PROVE  Bounded'
<1>1. /\ IsFiniteSet(Cached') /\ Cardinality(Cached') <= Cardinality(Cached)
      /\ IsFiniteSet(Owing') /\ Cardinality(Owing') <= Cardinality(Owing)
  BY CachedIsFinite, FS_Subset DEF Bounded
<1>2. /\ Cardinality(Cached) \in Nat /\ Cardinality(Owing) \in Nat
      /\ Cardinality(Cached') \in Nat /\ Cardinality(Owing') \in Nat /\ MaxEntries \in Nat
  BY <1>1, CachedIsFinite, FS_CardinalityType, ConstantsAssumption DEF Bounded
<1>3. Cardinality(Cached) + Cardinality(Owing) <= MaxEntries
  BY DEF Bounded, CacheIsBounded
<1>4. Cardinality(Cached') + Cardinality(Owing') <= MaxEntries
  BY <1>1, <1>2, <1>3
<1> QED
  BY <1>1, <1>4 DEF Bounded, CacheIsBounded

LEMMA OrderStands ==
    ASSUME Shape, UNCHANGED <<entries, recent>>
    PROVE  Ordered' /\ Cached' = Cached
  BY DEF Shape, Ordered, Cached

LEMMA CacheStands ==
    ASSUME Shape, UNCHANGED cache
    PROVE  Ordered' /\ OwedKeepsOut' /\ Bounded'
  BY DEF Shape, Ordered, Cached, OwedKeepsOut, Bounded, CacheIsBounded, Owing, cache

\* A hit makes its entry the latest.
LEMMA HitKeepsShape ==
    ASSUME Types, Shape, NEW e \in Endpoint, NEW p \in Request, Hit(p, e)
    PROVE  Shape'
<1>1. /\ entries[e] # None /\ recent' = Append(Dropped({e}), e) /\ UNCHANGED <<entries, owed>>
      /\ UNCHANGED <<waiting, mutations, faults>>
  BY DEF Hit, Usable, bounds
<1>2. /\ Dropped({e}) \in Seq(Endpoint) /\ Once(Dropped({e}))
      /\ Elements(Dropped({e})) = Cached \ {e}
  BY RemainingIs DEF Dropped, Shape, Ordered
<1>3. /\ recent' \in Seq(Endpoint) /\ Once(recent')
      /\ Elements(recent') = (Cached \ {e}) \cup {e}
  <2> DEFINE d == Dropped({e})
  <2>1. /\ recent' = Append(d, e) /\ d \in Seq(Endpoint) /\ Once(d)
        /\ Elements(d) = Cached \ {e} /\ e \notin Elements(d)
    BY <1>1, <1>2
  <2> HIDE DEF d
  <2> QED
    BY <2>1, AppendOnce
<1>4. e \in Cached /\ Cached' = Cached /\ Owing' = Owing
  BY <1>1 DEF Cached, Owing
<1>5. Ordered'
  BY <1>3, <1>4 DEF Ordered
<1>6. Bounded'
  BY <1>4, FitsStill DEF Shape
<1> QED
  BY <1>1, <1>5, <1>6 DEF Shape, OthersTyped, OwedKeepsOut, Owing

\* An entry whose checkpoint is due becomes an owed checkpoint.
LEMMA CheckpointKeepsShape ==
    ASSUME Types, Shape, NEW e \in Endpoint, entries[e] # None, Checkpoint(e)
    PROVE  owed' \in [Endpoint -> Fleet \cup {None}] /\ Ordered' /\ OwedKeepsOut' /\ Bounded'
<1>1. entries[e] \in Entry /\ entries[e].answer.fleet \in Fleet
  BY DEF Types, Entry, Answer
<1>2. owed' \in [Endpoint -> Fleet \cup {None}] /\ owed' = [owed EXCEPT ![e] = entries[e].answer.fleet]
  BY <1>1 DEF Checkpoint, Shape, OthersTyped
<1>3. Ordered' /\ Cached' = Cached \ {e}
  BY Drops DEF Checkpoint, Shape
<1>4. Owing' = Owing \cup {e}
  BY <1>1, <1>2, ConstantsAssumption DEF Owing, Shape, OthersTyped
<1>5. e \in Cached /\ e \notin Owing
  BY DEF Cached, Shape, OwedKeepsOut
<1>6. OwedKeepsOut'
  <2>1. Owing \subseteq Endpoint /\ \A x \in Owing : entries[x] = None
    BY DEF Owing, Shape, OwedKeepsOut
  <2>2. \A x \in Endpoint : entries'[x] = IF x = e THEN None ELSE entries[x]
    BY DEF Checkpoint, Without
  <2> QED
    BY <1>4, <2>1, <2>2 DEF OwedKeepsOut
<1>7. Bounded'
  <2>1. /\ IsFiniteSet(Cached) /\ IsFiniteSet(Owing)
        /\ Cardinality(Cached) \in Nat /\ Cardinality(Owing) \in Nat
    BY CachedIsFinite, FS_CardinalityType DEF Shape, Bounded
  <2>2. Cardinality(Cached') = Cardinality(Cached) - 1
    BY <1>3, <1>5, <2>1, FS_RemoveElement
  <2>3. IsFiniteSet(Owing') /\ Cardinality(Owing') = Cardinality(Owing) + 1
    BY <1>4, <1>5, <2>1, FS_AddElement
  <2> QED
    BY <2>1, <2>2, <2>3 DEF Shape, Bounded, CacheIsBounded
<1> QED
  BY <1>2, <1>3, <1>6, <1>7


\* Eviction keeps the latest entries and leaves a place for e.
LEMMA KeptOnes ==
    ASSUME Ordered, NEW e \in Endpoint, NEW places \in Nat
    PROVE  /\ Kept(e, places) \in Seq(Endpoint) /\ Once(Kept(e, places))
           /\ Len(Kept(e, places)) <= places
           /\ Elements(Kept(e, places)) \subseteq Cached \cup {e}
<1> DEFINE others == Dropped({e})
           keep == IF places - 1 < Len(others) THEN places - 1 ELSE Len(others)
           last == SubSeq(others, Len(others) - keep + 1, Len(others))
<1>1. others \in Seq(Endpoint) /\ Once(others) /\ Elements(others) = Cached \ {e}
  BY RemainingIs DEF Dropped, Ordered
<1>2. CASE places = 0
  <2> DEFINE t == Kept(e, places)
  <2>1. t = <<>>
    BY <1>2 DEF Kept
  <2> HIDE DEF t
  <2>2. t \in Seq(Endpoint) /\ Once(t) /\ Elements(t) = {}
    BY <2>1, NoElements
  <2>3. Len(t) = 0
    BY <2>1
  <2> QED
    BY <1>2, <2>2, <2>3 DEF t
<1>3. CASE places # 0
  <2>1. Kept(e, places) = Append(last, e)
    BY <1>3 DEF Kept
  <2> HIDE DEF others
  <2>2. keep \in Nat /\ keep <= Len(others) /\ keep + 1 <= places
    <3>1. Len(others) \in Nat /\ places - 1 \in Nat
      BY <1>1, <1>3, LenProperties
    <3> QED
      BY <3>1
  <2> HIDE DEF keep
  <2>3. /\ last \in Seq(Endpoint) /\ Len(last) = keep /\ Once(last)
        /\ Elements(last) \subseteq Elements(others)
    BY <1>1, <2>2, LastOnes
  <2> HIDE DEF last
  <2>4. /\ Append(last, e) \in Seq(Endpoint) /\ Once(Append(last, e))
        /\ Elements(Append(last, e)) = Elements(last) \cup {e}
    BY <1>1, <2>3, AppendOnce
  <2>5. Len(Append(last, e)) = keep + 1
    BY <2>3, AppendProperties
  <2> QED
    BY <1>1, <2>1, <2>2, <2>3, <2>4, <2>5
<1> QED
  BY <1>2, <1>3

LEMMA PutKeepsShape ==
    ASSUME Types, Stages, Shape, NEW p \in Request, sync[p].at = "answer", Put(p)
    PROVE  Ordered' /\ OwedKeepsOut' /\ Bounded' /\ owed' = owed
<1>1. CASE ~Fillable(p)
  BY <1>1, CacheStands DEF Put, cache
<1>2. CASE Fillable(p)
  <2> DEFINE e == sync[p].endpoint
             order == Kept(e, Places)
             new == [answer |-> AnswerOf(p), snapshot |-> sync[p].snapshot, start |-> clock]
  <2>1. /\ recent' = order /\ owed' = owed
        /\ entries' = [x \in Endpoint |-> IF x \notin Elements(order) THEN None
                                          ELSE IF x # e THEN entries[x] ELSE new]
    BY <1>2 DEF Put, Elements
  <2>2. e \in Endpoint /\ e \notin Owing
    BY <1>2 DEF Fillable, Stages
  <2>3. new \in Entry
    BY DEF Entry, Types, Stages, Noted, Answer, AnswerOf, InHandler
  <2>4. /\ Places \in Nat /\ Cardinality(Owing) \in Nat /\ IsFiniteSet(Owing)
        /\ Cardinality(Owing) <= MaxEntries /\ MaxEntries \in Nat
        /\ Places + Cardinality(Owing) = MaxEntries
    <3>1. /\ Cardinality(Owing) \in Nat /\ IsFiniteSet(Owing) /\ MaxEntries \in Nat
          /\ Cardinality(Cached) \in Nat
      BY CachedIsFinite, FS_CardinalityType, ConstantsAssumption DEF Shape, Bounded
    <3>2. Cardinality(Owing) <= MaxEntries
      BY <3>1 DEF Shape, Bounded, CacheIsBounded
    <3> QED
      BY <3>1, <3>2 DEF Places
  <2>5. /\ order \in Seq(Endpoint) /\ Once(order) /\ Len(order) <= Places
        /\ Elements(order) \subseteq Cached \cup {e}
    BY <2>2, <2>4, KeptOnes DEF Shape
  <2> HIDE DEF order, new, e
  <2>6. Elements(order) \subseteq Endpoint
    BY <2>2, <2>5 DEF Cached
  <2>7. \A x \in Endpoint : entries'[x] # None <=> x \in Elements(order)
    <3>1. \A x \in Cached : entries[x] # None
      BY DEF Cached
    <3> QED
      BY <2>1, <2>3, <2>5, <3>1, NoneIsAbsent
  <2>8. Cached' = Elements(order)
    BY <2>6, <2>7 DEF Cached
  <2>9. Ordered'
    BY <2>1, <2>5, <2>8 DEF Ordered
  <2>10. Owing' = Owing
    BY <2>1 DEF Owing
  <2>11. OwedKeepsOut'
    <3>1. \A x \in Owing : x \in Endpoint /\ x \notin Cached /\ x # e
      BY <2>2 DEF Owing, Cached, Shape, OwedKeepsOut
    <3>2. \A x \in Owing : entries'[x] = None
      BY <2>5, <2>7, <3>1
    <3> QED
      BY <2>10, <3>2 DEF OwedKeepsOut
  <2>12. Bounded'
    <3>1. Cardinality(Cached') = Len(order) /\ Len(order) \in Nat
      BY <2>5, <2>8, OnceCounts, LenProperties
    <3>2. Cardinality(Cached') + Cardinality(Owing') <= MaxEntries
      BY <2>4, <2>5, <2>10, <3>1
    <3> QED
      BY <2>4, <2>10, <3>2 DEF Bounded, CacheIsBounded
  <2> QED
    BY <2>1, <2>9, <2>11, <2>12
<1> QED
  BY <1>1, <1>2

LEMMA MutationKeepsShape ==
    ASSUME Types, Shape, NEW k \in Scope, BeginMutation(k)
    PROVE  Shape'
<1>1. Ordered' /\ Cached' = Cached \ EntriesOf(k)
  BY Drops DEF BeginMutation, Shape
<1>2. OthersTyped'
  BY DEF Shape, OthersTyped, BeginMutation, Without, agents
<1>3. Owing' \subseteq Owing
  BY DEF BeginMutation, Without, Owing
<1>4. OwedKeepsOut'
  <2>1. \A x \in Endpoint : entries[x] = None => entries'[x] = None
    BY DEF BeginMutation, Without
  <2>2. Owing' \subseteq Endpoint
    BY DEF Owing
  <2> QED
    BY <1>3, <2>1, <2>2 DEF Shape, OwedKeepsOut
<1> QED
  BY <1>1, <1>2, <1>3, <1>4, FitsStill DEF Shape

LEMMA CompleteKeepsShape ==
    ASSUME Types, Stages, Shape, NEW p \in Request, CompleteCheckpoint(p)
    PROVE  Shape'
<1>1. /\ owed' = [owed EXCEPT ![sync[p].endpoint] = None]
      /\ UNCHANGED <<entries, recent, waiting, mutations, faults>>
  BY DEF CompleteCheckpoint, agents, bounds
<1>2. OthersTyped' /\ Owing' \subseteq Owing
  BY <1>1 DEF Shape, OthersTyped, Owing
<1>3. Ordered' /\ Cached' = Cached
  BY <1>1, OrderStands
<1>4. OwedKeepsOut'
  BY <1>1, <1>2 DEF Shape, OwedKeepsOut
<1> QED
  BY <1>2, <1>3, <1>4, FitsStill DEF Shape

LEMMA EmptyShape ==
    ASSUME entries = Empty, owed = Empty, recent = <<>>
    PROVE  Ordered /\ OwedKeepsOut /\ Bounded
<1>1. Cached = {} /\ Owing = {}
  BY DEF Cached, Owing, Empty
<1>2. Ordered
  BY <1>1, NoElements DEF Ordered
<1>3. OwedKeepsOut
  BY <1>1 DEF OwedKeepsOut
<1>4. Bounded
  BY <1>1, FS_EmptySet, ConstantsAssumption DEF Bounded, CacheIsBounded
<1> QED
  BY <1>2, <1>3, <1>4

LEMMA StepShape ==
    ASSUME Types, Stages, Shape, [Next]_vars
    PROVE  Shape'
<1>1. ASSUME NEW e \in Endpoint, NEW p \in Request, Hit(p, e)
      PROVE  Shape'
  BY <1>1, HitKeepsShape
<1>2. ASSUME NEW e \in Endpoint, NEW p \in Request, NEW quiet \in BOOLEAN, Miss(p, e, quiet)
      PROVE  Shape'
  <2>1. /\ waiting' = [waiting EXCEPT ![e] = p] /\ UNCHANGED <<mutations, faults>>
        /\ UNCHANGED cache \/ (entries[e] # None /\ Checkpoint(e))
    BY <1>2 DEF Miss, bounds, Due
  <2>2. owed' \in [Endpoint -> Fleet \cup {None}] /\ Ordered' /\ OwedKeepsOut' /\ Bounded'
    <3>1. CASE UNCHANGED cache
      BY <3>1, CacheStands DEF cache, Shape, OthersTyped
    <3>2. CASE entries[e] # None /\ Checkpoint(e)
      BY <3>2, CheckpointKeepsShape
    <3> QED
      BY <2>1, <3>1, <3>2
  <2> QED
    BY <2>1, <2>2 DEF Shape, OthersTyped
<1>3. ASSUME NEW p \in Request,
             ReadEndpoint(p) \/ TakeSnapshot(p) \/ PersistCheckpoint(p) \/ Resolve(p)
      PROVE  Shape'
  <2>1. UNCHANGED cache
    BY <1>3 DEF ReadEndpoint, TakeSnapshot, PersistCheckpoint, Resolve
  <2>2. OthersTyped'
    BY <1>3 DEF ReadEndpoint, TakeSnapshot, PersistCheckpoint, Resolve, Shape, OthersTyped,
       cache, agents, bounds, Fault
  <2> QED
    BY <2>1, <2>2, CacheStands DEF Shape
<1>4. ASSUME NEW p \in Request, CompleteCheckpoint(p)
      PROVE  Shape'
  BY <1>4, CompleteKeepsShape
<1>5. ASSUME NEW p \in Request, Reply(p)
      PROVE  Shape'
  <2>1. Ordered' /\ OwedKeepsOut' /\ Bounded' /\ owed' = owed
    <3>1. CASE UNCHANGED cache
      BY <3>1, CacheStands DEF cache
    <3>2. CASE Put(p)
      BY <1>5, <3>2, PutKeepsShape DEF Reply
    <3> QED
      BY <1>5, <3>1, <3>2 DEF Reply
  <2>2. OthersTyped'
    BY <1>5, <2>1 DEF Reply, Shape, OthersTyped, agents, bounds
  <2> QED
    BY <2>1, <2>2 DEF Shape
<1>6. ASSUME NEW e \in Endpoint, GiveUp(e)
      PROVE  Shape'
  <2>1. UNCHANGED cache /\ OthersTyped'
    BY <1>6 DEF GiveUp, Shape, OthersTyped, cache, Fault
  <2> QED
    BY <2>1, CacheStands DEF Shape
<1>7. ASSUME NEW k \in Scope, BeginMutation(k)
      PROVE  Shape'
  BY <1>7, MutationKeepsShape
<1>8. ASSUME UNCHANGED cache, UNCHANGED <<waiting, mutations, faults>>
      PROVE  Shape'
  <2>1. OthersTyped'
    BY <1>8 DEF Shape, OthersTyped, cache
  <2> QED
    BY <1>8, <2>1, CacheStands DEF Shape
<1>9. ASSUME NEW k \in Scope, CompleteMutation(k)
      PROVE  Shape'
  BY <1>8, <1>9 DEF CompleteMutation, agents, bounds
<1>10. CASE Advance \/ (\E f \in Fleet : SetPolicy(f))
            \/ (\E e \in Endpoint, f \in Fleet : Reassign(e, f))
  BY <1>8, <1>10 DEF Advance, SetPolicy, Reassign, agents, bounds
<1>11. CASE Restart
  <2>1. entries' = Empty /\ owed' = Empty /\ recent' = <<>>
    BY <1>11 DEF Restart
  <2>2. Ordered' /\ OwedKeepsOut' /\ Bounded'
    <3>1. Cached' = {} /\ Owing' = {}
      BY <2>1 DEF Cached, Owing, Empty
    <3> QED
      BY <2>1, <3>1, NoElements, FS_EmptySet, ConstantsAssumption
         DEF Ordered, OwedKeepsOut, Bounded, CacheIsBounded
  <2>3. OthersTyped'
    BY <1>11 DEF Restart, Shape, OthersTyped, Fault, Empty
  <2> QED
    BY <2>2, <2>3 DEF Shape
<1>12. CASE Tick \/ UNCHANGED vars
  BY <1>8, <1>12 DEF Tick, vars, agents, bounds
<1> QED
  BY <1>1, <1>2, <1>3, <1>4, <1>5, <1>6, <1>7, <1>9, <1>10, <1>11, <1>12
     DEF Next, Poll, QuietPoll, Handle, Mutate

\* Answers and owed checkpoints have no endpoint in common and no more places than there
\* are, and the order of use lists what is cached, whatever fills, evicts and owes
\* (putWithSnapshot, getWithCheckpoint, evictLRU).
THEOREM CacheKeepsWithin == Spec => []CacheInv
<1>1. Init => Types /\ Stages /\ Shape
  <2> SUFFICES ASSUME Init
               PROVE  Types /\ Stages /\ Shape
    OBVIOUS
  <2>1. Ordered /\ OwedKeepsOut /\ Bounded
    BY EmptyShape DEF Init
  <2>2. OthersTyped
    BY DEF Init, OthersTyped, Empty
  <2> QED
    BY <2>1, <2>2, InitTypes DEF Shape
<1>2. Types /\ Stages /\ Shape /\ [Next]_vars => (Types /\ Stages /\ Shape)'
  BY StepTypes, StepShape
<1>3. Types /\ Shape => CacheInv
  <2> SUFFICES ASSUME Types, Shape
               PROVE  CacheInv
    OBVIOUS
  <2>1. {recent[i] : i \in DOMAIN recent} = Cached /\ Len(recent) = Cardinality(Cached)
    BY CachedIsFinite DEF Shape, Ordered, Elements
  <2>2. TypeOK
    BY <2>1 DEF TypeOK, Types, Shape, OthersTyped, Ordered
  <2> QED
    BY <2>2 DEF CacheInv, Shape, Bounded
<1> QED
  BY <1>1, <1>2, <1>3, PTL DEF Spec
=============================================================================
