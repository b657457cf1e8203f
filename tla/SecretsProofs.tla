---------------------------- MODULE SecretsProofs ----------------------------
(***************************************************************************)
(* What the registry promises of an active version, and the endpoint of    *)
(* the material it uses, for any number of operators' requests, versions,  *)
(* releases and references, whatever fails and whenever the server dies.   *)
(***************************************************************************)
EXTENDS Secrets, SequenceTheorems, TLAPS

Pcs == Kinds \cup {"idle", "discovered", "plan", "store", "activating", "remove",
                   "deleting", "ending"}

\* The steps of a request whose version is one of the secret, a Change request.
OfVersion == {"discovered", "plan", "store", "activating", "revoke", "delete", "remove",
              "deleting"}
OfRequest == {"authorize", "withdraw", "resume"}

Tokens == {NoToken} \cup (Nat \X Nat)
Answer == [version: Version \cup {None}, generation: Nat, request: Nat]
Entry == [use: Use, digest: Release, answer: Answer, at: Nat]
Bindings == UNION {[uses -> Nat] : uses \in SUBSET (Use \cap Planned)}
Store == [live: SUBSET Version, revoked: SUBSET Version, active: Version \cup {None},
          generation: Nat, bound: [Version -> Bindings]]
ChangeRequest == [version: Version, generation: Nat, authorized: BOOLEAN,
                  active: BOOLEAN, open: SUBSET Nat]
Counters == [epoch: Nat, generation: Nat, leaked: BOOLEAN]
Operation == [kind: Kinds \cup {"none"}, pc: Pcs, version: Nat,
              uses: SUBSET (Use \cap Planned), generation: Nat, request: Nat,
              passed: BOOLEAN]
Agent == [pc: {"ready", "resolving", "syncing"}, release: Release, token: Tokens,
          cache: Seq(Entry), todo: SUBSET Use, use: Use \cup {"none"}, row: Answer,
          offered: Tokens, told: SUBSET Version, known: SUBSET Version]

Types ==
    /\ store \in Store
    /\ requests \in Seq(ChangeRequest)
    /\ release \in Release
    /\ counters \in Counters
    /\ op \in [Admin -> Operation]
    /\ agent \in Agent
    /\ Len(agent.cache) <= MaxEntries
    /\ agent.pc = "resolving" => agent.use \in Use
    /\ handed \in [Use -> [given: BOOLEAN, answer: Answer]]
    /\ overlapped \in SUBSET Version
    /\ clock \in 0..MaxTime
    /\ left \in Scenario

\* Change request q was planned for generation g, with version v.
Backs(q, v, g, changes) == /\ q \in DOMAIN changes
                           /\ changes[q].version = v /\ changes[q].generation = g

\* What an operator's request has looked up and relies on.
Relies(o, st, changes, gone) ==
    /\ o.pc \in OfVersion => o.version \in Version
    /\ o.pc \in OfRequest => o.version \in DOMAIN changes
    /\ o.pc = "publish" => o.version \in Release
    /\ o.pc \in {"store", "activating"} /\ o.uses # {} =>
          Backs(o.request, o.version, o.generation + 1, changes)
    /\ o.pc = "activating" /\ o.passed => o.version \in st.live \cup gone
    /\ o.pc = "deleting" /\ o.passed =>
          /\ o.generation <= st.generation
          /\ o.generation = st.generation => st.active # o.version
Operations == \A a \in Admin : Relies(op[a], store, requests, overlapped)

\* The active version, its bindings, and the authority of Change requests.
Registry ==
    /\ store.active \in store.live =>
          \A u \in DOMAIN store.bound[store.active] :
              Backs(store.bound[store.active][u], store.active, store.generation, requests)
    /\ ActiveSurvives
    /\ \A q \in DOMAIN requests : requests[q].active => requests[q].authorized

\* The operators' requests that are counted as mutations.
Busy == {a \in Admin : Mutating(a)}

\* A token that was issued is past, or no mutation has begun since.
Current(token, c) == token = <<c.epoch, c.generation>>
Issued(token, c, busy) ==
    token # NoToken =>
        /\ token \in Nat \X Nat
        /\ \/ token[1] < c.epoch
           \/ token[1] = c.epoch /\ token[2] < c.generation
           \/ Current(token, c) /\ busy = {}

\* An answer about u: its Change request is that of the activation it is of, and was
\* authorized if the Resource needs a preflight.
Grounded(answer, changes) ==
    answer.request # None =>
        Backs(answer.request, answer.version, answer.generation, changes)
Sound(u, answer, changes, revoked) ==
    /\ Grounded(answer, changes)
    /\ u \in HighRisk /\ answer.request # None => changes[answer.request].authorized
    /\ answer.version \notin revoked

Entries(s) == {s[i] : i \in DOMAIN s}

\* What the agent holds is sound, and is what the server would answer as long as the
\* agent's token is current.
Material ==
    /\ Issued(agent.token, counters, Busy) /\ Issued(agent.offered, counters, Busy)
    /\ agent.known \subseteq store.revoked /\ agent.told \subseteq store.revoked
    /\ agent.token = NoToken => agent.cache = <<>>
    /\ \A u \in Use : Sound(u, handed[u].answer, requests, agent.known)
    /\ \A e \in Entries(agent.cache) : Sound(e.use, e.answer, requests, agent.known)
    /\ Grounded(agent.row, requests) /\ agent.row.version \notin agent.known
    /\ agent.pc # "resolving" => agent.row = Denied
    /\ agent.row.request # None => References[agent.release][agent.use] = FollowsActive
    /\ Current(agent.token, counters) =>
          /\ \A e \in Entries(agent.cache) : AnswerAt(e.use, e.digest, e.at) = e.answer
          /\ agent.pc = "resolving" => agent.row = Row(agent.use, agent.release)
    /\ agent.pc = "syncing" /\ agent.offered = agent.token =>
          \A e \in Entries(agent.cache) : e.answer.version \notin agent.told

SecretsInv == Types /\ Operations /\ Registry /\ Material

-----------------------------------------------------------------------------
(***************************************************************************)
(* Sequences.                                                              *)
(***************************************************************************)
\* A hit makes its entry the last one.
LEMMA HitReorders ==
    ASSUME NEW E, NEW s \in Seq(E), NEW i \in DOMAIN s
    PROVE  LET t == Append(S!RemoveAt(s, i), s[i]) IN
           /\ t \in Seq(E) /\ Len(t) = Len(s)
           /\ \A j \in DOMAIN t : \E k \in DOMAIN s : t[j] = s[k]
<1> DEFINE a == SubSeq(s, 1, i - 1)
           b == SubSeq(s, i + 1, Len(s))
           r == a \o b
<1>1. i \in 1..Len(s) /\ Len(s) \in Nat /\ DOMAIN s = 1..Len(s)
  OBVIOUS
<1>2. a \in Seq(E) /\ Len(a) = i - 1 /\ \A j \in 1..(i - 1) : a[j] = s[j]
  BY <1>1
<1>3. b \in Seq(E) /\ Len(b) = Len(s) - i /\ \A j \in 1..(Len(s) - i) : b[j] = s[i + j]
  BY <1>1
<1>4. S!RemoveAt(s, i) = r
  BY DEF S!RemoveAt
<1> HIDE DEF a, b
<1>4a. r \in Seq(E) /\ Len(r) = Len(a) + Len(b)
  BY <1>2, <1>3, ConcatProperties
<1>5. r \in Seq(E) /\ Len(r) = Len(s) - 1
  <2> HIDE DEF r
  <2> QED
    BY <1>1, <1>2, <1>3, <1>4a
<1>6. ASSUME NEW j \in 1..(Len(s) - 1)
      PROVE  \E k \in 1..Len(s) : r[j] = s[k]
  <2>1. CASE j < i
    BY <1>1, <1>2, <1>3, <2>1, ConcatProperties
  <2>2. CASE j >= i
    <3>1. j - Len(a) \in 1..Len(b) /\ r[j] = b[j - Len(a)]
      BY <1>1, <1>2, <1>3, <2>2, ConcatProperties
    <3>2. i + (j - Len(a)) = j + 1 /\ j + 1 \in 1..Len(s)
      BY <1>1, <1>2, <2>2
    <3> QED
      BY <1>2, <1>3, <3>1, <3>2
  <2>3. j < i \/ j >= i
    BY <1>1
  <2> QED
    BY <2>1, <2>2, <2>3
<1> HIDE DEF r
<1> DEFINE t == Append(r, s[i])
<1>7. s[i] \in E
  BY <1>1
<1>7a. t \in Seq(E) /\ Len(t) = Len(r) + 1
  BY <1>5, <1>7, AppendProperties
<1>8. t \in Seq(E) /\ Len(t) = Len(s)
  <2> HIDE DEF t
  <2> QED
    BY <1>1, <1>5, <1>7a
<1>9. \A j \in 1..(Len(s) - 1) : t[j] = r[j]
  BY <1>1, <1>5, <1>7, AppendProperties
<1>10. t[Len(s)] = s[i]
  BY <1>1, <1>5, <1>7, AppendProperties
<1> HIDE DEF t
<1>11. DOMAIN t = 1..Len(s)
  BY <1>8, LenProperties
<1>12. ASSUME NEW j \in 1..Len(s)
       PROVE  \E k \in 1..Len(s) : t[j] = s[k]
  BY <1>1, <1>6, <1>9, <1>10
<1> QED
  BY <1>1, <1>4, <1>8, <1>11, <1>12 DEF t

LEMMA TokensDiffer == \A e, g \in Nat : NoToken # <<e, g>>
  BY DEF NoToken

-----------------------------------------------------------------------------
(***************************************************************************)
(* How the parts move.                                                     *)
(***************************************************************************)
LEMMA Numbers ==
    /\ None \notin Version /\ Version \subseteq Nat
    /\ None \notin Release /\ Release \subseteq Nat /\ 1 \in Release
    /\ Denied \in Answer /\ Denied.version = None /\ Denied.request = None
    /\ NoOp \in Operation /\ NoOp.pc = "idle"
    /\ NoToken \in Tokens /\ MaxEntries \in Nat /\ MaxEntries >= 1 /\ MaxTime \in Nat
<1>1. None = 0
  BY DEF None
<1>2. NoOp \in Operation /\ NoOp.pc = "idle"
  BY <1>1 DEF NoOp, Operation, Pcs
<1>3. Denied \in Answer /\ Denied.version = None /\ Denied.request = None
  BY <1>1 DEF Denied, Answer
<1> QED
  BY <1>1, <1>2, <1>3, VersionsAreNumbered, ReleasesAreNumbered, CacheHoldsSomething,
     ScenariosAreBounded DEF Tokens

\* Change requests are added, and authorized; what they were planned for stays.
RequestsGrow(changes, later) ==
    \A q \in DOMAIN changes :
        /\ q \in DOMAIN later
        /\ later[q].version = changes[q].version
        /\ later[q].generation = changes[q].generation
        /\ changes[q].authorized => later[q].authorized

\* Revocations stay; another version becomes active, or the same one again, only with
\* the next generation.
StoreMoves(st, later) ==
    /\ st.revoked \subseteq later.revoked
    /\ \/ later.generation = st.generation /\ later.active = st.active
       \/ later.generation > st.generation

\* The counters only go forward, and no mutation begins without.
CountersMove(c, busy, later, laterBusy) ==
    \/ later.epoch = c.epoch /\ later.generation = c.generation /\ laterBusy \subseteq busy
    \/ later.epoch = c.epoch /\ later.generation > c.generation
    \/ later.epoch > c.epoch

LEMMA NothingMoves ==
    ASSUME NEW st, NEW changes
    PROVE  StoreMoves(st, st) /\ RequestsGrow(changes, changes)
  BY DEF StoreMoves, RequestsGrow

LEMMA BacksKept ==
    ASSUME NEW q, NEW v, NEW g, NEW changes, NEW later,
           Backs(q, v, g, changes), RequestsGrow(changes, later)
    PROVE  Backs(q, v, g, later)
  BY DEF Backs, RequestsGrow

LEMMA SoundKept ==
    ASSUME NEW u, NEW answer, NEW changes, NEW later, NEW revoked,
           Sound(u, answer, changes, revoked), RequestsGrow(changes, later)
    PROVE  Sound(u, answer, later, revoked)
<1>1. answer.request # None =>
          Backs(answer.request, answer.version, answer.generation, later)
  BY BacksKept DEF Sound, Grounded
<1>2. answer.request # None => answer.request \in DOMAIN changes
  BY DEF Sound, Grounded, Backs
<1> QED
  BY <1>1, <1>2 DEF Sound, Grounded, RequestsGrow

LEMMA ReliesKept ==
    ASSUME NEW o \in Operation, NEW st \in Store, NEW changes, NEW gone,
           NEW st2 \in Store, NEW later, NEW gone2,
           Relies(o, st, changes, gone), RequestsGrow(changes, later), StoreMoves(st, st2),
           st.live \cup gone \subseteq st2.live \cup gone2
    PROVE  Relies(o, st2, later, gone2)
<1>1. o.generation \in Nat /\ st.generation \in Nat /\ st2.generation \in Nat
  BY DEF Operation, Store
<1>2. o.pc \in OfRequest => o.version \in DOMAIN later
  BY DEF Relies, RequestsGrow
<1>3. o.pc \in {"store", "activating"} /\ o.uses # {} =>
          Backs(o.request, o.version, o.generation + 1, later)
  BY BacksKept DEF Relies
<1>4. o.pc = "deleting" /\ o.passed =>
          /\ o.generation <= st2.generation
          /\ o.generation = st2.generation => st2.active # o.version
  BY <1>1 DEF Relies, StoreMoves
<1> QED
  BY <1>2, <1>3, <1>4 DEF Relies

\* A token that is current now was current before, and no mutation was under way.
LEMMA IssuedKept ==
    ASSUME NEW token, NEW c \in Counters, NEW busy, NEW c2 \in Counters, NEW busy2,
           Issued(token, c, busy), CountersMove(c, busy, c2, busy2)
    PROVE  /\ Issued(token, c2, busy2)
           /\ token # NoToken /\ Current(token, c2) => Current(token, c) /\ busy = {}
<1>1. c.epoch \in Nat /\ c.generation \in Nat /\ c2.epoch \in Nat /\ c2.generation \in Nat
  BY DEF Counters
<1> SUFFICES ASSUME token # NoToken
             PROVE  /\ Issued(token, c2, busy2)
                    /\ Current(token, c2) => Current(token, c) /\ busy = {}
  BY DEF Issued
<1>2. PICK e \in Nat, g \in Nat : token = <<e, g>>
  BY DEF Issued
<1>3. \/ e < c.epoch
      \/ e = c.epoch /\ g < c.generation
      \/ e = c.epoch /\ g = c.generation /\ busy = {}
  BY <1>2 DEF Issued, Current
<1>4. \/ e < c2.epoch
      \/ e = c2.epoch /\ g < c2.generation
      \/ e = c2.epoch /\ g = c2.generation /\ busy2 = {}
  BY <1>1, <1>3 DEF CountersMove
<1>5. e = c2.epoch /\ g = c2.generation => e = c.epoch /\ g = c.generation /\ busy = {}
  BY <1>1, <1>3 DEF CountersMove
<1> QED
  BY <1>2, <1>4, <1>5 DEF Issued, Current

\* The agent holds on to its cache, or its call is over; the server goes on.
LEMMA MaterialKept ==
    ASSUME SecretsInv, agent' = agent \/ agent' = Interrupted, handed' = handed,
           counters' \in Counters, CountersMove(counters, Busy, counters', Busy'),
           RequestsGrow(requests, requests'), StoreMoves(store, store'),
           Busy = {} => UNCHANGED <<store, requests, release>>
    PROVE  Material'
<1> USE DEF SecretsInv, Types
<1>1. /\ agent'.token = agent.token /\ agent'.cache = agent.cache
      /\ agent'.known = agent.known
      /\ \/ /\ agent'.pc = agent.pc /\ agent'.row = agent.row /\ agent'.use = agent.use
            /\ agent'.release = agent.release
            /\ agent'.offered = agent.offered /\ agent'.told = agent.told
         \/ /\ agent'.pc = "ready" /\ agent'.row = Denied
            /\ agent'.offered = NoToken /\ agent'.told = {}
  BY DEF Interrupted, Agent
<1>2. agent \in Agent /\ counters \in Counters
  OBVIOUS
<1>3. /\ Issued(agent.token, counters', Busy')
      /\ agent.token # NoToken /\ Current(agent.token, counters') =>
            Current(agent.token, counters) /\ Busy = {}
  BY <1>2, IssuedKept DEF Material
<1>4. Issued(agent'.offered, counters', Busy')
  <2>1. Issued(agent.offered, counters', Busy')
    BY <1>2, IssuedKept DEF Material
  <2>2. Issued(NoToken, counters', Busy')
    BY DEF Issued
  <2> QED
    BY <1>1, <2>1, <2>2
<1>5. agent'.known \subseteq store'.revoked /\ agent'.told \subseteq store'.revoked
  BY <1>1 DEF Material, StoreMoves
<1>6. \A u \in Use : Sound(u, handed'[u].answer, requests', agent'.known)
  BY <1>1, SoundKept DEF Material
<1>7. \A e \in Entries(agent.cache) : Sound(e.use, e.answer, requests', agent'.known)
  BY <1>1, SoundKept DEF Material
<1>8. Grounded(agent'.row, requests') /\ agent'.row.version \notin agent'.known
  <2>1. Grounded(agent.row, requests')
    BY BacksKept DEF Material, Grounded
  <2>2. Grounded(Denied, requests') /\ Denied.version \notin agent.known
    BY <1>2, Numbers DEF Grounded, Agent
  <2> QED
    BY <1>1, <2>1, <2>2 DEF Material
<1>9. agent'.row.request # None => References[agent'.release][agent'.use] = FollowsActive
  BY <1>1, Numbers DEF Material
<1>10. ASSUME Current(agent.token, counters')
       PROVE  /\ \A e \in Entries(agent.cache) : AnswerAt(e.use, e.digest, e.at)' = e.answer
              /\ agent'.pc = "resolving" => agent'.row = Row(agent.use, agent.release)'
  <2>1. agent.token # NoToken
    BY <1>10, TokensDiffer DEF Current, Counters
  <2>2. Current(agent.token, counters) /\ UNCHANGED <<store, requests, release>>
    BY <1>3, <1>10, <2>1
  <2>3. ASSUME NEW e \in Entries(agent.cache)
        PROVE  AnswerAt(e.use, e.digest, e.at)' = e.answer
    <3>1. AnswerAt(e.use, e.digest, e.at) = e.answer
      BY <2>2 DEF Material
    <3> QED
      BY <2>2, <3>1 DEF AnswerAt, Gated, Row, RolloutActive
  <2>4. ASSUME agent'.pc = "resolving"
        PROVE  agent'.row = Row(agent.use, agent.release)'
    <3>1. /\ agent'.row = Row(agent.use, agent.release)
          /\ agent'.use = agent.use /\ agent'.release = agent.release
      BY <1>1, <2>2, <2>4 DEF Material
    <3> QED
      BY <2>2, <3>1 DEF Row
  <2> QED
    BY <2>3, <2>4
<1>11. agent'.pc = "syncing" /\ agent'.offered = agent'.token =>
           \A e \in Entries(agent.cache) : e.answer.version \notin agent'.told
  BY <1>1 DEF Material
<1>12. agent'.token = NoToken => agent'.cache = <<>>
  BY <1>1 DEF Material
<1>13. Entries(agent.cache)' = Entries(agent.cache)
  BY <1>1 DEF Entries
<1>14. agent'.pc # "resolving" => agent'.row = Denied
  BY <1>1 DEF Material
<1> QED
  BY <1>1, <1>3, <1>4, <1>5, <1>6, <1>7, <1>8, <1>9, <1>10, <1>11, <1>12, <1>13, <1>14
     DEF Material

-----------------------------------------------------------------------------
(***************************************************************************)
(* The operators' requests.                                                *)
(***************************************************************************)
LEMMA RegistryKept ==
    ASSUME Registry, UNCHANGED <<store, requests, overlapped>>
    PROVE  Registry'
  BY DEF Registry, ActiveSurvives

\* One request goes on as n.
LEMMA OperatorStep ==
    ASSUME SecretsInv, NEW a \in Admin, NEW n \in Operation,
           op' = [op EXCEPT ![a] = n],
           store' \in Store, requests' \in Seq(ChangeRequest), release' \in Release,
           counters' \in Counters, overlapped' \in SUBSET Version, left' \in Scenario,
           UNCHANGED <<agent, handed, clock>>,
           RequestsGrow(requests, requests'), StoreMoves(store, store'),
           store.live \cup overlapped \subseteq store'.live \cup overlapped',
           Relies(n, store', requests', overlapped'),
           \/ counters' = counters /\ (Mutating(a) \/ n.pc \in {"idle", "discovered"})
           \/ counters'.epoch = counters.epoch /\ counters'.generation > counters.generation,
           Mutating(a) \/ UNCHANGED <<store, requests, release>>,
           Registry'
    PROVE  SecretsInv'
<1> USE DEF SecretsInv
<1>1. /\ op' \in [Admin -> Operation] /\ op'[a] = n
      /\ \A b \in Admin \ {a} : op'[b] = op[b]
  BY DEF Types
<1>2. Types'
  BY <1>1 DEF Types
<1>3. Operations'
  <2>1. ASSUME NEW b \in Admin \ {a}
        PROVE  Relies(op[b], store', requests', overlapped')
    <3>1. op[b] \in Operation /\ store \in Store
      BY DEF Types
    <3> QED
      BY <3>1, ReliesKept DEF Operations
  <2> QED
    BY <1>1, <2>1 DEF Operations
<1>4. Material'
  <2>1. Busy' = {b \in Admin : op'[b].pc \notin {"idle", "discovered"}}
    BY DEF Busy, Mutating
  <2>2. Busy = {b \in Admin : op[b].pc \notin {"idle", "discovered"}}
    BY DEF Busy, Mutating
  <2>3. CountersMove(counters, Busy, counters', Busy')
    <3>1. CASE counters' = counters /\ (Mutating(a) \/ n.pc \in {"idle", "discovered"})
      <4>1. Busy' \subseteq Busy
        BY <1>1, <2>1, <2>2, <3>1 DEF Mutating
      <4> QED
        BY <3>1, <4>1 DEF CountersMove
    <3>2. CASE counters'.epoch = counters.epoch
               /\ counters'.generation > counters.generation
      BY <3>2 DEF CountersMove
    <3> QED
      BY <3>1, <3>2
  <2>4. Busy = {} => UNCHANGED <<store, requests, release>>
    BY DEF Busy
  <2> QED
    BY <2>3, <2>4, MaterialKept
<1> QED
  BY <1>2, <1>3, <1>4

\* What the invariant says of one request.
LEMMA OfOperator ==
    ASSUME SecretsInv, NEW a \in Admin
    PROVE  /\ op[a] \in Operation /\ Relies(op[a], store, requests, overlapped)
           /\ store \in Store /\ requests \in Seq(ChangeRequest) /\ release \in Release
           /\ counters \in Counters /\ overlapped \in SUBSET Version /\ left \in Scenario
           /\ Registry
  BY DEF SecretsInv, Types, Operations

\* A request goes on and changes nothing else.
LEMMA QuietStep ==
    ASSUME SecretsInv, NEW a \in Admin, NEW n \in Operation, op' = [op EXCEPT ![a] = n],
           UNCHANGED <<store, requests, release, agent, handed, overlapped, clock>>,
           left' \in Scenario, counters' \in Counters,
           Relies(n, store, requests, overlapped),
           \/ counters' = counters /\ (Mutating(a) \/ n.pc \in {"idle", "discovered"})
           \/ counters'.epoch = counters.epoch /\ counters'.generation > counters.generation
    PROVE  SecretsInv'
<1>1. Registry' /\ RequestsGrow(requests, requests') /\ StoreMoves(store, store')
  BY OfOperator, RegistryKept, NothingMoves
<1>2. /\ store' \in Store /\ requests' \in Seq(ChangeRequest) /\ release' \in Release
      /\ overlapped' \in SUBSET Version
      /\ store.live \cup overlapped \subseteq store'.live \cup overlapped'
      /\ Relies(n, store', requests', overlapped')
  BY OfOperator
<1> QED
  BY <1>1, <1>2, OperatorStep

LEMMA LeftTyped ==
    ASSUME SecretsInv
    PROVE  /\ left.budget > 0 => [left EXCEPT !.budget = @ - 1] \in Scenario
           /\ left.faults > 0 => [left EXCEPT !.faults = @ - 1] \in Scenario
<1>1. left \in Scenario
  BY DEF SecretsInv, Types
<1> QED
  BY <1>1 DEF Scenario

\* A request that ends, or whose next step relies on nothing.
LEMMA GoneOn ==
    ASSUME NEW o \in Operation, NEW st, NEW changes, NEW gone, NEW pc \in {"ending", "idle"}
    PROVE  /\ [o EXCEPT !.pc = pc] \in Operation /\ [o EXCEPT !.pc = pc].pc = pc
           /\ Relies([o EXCEPT !.pc = pc], st, changes, gone)
<1> DEFINE n == [o EXCEPT !.pc = pc]
<1>1. n \in Operation /\ n.pc = pc
  BY DEF Operation, Pcs
<1> HIDE DEF n
<1>2. Relies(n, st, changes, gone)
  BY <1>1 DEF Relies, OfVersion, OfRequest
<1> QED
  BY <1>1, <1>2 DEF n

LEMMA CompleteMutationKeeps ==
    ASSUME SecretsInv, NEW a \in Admin, CompleteMutation(a)
    PROVE  SecretsInv'
<1>1. Relies(NoOp, store, requests, overlapped)
  BY Numbers DEF Relies, OfVersion, OfRequest
<1>2. op' = [op EXCEPT ![a] = NoOp] /\ counters' = counters /\ left' = left
      /\ UNCHANGED <<store, requests, release, agent, handed, overlapped, clock>>
  BY DEF CompleteMutation
<1> QED
  BY <1>1, <1>2, Numbers, OfOperator, QuietStep

LEMMA DiscoverUsesKeeps ==
    ASSUME SecretsInv, NEW a \in Admin, NEW v \in Version, DiscoverUses(a, v)
    PROVE  SecretsInv'
<1> DEFINE uses == {u \in UsesOf(release) \cap Planned : References[release][u] = FollowsActive}
           n == [NoOp EXCEPT !.kind = "activate", !.pc = "discovered", !.version = v,
                             !.uses = uses]
<1>1. uses \subseteq Use \cap Planned
  <2>1. UsesOf(release) \subseteq Use
    BY OfOperator DEF Use
  <2> QED
    BY <2>1
<1>2. op' = [op EXCEPT ![a] = n] /\ counters' = counters
      /\ UNCHANGED <<store, requests, release, agent, handed, overlapped, clock>>
  BY DEF DiscoverUses
<1> HIDE DEF uses
<1>3. n \in Operation /\ n.pc = "discovered" /\ n.version = v
  BY <1>1, Numbers DEF Operation, Pcs, Kinds
<1> HIDE DEF n
<1>4. Relies(n, store, requests, overlapped)
  BY <1>3 DEF Relies, OfVersion, OfRequest
<1>5. left' \in Scenario
  BY LeftTyped DEF DiscoverUses, Asked
<1> QED
  BY <1>2, <1>3, <1>4, <1>5, OfOperator, QuietStep

LEMMA BeginOtherKeeps ==
    ASSUME SecretsInv, NEW a \in Admin, NEW kind \in left.kinds \ {"activate"}, NEW v \in Nat,
           BeginOther(a, kind, v)
    PROVE  SecretsInv'
<1> DEFINE n == [NoOp EXCEPT !.kind = kind, !.pc = kind, !.version = v]
<1>1. kind \in Kinds \ {"activate"}
  BY OfOperator DEF Scenario
<1>2. /\ op' = [op EXCEPT ![a] = n]
      /\ counters' = [counters EXCEPT !.generation = @ + 1]
      /\ UNCHANGED <<store, requests, release, agent, handed, overlapped, clock>>
  BY DEF BeginOther, BeginMutation
<1>3. n \in Operation /\ n.pc = kind /\ n.version = v
  BY <1>1, Numbers DEF Operation, Pcs
<1> HIDE DEF n
<1>4. Relies(n, store, requests, overlapped)
  BY <1>1, <1>3, OfOperator DEF Relies, OfVersion, OfRequest, Kinds, BeginOther, Store
<1>5. left' \in Scenario
  BY LeftTyped DEF BeginOther, Asked
<1>6. /\ counters' \in Counters /\ counters'.epoch = counters.epoch
      /\ counters'.generation > counters.generation
  BY <1>2, OfOperator DEF Counters
<1> QED
  BY <1>2, <1>3, <1>4, <1>5, <1>6, QuietStep

LEMMA ActivateReadKeeps ==
    ASSUME SecretsInv, NEW a \in Admin, ActivateRead(a)
    PROVE  SecretsInv'
<1> DEFINE n == IF Usable(op[a].version)
                THEN [op[a] EXCEPT !.pc = "plan", !.generation = store.generation]
                ELSE [op[a] EXCEPT !.pc = "ending"]
<1>1. /\ op' = [op EXCEPT ![a] = n]
      /\ counters' = [counters EXCEPT !.generation = @ + 1]
      /\ UNCHANGED <<store, requests, release, agent, handed, overlapped, clock, left>>
  BY DEF ActivateRead, BeginMutation
<1>2. /\ n \in Operation /\ n.pc \in {"plan", "ending"} /\ n.version = op[a].version
      /\ op[a].version \in Version
  BY OfOperator DEF Operation, Pcs, Store, ActivateRead, Relies, OfVersion
<1> HIDE DEF n
<1>3. Relies(n, store, requests, overlapped)
  BY <1>2 DEF Relies, OfVersion, OfRequest
<1>4. /\ counters' \in Counters /\ counters'.epoch = counters.epoch
      /\ counters'.generation > counters.generation
  BY <1>1, OfOperator DEF Counters
<1> QED
  BY <1>1, <1>2, <1>3, <1>4, OfOperator, QuietStep

LEMMA ActivatePlanKeeps ==
    ASSUME SecretsInv, NEW a \in Admin, ActivatePlan(a)
    PROVE  SecretsInv'
<1>1. /\ op[a].pc = "plan" /\ Mutating(a) /\ op[a] \in Operation
      /\ op[a].version \in Version /\ op[a].generation \in Nat
      /\ UNCHANGED <<store, release, counters, agent, handed, overlapped, clock>>
  BY OfOperator DEF ActivatePlan, Mutating, Relies, OfVersion, Operation
<1>2. CASE op[a].uses = {} /\ op' = GoTo(a, "store") /\ UNCHANGED <<requests, left>>
  <2> DEFINE n == [op[a] EXCEPT !.pc = "store"]
  <2>1. /\ n \in Operation /\ n.pc = "store" /\ n.version = op[a].version
        /\ n.uses = {}
    BY <1>1, <1>2 DEF Operation, Pcs
  <2>2. op' = [op EXCEPT ![a] = n]
    BY <1>2 DEF GoTo
  <2> HIDE DEF n
  <2>3. Relies(n, store, requests, overlapped)
    BY <1>1, <2>1 DEF Relies, OfRequest
  <2> QED
    BY <1>1, <1>2, <2>1, <2>2, <2>3, OfOperator, QuietStep
<1>3. CASE left.faults > 0 /\ left' = [left EXCEPT !.faults = @ - 1]
           /\ op' = GoTo(a, "ending") /\ UNCHANGED requests
  <2>1. op' = [op EXCEPT ![a] = [op[a] EXCEPT !.pc = "ending"]]
    BY <1>3 DEF GoTo
  <2>2. left' \in Scenario
    BY <1>3, LeftTyped
  <2> QED
    BY <1>1, <1>3, <2>1, <2>2, GoneOn, OfOperator, QuietStep
<1>4. CASE /\ op[a].uses # {}
           /\ requests' = Append(requests,
                  [version |-> op[a].version, generation |-> op[a].generation + 1,
                   authorized |-> FALSE, active |-> FALSE, open |-> {}])
           /\ op' = [op EXCEPT ![a].pc = "store", ![a].request = Len(requests')]
           /\ UNCHANGED left
  <2> DEFINE r == [version |-> op[a].version, generation |-> op[a].generation + 1,
                   authorized |-> FALSE, active |-> FALSE, open |-> {}]
             k == Len(requests')
             n == [op[a] EXCEPT !.pc = "store", !.request = k]
  <2>1. r \in ChangeRequest /\ ~r.active
        /\ r.version = op[a].version /\ r.generation = op[a].generation + 1
    BY <1>1 DEF ChangeRequest
  <2>2. requests' = Append(requests, r)
    BY <1>4
  <2>3. op' = [op EXCEPT ![a] = n]
    BY <1>4
  <2> HIDE DEF r
  <2>4. /\ requests' \in Seq(ChangeRequest) /\ Len(requests') = Len(requests) + 1
        /\ \A q \in 1..Len(requests) : requests'[q] = requests[q]
        /\ requests'[Len(requests) + 1] = r
    BY <2>1, <2>2, OfOperator, AppendProperties
  <2>5. /\ DOMAIN requests' = 1..(Len(requests) + 1) /\ DOMAIN requests = 1..Len(requests)
        /\ Len(requests) \in Nat
    BY <2>4, OfOperator, LenProperties
  <2>5a. k \in Nat /\ k = Len(requests) + 1
    BY <2>4, <2>5
  <2> HIDE DEF k
  <2>6. /\ n \in Operation /\ n.pc = "store" /\ n.version = op[a].version
        /\ n.generation = op[a].generation /\ n.request = k
    BY <1>1, <2>5a DEF Operation, Pcs
  <2> HIDE DEF n
  <2>7. RequestsGrow(requests, requests')
    BY <2>4, <2>5 DEF RequestsGrow
  <2>8. Backs(n.request, n.version, n.generation + 1, requests')
    BY <2>1, <2>4, <2>5, <2>5a, <2>6 DEF Backs
  <2>9. Relies(n, store', requests', overlapped')
    BY <1>1, <2>6, <2>8 DEF Relies, OfRequest
  <2>10. Registry'
    <3>1. store'.active \in store'.live =>
              \A u \in DOMAIN store'.bound[store'.active] :
                  Backs(store'.bound[store'.active][u], store'.active, store'.generation,
                        requests')
      BY <1>1, <2>7, OfOperator, BacksKept DEF Registry
    <3>2. ActiveSurvives'
      BY <1>1, OfOperator DEF Registry, ActiveSurvives
    <3>3. \A q \in DOMAIN requests' : requests'[q].active => requests'[q].authorized
      BY <2>1, <2>4, <2>5, OfOperator DEF Registry
    <3> QED
      BY <3>1, <3>2, <3>3 DEF Registry
  <2> QED
    BY <1>1, <1>4, <2>3, <2>4, <2>6, <2>7, <2>9, <2>10, NothingMoves, OfOperator, OperatorStep
<1> QED
  BY <1>2, <1>3, <1>4 DEF ActivatePlan

LEMMA ActivateLookKeeps ==
    ASSUME SecretsInv, NEW a \in Admin, ActivateLook(a)
    PROVE  SecretsInv'
<1> DEFINE usable == Usable(op[a].version)
           n == [op[a] EXCEPT !.pc = "activating", !.passed = usable]
<1>1. /\ op[a].pc = "store" /\ Mutating(a) /\ op[a].version \in Version
      /\ op[a].uses # {} => Backs(op[a].request, op[a].version, op[a].generation + 1, requests)
      /\ op' = [op EXCEPT ![a] = n]
      /\ UNCHANGED <<store, requests, release, counters, agent, handed, overlapped,
                     clock, left>>
  BY OfOperator DEF ActivateLook, Mutating, Relies, OfVersion
<1>1a. usable \in BOOLEAN /\ (usable => op[a].version \in store.live)
  BY DEF Usable
<1> HIDE DEF usable
<1>2. /\ n \in Operation /\ n.pc = "activating" /\ n.version = op[a].version
      /\ n.uses = op[a].uses /\ n.request = op[a].request /\ n.generation = op[a].generation
      /\ n.passed = usable
  BY <1>1a, OfOperator DEF Operation, Pcs
<1> HIDE DEF n
<1>3. Relies(n, store, requests, overlapped)
  BY <1>1, <1>1a, <1>2 DEF Relies, OfRequest
<1> QED
  BY <1>1, <1>2, <1>3, OfOperator, QuietStep

\* The generation that is compared under the lock of the name makes the Change request
\* the one of the activation that takes effect.
LEMMA ActivateCommitKeeps ==
    ASSUME SecretsInv, NEW a \in Admin, ActivateCommit(a)
    PROVE  SecretsInv'
<1> DEFINE v == op[a].version
           b == IF v \in store.live THEN [u \in op[a].uses |-> op[a].request]
                ELSE store.bound[v]
           n == [op[a] EXCEPT !.pc = "ending"]
<1>1. /\ op[a].pc = "activating" /\ Mutating(a) /\ v \in Version
      /\ op[a].uses # {} => Backs(op[a].request, v, op[a].generation + 1, requests)
      /\ op[a].passed => v \in store.live \cup overlapped
      /\ op' = [op EXCEPT ![a] = n]
      /\ UNCHANGED <<requests, release, counters, agent, handed, overlapped, clock, left>>
  BY OfOperator DEF ActivateCommit, Mutating, Relies, OfVersion, GoTo
<1>2. n \in Operation /\ Relies(n, store', requests', overlapped')
  BY OfOperator, GoneOn
<1> HIDE DEF n
<1>3. CASE store' = store
  BY <1>1, <1>2, <1>3, OfOperator, QuietStep
<1>4. CASE op[a].passed /\ store.generation = op[a].generation
           /\ store' = [store EXCEPT !.active = v, !.generation = @ + 1, !.bound[v] = b]
  <2>1. op[a].uses \subseteq Use \cap Planned /\ op[a].request \in Nat
    BY OfOperator DEF Operation
  <2>2. b \in Bindings
    <3>1. CASE v \in store.live
      <4>1. b = [u \in op[a].uses |-> op[a].request]
        BY <3>1
      <4> QED
        BY <2>1, <4>1 DEF Bindings
    <3>2. CASE v \notin store.live
      BY <1>1, <3>2, OfOperator DEF Store
    <3> QED
      BY <3>1, <3>2
  <2> HIDE DEF v
  <2>3. v \in store.live => /\ DOMAIN b = op[a].uses
                            /\ \A u \in op[a].uses : b[u] = op[a].request
    OBVIOUS
  <2> HIDE DEF b
  <2>3a. [store.bound EXCEPT ![v] = b] \in [Version -> Bindings]
         /\ [store.bound EXCEPT ![v] = b][v] = b
    BY <1>1, <2>2, OfOperator DEF Store
  <2> DEFINE bs == [store.bound EXCEPT ![v] = b]
  <2>3b. store' = [store EXCEPT !.active = v, !.generation = @ + 1, !.bound = bs]
    BY <1>4
  <2>3c. bs \in [Version -> Bindings] /\ bs[v] = b
    BY <2>3a
  <2> HIDE DEF bs
  <2>4. /\ store' \in Store /\ store'.live = store.live /\ store'.revoked = store.revoked
        /\ store'.active = v /\ store'.generation = store.generation + 1
        /\ store'.bound[v] = b /\ store.generation \in Nat
    <3>1. store \in Store /\ store.generation \in Nat
      BY OfOperator DEF Store
    <3>2. PICK g \in Nat : g = store.generation + 1
      BY <3>1
    <3>3. store' = [store EXCEPT !.active = v, !.generation = g, !.bound = bs]
      BY <2>3b, <3>2
    <3>4. store' \in Store
      BY <1>1, <2>3c, <3>1, <3>3 DEF Store
    <3> QED
      BY <2>3c, <3>1, <3>2, <3>3, <3>4 DEF Store
  <2>5. StoreMoves(store, store')
    BY <2>4 DEF StoreMoves
  <2>6. Registry'
    <3>1. ASSUME v \in store.live, NEW u \in DOMAIN b
          PROVE  Backs(b[u], v, store'.generation, requests)
      BY <1>1, <1>4, <2>3, <2>4, <3>1
    <3>2. ActiveSurvives'
      BY <1>1, <1>4, <2>4 DEF ActiveSurvives
    <3>3. store'.active \in store'.live =>
              \A u \in DOMAIN store'.bound[store'.active] :
                  Backs(store'.bound[store'.active][u], store'.active, store'.generation,
                        requests')
      BY <1>1, <2>4, <3>1
    <3> QED
      BY <1>1, <3>2, <3>3, OfOperator DEF Registry
  <2> QED
    BY <1>1, <1>2, <2>4, <2>5, <2>6, NothingMoves, OfOperator, OperatorStep
<1> QED
  BY <1>3, <1>4 DEF ActivateCommit, GenerationCurrent

LEMMA RevokeKeeps ==
    ASSUME SecretsInv, NEW a \in Admin, Revoke(a)
    PROVE  SecretsInv'
<1> DEFINE n == [op[a] EXCEPT !.pc = "ending"]
<1>1. /\ Mutating(a) /\ op' = [op EXCEPT ![a] = n]
      /\ UNCHANGED <<requests, release, counters, agent, handed, overlapped, clock, left>>
  BY DEF Revoke, Mutating, GoTo
<1>2. n \in Operation /\ Relies(n, store', requests', overlapped')
  BY OfOperator, GoneOn
<1> HIDE DEF n
<1>3. /\ store' \in Store /\ store'.live = store.live /\ store'.active = store.active
      /\ store'.generation = store.generation /\ store'.bound = store.bound
      /\ store.revoked \subseteq store'.revoked
  BY OfOperator DEF Revoke, Store
<1>4. StoreMoves(store, store')
  BY <1>3 DEF StoreMoves
<1>5. Registry'
  BY <1>1, <1>3, OfOperator DEF Registry, ActiveSurvives
<1> QED
  BY <1>1, <1>2, <1>3, <1>4, <1>5, NothingMoves, OfOperator, OperatorStep

LEMMA DeleteReadKeeps ==
    ASSUME SecretsInv, NEW a \in Admin, DeleteRead(a)
    PROVE  SecretsInv'
<1> DEFINE n == [op[a] EXCEPT !.pc = IF op[a].version \in store.live \ {store.active}
                                     THEN "remove" ELSE "ending"]
<1>1. /\ Mutating(a) /\ op[a].version \in Version
      /\ op' = [op EXCEPT ![a] = n]
      /\ UNCHANGED <<store, requests, release, counters, agent, handed, overlapped,
                     clock, left>>
  BY OfOperator DEF DeleteRead, Mutating, GoTo, Relies, OfVersion
<1>2. n \in Operation /\ n.pc \in {"remove", "ending"} /\ n.version = op[a].version
  BY OfOperator DEF Operation, Pcs
<1> HIDE DEF n
<1>3. Relies(n, store, requests, overlapped)
  BY <1>1, <1>2 DEF Relies, OfVersion, OfRequest
<1> QED
  BY <1>1, <1>2, <1>3, OfOperator, QuietStep

LEMMA DeleteLookKeeps ==
    ASSUME SecretsInv, NEW a \in Admin, DeleteLook(a)
    PROVE  SecretsInv'
<1> DEFINE n == [op[a] EXCEPT !.pc = "deleting", !.passed = Deletable(op[a].version),
                              !.generation = store.generation]
<1>1. /\ Mutating(a) /\ op[a].version \in Version
      /\ op' = [op EXCEPT ![a] = n]
      /\ UNCHANGED <<store, requests, release, counters, agent, handed, overlapped,
                     clock, left>>
  BY OfOperator DEF DeleteLook, Mutating, Relies, OfVersion
<1>2. /\ n \in Operation /\ n.pc = "deleting" /\ n.version = op[a].version
      /\ n.generation = store.generation /\ store.generation \in Nat
      /\ n.passed => store.active # n.version
  BY OfOperator DEF Operation, Pcs, Store, Deletable
<1> HIDE DEF n
<1>3. Relies(n, store, requests, overlapped)
  BY <1>1, <1>2 DEF Relies, OfRequest
<1> QED
  BY <1>1, <1>2, <1>3, OfOperator, QuietStep

\* A version that a deletion removes under an activation of it is one of the overlapped.
LEMMA DeleteCommitKeeps ==
    ASSUME SecretsInv, NEW a \in Admin, DeleteCommit(a)
    PROVE  SecretsInv'
<1> DEFINE v == op[a].version
           n == [op[a] EXCEPT !.pc = "ending"]
<1>1. /\ op[a].pc = "deleting" /\ Mutating(a) /\ v \in Version
      /\ op[a].passed /\ op[a].generation = store.generation => store.active # v
      /\ op' = [op EXCEPT ![a] = n]
      /\ UNCHANGED <<requests, release, counters, agent, handed, clock, left>>
  BY OfOperator DEF DeleteCommit, Mutating, Relies, OfVersion, GoTo
<1>2. n \in Operation /\ n.pc = "ending" /\ Relies(n, store', requests', overlapped')
  BY OfOperator, GoneOn
<1> HIDE DEF n
<1>3. CASE ~op[a].passed
  BY <1>1, <1>2, <1>3, OfOperator, QuietStep DEF DeleteCommit
<1>4. CASE op[a].passed
  <2>1. /\ store' \in Store /\ store'.live = store.live \ {v}
        /\ store'.revoked = store.revoked /\ store'.active = store.active
        /\ store'.generation = store.generation /\ store'.bound = store.bound
    BY <1>4, OfOperator DEF DeleteCommit, Store
  <2>2. /\ overlapped' = IF Overlaps(a) THEN overlapped \cup {v} ELSE overlapped
        /\ overlapped' \in SUBSET Version
    BY <1>1, <1>4, OfOperator DEF DeleteCommit
  <2>3. store.active = v => v \in overlapped'
    BY <1>1, <1>4, <2>2 DEF Overlaps
  <2>4. Registry'
    <3>1. ActiveSurvives'
      BY <2>1, <2>2, <2>3, OfOperator DEF Registry, ActiveSurvives
    <3>2. /\ store'.active \in store'.live =>
                \A u \in DOMAIN store'.bound[store'.active] :
                    Backs(store'.bound[store'.active][u], store'.active, store'.generation,
                          requests')
          /\ \A q \in DOMAIN requests' : requests'[q].active => requests'[q].authorized
      BY <1>1, <2>1, OfOperator DEF Registry
    <3> QED
      BY <3>1, <3>2 DEF Registry
  <2>5. ASSUME NEW b \in Admin \ {a}
        PROVE  Relies(op[b], store', requests', overlapped')
    <3>1. op[b] \in Operation /\ Relies(op[b], store, requests, overlapped)
      BY OfOperator
    <3>2. op[b].pc = "activating" /\ op[b].passed => op[b].version \in store'.live \cup overlapped'
      <4>1. CASE op[b].version = v
        BY <2>2, <4>1 DEF Overlaps
      <4>2. CASE op[b].version # v
        BY <2>1, <2>2, <3>1, <4>2 DEF Relies
      <4> QED
        BY <4>1, <4>2
    <3> QED
      BY <1>1, <2>1, <3>1, <3>2 DEF Relies
  <2>6. Types'
    BY <1>1, <1>2, <2>1, <2>2 DEF SecretsInv, Types
  <2>7. Operations'
    <3>1. op'[a] = n /\ \A b \in Admin \ {a} : op'[b] = op[b]
      BY <1>1 DEF SecretsInv, Types
    <3> QED
      BY <1>2, <2>5, <3>1 DEF Operations
  <2>8. Material'
    <3>1. Busy' \subseteq Busy /\ a \in Busy
      BY <1>1 DEF Busy, Mutating, SecretsInv, Types
    <3>2. CountersMove(counters, Busy, counters', Busy')
      BY <1>1, <3>1 DEF CountersMove
    <3>3. StoreMoves(store, store') /\ RequestsGrow(requests, requests')
      BY <1>1, <2>1, NothingMoves DEF StoreMoves
    <3>4. counters' \in Counters
      BY <1>1, OfOperator
    <3> QED
      BY <1>1, <3>1, <3>2, <3>3, <3>4, MaterialKept
  <2> QED
    BY <2>4, <2>6, <2>7, <2>8 DEF SecretsInv
<1> QED
  BY <1>3, <1>4

\* A Change request whose rollout is authorized, withdrawn or resumed.
LEMMA RolloutStep ==
    ASSUME SecretsInv, NEW a \in Admin, op[a].pc \in OfRequest, NEW r \in ChangeRequest,
           requests' = [requests EXCEPT ![op[a].version] = r],
           r.version = requests[op[a].version].version,
           r.generation = requests[op[a].version].generation,
           requests[op[a].version].authorized => r.authorized,
           r.active => r.authorized,
           op' = GoTo(a, "ending"),
           UNCHANGED <<store, release, counters, agent, handed, overlapped, clock, left>>
    PROVE  SecretsInv'
<1> DEFINE q == op[a].version
           n == [op[a] EXCEPT !.pc = "ending"]
<1>1. /\ q \in DOMAIN requests /\ Mutating(a) /\ op' = [op EXCEPT ![a] = n]
  BY OfOperator DEF Relies, OfRequest, Mutating, GoTo
<1>2. n \in Operation /\ Relies(n, store', requests', overlapped')
  BY OfOperator, GoneOn
<1> HIDE DEF n
<1>3. q \in 1..Len(requests) /\ DOMAIN requests = 1..Len(requests)
  BY <1>1, OfOperator, LenProperties
<1> HIDE DEF q
<1>4. /\ requests' \in Seq(ChangeRequest) /\ Len(requests') = Len(requests)
      /\ \A j \in 1..Len(requests) : requests'[j] = IF j = q THEN r ELSE requests[j]
  BY <1>3, OfOperator, ExceptSeq DEF q
<1>5. DOMAIN requests' = DOMAIN requests
  BY <1>3, <1>4, LenProperties
<1>6. RequestsGrow(requests, requests')
  BY <1>3, <1>4, <1>5 DEF RequestsGrow, q
<1>7. Registry'
  <2>1. store'.active \in store'.live =>
            \A u \in DOMAIN store'.bound[store'.active] :
                Backs(store'.bound[store'.active][u], store'.active, store'.generation,
                      requests')
    BY <1>6, OfOperator, BacksKept DEF Registry
  <2>2. ActiveSurvives'
    BY OfOperator DEF Registry, ActiveSurvives
  <2>3. \A j \in DOMAIN requests' : requests'[j].active => requests'[j].authorized
    BY <1>3, <1>4, <1>5, OfOperator DEF Registry
  <2> QED
    BY <2>1, <2>2, <2>3 DEF Registry
<1> QED
  BY <1>1, <1>2, <1>4, <1>6, <1>7, NothingMoves, OfOperator, OperatorStep

LEMMA OfItsRequest ==
    ASSUME SecretsInv, NEW a \in Admin, op[a].pc \in OfRequest
    PROVE  /\ op[a].version \in DOMAIN requests
           /\ requests[op[a].version] \in ChangeRequest
           /\ requests[op[a].version].active => requests[op[a].version].authorized
<1>1. op[a].version \in DOMAIN requests
  BY OfOperator DEF Relies
<1> QED
  BY <1>1, OfOperator, LenProperties, ElementOfSeq DEF Registry

LEMMA AuthorizeKeeps ==
    ASSUME SecretsInv, NEW a \in Admin, NEW open \in left.openings, Authorize(a, open)
    PROVE  SecretsInv'
<1> DEFINE q == op[a].version
           c == requests[q]
           r == IF c.authorized THEN c
                ELSE [c EXCEPT !.authorized = TRUE, !.active = TRUE, !.open = open]
<1>1. /\ op[a].pc \in OfRequest /\ op' = GoTo(a, "ending")
      /\ UNCHANGED <<store, release, counters, agent, handed, overlapped, clock, left>>
  BY DEF Authorize, OfRequest
<1>2. q \in DOMAIN requests /\ c \in ChangeRequest /\ (c.active => c.authorized)
  BY <1>1, OfItsRequest
<1>3. requests' = [requests EXCEPT ![q] = r]
  BY <1>2, OfOperator, LenProperties DEF Authorize
<1>4. open \in SUBSET Nat
  BY OfOperator DEF Scenario
<1> HIDE DEF c
<1>5. /\ r \in ChangeRequest /\ r.version = c.version /\ r.generation = c.generation
      /\ (c.authorized => r.authorized) /\ (r.active => r.authorized)
  BY <1>2, <1>4 DEF ChangeRequest
<1> HIDE DEF r
<1> QED
  BY <1>1, <1>3, <1>5, RolloutStep DEF c

LEMMA WithdrawKeeps ==
    ASSUME SecretsInv, NEW a \in Admin, Withdraw(a)
    PROVE  SecretsInv'
<1> DEFINE c == requests[op[a].version]
           r == [c EXCEPT !.active = FALSE]
<1>1. /\ op[a].pc \in OfRequest /\ op' = GoTo(a, "ending")
      /\ requests' = [requests EXCEPT ![op[a].version] = r]
      /\ UNCHANGED <<store, release, counters, agent, handed, overlapped, clock, left>>
  BY DEF Withdraw, OfRequest
<1>2. c \in ChangeRequest
  BY <1>1, OfItsRequest
<1> HIDE DEF c
<1>3. /\ r \in ChangeRequest /\ r.version = c.version /\ r.generation = c.generation
      /\ (c.authorized => r.authorized) /\ ~r.active
  BY <1>2 DEF ChangeRequest
<1> HIDE DEF r
<1> QED
  BY <1>1, <1>3, RolloutStep DEF c

LEMMA ResumeKeeps ==
    ASSUME SecretsInv, NEW a \in Admin, Resume(a)
    PROVE  SecretsInv'
<1> DEFINE c == requests[op[a].version]
           on == c.active \/ c.authorized
           r == [c EXCEPT !.active = on]
<1>1. /\ op[a].pc \in OfRequest /\ op' = GoTo(a, "ending")
      /\ requests' = [requests EXCEPT ![op[a].version] = r]
      /\ UNCHANGED <<store, release, counters, agent, handed, overlapped, clock, left>>
  BY DEF Resume, OfRequest
<1>2. c \in ChangeRequest /\ (c.active => c.authorized)
  BY <1>1, OfItsRequest
<1> HIDE DEF c
<1>3. on \in BOOLEAN /\ (on => c.authorized)
  BY <1>2
<1> HIDE DEF on
<1>4. /\ r \in ChangeRequest /\ r.version = c.version /\ r.generation = c.generation
      /\ r.authorized = c.authorized /\ r.active = on
  BY <1>2, <1>3 DEF ChangeRequest
<1> HIDE DEF r
<1> QED
  BY <1>1, <1>3, <1>4, RolloutStep DEF c

LEMMA PublishKeeps ==
    ASSUME SecretsInv, NEW a \in Admin, Publish(a)
    PROVE  SecretsInv'
<1> DEFINE n == [op[a] EXCEPT !.pc = "ending"]
<1>1. /\ Mutating(a) /\ op' = [op EXCEPT ![a] = n] /\ release' \in Release
      /\ UNCHANGED <<store, requests, counters, agent, handed, overlapped, clock, left>>
  BY OfOperator DEF Publish, Mutating, GoTo, Relies
<1>2. n \in Operation /\ Relies(n, store', requests', overlapped')
  BY OfOperator, GoneOn
<1> HIDE DEF n
<1>3. Registry' /\ RequestsGrow(requests, requests') /\ StoreMoves(store, store')
  BY <1>1, OfOperator, RegistryKept, NothingMoves
<1> QED
  BY <1>1, <1>2, <1>3, OfOperator, OperatorStep

-----------------------------------------------------------------------------
(***************************************************************************)
(* Restarts and the agent.                                                 *)
(***************************************************************************)
LEMMA InterruptedTyped ==
    ASSUME SecretsInv
    PROVE  /\ Interrupted \in Agent /\ Interrupted.cache = agent.cache
           /\ Interrupted.pc = "ready"
<1>1. agent \in Agent /\ UsesOf(agent.release) \subseteq Use
  BY DEF SecretsInv, Types, Agent, Use
<1> DEFINE todo == CASE agent.pc = "syncing" -> UsesOf(agent.release)
                     [] agent.pc = "resolving" -> agent.todo \ {agent.use}
                     [] OTHER -> agent.todo
<1>2. todo \subseteq Use
  BY <1>1 DEF Agent
<1>3. Interrupted = [agent EXCEPT !.pc = "ready", !.use = "none", !.row = Denied,
                                  !.offered = NoToken, !.told = {}, !.todo = todo]
  BY DEF Interrupted
<1> HIDE DEF todo
<1> QED
  BY <1>1, <1>2, <1>3, Numbers DEF Agent

LEMMA RestartKeeps == SecretsInv /\ Restart => SecretsInv'
<1> SUFFICES ASSUME SecretsInv, Restart
             PROVE  SecretsInv'
  OBVIOUS
<1>1. /\ op' = [b \in Admin |-> NoOp] /\ agent' = Interrupted
      /\ UNCHANGED <<store, requests, release, handed, overlapped, clock>>
  BY DEF Restart
<1>2. left' \in Scenario
  BY LeftTyped DEF Restart
<1>3. counters' \in Counters /\ Busy' = {} /\ CountersMove(counters, Busy, counters', Busy')
  <2>1. counters \in Counters
    BY DEF SecretsInv, Types
  <2>2. Busy' = {}
    BY <1>1, Numbers DEF Busy, Mutating
  <2>3. CASE left.shared
    <3>1. \/ counters' = [counters EXCEPT !.leaked = TRUE]
          \/ counters' = [counters EXCEPT !.leaked = FALSE]
      <4> DEFINE leaks == counters.leaked \/ \E a \in Admin : Mutating(a)
      <4>1. leaks \in BOOLEAN
        BY <2>1 DEF Counters
      <4>2. counters' = [counters EXCEPT !.leaked = leaks]
        BY <2>3 DEF Restart
      <4> HIDE DEF leaks
      <4>3. leaks = TRUE \/ leaks = FALSE
        BY <4>1
      <4> QED
        BY <4>2, <4>3
    <3> QED
      BY <2>1, <2>2, <3>1 DEF CountersMove, Counters
  <2>4. CASE ~left.shared
    BY <2>1, <2>2, <2>4 DEF Restart, CountersMove, Counters
  <2> QED
    BY <2>2, <2>3, <2>4
<1>4. Types'
  BY <1>1, <1>2, <1>3, InterruptedTyped, Numbers DEF SecretsInv, Types
<1>5. Operations' /\ Registry'
  BY <1>1, Numbers, RegistryKept DEF SecretsInv, Operations, Relies, OfVersion, OfRequest
<1>6. Material'
  BY <1>1, <1>3, NothingMoves, MaterialKept
<1> QED
  BY <1>4, <1>5, <1>6 DEF SecretsInv

LEMMA CallLostKeeps == SecretsInv /\ CallLost => SecretsInv'
<1> SUFFICES ASSUME SecretsInv, CallLost
             PROVE  SecretsInv'
  OBVIOUS
<1>1. agent' = Interrupted
      /\ UNCHANGED <<store, requests, release, counters, op, handed, overlapped, clock>>
  BY DEF CallLost
<1>2. left' \in Scenario
  BY LeftTyped DEF CallLost
<1>3. Types'
  BY <1>1, <1>2, InterruptedTyped DEF SecretsInv, Types
<1>4. Operations' /\ Registry'
  BY <1>1, RegistryKept DEF SecretsInv, Operations
<1>5. Busy' = Busy /\ counters' \in Counters /\ CountersMove(counters, Busy, counters', Busy')
  BY <1>1 DEF SecretsInv, Types, Busy, Mutating, CountersMove
<1>6. Material'
  BY <1>1, <1>5, NothingMoves, MaterialKept
<1> QED
  BY <1>3, <1>4, <1>6 DEF SecretsInv

LEMMA TickKeeps == SecretsInv /\ Tick => SecretsInv'
<1> SUFFICES ASSUME SecretsInv, Tick
             PROVE  SecretsInv'
  OBVIOUS
<1>1. UNCHANGED <<store, requests, release, counters, op, agent, handed, overlapped, left>>
  BY DEF Tick
<1>2. clock' \in 0..MaxTime
  <2>1. left.time \in 0..MaxTime /\ clock \in 0..MaxTime
    BY DEF SecretsInv, Types, Scenario
  <2> QED
    BY <2>1, Numbers DEF Tick
<1>3. Types'
  BY <1>1, <1>2 DEF SecretsInv, Types
<1>4. Operations' /\ Registry'
  BY <1>1, RegistryKept DEF SecretsInv, Operations
<1>5. Busy' = Busy /\ counters' \in Counters /\ CountersMove(counters, Busy, counters', Busy')
  BY <1>1 DEF SecretsInv, Types, Busy, Mutating, CountersMove
<1>6. Material'
  BY <1>1, <1>5, NothingMoves, MaterialKept
<1> QED
  BY <1>3, <1>4, <1>6 DEF SecretsInv

\* What the invariant says of the agent.
LEMMA OfAgent ==
    ASSUME SecretsInv
    PROVE  /\ agent \in Agent /\ agent.cache \in Seq(Entry) /\ agent.release \in Release
           /\ agent.todo \subseteq Use /\ agent.row \in Answer /\ agent.token \in Tokens
           /\ agent.known \subseteq Version /\ agent.offered \in Tokens
           /\ Len(agent.cache) <= MaxEntries /\ Material
           /\ handed \in [Use -> [given: BOOLEAN, answer: Answer]]
           /\ release \in Release /\ clock \in Nat
<1>1. clock \in 0..MaxTime /\ MaxTime \in Nat
  BY Numbers DEF SecretsInv, Types
<1>2. clock \in Nat
  BY <1>1
<1> QED
  BY <1>2 DEF SecretsInv, Types, Agent

\* A step of the agent alone.
LEMMA AgentStep ==
    ASSUME SecretsInv,
           UNCHANGED <<store, requests, release, counters, op, overlapped, clock, left>>,
           agent' \in Agent, Len(agent'.cache) <= MaxEntries,
           agent'.pc = "resolving" => agent'.use \in Use,
           handed' \in [Use -> [given: BOOLEAN, answer: Answer]],
           Material'
    PROVE  SecretsInv'
<1>1. Types'
  BY DEF SecretsInv, Types
<1>2. Operations' /\ Registry'
  BY RegistryKept DEF SecretsInv, Operations
<1> QED
  BY <1>1, <1>2 DEF SecretsInv

\* The row the server reads: its Change request is that of the activation it is of.
LEMMA RowIsSound ==
    ASSUME SecretsInv, NEW u \in Use, NEW digest \in Release
    PROVE  /\ Row(u, digest) \in Answer
           /\ Grounded(Row(u, digest), requests)
           /\ Row(u, digest).version \notin store.revoked
           /\ Row(u, digest).request # None => References[digest][u] = FollowsActive
<1>1. store \in Store /\ Registry /\ None \notin store.revoked
  BY OfOperator, Numbers DEF SecretsInv, Types, Store
<1>2. CASE Row(u, digest) = Denied
  BY <1>1, <1>2, Numbers DEF Grounded
<1>3. CASE Row(u, digest) # Denied
  <2> DEFINE selector == References[digest][u]
             v == IF selector = FollowsActive THEN store.active ELSE selector
             g == IF v = store.active THEN store.generation ELSE 0
             q == IF selector = FollowsActive THEN store.bound[v][u] ELSE None
  <2>1. /\ v \in store.live \ store.revoked
        /\ selector = FollowsActive => u \in DOMAIN store.bound[v]
        /\ Row(u, digest) = [version |-> v, generation |-> g, request |-> q]
    BY <1>3 DEF Row
  <2>2. v \in Version /\ g \in Nat
    BY <1>1, <2>1 DEF Store
  <2>3. selector = FollowsActive => v = store.active /\ g = store.generation
    OBVIOUS
  <2>4. q \in Nat
    <3>1. ASSUME selector = FollowsActive
          PROVE  store.bound[v][u] \in Nat
      <4>1. store.bound[v] \in Bindings
        BY <1>1, <2>2 DEF Store
      <4> QED
        BY <2>1, <3>1, <4>1 DEF Bindings
    <3> QED
      BY <3>1 DEF None
  <2>5. selector = FollowsActive => Backs(q, v, g, requests)
    BY <1>1, <2>1, <2>3 DEF Registry
  <2>6. selector # FollowsActive => q = None
    OBVIOUS
  <2> HIDE DEF v, g, q, selector
  <2>7. Row(u, digest) \in Answer
    BY <2>1, <2>2, <2>4 DEF Answer
  <2> QED
    BY <2>1, <2>5, <2>6, <2>7 DEF Grounded, selector
<1> QED
  BY <1>2, <1>3

LEMMA AnswerIsUnrevoked ==
    ASSUME SecretsInv, NEW u, NEW digest, NEW t
    PROVE  AnswerAt(u, digest, t).version \notin store.revoked
<1>1. None \notin store.revoked
  BY Numbers DEF SecretsInv, Types, Store
<1>2. Row(u, digest).version \notin store.revoked
  BY <1>1 DEF Row, Denied
<1> QED
  BY <1>1, <1>2, Numbers DEF AnswerAt, Gated

\* What the gate lets through is authorized where the Resource needs a preflight.
LEMMA AnswerIsSound ==
    ASSUME SecretsInv, agent.pc = "resolving"
    PROVE  /\ Gated(agent.row, agent.use, agent.release, clock) \in Answer
           /\ Sound(agent.use, Gated(agent.row, agent.use, agent.release, clock), requests,
                    agent.known)
<1> DEFINE answer == Gated(agent.row, agent.use, agent.release, clock)
<1>1. CASE answer = Denied
  <2>1. None \notin agent.known
    BY OfAgent, Numbers
  <2> QED
    BY <1>1, <2>1, Numbers DEF Sound, Grounded
<1>2. CASE answer # Denied
  <2>1. /\ answer = agent.row
        /\ ~(/\ References[agent.release][agent.use] = FollowsActive
             /\ agent.use \in HighRisk
             /\ ~RolloutActive(agent.row.request, clock))
    BY <1>2 DEF Gated
  <2>2. /\ agent.row \in Answer /\ Grounded(agent.row, requests)
        /\ agent.row.version \notin agent.known
        /\ agent.row.request # None => References[agent.release][agent.use] = FollowsActive
    BY OfAgent DEF Material
  <2>3. ASSUME agent.use \in HighRisk, agent.row.request # None
        PROVE  requests[agent.row.request].authorized
    <3>1. requests[agent.row.request].active
      BY <2>1, <2>2, <2>3 DEF RolloutActive
    <3>2. agent.row.request \in DOMAIN requests
      BY <2>2, <2>3 DEF Grounded, Backs
    <3> QED
      BY <3>1, <3>2 DEF SecretsInv, Registry
  <2> HIDE DEF answer
  <2>4. answer \in Answer /\ Sound(agent.use, answer, requests, agent.known)
    BY <2>1, <2>2, <2>3 DEF Sound
  <2> QED
    BY <2>4 DEF answer
<1> QED
  BY <1>1, <1>2

LEMMA EntryTyped ==
    ASSUME NEW s \in Seq(Entry), NEW e \in Entries(s)
    PROVE  e \in Entry
<1>1. PICK i \in 1..Len(s) : e = s[i]
  BY LenProperties DEF Entries
<1> QED
  BY <1>1, ElementOfSeq

\* An eviction drops entries and adds none.
LEMMA FilledCache ==
    ASSUME NEW s \in Seq(Entry), NEW e \in Entry, Len(s) <= MaxEntries
    PROVE  /\ Append(Evicted(s), e) \in Seq(Entry)
           /\ Len(Append(Evicted(s), e)) <= MaxEntries
           /\ Entries(Append(Evicted(s), e)) \subseteq Entries(s) \cup {e}
<1> DEFINE r == Evicted(s)
           t == Append(r, e)
<1>1. Len(s) \in Nat /\ DOMAIN s = 1..Len(s) /\ MaxEntries \in Nat /\ MaxEntries >= 1
  BY Numbers, LenProperties
<1>2. /\ r \in Seq(Entry) /\ Len(r) + 1 <= MaxEntries
      /\ \A j \in 1..Len(r) : \E k \in 1..Len(s) : r[j] = s[k]
  <2>1. CASE Len(s) >= MaxEntries
    <3>1. s # <<>> /\ r = Tail(s)
      BY <1>1, <2>1, EmptySeq DEF Evicted
    <3>2. /\ Tail(s) \in Seq(Entry) /\ Len(Tail(s)) = Len(s) - 1
          /\ \A j \in 1..Len(Tail(s)) : Tail(s)[j] = s[j + 1]
      BY <3>1, HeadTailProperties
    <3>3. \A j \in 1..Len(Tail(s)) : j + 1 \in 1..Len(s)
      BY <1>1, <3>2
    <3> QED
      BY <1>1, <3>1, <3>2, <3>3
  <2>2. CASE ~(Len(s) >= MaxEntries)
    <3>1. r = s
      BY <2>2 DEF Evicted
    <3> QED
      BY <1>1, <2>2, <3>1
  <2> QED
    BY <2>1, <2>2
<1> HIDE DEF r
<1>3. /\ t \in Seq(Entry) /\ Len(t) = Len(r) + 1
      /\ \A j \in 1..Len(r) : t[j] = r[j]
      /\ t[Len(r) + 1] = e
  BY <1>2, AppendProperties
<1>4. Len(r) \in Nat
  BY <1>2, LenProperties
<1> HIDE DEF t
<1>5. DOMAIN t = 1..(Len(r) + 1)
  BY <1>3, LenProperties
<1>6. ASSUME NEW j \in 1..(Len(r) + 1)
      PROVE  t[j] \in Entries(s) \cup {e}
  <2>1. CASE j = Len(r) + 1
    BY <1>3, <2>1
  <2>2. CASE j # Len(r) + 1
    <3>1. j \in 1..Len(r)
      BY <1>4, <2>2
    <3> QED
      BY <1>1, <1>2, <1>3, <3>1 DEF Entries
  <2> QED
    BY <2>1, <2>2
<1>7. Entries(t) \subseteq Entries(s) \cup {e}
  BY <1>5, <1>6 DEF Entries
<1> QED
  BY <1>2, <1>3, <1>7 DEF t, r

\* The server and its mutations stand still: what is said of tokens stays.
LEMMA AuthorityStands ==
    ASSUME UNCHANGED <<store, requests, release, counters, op>>
    PROVE  /\ Busy' = Busy
           /\ \A u, d, t : AnswerAt(u, d, t)' = AnswerAt(u, d, t)
           /\ \A u, d : Row(u, d)' = Row(u, d)
<1>1. Busy' = Busy
  BY DEF Busy, Mutating
<1>2. \A u, d : Row(u, d)' = Row(u, d)
  BY DEF Row
<1>3. \A u, d, t : AnswerAt(u, d, t)' = AnswerAt(u, d, t)
  BY DEF AnswerAt, Gated, Row, RolloutActive
<1> QED
  BY <1>1, <1>2, <1>3

LEMMA HandedTyped ==
    ASSUME SecretsInv, NEW u \in Use, NEW answer \in Answer, Hand(u, answer)
    PROVE  /\ handed' \in [Use -> [given: BOOLEAN, answer: Answer]]
           /\ \A w \in Use : handed'[w].answer = IF w = u THEN answer ELSE handed[w].answer
  BY OfAgent DEF Hand

LEMMA ResolveCachedKeeps ==
    ASSUME SecretsInv, NEW u \in Use, ResolveCached(u)
    PROVE  SecretsInv'
<1>1. PICK i \in Cached(u) :
          /\ Hand(u, agent.cache[i].answer)
          /\ agent' = [agent EXCEPT !.todo = @ \ {u},
                           !.cache = Append(S!RemoveAt(agent.cache, i), agent.cache[i])]
  BY DEF ResolveCached
<1> DEFINE s == agent.cache
           t == Append(S!RemoveAt(s, i), s[i])
           e == s[i]
<1>2. i \in DOMAIN s /\ e.use = u /\ agent.pc = "ready"
  BY DEF Cached, ResolveCached
<1>3. s \in Seq(Entry) /\ agent \in Agent /\ Len(s) <= MaxEntries /\ Material
  BY OfAgent
<1>4. t \in Seq(Entry) /\ Len(t) = Len(s) /\ \A j \in DOMAIN t : \E k \in DOMAIN s : t[j] = s[k]
  <2> HIDE DEF s
  <2> QED
    BY <1>2, <1>3, HitReorders
<1>5. Entries(t) \subseteq Entries(s) /\ e \in Entries(s)
  BY <1>2, <1>4 DEF Entries
<1>6. e \in Entry
  BY <1>3, <1>5, EntryTyped
<1>7. agent' = [agent EXCEPT !.todo = @ \ {u}, !.cache = t] /\ Hand(u, e.answer)
  BY <1>1
<1>8. UNCHANGED <<store, requests, release, counters, op, overlapped, clock, left>>
  BY DEF ResolveCached
<1>8a. s = <<>> => t = <<>>
  BY <1>2
<1> HIDE DEF t, e
<1>9. /\ agent' \in Agent /\ agent'.pc = "ready" /\ agent'.cache = t
      /\ agent'.token = agent.token /\ agent'.known = agent.known
      /\ agent'.row = agent.row /\ agent'.use = agent.use
      /\ agent'.release = agent.release
      /\ agent'.offered = agent.offered /\ agent'.told = agent.told
  BY <1>2, <1>3, <1>4, <1>7 DEF Agent
<1>10. /\ handed' \in [Use -> [given: BOOLEAN, answer: Answer]]
       /\ \A w \in Use : handed'[w].answer = IF w = u THEN e.answer ELSE handed[w].answer
  <2>1. e.answer \in Answer
    BY <1>6 DEF Entry
  <2> QED
    BY <1>7, <2>1, HandedTyped
<1>11. Material'
  <2>1. \A w \in Use : Sound(w, handed'[w].answer, requests, agent.known)
    BY <1>2, <1>3, <1>5, <1>10 DEF Material, e
  <2>2. Entries(agent'.cache) \subseteq Entries(s)
    BY <1>5, <1>9
  <2>3. agent'.token = NoToken => agent'.cache = <<>>
    BY <1>3, <1>8a, <1>9 DEF Material
  <2>4. Entries(agent.cache)' = Entries(agent'.cache)
    BY DEF Entries
  <2> HIDE DEF s
  <2> QED
    BY <1>2, <1>3, <1>8, <1>9, <2>1, <2>2, <2>3, <2>4, AuthorityStands DEF Material, s
<1> QED
  BY <1>3, <1>4, <1>8, <1>9, <1>10, <1>11, AgentStep

LEMMA ResolveReadKeeps ==
    ASSUME SecretsInv, NEW u \in Use, ResolveRead(u)
    PROVE  SecretsInv'
<1> DEFINE row == Row(u, agent.release)
<1>1. /\ row \in Answer /\ Grounded(row, requests) /\ row.version \notin store.revoked
      /\ row.request # None => References[agent.release][u] = FollowsActive
  BY OfAgent, RowIsSound
<1>2. agent' = [agent EXCEPT !.pc = "resolving", !.use = u, !.row = row]
      /\ UNCHANGED <<store, requests, release, counters, op, handed, overlapped, clock, left>>
  BY DEF ResolveRead
<1> HIDE DEF row
<1>3. /\ agent' \in Agent /\ agent'.pc = "resolving" /\ agent'.cache = agent.cache
      /\ agent'.token = agent.token /\ agent'.known = agent.known
      /\ agent'.row = row /\ agent'.use = u /\ agent'.release = agent.release
      /\ agent'.offered = agent.offered /\ agent'.told = agent.told
  BY <1>1, <1>2, OfAgent DEF Agent
<1>4. Material'
  <2>1. Material /\ row.version \notin agent.known
    BY <1>1, OfAgent DEF Material
  <2>2. Entries(agent.cache)' = Entries(agent.cache)
    BY <1>3 DEF Entries
  <2>3. row = Row(u, agent.release)'
    BY <1>2, <1>3 DEF row, Row
  <2> QED
    BY <1>1, <1>2, <1>3, <2>1, <2>2, <2>3, AuthorityStands DEF Material
<1> QED
  BY <1>2, <1>3, <1>4, OfAgent, AgentStep

LEMMA ResolveAnswerKeeps == SecretsInv /\ ResolveAnswer => SecretsInv'
<1> SUFFICES ASSUME SecretsInv, ResolveAnswer
             PROVE  SecretsInv'
  OBVIOUS
<1> DEFINE u == agent.use
           s == agent.cache
           answer == Gated(agent.row, u, agent.release, clock)
           e == [use |-> u, digest |-> agent.release, answer |-> answer, at |-> clock]
           t == IF agent.token = NoToken THEN s ELSE Append(Evicted(s), e)
<1>1. /\ agent.pc = "resolving" /\ u \in Use
      /\ UNCHANGED <<store, requests, release, counters, op, overlapped, clock, left>>
  BY DEF ResolveAnswer, SecretsInv, Types
<1>2. answer \in Answer /\ Sound(u, answer, requests, agent.known)
  BY <1>1, AnswerIsSound
<1>3. Hand(u, answer)
      /\ agent' = [agent EXCEPT !.pc = "ready", !.todo = @ \ {u}, !.use = "none",
                                !.row = Denied, !.cache = t]
  BY DEF ResolveAnswer
<1>4. Current(agent.token, counters) => AnswerAt(u, agent.release, clock) = answer
  BY <1>1, OfAgent DEF Material, AnswerAt
<1> HIDE DEF answer, u
<1>5. e \in Entry /\ e.use = u /\ e.answer = answer /\ e.digest = agent.release /\ e.at = clock
  BY <1>1, <1>2, OfAgent DEF Entry
<1> HIDE DEF e
<1>6. /\ t \in Seq(Entry) /\ Len(t) <= MaxEntries
      /\ Entries(t) \subseteq Entries(s) \cup {e}
      /\ agent.token = NoToken => t = s
  BY <1>5, OfAgent, FilledCache
<1> HIDE DEF t
<1>7. /\ agent' \in Agent /\ agent'.pc = "ready" /\ agent'.cache = t
      /\ agent'.token = agent.token /\ agent'.known = agent.known
      /\ agent'.row = Denied /\ agent'.release = agent.release
      /\ agent'.offered = agent.offered /\ agent'.told = agent.told
  BY <1>3, <1>6, OfAgent, Numbers DEF Agent
<1>8. /\ handed' \in [Use -> [given: BOOLEAN, answer: Answer]]
      /\ \A w \in Use : handed'[w].answer = IF w = u THEN answer ELSE handed[w].answer
  BY <1>1, <1>2, <1>3, HandedTyped
<1>9. Material'
  <2>1. Material /\ None \notin agent.known
    BY OfAgent, Numbers
  <2>2. \A w \in Use : Sound(w, handed'[w].answer, requests, agent.known)
    BY <1>2, <1>8, <2>1 DEF Material
  <2>3. \A x \in Entries(t) : Sound(x.use, x.answer, requests, agent.known)
    BY <1>2, <1>5, <1>6, <2>1 DEF Material
  <2>4. Current(agent.token, counters) =>
            \A x \in Entries(t) : AnswerAt(x.use, x.digest, x.at) = x.answer
    BY <1>4, <1>5, <1>6, <2>1 DEF Material
  <2>5. Entries(agent.cache)' = Entries(t)
    BY <1>7 DEF Entries
  <2>6. Grounded(Denied, requests) /\ Denied.version \notin agent.known
    BY <2>1, Numbers DEF Grounded
  <2>7. agent.token = NoToken => t = <<>>
    BY <1>6, <2>1 DEF Material
  <2> HIDE DEF s
  <2> QED
    BY <1>1, <1>7, <2>1, <2>2, <2>3, <2>4, <2>5, <2>6, <2>7, Numbers, AuthorityStands
       DEF Material
<1> QED
  BY <1>1, <1>6, <1>7, <1>8, <1>9, AgentStep

LEMMA SyncSnapshotKeeps == SecretsInv /\ SyncSnapshot => SecretsInv'
<1> SUFFICES ASSUME SecretsInv, SyncSnapshot
             PROVE  SecretsInv'
  OBVIOUS
<1> DEFINE token == Token
<1>1. /\ agent.pc = "ready"
      /\ agent' = [agent EXCEPT !.pc = "syncing", !.offered = token, !.told = store.revoked]
      /\ UNCHANGED <<store, requests, release, counters, op, handed, overlapped, clock, left>>
  BY DEF SyncSnapshot
<1>2. /\ token \in Tokens /\ Issued(token, counters, Busy)
      /\ token # NoToken => Current(token, counters)
  <2>1. counters \in Counters
    BY OfOperator DEF SecretsInv, Types
  <2>2. CASE token = NoToken
    BY <2>2, Numbers DEF Issued
  <2>3. CASE token # NoToken
    <3>1. token = <<counters.epoch, counters.generation>> /\ ~\E a \in Admin : Mutating(a)
      BY <2>3 DEF Token
    <3>2. Busy = {}
      BY <3>1 DEF Busy
    <3>3. token \in Nat \X Nat
      BY <2>1, <3>1 DEF Counters
    <3> HIDE DEF token
    <3> QED
      BY <3>1, <3>2, <3>3 DEF Tokens, Issued, Current
  <2> QED
    BY <2>2, <2>3
<1> HIDE DEF token
<1>3. store.revoked \subseteq Version
  BY DEF SecretsInv, Types, Store
<1>4. /\ agent' \in Agent /\ agent'.pc = "syncing" /\ agent'.cache = agent.cache
      /\ agent'.token = agent.token /\ agent'.known = agent.known
      /\ agent'.row = agent.row /\ agent'.use = agent.use /\ agent'.release = agent.release
      /\ agent'.offered = token /\ agent'.told = store.revoked
  BY <1>1, <1>2, <1>3, OfAgent DEF Agent
<1>5. Material'
  <2>1. Material
    BY OfAgent
  <2>2. ASSUME token = agent.token, NEW e \in Entries(agent.cache)
        PROVE  e.answer.version \notin store.revoked
    <3>1. agent.token # NoToken
      BY <2>1, <2>2 DEF Material, Entries
    <3>2. AnswerAt(e.use, e.digest, e.at) = e.answer
      BY <1>2, <2>1, <2>2, <3>1 DEF Material
    <3>3. AnswerAt(e.use, e.digest, e.at).version \notin store.revoked
      BY AnswerIsUnrevoked
    <3> QED
      BY <3>2, <3>3
  <2>3. Entries(agent.cache)' = Entries(agent.cache)
    BY <1>4 DEF Entries
  <2> QED
    BY <1>1, <1>2, <1>4, <2>1, <2>2, <2>3, AuthorityStands DEF Material
<1> QED
  BY <1>1, <1>4, <1>5, OfAgent, AgentStep

LEMMA SyncAnswerKeeps == SecretsInv /\ SyncAnswer => SecretsInv'
<1> SUFFICES ASSUME SecretsInv, SyncAnswer
             PROVE  SecretsInv'
  OBVIOUS
<1> DEFINE token == agent.offered
           s == Kept(token)
<1>1. /\ agent.pc = "syncing"
      /\ agent' = [agent EXCEPT
             !.pc = "ready", !.token = token, !.cache = s,
             !.release = release, !.todo = UsesOf(release), !.known = agent.told,
             !.offered = NoToken, !.told = {}]
      /\ handed' = [u \in Use |-> Waiting]
      /\ UNCHANGED <<store, requests, release, counters, op, overlapped, clock, left>>
  BY DEF SyncAnswer
<1>2. /\ s \in Seq(Entry) /\ Len(s) <= MaxEntries /\ Entries(s) \subseteq Entries(agent.cache)
      /\ token # agent.token => s = <<>>
      /\ token = agent.token => s = agent.cache
  <2>1. <<>> \in Seq(Entry) /\ Len(<<>>) <= MaxEntries /\ Entries(<<>>) = {}
    BY Numbers, EmptySeq DEF Entries
  <2> QED
    BY <2>1, OfAgent DEF Kept
<1> HIDE DEF s
<1>3. UsesOf(release) \subseteq Use /\ agent.told \subseteq Version
  BY OfAgent DEF Use, Agent
<1>4. /\ agent' \in Agent /\ agent'.pc = "ready" /\ agent'.cache = s
      /\ agent'.token = agent.offered /\ agent'.known = agent.told
      /\ agent'.row = agent.row
      /\ agent'.offered = NoToken /\ agent'.told = {}
  BY <1>1, <1>2, <1>3, OfAgent, Numbers DEF Agent
<1>5. /\ handed' \in [Use -> [given: BOOLEAN, answer: Answer]]
      /\ \A u \in Use : handed'[u].answer = Denied
  BY <1>1, Numbers DEF Waiting
<1>6. Material'
  <2>1. Material /\ None \notin agent.told
    BY <1>3, OfAgent, Numbers
  <2>2. agent.row = Denied
    BY <1>1, <2>1 DEF Material
  <2>3. ASSUME NEW e \in Entries(s)
        PROVE  Sound(e.use, e.answer, requests, agent.told)
    <3>1. token = agent.token /\ e \in Entries(agent.cache)
      BY <1>2, <2>3 DEF Entries
    <3>2. e.answer.version \notin agent.told
      BY <1>1, <2>1, <3>1 DEF Material
    <3> QED
      BY <2>1, <3>1, <3>2 DEF Material, Sound
  <2>4. \A u : Sound(u, Denied, requests, agent.told)
    BY <2>1, Numbers DEF Sound, Grounded
  <2>5. Current(agent.offered, counters) =>
            \A e \in Entries(s) : AnswerAt(e.use, e.digest, e.at) = e.answer
    BY <1>2, <2>1 DEF Material, Entries
  <2>6. agent.offered = NoToken => s = <<>>
    BY <1>2, <2>1 DEF Material
  <2>7. Entries(agent.cache)' = Entries(s)
    BY <1>4 DEF Entries
  <2>8. Issued(NoToken, counters, Busy)
    BY DEF Issued
  <2>9. Grounded(Denied, requests) /\ Denied.version \notin agent.told
    BY <2>1, Numbers DEF Grounded
  <2> HIDE DEF token
  <2> QED
    BY <1>1, <1>4, <1>5, <2>1, <2>2, <2>3, <2>4, <2>5, <2>6, <2>7, <2>8, <2>9, Numbers,
       AuthorityStands DEF Material
<1> QED
  BY <1>1, <1>2, <1>4, <1>5, <1>6, AgentStep


-----------------------------------------------------------------------------
(***************************************************************************)
(* The invariant.                                                          *)
(***************************************************************************)
LEMMA InitSecretsInv == Init => SecretsInv
<1> SUFFICES ASSUME Init
             PROVE  SecretsInv
  OBVIOUS
<1>1. /\ store.live = Version /\ store.revoked = {} /\ store.active = None
      /\ store.generation = 0 /\ store.bound = [v \in Version |-> Unbound]
      /\ store \in Store
  <2>1. Unbound \in Bindings
    <3>1. Unbound \in [{} -> Nat]
      BY DEF Unbound
    <3> QED
      BY <3>1 DEF Bindings
  <2> QED
    BY <2>1 DEF Init, Store
<1>2. requests = <<>> /\ DOMAIN requests = {} /\ requests \in Seq(ChangeRequest)
  BY DEF Init
<1>3. /\ agent.pc = "ready" /\ agent.token = NoToken /\ agent.cache = <<>>
      /\ agent.row = Denied /\ agent.offered = NoToken /\ agent.told = {}
      /\ agent.known = {} /\ agent \in Agent
  <2>1. 1 \in Release /\ UsesOf(1) \subseteq Use
    BY Numbers DEF Use
  <2>2. <<>> \in Seq(Entry)
    OBVIOUS
  <2> QED
    BY <2>1, <2>2, Numbers DEF Init, Agent
<1>4. /\ handed \in [Use -> [given: BOOLEAN, answer: Answer]]
      /\ \A u \in Use : handed[u].answer = Denied
  BY Numbers DEF Init, Waiting
<1>5. Types
  BY <1>1, <1>2, <1>3, <1>4, Numbers, ScenariosAreBounded DEF Init, Types, Counters
<1>6. Operations
  <2>1. \A a \in Admin : op[a] = NoOp
    BY DEF Init
  <2>2. Relies(NoOp, store, requests, overlapped)
    BY Numbers DEF Relies, OfVersion, OfRequest
  <2> QED
    BY <2>1, <2>2 DEF Operations
<1>7. Registry
  BY <1>1, <1>2, Numbers DEF Registry, ActiveSurvives
<1>8. Material
  <2>1. Issued(NoToken, counters, Busy)
    BY DEF Issued
  <2>2. Entries(agent.cache) = {}
    BY <1>3 DEF Entries
  <2>3. \A u : Sound(u, Denied, requests, {})
    BY Numbers DEF Sound, Grounded
  <2>4. Grounded(Denied, requests) /\ Denied.request = None
    BY Numbers DEF Grounded
  <2> QED
    BY <1>3, <1>4, <2>1, <2>2, <2>3, <2>4 DEF Material
<1> QED
  BY <1>5, <1>6, <1>7, <1>8 DEF SecretsInv

LEMMA AskKeeps ==
    ASSUME SecretsInv, NEW a \in Admin, Ask(a)
    PROVE  SecretsInv'
<1>1. CASE \E v \in Version : DiscoverUses(a, v)
  BY <1>1, DiscoverUsesKeeps
<1>2. CASE \E kind \in left.kinds \ {"activate"},
              v \in Version \cup Release \cup DOMAIN requests : BeginOther(a, kind, v)
  <2>1. DOMAIN requests \subseteq Nat
    BY DEF SecretsInv, Types
  <2>2. Version \cup Release \cup DOMAIN requests \subseteq Nat
    BY <2>1, Numbers
  <2> QED
    BY <1>2, <2>2, BeginOtherKeeps
<1> QED
  BY <1>1, <1>2 DEF Ask

LEMMA ProceedKeeps ==
    ASSUME SecretsInv, NEW a \in Admin, Proceed(a)
    PROVE  SecretsInv'
<1>1. CASE ActivateRead(a) \/ ActivatePlan(a) \/ ActivateLook(a) \/ ActivateCommit(a)
  BY <1>1, ActivateReadKeeps, ActivatePlanKeeps, ActivateLookKeeps, ActivateCommitKeeps
<1>2. CASE Revoke(a) \/ DeleteRead(a) \/ DeleteLook(a) \/ DeleteCommit(a)
  BY <1>2, RevokeKeeps, DeleteReadKeeps, DeleteLookKeeps, DeleteCommitKeeps
<1>3. CASE \E open \in left.openings : Authorize(a, open)
  BY <1>3, AuthorizeKeeps
<1>4. CASE Withdraw(a) \/ Resume(a) \/ Publish(a) \/ CompleteMutation(a)
  BY <1>4, WithdrawKeeps, ResumeKeeps, PublishKeeps, CompleteMutationKeeps
<1> QED
  BY <1>1, <1>2, <1>3, <1>4 DEF Proceed

LEMMA RunKeeps == SecretsInv /\ Run => SecretsInv'
<1> SUFFICES ASSUME SecretsInv, Run
             PROVE  SecretsInv'
  OBVIOUS
<1>1. CASE \E u \in Use : ResolveCached(u) \/ ResolveRead(u)
  BY <1>1, ResolveCachedKeeps, ResolveReadKeeps
<1>2. CASE ResolveAnswer \/ SyncSnapshot \/ SyncAnswer
  BY <1>2, ResolveAnswerKeeps, SyncSnapshotKeeps, SyncAnswerKeeps
<1> QED
  BY <1>1, <1>2 DEF Run

LEMMA StepSecretsInv == SecretsInv /\ [Next]_vars => SecretsInv'
<1> SUFFICES ASSUME SecretsInv, [Next]_vars
             PROVE  SecretsInv'
  OBVIOUS
<1>1. CASE \E a \in Admin : Ask(a) \/ Proceed(a)
  BY <1>1, AskKeeps, ProceedKeeps
<1>2. CASE Run
  BY <1>2, RunKeeps
<1>3. CASE CallLost \/ Restart \/ Tick
  BY <1>3, CallLostKeeps, RestartKeeps, TickKeeps
<1>4. CASE UNCHANGED vars
  <2>1. /\ agent' = agent /\ handed' = handed /\ store' = store /\ requests' = requests
        /\ release' = release /\ counters' = counters /\ op' = op
        /\ overlapped' = overlapped /\ clock' = clock /\ left' = left
    BY <1>4 DEF vars
  <2>2. Types' /\ Operations' /\ Registry'
    BY <2>1 DEF SecretsInv, Types, Operations, Registry, ActiveSurvives
  <2>3. Busy' = Busy
    BY <2>1 DEF Busy, Mutating
  <2>4. /\ counters' \in Counters /\ CountersMove(counters, Busy, counters', Busy')
        /\ RequestsGrow(requests, requests') /\ StoreMoves(store, store')
    BY <2>1, <2>3, NothingMoves DEF SecretsInv, Types, CountersMove
  <2>5. Material'
    BY <2>1, <2>4, MaterialKept
  <2> QED
    BY <2>2, <2>5 DEF SecretsInv
<1> QED
  BY <1>1, <1>2, <1>3, <1>4 DEF Next


\* Requests, tokens and answers keep to the shape the other theorems rely on
\* (internal/server/secrets, internal/secrets/service.go, internal/agent/secrets).
THEOREM SecretsInvariant == Spec => []SecretsInv
<1> QED
  BY InitSecretsInv, StepSecretsInv, PTL DEF Spec

\* Of overlapping activations, revocations and deletions one wins whole: the active
\* version exists, unless its deletion overlapped an activation of it, and is bound to
\* the Change requests of its own activation (ActivateSecretVersion).
THEOREM RegistryIsWhole == Spec => []RegistryInv
<1>1. SecretsInv => RegistryInv
  <2> SUFFICES ASSUME SecretsInv
               PROVE  RegistryInv
    OBVIOUS
  <2>1. \A v \in Version : DOMAIN store.bound[v] \subseteq Use \cap Planned
    <3> SUFFICES ASSUME NEW v \in Version
                 PROVE  DOMAIN store.bound[v] \subseteq Use \cap Planned
      OBVIOUS
    <3>1. store.bound[v] \in Bindings
      BY DEF SecretsInv, Types, Store
    <3>2. PICK uses \in SUBSET (Use \cap Planned) : store.bound[v] \in [uses -> Nat]
      BY <3>1 DEF Bindings
    <3> QED
      BY <3>2
  <2>2. \A q \in DOMAIN requests : requests[q].version \in Version
    <3>1. \A q \in DOMAIN requests : requests[q] \in ChangeRequest
      BY LenProperties DEF SecretsInv, Types
    <3> QED
      BY <3>1 DEF ChangeRequest
  <2>3. TypeOK
    BY <2>1, <2>2 DEF TypeOK, SecretsInv, Types, Store, Agent, Material
  <2>4. BoundToItsGeneration /\ ActiveSurvives
    BY DEF BoundToItsGeneration, SecretsInv, Registry, Backs
  <2> QED
    BY <2>3, <2>4 DEF RegistryInv
<1> QED
  BY <1>1, SecretsInvariant, PTL

\* While the agent's token is the one the server would issue, only the clock can make a
\* retained answer differ from the server's, whatever operators do at the same time
\* (beginMutationChecked, secretAuthorityTokenFromSnapshot).
THEOREM OnlyTheClockOutdates == Spec => []ClockAloneOutdates
<1>1. SecretsInv => ClockAloneOutdates
  <2> SUFFICES ASSUME SecretsInv, agent.token # NoToken, agent.token = Token,
                      NEW i \in DOMAIN agent.cache
               PROVE  AnswerAt(agent.cache[i].use, agent.cache[i].digest, agent.cache[i].at)
                          = agent.cache[i].answer
    BY DEF ClockAloneOutdates
  <2>1. Current(agent.token, counters)
    BY DEF Token, Current
  <2>2. agent.cache[i] \in Entries(agent.cache)
    BY DEF Entries
  <2> QED
    BY <2>1, <2>2 DEF SecretsInv, Material
<1> QED
  BY <1>1, SecretsInvariant, PTL

\* A version revoked before the last Sync began is neither retained nor handed out in the
\* run that follows it (RevokeVersion, SetAuthorityToken).
THEOREM RevokedVersionsAreWithheld == Spec => []RevokedIsWithheld
<1>1. SecretsInv => RevokedIsWithheld
  BY DEF SecretsInv, Material, Sound, RevokedIsWithheld, Entries
<1> QED
  BY <1>1, SecretsInvariant, PTL

\* Material of an active reference of a high-risk Resource that reached the endpoint was
\* authorized by the Change request of that very activation (Resolve's rollout gate).
THEOREM HighRiskMaterialWasAuthorized == Spec => []MaterialWasAuthorized
<1>1. SecretsInv => MaterialWasAuthorized
  <2> SUFFICES ASSUME SecretsInv, NEW u \in HighRisk \cap Use,
                      handed[u].answer.version # None,
                      handed[u].answer.request # None
               PROVE  LET m == handed[u].answer IN
                      /\ requests[m.request].authorized
                      /\ requests[m.request].version = m.version
                      /\ requests[m.request].generation = m.generation
    BY DEF MaterialWasAuthorized
  <2> QED
    BY DEF SecretsInv, Material, Sound, Grounded, Backs
<1> QED
  BY <1>1, SecretsInvariant, PTL
=============================================================================
