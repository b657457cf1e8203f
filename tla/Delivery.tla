------------------------------ MODULE Delivery ------------------------------
(***************************************************************************)
(* What an endpoint and the server know of each other across Syncs: the    *)
(* endpoint's delivery row (target, offered and active artifact, written   *)
(* as a whole by a handler that read it some steps before), the repeatable *)
(* documents the agent leaves out once the server has accepted their hash, *)
(* and the artifact the agent reports as processed.  One endpoint; its     *)
(* calls are lost, time out and are retried, and with "overlap" the        *)
(* handler of a call that was given up runs on beside the next one.        *)
(*                                                                         *)
(* A hash stands for the content it is the hash of, a release for its ref, *)
(* a variant's number for the ref and digest that name it in a request.    *)
(* Which variant of a release is served is Selection's.                    *)
(* The delivery document is not in Docs: it is never left out, the agent   *)
(* only keeps its hash.  The decision cache in front of the handler is     *)
(* SyncCache, the apply of an artifact ApplyEngine.                        *)
(***************************************************************************)
EXTENDS Selection

CONSTANTS Handlers,     \* handlers of this endpoint's calls, on any server
          Releases,     \* release refs 1..n, in the order they are published
          DocumentOf,   \* [Contents -> capability documents] of the endpoint
          Scenarios     \* [start, overlap, known, faults, changes]: the release at
                        \* the start, whether handlers of lost calls go on, whether
                        \* the server knows the agent's version to be modern, and
                        \* how much may happen

None == 0
Docs == {"capability", "systemInformation", "targeting"}
Contents == 1..2
\* stands for the document of minimalLegacyCapabilityDocument
Legacy == 3
\* ChangeMinGap and Interval of the inventory throttle, in steps of time
Gap == 1
Interval == 2

Scenario == [start: Releases, overlap: BOOLEAN, known: BOOLEAN, faults: Nat, changes: Nat]

ASSUME ReleasesAreNumbered == Releases = 1..Cardinality(Releases)
ASSUME VariantsAreTold ==
    \A v, w \in DOMAIN Variants :
        /\ Variants[v].release \in Releases
        /\ Variants[v].release = Variants[w].release
           /\ Variants[v].digest = Variants[w].digest => v = w
ASSUME HandlersAreNamed == None \notin Handlers
ASSUME ScenariosAreTyped == Scenarios \subseteq Scenario

\* An agent that sends documents can do what the server credits a legacy agent with:
\* its generator has the schemas 0 and 1 and every registered resource contract.
ASSUME LegacyIsLeast ==
    \A c \in Contents : /\ LegacyDocument.schemas \subseteq DocumentOf[c].schemas
                        /\ LegacyDocument.contracts \subseteq DocumentOf[c].contracts

VARIABLES agent,        \* the agent's memory and its state.json
          facts,        \* what the documents would say now
          handler,      \* [Handlers -> what the handler holds]
          row,          \* endpoint_delivery_states of the endpoint
          stored,       \* the documents in the server's tables
          checkIn,      \* the artifact of the endpoint's last recorded check-in
          release,      \* the server's current release ref
          left,         \* what is left of the scenario
          processed,    \* artifacts the agent has processed
          everStored    \* contents the server has held, by document

vars == <<agent, facts, handler, row, stored, checkIn, release, left, processed,
          everStored>>

Some(d) == d # None
NoRow == [target |-> None, offered |-> None, active |-> None, blocked |-> None,
          unmanaged |-> FALSE]
Undeclared == [d \in Docs |-> None]
Idle == [pc |-> "idle", last |-> None, declared |-> Undeclared, full |-> {},
         seen |-> Undeclared, checkIn |-> None, accepted |-> {}, requested |-> {},
         row |-> NoRow, release |-> None, supports |-> None, selected |-> None,
         unmanaged |-> FALSE, artifact |-> None]
FreshMemory == [last |-> None, pending |-> None, phase |-> "ready", call |-> None,
                offer |-> None]

Init == /\ agent = [m |-> FreshMemory, accepted |-> Undeclared, sent |-> None,
                    elapsed |-> Interval]
        /\ facts = [d \in Docs |-> 1]
        /\ handler = [h \in Handlers |-> Idle]
        /\ row = NoRow
        /\ stored = Undeclared
        /\ checkIn = None
        /\ left \in Scenarios
        /\ release = left.start
        /\ processed = {}
        /\ everStored = [d \in Docs |-> {}]

(***************************************************************************)
(* The agent's request.                                                    *)
(***************************************************************************)
\* Throttler.ShouldReport
ShouldReport == \/ agent.sent = None
                \/ agent.elapsed >= Interval
                \/ agent.sent # facts["systemInformation"] /\ agent.elapsed >= Gap

\* prepareSystemInfo queues a fresh snapshot over the one that waits
PendingInfo == IF ShouldReport THEN facts["systemInformation"] ELSE agent.m.pending

\* the hashes attachRepeatableDocuments declares: the system information the
\* throttle holds back is declared with the hash the server accepted
Declared == [facts EXCEPT !["systemInformation"] =
                 IF Some(PendingInfo) THEN PendingInfo
                 ELSE agent.accepted["systemInformation"]]

\* the documents sent in full
Full == {d \in Docs : /\ Declared[d] # agent.accepted[d]
                      /\ d = "systemInformation" => Some(PendingInfo)}

\* runOnce up to client.Sync, and the endpoint as the handler first reads it
Ask(h) ==
    /\ agent.m.phase = "ready"
    /\ handler[h].pc = "idle"
    /\ agent' = [agent EXCEPT !.m.phase = "waiting", !.m.call = h,
                              !.m.pending = PendingInfo]
    /\ handler' = [handler EXCEPT ![h] = [Idle EXCEPT
           !.pc = "documents", !.last = agent.m.last, !.declared = Declared,
           !.full = Full, !.seen = stored, !.checkIn = checkIn]]
    /\ UNCHANGED <<facts, row, stored, checkIn, release, left, processed, everStored>>

(***************************************************************************)
(* The handler.                                                            *)
(***************************************************************************)
\* Faulty form: restores the stored document whatever hash was declared.
RestoresAny(declared, held) == Some(held)
\* restoreHashOnlyCapability, restoreHashOnlySystemInformation and the hash-only
\* part of verifyTargetingDocumentHash: the declared hash is that of the document held
Restores(declared, held) == Some(held) /\ declared = held

\* the durable writes of persistCurrentTargeting, persistCurrentCapabilityDocument
\* and persistCurrentSystemInformation, in their order
PersistOrder == <<"targeting", "capability", "systemInformation">>

\* the handler answers 503 at the first document that cannot be persisted
GoesOn(n) == n = Cardinality(Docs)

\* the capability document is compared with the table, the two others with the
\* endpoint as it was read when the handler began
Held(req, d) == IF d = "capability" THEN stored[d] ELSE req.seen[d]

\* From restoreHashOnlyCapability to persistCurrentSystemInformation: hashes are
\* restored, n documents persisted.
Documents(h) ==
    /\ handler[h].pc = "documents"
    /\ \E req \in {handler[h]} : \E hashOnly \in {Docs \ req.full} :
       \E restored \in {{d \in hashOnly : /\ Some(req.declared[d])
                         /\ Restores(req.declared[d], Held(req, d))}} :
       \E n \in 0..Cardinality(Docs) :
       \E written \in {{PersistOrder[i] : i \in 1..n} \cap req.full} :
         /\ n < Cardinality(Docs) => left.faults > 0
         /\ stored' = [d \in Docs |-> IF d \in written THEN req.declared[d]
                                      ELSE stored[d]]
         /\ everStored' = [d \in Docs |->
                IF d \in written THEN everStored[d] \cup {req.declared[d]}
                ELSE everStored[d]]
         /\ handler' = [handler EXCEPT
                ![h].pc = IF GoesOn(n) THEN "ack" ELSE "failed",
                ![h].accepted = restored \cup req.full,
                ![h].requested = {d \in hashOnly \ restored : Some(req.declared[d])},
                ![h].supports = IF "capability" \in req.full
                                THEN req.declared["capability"]
                                ELSE IF "capability" \in restored
                                THEN stored["capability"] ELSE None]
         /\ left' = [left EXCEPT !.faults = IF n < Cardinality(Docs) THEN @ - 1 ELSE @]
         /\ UNCHANGED <<agent, facts, row, checkIn, release, processed>>

\* Faulty form: the digest alone says which artifact was processed.
SameDigest(offered, last) ==
    Some(offered) /\ Some(last) /\ Variants[offered].digest = Variants[last].digest
\* the test of acknowledgeOfferedArtifact
Acknowledges(offered, last) == Some(last) /\ offered = last

\* releaseRef, and the row acknowledgeOfferedArtifact reads
AckRead(h) ==
    /\ handler[h].pc = "ack"
    /\ handler' = [handler EXCEPT
           ![h].release = release,
           ![h].row = row,
           ![h].pc = IF Acknowledges(row.offered, handler[h].last)
                     THEN "acked" ELSE "resolve"]
    /\ UNCHANGED <<agent, facts, row, stored, checkIn, release, left, processed, everStored>>

\* the offered artifact becomes the active one: StoreEndpointDeliveryState of
\* the row read before, and the check-in recorded after it
AckWrite(h) ==
    /\ handler[h].pc = "acked"
    /\ row' = [handler[h].row EXCEPT !.active = handler[h].row.offered, !.offered = None]
    /\ checkIn' = handler[h].last
    /\ handler' = [handler EXCEPT ![h].pc = "resolve", ![h].row = NoRow]
    /\ UNCHANGED <<agent, facts, stored, release, left, processed, everStored>>

\* endpointHasActiveArtifact
HasActiveArtifact(h) == Some(handler[h].checkIn) \/ Some(row.active)

\* the document the release is resolved for: a request without a usable one gets
\* the minimal legacy profile, unless its agent version is known to send one or
\* the server holds one of this endpoint
SelectionDocument(h) ==
    IF Some(handler[h].supports) THEN handler[h].supports
    ELSE IF left.known \/ Some(stored["capability"]) THEN None
    ELSE Legacy

\* resolveCompatibleDesiredArtifact.  Without a document, or with one that no
\* variant fits, the Sync is capability-blocked.
Resolve(h) ==
    /\ handler[h].pc = "resolve"
    /\ \E d \in {SelectionDocument(h)} :
       \E document \in {IF d \in Contents THEN DocumentOf[d] ELSE LegacyDocument} :
       \E best \in {IF d = None THEN {} ELSE
                  SelectHighestCompatible(handler[h].release, document)} :
       \E v \in IF best = {} THEN {None} ELSE best :
           handler' = [handler EXCEPT
               ![h].pc = "target", ![h].supports = d, ![h].selected = v,
               ![h].unmanaged = v = None /\ ~HasActiveArtifact(h)]
    /\ UNCHANGED <<agent, facts, row, stored, checkIn, release, left, processed, everStored>>

\* recordCompatibleTarget and recordCapabilityBlock read the row again
TargetRead(h) ==
    /\ handler[h].pc = "target"
    /\ handler' = [handler EXCEPT ![h].pc = "write", ![h].row = row]
    /\ UNCHANGED <<agent, facts, row, stored, checkIn, release, left, processed, everStored>>

\* seedActiveDeliveryState
Seeded(state, h) ==
    IF state.active = None THEN [state EXCEPT !.active = handler[h].checkIn] ELSE state

\* Faulty form: the digest alone decides.
UnchangedDigest(last, current) ==
    Some(last) /\ Variants[last].digest = Variants[current].digest
\* sync.Unchanged: the same digest of the same release
Unchanged(last, current) == last = current

\* recordCompatibleTarget or recordCapabilityBlock, and the answer
TargetWrite(h) ==
    /\ handler[h].pc = "write"
    /\ \E req \in {handler[h]} : \E blocked \in {req.selected = None} :
       \E offer \in {IF blocked \/ Unchanged(req.last, req.selected) THEN None
                   ELSE req.selected} :
         /\ row' = [Seeded(req.row, h) EXCEPT
                !.target = req.release,
                !.blocked = IF blocked THEN req.release ELSE None,
                !.unmanaged = blocked /\ req.unmanaged,
                !.offered = IF Some(offer) THEN offer ELSE @]
         /\ handler' = [handler EXCEPT
                ![h] = [req EXCEPT !.pc = "answered", !.row = NoRow, !.artifact = offer,
                    !.accepted = IF Some(req.supports) THEN @ ELSE {}]]
    /\ UNCHANGED <<agent, facts, stored, checkIn, release, left, processed, everStored>>

HandlerStep(h) == \/ Documents(h) \/ AckRead(h) \/ AckWrite(h)
                  \/ Resolve(h) \/ TargetRead(h) \/ TargetWrite(h)

(***************************************************************************)
(* The answer.                                                             *)
(***************************************************************************)
\* Faulty form: a requested document stays accepted.
KeepsRequested(accepted, ans) ==
    [d \in Docs |-> IF d \in ans.accepted THEN ans.declared[d] ELSE accepted[d]]
\* acceptDocumentHashes
AcceptedAfter(accepted, ans) ==
    [d \in Docs |-> IF d \in ans.requested THEN None
                    ELSE IF d \in ans.accepted THEN ans.declared[d] ELSE accepted[d]]

\* runOnce after client.Sync; persistSystemInfoSent and ClearSent only for
\* system information that was sent and whose hash is now accepted
Receive(h) ==
    LET ans == handler[h]
        accepted == AcceptedAfter(agent.accepted, ans)
        infoSent == /\ "systemInformation" \in ans.full
                    /\ accepted["systemInformation"] = ans.declared["systemInformation"]
    IN /\ agent.m.phase = "waiting" /\ agent.m.call = h
       /\ ans.pc = "answered"
       /\ agent' = [m |-> [agent.m EXCEPT
                       !.phase = IF Some(ans.artifact) THEN "applying" ELSE "ready",
                       !.offer = ans.artifact, !.call = None,
                       !.pending = IF infoSent THEN None ELSE @],
                    accepted |-> accepted,
                    sent |-> IF infoSent THEN ans.declared["systemInformation"]
                             ELSE agent.sent,
                    elapsed |-> IF infoSent THEN 0 ELSE agent.elapsed]
       /\ handler' = [handler EXCEPT ![h] = Idle]
       /\ UNCHANGED <<facts, row, stored, checkIn, release, left, processed, everStored>>

\* an error answer: the next cycle sends what the agent still holds
ReceiveError(h) ==
    /\ agent.m.phase = "waiting" /\ agent.m.call = h
    /\ handler[h].pc = "failed"
    /\ agent' = [agent EXCEPT !.m.phase = "ready", !.m.call = None]
    /\ handler' = [handler EXCEPT ![h] = Idle]
    /\ UNCHANGED <<facts, row, stored, checkIn, release, left, processed, everStored>>

\* applyConfig: lastDigest and lastReleaseRef advance when the pipeline succeeded
Applied(m, ok) ==
    [m EXCEPT !.phase = "ready", !.offer = None, !.last = IF ok THEN m.offer ELSE @]

Apply(ok) ==
    /\ agent.m.phase = "applying"
    /\ ~ok => left.faults > 0
    /\ agent' = [agent EXCEPT !.m = Applied(agent.m, ok)]
    /\ processed' = IF ok THEN processed \cup {agent.m.offer} ELSE processed
    /\ left' = [left EXCEPT !.faults = IF ok THEN @ ELSE @ - 1]
    /\ UNCHANGED <<facts, handler, row, stored, checkIn, release, everStored>>

(***************************************************************************)
(* What happens around them.                                               *)
(***************************************************************************)
Fault == left.faults > 0 /\ left' = [left EXCEPT !.faults = @ - 1]
Change == left.changes > 0 /\ left' = [left EXCEPT !.changes = @ - 1]

\* The call ends without an answer: the connection breaks or the client's
\* timeout is over.  Its handler ends with its context, or the server never
\* learns of it and the handler runs on ("overlap").
LoseCall ==
    /\ Fault
    /\ agent.m.phase = "waiting"
    /\ agent' = [agent EXCEPT !.m.phase = "ready", !.m.call = None]
    /\ \/ handler' = [handler EXCEPT ![agent.m.call] = Idle]
       \/ left.overlap /\ handler' = handler
    /\ UNCHANGED <<facts, row, stored, checkIn, release, processed, everStored>>

\* a handler nobody waits for has answered
Forget(h) ==
    /\ handler[h].pc \in {"answered", "failed"}
    /\ agent.m.call # h
    /\ handler' = [handler EXCEPT ![h] = Idle]
    /\ UNCHANGED <<agent, facts, row, stored, checkIn, release, left, processed, everStored>>

\* the agent stops and starts: state.json stays
Restart ==
    /\ Fault
    /\ agent' = [agent EXCEPT !.m = FreshMemory]
    /\ handler' = [h \in Handlers |->
           IF h = agent.m.call /\ ~left.overlap THEN Idle ELSE handler[h]]
    /\ UNCHANGED <<facts, row, stored, checkIn, release, processed, everStored>>

\* the server no longer has a document (a table restored from a backup)
LoseDocument(d) ==
    /\ Fault
    /\ Some(stored[d])
    /\ stored' = [stored EXCEPT ![d] = None]
    /\ UNCHANGED <<agent, facts, handler, row, checkIn, release, processed, everStored>>

\* the endpoint's facts change: another agent version or provider, other
\* hardware, other users
FactsChange(d) ==
    /\ Change
    /\ \E c \in Contents \ {facts[d]} : facts' = [facts EXCEPT ![d] = c]
    /\ UNCHANGED <<agent, handler, row, stored, checkIn, release, processed, everStored>>

\* a release is published
Publish ==
    /\ Change
    /\ release + 1 \in Releases
    /\ release' = release + 1
    /\ UNCHANGED <<agent, facts, handler, row, stored, checkIn, processed, everStored>>

TimePasses ==
    /\ agent.elapsed < Interval
    /\ agent' = [agent EXCEPT !.elapsed = @ + 1]
    /\ UNCHANGED <<facts, handler, row, stored, checkIn, release, left, processed, everStored>>

AgentStep == \/ \E h \in Handlers : Ask(h) \/ Receive(h) \/ ReceiveError(h)
             \/ Apply(TRUE)

Next == \/ AgentStep
        \/ \E h \in Handlers : HandlerStep(h) \/ Forget(h)
        \/ Apply(FALSE) \/ LoseCall \/ Restart \/ Publish \/ TimePasses
        \/ \E d \in Docs : LoseDocument(d) \/ FactsChange(d)

Spec == Init /\ [][Next]_vars

\* The agent's loop, the server's goroutines and the clock go on.
FairSpec == /\ Spec
            /\ WF_vars(AgentStep)
            /\ \A h \in Handlers : WF_vars(HandlerStep(h) \/ Forget(h))
            /\ WF_vars(TimePasses)

(***************************************************************************)
(* Properties.                                                             *)
(***************************************************************************)
Maybe(S) == S \cup {None}
Artifacts == DOMAIN Variants
Rows == [target : Maybe(Releases), offered : Maybe(Artifacts), active : Maybe(Artifacts),
         blocked : Maybe(Releases), unmanaged : BOOLEAN]

\* Every variable keeps its type; an agent that waits has a call, and only one
\* that applies holds an offer.
TypeOK ==
    /\ agent.m \in [last : Maybe(Artifacts), pending : Maybe(Contents),
                    phase : {"ready", "waiting", "applying"}, call : Maybe(Handlers),
                    offer : Maybe(Artifacts)]
    /\ agent.m.phase = "waiting" <=> Some(agent.m.call)
    /\ agent.m.phase = "applying" <=> Some(agent.m.offer)
    /\ agent.accepted \in [Docs -> Maybe(Contents)]
    /\ agent.elapsed \in 0..Interval
    /\ \A h \in Handlers : handler[h].row \in Rows /\ handler[h].requested \subseteq Docs
    /\ row \in Rows
    /\ stored \in [Docs -> Maybe(Contents)]

\* The active artifact of the delivery row, and the last check-in, are one the
\* endpoint processed: an offer whose answer was lost, that failed to apply, or
\* whose digest an earlier release had too, never becomes active, whatever the
\* order in which handlers read and write the row (acknowledgeOfferedArtifact).
ActiveWasProcessed == {row.active, checkIn} \subseteq Maybe(processed)

\* What is served fits the request it answers: the endpoint has declared, in this
\* request, all that the variant needs and a target that is its own, whichever
\* document the server chose it by: one sent, restored or of a legacy profile.
ServedIsSupported ==
    \A h \in Handlers : Some(handler[h].artifact) =>
        LET document == DocumentOf[handler[h].declared["capability"]]
        IN /\ Missing(handler[h].artifact, document) = {}
           /\ TargetMatches(handler[h].artifact, document.facts)

\* A hash the agent keeps as accepted is that of a document the server has held
\* durably: an answer, also one that follows a failed write, never lets the
\* agent leave out a document the server never had.
AcceptedWasStored ==
    \A d \in Docs : Some(agent.accepted[d]) => agent.accepted[d] \in everStored[d]

\* While handlers do not overlap, an endpoint is shown as unmanaged only as long
\* as it has no active artifact, whatever was acknowledged by the Sync that
\* finds it blocked (endpointHasActiveArtifact after acknowledgeOfferedArtifact).
UnmanagedHasNothing == ~left.overlap /\ row.unmanaged => row.active = None

\* The delivery row and the check-in call active only what the endpoint processed, however
\* handlers and lost answers interleave; and unmanaged, where no two handlers overlap,
\* only an endpoint that has nothing active.
RowInv == TypeOK /\ ActiveWasProcessed /\ UnmanagedHasNothing

\* What is served fits what its request declared, also where the server restored the
\* document from a hash, and the hashes the agent keeps as accepted are of documents the
\* server held at some time.
EvidenceInv == ServedIsSupported /\ AcceptedWasStored

\* Whatever was lost, in the end the server holds what each document says: what
\* it cannot restore it asks for, and the agent sends until it is accepted.
DocumentsConverge == <>[](stored = facts)

\* What the endpoint should have of the release: a variant it can process, when no
\* variant made for more of its kind exists, and no other for as much that it can
\* process has a higher schema.
Fits(v, document) ==
    LET able(w) == Missing(w, document) = {}
    IN /\ Variants[v].release = release
       /\ TargetMatches(v, document.facts) /\ able(v)
       /\ \A w \in VariantsOf(release) : TargetMatches(w, document.facts) =>
             /\ Specificity(w) <= Specificity(v)
             /\ Specificity(w) = Specificity(v) /\ able(w)
                   => Variants[w].schema <= Variants[v].schema

\* The delivery row ends at the current release and at what the endpoint can do now,
\* also when only its capabilities changed: the release is blocked exactly when no
\* variant fits, which later Syncs put right after a handler that nobody waits for has
\* written what it read.  While handlers do not overlap, the variant that fits is also
\* the active one; an acknowledgement that such a handler overwrites is not made again.
TargetConverges ==
    <>[]( /\ row.target = release
          /\ \E document \in {DocumentOf[facts["capability"]]} :
                /\ row.blocked = IF \E v \in VariantsOf(release) : Fits(v, document)
                                 THEN None ELSE release
                /\ ~left.overlap /\ row.blocked = None =>
                       Some(row.active) /\ Fits(row.active, document))
=============================================================================
