--------------------------- MODULE DeliveryProofs ---------------------------
(***************************************************************************)
(* What the delivery row, the accepted hashes and the served artifacts say *)
(* of an endpoint, for any variants, releases and handlers, whatever calls *)
(* are lost or given up and however many handlers overlap.                 *)
(***************************************************************************)
EXTENDS Delivery, FiniteSetTheorems, TLAPS

Pcs == {"idle", "documents", "ack", "acked", "resolve", "target", "write", "answered",
        "failed"}

\* Where the documents of the request are settled.
Settled == {"ack", "acked", "resolve", "target", "write", "answered"}

Memory == [last : Maybe(Artifacts), pending : Maybe(Contents),
           phase : {"ready", "waiting", "applying"}, call : Maybe(Handlers),
           offer : Maybe(Artifacts)]
Agent == [m : Memory, accepted : [Docs -> Maybe(Contents)], sent : Maybe(Contents),
          elapsed : 0..Interval]
Request == [pc : Pcs, last : Maybe(Artifacts), declared : [Docs -> Maybe(Contents)],
            full : SUBSET Docs, seen : [Docs -> Maybe(Contents)],
            checkIn : Maybe(Artifacts), accepted : SUBSET Docs, requested : SUBSET Docs,
            row : Rows, release : Maybe(Releases), supports : Maybe(Contents) \cup {Legacy},
            selected : Maybe(Artifacts), unmanaged : BOOLEAN, artifact : Maybe(Artifacts)]

\* The types of everything, and how the agent's phase goes with its call and offer.
Types ==
    /\ agent \in Agent
    /\ agent.m.phase = "waiting" <=> Some(agent.m.call)
    /\ agent.m.phase = "applying" <=> Some(agent.m.offer)
    /\ facts \in [Docs -> Contents]
    /\ handler \in [Handlers -> Request]
    /\ \A h \in Handlers : \A d \in handler[h].full : handler[h].declared[d] \in Contents
    /\ row \in Rows
    /\ stored \in [Docs -> Maybe(Contents)]
    /\ checkIn \in Maybe(Artifacts)
    /\ release \in Releases
    /\ left \in Scenario
    /\ processed \in SUBSET Artifacts
    /\ everStored \in [Docs -> SUBSET Contents]

\* What a handler holds of the endpoint's artifacts was processed.
ProcessedIn(req, done) ==
    /\ req.last \in Maybe(done) /\ req.checkIn \in Maybe(done)
    /\ req.row.active \in Maybe(done)
    /\ req.pc = "acked" => Some(req.last) /\ req.row.offered = req.last

\* Every artifact that is or may become the active one was processed.
Processed ==
    /\ row.active \in Maybe(processed)
    /\ checkIn \in Maybe(processed)
    /\ agent.m.last \in Maybe(processed)
    /\ \A h \in Handlers : ProcessedIn(handler[h], processed)

\* What a handler restores from, or answers to have accepted, was held.
EvidenceIn(req, ever) ==
    /\ \A d \in Docs : req.seen[d] \in Maybe(ever[d])
    /\ req.pc \in Settled => \A d \in req.accepted : req.declared[d] \in ever[d]

\* Every hash that is or may become an accepted one is of a document that was held.
Evidence ==
    /\ \A d \in Docs : /\ stored[d] \in Maybe(everStored[d])
                       /\ agent.accepted[d] \in Maybe(everStored[d])
    /\ \A h \in Handlers : EvidenceIn(handler[h], everStored)

\* The endpoint that declared c can process v, and v is for it.
Suits(v, c) == Missing(v, DocumentOf[c]) = {} /\ TargetMatches(v, DocumentOf[c].facts)

\* What is selected and served suits the document that was declared.
SuitedIn(req) ==
    /\ req.pc # "idle" => req.declared["capability"] \in Contents
    /\ req.pc \in {"ack", "acked", "resolve"} =>
          req.supports \in {None, req.declared["capability"]}
    /\ req.pc \in {"target", "write"} /\ Some(req.selected) =>
          Suits(req.selected, req.declared["capability"])
    /\ Some(req.artifact) => /\ req.pc = "answered"
                             /\ Suits(req.artifact, req.declared["capability"])
Suited == \A h \in Handlers : SuitedIn(handler[h])

\* One call at a time: what its handler holds is what the row is, and an endpoint that
\* is shown as unmanaged has nothing active and nothing that it could acknowledge.
Alone ==
    ~left.overlap =>
        /\ \A h \in Handlers : handler[h].pc # "idle" =>
              /\ agent.m.call = h
              /\ handler[h].last = agent.m.last
              /\ handler[h].pc \in {"acked", "write"} => handler[h].row = row
              /\ handler[h].pc \in {"resolve", "target", "write", "answered"} =>
                    (Some(agent.m.last) => Some(row.active))
              /\ handler[h].pc \in {"target", "write"} /\ handler[h].unmanaged =>
                    handler[h].checkIn = None /\ row.active = None
              /\ Some(handler[h].artifact) =>
                    row.offered = handler[h].artifact /\ ~row.unmanaged
        /\ Some(agent.m.last) => Some(row.active) \/ row.offered = agent.m.last
        /\ Some(agent.m.offer) => row.offered = agent.m.offer /\ ~row.unmanaged
        /\ row.unmanaged => row.active = None /\ agent.m.last = None

DeliveryInv == Types /\ Processed /\ Evidence /\ Suited /\ Alone

-----------------------------------------------------------------------------
(***************************************************************************)
(* What each step does, field by field.                                    *)
(***************************************************************************)
LEMMA ConstantFacts ==
    /\ None \notin Artifacts /\ None \notin Handlers
    /\ Contents = {1, 2} /\ None \notin Contents /\ Legacy \notin Contents
<1>1. DOMAIN Variants = 1..Len(Variants)
  BY VariantsAreComposed
<1>2. None \notin Artifacts
  BY <1>1 DEF None, Artifacts
<1>3. Contents = {1, 2} /\ None \notin Contents /\ Legacy \notin Contents
  BY DEF Contents, None, Legacy
<1> QED
  BY <1>2, <1>3, HandlersAreNamed

LEMMA IdleTyped ==
    /\ Idle \in Request /\ NoRow \in Rows
    /\ Idle.pc = "idle" /\ Idle.last = None /\ Idle.full = {} /\ Idle.checkIn = None
    /\ Idle.accepted = {} /\ Idle.row = NoRow /\ Idle.artifact = None /\ Idle.unmanaged = FALSE
    /\ \A d \in Docs : Idle.seen[d] = None
    /\ NoRow.active = None /\ NoRow.offered = None /\ NoRow.unmanaged = FALSE
  BY DEF Idle, Request, NoRow, Rows, Pcs, Maybe, Undeclared

LEMMA FreshTyped ==
    /\ FreshMemory \in Memory
    /\ FreshMemory.last = None /\ FreshMemory.offer = None /\ FreshMemory.call = None
    /\ FreshMemory.phase = "ready"
  BY DEF FreshMemory, Memory, Maybe

\* The handlers other than h hold what they held.
OthersSame(h) == \A g \in Handlers \ {h} : handler'[g] = handler[g]

LEMMA DeclaredTyped ==
    ASSUME Types
    PROVE  /\ PendingInfo \in Maybe(Contents)
           /\ Declared \in [Docs -> Maybe(Contents)]
           /\ Full \in SUBSET Docs
           /\ \A d \in Full : Declared[d] \in Contents
           /\ Declared["capability"] \in Contents
<1>1. PendingInfo \in Maybe(Contents)
  BY DEF Types, PendingInfo, Agent, Memory, Maybe, Docs
<1>2. agent.accepted \in [Docs -> Maybe(Contents)] /\ facts \in [Docs -> Contents]
  BY DEF Types, Agent
<1>3. Declared \in [Docs -> Maybe(Contents)]
  BY <1>1, <1>2 DEF Declared, Maybe, Docs
<1>4. ASSUME NEW d \in Full
      PROVE  Declared[d] \in Contents
  BY <1>1, <1>2, <1>4 DEF Full, Declared, Docs, Maybe, Some
<1>5. Declared["capability"] \in Contents
  BY <1>2 DEF Declared, Docs
<1> QED
  BY <1>1, <1>3, <1>4, <1>5 DEF Full

LEMMA AskShape ==
    ASSUME Types, NEW h \in Handlers, Ask(h)
    PROVE  /\ agent.m.phase = "ready" /\ handler[h].pc = "idle"
           /\ agent' \in Agent /\ agent'.m.phase = "waiting" /\ agent'.m.call = h
           /\ agent'.m.offer = agent.m.offer /\ agent'.m.last = agent.m.last
           /\ agent'.accepted = agent.accepted
           /\ handler' \in [Handlers -> Request] /\ OthersSame(h)
           /\ handler'[h].pc = "documents" /\ handler'[h].last = agent.m.last
           /\ handler'[h].declared = Declared /\ handler'[h].full = Full
           /\ handler'[h].seen = stored /\ handler'[h].checkIn = checkIn
           /\ handler'[h].row = NoRow /\ handler'[h].artifact = None
           /\ UNCHANGED <<facts, row, stored, checkIn, release, left, processed, everStored>>
<1> DEFINE req == [Idle EXCEPT !.pc = "documents", !.last = agent.m.last,
                       !.declared = Declared, !.full = Full, !.seen = stored,
                       !.checkIn = checkIn]
<1>1. /\ agent \in Agent /\ handler \in [Handlers -> Request]
      /\ stored \in [Docs -> Maybe(Contents)] /\ checkIn \in Maybe(Artifacts)
      /\ agent.m \in Memory
  BY DEF Types, Agent
<1>2. req \in Request
  BY <1>1, IdleTyped, DeclaredTyped DEF Request, Pcs, Memory
<1>3. /\ req.pc = "documents" /\ req.last = agent.m.last /\ req.declared = Declared
      /\ req.full = Full /\ req.seen = stored /\ req.checkIn = checkIn
      /\ req.row = NoRow /\ req.artifact = None
  BY IdleTyped DEF Request
<1>4. handler' = [handler EXCEPT ![h] = req]
  BY DEF Ask
<1> HIDE DEF req
<1>5. handler' \in [Handlers -> Request] /\ handler'[h] = req /\ OthersSame(h)
  BY <1>1, <1>2, <1>4 DEF OthersSame
<1>6. /\ agent' \in Agent /\ agent'.m.phase = "waiting" /\ agent'.m.call = h
      /\ agent'.m.offer = agent.m.offer /\ agent'.m.last = agent.m.last
      /\ agent'.accepted = agent.accepted
  <2> DEFINE m == [agent.m EXCEPT !.phase = "waiting", !.call = h, !.pending = PendingInfo]
  <2>1. m \in Memory
    BY <1>1, DeclaredTyped DEF Memory, Maybe
  <2>2. /\ m.phase = "waiting" /\ m.call = h /\ m.offer = agent.m.offer
        /\ m.last = agent.m.last
    BY <1>1 DEF Memory
  <2>3. agent' = [agent EXCEPT !.m = m]
    BY <1>1 DEF Ask, Agent, Memory
  <2> HIDE DEF m
  <2> QED
    BY <1>1, <2>1, <2>2, <2>3 DEF Agent
<1> QED
  BY <1>3, <1>5, <1>6 DEF Ask

\* What the steps of a handler leave alone.
HandlerOnly == UNCHANGED <<agent, facts, release, processed>>

LEMMA AckReadShape ==
    ASSUME Types, NEW h \in Handlers, AckRead(h)
    PROVE  /\ handler' \in [Handlers -> Request] /\ OthersSame(h) /\ handler[h].pc = "ack"
           /\ \/ /\ handler'[h].pc = "acked"
                 /\ Some(handler[h].last) /\ row.offered = handler[h].last
              \/ /\ handler'[h].pc = "resolve"
                 /\ ~(Some(handler[h].last) /\ row.offered = handler[h].last)
           /\ handler'[h] = [handler[h] EXCEPT !.release = release, !.row = row,
                                               !.pc = handler'[h].pc]
           /\ HandlerOnly /\ UNCHANGED <<row, stored, checkIn, left, everStored>>
<1>1. handler[h] \in Request /\ row \in Rows /\ release \in Releases
  BY DEF Types
<1> DEFINE pc == IF Acknowledges(row.offered, handler[h].last) THEN "acked" ELSE "resolve"
           req == [handler[h] EXCEPT !.release = release, !.row = row, !.pc = pc]
<1>2. pc \in Pcs
  BY DEF Pcs
<1>3. handler' = [handler EXCEPT ![h] = req]
  BY <1>1 DEF AckRead, Types
<1> HIDE DEF pc
<1>6. req \in Request /\ req.pc = pc
  BY <1>1, <1>2 DEF Request, Maybe
<1>4. handler'[h] = req /\ OthersSame(h) /\ handler' \in [Handlers -> Request]
  BY <1>3, <1>6 DEF OthersSame, Types
<1>5. handler'[h].pc = pc
  BY <1>4, <1>6
<1> QED
  BY <1>4, <1>5 DEF AckRead, HandlerOnly, Acknowledges, pc

LEMMA AckWriteShape ==
    ASSUME Types, NEW h \in Handlers, AckWrite(h)
    PROVE  /\ handler' \in [Handlers -> Request] /\ OthersSame(h) /\ handler[h].pc = "acked"
           /\ handler'[h] = [handler[h] EXCEPT !.pc = "resolve", !.row = NoRow]
           /\ row' \in Rows /\ row'.active = handler[h].row.offered /\ row'.offered = None
           /\ row'.unmanaged = handler[h].row.unmanaged
           /\ checkIn' = handler[h].last
           /\ HandlerOnly /\ UNCHANGED <<stored, left, everStored>>
<1>1. handler[h] \in Request /\ handler[h].row \in Rows
  BY DEF Types, Request
<1> DEFINE req == [handler[h] EXCEPT !.pc = "resolve", !.row = NoRow]
<1>2. req \in Request
  BY <1>1, IdleTyped DEF Request, Pcs
<1>3. handler' = [handler EXCEPT ![h] = req]
  BY <1>1 DEF AckWrite, Types
<1>4. handler'[h] = req /\ OthersSame(h) /\ handler' \in [Handlers -> Request]
  BY <1>2, <1>3 DEF OthersSame, Types
<1>5. /\ row' \in Rows /\ row'.active = handler[h].row.offered /\ row'.offered = None
      /\ row'.unmanaged = handler[h].row.unmanaged
  BY <1>1 DEF AckWrite, Rows, Maybe
<1> QED
  BY <1>4, <1>5 DEF AckWrite, HandlerOnly

\* What resolution selects suits the document it was resolved for.
LEMMA SelectedSuits ==
    ASSUME NEW r, NEW document, NEW v \in SelectHighestCompatible(r, document)
    PROVE  v \in Artifacts /\ Missing(v, document) = {} /\ TargetMatches(v, document.facts)
  BY DEF SelectHighestCompatible, Processable, Candidates, VariantsOf, Artifacts

\* A variant for an endpoint of which nothing is known suits any endpoint.
LEMMA LegacySuits ==
    ASSUME NEW v \in Artifacts, NEW c \in Contents,
           Missing(v, LegacyDocument) = {}, TargetMatches(v, LegacyDocument.facts)
    PROVE  Suits(v, c)
<1>1. /\ {<<"schema", s>> : s \in {Variants[v].schema} \ LegacyDocument.schemas} = {}
      /\ Variants[v].needs \ LegacyDocument.contracts = {}
  BY DEF Missing
<1>2. Variants[v].schema \in LegacyDocument.schemas
  BY <1>1
<1>3. /\ Variants[v].schema \in DocumentOf[c].schemas
      /\ Variants[v].needs \ DocumentOf[c].contracts = {}
  BY <1>1, <1>2, LegacyIsLeast
<1>4. {Variants[v].schema} \ DocumentOf[c].schemas = {}
  BY <1>3
<1>5. Missing(v, DocumentOf[c]) = {}
  BY <1>3, <1>4 DEF Missing
<1>6. \A f \in Dimensions : LegacyDocument.facts[f] = "unknown"
  BY DEF LegacyDocument
<1>7. \A f \in Dimensions : Variants[v].target[f] = {}
  BY <1>6, VariantsAreComposed DEF TargetMatches, Artifacts
<1> QED
  BY <1>5, <1>7 DEF Suits, TargetMatches

LEMMA ResolveShape ==
    ASSUME Types, NEW h \in Handlers, Resolve(h)
    PROVE  /\ handler' \in [Handlers -> Request] /\ OthersSame(h) /\ handler[h].pc = "resolve"
           /\ handler'[h].pc = "target"
           /\ handler'[h].last = handler[h].last /\ handler'[h].seen = handler[h].seen
           /\ handler'[h].declared = handler[h].declared
           /\ handler'[h].full = handler[h].full
           /\ handler'[h].accepted = handler[h].accepted
           /\ handler'[h].checkIn = handler[h].checkIn
           /\ handler'[h].row = handler[h].row /\ handler'[h].artifact = handler[h].artifact
           /\ handler'[h].unmanaged => handler[h].checkIn = None /\ row.active = None
           /\ /\ handler[h].supports \in {None, handler[h].declared["capability"]}
              /\ handler[h].declared["capability"] \in Contents
              /\ Some(handler'[h].selected)
              => Suits(handler'[h].selected, handler[h].declared["capability"])
           /\ HandlerOnly /\ UNCHANGED <<row, stored, checkIn, left, everStored>>
<1> DEFINE d == SelectionDocument(h)
           document == IF d \in Contents THEN DocumentOf[d] ELSE LegacyDocument
           best == IF d = None THEN {} ELSE
                      SelectHighestCompatible(handler[h].release, document)
           Moved(e, w) == handler' = [handler EXCEPT
               ![h].pc = "target", ![h].supports = e, ![h].selected = w,
               ![h].unmanaged = w = None /\ ~HasActiveArtifact(h)]
<1>13. \E e \in {d} :
       \E doc \in {IF e \in Contents THEN DocumentOf[e] ELSE LegacyDocument} :
       \E b \in {IF e = None THEN {} ELSE SelectHighestCompatible(handler[h].release, doc)} :
       \E w \in IF b = {} THEN {None} ELSE b : Moved(e, w)
  BY DEF Resolve
<1> HIDE DEF Moved
<1>1. PICK v \in IF best = {} THEN {None} ELSE best : Moved(d, v)
  BY <1>13
<1> DEFINE unmanaged == v = None /\ ~HasActiveArtifact(h)
           req == [handler[h] EXCEPT !.pc = "target", !.supports = d, !.selected = v,
                                     !.unmanaged = unmanaged]
<1>2. handler[h] \in Request
  BY DEF Types
<1>3. d \in Maybe(Contents) \cup {Legacy}
  BY <1>2 DEF SelectionDocument, Request, Maybe
<1> HIDE DEF d
<1>4. v \in Maybe(Artifacts)
  BY SelectedSuits DEF Maybe
<1>5. unmanaged \in BOOLEAN
  OBVIOUS
<1>6. unmanaged => handler[h].checkIn = None /\ row.active = None
  BY DEF HasActiveArtifact, Some
<1> HIDE DEF unmanaged, best
<1>7. req \in Request
  BY <1>2, <1>3, <1>4, <1>5 DEF Request, Pcs
<1>8. handler' = [handler EXCEPT ![h] = req]
  BY <1>1, <1>2 DEF Types, unmanaged, Moved
<1>9. handler'[h] = req /\ OthersSame(h) /\ handler' \in [Handlers -> Request]
  BY <1>7, <1>8 DEF OthersSame, Types
<1>10. /\ req.pc = "target" /\ req.last = handler[h].last /\ req.declared = handler[h].declared
       /\ req.seen = handler[h].seen /\ req.full = handler[h].full
       /\ req.accepted = handler[h].accepted /\ req.checkIn = handler[h].checkIn
       /\ req.row = handler[h].row /\ req.artifact = handler[h].artifact
       /\ req.unmanaged = unmanaged /\ req.selected = v
  BY <1>2 DEF Request
<1>11. ASSUME handler[h].supports \in {None, handler[h].declared["capability"]},
              handler[h].declared["capability"] \in Contents, Some(v)
       PROVE  Suits(v, handler[h].declared["capability"])
  <2> DEFINE c == handler[h].declared["capability"]
  <2>1. d # None /\ v \in SelectHighestCompatible(handler[h].release, document)
    BY <1>1, <1>11 DEF best, Some
  <2>2. d = c \/ d = Legacy
    BY <1>11, <2>1 DEF d, SelectionDocument, Some
  <2>3. CASE d = c
    BY <1>11, <2>1, <2>3, SelectedSuits DEF Suits
  <2>4. CASE d = Legacy
    <3>1. document = LegacyDocument
      BY <2>4, ConstantFacts
    <3> HIDE DEF document
    <3>2. /\ v \in Artifacts /\ Missing(v, LegacyDocument) = {}
          /\ TargetMatches(v, LegacyDocument.facts)
      BY <2>1, <3>1, SelectedSuits
    <3> QED
      BY <1>11, <3>2, LegacySuits
  <2> QED
    BY <2>2, <2>3, <2>4
<1> HIDE DEF req
<1> QED
  BY <1>6, <1>9, <1>10, <1>11 DEF Resolve, HandlerOnly

LEMMA TargetReadShape ==
    ASSUME Types, NEW h \in Handlers, TargetRead(h)
    PROVE  /\ handler' \in [Handlers -> Request] /\ OthersSame(h) /\ handler[h].pc = "target"
           /\ handler'[h] = [handler[h] EXCEPT !.pc = "write", !.row = row]
           /\ HandlerOnly /\ UNCHANGED <<row, stored, checkIn, left, everStored>>
<1>1. handler[h] \in Request /\ row \in Rows
  BY DEF Types
<1> DEFINE req == [handler[h] EXCEPT !.pc = "write", !.row = row]
<1>2. req \in Request
  BY <1>1 DEF Request, Pcs
<1>3. handler' = [handler EXCEPT ![h] = req]
  BY <1>1 DEF TargetRead, Types
<1>4. handler'[h] = req /\ OthersSame(h) /\ handler' \in [Handlers -> Request]
  BY <1>2, <1>3 DEF OthersSame, Types
<1> QED
  BY <1>4 DEF TargetRead, HandlerOnly

LEMMA TargetWriteShape ==
    ASSUME Types, NEW h \in Handlers, TargetWrite(h)
    PROVE  \E offer \in Maybe(Artifacts) :
           /\ offer \in {None, handler[h].selected}
           /\ handler[h].selected = None => offer = None
           /\ handler' \in [Handlers -> Request] /\ OthersSame(h) /\ handler[h].pc = "write"
           /\ handler'[h].pc = "answered" /\ handler'[h].artifact = offer
           /\ handler'[h].row = NoRow
           /\ handler'[h].last = handler[h].last /\ handler'[h].seen = handler[h].seen
           /\ handler'[h].declared = handler[h].declared
           /\ handler'[h].full = handler[h].full
           /\ handler'[h].checkIn = handler[h].checkIn
           /\ handler'[h].accepted \subseteq handler[h].accepted
           /\ row' \in Rows
           /\ row'.active = IF handler[h].row.active = None THEN handler[h].checkIn
                            ELSE handler[h].row.active
           /\ row'.offered = IF Some(offer) THEN offer ELSE handler[h].row.offered
           /\ row'.unmanaged => handler[h].selected = None /\ handler[h].unmanaged
           /\ HandlerOnly /\ UNCHANGED <<stored, checkIn, left, everStored>>
<1> DEFINE req == handler[h]
           blocked == req.selected = None
           offer == IF blocked \/ Unchanged(req.last, req.selected) THEN None ELSE req.selected
           new == [req EXCEPT !.pc = "answered", !.row = NoRow, !.artifact = offer,
                       !.accepted = IF Some(req.supports) THEN req.accepted ELSE {}]
           seeded == Seeded(req.row, h)
           Wrote(q, b, f) ==
              /\ row' = [Seeded(q.row, h) EXCEPT
                     !.target = q.release, !.blocked = IF b THEN q.release ELSE None,
                     !.unmanaged = b /\ q.unmanaged, !.offered = IF Some(f) THEN f ELSE @]
              /\ handler' = [handler EXCEPT
                     ![h] = [q EXCEPT !.pc = "answered", !.row = NoRow, !.artifact = f,
                         !.accepted = IF Some(q.supports) THEN @ ELSE {}]]
<1>1. \E q \in {req} : \E b \in {q.selected = None} :
      \E f \in {IF b \/ Unchanged(q.last, q.selected) THEN None ELSE q.selected} :
         Wrote(q, b, f)
  BY DEF TargetWrite
<1> HIDE DEF Wrote
<1>2. Wrote(req, blocked, offer)
  BY <1>1
<1>3. req \in Request /\ req.row \in Rows /\ req.selected \in Maybe(Artifacts)
      /\ req.release \in Maybe(Releases) /\ req.unmanaged \in BOOLEAN
  BY DEF Types, Request
<1>4. offer \in Maybe(Artifacts) /\ offer \in {None, req.selected} /\ (blocked => offer = None)
  BY <1>3 DEF Maybe
<1> HIDE DEF offer
<1>5. /\ seeded \in Rows
      /\ seeded.active = IF req.row.active = None THEN req.checkIn ELSE req.row.active
      /\ seeded.offered = req.row.offered
  BY <1>3 DEF Seeded, Rows, Request
<1>6. /\ new \in Request /\ new.pc = "answered" /\ new.artifact = offer /\ new.row = NoRow
      /\ new.last = req.last /\ new.seen = req.seen /\ new.declared = req.declared
      /\ new.full = req.full /\ new.checkIn = req.checkIn /\ new.accepted \subseteq req.accepted
  BY <1>3, <1>4, IdleTyped DEF Request, Pcs
<1>7. handler' = [handler EXCEPT ![h] = new]
  BY <1>2 DEF Wrote
<1>8. row' = [seeded EXCEPT !.target = req.release, !.blocked = IF blocked THEN req.release ELSE None,
                  !.unmanaged = blocked /\ req.unmanaged,
                  !.offered = IF Some(offer) THEN offer ELSE seeded.offered]
  BY <1>2 DEF Wrote
<1> HIDE DEF seeded, new
<1>9. handler'[h] = new /\ OthersSame(h) /\ handler' \in [Handlers -> Request]
  BY <1>6, <1>7 DEF OthersSame, Types
<1>10. /\ row' \in Rows /\ row'.active = seeded.active
       /\ row'.offered = IF Some(offer) THEN offer ELSE seeded.offered
       /\ row'.unmanaged = (blocked /\ req.unmanaged)
  <2> DEFINE un == blocked /\ req.unmanaged
             bl == IF blocked THEN req.release ELSE None
             of == IF Some(offer) THEN offer ELSE seeded.offered
  <2>1. un \in BOOLEAN /\ bl \in Maybe(Releases) /\ of \in Maybe(Artifacts)
    BY <1>3, <1>4, <1>5 DEF Maybe, Rows
  <2>2. row' = [seeded EXCEPT !.target = req.release, !.blocked = bl, !.unmanaged = un,
                              !.offered = of]
    BY <1>8
  <2> HIDE DEF un, bl, of
  <2>3. row' \in Rows /\ row'.active = seeded.active /\ row'.offered = of /\ row'.unmanaged = un
    BY <1>3, <1>5, <2>1, <2>2 DEF Rows
  <2> QED
    BY <2>3 DEF un, of
<1> QED
  BY <1>4, <1>5, <1>6, <1>9, <1>10 DEF TargetWrite, HandlerOnly

LEMMA ThreeDocs == Cardinality(Docs) = 3 /\ \A d \in Docs : \E i \in 1..3 : PersistOrder[i] = d
<1>1. Docs = {"capability", "systemInformation", "targeting"}
  BY DEF Docs
<1>2. /\ IsFiniteSet({}) /\ Cardinality({}) = 0
      /\ IsFiniteSet({"capability"}) /\ Cardinality({"capability"}) = 1
  BY FS_EmptySet, FS_Singleton
<1>3. /\ IsFiniteSet({"capability"} \cup {"systemInformation"})
      /\ Cardinality({"capability"} \cup {"systemInformation"}) = 2
  BY <1>2, FS_AddElement
<1>4. Cardinality(({"capability"} \cup {"systemInformation"}) \cup {"targeting"}) = 3
  BY <1>3, FS_AddElement
<1>5. ({"capability"} \cup {"systemInformation"}) \cup {"targeting"} = Docs
  BY <1>1
<1> QED
  BY <1>1, <1>4, <1>5 DEF PersistOrder

LEMMA DocumentsShape ==
    ASSUME Types, NEW h \in Handlers, Documents(h)
    PROVE  /\ handler' \in [Handlers -> Request] /\ OthersSame(h)
           /\ handler[h].pc = "documents" /\ handler'[h].pc \in {"ack", "failed"}
           /\ handler'[h].last = handler[h].last /\ handler'[h].seen = handler[h].seen
           /\ handler'[h].declared = handler[h].declared
           /\ handler'[h].full = handler[h].full
           /\ handler'[h].checkIn = handler[h].checkIn
           /\ handler'[h].row = handler[h].row /\ handler'[h].artifact = handler[h].artifact
           /\ handler'[h].supports \in {None, handler[h].declared["capability"]}
           /\ \A d \in handler'[h].accepted :
                 \/ d \in handler[h].full
                 \/ /\ Some(handler[h].declared[d])
                    /\ handler[h].declared[d] \in {stored[d], handler[h].seen[d]}
           /\ handler'[h].pc = "ack" =>
                 \A d \in handler[h].full : handler[h].declared[d] \in everStored'[d]
           /\ stored' \in [Docs -> Maybe(Contents)]
           /\ everStored' \in [Docs -> SUBSET Contents]
           /\ \A d \in Docs : /\ everStored[d] \subseteq everStored'[d]
                              /\ stored'[d] = stored[d] \/ stored'[d] \in everStored'[d]
           /\ left' \in Scenario /\ left'.overlap = left.overlap
           /\ HandlerOnly /\ UNCHANGED <<row, checkIn>>
<1> DEFINE req == handler[h]
           Restored(q) == {d \in Docs \ q.full : /\ Some(q.declared[d])
                                                 /\ Restores(q.declared[d], Held(q, d))}
           Wrote(q, hashOnly, restored, n, written) ==
              /\ n < Cardinality(Docs) => left.faults > 0
              /\ stored' = [d \in Docs |-> IF d \in written THEN q.declared[d] ELSE stored[d]]
              /\ everStored' = [d \in Docs |->
                     IF d \in written THEN everStored[d] \cup {q.declared[d]}
                     ELSE everStored[d]]
              /\ handler' = [handler EXCEPT
                     ![h].pc = IF GoesOn(n) THEN "ack" ELSE "failed",
                     ![h].accepted = restored \cup q.full,
                     ![h].requested = {d \in hashOnly \ restored : Some(q.declared[d])},
                     ![h].supports = IF "capability" \in q.full THEN q.declared["capability"]
                                     ELSE IF "capability" \in restored
                                     THEN stored["capability"] ELSE None]
              /\ left' = [left EXCEPT !.faults = IF n < Cardinality(Docs) THEN @ - 1 ELSE @]
              /\ UNCHANGED <<agent, facts, row, checkIn, release, processed>>
<1>1. \E q \in {req} : \E hashOnly \in {Docs \ q.full} :
      \E restored \in {{d \in hashOnly : /\ Some(q.declared[d])
                                        /\ Restores(q.declared[d], Held(q, d))}} :
      \E n \in 0..Cardinality(Docs) :
      \E written \in {{PersistOrder[i] : i \in 1..n} \cap q.full} :
         Wrote(q, hashOnly, restored, n, written)
  BY DEF Documents
<1>2. handler[h].pc = "documents"
  BY DEF Documents
<1> HIDE DEF Wrote
<1>3. PICK n \in 0..3 :
         Wrote(req, Docs \ req.full, Restored(req), n, {PersistOrder[i] : i \in 1..n} \cap req.full)
  BY <1>1, ThreeDocs
<1> DEFINE restored == Restored(req)
           hashOnly == Docs \ req.full
           written == {PersistOrder[i] : i \in 1..n} \cap req.full
           pc == IF GoesOn(n) THEN "ack" ELSE "failed"
           accepted == restored \cup req.full
           requested == {d \in hashOnly \ restored : Some(req.declared[d])}
           supports == IF "capability" \in req.full THEN req.declared["capability"]
                       ELSE IF "capability" \in restored THEN stored["capability"] ELSE None
           new == [req EXCEPT !.pc = pc, !.accepted = accepted, !.requested = requested,
                              !.supports = supports]
<1>4. /\ req \in Request /\ req.full \subseteq Docs
      /\ req.declared \in [Docs -> Maybe(Contents)]
      /\ stored \in [Docs -> Maybe(Contents)] /\ everStored \in [Docs -> SUBSET Contents]
      /\ \A d \in req.full : req.declared[d] \in Contents
      /\ "capability" \in Docs
  BY DEF Types, Request, Docs
<1>5. pc \in {"ack", "failed"} /\ (pc = "ack" => n = 3)
  BY ThreeDocs DEF GoesOn
<1>6. accepted \subseteq Docs /\ requested \subseteq Docs
  BY <1>4
<1>7. \A d \in restored : /\ d \in Docs /\ Some(req.declared[d])
                          /\ req.declared[d] \in {stored[d], req.seen[d]}
  BY DEF Restores, Held
<1>8. supports \in {None, req.declared["capability"]} /\ supports \in Maybe(Contents)
  <2>1. "capability" \in restored => req.declared["capability"] = stored["capability"]
    BY DEF Restores, Held
  <2> HIDE DEF restored
  <2> QED
    BY <1>4, <2>1 DEF Maybe
<1>9. handler' = [handler EXCEPT ![h].pc = pc, ![h].accepted = accepted,
                     ![h].requested = requested, ![h].supports = supports]
  BY <1>3 DEF Wrote
<1>10. pc = "ack" => written = req.full
  BY <1>4, <1>5, ThreeDocs
<1>11. /\ stored' = [d \in Docs |-> IF d \in written THEN req.declared[d] ELSE stored[d]]
       /\ everStored' = [d \in Docs |-> IF d \in written THEN everStored[d] \cup {req.declared[d]}
                                        ELSE everStored[d]]
       /\ HandlerOnly /\ UNCHANGED <<row, checkIn>>
  BY <1>3 DEF Wrote, HandlerOnly
<1>12. written \subseteq req.full
  OBVIOUS
<1>13. left' \in Scenario /\ left'.overlap = left.overlap
  <2>1. /\ left' = [left EXCEPT !.faults = IF n < 3 THEN @ - 1 ELSE @]
        /\ n < 3 => left.faults > 0
    BY <1>3, ThreeDocs DEF Wrote
  <2>2. left \in Scenario
    BY DEF Types
  <2> QED
    BY <2>1, <2>2 DEF Scenario
<1> HIDE DEF restored, hashOnly, written, pc, accepted, requested, supports
<1>14. /\ new \in Request /\ new.pc = pc /\ new.accepted = accepted /\ new.supports = supports
       /\ new.last = req.last /\ new.seen = req.seen /\ new.declared = req.declared
       /\ new.full = req.full /\ new.checkIn = req.checkIn
       /\ new.row = req.row /\ new.artifact = req.artifact
  <2>1. pc \in Pcs /\ accepted \in SUBSET Docs /\ requested \in SUBSET Docs
    BY <1>5, <1>6 DEF Pcs
  <2> QED
    BY <1>4, <1>8, <2>1 DEF Request
<1>15. handler'[h] = new /\ OthersSame(h) /\ handler' \in [Handlers -> Request]
  <2>1. handler' = [handler EXCEPT ![h] = new]
    BY <1>4, <1>9 DEF Types
  <2> HIDE DEF new
  <2> QED
    BY <1>14, <2>1 DEF OthersSame, Types
<1>16. /\ stored' \in [Docs -> Maybe(Contents)] /\ everStored' \in [Docs -> SUBSET Contents]
       /\ \A d \in Docs : /\ everStored[d] \subseteq everStored'[d]
                          /\ stored'[d] = stored[d] \/ stored'[d] \in everStored'[d]
  BY <1>4, <1>11, <1>12 DEF Maybe
<1>17. pc = "ack" => \A d \in req.full : req.declared[d] \in everStored'[d]
  BY <1>4, <1>10, <1>11
<1>18. \A d \in accepted : \/ d \in req.full
                           \/ /\ Some(req.declared[d])
                              /\ req.declared[d] \in {stored[d], req.seen[d]}
  BY <1>7 DEF accepted
<1> HIDE DEF new
<1> QED
  BY <1>2, <1>5, <1>8, <1>11, <1>13, <1>14, <1>15, <1>16, <1>17, <1>18

\* What the steps of the agent leave alone.
AgentOnly == UNCHANGED <<facts, row, stored, checkIn, release, everStored>>

LEMMA ReceiveShape ==
    ASSUME Types, NEW h \in Handlers, Receive(h)
    PROVE  /\ handler' = [handler EXCEPT ![h] = Idle]
           /\ agent.m.call = h /\ agent.m.phase = "waiting" /\ handler[h].pc = "answered"
           /\ agent' \in Agent /\ agent'.m.call = None
           /\ agent'.m.phase = IF Some(handler[h].artifact) THEN "applying" ELSE "ready"
           /\ agent'.m.offer = handler[h].artifact /\ agent'.m.last = agent.m.last
           /\ \A d \in Docs : \/ agent'.accepted[d] \in {None, agent.accepted[d]}
                              \/ /\ d \in handler[h].accepted
                                 /\ agent'.accepted[d] = handler[h].declared[d]
           /\ AgentOnly /\ UNCHANGED <<left, processed>>
<1> DEFINE ans == handler[h]
           accepted == AcceptedAfter(agent.accepted, ans)
           infoSent == /\ "systemInformation" \in ans.full
                       /\ accepted["systemInformation"] = ans.declared["systemInformation"]
           m == [agent.m EXCEPT
                    !.phase = IF Some(ans.artifact) THEN "applying" ELSE "ready",
                    !.offer = ans.artifact, !.call = None,
                    !.pending = IF infoSent THEN None ELSE @]
           sent == IF infoSent THEN ans.declared["systemInformation"] ELSE agent.sent
           elapsed == IF infoSent THEN 0 ELSE agent.elapsed
<1>1. /\ ans \in Request /\ agent \in Agent /\ agent.m \in Memory
      /\ agent.accepted \in [Docs -> Maybe(Contents)]
      /\ ans.declared \in [Docs -> Maybe(Contents)] /\ ans.artifact \in Maybe(Artifacts)
  BY DEF Types, Request, Agent
<1>2. agent' = [m |-> m, accepted |-> accepted, sent |-> sent, elapsed |-> elapsed]
  BY DEF Receive
<1>3. accepted \in [Docs -> Maybe(Contents)]
  BY <1>1 DEF AcceptedAfter, Maybe
<1>4. \A d \in Docs : \/ accepted[d] \in {None, agent.accepted[d]}
                      \/ d \in ans.accepted /\ accepted[d] = ans.declared[d]
  BY <1>1 DEF AcceptedAfter
<1> HIDE DEF accepted
<1>5. sent \in Maybe(Contents) /\ elapsed \in 0..Interval
  BY <1>1 DEF Agent, Docs, Interval
<1> HIDE DEF infoSent
<1>6. /\ m \in Memory /\ m.call = None /\ m.offer = ans.artifact /\ m.last = agent.m.last
      /\ m.phase = IF Some(ans.artifact) THEN "applying" ELSE "ready"
  BY <1>1 DEF Memory, Maybe
<1> HIDE DEF m, sent, elapsed
<1>7. agent' \in Agent /\ agent'.m = m /\ agent'.accepted = accepted
  BY <1>2, <1>3, <1>5, <1>6 DEF Agent
<1> QED
  BY <1>4, <1>6, <1>7 DEF Receive, AgentOnly

LEMMA ApplyShape ==
    ASSUME Types, NEW ok \in BOOLEAN, Apply(ok)
    PROVE  /\ handler' = handler
           /\ agent.m.phase = "applying" /\ Some(agent.m.offer) /\ agent.m.call = None
           /\ agent' \in Agent /\ agent'.m.call = None
           /\ agent'.m.phase = "ready" /\ agent'.m.offer = None
           /\ agent'.accepted = agent.accepted
           /\ agent'.m.last = IF ok THEN agent.m.offer ELSE agent.m.last
           /\ processed' = IF ok THEN processed \cup {agent.m.offer} ELSE processed
           /\ processed' \in SUBSET Artifacts
           /\ left' \in Scenario /\ left'.overlap = left.overlap
           /\ AgentOnly
<1> DEFINE m == Applied(agent.m, ok)
<1>1. agent \in Agent /\ agent.m \in Memory /\ left \in Scenario
  BY DEF Types, Agent
<1>2. agent.m.phase = "applying" /\ Some(agent.m.offer) /\ agent.m.call = None
  BY DEF Types, Apply, Some
<1>3. /\ m \in Memory /\ m.phase = "ready" /\ m.offer = None /\ m.call = None
      /\ m.last = IF ok THEN agent.m.offer ELSE agent.m.last
  BY <1>1, <1>2 DEF Memory, Applied, Maybe
<1> HIDE DEF m
<1>4. agent' \in Agent /\ agent'.m = m /\ agent'.accepted = agent.accepted
  BY <1>1, <1>3 DEF Apply, Agent, m
<1>5. left' \in Scenario /\ left'.overlap = left.overlap
  <2>1. left' = [left EXCEPT !.faults = IF ok THEN @ ELSE @ - 1] /\ (~ok => left.faults > 0)
    BY DEF Apply
  <2> QED
    BY <1>1, <2>1 DEF Scenario
<1>6. processed' = IF ok THEN processed \cup {agent.m.offer} ELSE processed
  BY DEF Apply
<1>7. processed' \in SUBSET Artifacts
  BY <1>1, <1>2, <1>6 DEF Types, Memory, Some, Maybe
<1> QED
  BY <1>2, <1>3, <1>4, <1>5, <1>6, <1>7 DEF Apply, AgentOnly

\* A call that ends without an answer, an error, and a restart.
LEMMA CallEnds ==
    ASSUME Types, agent.m.phase = "waiting",
           agent' = [agent EXCEPT !.m.phase = "ready", !.m.call = None]
    PROVE  /\ agent' \in Agent /\ agent'.m.phase = "ready" /\ agent'.m.call = None
           /\ agent'.m.last = agent.m.last /\ agent'.m.offer = None /\ agent.m.offer = None
           /\ agent'.accepted = agent.accepted
<1>1. agent \in Agent /\ agent.m \in Memory /\ agent.m.offer = None
  BY DEF Types, Agent, Some
<1> DEFINE m == [agent.m EXCEPT !.phase = "ready", !.call = None]
<1>2. /\ m \in Memory /\ m.phase = "ready" /\ m.call = None /\ m.last = agent.m.last
      /\ m.offer = agent.m.offer
  BY <1>1 DEF Memory, Maybe
<1>3. agent' = [agent EXCEPT !.m = m]
  BY <1>1 DEF Agent, Memory
<1> HIDE DEF m
<1> QED
  BY <1>1, <1>2, <1>3 DEF Agent

LEMMA RestartShape ==
    ASSUME Types, Restart
    PROVE  /\ agent' \in Agent /\ agent'.m = FreshMemory /\ agent'.accepted = agent.accepted
           /\ handler' = [h \in Handlers |->
                 IF h = agent.m.call /\ ~left.overlap THEN Idle ELSE handler[h]]
           /\ left' \in Scenario /\ left'.overlap = left.overlap
           /\ AgentOnly /\ UNCHANGED processed
<1>1. agent \in Agent /\ left \in Scenario
  BY DEF Types
<1>2. agent' \in Agent /\ agent'.m = FreshMemory /\ agent'.accepted = agent.accepted
  <2>1. agent' = [agent EXCEPT !.m = FreshMemory]
    BY DEF Restart
  <2> QED
    BY <1>1, <2>1, FreshTyped DEF Agent
<1>3. left' \in Scenario /\ left'.overlap = left.overlap
  <2>1. left' = [left EXCEPT !.faults = @ - 1] /\ left.faults > 0
    BY DEF Restart, Fault
  <2> QED
    BY <1>1, <2>1 DEF Scenario
<1> QED
  BY <1>2, <1>3 DEF Restart, AgentOnly

LEMMA FaultTyped == Types /\ (Fault \/ Change) => left' \in Scenario /\ left'.overlap = left.overlap
  BY DEF Types, Fault, Change, Scenario

-----------------------------------------------------------------------------
(***************************************************************************)
(* Every step keeps the invariant.                                         *)
(***************************************************************************)
LEMMA IdleKeeps ==
    ASSUME Types, NEW h \in Handlers
    PROVE  /\ ProcessedIn(Idle, processed') /\ EvidenceIn(Idle, everStored') /\ SuitedIn(Idle)
  BY IdleTyped DEF ProcessedIn, EvidenceIn, SuitedIn, Settled, Maybe, Some

LEMMA MoreKeeps ==
    ASSUME Types, NEW h \in Handlers
    PROVE  /\ ProcessedIn(handler[h], processed) /\ processed \subseteq processed'
              => ProcessedIn(handler[h], processed')
           /\ /\ EvidenceIn(handler[h], everStored)
              /\ \A d \in Docs : everStored[d] \subseteq everStored'[d]
              => EvidenceIn(handler[h], everStored')
<1>1. handler[h].accepted \subseteq Docs
  BY DEF Types, Request
<1> QED
  BY <1>1 DEF ProcessedIn, EvidenceIn, Maybe

\* A step that ends calls, or none, and touches neither row nor documents.
LEMMA EndsKeep ==
    ASSUME DeliveryInv,
           handler' \in [Handlers -> Request],
           \A g \in Handlers : handler'[g] = handler[g] \/ handler'[g] = Idle,
           processed \subseteq processed', agent'.m.last \in Maybe(processed'),
           \A d \in Docs : everStored[d] \subseteq everStored'[d],
           \A d \in Docs : stored'[d] \in Maybe(everStored'[d]),
           \A d \in Docs : agent'.accepted[d] \in Maybe(everStored'[d]),
           UNCHANGED <<row, checkIn>>
    PROVE  Processed' /\ Evidence' /\ Suited'
<1>1. ASSUME NEW g \in Handlers
      PROVE  /\ ProcessedIn(handler'[g], processed') /\ EvidenceIn(handler'[g], everStored')
             /\ SuitedIn(handler'[g])
  <2>1. CASE handler'[g] = handler[g]
    BY <2>1, MoreKeeps DEF DeliveryInv, Processed, Evidence, Suited
  <2>2. CASE handler'[g] = Idle
    BY <2>2, IdleKeeps DEF DeliveryInv
  <2> QED
    BY <2>1, <2>2
<1>2. row'.active \in Maybe(processed') /\ checkIn' \in Maybe(processed')
  BY DEF DeliveryInv, Processed, Maybe
<1> QED
  BY <1>1, <1>2 DEF Processed, Evidence, Suited

LEMMA AskKeeps ==
    ASSUME DeliveryInv, NEW h \in Handlers, Ask(h)
    PROVE  DeliveryInv'
<1>1. Types
  BY DEF DeliveryInv
<1>2. /\ handler'[h].pc = "documents" /\ handler'[h].last = agent.m.last
      /\ handler'[h].declared = Declared /\ handler'[h].full = Full
      /\ handler'[h].seen = stored /\ handler'[h].checkIn = checkIn
      /\ handler'[h].row = NoRow /\ handler'[h].artifact = None
      /\ agent' \in Agent /\ agent'.m.phase = "waiting" /\ agent'.m.call = h
      /\ agent'.m.offer = agent.m.offer /\ agent'.m.last = agent.m.last
      /\ agent'.accepted = agent.accepted
      /\ agent.m.phase = "ready" /\ handler[h].pc = "idle"
      /\ handler' \in [Handlers -> Request] /\ OthersSame(h)
      /\ UNCHANGED <<facts, row, stored, checkIn, release, left, processed, everStored>>
  BY <1>1, AskShape
<1>3. Types'
  <2>1. \A d \in handler'[h].full : handler'[h].declared[d] \in Contents
    BY <1>1, <1>2, DeclaredTyped
  <2> QED
    BY <1>1, <1>2, <2>1, ConstantFacts DEF Types, OthersSame, Some
<1>4. ProcessedIn(handler'[h], processed)
  BY <1>2, IdleTyped DEF ProcessedIn, DeliveryInv, Processed, Maybe
<1>5. EvidenceIn(handler'[h], everStored)
  BY <1>2 DEF EvidenceIn, DeliveryInv, Evidence, Settled
<1>6. SuitedIn(handler'[h])
  BY <1>1, <1>2, DeclaredTyped DEF SuitedIn, Some
<1>7. Processed' /\ Evidence' /\ Suited'
  BY <1>2, <1>4, <1>5, <1>6 DEF DeliveryInv, Processed, Evidence, Suited, OthersSame
<1>8. Alone'
  <2> SUFFICES ASSUME ~left.overlap
               PROVE  Alone'
    BY <1>2 DEF Alone
  <2>1. \A g \in Handlers : handler[g].pc = "idle"
    BY <1>1, <1>2, ConstantFacts DEF DeliveryInv, Alone, Types, Some
  <2>2. \A g \in Handlers \ {h} : handler'[g].pc = "idle"
    BY <1>2, <2>1 DEF OthersSame
  <2> QED
    BY <1>2, <2>2 DEF DeliveryInv, Alone, Some
<1> QED
  BY <1>3, <1>7, <1>8 DEF DeliveryInv

LEMMA DocumentsKeeps ==
    ASSUME DeliveryInv, NEW h \in Handlers, Documents(h)
    PROVE  DeliveryInv'
<1>1. Types
  BY DEF DeliveryInv
<1>2. /\ handler' \in [Handlers -> Request] /\ OthersSame(h)
      /\ handler[h].pc = "documents" /\ handler'[h].pc \in {"ack", "failed"}
      /\ handler'[h].last = handler[h].last /\ handler'[h].seen = handler[h].seen
      /\ handler'[h].declared = handler[h].declared
      /\ handler'[h].full = handler[h].full
      /\ handler'[h].checkIn = handler[h].checkIn
      /\ handler'[h].row = handler[h].row /\ handler'[h].artifact = handler[h].artifact
      /\ handler'[h].supports \in {None, handler[h].declared["capability"]}
      /\ stored' \in [Docs -> Maybe(Contents)]
      /\ everStored' \in [Docs -> SUBSET Contents]
      /\ left' \in Scenario /\ left'.overlap = left.overlap
      /\ UNCHANGED <<agent, facts, release, processed, row, checkIn>>
  BY <1>1, DocumentsShape DEF HandlerOnly
<1>3. /\ \A d \in handler'[h].accepted :
            \/ d \in handler[h].full
            \/ /\ Some(handler[h].declared[d])
               /\ handler[h].declared[d] \in {stored[d], handler[h].seen[d]}
      /\ handler'[h].pc = "ack" =>
            \A d \in handler[h].full : handler[h].declared[d] \in everStored'[d]
      /\ \A d \in Docs : /\ everStored[d] \subseteq everStored'[d]
                         /\ stored'[d] = stored[d] \/ stored'[d] \in everStored'[d]
  BY <1>1, DocumentsShape
<1>4. Types'
  BY <1>1, <1>2 DEF Types, OthersSame
<1>5. ProcessedIn(handler'[h], processed)
  BY <1>2 DEF ProcessedIn, DeliveryInv, Processed
<1>6. EvidenceIn(handler'[h], everStored')
  <2>1. handler'[h].accepted \subseteq Docs
    BY <1>2 DEF Request
  <2>2. \A d \in Docs : /\ stored[d] \in Maybe(everStored'[d])
                        /\ handler[h].seen[d] \in Maybe(everStored'[d])
    BY <1>3 DEF DeliveryInv, Evidence, EvidenceIn, Maybe
  <2> QED
    BY <1>2, <1>3, <2>1, <2>2 DEF EvidenceIn, Settled, Maybe, Some
<1>7. SuitedIn(handler'[h])
  BY <1>2 DEF SuitedIn, DeliveryInv, Suited
<1>8. Processed' /\ Suited'
  BY <1>2, <1>5, <1>7 DEF DeliveryInv, Processed, Suited, OthersSame
<1>9. Evidence'
  <2>1. \A g \in Handlers : EvidenceIn(handler'[g], everStored')
    BY <1>1, <1>2, <1>3, <1>6, MoreKeeps DEF DeliveryInv, Evidence, OthersSame
  <2>2. \A d \in Docs : /\ stored'[d] \in Maybe(everStored'[d])
                        /\ agent.accepted[d] \in Maybe(everStored'[d])
    BY <1>3 DEF DeliveryInv, Evidence, Maybe
  <2> QED
    BY <1>2, <2>1, <2>2 DEF Evidence
<1>10. Alone'
  BY <1>2 DEF DeliveryInv, Alone, OthersSame, Suited, SuitedIn
<1> QED
  BY <1>4, <1>8, <1>9, <1>10 DEF DeliveryInv

LEMMA AckReadKeeps ==
    ASSUME DeliveryInv, NEW h \in Handlers, AckRead(h)
    PROVE  DeliveryInv'
<1>1. Types /\ handler[h] \in Request
  BY DEF DeliveryInv, Types
<1>2. /\ handler' \in [Handlers -> Request] /\ OthersSame(h) /\ handler[h].pc = "ack"
      /\ \/ /\ handler'[h].pc = "acked"
            /\ Some(handler[h].last) /\ row.offered = handler[h].last
         \/ /\ handler'[h].pc = "resolve"
            /\ ~(Some(handler[h].last) /\ row.offered = handler[h].last)
      /\ UNCHANGED <<agent, facts, release, processed, row, stored, checkIn, left, everStored>>
  BY <1>1, AckReadShape DEF HandlerOnly
<1>3. /\ handler'[h].last = handler[h].last /\ handler'[h].seen = handler[h].seen
      /\ handler'[h].declared = handler[h].declared
      /\ handler'[h].full = handler[h].full
      /\ handler'[h].accepted = handler[h].accepted
      /\ handler'[h].checkIn = handler[h].checkIn
      /\ handler'[h].row = row /\ handler'[h].artifact = handler[h].artifact
      /\ handler'[h].supports = handler[h].supports
      /\ handler'[h].unmanaged = handler[h].unmanaged
  <2>1. handler'[h] = [handler[h] EXCEPT !.release = release, !.row = row,
                                         !.pc = handler'[h].pc]
    BY <1>1, AckReadShape
  <2> DEFINE pc == handler'[h].pc
  <2>2. handler'[h] = [handler[h] EXCEPT !.release = release, !.row = row, !.pc = pc]
    BY <2>1
  <2> HIDE DEF pc
  <2> QED
    BY <1>1, <2>2 DEF Request
<1>4. Types'
  BY <1>1, <1>2, <1>3 DEF Types, OthersSame
<1>5. /\ ProcessedIn(handler'[h], processed) /\ EvidenceIn(handler'[h], everStored)
      /\ SuitedIn(handler'[h])
  BY <1>2, <1>3 DEF ProcessedIn, EvidenceIn, SuitedIn, Settled, DeliveryInv, Processed,
                    Evidence, Suited
<1>6. Processed' /\ Evidence' /\ Suited'
  BY <1>2, <1>5 DEF DeliveryInv, Processed, Evidence, Suited, OthersSame
<1>7. Alone'
  BY <1>2, <1>3 DEF DeliveryInv, Alone, OthersSame, Suited, SuitedIn
<1> QED
  BY <1>4, <1>6, <1>7 DEF DeliveryInv

LEMMA AckWriteKeeps ==
    ASSUME DeliveryInv, NEW h \in Handlers, AckWrite(h)
    PROVE  DeliveryInv'
<1>1. Types /\ handler[h] \in Request
  BY DEF DeliveryInv, Types
<1>2. /\ handler' \in [Handlers -> Request] /\ OthersSame(h) /\ handler[h].pc = "acked"
      /\ row' \in Rows /\ row'.active = handler[h].row.offered /\ row'.offered = None
      /\ row'.unmanaged = handler[h].row.unmanaged
      /\ checkIn' = handler[h].last
      /\ UNCHANGED <<agent, facts, release, processed, stored, left, everStored>>
  BY <1>1, AckWriteShape DEF HandlerOnly
<1>3. /\ handler'[h].pc = "resolve" /\ handler'[h].row = NoRow
      /\ handler'[h].last = handler[h].last /\ handler'[h].seen = handler[h].seen
      /\ handler'[h].declared = handler[h].declared
      /\ handler'[h].full = handler[h].full
      /\ handler'[h].accepted = handler[h].accepted
      /\ handler'[h].checkIn = handler[h].checkIn
      /\ handler'[h].artifact = handler[h].artifact
      /\ handler'[h].supports = handler[h].supports
  <2>1. handler'[h] = [handler[h] EXCEPT !.pc = "resolve", !.row = NoRow]
    BY <1>1, AckWriteShape
  <2> QED
    BY <1>1, <2>1 DEF Request
<1>4. Some(handler[h].last) /\ handler[h].row.offered = handler[h].last
      /\ handler[h].last \in Maybe(processed)
  BY <1>2 DEF DeliveryInv, Processed, ProcessedIn
<1>5. Types'
  <2>1. checkIn' \in Maybe(Artifacts)
    BY <1>1, <1>2 DEF Request
  <2> QED
    BY <1>1, <1>2, <1>3, <2>1 DEF Types, OthersSame
<1>6. /\ ProcessedIn(handler'[h], processed) /\ EvidenceIn(handler'[h], everStored)
      /\ SuitedIn(handler'[h])
  BY <1>2, <1>3, IdleTyped DEF ProcessedIn, EvidenceIn, SuitedIn, Settled, DeliveryInv,
                               Processed, Evidence, Suited, Maybe
<1>7. Processed' /\ Evidence' /\ Suited'
  BY <1>2, <1>4, <1>6 DEF DeliveryInv, Processed, Evidence, Suited, OthersSame
<1>8. Alone'
  <2> SUFFICES ASSUME ~left.overlap
               PROVE  Alone'
    BY <1>2 DEF Alone
  <2>1. /\ agent.m.call = h /\ agent.m.last = handler[h].last /\ handler[h].row = row
        /\ ~row.unmanaged
        /\ \A g \in Handlers \ {h} : handler'[g].pc = "idle"
    BY <1>2, <1>4 DEF DeliveryInv, Alone, OthersSame, Some
  <2>2. agent.m.offer = None /\ ~Some(handler[h].artifact)
    BY <1>1, <1>2, <2>1, ConstantFacts DEF Types, Some, DeliveryInv, Suited, SuitedIn
  <2>3. Some(row'.active) /\ ~row'.unmanaged
    BY <1>2, <1>4, <2>1
  <2> QED
    BY <1>2, <1>3, <2>1, <2>2, <2>3 DEF Alone, Some
<1> QED
  BY <1>5, <1>7, <1>8 DEF DeliveryInv

LEMMA ResolveKeeps ==
    ASSUME DeliveryInv, NEW h \in Handlers, Resolve(h)
    PROVE  DeliveryInv'
<1>1. Types
  BY DEF DeliveryInv
<1>2. /\ handler' \in [Handlers -> Request] /\ OthersSame(h) /\ handler[h].pc = "resolve"
      /\ handler'[h].pc = "target"
      /\ handler'[h].last = handler[h].last /\ handler'[h].seen = handler[h].seen
      /\ handler'[h].declared = handler[h].declared
      /\ handler'[h].full = handler[h].full
      /\ handler'[h].accepted = handler[h].accepted
      /\ handler'[h].checkIn = handler[h].checkIn
      /\ handler'[h].row = handler[h].row /\ handler'[h].artifact = handler[h].artifact
      /\ handler'[h].unmanaged => handler[h].checkIn = None /\ row.active = None
      /\ UNCHANGED <<agent, facts, release, processed, row, stored, checkIn, left, everStored>>
  BY <1>1, ResolveShape DEF HandlerOnly
<1>3. Some(handler'[h].selected) =>
         Suits(handler'[h].selected, handler[h].declared["capability"])
  <2>1. /\ handler[h].supports \in {None, handler[h].declared["capability"]}
        /\ handler[h].declared["capability"] \in Contents
    BY <1>2 DEF DeliveryInv, Suited, SuitedIn
  <2> QED
    BY <1>1, <2>1, ResolveShape
<1>4. Types'
  BY <1>1, <1>2 DEF Types, OthersSame
<1>5. /\ ProcessedIn(handler'[h], processed) /\ EvidenceIn(handler'[h], everStored)
      /\ SuitedIn(handler'[h])
  BY <1>2, <1>3 DEF ProcessedIn, EvidenceIn, SuitedIn, Settled, DeliveryInv, Processed,
                    Evidence, Suited
<1>6. Processed' /\ Evidence' /\ Suited'
  BY <1>2, <1>5 DEF DeliveryInv, Processed, Evidence, Suited, OthersSame
<1>7. Alone'
  BY <1>2 DEF DeliveryInv, Alone, OthersSame, Suited, SuitedIn
<1> QED
  BY <1>4, <1>6, <1>7 DEF DeliveryInv

LEMMA TargetReadKeeps ==
    ASSUME DeliveryInv, NEW h \in Handlers, TargetRead(h)
    PROVE  DeliveryInv'
<1>1. Types /\ handler[h] \in Request
  BY DEF DeliveryInv, Types
<1>2. /\ handler' \in [Handlers -> Request] /\ OthersSame(h) /\ handler[h].pc = "target"
      /\ UNCHANGED <<agent, facts, release, processed, row, stored, checkIn, left, everStored>>
  BY <1>1, TargetReadShape DEF HandlerOnly
<1>3. /\ handler'[h].pc = "write" /\ handler'[h].row = row
      /\ handler'[h].last = handler[h].last /\ handler'[h].seen = handler[h].seen
      /\ handler'[h].declared = handler[h].declared
      /\ handler'[h].full = handler[h].full
      /\ handler'[h].accepted = handler[h].accepted
      /\ handler'[h].checkIn = handler[h].checkIn
      /\ handler'[h].artifact = handler[h].artifact
      /\ handler'[h].selected = handler[h].selected
      /\ handler'[h].unmanaged = handler[h].unmanaged
  <2>1. handler'[h] = [handler[h] EXCEPT !.pc = "write", !.row = row]
    BY <1>1, TargetReadShape
  <2> QED
    BY <1>1, <2>1 DEF Request
<1>4. Types'
  BY <1>1, <1>2, <1>3 DEF Types, OthersSame
<1>5. /\ ProcessedIn(handler'[h], processed) /\ EvidenceIn(handler'[h], everStored)
      /\ SuitedIn(handler'[h])
  BY <1>2, <1>3 DEF ProcessedIn, EvidenceIn, SuitedIn, Settled, DeliveryInv, Processed,
                    Evidence, Suited
<1>6. Processed' /\ Evidence' /\ Suited'
  BY <1>2, <1>5 DEF DeliveryInv, Processed, Evidence, Suited, OthersSame
<1>7. Alone'
  BY <1>2, <1>3 DEF DeliveryInv, Alone, OthersSame, Suited, SuitedIn
<1> QED
  BY <1>4, <1>6, <1>7 DEF DeliveryInv

LEMMA TargetWriteKeeps ==
    ASSUME DeliveryInv, NEW h \in Handlers, TargetWrite(h)
    PROVE  DeliveryInv'
<1>1. Types /\ handler[h] \in Request
  BY DEF DeliveryInv, Types
<1>2. PICK offer \in Maybe(Artifacts) :
           /\ offer \in {None, handler[h].selected}
           /\ handler[h].selected = None => offer = None
           /\ handler' \in [Handlers -> Request] /\ OthersSame(h) /\ handler[h].pc = "write"
           /\ handler'[h].pc = "answered" /\ handler'[h].artifact = offer
           /\ handler'[h].row = NoRow
           /\ handler'[h].last = handler[h].last /\ handler'[h].seen = handler[h].seen
           /\ handler'[h].declared = handler[h].declared
           /\ handler'[h].full = handler[h].full
           /\ handler'[h].checkIn = handler[h].checkIn
           /\ handler'[h].accepted \subseteq handler[h].accepted
           /\ row' \in Rows
           /\ row'.active = IF handler[h].row.active = None THEN handler[h].checkIn
                            ELSE handler[h].row.active
           /\ row'.offered = IF Some(offer) THEN offer ELSE handler[h].row.offered
           /\ row'.unmanaged => handler[h].selected = None /\ handler[h].unmanaged
           /\ HandlerOnly /\ UNCHANGED <<stored, checkIn, left, everStored>>
  BY <1>1, TargetWriteShape
<1>3. UNCHANGED <<agent, facts, release, processed>>
  BY <1>2 DEF HandlerOnly
<1>4. Types'
  BY <1>1, <1>2, <1>3 DEF Types, OthersSame
<1>5. /\ ProcessedIn(handler'[h], processed) /\ row'.active \in Maybe(processed)
  BY <1>2, IdleTyped DEF ProcessedIn, DeliveryInv, Processed, Maybe
<1>6. EvidenceIn(handler'[h], everStored)
  BY <1>2 DEF EvidenceIn, Settled, DeliveryInv, Evidence
<1>7. SuitedIn(handler'[h])
  BY <1>2 DEF SuitedIn, DeliveryInv, Suited, Some
<1>8. Processed' /\ Evidence' /\ Suited'
  BY <1>2, <1>3, <1>5, <1>6, <1>7 DEF DeliveryInv, Processed, Evidence, Suited, OthersSame
<1>9. Alone'
  <2> SUFFICES ASSUME ~left.overlap
               PROVE  Alone'
    BY <1>2 DEF Alone
  <2>1. /\ agent.m.call = h /\ agent.m.last = handler[h].last /\ handler[h].row = row
        /\ Some(agent.m.last) => Some(row.active)
        /\ handler[h].unmanaged => handler[h].checkIn = None /\ row.active = None
        /\ \A g \in Handlers \ {h} : handler'[g].pc = "idle"
    BY <1>2 DEF DeliveryInv, Alone, OthersSame
  <2>2. agent.m.offer = None
    BY <1>1, <2>1, ConstantFacts DEF Types, Some
  <2>3. row'.unmanaged => row'.active = None /\ offer = None /\ agent.m.last = None
    BY <1>2, <2>1 DEF Some
  <2>4. Some(agent.m.last) => Some(row'.active)
    BY <1>2, <2>1 DEF Some
  <2> QED
    BY <1>2, <1>3, <2>1, <2>2, <2>3, <2>4 DEF Alone, Some
<1> QED
  BY <1>4, <1>8, <1>9 DEF DeliveryInv

LEMMA ReceiveKeeps ==
    ASSUME DeliveryInv, NEW h \in Handlers, Receive(h)
    PROVE  DeliveryInv'
<1>1. Types /\ handler[h] \in Request
  BY DEF DeliveryInv, Types
<1>2. /\ handler' = [handler EXCEPT ![h] = Idle]
      /\ agent.m.call = h /\ agent.m.phase = "waiting" /\ handler[h].pc = "answered"
      /\ agent' \in Agent /\ agent'.m.call = None
      /\ agent'.m.phase = IF Some(handler[h].artifact) THEN "applying" ELSE "ready"
      /\ agent'.m.offer = handler[h].artifact /\ agent'.m.last = agent.m.last
      /\ UNCHANGED <<facts, row, stored, checkIn, release, everStored, left, processed>>
  BY <1>1, ReceiveShape DEF AgentOnly
<1>3. \A d \in Docs : \/ agent'.accepted[d] \in {None, agent.accepted[d]}
                      \/ /\ d \in handler[h].accepted
                         /\ agent'.accepted[d] = handler[h].declared[d]
  BY <1>1, ReceiveShape
<1>4. /\ handler' \in [Handlers -> Request] /\ handler'[h] = Idle
      /\ \A g \in Handlers \ {h} : handler'[g] = handler[g]
  BY <1>1, <1>2, IdleTyped DEF Types
<1>5. \A d \in Docs : agent'.accepted[d] \in Maybe(everStored'[d])
  BY <1>2, <1>3 DEF DeliveryInv, Evidence, EvidenceIn, Settled, Maybe
<1>6. \A d \in Docs : stored'[d] \in Maybe(everStored'[d])
  BY <1>2 DEF DeliveryInv, Evidence
<1>7. agent'.m.last \in Maybe(processed')
  BY <1>2 DEF DeliveryInv, Processed
<1>8. Processed' /\ Evidence' /\ Suited'
  BY <1>2, <1>4, <1>5, <1>6, <1>7, EndsKeep
<1>9. Types'
  BY <1>1, <1>2, <1>4, IdleTyped, ConstantFacts DEF Types, Some
<1>10. Alone'
  BY <1>2, <1>4, IdleTyped DEF DeliveryInv, Alone, Some
<1> QED
  BY <1>8, <1>9, <1>10 DEF DeliveryInv

\* ReceiveError, Forget and a lost call leave the row, the documents and what the
\* agent has accepted.
LEMMA CallLostKeeps ==
    ASSUME DeliveryInv, Types', left'.overlap = left.overlap,
           handler' \in [Handlers -> Request],
           \A g \in Handlers : handler'[g] = handler[g] \/ handler'[g] = Idle,
           agent'.m.last \in {None, agent.m.last}, agent'.m.offer \in {None, agent.m.offer},
           agent'.accepted = agent.accepted,
           ~left.overlap => \A g \in Handlers :
               handler'[g].pc # "idle" => agent'.m.call = g /\ agent'.m.last = agent.m.last,
           ~left.overlap => \A g \in Handlers : handler'[g].pc # "idle" => handler'[g] = handler[g],
           UNCHANGED <<row, stored, checkIn, processed, everStored>>
    PROVE  DeliveryInv'
<1>1. /\ \A d \in Docs : stored'[d] \in Maybe(everStored'[d])
      /\ \A d \in Docs : agent'.accepted[d] \in Maybe(everStored'[d])
  BY DEF DeliveryInv, Evidence
<1>2. agent'.m.last \in Maybe(processed')
  BY DEF DeliveryInv, Processed, Maybe
<1>3. Processed' /\ Evidence' /\ Suited'
  BY <1>1, <1>2, EndsKeep
<1>4. Alone'
  <2> SUFFICES ASSUME ~left.overlap
               PROVE  Alone'
    BY DEF Alone
  <2> QED
    BY DEF DeliveryInv, Alone, Some
<1> QED
  BY <1>3, <1>4 DEF DeliveryInv

LEMMA ReceiveErrorKeeps ==
    ASSUME DeliveryInv, NEW h \in Handlers, ReceiveError(h)
    PROVE  DeliveryInv'
<1>1. Types /\ agent.m.phase = "waiting" /\ agent.m.call = h
  BY DEF DeliveryInv, ReceiveError
<1>2. /\ agent' = [agent EXCEPT !.m.phase = "ready", !.m.call = None]
      /\ handler' = [handler EXCEPT ![h] = Idle]
      /\ UNCHANGED <<facts, row, stored, checkIn, release, left, processed, everStored>>
  BY DEF ReceiveError
<1>3. /\ agent' \in Agent /\ agent'.m.phase = "ready" /\ agent'.m.call = None
      /\ agent'.m.last = agent.m.last /\ agent'.m.offer = None /\ agent.m.offer = None
      /\ agent'.accepted = agent.accepted
  BY <1>1, <1>2, CallEnds
<1>4. /\ handler' \in [Handlers -> Request] /\ handler'[h] = Idle
      /\ \A g \in Handlers \ {h} : handler'[g] = handler[g]
  BY <1>1, <1>2, IdleTyped DEF Types
<1>5. Types'
  BY <1>1, <1>2, <1>3, <1>4, IdleTyped DEF Types, Some
<1>6. ~left.overlap => \A g \in Handlers : handler'[g].pc = "idle"
  BY <1>1, <1>4, IdleTyped DEF DeliveryInv, Alone
<1> QED
  BY <1>2, <1>3, <1>4, <1>5, <1>6, CallLostKeeps

LEMMA ForgetKeeps ==
    ASSUME DeliveryInv, NEW h \in Handlers, Forget(h)
    PROVE  DeliveryInv'
<1>1. Types /\ agent.m.call # h /\ handler[h].pc # "idle"
  BY DEF DeliveryInv, Forget
<1>2. /\ handler' = [handler EXCEPT ![h] = Idle]
      /\ UNCHANGED <<agent, facts, row, stored, checkIn, release, left, processed, everStored>>
  BY DEF Forget
<1>3. /\ handler' \in [Handlers -> Request] /\ handler'[h] = Idle
      /\ \A g \in Handlers \ {h} : handler'[g] = handler[g]
  BY <1>1, <1>2, IdleTyped DEF Types
<1>4. Types'
  BY <1>1, <1>2, <1>3, IdleTyped DEF Types
<1>5. left.overlap
  BY <1>1 DEF DeliveryInv, Alone
<1> QED
  BY <1>2, <1>3, <1>4, <1>5, CallLostKeeps

LEMMA LoseCallKeeps ==
    ASSUME DeliveryInv, LoseCall
    PROVE  DeliveryInv'
<1>1. Types /\ agent.m.phase = "waiting" /\ Fault
  BY DEF DeliveryInv, LoseCall
<1>2. /\ agent' = [agent EXCEPT !.m.phase = "ready", !.m.call = None]
      /\ \/ handler' = [handler EXCEPT ![agent.m.call] = Idle]
         \/ left.overlap /\ handler' = handler
      /\ UNCHANGED <<facts, row, stored, checkIn, release, processed, everStored>>
  BY DEF LoseCall
<1>3. /\ agent' \in Agent /\ agent'.m.phase = "ready" /\ agent'.m.call = None
      /\ agent'.m.last = agent.m.last /\ agent'.m.offer = None /\ agent.m.offer = None
      /\ agent'.accepted = agent.accepted
  BY <1>1, <1>2, CallEnds
<1>4. /\ handler' \in [Handlers -> Request]
      /\ \A g \in Handlers : handler'[g] = handler[g] \/ handler'[g] = Idle
      /\ ~left.overlap => /\ agent.m.call \in Handlers => handler'[agent.m.call] = Idle
                          /\ \A g \in Handlers \ {agent.m.call} : handler'[g] = handler[g]
  BY <1>1, <1>2, IdleTyped DEF Types
<1>5. left' \in Scenario /\ left'.overlap = left.overlap
  BY <1>1, FaultTyped
<1>6. Types'
  BY <1>1, <1>2, <1>3, <1>4, <1>5, IdleTyped DEF Types, Some
<1>7. ~left.overlap => \A g \in Handlers : handler'[g].pc = "idle"
  BY <1>4, IdleTyped DEF DeliveryInv, Alone
<1> QED
  BY <1>2, <1>3, <1>4, <1>5, <1>6, <1>7, CallLostKeeps

LEMMA RestartKeeps ==
    ASSUME DeliveryInv, Restart
    PROVE  DeliveryInv'
<1>1. Types
  BY DEF DeliveryInv
<1>2. /\ agent' \in Agent /\ agent'.m = FreshMemory /\ agent'.accepted = agent.accepted
      /\ handler' = [h \in Handlers |->
            IF h = agent.m.call /\ ~left.overlap THEN Idle ELSE handler[h]]
      /\ left' \in Scenario /\ left'.overlap = left.overlap
      /\ UNCHANGED <<facts, row, stored, checkIn, release, everStored, processed>>
  BY <1>1, RestartShape DEF AgentOnly
<1>3. /\ handler' \in [Handlers -> Request]
      /\ \A g \in Handlers : handler'[g] = handler[g] \/ handler'[g] = Idle
      /\ ~left.overlap => /\ agent.m.call \in Handlers => handler'[agent.m.call] = Idle
                          /\ \A g \in Handlers \ {agent.m.call} : handler'[g] = handler[g]
  BY <1>1, <1>2, IdleTyped DEF Types
<1>4. Types'
  BY <1>1, <1>2, <1>3, IdleTyped, FreshTyped DEF Types, Some
<1>5. ~left.overlap => \A g \in Handlers : handler'[g].pc = "idle"
  BY <1>3, IdleTyped DEF DeliveryInv, Alone
<1> QED
  BY <1>2, <1>3, <1>4, <1>5, FreshTyped, CallLostKeeps

LEMMA ApplyKeeps ==
    ASSUME DeliveryInv, NEW ok \in BOOLEAN, Apply(ok)
    PROVE  DeliveryInv'
<1>1. Types
  BY DEF DeliveryInv
<1>2. /\ handler' = handler
      /\ agent.m.phase = "applying" /\ Some(agent.m.offer) /\ agent.m.call = None
      /\ agent' \in Agent /\ agent'.m.call = None
      /\ agent'.m.phase = "ready" /\ agent'.m.offer = None
      /\ agent'.accepted = agent.accepted
      /\ agent'.m.last = IF ok THEN agent.m.offer ELSE agent.m.last
      /\ processed' = IF ok THEN processed \cup {agent.m.offer} ELSE processed
      /\ processed' \in SUBSET Artifacts
      /\ left' \in Scenario /\ left'.overlap = left.overlap
      /\ UNCHANGED <<facts, row, stored, checkIn, release, everStored>>
  BY <1>1, ApplyShape DEF AgentOnly
<1>3. Types'
  BY <1>1, <1>2 DEF Types, Some
<1>4. /\ \A d \in Docs : stored'[d] \in Maybe(everStored'[d])
      /\ \A d \in Docs : agent'.accepted[d] \in Maybe(everStored'[d])
  BY <1>2 DEF DeliveryInv, Evidence
<1>5. processed \subseteq processed' /\ agent'.m.last \in Maybe(processed')
  BY <1>2 DEF DeliveryInv, Processed, Maybe
<1>6. handler' \in [Handlers -> Request]
  BY <1>1, <1>2 DEF Types
<1>7. Processed' /\ Evidence' /\ Suited'
  BY <1>2, <1>4, <1>5, <1>6, EndsKeep
<1>8. Alone'
  <2> SUFFICES ASSUME ~left.overlap
               PROVE  Alone'
    BY <1>2 DEF Alone
  <2>1. \A g \in Handlers : handler[g].pc = "idle"
    BY <1>2, ConstantFacts DEF DeliveryInv, Alone
  <2> QED
    BY <1>2, <2>1 DEF DeliveryInv, Alone, Some
<1> QED
  BY <1>3, <1>7, <1>8 DEF DeliveryInv

\* What happens around them: a lost document, a change of facts, a release, time.
LEMMA SurroundingsKeep ==
    ASSUME DeliveryInv,
           (\E d \in Docs : LoseDocument(d) \/ FactsChange(d)) \/ Publish \/ TimePasses
    PROVE  DeliveryInv'
<1>1. Types
  BY DEF DeliveryInv
<1>2. /\ UNCHANGED <<handler, row, checkIn, processed, everStored>>
      /\ left' \in Scenario /\ left'.overlap = left.overlap
      /\ agent' \in Agent /\ agent'.m = agent.m /\ agent'.accepted = agent.accepted
      /\ facts' \in [Docs -> Contents] /\ release' \in Releases
      /\ stored' \in [Docs -> Maybe(Contents)]
      /\ \A d \in Docs : stored'[d] \in {None, stored[d]}
  <2>1. CASE \E d \in Docs : LoseDocument(d)
    <3>1. PICK d \in Docs : LoseDocument(d)
      BY <2>1
    <3>2. /\ Fault /\ stored' = [stored EXCEPT ![d] = None]
          /\ UNCHANGED <<agent, facts, handler, row, checkIn, release, processed, everStored>>
      BY <3>1 DEF LoseDocument
    <3> QED
      BY <1>1, <3>2, FaultTyped DEF Types, Maybe
  <2>2. CASE \E d \in Docs : FactsChange(d)
    <3>1. PICK d \in Docs : FactsChange(d)
      BY <2>2
    <3>2. /\ Change /\ \E c \in Contents : facts' = [facts EXCEPT ![d] = c]
          /\ UNCHANGED <<agent, handler, row, stored, checkIn, release, processed, everStored>>
      BY <3>1 DEF FactsChange
    <3> QED
      BY <1>1, <3>2, FaultTyped DEF Types
  <2>3. CASE Publish
    BY <1>1, <2>3, FaultTyped DEF Publish, Types
  <2>4. CASE TimePasses
    <3>1. agent' = [agent EXCEPT !.elapsed = @ + 1] /\ agent.elapsed < Interval
          /\ UNCHANGED <<facts, handler, row, stored, checkIn, release, left, processed,
                         everStored>>
      BY <2>4 DEF TimePasses
    <3>2. agent' \in Agent /\ agent'.m = agent.m /\ agent'.accepted = agent.accepted
      BY <1>1, <3>1 DEF Types, Agent, Interval
    <3> QED
      BY <1>1, <3>1, <3>2 DEF Types
  <2> QED
    BY <2>1, <2>2, <2>3, <2>4
<1>3. Types'
  BY <1>1, <1>2 DEF Types
<1>4. Processed' /\ Suited'
  BY <1>2 DEF DeliveryInv, Processed, Suited
<1>5. Evidence'
  <2>1. \A d \in Docs : stored'[d] \in Maybe(everStored[d])
    BY <1>2 DEF DeliveryInv, Evidence, Maybe
  <2> QED
    BY <1>2, <2>1 DEF DeliveryInv, Evidence
<1>6. Alone'
  BY <1>2 DEF DeliveryInv, Alone
<1> QED
  BY <1>3, <1>4, <1>5, <1>6 DEF DeliveryInv

LEMMA InitDeliveryInv == Init => DeliveryInv
<1> SUFFICES ASSUME Init
             PROVE  DeliveryInv
  OBVIOUS
<1>1. /\ agent = [m |-> FreshMemory, accepted |-> Undeclared, sent |-> None,
                  elapsed |-> Interval]
      /\ facts = [d \in Docs |-> 1] /\ handler = [h \in Handlers |-> Idle]
      /\ row = NoRow /\ stored = Undeclared /\ checkIn = None /\ left \in Scenario
      /\ release \in Releases /\ processed = {} /\ everStored = [d \in Docs |-> {}]
  BY ScenariosAreTyped DEF Init, Scenario
<1>2. Undeclared \in [Docs -> Maybe(Contents)] /\ \A d \in Docs : Undeclared[d] = None
  BY DEF Undeclared, Maybe
<1>3. agent \in Agent /\ agent.m = FreshMemory /\ agent.accepted = Undeclared
  BY <1>1, <1>2, FreshTyped DEF Agent, Interval, Maybe
<1>4. facts \in [Docs -> Contents]
  BY <1>1, ConstantFacts
<1>5. Types
  BY <1>1, <1>2, <1>3, <1>4, IdleTyped, FreshTyped DEF Types, Some, Maybe
<1>6. Processed
  BY <1>1, <1>3, IdleTyped, FreshTyped DEF Processed, ProcessedIn, Maybe
<1>7. Evidence /\ Suited
  BY <1>1, <1>2, <1>3, IdleTyped DEF Evidence, EvidenceIn, Settled, Suited, SuitedIn, Maybe,
                                     Some
<1>8. Alone
  BY <1>1, <1>3, IdleTyped, FreshTyped DEF Alone, Some
<1> QED
  BY <1>5, <1>6, <1>7, <1>8 DEF DeliveryInv

LEMMA StepDeliveryInv == DeliveryInv /\ [Next]_vars => DeliveryInv'
<1> SUFFICES ASSUME DeliveryInv, [Next]_vars
             PROVE  DeliveryInv'
  OBVIOUS
<1>1. CASE UNCHANGED vars
  BY <1>1 DEF vars, DeliveryInv, Types, Processed, Evidence, Suited, Alone
<1>2. CASE AgentStep
  BY <1>2, AskKeeps, ReceiveKeeps, ReceiveErrorKeeps, ApplyKeeps DEF AgentStep
<1>3. ASSUME NEW h \in Handlers, HandlerStep(h) \/ Forget(h)
      PROVE  DeliveryInv'
  BY <1>3, DocumentsKeeps, AckReadKeeps, AckWriteKeeps, ResolveKeeps, TargetReadKeeps,
     TargetWriteKeeps, ForgetKeeps DEF HandlerStep
<1>4. CASE Apply(FALSE) \/ LoseCall \/ Restart
  BY <1>4, ApplyKeeps, LoseCallKeeps, RestartKeeps
<1> QED
  BY <1>1, <1>2, <1>3, <1>4, SurroundingsKeep DEF Next

THEOREM DeliveryInvariant == Spec => []DeliveryInv
  BY InitDeliveryInv, StepDeliveryInv, PTL DEF Spec

-----------------------------------------------------------------------------
(***************************************************************************)
(* What follows.                                                           *)
(***************************************************************************)

\* The active artifact and the last check-in are of an artifact the endpoint processed,
\* and, while handlers do not overlap, an endpoint with an active artifact is not shown
\* as unmanaged (acknowledgeOfferedArtifact, seedActiveDeliveryState).
THEOREM OnlyProcessedIsActive == Spec => []RowInv
<1>1. DeliveryInv => RowInv
  <2> SUFFICES ASSUME DeliveryInv
               PROVE  RowInv
    OBVIOUS
  <2>1. TypeOK
    BY DEF DeliveryInv, Types, TypeOK, Agent, Memory, Request
  <2>2. ActiveWasProcessed
    BY DEF DeliveryInv, Processed, ActiveWasProcessed
  <2>3. UnmanagedHasNothing
    BY DEF DeliveryInv, Alone, UnmanagedHasNothing
  <2> QED
    BY <2>1, <2>2, <2>3 DEF RowInv
<1> QED
  BY <1>1, DeliveryInvariant, PTL

\* What is served fits what its request declared, and the hashes the agent keeps as accepted
\* are of documents the server held at some time (acceptDocumentHashes,
\* restoreHashOnlyCapability).
THEOREM ServedFitsDeclared == Spec => []EvidenceInv
<1>1. DeliveryInv => EvidenceInv
  <2> SUFFICES ASSUME DeliveryInv
               PROVE  EvidenceInv
    OBVIOUS
  <2>1. ServedIsSupported
    BY DEF DeliveryInv, Suited, SuitedIn, Suits, ServedIsSupported
  <2>2. AcceptedWasStored
    BY DEF DeliveryInv, Evidence, AcceptedWasStored, Maybe, Some
  <2> QED
    BY <2>1, <2>2 DEF EvidenceInv
<1> QED
  BY <1>1, DeliveryInvariant, PTL
=============================================================================
