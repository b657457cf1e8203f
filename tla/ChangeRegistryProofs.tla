------------------------ MODULE ChangeRegistryProofs ------------------------
(***************************************************************************)
(* Theorems about the change-control registry, for any servers, requests,  *)
(* endpoints and bounds.                                                   *)
(*                                                                         *)
(* The first part is about memory, with the progress operations included.  *)
(* What a process holds in memory is always a normalized snapshot, and it  *)
(* is the current one whenever the process still knows the current         *)
(* revision.  So the compare-and-swap lets a save through only when the    *)
(* new snapshot was computed from the row it replaces.                     *)
(*                                                                         *)
(* The rest is about the durable row.  Read the way a process loads it     *)
(* (Book), it moves by whole operations of the registry alone, and a lease *)
(* leaves a server only together with the step that books it.  Everything  *)
(* else is about single steps of the book.                                 *)
(***************************************************************************)
EXTENDS ChangeRegistry, ChangeRegistryGate, FiniteSetTheorems, SequenceTheorems, TLAPS

\* No legacy request of the snapshot, nor its rollout, is left unmarked.
Normal(st) ==
    \A r \in Request :
        (st.requests[r] # None /\ ~st.requests[r].canonical)
            => /\ st.requests[r].migration # None
               /\ st.rollouts[r] # None => st.rollouts[r].migration # None

MemoryNormal == \A s \in Server : Running(s) => Normal(mem[s].state)

\* The inductive invariant.
MemoryInv == TypeOK /\ MemoryNormal /\ MemoryNeverAhead

-----------------------------------------------------------------------------
(***************************************************************************)
(* Normalizing.                                                            *)
(***************************************************************************)

\* Normalizing a snapshot gives a snapshot with every legacy entry marked.
LEMMA NormalizeIsNormal ==
    ASSUME NEW st \in Snapshot
    PROVE  Normalize(st) \in Snapshot /\ Normal(Normalize(st))
<1> DEFINE reqs == [r \in Request |-> NormalizedRequest(st.requests[r])]
           rols == [r \in Request |-> NormalizedRollout(st.rollouts[r], st.requests[r])]
<1>1. /\ st.requests \in [Request -> ChangeRequest \cup {None}]
      /\ st.rollouts \in [Request -> Rollout \cup {None}]
  BY DEF Snapshot
<1>2. Awaiting \in Migration /\ Awaiting # None
  BY ConstantsAssumption DEF Migration
<1>3. ASSUME NEW r \in Request
      PROVE  reqs[r] \in ChangeRequest \cup {None} /\ rols[r] \in Rollout \cup {None}
  BY <1>1, <1>2 DEF NormalizedRequest, NormalizedRollout, ChangeRequest, Rollout
<1>4. ASSUME NEW r \in Request, reqs[r] # None, ~reqs[r].canonical
      PROVE  reqs[r].migration # None /\ (rols[r] # None => rols[r].migration # None)
  BY <1>1, <1>2, <1>4 DEF NormalizedRequest, NormalizedRollout, ChangeRequest, Rollout
<1>5. Normalize(st) = [st EXCEPT !.requests = reqs, !.rollouts = rols]
  BY DEF Normalize
<1>6. reqs \in [Request -> ChangeRequest \cup {None}] /\ rols \in [Request -> Rollout \cup {None}]
  BY <1>3
<1> HIDE DEF reqs, rols
<1>7. /\ Normalize(st) \in Snapshot
      /\ Normalize(st).requests = reqs /\ Normalize(st).rollouts = rols
  BY <1>5, <1>6 DEF Snapshot
<1> QED
  BY <1>4, <1>7 DEF Normal

\* A normalized snapshot is left as it is.
LEMMA NormalIsFixed ==
    ASSUME NEW st \in Snapshot, Normal(st)
    PROVE  Normalize(st) = st
<1>1. \A r \in Request : NormalizedRequest(st.requests[r]) = st.requests[r]
  BY DEF Normal, NormalizedRequest
<1>2. \A r \in Request : NormalizedRollout(st.rollouts[r], st.requests[r]) = st.rollouts[r]
  BY DEF Normal, NormalizedRollout
<1>3. /\ st.requests = [r \in Request |-> st.requests[r]]
      /\ st.rollouts = [r \in Request |-> st.rollouts[r]]
  BY DEF Snapshot
<1> QED
  BY <1>1, <1>2, <1>3 DEF Normalize, Snapshot

-----------------------------------------------------------------------------
(***************************************************************************)
(* Saving: each of the three outcomes keeps the invariant when the new     *)
(* snapshot is well typed and normalized.                                  *)
(***************************************************************************)

\* What a process holds, and what putting it back in force gives.
LEMMA HeldSnapshot ==
    ASSUME MemoryInv, NEW s \in Server, Running(s)
    PROVE  /\ mem[s] \in Row /\ mem[s].state \in Snapshot /\ mem[s].rev \in Nat
           /\ Normal(mem[s].state)
           /\ Normalize(mem[s].state) = mem[s].state
<1>1. mem[s] \in Row /\ mem[s].state \in Snapshot /\ mem[s].rev \in Nat
  BY DEF MemoryInv, TypeOK, Running, Row
<1>2. Normal(mem[s].state)
  BY DEF MemoryInv, MemoryNormal
<1> QED
  BY <1>1, <1>2, NormalIsFixed

\* A refused save changes nothing at all.
LEMMA RefusedIsStutter ==
    ASSUME MemoryInv, NEW s \in Server, Running(s), SaveRefused(s)
    PROVE  store' = store /\ mem' = mem
<1>1. mem' = [mem EXCEPT ![s].state = mem[s].state]
  BY HeldSnapshot DEF SaveRefused
<1>2. mem[s] = [mem[s] EXCEPT !.state = mem[s].state]
  BY HeldSnapshot DEF Row
<1>3. mem' = mem
  BY <1>1, <1>2 DEF MemoryInv, TypeOK
<1> QED
  BY <1>3 DEF SaveRefused

\* An unanswered save changes the row alone.
LEMMA UnansweredChangesRow ==
    ASSUME MemoryInv, NEW s \in Server, Running(s), NEW new, SaveUnanswered(s, new)
    PROVE  /\ CanSave(s) /\ mem' = mem
           /\ store' = [rev |-> store.rev + 1, state |-> new]
<1>1. mem' = [mem EXCEPT ![s].state = mem[s].state]
  BY HeldSnapshot DEF SaveUnanswered
<1>2. mem[s] = [mem[s] EXCEPT !.state = mem[s].state]
  BY HeldSnapshot DEF Row
<1>3. mem' = mem
  BY <1>1, <1>2 DEF MemoryInv, TypeOK
<1> QED
  BY <1>3 DEF SaveUnanswered

LEMMA SavePreserves ==
    ASSUME MemoryInv, NEW s \in Server, Running(s),
           NEW new \in Snapshot, Normal(new), Persist(s, new)
    PROVE  /\ store' \in Row
           /\ mem' \in [Server -> Row \cup {None}]
           /\ MemoryNormal' /\ MemoryNeverAhead'
<1> USE DEF MemoryInv
<1>1. store \in Row /\ store.rev \in Nat /\ mem \in [Server -> Row \cup {None}]
  BY DEF TypeOK, Row
<1>2. CASE SaveRefused(s)
  <2>1. store' = store /\ mem' = mem
    BY <1>2, RefusedIsStutter
  <2> QED
    BY <1>1, <2>1 DEF MemoryNormal, MemoryNeverAhead, Running, Durable
<1>3. CASE SaveUnanswered(s, new)
  <2>1. mem' = mem /\ store' = [rev |-> store.rev + 1, state |-> new]
    BY <1>3, UnansweredChangesRow
  <2>2. store' \in Row /\ store'.rev = store.rev + 1
    BY <1>1, <2>1 DEF Row
  <2>3. MemoryNormal'
    BY <2>1 DEF MemoryNormal, Running
  <2>4. MemoryNeverAhead'
    <3>1. ASSUME NEW t \in Server, Running(t)
          PROVE  mem[t].rev <= store'.rev /\ mem[t].rev # store'.rev
      <4>1. mem[t].rev \in Nat /\ mem[t].rev <= store.rev
        BY <3>1, HeldSnapshot DEF MemoryNeverAhead
      <4> QED
        BY <1>1, <2>2, <4>1
    <3> QED
      BY <2>1, <3>1 DEF MemoryNeverAhead, Running
  <2> QED
    BY <1>1, <2>1, <2>2, <2>3, <2>4
<1>4. CASE Saved(s, new)
  <2> DEFINE row == [rev |-> store.rev + 1, state |-> new]
  <2>1. store' = row /\ mem' = [mem EXCEPT ![s] = row]
    BY <1>4 DEF Saved
  <2>2. row \in Row /\ row.rev = store.rev + 1 /\ row.state = new
    BY <1>1 DEF Row
  <2>3. Normalize(new) = new
    BY NormalIsFixed
  <2> HIDE DEF row
  <2>4. store' \in Row /\ mem' \in [Server -> Row \cup {None}]
    BY <1>1, <2>1, <2>2
  <2>5. \A t \in Server : mem'[t] = IF t = s THEN row ELSE mem[t]
    BY <1>1, <2>1
  <2>6. MemoryNormal'
    BY <2>2, <2>5 DEF MemoryNormal, Running
  <2>7. MemoryNeverAhead'
    <3> SUFFICES ASSUME NEW t \in Server, Running(t)'
                 PROVE  /\ mem'[t].rev <= row.rev
                        /\ mem'[t].rev = row.rev => mem'[t].state = Normalize(row.state)
      BY <2>1 DEF MemoryNeverAhead, Durable
    <3>1. CASE t = s
      BY <1>1, <2>2, <2>3, <2>5, <3>1
    <3>2. CASE t # s
      <4>1. Running(t) /\ mem'[t] = mem[t]
        BY <2>5, <3>2 DEF Running
      <4>2. mem[t].rev \in Nat /\ mem[t].rev <= store.rev
        BY <4>1, HeldSnapshot DEF MemoryNeverAhead
      <4> QED
        BY <1>1, <2>2, <4>1, <4>2
    <3> QED
      BY <3>1, <3>2
  <2> QED
    BY <2>4, <2>6, <2>7
<1> QED
  BY <1>2, <1>3, <1>4 DEF Persist

-----------------------------------------------------------------------------
(***************************************************************************)
(* The snapshots the operations save are well typed and normalized.        *)
(***************************************************************************)

\* Replacing requests: enough that each new one is typed and marked.
LEMMA RequestsReplaced ==
    ASSUME NEW st \in Snapshot, Normal(st),
           NEW reqs \in [Request -> ChangeRequest \cup {None}],
           \A r \in Request : \/ reqs[r] = st.requests[r]
                              \/ reqs[r].canonical
                              \/ /\ st.requests[r] # None /\ ~st.requests[r].canonical
                                 /\ reqs[r].migration = st.requests[r].migration
    PROVE  LET new == [st EXCEPT !.requests = reqs]
           IN  new \in Snapshot /\ Normal(new)
<1> DEFINE new == [st EXCEPT !.requests = reqs]
<1>1. new \in Snapshot /\ new.requests = reqs /\ new.rollouts = st.rollouts
  BY DEF Snapshot
<1> HIDE DEF new
<1>2. Normal(new)
  <2> SUFFICES ASSUME NEW r \in Request, reqs[r] # None, ~reqs[r].canonical
               PROVE  /\ reqs[r].migration # None
                      /\ st.rollouts[r] # None => st.rollouts[r].migration # None
    BY <1>1 DEF Normal
  <2> QED
    BY DEF Normal
<1> QED
  BY <1>1, <1>2 DEF new

LEMMA CreatedSnapshot ==
    ASSUME NEW st \in Snapshot, Normal(st),
           NEW fresh \in SUBSET Request, NEW ready \in [fresh -> SUBSET Endpoint]
    PROVE  LET new == [st EXCEPT !.requests =
                          [r \in Request |-> IF r \in DOMAIN ready THEN PendingRequest(r, ready[r])
                                             ELSE st.requests[r]]]
           IN  new \in Snapshot /\ Normal(new)
<1> DEFINE reqs == [r \in Request |-> IF r \in DOMAIN ready THEN PendingRequest(r, ready[r])
                                     ELSE st.requests[r]]
<1>1. ASSUME NEW r \in Request, NEW e \in SUBSET Endpoint
      PROVE  PendingRequest(r, e) \in ChangeRequest /\ PendingRequest(r, e).canonical
  <2>1. Required[r] \in Nat /\ <<>> \in Seq(Operator) /\ None \in Migration
    BY ConstantsAssumption DEF Migration
  <2> QED
    BY <2>1 DEF PendingRequest, ChangeRequest, AuthorizationState
<1>2. st.requests \in [Request -> ChangeRequest \cup {None}]
  BY DEF Snapshot
<1>3. /\ reqs \in [Request -> ChangeRequest \cup {None}]
      /\ \A r \in Request : reqs[r] = st.requests[r] \/ reqs[r].canonical
  BY <1>1, <1>2
<1> HIDE DEF reqs
<1>4. LET new == [st EXCEPT !.requests = reqs] IN new \in Snapshot /\ Normal(new)
  BY <1>3, RequestsReplaced
<1> QED
  BY <1>4 DEF reqs

\* One request replaced by a typed one that keeps its contract and its marker.
LEMMA RequestReplaced ==
    ASSUME NEW st \in Snapshot, Normal(st), NEW r \in Request, st.requests[r] # None,
           NEW req \in ChangeRequest,
           req.canonical = st.requests[r].canonical,
           req.migration = st.requests[r].migration
    PROVE  LET new == [st EXCEPT !.requests[r] = req]
           IN  new \in Snapshot /\ Normal(new)
<1> DEFINE reqs == [st.requests EXCEPT ![r] = req]
<1>1. /\ reqs \in [Request -> ChangeRequest \cup {None}]
      /\ \A q \in Request : reqs[q] = IF q = r THEN req ELSE st.requests[q]
  BY DEF Snapshot
<1>2. [st EXCEPT !.requests[r] = req] = [st EXCEPT !.requests = reqs]
  BY DEF Snapshot
<1> HIDE DEF reqs
<1> QED
  BY <1>1, <1>2, RequestsReplaced

-----------------------------------------------------------------------------
(***************************************************************************)
(* Each operation keeps the invariant.                                     *)
(***************************************************************************)

\* An operation that saves and leaves leases handed out and clock alone.
LEMMA QuietSave ==
    ASSUME MemoryInv, NEW s \in Server, Running(s), NEW new \in Snapshot, Normal(new),
           Persist(s, new), UNCHANGED <<granted, clock>>
    PROVE  MemoryInv'
  BY SavePreserves DEF MemoryInv, TypeOK

LEMMA CreatePreserves ==
    ASSUME MemoryInv, NEW s \in Server, NEW fresh \in SUBSET Request,
           NEW ready \in [fresh -> SUBSET Endpoint], CreateChangeRequests(s, ready)
    PROVE  MemoryInv'
<1> DEFINE new == [mem[s].state EXCEPT !.requests =
                      [r \in Request |-> IF r \in DOMAIN ready THEN PendingRequest(r, ready[r])
                                         ELSE mem[s].state.requests[r]]]
<1>1. Running(s) /\ Persist(s, new) /\ UNCHANGED <<granted, clock>>
  BY DEF CreateChangeRequests, Requests
<1>2. new \in Snapshot /\ Normal(new)
  BY <1>1, HeldSnapshot, CreatedSnapshot
<1> HIDE DEF new
<1> QED
  BY <1>1, <1>2, QuietSave

\* An approved request is typed and otherwise the same.
LEMMA ApprovedRequest ==
    ASSUME MemoryInv, NEW s \in Server, Running(s), NEW r \in Request, NEW o \in Operator,
           Approvable(s, r, o)
    PROVE  /\ Requests(s)[r] \in ChangeRequest
           /\ Approved(s, r, o) \in ChangeRequest
           /\ Approved(s, r, o).canonical = Requests(s)[r].canonical
           /\ Approved(s, r, o).migration = Requests(s)[r].migration
<1>1. Requests(s)[r] \in ChangeRequest
  BY HeldSnapshot DEF Requests, Approvable, Snapshot
<1>2. Append(Requests(s)[r].approvals, o) \in Seq(Operator)
  BY <1>1 DEF ChangeRequest
<1> QED
  BY <1>1, <1>2 DEF Approved, ChangeRequest

LEMMA RecordApprovalPreserves ==
    ASSUME MemoryInv, NEW s \in Server, NEW r \in Request, NEW o \in Operator,
           RecordApproval(s, r, o)
    PROVE  MemoryInv'
<1> DEFINE new == [mem[s].state EXCEPT !.requests[r] = Approved(s, r, o)]
<1>1. Running(s) /\ Approvable(s, r, o) /\ Persist(s, new) /\ UNCHANGED <<granted, clock>>
  BY DEF RecordApproval
<1>2. mem[s].state.requests[r] # None
  BY <1>1 DEF Approvable, Requests
<1>3. new \in Snapshot /\ Normal(new)
  BY <1>1, <1>2, HeldSnapshot, ApprovedRequest, RequestReplaced DEF Requests
<1> HIDE DEF new
<1> QED
  BY <1>1, <1>3, QuietSave

\* The rollout of an approval is typed and unmarked.
LEMMA RolloutTyped ==
    ASSUME clock \in Nat, NEW spec \in RolloutSpecs
    PROVE  RolloutOf(spec, None) \in Rollout
<1>1. spec \in RolloutSpec /\ DefaultValidity \in Nat /\ None \in Migration
  BY ConstantsAssumption DEF Migration
<1> QED
  BY <1>1 DEF RolloutOf, RolloutSpec, Rollout

LEMMA AuthorizeRolloutPreserves ==
    ASSUME MemoryInv, NEW s \in Server, NEW r \in Request, NEW o \in Operator,
           NEW spec \in RolloutSpecs, AuthorizeRollout(s, r, o, spec)
    PROVE  MemoryInv'
<1> DEFINE st == mem[s].state
           req == [Approved(s, r, o) EXCEPT !.state = "authorized"]
           rollout == RolloutOf(spec, None)
           mid == [st EXCEPT !.requests[r] = req]
           new == [st EXCEPT !.requests[r] = req, !.rollouts[r] = rollout]
<1>1. Running(s) /\ Approvable(s, r, o) /\ Persist(s, new) /\ UNCHANGED <<granted, clock>>
  BY DEF AuthorizeRollout
<1>2. /\ st \in Snapshot /\ Normal(st) /\ st.requests[r] # None
      /\ st.requests[r].migration = None
  BY <1>1, HeldSnapshot DEF Approvable, Requests
<1>3. /\ req \in ChangeRequest /\ req.migration = st.requests[r].migration
      /\ req.canonical = st.requests[r].canonical
  <2>1. /\ Approved(s, r, o) \in ChangeRequest
        /\ Approved(s, r, o).canonical = st.requests[r].canonical
        /\ Approved(s, r, o).migration = st.requests[r].migration
    BY <1>1, ApprovedRequest DEF Requests
  <2> QED
    BY <2>1 DEF ChangeRequest, AuthorizationState
<1>4. rollout \in Rollout
  BY RolloutTyped DEF MemoryInv, TypeOK
<1> HIDE DEF st, req, rollout
<1>5. mid \in Snapshot /\ Normal(mid)
  BY <1>2, <1>3, RequestReplaced
<1>6. /\ new \in Snapshot /\ new.requests = mid.requests
      /\ \A q \in Request : q # r => new.rollouts[q] = mid.rollouts[q]
  BY <1>2, <1>3, <1>4 DEF Snapshot
<1>7. st.requests[r].canonical
  BY <1>2 DEF Normal
<1>8. Normal(new)
  <2>1. new.requests[r].canonical
    BY <1>2, <1>3, <1>7 DEF Snapshot
  <2> HIDE DEF new, mid
  <2> QED
    BY <1>5, <1>6, <2>1 DEF Normal
<1> HIDE DEF new, mid
<1> QED
  BY <1>1, <1>6, <1>8, QuietSave

LEMMA SetLifecycleStatePreserves ==
    ASSUME MemoryInv, NEW s \in Server, NEW r \in Request, NEW state \in AuthorizationState,
           SetLifecycleState(s, r, state)
    PROVE  MemoryInv'
<1> DEFINE st == mem[s].state
           req == [st.requests[r] EXCEPT !.state = state]
           new == [st EXCEPT !.requests[r].state = state]
<1>1. Running(s) /\ Requests(s)[r] # None /\ Persist(s, new) /\ UNCHANGED <<granted, clock>>
  BY DEF SetLifecycleState
<1>2. st \in Snapshot /\ Normal(st) /\ st.requests[r] # None
  BY <1>1, HeldSnapshot DEF Requests
<1> HIDE DEF st
<1>3. /\ req \in ChangeRequest /\ req.canonical = st.requests[r].canonical
      /\ req.migration = st.requests[r].migration
  BY <1>2 DEF Snapshot, ChangeRequest
<1>4. new = [st EXCEPT !.requests[r] = req]
  BY <1>2 DEF Snapshot
<1> HIDE DEF req, new
<1>5. new \in Snapshot /\ Normal(new)
  BY <1>2, <1>3, <1>4, RequestReplaced
<1> QED
  BY <1>1, <1>5, QuietSave

LEMMA RegenerateLegacyPreserves ==
    ASSUME MemoryInv, NEW s \in Server, NEW r \in Request, NEW replacement \in Request,
           NEW ready \in SUBSET Endpoint, RegenerateLegacy(s, r, replacement, ready)
    PROVE  MemoryInv'
<1> DEFINE st == mem[s].state
           reqs == [st.requests EXCEPT ![r].migration = replacement,
                                       ![replacement] = PendingRequest(replacement, ready)]
           rol == IF st.rollouts[r] = None THEN None
                  ELSE [st.rollouts[r] EXCEPT !.migration = replacement]
           new == [st EXCEPT !.requests = reqs, !.rollouts[r] = rol]
<1>1. /\ Running(s) /\ Persist(s, new) /\ UNCHANGED <<granted, clock>>
      /\ Requests(s)[r] # None /\ Requests(s)[replacement] = None
  BY DEF RegenerateLegacy, Requests, Rollouts
<1>2. /\ st \in Snapshot /\ Normal(st)
      /\ st.requests[r] # None /\ st.requests[replacement] = None
  BY <1>1, HeldSnapshot DEF Requests
<1> HIDE DEF st
<1>3. replacement \in Migration /\ replacement # None
  BY ConstantsAssumption DEF Migration
<1>4. PendingRequest(replacement, ready) \in ChangeRequest /\ PendingRequest(replacement, ready).canonical
  <2>1. Required[replacement] \in Nat /\ <<>> \in Seq(Operator) /\ None \in Migration
    BY ConstantsAssumption DEF Migration
  <2> QED
    BY <2>1 DEF PendingRequest, ChangeRequest, AuthorizationState
<1>5. /\ st.requests \in [Request -> ChangeRequest \cup {None}]
      /\ st.rollouts \in [Request -> Rollout \cup {None}]
  BY <1>2 DEF Snapshot
<1>6. [st.requests[r] EXCEPT !.migration = replacement] \in ChangeRequest
  BY <1>2, <1>3, <1>5 DEF ChangeRequest
<1>7. \A q \in Request :
         reqs[q] = IF q = replacement THEN PendingRequest(replacement, ready)
                   ELSE IF q = r THEN [st.requests[r] EXCEPT !.migration = replacement]
                   ELSE st.requests[q]
  BY <1>2, <1>5
<1>8. reqs \in [Request -> ChangeRequest \cup {None}]
  BY <1>4, <1>5, <1>6, <1>7
<1>9. rol \in Rollout \cup {None} /\ (rol # None => rol.migration # None)
  BY <1>3, <1>5 DEF Rollout
<1>10. [st.requests[r] EXCEPT !.migration = replacement].migration # None
  BY <1>2, <1>3, <1>5 DEF ChangeRequest
<1> HIDE DEF reqs, rol
<1>11. /\ new \in Snapshot /\ new.requests = reqs
       /\ \A q \in Request : new.rollouts[q] = IF q = r THEN rol ELSE st.rollouts[q]
  BY <1>2, <1>8, <1>9 DEF Snapshot
<1> HIDE DEF new
<1>12. Normal(new)
  <2> SUFFICES ASSUME NEW q \in Request, reqs[q] # None, ~reqs[q].canonical
               PROVE  /\ reqs[q].migration # None
                      /\ new.rollouts[q] # None => new.rollouts[q].migration # None
    BY <1>11 DEF Normal
  <2>1. CASE q = r
    BY <1>4, <1>7, <1>9, <1>10, <1>11, <2>1
  <2>2. CASE q # r
    BY <1>2, <1>4, <1>7, <1>11, <2>2 DEF Normal
  <2> QED
    BY <2>1, <2>2
<1> QED
  BY <1>1, <1>11, <1>12, QuietSave

\* Leases and attempts do not bear on the markers.
LEMMA BookReplaced ==
    ASSUME NEW st \in Snapshot, Normal(st), NEW leases \in SUBSET Lease,
           NEW attempts \in [Request -> [Endpoint -> Nat]]
    PROVE  LET new == [st EXCEPT !.attempts = attempts, !.leases = leases]
           IN  new \in Snapshot /\ Normal(new)
<1> DEFINE new == [st EXCEPT !.attempts = attempts, !.leases = leases]
<1>1. new \in Snapshot /\ new.requests = st.requests /\ new.rollouts = st.rollouts
  BY DEF Snapshot
<1> HIDE DEF new
<1>2. Normal(new)
  BY <1>1 DEF Normal
<1> QED
  BY <1>1, <1>2 DEF new

LEMMA IssueExecutionLeasePreserves ==
    ASSUME MemoryInv, NEW s \in Server, NEW r \in Request, NEW e \in Endpoint,
           IssueExecutionLease(s, r, e)
    PROVE  MemoryInv'
<1> DEFINE st == mem[s].state
           lease == NewLease(st, r, e)
           attempts == [st.attempts EXCEPT ![r][e] = @ + 1]
           leases == st.leases \cup {lease}
           raw == [st EXCEPT !.attempts[r][e] = @ + 1, !.leases = @ \cup {lease}]
           new == [st EXCEPT !.attempts = attempts, !.leases = leases]
<1>1. Running(s) /\ HandOut(s, raw, lease) /\ UNCHANGED clock
  BY DEF IssueExecutionLease
<1>2. st \in Snapshot /\ Normal(st)
  BY <1>1, HeldSnapshot
<1>3. clock \in Nat /\ granted \in SUBSET Lease
  BY DEF MemoryInv, TypeOK
<1> HIDE DEF st
<1>4. st.attempts[r][e] \in Nat /\ st.leases \in SUBSET Lease
  BY <1>2 DEF Snapshot
<1>5. lease \in Lease
  BY <1>3, <1>4, ConstantsAssumption DEF NewLease, Lease
<1>6. raw = new
  BY <1>2 DEF Snapshot
<1>7. attempts \in [Request -> [Endpoint -> Nat]]
  BY <1>2, <1>4 DEF Snapshot
<1> HIDE DEF lease, attempts
<1>8. new \in Snapshot /\ Normal(new)
  BY <1>2, <1>4, <1>5, <1>7, BookReplaced
<1> HIDE DEF new, raw
<1>9. Persist(s, new) /\ granted' \in SUBSET Lease
  BY <1>1, <1>3, <1>5, <1>6 DEF HandOut, Persist
<1> QED
  BY <1>1, <1>3, <1>8, <1>9, SavePreserves DEF MemoryInv, TypeOK

\* Completion and progress: the one lease is replaced.
LEMMA ReportPreserves ==
    ASSUME MemoryInv, NEW s \in Server, Running(s), NEW lease \in mem[s].state.leases,
           NEW completed \in BOOLEAN,
           Persist(s, [mem[s].state EXCEPT !.leases = WithCompleted(@, lease, completed)]),
           UNCHANGED <<granted, clock>>
    PROVE  MemoryInv'
<1> DEFINE st == mem[s].state
           leases == WithCompleted(st.leases, lease, completed)
           new == [st EXCEPT !.attempts = st.attempts, !.leases = leases]
<1>1. st \in Snapshot /\ Normal(st) /\ lease \in st.leases
  BY HeldSnapshot
<1>2. Persist(s, [st EXCEPT !.leases = leases])
  OBVIOUS
<1> HIDE DEF st
<1>3. st.leases \in SUBSET Lease /\ st.attempts \in [Request -> [Endpoint -> Nat]]
  BY <1>1 DEF Snapshot
<1>4. leases \in SUBSET Lease
  BY <1>1, <1>3 DEF WithCompleted, Lease
<1> HIDE DEF leases
<1>5. new \in Snapshot /\ Normal(new)
  BY <1>1, <1>3, <1>4, BookReplaced
<1>6. new = [st EXCEPT !.leases = leases]
  BY <1>1 DEF Snapshot
<1> QED
  BY <1>2, <1>5, <1>6, QuietSave

LEMMA StartPreserves ==
    ASSUME MemoryInv, NEW s \in Server, Start(s)
    PROVE  MemoryInv'
<1> DEFINE row == [rev |-> store.rev, state |-> Normalize(store.state)]
<1>1. /\ mem' = [mem EXCEPT ![s] = row]
      /\ UNCHANGED <<store, granted, clock>>
  BY DEF Start
<1>2. /\ store \in Row /\ store.rev \in Nat /\ store.state \in Snapshot
      /\ mem \in [Server -> Row \cup {None}]
  BY DEF MemoryInv, TypeOK, Row
<1>3. Normalize(store.state) \in Snapshot /\ Normal(Normalize(store.state))
  BY <1>2, NormalizeIsNormal
<1>4. /\ row \in Row /\ row.rev = store.rev /\ row.state = Normalize(store.state)
  BY <1>2, <1>3 DEF Row
<1> HIDE DEF row
<1>5. mem' \in [Server -> Row \cup {None}]
  BY <1>1, <1>2, <1>4
<1>6. \A t \in Server : mem'[t] = IF t = s THEN row ELSE mem[t]
  BY <1>1, <1>2
<1>7. MemoryNormal'
  BY <1>3, <1>4, <1>6 DEF MemoryInv, MemoryNormal, Running
<1>8. MemoryNeverAhead'
  BY <1>1, <1>2, <1>4, <1>6 DEF MemoryInv, MemoryNeverAhead, Running, Durable
<1> QED
  BY <1>1, <1>5, <1>7, <1>8 DEF MemoryInv, TypeOK

LEMMA CrashPreserves ==
    ASSUME MemoryInv, NEW s \in Server, Crash(s)
    PROVE  MemoryInv'
<1>1. /\ mem' = [mem EXCEPT ![s] = None]
      /\ UNCHANGED <<store, granted, clock>>
  BY DEF Crash
<1>2. mem \in [Server -> Row \cup {None}]
  BY DEF MemoryInv, TypeOK
<1>3. \A t \in Server : mem'[t] = IF t = s THEN None ELSE mem[t]
  BY <1>1, <1>2
<1> QED
  BY <1>1, <1>2, <1>3
     DEF MemoryInv, TypeOK, MemoryNormal, MemoryNeverAhead, Running, Durable

-----------------------------------------------------------------------------
LEMMA InitMemoryInv == Init => MemoryInv
<1> SUFFICES ASSUME Init
             PROVE  MemoryInv
  OBVIOUS
<1>1. EmptySnapshot \in Snapshot
  BY DEF EmptySnapshot, Snapshot
<1>2. ASSUME NEW r \in LegacyRequests
      PROVE  LegacySnapshot(r) \in Snapshot
  <2> DEFINE req == [canonical |-> FALSE, migration |-> None, required |-> 1,
                     approvals |-> <<>>, state |-> "authorized", ready |-> Endpoint]
             rol == [from |-> 1, until |-> 1 + DefaultValidity, limit |-> 1,
                     concurrency |-> 1, windows |-> {}, migration |-> None]
  <2>1. r \in Request /\ DefaultValidity \in Nat /\ None \in Migration /\ <<>> \in Seq(Operator)
    BY ConstantsAssumption DEF Migration
  <2>2. req \in ChangeRequest
    BY <2>1 DEF ChangeRequest, AuthorizationState
  <2>3. rol \in Rollout
    BY <2>1 DEF Rollout
  <2>4. LegacySnapshot(r) = [EmptySnapshot EXCEPT !.requests[r] = req, !.rollouts[r] = rol]
    BY DEF LegacySnapshot
  <2> HIDE DEF req, rol
  <2>5. ASSUME NEW st \in Snapshot
        PROVE  [st EXCEPT !.requests[r] = req, !.rollouts[r] = rol] \in Snapshot
    BY <2>1, <2>2, <2>3 DEF Snapshot
  <2> QED
    BY <1>1, <2>4, <2>5
<1>3. store \in Row
  BY <1>1, <1>2 DEF Init, Row
<1>4. mem \in [Server -> Row \cup {None}] /\ \A s \in Server : ~Running(s)
  BY DEF Init, Running
<1> QED
  BY <1>3, <1>4 DEF Init, MemoryInv, TypeOK, MemoryNormal, MemoryNeverAhead

LEMMA StepMemoryInv == MemoryInv /\ [ReportingNext]_vars => MemoryInv'
<1> SUFFICES ASSUME MemoryInv, [ReportingNext]_vars
             PROVE  MemoryInv'
  OBVIOUS
<1>1. CASE Tick
  BY <1>1 DEF Tick, MemoryInv, TypeOK, MemoryNormal, MemoryNeverAhead, Running, Durable
<1>2. ASSUME NEW s \in Server, ServerStep(s)
      PROVE  MemoryInv'
  <2>1. ASSUME NEW fresh \in SUBSET Request, NEW ready \in [fresh -> SUBSET Endpoint],
               CreateChangeRequests(s, ready)
        PROVE  MemoryInv'
    BY <2>1, CreatePreserves
  <2>2. ASSUME NEW r \in Request, NEW o \in Operator, RecordApproval(s, r, o)
        PROVE  MemoryInv'
    BY <2>2, RecordApprovalPreserves
  <2>3. ASSUME NEW r \in Request, NEW o \in Operator, NEW spec \in RolloutSpecs,
               AuthorizeRollout(s, r, o, spec)
        PROVE  MemoryInv'
    BY <2>3, AuthorizeRolloutPreserves
  <2>4. ASSUME NEW r \in Request, Pause(s, r) \/ Revoke(s, r) \/ Resume(s, r)
        PROVE  MemoryInv'
    BY <2>4, SetLifecycleStatePreserves DEF Pause, Revoke, Resume, AuthorizationState
  <2>5. ASSUME NEW r \in Request, NEW replacement \in Request, NEW ready \in SUBSET Endpoint,
               RegenerateLegacy(s, r, replacement, ready)
        PROVE  MemoryInv'
    BY <2>5, RegenerateLegacyPreserves
  <2>6. ASSUME NEW r \in Request, NEW e \in Endpoint, IssueExecutionLease(s, r, e)
        PROVE  MemoryInv'
    BY <2>6, IssueExecutionLeasePreserves
  <2>7. CASE Crash(s)
    BY <2>7, CrashPreserves
  <2>8. CASE Start(s)
    BY <2>8, StartPreserves
  <2> QED
    BY <1>2, <2>1, <2>2, <2>3, <2>4, <2>5, <2>6, <2>7, <2>8 DEF ServerStep
<1>3. ASSUME NEW s \in Server, ReportStep(s)
      PROVE  MemoryInv'
  <2>1. PICK lease \in mem[s].state.leases :
           \/ CompleteExecutionLease(s, lease)
           \/ \E terminal \in BOOLEAN : UpdateExecutionProgress(s, lease, terminal)
    BY <1>3 DEF ReportStep
  <2>2. CASE CompleteExecutionLease(s, lease)
    BY <2>2, ReportPreserves DEF CompleteExecutionLease
  <2>3. ASSUME NEW terminal \in BOOLEAN, UpdateExecutionProgress(s, lease, terminal)
        PROVE  MemoryInv'
    BY <2>3, ReportPreserves DEF UpdateExecutionProgress
  <2> QED
    BY <2>1, <2>2, <2>3
<1>4. CASE UNCHANGED vars
  BY <1>4 DEF vars, MemoryInv, TypeOK, MemoryNormal, MemoryNeverAhead, Running, Durable
<1> QED
  BY <1>1, <1>2, <1>3, <1>4 DEF ReportingNext, Next

THEOREM MemoryInvariant == ReportingSpec => []MemoryInv
  BY InitMemoryInv, StepMemoryInv, PTL DEF ReportingSpec

\* The operations the handlers call are among those of ReportingSpec.
LEMMA SpecReports == Spec => ReportingSpec
<1>1. [Next]_vars => [ReportingNext]_vars
  BY DEF ReportingNext
<1> QED
  BY <1>1, PTL DEF Spec, ReportingSpec

\* Type correctness, with or without the progress operations.
THEOREM TypeCorrect == (Spec => []TypeOK) /\ (ReportingSpec => []TypeOK)
<1>1. MemoryInv => TypeOK
  BY DEF MemoryInv
<1> QED
  BY <1>1, MemoryInvariant, SpecReports, PTL

\* A process that knows the current revision holds the current snapshot: what
\* persistLocked's expected-revision save stands on.
THEOREM MemoryCorrect == (Spec => []MemoryNeverAhead) /\ (ReportingSpec => []MemoryNeverAhead)
<1>1. MemoryInv => MemoryNeverAhead
  BY DEF MemoryInv
<1> QED
  BY <1>1, MemoryInvariant, SpecReports, PTL

-----------------------------------------------------------------------------
\* The row as every process reads it.
Book == Normalize(Durable)

-----------------------------------------------------------------------------
(***************************************************************************)
(* The steps of the book, field by field.                                  *)
(***************************************************************************)
SameRequests(st, new) == \A q \in Request : new.requests[q] = st.requests[q]
SameRollouts(st, new) == \A q \in Request : new.rollouts[q] = st.rollouts[q]
SameAttempts(st, new) ==
    \A q \in Request, e \in Endpoint : new.attempts[q][e] = st.attempts[q][e]
SameLeases(st, new) == new.leases = st.leases

OtherRequestsSame(st, new, r) ==
    \A q \in Request \ {r} : new.requests[q] = st.requests[q]
OtherRolloutsSame(st, new, r) ==
    \A q \in Request \ {r} : new.rollouts[q] = st.rollouts[q]

\* The approval of o on r counts, and what r's request becomes by it.
Counts(st, r, o) ==
    /\ st.requests[r] # None
    /\ st.requests[r].migration = None
    /\ \A i \in DOMAIN st.requests[r].approvals : st.requests[r].approvals[i] # o

WithApproval(req, o) == [req EXCEPT !.approvals = Append(req.approvals, o)]

Created(st, new, fresh, ready) ==
    /\ \A q \in fresh : st.requests[q] = None
    /\ \A q \in Request : new.requests[q] =
          IF q \in fresh THEN PendingRequest(q, ready[q]) ELSE st.requests[q]
    /\ SameRollouts(st, new) /\ SameAttempts(st, new) /\ SameLeases(st, new)

Recorded(st, new, r, o) ==
    /\ Counts(st, r, o)
    /\ ~QuorumReached(WithApproval(st.requests[r], o))
    /\ new.requests[r] = WithApproval(st.requests[r], o)
    /\ OtherRequestsSame(st, new, r)
    /\ SameRollouts(st, new) /\ SameAttempts(st, new) /\ SameLeases(st, new)

Authorized(st, new, r, o, spec) ==
    /\ Counts(st, r, o)
    /\ QuorumReached(WithApproval(st.requests[r], o))
    /\ st.rollouts[r] = None
    /\ new.requests[r] = [WithApproval(st.requests[r], o) EXCEPT !.state = "authorized"]
    /\ new.rollouts[r] = RolloutOf(spec, None)
    /\ OtherRequestsSame(st, new, r) /\ OtherRolloutsSame(st, new, r)
    /\ SameAttempts(st, new) /\ SameLeases(st, new)

Moved(st, new, r, state) ==
    /\ st.requests[r] # None
    /\ state = "authorized" => st.rollouts[r] # None /\ st.requests[r].migration = None
    /\ new.requests[r] = [st.requests[r] EXCEPT !.state = state]
    /\ OtherRequestsSame(st, new, r)
    /\ SameRollouts(st, new) /\ SameAttempts(st, new) /\ SameLeases(st, new)

Regenerated(st, new, r, replacement, ready) ==
    /\ st.requests[r] # None /\ st.requests[r].migration = Awaiting
    /\ st.requests[replacement] = None
    /\ new.requests[r] = [st.requests[r] EXCEPT !.migration = replacement]
    /\ new.requests[replacement] = PendingRequest(replacement, ready)
    /\ \A q \in Request \ {r, replacement} : new.requests[q] = st.requests[q]
    /\ new.rollouts[r] = IF st.rollouts[r] = None THEN None
                         ELSE [st.rollouts[r] EXCEPT !.migration = replacement]
    /\ OtherRolloutsSame(st, new, r)
    /\ SameAttempts(st, new) /\ SameLeases(st, new)

Issuable(st, r, e) ==
    /\ st.requests[r] # None /\ st.rollouts[r] # None
    /\ st.requests[r].migration = None
    /\ st.requests[r].state = "authorized"
    /\ InForce(st.rollouts[r], clock)
    /\ e \in st.requests[r].ready
    /\ AttemptsLeft(st, r, e)
    /\ SlotFree(st, r, e)

Issued(st, new, r, e) ==
    /\ Issuable(st, r, e)
    /\ new.leases = st.leases \cup {NewLease(st, r, e)}
    /\ new.attempts[r][e] = st.attempts[r][e] + 1
    /\ \A q \in Request, d \in Endpoint :
          q # r \/ d # e => new.attempts[q][d] = st.attempts[q][d]
    /\ SameRequests(st, new) /\ SameRollouts(st, new)

Reported(st, new, lease, completed) ==
    /\ lease \in st.leases
    /\ new.leases = WithCompleted(st.leases, lease, completed)
    /\ SameRequests(st, new) /\ SameRollouts(st, new) /\ SameAttempts(st, new)

\* Every operation but the issue of a lease and the progress reports.
Reviewing(st, new) ==
    \/ \E fresh \in SUBSET Request : \E ready \in [fresh -> SUBSET Endpoint] :
          Created(st, new, fresh, ready)
    \/ \E r \in Request, o \in Operator : Recorded(st, new, r, o)
    \/ \E r \in Request, o \in Operator, spec \in RolloutSpecs : Authorized(st, new, r, o, spec)
    \/ \E r \in Request, state \in AuthorizationState : Moved(st, new, r, state)
    \/ \E r, replacement \in Request, ready \in SUBSET Endpoint :
          Regenerated(st, new, r, replacement, ready)

\* What a step may do to the row and to what left the servers.
RowStep ==
    /\ clock' \in {clock, clock + 1}
    /\ \/ store' = store /\ granted' = granted
       \/ Reviewing(Book, store'.state) /\ granted' = granted /\ clock' = clock
       \/ /\ clock' = clock
          /\ \E r \in Request, e \in Endpoint :
                /\ Issued(Book, store'.state, r, e)
                /\ granted' \in {granted, granted \cup {NewLease(Book, r, e)}}

ReportedStep ==
    /\ granted' = granted /\ clock' = clock
    /\ \E lease \in Book.leases, completed \in BOOLEAN :
          Reported(Book, store'.state, lease, completed)

-----------------------------------------------------------------------------
(***************************************************************************)
(* Every step is such a step.                                              *)
(***************************************************************************)

\* A save leaves the row alone or replaces the one its snapshot came from.
LEMMA SavedFromBook ==
    ASSUME MemoryInv, NEW s \in Server, Running(s), NEW new, Persist(s, new)
    PROVE  \/ store' = store
           \/ /\ mem[s].state = Book /\ store'.state = new
<1>1. CASE SaveRefused(s)
  BY <1>1 DEF SaveRefused
<1>2. CASE CanSave(s) /\ store' = [rev |-> store.rev + 1, state |-> new]
  <2>1. mem[s].state = Book
    BY <1>2 DEF CanSave, MemoryInv, MemoryNeverAhead, Book
  <2> QED
    BY <1>2, <2>1
<1> QED
  BY <1>1, <1>2 DEF Persist, Saved, SaveUnanswered

\* The book is a well-typed, normalized snapshot.
LEMMA BookTyped ==
    ASSUME MemoryInv
    PROVE  /\ Durable \in Snapshot /\ Book \in Snapshot /\ Normal(Book)
           /\ clock \in Nat /\ granted \in SUBSET Lease
  BY NormalizeIsNormal DEF MemoryInv, TypeOK, Row, Durable, Book

LEMMA CreateIsRowStep ==
    ASSUME MemoryInv, NEW s \in Server, NEW fresh \in SUBSET Request,
           NEW ready \in [fresh -> SUBSET Endpoint], CreateChangeRequests(s, ready)
    PROVE  RowStep
<1> DEFINE new == [mem[s].state EXCEPT !.requests =
                      [r \in Request |-> IF r \in DOMAIN ready THEN PendingRequest(r, ready[r])
                                         ELSE mem[s].state.requests[r]]]
<1>1. /\ Running(s) /\ Persist(s, new) /\ UNCHANGED <<granted, clock>>
      /\ \A r \in fresh : mem[s].state.requests[r] = None
  BY DEF CreateChangeRequests, Requests
<1>2. mem[s].state \in Snapshot
  BY <1>1, HeldSnapshot
<1>3. Created(mem[s].state, new, fresh, ready)
  BY <1>1, <1>2 DEF Snapshot, Created, SameRollouts, SameAttempts, SameLeases
<1> HIDE DEF new
<1> QED
  BY <1>1, <1>3, SavedFromBook DEF RowStep, Reviewing

LEMMA RecordApprovalIsRowStep ==
    ASSUME MemoryInv, NEW s \in Server, NEW r \in Request, NEW o \in Operator,
           RecordApproval(s, r, o)
    PROVE  RowStep
<1> DEFINE st == mem[s].state
           req == Approved(s, r, o)
           new == [st EXCEPT !.requests[r] = req]
<1>1. /\ Running(s) /\ Persist(s, new) /\ UNCHANGED <<granted, clock>>
      /\ Counts(st, r, o)
      /\ req = WithApproval(st.requests[r], o) /\ ~QuorumReached(req)
  BY DEF RecordApproval, Requests, Approvable, Approved, WithApproval, Counts
<1>2. st \in Snapshot
  BY <1>1, HeldSnapshot
<1> HIDE DEF st, req
<1>3. Recorded(st, new, r, o)
  BY <1>1, <1>2
     DEF Snapshot, Recorded, OtherRequestsSame, SameRollouts, SameAttempts, SameLeases
<1> HIDE DEF new
<1> QED
  BY <1>1, <1>3, SavedFromBook DEF RowStep, Reviewing, st

LEMMA AuthorizeRolloutIsRowStep ==
    ASSUME MemoryInv, NEW s \in Server, NEW r \in Request, NEW o \in Operator,
           NEW spec \in RolloutSpecs, AuthorizeRollout(s, r, o, spec)
    PROVE  RowStep
<1> DEFINE st == mem[s].state
           req == [Approved(s, r, o) EXCEPT !.state = "authorized"]
           rollout == RolloutOf(spec, None)
           new == [st EXCEPT !.requests[r] = req, !.rollouts[r] = rollout]
<1>1. /\ Running(s) /\ Persist(s, new) /\ UNCHANGED <<granted, clock>>
      /\ Counts(st, r, o) /\ st.rollouts[r] = None
      /\ req = [WithApproval(st.requests[r], o) EXCEPT !.state = "authorized"]
      /\ QuorumReached(WithApproval(st.requests[r], o))
  BY DEF AuthorizeRollout, Requests, Rollouts, Approvable, Approved, WithApproval, Counts
<1>2. st \in Snapshot
  BY <1>1, HeldSnapshot
<1> HIDE DEF st, req, rollout
<1>3. Authorized(st, new, r, o, spec)
  BY <1>1, <1>2
     DEF Snapshot, Authorized, OtherRequestsSame, OtherRolloutsSame, SameAttempts, SameLeases,
         rollout
<1> HIDE DEF new
<1> QED
  BY <1>1, <1>3, SavedFromBook DEF RowStep, Reviewing, st

LEMMA SetLifecycleStateIsRowStep ==
    ASSUME MemoryInv, NEW s \in Server, NEW r \in Request, NEW state \in AuthorizationState,
           SetLifecycleState(s, r, state),
           state = "authorized" => Rollouts(s)[r] # None /\ Requests(s)[r].migration = None
    PROVE  RowStep
<1> DEFINE st == mem[s].state
           new == [st EXCEPT !.requests[r].state = state]
<1>1. /\ Running(s) /\ Persist(s, new) /\ UNCHANGED <<granted, clock>>
      /\ st.requests[r] # None
      /\ state = "authorized" => st.rollouts[r] # None /\ st.requests[r].migration = None
  BY DEF SetLifecycleState, Requests, Rollouts
<1>2. st \in Snapshot
  BY <1>1, HeldSnapshot
<1> HIDE DEF st
<1>3. Moved(st, new, r, state)
  BY <1>1, <1>2
     DEF Snapshot, Moved, OtherRequestsSame, SameRollouts, SameAttempts, SameLeases
<1> HIDE DEF new
<1> QED
  BY <1>1, <1>3, SavedFromBook DEF RowStep, Reviewing, st

LEMMA RegenerateLegacyIsRowStep ==
    ASSUME MemoryInv, NEW s \in Server, NEW r \in Request, NEW replacement \in Request,
           NEW ready \in SUBSET Endpoint, RegenerateLegacy(s, r, replacement, ready)
    PROVE  RowStep
<1> DEFINE st == mem[s].state
           reqs == [st.requests EXCEPT ![r].migration = replacement,
                                       ![replacement] = PendingRequest(replacement, ready)]
           rol == IF st.rollouts[r] = None THEN None
                  ELSE [st.rollouts[r] EXCEPT !.migration = replacement]
           new == [st EXCEPT !.requests = reqs, !.rollouts[r] = rol]
<1>1. /\ Running(s) /\ Persist(s, new) /\ UNCHANGED <<granted, clock>>
      /\ st.requests[r] # None /\ st.requests[r].migration = Awaiting
      /\ st.requests[replacement] = None
  BY DEF RegenerateLegacy, Requests, Rollouts
<1>2. st \in Snapshot
  BY <1>1, HeldSnapshot
<1> HIDE DEF st
<1>3. \A q \in Request :
         reqs[q] = IF q = replacement THEN PendingRequest(replacement, ready)
                   ELSE IF q = r THEN [st.requests[r] EXCEPT !.migration = replacement]
                   ELSE st.requests[q]
  BY <1>1, <1>2 DEF Snapshot
<1> HIDE DEF reqs
<1>4. Regenerated(st, new, r, replacement, ready)
  BY <1>1, <1>2, <1>3
     DEF Snapshot, Regenerated, OtherRolloutsSame, SameAttempts, SameLeases
<1> HIDE DEF new
<1> QED
  BY <1>1, <1>4, SavedFromBook DEF RowStep, Reviewing, st

LEMMA IssueExecutionLeaseIsRowStep ==
    ASSUME MemoryInv, NEW s \in Server, NEW r \in Request, NEW e \in Endpoint,
           IssueExecutionLease(s, r, e)
    PROVE  RowStep
<1> DEFINE st == mem[s].state
           lease == NewLease(st, r, e)
           new == [st EXCEPT !.attempts[r][e] = @ + 1, !.leases = @ \cup {lease}]
<1>1. /\ Running(s) /\ HandOut(s, new, lease) /\ clock' = clock
      /\ Issuable(st, r, e)
  BY DEF IssueExecutionLease, Requests, Rollouts, RolloutActive, Issuable
<1>2. st \in Snapshot
  BY <1>1, HeldSnapshot
<1> HIDE DEF st
<1>3. Issued(st, new, r, e)
  BY <1>1, <1>2 DEF Snapshot, Issued, SameRequests, SameRollouts
<1>4. Persist(s, new) /\ granted' \in {granted, granted \cup {lease}}
  BY <1>1 DEF HandOut, Persist
<1>5. store' = store => granted' = granted
  <2>1. SUFFICES ASSUME Saved(s, new), store' = store PROVE FALSE
    BY <1>1 DEF HandOut
  <2>2. store'.rev = store.rev + 1
    BY <2>1 DEF Saved
  <2> QED
    BY <2>1, <2>2 DEF MemoryInv, TypeOK, Row
<1> HIDE DEF new
<1> QED
  BY <1>1, <1>3, <1>4, <1>5, SavedFromBook DEF RowStep, st

\* The operations the handlers call move the book by whole operations, and hand
\* out a lease only with the step that books it.
LEMMA NextIsRowStep ==
    ASSUME MemoryInv, [Next]_vars
    PROVE  RowStep
<1>1. CASE Tick \/ UNCHANGED vars
  BY <1>1 DEF Tick, vars, RowStep
<1>2. ASSUME NEW s \in Server, ServerStep(s)
      PROVE  RowStep
  <2>1. ASSUME NEW r \in Request, Pause(s, r) \/ Revoke(s, r) \/ Resume(s, r)
        PROVE  RowStep
    BY <2>1, SetLifecycleStateIsRowStep DEF Pause, Revoke, Resume, AuthorizationState
  <2>2. CASE Crash(s) \/ Start(s)
    BY <2>2 DEF Crash, Start, RowStep
  <2> QED
    BY <1>2, <2>1, <2>2, CreateIsRowStep, RecordApprovalIsRowStep, AuthorizeRolloutIsRowStep,
       RegenerateLegacyIsRowStep, IssueExecutionLeaseIsRowStep DEF ServerStep
<1> QED
  BY <1>1, <1>2 DEF Next

LEMMA ReportIsReportedStep ==
    ASSUME MemoryInv, NEW s \in Server, Running(s), NEW lease \in mem[s].state.leases,
           NEW completed \in BOOLEAN,
           Persist(s, [mem[s].state EXCEPT !.leases = WithCompleted(@, lease, completed)]),
           UNCHANGED <<granted, clock>>
    PROVE  RowStep \/ ReportedStep
<1> DEFINE st == mem[s].state
           new == [st EXCEPT !.leases = WithCompleted(@, lease, completed)]
<1>1. st \in Snapshot
  BY HeldSnapshot
<1>2. Persist(s, new) /\ lease \in st.leases
  OBVIOUS
<1> HIDE DEF st
<1>3. Reported(st, new, lease, completed)
  BY <1>1, <1>2 DEF Snapshot, Reported, SameRequests, SameRollouts, SameAttempts
<1> HIDE DEF new
<1> QED
  BY <1>2, <1>3, SavedFromBook DEF RowStep, ReportedStep, st

\* The progress operations change one lease of the book, if anything.
LEMMA ReportingNextIsRowStep ==
    ASSUME MemoryInv, [ReportingNext]_vars
    PROVE  RowStep \/ ReportedStep
<1>1. CASE [Next]_vars
  BY <1>1, NextIsRowStep
<1>2. ASSUME NEW s \in Server, ReportStep(s)
      PROVE  RowStep \/ ReportedStep
  BY <1>2, ReportIsReportedStep
     DEF ReportStep, CompleteExecutionLease, UpdateExecutionProgress
<1> QED
  BY <1>1, <1>2 DEF ReportingNext

-----------------------------------------------------------------------------
(***************************************************************************)
(* The row and the book differ in markers of legacy requests alone.        *)
(***************************************************************************)
LEMMA MarkedIsTyped ==
    /\ \A req \in ChangeRequest : [req EXCEPT !.migration = Awaiting] \in ChangeRequest
    /\ \A rollout \in Rollout : [rollout EXCEPT !.migration = Awaiting] \in Rollout
<1>1. Awaiting \in Migration
  BY DEF Migration
<1> QED
  BY <1>1 DEF ChangeRequest, Rollout

LEMMA BookOfDurable ==
    ASSUME MemoryInv, NEW r \in Request
    PROVE  /\ Book.requests[r] = Durable.requests[r]
              \/ /\ Durable.requests[r] \in ChangeRequest /\ Durable.requests[r] # None
                 /\ ~Durable.requests[r].canonical
                 /\ Book.requests[r] \in ChangeRequest /\ Book.requests[r] # None
                 /\ Book.requests[r] = [Durable.requests[r] EXCEPT !.migration = Awaiting]
           /\ Book.rollouts[r] = Durable.rollouts[r]
              \/ /\ Durable.rollouts[r] \in Rollout /\ Durable.rollouts[r] # None
                 /\ Book.rollouts[r] \in Rollout /\ Book.rollouts[r] # None
                 /\ Book.rollouts[r] = [Durable.rollouts[r] EXCEPT !.migration = Awaiting]
           /\ Book.leases = Durable.leases
           /\ Book.attempts = Durable.attempts
<1>1. Durable \in Snapshot /\ Book \in Snapshot
  BY BookTyped
<1>2. /\ Book.requests[r] = NormalizedRequest(Durable.requests[r])
      /\ Book.rollouts[r] = NormalizedRollout(Durable.rollouts[r], Durable.requests[r])
      /\ Book.leases = Durable.leases /\ Book.attempts = Durable.attempts
  BY <1>1 DEF Book, Normalize, Snapshot
<1>3. /\ Durable.requests[r] \in ChangeRequest \cup {None}
      /\ Durable.rollouts[r] \in Rollout \cup {None}
      /\ Book.requests[r] \in ChangeRequest \cup {None}
      /\ Book.rollouts[r] \in Rollout \cup {None}
  BY <1>1 DEF Snapshot
<1>4. /\ Book.requests[r] = None => Durable.requests[r] = None
      /\ Book.rollouts[r] = None => Durable.rollouts[r] = None
  BY <1>2, <1>3, MarkedIsTyped, NoneIsAbsent DEF NormalizedRequest, NormalizedRollout
<1> QED
  BY <1>2, <1>3, <1>4 DEF NormalizedRequest, NormalizedRollout

-----------------------------------------------------------------------------
(***************************************************************************)
(* The row only grows.                                                     *)
(***************************************************************************)
LEMMA Prefixes ==
    ASSUME NEW s \in Seq(Operator), NEW o \in Operator
    PROVE  /\ Append(s, o) \in Seq(Operator) /\ Len(Append(s, o)) = Len(s) + 1
           /\ SubSeq(s, 1, Len(s)) = s
           /\ SubSeq(Append(s, o), 1, Len(s)) = s
<1> DEFINE t == Append(s, o)
<1>1. /\ t \in Seq(Operator) /\ Len(t) = Len(s) + 1 /\ Len(s) \in Nat
      /\ \A i \in 1..Len(s) : t[i] = s[i]
      /\ s \in [1..Len(s) -> Operator]
  BY AppendProperties, LenProperties
<1> HIDE DEF t
<1>2. SubSeq(t, 1, Len(s)) = [i \in 1..Len(s) |-> t[i]]
  BY <1>1
<1>3. SubSeq(t, 1, Len(s)) = s
  BY <1>1, <1>2
<1> QED
  BY <1>1, <1>3, SubSeqFull DEF t

\* What the old snapshot says of a request stays said.
KeepsRequest(req, new) ==
    /\ new # None
    /\ Len(new.approvals) >= Len(req.approvals)
    /\ SubSeq(new.approvals, 1, Len(req.approvals)) = req.approvals
    /\ new.ready = req.ready /\ new.required = req.required

LEMMA SameKeepsRequest ==
    ASSUME NEW req \in ChangeRequest, NEW new \in ChangeRequest,
           new.ready = req.ready, new.required = req.required,
           \/ new.approvals = req.approvals
           \/ \E o \in Operator : new.approvals = Append(req.approvals, o)
    PROVE  KeepsRequest(req, new)
<1>1. req.approvals \in Seq(Operator) /\ Len(req.approvals) \in Nat /\ new # None
  BY LenProperties, NoneIsAbsent DEF ChangeRequest
<1>2. CASE new.approvals = req.approvals
  BY <1>1, <1>2, SubSeqFull DEF KeepsRequest
<1>3. ASSUME NEW o \in Operator, new.approvals = Append(req.approvals, o)
      PROVE  KeepsRequest(req, new)
  BY <1>1, <1>3, Prefixes DEF KeepsRequest
<1> QED
  BY <1>2, <1>3

LEMMA ReviewingKeepsRequests ==
    ASSUME NEW st \in Snapshot, NEW new \in Snapshot, Reviewing(st, new),
           NEW q \in Request, st.requests[q] # None
    PROVE  KeepsRequest(st.requests[q], new.requests[q])
<1> DEFINE old == st.requests[q]
           req == new.requests[q]
<1>1. old \in ChangeRequest /\ new.requests[q] \in ChangeRequest \cup {None}
  BY DEF Snapshot
<1>2. SUFFICES /\ req \in ChangeRequest
               /\ req.ready = old.ready /\ req.required = old.required
               /\ \/ req.approvals = old.approvals
                  \/ \E o \in Operator : req.approvals = Append(old.approvals, o)
  BY <1>1, SameKeepsRequest
<1>3. ASSUME NEW fresh \in SUBSET Request, NEW ready \in [fresh -> SUBSET Endpoint],
             Created(st, new, fresh, ready)
      PROVE  req = old
  BY <1>3 DEF Created
<1>4. ASSUME NEW r \in Request, NEW o \in Operator, Recorded(st, new, r, o)
      PROVE  req = old \/ req = WithApproval(old, o)
  BY <1>4 DEF Recorded, OtherRequestsSame
<1>5. ASSUME NEW r \in Request, NEW o \in Operator, NEW spec \in RolloutSpecs,
             Authorized(st, new, r, o, spec)
      PROVE  req = old \/ req = [WithApproval(old, o) EXCEPT !.state = "authorized"]
  BY <1>5 DEF Authorized, OtherRequestsSame
<1>6. ASSUME NEW r \in Request, NEW state \in AuthorizationState, Moved(st, new, r, state)
      PROVE  req = old \/ req = [old EXCEPT !.state = state]
  BY <1>6 DEF Moved, OtherRequestsSame
<1>7. ASSUME NEW r \in Request, NEW replacement \in Request, NEW ready \in SUBSET Endpoint,
             Regenerated(st, new, r, replacement, ready)
      PROVE  req = old \/ req = [old EXCEPT !.migration = replacement]
  BY <1>7 DEF Regenerated
<1>8. \/ req = old
      \/ \E o \in Operator : req = WithApproval(old, o)
      \/ \E o \in Operator : req = [WithApproval(old, o) EXCEPT !.state = "authorized"]
      \/ \E state \in AuthorizationState : req = [old EXCEPT !.state = state]
      \/ \E replacement \in Request : req = [old EXCEPT !.migration = replacement]
  BY <1>3, <1>4, <1>5, <1>6, <1>7 DEF Reviewing
<1> HIDE DEF old, req
<1>9. CASE req = old
  BY <1>1, <1>9 DEF old
<1>10. ASSUME NEW o \in Operator,
              req = WithApproval(old, o) \/ req = [WithApproval(old, o) EXCEPT !.state = "authorized"]
       PROVE  /\ req \in ChangeRequest
              /\ req.ready = old.ready /\ req.required = old.required
              /\ req.approvals = Append(old.approvals, o)
  <2>1. old \in ChangeRequest /\ Append(old.approvals, o) \in Seq(Operator)
    BY <1>1, AppendProperties DEF old, ChangeRequest
  <2> QED
    BY <1>10, <2>1 DEF WithApproval, ChangeRequest, AuthorizationState
<1>11. CASE \/ \E state \in AuthorizationState : req = [old EXCEPT !.state = state]
            \/ \E replacement \in Request : req = [old EXCEPT !.migration = replacement]
  <2>1. old \in ChangeRequest
    BY <1>1 DEF old
  <2> QED
    BY <1>11, <2>1 DEF ChangeRequest, Migration
<1> QED
  BY <1>8, <1>9, <1>10, <1>11

LEMMA ReviewingKeepsRollouts ==
    ASSUME NEW st \in Snapshot, NEW new \in Snapshot, Reviewing(st, new),
           NEW q \in Request, st.rollouts[q] # None
    PROVE  /\ new.rollouts[q] # None
           /\ [new.rollouts[q] EXCEPT !.migration = None]
                  = [st.rollouts[q] EXCEPT !.migration = None]
<1>1. st.rollouts[q] \in Rollout /\ new.rollouts[q] \in Rollout \cup {None}
  BY DEF Snapshot
<1>2. ASSUME NEW r \in Request, NEW replacement \in Request, NEW ready \in SUBSET Endpoint,
             Regenerated(st, new, r, replacement, ready)
      PROVE  \/ new.rollouts[q] = st.rollouts[q]
             \/ new.rollouts[q] = [st.rollouts[q] EXCEPT !.migration = replacement]
  BY <1>2 DEF Regenerated, OtherRolloutsSame
<1>3. \/ new.rollouts[q] = st.rollouts[q]
      \/ \E replacement \in Request :
            new.rollouts[q] = [st.rollouts[q] EXCEPT !.migration = replacement]
  BY <1>2 DEF Reviewing, Created, Recorded, Authorized, Moved, SameRollouts, OtherRolloutsSame
<1>4. \A replacement \in Request :
         /\ [st.rollouts[q] EXCEPT !.migration = replacement] \in Rollout
         /\ [[st.rollouts[q] EXCEPT !.migration = replacement] EXCEPT !.migration = None]
                = [st.rollouts[q] EXCEPT !.migration = None]
  BY <1>1 DEF Rollout, Migration
<1>5. CASE new.rollouts[q] = st.rollouts[q]
  BY <1>5
<1>6. ASSUME NEW replacement \in Request,
             new.rollouts[q] = [st.rollouts[q] EXCEPT !.migration = replacement]
      PROVE  /\ new.rollouts[q] # None
             /\ [new.rollouts[q] EXCEPT !.migration = None]
                    = [st.rollouts[q] EXCEPT !.migration = None]
  <2> DEFINE marked == [st.rollouts[q] EXCEPT !.migration = replacement]
  <2>1. /\ marked # None
        /\ [marked EXCEPT !.migration = None] = [st.rollouts[q] EXCEPT !.migration = None]
    BY <1>4, NoneIsAbsent
  <2> HIDE DEF marked
  <2>2. new.rollouts[q] = marked
    BY <1>6 DEF marked
  <2> QED
    BY <2>1, <2>2
<1> QED
  BY <1>3, <1>5, <1>6

LEMMA ReviewingKeepsBook ==
    ASSUME NEW st \in Snapshot, NEW new \in Snapshot, Reviewing(st, new)
    PROVE  new.leases = st.leases /\ new.attempts = st.attempts
<1>1. new.leases = st.leases /\ SameAttempts(st, new)
  BY DEF Reviewing, Created, Recorded, Authorized, Moved, Regenerated, SameLeases
<1> QED
  BY <1>1 DEF SameAttempts, Snapshot

\* A step of the registry extends the row.
LEMMA RowStepExtends ==
    ASSUME MemoryInv, MemoryInv', RowStep \/ ReportedStep
    PROVE  store' = store \/ Extends(Durable, Durable')
<1>1. /\ Durable \in Snapshot /\ Book \in Snapshot /\ Durable' \in Snapshot
      /\ Book.leases = Durable.leases /\ Book.attempts = Durable.attempts
  BY BookTyped DEF MemoryInv, TypeOK, Row, Durable, Book, Normalize, Snapshot
<1> DEFINE new == store'.state
<1>2. new = Durable'
  BY DEF Durable
<1> HIDE DEF new
<1>3. SUFFICES ASSUME \/ Reviewing(Book, new)
                      \/ \E r \in Request, e \in Endpoint : Issued(Book, new, r, e)
                      \/ \E lease \in Book.leases, completed \in BOOLEAN :
                            Reported(Book, new, lease, completed)
               PROVE  Extends(Durable, new)
  BY <1>2 DEF RowStep, ReportedStep, new
<1>4. ASSUME NEW q \in Request, Durable.requests[q] # None
      PROVE  KeepsRequest(Durable.requests[q], new.requests[q])
  <2>1. /\ Book.requests[q] # None
        /\ Book.requests[q].approvals = Durable.requests[q].approvals
        /\ Book.requests[q].ready = Durable.requests[q].ready
        /\ Book.requests[q].required = Durable.requests[q].required
    BY <1>4, BookOfDurable DEF ChangeRequest
  <2>2. Book.requests[q] \in ChangeRequest
    BY <1>1, <2>1 DEF Snapshot
  <2>3. KeepsRequest(Book.requests[q], new.requests[q])
    <3>1. CASE Reviewing(Book, new)
      BY <1>1, <1>2, <2>1, <3>1, ReviewingKeepsRequests
    <3>2. CASE SameRequests(Book, new)
      BY <2>2, <3>2, SameKeepsRequest DEF SameRequests
    <3> QED
      BY <1>3, <3>1, <3>2 DEF Issued, Reported
  <2> QED
    BY <2>1, <2>3 DEF KeepsRequest
<1>5. ASSUME NEW q \in Request, Durable.rollouts[q] # None
      PROVE  /\ new.rollouts[q] # None
             /\ [new.rollouts[q] EXCEPT !.migration = None]
                    = [Durable.rollouts[q] EXCEPT !.migration = None]
  <2>1. /\ Book.rollouts[q] # None
        /\ [Book.rollouts[q] EXCEPT !.migration = None]
               = [Durable.rollouts[q] EXCEPT !.migration = None]
    BY <1>5, BookOfDurable DEF Rollout
  <2>2. /\ new.rollouts[q] # None
        /\ [new.rollouts[q] EXCEPT !.migration = None]
               = [Book.rollouts[q] EXCEPT !.migration = None]
    <3>1. CASE Reviewing(Book, new)
      BY <1>1, <1>2, <2>1, <3>1, ReviewingKeepsRollouts
    <3>2. CASE SameRollouts(Book, new)
      BY <2>1, <3>2 DEF SameRollouts
    <3> QED
      BY <1>3, <3>1, <3>2 DEF Issued, Reported
  <2> QED
    BY <2>1, <2>2
<1>6. ASSUME NEW q \in Request, NEW d \in Endpoint
      PROVE  new.attempts[q][d] >= Durable.attempts[q][d]
  <2>1. Durable.attempts[q][d] \in Nat
    BY <1>1 DEF Snapshot
  <2>2. CASE new.attempts[q][d] = Book.attempts[q][d]
    BY <1>1, <2>1, <2>2
  <2>3. ASSUME NEW r \in Request, NEW e \in Endpoint, Issued(Book, new, r, e)
        PROVE  new.attempts[q][d] \in {Book.attempts[q][d], Book.attempts[q][d] + 1}
    BY <2>3 DEF Issued
  <2>4. Reviewing(Book, new) => new.attempts = Book.attempts
    BY <1>1, <1>2, ReviewingKeepsBook
  <2> QED
    BY <1>1, <1>3, <2>1, <2>3, <2>4 DEF Reported, SameAttempts
<1>7. ASSUME NEW l \in Durable.leases
      PROVE  \E m \in new.leases : [m EXCEPT !.completed = FALSE] = [l EXCEPT !.completed = FALSE]
  <2>1. CASE l \in new.leases
    BY <2>1
  <2>2. ASSUME NEW completed \in BOOLEAN, Reported(Book, new, l, completed)
        PROVE  /\ [l EXCEPT !.completed = completed] \in new.leases
               /\ [[l EXCEPT !.completed = completed] EXCEPT !.completed = FALSE]
                      = [l EXCEPT !.completed = FALSE]
    BY <1>1, <1>7, <2>2 DEF Reported, WithCompleted, Snapshot, Lease
  <2>3. \/ l \in new.leases
        \/ \E completed \in BOOLEAN : Reported(Book, new, l, completed)
    <3>1. Reviewing(Book, new) => new.leases = Book.leases
      BY <1>1, <1>2, ReviewingKeepsBook
    <3> QED
      BY <1>1, <1>3, <3>1 DEF Issued, Reported, WithCompleted
  <2> QED
    BY <2>1, <2>2, <2>3
<1> QED
  BY <1>4, <1>5, <1>6, <1>7 DEF Extends, KeepsRequest

\* Whatever stale, restarted and competing processes save, the row only grows.
THEOREM RowGrows == (Spec => DurableOnlyGrows) /\ (ReportingSpec => DurableOnlyGrows)
<1>1. MemoryInv /\ MemoryInv' /\ [ReportingNext]_vars => [Extends(Durable, Durable')]_store
  BY ReportingNextIsRowStep, RowStepExtends
<1>2. ReportingSpec => DurableOnlyGrows
  BY <1>1, MemoryInvariant, PTL DEF ReportingSpec, DurableOnlyGrows
<1> QED
  BY <1>2, SpecReports

-----------------------------------------------------------------------------
(***************************************************************************)
(* Leases leave under the authority of the row.                            *)
(***************************************************************************)
LEMMA GrantIsAuthorized ==
    ASSUME MemoryInv, RowStep \/ ReportedStep, NEW g \in granted' \ granted
    PROVE  DurablyAuthorized(g.request)
<1>1. PICK r \in Request, e \in Endpoint :
         Issued(Book, store'.state, r, e) /\ g = NewLease(Book, r, e)
  BY DEF RowStep, ReportedStep
<1>2. Issuable(Book, r, e) /\ g.request = r
  BY <1>1 DEF Issued, NewLease
<1>3. /\ Durable.requests[r].state = "authorized"
      /\ Book.requests[r].migration = None
  BY <1>2, BookOfDurable DEF Issuable, ChangeRequest
<1>4. /\ Book.rollouts[r] \in Rollout /\ Durable.rollouts[r] # None
      /\ Durable.rollouts[r].from = Book.rollouts[r].from
      /\ Durable.rollouts[r].until = Book.rollouts[r].until
      /\ Durable.rollouts[r].windows = Book.rollouts[r].windows
  <2>1. Book.rollouts[r] \in Rollout /\ Book.rollouts[r] # None
    BY <1>2, BookTyped DEF Issuable, Snapshot
  <2>2. CASE Book.rollouts[r] = Durable.rollouts[r]
    BY <2>1, <2>2
  <2>3. CASE /\ Durable.rollouts[r] \in Rollout /\ Durable.rollouts[r] # None
             /\ Book.rollouts[r] = [Durable.rollouts[r] EXCEPT !.migration = Awaiting]
    BY <2>1, <2>3 DEF Rollout
  <2> QED
    BY <2>2, <2>3, BookOfDurable
<1>5. clock \in Durable.rollouts[r].from .. (Durable.rollouts[r].until - 1)
  <2>1. /\ Book.rollouts[r].from \in Nat /\ Book.rollouts[r].until \in Nat /\ clock \in Nat
        /\ Book.rollouts[r].from <= clock /\ clock < Book.rollouts[r].until
    BY <1>2, <1>4, BookTyped DEF Issuable, InForce, Rollout
  <2> QED
    BY <1>4, <2>1
<1>6. InWindow(Durable.rollouts[r], clock)
  BY <1>2, <1>4 DEF Issuable, InForce, InWindow
<1> QED
  BY <1>2, <1>3, <1>4, <1>5, <1>6 DEF DurablyAuthorized, Book

\* No lease leaves a server that the row itself does not authorize at that moment.
THEOREM GrantsAreAuthorized ==
    (Spec => GrantUnderDurableAuthority) /\ (ReportingSpec => GrantUnderDurableAuthority)
<1>1. MemoryInv /\ [ReportingNext]_vars
          => [\A g \in granted' \ granted : DurablyAuthorized(g.request)]_granted
  BY ReportingNextIsRowStep, GrantIsAuthorized
<1>2. ReportingSpec => GrantUnderDurableAuthority
  BY <1>1, MemoryInvariant, PTL DEF ReportingSpec, GrantUnderDurableAuthority
<1> QED
  BY <1>2, SpecReports

-----------------------------------------------------------------------------
(***************************************************************************)
(* The invariant of the book.                                              *)
(***************************************************************************)
Distinct(approvals) ==
    \A i, j \in DOMAIN approvals : approvals[i] = approvals[j] => i = j

\* A request under the hash contract keeps its threshold and counts each operator
\* once; it has a rollout only with its quorum.
ReviewOK(st, r) ==
    st.requests[r] # None /\ st.requests[r].canonical =>
        /\ st.requests[r].required = Required[r]
        /\ Distinct(st.requests[r].approvals)
        /\ st.rollouts[r] # None => Len(st.requests[r].approvals) >= Required[r]
Reviews(st) == \A r \in Request : ReviewOK(st, r)

\* Attempts are made under a rollout, within its limit.
Attempts(st) ==
    \A r \in Request, e \in Endpoint : st.attempts[r][e] > 0 =>
        st.rollouts[r] # None /\ st.attempts[r][e] <= st.rollouts[r].limit

\* What left a server is booked, for a ready endpoint of a reviewed request.
Booked(st, g) ==
    /\ \E completed \in BOOLEAN : [g EXCEPT !.completed = completed] \in st.leases
    /\ g.attempt \in 1 .. st.attempts[g.request][g.endpoint]
    /\ st.requests[g.request] # None
    /\ st.requests[g.request].canonical
    /\ st.rollouts[g.request] # None
    /\ g.endpoint \in st.requests[g.request].ready
Grants == \A g \in granted : ~g.completed /\ Booked(Book, g)

\* No attempt is given twice.
OneGrantPerAttempt ==
    \A g, h \in granted :
        g.request = h.request /\ g.endpoint = h.endpoint /\ g.attempt = h.attempt => g = h

BookInv ==
    /\ Valid(Book) /\ Reviews(Book) /\ Attempts(Book)
    /\ Grants /\ OneGrantPerAttempt

\* The fields of a new request.
LEMMA PendingTyped ==
    ASSUME NEW q \in Request, NEW ready \in SUBSET Endpoint
    PROVE  LET req == PendingRequest(q, ready) IN
           /\ req \in ChangeRequest /\ req # None
           /\ req.canonical /\ req.migration = None /\ req.state = "pending"
           /\ req.approvals = <<>> /\ req.required = Required[q]
<1>1. Required[q] \in Nat /\ <<>> \in Seq(Operator) /\ None \in Migration
  BY ConstantsAssumption DEF Migration
<1>2. PendingRequest(q, ready) \in ChangeRequest
  BY <1>1 DEF PendingRequest, ChangeRequest, AuthorizationState
<1> QED
  BY <1>2, NoneIsAbsent DEF PendingRequest

\* A reviewing step leaves a normalized snapshot normalized.
LEMMA ReviewingKeepsNormal ==
    ASSUME NEW st \in Snapshot, Normal(st), NEW new \in Snapshot, Reviewing(st, new)
    PROVE  Normal(new)
<1>1. \A q \in Request : /\ st.requests[q] \in ChangeRequest \cup {None}
                         /\ st.rollouts[q] \in Rollout \cup {None}
  BY DEF Snapshot
<1>2. ASSUME NEW fresh \in SUBSET Request, NEW ready \in [fresh -> SUBSET Endpoint],
             Created(st, new, fresh, ready)
      PROVE  Normal(new)
  <2>1. \A q \in fresh : new.requests[q].canonical
    BY <1>2, PendingTyped DEF Created
  <2>2. \A q \in Request \ fresh : new.requests[q] = st.requests[q]
    BY <1>2 DEF Created
  <2> QED
    BY <1>2, <2>1, <2>2 DEF Created, SameRollouts, Normal
<1>3. ASSUME NEW r \in Request, NEW o \in Operator, Recorded(st, new, r, o)
      PROVE  Normal(new)
  <2>1. new.requests[r].canonical
    BY <1>1, <1>3 DEF Recorded, Counts, WithApproval, Normal, ChangeRequest
  <2> QED
    BY <1>3, <2>1 DEF Recorded, OtherRequestsSame, SameRollouts, Normal
<1>4. ASSUME NEW r \in Request, NEW o \in Operator, NEW spec \in RolloutSpecs,
             Authorized(st, new, r, o, spec)
      PROVE  Normal(new)
  <2>1. new.requests[r].canonical
    BY <1>1, <1>4 DEF Authorized, Counts, WithApproval, Normal, ChangeRequest
  <2> QED
    BY <1>4, <2>1 DEF Authorized, OtherRequestsSame, OtherRolloutsSame, Normal
<1>5. ASSUME NEW r \in Request, NEW state \in AuthorizationState, Moved(st, new, r, state)
      PROVE  Normal(new)
  <2>1. /\ new.requests[r].canonical = st.requests[r].canonical
        /\ new.requests[r].migration = st.requests[r].migration
    BY <1>1, <1>5 DEF Moved, ChangeRequest
  <2> QED
    BY <1>5, <2>1 DEF Moved, OtherRequestsSame, SameRollouts, Normal
<1>6. ASSUME NEW r \in Request, NEW replacement \in Request, NEW ready \in SUBSET Endpoint,
             Regenerated(st, new, r, replacement, ready)
      PROVE  Normal(new)
  <2>1. /\ new.requests[r].migration = replacement /\ replacement # None
        /\ new.requests[replacement].canonical
        /\ new.rollouts[r] # None => new.rollouts[r].migration = replacement
    BY <1>1, <1>6, ConstantsAssumption
       DEF Regenerated, PendingRequest, ChangeRequest, Rollout
  <2>2. \A q \in Request \ {r, replacement} :
           new.requests[q] = st.requests[q] /\ new.rollouts[q] = st.rollouts[q]
    BY <1>6 DEF Regenerated, OtherRolloutsSame
  <2> QED
    BY <2>1, <2>2 DEF Normal
<1> QED
  BY <1>2, <1>3, <1>4, <1>5, <1>6 DEF Reviewing

\* What is written is what is read.
LEMMA BookAfter ==
    ASSUME MemoryInv, MemoryInv'
    PROVE  /\ Book \in Snapshot /\ Normal(Book) /\ Book' \in Snapshot
           /\ store' = store => Book' = Book
           /\ Reviewing(Book, store'.state) => Book' = store'.state
           /\ \A r \in Request, e \in Endpoint :
                 Issued(Book, store'.state, r, e) => Book' = store'.state
           /\ \A lease \in Book.leases, completed \in BOOLEAN :
                 Reported(Book, store'.state, lease, completed) => Book' = store'.state
<1>1. /\ Book \in Snapshot /\ Normal(Book) /\ Book' \in Snapshot /\ store'.state \in Snapshot
      /\ Book' = Normalize(store'.state)
  <2>1. Book' \in Snapshot /\ store'.state \in Snapshot
    BY NormalizeIsNormal DEF MemoryInv, TypeOK, Row, Durable, Book
  <2> QED
    BY <2>1, BookTyped DEF Book, Durable
<1>2. Normal(store'.state) => Book' = store'.state
  BY <1>1, NormalIsFixed
<1>3. ASSUME SameRequests(Book, store'.state), SameRollouts(Book, store'.state)
      PROVE  Normal(store'.state)
  BY <1>1, <1>3 DEF SameRequests, SameRollouts, Normal
<1>4. store' = store => Book' = Book
  BY DEF Book, Durable
<1> QED
  BY <1>1, <1>2, <1>3, <1>4, ReviewingKeepsNormal DEF Issued, Reported

-----------------------------------------------------------------------------
(***************************************************************************)
(* Reviewing keeps rows valid and quorums honest.                          *)
(***************************************************************************)
LEMMA CreatedKeeps ==
    ASSUME NEW st \in Snapshot, NEW new \in Snapshot, Valid(st), Reviews(st),
           NEW fresh \in SUBSET Request, NEW ready \in [fresh -> SUBSET Endpoint],
           Created(st, new, fresh, ready)
    PROVE  Valid(new) /\ Reviews(new)
<1>1. \A q \in fresh : /\ new.requests[q] # None /\ new.requests[q].canonical
                       /\ new.requests[q].migration = None
                       /\ new.requests[q].state = "pending"
                       /\ new.requests[q].approvals = <<>>
                       /\ new.requests[q].required = Required[q]
  BY PendingTyped DEF Created
<1>2. \A q \in Request : q \notin fresh => new.requests[q] = st.requests[q]
  BY DEF Created
<1>3. /\ \A q \in fresh : st.requests[q] = None /\ new.rollouts[q] = None
      /\ \A q \in Request : new.rollouts[q] = st.rollouts[q]
      /\ new.leases = st.leases
  BY DEF Created, SameRollouts, SameLeases, Valid, ValidRollout
<1>4. Valid(new)
  <2>1. ASSUME NEW q \in Request, new.requests[q] # None
        PROVE  ValidRequest(new, q)
    <3>1. CASE q \in fresh
      BY <1>1, <3>1, ConstantsAssumption DEF ValidRequest
    <3>2. CASE q \notin fresh
      BY <1>1, <1>2, <1>3, <2>1, <3>2 DEF ValidRequest, Valid
    <3> QED
      BY <3>1, <3>2
  <2>2. ASSUME NEW q \in Request, new.rollouts[q] # None
        PROVE  ValidRollout(new, q)
    BY <1>2, <1>3, <2>2 DEF ValidRollout, Valid
  <2>3. ASSUME NEW l \in new.leases
        PROVE  new.requests[l.request] # None
    BY <1>1, <1>2, <1>3, <2>3 DEF Valid, Snapshot, Lease
  <2> QED
    BY <2>1, <2>2, <2>3 DEF Valid
<1>5. Reviews(new)
  <2> SUFFICES ASSUME NEW q \in Request
               PROVE  ReviewOK(new, q)
    BY DEF Reviews
  <2>1. CASE q \in fresh
    BY <1>1, <1>3, <2>1 DEF ReviewOK, Distinct
  <2>2. CASE q \notin fresh
    BY <1>2, <1>3, <2>2 DEF ReviewOK, Reviews
  <2> QED
    BY <2>1, <2>2
<1> QED
  BY <1>4, <1>5

\* An approval that counts, whether it is the last or not.
LEMMA ApprovalKeeps ==
    ASSUME NEW st \in Snapshot, NEW new \in Snapshot, Normal(st), Valid(st), Reviews(st),
           NEW r \in Request, NEW o \in Operator, Counts(st, r, o),
           new.requests[r] # None,
           new.requests[r].canonical = st.requests[r].canonical,
           new.requests[r].migration = st.requests[r].migration,
           new.requests[r].required = st.requests[r].required,
           new.requests[r].approvals = Append(st.requests[r].approvals, o),
           OtherRequestsSame(st, new, r), OtherRolloutsSame(st, new, r), SameLeases(st, new),
           \/ /\ new.requests[r].state = st.requests[r].state
              /\ new.rollouts[r] = st.rollouts[r]
           \/ /\ Len(new.requests[r].approvals) >= new.requests[r].required
              /\ new.rollouts[r] # None
              /\ new.rollouts[r].migration = None
    PROVE  Valid(new) /\ Reviews(new)
<1>1. /\ st.requests[r] \in ChangeRequest /\ st.requests[r] # None
      /\ st.requests[r].canonical /\ st.requests[r].migration = None
  BY DEF Counts, Normal, Snapshot
<1>2. /\ \A q \in Request \ {r} : /\ new.requests[q] = st.requests[q]
                                  /\ new.rollouts[q] = st.rollouts[q]
      /\ new.leases = st.leases
  BY DEF OtherRequestsSame, OtherRolloutsSame, SameLeases
<1>3. Valid(new)
  <2>1. ASSUME NEW q \in Request, new.requests[q] # None
        PROVE  ValidRequest(new, q)
    <3>1. CASE q = r
      BY <1>1, <3>1, ConstantsAssumption DEF ValidRequest, Valid
    <3>2. CASE q # r
      <4>1. ValidRequest(st, q) /\ new.requests[q] = st.requests[q]
        BY <1>2, <2>1, <3>2 DEF Valid
      <4>2. st.requests[q].migration = r => new.requests[r].migration = None
        BY <1>1
      <4> QED
        BY <1>1, <1>2, <3>2, <4>1, <4>2 DEF ValidRequest
    <3> QED
      BY <3>1, <3>2
  <2>2. ASSUME NEW q \in Request, new.rollouts[q] # None
        PROVE  ValidRollout(new, q)
    BY <1>1, <1>2, <2>2 DEF ValidRollout, Valid
  <2>3. ASSUME NEW l \in new.leases
        PROVE  new.requests[l.request] # None
    BY <1>2, <2>3 DEF Valid, Snapshot, Lease
  <2> QED
    BY <2>1, <2>2, <2>3 DEF Valid
<1>4. ReviewOK(new, r)
  <2> DEFINE old == st.requests[r].approvals
  <2>1. /\ old \in Seq(Operator) /\ Len(old) \in Nat
        /\ Len(Append(old, o)) = Len(old) + 1
        /\ DOMAIN old = 1..Len(old) /\ DOMAIN Append(old, o) = 1..(Len(old) + 1)
        /\ \A i \in 1..Len(old) : Append(old, o)[i] = old[i]
        /\ Append(old, o)[Len(old) + 1] = o
    BY <1>1, AppendProperties, LenProperties DEF ChangeRequest
  <2>2. /\ st.requests[r].required = Required[r] /\ Distinct(old)
        /\ st.rollouts[r] # None => Len(old) >= Required[r]
    BY <1>1 DEF Reviews, ReviewOK
  <2>3. \A i \in 1..Len(old) : old[i] # o
    BY <2>1 DEF Counts
  <2>4. Required[r] \in Nat
    BY ConstantsAssumption
  <2> HIDE DEF old
  <2>5. Distinct(Append(old, o))
    BY <2>1, <2>2, <2>3 DEF Distinct
  <2>6. new.rollouts[r] # None => Len(Append(old, o)) >= Required[r]
    BY <2>1, <2>2, <2>4 DEF old
  <2> QED
    BY <2>2, <2>5, <2>6 DEF ReviewOK, old
<1>5. Reviews(new)
  BY <1>2, <1>4 DEF Reviews, ReviewOK
<1> QED
  BY <1>3, <1>5

LEMMA MovedKeeps ==
    ASSUME NEW st \in Snapshot, NEW new \in Snapshot, Normal(st), Valid(st), Reviews(st),
           NEW r \in Request, NEW state \in AuthorizationState, Moved(st, new, r, state)
    PROVE  Valid(new) /\ Reviews(new)
<1>1. /\ new.requests[r].canonical = st.requests[r].canonical
      /\ new.requests[r].migration = st.requests[r].migration
      /\ new.requests[r].required = st.requests[r].required
      /\ new.requests[r].approvals = st.requests[r].approvals
      /\ new.requests[r].state = state
      /\ new.requests[r] # None /\ st.requests[r] # None
  <2>1. st.requests[r] \in ChangeRequest
    BY DEF Moved, Snapshot
  <2>2. new.requests[r] \in ChangeRequest
    BY <2>1 DEF Moved, ChangeRequest
  <2> QED
    BY <2>1, <2>2, NoneIsAbsent DEF Moved, ChangeRequest
<1>2. /\ \A q \in Request \ {r} : new.requests[q] = st.requests[q]
      /\ \A q \in Request : new.rollouts[q] = st.rollouts[q]
      /\ new.leases = st.leases
      /\ state = "authorized" => st.rollouts[r] # None
  BY DEF Moved, OtherRequestsSame, SameRollouts, SameLeases
<1>3. Valid(new)
  <2>1. ASSUME NEW q \in Request, new.requests[q] # None
        PROVE  ValidRequest(new, q)
    <3>1. CASE q = r
      BY <1>1, <1>2, <3>1 DEF ValidRequest, Valid
    <3>2. CASE q # r
      BY <1>1, <1>2, <2>1, <3>2 DEF ValidRequest, Valid
    <3> QED
      BY <3>1, <3>2
  <2>2. ASSUME NEW q \in Request, new.rollouts[q] # None
        PROVE  ValidRollout(new, q)
    BY <1>1, <1>2, <2>2 DEF ValidRollout, Valid
  <2>3. ASSUME NEW l \in new.leases
        PROVE  new.requests[l.request] # None
    BY <1>1, <1>2, <2>3 DEF Valid, Snapshot, Lease
  <2> QED
    BY <2>1, <2>2, <2>3 DEF Valid
<1>4. Reviews(new)
  BY <1>1, <1>2 DEF Reviews, ReviewOK
<1> QED
  BY <1>3, <1>4

LEMMA RegeneratedKeeps ==
    ASSUME NEW st \in Snapshot, NEW new \in Snapshot, Normal(st), Valid(st), Reviews(st),
           NEW r \in Request, NEW replacement \in Request, NEW ready \in SUBSET Endpoint,
           Regenerated(st, new, r, replacement, ready)
    PROVE  Valid(new) /\ Reviews(new)
<1>1. /\ new.requests[replacement] # None /\ new.requests[replacement].canonical
      /\ new.requests[replacement].migration = None
      /\ new.requests[replacement].state = "pending"
      /\ new.requests[replacement].approvals = <<>>
      /\ new.requests[replacement].required = Required[replacement]
  BY PendingTyped DEF Regenerated
<1>2. /\ st.requests[r] # None /\ ~st.requests[r].canonical
      /\ st.requests[r].migration = Awaiting
      /\ st.requests[replacement] = None /\ r # replacement
      /\ st.rollouts[replacement] = None
  BY ConstantsAssumption DEF Regenerated, Valid, ValidRequest, ValidRollout
<1>3. /\ new.requests[r] # None /\ new.requests[r].migration = replacement
      /\ new.requests[r].canonical = st.requests[r].canonical
      /\ new.requests[r].state = st.requests[r].state
  <2>1. st.requests[r] \in ChangeRequest /\ replacement \in Migration
    BY <1>2 DEF Snapshot, Migration
  <2>2. new.requests[r] \in ChangeRequest
    BY <2>1 DEF Regenerated, ChangeRequest
  <2> QED
    BY <2>1, <2>2, NoneIsAbsent DEF Regenerated, ChangeRequest
<1>4. /\ new.rollouts[r] # None <=> st.rollouts[r] # None
      /\ new.rollouts[r] # None => new.rollouts[r].migration = replacement
  <2>1. CASE st.rollouts[r] = None
    BY <2>1 DEF Regenerated
  <2>2. CASE st.rollouts[r] # None
    <3>1. st.rollouts[r] \in Rollout /\ replacement \in Migration
      BY <2>2 DEF Snapshot, Migration
    <3>2. /\ new.rollouts[r] = [st.rollouts[r] EXCEPT !.migration = replacement]
          /\ new.rollouts[r] \in Rollout /\ new.rollouts[r].migration = replacement
      BY <2>2, <3>1 DEF Regenerated, Rollout
    <3> QED
      BY <2>2, <3>2, NoneIsAbsent
  <2> QED
    BY <2>1, <2>2
<1>5. /\ \A q \in Request : q \notin {r, replacement} => new.requests[q] = st.requests[q]
      /\ \A q \in Request \ {r} : new.rollouts[q] = st.rollouts[q]
      /\ new.leases = st.leases
  BY DEF Regenerated, OtherRolloutsSame, SameLeases
<1>6. \A q \in Request : st.requests[q] # None => st.requests[q].migration \notin {r, replacement}
  BY <1>2, ConstantsAssumption DEF Valid, ValidRequest
<1>7. Valid(new)
  <2>1. ASSUME NEW q \in Request, new.requests[q] # None
        PROVE  ValidRequest(new, q)
    <3>1. CASE q = r
      BY <1>1, <1>2, <1>3, <1>4, <3>1, ConstantsAssumption DEF ValidRequest, Valid
    <3>2. CASE q = replacement
      BY <1>1, <3>2, ConstantsAssumption DEF ValidRequest
    <3>3. CASE q \notin {r, replacement}
      BY <1>5, <1>6, <2>1, <3>3 DEF ValidRequest, Valid
    <3> QED
      BY <3>1, <3>2, <3>3
  <2>2. ASSUME NEW q \in Request, new.rollouts[q] # None
        PROVE  ValidRollout(new, q)
    BY <1>2, <1>3, <1>4, <1>5, <2>2 DEF ValidRollout, Valid
  <2>3. ASSUME NEW l \in new.leases
        PROVE  new.requests[l.request] # None
    <3>1. l.request \in Request /\ st.requests[l.request] # None
      BY <1>5, <2>3 DEF Valid, Snapshot, Lease
    <3> QED
      BY <1>1, <1>3, <1>5, <3>1
  <2> QED
    BY <2>1, <2>2, <2>3 DEF Valid
<1>8. Reviews(new)
  <2> SUFFICES ASSUME NEW q \in Request
               PROVE  ReviewOK(new, q)
    BY DEF Reviews
  <2>1. CASE q = r
    BY <1>2, <1>3, <2>1 DEF ReviewOK
  <2>2. CASE q = replacement
    BY <1>1, <1>2, <1>5, <2>2 DEF ReviewOK, Distinct
  <2>3. CASE q \notin {r, replacement}
    BY <1>5, <2>3 DEF ReviewOK, Reviews
  <2> QED
    BY <2>1, <2>2, <2>3
<1> QED
  BY <1>7, <1>8

LEMMA ReviewingKeepsValid ==
    ASSUME NEW st \in Snapshot, NEW new \in Snapshot, Normal(st), Valid(st), Reviews(st),
           Reviewing(st, new), clock \in Nat
    PROVE  Valid(new) /\ Reviews(new)
<1>1. ASSUME NEW r \in Request, NEW o \in Operator,
             Counts(st, r, o)
      PROVE  LET req == WithApproval(st.requests[r], o) IN
             /\ req \in ChangeRequest
             /\ req.canonical = st.requests[r].canonical
             /\ req.migration = st.requests[r].migration
             /\ req.required = st.requests[r].required
             /\ req.approvals = Append(st.requests[r].approvals, o)
             /\ req.state = st.requests[r].state
  <2>1. st.requests[r] \in ChangeRequest
    BY <1>1 DEF Counts, Snapshot
  <2>2. Append(st.requests[r].approvals, o) \in Seq(Operator)
    BY <2>1 DEF ChangeRequest
  <2> QED
    BY <2>1, <2>2 DEF WithApproval, ChangeRequest
<1>2. ASSUME NEW r \in Request, NEW o \in Operator, Recorded(st, new, r, o)
      PROVE  Valid(new) /\ Reviews(new)
  <2>1. Counts(st, r, o) /\ new.requests[r] = WithApproval(st.requests[r], o)
    BY <1>2 DEF Recorded
  <2>2. /\ OtherRequestsSame(st, new, r) /\ OtherRolloutsSame(st, new, r)
        /\ SameLeases(st, new) /\ new.rollouts[r] = st.rollouts[r]
    BY <1>2 DEF Recorded, SameRollouts, OtherRolloutsSame
  <2> QED
    BY <1>1, <2>1, <2>2, ApprovalKeeps, NoneIsAbsent
<1>3. ASSUME NEW r \in Request, NEW o \in Operator, NEW spec \in RolloutSpecs,
             Authorized(st, new, r, o, spec)
      PROVE  Valid(new) /\ Reviews(new)
  <2> DEFINE req == WithApproval(st.requests[r], o)
  <2>1. /\ Counts(st, r, o) /\ new.requests[r] = [req EXCEPT !.state = "authorized"]
        /\ Len(req.approvals) >= req.required
        /\ OtherRequestsSame(st, new, r) /\ OtherRolloutsSame(st, new, r)
        /\ SameLeases(st, new)
    BY <1>3 DEF Authorized, QuorumReached
  <2>2. new.rollouts[r] # None /\ new.rollouts[r].migration = None
    <3>1. RolloutOf(spec, None) \in Rollout
      BY RolloutTyped
    <3>2. RolloutOf(spec, None).migration = None
      BY DEF RolloutOf
    <3> QED
      BY <1>3, <3>1, <3>2, NoneIsAbsent DEF Authorized
  <2>3. req \in ChangeRequest
    BY <1>1, <2>1
  <2> HIDE DEF req
  <2>4. /\ new.requests[r] \in ChangeRequest
        /\ new.requests[r].canonical = req.canonical
        /\ new.requests[r].migration = req.migration
        /\ new.requests[r].required = req.required
        /\ new.requests[r].approvals = req.approvals
    BY <2>1, <2>3 DEF ChangeRequest, AuthorizationState
  <2> QED
    BY <1>1, <2>1, <2>2, <2>4, ApprovalKeeps, NoneIsAbsent DEF req
<1> QED
  BY <1>2, <1>3, CreatedKeeps, MovedKeeps, RegeneratedKeeps DEF Reviewing

\* A request once reviewed under the hash contract stays so.
LEMMA ReviewingKeepsCanonical ==
    ASSUME NEW st \in Snapshot, NEW new \in Snapshot, Normal(st), Reviewing(st, new),
           NEW q \in Request, st.requests[q] # None
    PROVE  new.requests[q].canonical = st.requests[q].canonical
<1>1. st.requests[q] \in ChangeRequest
  BY DEF Snapshot
<1>2. \/ new.requests[q] = st.requests[q]
      \/ \E o \in Operator : \/ new.requests[q] = WithApproval(st.requests[q], o)
                             \/ new.requests[q] = [WithApproval(st.requests[q], o)
                                                      EXCEPT !.state = "authorized"]
      \/ \E state \in AuthorizationState : new.requests[q] = [st.requests[q] EXCEPT !.state = state]
      \/ \E replacement \in Request :
            new.requests[q] = [st.requests[q] EXCEPT !.migration = replacement]
  <2>1. ASSUME NEW fresh \in SUBSET Request, NEW ready \in [fresh -> SUBSET Endpoint],
               Created(st, new, fresh, ready)
        PROVE  new.requests[q] = st.requests[q]
    BY <2>1 DEF Created
  <2>2. ASSUME NEW r \in Request, NEW replacement \in Request, NEW ready \in SUBSET Endpoint,
               Regenerated(st, new, r, replacement, ready)
        PROVE  \/ new.requests[q] = st.requests[q]
               \/ new.requests[q] = [st.requests[q] EXCEPT !.migration = replacement]
    BY <2>2 DEF Regenerated
  <2> QED
    BY <2>1, <2>2 DEF Reviewing, Recorded, Authorized, Moved, OtherRequestsSame
<1> QED
  BY <1>1, <1>2 DEF WithApproval, ChangeRequest

-----------------------------------------------------------------------------
(***************************************************************************)
(* The invariant of the book is kept.                                      *)
(***************************************************************************)
LEMMA GrantTyped ==
    ASSUME MemoryInv, NEW g \in granted
    PROVE  /\ g \in Lease /\ g.request \in Request /\ g.endpoint \in Endpoint
           /\ g.attempt \in Nat
  BY DEF MemoryInv, TypeOK, Lease

LEMMA ReviewingPreserves ==
    ASSUME MemoryInv, MemoryInv', BookInv,
           Reviewing(Book, store'.state), UNCHANGED granted
    PROVE  BookInv'
<1> DEFINE st == Book
           new == Book'
<1>1. /\ st \in Snapshot /\ new \in Snapshot /\ Normal(st) /\ Reviewing(st, new)
      /\ Valid(st) /\ Reviews(st) /\ Attempts(st) /\ clock \in Nat
  BY BookAfter, BookTyped DEF BookInv
<1> HIDE DEF st, new
<1>2. Valid(new) /\ Reviews(new)
  BY <1>1, ReviewingKeepsValid
<1>3. new.leases = st.leases /\ new.attempts = st.attempts
  BY <1>1, ReviewingKeepsBook
<1>4. ASSUME NEW q \in Request, st.rollouts[q] # None
      PROVE  new.rollouts[q] # None /\ new.rollouts[q].limit = st.rollouts[q].limit
  <2>1. /\ new.rollouts[q] # None
        /\ [new.rollouts[q] EXCEPT !.migration = None]
               = [st.rollouts[q] EXCEPT !.migration = None]
    BY <1>1, <1>4, ReviewingKeepsRollouts
  <2>2. st.rollouts[q] \in Rollout /\ new.rollouts[q] \in Rollout
    BY <1>1, <1>4, <2>1 DEF Snapshot
  <2>3. /\ [new.rollouts[q] EXCEPT !.migration = None].limit = new.rollouts[q].limit
        /\ [st.rollouts[q] EXCEPT !.migration = None].limit = st.rollouts[q].limit
    BY <2>2 DEF Rollout
  <2> QED
    BY <2>1, <2>3
<1>5. Attempts(new)
  BY <1>1, <1>3, <1>4 DEF Attempts
<1>6. Grants'
  <2> SUFFICES ASSUME NEW g \in granted
               PROVE  ~g.completed /\ Booked(new, g)
    BY DEF Grants, new
  <2>1. ~g.completed /\ Booked(st, g) /\ g.request \in Request
    BY GrantTyped DEF BookInv, Grants, st
  <2>2. KeepsRequest(st.requests[g.request], new.requests[g.request])
    BY <1>1, <2>1, ReviewingKeepsRequests DEF Booked
  <2>3. new.requests[g.request].canonical = st.requests[g.request].canonical
    BY <1>1, <2>1, ReviewingKeepsCanonical DEF Booked
  <2> QED
    BY <1>3, <1>4, <2>1, <2>2, <2>3 DEF Booked, KeepsRequest
<1>7. OneGrantPerAttempt'
  BY DEF BookInv, OneGrantPerAttempt
<1> QED
  BY <1>2, <1>5, <1>6, <1>7 DEF BookInv, new

LEMMA IssuedPreserves ==
    ASSUME MemoryInv, MemoryInv', BookInv, NEW r \in Request, NEW e \in Endpoint,
           Issued(Book, store'.state, r, e),
           granted' \in {granted, granted \cup {NewLease(Book, r, e)}}
    PROVE  BookInv'
<1> DEFINE st == Book
           new == Book'
           lease == NewLease(Book, r, e)
<1>1. /\ st \in Snapshot /\ new \in Snapshot /\ Normal(st) /\ Issued(st, new, r, e)
      /\ Valid(st) /\ Reviews(st) /\ Attempts(st)
  BY BookAfter DEF BookInv
<1>2. /\ lease.request = r /\ lease.endpoint = e /\ ~lease.completed
      /\ lease.attempt = st.attempts[r][e] + 1
      /\ [lease EXCEPT !.completed = FALSE] = lease
  <2>1. lease.request = r /\ lease.endpoint = e /\ lease.completed = FALSE
        /\ lease.attempt = st.attempts[r][e] + 1
    BY DEF NewLease
  <2>2. lease \in Lease
    <3>1. st.attempts[r][e] + 1 \in Nat /\ clock + LeaseTTL \in Nat
      BY <1>1, BookTyped, ConstantsAssumption DEF Snapshot
    <3> QED
      BY <3>1 DEF NewLease, Lease
  <2> HIDE DEF lease
  <2> QED
    BY <2>1, <2>2 DEF Lease
<1> HIDE DEF st, new, lease
<1>3. /\ new.leases = st.leases \cup {lease}
      /\ new.attempts[r][e] = st.attempts[r][e] + 1
      /\ \A q \in Request, d \in Endpoint :
            q # r \/ d # e => new.attempts[q][d] = st.attempts[q][d]
      /\ \A q \in Request : /\ new.requests[q] = st.requests[q]
                            /\ new.rollouts[q] = st.rollouts[q]
  BY <1>1 DEF Issued, SameRequests, SameRollouts, st, lease
<1>4. /\ st.requests[r] # None /\ st.rollouts[r] # None /\ st.requests[r].canonical
      /\ e \in st.requests[r].ready
      /\ st.attempts[r][e] < st.rollouts[r].limit
      /\ st.attempts[r][e] \in Nat
  BY <1>1 DEF Issued, Issuable, AttemptsLeft, Normal, Snapshot
<1>5. \A q \in Request, d \in Endpoint :
         st.attempts[q][d] \in Nat /\ st.attempts[q][d] <= new.attempts[q][d]
  <2> SUFFICES ASSUME NEW q \in Request, NEW d \in Endpoint
               PROVE  st.attempts[q][d] \in Nat /\ st.attempts[q][d] <= new.attempts[q][d]
    OBVIOUS
  <2>1. st.attempts[q][d] \in Nat
    BY <1>1 DEF Snapshot
  <2>2. CASE q = r /\ d = e
    <3>1. new.attempts[q][d] = st.attempts[q][d] + 1
      BY <1>3, <2>2
    <3> QED
      BY <2>1, <3>1
  <2>3. CASE q # r \/ d # e
    <3>1. new.attempts[q][d] = st.attempts[q][d]
      BY <1>3, <2>3
    <3> QED
      BY <2>1, <3>1
  <2> QED
    BY <2>2, <2>3
<1>6. Valid(new)
  <2>1. \A q \in Request : new.requests[q] # None => ValidRequest(new, q)
    BY <1>1, <1>3 DEF Valid, ValidRequest
  <2>2. \A q \in Request : new.rollouts[q] # None => ValidRollout(new, q)
    BY <1>1, <1>3 DEF Valid, ValidRollout
  <2>3. ASSUME NEW l \in new.leases
        PROVE  new.requests[l.request] # None
    <3>1. CASE l = lease
      BY <1>2, <1>3, <1>4, <3>1
    <3>2. CASE l \in st.leases
      <4>1. l.request \in Request /\ st.requests[l.request] # None
        BY <1>1, <3>2 DEF Valid, Snapshot, Lease
      <4> QED
        BY <1>3, <4>1
    <3> QED
      BY <1>3, <2>3, <3>1, <3>2
  <2> QED
    BY <2>1, <2>2, <2>3 DEF Valid
<1>7. Reviews(new)
  BY <1>1, <1>3 DEF Reviews, ReviewOK
<1>8. Attempts(new)
  <2> SUFFICES ASSUME NEW q \in Request, NEW d \in Endpoint, new.attempts[q][d] > 0
               PROVE  new.rollouts[q] # None /\ new.attempts[q][d] <= new.rollouts[q].limit
    BY DEF Attempts
  <2>1. CASE q = r /\ d = e
    <3>1. st.rollouts[r].limit \in Nat
      BY <1>1, <1>4 DEF Snapshot, Rollout
    <3> QED
      BY <1>3, <1>4, <2>1, <3>1
  <2>2. CASE q # r \/ d # e
    BY <1>1, <1>3, <2>2 DEF Attempts
  <2> QED
    BY <2>1, <2>2
<1>9. ASSUME NEW g \in granted
      PROVE  ~g.completed /\ Booked(new, g)
  <2>1. /\ ~g.completed /\ Booked(st, g)
        /\ g.request \in Request /\ g.endpoint \in Endpoint /\ g.attempt \in Nat
    BY GrantTyped DEF BookInv, Grants, st
  <2>2. g.attempt \in 1 .. new.attempts[g.request][g.endpoint]
    <3>1. new.attempts[g.request][g.endpoint] \in Nat
      BY <1>1, <2>1 DEF Snapshot
    <3> QED
      BY <1>5, <2>1, <3>1 DEF Booked
  <2> QED
    BY <1>3, <2>1, <2>2 DEF Booked
<1>10. Booked(new, lease)
  <2>1. lease.attempt \in 1 .. new.attempts[r][e]
    BY <1>2, <1>3, <1>4
  <2> QED
    BY <1>2, <1>3, <1>4, <2>1 DEF Booked
<1>11. Grants'
  BY <1>2, <1>9, <1>10 DEF Grants, new, lease
<1>12. \A g \in granted : ~(g.request = r /\ g.endpoint = e /\ g.attempt = lease.attempt)
  <2> SUFFICES ASSUME NEW g \in granted, g.request = r, g.endpoint = e
               PROVE  g.attempt # lease.attempt
    OBVIOUS
  <2>1. g.attempt \in 1 .. st.attempts[r][e]
    BY DEF BookInv, Grants, Booked, st
  <2> QED
    BY <1>2, <1>4, <2>1
<1>13. OneGrantPerAttempt'
  BY <1>2, <1>12 DEF BookInv, OneGrantPerAttempt, lease
<1> QED
  BY <1>6, <1>7, <1>8, <1>11, <1>13 DEF BookInv, new

LEMMA ReportedPreserves ==
    ASSUME MemoryInv, MemoryInv', BookInv, NEW lease \in Book.leases, NEW completed \in BOOLEAN,
           Reported(Book, store'.state, lease, completed), UNCHANGED granted
    PROVE  BookInv'
<1> DEFINE st == Book
           new == Book'
<1>1. /\ st \in Snapshot /\ new \in Snapshot /\ Reported(st, new, lease, completed)
      /\ Valid(st) /\ Reviews(st) /\ Attempts(st) /\ lease \in st.leases
  BY BookAfter DEF BookInv
<1> HIDE DEF st, new
<1>2. /\ \A q \in Request : /\ new.requests[q] = st.requests[q]
                            /\ new.rollouts[q] = st.rollouts[q]
      /\ \A q \in Request, d \in Endpoint : new.attempts[q][d] = st.attempts[q][d]
      /\ new.leases = (st.leases \ {lease}) \cup {[lease EXCEPT !.completed = completed]}
  BY <1>1 DEF Reported, SameRequests, SameRollouts, SameAttempts, WithCompleted
<1>3. lease \in Lease
  BY <1>1 DEF Snapshot
<1>4. Valid(new)
  <2>1. \A q \in Request : new.requests[q] # None => ValidRequest(new, q)
    BY <1>1, <1>2 DEF Valid, ValidRequest
  <2>2. \A q \in Request : new.rollouts[q] # None => ValidRollout(new, q)
    BY <1>1, <1>2 DEF Valid, ValidRollout
  <2>3. ASSUME NEW l \in new.leases
        PROVE  new.requests[l.request] # None
    <3>1. [lease EXCEPT !.completed = completed].request = lease.request
      BY <1>3 DEF Lease
    <3>2. PICK m \in st.leases : l.request = m.request
      BY <1>1, <1>2, <2>3, <3>1
    <3>3. m.request \in Request /\ st.requests[m.request] # None
      BY <1>1 DEF Valid, Snapshot, Lease
    <3> QED
      BY <1>2, <3>2, <3>3
  <2> QED
    BY <2>1, <2>2, <2>3 DEF Valid
<1>5. Reviews(new)
  BY <1>1, <1>2 DEF Reviews, ReviewOK
<1>6. Attempts(new)
  BY <1>1, <1>2 DEF Attempts
<1>7. ASSUME NEW g \in granted
      PROVE  ~g.completed /\ Booked(new, g)
  <2>1. /\ ~g.completed /\ Booked(st, g) /\ g \in Lease
        /\ g.request \in Request /\ g.endpoint \in Endpoint
    BY GrantTyped DEF BookInv, Grants, st
  <2>2. PICK c \in BOOLEAN : [g EXCEPT !.completed = c] \in st.leases
    BY <2>1 DEF Booked
  <2>3. \E d \in BOOLEAN : [g EXCEPT !.completed = d] \in new.leases
    <3>1. CASE [g EXCEPT !.completed = c] = lease
      <4>1. [g EXCEPT !.completed = completed] = [lease EXCEPT !.completed = completed]
        BY <1>3, <2>1, <3>1 DEF Lease
      <4> QED
        BY <1>2, <4>1
    <3>2. CASE [g EXCEPT !.completed = c] # lease
      BY <1>2, <2>2, <3>2
    <3> QED
      BY <3>1, <3>2
  <2> QED
    BY <1>2, <2>1, <2>3 DEF Booked
<1>8. Grants'
  BY <1>7 DEF Grants, new
<1>9. OneGrantPerAttempt'
  BY DEF BookInv, OneGrantPerAttempt
<1> QED
  BY <1>4, <1>5, <1>6, <1>8, <1>9 DEF BookInv, new

LEMMA InitBookInv == Init => BookInv
<1> SUFFICES ASSUME Init
             PROVE  BookInv
  OBVIOUS
<1>1. MemoryInv
  BY InitMemoryInv
<1>2. granted = {}
  BY DEF Init
<1>3. Durable \in Snapshot /\ Book \in Snapshot /\ Normal(Book)
  BY <1>1, BookTyped
<1> DEFINE Unreviewed(st) ==
      /\ st.leases = {} /\ st.attempts = [r \in Request |-> [e \in Endpoint |-> 0]]
      /\ \A q \in Request : st.requests[q] # None =>
            /\ ~st.requests[q].canonical /\ st.requests[q].migration = None
            /\ st.rollouts[q] # None /\ st.rollouts[q].migration = None
      /\ \A q \in Request : st.requests[q] = None => st.rollouts[q] = None
<1>4. Unreviewed(Durable)
  <2>1. CASE Durable = EmptySnapshot
    BY <2>1 DEF EmptySnapshot
  <2>2. ASSUME NEW r \in LegacyRequests, Durable = LegacySnapshot(r)
        PROVE  Unreviewed(Durable)
    <3> DEFINE req == [canonical |-> FALSE, migration |-> None, required |-> 1,
                       approvals |-> <<>>, state |-> "authorized", ready |-> Endpoint]
               rol == [from |-> 1, until |-> 1 + DefaultValidity, limit |-> 1,
                       concurrency |-> 1, windows |-> {}, migration |-> None]
    <3>1. r \in Request
      BY ConstantsAssumption
    <3>2. /\ req.canonical = FALSE /\ req.migration = None /\ rol.migration = None
          /\ req \in ChangeRequest /\ rol \in Rollout
      <4>1. DefaultValidity \in Nat /\ None \in Migration /\ <<>> \in Seq(Operator)
        BY ConstantsAssumption DEF Migration
      <4> QED
        BY <4>1 DEF ChangeRequest, AuthorizationState, Rollout
    <3>3. /\ Durable.leases = {} /\ Durable.attempts = [q \in Request |-> [e \in Endpoint |-> 0]]
          /\ \A q \in Request : Durable.requests[q] = IF q = r THEN req ELSE None
          /\ \A q \in Request : Durable.rollouts[q] = IF q = r THEN rol ELSE None
      BY <2>2, <3>1 DEF LegacySnapshot, EmptySnapshot
    <3> HIDE DEF req, rol
    <3> QED
      BY <3>2, <3>3, NoneIsAbsent
  <2> QED
    BY <2>1, <2>2 DEF Init, Durable
<1>5. ASSUME NEW q \in Request
      PROVE  /\ Book.requests[q] # None =>
                    /\ ~Book.requests[q].canonical /\ Book.requests[q].migration = Awaiting
                    /\ Book.rollouts[q] # None
             /\ Book.rollouts[q] # None =>
                    Book.requests[q] # None /\ Book.rollouts[q].migration = Awaiting
  <2>1. /\ Book.requests[q] = NormalizedRequest(Durable.requests[q])
        /\ Book.rollouts[q] = NormalizedRollout(Durable.rollouts[q], Durable.requests[q])
    BY <1>3 DEF Book, Normalize, Snapshot
  <2>2. CASE Durable.requests[q] = None
    BY <1>4, <2>1, <2>2 DEF NormalizedRequest, NormalizedRollout
  <2>3. CASE Durable.requests[q] # None
    <3>1. /\ Durable.requests[q] \in ChangeRequest /\ Durable.rollouts[q] \in Rollout
          /\ Book.requests[q] = [Durable.requests[q] EXCEPT !.migration = Awaiting]
          /\ Book.rollouts[q] = [Durable.rollouts[q] EXCEPT !.migration = Awaiting]
      BY <1>3, <1>4, <2>1, <2>3 DEF NormalizedRequest, NormalizedRollout, Snapshot
    <3>2. Book.requests[q] \in ChangeRequest /\ Book.rollouts[q] \in Rollout
      BY <3>1, MarkedIsTyped
    <3>3. ~Durable.requests[q].canonical
      BY <1>4, <2>3
    <3> QED
      BY <3>1, <3>2, <3>3, NoneIsAbsent DEF ChangeRequest, Rollout
  <2> QED
    BY <2>2, <2>3
<1>6. Book.leases = {} /\ Book.attempts = Durable.attempts
  BY <1>3, <1>4 DEF Book, Normalize, Snapshot
<1>7. Valid(Book)
  BY <1>5, <1>6, ConstantsAssumption DEF Valid, ValidRequest, ValidRollout
<1>8. Reviews(Book) /\ Attempts(Book)
  BY <1>4, <1>5, <1>6 DEF Reviews, ReviewOK, Attempts
<1> QED
  BY <1>2, <1>7, <1>8 DEF BookInv, Grants, OneGrantPerAttempt

LEMMA StepBookInv == MemoryInv /\ MemoryInv' /\ BookInv /\ [ReportingNext]_vars => BookInv'
<1> SUFFICES ASSUME MemoryInv, MemoryInv', BookInv, RowStep \/ ReportedStep
             PROVE  BookInv'
  BY ReportingNextIsRowStep
<1>1. CASE store' = store /\ granted' = granted
  BY <1>1, BookAfter DEF BookInv, Grants, OneGrantPerAttempt
<1> QED
  BY <1>1, ReviewingPreserves, IssuedPreserves, ReportedPreserves DEF RowStep, ReportedStep

THEOREM BookInvariant == ReportingSpec => []BookInv
  BY InitBookInv, StepBookInv, MemoryInvariant, PTL DEF ReportingSpec

-----------------------------------------------------------------------------
(***************************************************************************)
(* What follows for the row.                                               *)
(***************************************************************************)

\* No save of the registry writes a row that a starting process refuses.
THEOREM StartsAreAccepted ==
    (Spec => []StartNeverRefused) /\ (ReportingSpec => []StartNeverRefused)
<1>1. BookInv => StartNeverRefused
  BY DEF BookInv, StartNeverRefused, Book
<1> QED
  BY <1>1, BookInvariant, SpecReports, PTL

\* What the book says of leases and attempts, the row says.
LEMMA GrantedAreDurable ==
    ASSUME MemoryInv, BookInv
    PROVE  GrantedLeasesDurable
<1>1. Book.leases = Durable.leases /\ Book.attempts = Durable.attempts
  BY BookTyped DEF Book, Normalize, Snapshot
<1>2. ASSUME NEW g \in granted
      PROVE  g.attempt <= Durable.attempts[g.request][g.endpoint]
  <2>1. /\ g.attempt \in 1 .. Book.attempts[g.request][g.endpoint]
        /\ g.request \in Request /\ g.endpoint \in Endpoint
    BY GrantTyped DEF BookInv, Grants, Booked
  <2>2. Book.attempts[g.request][g.endpoint] \in Nat
    BY <2>1, BookTyped DEF Snapshot
  <2> QED
    BY <1>1, <2>1, <2>2
<1> QED
  BY <1>1, <1>2 DEF GrantedLeasesDurable, BookInv, Grants, Booked

\* A lease that reached an endpoint is in the row with its attempt counted.
THEOREM GrantsAreDurable ==
    (Spec => []GrantedLeasesDurable) /\ (ReportingSpec => []GrantedLeasesDurable)
<1>1. MemoryInv /\ BookInv => GrantedLeasesDurable
  BY GrantedAreDurable
<1> QED
  BY <1>1, MemoryInvariant, BookInvariant, SpecReports, PTL

\* As many different operators as approvals.
LEMMA DistinctAreMany ==
    ASSUME NEW s \in Seq(Operator), Distinct(s)
    PROVE  /\ IsFiniteSet({s[i] : i \in DOMAIN s})
           /\ Cardinality({s[i] : i \in DOMAIN s}) = Len(s)
<1> DEFINE S == {s[i] : i \in DOMAIN s}
<1>1. Len(s) \in Nat /\ DOMAIN s = 1..Len(s) /\ s \in [1..Len(s) -> Operator]
  BY LenProperties
<1>2. s \in [1..Len(s) -> S]
  BY <1>1
<1>3. s \in Injection(1..Len(s), S)
  BY <1>1, <1>2 DEF Distinct, Injection, IsInjective
<1>4. s \in Surjection(1..Len(s), S)
  BY <1>1, <1>2 DEF Surjection
<1>5. ExistsBijection(1..Len(s), S)
  BY <1>3, <1>4 DEF ExistsBijection, Bijection
<1>6. IsFiniteSet(S)
  BY <1>1, <1>4, FS_NatSurjection DEF ExistsSurjection
<1> QED
  BY <1>1, <1>5, <1>6, FS_CountingElements

LEMMA GrantsAreReviewed ==
    ASSUME MemoryInv, BookInv
    PROVE  GrantsHaveQuorum
<1> SUFFICES ASSUME NEW g \in granted
             PROVE  LET req == Durable.requests[g.request] IN
                    /\ req # None
                    /\ req.canonical
                    /\ g.endpoint \in req.ready
                    /\ Cardinality({req.approvals[i] : i \in DOMAIN req.approvals}) >= req.required
  BY DEF GrantsHaveQuorum
<1> DEFINE req == Book.requests[g.request]
<1>1. /\ g.request \in Request /\ req # None /\ req.canonical
      /\ g.endpoint \in req.ready /\ Book.rollouts[g.request] # None
  BY GrantTyped DEF BookInv, Grants, Booked
<1>2. Durable.requests[g.request] = req
  BY <1>1, BookOfDurable DEF ChangeRequest
<1>3. /\ req.required = Required[g.request] /\ Distinct(req.approvals)
      /\ Len(req.approvals) >= Required[g.request]
  BY <1>1 DEF BookInv, Reviews, ReviewOK
<1>4. req.approvals \in Seq(Operator)
  BY <1>1, BookTyped DEF Snapshot, ChangeRequest
<1> HIDE DEF req
<1> QED
  BY <1>1, <1>2, <1>3, <1>4, DistinctAreMany

\* Whoever got a lease was a ready target of a request with its quorum.
THEOREM GrantsAreQuorate ==
    (Spec => []GrantsHaveQuorum) /\ (ReportingSpec => []GrantsHaveQuorum)
<1>1. MemoryInv /\ BookInv => GrantsHaveQuorum
  BY GrantsAreReviewed
<1> QED
  BY <1>1, MemoryInvariant, BookInvariant, SpecReports, PTL

-----------------------------------------------------------------------------
(***************************************************************************)
(* Limits.  A late progress report can reopen a lease, so concurrency is a *)
(* matter of Spec, where no handler reports progress.                      *)
(***************************************************************************)

\* The attempt numbers count the grants.
LEMMA GrantsWithinLimit ==
    ASSUME MemoryInv, BookInv
    PROVE  AttemptLimitHolds
<1> SUFFICES ASSUME NEW r \in Request, NEW e \in Endpoint, Durable.rollouts[r] # None
             PROVE  Cardinality({g \in granted : g.request = r /\ g.endpoint = e})
                        <= Durable.rollouts[r].limit
  BY DEF AttemptLimitHolds
<1> DEFINE S == {g \in granted : g.request = r /\ g.endpoint = e}
           n == Book.attempts[r][e]
           number == [g \in S |-> g.attempt]
<1>1. n \in Nat /\ Book.rollouts[r] # None
  <2>1. Book \in Snapshot
    BY BookTyped
  <2>2. n \in Nat
    BY <2>1 DEF Snapshot
  <2>3. Book.rollouts[r] # None
    BY BookOfDurable
  <2> QED
    BY <2>2, <2>3
<1>2. number \in [S -> 1..n]
  BY DEF BookInv, Grants, Booked
<1>3. number \in Injection(S, 1..n)
  BY <1>2 DEF BookInv, OneGrantPerAttempt, Injection, IsInjective
<1>4. IsFiniteSet(1..n) /\ Cardinality(1..n) = n
  <2> HIDE DEF n
  <2>1. /\ IsFiniteSet(1..n)
        /\ Cardinality(1..n) = IF 1 > n THEN 0 ELSE n - 1 + 1
    BY <1>1, FS_Interval
  <2> QED
    BY <1>1, <2>1
<1>5. IsFiniteSet(S) /\ Cardinality(S) <= n
  BY <1>3, <1>4, FS_Injection
<1>6. /\ Durable.rollouts[r].limit = Book.rollouts[r].limit
      /\ Book.rollouts[r].limit \in Nat \ {0}
  <2>1. Book.rollouts[r] \in Rollout
    BY <1>1, BookTyped DEF Snapshot
  <2>2. Book.rollouts[r].limit \in Nat \ {0}
    BY <2>1 DEF Rollout
  <2>3. CASE Book.rollouts[r] = Durable.rollouts[r]
    BY <2>2, <2>3
  <2>4. CASE /\ Durable.rollouts[r] \in Rollout
             /\ Book.rollouts[r] = [Durable.rollouts[r] EXCEPT !.migration = Awaiting]
    <3>1. Book.rollouts[r].limit = Durable.rollouts[r].limit
      BY <2>4 DEF Rollout
    <3> QED
      BY <2>2, <3>1
  <2>5. \/ Book.rollouts[r] = Durable.rollouts[r]
        \/ /\ Durable.rollouts[r] \in Rollout
           /\ Book.rollouts[r] = [Durable.rollouts[r] EXCEPT !.migration = Awaiting]
    BY BookOfDurable
  <2> QED
    BY <2>3, <2>4, <2>5
<1>7. n <= Book.rollouts[r].limit
  BY <1>1, <1>6 DEF BookInv, Attempts
<1>8. Cardinality(S) \in Nat
  BY <1>5, FS_CardinalityType
<1> QED
  BY <1>1, <1>5, <1>6, <1>7, <1>8

\* Leases are held under a rollout, as many as it allows, one by each endpoint.
SlotsOf(active, concurrency) ==
    /\ IsFiniteSet(active)
    /\ Cardinality(active) <= concurrency
    /\ \A l, m \in active : l.endpoint = m.endpoint => l = m

Slots ==
    /\ \A l \in Book.leases : Book.rollouts[l.request] # None
    /\ \A r \in Request : Book.rollouts[r] # None =>
          SlotsOf(ActiveLeases(Book, r), Book.rollouts[r].concurrency)

LEMMA FewerSlots ==
    ASSUME NEW active, NEW fewer \in SUBSET active, NEW concurrency \in Nat,
           SlotsOf(active, concurrency)
    PROVE  SlotsOf(fewer, concurrency)
<1>1. IsFiniteSet(fewer) /\ Cardinality(fewer) <= Cardinality(active)
  BY FS_Subset DEF SlotsOf
<1>2. Cardinality(fewer) \in Nat /\ Cardinality(active) \in Nat
  BY <1>1, FS_CardinalityType DEF SlotsOf
<1> QED
  BY <1>1, <1>2 DEF SlotsOf

LEMMA OneMoreSlot ==
    ASSUME NEW active, NEW lease, NEW concurrency \in Nat, SlotsOf(active, concurrency),
           \A l \in active : l.endpoint # lease.endpoint,
           Cardinality(active) < concurrency
    PROVE  SlotsOf(active \cup {lease}, concurrency)
<1>1. /\ IsFiniteSet(active \cup {lease})
      /\ Cardinality(active \cup {lease}) <= Cardinality(active) + 1
      /\ Cardinality(active) \in Nat /\ Cardinality(active \cup {lease}) \in Nat
  <2>1. IsFiniteSet(active) /\ Cardinality(active) \in Nat
    BY FS_CardinalityType DEF SlotsOf
  <2>2. /\ IsFiniteSet(active \cup {lease})
        /\ Cardinality(active \cup {lease}) =
               IF lease \in active THEN Cardinality(active) ELSE Cardinality(active) + 1
    BY <2>1, FS_AddElement
  <2> QED
    BY <2>1, <2>2
<1> QED
  BY <1>1 DEF SlotsOf

LEMMA ConcurrencyOf ==
    ASSUME MemoryInv, NEW r \in Request, Book.rollouts[r] # None
    PROVE  Book.rollouts[r] \in Rollout /\ Book.rollouts[r].concurrency \in Nat
<1>1. Book.rollouts[r] \in Rollout
  BY BookTyped DEF Snapshot
<1> QED
  BY <1>1 DEF Rollout

LEMMA StepSlots ==
    ASSUME MemoryInv, MemoryInv', BookInv, Slots, [Next]_vars
    PROVE  Slots'
<1>1. RowStep /\ clock \in Nat /\ clock' \in Nat /\ clock' >= clock
  BY NextIsRowStep, BookTyped DEF RowStep
<1>2. \A l \in Book.leases : l \in Lease /\ l.expires \in Nat /\ l.request \in Request
  BY BookTyped DEF Snapshot, Lease
\* Unless a lease is issued, rollouts keep their bounds and leases can only run out.
<1>3. ASSUME Book'.leases = Book.leases,
             \A r \in Request : Book.rollouts[r] # None =>
                /\ Book'.rollouts[r] # None
                /\ Book'.rollouts[r].concurrency = Book.rollouts[r].concurrency
      PROVE  Slots'
  <2>1. \A l \in Book'.leases : Book'.rollouts[l.request] # None
    BY <1>2, <1>3 DEF Slots
  <2>2. ASSUME NEW r \in Request, Book'.rollouts[r] # None
        PROVE  SlotsOf(ActiveLeases(Book, r)', Book'.rollouts[r].concurrency)
    <3>1. ActiveLeases(Book, r)' \subseteq ActiveLeases(Book, r)
      BY <1>1, <1>2, <1>3 DEF ActiveLeases
    <3>2. CASE Book.rollouts[r] # None
      <4>1. Book.rollouts[r].concurrency \in Nat
        BY <3>2, ConcurrencyOf
      <4>2. SlotsOf(ActiveLeases(Book, r), Book.rollouts[r].concurrency)
        BY <3>2 DEF Slots
      <4>3. Book'.rollouts[r].concurrency = Book.rollouts[r].concurrency
        BY <1>3, <3>2
      <4> QED
        BY <3>1, <4>1, <4>2, <4>3, FewerSlots
    <3>3. CASE Book.rollouts[r] = None
      <4>1. ActiveLeases(Book, r)' = {}
        BY <3>1, <3>3 DEF ActiveLeases, Slots
      <4>2. Book'.rollouts[r].concurrency \in Nat
        <5>1. Book'.rollouts[r] \in Rollout
          BY <2>2, BookAfter DEF Snapshot
        <5> QED
          BY <5>1 DEF Rollout
      <4> QED
        BY <4>1, <4>2, FS_EmptySet DEF SlotsOf
    <3> QED
      BY <3>2, <3>3
  <2> QED
    BY <2>1, <2>2 DEF Slots
<1>4. CASE store' = store
  <2>1. Book' = Book
    BY <1>4, BookAfter
  <2> QED
    BY <1>3, <2>1
<1>5. CASE Reviewing(Book, store'.state)
  <2>1. /\ Book \in Snapshot /\ Book' \in Snapshot /\ Reviewing(Book, Book')
    BY <1>5, BookAfter
  <2>2. ASSUME NEW r \in Request, Book.rollouts[r] # None
        PROVE  /\ Book'.rollouts[r] # None
               /\ Book'.rollouts[r].concurrency = Book.rollouts[r].concurrency
    <3>1. /\ Book'.rollouts[r] # None
          /\ [Book'.rollouts[r] EXCEPT !.migration = None]
                 = [Book.rollouts[r] EXCEPT !.migration = None]
      BY <2>1, <2>2, ReviewingKeepsRollouts
    <3>2. Book.rollouts[r] \in Rollout /\ Book'.rollouts[r] \in Rollout
      BY <2>1, <2>2, <3>1 DEF Snapshot
    <3>3. /\ [Book'.rollouts[r] EXCEPT !.migration = None].concurrency
                 = Book'.rollouts[r].concurrency
          /\ [Book.rollouts[r] EXCEPT !.migration = None].concurrency
                 = Book.rollouts[r].concurrency
      BY <3>2 DEF Rollout
    <3> QED
      BY <3>1, <3>3
  <2>3. Book'.leases = Book.leases
    BY <2>1, ReviewingKeepsBook
  <2> QED
    BY <1>3, <2>2, <2>3
<1>6. ASSUME NEW r \in Request, NEW e \in Endpoint, Issued(Book, store'.state, r, e),
             clock' = clock
      PROVE  Slots'
  <2> DEFINE lease == NewLease(Book, r, e)
  <2>1. /\ Book'.leases = Book.leases \cup {lease}
        /\ \A q \in Request : Book'.rollouts[q] = Book.rollouts[q]
        /\ Book.rollouts[r] # None /\ SlotFree(Book, r, e)
        /\ lease.request = r /\ lease.endpoint = e
    BY <1>6, BookAfter DEF Issued, Issuable, SameRollouts, NewLease
  <2> HIDE DEF lease
  <2>2. \A l \in Book'.leases : Book'.rollouts[l.request] # None
    BY <1>2, <2>1 DEF Slots
  <2>3. ASSUME NEW q \in Request, Book'.rollouts[q] # None
        PROVE  SlotsOf(ActiveLeases(Book, q)', Book'.rollouts[q].concurrency)
    <3>1. /\ Book.rollouts[q] # None /\ Book'.rollouts[q] = Book.rollouts[q]
          /\ Book.rollouts[q].concurrency \in Nat
          /\ SlotsOf(ActiveLeases(Book, q), Book.rollouts[q].concurrency)
      BY <2>1, <2>3, ConcurrencyOf DEF Slots
    <3>2. CASE q # r
      <4>1. ActiveLeases(Book, q)' \subseteq ActiveLeases(Book, q)
        BY <1>6, <2>1, <3>2 DEF ActiveLeases
      <4> QED
        BY <3>1, <4>1, FewerSlots
    <3>3. CASE q = r
      <4>1. ActiveLeases(Book, r)' \subseteq ActiveLeases(Book, r) \cup {lease}
        BY <1>6, <2>1 DEF ActiveLeases
      <4>2. SlotsOf(ActiveLeases(Book, r) \cup {lease}, Book.rollouts[r].concurrency)
        BY <2>1, <3>1, <3>3, OneMoreSlot DEF SlotFree
      <4> QED
        BY <3>1, <3>3, <4>1, <4>2, FewerSlots
    <3> QED
      BY <3>2, <3>3
  <2> QED
    BY <2>2, <2>3 DEF Slots
<1> QED
  BY <1>1, <1>4, <1>5, <1>6 DEF RowStep

LEMMA InitSlots == Init => Slots
<1> SUFFICES ASSUME Init
             PROVE  Slots
  OBVIOUS
<1>1. Book.leases = {}
  <2>1. MemoryInv
    BY InitMemoryInv
  <2>2. EmptySnapshot.leases = {} /\ \A r \in LegacyRequests : LegacySnapshot(r).leases = {}
    BY DEF EmptySnapshot, LegacySnapshot
  <2>3. Durable.leases = {}
    BY <2>2 DEF Init, Durable
  <2> QED
    BY <2>1, <2>3, BookTyped DEF Book, Normalize, Snapshot
<1>2. \A r \in Request : ActiveLeases(Book, r) = {}
  BY <1>1 DEF ActiveLeases
<1>3. \A r \in Request : Book.rollouts[r] # None => Book.rollouts[r].concurrency \in Nat
  BY InitMemoryInv, ConcurrencyOf
<1> QED
  BY <1>1, <1>2, <1>3, FS_EmptySet DEF Slots, SlotsOf

LEMMA SlotsAreKept ==
    ASSUME MemoryInv, Slots
    PROVE  ConcurrencyHolds
<1> SUFFICES ASSUME NEW r \in Request
             PROVE  /\ Durable.rollouts[r] # None =>
                          Cardinality(ActiveLeases(Durable, r)) <= Durable.rollouts[r].concurrency
                    /\ \A l, m \in ActiveLeases(Durable, r) : l.endpoint = m.endpoint => l = m
  BY DEF ConcurrencyHolds
<1>1. ActiveLeases(Durable, r) = ActiveLeases(Book, r)
  BY BookOfDurable DEF ActiveLeases
<1>2. CASE Book.rollouts[r] # None
  <2>1. /\ Book.rollouts[r] \in Rollout
        /\ SlotsOf(ActiveLeases(Book, r), Book.rollouts[r].concurrency)
    BY <1>2, ConcurrencyOf DEF Slots
  <2>2. Durable.rollouts[r] # None => Durable.rollouts[r].concurrency = Book.rollouts[r].concurrency
    BY <2>1, BookOfDurable DEF Rollout
  <2> QED
    BY <1>1, <2>1, <2>2 DEF SlotsOf
<1>3. CASE Book.rollouts[r] = None
  <2>1. ActiveLeases(Book, r) = {}
    BY <1>3 DEF ActiveLeases, Slots
  <2> QED
    BY <1>1, <1>3, <2>1, BookOfDurable
<1> QED
  BY <1>2, <1>3

\* Operators' limits on attempts and on leases at a time are kept by every instance.
THEOREM LimitsAreKept == Spec => []LimitsInv
<1>1. MemoryInv /\ BookInv /\ Slots => LimitsInv
  BY GrantsWithinLimit, SlotsAreKept DEF LimitsInv, MemoryInv
<1>2. MemoryInv /\ MemoryInv' /\ BookInv /\ Slots /\ [Next]_vars => Slots'
  BY StepSlots
<1>3. Spec => []MemoryInv /\ []BookInv
  BY MemoryInvariant, BookInvariant, SpecReports, PTL
<1> QED
  BY <1>1, <1>2, <1>3, InitSlots, PTL DEF Spec

-----------------------------------------------------------------------------
(***************************************************************************)
(* The row implements ChangeGate.  First the gate as the book shows it.    *)
(***************************************************************************)
ReviewedIn(st, r) == st.requests[r] # None /\ st.requests[r].canonical
ApprovalsIn(st, r) ==
    IF ReviewedIn(st, r)
    THEN {st.requests[r].approvals[i] : i \in DOMAIN st.requests[r].approvals} ELSE {}
OpenIn(st, r) == ReviewedIn(st, r) /\ st.requests[r].state = "authorized"
BoundIn(st, r) ==
    IF ReviewedIn(st, r) /\ st.rollouts[r] # None THEN st.rollouts[r].limit ELSE 0

LEMMA GateState ==
    MemoryInv => /\ DurableApprovals = [q \in Request |-> ApprovalsIn(Book, q)]
                 /\ DurablyOpen = [q \in Request |-> OpenIn(Book, q)]
                 /\ DurableBound = [q \in Request |-> BoundIn(Book, q)]
                 /\ Durable.attempts = Book.attempts
<1> SUFFICES ASSUME MemoryInv
             PROVE  /\ DurableApprovals = [q \in Request |-> ApprovalsIn(Book, q)]
                    /\ DurablyOpen = [q \in Request |-> OpenIn(Book, q)]
                    /\ DurableBound = [q \in Request |-> BoundIn(Book, q)]
                    /\ Durable.attempts = Book.attempts
  OBVIOUS
<1>1. ASSUME NEW r \in Request
      PROVE  /\ Reviewed(r) <=> ReviewedIn(Book, r)
             /\ Reviewed(r) => Book.requests[r] = Durable.requests[r]
             /\ Book.rollouts[r] # None <=> Durable.rollouts[r] # None
             /\ Book.rollouts[r] # None => Book.rollouts[r].limit = Durable.rollouts[r].limit
  <2>1. /\ Reviewed(r) <=> ReviewedIn(Book, r)
        /\ Reviewed(r) => Book.requests[r] = Durable.requests[r]
    <3>1. CASE Book.requests[r] = Durable.requests[r]
      BY <3>1 DEF Reviewed, ReviewedIn
    <3>2. CASE /\ Durable.requests[r] \in ChangeRequest /\ ~Durable.requests[r].canonical
               /\ Book.requests[r] = [Durable.requests[r] EXCEPT !.migration = Awaiting]
      BY <3>2 DEF Reviewed, ReviewedIn, ChangeRequest
    <3> QED
      BY <3>1, <3>2, BookOfDurable
  <2>2. /\ Book.rollouts[r] # None <=> Durable.rollouts[r] # None
        /\ Book.rollouts[r] # None => Book.rollouts[r].limit = Durable.rollouts[r].limit
    <3>1. CASE Book.rollouts[r] = Durable.rollouts[r]
      BY <3>1
    <3>2. CASE /\ Durable.rollouts[r] \in Rollout /\ Durable.rollouts[r] # None
               /\ Book.rollouts[r] # None
               /\ Book.rollouts[r] = [Durable.rollouts[r] EXCEPT !.migration = Awaiting]
      BY <3>2 DEF Rollout
    <3> QED
      BY <3>1, <3>2, BookOfDurable
  <2> QED
    BY <2>1, <2>2
<1>2. \A r \in Request : /\ DurableApprovals[r] = ApprovalsIn(Book, r)
                         /\ DurablyOpen[r] = OpenIn(Book, r)
                         /\ DurableBound[r] = BoundIn(Book, r)
  BY <1>1 DEF DurableApprovals, DurablyOpen, DurableBound, ApprovalsIn, OpenIn, BoundIn,
              ReviewedIn
<1>3. Durable.attempts = Book.attempts
  BY BookTyped DEF Book, Normalize, Snapshot
<1> QED
  BY <1>2, <1>3 DEF DurableApprovals, DurablyOpen, DurableBound

LEMMA GateStateAfter ==
    MemoryInv' => /\ DurableApprovals' = [q \in Request |-> ApprovalsIn(Book', q)]
                  /\ DurablyOpen' = [q \in Request |-> OpenIn(Book', q)]
                  /\ DurableBound' = [q \in Request |-> BoundIn(Book', q)]
                  /\ Durable'.attempts = Book'.attempts
<1>1. (MemoryInv => /\ DurableApprovals = [q \in Request |-> ApprovalsIn(Book, q)]
                    /\ DurablyOpen = [q \in Request |-> OpenIn(Book, q)]
                    /\ DurableBound = [q \in Request |-> BoundIn(Book, q)]
                    /\ Durable.attempts = Book.attempts)'
  BY GateState, PTL
<1> QED
  BY <1>1

\* Where the book's requests look the same to the gate.
SameGate(st, new, q) ==
    /\ ApprovalsIn(new, q) = ApprovalsIn(st, q)
    /\ OpenIn(new, q) = OpenIn(st, q)
    /\ BoundIn(new, q) = BoundIn(st, q)

LEMMA SameEntriesSameGate ==
    ASSUME NEW st, NEW new, NEW q, new.requests[q] = st.requests[q], new.rollouts[q] = st.rollouts[q]
    PROVE  SameGate(st, new, q)
  BY DEF SameGate, ApprovalsIn, OpenIn, BoundIn, ReviewedIn

LEMMA PendingShowsNothing ==
    ASSUME NEW st \in Snapshot, NEW new \in Snapshot, Valid(st), NEW q \in Request,
           NEW ready \in SUBSET Endpoint,
           st.requests[q] = None, new.requests[q] = PendingRequest(q, ready),
           new.rollouts[q] = st.rollouts[q]
    PROVE  SameGate(st, new, q)
<1>1. st.rollouts[q] = None /\ new.rollouts[q] = None
  BY DEF Valid, ValidRollout
<1>2. new.requests[q].state = "pending" /\ new.requests[q].approvals = <<>>
  BY PendingTyped
<1> QED
  BY <1>1, <1>2 DEF SameGate, ApprovalsIn, OpenIn, BoundIn, ReviewedIn

\* A gate that looks the same for every request, with as many attempts, stutters.
LEMMA GateStutters ==
    ASSUME MemoryInv, MemoryInv', \A q \in Request : SameGate(Book, Book', q),
           Book'.attempts = Book.attempts
    PROVE  UNCHANGED Gate!vars
<1>1. /\ DurableApprovals' = [q \in Request |-> ApprovalsIn(Book', q)]
      /\ DurablyOpen' = [q \in Request |-> OpenIn(Book', q)]
      /\ DurableBound' = [q \in Request |-> BoundIn(Book', q)]
      /\ Durable'.attempts = Book'.attempts
  BY GateStateAfter
<1> QED
  BY <1>1, GateState DEF SameGate, Gate!vars

\* A step that shows at one request only changes the gate there only.
LEMMA GateMoves ==
    ASSUME MemoryInv, MemoryInv', NEW r \in Request,
           \A q \in Request \ {r} : SameGate(Book, Book', q)
    PROVE  /\ DurableApprovals' = [DurableApprovals EXCEPT ![r] = ApprovalsIn(Book', r)]
           /\ DurablyOpen' = [DurablyOpen EXCEPT ![r] = OpenIn(Book', r)]
           /\ DurableBound' = [DurableBound EXCEPT ![r] = BoundIn(Book', r)]
           /\ DurableApprovals[r] = ApprovalsIn(Book, r)
           /\ DurablyOpen[r] = OpenIn(Book, r)
           /\ DurableBound[r] = BoundIn(Book, r)
           /\ ApprovalsIn(Book', r) = ApprovalsIn(Book, r) =>
                  DurableApprovals' = DurableApprovals
           /\ OpenIn(Book', r) = OpenIn(Book, r) => DurablyOpen' = DurablyOpen
           /\ BoundIn(Book', r) = BoundIn(Book, r) => DurableBound' = DurableBound
           /\ Durable.attempts = Book.attempts /\ Durable'.attempts = Book'.attempts
<1>1. /\ DurableApprovals' = [q \in Request |-> ApprovalsIn(Book', q)]
      /\ DurablyOpen' = [q \in Request |-> OpenIn(Book', q)]
      /\ DurableBound' = [q \in Request |-> BoundIn(Book', q)]
      /\ Durable'.attempts = Book'.attempts
  BY GateStateAfter
<1>2. \A q \in Request \ {r} : /\ ApprovalsIn(Book', q) = ApprovalsIn(Book, q)
                               /\ OpenIn(Book', q) = OpenIn(Book, q)
                               /\ BoundIn(Book', q) = BoundIn(Book, q)
  BY DEF SameGate
<1> QED
  BY <1>1, <1>2, GateState

\* A request with one more approval.
LEMMA ApprovedFields ==
    ASSUME NEW req \in ChangeRequest, NEW o \in Operator
    PROVE  LET new == WithApproval(req, o) IN
           /\ new \in ChangeRequest /\ new # None
           /\ new.canonical = req.canonical /\ new.migration = req.migration
           /\ new.required = req.required /\ new.state = req.state /\ new.ready = req.ready
           /\ new.approvals = Append(req.approvals, o)
<1>1. req.approvals \in Seq(Operator)
  BY DEF ChangeRequest
<1>2. Append(req.approvals, o) \in Seq(Operator)
  BY <1>1, AppendProperties
<1>3. WithApproval(req, o) \in ChangeRequest
  BY <1>2 DEF WithApproval, ChangeRequest
<1> QED
  BY <1>3, NoneIsAbsent DEF WithApproval, ChangeRequest

\* What an approval that counts adds.
LEMMA OneMoreApproval ==
    ASSUME NEW st \in Snapshot, Normal(st), Reviews(st), NEW r \in Request, NEW o \in Operator,
           Counts(st, r, o), NEW new \in Snapshot,
           new.requests[r] # None, new.requests[r].canonical,
           new.requests[r].approvals = WithApproval(st.requests[r], o).approvals
    PROVE  /\ ReviewedIn(st, r) /\ ReviewedIn(new, r)
           /\ st.requests[r] \in ChangeRequest /\ st.requests[r].required = Required[r]
           /\ o \notin ApprovalsIn(st, r)
           /\ ApprovalsIn(new, r) = ApprovalsIn(st, r) \cup {o}
           /\ Cardinality(ApprovalsIn(st, r) \cup {o}) = Len(new.requests[r].approvals)
<1>1. /\ st.requests[r] \in ChangeRequest /\ st.requests[r] # None /\ st.requests[r].canonical
  BY DEF Counts, Normal, Snapshot
<1> DEFINE old == st.requests[r].approvals
           all == Append(old, o)
<1>2. /\ old \in Seq(Operator) /\ Len(old) \in Nat
      /\ all \in Seq(Operator) /\ DOMAIN old = 1..Len(old) /\ DOMAIN all = 1..(Len(old) + 1)
      /\ \A i \in 1..Len(old) : all[i] = old[i]
      /\ all[Len(old) + 1] = o
  BY <1>1, AppendProperties, LenProperties DEF ChangeRequest
<1>3. st.requests[r].required = Required[r] /\ Distinct(old)
  BY <1>1 DEF Reviews, ReviewOK
<1>4. \A i \in 1..Len(old) : old[i] # o
  BY <1>2 DEF Counts
<1>7. new.requests[r].approvals = all
  BY <1>1, ApprovedFields
<1> HIDE DEF all
<1>5. /\ ApprovalsIn(st, r) = {old[i] : i \in DOMAIN old}
      /\ ApprovalsIn(new, r) = {all[i] : i \in DOMAIN all}
  BY <1>1, <1>7 DEF ApprovalsIn, ReviewedIn
<1>6. ReviewedIn(st, r) /\ ReviewedIn(new, r)
  BY <1>1 DEF ReviewedIn
<1> HIDE DEF old
<1>8. Distinct(all)
  BY <1>2, <1>3, <1>4 DEF Distinct
<1>9. {all[i] : i \in DOMAIN all} = {old[i] : i \in DOMAIN old} \cup {o}
  <2>1. ASSUME NEW i \in DOMAIN all
        PROVE  all[i] \in {old[j] : j \in DOMAIN old} \cup {o}
    BY <1>2
  <2>2. ASSUME NEW i \in DOMAIN old
        PROVE  old[i] \in {all[j] : j \in DOMAIN all}
    <3>1. i \in DOMAIN all /\ old[i] = all[i]
      BY <1>2
    <3> QED
      BY <3>1
  <2>3. o \in {all[j] : j \in DOMAIN all}
    <3>1. Len(old) + 1 \in DOMAIN all
      BY <1>2
    <3> QED
      BY <1>2, <3>1
  <2> QED
    BY <2>1, <2>2, <2>3
<1>10. Cardinality({all[i] : i \in DOMAIN all}) = Len(all)
  BY <1>2, <1>8, DistinctAreMany
<1>11. o \notin ApprovalsIn(st, r)
  BY <1>2, <1>4, <1>5
<1> QED
  BY <1>1, <1>3, <1>5, <1>6, <1>7, <1>9, <1>10, <1>11

\* The gate counts as the registry does.
LEMMA SameCardinality == \A S : Gate!Cardinality(S) = Cardinality(S)
  BY DEF Gate!Cardinality, Cardinality

LEMMA RecordedIsGateStep ==
    ASSUME MemoryInv, MemoryInv', BookInv, NEW r \in Request, NEW o \in Operator,
           Recorded(Book, Book', r, o)
    PROVE  Gate!Approve(r, o)
<1> DEFINE old == Book.requests[r]
           req == WithApproval(old, o)
<1>1. /\ Book \in Snapshot /\ Book' \in Snapshot /\ Normal(Book) /\ Reviews(Book)
      /\ Counts(Book, r, o)
      /\ Book'.requests[r] = req
      /\ \A q \in Request \ {r} : Book'.requests[q] = Book.requests[q]
      /\ \A q \in Request : Book'.rollouts[q] = Book.rollouts[q]
      /\ ~QuorumReached(req)
      /\ Book'.attempts = Book.attempts
  <2>1. Book'.attempts = Book.attempts
    BY BookAfter DEF Recorded, SameAttempts, Snapshot
  <2> QED
    BY <2>1, BookAfter DEF BookInv, Recorded, OtherRequestsSame, SameRollouts
<1>2. old \in ChangeRequest /\ old # None /\ old.canonical
  BY <1>1 DEF Counts, Normal, Snapshot
<1>3. /\ req \in ChangeRequest /\ req # None
      /\ req.canonical /\ req.approvals = WithApproval(old, o).approvals
      /\ req.required = old.required /\ req.state = old.state
  BY <1>2, ApprovedFields
<1>4. \A q \in Request \ {r} : SameGate(Book, Book', q)
  BY <1>1, SameEntriesSameGate
<1> HIDE DEF req
<1>5. /\ ReviewedIn(Book, r) /\ ReviewedIn(Book', r) /\ old.required = Required[r]
      /\ o \notin ApprovalsIn(Book, r)
      /\ ApprovalsIn(Book', r) = ApprovalsIn(Book, r) \cup {o}
      /\ Cardinality(ApprovalsIn(Book, r) \cup {o}) = Len(Book'.requests[r].approvals)
  <2>1. /\ Book'.requests[r] # None /\ Book'.requests[r].canonical
        /\ Book'.requests[r].approvals = WithApproval(Book.requests[r], o).approvals
    BY <1>1, <1>3
  <2> DEFINE st == Book
             new == Book'
  <2>2. /\ st \in Snapshot /\ new \in Snapshot /\ Normal(st) /\ Reviews(st)
        /\ Counts(st, r, o) /\ new.requests[r] # None /\ new.requests[r].canonical
        /\ new.requests[r].approvals = WithApproval(st.requests[r], o).approvals
    BY <1>1, <2>1
  <2> HIDE DEF st, new
  <2>3. /\ ReviewedIn(st, r) /\ ReviewedIn(new, r)
        /\ st.requests[r].required = Required[r]
        /\ o \notin ApprovalsIn(st, r)
        /\ ApprovalsIn(new, r) = ApprovalsIn(st, r) \cup {o}
        /\ Cardinality(ApprovalsIn(st, r) \cup {o}) = Len(new.requests[r].approvals)
    BY <2>2, OneMoreApproval
  <2> QED
    BY <2>3 DEF st, new
<1>6. OpenIn(Book', r) = OpenIn(Book, r) /\ BoundIn(Book', r) = BoundIn(Book, r)
  BY <1>1, <1>3, <1>5 DEF OpenIn, BoundIn
<1>7. Len(req.approvals) \in Nat /\ Required[r] \in Nat /\ ~(Len(req.approvals) >= Required[r])
  BY <1>1, <1>3, <1>5, ConstantsAssumption, LenProperties DEF QuorumReached, ChangeRequest
<1>8. Cardinality(ApprovalsIn(Book, r) \cup {o}) < Required[r]
  BY <1>1, <1>5, <1>7
<1> QED
  BY <1>1, <1>4, <1>5, <1>6, <1>8, GateMoves, SameCardinality DEF Gate!Approve

LEMMA AuthorizedIsGateStep ==
    ASSUME MemoryInv, MemoryInv', BookInv, NEW r \in Request, NEW o \in Operator,
           NEW spec \in RolloutSpecs, Authorized(Book, Book', r, o, spec)
    PROVE  \E limit \in EffectiveLimits : Gate!OpenWithQuorum(r, o, limit)
<1> DEFINE old == Book.requests[r]
           req == [WithApproval(old, o) EXCEPT !.state = "authorized"]
           rollout == RolloutOf(spec, None)
<1>1. /\ Book \in Snapshot /\ Book' \in Snapshot /\ Normal(Book) /\ Reviews(Book)
      /\ Counts(Book, r, o)
      /\ Book'.requests[r] = req /\ Book'.rollouts[r] = rollout /\ Book.rollouts[r] = None
      /\ \A q \in Request \ {r} : /\ Book'.requests[q] = Book.requests[q]
                                  /\ Book'.rollouts[q] = Book.rollouts[q]
      /\ QuorumReached(WithApproval(old, o))
      /\ Book'.attempts = Book.attempts
  <2>1. Book'.attempts = Book.attempts
    BY BookAfter DEF Authorized, SameAttempts, Snapshot
  <2> QED
    BY <2>1, BookAfter DEF BookInv, Authorized, OtherRequestsSame, OtherRolloutsSame
<1>2. old \in ChangeRequest /\ old # None /\ old.canonical
  BY <1>1 DEF Counts, Normal, Snapshot
<1>3. /\ WithApproval(old, o) \in ChangeRequest
      /\ WithApproval(old, o).approvals = Append(old.approvals, o)
      /\ WithApproval(old, o).required = old.required
      /\ WithApproval(old, o).canonical
  BY <1>2, ApprovedFields
<1>4. /\ req \in ChangeRequest /\ req # None
      /\ req.canonical /\ req.approvals = WithApproval(old, o).approvals
      /\ req.state = "authorized"
  <2>1. req \in ChangeRequest
    BY <1>3 DEF ChangeRequest, AuthorizationState
  <2> QED
    BY <1>3, <2>1, NoneIsAbsent DEF ChangeRequest
<1>5. rollout # None /\ rollout.limit \in EffectiveLimits
  <2>1. rollout \in Rollout
    BY BookTyped, RolloutTyped
  <2> QED
    BY <2>1, NoneIsAbsent DEF RolloutOf, EffectiveLimits
<1>6. \A q \in Request \ {r} : SameGate(Book, Book', q)
  BY <1>1, SameEntriesSameGate
<1> HIDE DEF req, rollout
<1>7. /\ ReviewedIn(Book, r) /\ ReviewedIn(Book', r) /\ old.required = Required[r]
      /\ o \notin ApprovalsIn(Book, r)
      /\ ApprovalsIn(Book', r) = ApprovalsIn(Book, r) \cup {o}
      /\ Cardinality(ApprovalsIn(Book, r) \cup {o}) = Len(Book'.requests[r].approvals)
  <2>1. /\ Book'.requests[r] # None /\ Book'.requests[r].canonical
        /\ Book'.requests[r].approvals = WithApproval(Book.requests[r], o).approvals
    BY <1>1, <1>4
  <2> DEFINE st == Book
             new == Book'
  <2>2. /\ st \in Snapshot /\ new \in Snapshot /\ Normal(st) /\ Reviews(st)
        /\ Counts(st, r, o) /\ new.requests[r] # None /\ new.requests[r].canonical
        /\ new.requests[r].approvals = WithApproval(st.requests[r], o).approvals
    BY <1>1, <2>1
  <2> HIDE DEF st, new
  <2>3. /\ ReviewedIn(st, r) /\ ReviewedIn(new, r)
        /\ st.requests[r].required = Required[r]
        /\ o \notin ApprovalsIn(st, r)
        /\ ApprovalsIn(new, r) = ApprovalsIn(st, r) \cup {o}
        /\ Cardinality(ApprovalsIn(st, r) \cup {o}) = Len(new.requests[r].approvals)
    BY <2>2, OneMoreApproval
  <2> QED
    BY <2>3 DEF st, new
<1>8. OpenIn(Book', r) = TRUE /\ BoundIn(Book, r) = 0 /\ BoundIn(Book', r) = rollout.limit
  BY <1>1, <1>4, <1>5, <1>7 DEF OpenIn, BoundIn
<1>9. Cardinality(ApprovalsIn(Book, r) \cup {o}) >= Required[r]
  BY <1>1, <1>3, <1>4, <1>7 DEF QuorumReached
<1>10. Gate!OpenWithQuorum(r, o, rollout.limit)
  BY <1>1, <1>6, <1>7, <1>8, <1>9, GateMoves, SameCardinality DEF Gate!OpenWithQuorum
<1> QED
  BY <1>5, <1>10

LEMMA MovedIsGateStep ==
    ASSUME MemoryInv, MemoryInv', BookInv, NEW r \in Request, NEW state \in AuthorizationState,
           Moved(Book, Book', r, state)
    PROVE  Gate!Shut(r) \/ Gate!Reopen(r) \/ UNCHANGED Gate!vars
<1> DEFINE old == Book.requests[r]
           req == [old EXCEPT !.state = state]
<1>1. /\ Book \in Snapshot /\ Normal(Book)
      /\ old # None /\ Book'.requests[r] = req
      /\ state = "authorized" => Book.rollouts[r] # None /\ old.migration = None
      /\ \A q \in Request \ {r} : Book'.requests[q] = Book.requests[q]
      /\ \A q \in Request : Book'.rollouts[q] = Book.rollouts[q]
      /\ Book'.attempts = Book.attempts
  <2>1. Book'.attempts = Book.attempts
    BY BookAfter DEF Moved, SameAttempts, Snapshot
  <2> QED
    BY <2>1, BookAfter DEF Moved, OtherRequestsSame, SameRollouts
<1>2. old \in ChangeRequest /\ (old.canonical <=> old.migration = None)
  BY <1>1 DEF BookInv, Valid, ValidRequest, Snapshot
<1>3. /\ req \in ChangeRequest /\ req # None
      /\ req.canonical = old.canonical /\ req.approvals = old.approvals /\ req.state = state
  <2>1. req \in ChangeRequest
    BY <1>2 DEF ChangeRequest
  <2> QED
    BY <1>2, <2>1, NoneIsAbsent DEF ChangeRequest
<1>4. \A q \in Request \ {r} : SameGate(Book, Book', q)
  BY <1>1, SameEntriesSameGate
<1> HIDE DEF req
<1>5. /\ ReviewedIn(Book', r) <=> ReviewedIn(Book, r)
      /\ ApprovalsIn(Book', r) = ApprovalsIn(Book, r)
      /\ BoundIn(Book', r) = BoundIn(Book, r)
  BY <1>1, <1>3 DEF ReviewedIn, ApprovalsIn, BoundIn
<1>6. CASE ~ReviewedIn(Book, r)
  <2>1. SameGate(Book, Book', r)
    BY <1>5, <1>6 DEF SameGate, OpenIn
  <2> QED
    BY <1>1, <1>4, <2>1, GateStutters
<1>7. CASE ReviewedIn(Book, r) /\ state # "authorized"
  <2>1. OpenIn(Book', r) = FALSE
    BY <1>1, <1>3, <1>7 DEF OpenIn
  <2> QED
    BY <1>1, <1>4, <1>5, <2>1, GateMoves DEF Gate!Shut
<1>8. CASE ReviewedIn(Book, r) /\ state = "authorized"
  <2>1. OpenIn(Book', r) = TRUE
    BY <1>1, <1>3, <1>5, <1>8 DEF OpenIn
  <2>2. BoundIn(Book, r) > 0
    BY <1>1, <1>8 DEF BoundIn, Snapshot, Rollout
  <2> QED
    BY <1>1, <1>4, <1>5, <2>1, <2>2, GateMoves DEF Gate!Reopen
<1> QED
  BY <1>6, <1>7, <1>8

LEMMA IssuedIsGateStep ==
    ASSUME MemoryInv, MemoryInv', NEW r \in Request, NEW e \in Endpoint,
           Issued(Book, Book', r, e)
    PROVE  Gate!Attempt(r, e)
<1>1. /\ Book \in Snapshot /\ Book' \in Snapshot /\ Normal(Book)
      /\ \A q \in Request : Book'.requests[q] = Book.requests[q]
      /\ \A q \in Request : Book'.rollouts[q] = Book.rollouts[q]
      /\ Book.requests[r] # None /\ Book.rollouts[r] # None
      /\ Book.requests[r].migration = None /\ Book.requests[r].state = "authorized"
      /\ Book.attempts[r][e] < Book.rollouts[r].limit
  BY BookAfter DEF Issued, Issuable, AttemptsLeft, SameRequests, SameRollouts
<1>2. \A q \in Request : SameGate(Book, Book', q)
  BY <1>1, SameEntriesSameGate
<1>3. ReviewedIn(Book, r)
  BY <1>1 DEF ReviewedIn, Normal
<1>4. OpenIn(Book, r) /\ Book.attempts[r][e] < BoundIn(Book, r)
  BY <1>1, <1>3 DEF OpenIn, BoundIn
<1>5. Book'.attempts = [Book.attempts EXCEPT ![r][e] = @ + 1]
  <2>1. /\ Book.attempts \in [Request -> [Endpoint -> Nat]]
        /\ Book'.attempts \in [Request -> [Endpoint -> Nat]]
    BY <1>1 DEF Snapshot
  <2>2. /\ Book'.attempts[r][e] = Book.attempts[r][e] + 1
        /\ \A q \in Request, d \in Endpoint :
              q # r \/ d # e => Book'.attempts[q][d] = Book.attempts[q][d]
    BY DEF Issued
  <2>3. \A q \in Request \ {r} : Book'.attempts[q] = Book.attempts[q]
    BY <2>1, <2>2
  <2>4. Book'.attempts[r] = [Book.attempts[r] EXCEPT ![e] = @ + 1]
    BY <2>1, <2>2
  <2> QED
    BY <2>1, <2>3, <2>4
<1>6. /\ DurableApprovals' = DurableApprovals /\ DurablyOpen' = DurablyOpen
      /\ DurableBound' = DurableBound
      /\ DurablyOpen[r] = OpenIn(Book, r) /\ DurableBound[r] = BoundIn(Book, r)
      /\ Durable.attempts = Book.attempts /\ Durable'.attempts = Book'.attempts
  BY <1>2, GateMoves DEF SameGate
<1> QED
  BY <1>4, <1>5, <1>6 DEF Gate!Attempt

LEMMA ReviewingIsGateStep ==
    ASSUME MemoryInv, MemoryInv', BookInv, Reviewing(Book, Book')
    PROVE  [Gate!Next]_Gate!vars
<1>1. Book \in Snapshot /\ Book' \in Snapshot /\ Valid(Book)
  BY BookAfter DEF BookInv
<1>2. Book'.attempts = Book.attempts
  BY <1>1, BookAfter, ReviewingKeepsBook
<1>3. ASSUME NEW fresh \in SUBSET Request, NEW ready \in [fresh -> SUBSET Endpoint],
             Created(Book, Book', fresh, ready)
      PROVE  UNCHANGED Gate!vars
  <2>1. ASSUME NEW q \in Request
        PROVE  SameGate(Book, Book', q)
    <3>1. Book'.rollouts[q] = Book.rollouts[q]
      BY <1>3 DEF Created, SameRollouts
    <3>2. CASE q \in fresh
      <4>1. /\ Book.requests[q] = None
            /\ Book'.requests[q] = PendingRequest(q, ready[q]) /\ ready[q] \in SUBSET Endpoint
        BY <1>3, <3>2 DEF Created
      <4> QED
        BY <1>1, <3>1, <4>1, PendingShowsNothing
    <3>3. CASE q \notin fresh
      <4>1. Book'.requests[q] = Book.requests[q]
        BY <1>3, <3>3 DEF Created
      <4> QED
        BY <3>1, <4>1, SameEntriesSameGate
    <3> QED
      BY <3>2, <3>3
  <2> QED
    BY <1>2, <2>1, GateStutters
<1>4. ASSUME NEW r \in Request, NEW replacement \in Request, NEW ready \in SUBSET Endpoint,
             Regenerated(Book, Book', r, replacement, ready)
      PROVE  UNCHANGED Gate!vars
  <2>1. /\ Book.requests[r] # None /\ Book.requests[r].migration = Awaiting
        /\ Book.requests[replacement] = None
        /\ Book'.requests[r] = [Book.requests[r] EXCEPT !.migration = replacement]
        /\ Book'.requests[replacement] = PendingRequest(replacement, ready)
        /\ \A q \in Request \ {r, replacement} : Book'.requests[q] = Book.requests[q]
        /\ \A q \in Request \ {r} : Book'.rollouts[q] = Book.rollouts[q]
    BY <1>4 DEF Regenerated, OtherRolloutsSame
  <2>2. SameGate(Book, Book', r)
    <3>1. Book.requests[r] \in ChangeRequest /\ ~Book.requests[r].canonical
      BY <1>1, <2>1, ConstantsAssumption DEF Valid, ValidRequest, Snapshot
    <3>2. ~Book'.requests[r].canonical
      BY <2>1, <3>1 DEF ChangeRequest
    <3> QED
      BY <3>1, <3>2 DEF SameGate, ApprovalsIn, OpenIn, BoundIn, ReviewedIn
  <2>3. SameGate(Book, Book', replacement)
    BY <1>1, <2>1, PendingShowsNothing
  <2>4. \A q \in Request \ {r, replacement} : SameGate(Book, Book', q)
    BY <2>1, SameEntriesSameGate
  <2> QED
    BY <1>2, <2>2, <2>3, <2>4, GateStutters
<1>5. ASSUME NEW r \in Request, NEW o \in Operator, Recorded(Book, Book', r, o)
      PROVE  Gate!Next
  BY <1>5, RecordedIsGateStep DEF Gate!Next
<1>6. ASSUME NEW r \in Request, NEW o \in Operator, NEW spec \in RolloutSpecs,
             Authorized(Book, Book', r, o, spec)
      PROVE  Gate!Next
  BY <1>6, AuthorizedIsGateStep DEF Gate!Next
<1>7. ASSUME NEW r \in Request, NEW state \in AuthorizationState, Moved(Book, Book', r, state)
      PROVE  [Gate!Next]_Gate!vars
  BY <1>7, MovedIsGateStep DEF Gate!Next
<1> QED
  BY <1>3, <1>4, <1>5, <1>6, <1>7 DEF Reviewing

LEMMA StepIsGateStep ==
    MemoryInv /\ MemoryInv' /\ BookInv /\ [ReportingNext]_vars => [Gate!Next]_Gate!vars
<1> SUFFICES ASSUME MemoryInv, MemoryInv', BookInv, RowStep \/ ReportedStep
             PROVE  [Gate!Next]_Gate!vars
  BY ReportingNextIsRowStep
<1>1. CASE store' = store
  <2>1. Book' = Book
    BY <1>1, BookAfter
  <2>2. \A q \in Request : SameGate(Book, Book', q)
    BY <2>1, SameEntriesSameGate
  <2> QED
    BY <2>1, <2>2, GateStutters
<1>2. CASE Reviewing(Book, store'.state)
  BY <1>2, BookAfter, ReviewingIsGateStep
<1>3. ASSUME NEW r \in Request, NEW e \in Endpoint, Issued(Book, store'.state, r, e)
      PROVE  Gate!Next
  <2>1. Issued(Book, Book', r, e)
    BY <1>3, BookAfter
  <2> QED
    BY <2>1, IssuedIsGateStep DEF Gate!Next
<1>4. ASSUME NEW lease \in Book.leases, NEW completed \in BOOLEAN,
             Reported(Book, store'.state, lease, completed)
      PROVE  UNCHANGED Gate!vars
  <2>1. Reported(Book, Book', lease, completed) /\ Book \in Snapshot /\ Book' \in Snapshot
    BY <1>4, BookAfter
  <2>2. /\ \A q \in Request : Book'.requests[q] = Book.requests[q]
        /\ \A q \in Request : Book'.rollouts[q] = Book.rollouts[q]
        /\ Book'.attempts = Book.attempts
    BY <2>1 DEF Reported, SameRequests, SameRollouts, SameAttempts, Snapshot
  <2>3. \A q \in Request : SameGate(Book, Book', q)
    BY <2>2, SameEntriesSameGate
  <2> QED
    BY <2>2, <2>3, GateStutters
<1> QED
  BY <1>1, <1>2, <1>3, <1>4 DEF RowStep, ReportedStep

\* A row at the start has no reviewed request and no attempt.
LEMMA InitIsGateInit == Init => Gate!Init
<1> SUFFICES ASSUME Init
             PROVE  Gate!Init
  OBVIOUS
<1>1. /\ \A q \in Request : ~Reviewed(q)
      /\ Durable.attempts = [q \in Request |-> [e \in Endpoint |-> 0]]
  <2>1. CASE Durable = EmptySnapshot
    BY <2>1 DEF EmptySnapshot, Reviewed
  <2>2. ASSUME NEW r \in LegacyRequests, Durable = LegacySnapshot(r)
        PROVE  /\ \A q \in Request : ~Reviewed(q)
               /\ Durable.attempts = [q \in Request |-> [e \in Endpoint |-> 0]]
    <3>1. r \in Request
      BY ConstantsAssumption
    <3>2. /\ Durable.attempts = [q \in Request |-> [e \in Endpoint |-> 0]]
          /\ \A q \in Request \ {r} : Durable.requests[q] = None
          /\ ~Durable.requests[r].canonical
      BY <2>2, <3>1 DEF LegacySnapshot, EmptySnapshot
    <3> QED
      BY <3>2 DEF Reviewed
  <2>3. Durable = EmptySnapshot \/ \E r \in LegacyRequests : Durable = LegacySnapshot(r)
    BY DEF Init, Durable
  <2> QED
    BY <2>1, <2>2, <2>3
<1> QED
  BY <1>1 DEF Gate!Init, DurableApprovals, DurablyOpen, DurableBound

\* The registry, with its saves, restarts, competing processes and progress reports,
\* implements one gate per request: no step of persistLocked, of a restart or of a
\* stale process does to the row what ChangeGate does not allow.
THEOREM RegistryImplementsGate ==
    (Spec => ImplementsGate) /\ (ReportingSpec => ImplementsGate)
<1>1. ReportingSpec => ImplementsGate
  BY InitIsGateInit, StepIsGateStep, MemoryInvariant, BookInvariant, PTL
     DEF ReportingSpec, ImplementsGate, Gate!Spec
<1> QED
  BY <1>1, SpecReports, PTL
=============================================================================
