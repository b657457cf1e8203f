---------------------------- MODULE ApplyEngine ----------------------------
(***************************************************************************)
(* What the agent does with an artifact (cmd/remotr-agent applyConfig over *)
(* internal/agent/pipeline, engine and executor): check every resource,    *)
(* walk them in dependency order, arm a rollback record before a protected *)
(* one is changed (internal/rollbackstore, internal/applicators/files),    *)
(* restore the record when the change fails, and run the activations that  *)
(* the changed resources ask for.  The agent may stop between any two      *)
(* steps, and whoever works on the endpoint may change a resource.         *)
(***************************************************************************)
EXTENDS RollbackStore

CONSTANTS
    DependsOn,      \* resources a resource depends on
    Protected,      \* resources changed under a rollback record
    Acknowledging,  \* protected ones that release their record themselves
    Deferring,      \* resources whose change takes effect later
    Enforced,       \* resources that need an execution lease
    Unenforced,     \* high-risk resources that are only reported
    Activates,      \* signals a change of a resource emits; lower ones run first
    Desired,        \* contents of the resources in each release
    AsFound,        \* content before any release
    Broken,         \* content after a change that failed half way
    Disturbances,   \* bounds: faults and drifts that one behaviour may have
    MaxTime         \* bound: last instant of the clock

Release == DOMAIN Desired

ASSUME EngineAssumption ==
    /\ DependsOn \in [Address -> SUBSET Address]
    /\ Sensitive \subseteq Protected /\ Acknowledging \subseteq Protected
    /\ Protected \cup Enforced \cup Unenforced \cup Deferring \subseteq Address
    /\ Protected \cap Deferring = {} /\ Enforced \cap Unenforced = {}
    /\ Activates \in [Address -> SUBSET Nat]
    /\ IsFiniteSet(Release) /\ 1 \in Release
    /\ Desired \in [1..Cardinality(Release) -> [Address -> Content \ {Broken}]]
    /\ Broken \in Content /\ AsFound \in Content \ {Broken}
    /\ Disturbances \subseteq [faults : Nat, drifts : Nat] /\ MaxTime \in Nat

VARIABLES
    actual,     \* what each resource contains
    records,    \* the rollback store
    policy,     \* remediation policy of the endpoint
    release,    \* the release that the server delivers
    leases,     \* enforced resources the agent gets an execution lease for
    known,      \* lastDigest: the release the agent says it has, 0 for none
    pc,         \* where the run is
    current,    \* the resource the run works on, 0 for none
    target,     \* the release the run is about
    drifted, unknown,  \* what its check found; the others are compliant
    visited, applied, signals,
    clock,
    left,       \* faults and drifts that may still come
    disturbed   \* history: resources changed from outside since the check

plan == <<target, drifted, unknown, disturbed>>
progress == <<visited, applied, signals>>
run == <<pc, current, plan, progress>>
server == <<policy, release, leases>>
vars == <<actual, records, server, known, run, clock, left>>

Fault == left.faults > 0 /\ left' = [left EXCEPT !.faults = @ - 1]
Works == UNCHANGED left

Goto(here, x) == pc' = here /\ current' = x

\* A run is over, and all that it collected goes with it.
Over ==
    /\ Goto("idle", 0)
    /\ target' = 0 /\ drifted' = {} /\ unknown' = {} /\ disturbed' = {}
    /\ visited' = {} /\ applied' = {} /\ signals' = {}

-----------------------------------------------------------------------------
(***************************************************************************)
(* Checking, which opens the store and thereby cleans it.                  *)
(***************************************************************************)
Off == {x \in Address : actual[x] # Desired[release][x]}

\* Every cycle checks the artifact that the agent has.
Compliance ==
    /\ pc = "idle" /\ known # 0
    /\ records' = Cleanup(records, clock)
    /\ UNCHANGED <<actual, server, known, run, clock, left>>

\* An artifact came, or a lease for the one that the agent has.
Delivered == pc = "idle" /\ (known # release \/ leases # {})

\* Nothing is off, or only to be reported: the release is the agent's at once.
AcceptAsIs ==
    /\ Delivered /\ (Off = {} \/ policy = "report")
    /\ records' = Cleanup(records, clock)
    /\ known' = release
    /\ UNCHANGED <<actual, server, run, clock, left>>

\* verifyHighRiskHashes: what is enforced and off needs a lease.
Authorized(due) == due \cap Enforced \subseteq leases

\* Looking at a resource may fail.  No run starts while an enforced resource is
\* off and has no lease.
StartRun ==
    /\ Delivered /\ policy = "auto"
    /\ records' = Cleanup(records, clock)
    /\ \/ unknown' = {} /\ Works
       \/ Fault /\ \E x \in Address : unknown' = {x}
    /\ drifted' = Off \ unknown'
    /\ drifted' \cup unknown' # {}
    /\ Authorized(drifted')
    /\ target' = release
    /\ pc' = "walk"
    /\ UNCHANGED <<actual, server, known, current, disturbed, progress, clock>>

-----------------------------------------------------------------------------
(***************************************************************************)
(* Walking the graph.                                                      *)
(***************************************************************************)

\* Faulty form: the next one in order, dependencies or not.
UpNextInOrder(x) == pc = "walk" /\ x \notin visited /\ \A y \in Address \ visited : x <= y

\* sortNodes: of the resources whose dependencies came before, the first.
UpNext(x) ==
    LET ready == {y \in Address \ visited : DependsOn[y] \subseteq visited}
    IN pc = "walk" /\ x \in ready /\ \A y \in ready : x <= y

\* Faulty form: a dependency counts once the run has passed it.
DependenciesVisited(x) == DependsOn[x] \subseteq visited

DependenciesReady(x) == DependsOn[x] \subseteq applied \cup (Address \ (drifted \cup unknown))

Due(x) == UpNext(x) /\ x \in drifted \ Unenforced /\ DependenciesReady(x)

Skip(x) ==
    /\ UpNext(x) /\ ~Due(x)
    /\ visited' = visited \cup {x}
    /\ UNCHANGED <<actual, records, server, known, pc, current, plan, applied, signals,
                   clock, left>>

\* A lock, a preflight or the refresh of package metadata failed.
Blocked(x) ==
    /\ Due(x)
    /\ Fault
    /\ Over
    /\ UNCHANGED <<actual, records, server, known, clock>>

\* Somebody set it right since the check.
AlreadyMet(x) ==
    /\ Due(x) /\ actual[x] = Desired[target][x]
    /\ visited' = visited \cup {x} /\ applied' = applied \cup {x}
    /\ UNCHANGED <<actual, records, server, known, pc, current, plan, signals, clock,
                   left>>

\* Not while the resource has an armed record, and only if there is room, in the
\* store and on the disk.  A failed write may have put the record in place.
Arm(x) ==
    \/ ~Armable(records, x) /\ UNCHANGED records /\ Works /\ Goto("revert", x)
    \/ /\ Armable(records, x)
       /\ \E room \in {RoomMade(records, clock)} :
            LET armed == room \cup {NewRecord(records, x, actual[x], clock)} IN
            \/ HasRoom(room) /\ records' = armed /\ Works /\ Goto("change", x)
            \/ /\ records' = room
               /\ IF HasRoom(room) THEN Fault ELSE Works
               /\ Goto("revert", x)
            \/ HasRoom(room) /\ records' = armed /\ Fault /\ Goto("revert", x)

Begin(x) ==
    /\ Due(x) /\ actual[x] # Desired[target][x]
    /\ IF x \in Protected THEN Arm(x) ELSE UNCHANGED records /\ Works /\ Goto("change", x)
    /\ UNCHANGED <<actual, server, known, plan, progress, clock>>

\* A deferring resource is set, but not yet there for those that depend on it.
Change ==
    LET x == current IN
    /\ pc = "change"
    /\ \/ /\ Works
          /\ actual' = [actual EXCEPT ![x] = Desired[target][x]]
          /\ records' = IF x \in Acknowledging
                        THEN {IF r \in ArmedOf(records, x) THEN Ended(r, "acknowledged") ELSE r :
                                r \in records}
                        ELSE records
          /\ visited' = visited \cup {x}
          /\ applied' = IF x \in Deferring THEN applied ELSE applied \cup {x}
          /\ signals' = signals \cup Activates[x]
          /\ Goto("walk", 0)
       \/ /\ Fault
          /\ actual' \in {actual, [actual EXCEPT ![x] = Broken]}
          /\ Goto("revert", x)
          /\ UNCHANGED <<records, progress>>
    /\ UNCHANGED <<server, known, plan, clock>>

-----------------------------------------------------------------------------
(***************************************************************************)
(* Restoring, activating, and what ends a run.                             *)
(***************************************************************************)

\* The payload of the armed record, whichever Apply armed it.
Restore ==
    /\ pc = "revert"
    /\ \E r \in ArmedOf(records, current) :
         /\ ~Expired(r, clock)
         /\ \/ /\ Works
               /\ actual' = [actual EXCEPT ![current] = r.payload]
               /\ pc' = "mark"
               /\ UNCHANGED <<current, plan, progress>>
            \/ Fault /\ Over /\ actual' \in {actual, [actual EXCEPT ![current] = Broken]}
    /\ UNCHANGED <<records, server, known, clock>>

\* There is none: nothing was armed, the resource is not protected, or a secret
\* is too old.
NothingToRestore ==
    /\ pc = "revert"
    /\ \A r \in ArmedOf(records, current) : Expired(r, clock)
    /\ records' = {IF r \in ArmedOf(records, current) THEN Ended(r, "expired") ELSE r :
                     r \in records}
    /\ Over
    /\ UNCHANGED <<actual, server, known, clock, left>>

\* Faulty form: the record stays armed.
MarkNothing ==
    /\ pc = "mark"
    /\ Over
    /\ UNCHANGED <<actual, records, server, known, clock, left>>

MarkRolledBack ==
    /\ pc = "mark"
    /\ \E r \in ArmedOf(records, current) :
         \/ records' = (records \ {r}) \cup {Ended(r, "rolled-back")} /\ Works
         \/ Fault /\ UNCHANGED records
    /\ Over
    /\ UNCHANGED <<actual, server, known, clock>>

Walked == pc = "walk" /\ visited = Address

\* Every resource was visited: the signals one by one, in their order.
Activate ==
    /\ Walked /\ signals # {}
    /\ \/ /\ Works
          /\ signals' = {s \in signals : \E lower \in signals : lower < s}
          /\ UNCHANGED <<pc, current, plan, visited, applied>>
       \/ Fault /\ Over
    /\ UNCHANGED <<actual, records, server, known, clock>>

Finish ==
    /\ Walked /\ signals = {}
    /\ Over
    /\ known' = target
    /\ UNCHANGED <<actual, records, server, clock, left>>

\* Nothing of a run is kept, nor which release the agent has.
Crash ==
    /\ Fault
    /\ Over
    /\ known' = 0
    /\ UNCHANGED <<actual, records, server, clock>>

-----------------------------------------------------------------------------
(***************************************************************************)
(* The server, the endpoint's other users, and time.                       *)
(***************************************************************************)
NewRelease ==
    /\ release < Cardinality(Release)
    /\ release' = release + 1
    /\ leases' = {}
    /\ UNCHANGED <<actual, records, policy, known, run, clock, left>>

\* A lease is for what the agent reported as off, and ends with the change.
Lease(x) ==
    /\ x \in (Enforced \cap Off) \ leases
    /\ leases' = leases \cup {x}
    /\ UNCHANGED <<actual, records, policy, release, known, run, clock, left>>

LeaseEnds(x) ==
    /\ x \in leases \ Off
    /\ leases' = leases \ {x}
    /\ UNCHANGED <<actual, records, policy, release, known, run, clock, left>>

Drift(x) ==
    /\ left.drifts > 0 /\ left' = [left EXCEPT !.drifts = @ - 1]
    /\ \E content \in Content \ {Broken, actual[x]} : actual' = [actual EXCEPT ![x] = content]
    /\ disturbed' = IF pc = "idle" THEN {} ELSE disturbed \cup {x}
    /\ UNCHANGED <<records, server, known, pc, current, target, drifted, unknown, progress,
                   clock>>

Tick ==
    /\ clock < MaxTime /\ clock' = clock + 1
    /\ UNCHANGED <<actual, records, server, known, run, left>>

Init ==
    /\ actual = [x \in Address |-> AsFound]
    /\ records = {}
    /\ policy \in {"auto", "report"} /\ release = 1 /\ leases = {} /\ known = 0
    /\ pc = "idle" /\ current = 0
    /\ target = 0 /\ drifted = {} /\ unknown = {}
    /\ visited = {} /\ applied = {} /\ signals = {}
    /\ clock = 0 /\ left \in Disturbances
    /\ disturbed = {}

RunStep ==
    \/ AcceptAsIs \/ StartRun \/ Change \/ Restore \/ NothingToRestore \/ MarkRolledBack
    \/ Activate \/ Finish
    \/ \E x \in Address : Skip(x) \/ Blocked(x) \/ AlreadyMet(x) \/ Begin(x)

Next ==
    \/ RunStep \/ Compliance \/ Crash \/ NewRelease \/ Tick
    \/ \E x \in Address : Lease(x) \/ LeaseEnds(x) \/ Drift(x)

Spec == Init /\ [][Next]_vars

\* The agent cycles for ever, and the server grants the leases that operators
\* approved and ends them.
FairSpec ==
    /\ Spec
    /\ WF_vars(RunStep)
    /\ \A x \in Enforced : WF_vars(Lease(x)) /\ WF_vars(LeaseEnds(x))

-----------------------------------------------------------------------------
(***************************************************************************)
(* What must hold.                                                         *)
(***************************************************************************)

\* Every variable has its type; a record that is armed holds a payload and no
\* other does; a run that works on a resource got to it.
TypeOK ==
    /\ actual \in [Address -> Content]
    /\ records \subseteq Record
    /\ policy \in {"auto", "report"}
    /\ release \in Release /\ {known, target} \subseteq Release \cup {0}
    /\ leases \subseteq Enforced
    /\ pc \in {"idle", "walk", "change", "revert", "mark"}
    /\ current \in Address \cup {0} /\ (current = 0 <=> pc \in {"idle", "walk"})
    /\ drifted \cup unknown \cup visited \cup disturbed \subseteq Address
    /\ applied \subseteq visited
    /\ signals \subseteq Nat
    /\ clock \in Nat /\ left \in [faults : Nat, drifts : Nat]
    /\ \A r \in records : r.state = "armed" <=> r.payload # NoPayload

\* A rollback looks for the one armed record of its resource and gives up when it
\* finds two: no order of failed writes, crashes and retries leaves two.
OneArmed == \A x \in Address : Cardinality(ArmedOf(records, x)) <= 1

\* A protected resource that a change or a rollback left half done can still be
\* restored, whatever cleaning, capacity and later runs did meanwhile.
BrokenIsRecoverable ==
    \A x \in Protected \ Sensitive :
        actual[x] = Broken => \E r \in ArmedOf(records, x) : r.payload # Broken

\* The store stays within its size, and keeps of an address no more than its
\* attempts and the one that was armed after the last cleaning.
StoreIsBounded ==
    /\ Used(records) <= MaxBytes
    /\ \A x \in Address : Cardinality(Of(records, x)) <= MaxAttempts + 1

\* The rollback store is fit for use after every failed write, crash and cleaning: one
\* armed record to an address, and no more than its size.
StoreInv == TypeOK /\ OneArmed /\ StoreIsBounded

\* A resource is changed while what it depends on is as the release has it,
\* unless somebody changed that since the check.
DependenciesAreThere ==
    pc = "change" =>
        \A d \in DependsOn[current] : actual[d] = Desired[target][d] \/ d \in disturbed

\* A run that counts as done leaves nothing off without an excuse: a check that
\* failed, a resource that is only reported, that takes effect later or that was
\* changed meanwhile, or another left resource that it depends on.
DoneMeansApplied ==
    LET open == {x \in drifted \cup unknown : x \notin applied}
        excused == unknown \cup Unenforced \cup Deferring
    IN Walked =>
         /\ \A x \in open : x \in excused \/ DependsOn[x] \cap open # {}
         /\ \A x \in Address : actual[x] # Desired[target][x] => x \in open \cup disturbed

\* docs/guides/enrollment-tokens.md:69: "agent applies changes": failures that stop
\* end with the agent having the release, whatever a failed run left behind.
ReleaseGetsKnown == <>[](known = release)
=============================================================================
