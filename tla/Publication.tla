---------------------------- MODULE Publication ----------------------------
(***************************************************************************)
(* How a commit of the configuration repository becomes the release that   *)
(* endpoints are served: a Git sync checks the tracked branch out, composes*)
(* its artifacts into Postgres under the commit's ref and then advances    *)
(* the release ref.  The webhook, the operator's request and the poll run  *)
(* the same handler with no lock between them, on one checkout or, with    *)
(* several servers, each on its own.                                       *)
(*                                                                         *)
(* A commit is its number on the branch, which is not rewritten.  What an  *)
(* artifact says is the commit whose tree it was rendered from, and the    *)
(* variants of one target are one row, as composition writes them from one *)
(* rendering; which of them an endpoint gets is Delivery's.  A server      *)
(* reads a tree at once: a rendering that overlaps a checkout reads the    *)
(* tree before or after, and a checkout that is killed leaves either.      *)
(*                                                                         *)
(* No name here is one of Work's: ServerProofs is about both modules.      *)
(***************************************************************************)
EXTENDS Naturals, FiniteSets

CONSTANTS Refs,         \* commits of the tracked branch: 1..n
          Hosts,        \* checkouts, one to a server process
          Syncs,        \* Git syncs that may be in progress at once
          Contents,     \* what each tree renders: Refs -> SUBSET canonical rows
          RowOrder,     \* the order RenderAll lists the rows in: row -> Nat
          Histories     \* the trees composition refuses, and the budgets: History

\* A rendering of a target, and what it is for.
Renderings == {"canonical", "variants"}

Targets == {"fleet", "endpoint"}            \* the endpoint's fleet, its own override
Kinds == {"desired", "crons", "variants"}
Rows == Targets \X Kinds
NoRef == 0                                  \* no row, no release ref

\* The checkout of each sync; the renderings that return an error; the commits with an
\* override of an endpoint that is not enrolled; how often a call fails or git is
\* killed, a server crashes, the prune age passes.
History == [home: [Syncs -> Hosts], rejected: SUBSET (Refs \X Targets \X Renderings),
            strangers: SUBSET Refs, faults: Nat, crashes: Nat, ages: Nat]

ASSUME RefsAreCommits == 1 \in Refs /\ Refs \subseteq Nat \ {0}

\* RenderAll lists the canonical rows, desired states and scheduled jobs; a tree
\* renders some of them.
ASSUME RowsAreCanonical ==
  /\ DOMAIN RowOrder \subseteq Targets \X {"desired", "crons"}
  /\ \A x \in DOMAIN RowOrder : RowOrder[x] \in Nat
ASSUME TreesHaveRows == \A r \in Refs : Contents[r] \subseteq DOMAIN RowOrder
ASSUME HistoriesAreTyped == Histories \subseteq History

VARIABLES remote,    \* the head of the tracked branch
          tree,      \* what each checkout has checked out
          locked,    \* checkouts with an index.lock that no process holds
          sync,      \* the Git syncs
          rows,      \* compiled_artifacts and their variants: ref -> row -> commit
          release,   \* the persisted release ref
          old,       \* rows compiled longer ago than the prune age
          mixed,     \* refs composed, for a part, from another commit's tree
          pruned,    \* refs that lost rows to the prune
          ahead      \* what is left of the history

gitVars == <<remote, tree, locked, sync, rows, release, old, mixed, pruned, ahead>>

Idle == [pc |-> "idle", ref |-> NoRef, prev |-> NoRef, from |-> NoRef, todo |-> {}]

GitInit == /\ ahead \in Histories
           /\ remote = 1
           /\ tree = [h \in Hosts |-> NoRef]
           /\ locked = {}
           /\ sync = [s \in Syncs |-> Idle]
           /\ rows = [r \in Refs |-> [x \in Rows |-> NoRef]]
           /\ release = NoRef
           /\ old = {} /\ mixed = {} /\ pruned = {}

At(s, pc) == sync[s].pc = pc
Home(s) == ahead.home[s]

Rejected(r, part) == {t \in Targets : <<r, t, part>> \in ahead.rejected}
Variants(r) == {<<x[1], "variants">> : x \in {y \in Contents[r] : y[2] = "desired"}}
Rendered(r) == Contents[r] \cup Variants(r)

----------------------------------------------------------------------------
(* One Git sync. *)

\* A sync keeps nothing for the next one.
Stopped(s) == [sync EXCEPT ![s] = Idle]

\* Faulty form: the ref is what the fetch found, not what is checked out.
FetchedRef(h) == remote

\* rev-parse reads the checkout, whoever moved it last.
CheckedOutRef(h) == tree[h]

(* ensureCheckout, fetch, checkout and reset. Where a command fails for the *)
(* network or for another sync's lock on the index, it has changed nothing  *)
(* and the sync ends: the step is not taken.                                *)
Checkout(s) ==
  /\ At(s, "idle") /\ Home(s) \notin locked
  /\ tree' = [tree EXCEPT ![Home(s)] = remote]
  /\ sync' = [sync EXCEPT ![s].pc = "resolve"]
  /\ UNCHANGED <<remote, locked, rows, release, old, mixed, pruned, ahead>>

(* git runs under the context of the request or of the server: when that is *)
(* cancelled, or the server dies, it is killed where it is, the tree before *)
(* or after, and its lock on the index stays.                               *)
Killed(s) ==
  /\ At(s, "idle") /\ Home(s) \notin locked
  /\ ahead.faults > 0
  /\ ahead' = [ahead EXCEPT !.faults = @ - 1]
  /\ locked' = locked \cup {Home(s)}
  /\ tree' \in {tree, [tree EXCEPT ![Home(s)] = remote]}
  /\ UNCHANGED <<remote, sync, rows, release, old, mixed, pruned>>

\* Nothing in the code removes that lock: every later sync of the checkout fails.
CheckoutRefused(s) ==
  /\ At(s, "idle") /\ Home(s) \in locked
  /\ UNCHANGED gitVars

Resolve(s) ==
  /\ At(s, "resolve")
  /\ sync' = [sync EXCEPT ![s].pc = "prev", ![s].ref = CheckedOutRef(Home(s))]
  /\ UNCHANGED <<remote, tree, locked, rows, release, old, mixed, pruned, ahead>>

ReadPrev(s) ==
  /\ At(s, "prev")
  /\ sync' = [sync EXCEPT ![s].pc = "render", ![s].prev = release]
  /\ UNCHANGED <<remote, tree, locked, rows, release, old, mixed, pruned, ahead>>

\* Every target of the tree renders, and its canonical artifacts pass the validation of
\* the provider release. A desired state that does not compose fails both renderings, a
\* scheduled job that does not, or that validation, the canonical one alone, and too
\* many predicates the variants alone.
Accepted(r) == \A part \in Renderings : Rejected(r, part) = {}

\* A commit that composition can store: every override is of an enrolled endpoint, as
\* the rows refer to the table of endpoints.
Composable(r) == Accepted(r) /\ r \notin ahead.strangers

(* RenderAll and the validation, before anything is stored: all canonical  *)
(* artifacts of the tree that is checked out now.                          *)
Render(s) ==
  LET r == tree[Home(s)] IN
  /\ At(s, "render")
  /\ IF Rejected(r, "canonical") = {}
     THEN /\ sync' = [sync EXCEPT ![s].pc = "store", ![s].from = r,
                                  ![s].todo = Contents[r]]
          /\ mixed' = IF r = sync[s].ref THEN mixed ELSE mixed \cup {sync[s].ref}
     ELSE /\ sync' = Stopped(s)
          /\ UNCHANGED mixed
  /\ UNCHANGED <<remote, tree, locked, rows, release, old, pruned, ahead>>

First(todo) == CHOOSE x \in todo : \A y \in todo : RowOrder[x] <= RowOrder[y]

\* Faulty form: rows are keyed by the release that is current.
KeyOfCurrent(s) == IF sync[s].prev = NoRef THEN sync[s].ref ELSE sync[s].prev

\* Rows are keyed by the ref that is being composed.
KeyOf(s) == sync[s].ref

\* The upsert: the row is replaced and its compiled_at set to now.
Upsert(s, row) ==
  /\ rows' = [rows EXCEPT ![KeyOf(s)][row] = sync[s].from]
  /\ old' = old \ {<<KeyOf(s), row>>}
  /\ sync' = [sync EXCEPT ![s].todo = @ \ {row}]

Store(s) ==
  /\ At(s, "store") /\ sync[s].todo # {}
  /\ Upsert(s, First(sync[s].todo))
  /\ UNCHANGED <<remote, tree, locked, release, mixed, pruned, ahead>>

(* A row for an endpoint that is not enrolled violates the foreign key: the *)
(* sync ends there, after the rows of the fleets, which come first, and     *)
(* before or after the others.                                              *)
StoreUnenrolled(s) ==
  /\ sync[s].pc \in {"store", "variants"} /\ sync[s].from \in ahead.strangers
  /\ \A x \in sync[s].todo : x[1] # "fleet"
  /\ sync' = Stopped(s)
  /\ UNCHANGED <<remote, tree, locked, rows, release, old, mixed, pruned, ahead>>

AllStored(s) == sync[s].todo = {} /\ sync[s].from \notin ahead.strangers

(* RenderAllArtifactVariants reads the tree again, and does not validate. *)
RenderVariants(s) ==
  LET r == tree[Home(s)] IN
  /\ At(s, "store") /\ AllStored(s)
  /\ IF Rejected(r, "variants") = {}
     THEN /\ sync' = [sync EXCEPT ![s].pc = "variants", ![s].from = r,
                                  ![s].todo = Variants(r)]
          /\ mixed' = IF r = sync[s].ref THEN mixed ELSE mixed \cup {sync[s].ref}
     ELSE /\ sync' = Stopped(s)
          /\ UNCHANGED mixed
  /\ UNCHANGED <<remote, tree, locked, rows, release, old, pruned, ahead>>

StoreVariants(s) ==
  /\ At(s, "variants") /\ sync[s].todo # {}
  /\ \E row \in sync[s].todo :
        /\ \A y \in sync[s].todo : RowOrder[<<row[1], "desired">>]
                                     <= RowOrder[<<y[1], "desired">>]
        /\ Upsert(s, row)
  /\ UNCHANGED <<remote, tree, locked, release, mixed, pruned, ahead>>

(* PruneOldCompiledArtifacts: what was compiled before the cutoff, of any   *)
(* ref; when it fails that is logged and no more. Its two statements, for   *)
(* canonical artifacts and for variants, are one step.                      *)
Prune(s) ==
  /\ At(s, "variants") /\ AllStored(s)
  /\ \/ /\ rows' = [r \in Refs |-> [x \in Rows |->
                      IF <<r, x>> \in old THEN NoRef ELSE rows[r][x]]]
        /\ pruned' = pruned \cup {x[1] : x \in old}
        /\ old' = {}
        /\ UNCHANGED ahead
     \/ /\ ahead.faults > 0
        /\ ahead' = [ahead EXCEPT !.faults = @ - 1]
        /\ UNCHANGED <<rows, old, pruned>>
  /\ sync' = [sync EXCEPT ![s].pc = "set"]
  /\ UNCHANGED <<remote, tree, locked, release, mixed>>

\* Faulty form: the ref is persisted once, when there is none.
AdvancesOnce(s) == sync[s].prev = NoRef

\* The ref is persisted when it differs from the one read before composition.
Advances(s) == sync[s].prev # sync[s].ref

SetRef(s) ==
  /\ At(s, "set")
  /\ release' = IF Advances(s) THEN sync[s].ref ELSE release
  /\ sync' = Stopped(s)
  /\ UNCHANGED <<remote, tree, locked, rows, old, mixed, pruned, ahead>>

\* What stops a sync when a call to Git or Postgres fails: the error is returned and
\* what was stored stays.
Fail(s) ==
  /\ ahead.faults > 0 /\ sync[s].pc \in {"resolve", "prev", "store", "variants", "set"}
  /\ ahead' = [ahead EXCEPT !.faults = @ - 1]
  /\ sync' = Stopped(s)
  /\ UNCHANGED <<remote, tree, locked, rows, release, old, mixed, pruned>>

----------------------------------------------------------------------------
(* The environment. *)

Push ==
  /\ remote + 1 \in Refs
  /\ remote' = remote + 1
  /\ UNCHANGED <<tree, locked, sync, rows, release, old, mixed, pruned, ahead>>

\* The endpoints of all overrides are enrolled.
Enroll ==
  /\ ahead.strangers # {}
  /\ ahead' = [ahead EXCEPT !.strangers = {}]
  /\ UNCHANGED <<remote, tree, locked, sync, rows, release, old, mixed, pruned>>

Crash(h) ==
  /\ ahead.crashes > 0
  /\ \E s \in Syncs : Home(s) = h /\ ~At(s, "idle")
  /\ ahead' = [ahead EXCEPT !.crashes = @ - 1]
  /\ sync' = [s \in Syncs |-> IF Home(s) = h THEN Idle ELSE sync[s]]
  /\ UNCHANGED <<remote, tree, locked, rows, release, old, mixed, pruned>>

\* Nothing was composed for as long as the prune age: no poll, or every one failed.
Age ==
  /\ ahead.ages > 0
  /\ \A s \in Syncs : At(s, "idle")
  /\ ahead' = [ahead EXCEPT !.ages = @ - 1]
  /\ old' = {x \in Refs \X Rows : rows[x[1]][x[2]] # NoRef}
  /\ UNCHANGED <<remote, tree, locked, sync, rows, release, mixed, pruned>>

Step(s) == \/ Checkout(s) \/ Resolve(s) \/ ReadPrev(s) \/ Render(s) \/ Store(s)
           \/ StoreUnenrolled(s) \/ RenderVariants(s) \/ StoreVariants(s)
           \/ Prune(s) \/ SetRef(s)

GitNext == \/ \E s \in Syncs : Step(s) \/ Killed(s) \/ CheckoutRefused(s) \/ Fail(s)
           \/ \E h \in Hosts : Crash(h)
           \/ Push \/ Enroll \/ Age

(* The poll calls Sync at every tick, and a sync that runs goes on. *)
GitSpec == GitInit /\ [][GitNext]_gitVars /\ \A s \in Syncs : WF_gitVars(Step(s))

----------------------------------------------------------------------------
(* What an endpoint whose fleet is "fleet" is served by the server of h. *)

Found(t, k) == IF release = NoRef THEN NoRef ELSE rows[release][<<t, k>>]

\* getDesiredFromStore and its likes: the override before the fleet.
Stored(k) ==
  IF Found("endpoint", k) # NoRef THEN Found("endpoint", k) ELSE Found("fleet", k)

\* OnDemandArtifactResolver renders one target of what is checked out, whatever the ref;
\* only the rendering of canonical artifacts validates the provider release.
Erroneous(h, t, k) ==
  t \in Rejected(tree[h], IF k = "variants" THEN "variants" ELSE "canonical")

OnDemandFrom(h, t, k) ==
  IF \/ tree[h] = NoRef
     \/ <<t, k>> \notin Rendered(tree[h])
     \/ Erroneous(h, t, k)
  THEN NoRef ELSE tree[h]

\* An override with an error is not passed over, one without this kind is.
OnDemand(h, k) ==
  IF /\ tree[h] # NoRef
     /\ <<"endpoint", k>> \in Rendered(tree[h]) \/ Erroneous(h, "endpoint", k)
  THEN OnDemandFrom(h, "endpoint", k) ELSE OnDemandFrom(h, "fleet", k)

\* Faulty form: the working tree is tried first.
ResolveFromTree(h, k) == IF OnDemand(h, k) # NoRef THEN OnDemand(h, k) ELSE Stored(k)

\* resolveCompatibleDesiredArtifact, resolveDesiredArtifact, resolveCronsArtifact.
ServedArtifact(h, k) == IF Stored(k) # NoRef THEN Stored(k) ELSE OnDemand(h, k)

----------------------------------------------------------------------------
(* Properties. *)

\* The release reference, the rows and working tree it is published from, and what
\* each sync has read so far are all of the kinds the code gives them.
GitTypeOK ==
  /\ remote \in Refs /\ release \in Refs \cup {NoRef}
  /\ tree \in [Hosts -> Refs \cup {NoRef}] /\ locked \subseteq Hosts
  /\ sync \in [Syncs -> [pc : {"idle", "resolve", "prev", "render", "store", "variants",
                               "set"},
                         ref : Refs \cup {NoRef}, prev : Refs \cup {NoRef},
                         from : Refs \cup {NoRef}, todo : SUBSET Rows]]
  /\ rows \in [Refs -> [Rows -> Refs \cup {NoRef}]]
  /\ \A s \in Syncs : At(s, "idle") => sync[s] = Idle
  /\ old \subseteq {x \in Refs \X Rows : rows[x[1]][x[2]] # NoRef}
  /\ mixed \subseteq Refs /\ pruned \subseteq Refs

Whole(r) == \A x \in Rows : rows[r][x] = IF x \in Rendered(r) THEN r ELSE NoRef

(* A release ref names a commit that was accepted and has all its          *)
(* artifacts, canonical ones and variants, and none of another commit,     *)
(* through failed and interrupted compositions: unless two syncs shared    *)
(* the checkout and the ref was composed from the other's, or its rows     *)
(* were too old at a prune (gitsync.Sync composes before SetReleaseRef).   *)
ReleaseIsWhole ==
  release # NoRef /\ release \notin mixed \cup pruned => Accepted(release) /\ Whole(release)

(* What an overlap puts under a ref is a later commit, never an earlier    *)
(* one: a checkout only goes forward, and the ref is read from it. So the  *)
(* head of the branch never gets another commit's artifacts                *)
(* (resolveHEAD).                                                          *)
NeverAnEarlierCommit ==
  \A r \in Refs : \A x \in Rows : rows[r][x] # NoRef => rows[r][x] >= r

\* The rows of a commit are of that commit or a later one at all times.
RowsInv == GitTypeOK /\ NeverAnEarlierCommit

(* What is offered under a release is of that release, whatever is checked *)
(* out meanwhile (getDesiredVariantsFromStore), with the same exceptions;  *)
(* scheduled jobs of another commit only where the release has none at all *)
(* for the endpoint (resolveCronsArtifact).                                *)
OfferedIsOfRelease ==
  release # NoRef /\ release \notin mixed \cup pruned
    => \A h \in Hosts :
         /\ ServedArtifact(h, "variants") = release
         /\ ServedArtifact(h, "desired") = release
         /\ \/ ServedArtifact(h, "crons") = release
            \/ {<<"fleet", "crons">>, <<"endpoint", "crons">>} \cap Contents[release] = {}

(* The head of the branch, once it stays and can be composed, becomes the  *)
(* release and stays it, with every artifact its own, also where an        *)
(* overlap set the ref back or mixed what was stored, as long as there is  *)
(* a checkout that no killed git left locked (StartPoll).                  *)
HeadIsReleased ==
  <>[](Composable(remote) /\ \E s \in Syncs : Home(s) \notin locked)
    => <>[](release = remote /\ Whole(remote))

(* A desired state that composition refused is not offered while there is  *)
(* a release to offer: "If any step fails, Git sync does not advance the   *)
(* release ref. Agents continue receiving the prior successfully compiled  *)
(* release" (docs/guides/configuration-repository.md:120).                 *)
RefusedIsNotOffered ==
  release # NoRef /\ (\A s \in Syncs : At(s, "idle"))
    => \A h \in Hosts : \A r \in Refs : ServedArtifact(h, "variants") = r => Accepted(r)
=============================================================================
