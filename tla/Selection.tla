----------------------------- MODULE Selection ------------------------------
(***************************************************************************)
(* Which variant of a release an endpoint is served, by its capability     *)
(* document: [facts, schemas, contracts], what the endpoint is and can do. *)
(* Contracts and needs are pairs of an identifier and a revision, of which *)
(* a document has one for each identifier.  Bounds, digests of requirement *)
(* sets, and features are left out.                                        *)
(***************************************************************************)
EXTENDS Naturals, Sequences, FiniteSets

CONSTANT Variants   \* what was composed, in the order the database lists it:
                    \* [release, digest, schema, target, needs], numbered from 1

Dimensions == {"distro", "architecture"}

Variant == [release: Nat, digest: Nat, schema: Nat, target: [Dimensions -> SUBSET STRING],
            needs: SUBSET (STRING \X STRING)]

\* Nothing is composed for what a legacy agent answers: no facts at all.
ASSUME VariantsAreComposed ==
    /\ Variants \in Seq(Variant)
    /\ \A v \in DOMAIN Variants, f \in Dimensions : "unknown" \notin Variants[v].target[f]

\* minimalLegacyCapabilityProfile, for an agent that sends no document: it has
\* no facts, so every target that names a value is another's
LegacyDocument == [facts |-> [f \in Dimensions |-> "unknown"],
                   schemas |-> {0},
                   contracts |-> {<<"resource:command", "command-v1">>}]

VariantsOf(r) == {v \in DOMAIN Variants : Variants[v].release = r}

\* a target without values for a dimension leaves it open
TargetMatches(v, facts) ==
    \A f \in Dimensions : Variants[v].target[f] # {} => facts[f] \in Variants[v].target[f]

Specificity(v) == Cardinality({f \in Dimensions : Variants[v].target[f] # {}})

\* missingRequirements: a schema version, resource and provider contracts
Missing(v, document) ==
    {<<"schema", s>> : s \in {Variants[v].schema} \ document.schemas}
        \cup (Variants[v].needs \ document.contracts)

\* Only the variants of the most specific target that matches: when none of
\* them can be processed, a more general one is no substitute.
Candidates(r, facts) ==
    {v \in VariantsOf(r) :
        /\ TargetMatches(v, facts)
        /\ \A w \in VariantsOf(r) : TargetMatches(w, facts) => Specificity(w) <= Specificity(v)}

Processable(r, document) ==
    {v \in Candidates(r, document.facts) : Missing(v, document) = {}}

\* sorted by schema version, the highest first, otherwise in their order
Before(v, w) == \/ Variants[v].schema > Variants[w].schema
                \/ Variants[v].schema = Variants[w].schema /\ v < w

\* the candidate that comes first, or none
SelectHighestCompatible(r, document) ==
    {v \in Processable(r, document) :
        \A w \in Processable(r, document) \ {v} : Before(v, w)}
=============================================================================
