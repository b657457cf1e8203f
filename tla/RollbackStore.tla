--------------------------- MODULE RollbackStore ---------------------------
(***************************************************************************)
(* The agent's rollback store (internal/rollbackstore) as operators on the *)
(* set of its records: what opening the store, arming a record, restoring  *)
(* from it and letting it go make of that set.  A record is one file that  *)
(* is replaced atomically, and holds a payload until its transaction ends. *)
(***************************************************************************)
EXTENDS Naturals, FiniteSets

CONSTANTS
    Address,      \* resources, numbered from one in the order they are applied in
    Content,      \* what a resource of the endpoint can contain
    NoPayload,    \* a record keeps its metadata only
    Sensitive,    \* addresses whose payload holds a secret
    MaxBytes,     \* configured size of the store, in records without payload
    MaxAttempts,  \* records kept of one address
    MaxAge,       \* age at which a record is removed
    SecretAge     \* age at which a secret is dropped, armed or not

ASSUME StoreAssumption ==
    /\ Address \subseteq Nat \ {0} /\ Sensitive \subseteq Address
    /\ NoPayload \notin Content
    /\ {MaxBytes, MaxAttempts, MaxAge, SecretAge} \subseteq Nat \ {0}

Lifecycle == {"armed", "acknowledged", "rolled-back", "expired"}

Record == [address : Address, attempt : Nat \ {0}, state : Lifecycle,
           payload : Content \cup {NoPayload}, created : Nat]

Of(records, a) == {r \in records : r.address = a}
ArmedOf(records, a) == {r \in Of(records, a) : r.state = "armed"}
Unarmed(records) == {r \in records : r.state # "armed"}

\* A payload takes as much as the metadata around it.
Used(records) == Cardinality(records) + Cardinality({r \in records : r.payload # NoPayload})
Footprint == 2

Older(r, s) ==
    \/ r.created < s.created
    \/ r.created = s.created /\ r.attempt < s.attempt
    \/ r.created = s.created /\ r.attempt = s.attempt /\ r.address < s.address

\* The transaction is over: the payload goes, the metadata stays.
Ended(r, state) == [r EXCEPT !.state = state, !.payload = NoPayload]

-----------------------------------------------------------------------------
(***************************************************************************)
(* Retention.                                                              *)
(***************************************************************************)
Expired(r, now) == r.address \in Sensitive /\ now >= r.created + SecretAge

\* Faulty form: armed records grow old like any other.
AgedEvenArmed(r, now) == now >= r.created + MaxAge
Aged(r, now) == r.state # "armed" /\ now >= r.created + MaxAge

\* A secret is dropped in time, even under an armed record; a record that had
\* one is then not looked at for its age any more.
Retained(records, now) ==
    {IF Expired(r, now) THEN Ended(r, "expired") ELSE r :
        r \in {s \in records : Expired(s, now) \/ ~Aged(s, now)}}

\* The oldest of an address go, armed ones excepted, until there are few enough.
FewAttempts(records) ==
    {r \in records :
        LET others == Of(records, r.address)
            before == {s \in Unarmed(others) : Older(s, r)}
        IN r.state = "armed" \/ Cardinality(others \ before) <= MaxAttempts}

\* The oldest go, armed ones excepted, until the required bytes fit.
Fitting(records, required) ==
    {r \in records :
        \/ r.state = "armed"
        \/ Used(records \ {s \in Unarmed(records) : Older(s, r)}) + required <= MaxBytes}

\* Also what opening the store does.
Cleanup(records, now) == Fitting(FewAttempts(Retained(records, now)), 0)

-----------------------------------------------------------------------------
(***************************************************************************)
(* A handle's operations.                                                  *)
(***************************************************************************)
Attempt(records, a) ==
    IF Of(records, a) = {} THEN 1
    ELSE 1 + CHOOSE n \in {r.attempt : r \in Of(records, a)} :
                 \A r \in Of(records, a) : r.attempt <= n

\* Faulty form: an armed record of the address does not stop the next one.
ArmableAgain(records, a) == TRUE
Armable(records, a) == ArmedOf(records, a) = {}

\* Room is made first, and stays made when it is not enough.
RoomMade(records, now) == Fitting(Cleanup(records, now), Footprint)
HasRoom(records) == Used(records) + Footprint <= MaxBytes

NewRecord(records, a, payload, now) ==
    [address |-> a, attempt |-> Attempt(records, a), state |-> "armed",
     payload |-> payload, created |-> now]

=============================================================================
