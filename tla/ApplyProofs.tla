----------------------------- MODULE ApplyProofs -----------------------------
(***************************************************************************)
(* Theorems about the apply engine and its rollback store, for any         *)
(* resources, dependencies, releases, sizes and ages.                      *)
(*                                                                         *)
(* The store: cleaning removes records and ends them, and neither makes an *)
(* armed one of an address a second, or more bytes or attempts than there  *)
(* were.  Only arming adds a record, and looks first.                      *)
(*                                                                         *)
(* The run: what it works on has drifted and was not visited, so that what *)
(* was applied before, and what the check found right, stays as the        *)
(* release has it unless somebody else changes it.                         *)
(***************************************************************************)
EXTENDS ApplyEngine, FiniteSetTheorems, WellFoundedInduction, TLAPS

Armed(recs) == {r \in recs : r.state = "armed"}

\* No address has two armed records.
Single(recs) == \A r, s \in Armed(recs) : r.address = s.address => r = s

\* Records of a store that is fit for use.
Sound(recs) ==
    /\ recs \subseteq Record /\ IsFiniteSet(recs)
    /\ \A r \in recs : r.state = "armed" <=> r.payload # NoPayload
    /\ Single(recs)
    /\ Used(recs) <= MaxBytes
    /\ \A x \in Address : Cardinality(Of(recs, x)) <= MaxAttempts + 1

\* What an armed record of no secret restores is no half-done content.
Restores(recs) == \A r \in Armed(recs) : r.address \notin Sensitive => r.payload # Broken

Guarded == Protected \ Sensitive

\* A guarded resource that may be half done has its armed record.
RecoverInv ==
    /\ \A x \in Guarded : actual[x] = Broken => ArmedOf(records, x) # {}
    /\ pc = "change" /\ current \in Guarded => ArmedOf(records, current) # {}
    /\ pc = "mark" /\ current \in Guarded => actual[current] # Broken

Found == Address \ (drifted \cup unknown)

\* What is done and what was found right is as the release has it.
RunInv ==
    /\ pc = "idle" => visited = {} /\ applied = {} /\ signals = {}
    /\ pc # "idle" =>
         /\ target \in Release
         /\ \A x \in applied \cup Found : actual[x] = Desired[target][x] \/ x \in disturbed
         /\ \A x \in (visited \ applied) \ Found :
                \/ x \in unknown \cup Unenforced \cup Deferring
                \/ \E d \in DependsOn[x] : d \in (visited \ applied) \ Found
    /\ pc \notin {"idle", "walk"} =>
         /\ current \in drifted \ visited
         /\ DependenciesReady(current)

ApplyInv == TypeOK /\ Sound(records) /\ Restores(records) /\ RecoverInv /\ RunInv

-----------------------------------------------------------------------------
(***************************************************************************)
(* Numbers and sizes.                                                      *)
(***************************************************************************)
LEMMA Least ==
    ASSUME NEW S \in SUBSET Nat, S # {}
    PROVE  \E n \in S : \A m \in S : n <= m
<1>1. IsWellFoundedOn(OpToRel(<, Nat), Nat)
  BY NatLessThanWellFounded, Zenon
<1>2. PICK n \in S : \A m \in S : <<m, n>> \notin OpToRel(<, Nat)
  BY <1>1, WFMin, Zenon
<1>3. \A m \in S : ~(m < n)
  BY <1>2 DEF OpToRel
<1> QED
  BY <1>3

\* A finite set of naturals has a bound.
LEMMA Bounded ==
    ASSUME NEW S \in SUBSET Nat, IsFiniteSet(S)
    PROVE  \E b \in Nat : \A m \in S : m <= b
<1> DEFINE Has(T) == \E b \in Nat : \A m \in T : m <= b
<1> DEFINE Sizes == {n \in Nat : \E T \in SUBSET Nat :
                        IsFiniteSet(T) /\ Cardinality(T) = n /\ ~Has(T)}
<1> SUFFICES ASSUME ~Has(S)
             PROVE  FALSE
  OBVIOUS
<1>1. Sizes # {}
  BY FS_CardinalityType
<1>2. PICK n \in Sizes : \A m \in Sizes : n <= m
  BY <1>1, Least
<1>3. PICK T \in SUBSET Nat : IsFiniteSet(T) /\ Cardinality(T) = n /\ ~Has(T)
  BY <1>2
<1>4. T # {}
  BY <1>3
<1>5. PICK x \in T : TRUE
  BY <1>4
<1>6. /\ IsFiniteSet(T \ {x}) /\ Cardinality(T \ {x}) = n - 1 /\ n - 1 \in Nat
      /\ T \ {x} \in SUBSET Nat
  <2>1. IsFiniteSet(T \ {x}) /\ Cardinality(T \ {x}) = n - 1
    BY <1>3, <1>5, FS_RemoveElement
  <2>2. Cardinality(T \ {x}) \in Nat
    BY <2>1, FS_CardinalityType
  <2> QED
    BY <2>1, <2>2
<1>7. Has(T \ {x})
  <2> DEFINE U == T \ {x}
  <2>1. U \in SUBSET Nat /\ IsFiniteSet(U) /\ Cardinality(U) = n - 1 /\ n - 1 \in Nat
    BY <1>6
  <2> HIDE DEF U
  <2>2. ~Has(U) => n - 1 \in Sizes
    BY <2>1
  <2>3. n \in Nat /\ ~(n <= n - 1)
    BY <1>2
  <2>4. Has(U)
    <3> HIDE DEF Has, Sizes
    <3> QED
      BY <1>2, <2>2, <2>3
  <2> QED
    BY <2>4 DEF U
<1>8. PICK b \in Nat : \A m \in T \ {x} : m <= b
  BY <1>7
<1>9. x \in Nat /\ b + x \in Nat /\ \A m \in T : m <= b + x
  BY <1>5, <1>8
<1>10. Has(T)
  BY <1>9
<1> HIDE DEF Has
<1> QED
  BY <1>3, <1>10

LEMMA Greatest ==
    ASSUME NEW S \in SUBSET Nat, IsFiniteSet(S), S # {}
    PROVE  \E n \in S : \A m \in S : m <= n
<1> DEFINE B == {b \in Nat : \A m \in S : m <= b}
<1>1. PICK b \in B : \A c \in B : b <= c
  BY Bounded, Least
<1>2. CASE b \in S
  BY <1>1, <1>2
<1>3. CASE b \notin S
  <2>1. \A m \in S : m < b
    BY <1>1, <1>3
  <2>2. b - 1 \in B
    <3>1. b \in Nat /\ b # 0
      <4>1. PICK m \in S : TRUE
        OBVIOUS
      <4>2. m \in Nat /\ m < b /\ b \in Nat
        BY <2>1, <4>1
      <4> QED
        BY <4>2
    <3>2. \A m \in Nat : m < b => m <= b - 1
      BY <3>1
    <3>3. \A m \in S : m <= b - 1
      BY <2>1, <3>2
    <3> QED
      BY <3>1, <3>3
  <2> QED
    BY <1>1, <2>2
<1> QED
  BY <1>2, <1>3


\* Some records of a set are over.
EndAll(recs, over, st) == {IF r \in over THEN Ended(r, st) ELSE r : r \in recs}

\* Ending some records of a set leaves no more records than there were.
LEMMA EndingIsNoMore ==
    ASSUME NEW R, IsFiniteSet(R), NEW E, NEW st
    PROVE  /\ IsFiniteSet(EndAll(R, E, st))
           /\ Cardinality(EndAll(R, E, st)) <= Cardinality(R)
<1> DEFINE f == [r \in R |-> IF r \in E THEN Ended(r, st) ELSE r]
           T == {f[r] : r \in R}
<1>1. f \in Surjection(R, T)
  BY DEF Surjection
<1>2. IsFiniteSet(T) /\ Cardinality(T) <= Cardinality(R)
  BY <1>1, FS_Surjection
<1>3. T = EndAll(R, E, st)
  BY DEF EndAll
<1> QED
  BY <1>2, <1>3

\* Fewer records take fewer bytes.
LEMMA UsedIsLess ==
    ASSUME NEW R, IsFiniteSet(R), NEW S, S \subseteq R
    PROVE  /\ Used(S) <= Used(R) /\ Used(S) \in Nat /\ Used(R) \in Nat /\ IsFiniteSet(S)
<1> DEFINE Paid(T) == {r \in T : r.payload # NoPayload}
<1>1. /\ IsFiniteSet(S) /\ Cardinality(S) <= Cardinality(R)
  BY FS_Subset
<1>2. IsFiniteSet(Paid(R)) /\ IsFiniteSet(Paid(S)) /\ Paid(S) \subseteq Paid(R)
  BY <1>1, FS_Subset
<1>3. Cardinality(Paid(S)) <= Cardinality(Paid(R))
  BY <1>2, FS_Subset
<1>4. /\ Cardinality(S) \in Nat /\ Cardinality(R) \in Nat
      /\ Cardinality(Paid(S)) \in Nat /\ Cardinality(Paid(R)) \in Nat
  BY <1>1, <1>2, FS_CardinalityType
<1>5. /\ Used(S) = Cardinality(S) + Cardinality(Paid(S))
      /\ Used(R) = Cardinality(R) + Cardinality(Paid(R))
  BY DEF Used
<1> HIDE DEF Paid
<1> QED
  BY <1>1, <1>3, <1>4, <1>5


-----------------------------------------------------------------------------
(***************************************************************************)
(* Stores that are fit for use stay so.                                    *)
(***************************************************************************)
LEMMA Constants ==
    /\ Address \subseteq Nat /\ 0 \notin Address /\ MaxAttempts \in Nat /\ MaxBytes \in Nat
    /\ NoPayload \notin Content /\ Broken \in Content /\ Broken # NoPayload
    /\ Guarded \subseteq Address /\ Guarded \cap Sensitive = {}
BY StoreAssumption, EngineAssumption DEF Guarded

\* Without some of its records.
LEMMA SubsetIsSound ==
    ASSUME NEW R, Sound(R), NEW S, S \subseteq R
    PROVE  /\ Sound(S) /\ Armed(S) = Armed(R) \cap S
           /\ \A x \in Address : Cardinality(Of(S, x)) <= Cardinality(Of(R, x))
<1>1. IsFiniteSet(R) /\ S \subseteq Record
  BY DEF Sound
<1>2. IsFiniteSet(S) /\ Used(S) <= Used(R) /\ Used(S) \in Nat /\ Used(R) \in Nat
  BY <1>1, UsedIsLess
<1>3. ASSUME NEW x \in Address
      PROVE  /\ Cardinality(Of(S, x)) <= Cardinality(Of(R, x))
             /\ Cardinality(Of(S, x)) \in Nat /\ Cardinality(Of(R, x)) \in Nat
  <2>1. Of(S, x) \subseteq Of(R, x) /\ Of(R, x) \subseteq R
    BY DEF Of
  <2>2. IsFiniteSet(Of(R, x)) /\ IsFiniteSet(Of(S, x))
    BY <1>1, <2>1, FS_Subset
  <2> QED
    BY <2>1, <2>2, FS_Subset, FS_CardinalityType
<1>4. Used(S) <= MaxBytes
  BY <1>2, Constants DEF Sound
<1>5. \A x \in Address : Cardinality(Of(S, x)) <= MaxAttempts + 1
  BY <1>3, Constants DEF Sound
<1>6. Armed(S) = Armed(R) \cap S
  BY DEF Armed
<1>7. Single(S) /\ \A r \in S : r.state = "armed" <=> r.payload # NoPayload
  BY <1>6 DEF Sound, Single
<1> QED
  BY <1>1, <1>2, <1>3, <1>4, <1>5, <1>6, <1>7 DEF Sound

LEMMA EndedIs ==
    ASSUME NEW r \in Record, NEW st \in Lifecycle \ {"armed"}
    PROVE  /\ Ended(r, st) \in Record /\ Ended(r, st).address = r.address
           /\ Ended(r, st).state = st /\ Ended(r, st).payload = NoPayload
BY DEF Ended, Record

\* With some of its records ended.
LEMMA EndedIsSound ==
    ASSUME NEW R, Sound(R), NEW E, NEW st \in Lifecycle \ {"armed"}
    PROVE  LET T == EndAll(R, E, st) IN
           /\ Sound(T) /\ Armed(T) = Armed(R) \ E
           /\ \A x \in Address : Cardinality(Of(T, x)) <= Cardinality(Of(R, x))
<1> DEFINE T == EndAll(R, E, st)
<1>1. R \subseteq Record /\ IsFiniteSet(R)
      /\ \A r \in R : r.state = "armed" <=> r.payload # NoPayload
  BY DEF Sound
<1>2. IsFiniteSet(T) /\ Cardinality(T) <= Cardinality(R)
  BY <1>1, EndingIsNoMore
<1>3. \A t \in T : \/ t \in R \ E
                   \/ \E r \in R \cap E : /\ t = Ended(r, st) /\ t \in Record
                                          /\ t.address = r.address
                                          /\ t.state = st /\ t.payload = NoPayload
  BY <1>1, EndedIs DEF EndAll
<1>4. Armed(T) = Armed(R) \ E
  <2>1. \A r \in R \ E : r \in T
    BY DEF EndAll
  <2> QED
    BY <1>1, <1>3, <2>1 DEF Armed
<1>5. /\ T \subseteq Record /\ Single(T)
      /\ \A t \in T : t.state = "armed" <=> t.payload # NoPayload
  <2>1. Single(T)
    BY <1>4 DEF Sound, Single
  <2>2. T \subseteq Record
    BY <1>1, <1>3
  <2>3. \A t \in T : t.state = "armed" <=> t.payload # NoPayload
    BY <1>1, <1>3
  <2> QED
    BY <2>1, <2>2, <2>3
<1>6. Used(T) <= Used(R) /\ Used(R) \in Nat /\ Used(T) \in Nat
  <2> DEFINE Paid(U) == {r \in U : r.payload # NoPayload}
  <2>1. Paid(T) \subseteq Paid(R)
    BY <1>3
  <2>2. IsFiniteSet(Paid(R)) /\ IsFiniteSet(Paid(T))
    BY <1>1, <1>2, FS_Subset
  <2>3. Cardinality(Paid(T)) <= Cardinality(Paid(R))
    BY <2>1, <2>2, FS_Subset
  <2>4. /\ Cardinality(T) \in Nat /\ Cardinality(R) \in Nat
        /\ Cardinality(Paid(T)) \in Nat /\ Cardinality(Paid(R)) \in Nat
    BY <1>1, <1>2, <2>2, FS_CardinalityType
  <2>5. /\ Used(T) = Cardinality(T) + Cardinality(Paid(T))
        /\ Used(R) = Cardinality(R) + Cardinality(Paid(R))
    BY DEF Used
  <2> HIDE DEF Paid, T
  <2> QED
    BY <1>2, <2>3, <2>4, <2>5
<1>7. ASSUME NEW x \in Address
      PROVE  /\ Cardinality(Of(T, x)) <= Cardinality(Of(R, x))
             /\ Cardinality(Of(T, x)) \in Nat /\ Cardinality(Of(R, x)) \in Nat
  <2> DEFINE Rx == Of(R, x)
             Tx == EndAll(Rx, E, st)
  <2>1. IsFiniteSet(Rx)
    BY <1>1, FS_Subset DEF Of
  <2>2. Of(T, x) = Tx
    BY <1>1, EndedIs DEF Of, EndAll
  <2>3. IsFiniteSet(Tx) /\ Cardinality(Tx) <= Cardinality(Rx)
    <3> HIDE DEF Rx
    <3> QED
      BY <2>1, EndingIsNoMore
  <2> QED
    BY <2>1, <2>2, <2>3, FS_CardinalityType
<1> HIDE DEF T
<1>8. Used(T) <= MaxBytes
  BY <1>6, Constants DEF Sound
<1>9. \A x \in Address : Cardinality(Of(T, x)) <= MaxAttempts + 1
  BY <1>7, Constants DEF Sound
<1>10. Sound(T)
  BY <1>2, <1>5, <1>8, <1>9 DEF Sound
<1> QED
  BY <1>4, <1>7, <1>10 DEF T


-----------------------------------------------------------------------------
(***************************************************************************)
(* Cleaning and making room.                                               *)
(***************************************************************************)

\* Of some records one has no older among them.
LEMMA OldestIs ==
    ASSUME NEW K \in SUBSET Record, K # {}, NEW x \in Nat, \A r \in K : r.address = x
    PROVE  \E r \in K : \A s \in K : ~Older(s, r)
<1> DEFINE C == {r.created : r \in K}
<1>1. \A r \in K : r.created \in Nat /\ r.attempt \in Nat
  BY DEF Record
<1>2. C \in SUBSET Nat /\ C # {}
  BY <1>1
<1>3. PICK c \in C : \A d \in C : c <= d
  <2> HIDE DEF C
  <2> QED
    BY <1>2, Least
<1> DEFINE A == {r.attempt : r \in {s \in K : s.created = c}}
<1>4. A \in SUBSET Nat /\ A # {}
  BY <1>1
<1>5. PICK a \in A : \A b \in A : a <= b
  <2> HIDE DEF A
  <2> QED
    BY <1>4, Least
<1>6. PICK r \in K : r.created = c /\ r.attempt = a
  BY <1>5
<1>7. \A s \in K : c <= s.created /\ (s.created = c => a <= s.attempt)
  BY <1>3, <1>5
<1>8. ASSUME NEW s \in K
      PROVE  ~Older(s, r)
  <2>1. /\ s.created \in Nat /\ s.attempt \in Nat /\ c \in Nat /\ a \in Nat
        /\ s.address = x /\ r.address = x
        /\ c <= s.created /\ (s.created = c => a <= s.attempt)
    BY <1>1, <1>6, <1>7
  <2> HIDE DEF C, A
  <2> QED
    BY <2>1, <1>6 DEF Older
<1> QED
  BY <1>8

\* Few attempts are left of an address without an armed record.
LEMMA FewAreLeft ==
    ASSUME NEW R, R \subseteq Record, IsFiniteSet(R), NEW x \in Address, ArmedOf(R, x) = {}
    PROVE  Cardinality(Of(FewAttempts(R), x)) <= MaxAttempts
<1> DEFINE K == Of(FewAttempts(R), x)
<1>1. /\ K \in SUBSET Record /\ K \subseteq Of(R, x) /\ IsFiniteSet(Of(R, x))
      /\ \A r \in K : r.address = x /\ r.state # "armed"
  <2>1. K \subseteq Of(R, x) /\ Of(R, x) \subseteq R
    BY DEF Of, FewAttempts
  <2>2. IsFiniteSet(Of(R, x))
    BY <2>1, FS_Subset
  <2>3. \A r \in K : r.address = x /\ r.state # "armed"
    BY <2>1 DEF Of, ArmedOf
  <2> QED
    BY <2>1, <2>2, <2>3
<1>2. CASE K = {}
  BY <1>2, FS_EmptySet, Constants
<1>3. CASE K # {}
  <2>1. PICK r \in K : \A s \in K : ~Older(s, r)
    <3> HIDE DEF K
    <3> QED
      BY <1>1, <1>3, OldestIs, Constants
  <2> DEFINE others == Of(R, r.address)
             before == {s \in Unarmed(others) : Older(s, r)}
  <2>2. Cardinality(others \ before) <= MaxAttempts
    BY <1>1, <2>1 DEF FewAttempts, Of
  <2>3. K \subseteq others \ before /\ IsFiniteSet(others \ before)
    <3>1. others = Of(R, x)
      BY <1>1, <2>1
    <3>2. K \subseteq others \ before
      BY <1>1, <2>1, <3>1
    <3>3. IsFiniteSet(others \ before)
      BY <1>1, <3>1, FS_Subset
    <3> QED
      BY <3>2, <3>3
  <2>4. Cardinality(K) <= Cardinality(others \ before)
        /\ Cardinality(K) \in Nat /\ Cardinality(others \ before) \in Nat
    <3> DEFINE B == others \ before
    <3>1. K \subseteq B /\ IsFiniteSet(B)
      BY <2>3
    <3> HIDE DEF K, B
    <3>2. Cardinality(K) <= Cardinality(B) /\ Cardinality(K) \in Nat /\ Cardinality(B) \in Nat
      BY <3>1, FS_Subset, FS_CardinalityType
    <3> QED
      BY <3>2 DEF B
  <2> QED
    BY <2>2, <2>4, Constants
<1> QED
  BY <1>2, <1>3

\* Cleaning takes nothing from a store but what is over and what is too old to keep.
LEMMA CleanupIs ==
    ASSUME NEW R, Sound(R), NEW now \in Nat
    PROVE  LET T == Cleanup(R, now) IN
           /\ Sound(T) /\ Armed(T) \subseteq Armed(R)
           /\ \A r \in Armed(R) : r.address \notin Sensitive => r \in T
           /\ \A x \in Address : ArmedOf(R, x) = {} => Cardinality(Of(T, x)) <= MaxAttempts
<1> DEFINE S == {r \in R : Expired(r, now) \/ ~Aged(r, now)}
           E == {r \in R : Expired(r, now)}
           R1 == Retained(R, now)
           R2 == FewAttempts(R1)
           T == Fitting(R2, 0)
<1>1. Sound(S) /\ Armed(S) = Armed(R)
  <2>1. Sound(S) /\ Armed(S) = Armed(R) \cap S
    BY SubsetIsSound
  <2>2. Armed(R) \subseteq S
    BY DEF Armed, Aged
  <2> QED
    BY <2>1, <2>2
<1>2. R1 = EndAll(S, E, "expired")
  BY DEF Retained, EndAll
<1>3. Sound(R1) /\ Armed(R1) = Armed(R) \ E
  <2>1. "expired" \in Lifecycle \ {"armed"}
    BY DEF Lifecycle
  <2> HIDE DEF S, E, R1
  <2> QED
    BY <1>1, <1>2, <2>1, EndedIsSound
<1>4. R2 \subseteq R1 /\ Armed(R1) \subseteq R2
  BY DEF FewAttempts, Armed
<1>5. T \subseteq R2 /\ Armed(R2) \subseteq T
  BY DEF Fitting, Armed
<1>6. T = Cleanup(R, now)
  BY DEF Cleanup
<1>7. \A r \in E : r.address \in Sensitive
  BY DEF Expired
<1> HIDE DEF S, E, R1, R2, T
<1>8. Sound(R2) /\ Armed(R2) = Armed(R1)
  BY <1>3, <1>4, SubsetIsSound DEF Armed
<1>9. Sound(T) /\ Armed(T) = Armed(R1)
  BY <1>5, <1>8, SubsetIsSound DEF Armed
<1>10. \A r \in Armed(R) : r.address \notin Sensitive => r \in T
  BY <1>3, <1>7, <1>9 DEF Armed
<1>11. ASSUME NEW x \in Address, ArmedOf(R, x) = {}
       PROVE  Cardinality(Of(T, x)) <= MaxAttempts
  <2>1. ArmedOf(R1, x) = {}
    BY <1>3, <1>11 DEF ArmedOf, Of, Armed
  <2>2. Cardinality(Of(R2, x)) <= MaxAttempts
    BY <1>3, <2>1, FewAreLeft DEF R2, Sound
  <2>3. Of(T, x) \subseteq Of(R2, x) /\ IsFiniteSet(Of(R2, x))
    <3>1. Of(T, x) \subseteq Of(R2, x) /\ Of(R2, x) \subseteq R2
      BY <1>5 DEF Of
    <3> QED
      BY <1>8, <3>1, FS_Subset DEF Sound
  <2>4. /\ Cardinality(Of(T, x)) <= Cardinality(Of(R2, x))
        /\ Cardinality(Of(T, x)) \in Nat /\ Cardinality(Of(R2, x)) \in Nat
    BY <2>3, FS_Subset, FS_CardinalityType
  <2> QED
    BY <2>2, <2>4, Constants
<1> QED
  BY <1>3, <1>6, <1>9, <1>10, <1>11

\* So does making room.
LEMMA RoomIs ==
    ASSUME NEW R, Sound(R), NEW now \in Nat
    PROVE  LET T == RoomMade(R, now) IN
           /\ Sound(T) /\ Armed(T) \subseteq Armed(R)
           /\ \A r \in Armed(R) : r.address \notin Sensitive => r \in T
           /\ \A x \in Address : ArmedOf(R, x) = {} => Cardinality(Of(T, x)) <= MaxAttempts
<1> DEFINE C == Cleanup(R, now)
           T == Fitting(C, Footprint)
<1>1. /\ Sound(C) /\ Armed(C) \subseteq Armed(R)
      /\ \A r \in Armed(R) : r.address \notin Sensitive => r \in C
      /\ \A x \in Address : ArmedOf(R, x) = {} => Cardinality(Of(C, x)) <= MaxAttempts
  BY CleanupIs
<1>2. T \subseteq C /\ Armed(C) \subseteq T /\ T = RoomMade(R, now)
  BY DEF Fitting, Armed, RoomMade
<1> HIDE DEF C, T
<1>3. /\ Sound(T) /\ Armed(T) = Armed(C)
      /\ \A x \in Address : Cardinality(Of(T, x)) <= Cardinality(Of(C, x))
  BY <1>1, <1>2, SubsetIsSound DEF Armed
<1>4. \A x \in Address : Cardinality(Of(T, x)) \in Nat /\ Cardinality(Of(C, x)) \in Nat
  BY <1>1, <1>3, FS_Subset, FS_CardinalityType DEF Sound, Of
<1>5. \A x \in Address : ArmedOf(R, x) = {} => Cardinality(Of(T, x)) <= MaxAttempts
  BY <1>1, <1>3, <1>4, Constants
<1>6. \A r \in Armed(R) : r.address \notin Sensitive => r \in T
  BY <1>1, <1>2 DEF Armed
<1> QED
  BY <1>1, <1>2, <1>3, <1>5, <1>6


-----------------------------------------------------------------------------
(***************************************************************************)
(* Arming.                                                                 *)
(***************************************************************************)
LEMMA AttemptIs ==
    ASSUME NEW R, Sound(R), NEW x \in Address
    PROVE  Attempt(R, x) \in Nat \ {0}
<1> DEFINE N == {r.attempt : r \in Of(R, x)}
<1>1. R \subseteq Record /\ IsFiniteSet(Of(R, x))
  BY FS_Subset DEF Sound, Of
<1>2. CASE Of(R, x) = {}
  BY <1>2 DEF Attempt
<1>3. CASE Of(R, x) # {}
  <2>1. N \in SUBSET Nat /\ N # {}
    BY <1>1, <1>3 DEF Of, Record
  <2>2. IsFiniteSet(N)
    <3> DEFINE f == [r \in Of(R, x) |-> r.attempt]
    <3>1. f \in Surjection(Of(R, x), N)
      BY DEF Surjection
    <3> QED
      BY <1>1, <3>1, FS_Surjection
  <2>3. \E n \in N : \A m \in N : m <= n
    <3> HIDE DEF N
    <3> QED
      BY <2>1, <2>2, Greatest
  <2>4. \E n \in N : \A r \in Of(R, x) : r.attempt <= n
    BY <2>3
  <2>5. (CHOOSE n \in N : \A r \in Of(R, x) : r.attempt <= n) \in Nat
    BY <2>1, <2>4
  <2> QED
    BY <1>3, <2>5 DEF Attempt
<1> QED
  BY <1>2, <1>3

LEMMA ArmedAnewIs ==
    ASSUME NEW R, Sound(R), NEW x \in Address, NEW payload \in Content, NEW now \in Nat,
           ArmedOf(R, x) = {}, Cardinality(Of(R, x)) <= MaxAttempts, HasRoom(R),
           NEW before, Sound(before), NEW n, n = NewRecord(before, x, payload, now)
    PROVE  /\ Sound(R \cup {n}) /\ Armed(R \cup {n}) = Armed(R) \cup {n}
           /\ n.address = x /\ n.payload = payload /\ n.state = "armed"
<1> DEFINE T == R \cup {n}
<1>1. /\ n \in Record /\ n.address = x /\ n.payload = payload /\ n.state = "armed"
      /\ n.payload # NoPayload
  BY AttemptIs, Constants DEF NewRecord, Record, Lifecycle
<1>2. R \subseteq Record /\ IsFiniteSet(R)
  BY DEF Sound
<1>3. IsFiniteSet(T) /\ Cardinality(T) <= Cardinality(R) + 1
  <2>1. /\ IsFiniteSet(T) /\ Cardinality(R) \in Nat
        /\ Cardinality(T) = IF n \in R THEN Cardinality(R) ELSE Cardinality(R) + 1
    BY <1>2, FS_AddElement, FS_CardinalityType
  <2> HIDE DEF T
  <2> QED
    BY <2>1
<1>4. Armed(T) = Armed(R) \cup {n}
  BY <1>1 DEF Armed
<1>5. Single(T)
  BY <1>1, <1>4 DEF Sound, Single, ArmedOf, Of, Armed
<1>6. Used(T) <= MaxBytes
  <2> DEFINE P == {r \in R : r.payload # NoPayload}
  <2>1. {r \in T : r.payload # NoPayload} = P \cup {n}
    BY <1>1
  <2>2. IsFiniteSet(P)
    BY <1>2, FS_Subset
  <2> HIDE DEF P
  <2>3. Cardinality(P \cup {n}) <= Cardinality(P) + 1 /\ Cardinality(P \cup {n}) \in Nat
    <3>1. IsFiniteSet(P \cup {n})
      BY <2>2, FS_AddElement
    <3> QED
      BY <2>2, <3>1, FS_AddElement, FS_CardinalityType
  <2>4. /\ Cardinality(T) \in Nat /\ Cardinality(R) \in Nat /\ Cardinality(P) \in Nat
    BY <1>2, <1>3, <2>2, FS_CardinalityType
  <2>5. Used(T) = Cardinality(T) + Cardinality(P \cup {n})
    BY <2>1 DEF Used
  <2>6. Cardinality(R) + Cardinality(P) + 2 <= MaxBytes
    BY DEF HasRoom, Used, Footprint, P
  <2> HIDE DEF T
  <2> QED
    BY <1>3, <2>3, <2>4, <2>5, <2>6, Constants
<1>7. ASSUME NEW y \in Address
      PROVE  Cardinality(Of(T, y)) <= MaxAttempts + 1
  <2>1. IsFiniteSet(Of(R, y)) /\ Cardinality(Of(R, y)) <= MaxAttempts + 1
    BY <1>2, FS_Subset DEF Of, Sound
  <2>2. CASE y = x
    <3>1. Of(T, y) = Of(R, y) \cup {n}
      BY <1>1, <2>2 DEF Of
    <3>2. /\ Cardinality(Of(R, y) \cup {n}) <= Cardinality(Of(R, y)) + 1
          /\ Cardinality(Of(R, y)) \in Nat /\ IsFiniteSet(Of(R, y) \cup {n})
      <4> DEFINE Ry == Of(R, y)
      <4>1. IsFiniteSet(Ry)
        BY <2>1
      <4> HIDE DEF Ry
      <4>2. IsFiniteSet(Ry \cup {n}) /\ Cardinality(Ry) \in Nat
        BY <4>1, FS_AddElement, FS_CardinalityType
      <4>3. Cardinality(Ry \cup {n}) =
                IF n \in Ry THEN Cardinality(Ry) ELSE Cardinality(Ry) + 1
        BY <4>1, FS_AddElement
      <4>4. Cardinality(Ry \cup {n}) <= Cardinality(Ry) + 1
        BY <4>2, <4>3
      <4> QED
        BY <4>2, <4>4 DEF Ry
    <3>3. Cardinality(Of(R, y) \cup {n}) \in Nat
      BY <3>2, FS_CardinalityType
    <3>4. Cardinality(Of(R, y)) <= MaxAttempts
      BY <2>2
    <3> HIDE DEF T
    <3> QED
      BY <3>1, <3>2, <3>3, <3>4, Constants
  <2>3. CASE y # x
    <3>1. Of(T, y) = Of(R, y)
      BY <1>1, <2>3 DEF Of
    <3> QED
      BY <2>1, <3>1
  <2> QED
    BY <2>2, <2>3
<1>8. /\ T \subseteq Record
      /\ \A r \in T : r.state = "armed" <=> r.payload # NoPayload
  BY <1>1, <1>2 DEF Sound
<1> HIDE DEF T
<1>9. Sound(T)
  BY <1>3, <1>5, <1>6, <1>7, <1>8 DEF Sound
<1> QED
  BY <1>1, <1>4, <1>9 DEF T



-----------------------------------------------------------------------------
(***************************************************************************)
(* What the steps have in common.                                          *)
(***************************************************************************)

\* A store whose armed records are some of those before, the guarded ones among them,
\* restores what it did.
LEMMA StoreKept ==
    ASSUME NEW R, NEW T, Restores(R), Armed(T) \subseteq Armed(R),
           NEW G, \A r \in Armed(R) : r.address \in G => r \in Armed(T)
    PROVE  /\ Restores(T)
           /\ \A x \in G : ArmedOf(R, x) # {} => ArmedOf(T, x) # {}
BY DEF Restores, Armed, ArmedOf, Of

LEMMA LeftIs ==
    ASSUME left \in [faults : Nat, drifts : Nat], Fault \/ Works
    PROVE  left' \in [faults : Nat, drifts : Nat]
BY DEF Fault, Works

\* A step that ends the run, with a store fit for use and every guarded resource that is
\* half done under an armed record.
LEMMA OverIs ==
    ASSUME ApplyInv, Over,
           actual' \in [Address -> Content], known' \in Release \cup {0},
           Sound(records'), Restores(records'),
           \A x \in Guarded : actual'[x] = Broken => ArmedOf(records', x) # {},
           UNCHANGED <<server, clock>>, left' \in [faults : Nat, drifts : Nat]
    PROVE  ApplyInv'
<1>1. TypeOK'
  BY DEF ApplyInv, TypeOK, Over, Goto, server, Sound
<1>2. RecoverInv'
  BY DEF RecoverInv, Over, Goto
<1>3. RunInv'
  BY DEF RunInv, Over, Goto
<1> QED
  BY <1>1, <1>2, <1>3 DEF ApplyInv

\* A step that leaves the run alone, and the contents.
LEMMA RunKept ==
    ASSUME ApplyInv, UNCHANGED <<actual, run>>,
           {known', release'} \subseteq Release \cup {0}, release' \in Release,
           policy' = policy, leases' \subseteq Enforced,
           Sound(records'), Restores(records'),
           \A x \in Guarded : ArmedOf(records, x) # {} => ArmedOf(records', x) # {},
           clock' \in Nat, left' \in [faults : Nat, drifts : Nat]
    PROVE  ApplyInv'
<1>1. TypeOK'
  BY DEF ApplyInv, TypeOK, run, plan, progress, Sound
<1>2. RecoverInv'
  BY DEF ApplyInv, RecoverInv, run
<1>3. RunInv'
  BY DEF ApplyInv, RunInv, run, plan, progress, Found, DependenciesReady
<1> QED
  BY <1>1, <1>2, <1>3 DEF ApplyInv

LEMMA Stutter == ApplyInv /\ UNCHANGED vars => ApplyInv'
<1> SUFFICES ASSUME ApplyInv, UNCHANGED vars
             PROVE  ApplyInv'
  OBVIOUS
<1>1. UNCHANGED <<actual, run, records, server, known, clock, left>>
  BY DEF vars
<1> QED
  BY <1>1, RunKept DEF ApplyInv, TypeOK, server

LEMMA CleanStore ==
    ASSUME ApplyInv, records' = Cleanup(records, clock)
    PROVE  /\ Sound(records') /\ Restores(records')
           /\ \A x \in Guarded : ArmedOf(records, x) # {} => ArmedOf(records', x) # {}
<1>1. Sound(records) /\ Restores(records) /\ clock \in Nat
  BY DEF ApplyInv, TypeOK
<1>2. /\ Sound(records') /\ Armed(records') \subseteq Armed(records)
      /\ \A r \in Armed(records) : r.address \notin Sensitive => r \in records'
  BY <1>1, CleanupIs
<1>3. \A r \in Armed(records) : r.address \in Guarded => r \in Armed(records')
  BY <1>2 DEF Armed, Guarded
<1> QED
  BY <1>1, <1>2, <1>3, StoreKept

LEMMA ComplianceStep == ApplyInv /\ Compliance => ApplyInv'
<1> SUFFICES ASSUME ApplyInv, Compliance
             PROVE  ApplyInv'
  OBVIOUS
<1>1. UNCHANGED <<actual, run, server, known, clock, left>> /\ records' = Cleanup(records, clock)
  BY DEF Compliance
<1> QED
  BY <1>1, CleanStore, RunKept DEF ApplyInv, TypeOK, server

LEMMA AcceptAsIsStep == ApplyInv /\ AcceptAsIs => ApplyInv'
<1> SUFFICES ASSUME ApplyInv, AcceptAsIs
             PROVE  ApplyInv'
  OBVIOUS
<1>1. /\ UNCHANGED <<actual, run, server, clock, left>> /\ known' = release
      /\ records' = Cleanup(records, clock)
  BY DEF AcceptAsIs
<1> QED
  BY <1>1, CleanStore, RunKept DEF ApplyInv, TypeOK, server

LEMMA ServerStep ==
    ASSUME ApplyInv,
           NewRelease \/ Tick \/ \E x \in Address : Lease(x) \/ LeaseEnds(x)
    PROVE  ApplyInv'
<1>1. /\ UNCHANGED <<actual, run, records, policy, known, left>>
      /\ release' \in Release /\ leases' \subseteq Enforced /\ clock' \in Nat
  <2>1. CASE NewRelease
    <3>1. release \in 1..Cardinality(Release) /\ Release = 1..Cardinality(Release)
      BY EngineAssumption DEF ApplyInv, TypeOK, Release
    <3>2. Cardinality(Release) \in Nat
      BY EngineAssumption, FS_CardinalityType
    <3>3. release + 1 \in 1..Cardinality(Release)
      BY <2>1, <3>1, <3>2 DEF NewRelease
    <3> QED
      BY <2>1, <3>1, <3>3 DEF NewRelease, ApplyInv, TypeOK
  <2>2. CASE Tick
    BY <2>2 DEF Tick, server, ApplyInv, TypeOK
  <2>3. CASE \E x \in Address : Lease(x) \/ LeaseEnds(x)
    BY <2>3 DEF Lease, LeaseEnds, ApplyInv, TypeOK
  <2> QED
    BY <2>1, <2>2, <2>3
<1> QED
  BY <1>1, RunKept DEF ApplyInv, TypeOK


LEMMA DriftStep == ApplyInv /\ (\E x \in Address : Drift(x)) => ApplyInv'
<1> SUFFICES ASSUME ApplyInv, NEW x \in Address, Drift(x)
             PROVE  ApplyInv'
  OBVIOUS
<1>1. PICK content \in Content \ {Broken, actual[x]} : actual' = [actual EXCEPT ![x] = content]
  BY DEF Drift
<1>2. /\ actual' \in [Address -> Content] /\ actual'[x] # Broken
      /\ \A y \in Address : y # x => actual'[y] = actual[y]
  BY <1>1 DEF ApplyInv, TypeOK
<1>3. /\ UNCHANGED <<records, server, known, pc, current, target, drifted, unknown, progress,
                     clock>>
      /\ left' = [left EXCEPT !.drifts = @ - 1] /\ left.drifts > 0
      /\ disturbed' = IF pc = "idle" THEN {} ELSE disturbed \cup {x}
  BY DEF Drift
<1>4. left' \in [faults : Nat, drifts : Nat]
  BY <1>3 DEF ApplyInv, TypeOK
<1>5. TypeOK'
  BY <1>2, <1>3, <1>4 DEF ApplyInv, TypeOK, server, progress
<1>6. RecoverInv'
  BY <1>2, <1>3, Constants DEF ApplyInv, TypeOK, RecoverInv
<1>7. RunInv'
  <2>1. CASE pc = "idle"
    BY <1>3, <2>1 DEF ApplyInv, RunInv, progress
  <2>2. CASE pc # "idle"
    <3>1. disturbed' = disturbed \cup {x}
      BY <1>3, <2>2
    <3>2. Found' = Found /\ Found \subseteq Address /\ applied \subseteq Address
      BY <1>3 DEF Found, ApplyInv, TypeOK
    <3>3. \A y \in applied \cup Found : actual'[y] = Desired[target][y] \/ y \in disturbed'
      BY <1>2, <2>2, <3>1, <3>2 DEF ApplyInv, RunInv
    <3>4. DependenciesReady(current)' <=> DependenciesReady(current)
      BY <1>3 DEF DependenciesReady, progress
    <3> QED
      BY <1>3, <2>2, <3>2, <3>3, <3>4 DEF ApplyInv, RunInv, progress
  <2> QED
    BY <2>1, <2>2
<1> QED
  BY <1>3, <1>5, <1>6, <1>7 DEF ApplyInv

-----------------------------------------------------------------------------
(***************************************************************************)
(* How a run ends.                                                         *)
(***************************************************************************)

\* A step that ends the run and touches nothing but what the agent says it has.
LEMMA OverOnly ==
    ASSUME ApplyInv, Over, UNCHANGED <<actual, records, server, clock>>,
           known' \in Release \cup {0}, Fault \/ Works
    PROVE  ApplyInv'
<1>1. left' \in [faults : Nat, drifts : Nat]
  BY LeftIs DEF ApplyInv, TypeOK
<1> QED
  BY <1>1, OverIs DEF ApplyInv, TypeOK, RecoverInv

LEMMA EndingStep ==
    ASSUME ApplyInv, Crash \/ Finish \/ \E x \in Address : Blocked(x)
    PROVE  ApplyInv'
<1>1. /\ Over /\ UNCHANGED <<actual, records, server, clock>> /\ (Fault \/ Works)
      /\ known' \in {0, known, target}
  BY DEF Crash, Finish, Blocked, Works
<1>2. known' \in Release \cup {0}
  BY <1>1 DEF ApplyInv, TypeOK
<1> QED
  BY <1>1, <1>2, OverOnly

LEMMA ActivateStep == ApplyInv /\ Activate => ApplyInv'
<1> SUFFICES ASSUME ApplyInv, Activate
             PROVE  ApplyInv'
  OBVIOUS
<1>1. UNCHANGED <<actual, records, server, known, clock>> /\ Walked
  BY DEF Activate
<1>2. CASE Fault /\ Over
  BY <1>1, <1>2, OverOnly DEF ApplyInv, TypeOK
<1>3. CASE /\ UNCHANGED <<pc, current, plan, visited, applied, left>>
           /\ signals' \subseteq signals
  <2>1. TypeOK'
    BY <1>1, <1>3 DEF ApplyInv, TypeOK, server, plan
  <2>2. RecoverInv'
    BY <1>1, <1>3 DEF ApplyInv, RecoverInv
  <2>3. RunInv'
    BY <1>1, <1>3 DEF ApplyInv, RunInv, plan, Walked, Found, DependenciesReady
  <2> QED
    BY <1>1, <2>1, <2>2, <2>3 DEF ApplyInv
<1> QED
  BY <1>2, <1>3 DEF Activate, Works

\* Ending armed records of one address leaves the others.
LEMMA OthersStay ==
    ASSUME NEW R, NEW T, NEW x, NEW E, Restores(R), Armed(T) = Armed(R) \ E,
           E \subseteq ArmedOf(R, x)
    PROVE  /\ Restores(T)
           /\ \A y \in Guarded : y # x /\ ArmedOf(R, y) # {} => ArmedOf(T, y) # {}
BY DEF Restores, Armed, ArmedOf, Of

LEMMA NothingToRestoreStep == ApplyInv /\ NothingToRestore => ApplyInv'
<1> SUFFICES ASSUME ApplyInv, NothingToRestore
             PROVE  ApplyInv'
  OBVIOUS
<1> DEFINE E == ArmedOf(records, current)
<1>1. /\ Over /\ UNCHANGED <<actual, server, known, clock, left>>
      /\ records' = EndAll(records, E, "expired")
      /\ \A r \in E : r.address = current /\ r.address \in Sensitive
  BY DEF NothingToRestore, EndAll, Expired, ArmedOf, Of
<1>2. "expired" \in Lifecycle \ {"armed"}
  BY DEF Lifecycle
<1>3. Sound(records) /\ Restores(records)
  BY DEF ApplyInv
<1>4. Sound(records') /\ Armed(records') = Armed(records) \ E
  <2> HIDE DEF E
  <2> QED
    BY <1>1, <1>2, <1>3, EndedIsSound
<1>5. /\ Restores(records')
      /\ \A y \in Guarded : y # current /\ ArmedOf(records, y) # {} => ArmedOf(records', y) # {}
  BY <1>3, <1>4, OthersStay
<1>6. current \in Guarded => E = {}
  BY <1>1 DEF Guarded
<1>7. \A y \in Guarded : actual'[y] = Broken => ArmedOf(records', y) # {}
  BY <1>1, <1>5, <1>6 DEF ApplyInv, RecoverInv
<1> QED
  BY <1>1, <1>4, <1>5, <1>7, OverIs DEF ApplyInv, TypeOK

LEMMA MarkRolledBackStep == ApplyInv /\ MarkRolledBack => ApplyInv'
<1> SUFFICES ASSUME ApplyInv, MarkRolledBack
             PROVE  ApplyInv'
  OBVIOUS
<1>1. Over /\ UNCHANGED <<actual, server, known, clock>> /\ pc = "mark"
  BY DEF MarkRolledBack
<1>2. CASE Fault /\ UNCHANGED records
  BY <1>1, <1>2, OverOnly DEF ApplyInv, TypeOK
<1>3. ASSUME NEW r \in ArmedOf(records, current), Works,
             records' = (records \ {r}) \cup {Ended(r, "rolled-back")}
      PROVE  ApplyInv'
  <2>1. r \in records /\ r.address = current /\ {r} \subseteq ArmedOf(records, current)
    BY <1>3 DEF ArmedOf, Of
  <2>2. records' = EndAll(records, {r}, "rolled-back")
    BY <1>3, <2>1 DEF EndAll
  <2>3. "rolled-back" \in Lifecycle \ {"armed"}
    BY DEF Lifecycle
  <2>4. Sound(records) /\ Restores(records)
    BY DEF ApplyInv
  <2>5. Sound(records') /\ Armed(records') = Armed(records) \ {r}
    BY <2>2, <2>3, <2>4, EndedIsSound
  <2>6. /\ Restores(records')
        /\ \A y \in Guarded : y # current /\ ArmedOf(records, y) # {} => ArmedOf(records', y) # {}
    <3> DEFINE E == {r}
    <3>1. E \subseteq ArmedOf(records, current) /\ Armed(records') = Armed(records) \ E
      BY <2>1, <2>5
    <3> HIDE DEF E
    <3> QED
      BY <2>4, <3>1, OthersStay
  <2>7. \A y \in Guarded : actual'[y] = Broken => ArmedOf(records', y) # {}
    BY <1>1, <2>6 DEF ApplyInv, RecoverInv
  <2>8. left' \in [faults : Nat, drifts : Nat]
    BY <1>3, LeftIs DEF ApplyInv, TypeOK
  <2> QED
    BY <1>1, <2>5, <2>6, <2>7, <2>8, OverIs DEF ApplyInv, TypeOK
<1> QED
  BY <1>2, <1>3 DEF MarkRolledBack

LEMMA RestoreStep == ApplyInv /\ Restore => ApplyInv'
<1> SUFFICES ASSUME ApplyInv, NEW r \in ArmedOf(records, current),
                    pc = "revert", UNCHANGED <<records, server, known, clock>>,
                    \/ /\ Works
                       /\ actual' = [actual EXCEPT ![current] = r.payload]
                       /\ pc' = "mark"
                       /\ UNCHANGED <<current, plan, progress>>
                    \/ Fault /\ Over /\ actual' \in {actual, [actual EXCEPT ![current] = Broken]}
             PROVE  ApplyInv'
  BY DEF Restore
<1>1. /\ r \in Armed(records) /\ r \in Record /\ r.address = current /\ current \in Address
      /\ r.payload \in Content
  <2>1. r \in records /\ r.state = "armed" /\ r.address = current
    BY DEF ArmedOf, Of
  <2> QED
    BY <2>1 DEF Armed, ApplyInv, Sound, Record
<1>2. left' \in [faults : Nat, drifts : Nat]
  BY LeftIs DEF ApplyInv, TypeOK
<1>3. CASE Fault /\ Over /\ actual' \in {actual, [actual EXCEPT ![current] = Broken]}
  <2>1. /\ actual' \in [Address -> Content]
        /\ \A y \in Address : y # current => actual'[y] = actual[y]
    BY <1>1, <1>3, Constants DEF ApplyInv, TypeOK
  <2>2. \A y \in Guarded : actual'[y] = Broken => ArmedOf(records', y) # {}
    BY <2>1, Constants DEF ApplyInv, RecoverInv
  <2>3. Sound(records') /\ Restores(records') /\ known' \in Release \cup {0}
    BY DEF ApplyInv, TypeOK
  <2> QED
    BY <1>2, <1>3, <2>1, <2>2, <2>3, OverIs
<1>4. CASE /\ Works
           /\ actual' = [actual EXCEPT ![current] = r.payload]
           /\ pc' = "mark"
           /\ UNCHANGED <<current, plan, progress>>
  <2>1. /\ actual' \in [Address -> Content] /\ actual'[current] = r.payload
        /\ \A y \in Address : y # current => actual'[y] = actual[y]
    BY <1>1, <1>4 DEF ApplyInv, TypeOK
  <2>2. TypeOK'
    BY <1>2, <1>4, <2>1 DEF ApplyInv, TypeOK, server, plan, progress
  <2>3. RecoverInv'
    <3>1. current \in Guarded => r.payload # Broken
      BY <1>1 DEF ApplyInv, Restores, Guarded
    <3> QED
      BY <1>4, <2>1, <3>1, Constants DEF ApplyInv, RecoverInv
  <2>4. RunInv'
    <3>1. current \in drifted \ visited /\ applied \subseteq visited
      BY DEF ApplyInv, RunInv, TypeOK
    <3>2. current \notin applied \cup Found /\ applied \cup Found \subseteq Address
      BY <3>1 DEF Found, ApplyInv, TypeOK
    <3>3. \A y \in applied \cup Found : actual'[y] = actual[y]
      BY <2>1, <3>2
    <3> QED
      BY <1>4, <3>3 DEF ApplyInv, RunInv, plan, progress, Found, DependenciesReady
  <2> QED
    BY <2>2, <2>3, <2>4 DEF ApplyInv
<1> QED
  BY <1>3, <1>4


-----------------------------------------------------------------------------
(***************************************************************************)
(* Checking and walking.                                                   *)
(***************************************************************************)
LEMMA StartRunStep == ApplyInv /\ StartRun => ApplyInv'
<1> SUFFICES ASSUME ApplyInv, StartRun
             PROVE  ApplyInv'
  OBVIOUS
<1>1. /\ pc = "idle" /\ pc' = "walk" /\ records' = Cleanup(records, clock)
      /\ target' = release /\ drifted' = Off \ unknown' /\ unknown' \subseteq Address
      /\ UNCHANGED <<actual, server, known, current, disturbed, progress, clock>>
      /\ (Fault \/ Works)
  BY DEF StartRun, Delivered
<1>2. left' \in [faults : Nat, drifts : Nat]
  BY <1>1, LeftIs DEF ApplyInv, TypeOK
<1>3. /\ Sound(records') /\ Restores(records')
      /\ \A x \in Guarded : ArmedOf(records, x) # {} => ArmedOf(records', x) # {}
  BY <1>1, CleanStore
<1>4. TypeOK'
  BY <1>1, <1>2, <1>3 DEF ApplyInv, TypeOK, server, progress, Sound, Off
<1>5. RecoverInv'
  BY <1>1, <1>3 DEF ApplyInv, RecoverInv
<1>6. RunInv'
  <2>1. visited' = {} /\ applied' = {} /\ target' \in Release
    BY <1>1 DEF ApplyInv, RunInv, progress, TypeOK
  <2>2. \A x \in Found' : actual'[x] = Desired[target'][x]
    BY <1>1 DEF Found, Off
  <2> QED
    BY <1>1, <2>1, <2>2 DEF RunInv
<1> QED
  BY <1>3, <1>4, <1>5, <1>6 DEF ApplyInv

\* What the walk does not change but the place it has come to.
LEMMA UpNextIs ==
    ASSUME ApplyInv, NEW x \in Address, UpNext(x)
    PROVE  /\ pc = "walk" /\ x \notin visited
           /\ DependsOn[x] \subseteq visited /\ DependsOn[x] \subseteq Address
BY EngineAssumption DEF UpNext

\* A skipped resource has an excuse, or one that it depends on was left.
LEMMA SkipStep == ApplyInv /\ (\E x \in Address : Skip(x)) => ApplyInv'
<1> SUFFICES ASSUME ApplyInv, NEW x \in Address, Skip(x)
             PROVE  ApplyInv'
  OBVIOUS
<1>1. /\ UpNext(x) /\ ~Due(x) /\ visited' = visited \cup {x}
      /\ UNCHANGED <<actual, records, server, known, pc, current, plan, applied, signals,
                     clock, left>>
  BY DEF Skip
<1>2. /\ pc = "walk" /\ x \notin visited
      /\ DependsOn[x] \subseteq visited /\ DependsOn[x] \subseteq Address
  BY <1>1, UpNextIs
<1>3. TypeOK'
  BY <1>1 DEF ApplyInv, TypeOK, server, plan
<1>4. RecoverInv'
  BY <1>1 DEF ApplyInv, RecoverInv
<1>5. RunInv'
  <2> DEFINE Open == (visited \ applied) \ Found
  <2>1. Found' = Found /\ applied' = applied
    BY <1>1 DEF Found, plan
  <2>2. ((visited \ applied) \ Found)' \subseteq Open \cup {x} /\ Open \subseteq ((visited \ applied) \ Found)'
    BY <1>1, <2>1
  <2>3. x \notin Found => \/ x \in unknown \cup Unenforced \cup Deferring
                          \/ \E d \in DependsOn[x] : d \in Open
    <3> SUFFICES ASSUME x \notin Found, x \notin unknown \cup Unenforced
                 PROVE  \E d \in DependsOn[x] : d \in Open
      OBVIOUS
    <3>1. x \in drifted \ Unenforced
      BY DEF Found
    <3>2. ~DependenciesReady(x)
      BY <1>1, <3>1 DEF Due
    <3> QED
      BY <1>2, <3>2 DEF DependenciesReady, Found
  <2>4. UNCHANGED <<pc, target, drifted, unknown, disturbed, actual>>
    BY <1>1 DEF plan
  <2>5. \A y \in ((visited \ applied) \ Found)' :
            \/ y \in unknown \cup Unenforced \cup Deferring
            \/ \E d \in DependsOn[y] : d \in ((visited \ applied) \ Found)'
    <3>1. \A y \in Open : \/ y \in unknown \cup Unenforced \cup Deferring
                          \/ \E d \in DependsOn[y] : d \in Open
      BY <1>2 DEF ApplyInv, RunInv
    <3> QED
      BY <2>1, <2>2, <2>3, <3>1
  <2>6. /\ target \in Release
        /\ \A y \in applied \cup Found : actual[y] = Desired[target][y] \/ y \in disturbed
    BY <1>2 DEF ApplyInv, RunInv
  <2> HIDE DEF Open
  <2> QED
    BY <1>2, <2>1, <2>4, <2>5, <2>6 DEF RunInv
<1> QED
  BY <1>1, <1>3, <1>4, <1>5 DEF ApplyInv

\* What is left of a run when one more resource was applied, or set for later.
LEMMA VisitedIs ==
    ASSUME ApplyInv, pc # "idle", pc' = "walk", NEW x \in drifted \ visited,
           UNCHANGED <<target, drifted, unknown, disturbed>>,
           visited' = visited \cup {x},
           applied' = applied \cup {x} \/ (x \in Deferring /\ applied' = applied),
           actual'[x] = Desired[target][x],
           \A y \in Address : y # x => actual'[y] = actual[y]
    PROVE  RunInv'
<1>1. Found' = Found /\ applied \cup Found \subseteq Address
  BY DEF Found, ApplyInv, TypeOK
<1>2. \A y \in (applied \cup Found)' : actual'[y] = Desired[target][y] \/ y \in disturbed
  BY <1>1 DEF ApplyInv, RunInv
<1>3. \A y \in ((visited \ applied) \ Found)' :
          \/ y \in unknown \cup Unenforced \cup Deferring
          \/ \E d \in DependsOn[y] : d \in ((visited \ applied) \ Found)'
  <2> DEFINE Open == (visited \ applied) \ Found
  <2>1. Open \subseteq ((visited \ applied) \ Found)'
    BY <1>1
  <2>2. \A y \in ((visited \ applied) \ Found)' : y \in Open \/ y \in Deferring
    BY <1>1
  <2>3. \A y \in Open : \/ y \in unknown \cup Unenforced \cup Deferring
                        \/ \E d \in DependsOn[y] : d \in Open
    BY DEF ApplyInv, RunInv
  <2> QED
    BY <2>1, <2>2, <2>3
<1>4. target \in Release
  BY DEF ApplyInv, RunInv
<1> QED
  BY <1>1, <1>2, <1>3, <1>4 DEF RunInv

LEMMA AlreadyMetStep == ApplyInv /\ (\E x \in Address : AlreadyMet(x)) => ApplyInv'
<1> SUFFICES ASSUME ApplyInv, NEW x \in Address, AlreadyMet(x)
             PROVE  ApplyInv'
  OBVIOUS
<1>1. /\ Due(x) /\ actual[x] = Desired[target][x]
      /\ visited' = visited \cup {x} /\ applied' = applied \cup {x}
      /\ UNCHANGED <<actual, records, server, known, pc, current, plan, signals, clock, left>>
  BY DEF AlreadyMet
<1>2. pc = "walk" /\ x \in drifted \ visited
  BY <1>1 DEF Due, UpNext
<1>3. TypeOK'
  BY <1>1 DEF ApplyInv, TypeOK, server, plan
<1>4. RecoverInv'
  BY <1>1 DEF ApplyInv, RecoverInv
<1>5. RunInv'
  BY <1>1, <1>2, VisitedIs DEF plan
<1> QED
  BY <1>1, <1>3, <1>4, <1>5 DEF ApplyInv


\* A failed or a successful attempt to arm a record: room was made, and the guarded resource
\* that goes on to its change has one.
LEMMA ArmIs ==
    ASSUME ApplyInv, NEW x \in Protected, Due(x), Arm(x)
    PROVE  /\ Sound(records') /\ Restores(records') /\ (Fault \/ Works)
           /\ \A y \in Guarded : ArmedOf(records, y) # {} => ArmedOf(records', y) # {}
           /\ current' = x /\ pc' \in {"change", "revert"}
           /\ pc' = "change" => ArmedOf(records', x) # {}
<1>1. Sound(records) /\ Restores(records) /\ clock \in Nat /\ actual \in [Address -> Content]
  BY DEF ApplyInv, TypeOK
<1>2. CASE ~Armable(records, x) /\ UNCHANGED records /\ Works /\ Goto("revert", x)
  BY <1>1, <1>2 DEF Goto
<1>3. ASSUME Armable(records, x), NEW room, room = RoomMade(records, clock),
             NEW armed, armed = room \cup {NewRecord(records, x, actual[x], clock)},
             \/ HasRoom(room) /\ records' = armed /\ Works /\ Goto("change", x)
             \/ /\ records' = room
                /\ IF HasRoom(room) THEN Fault ELSE Works
                /\ Goto("revert", x)
             \/ HasRoom(room) /\ records' = armed /\ Fault /\ Goto("revert", x)
      PROVE  /\ Sound(records') /\ Restores(records') /\ (Fault \/ Works)
             /\ \A y \in Guarded : ArmedOf(records, y) # {} => ArmedOf(records', y) # {}
             /\ current' = x /\ pc' \in {"change", "revert"}
             /\ pc' = "change" => ArmedOf(records', x) # {}
  <2>1. x \in Address /\ ArmedOf(records, x) = {}
    BY <1>3, EngineAssumption DEF Armable
  <2>2. /\ Sound(room) /\ Armed(room) \subseteq Armed(records)
        /\ \A r \in Armed(records) : r.address \notin Sensitive => r \in room
        /\ Cardinality(Of(room, x)) <= MaxAttempts
    BY <1>1, <1>3, <2>1, RoomIs
  <2>3. /\ Restores(room)
        /\ \A y \in Guarded : ArmedOf(records, y) # {} => ArmedOf(room, y) # {}
    <3>1. \A r \in Armed(records) : r.address \in Guarded => r \in Armed(room)
      BY <2>2 DEF Armed, Guarded
    <3> QED
      BY <1>1, <2>2, <3>1, StoreKept
  <2>4. CASE records' = room
    <3>1. Fault \/ Works
      BY <1>3
    <3>2. current' = x /\ pc' \in {"change", "revert"}
      BY <1>3 DEF Goto
    <3>3. pc' = "change" => HasRoom(room) /\ records' = armed
      BY <1>3 DEF Goto
    <3>4. records' # armed
      <4>1. ArmedOf(room, x) = {}
        BY <2>1, <2>2 DEF ArmedOf, Of, Armed
      <4>2. NewRecord(records, x, actual[x], clock) \notin room
        BY <4>1 DEF NewRecord, ArmedOf, Of
      <4> QED
        BY <1>3, <2>4, <4>2
    <3> QED
      BY <2>2, <2>3, <2>4, <3>1, <3>2, <3>3, <3>4
  <2>5. CASE HasRoom(room) /\ records' = armed
    <3> DEFINE n == NewRecord(records, x, actual[x], clock)
    <3>1. ArmedOf(room, x) = {} /\ actual[x] \in Content
      BY <1>1, <2>1, <2>2 DEF ArmedOf, Of, Armed
    <3>2. /\ Sound(room \cup {n}) /\ Armed(room \cup {n}) = Armed(room) \cup {n}
          /\ n.address = x /\ n.payload = actual[x] /\ n.state = "armed"
      <4> DEFINE p == actual[x]
      <4>1. p \in Content /\ n = NewRecord(records, x, p, clock)
        BY <3>1
      <4>2. HasRoom(room)
        BY <2>5
      <4> HIDE DEF p, n
      <4>3. /\ Sound(room \cup {n}) /\ Armed(room \cup {n}) = Armed(room) \cup {n}
            /\ n.address = x /\ n.payload = p /\ n.state = "armed"
        <5>1. /\ Sound(room) /\ Sound(records) /\ x \in Address /\ p \in Content
              /\ clock \in Nat /\ ArmedOf(room, x) = {} /\ HasRoom(room)
              /\ Cardinality(Of(room, x)) <= MaxAttempts
              /\ n = NewRecord(records, x, p, clock)
          BY <1>1, <2>1, <2>2, <3>1, <4>1, <4>2
        <5>2. Sound(room \cup {n})
          BY <5>1, ArmedAnewIs
        <5>3. Armed(room \cup {n}) = Armed(room) \cup {n}
          BY <5>1, ArmedAnewIs
        <5>4. n.address = x /\ n.payload = p /\ n.state = "armed"
          BY <5>1 DEF NewRecord
        <5> QED
          BY <5>2, <5>3, <5>4
      <4> QED
        BY <4>3 DEF p
    <3> HIDE DEF n
    <3>3. records' = room \cup {n}
      BY <1>3, <2>5 DEF n
    <3>4. x \in Guarded => actual[x] # Broken
      BY <2>1 DEF ApplyInv, RecoverInv
    <3>5. Restores(records')
      BY <2>3, <3>2, <3>3, <3>4 DEF Restores, Guarded
    <3>6. /\ \A y \in Guarded : ArmedOf(records, y) # {} => ArmedOf(records', y) # {}
          /\ ArmedOf(records', x) # {}
      BY <2>3, <3>2, <3>3 DEF ArmedOf, Of
    <3>7. /\ Fault \/ Works
          /\ current' = x /\ pc' \in {"change", "revert"}
      BY <1>3 DEF Goto
    <3> QED
      BY <3>2, <3>3, <3>5, <3>6, <3>7
  <2> QED
    BY <1>3, <2>4, <2>5
<1>4. CASE Armable(records, x)
  <2> DEFINE room == RoomMade(records, clock)
             armed == room \cup {NewRecord(records, x, actual[x], clock)}
  <2>1. CASE Armable(records, x) /\ Arm(x)
    <3>1. \/ HasRoom(room) /\ records' = armed /\ Works /\ Goto("change", x)
          \/ /\ records' = room
             /\ IF HasRoom(room) THEN Fault ELSE Works
             /\ Goto("revert", x)
          \/ HasRoom(room) /\ records' = armed /\ Fault /\ Goto("revert", x)
      BY <2>1, Zenon DEF Arm
    <3> HIDE DEF room, armed
    <3>2. room = RoomMade(records, clock)
      BY DEF room
    <3>3. armed = room \cup {NewRecord(records, x, actual[x], clock)}
      BY DEF armed, room
    <3> QED
      BY <1>3, <1>4, <3>1, <3>2, <3>3
  <2> QED
    BY <1>4, <2>1
<1>5. CASE ~Armable(records, x)
  BY <1>2, <1>5 DEF Arm
<1> QED
  BY <1>4, <1>5

LEMMA BeginStep == ApplyInv /\ (\E x \in Address : Begin(x)) => ApplyInv'
<1> SUFFICES ASSUME ApplyInv, NEW x \in Address, Begin(x)
             PROVE  ApplyInv'
  OBVIOUS
<1>1. /\ Due(x) /\ UNCHANGED <<actual, server, known, plan, progress, clock>>
      /\ IF x \in Protected THEN Arm(x) ELSE UNCHANGED records /\ Works /\ Goto("change", x)
  BY DEF Begin
<1>2. pc = "walk" /\ x \in drifted \ visited /\ DependenciesReady(x)
  BY <1>1 DEF Due, UpNext
<1>3. /\ Sound(records') /\ Restores(records') /\ (Fault \/ Works)
      /\ \A y \in Guarded : ArmedOf(records, y) # {} => ArmedOf(records', y) # {}
      /\ current' = x /\ pc' \in {"change", "revert"}
      /\ pc' = "change" /\ x \in Guarded => ArmedOf(records', x) # {}
  <2>1. CASE x \in Protected
    BY <1>1, <2>1, ArmIs
  <2>2. CASE x \notin Protected
    BY <1>1, <2>2 DEF Goto, Guarded, ApplyInv
  <2> QED
    BY <2>1, <2>2
<1>4. left' \in [faults : Nat, drifts : Nat]
  BY <1>3, LeftIs DEF ApplyInv, TypeOK
<1>5. TypeOK'
  BY <1>1, <1>3, <1>4, Constants DEF ApplyInv, TypeOK, server, plan, progress, Sound
<1>6. RecoverInv'
  BY <1>1, <1>3 DEF ApplyInv, RecoverInv
<1>7. RunInv'
  <2>1. DependenciesReady(x)'
    BY <1>1, <1>2 DEF DependenciesReady, plan, progress
  <2>2. DependenciesReady(current)'
    BY <1>1, <1>2, <1>3 DEF DependenciesReady, plan, progress
  <2> QED
    BY <1>1, <1>2, <1>3, <2>2 DEF ApplyInv, RunInv, plan, progress, Found
<1> QED
  BY <1>3, <1>5, <1>6, <1>7 DEF ApplyInv

LEMMA ChangeStep == ApplyInv /\ Change => ApplyInv'
<1> SUFFICES ASSUME ApplyInv, Change
             PROVE  ApplyInv'
  OBVIOUS
<1>1. /\ pc = "change" /\ UNCHANGED <<server, known, plan, clock>> /\ (Fault \/ Works)
  BY DEF Change
<1>2. /\ current \in Address /\ current \in drifted \ visited /\ DependenciesReady(current)
      /\ target \in Release
      /\ current \in Guarded => ArmedOf(records, current) # {}
      /\ Sound(records) /\ Restores(records) /\ actual \in [Address -> Content]
  BY <1>1 DEF ApplyInv, TypeOK, RunInv, RecoverInv
<1>3. left' \in [faults : Nat, drifts : Nat]
  BY <1>1, LeftIs DEF ApplyInv, TypeOK
<1>4. CASE /\ actual' = [actual EXCEPT ![current] = Desired[target][current]]
           /\ records' = IF current \in Acknowledging
                         THEN EndAll(records, ArmedOf(records, current), "acknowledged")
                         ELSE records
           /\ visited' = visited \cup {current}
           /\ applied' = IF current \in Deferring THEN applied ELSE applied \cup {current}
           /\ signals' = signals \cup Activates[current]
           /\ Goto("walk", 0)
  <2>1. Desired[target][current] \in Content \ {Broken} /\ Activates[current] \subseteq Nat
    <3>1. Release = 1..Cardinality(Release)
      BY EngineAssumption DEF Release
    <3> QED
      <4>1. Desired[target] \in [Address -> Content \ {Broken}]
        BY <1>2, <3>1, EngineAssumption
      <4>2. Activates[current] \in SUBSET Nat
        BY <1>2, EngineAssumption
      <4> QED
        BY <1>2, <4>1, <4>2
  <2>2. /\ actual' \in [Address -> Content] /\ actual'[current] = Desired[target][current]
        /\ \A y \in Address : y # current => actual'[y] = actual[y]
    BY <1>2, <1>4, <2>1
  <2>3. /\ Sound(records') /\ Restores(records')
        /\ \A y \in Guarded : y # current /\ ArmedOf(records, y) # {}
                                 => ArmedOf(records', y) # {}
    <3>1. CASE current \in Acknowledging
      <4> DEFINE E == ArmedOf(records, current)
      <4>1. "acknowledged" \in Lifecycle \ {"armed"}
        BY DEF Lifecycle
      <4>2. records' = EndAll(records, E, "acknowledged")
        BY <1>4, <3>1
      <4>3. Sound(records') /\ Armed(records') = Armed(records) \ E
        <5> HIDE DEF E
        <5> QED
          BY <1>2, <4>1, <4>2, EndedIsSound
      <4> QED
        BY <1>2, <4>3, OthersStay
    <3>2. CASE current \notin Acknowledging
      BY <1>2, <1>4, <3>2
    <3> QED
      BY <3>1, <3>2
  <2>4. TypeOK'
    <3>1. applied' \subseteq visited' /\ visited' \subseteq Address /\ signals' \subseteq Nat
      BY <1>2, <1>4, <2>1 DEF ApplyInv, TypeOK
    <3> QED
      BY <1>1, <1>3, <1>4, <2>2, <2>3, <3>1 DEF ApplyInv, TypeOK, server, plan, Goto, Sound
  <2>5. RecoverInv'
    BY <1>4, <2>1, <2>2, <2>3, Constants DEF ApplyInv, RecoverInv, Goto
  <2>6. RunInv'
    <3>1. applied' = applied \cup {current} \/ (current \in Deferring /\ applied' = applied)
      BY <1>4
    <3> QED
      BY <1>1, <1>2, <1>4, <2>2, <3>1, VisitedIs DEF plan, Goto
  <2> QED
    BY <2>3, <2>4, <2>5, <2>6 DEF ApplyInv
<1>5. CASE /\ actual' \in {actual, [actual EXCEPT ![current] = Broken]}
           /\ Goto("revert", current)
           /\ UNCHANGED <<records, progress>>
  <2>1. /\ actual' \in [Address -> Content]
        /\ \A y \in Address : y # current => actual'[y] = actual[y]
    BY <1>2, <1>5, Constants
  <2>2. TypeOK'
    BY <1>1, <1>2, <1>3, <1>5, <2>1, Constants
       DEF ApplyInv, TypeOK, server, plan, progress, Goto
  <2>3. RecoverInv'
    BY <1>2, <1>5, <2>1, Constants DEF ApplyInv, RecoverInv, Goto
  <2>4. RunInv'
    <3>1. current \notin applied \cup Found /\ applied \cup Found \subseteq Address
      BY <1>2 DEF Found, ApplyInv, TypeOK
    <3>2. \A y \in applied \cup Found : actual'[y] = actual[y]
      BY <2>1, <3>1
    <3> QED
      BY <1>1, <1>5, <3>2 DEF ApplyInv, RunInv, plan, progress, Found, DependenciesReady, Goto
  <2> QED
    BY <1>2, <1>5, <2>2, <2>3, <2>4 DEF ApplyInv
<1> QED
  BY <1>4, <1>5 DEF Change, EndAll



-----------------------------------------------------------------------------
(***************************************************************************)
(* What always holds.                                                      *)
(***************************************************************************)
LEMMA InitIs == Init => ApplyInv
<1> SUFFICES ASSUME Init
             PROVE  ApplyInv
  OBVIOUS
<1>1. Cardinality({}) = 0 /\ IsFiniteSet({})
  BY FS_EmptySet
<1>2. /\ records = {} /\ {r \in records : r.payload # NoPayload} = {}
      /\ \A x \in Address : Of(records, x) = {}
  BY DEF Init, Of
<1>3. Sound(records)
  <2>1. Used(records) = 0
    BY <1>1, <1>2 DEF Used
  <2>2. \A x \in Address : Cardinality(Of(records, x)) = 0
    BY <1>1, <1>2
  <2> QED
    BY <1>1, <1>2, <2>1, <2>2, Constants DEF Sound, Single, Armed
<1>4. Restores(records)
  BY <1>2 DEF Restores, Armed
<1>5. TypeOK
  <2>1. Address \subseteq Nat \ {0} /\ 1 \in Release
    BY StoreAssumption, EngineAssumption
  <2>2. actual \in [Address -> Content] /\ left \in [faults : Nat, drifts : Nat]
    BY EngineAssumption DEF Init
  <2> QED
    BY <1>2, <2>1, <2>2 DEF Init, TypeOK
<1>6. RecoverInv
  <2>1. \A x \in Guarded : actual[x] # Broken
    BY EngineAssumption, Constants DEF Init
  <2> QED
    BY <2>1 DEF Init, RecoverInv
<1>7. RunInv
  BY DEF Init, RunInv
<1> QED
  BY <1>3, <1>4, <1>5, <1>6, <1>7 DEF ApplyInv

LEMMA NextIs == ApplyInv /\ [Next]_vars => ApplyInv'
BY Stutter, ComplianceStep, AcceptAsIsStep, ServerStep, DriftStep, EndingStep, ActivateStep,
   NothingToRestoreStep, MarkRolledBackStep, RestoreStep, StartRunStep, SkipStep,
   AlreadyMetStep, BeginStep, ChangeStep DEF Next, RunStep

LEMMA ApplyCorrect == Spec => []ApplyInv
BY InitIs, NextIs, PTL DEF Spec

\* The rollback store is fit for use after every failed write, crash and cleaning: every
\* variable has its type, no resource has two armed records (Handle.Restore gives up when it
\* finds two), and the store keeps to its size and to its attempts of each address.
THEOREM StoreIsFit == Spec => []StoreInv
<1>1. ApplyInv => StoreInv
  <2> SUFFICES ASSUME ApplyInv
               PROVE  StoreInv
    OBVIOUS
  <2>1. OneArmed
    <3> SUFFICES ASSUME NEW x \in Address
                 PROVE  Cardinality(ArmedOf(records, x)) <= 1
      BY DEF OneArmed
    <3>1. \A r, s \in ArmedOf(records, x) : r = s
      BY DEF ApplyInv, Sound, Single, Armed, ArmedOf, Of
    <3>2. CASE ArmedOf(records, x) = {}
      BY <3>2, FS_EmptySet
    <3>3. CASE ArmedOf(records, x) # {}
      <4>1. PICK r \in ArmedOf(records, x) : ArmedOf(records, x) = {r}
        BY <3>1, <3>3
      <4>2. Cardinality({r}) = 1
        BY FS_Singleton
      <4> QED
        BY <4>1, <4>2
    <3> QED
      BY <3>2, <3>3
  <2>2. StoreIsBounded
    BY DEF ApplyInv, Sound, StoreIsBounded
  <2> QED
    BY <2>1, <2>2 DEF ApplyInv, StoreInv
<1> QED
  BY <1>1, ApplyCorrect, PTL

\* A protected resource that a change or a rollback left half done still has an armed record
\* with what it was before, whatever cleaning, capacity, crashes and later runs did (a secret
\* excepted, which is dropped when it is too old).
THEOREM HalfDoneIsRecoverable == Spec => []BrokenIsRecoverable
<1>1. ApplyInv => BrokenIsRecoverable
  <2> SUFFICES ASSUME ApplyInv, NEW x \in Guarded, actual[x] = Broken
               PROVE  \E r \in ArmedOf(records, x) : r.payload # Broken
    BY DEF BrokenIsRecoverable, Guarded
  <2>1. PICK r \in ArmedOf(records, x) : TRUE
    BY DEF ApplyInv, RecoverInv
  <2>2. r \in Armed(records) /\ r.address \notin Sensitive
    BY <2>1 DEF Armed, ArmedOf, Of, Guarded
  <2> QED
    BY <2>1, <2>2 DEF ApplyInv, Restores
<1> QED
  BY <1>1, ApplyCorrect, PTL

\* The walk changes a resource (executor) while what it depends on is as the release has it,
\* or was changed by somebody else since the check.
THEOREM DependenciesAreKept == Spec => []DependenciesAreThere
<1>1. ApplyInv => DependenciesAreThere
  <2> SUFFICES ASSUME ApplyInv, pc = "change", NEW d \in DependsOn[current]
               PROVE  actual[d] = Desired[target][d] \/ d \in disturbed
    BY DEF DependenciesAreThere
  <2>1. d \in applied \cup Found
    BY DEF ApplyInv, RunInv, DependenciesReady, Found
  <2> QED
    BY <2>1 DEF ApplyInv, RunInv
<1> QED
  BY <1>1, ApplyCorrect, PTL

\* A run that counts as done (engine.Apply without an error) leaves nothing off that has no
\* excuse, its own or that of a resource it depends on.
THEOREM DoneIsApplied == Spec => []DoneMeansApplied
<1>1. ApplyInv => DoneMeansApplied
  <2> SUFFICES ASSUME ApplyInv, Walked
               PROVE  LET open == {x \in drifted \cup unknown : x \notin applied}
                          excused == unknown \cup Unenforced \cup Deferring
                      IN /\ \A x \in open : x \in excused \/ DependsOn[x] \cap open # {}
                         /\ \A x \in Address :
                              actual[x] # Desired[target][x] => x \in open \cup disturbed
    BY DEF DoneMeansApplied
  <2> DEFINE open == {x \in drifted \cup unknown : x \notin applied}
  <2>1. open = (visited \ applied) \ Found
    BY DEF ApplyInv, TypeOK, Walked, Found
  <2>2. \A x \in open : \/ x \in unknown \cup Unenforced \cup Deferring
                        \/ \E d \in DependsOn[x] : d \in open
    BY <2>1 DEF ApplyInv, RunInv, Walked
  <2>3. ASSUME NEW x \in Address, actual[x] # Desired[target][x]
        PROVE  x \in open \cup disturbed
    <3>1. x \in applied \cup Found => x \in disturbed
      BY <2>3 DEF ApplyInv, RunInv, Walked
    <3>2. x \notin applied \cup Found => x \in open
      BY DEF Found
    <3> QED
      BY <3>1, <3>2
  <2> QED
    BY <2>2, <2>3
<1> QED
  BY <1>1, ApplyCorrect, PTL
=============================================================================
