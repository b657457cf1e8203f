---------------------------- MODULE RebootProofs -----------------------------
(***************************************************************************)
(* What the state file of coordinated reboots promises, for any releases,  *)
(* sources and timeouts, whatever is saved or not when the agent crashes   *)
(* or the machine boots.                                                   *)
(*                                                                         *)
(* That no attempt is commanded twice holds for every release.  That no    *)
(* generation is holds while a release declares one generation at a time   *)
(* and none that was commanded before: the state file remembers one        *)
(* completed generation and one intent.                                    *)
(***************************************************************************)
EXTENDS RebootCoordination, TLAPS

Command == [generation: Generation, attempt: Nat, boot: Nat]

\* An attempt is durable, and is the last one, before it is commanded.
Commands(st, at, generation, given) ==
    /\ given \subseteq Command
    /\ at \in {"command", "mark"} =>
          /\ st.intent # None /\ st.intent.phase = "attempting"
          /\ st.intent.generation = generation /\ st.intent.attempt = st.attempts
    /\ \A c \in given : c.attempt <= st.attempts
    /\ at = "command" => \A c \in given : c.attempt < st.attempts
    /\ \A c, d \in given : c # d => c.attempt # d.attempt

Prior(st, b) == st.intent # None => st.intent.priorBoot <= b

RebootInv == TypeOK /\ Commands(disk, pc, acked, commands) /\ Prior(disk, boot)

-----------------------------------------------------------------------------
(***************************************************************************)
(* The state files that are saved.                                         *)
(***************************************************************************)
LEMMA Parts ==
    ASSUME TypeOK
    PROVE  /\ disk \in Status /\ Parses(disk) /\ boot \in Nat /\ clock \in Nat
           /\ disk.sources \in SUBSET Source /\ disk.attempts \in Nat
           /\ disk.intent # None => disk.intent \in Intent
           /\ disk.completion # None => disk.completion \in Completion
           /\ Timeout \in Nat /\ Timeout > 0
  BY ConstantsAssumption DEF TypeOK, Status

\* Another intent in the state file.
LEMMA WithIntent ==
    ASSUME TypeOK, NEW i \in Intent,
           i.deadline # 0 => i.deadline > i.notBefore,
           i.currentBoot \in {0, i.priorBoot} \/ i.phase = "timed-out",
           i.phase = "awaiting" => i.attempt = 0,
           i.phase \in {"attempting", "failed"} => i.attempt > 0,
           i.attempt > 0 => i.attemptDeadline > i.attemptedAt,
           NEW n \in Nat, disk.attempts <= n, i.attempt <= n,
           disk.completion # None => i.generation # disk.completion.generation
    PROVE  LET st == [disk EXCEPT !.attempts = n, !.intent = i] IN
           st \in Status /\ Parses(st)
<1> DEFINE st == [disk EXCEPT !.attempts = n, !.intent = i]
<1>1. /\ st \in Status /\ st.intent = i /\ st.attempts = n /\ st.completion = disk.completion
      /\ i # None
  BY Parts, NoneIsAbsent DEF Status
<1>2. disk.completion # None => disk.completion.attempt \in 1..n
  <2>1. disk.completion # None => /\ disk.completion.attempt \in 1..disk.attempts
    BY Parts DEF Parses
  <2> QED
    BY <2>1, Parts
<1> HIDE DEF st
<1>3. Parses(st)
  BY <1>1, <1>2 DEF Parses
<1> QED
  BY <1>1, <1>3 DEF st

\* An intent that changed in nothing but its phase, once it timed out or failed.
LEMMA Ended ==
    ASSUME TypeOK, disk.intent # None, NEW phase \in {"timed-out", "failed"},
           phase = "failed" => disk.intent.phase = "attempting",
           NEW b \in Nat, b = disk.intent.currentBoot \/ phase = "timed-out"
    PROVE  LET i == [disk.intent EXCEPT !.phase = phase, !.currentBoot = b]
               st == [disk EXCEPT !.intent = i] IN
           /\ st \in Status /\ Parses(st) /\ i \in Intent
<1> DEFINE i == [disk.intent EXCEPT !.phase = phase, !.currentBoot = b]
           n == disk.attempts
           st == [disk EXCEPT !.attempts = n, !.intent = i]
<1>1. disk.intent \in Intent
  BY Parts
<1>2. /\ i \in Intent /\ i.phase = phase /\ i.currentBoot = b
      /\ i.generation = disk.intent.generation /\ i.priorBoot = disk.intent.priorBoot
      /\ i.deadline = disk.intent.deadline /\ i.notBefore = disk.intent.notBefore
      /\ i.attempt = disk.intent.attempt /\ i.attemptedAt = disk.intent.attemptedAt
      /\ i.attemptDeadline = disk.intent.attemptDeadline
  BY <1>1 DEF Intent
<1>3. st = [disk EXCEPT !.intent = i]
  BY Parts DEF Status
<1> HIDE DEF i
<1>4. /\ i.deadline # 0 => i.deadline > i.notBefore
      /\ i.currentBoot \in {0, i.priorBoot} \/ i.phase = "timed-out"
      /\ i.phase \in {"attempting", "failed"} => i.attempt > 0
      /\ i.attempt > 0 => i.attemptDeadline > i.attemptedAt
      /\ i.attempt <= disk.attempts
      /\ disk.completion # None => i.generation # disk.completion.generation
  BY <1>2, Parts DEF Parses
<1>4a. n \in Nat /\ disk.attempts <= n /\ i.attempt <= n
  BY <1>4, Parts
<1> HIDE DEF n
<1>5. st \in Status /\ Parses(st)
  <2>1. i.phase # "awaiting"
    BY <1>2
  <2> QED
    BY <1>2, <1>4, <1>4a, <2>1, WithIntent
<1> QED
  BY <1>2, <1>3, <1>5 DEF i

\* What reconciling does to the state file.
LEMMA ReconciledIs ==
    ASSUME TypeOK, Prior(disk, boot)
    PROVE  LET st == Reconciled(disk) IN
           /\ st \in Status /\ Parses(st) /\ st.attempts = disk.attempts
           /\ \/ st = disk
              \/ /\ Active(disk) /\ st.intent # None
                 /\ st.intent.phase \in {"timed-out", disk.intent.phase}
                 /\ st.intent.phase = "awaiting" => st.intent = disk.intent
                 /\ st.intent.generation = disk.intent.generation
                 /\ st.intent.priorBoot = disk.intent.priorBoot
                 /\ st.completion = disk.completion
              \/ /\ disk.intent # None /\ disk.intent.phase = "attempting"
                 /\ st.intent = None
                 /\ st.completion = [generation |-> disk.intent.generation, boot |-> boot,
                                     attempt |-> disk.intent.attempt]
                 /\ boot > disk.intent.priorBoot /\ clock < disk.intent.attemptDeadline
<1> DEFINE st == Reconciled(disk)
<1>1. CASE ~Active(disk)
  BY <1>1, Parts DEF Reconciled
<1>2. CASE Active(disk)
  <2> DEFINE i == disk.intent
  <2>1. i # None /\ i \in Intent /\ i.phase \in {"awaiting", "attempting"} /\ i.currentBoot \in Nat
    BY <1>2, Parts DEF Active, Intent
  <2>2. CASE i.phase = "awaiting" /\ ~Expired(i, clock)
    BY <1>2, <2>2, Parts DEF Reconciled
  <2>3. CASE i.phase = "awaiting" /\ Expired(i, clock)
    <3>1. st = [disk EXCEPT !.intent = [i EXCEPT !.phase = "timed-out",
                                                 !.currentBoot = i.currentBoot]]
      BY <1>2, <2>1, <2>3, Parts DEF Reconciled, TimedOut, Status, Intent
    <3> DEFINE j == [i EXCEPT !.phase = "timed-out", !.currentBoot = i.currentBoot]
    <3>2. st \in Status /\ Parses(st) /\ j \in Intent
      BY <2>1, <3>1, Ended
    <3>3. j.phase = "timed-out" /\ j.generation = i.generation /\ j.priorBoot = i.priorBoot
      BY <2>1 DEF Intent
    <3>4. st = [disk EXCEPT !.intent = j] /\ j # None
      BY <3>1, <3>2, NoneIsAbsent
    <3> HIDE DEF j
    <3>5. st.intent = j /\ st.completion = disk.completion /\ st.attempts = disk.attempts
      BY <3>4, Parts DEF Status
    <3> HIDE DEF st
    <3> QED
      BY <1>2, <3>2, <3>3, <3>4, <3>5 DEF st
  <2>4. CASE i.phase = "attempting" /\ clock >= i.attemptDeadline
    <3>1. st = [disk EXCEPT !.intent = [i EXCEPT !.phase = "timed-out", !.currentBoot = boot]]
      BY <1>2, <2>1, <2>4, Parts DEF Reconciled, TimedOut, Status, Intent
    <3> DEFINE j == [i EXCEPT !.phase = "timed-out", !.currentBoot = boot]
    <3>2. st \in Status /\ Parses(st) /\ j \in Intent
      BY <2>1, <3>1, Parts, Ended
    <3>3. j.phase = "timed-out" /\ j.generation = i.generation /\ j.priorBoot = i.priorBoot
      BY <2>1 DEF Intent
    <3>4. st = [disk EXCEPT !.intent = j] /\ j # None
      BY <3>1, <3>2, NoneIsAbsent
    <3> HIDE DEF j
    <3>5. st.intent = j /\ st.completion = disk.completion /\ st.attempts = disk.attempts
      BY <3>4, Parts DEF Status
    <3> HIDE DEF st
    <3> QED
      BY <1>2, <3>2, <3>3, <3>4, <3>5 DEF st
  <2>5. CASE i.phase = "attempting" /\ ~(clock >= i.attemptDeadline) /\ boot # i.priorBoot
    <3> DEFINE c == [generation |-> i.generation, boot |-> boot, attempt |-> i.attempt]
    <3>1. st = [disk EXCEPT !.intent = None, !.sources = {}, !.completion = c]
      BY <1>2, <2>5 DEF Reconciled, CompletedBy
    <3>2. c \in Completion /\ i.attempt \in 1..disk.attempts
      <4>1. i.attempt > 0 /\ i.attempt <= disk.attempts /\ i.attempt \in Nat
        BY <2>1, <2>5, Parts DEF Parses, Intent
      <4> QED
        BY <2>1, <4>1, Parts DEF Completion, Intent
    <3>3. c.attempt = i.attempt
      OBVIOUS
    <3>4. boot > i.priorBoot /\ clock < i.attemptDeadline
      BY <2>1, <2>5, Parts DEF Prior, Intent
    <3> HIDE DEF c
    <3>5. /\ st \in Status /\ st.intent = None /\ st.completion = c
          /\ st.attempts = disk.attempts
      BY <3>1, <3>2, Parts DEF Status
    <3> HIDE DEF st
    <3>6. Parses(st)
      BY <3>2, <3>3, <3>5 DEF Parses
    <3> QED
      BY <2>1, <2>5, <3>4, <3>5, <3>6 DEF st, c
  <2>6. CASE i.phase = "attempting" /\ ~(clock >= i.attemptDeadline) /\ boot = i.priorBoot
    <3> DEFINE j == [i EXCEPT !.currentBoot = boot]
               n == disk.attempts
    <3>1. st = [disk EXCEPT !.attempts = n, !.intent = j]
      BY <1>2, <2>6, Parts DEF Reconciled, Status
    <3>2. /\ j \in Intent /\ j.phase = "attempting" /\ j.currentBoot = boot
          /\ j.generation = i.generation /\ j.priorBoot = i.priorBoot
          /\ j.deadline = i.deadline /\ j.notBefore = i.notBefore
          /\ j.attempt = i.attempt /\ j.attemptedAt = i.attemptedAt
          /\ j.attemptDeadline = i.attemptDeadline
      BY <2>1, <2>6, Parts DEF Intent
    <3> HIDE DEF j
    <3>3. /\ j.deadline # 0 => j.deadline > j.notBefore
          /\ j.currentBoot \in {0, j.priorBoot}
          /\ j.attempt > 0 /\ j.attemptDeadline > j.attemptedAt
          /\ j.attempt <= disk.attempts
          /\ disk.completion # None => j.generation # disk.completion.generation
      BY <2>1, <2>6, <3>2, Parts DEF Parses
    <3>3a. n \in Nat /\ disk.attempts <= n /\ j.attempt <= n
      BY <3>3, Parts
    <3> HIDE DEF n
    <3>4. st \in Status /\ Parses(st)
      <4> HIDE DEF i, st
      <4> QED
        BY <3>1, <3>2, <3>3, <3>3a, WithIntent
    <3>5. st.intent = j /\ st.completion = disk.completion /\ st.attempts = disk.attempts
      BY <3>1, Parts DEF Status, n
    <3>6. j # None
      BY <3>2, NoneIsAbsent
    <3> HIDE DEF st
    <3> QED
      BY <1>2, <2>6, <3>2, <3>4, <3>5, <3>6 DEF st
  <2> QED
    BY <2>1, <2>2, <2>3, <2>4, <2>5, <2>6
<1> QED
  BY <1>1, <1>2


-----------------------------------------------------------------------------
(***************************************************************************)
(* No generation is commanded twice.                                       *)
(***************************************************************************)
\* What keeps generation g from being prepared again.
Spent(st, g) ==
    \/ st.completion # None /\ st.completion.generation = g
    \/ st.intent # None /\ st.intent.generation = g /\ st.intent.phase # "awaiting"

Once(st, at, generation, given, wanted) ==
    /\ \A c \in given : c.generation \in wanted => Spent(st, c.generation)
    /\ st.intent # None /\ st.completion # None =>
          \A c \in given :
              c.generation = st.completion.generation => c.generation \notin wanted
    /\ st.intent # None /\ st.intent.phase = "awaiting" =>
          \A c \in given : c.generation # st.intent.generation
    /\ at = "command" => \A c \in given : c.generation # generation
    /\ \A c, d \in given : c # d => c.generation # d.generation

Wanted == {res.generation : res \in desired}
GenerationsInv == Once(disk, pc, acked, commands, Wanted)

\* A release declares one generation, and goes back to none that was commanded.
OneGeneration == \A artifact \in Artifacts : \A r, s \in artifact : r.generation = s.generation
NoReturn == \A res \in desired' \ desired : \A c \in commands : c.generation # res.generation

LEMMA OnceKept ==
    ASSUME NEW st, NEW at, NEW generation, NEW given, NEW wanted,
           Once(st, at, generation, given, wanted),
           NEW later, NEW at2, NEW generation2, at2 # "command",
           later.completion = st.completion,
           \/ later.intent = st.intent
           \/ /\ st.intent # None /\ later.intent # None
              /\ later.intent.generation = st.intent.generation
              /\ later.intent.phase # "awaiting"
    PROVE  Once(later, at2, generation2, given, wanted)
  BY DEF Once, Spent

LEMMA OnceCompleted ==
    ASSUME NEW st, NEW at, NEW generation, NEW given, NEW wanted,
           Once(st, at, generation, given, wanted),
           NEW later, NEW at2, NEW generation2, at2 # "command",
           st.intent # None, later.intent = None, later.completion # None,
           later.completion.generation = st.intent.generation
    PROVE  Once(later, at2, generation2, given, wanted)
  BY DEF Once, Spent

LEMMA ReconciledOnce ==
    ASSUME RebootInv, GenerationsInv, NEW at2, NEW generation2, at2 # "command"
    PROVE  Once(Reconciled(disk), at2, generation2, commands, Wanted)
<1> DEFINE st == Reconciled(disk)
<1>1. /\ st \in Status
      /\ \/ st = disk
         \/ /\ disk.intent # None /\ st.intent # None
            /\ st.intent.generation = disk.intent.generation
            /\ st.intent.phase = "awaiting" => st.intent = disk.intent
            /\ st.completion = disk.completion
         \/ /\ disk.intent # None /\ st.intent = None
            /\ st.completion = [generation |-> disk.intent.generation, boot |-> boot,
                                attempt |-> disk.intent.attempt]
  BY ReconciledIs DEF RebootInv, Active
<1> SUFFICES Once(st, at2, generation2, commands, Wanted)
  OBVIOUS
<1> HIDE DEF st
<1>2. CASE st = disk
  BY <1>2, OnceKept DEF GenerationsInv
<1>3. CASE /\ disk.intent # None /\ st.intent # None
           /\ st.intent.generation = disk.intent.generation
           /\ st.intent.phase = "awaiting" => st.intent = disk.intent
           /\ st.completion = disk.completion
  BY <1>3, OnceKept DEF GenerationsInv
<1>4. CASE /\ disk.intent # None /\ st.intent = None
           /\ st.completion = [generation |-> disk.intent.generation, boot |-> boot,
                               attempt |-> disk.intent.attempt]
  <2>1. /\ st.completion.generation = disk.intent.generation
        /\ st.completion \in Completion
    BY <1>4, Parts DEF Completion, Intent, RebootInv
  <2>2. st.completion # None
    BY <2>1, NoneIsAbsent
  <2> QED
    BY <1>4, <2>1, <2>2, OnceCompleted DEF GenerationsInv
<1> QED
  BY <1>1, <1>2, <1>3, <1>4

-----------------------------------------------------------------------------
(***************************************************************************)
(* The steps.                                                              *)
(***************************************************************************)
\* No attempt begins.
LEMMA QuietStep ==
    ASSUME RebootInv, disk' \in Status, Parses(disk'), disk'.attempts = disk.attempts,
           pc' \in {"down", "refresh", "sync", "acknowledge", "apply", "record", "settle"},
           pending' \in Generation \cup {None}, acked' \in Generation \cup {None},
           boot' \in Nat, clock' \in Nat, rebooting' \in BOOLEAN, desired' \in SUBSET Resource,
           commands' = commands, Prior(disk', boot')
    PROVE  RebootInv'
  BY DEF RebootInv, TypeOK, Commands, Prior

LEMMA Acks ==
    ASSUME RebootInv
    PROVE  /\ pending \in Generation \cup {None} /\ acked \in Generation \cup {None}
           /\ rebooting \in BOOLEAN /\ desired \in SUBSET Resource
           /\ boot \in Nat /\ clock \in Nat
           /\ disk \in Status /\ Parses(disk) /\ Prior(disk, boot)
  BY DEF RebootInv, TypeOK

LEMMA RefreshKeeps ==
    ASSUME RebootInv, Refresh
    PROVE  RebootInv' /\ (GenerationsInv => GenerationsInv')
<1>1. /\ pc' \in {"sync", "refresh"} /\ disk' \in {disk, Reconciled(disk)}
      /\ UNCHANGED <<acked, boot, rebooting, desired, clock, commands>>
      /\ pending' \in {pending, Due(Reconciled(disk))}
  BY DEF Refresh, SaveFails
<1> DEFINE st == Reconciled(disk)
<1>2. /\ st \in Status /\ Parses(st) /\ st.attempts = disk.attempts
      /\ Prior(st, boot)
      /\ Due(st) \in Generation \cup {None}
  <2>1. /\ st \in Status /\ Parses(st) /\ st.attempts = disk.attempts
        /\ st = disk \/ (st.intent # None /\ disk.intent # None
                         /\ st.intent.priorBoot = disk.intent.priorBoot)
           \/ st.intent = None
    BY ReconciledIs DEF RebootInv, Active
  <2>2. Prior(st, boot)
    BY <2>1, Acks DEF Prior
  <2>3. Due(st) \in Generation \cup {None}
    <3> HIDE DEF st
    <3> QED
      BY <2>1 DEF Due, Status, Intent
  <2> QED
    BY <2>1, <2>2, <2>3
<1>3. ASSUME GenerationsInv PROVE GenerationsInv'
  <2>1. /\ Once(st, pc', acked, commands, Wanted)
        /\ Once(disk, pc', acked, commands, Wanted)
    BY <1>1, <1>3, ReconciledOnce, OnceKept DEF GenerationsInv
  <2> HIDE DEF st
  <2> QED
    BY <1>1, <2>1 DEF GenerationsInv, Wanted, st
<1> HIDE DEF st
<1>4. disk' \in {disk, st} /\ pending' \in {pending, Due(st)}
  BY <1>1 DEF st
<1> QED
  BY <1>1, <1>2, <1>3, <1>4, Acks, QuietStep

LEMMA SyncKeeps ==
    ASSUME RebootInv, SyncFails \/ SyncAnswered
    PROVE  RebootInv' /\ (GenerationsInv => GenerationsInv')
<1>1. /\ pc' \in {"refresh", "apply", "acknowledge"}
      /\ UNCHANGED <<disk, boot, rebooting, desired, clock, commands>>
      /\ pending' \in {pending, None} /\ acked' \in {acked, pending}
  BY DEF SyncFails, SyncAnswered
<1>2. GenerationsInv => GenerationsInv'
  <2>1. GenerationsInv => Once(disk, pc', acked', commands, Wanted)
    BY <1>1, OnceKept DEF GenerationsInv
  <2> QED
    BY <1>1, <2>1 DEF GenerationsInv, Wanted
<1> QED
  BY <1>1, <1>2, Acks, QuietStep


\* An attempt that begins: the intent and its number.
Begun(i) ==
    LET end == IF i.deadline # 0 /\ i.deadline < clock + Timeout
               THEN i.deadline ELSE clock + Timeout
    IN [i EXCEPT !.phase = "attempting", !.attempt = disk.attempts + 1,
                 !.attemptedAt = clock, !.attemptDeadline = end]

LEMMA AttemptingIs ==
    ASSUME RebootInv, MayAttempt
    PROVE  /\ Attempting \in Status /\ Parses(Attempting)
           /\ Attempting.attempts = disk.attempts + 1
           /\ Attempting.completion = disk.completion
           /\ Attempting.intent # None /\ Attempting.intent.phase = "attempting"
           /\ Attempting.intent.attempt = Attempting.attempts
           /\ Attempting.intent.generation = disk.intent.generation
           /\ Attempting.intent.priorBoot = disk.intent.priorBoot
           /\ disk.intent # None /\ disk.intent.generation = acked
           /\ disk.intent.phase = "awaiting"
<1> DEFINE i == disk.intent
           end == IF i.deadline # 0 /\ i.deadline < clock + Timeout
                  THEN i.deadline ELSE clock + Timeout
           n == disk.attempts + 1
           j == [i EXCEPT !.phase = "attempting", !.attempt = n,
                          !.attemptedAt = clock, !.attemptDeadline = end]
           st == [disk EXCEPT !.attempts = n, !.intent = j]
<1>1. /\ i # None /\ i.generation = acked /\ i.phase = "awaiting" /\ i \in Intent
      /\ TypeOK /\ clock \in Nat
  BY Parts DEF MayAttempt, AckDue, RebootInv
<1>2. end \in Nat /\ end > clock
  <2>1. i.deadline \in Nat /\ Timeout \in Nat /\ Timeout > 0
    BY <1>1, Parts DEF Intent
  <2>2. i.deadline = 0 \/ clock < i.deadline
    BY <1>1, <2>1 DEF MayAttempt, Expired
  <2> QED
    BY <1>1, <2>1, <2>2
<1>3. n \in Nat /\ disk.attempts <= n /\ n > 0 /\ n <= n
  BY <1>1, Parts
<1>3a. st = Attempting
  BY DEF Attempting
<1> HIDE DEF end, n
<1>4. /\ j \in Intent /\ j.phase = "attempting" /\ j.attempt = n
      /\ j.attemptedAt = clock /\ j.attemptDeadline = end
      /\ j.generation = i.generation /\ j.priorBoot = i.priorBoot
      /\ j.deadline = i.deadline /\ j.notBefore = i.notBefore
      /\ j.currentBoot = i.currentBoot
  BY <1>1, <1>2, <1>3 DEF Intent
<1>5. /\ i.deadline # 0 => i.deadline > i.notBefore
      /\ i.currentBoot \in {0, i.priorBoot}
      /\ disk.completion # None => i.generation # disk.completion.generation
  BY <1>1, Parts DEF Parses
<1> HIDE DEF i, j
<1>6. st \in Status /\ Parses(st)
  BY <1>1, <1>2, <1>3, <1>4, <1>5, WithIntent
<1>7. st.attempts = n /\ st.completion = disk.completion /\ st.intent = j
  BY <1>1, Parts DEF Status
<1>8. j # None
  BY <1>4, NoneIsAbsent
<1> HIDE DEF st
<1> QED
  BY <1>1, <1>3, <1>3a, <1>4, <1>6, <1>7, <1>8 DEF i, n

\* An awaiting intent whose time is over.
LEMMA TimedOutIs ==
    ASSUME RebootInv, AckDue
    PROVE  LET st == TimedOut(disk) IN
           /\ st \in Status /\ Parses(st) /\ st.attempts = disk.attempts
           /\ st.completion = disk.completion
           /\ disk.intent # None /\ st.intent # None
           /\ st.intent.phase = "timed-out"
           /\ st.intent.generation = disk.intent.generation
           /\ st.intent.priorBoot = disk.intent.priorBoot
<1> DEFINE i == disk.intent
           j == [i EXCEPT !.phase = "timed-out", !.currentBoot = i.currentBoot]
           st == [disk EXCEPT !.intent = j]
<1>1. i # None /\ i \in Intent /\ TypeOK /\ i.currentBoot \in Nat
  BY Parts DEF AckDue, RebootInv, Intent
<1>2. st \in Status /\ Parses(st) /\ j \in Intent
  BY <1>1, Ended
<1>3. j.phase = "timed-out" /\ j.generation = i.generation /\ j.priorBoot = i.priorBoot
  BY <1>1 DEF Intent
<1>4. TimedOut(disk) = st
  BY <1>1, Parts DEF TimedOut, Status, Intent
<1>5. j # None
  BY <1>2, NoneIsAbsent
<1> HIDE DEF j
<1>6. st.intent = j /\ st.completion = disk.completion /\ st.attempts = disk.attempts
  BY <1>1, Parts DEF Status
<1> HIDE DEF st
<1> QED
  BY <1>1, <1>2, <1>3, <1>4, <1>5, <1>6

LEMMA AcknowledgeKeeps ==
    ASSUME RebootInv, Acknowledge
    PROVE  RebootInv' /\ (GenerationsInv => GenerationsInv')
<1>1. UNCHANGED <<pending, acked, boot, rebooting, desired, clock, commands>>
  BY DEF Acknowledge
<1> DEFINE st == Attempting
           late == TimedOut(disk)
<1>2. CASE MayAttempt /\ disk' = st /\ pc' = "command"
  <2>1. /\ st \in Status /\ Parses(st) /\ st.attempts = disk.attempts + 1
        /\ st.completion = disk.completion
        /\ st.intent # None /\ st.intent.phase = "attempting"
        /\ st.intent.attempt = st.attempts
        /\ st.intent.generation = disk.intent.generation
        /\ st.intent.priorBoot = disk.intent.priorBoot
        /\ disk.intent # None /\ disk.intent.generation = acked
        /\ disk.intent.phase = "awaiting"
    BY <1>2, AttemptingIs
  <2> HIDE DEF st
  <2>2. disk.attempts \in Nat /\ \A c \in commands : c.attempt \in Nat
    BY Parts DEF RebootInv, Commands, Command
  <2>3. Commands(st, "command", acked, commands)
    BY <2>1, <2>2 DEF RebootInv, Commands
  <2>4. Prior(st, boot)
    BY <2>1 DEF RebootInv, Prior
  <2>5. RebootInv'
    BY <1>1, <1>2, <2>1, <2>3, <2>4 DEF RebootInv, TypeOK
  <2>6. ASSUME GenerationsInv PROVE Once(st, "command", acked, commands, Wanted)
    BY <2>1, <2>6 DEF GenerationsInv, Once, Spent
  <2> QED
    BY <1>1, <1>2, <2>5, <2>6 DEF GenerationsInv, Wanted
<1>3. CASE MayAttempt /\ disk' \in {disk, st} /\ pc' = "apply"
  <2>1. /\ st \in Status /\ Parses(st) /\ st.attempts = disk.attempts + 1
        /\ st.completion = disk.completion
        /\ st.intent # None /\ st.intent.phase = "attempting"
        /\ st.intent.generation = disk.intent.generation
        /\ st.intent.priorBoot = disk.intent.priorBoot
        /\ disk.intent # None
    BY <1>3, AttemptingIs
  <2> HIDE DEF st
  <2>2. disk.attempts \in Nat /\ \A c \in commands : c.attempt \in Nat
    BY Parts DEF RebootInv, Commands, Command
  <2>3. Commands(st, "apply", acked, commands) /\ Commands(disk, "apply", acked, commands)
    BY <2>1, <2>2 DEF RebootInv, Commands
  <2>4. Prior(st, boot) /\ Prior(disk, boot)
    BY <2>1 DEF RebootInv, Prior
  <2>5. RebootInv'
    BY <1>1, <1>3, <2>1, <2>3, <2>4 DEF RebootInv, TypeOK
  <2>6. ASSUME GenerationsInv
        PROVE  /\ Once(st, "apply", acked, commands, Wanted)
               /\ Once(disk, "apply", acked, commands, Wanted)
    BY <2>1, <2>6, OnceKept DEF GenerationsInv
  <2> QED
    BY <1>1, <1>3, <2>5, <2>6 DEF GenerationsInv, Wanted
<1>4. CASE disk' = disk /\ pc' = "apply"
  <2>1. GenerationsInv => Once(disk, "apply", acked, commands, Wanted)
    BY OnceKept DEF GenerationsInv
  <2>2. GenerationsInv => GenerationsInv'
    BY <1>1, <1>4, <2>1 DEF GenerationsInv, Wanted
  <2> QED
    BY <1>1, <1>4, <2>2, Acks, QuietStep
<1>5. CASE AckDue /\ disk' = late /\ pc' = "apply"
  <2>1. /\ late \in Status /\ Parses(late) /\ late.attempts = disk.attempts
        /\ late.completion = disk.completion
        /\ disk.intent # None /\ late.intent # None
        /\ late.intent.phase = "timed-out"
        /\ late.intent.generation = disk.intent.generation
        /\ late.intent.priorBoot = disk.intent.priorBoot
    BY <1>5, TimedOutIs
  <2> HIDE DEF late
  <2>2. Prior(late, boot)
    BY <2>1 DEF RebootInv, Prior
  <2>3. GenerationsInv => Once(late, "apply", acked, commands, Wanted)
    BY <2>1, OnceKept DEF GenerationsInv
  <2>4. GenerationsInv => GenerationsInv'
    BY <1>1, <1>5, <2>3 DEF GenerationsInv, Wanted
  <2> QED
    BY <1>1, <1>5, <2>1, <2>2, <2>4, Acks, QuietStep
<1> QED
  BY <1>2, <1>3, <1>4, <1>5 DEF Acknowledge, SaveFails


\* The command runs: its attempt, and its generation, are new.
LEMMA RunRebootKeeps ==
    ASSUME RebootInv, RunReboot
    PROVE  RebootInv' /\ (GenerationsInv => GenerationsInv')
<1>1. /\ pc = "command"
      /\ UNCHANGED <<disk, pending, acked, boot, desired, clock>>
      /\ disk.intent # None /\ disk.intent.phase = "attempting"
      /\ disk.intent.generation = acked /\ disk.intent.attempt = disk.attempts
      /\ disk.intent \in Intent
  BY Parts DEF RunReboot, RebootInv, Commands
<1> DEFINE c == [generation |-> acked, attempt |-> disk.intent.attempt, boot |-> boot]
<1>2. CASE pc' = "apply" /\ rebooting' = TRUE /\ commands' = commands \cup {c}
  <2>1. c \in Command /\ c.attempt = disk.attempts /\ c.generation = acked
        /\ acked = disk.intent.generation
    BY <1>1, Acks DEF Command, Intent
  <2> HIDE DEF c
  <2>2. Commands(disk, "apply", acked, commands \cup {c})
    <3>1. \A d \in commands : d.attempt < disk.attempts /\ d.attempt \in Nat
      BY <1>1 DEF RebootInv, Commands, Command
    <3>2. disk.attempts \in Nat
      BY Parts DEF RebootInv
    <3>3. \A d \in commands : c.attempt # d.attempt
      BY <2>1, <3>1, <3>2
    <3>4. \A d \in commands \cup {c} : d.attempt <= disk.attempts
      BY <2>1, <3>1, <3>2
    <3> QED
      BY <2>1, <3>3, <3>4 DEF RebootInv, Commands
  <2>3. RebootInv'
    BY <1>1, <1>2, <2>2 DEF RebootInv, TypeOK
  <2>4. ASSUME GenerationsInv PROVE Once(disk, "apply", acked, commands \cup {c}, Wanted)
    <3>1. \A d \in commands : d.generation # c.generation
      BY <1>1, <2>1, <2>4 DEF GenerationsInv, Once
    <3>2. Spent(disk, c.generation)
      BY <1>1, <2>1 DEF Spent
    <3>3. disk.completion # None => c.generation # disk.completion.generation
      BY <1>1, <2>1, Parts DEF Parses, RebootInv
    <3> QED
      BY <1>1, <2>4, <3>1, <3>2, <3>3 DEF GenerationsInv, Once
  <2>5. GenerationsInv => GenerationsInv'
    BY <1>1, <1>2, <2>4 DEF GenerationsInv, Wanted
  <2> QED
    BY <2>3, <2>5
<1>3. CASE pc' = "mark" /\ UNCHANGED <<rebooting, commands>>
  <2>1. RebootInv'
    BY <1>1, <1>3 DEF RebootInv, TypeOK, Commands, Prior
  <2>2. GenerationsInv => Once(disk, "mark", acked, commands, Wanted)
    BY OnceKept DEF GenerationsInv
  <2>3. GenerationsInv => GenerationsInv'
    BY <1>1, <1>3, <2>2 DEF GenerationsInv, Wanted
  <2> QED
    BY <2>1, <2>3
<1> QED
  BY <1>2, <1>3 DEF RunReboot

LEMMA MarkKeeps ==
    ASSUME RebootInv, MarkAttemptFailed
    PROVE  RebootInv' /\ (GenerationsInv => GenerationsInv')
<1> DEFINE i == disk.intent
           st == [disk EXCEPT !.intent.phase = "failed"]
           j == [i EXCEPT !.phase = "failed", !.currentBoot = i.currentBoot]
<1>1. /\ pc' = "apply" /\ disk' \in {disk, st}
      /\ UNCHANGED <<pending, acked, boot, rebooting, desired, clock, commands>>
      /\ i # None /\ i.phase = "attempting"
      /\ i \in Intent /\ i.currentBoot \in Nat /\ TypeOK
  BY Parts DEF MarkAttemptFailed, SaveFails, RebootInv, Commands, Intent
<1>2. st = [disk EXCEPT !.intent = j]
  BY <1>1, Parts DEF Status, Intent
<1>3. st \in Status /\ Parses(st) /\ j \in Intent
  BY <1>1, <1>2, Ended
<1>4. j.phase = "failed" /\ j.generation = i.generation /\ j.priorBoot = i.priorBoot
  BY <1>1 DEF Intent
<1>5. j # None
  BY <1>3, NoneIsAbsent
<1> HIDE DEF j
<1>6. st.intent = j /\ st.completion = disk.completion /\ st.attempts = disk.attempts
  BY <1>1, <1>2, Parts DEF Status
<1> HIDE DEF st
<1>7. Prior(st, boot)
  BY <1>1, <1>4, <1>6 DEF RebootInv, Prior
<1>8. ASSUME GenerationsInv
      PROVE  /\ Once(st, "apply", acked, commands, Wanted)
             /\ Once(disk, "apply", acked, commands, Wanted)
  BY <1>1, <1>4, <1>5, <1>6, <1>8, OnceKept DEF GenerationsInv
<1>9. GenerationsInv => GenerationsInv'
  BY <1>1, <1>8 DEF GenerationsInv, Wanted
<1> QED
  BY <1>1, <1>3, <1>6, <1>7, <1>9, Acks, QuietStep

\* Another intent is prepared: its generation was not commanded.
LEMMA PreparedIs ==
    ASSUME RebootInv, NEW res \in desired, Preparable(res)
    PROVE  LET st == Prepared(res) IN
           /\ st \in Status /\ Parses(st) /\ st.attempts = disk.attempts
           /\ st.completion = disk.completion
           /\ st.intent # None /\ st.intent.phase = "awaiting"
           /\ st.intent.generation = res.generation /\ st.intent.priorBoot = boot
           /\ ~Spent(disk, res.generation)
<1> DEFINE j == [generation |-> res.generation, phase |-> "awaiting", priorBoot |-> boot,
                 currentBoot |-> 0, notBefore |-> clock + res.delay,
                 deadline |-> res.deadline, attempt |-> 0, attemptedAt |-> 0,
                 attemptDeadline |-> 0]
           n == disk.attempts
           st == [disk EXCEPT !.attempts = n, !.intent = j]
<1>1. res \in Resource /\ TypeOK
  BY Acks DEF RebootInv
<1>2. /\ j \in Intent
      /\ j.deadline # 0 => j.deadline > j.notBefore
      /\ j.currentBoot = 0 /\ j.attempt = 0 /\ j.phase = "awaiting"
      /\ j.generation = res.generation /\ j.priorBoot = boot
      /\ disk.completion # None => j.generation # disk.completion.generation
  BY <1>1, Parts DEF Resource, Intent, Preparable, Eligible
<1>3. st = Prepared(res)
  BY Acks DEF Prepared, Status
<1>4. n \in Nat /\ disk.attempts <= n /\ j.attempt <= n
  BY <1>1, <1>2, Parts
<1> HIDE DEF j
<1>5. st.intent = j /\ st.completion = disk.completion /\ st.attempts = disk.attempts
  BY Acks DEF Status
<1>6. st \in Status /\ Parses(st)
  <2> HIDE DEF n, st
  <2>1. st = [disk EXCEPT !.attempts = n, !.intent = j]
    BY DEF st
  <2>2. /\ j.currentBoot \in {0, j.priorBoot}
        /\ j.phase \notin {"attempting", "failed"} /\ ~(j.attempt > 0)
    BY <1>2
  <2> QED
    BY <1>1, <1>2, <1>4, <2>1, <2>2, WithIntent
<1>7. j # None
  BY <1>2, NoneIsAbsent
<1>8. ~Spent(disk, res.generation)
  BY DEF Preparable, Eligible, Spent
<1> HIDE DEF st
<1> QED
  BY <1>2, <1>3, <1>5, <1>6, <1>7, <1>8

LEMMA ApplyRebootKeeps ==
    ASSUME RebootInv, ApplyReboot
    PROVE  /\ RebootInv'
           /\ GenerationsInv /\ (\A r, s \in desired : r.generation = s.generation)
                  => GenerationsInv'
<1>1. /\ pc' = "record"
      /\ UNCHANGED <<pending, acked, boot, rebooting, desired, clock, commands>>
  BY DEF ApplyReboot
<1>2. PICK res \in desired : Preparable(res) /\ disk' \in {disk, Prepared(res)}
  BY DEF ApplyReboot, SaveFails
<1> DEFINE st == Prepared(res)
<1>3. /\ st \in Status /\ Parses(st) /\ st.attempts = disk.attempts
      /\ st.completion = disk.completion
      /\ st.intent # None /\ st.intent.phase = "awaiting"
      /\ st.intent.generation = res.generation /\ st.intent.priorBoot = boot
      /\ ~Spent(disk, res.generation)
  BY <1>2, PreparedIs
<1>3a. disk' \in {disk, st}
  BY <1>2
<1> HIDE DEF st
<1>4. Prior(st, boot)
  BY <1>3, Acks DEF Prior
<1>5. RebootInv'
  BY <1>1, <1>3, <1>3a, <1>4, Acks, QuietStep
<1>6. ASSUME GenerationsInv, \A r, s \in desired : r.generation = s.generation
      PROVE  GenerationsInv'
  <2>1. Wanted = {res.generation}
    BY <1>6 DEF Wanted
  <2>2. \A c \in commands : c.generation \notin Wanted
    BY <1>3, <1>6, <2>1 DEF GenerationsInv, Once
  <2>3. disk.completion # None => disk.completion.generation \notin Wanted
    BY <1>3, <2>1 DEF Spent
  <2>4. Once(st, "record", acked, commands, Wanted)
    BY <1>3, <1>6, <2>1, <2>2, <2>3 DEF GenerationsInv, Once
  <2>5. Once(disk, "record", acked, commands, Wanted)
    BY <1>6, OnceKept DEF GenerationsInv
  <2> QED
    BY <1>1, <1>3a, <2>4, <2>5 DEF GenerationsInv, Wanted
<1> QED
  BY <1>5, <1>6

\* Steps that leave the intent and the completion alone.
LEMMA OtherKeeps ==
    ASSUME RebootInv,
           ApplyOthers \/ NoArtifact \/ Record \/ Crash \/ Boot \/ Start
    PROVE  RebootInv' /\ (GenerationsInv => GenerationsInv')
<1>1. /\ pc' \in {"record", "refresh", "settle", "down"}
      /\ pending' \in {pending, None} /\ acked' \in {acked, None}
      /\ boot' \in Nat /\ boot <= boot' /\ rebooting' \in BOOLEAN
      /\ UNCHANGED <<desired, clock, commands>>
      /\ \E asked \in SUBSET Source :
            disk' = disk \/ disk' = [disk EXCEPT !.sources = @ \cup asked]
  <2>1. {} \in SUBSET Source /\ boot <= boot /\ boot <= boot + 1 /\ boot + 1 \in Nat
    BY Acks
  <2>2. CASE Record
    <3>1. \E asked \in SUBSET Source :
              disk' = disk \/ disk' = [disk EXCEPT !.sources = @ \cup asked]
      BY <2>2 DEF Record, SaveFails
    <3> QED
      BY <2>1, <2>2, <3>1, Acks DEF Record
  <2>3. CASE Boot \/ Crash
    BY <2>1, <2>3, Acks DEF Boot, Crash, Stopped
  <2>4. CASE ApplyOthers \/ NoArtifact \/ Start
    BY <2>1, <2>4, Acks DEF ApplyOthers, NoArtifact, Start
  <2> QED
    BY <2>2, <2>3, <2>4
<1>2. PICK asked \in SUBSET Source :
          disk' = disk \/ disk' = [disk EXCEPT !.sources = @ \cup asked]
  BY <1>1
<1> DEFINE st == [disk EXCEPT !.sources = @ \cup asked]
<1>3. /\ st \in Status /\ st.intent = disk.intent /\ st.completion = disk.completion
      /\ st.attempts = disk.attempts
  BY Acks DEF Status
<1>3a. disk' \in {disk, st}
  BY <1>2
<1> HIDE DEF st
<1>4. /\ disk' \in Status /\ disk'.intent = disk.intent
      /\ disk'.completion = disk.completion /\ disk'.attempts = disk.attempts
  BY <1>3, <1>3a, Acks
<1>5. Parses(disk')
  BY <1>4, Acks DEF Parses
<1>6. Prior(disk', boot')
  <2>1. disk.intent # None => disk.intent.priorBoot \in Nat
    BY Acks DEF Status, Intent
  <2> QED
    BY <1>1, <1>4, <2>1, Acks DEF Prior
<1>7. ASSUME GenerationsInv PROVE GenerationsInv'
  <2>1. Once(disk', pc', acked', commands, Wanted)
    BY <1>1, <1>4, <1>7, OnceKept DEF GenerationsInv
  <2> QED
    BY <1>1, <2>1 DEF GenerationsInv, Wanted
<1> QED
  BY <1>1, <1>4, <1>5, <1>6, <1>7, Acks, QuietStep


LEMMA MachineKeeps ==
    ASSUME RebootInv, Tick \/ Release \/ UNCHANGED vars
    PROVE  /\ RebootInv'
           /\ GenerationsInv /\ [NoReturn]_desired => GenerationsInv'
<1>1. /\ UNCHANGED <<disk, agent, boot, rebooting, commands>>
      /\ clock' \in Nat /\ desired' \in SUBSET Resource
  <2>1. clock \in Nat /\ clock + 1 \in Nat /\ desired \in SUBSET Resource
    BY Acks
  <2> QED
    BY <2>1, ConstantsAssumption DEF Tick, Release, vars
<1>2. RebootInv'
  BY <1>1 DEF RebootInv, TypeOK, agent
<1>3. ASSUME GenerationsInv, [NoReturn]_desired
      PROVE  GenerationsInv'
  <2>1. ASSUME NEW c \in commands, c.generation \in Wanted'
        PROVE  c.generation \in Wanted
    <3>1. PICK res \in desired' : res.generation = c.generation
      BY <2>1 DEF Wanted
    <3>2. res \in desired
      BY <1>3, <3>1 DEF NoReturn
    <3> QED
      BY <3>1, <3>2 DEF Wanted
  <2>2. Once(disk, pc, acked, commands, Wanted')
    BY <1>3, <2>1 DEF GenerationsInv, Once
  <2> QED
    BY <1>1, <2>2 DEF GenerationsInv, agent
<1> QED
  BY <1>2, <1>3

LEMMA InitReboot == Init => RebootInv /\ GenerationsInv
<1> SUFFICES ASSUME Init
             PROVE  RebootInv /\ GenerationsInv
  OBVIOUS
<1>1. disk \in Status /\ disk.intent = None /\ disk.completion = None /\ disk.attempts = 0
  BY DEF Init, Status
<1>2. RebootInv
  BY <1>1, ConstantsAssumption DEF Init, RebootInv, TypeOK, Parses, Commands, Prior
<1>3. GenerationsInv
  BY <1>1 DEF Init, GenerationsInv, Once
<1> QED
  BY <1>2, <1>3

LEMMA StepReboot == RebootInv /\ [Next]_vars => RebootInv'
<1> SUFFICES ASSUME RebootInv, [Next]_vars
             PROVE  RebootInv'
  OBVIOUS
<1> QED
  BY RefreshKeeps, SyncKeeps, AcknowledgeKeeps, RunRebootKeeps, MarkKeeps, ApplyRebootKeeps,
     OtherKeeps, MachineKeeps DEF Next, AgentStep

LEMMA OneIsDesired ==
    OneGeneration /\ Spec => [](\A r, s \in desired : r.generation = s.generation)
<1> DEFINE One == \A r, s \in desired : r.generation = s.generation
           Of == desired \in Artifacts
<1>1. Init => Of
  BY DEF Init
<1>2. Of /\ [Next]_vars => Of'
  BY DEF Next, AgentStep, Refresh, SyncFails, SyncAnswered, Acknowledge, RunReboot,
     MarkAttemptFailed, ApplyReboot, ApplyOthers, NoArtifact, Record, Start, Crash, Boot,
     Tick, Release, vars
<1>3. OneGeneration /\ Of => One
  BY DEF OneGeneration
<1>4. Spec => []Of
  <2> HIDE DEF Of
  <2> QED
    BY <1>1, <1>2, PTL DEF Spec
<1>5. ASSUME OneGeneration PROVE Of => One
  BY <1>3, <1>5
<1> SUFFICES ASSUME OneGeneration
             PROVE  Spec => []One
  OBVIOUS
<1>6. Of => One
  BY <1>5
<1> HIDE DEF One, Of
<1> QED
  BY <1>4, <1>6, PTL

LEMMA StepGenerations ==
    RebootInv /\ GenerationsInv /\ (\A r, s \in desired : r.generation = s.generation)
        /\ [Next]_vars /\ [NoReturn]_desired
    => GenerationsInv'
<1> SUFFICES ASSUME RebootInv, GenerationsInv,
                    \A r, s \in desired : r.generation = s.generation,
                    [Next]_vars, [NoReturn]_desired
             PROVE  GenerationsInv'
  OBVIOUS
<1> QED
  BY RefreshKeeps, SyncKeeps, AcknowledgeKeeps, RunRebootKeeps, MarkKeeps, ApplyRebootKeeps,
     OtherKeeps, MachineKeeps DEF Next, AgentStep

-----------------------------------------------------------------------------
\* No two reboot commands carry the same attempt number (store.Prepare).
AttemptsAreNew == TypeOK /\ (\A c, d \in commands : c # d => c.attempt # d.attempt)

\* The state file parses after every save, and every reboot command has an attempt number
\* of its own, whatever the releases ask for (store.Prepare, store.Acknowledge).
THEOREM AttemptsAreCommandedOnce == Spec => []AttemptsAreNew
<1>1. RebootInv => AttemptsAreNew
  BY DEF RebootInv, Commands, AttemptsAreNew
<1> QED
  BY <1>1, InitReboot, StepReboot, PTL DEF Spec

\* The state file never leads to a second command for a generation either, as long as a
\* release declares one generation and goes back to none (store.Prepare).
THEOREM NothingIsCommandedTwice ==
    OneGeneration => (Spec /\ [][NoReturn]_desired => []StatusInv)
<1> SUFFICES ASSUME OneGeneration
             PROVE  Spec /\ [][NoReturn]_desired => []StatusInv
  OBVIOUS
<1>1. Spec => [](\A r, s \in desired : r.generation = s.generation)
  BY OneIsDesired
<1>2. RebootInv /\ GenerationsInv => StatusInv
  BY DEF RebootInv, Commands, GenerationsInv, Once, StatusInv, NoSecondCommand
<1> QED
  BY <1>1, <1>2, InitReboot, StepReboot, StepGenerations, PTL DEF Spec

\* A generation completes only when the machine booted after the attempt became durable,
\* and the agent saw that before the attempt's deadline (store.Reconcile).
THEOREM CompletionsAreVerified == Spec => CompletionIsVerified
<1> DEFINE Verified == disk'.completion # disk.completion =>
              /\ disk.intent # None /\ disk.intent.phase = "attempting"
              /\ disk'.completion.attempt = disk.intent.attempt
              /\ disk'.completion.boot > disk.intent.priorBoot
              /\ clock < disk.intent.attemptDeadline
<1>1. RebootInv /\ [Next]_vars => [Verified]_disk
  <2> SUFFICES ASSUME RebootInv, [Next]_vars, disk'.completion # disk.completion
               PROVE  Verified
    OBVIOUS
  <2>1. CASE Refresh
    <3>1. disk' = Reconciled(disk)
      BY <2>1 DEF Refresh, SaveFails
    <3> QED
      BY <3>1, ReconciledIs DEF RebootInv
  <2>2. CASE Acknowledge
    <3>1. \/ MayAttempt /\ disk' \in {disk, Attempting}
          \/ AckDue /\ disk' = TimedOut(disk)
          \/ disk' = disk
      BY <2>2 DEF Acknowledge, SaveFails
    <3> QED
      BY <3>1, AttemptingIs, TimedOutIs
  <2>3. CASE ApplyReboot
    <3>1. \E res \in desired : Preparable(res) /\ disk' \in {disk, Prepared(res)}
      BY <2>3 DEF ApplyReboot, SaveFails
    <3> QED
      BY <3>1, PreparedIs
  <2>4. CASE MarkAttemptFailed \/ Record
    BY <2>4, Acks DEF MarkAttemptFailed, Record, SaveFails, Status
  <2>5. CASE ~Refresh /\ ~Acknowledge /\ ~ApplyReboot /\ ~MarkAttemptFailed /\ ~Record
    BY <2>5 DEF Next, AgentStep, SyncFails, SyncAnswered, RunReboot, ApplyOthers, NoArtifact,
       Start, Crash, Boot, Tick, Release, vars
  <2> QED
    BY <2>1, <2>2, <2>3, <2>4, <2>5
<1> HIDE DEF Verified
<1>2. Spec => [][Verified]_disk
  BY <1>1, InitReboot, StepReboot, PTL DEF Spec
<1> QED
  BY <1>2 DEF CompletionIsVerified, Verified
=============================================================================
