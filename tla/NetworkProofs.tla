--------------------------- MODULE NetworkProofs ---------------------------
(***************************************************************************)
(* Theorems about guarded network transactions: what nobody confirmed can  *)
(* be undone, to something that was confirmed, and NetworkManager does not *)
(* take back what was.                                                     *)
(*                                                                         *)
(* Both rest on who may still be busy with which transaction.  Operations  *)
(* that end before a deadline comes leave no watchdog behind that is busy  *)
(* with the transaction the cycle opens: watchdogs are busy with one that  *)
(* is overdue, the cycle with the same or with one prepared right now.     *)
(* Where there is one transaction, nobody rolls it back or confirms it     *)
(* before its change is made.                                              *)
(***************************************************************************)
EXTENDS NetworkTransaction, TLAPS

Busy(p) == op[p].at # "idle"

\* Nothing but Change puts a transaction into effect that nobody confirmed.
Trusted == confirmed \cup {0}

\* Rolling back leads to what was confirmed.
PointsInv == \A tx \in Tx : snapshot[tx] \in Trusted

\* A watchdog is busy with an overdue transaction, and it is that of the state, or
\* the cycle has opened another one in this very instant.
WatchdogsInv ==
    \A p \in Tx : Busy(p) =>
        /\ state.tx \in Tx
        /\ op[p].tx <= state.tx
        /\ prepared[op[p].tx] + Timeout <= clock
        /\ state.tx = op[p].tx \/ prepared[state.tx] = clock
        /\ \A q \in Tx : Busy(q) => op[q].tx = op[p].tx

\* The cycle is busy with the last transaction, or with one that is as new.
CycleInv ==
    Busy(Main) =>
        /\ state.tx \in Tx => /\ state.tx <= op[Main].tx
                              /\ state.tx = op[Main].tx \/ prepared[op[Main].tx] = clock
        /\ \A p \in Tx : Busy(p) =>
               /\ op[p].tx <= op[Main].tx
               /\ op[p].tx = op[Main].tx \/ prepared[op[Main].tx] = clock
        /\ op[Main].at \in {"destroy", "confirm"} => clock < prepared[op[Main].tx] + Timeout
        /\ op[Main].at \in {"open", "change"} =>
               /\ record[op[Main].tx] = "armed"
               /\ prepared[op[Main].tx] = clock
               /\ \/ snapshot[op[Main].tx] # op[Main].tx
                  \/ op[Main].tx \in confirmed

\* Whoever lets a record go has seen its transaction undone or confirmed.
ReleasesInv ==
    \A p \in Process :
        op[p].at \in {"write", "release", "open"} =>
            net # op[p].tx \/ op[p].tx \in confirmed

PromptInv == scenario.prompt => /\ WatchdogsInv /\ CycleInv /\ ReleasesInv
                                /\ Undoable

\* Before the one transaction there is nothing to restore or to confirm.
SingleInv ==
    scenario.transactions = 1 =>
        /\ \A tx \in Tx : snapshot[tx] = 0
        /\ state.tx = None => /\ net = 0 /\ confirmed = {}
                              /\ \A p \in Process : op[p].at \in {"idle", "open", "release"}

\* The one transaction is rolled back or confirmed only once its change is made, so that
\* whoever lets its record go has seen it undone or confirmed, however late that is.
Alone ==
    /\ state.tx \in {None, 1} /\ net \in {0, 1}
    /\ \A p \in Process : Busy(p) => op[p].tx = 1
    /\ op[Main].at = "open" => state.tx = None
    /\ op[Main].at \in {"open", "change"} => record[1] = "armed"
    /\ state.tx = None \/ op[Main].at = "change" =>
           net = 0 /\ timers = {} /\ \A p \in Tx : ~Busy(p)
    /\ \A p \in Process : op[p].at \in {"write", "release"} => net = 0 \/ 1 \in confirmed
    /\ net = 1 /\ 1 \notin confirmed => record[1] = "armed"

AloneInv == scenario.transactions = 1 => Alone

NetworkInv == TypeOK /\ PointsInv /\ PromptInv /\ SingleInv

\* The one checkpoint goes before its transaction is recorded as acknowledged.
CheckpointsInv ==
    scenario.manager =>
        /\ checkpoints \subseteq {1}
        /\ op[Main].at = "confirm" \/ confirmed # {} => checkpoints = {}

-----------------------------------------------------------------------------
(***************************************************************************)
(* What every step starts from.                                            *)
(***************************************************************************)
Place == {"idle", "restore", "write", "fail", "release", "destroy", "confirm", "open", "change"}

LEMMA Numbers ==
    /\ MaxTx \in Nat /\ Timeout \in Nat /\ Timeout > 0
    /\ Tx \subseteq Nat /\ 0 \notin Tx /\ None \notin Tx /\ Main \notin Tx
    /\ Main \in Process /\ Tx \subseteq Process /\ None # 0
    /\ \A p \in Process : p # Main => p \in Tx
BY ConstantsAssumption DEF Tx, Process

\* One process is somewhere else, the others where they were.
LEMMA GotoIs ==
    ASSUME TypeOK, NEW p \in Process, NEW at \in Place, NEW tx \in Tx \cup {None},
           Goto(p, at, tx)
    PROVE  /\ op' \in [Process -> [at : Place, tx : Tx \cup {None}]]
           /\ op'[p].at = at /\ op'[p].tx = tx
           /\ \A q \in Process : q # p => op'[q].at = op[q].at /\ op'[q].tx = op[q].tx
           /\ \A q \in Process : op'[q].at # "idle" /\ (at = "idle" \/ q # p) =>
                  op[q].at # "idle"
BY DEF TypeOK, Goto, Place

LEMMA DoneIs ==
    ASSUME TypeOK, NEW p \in Process, Done(p)
    PROVE  /\ op' \in [Process -> [at : Place, tx : Tx \cup {None}]]
           /\ op'[p].at = "idle"
           /\ \A q \in Process : q # p => op'[q].at = op[q].at /\ op'[q].tx = op[q].tx
BY GotoIs DEF Done, Place

\* An operation under way concerns a transaction whose record was armed.
LEMMA BusyIs ==
    ASSUME TypeOK, NEW p \in Process, op[p].at # "idle"
    PROVE  op[p].tx \in Tx /\ record[op[p].tx] # "none"
BY DEF TypeOK, Idle

\* One record changes, the others stay.
LEMMA RecordIs ==
    ASSUME TypeOK, NEW tx \in Tx, NEW content \in {"armed", "released"},
           record' \in {record, [record EXCEPT ![tx] = content]}
    PROVE  /\ record' \in [Tx -> {"none", "armed", "released"}]
           /\ \A x \in Tx : x # tx => record'[x] = record[x]
           /\ record'[tx] \in {record[tx], content}
           /\ \A x \in Tx : record[x] # "none" => record'[x] # "none"
BY DEF TypeOK

-----------------------------------------------------------------------------
(***************************************************************************)
(* Rolling back.                                                           *)
(***************************************************************************)
LEMMA RestoreKeeps ==
    ASSUME NetworkInv, NEW p \in Process, Restore(p)
    PROVE  NetworkInv'
<1> DEFINE t == op[p].tx
<1>1. op[p].at = "restore" /\ t \in Tx /\ record[t] # "none"
  BY BusyIs DEF Restore, NetworkInv
<1>2. /\ net' \in {net, snapshot[t]} /\ checkpoints' \in {checkpoints, checkpoints \ {t}}
      /\ \/ Goto(p, "write", t) /\ net' = snapshot[t]
         \/ Goto(p, "fail", t)
      /\ faults' \in Nat
      /\ UNCHANGED <<files, pc, open, pending, timers, scenario, clock, confirmed>>
  BY <1>1 DEF Restore, network, Fault, NetworkInv, TypeOK
<1>3. /\ op' \in [Process -> [at : Place, tx : Tx \cup {None}]]
      /\ op'[p].tx = t
      /\ (op'[p].at = "write" /\ net' = snapshot[t]) \/ op'[p].at = "fail"
      /\ \A q \in Process : q # p => op'[q].at = op[q].at /\ op'[q].tx = op[q].tx
  <2>1. "write" \in Place /\ "fail" \in Place /\ t \in Tx \cup {None}
    BY <1>1 DEF Place
  <2> QED
    BY <1>2, <2>1, GotoIs DEF NetworkInv
<1>4. net' \in Trusted \cup {net}
  BY <1>1, <1>2 DEF NetworkInv, PointsInv
<1> HIDE DEF t
<1>5. TypeOK'
  BY <1>1, <1>2, <1>3 DEF NetworkInv, TypeOK, Idle, Awaiting, files, Place
<1>6. PointsInv'
  BY <1>2 DEF NetworkInv, PointsInv, Trusted, files
<1>7. PromptInv'
  <2> SUFFICES ASSUME scenario.prompt
               PROVE  (WatchdogsInv /\ CycleInv /\ ReleasesInv /\ Undoable)'
    BY <1>2 DEF PromptInv
  <2>0. WatchdogsInv /\ CycleInv /\ ReleasesInv /\ Undoable
    BY DEF NetworkInv, PromptInv
  <2>1. WatchdogsInv'
    BY <2>0, <1>1, <1>2, <1>3, Numbers DEF WatchdogsInv, Busy, files, t
  <2>2. CycleInv'
    BY <2>0, <1>1, <1>2, <1>3, Numbers DEF CycleInv, Busy, files, t
  <2>3. ReleasesInv'
    <3>1. t \in Tx /\ net' = snapshot[t] => net' # t \/ t \in confirmed
      BY <1>1, Numbers DEF NetworkInv, PointsInv, Trusted
    <3>2. \A q \in Process : op[q].at \in {"write", "release", "open"} =>
              net' # op[q].tx \/ op[q].tx \in confirmed
      BY <2>0, <1>4, BusyIs, Numbers DEF ReleasesInv, NetworkInv, Trusted
    <3> QED
      BY <3>1, <3>2, <1>1, <1>2, <1>3 DEF ReleasesInv
  <2>4. Undoable'
    BY <2>0, <1>2, <1>4 DEF Undoable, Trusted, files
  <2> QED
    BY <2>1, <2>2, <2>3, <2>4
<1>8. SingleInv'
  BY <1>1, <1>2, <1>3 DEF NetworkInv, SingleInv, files
<1> QED
  BY <1>5, <1>6, <1>7, <1>8 DEF NetworkInv


\* What another process writes about its own transaction suits those that are busy.
LEMMA OthersAgree ==
    ASSUME NetworkInv, scenario.prompt, NEW p \in Process, Busy(p)
    PROVE  /\ \A q \in Tx : Busy(q) =>
                  /\ op[q].tx <= op[p].tx
                  /\ op[p].tx = op[q].tx \/ prepared[op[p].tx] = clock
           /\ Busy(Main) =>
                  /\ op[p].tx <= op[Main].tx
                  /\ op[p].tx = op[Main].tx \/ prepared[op[Main].tx] = clock
<1>0. WatchdogsInv /\ CycleInv
  BY DEF NetworkInv, PromptInv
<1>1. \A q \in Process : Busy(q) => op[q].tx \in Nat
  BY BusyIs, Numbers DEF NetworkInv, Busy
<1>2. CASE p = Main
  BY <1>0, <1>1, <1>2 DEF CycleInv
<1>3. CASE p \in Tx
  <2>1. \A q \in Tx : Busy(q) => op[q].tx = op[p].tx
    BY <1>0, <1>3 DEF WatchdogsInv
  <2>2. op[p].tx \in Nat
    BY <1>1
  <2>3. Busy(Main) => /\ op[p].tx <= op[Main].tx
                      /\ op[p].tx = op[Main].tx \/ prepared[op[Main].tx] = clock
    BY <1>0, <1>3 DEF CycleInv
  <2> QED
    BY <2>1, <2>2, <2>3
<1> QED
  BY <1>2, <1>3, Numbers

LEMMA WriteRolledBackKeeps ==
    ASSUME NetworkInv, NEW p \in Process, WriteRolledBack(p)
    PROVE  NetworkInv'
<1> DEFINE t == op[p].tx
<1>1. op[p].at = "write" /\ t \in Tx /\ record[t] # "none"
  BY BusyIs DEF WriteRolledBack, NetworkInv
<1>2. /\ \/ state' = [tx |-> t, phase |-> "rolled-back"] /\ Goto(p, "release", t)
         \/ state' = state /\ Done(p)
      /\ faults' \in Nat /\ pending' \in {None, pending}
      /\ UNCHANGED <<record, snapshot, prepared, network, pc, open, timers, scenario, clock,
                     confirmed>>
  BY <1>1 DEF WriteRolledBack, Write, WriteFails, Fault, NetworkInv, TypeOK
<1>3. /\ op' \in [Process -> [at : Place, tx : Tx \cup {None}]]
      /\ \/ state' = [tx |-> t, phase |-> "rolled-back"]
            /\ op'[p].at = "release" /\ op'[p].tx = t
         \/ state' = state /\ op'[p].at = "idle"
      /\ \A q \in Process : q # p => op'[q].at = op[q].at /\ op'[q].tx = op[q].tx
  <2>1. "release" \in Place /\ t \in Tx \cup {None}
    BY <1>1 DEF Place
  <2> QED
    BY <1>2, <2>1, GotoIs, DoneIs DEF NetworkInv
<1> HIDE DEF t
<1>5. TypeOK'
  BY <1>1, <1>2, <1>3 DEF NetworkInv, TypeOK, Idle, Awaiting, network, Place, Phase
<1>6. PointsInv'
  BY <1>2 DEF NetworkInv, PointsInv, Trusted
<1>7. PromptInv'
  <2> SUFFICES ASSUME scenario.prompt
               PROVE  (WatchdogsInv /\ CycleInv /\ ReleasesInv /\ Undoable)'
    BY <1>2 DEF PromptInv
  <2>0. WatchdogsInv /\ CycleInv /\ ReleasesInv /\ Undoable
    BY DEF NetworkInv, PromptInv
  <2>1. WatchdogsInv'
    <3>1. \A q \in Tx : Busy(q)' => Busy(q) /\ op'[q].tx = op[q].tx
      BY <1>1, <1>3, Numbers DEF Busy, t
    <3>2. \A q \in Tx : Busy(q) => /\ op[q].tx <= state'.tx
                                   /\ state'.tx = op[q].tx \/ prepared[state'.tx] = clock
      <4>1. state' = state \/ state'.tx = op[p].tx
        BY <1>3 DEF t
      <4>2. Busy(p)
        BY <1>1 DEF Busy
      <4> QED
        BY <2>0, <4>1, <4>2, OthersAgree DEF WatchdogsInv
    <3>3. \A q \in Tx : Busy(q) => state'.tx \in Tx
      BY <2>0, <1>1, <1>3 DEF WatchdogsInv
    <3> QED
      BY <2>0, <1>2, <3>1, <3>2, <3>3 DEF WatchdogsInv
  <2>2. CycleInv'
    <3>1. Busy(Main)' => /\ Busy(Main) /\ op'[Main].tx = op[Main].tx
                         /\ op'[Main].at = op[Main].at \/ op'[Main].at = "release"
      BY <1>1, <1>3, Numbers DEF Busy, t
    <3>2. \A q \in Tx : Busy(q)' => Busy(q) /\ op'[q].tx = op[q].tx
      BY <1>1, <1>3, Numbers DEF Busy, t
    <3>3. Busy(Main) /\ state'.tx \in Tx =>
              /\ state'.tx <= op[Main].tx
              /\ state'.tx = op[Main].tx \/ prepared[op[Main].tx] = clock
      <4>1. state' = state \/ state'.tx = op[p].tx
        BY <1>3 DEF t
      <4>2. Busy(p)
        BY <1>1 DEF Busy
      <4> QED
        BY <2>0, <4>1, <4>2, OthersAgree DEF CycleInv
    <3> QED
      BY <2>0, <1>2, <3>1, <3>2, <3>3 DEF CycleInv
  <2>3. ReleasesInv'
    BY <2>0, <1>1, <1>2, <1>3 DEF ReleasesInv, t, network
  <2>4. Undoable'
    BY <2>0, <1>2 DEF Undoable, network
  <2> QED
    BY <2>1, <2>2, <2>3, <2>4
<1>8. SingleInv'
  BY <1>1, <1>2, <1>3, Numbers DEF NetworkInv, SingleInv, network
<1> QED
  BY <1>5, <1>6, <1>7, <1>8 DEF NetworkInv

LEMMA MarkKeeps ==
    ASSUME NetworkInv, NEW p \in Process, MarkRollbackFailure(p)
    PROVE  NetworkInv'
<1> DEFINE t == op[p].tx
<1>1. op[p].at = "fail" /\ t \in Tx /\ record[t] # "none"
  BY BusyIs DEF MarkRollbackFailure, NetworkInv
<1>2. /\ state' \in {state, [tx |-> t, phase |-> "rollback-failed"]} /\ Done(p)
      /\ faults' \in Nat
      /\ UNCHANGED <<record, snapshot, prepared, network, pc, open, pending, timers,
                     scenario, clock, confirmed>>
  BY <1>1 DEF MarkRollbackFailure, Write, WriteFails, Fault, NetworkInv, TypeOK
<1>3. /\ op' \in [Process -> [at : Place, tx : Tx \cup {None}]]
      /\ op'[p].at = "idle"
      /\ \A q \in Process : q # p => op'[q].at = op[q].at /\ op'[q].tx = op[q].tx
  BY <1>2, DoneIs DEF NetworkInv
<1>4. state' \in {state, [tx |-> t, phase |-> "rollback-failed"]}
  BY <1>2
<1> HIDE DEF t
<1>5. TypeOK'
  BY <1>1, <1>2, <1>3 DEF NetworkInv, TypeOK, Idle, Awaiting, network, Place, Phase
<1>6. PointsInv'
  BY <1>2 DEF NetworkInv, PointsInv, Trusted
<1>7. PromptInv'
  <2> SUFFICES ASSUME scenario.prompt
               PROVE  (WatchdogsInv /\ CycleInv /\ ReleasesInv /\ Undoable)'
    BY <1>2 DEF PromptInv
  <2>0. WatchdogsInv /\ CycleInv /\ ReleasesInv /\ Undoable
    BY DEF NetworkInv, PromptInv
  <2>1. WatchdogsInv'
    <3>1. \A q \in Tx : Busy(q)' => Busy(q) /\ op'[q].tx = op[q].tx
      BY <1>1, <1>3, Numbers DEF Busy, t
    <3>2. \A q \in Tx : Busy(q) => /\ op[q].tx <= state'.tx
                                   /\ state'.tx = op[q].tx \/ prepared[state'.tx] = clock
      <4>1. state' = state \/ state'.tx = op[p].tx
        BY <1>4 DEF t
      <4>2. Busy(p)
        BY <1>1 DEF Busy
      <4> QED
        BY <2>0, <4>1, <4>2, OthersAgree DEF WatchdogsInv
    <3>3. \A q \in Tx : Busy(q) => state'.tx \in Tx
      BY <2>0, <1>1, <1>4 DEF WatchdogsInv
    <3> QED
      BY <2>0, <1>2, <3>1, <3>2, <3>3 DEF WatchdogsInv
  <2>2. CycleInv'
    <3>1. Busy(Main)' => /\ Busy(Main) /\ op'[Main].tx = op[Main].tx
                         /\ op'[Main].at = op[Main].at
      BY <1>1, <1>3, Numbers DEF Busy, t
    <3>2. \A q \in Tx : Busy(q)' => Busy(q) /\ op'[q].tx = op[q].tx
      BY <1>1, <1>3, Numbers DEF Busy, t
    <3>3. Busy(Main) /\ state'.tx \in Tx =>
              /\ state'.tx <= op[Main].tx
              /\ state'.tx = op[Main].tx \/ prepared[op[Main].tx] = clock
      <4>1. state' = state \/ state'.tx = op[p].tx
        BY <1>4 DEF t
      <4>2. Busy(p)
        BY <1>1 DEF Busy
      <4> QED
        BY <2>0, <4>1, <4>2, OthersAgree DEF CycleInv
    <3> QED
      BY <2>0, <1>2, <3>1, <3>2, <3>3 DEF CycleInv
  <2>3. ReleasesInv'
    BY <2>0, <1>1, <1>2, <1>3 DEF ReleasesInv, t, network
  <2>4. Undoable'
    BY <2>0, <1>2 DEF Undoable, network
  <2> QED
    BY <2>1, <2>2, <2>3, <2>4
<1>8. SingleInv'
  BY <1>1, <1>2, <1>3, Numbers DEF NetworkInv, SingleInv, network
<1> QED
  BY <1>5, <1>6, <1>7, <1>8 DEF NetworkInv

LEMMA ReleaseKeeps ==
    ASSUME NetworkInv, NEW p \in Process, Release(p)
    PROVE  NetworkInv'
<1> DEFINE t == op[p].tx
<1>1. op[p].at = "release" /\ t \in Tx /\ record[t] # "none"
  BY BusyIs DEF Release, NetworkInv
<1>2. /\ record' \in {record, [record EXCEPT ![t] = "released"]} /\ Done(p)
      /\ faults' \in Nat
      /\ UNCHANGED <<state, snapshot, prepared, network, pc, open, pending, timers,
                     scenario, clock, confirmed>>
  BY <1>1 DEF Release, Put, PutFails, Fault, NetworkInv, TypeOK
<1>3. /\ op' \in [Process -> [at : Place, tx : Tx \cup {None}]]
      /\ op'[p].at = "idle"
      /\ \A q \in Process : q # p => op'[q].at = op[q].at /\ op'[q].tx = op[q].tx
  BY <1>2, DoneIs DEF NetworkInv
<1>4. /\ record' \in [Tx -> {"none", "armed", "released"}]
      /\ \A x \in Tx : x # t => record'[x] = record[x]
      /\ \A x \in Tx : record[x] # "none" => record'[x] # "none"
  BY <1>1, <1>2, RecordIs DEF NetworkInv
<1> HIDE DEF t
<1>5. TypeOK'
  <2>1. TypeOK
    BY DEF NetworkInv
  <2>2. \A q \in Process : op'[q].at # "idle" => op'[q].tx \in Tx /\ record'[op'[q].tx] # "none"
    BY <1>3, <1>4, <2>1, BusyIs
  <2> QED
    BY <1>2, <1>3, <1>4, <2>1, <2>2 DEF TypeOK, Idle, Awaiting, network, Place, Phase
<1>6. PointsInv'
  BY <1>2 DEF NetworkInv, PointsInv, Trusted
<1>7. PromptInv'
  <2> SUFFICES ASSUME scenario.prompt
               PROVE  (WatchdogsInv /\ CycleInv /\ ReleasesInv /\ Undoable)'
    BY <1>2 DEF PromptInv
  <2>0. WatchdogsInv /\ CycleInv /\ ReleasesInv /\ Undoable
    BY DEF NetworkInv, PromptInv
  <2>1. WatchdogsInv'
    BY <2>0, <1>1, <1>2, <1>3, Numbers DEF WatchdogsInv, Busy
  <2>2. CycleInv'
    <3>1. op[Main].at \in {"open", "change"} => record'[op[Main].tx] = "armed"
      <4> SUFFICES ASSUME op[Main].at \in {"open", "change"}
                   PROVE  record'[op[Main].tx] = "armed"
        OBVIOUS
      <4>1. p # Main /\ p \in Tx /\ op[Main].tx \in Tx
        BY <1>1, Numbers, BusyIs DEF NetworkInv
      <4>2. t # op[Main].tx
        BY <2>0, <1>1, <4>1, Numbers DEF NetworkInv, TypeOK, WatchdogsInv, CycleInv, Busy, t
      <4> QED
        BY <2>0, <1>4, <4>1, <4>2 DEF CycleInv, Busy
    <3> QED
      BY <2>0, <1>1, <1>2, <1>3, <3>1, Numbers DEF CycleInv, Busy
  <2>3. ReleasesInv'
    BY <2>0, <1>1, <1>2, <1>3 DEF ReleasesInv, network
  <2>4. Undoable'
    <3>1. net # 0 /\ net \notin confirmed => net # t
      BY <2>0, <1>1 DEF ReleasesInv, t
    <3> QED
      BY <2>0, <1>2, <1>4, <3>1 DEF Undoable, network, NetworkInv, TypeOK
  <2> QED
    BY <2>1, <2>2, <2>3, <2>4
<1>8. SingleInv'
  BY <1>1, <1>2, <1>3, Numbers DEF NetworkInv, SingleInv, network
<1> QED
  BY <1>5, <1>6, <1>7, <1>8 DEF NetworkInv


-----------------------------------------------------------------------------
(***************************************************************************)
(* The cycle.                                                              *)
(***************************************************************************)

\* The cycle is done with an operation or has none, and the files are what they were.
LEMMA QuietKeeps ==
    ASSUME NetworkInv,
           \/ op' = op
           \/ Done(Main),
           pc' \in {"down", "refresh", "sync", "acknowledge", "apply", "settle"},
           open' \in BOOLEAN, pending' \in Tx \cup {None}, timers' \subseteq Tx,
           faults' \in Nat, checkpoints' \subseteq Tx,
           UNCHANGED <<files, net, scenario, clock, confirmed>>
    PROVE  NetworkInv'
<1>1. TypeOK /\ \A q \in Process : op[q].at # "idle" => op[q].tx \in Tx /\ record[op[q].tx] # "none"
  BY BusyIs DEF NetworkInv
<1>2. /\ op' \in [Process -> [at : Place, tx : Tx \cup {None}]]
      /\ op'[Main].at \in {"idle", op[Main].at}
      /\ \A q \in Process : op'[q].at # "idle" => op'[q].at = op[q].at /\ op'[q].tx = op[q].tx
  BY <1>1, DoneIs, Numbers DEF TypeOK, Place
<1>3. TypeOK'
  BY <1>1, <1>2 DEF TypeOK, Idle, Awaiting, files, Place
<1>4. PointsInv' /\ SingleInv'
  <2>1. \A q \in Process : op'[q].at \in {"idle", op[q].at}
    BY <1>2
  <2> QED
    BY <2>1 DEF NetworkInv, PointsInv, SingleInv, Trusted, files
<1>5. PromptInv'
  <2>1. \A q \in Process : Busy(q)' => Busy(q) /\ op'[q].at = op[q].at /\ op'[q].tx = op[q].tx
    BY <1>2 DEF Busy
  <2>2. \A q \in Process : op'[q].at \in {"write", "release", "open"} =>
            op'[q].at = op[q].at /\ op'[q].tx = op[q].tx
    BY <1>2
  <2>3. ReleasesInv => ReleasesInv'
    BY <2>2 DEF ReleasesInv
  <2>4. WatchdogsInv => WatchdogsInv'
    BY <2>1, Numbers DEF WatchdogsInv, files
  <2>5. CycleInv => CycleInv'
    BY <2>1, Numbers DEF CycleInv, files
  <2>6. Undoable => Undoable'
    BY DEF Undoable, files
  <2> QED
    BY <2>3, <2>4, <2>5, <2>6 DEF NetworkInv, PromptInv
<1> QED
  BY <1>3, <1>4, <1>5 DEF NetworkInv

\* The cycle begins to roll back or to confirm what the state says awaits.
LEMMA BeginKeeps ==
    ASSUME NetworkInv, NEW at \in {"restore", "destroy", "confirm"},
           Awaiting, Armed(state.tx), Goto(Main, at, state.tx),
           at # "restore" => ~Overdue,
           pc' \in {"down", "refresh", "sync", "acknowledge", "apply", "settle"},
           pending' \in Tx \cup {None}, open' = open, timers' = timers, faults' = faults,
           UNCHANGED <<files, network, scenario, clock, confirmed>>
    PROVE  NetworkInv'
<1>1. TypeOK /\ state.tx \in Tx /\ record[state.tx] = "armed"
  BY DEF NetworkInv, TypeOK, Armed
<1>2. /\ op' \in [Process -> [at : Place, tx : Tx \cup {None}]]
      /\ op'[Main].at = at /\ op'[Main].tx = state.tx
      /\ \A q \in Process : q # Main => op'[q].at = op[q].at /\ op'[q].tx = op[q].tx
  <2> DEFINE t == state.tx
  <2>1. at \in Place /\ t \in Tx \cup {None} /\ Goto(Main, at, t) /\ Main \in Process
    BY <1>1, Numbers DEF Place
  <2> HIDE DEF t
  <2>2. /\ op' \in [Process -> [at : Place, tx : Tx \cup {None}]]
        /\ op'[Main].at = at /\ op'[Main].tx = t
        /\ \A q \in Process : q # Main => op'[q].at = op[q].at /\ op'[q].tx = op[q].tx
    BY <1>1, <2>1, GotoIs
  <2> QED
    BY <2>2 DEF t
<1>3. at # "restore" => clock < prepared[state.tx] + Timeout
  <2>1. clock \in Nat /\ prepared[state.tx] \in Nat
    BY <1>1 DEF TypeOK
  <2> QED
    BY <2>1, Numbers DEF Overdue
<1>4. \A q \in Process : op'[q].at # "idle" => op'[q].tx \in Tx /\ record[op'[q].tx] # "none"
  BY <1>1, <1>2, BusyIs
<1>5. TypeOK'
  BY <1>1, <1>2, <1>4 DEF TypeOK, Idle, Awaiting, files, network, Place
<1>6. PointsInv' /\ SingleInv'
  BY <1>1, <1>2, Numbers DEF NetworkInv, PointsInv, SingleInv, Trusted, files, network
<1>7. PromptInv'
  <2> SUFFICES ASSUME scenario.prompt
               PROVE  (WatchdogsInv /\ CycleInv /\ ReleasesInv /\ Undoable)'
    BY DEF PromptInv
  <2>0. WatchdogsInv /\ CycleInv /\ ReleasesInv /\ Undoable
    BY DEF NetworkInv, PromptInv
  <2>1. WatchdogsInv'
    BY <2>0, <1>2, Numbers DEF WatchdogsInv, Busy, files
  <2>2. CycleInv'
    <3>1. state.tx <= state.tx
      <4>1. \A n \in Nat : n <= n
        OBVIOUS
      <4>2. state.tx \in Nat
        BY <1>1 DEF Tx
      <4> QED
        BY <4>1, <4>2
    <3>2. \A q \in Tx : Busy(q)' =>
              /\ op'[q].tx <= state.tx
              /\ op'[q].tx = state.tx \/ prepared[state.tx] = clock
      BY <2>0, <1>2, Numbers DEF WatchdogsInv, Busy
    <3>3. op'[Main].at \in {"destroy", "confirm"} => clock < prepared[state.tx] + Timeout
      BY <1>2, <1>3
    <3>4. op'[Main].at \notin {"open", "change"}
      BY <1>2
    <3> QED
      BY <1>2, <3>1, <3>2, <3>3, <3>4 DEF CycleInv, files
  <2>3. ReleasesInv'
    BY <2>0, <1>2 DEF ReleasesInv, network
  <2>4. Undoable'
    BY <2>0 DEF Undoable, files, network
  <2> QED
    BY <2>1, <2>2, <2>3, <2>4
<1> QED
  BY <1>5, <1>6, <1>7 DEF NetworkInv

LEMMA RefreshKeeps ==
    ASSUME NetworkInv, Refresh
    PROVE  NetworkInv'
<1>1. CASE open /\ Overdue
  <2>1. Awaiting /\ Armed(state.tx) /\ Goto(Main, "restore", state.tx) /\ pending' = pending
    BY <1>1 DEF Refresh, Overdue
  <2>2. pending' \in Tx \cup {None} /\ pc' \in {"sync", "refresh"}
    BY <2>1 DEF Refresh, NetworkInv, TypeOK
  <2> QED
    BY <2>1, <2>2, BeginKeeps DEF Refresh
<1>2. CASE ~(open /\ Overdue)
  <2>1. /\ op' = op /\ pc' \in {"sync", "refresh"} /\ pending' \in Tx \cup {None}
        /\ UNCHANGED <<files, network, open, timers, scenario, clock, faults, confirmed>>
    BY <1>2 DEF Refresh, NetworkInv, TypeOK
  <2> QED
    BY <2>1, QuietKeeps DEF NetworkInv, TypeOK, network
<1> QED
  BY <1>1, <1>2

LEMMA AcknowledgeKeeps ==
    ASSUME NetworkInv, Acknowledge
    PROVE  NetworkInv'
<1>0. /\ pc' = "apply" /\ pending' = None
      /\ UNCHANGED <<files, network, open, timers, scenario, clock, faults, confirmed>>
  BY DEF Acknowledge
<1>1. CASE Overdue /\ Goto(Main, "restore", state.tx)
  BY <1>0, <1>1, BeginKeeps DEF Overdue
<1>2. CASE /\ Awaiting /\ Armed(state.tx) /\ ~Overdue
           /\ Goto(Main, IF scenario.manager THEN "destroy" ELSE "confirm", state.tx)
  <2>1. (IF scenario.manager THEN "destroy" ELSE "confirm") \in {"restore", "destroy", "confirm"}
    OBVIOUS
  <2> QED
    BY <1>0, <1>2, <2>1, BeginKeeps
<1>3. CASE op' = op
  BY <1>0, <1>3, QuietKeeps DEF NetworkInv, TypeOK, network
<1> QED
  BY <1>1, <1>2, <1>3 DEF Acknowledge

LEMMA DestroyKeeps ==
    ASSUME NetworkInv, DestroyCheckpoint
    PROVE  NetworkInv'
<1>1. /\ op[Main].at = "destroy" /\ op[Main].tx \in Tx /\ record[op[Main].tx] # "none"
  BY BusyIs, Numbers DEF DestroyCheckpoint, NetworkInv
<1>2. /\ faults' \in Nat /\ checkpoints' \subseteq Tx
      /\ UNCHANGED <<files, net, pc, open, pending, timers, scenario, clock, confirmed>>
      /\ Goto(Main, "confirm", op[Main].tx) \/ Done(Main)
  BY DEF DestroyCheckpoint, Fault, NetworkInv, TypeOK
<1>3. CASE Done(Main)
  BY <1>2, <1>3, QuietKeeps DEF NetworkInv, TypeOK
<1>4. CASE Goto(Main, "confirm", op[Main].tx)
  <2>1. /\ op' \in [Process -> [at : Place, tx : Tx \cup {None}]]
        /\ op'[Main].at = "confirm" /\ op'[Main].tx = op[Main].tx
        /\ \A q \in Process : q # Main => op'[q].at = op[q].at /\ op'[q].tx = op[q].tx
    <3> DEFINE t == op[Main].tx
    <3>1. /\ "confirm" \in Place /\ t \in Tx \cup {None} /\ Main \in Process
          /\ Goto(Main, "confirm", t)
      BY <1>1, <1>4, Numbers DEF Place
    <3> HIDE DEF t
    <3>2. /\ op' \in [Process -> [at : Place, tx : Tx \cup {None}]]
          /\ op'[Main].at = "confirm" /\ op'[Main].tx = t
          /\ \A q \in Process : q # Main => op'[q].at = op[q].at /\ op'[q].tx = op[q].tx
      BY <3>1, GotoIs DEF NetworkInv
    <3> QED
      BY <3>2 DEF t
  <2>2. \A q \in Process : op'[q].at # "idle" => op'[q].tx \in Tx /\ record[op'[q].tx] # "none"
    BY <1>1, <2>1, BusyIs DEF NetworkInv
  <2>3. TypeOK'
    BY <1>2, <2>1, <2>2 DEF NetworkInv, TypeOK, Idle, Awaiting, files, Place
  <2>4. PointsInv' /\ SingleInv'
    BY <1>1, <1>2, <2>1, Numbers DEF NetworkInv, PointsInv, SingleInv, Trusted, files
  <2>5. ASSUME scenario.prompt
        PROVE  (WatchdogsInv /\ CycleInv /\ ReleasesInv /\ Undoable)'
    <3>0. WatchdogsInv /\ CycleInv /\ ReleasesInv /\ Undoable
      BY <2>5 DEF NetworkInv, PromptInv
    <3>1. WatchdogsInv'
      BY <3>0, <1>2, <2>1, Numbers DEF WatchdogsInv, Busy, files
    <3>2. CycleInv'
      BY <3>0, <1>1, <1>2, <2>1, Numbers DEF CycleInv, Busy, files
    <3>3. ReleasesInv' /\ Undoable'
      BY <3>0, <1>2, <2>1 DEF ReleasesInv, Undoable, files
    <3> QED
      BY <3>1, <3>2, <3>3
  <2> QED
    BY <1>2, <2>3, <2>4, <2>5 DEF NetworkInv, PromptInv
<1> QED
  BY <1>2, <1>3, <1>4


LEMMA ConfirmKeeps ==
    ASSUME NetworkInv, Confirm
    PROVE  NetworkInv'
<1> DEFINE u == op[Main].tx
<1>1. /\ op[Main].at = "confirm" /\ u \in Tx /\ record[u] # "none" /\ Main \in Process
  BY BusyIs, Numbers DEF Confirm, NetworkInv
<1>2. /\ faults' \in Nat
      /\ UNCHANGED <<record, snapshot, prepared, network, pc, open, pending, timers, scenario,
                     clock>>
      /\ \/ /\ state' = [tx |-> u, phase |-> "acknowledged"]
            /\ confirmed' = confirmed \cup {u} /\ Goto(Main, "release", u)
         \/ state' = state /\ confirmed' = confirmed /\ Done(Main)
  BY DEF Confirm, Write, WriteFails, Fault, NetworkInv, TypeOK
<1>3. CASE state' = state /\ confirmed' = confirmed /\ Done(Main)
  BY <1>2, <1>3, QuietKeeps DEF NetworkInv, TypeOK, network, files
<1>4. CASE /\ state' = [tx |-> u, phase |-> "acknowledged"]
           /\ confirmed' = confirmed \cup {u} /\ Goto(Main, "release", u)
  <2>0. Busy(Main) /\ state'.tx = op[Main].tx
    BY <1>1, <1>4 DEF Busy
  <2>1. /\ op' \in [Process -> [at : Place, tx : Tx \cup {None}]]
        /\ op'[Main].at = "release" /\ op'[Main].tx = u
        /\ \A q \in Process : q # Main => op'[q].at = op[q].at /\ op'[q].tx = op[q].tx
    <3>1. "release" \in Place /\ u \in Tx \cup {None}
      BY <1>1 DEF Place
    <3> HIDE DEF u
    <3> QED
      BY <1>1, <1>4, <3>1, GotoIs DEF NetworkInv
  <2> HIDE DEF u
  <2>2. \A q \in Process : op'[q].at # "idle" => op'[q].tx \in Tx /\ record[op'[q].tx] # "none"
    BY <1>1, <2>1, BusyIs DEF NetworkInv
  <2>3. TypeOK'
    BY <1>1, <1>2, <1>4, <2>1, <2>2 DEF NetworkInv, TypeOK, Idle, Awaiting, network, Place,
       Phase
  <2>4. PointsInv' /\ SingleInv'
    BY <1>1, <1>2, <1>4, <2>1, Numbers DEF NetworkInv, PointsInv, SingleInv, Trusted, network
  <2>5. ASSUME scenario.prompt
        PROVE  (WatchdogsInv /\ CycleInv /\ ReleasesInv /\ Undoable)'
    <3>0. WatchdogsInv /\ CycleInv /\ ReleasesInv /\ Undoable
      BY <2>5 DEF NetworkInv, PromptInv
    <3>1. WatchdogsInv'
      <4>1. \A q \in Tx : Busy(q) =>
                /\ op[q].tx <= state'.tx
                /\ state'.tx = op[q].tx \/ prepared[state'.tx] = clock
        BY <2>5, <2>0, <1>1, OthersAgree
      <4>2. \A q \in Tx : Busy(q)' => Busy(q) /\ op'[q].tx = op[q].tx
        BY <2>1, Numbers DEF Busy
      <4> QED
        BY <3>0, <1>1, <1>2, <1>4, <4>1, <4>2 DEF WatchdogsInv
    <3>2. CycleInv'
      <4>1. u <= u
        BY <1>1 DEF Tx
      <4> QED
        BY <3>0, <1>1, <1>2, <1>4, <2>0, <2>1, <4>1, Numbers DEF CycleInv, Busy, u
    <3>3. ReleasesInv' /\ Undoable'
      BY <3>0, <1>2, <1>4, <2>1 DEF ReleasesInv, Undoable, network
    <3> QED
      BY <3>1, <3>2, <3>3
  <2> QED
    BY <1>2, <2>3, <2>4, <2>5 DEF NetworkInv, PromptInv
<1> QED
  BY <1>2, <1>3, <1>4

\* What is in effect when a transaction is reserved is to be trusted, because a record
\* that holds its payload is one that awaits.
LEMMA ReservedIs ==
    ASSUME scenario.transactions = 1 \/ (scenario.prompt /\ ~Sensitive), NetworkInv, Reserve
    PROVE  /\ Attempt \in Tx /\ net \in Trusted
           /\ state.tx \in Tx => Attempt = state.tx + 1
           /\ scenario.transactions = 1 => state.tx = None /\ net = 0
<1>1. /\ TypeOK /\ Healthy /\ ~Awaiting /\ Attempt <= scenario.transactions
      /\ scenario \in Scenarios
  BY DEF Reserve, NetworkInv, TypeOK
<1>2. scenario.transactions \in 1..MaxTx
  BY <1>1, ConstantsAssumption DEF Scenario
<1>3. /\ state.tx \in Tx => Attempt = state.tx + 1 /\ state.tx \in Nat /\ state.tx >= 1
      /\ state.tx \notin Tx => state.tx = None /\ Attempt = 1
  BY <1>1, Numbers DEF Attempt, TypeOK, Tx
<1>4. Attempt \in Tx
  BY <1>1, <1>2, <1>3, Numbers DEF Tx
<1>5. scenario.transactions = 1 => state.tx = None /\ net = 0
  <2>1. scenario.transactions = 1 => state.tx = None
    BY <1>1, <1>3
  <2> QED
    BY <2>1 DEF NetworkInv, SingleInv
<1>6. scenario.transactions # 1 => net \in Trusted
  <2> SUFFICES ASSUME scenario.prompt, ~Sensitive, net \notin Trusted
               PROVE  FALSE
    OBVIOUS
  <2>1. net \in Tx /\ record[net] = "armed"
    BY <1>1 DEF NetworkInv, PromptInv, Undoable, Trusted, TypeOK
  <2>2. Armed(net)
    BY <2>1 DEF Armed
  <2> QED
    BY <1>1, <2>1, <2>2 DEF Healthy
<1> QED
  BY <1>3, <1>4, <1>5, <1>6 DEF Trusted

LEMMA ReserveKeeps ==
    ASSUME scenario.transactions = 1 \/ (scenario.prompt /\ ~Sensitive), NetworkInv, Reserve
    PROVE  NetworkInv'
<1> DEFINE a == Attempt
<1>1. /\ a \in Tx /\ net \in Trusted
      /\ state.tx \in Tx => a = state.tx + 1
      /\ scenario.transactions = 1 => state.tx = None /\ net = 0
  BY ReservedIs
<1>2. /\ snapshot' = [snapshot EXCEPT ![a] = net] /\ prepared' = [prepared EXCEPT ![a] = clock]
      /\ record' \in {record, [record EXCEPT ![a] = "armed"]}
      /\ \/ record' = [record EXCEPT ![a] = "armed"] /\ Goto(Main, "open", a)
         \/ op' = op
      /\ op[Main].at = "idle"
      /\ pc' \in {pc, "settle"} /\ faults' \in Nat /\ checkpoints' \subseteq Tx
      /\ UNCHANGED <<state, net, open, pending, timers, scenario, clock, confirmed>>
  <2>1. Taken(a) \subseteq Tx /\ checkpoints \cup {a} \subseteq Tx /\ checkpoints \subseteq Tx
    BY <1>1 DEF Taken, NetworkInv, TypeOK
  <2>2. faults \in Nat
    BY DEF NetworkInv, TypeOK
  <2> QED
    BY <2>1, <2>2 DEF Reserve, Put, PutFails, Fault, At, Idle
<1> HIDE DEF a
<1>3. /\ op' \in [Process -> [at : Place, tx : Tx \cup {None}]]
      /\ \/ /\ op'[Main].at = "open" /\ op'[Main].tx = a /\ record'[a] = "armed"
         \/ op'[Main].at = "idle"
      /\ \A q \in Process : q # Main => op'[q].at = op[q].at /\ op'[q].tx = op[q].tx
  <2>1. "open" \in Place /\ a \in Tx \cup {None} /\ Main \in Process
    BY <1>1, Numbers DEF Place
  <2>2. CASE op' = op
    BY <1>2, <2>2 DEF NetworkInv, TypeOK, Place
  <2>3. CASE record' = [record EXCEPT ![a] = "armed"] /\ Goto(Main, "open", a)
    BY <1>1, <2>1, <2>3, GotoIs DEF NetworkInv, TypeOK
  <2> QED
    BY <1>2, <2>2, <2>3
<1>4. /\ record' \in [Tx -> {"none", "armed", "released"}]
      /\ \A x \in Tx : record[x] # "none" => record'[x] # "none"
  BY <1>1, <1>2, RecordIs DEF NetworkInv
<1>5. /\ snapshot' \in [Tx -> Tx \cup {0}] /\ prepared' \in [Tx -> Nat]
      /\ snapshot'[a] = net /\ prepared'[a] = clock
      /\ \A x \in Tx : x # a => snapshot'[x] = snapshot[x] /\ prepared'[x] = prepared[x]
  BY <1>1, <1>2 DEF NetworkInv, TypeOK
<1>6. \A q \in Process : op'[q].at # "idle" => op'[q].tx \in Tx /\ record'[op'[q].tx] # "none"
  BY <1>1, <1>3, <1>4, BusyIs DEF NetworkInv
<1>7. TypeOK'
  BY <1>2, <1>3, <1>4, <1>5, <1>6 DEF NetworkInv, TypeOK, Idle, Awaiting, Place
<1>8. PointsInv' /\ SingleInv'
  <2>1. PointsInv'
    BY <1>1, <1>2, <1>5 DEF NetworkInv, PointsInv, Trusted
  <2>2. SingleInv'
    BY <1>1, <1>2, <1>3, <1>5 DEF NetworkInv, SingleInv
  <2> QED
    BY <2>1, <2>2
<1>9. ASSUME scenario.prompt
      PROVE  (WatchdogsInv /\ CycleInv /\ ReleasesInv /\ Undoable)'
  <2>0. WatchdogsInv /\ CycleInv /\ ReleasesInv /\ Undoable
    BY <1>9 DEF NetworkInv, PromptInv
  <2>1. \A q \in Tx : Busy(q) =>
            /\ op[q].tx \in Tx /\ op[q].tx # a /\ op[q].tx <= a
            /\ state.tx \in Tx /\ state.tx # a
    <3>1. \A q \in Tx : Busy(q) => /\ op[q].tx \in Tx /\ state.tx \in Tx
                                   /\ op[q].tx <= state.tx
      BY <2>0, BusyIs, Numbers DEF WatchdogsInv, Busy, NetworkInv
    <3> QED
      BY <3>1, <1>1, Numbers
  <2>2. \A q \in Tx : Busy(q)' => Busy(q) /\ op'[q].tx = op[q].tx
    BY <1>3, Numbers DEF Busy
  <2>3. WatchdogsInv'
    BY <2>0, <2>1, <2>2, <1>2, <1>5 DEF WatchdogsInv
  <2>4. CycleInv'
    <3>1. CASE op'[Main].at = "idle"
      BY <3>1 DEF CycleInv, Busy
    <3>2. CASE op'[Main].at = "open" /\ op'[Main].tx = a /\ record'[a] = "armed"
      <4>1. state.tx \in Tx => state.tx <= a
        <5>1. \A n \in Nat : n <= n + 1
          OBVIOUS
        <5> QED
          BY <5>1, <1>1 DEF Tx
      <4>2. snapshot'[a] # a \/ a \in confirmed
        BY <1>1, <1>5, Numbers DEF Trusted
      <4> QED
        BY <2>1, <2>2, <3>2, <4>1, <4>2, <1>2, <1>5 DEF CycleInv
    <3> QED
      BY <1>3, <3>1, <3>2
  <2>5. ReleasesInv'
    <3>1. net # a \/ a \in confirmed
      BY <1>1, Numbers DEF Trusted
    <3> QED
      BY <2>0, <1>2, <1>3, <3>1 DEF ReleasesInv
  <2>6. Undoable'
    BY <1>1, <1>2 DEF Undoable, Trusted
  <2> QED
    BY <2>3, <2>4, <2>5, <2>6
<1> QED
  BY <1>2, <1>7, <1>8, <1>9 DEF NetworkInv, PromptInv


LEMMA OpenKeeps ==
    ASSUME NetworkInv, OpenTransaction
    PROVE  NetworkInv'
<1> DEFINE u == op[Main].tx
<1>1. /\ op[Main].at = "open" /\ u \in Tx /\ record[u] # "none" /\ Main \in Process
  BY BusyIs, Numbers DEF OpenTransaction, NetworkInv
<1>2. /\ faults' \in Nat /\ pc' \in {pc, "settle"} /\ checkpoints' \subseteq Tx
      /\ UNCHANGED <<record, snapshot, prepared, net, open, pending, timers, scenario,
                     clock, confirmed>>
      /\ \/ state' = [tx |-> u, phase |-> "awaiting"] /\ Goto(Main, "change", u)
         \/ state' = state /\ Goto(Main, "release", u)
  BY DEF OpenTransaction, Write, WriteFails, Fault, NetworkInv, TypeOK
<1>3. /\ state' = [tx |-> u, phase |-> "awaiting"] \/ state' = state
      /\ op' \in [Process -> [at : Place, tx : Tx \cup {None}]]
      /\ \/ op'[Main].at = "change" /\ state' = [tx |-> u, phase |-> "awaiting"]
         \/ op'[Main].at = "release"
      /\ op'[Main].tx = u
      /\ \A q \in Process : q # Main => op'[q].at = op[q].at /\ op'[q].tx = op[q].tx
  <2>1. "release" \in Place /\ "change" \in Place /\ u \in Tx \cup {None}
    BY <1>1 DEF Place
  <2>2. CASE state' = [tx |-> u, phase |-> "awaiting"] /\ Goto(Main, "change", u)
    <3> HIDE DEF u
    <3> QED
      BY <1>1, <2>1, <2>2, GotoIs DEF NetworkInv
  <2>3. CASE state' = state /\ Goto(Main, "release", u)
    <3> HIDE DEF u
    <3> QED
      BY <1>1, <2>1, <2>3, GotoIs DEF NetworkInv
  <2> QED
    BY <1>2, <2>2, <2>3
<1>4. Busy(Main) /\ (state' = state \/ state'.tx = op[Main].tx)
  BY <1>1, <1>3 DEF Busy
<1> HIDE DEF u
<1>5. \A q \in Process : op'[q].at # "idle" => op'[q].tx \in Tx /\ record[op'[q].tx] # "none"
  BY <1>1, <1>3, BusyIs DEF NetworkInv
<1>6. TypeOK'
  BY <1>1, <1>2, <1>3, <1>5 DEF NetworkInv, TypeOK, Idle, Awaiting, Place, Phase
<1>7. PointsInv' /\ SingleInv'
  BY <1>1, <1>2, <1>3, Numbers DEF NetworkInv, PointsInv, SingleInv, Trusted
<1>8. ASSUME scenario.prompt
      PROVE  (WatchdogsInv /\ CycleInv /\ ReleasesInv /\ Undoable)'
  <2>0. WatchdogsInv /\ CycleInv /\ ReleasesInv /\ Undoable
    BY <1>8 DEF NetworkInv, PromptInv
  <2>1. WatchdogsInv'
    <3>1. \A q \in Tx : Busy(q) =>
              /\ op[q].tx <= state'.tx /\ state'.tx \in Tx
              /\ state'.tx = op[q].tx \/ prepared[state'.tx] = clock
      <4>1. state'.tx = op[Main].tx => state'.tx \in Tx
        BY <1>1 DEF u
      <4> QED
        BY <1>8, <1>1, <1>4, <2>0, <4>1, OthersAgree DEF WatchdogsInv
    <3>2. \A q \in Tx : Busy(q)' => Busy(q) /\ op'[q].tx = op[q].tx
      BY <1>3, Numbers DEF Busy
    <3> QED
      BY <2>0, <1>2, <3>1, <3>2 DEF WatchdogsInv
  <2>2. CycleInv'
    <3>1. u <= u
      BY <1>1 DEF Tx
    <3> QED
      BY <2>0, <1>1, <1>2, <1>3, <3>1, Numbers DEF CycleInv, Busy, u
  <2>3. ReleasesInv' /\ Undoable'
    BY <2>0, <1>1, <1>2, <1>3 DEF ReleasesInv, Undoable, u
  <2> QED
    BY <2>1, <2>2, <2>3
<1> QED
  BY <1>2, <1>6, <1>7, <1>8 DEF NetworkInv, PromptInv

\* The cycle puts its transaction into effect.
LEMMA InEffectKeeps ==
    ASSUME NetworkInv, op[Main].at = "change", net' \in {net, op[Main].tx},
           Done(Main), pc' = "settle", faults' \in Nat, timers' \subseteq Tx,
           UNCHANGED <<files, checkpoints, open, pending, scenario, clock, confirmed>>
    PROVE  NetworkInv'
<1> DEFINE u == op[Main].tx
<1>1. u \in Tx /\ record[u] # "none" /\ Main \in Process
  BY BusyIs, Numbers DEF NetworkInv
<1>2. /\ op' \in [Process -> [at : Place, tx : Tx \cup {None}]]
      /\ op'[Main].at = "idle"
      /\ \A q \in Process : q # Main => op'[q].at = op[q].at /\ op'[q].tx = op[q].tx
  BY <1>1, DoneIs DEF NetworkInv
<1>3. \A q \in Process : op'[q].at # "idle" => op'[q].tx \in Tx /\ record[op'[q].tx] # "none"
  BY <1>2, BusyIs DEF NetworkInv
<1>4. net' \in Tx \cup {0}
  BY <1>1 DEF NetworkInv, TypeOK
<1>5. TypeOK'
  BY <1>2, <1>3, <1>4 DEF NetworkInv, TypeOK, Idle, Awaiting, Place, files
<1>6. PointsInv' /\ SingleInv'
  BY <1>1, <1>2, Numbers DEF NetworkInv, PointsInv, SingleInv, Trusted, files
<1>7. ASSUME scenario.prompt
      PROVE  (WatchdogsInv /\ CycleInv /\ ReleasesInv /\ Undoable)'
  <2>0. WatchdogsInv /\ CycleInv /\ ReleasesInv /\ Undoable
    BY <1>7 DEF NetworkInv, PromptInv
  <2>1. /\ record[u] = "armed" /\ prepared[u] = clock
        /\ snapshot[u] # u \/ u \in confirmed
    BY <2>0 DEF CycleInv, Busy
  <2>2. \A q \in Tx : Busy(q)' => Busy(q) /\ op'[q].tx = op[q].tx
    BY <1>2, Numbers DEF Busy
  <2>3. WatchdogsInv' /\ CycleInv'
    BY <2>0, <2>2, <1>2 DEF WatchdogsInv, CycleInv, Busy, files
  <2>4. ReleasesInv'
    <3>1. \A q \in Tx : Busy(q) => op[q].tx # u
      <4>1. \A q \in Tx : Busy(q) => prepared[op[q].tx] + Timeout <= clock
        BY <2>0 DEF WatchdogsInv
      <4>2. clock \in Nat
        BY DEF NetworkInv, TypeOK
      <4> QED
        BY <4>1, <4>2, <2>1, Numbers
    <3>2. \A q \in Process : op'[q].at \in {"write", "release", "open"} =>
              q \in Tx /\ Busy(q) /\ op'[q].tx = op[q].tx /\ op'[q].at = op[q].at
      BY <1>2, Numbers DEF Busy
    <3> QED
      BY <2>0, <3>1, <3>2 DEF ReleasesInv
  <2>5. Undoable'
    BY <2>0, <2>1, <1>1 DEF Undoable, files
  <2> QED
    BY <2>3, <2>4, <2>5
<1> QED
  BY <1>5, <1>6, <1>7 DEF NetworkInv, PromptInv

LEMMA ChangeKeeps ==
    ASSUME NetworkInv, Change
    PROVE  NetworkInv'
<1>1. /\ op[Main].at = "change" /\ net' \in {net, op[Main].tx} /\ pc' = "settle"
      /\ op[Main].tx \in Tx
  BY BusyIs, Numbers DEF Change, NetworkInv
<1>2. /\ faults' \in Nat /\ timers' \subseteq Tx
      /\ UNCHANGED <<files, checkpoints, open, pending, scenario, clock, confirmed>>
  BY <1>1 DEF Change, Fault, NetworkInv, TypeOK
<1>3. CASE Done(Main)
  BY <1>1, <1>2, <1>3, InEffectKeeps
<1>4. CASE Awaiting /\ Armed(state.tx) /\ Goto(Main, "restore", state.tx)
  \* as if the change were over, and its rollback began
  <2> DEFINE t == state.tx
  <2>1. Main \in Process /\ Goto(Main, "restore", t) /\ t \in Tx /\ "restore" \in Place
    BY <1>4, Numbers DEF NetworkInv, TypeOK, Place
  <2>2. /\ op' \in [Process -> [at : Place, tx : Tx \cup {None}]]
        /\ op'[Main].at = "restore" /\ op'[Main].tx = t
        /\ \A q \in Process : q # Main => op'[q].at = op[q].at /\ op'[q].tx = op[q].tx
    <3> HIDE DEF t
    <3> QED
      BY <2>1, GotoIs DEF NetworkInv
  <2>3. record[t] # "none"
    BY <1>4 DEF Armed
  <2> HIDE DEF t
  <2>4. \A q \in Process : op'[q].at # "idle" => op'[q].tx \in Tx /\ record[op'[q].tx] # "none"
    BY <2>1, <2>2, <2>3, BusyIs DEF NetworkInv
  <2>5. TypeOK'
    BY <1>1, <1>2, <2>2, <2>4 DEF NetworkInv, TypeOK, Idle, Awaiting, Place, files
  <2>6. PointsInv' /\ SingleInv'
    BY <1>1, <1>2, <2>1, <2>2, Numbers DEF NetworkInv, PointsInv, SingleInv, Trusted, files, t
  <2>7. ASSUME scenario.prompt
        PROVE  (WatchdogsInv /\ CycleInv /\ ReleasesInv /\ Undoable)'
    <3>0. WatchdogsInv /\ CycleInv /\ ReleasesInv /\ Undoable
      BY <2>7 DEF NetworkInv, PromptInv
    <3>1. \A q \in Tx : Busy(q)' => Busy(q) /\ op'[q].tx = op[q].tx /\ op'[q].at = op[q].at
      BY <2>2, Numbers DEF Busy
    <3>2. WatchdogsInv'
      BY <3>0, <3>1, <1>2 DEF WatchdogsInv, files
    <3>3. CycleInv'
      <4>1. t <= t
        BY <2>1 DEF Tx
      <4>2. \A q \in Tx : Busy(q) => /\ op[q].tx <= t
                                     /\ op[q].tx = t \/ prepared[t] = clock
        BY <3>0 DEF WatchdogsInv, t
      <4> QED
        BY <3>1, <4>1, <4>2, <2>2, <1>2 DEF CycleInv, files, t
    <3>4. /\ record[op[Main].tx] = "armed" /\ prepared[op[Main].tx] = clock
          /\ snapshot[op[Main].tx] # op[Main].tx \/ op[Main].tx \in confirmed
      BY <3>0, <1>1 DEF CycleInv, Busy
    <3>5. ReleasesInv'
      <4>1. \A q \in Tx : Busy(q) => op[q].tx # op[Main].tx
        <5>1. \A q \in Tx : Busy(q) => prepared[op[q].tx] + Timeout <= clock
          BY <3>0 DEF WatchdogsInv
        <5>2. clock \in Nat
          BY DEF NetworkInv, TypeOK
        <5> QED
          BY <5>1, <5>2, <3>4, Numbers
      <4>2. \A q \in Process : op'[q].at \in {"write", "release", "open"} =>
                q \in Tx /\ Busy(q) /\ op'[q].tx = op[q].tx /\ op'[q].at = op[q].at
        BY <2>2, Numbers DEF Busy
      <4> QED
        BY <3>0, <1>1, <1>2, <4>1, <4>2 DEF ReleasesInv
    <3>6. Undoable'
      BY <3>0, <3>4, <1>1, <1>2 DEF Undoable, files
    <3> QED
      BY <3>2, <3>3, <3>5, <3>6
  <2> QED
    BY <1>2, <2>5, <2>6, <2>7 DEF NetworkInv, PromptInv
<1> QED
  BY <1>3, <1>4 DEF Change


-----------------------------------------------------------------------------
(***************************************************************************)
(* Watchdogs, timers, crashes and time.                                    *)
(***************************************************************************)
LEMMA WatchdogKeeps ==
    ASSUME NetworkInv, NEW w \in Tx, WatchdogFires(w)
    PROVE  NetworkInv'
<1>0. /\ timers' \subseteq Tx
      /\ UNCHANGED <<files, network, pc, open, pending, scenario, clock, faults, confirmed>>
  BY DEF WatchdogFires, NetworkInv, TypeOK
<1>1. CASE ~Overdue
  BY <1>0, <1>1, QuietKeeps DEF WatchdogFires, NetworkInv, TypeOK, network
<1>2. CASE Overdue
  <2> DEFINE t == state.tx
  <2>1. /\ w \in Process /\ Goto(w, "restore", t) /\ t \in Tx /\ "restore" \in Place
        /\ record[t] = "armed"
    BY <1>2, Numbers DEF WatchdogFires, Overdue, Armed, NetworkInv, TypeOK, Place
  <2>2. /\ op' \in [Process -> [at : Place, tx : Tx \cup {None}]]
        /\ op'[w].at = "restore" /\ op'[w].tx = t
        /\ \A q \in Process : q # w => op'[q].at = op[q].at /\ op'[q].tx = op[q].tx
    <3> HIDE DEF t
    <3> QED
      BY <2>1, GotoIs DEF NetworkInv
  <2>3. prepared[t] + Timeout <= clock /\ clock < clock + Timeout /\ prepared[t] # clock
    <3>1. prepared[t] \in Nat /\ clock \in Nat
      BY <2>1 DEF NetworkInv, TypeOK
    <3> QED
      BY <1>2, <3>1, Numbers DEF Overdue
  <2>4. t \in Nat /\ t <= t
    BY <2>1 DEF Tx
  <2> HIDE DEF t
  <2>5. \A q \in Process : op'[q].at # "idle" => op'[q].tx \in Tx /\ record[op'[q].tx] # "none"
    BY <2>1, <2>2, BusyIs DEF NetworkInv
  <2>6. TypeOK'
    BY <1>0, <2>2, <2>5 DEF NetworkInv, TypeOK, Idle, Awaiting, Place, files, network
  <2>7. PointsInv' /\ SingleInv'
    BY <1>0, <2>1, <2>2, Numbers DEF NetworkInv, PointsInv, SingleInv, Trusted, files,
       network, t
  <2>8. ASSUME scenario.prompt
        PROVE  (WatchdogsInv /\ CycleInv /\ ReleasesInv /\ Undoable)'
    <3>0. WatchdogsInv /\ CycleInv /\ ReleasesInv /\ Undoable
      BY <2>8 DEF NetworkInv, PromptInv
    <3>1. \A q \in Tx : q # w /\ Busy(q)' =>
              Busy(q) /\ op'[q].tx = op[q].tx /\ op'[q].at = op[q].at
      BY <2>2, Numbers DEF Busy
    <3>2. Busy(Main)' = Busy(Main) /\ op'[Main].tx = op[Main].tx /\ op'[Main].at = op[Main].at
      BY <2>2, Numbers DEF Busy
    <3>3. \A q \in Tx : q # w /\ Busy(q) => op[q].tx = t
      BY <3>0, <2>3 DEF WatchdogsInv, t
    <3>4. WatchdogsInv'
      <4>1. \A q \in Tx : Busy(q)' => op'[q].tx = t
        BY <2>2, <3>1, <3>3
      <4> QED
        BY <4>1, <1>0, <2>1, <2>3, <2>4 DEF WatchdogsInv, files, t
    <3>5. CycleInv'
      <4>1. Busy(Main) => /\ t <= op[Main].tx
                          /\ t = op[Main].tx \/ prepared[op[Main].tx] = clock
        BY <3>0, <2>1 DEF CycleInv, t
      <4>2. \A q \in Tx : Busy(q)' => op'[q].tx = t
        BY <2>2, <3>1, <3>3
      <4> QED
        BY <3>0, <3>2, <4>1, <4>2, <1>0 DEF CycleInv, files
    <3>6. ReleasesInv'
      BY <3>0, <2>2, <1>0 DEF ReleasesInv, network
    <3>7. Undoable'
      BY <3>0, <1>0 DEF Undoable, network, files
    <3> QED
      BY <3>4, <3>5, <3>6, <3>7
  <2> QED
    BY <1>0, <2>6, <2>7, <2>8 DEF NetworkInv, PromptInv
<1> QED
  BY <1>1, <1>2

LEMMA CheckpointKeeps ==
    ASSUME NetworkInv, NEW tx \in Tx, CheckpointExpires(tx)
    PROVE  NetworkInv'
<1>1. /\ net' = snapshot[tx] /\ checkpoints' \subseteq Tx /\ snapshot[tx] \in Tx \cup {0}
      /\ UNCHANGED <<files, cycle, scenario, clock, faults, confirmed>>
  BY DEF CheckpointExpires, NetworkInv, TypeOK
<1>2. net' \in Trusted
  BY <1>1 DEF NetworkInv, PointsInv
<1>3. TypeOK'
  BY <1>1 DEF NetworkInv, TypeOK, Idle, Awaiting, files, cycle
<1>4. PointsInv' /\ SingleInv'
  BY <1>1 DEF NetworkInv, PointsInv, SingleInv, Trusted, files, cycle
<1>5. ASSUME scenario.prompt
      PROVE  (WatchdogsInv /\ CycleInv /\ ReleasesInv /\ Undoable)'
  <2>0. WatchdogsInv /\ CycleInv /\ ReleasesInv /\ Undoable
    BY <1>5 DEF NetworkInv, PromptInv
  <2>1. WatchdogsInv' /\ CycleInv'
    BY <2>0, <1>1 DEF WatchdogsInv, CycleInv, Busy, files, cycle
  <2>2. \A q \in Process : op[q].at # "idle" => op[q].tx \in Tx
    BY BusyIs DEF NetworkInv
  <2>3. ReleasesInv'
    BY <1>1, <1>2, <2>2, Numbers DEF ReleasesInv, Trusted, cycle
  <2>4. Undoable'
    BY <1>1, <1>2 DEF Undoable, Trusted
  <2> QED
    BY <2>1, <2>3, <2>4
<1> QED
  BY <1>1, <1>3, <1>4, <1>5 DEF NetworkInv, PromptInv

LEMMA CrashKeeps ==
    ASSUME NetworkInv, Crash
    PROVE  NetworkInv'
<1>1. /\ op' = [p \in Process |-> [at |-> "idle", tx |-> None]]
      /\ pc' = "down" /\ open' = FALSE /\ pending' = None /\ timers' = {} /\ faults' \in Nat
      /\ UNCHANGED <<files, network, scenario, clock, confirmed>>
  BY DEF Crash, Fault, NetworkInv, TypeOK
<1>2. \A p \in Process : op'[p].at = "idle"
  BY <1>1
<1>3. TypeOK'
  BY <1>1 DEF NetworkInv, TypeOK, Idle, Awaiting, files, network
<1>4. PointsInv' /\ SingleInv'
  BY <1>1, <1>2 DEF NetworkInv, PointsInv, SingleInv, Trusted, files, network
<1>5. PromptInv'
  BY <1>1, <1>2, Numbers DEF NetworkInv, PromptInv, WatchdogsInv, CycleInv, ReleasesInv,
     Undoable, Busy, files, network
<1> QED
  BY <1>3, <1>4, <1>5 DEF NetworkInv

\* Time passes when nobody is busy, where operations are prompt.
LEMMA TickKeeps ==
    ASSUME NetworkInv, Tick
    PROVE  NetworkInv'
<1>1. /\ clock' \in Nat
      /\ scenario.prompt => \A p \in Process : op[p].at = "idle"
      /\ UNCHANGED <<files, network, cycle, scenario, faults, confirmed>>
  BY DEF Tick, Idle, NetworkInv, TypeOK
<1>2. TypeOK'
  BY <1>1 DEF NetworkInv, TypeOK, Idle, Awaiting, files, network, cycle
<1>3. PointsInv' /\ SingleInv'
  BY <1>1 DEF NetworkInv, PointsInv, SingleInv, Trusted, files, network, cycle
<1>4. PromptInv'
  BY <1>1, Numbers DEF NetworkInv, PromptInv, WatchdogsInv, CycleInv, ReleasesInv,
     Undoable, Busy, files, network, cycle
<1> QED
  BY <1>2, <1>3, <1>4 DEF NetworkInv


-----------------------------------------------------------------------------
(***************************************************************************)
(* One transaction that takes any time.                                    *)
(***************************************************************************)
LEMMA ScenarioStays == [Next]_vars => scenario' = scenario
BY DEF Next, vars, MainStep, Start, Refresh, SyncFails, SyncAnswered, Acknowledge,
   DestroyCheckpoint, Confirm, Reserve, OpenTransaction, Change, NoChange, RollingBack,
   Restore, WriteRolledBack, MarkRollbackFailure, Release, Crash, Tick, WatchdogStep,
   WatchdogFires, CheckpointExpires

\* Nobody begins or ends an operation, and no record is let go.
LEMMA AloneStays ==
    ASSUME Alone, op' = op, state' = state, net' \in {net, 0}, timers' \subseteq timers,
           record'[1] \in {record[1], "armed"}, confirmed' = confirmed
    PROVE  Alone'
BY DEF Alone, Busy

\* Somebody moves on with the transaction: not to open it or to change the network, and
\* a watchdog only after it was opened.
LEMMA AloneMoves ==
    ASSUME Alone, NEW p \in Process, NEW at \in Place \ {"open", "change"},
           op'[p].at = at, at # "idle" => op'[p].tx = 1,
           \A q \in Process : q # p => op'[q].at = op[q].at /\ op'[q].tx = op[q].tx,
           p \in Tx => Busy(p) \/ timers # {},
           state' = state \/ state'.tx = 1,
           net' \in {net, 0}, timers' \subseteq timers,
           record' = record \/ op[p].at = "release",
           confirmed \subseteq confirmed',
           at \in {"write", "release"} => net' = 0 \/ 1 \in confirmed'
    PROVE  Alone'
<1>0. /\ Main \in Process /\ Main \notin Tx /\ Tx \subseteq Process /\ None # 1
      /\ p # Main => p \in Tx
  BY Numbers, ConstantsAssumption
<1>1. p # Main => state.tx = 1 /\ op[Main].at \notin {"open", "change"}
  BY <1>0 DEF Alone
<1>2. state'.tx \in {None, 1} /\ net' \in {0, 1}
  BY DEF Alone
<1>3. \A q \in Process : op'[q].at # "idle" => op'[q].tx = 1
  BY DEF Alone, Busy
<1>4. op'[Main].at \notin {"open", "change"}
  BY <1>0, <1>1
<1>5. state'.tx = None =>
          net' = 0 /\ timers' = {} /\ \A q \in Tx : op'[q].at = "idle"
  BY <1>0, <1>1 DEF Alone, Busy
<1>6. \A q \in Process : op'[q].at \in {"write", "release"} => net' = 0 \/ 1 \in confirmed'
  BY DEF Alone
<1>7. net' = 1 /\ 1 \notin confirmed' => record'[1] = "armed"
  BY DEF Alone
<1> QED
  BY <1>2, <1>3, <1>4, <1>5, <1>6, <1>7 DEF Alone, Busy

LEMMA AloneRollingBack ==
    ASSUME scenario.transactions = 1, NetworkInv, Alone, NEW p \in Process, RollingBack(p)
    PROVE  Alone'
<1> DEFINE t == op[p].tx
<1>1. Busy(p) /\ t = 1 /\ 1 \in Tx /\ snapshot[1] = 0
  <2>1. Busy(p)
    BY DEF RollingBack, Restore, WriteRolledBack, MarkRollbackFailure, Release, Busy
  <2>2. t = 1 /\ 1 \in Tx
    BY <2>1, BusyIs DEF Alone, Busy, NetworkInv
  <2> QED
    BY <2>1, <2>2 DEF NetworkInv, SingleInv
<1>2. \E at \in {"write", "fail", "release", "idle"} :
          /\ IF at = "idle" THEN Done(p) ELSE Goto(p, at, t)
          /\ at = "write" => net' = snapshot[t]
          /\ at = "release" => op[p].at = "write" /\ net' = net
  BY DEF RollingBack, Restore, WriteRolledBack, MarkRollbackFailure, Release, network
<1>3. /\ state' = state \/ state'.tx = t
      /\ net' \in {net, snapshot[t]}
      /\ record' = record \/ op[p].at = "release"
      /\ UNCHANGED <<timers, confirmed>>
  BY DEF RollingBack, Restore, WriteRolledBack, MarkRollbackFailure, Release, network, files,
     Write, WriteFails
<1> HIDE DEF t
<1>4. PICK at \in {"write", "fail", "release", "idle"} :
          /\ IF at = "idle" THEN Done(p) ELSE Goto(p, at, t)
          /\ at = "write" => net' = snapshot[t]
          /\ at = "release" => op[p].at = "write" /\ net' = net
  BY <1>2
<1>5. /\ op'[p].at = at /\ (at # "idle" => op'[p].tx = t)
      /\ \A q \in Process : q # p => op'[q].at = op[q].at /\ op'[q].tx = op[q].tx
  <2>1. at \in Place /\ t \in Tx \cup {None} /\ TypeOK
    BY <1>1 DEF Place, NetworkInv
  <2> QED
    BY <1>4, <2>1, GotoIs, DoneIs
<1>6. at \in {"write", "release"} => net' = 0 \/ 1 \in confirmed
  BY <1>1, <1>4 DEF Alone
<1> QED
  BY <1>1, <1>3, <1>4, <1>5, <1>6, AloneMoves DEF Place

\* The cycle or a watchdog begins with what the state says awaits.
LEMMA AloneBegins ==
    ASSUME NetworkInv, Alone, NEW p \in Process, NEW at \in {"restore", "destroy", "confirm"},
           state.tx \in Tx, Goto(p, at, state.tx), p \in Tx => timers # {},
           state' = state, record' = record, net' = net, confirmed' = confirmed,
           timers' \subseteq timers
    PROVE  Alone'
<1> DEFINE t == state.tx
<1>1. t = 1 /\ t \in Tx /\ Goto(p, at, t)
  BY Numbers DEF Alone
<1> HIDE DEF t
<1>2. /\ op'[p].at = at /\ op'[p].tx = 1
      /\ \A q \in Process : q # p => op'[q].at = op[q].at /\ op'[q].tx = op[q].tx
  BY <1>1, GotoIs DEF Place, NetworkInv
<1>3. at \in Place \ {"open", "change"} /\ at \notin {"write", "release"}
  BY DEF Place
<1> QED
  BY <1>2, <1>3, AloneMoves

LEMMA AloneReserve ==
    ASSUME scenario.transactions = 1, NetworkInv, Alone, Reserve
    PROVE  Alone'
<1>1. state.tx = None /\ net = 0 /\ Attempt = 1 /\ 1 \in Tx
  BY ReservedIs DEF Attempt
<1>2. /\ \/ record' = [record EXCEPT ![1] = "armed"] /\ Goto(Main, "open", 1)
         \/ record' \in {record, [record EXCEPT ![1] = "armed"]} /\ op' = op
      /\ UNCHANGED <<state, net, timers, confirmed>>
  BY <1>1 DEF Reserve, Put, PutFails
<1>3. record \in [Tx -> {"none", "armed", "released"}]
  BY DEF NetworkInv, TypeOK
<1>4. CASE op' = op
  BY <1>1, <1>2, <1>3, <1>4, AloneStays
<1>5. CASE record' = [record EXCEPT ![1] = "armed"] /\ Goto(Main, "open", 1)
  <2>1. /\ op'[Main].at = "open" /\ op'[Main].tx = 1 /\ record'[1] = "armed"
        /\ \A q \in Process : q # Main => op'[q].at = op[q].at /\ op'[q].tx = op[q].tx
    BY <1>1, <1>3, <1>5, GotoIs, Numbers DEF Place, NetworkInv
  <2> QED
    BY <1>1, <1>2, <2>1, Numbers DEF Alone, Busy
<1> QED
  BY <1>2, <1>4, <1>5

LEMMA AloneOpen ==
    ASSUME scenario.transactions = 1, NetworkInv, Alone, OpenTransaction
    PROVE  Alone'
<1>1. /\ op[Main].at = "open" /\ op[Main].tx = 1 /\ record[1] = "armed" /\ state.tx = None
      /\ net = 0 /\ timers = {} /\ \A q \in Tx : op[q].at = "idle"
      /\ Main \in Process /\ 1 \in Tx
  BY BusyIs, Numbers DEF OpenTransaction, Alone, Busy, NetworkInv
<1>2. /\ \/ state'.tx = 1 /\ Goto(Main, "change", 1)
         \/ state' = state /\ Goto(Main, "release", 1)
      /\ UNCHANGED <<record, net, timers, confirmed>>
  BY <1>1 DEF OpenTransaction, Write, WriteFails
<1>3. PICK at \in {"change", "release"} :
          Goto(Main, at, 1) /\ state'.tx = IF at = "change" THEN 1 ELSE None
  BY <1>1, <1>2
<1>4. /\ op'[Main].at = at /\ op'[Main].tx = 1
      /\ \A q \in Process : q # Main => op'[q].at = op[q].at /\ op'[q].tx = op[q].tx
  BY <1>1, <1>3, GotoIs DEF Place, NetworkInv
<1>5. \A q \in Tx : op'[q].at = "idle"
  BY <1>1, <1>4, Numbers
<1>6. \A q \in Process : op'[q].at # "idle" => op'[q].tx = 1
  BY <1>4, <1>5, Numbers
<1> QED
  BY <1>1, <1>2, <1>3, <1>4, <1>5, <1>6 DEF Alone, Busy

LEMMA AloneChange ==
    ASSUME scenario.transactions = 1, NetworkInv, Alone, Change
    PROVE  Alone'
<1>1. /\ op[Main].at = "change" /\ op[Main].tx = 1 /\ record[1] = "armed" /\ net = 0
      /\ \A q \in Tx : op[q].at = "idle"
      /\ Main \in Process /\ 1 \in Tx
  BY BusyIs, Numbers DEF Change, Alone, Busy, NetworkInv
<1>2. state.tx = 1
  BY <1>1 DEF Alone, NetworkInv, SingleInv
<1>3. /\ net' \in {0, 1}
      /\ Goto(Main, "restore", 1) \/ Done(Main)
      /\ UNCHANGED <<state, record, confirmed>>
  BY <1>1, <1>2 DEF Change, files
<1>4. /\ op'[Main].at \in {"restore", "idle"}
      /\ op'[Main].at # "idle" => op'[Main].tx = 1
      /\ \A q \in Process : q # Main => op'[q].at = op[q].at /\ op'[q].tx = op[q].tx
  BY <1>1, <1>3, GotoIs, DoneIs DEF Place, NetworkInv
<1>5. \A q \in Tx : op'[q].at = "idle"
  BY <1>1, <1>4, Numbers
<1>6. \A q \in Process : op'[q].at # "idle" => op'[q].at = "restore" /\ op'[q].tx = 1
  BY <1>4, <1>5, Numbers
<1>7. \A q \in Process : op'[q].at \notin {"write", "release"}
  BY <1>6
<1>8. op'[Main].at \notin {"open", "change"}
  BY <1>4
<1>9. state'.tx = 1 /\ record'[1] = "armed" /\ net' \in {0, 1}
  BY <1>1, <1>2, <1>3
<1>10. None # 1
  BY <1>1, Numbers
<1> QED
  BY <1>6, <1>7, <1>8, <1>9, <1>10 DEF Alone, Busy

LEMMA AloneCycle ==
    ASSUME scenario.transactions = 1, NetworkInv, Alone, MainStep
    PROVE  Alone'
<1>0. Main \in Process /\ (Awaiting => state.tx \in Tx) /\ Main \notin Tx
  BY Numbers DEF NetworkInv, TypeOK
<1>1. CASE Start \/ SyncFails \/ SyncAnswered \/ NoChange
  BY <1>1, AloneStays DEF Start, SyncFails, SyncAnswered, NoChange, files, network
<1>2. CASE Refresh \/ Acknowledge
  <2>1. UNCHANGED <<state, record, net, timers, confirmed>>
    BY <1>2 DEF Refresh, Acknowledge, files, network
  <2>2. CASE op' = op
    BY <2>1, <2>2, AloneStays
  <2>3. CASE op' # op
    <3>1. Awaiting
      BY <1>2, <2>3 DEF Refresh, Acknowledge, Overdue
    <3>2. \E at \in {"restore", "destroy", "confirm"} : Goto(Main, at, state.tx)
      BY <1>2, <2>3 DEF Refresh, Acknowledge
    <3>3. PICK at \in {"restore", "destroy", "confirm"} : Goto(Main, at, state.tx)
      BY <3>2
    <3>4. state.tx \in Tx
      BY <1>0, <3>1
    <3> QED
      BY <1>0, <2>1, <3>3, <3>4, AloneBegins
  <2> QED
    BY <2>2, <2>3
<1>3. CASE DestroyCheckpoint \/ Confirm
  <2> DEFINE t == op[Main].tx
  <2>1. t \in Tx /\ t = 1
    BY <1>0, <1>3, BusyIs DEF DestroyCheckpoint, Confirm, Busy, NetworkInv, Alone
  <2>2. /\ \/ Goto(Main, "confirm", t) /\ confirmed' = confirmed /\ state' = state
           \/ Goto(Main, "release", t) /\ confirmed' = confirmed \cup {t} /\ state'.tx = t
           \/ Done(Main) /\ confirmed' = confirmed /\ state' = state
        /\ UNCHANGED <<record, net, timers>>
    BY <1>3 DEF DestroyCheckpoint, Confirm, Write, WriteFails, files, network
  <2> HIDE DEF t
  <2>3. PICK at \in {"confirm", "release", "idle"} :
            /\ op'[Main].at = at /\ (at # "idle" => op'[Main].tx = 1)
            /\ \A q \in Process : q # Main => op'[q].at = op[q].at /\ op'[q].tx = op[q].tx
            /\ at = "release" => 1 \in confirmed'
    <3>1. CASE Done(Main)
      BY <1>0, <3>1, DoneIs DEF NetworkInv
    <3>2. CASE Goto(Main, "confirm", t)
      BY <1>0, <2>1, <3>2, GotoIs DEF NetworkInv, Place
    <3>3. CASE Goto(Main, "release", t) /\ confirmed' = confirmed \cup {t}
      BY <1>0, <2>1, <3>3, GotoIs DEF NetworkInv, Place
    <3> QED
      BY <2>2, <3>1, <3>2, <3>3
  <2>4. at \in Place \ {"open", "change"}
    BY DEF Place
  <2>5. state' = state \/ state'.tx = 1
    BY <2>1, <2>2
  <2>6. net' = net /\ timers' \subseteq timers /\ record' = record /\ confirmed \subseteq confirmed'
    BY <2>2
  <2> QED
    BY <1>0, <2>3, <2>4, <2>5, <2>6, AloneMoves
<1> QED
  BY <1>0, <1>1, <1>2, <1>3, AloneRollingBack, AloneReserve, AloneOpen, AloneChange
     DEF MainStep

LEMMA StepAlone ==
    ASSUME NetworkInv, AloneInv, [Next]_vars
    PROVE  AloneInv'
<1> SUFFICES ASSUME scenario.transactions = 1, Alone
             PROVE  Alone'
  BY ScenarioStays DEF AloneInv
<1>1. CASE Tick \/ UNCHANGED vars
  BY <1>1, AloneStays DEF Tick, vars, files, network, cycle
<1>2. ASSUME NEW tx \in Tx, CheckpointExpires(tx)
      PROVE  Alone'
  BY <1>2, AloneStays DEF CheckpointExpires, files, cycle, NetworkInv, SingleInv
<1>3. ASSUME NEW tx \in Tx, WatchdogFires(tx)
      PROVE  Alone'
  <2>1. /\ timers # {} /\ timers' \subseteq timers
        /\ UNCHANGED <<state, record, net, confirmed>>
    BY <1>3 DEF WatchdogFires, files, network
  <2>2. CASE op' = op
    BY <2>1, <2>2, AloneStays
  <2>3. CASE Overdue /\ Goto(tx, "restore", state.tx)
    <3>1. state.tx \in Tx /\ tx \in Process
      BY <2>3, Numbers DEF Overdue, NetworkInv, TypeOK
    <3> QED
      BY <2>1, <2>3, <3>1, AloneBegins
  <2> QED
    BY <1>3, <2>2, <2>3 DEF WatchdogFires
<1>4. CASE Crash
  BY <1>4, Numbers DEF Crash, files, network, Alone, Busy
<1> QED
  BY <1>1, <1>2, <1>3, <1>4, Numbers, AloneCycle, AloneRollingBack DEF Next, WatchdogStep

-----------------------------------------------------------------------------
(***************************************************************************)
(* Together.                                                               *)
(***************************************************************************)

\* Where a second transaction may follow, operations end before a deadline comes, and a
\* record keeps its payload: a watchdog that is late would take the next transaction for
\* its own, and a payload that is gone would let one begin on what nobody confirmed.
OneAtATime == \A s \in Scenarios : s.transactions = 1 \/ (s.prompt /\ ~Sensitive)

LEMMA InitNetwork == Init => NetworkInv /\ CheckpointsInv
<1> SUFFICES ASSUME Init
             PROVE  NetworkInv /\ CheckpointsInv
  OBVIOUS
<1>1. \A p \in Process : op[p].at = "idle"
  BY DEF Init
<1>2. TypeOK
  BY <1>1 DEF Init, TypeOK, Idle, Awaiting, Phase
<1>3. PointsInv /\ PromptInv /\ SingleInv
  BY <1>1, Numbers DEF Init, PointsInv, Trusted, PromptInv, WatchdogsInv, CycleInv, ReleasesInv,
     Busy, Undoable, SingleInv
<1>4. CheckpointsInv
  BY <1>1, Numbers DEF Init, CheckpointsInv
<1> QED
  BY <1>2, <1>3, <1>4 DEF NetworkInv

LEMMA MainKeeps ==
    ASSUME OneAtATime, NetworkInv, MainStep
    PROVE  NetworkInv'
<1>1. scenario.transactions = 1 \/ (scenario.prompt /\ ~Sensitive)
  BY DEF OneAtATime, NetworkInv, TypeOK
<1>2. CASE Start \/ SyncFails \/ SyncAnswered \/ NoChange
  <2>1. open' \in BOOLEAN
    BY <1>2 DEF Start, SyncFails, SyncAnswered, NoChange, Healthy, NetworkInv, TypeOK
  <2> QED
    BY <1>2, <2>1, QuietKeeps DEF Start, SyncFails, SyncAnswered, NoChange, NetworkInv, TypeOK,
       network
<1>3. CASE RollingBack(Main)
  BY <1>3, Numbers, RestoreKeeps, WriteRolledBackKeeps, MarkKeeps, ReleaseKeeps DEF RollingBack
<1>4. CASE Refresh \/ Acknowledge \/ DestroyCheckpoint \/ Confirm \/ Reserve
           \/ OpenTransaction \/ Change
  BY <1>1, <1>4, RefreshKeeps, AcknowledgeKeeps, DestroyKeeps, ConfirmKeeps, ReserveKeeps,
     OpenKeeps, ChangeKeeps
<1> QED
  BY <1>2, <1>3, <1>4 DEF MainStep

LEMMA StepNetwork == OneAtATime /\ NetworkInv /\ [Next]_vars => NetworkInv'
<1> SUFFICES ASSUME OneAtATime, NetworkInv, [Next]_vars
             PROVE  NetworkInv'
  OBVIOUS
<1>1. CASE \E tx \in Tx : WatchdogStep(tx) \/ CheckpointExpires(tx)
  BY <1>1, Numbers, WatchdogKeeps, CheckpointKeeps, RestoreKeeps, WriteRolledBackKeeps,
     MarkKeeps, ReleaseKeeps DEF WatchdogStep, RollingBack
<1>2. CASE UNCHANGED vars
  BY <1>2, QuietKeeps DEF vars, cycle, network, NetworkInv, TypeOK
<1> QED
  BY <1>1, <1>2, MainKeeps, CrashKeeps, TickKeeps DEF Next

\* What nobody confirmed can be undone, to something that was confirmed, whatever crashes,
\* fails or races: for any number of transactions whose operations end before a deadline
\* comes, or for one that takes any time (networkstate.Store).
THEOREM ChangesAreProtected == OneAtATime => (Spec => []ProtectedInv)
<1> SUFFICES ASSUME OneAtATime
             PROVE  Spec => []ProtectedInv
  OBVIOUS
<1>1. Init => NetworkInv /\ AloneInv
  <2>1. Init => \A p \in Process : op[p].at = "idle"
    BY DEF Init
  <2>2. Init => AloneInv
    BY <2>1, Numbers DEF Init, AloneInv, Alone, Busy
  <2> QED
    BY <2>2, InitNetwork
<1>2. NetworkInv /\ AloneInv /\ [Next]_vars => (NetworkInv /\ AloneInv)'
  BY StepNetwork, StepAlone
<1>3. NetworkInv /\ AloneInv => ProtectedInv
  <2> SUFFICES ASSUME NetworkInv, AloneInv
               PROVE  ProtectedInv
    OBVIOUS
  <2>1. scenario.prompt => Undoable
    BY DEF NetworkInv, PromptInv
  <2>2. scenario.transactions = 1 => Undoable
    BY DEF NetworkInv, TypeOK, SingleInv, AloneInv, Alone, Undoable
  <2> QED
    BY <2>1, <2>2 DEF NetworkInv, PointsInv, Trusted, ProtectedInv, RestorePointIsConfirmed,
       UnconfirmedIsProtected
<1> QED
  BY <1>1, <1>2, <1>3, PTL DEF Spec


-----------------------------------------------------------------------------
(***************************************************************************)
(* NetworkManager's checkpoints.                                           *)
(***************************************************************************)
ManagedAlone == \A s \in Scenarios : s.manager => s.transactions = 1

LEMMA StepCheckpoints ==
    ASSUME OneAtATime, ManagedAlone, NetworkInv, CheckpointsInv, [Next]_vars
    PROVE  CheckpointsInv'
<1> SUFFICES ASSUME scenario.manager
             PROVE  /\ checkpoints' \subseteq {1}
                    /\ op'[Main].at = "confirm" \/ confirmed' # {} => checkpoints' = {}
  <2>1. scenario' = scenario
    BY ScenarioStays
  <2> QED
    BY <2>1 DEF CheckpointsInv
<1>0. /\ scenario.transactions = 1 /\ Main \in Process
      /\ checkpoints \subseteq {1}
      /\ op[Main].at = "confirm" \/ confirmed # {} => checkpoints = {}
  BY Numbers DEF ManagedAlone, NetworkInv, TypeOK, CheckpointsInv
<1>1. ASSUME checkpoints' \subseteq checkpoints, confirmed' = confirmed,
             op'[Main].at = "confirm" => op[Main].at = "confirm"
      PROVE  /\ checkpoints' \subseteq {1}
             /\ op'[Main].at = "confirm" \/ confirmed' # {} => checkpoints' = {}
  BY <1>0, <1>1

<1>2. ASSUME NEW p \in Process, NEW at \in Place, NEW tx \in Tx \cup {None},
             at # "confirm", Goto(p, at, tx) \/ op' = op
      PROVE  op'[Main].at = "confirm" => op[Main].at = "confirm"
  <2>1. CASE op' = op
    BY <2>1
  <2>2. CASE Goto(p, at, tx)
    BY <1>0, <1>2, <2>2, GotoIs DEF NetworkInv
  <2> QED
    BY <1>2, <2>1, <2>2
<1>3. ASSUME NEW p \in Process, Done(p) \/ op' = op
      PROVE  op'[Main].at = "confirm" => op[Main].at = "confirm"
  BY <1>0, <1>3, DoneIs DEF NetworkInv
<1>4. CASE Start \/ SyncFails \/ SyncAnswered \/ NoChange \/ Tick \/ UNCHANGED vars
           \/ \E tx \in Tx : CheckpointExpires(tx)
  BY <1>1, <1>4 DEF Start, SyncFails, SyncAnswered, NoChange, Tick, vars, network, cycle,
     CheckpointExpires
<1>5. ASSUME NEW p \in Process, RollingBack(p)
      PROVE  /\ checkpoints' \subseteq checkpoints /\ confirmed' = confirmed
             /\ op'[Main].at = "confirm" => op[Main].at = "confirm"
  <2>1. /\ checkpoints' \subseteq checkpoints /\ confirmed' = confirmed
        /\ \/ Done(p)
           \/ \E at \in {"write", "fail", "release"} : Goto(p, at, op[p].tx)
    BY <1>5 DEF RollingBack, Restore, WriteRolledBack, MarkRollbackFailure, Release, network
  <2>2. op[p].tx \in Tx \cup {None}
    BY DEF NetworkInv, TypeOK
  <2>3. CASE \E at \in {"write", "fail", "release"} : Goto(p, at, op[p].tx)
    <3> DEFINE t == op[p].tx
    <3>1. PICK at \in {"write", "fail", "release"} : Goto(p, at, t)
      BY <2>3
    <3>2. at \in Place /\ at # "confirm" /\ t \in Tx \cup {None}
      BY <2>2 DEF Place
    <3> HIDE DEF t
    <3> QED
      BY <2>1, <3>1, <3>2, <1>2
  <2> QED
    BY <1>3, <2>1, <2>3
<1>6. ASSUME NEW w \in Tx, WatchdogFires(w)
      PROVE  /\ checkpoints' \subseteq checkpoints /\ confirmed' = confirmed
             /\ op'[Main].at = "confirm" => op[Main].at = "confirm"
  <2> DEFINE t == state.tx
  <2>1. "restore" \in Place /\ t \in Tx \cup {None} /\ w \in Process
    BY Numbers DEF Place, NetworkInv, TypeOK
  <2>2. Goto(w, "restore", t) \/ op' = op
    BY <1>6 DEF WatchdogFires
  <2> HIDE DEF t
  <2>3. op'[Main].at = "confirm" => op[Main].at = "confirm"
    BY <2>1, <2>2, <1>2
  <2> QED
    BY <1>6, <2>3 DEF WatchdogFires, network
<1>7. ASSUME Refresh \/ Acknowledge
      PROVE  /\ checkpoints' = checkpoints /\ confirmed' = confirmed
             /\ op'[Main].at = "confirm" => op[Main].at = "confirm"
  <2> DEFINE t == state.tx
  <2>1. "restore" \in Place /\ "destroy" \in Place /\ t \in Tx \cup {None}
    BY DEF Place, NetworkInv, TypeOK
  <2>2. Goto(Main, "restore", t) \/ Goto(Main, "destroy", t) \/ op' = op
    BY <1>7, ConstantsAssumption DEF Refresh, Acknowledge
  <2> HIDE DEF t
  <2>3. op'[Main].at = "confirm" => op[Main].at = "confirm"
    BY <1>0, <2>1, <2>2, <1>2
  <2> QED
    BY <1>7, <2>3 DEF Refresh, Acknowledge, network
<1>8. CASE DestroyCheckpoint
  <2>1. /\ confirmed' = confirmed /\ checkpoints' \subseteq checkpoints
        /\ \/ op[Main].tx \in checkpoints /\ checkpoints' = checkpoints \ {op[Main].tx}
           \/ Done(Main)
    BY <1>8 DEF DestroyCheckpoint
  <2>2. CASE Done(Main)
    BY <1>0, <1>1, <1>3, <2>1, <2>2
  <2>3. CASE op[Main].tx \in checkpoints /\ checkpoints' = checkpoints \ {op[Main].tx}
    BY <1>0, <2>3
  <2> QED
    BY <2>1, <2>2, <2>3
<1>9. CASE Confirm
  BY <1>0, <1>9 DEF Confirm, network
<1>10. CASE Reserve
  <2>1. scenario.transactions = 1 \/ (scenario.prompt /\ ~Sensitive)
    BY <1>0
  <2>2. state.tx = None
    BY <1>0, <1>10, <2>1, ReservedIs
  <2>3. confirmed = {} /\ Attempt = 1
    BY <1>0, <2>2 DEF NetworkInv, SingleInv, Attempt
  <2>4. op[Main].at = "idle" /\ checkpoints' \subseteq checkpoints \cup {1}
        /\ confirmed' = confirmed
    BY <1>10, <2>3 DEF Reserve, Taken, At, Idle
  <2>5. op'[Main].at = "confirm" => op[Main].at = "confirm"
    <3>1. 1 \in Tx /\ "open" \in Place
      BY Numbers, ConstantsAssumption DEF Tx, Place
    <3>2. Goto(Main, "open", 1) \/ op' = op
      BY <1>10, <2>3 DEF Reserve
    <3> QED
      BY <1>0, <1>2, <3>1, <3>2
  <2> QED
    BY <1>0, <2>3, <2>4, <2>5
<1>11. CASE OpenTransaction
  <2> DEFINE t == op[Main].tx
  <2>1. /\ checkpoints' \subseteq checkpoints /\ confirmed' = confirmed
        /\ Goto(Main, "change", t) \/ Goto(Main, "release", t)
    BY <1>11 DEF OpenTransaction
  <2>2. "change" \in Place /\ "release" \in Place /\ t \in Tx \cup {None}
    BY <1>0 DEF Place, NetworkInv, TypeOK
  <2> HIDE DEF t
  <2> QED
    BY <1>0, <1>1, <1>2, <2>1, <2>2
<1>12. CASE Change
  <2> DEFINE t == state.tx
  <2>1. /\ checkpoints' = checkpoints /\ confirmed' = confirmed
        /\ Goto(Main, "restore", t) \/ Done(Main)
    BY <1>12 DEF Change
  <2>2. "restore" \in Place /\ t \in Tx \cup {None}
    BY DEF Place, NetworkInv, TypeOK
  <2> HIDE DEF t
  <2> QED
    BY <1>0, <1>1, <1>2, <1>3, <2>1, <2>2
<1>13. CASE Crash
  BY <1>0, <1>1, <1>13 DEF Crash, network
<1> QED
  BY <1>0, <1>1, <1>4, <1>5, <1>6, <1>7, <1>8, <1>9, <1>10, <1>11, <1>12, <1>13
     DEF Next, MainStep, WatchdogStep, Process

\* With NetworkManager no timer, watchdog or restart takes back a change in effect that
\* was recorded as acknowledged, whatever fails and however long anything takes, where it
\* guards one transaction (its checkpoint goes before networkstate.Store.Acknowledge writes).
THEOREM ConfirmedIsNotTakenBack ==
    OneAtATime /\ ManagedAlone => (Spec => AcknowledgedStays)
<1> DEFINE Stays == scenario.manager /\ net \in confirmed => net' # snapshot[net]
<1> SUFFICES ASSUME OneAtATime, ManagedAlone
             PROVE  Spec => [][Stays]_vars
  BY DEF AcknowledgedStays
<1>1. NetworkInv /\ CheckpointsInv /\ [Next]_vars => [Stays]_vars
  <2> SUFFICES ASSUME NetworkInv, CheckpointsInv, Next, scenario.manager, net \in confirmed
               PROVE  net' # snapshot[net]
    OBVIOUS
  <2>1. snapshot[net] = 0 /\ net \in Tx /\ net # 0 /\ checkpoints = {}
    BY Numbers DEF ManagedAlone, NetworkInv, TypeOK, SingleInv, CheckpointsInv
  <2>2. \A p \in Process : RollingBack(p) => net' = net
    BY <2>1 DEF RollingBack, Restore, Restorable, WriteRolledBack, MarkRollbackFailure, Release,
       network
  <2>3. Change => net' # 0
    BY <2>1, BusyIs, Numbers DEF Change, NetworkInv
  <2>4. net' = net \/ Change
    BY <2>1, <2>2, Numbers DEF Next, MainStep, Start, Refresh, SyncFails, SyncAnswered,
       Acknowledge, DestroyCheckpoint, Confirm, Reserve, OpenTransaction, NoChange, Crash, Tick,
       WatchdogStep, WatchdogFires, CheckpointExpires, network
  <2> QED
    BY <2>1, <2>3, <2>4
<1> HIDE DEF Stays
<1>2. Init => NetworkInv /\ CheckpointsInv
  BY InitNetwork
<1>3. NetworkInv /\ CheckpointsInv /\ [Next]_vars => (NetworkInv /\ CheckpointsInv)'
  BY StepNetwork, StepCheckpoints
<1> QED
  BY <1>1, <1>2, <1>3, PTL DEF Spec
=============================================================================
