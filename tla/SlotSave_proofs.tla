-------------------------- MODULE SlotSave_proofs --------------------------
(***************************************************************************)
(* Proofs about SlotSave, for every number of slots and savers and every   *)
(* list of names: saves that are past their locks have no slot in common,  *)
(* no ring of saves waits for each other's locks, every variable keeps its *)
(* type, a failed save restores what it found, and no step of a save       *)
(* removes the last copy of an image.                                      *)
(***************************************************************************)
EXTENDS SlotSave, TLAPS

\* Where a call to SaveSlotProtected can be.
Busy == {"lock", "probe", "read", "store", "prune", "clean", "write", "restore", "rclean",
         "rwrite", "consume", "unlock"}

\* The mutexes and the saves that hold them: SlotsAreExclusive says nothing of
\* owner, held or a save that is still taking locks, and is not inductive without.
LockInv ==
    /\ owner \in [Slots -> Savers \cup {Nobody}]
    /\ held \in [Savers -> SUBSET Slots]
    /\ pc \in [Savers -> Busy \cup {"idle"}]
    /\ naming \in [Savers -> Seq(Slots)]
    /\ \A p \in Savers, s \in Slots : s \in held[p] <=> owner[s] = p
    /\ \A p \in Savers : pc[p] = "idle" => held[p] = {}
    /\ \A p \in Savers : Working(p) => held[p] = Elems(naming[p])

USE NobodyIsOne

LEMMA LockInit == Init => LockInv
  <1> SUFFICES ASSUME Init PROVE LockInv
    OBVIOUS
  <1>1. /\ owner = [s \in Slots |-> Nobody] /\ pc = [p \in Savers |-> "idle"]
        /\ naming = [p \in Savers |-> <<>>] /\ held = [p \in Savers |-> {}]
    BY DEF Init
  <1>2. <<>> \in Seq(Slots)
    OBVIOUS
  <1>3. naming \in [Savers -> Seq(Slots)]
    BY <1>1, <1>2
  <1>4. \A p \in Savers, s \in Slots : s \in held[p] <=> owner[s] = p
    BY <1>1
  <1> QED BY <1>1, <1>3, <1>4 DEF LockInv, Working, Busy

\* A step that leaves the mutexes and the names alone and does not move a save
\* into or out of its working phase, unless it is done with it.
LEMMA LockQuiet ==
    ASSUME LockInv, UNCHANGED <<owner, held, naming>>,
           pc' \in [Savers -> Busy \cup {"idle"}],
           \A p \in Savers : pc'[p] = "idle" => pc[p] = "idle",
           \A p \in Savers : Working(p)' => Working(p)
    PROVE  LockInv'
  BY DEF LockInv

\* Saver p, and no other, moves on inside its call, past its locks.
Moves(p) ==
    /\ pc' \in [Savers -> Busy \cup {"idle"}] /\ pc'[p] \notin {"idle", "lock"}
    /\ \A q \in Savers \ {p} : pc'[q] = pc[q]

LEMMA AdvanceMoves ==
    ASSUME pc \in [Savers -> Busy \cup {"idle"}], NEW p \in Savers,
           NEW same \in Busy \ {"lock"}, NEW next \in Busy \ {"lock"},
           Advance(p, same, next)
    PROVE  Moves(p)
  <1>1. PICK where \in Busy \ {"lock"} : pc' = [pc EXCEPT ![p] = where]
    BY DEF Advance
  <1> QED BY <1>1 DEF Busy, Moves

LEMMA GotoMoves ==
    ASSUME pc \in [Savers -> Busy \cup {"idle"}], NEW p \in Savers,
           NEW where \in Busy \ {"lock"}, Goto(p, where)
    PROVE  Moves(p)
  BY DEF Goto, Moves, Busy

\* Steps of a save between its locks and their release.
LEMMA WorkMoves ==
    ASSUME LockInv, NEW p \in Savers,
           \/ Probe(p) \/ Read(p) \/ Store(p) \/ Prune(p) \/ Abort(p)
           \/ Clean(p) \/ Write(p) \/ WriteFails(p)
           \/ Restore(p) \/ RestoreClean(p) \/ RestoreWrite(p) \/ RestoreFails(p)
           \/ Consume(p)
    PROVE  UNCHANGED <<owner, held, naming>> /\ Working(p) /\ Moves(p)
  <1>1. UNCHANGED <<owner, held, naming>>
    BY DEF Probe, Read, Store, Prune, Abort, Clean, Write, WriteFails, Restore,
           RestoreClean, RestoreWrite, RestoreFails, Consume
  <1>2. Working(p)
    BY DEF Working, Probe, Read, Store, Prune, Abort, Clean, Write, WriteFails, SaveStops,
           Restore, RestoreClean, RestoreWrite, RestoreFails, Consume
  <1>3. pc \in [Savers -> Busy \cup {"idle"}]
    BY DEF LockInv
  <1>4. Moves(p)
    <2>1. CASE Probe(p) \/ Read(p) \/ Store(p) \/ Prune(p) \/ Abort(p)
      BY <1>3, <2>1, AdvanceMoves, GotoMoves DEF Probe, Read, Store, Prune, Abort, Busy
    <2>2. CASE Clean(p) \/ Write(p)
      BY <1>3, <2>2, AdvanceMoves, GotoMoves DEF Clean, Write, Busy
    <2>3. CASE WriteFails(p)
      <3>1. pc' = [pc EXCEPT ![p] = "restore"]
        BY <2>3 DEF WriteFails
      <3> QED BY <1>3, <3>1 DEF Moves, Busy
    <2>4. CASE Restore(p) \/ RestoreClean(p) \/ RestoreWrite(p) \/ RestoreFails(p) \/ Consume(p)
      BY <1>3, <2>4, AdvanceMoves, GotoMoves DEF Restore, RestoreClean, RestoreWrite,
         RestoreFails, Consume, Busy
    <2> QED BY <2>1, <2>2, <2>3, <2>4
  <1> QED BY <1>1, <1>2, <1>4

LEMMA LockWork ==
    ASSUME LockInv, NEW p \in Savers,
           \/ Probe(p) \/ Read(p) \/ Store(p) \/ Prune(p) \/ Abort(p)
           \/ Clean(p) \/ Write(p) \/ WriteFails(p)
           \/ Restore(p) \/ RestoreClean(p) \/ RestoreWrite(p) \/ RestoreFails(p)
           \/ Consume(p)
    PROVE  LockInv'
  BY WorkMoves, LockQuiet DEF Working, Moves

LEMMA LockStep == LockInv /\ [Next]_vars => LockInv'
  <1> SUFFICES ASSUME LockInv, [Next]_vars PROVE LockInv'
    OBVIOUS
  <1> USE DEF LockInv, Working, Busy
  <1>1. ASSUME NEW p \in Savers, Begin(p) PROVE LockInv'
    <2>1. PICK q \in Namings : naming' = [naming EXCEPT ![p] = q]
      BY <1>1 DEF Begin
    <2>2. q \in Seq(Slots)
      <3>1. PICK n \in 1..NumSlots : q \in [1..n -> Slots]
        BY DEF Namings
      <3> QED BY <3>1
    <2>3. UNCHANGED <<owner, held>> /\ pc[p] = "idle" /\ pc' = [pc EXCEPT ![p] = "lock"]
      BY <1>1 DEF Begin
    <2> QED BY <2>1, <2>2, <2>3
  <1>2. ASSUME NEW p \in Savers, Lock(p) PROVE LockInv'
    <2>1. PICK s \in Elems(naming[p]) \ held[p] : Take(p, s)
      BY <1>2 DEF Lock
    <2>2. s \in Slots
      BY <2>1 DEF Elems
    <2>3. /\ pc[p] = "lock" /\ owner[s] = Nobody /\ UNCHANGED naming
          /\ owner' = [owner EXCEPT ![s] = p]
          /\ held' = [held EXCEPT ![p] = @ \cup {s}]
          /\ pc' = [pc EXCEPT ![p] = IF held'[p] = Elems(naming[p]) THEN "probe" ELSE "lock"]
      BY <1>2, <2>1 DEF Lock, Take
    <2>4. owner' \in [Slots -> Savers \cup {Nobody}] /\ held' \in [Savers -> SUBSET Slots]
      BY <2>2, <2>3
    <2>5. \A q \in Savers, t \in Slots : t \in held'[q] <=> owner'[t] = q
      BY <2>2, <2>3
    <2>6. /\ pc' \in [Savers -> Busy \cup {"idle"}] /\ \A q \in Savers \ {p} : pc'[q] = pc[q]
          /\ pc'[p] = "lock" \/ (pc'[p] = "probe" /\ held'[p] = Elems(naming[p]))
      <3>1. CASE held'[p] = Elems(naming[p])
        <4>1. pc' = [pc EXCEPT ![p] = "probe"]
          BY <2>3, <3>1
        <4> QED BY <3>1, <4>1
      <3>2. CASE held'[p] # Elems(naming[p])
        <4>1. pc' = [pc EXCEPT ![p] = "lock"]
          BY <2>3, <3>2
        <4> QED BY <4>1
      <3> QED BY <3>1, <3>2
    <2>7. \A q \in Savers \ {p} : held'[q] = held[q]
      BY <2>3
    <2> QED BY <2>3, <2>4, <2>5, <2>6, <2>7
  <1>3. ASSUME NEW p \in Savers, Unlock(p) PROVE LockInv'
    <2>1. PICK s \in held[p] :
             /\ owner' = [owner EXCEPT ![s] = Nobody]
             /\ held' = [held EXCEPT ![p] = @ \ {s}]
             /\ pc' = [pc EXCEPT ![p] = IF held'[p] = {} THEN "idle" ELSE "unlock"]
      BY <1>3 DEF Unlock
    <2>2. UNCHANGED naming /\ s \in Slots
      BY <1>3 DEF Unlock
    <2>4. owner' \in [Slots -> Savers \cup {Nobody}] /\ held' \in [Savers -> SUBSET Slots]
      BY <2>1, <2>2
    <2>5. \A q \in Savers, t \in Slots : t \in held'[q] <=> owner'[t] = q
      BY <2>1, <2>2
    <2>6. /\ pc' \in [Savers -> Busy \cup {"idle"}] /\ \A q \in Savers \ {p} : pc'[q] = pc[q]
          /\ pc'[p] = "unlock" \/ (pc'[p] = "idle" /\ held'[p] = {})
      <3>1. CASE held'[p] = {}
        <4>1. pc' = [pc EXCEPT ![p] = "idle"]
          BY <2>1, <3>1
        <4> QED BY <3>1, <4>1
      <3>2. CASE held'[p] # {}
        <4>1. pc' = [pc EXCEPT ![p] = "unlock"]
          BY <2>1, <3>2
        <4> QED BY <4>1
      <3> QED BY <3>1, <3>2
    <2>7. \A q \in Savers \ {p} : held'[q] = held[q]
      BY <2>1
    <2>8. \A q \in Savers : Working(q)' => Working(q) /\ held'[q] = held[q]
      BY <2>6, <2>7
    <2>9. \A q \in Savers : pc'[q] = "idle" => held'[q] = {}
      BY <2>6, <2>7
    <2> QED BY <2>2, <2>4, <2>5, <2>6, <2>8, <2>9
  <1>4. ASSUME NEW s \in Slots, NEW f \in Formats, Delete(s, f) PROVE LockInv'
    BY <1>4, LockQuiet DEF Delete, locals, Working, LockInv
  <1>5. CASE UNCHANGED vars
    BY <1>5, LockQuiet DEF vars, locals, Working, LockInv
  <1> QED BY <1>1, <1>2, <1>3, <1>4, <1>5, LockWork DEF Next, Step

\* slotMu and lockSlots: a slot that one working save will write is never a slot
\* of another, however many saves run and however their naming lists overlap.
THEOREM SlotsExclusive == Spec => []SlotsAreExclusive
  <1>1. LockInv => SlotsAreExclusive
    BY DEF LockInv, SlotsAreExclusive, Working
  <1> QED BY <1>1, LockInit, LockStep, PTL DEF Spec

\* A save holds a mutex that another awaits only while all it awaits itself come
\* later in the order, so that no ring of saves waits on itself (lockSlots).
WaitsUpwards ==
    \A p, q \in Savers :
        pc[p] = "lock" /\ pc[q] = "lock" =>
            \A s \in Elems(naming[p]) \ held[p], t \in Elems(naming[q]) \ held[q] :
                owner[s] = q => s < t

\* The mutexes are taken in order: a save still taking them holds only such as
\* precede those it awaits.
OrderInv ==
    \A p \in Savers : pc[p] = "lock" =>
        \A s \in held[p], t \in Elems(naming[p]) \ held[p] : s < t

\* No step but Begin and Lock concerns a save that takes its locks.
LEMMA OrderKept ==
    ASSUME OrderInv, NEW p \in Savers, pc'[p] = "lock" => pc[p] = "lock",
           held'[p] = held[p], naming'[p] = naming[p], pc'[p] = "lock"
    PROVE  \A s \in held'[p], t \in Elems(naming'[p]) \ held'[p] : s < t
  BY DEF OrderInv

LEMMA OrderStep == LockInv /\ OrderInv /\ [Next]_vars => OrderInv'
  <1> SUFFICES ASSUME LockInv, OrderInv, [Next]_vars, NEW q \in Savers, pc'[q] = "lock"
               PROVE  \A s \in held'[q], t \in Elems(naming'[q]) \ held'[q] : s < t
    BY DEF OrderInv, Elems
  <1>0. pc \in [Savers -> Busy \cup {"idle"}]
    BY DEF LockInv
  <1>1. ASSUME NEW p \in Savers, Begin(p)
        PROVE  \A s \in held'[q], t \in Elems(naming'[q]) \ held'[q] : s < t
    <2>1. PICK l \in Namings : naming' = [naming EXCEPT ![p] = l]
      BY <1>1 DEF Begin
    <2>2. UNCHANGED held /\ pc[p] = "idle" /\ pc' = [pc EXCEPT ![p] = "lock"]
      BY <1>1 DEF Begin
    <2>3. CASE q = p
      BY <2>2, <2>3 DEF LockInv
    <2>4. CASE q # p
      <3>1. naming'[q] = naming[q] /\ pc'[q] = pc[q] /\ held'[q] = held[q]
        BY <2>1, <2>2, <2>4 DEF LockInv
      <3> QED BY <3>1, OrderKept
    <2> QED BY <2>3, <2>4
  <1>2. ASSUME NEW p \in Savers, Lock(p)
        PROVE  \A s \in held'[q], t \in Elems(naming'[q]) \ held'[q] : s < t
    <2>1. PICK s \in Elems(naming[p]) \ held[p] :
             (\A t \in Elems(naming[p]) \ held[p] : s <= t) /\ Take(p, s)
      BY <1>2 DEF Lock
    <2>2. /\ pc[p] = "lock" /\ UNCHANGED naming
          /\ held' = [held EXCEPT ![p] = @ \cup {s}]
          /\ \A r \in Savers \ {p} : pc'[r] = pc[r]
      BY <1>0, <1>2, <2>1 DEF Lock, Take
    <2>3. CASE q = p
      <3>1. held'[p] = held[p] \cup {s} /\ naming'[p] = naming[p]
        BY <2>2 DEF LockInv
      <3>2. \A r \in held[p], t \in Elems(naming[p]) \ held[p] : r < t
        BY <2>2 DEF OrderInv
      <3>3. Elems(naming[p]) \subseteq Slots /\ Slots \subseteq Int
        BY SlotCount DEF LockInv, Elems, Slots
      <3>4. ASSUME NEW t \in Elems(naming[p]) \ held'[p] PROVE s < t
        <4>1. t \in Elems(naming[p]) \ held[p] /\ t # s
          BY <3>1
        <4>2. s <= t /\ s \in Int /\ t \in Int
          BY <2>1, <3>3, <4>1
        <4> QED BY <4>1, <4>2
      <3> QED BY <2>3, <3>1, <3>2, <3>4 DEF Elems
    <2>4. CASE q # p
      <3>1. naming'[q] = naming[q] /\ pc'[q] = pc[q] /\ held'[q] = held[q]
        BY <2>2, <2>4 DEF LockInv
      <3> QED BY <3>1, OrderKept
    <2> QED BY <2>3, <2>4
  <1>3. ASSUME NEW p \in Savers, Unlock(p)
        PROVE  \A s \in held'[q], t \in Elems(naming'[q]) \ held'[q] : s < t
    <2>1. UNCHANGED naming /\ \E u : held' = [held EXCEPT ![p] = @ \ {u}]
      BY <1>3 DEF Unlock
    <2>2. (\E w \in {"idle", "unlock"} : pc' = [pc EXCEPT ![p] = w]) /\ pc[p] = "unlock"
      BY <1>3 DEF Unlock
    <2>3. q # p
      BY <1>0, <2>2
    <2>4. naming'[q] = naming[q] /\ pc'[q] = pc[q] /\ held'[q] = held[q]
      BY <2>1, <2>2, <2>3 DEF LockInv
    <2> QED BY <2>4, OrderKept
  <1>4. ASSUME UNCHANGED <<owner, held, naming>>, \A p \in Savers : pc'[p] = "lock" => pc[p] = "lock"
        PROVE  \A s \in held'[q], t \in Elems(naming'[q]) \ held'[q] : s < t
    BY <1>4, OrderKept
  <1>5. ASSUME NEW s \in Slots, NEW f \in Formats, Delete(s, f)
        PROVE  UNCHANGED <<owner, held, naming, pc>>
    BY <1>5 DEF Delete, locals
  <1>6. CASE UNCHANGED vars
    BY <1>4, <1>6 DEF vars, locals
  <1>7. ASSUME NEW p \in Savers,
               \/ Probe(p) \/ Read(p) \/ Store(p) \/ Prune(p) \/ Abort(p)
               \/ Clean(p) \/ Write(p) \/ WriteFails(p)
               \/ Restore(p) \/ RestoreClean(p) \/ RestoreWrite(p) \/ RestoreFails(p)
               \/ Consume(p)
        PROVE  \A s \in held'[q], t \in Elems(naming'[q]) \ held'[q] : s < t
    <2>1. UNCHANGED <<owner, held, naming>>
      BY <1>7, WorkMoves
    <2>2. \A r \in Savers : pc'[r] = "lock" => pc[r] = "lock"
      BY <1>7, WorkMoves DEF Moves
    <2> QED BY <1>4, <2>1, <2>2
  <1> QED BY <1>1, <1>2, <1>3, <1>4, <1>5, <1>6, <1>7 DEF Next, Step

\* lockSlots: however many saves run and however their naming lists overlap, the
\* holder of a mutex that another save awaits awaits only later ones.
THEOREM WaitsAreOrdered == Spec => []WaitsUpwards
  <1>1. Init => OrderInv
    BY DEF Init, OrderInv
  <1>2. LockInv /\ OrderInv => WaitsUpwards
    BY DEF LockInv, OrderInv, WaitsUpwards, Elems
  <1> QED BY <1>1, <1>2, LockInit, LockStep, OrderStep, PTL DEF Spec

----------------------------------------------------------------------------
(* Types.                                                                  *)

\* A save in these states has settled on a format.
Located == {"read", "store", "prune", "rclean", "rwrite", "consume"}

FilesInv == disk \in [Slots -> Files] /\ backup \in [Slots -> Files]

\* The variables of the saves that LockInv does not type.
LocalsInv ==
    /\ i \in [Savers -> 1..NumSlots]
    /\ image \in [Savers -> Images \cup {NoImage}]
    /\ format \in [Savers -> Written] /\ found \in [Savers -> AllFormats]
    /\ data \in [Savers -> Images \cup {NoImage}]
    /\ outcome \in [Savers -> {"none", "saved", "aborted", "failed", "unrestored"}]

HistoryInv ==
    /\ used \subseteq Images /\ gone \subseteq Images /\ destroyed \subseteq Images
    /\ deletes \in 0..MaxDeletes
    /\ hit \in [Savers -> SUBSET Slots]
    /\ orig \in [Savers -> [Slots -> {<<>>} \cup (Formats \X Images)]]

\* A save is at one of its names, and the formats it uses are in use.
SaverInv(p) ==
    /\ Len(naming[p]) <= NumSlots
    /\ pc[p] # "idle" =>
         i[p] \in 1..Len(naming[p]) /\ image[p] \in Images /\ format[p] \in Formats
    /\ pc[p] \in Located => found[p] \in Formats

DataInv == FilesInv /\ LocalsInv /\ HistoryInv /\ \A p \in Savers : SaverInv(p)

USE SlotCount, FormatsKnown, Budgets, NoImageIsOne

LEMMA FilesTyped ==
    /\ NoFiles \in Files
    /\ \A fs \in Files, f \in Formats, c \in Images \cup {NoImage} :
          [fs EXCEPT ![f] = c] \in Files
    /\ \A fs \in Files : Content(fs) \subseteq Images
  BY DEF NoFiles, Files, Content

LEMMA DataInit == Init => DataInv
  <1> SUFFICES ASSUME Init PROVE DataInv
    OBVIOUS
  <1>1. FilesInv
    <2>1. disk \in [Slots -> Files]
      <3>1. disk \in [Slots -> {NoFiles} \cup
                               {[NoFiles EXCEPT ![f] = c] : f \in Formats, c \in Images}]
        BY DEF Init
      <3>2. {NoFiles} \cup {[NoFiles EXCEPT ![f] = c] : f \in Formats, c \in Images}
              \subseteq Files
        BY FilesTyped
      <3> QED BY <3>1, <3>2
    <2> QED BY <2>1, FilesTyped DEF Init, FilesInv
  <1>2. LocalsInv
    BY DEF Init, LocalsInv, Written, AllFormats
  <1>3. HistoryInv
    <2>1. used \subseteq Images
      BY <1>1, FilesTyped DEF Init, FilesInv
    <2> QED BY <2>1 DEF Init, HistoryInv
  <1>4. \A p \in Savers : SaverInv(p)
    <2>1. Len(<<>>) = 0
      OBVIOUS
    <2> QED BY <2>1 DEF Init, SaverInv, Located
  <1> QED BY <1>1, <1>2, <1>3, <1>4 DEF DataInv

\* The name a save is at.
LEMMA SlotTyped ==
    ASSUME LockInv, DataInv, NEW p \in Savers, pc[p] # "idle"
    PROVE  Slot(p) \in Slots
  BY DEF LockInv, DataInv, SaverInv, Slot

\* p goes on to its next name, or to the next phase at the first.
LEMMA AdvanceTyped ==
    ASSUME LockInv, DataInv, NEW p \in Savers, pc[p] # "idle",
           NEW same, NEW next, Advance(p, same, next)
    PROVE  /\ i' \in [Savers -> 1..NumSlots] /\ i'[p] \in 1..Len(naming[p])
           /\ \A q \in Savers \ {p} : i'[q] = i[q] /\ pc'[q] = pc[q]
           /\ pc'[p] \in {same, next}
  <1>1. i[p] \in 1..Len(naming[p]) /\ Len(naming[p]) \in 1..NumSlots
    BY DEF LockInv, DataInv, SaverInv
  <1>2. CASE Last(p)
    BY <1>1, <1>2 DEF Advance, DataInv, LocalsInv, LockInv
  <1>3. CASE ~Last(p)
    <2>1. i[p] + 1 \in 1..Len(naming[p])
      BY <1>1, <1>3 DEF Last
    <2> QED BY <1>1, <1>3, <2>1 DEF Advance, DataInv, LocalsInv, LockInv
  <1> QED BY <1>2, <1>3

\* p, and no other, moves on inside its call, at a name of its own.
GoesOn(p) ==
    /\ UNCHANGED <<naming, image, format>>
    /\ \A q \in Savers \ {p} : i'[q] = i[q] /\ pc'[q] = pc[q] /\ found'[q] = found[q]
    /\ i'[p] \in 1..Len(naming[p])
    /\ pc'[p] \in Located => found'[p] \in Formats

LEMMA SaversKept ==
    ASSUME DataInv, NEW p \in Savers, pc[p] # "idle", GoesOn(p)
    PROVE  \A q \in Savers : SaverInv(q)'
  <1> SUFFICES ASSUME NEW q \in Savers PROVE SaverInv(q)'
    OBVIOUS
  <1>1. SaverInv(q) /\ SaverInv(p)
    BY DEF DataInv
  <1>2. CASE q = p
    BY <1>1, <1>2 DEF SaverInv, GoesOn
  <1>3. CASE q # p
    BY <1>1, <1>3 DEF SaverInv, GoesOn
  <1> QED BY <1>2, <1>3

\* The backup phase.
LEMMA DataBackup ==
    ASSUME LockInv, DataInv, NEW p \in Savers,
           Probe(p) \/ Read(p) \/ Store(p) \/ Prune(p) \/ Abort(p)
    PROVE  DataInv'
  <1> DEFINE s == Slot(p)
  <1>0. /\ s \in Slots /\ disk[s] \in Files /\ backup[s] \in Files /\ SaverInv(p)
        /\ pc[p] # "idle" /\ pc \in [Savers -> Busy \cup {"idle"}]
    <2>1. pc[p] # "idle"
      BY DEF Probe, Read, Store, Prune, Abort
    <2> QED BY <2>1, SlotTyped DEF DataInv, FilesInv, LockInv
  <1> HIDE DEF s
  <1>1. ASSUME Probe(p) PROVE DataInv'
    <2>1. CASE /\ backup' = [backup EXCEPT ![s] = NoFiles]
               /\ Advance(p, "probe", "clean") /\ UNCHANGED <<found, orig>>
      <3>1. FilesInv' /\ HistoryInv'
        BY <1>0, <1>1, <2>1, FilesTyped DEF Probe, DataInv, FilesInv, HistoryInv
      <3>2. LocalsInv'
        BY <1>0, <1>1, <2>1, AdvanceTyped DEF Probe, DataInv, LocalsInv
      <3>3. GoesOn(p)
        BY <1>0, <1>1, <2>1, AdvanceTyped DEF Probe, GoesOn, Located
      <3> QED BY <1>0, <3>1, <3>2, <3>3, SaversKept DEF DataInv
    <2>2. ASSUME NEW f \in Probed \cap Formats, disk[s][f] # NoImage,
                 found' = [found EXCEPT ![p] = f],
                 orig' = [orig EXCEPT ![p][s] = <<f, disk[s][f]>>],
                 Goto(p, "read"), UNCHANGED backup
          PROVE  DataInv'
      <3>1. disk[s][f] \in Images
        BY <1>0, <2>2 DEF Files
      <3>2. FilesInv' /\ HistoryInv'
        BY <1>0, <1>1, <2>2, <3>1 DEF Probe, DataInv, FilesInv, HistoryInv
      <3>3. LocalsInv'
        BY <1>0, <1>1, <2>2 DEF Probe, DataInv, LocalsInv, Goto, Probed, AllFormats
      <3>4. GoesOn(p)
        BY <1>0, <1>1, <2>2 DEF Probe, GoesOn, Goto, SaverInv, DataInv, LocalsInv
      <3> QED BY <1>0, <3>2, <3>3, <3>4, SaversKept DEF DataInv
    <2> QED BY <1>1, <2>1, <2>2 DEF Probe, s
  <1>2. ASSUME Read(p) PROVE DataInv'
    <2>1. found[p] \in Formats /\ disk[s][found[p]] \in Images \cup {NoImage}
      BY <1>0, <1>2 DEF Read, SaverInv, Located, Files
    <2>2. FilesInv' /\ HistoryInv'
      BY <1>2 DEF Read, DataInv, FilesInv, HistoryInv, ghosts
    <2>3. CASE Advance(p, "probe", "clean") /\ UNCHANGED data
      <3>1. LocalsInv'
        BY <1>0, <1>2, <2>3, AdvanceTyped DEF Read, DataInv, LocalsInv
      <3>2. GoesOn(p)
        BY <1>0, <1>2, <2>3, AdvanceTyped DEF Read, GoesOn, Located
      <3> QED BY <1>0, <2>2, <3>1, <3>2, SaversKept DEF DataInv
    <2>4. CASE data' = [data EXCEPT ![p] = disk[s][found[p]]] /\ Goto(p, "store")
      <3>1. LocalsInv'
        BY <1>2, <2>1, <2>4 DEF Read, DataInv, LocalsInv, Goto
      <3>2. GoesOn(p)
        BY <1>0, <1>2, <2>1, <2>4 DEF Read, GoesOn, Goto, SaverInv
      <3> QED BY <1>0, <2>2, <3>1, <3>2, SaversKept DEF DataInv
    <2> QED BY <1>2, <2>3, <2>4 DEF Read, s
  <1>3. ASSUME Store(p) PROVE DataInv'
    <2>1. found[p] \in Formats /\ data[p] \in Images \cup {NoImage}
      BY <1>0, <1>3 DEF Store, SaverInv, Located, DataInv, LocalsInv
    <2>2. FilesInv'
      BY <1>0, <1>3, <2>1, FilesTyped DEF Store, DataInv, FilesInv, s
    <2>3. LocalsInv' /\ HistoryInv'
      BY <1>3 DEF Store, DataInv, LocalsInv, HistoryInv, Goto, ghosts
    <2>4. GoesOn(p)
      BY <1>0, <1>3, <2>1 DEF Store, GoesOn, Goto, SaverInv
    <2> QED BY <1>0, <2>2, <2>3, <2>4, SaversKept DEF DataInv
  <1>4. ASSUME Prune(p) PROVE DataInv'
    <2>1. found[p] \in Formats /\ data[p] \in Images \cup {NoImage}
      BY <1>0, <1>4 DEF Prune, SaverInv, Located, DataInv, LocalsInv
    <2>2. FilesInv'
      BY <1>0, <1>4, <2>1, FilesTyped DEF Prune, DataInv, FilesInv, s
    <2>3. LocalsInv' /\ HistoryInv'
      BY <1>0, <1>4, AdvanceTyped DEF Prune, DataInv, LocalsInv, HistoryInv, ghosts
    <2>4. GoesOn(p)
      BY <1>0, <1>4, AdvanceTyped DEF Prune, GoesOn, Located
    <2> QED BY <1>0, <2>2, <2>3, <2>4, SaversKept DEF DataInv
  <1>5. ASSUME Abort(p) PROVE DataInv'
    <2>1. FilesInv' /\ LocalsInv' /\ HistoryInv'
      BY <1>5 DEF Abort, DataInv, FilesInv, LocalsInv, HistoryInv, Goto, Ends, ghosts
    <2>2. GoesOn(p)
      BY <1>0, <1>5 DEF Abort, GoesOn, Goto, SaverInv, Located
    <2> QED BY <1>0, <2>1, <2>2, SaversKept DEF DataInv
  <1> QED BY <1>1, <1>2, <1>3, <1>4, <1>5

\* The clean-up of a slot's other formats, wherever it stops.
LEMMA CleanTyped ==
    ASSUME LockInv, DataInv, NEW p \in Savers, pc[p] # "idle", NEW f \in Formats,
           CleanConflicts(p, f)
    PROVE  disk' \in [Slots -> Files] /\ destroyed' \subseteq Images
  <1> DEFINE s == Slot(p)
             Left(stay) == [g \in Formats |-> IF g \in stay \cup {f} THEN disk[s][g] ELSE NoImage]
  <1>1. s \in Slots /\ disk[s] \in Files
    BY SlotTyped DEF DataInv, FilesInv
  <1>2. PICK stay : /\ disk' = [disk EXCEPT ![s] = Left(stay)]
                    /\ Destroys(p, s, Content(disk[s]) \ Content(Left(stay)))
    BY DEF CleanConflicts
  <1>3. Left(stay) \in Files
    BY <1>1 DEF Files
  <1>4. Content(disk[s]) \subseteq Images
    BY <1>1, FilesTyped
  <1> QED BY <1>1, <1>2, <1>3, <1>4 DEF Destroys, DataInv, FilesInv, HistoryInv

\* A clean-up that does not fail leaves the file in format f and no other.
LEMMA CleansAll ==
    ASSUME "clean" \notin Faults, NEW p \in Savers, NEW f \in Formats, CleanConflicts(p, f),
           disk[Slot(p)] \in Files
    PROVE  LET s    == Slot(p)
               kept == [NoFiles EXCEPT ![f] = disk[s][f]]
           IN  /\ disk' = [disk EXCEPT ![s] = kept]
               /\ Destroys(p, s, Content(disk[s]) \ Content(kept))
  <1> DEFINE s == Slot(p)
             Left == [g \in Formats |-> IF g \in {} \cup {f} THEN disk[s][g] ELSE NoImage]
  <1>1. /\ disk' = [disk EXCEPT ![s] = Left]
        /\ Destroys(p, s, Content(disk[s]) \ Content(Left))
    BY DEF CleanConflicts
  <1>2. Left = [NoFiles EXCEPT ![f] = disk[s][f]]
    BY DEF NoFiles
  <1> QED BY <1>1, <1>2

\* The writes of the new image.
LEMMA DataSave ==
    ASSUME LockInv, DataInv, NEW p \in Savers, Clean(p) \/ Write(p) \/ WriteFails(p)
    PROVE  DataInv'
  <1>0. /\ Slot(p) \in Slots /\ disk[Slot(p)] \in Files /\ SaverInv(p) /\ pc[p] # "idle"
        /\ pc \in [Savers -> Busy \cup {"idle"}]
        /\ image[p] \in Images /\ format[p] \in Formats
    <2>1. pc[p] # "idle"
      BY DEF Clean, Write, WriteFails, SaveStops
    <2> QED BY <2>1, SlotTyped DEF DataInv, FilesInv, LockInv, SaverInv
  <1>1. ASSUME Clean(p) PROVE DataInv'
    <2>1. FilesInv' /\ HistoryInv'
      BY <1>0, <1>1, CleanTyped DEF Clean, DataInv, FilesInv, HistoryInv
    <2>2. LocalsInv'
      BY <1>1 DEF Clean, DataInv, LocalsInv, Goto
    <2>3. GoesOn(p)
      BY <1>0, <1>1 DEF Clean, GoesOn, Goto, SaverInv, Located
    <2> QED BY <1>0, <2>1, <2>2, <2>3, SaversKept DEF DataInv
  <1>2. ASSUME Write(p) PROVE DataInv'
    <2>1. FilesInv'
      BY <1>0, <1>2, FilesTyped DEF Write, DataInv, FilesInv
    <2>2. HistoryInv'
      <3>1. disk[Slot(p)][format[p]] \in Images \cup {NoImage}
        BY <1>0 DEF Files
      <3> QED BY <1>2, <3>1 DEF Write, Destroys, DataInv, HistoryInv
    <2>3. LocalsInv'
      BY <1>0, <1>2, AdvanceTyped DEF Write, DataInv, LocalsInv
    <2>4. GoesOn(p)
      BY <1>0, <1>2, AdvanceTyped DEF Write, GoesOn, Located
    <2> QED BY <1>0, <2>1, <2>2, <2>3, <2>4, SaversKept DEF DataInv
  <1>3. ASSUME WriteFails(p) PROVE DataInv'
    <2>1. FilesInv' /\ HistoryInv'
      BY <1>3 DEF WriteFails, DataInv, FilesInv, HistoryInv, ghosts
    <2>2. LocalsInv'
      BY <1>3 DEF WriteFails, DataInv, LocalsInv, Ends
    <2>3. GoesOn(p)
      BY <1>0, <1>3 DEF WriteFails, GoesOn, SaverInv, Located, LocalsInv, DataInv
    <2> QED BY <1>0, <2>1, <2>2, <2>3, SaversKept DEF DataInv
  <1> QED BY <1>1, <1>2, <1>3

\* The rollback.
LEMMA DataRestore ==
    ASSUME LockInv, DataInv, NEW p \in Savers,
           \/ Restore(p) \/ RestoreClean(p) \/ RestoreWrite(p) \/ RestoreFails(p)
           \/ Consume(p)
    PROVE  DataInv'
  <1> DEFINE s == Slot(p)
  <1>0. /\ s \in Slots /\ disk[s] \in Files /\ backup[s] \in Files /\ SaverInv(p)
        /\ pc[p] # "idle" /\ pc \in [Savers -> Busy \cup {"idle"}]
    <2>1. pc[p] # "idle"
      BY DEF Restore, RestoreClean, RestoreWrite, RestoreFails, Consume
    <2> QED BY <2>1, SlotTyped DEF DataInv, FilesInv, LockInv
  <1> HIDE DEF s
  <1>1. ASSUME Restore(p) PROVE DataInv'
    <2>1. FilesInv' /\ HistoryInv'
      BY <1>1 DEF Restore, DataInv, FilesInv, HistoryInv, ghosts
    <2>2. CASE Advance(p, "restore", "unlock") /\ UNCHANGED <<found, data>>
      <3>1. LocalsInv'
        BY <1>0, <1>1, <2>2, AdvanceTyped DEF Restore, DataInv, LocalsInv
      <3>2. GoesOn(p)
        BY <1>0, <1>1, <2>2, AdvanceTyped DEF Restore, GoesOn, Located
      <3> QED BY <1>0, <2>1, <3>1, <3>2, SaversKept DEF DataInv
    <2>3. ASSUME NEW f \in Formats, found' = [found EXCEPT ![p] = f],
                 data' = [data EXCEPT ![p] = backup[s][f]], Goto(p, "rclean")
          PROVE  DataInv'
      <3>1. backup[s][f] \in Images \cup {NoImage} /\ f \in AllFormats
        BY <1>0 DEF Files
      <3>2. LocalsInv'
        BY <1>1, <2>3, <3>1 DEF Restore, DataInv, LocalsInv, Goto
      <3>3. GoesOn(p)
        BY <1>0, <1>1, <2>3 DEF Restore, GoesOn, Goto, SaverInv, DataInv, LocalsInv
      <3> QED BY <1>0, <2>1, <3>2, <3>3, SaversKept DEF DataInv
    <2> QED BY <1>1, <2>2, <2>3 DEF Restore, s
  <1>2. ASSUME RestoreClean(p) PROVE DataInv'
    <2>1. found[p] \in Formats
      BY <1>0, <1>2 DEF RestoreClean, SaverInv, Located
    <2>2. FilesInv' /\ HistoryInv'
      BY <1>0, <1>2, <2>1, CleanTyped DEF RestoreClean, DataInv, FilesInv, HistoryInv
    <2>3. LocalsInv'
      BY <1>2 DEF RestoreClean, DataInv, LocalsInv, Goto
    <2>4. GoesOn(p)
      BY <1>0, <1>2, <2>1 DEF RestoreClean, GoesOn, Goto, SaverInv
    <2> QED BY <1>0, <2>2, <2>3, <2>4, SaversKept DEF DataInv
  <1>3. ASSUME RestoreWrite(p) PROVE DataInv'
    <2>1. found[p] \in Formats /\ data[p] \in Images \cup {NoImage}
      BY <1>0, <1>3 DEF RestoreWrite, SaverInv, Located, DataInv, LocalsInv
    <2>2. FilesInv'
      BY <1>0, <1>3, <2>1, FilesTyped DEF RestoreWrite, DataInv, FilesInv, s
    <2>3. HistoryInv'
      <3>1. disk[s][found[p]] \in Images \cup {NoImage}
        BY <1>0, <2>1 DEF Files
      <3> QED BY <1>3, <3>1 DEF RestoreWrite, Destroys, DataInv, HistoryInv, s
    <2>4. LocalsInv'
      BY <1>3 DEF RestoreWrite, DataInv, LocalsInv, Goto
    <2>5. GoesOn(p)
      BY <1>0, <1>3, <2>1 DEF RestoreWrite, GoesOn, Goto, SaverInv
    <2> QED BY <1>0, <2>2, <2>3, <2>4, <2>5, SaversKept DEF DataInv
  <1>4. ASSUME RestoreFails(p) PROVE DataInv'
    <2>1. Advance(p, "restore", "unlock") /\ Ends(p, "unrestored")
      BY <1>4 DEF RestoreFails
    <2>2. FilesInv' /\ HistoryInv'
      BY <1>4 DEF RestoreFails, DataInv, FilesInv, HistoryInv, ghosts
    <2>3. LocalsInv'
      BY <1>0, <1>4, <2>1, AdvanceTyped DEF RestoreFails, DataInv, LocalsInv, Ends
    <2>4. GoesOn(p)
      BY <1>0, <1>4, <2>1, AdvanceTyped DEF RestoreFails, GoesOn, Located
    <2> QED BY <1>0, <2>2, <2>3, <2>4, SaversKept DEF DataInv
  <1>5. ASSUME Consume(p) PROVE DataInv'
    <2>1. FilesInv' /\ HistoryInv'
      BY <1>5, FilesTyped DEF Consume, DataInv, FilesInv, HistoryInv, ghosts
    <2>2. LocalsInv'
      BY <1>0, <1>5, AdvanceTyped DEF Consume, DataInv, LocalsInv
    <2>3. GoesOn(p)
      BY <1>0, <1>5, AdvanceTyped DEF Consume, GoesOn, Located
    <2> QED BY <1>0, <2>1, <2>2, <2>3, SaversKept DEF DataInv
  <1> QED BY <1>1, <1>2, <1>3, <1>4, <1>5

\* The call, its mutexes, and the operator's delete.
LEMMA DataCalls ==
    ASSUME LockInv, DataInv, NEW p \in Savers, Begin(p) \/ Lock(p) \/ Unlock(p)
    PROVE  DataInv'
  <1>0. /\ pc \in [Savers -> Busy \cup {"idle"}] /\ naming \in [Savers -> Seq(Slots)]
        /\ i \in [Savers -> 1..NumSlots] /\ \A q \in Savers : SaverInv(q)
    BY DEF LockInv, DataInv, LocalsInv
  <1>1. ASSUME Begin(p) PROVE DataInv'
    <2>1. PICK q \in Namings, c \in Images \ used, f \in Written \cap Formats :
             /\ naming' = [naming EXCEPT ![p] = q] /\ image' = [image EXCEPT ![p] = c]
             /\ format' = [format EXCEPT ![p] = f] /\ used' = used \cup {c}
      BY <1>1 DEF Begin
    <2>2. Len(q) \in 1..NumSlots
      <3>1. PICK n \in 1..NumSlots : q \in [1..n -> Slots]
        BY DEF Namings
      <3>2. q \in Seq(Slots) /\ Len(q) = n
        BY <3>1
      <3> QED BY <3>2
    <2>3. FilesInv'
      BY <1>1 DEF Begin, DataInv, FilesInv
    <2>4. LocalsInv'
      <3>1. /\ i' = [i EXCEPT ![p] = 1] /\ outcome' = [outcome EXCEPT ![p] = "none"]
            /\ UNCHANGED <<found, data>>
        BY <1>1 DEF Begin, Ends
      <3>2. 1 \in 1..NumSlots
        OBVIOUS
      <3> QED BY <2>1, <3>1, <3>2 DEF DataInv, LocalsInv
    <2>5. HistoryInv'
      <3>1. /\ orig' = [orig EXCEPT ![p] = [t \in Slots |-> <<>>]]
            /\ hit' = [hit EXCEPT ![p] = {}] /\ UNCHANGED <<deletes, gone, destroyed>>
        BY <1>1 DEF Begin
      <3> QED BY <2>1, <3>1 DEF DataInv, HistoryInv
    <2>6. ASSUME NEW r \in Savers PROVE SaverInv(r)'
      <3>1. pc' = [pc EXCEPT ![p] = "lock"] /\ i' = [i EXCEPT ![p] = 1] /\ UNCHANGED found
        BY <1>1 DEF Begin
      <3>2. CASE r = p
        <4>1. /\ naming'[p] = q /\ image'[p] = c /\ format'[p] = f
              /\ i'[p] = 1 /\ pc'[p] = "lock"
          BY <1>0, <2>1, <3>1 DEF DataInv, LocalsInv
        <4> QED BY <2>2, <3>2, <4>1 DEF SaverInv, Located
      <3>3. CASE r # p
        BY <1>0, <2>1, <3>1, <3>3 DEF SaverInv, DataInv, LocalsInv
      <3> QED BY <3>2, <3>3
    <2> QED BY <2>3, <2>4, <2>5, <2>6 DEF DataInv
  <1>2. ASSUME Lock(p) PROVE DataInv'
    <2>1. /\ pc[p] = "lock"
          /\ UNCHANGED <<disk, backup, naming, i, image, format, found, data, outcome, used,
                         deletes, orig, hit, gone, destroyed>>
          /\ \E where \in {"probe", "lock"} : pc' = [pc EXCEPT ![p] = where]
      BY <1>2 DEF Lock, Take, ghosts
    <2>2. GoesOn(p)
      BY <1>0, <2>1 DEF GoesOn, SaverInv, Located
    <2>3. FilesInv' /\ LocalsInv' /\ HistoryInv'
      BY <2>1 DEF DataInv, FilesInv, LocalsInv, HistoryInv
    <2> QED BY <2>1, <2>2, <2>3, SaversKept DEF DataInv
  <1>3. ASSUME Unlock(p) PROVE DataInv'
    <2>1. /\ pc[p] = "unlock" /\ i' = [i EXCEPT ![p] = 1]
          /\ UNCHANGED <<disk, backup, naming, image, format, found, data, outcome, used,
                         deletes, orig, hit, gone, destroyed>>
          /\ \E where \in {"idle", "unlock"} : pc' = [pc EXCEPT ![p] = where]
      BY <1>3 DEF Unlock, ghosts
    <2>2. GoesOn(p)
      <3>1. 1 \in 1..Len(naming[p])
        BY <1>0, <2>1 DEF SaverInv
      <3> QED BY <1>0, <2>1, <3>1 DEF GoesOn, Located
    <2>3. FilesInv' /\ HistoryInv'
      BY <2>1 DEF DataInv, FilesInv, HistoryInv
    <2>4. LocalsInv'
      BY <2>1 DEF DataInv, LocalsInv
    <2> QED BY <2>1, <2>2, <2>3, <2>4, SaversKept DEF DataInv
  <1> QED BY <1>1, <1>2, <1>3

LEMMA DataStep == LockInv /\ DataInv /\ [Next]_vars => DataInv'
  <1> SUFFICES ASSUME LockInv, DataInv, [Next]_vars PROVE DataInv'
    OBVIOUS
  <1>1. ASSUME NEW s \in Slots, NEW f \in Formats, Delete(s, f) PROVE DataInv'
    <2>1. disk[s] \in Files /\ disk[s][f] \in Images
      BY <1>1 DEF Delete, DataInv, FilesInv, Files
    <2>2. FilesInv'
      BY <1>1, <2>1, FilesTyped DEF Delete, DataInv, FilesInv
    <2>3. HistoryInv'
      BY <1>1, <2>1 DEF Delete, DataInv, HistoryInv
    <2>4. LocalsInv' /\ \A p \in Savers : SaverInv(p)'
      BY <1>1 DEF Delete, locals, DataInv, LocalsInv, SaverInv
    <2> QED BY <2>2, <2>3, <2>4 DEF DataInv
  <1>2. CASE UNCHANGED vars
    BY <1>2 DEF vars, locals, ghosts, DataInv, FilesInv, LocalsInv, HistoryInv, SaverInv
  <1> QED BY <1>1, <1>2, DataBackup, DataSave, DataRestore, DataCalls DEF Next, Step

\* Every variable keeps its type; a save never runs past the end of its list of names,
\* nor uses a format it has not settled on (protectedSlotNames, BackupSlot).
THEOREM TypeCorrect == Spec => []TypeOK
  <1>1. LockInv /\ DataInv => TypeOK
    BY DEF LockInv, DataInv, FilesInv, LocalsInv, HistoryInv, Busy, TypeOK
  <1> QED BY <1>1, LockInit, LockStep, DataInit, DataStep, PTL DEF Spec

----------------------------------------------------------------------------
(* Following a save from name to name.                                     *)

Backing == {"probe", "read", "store", "prune"}
Saving  == {"clean", "write"}
Undoing == {"restore", "rclean", "rwrite", "consume"}

\* A list of names names no slot twice.
LEMMA NamingsDistinct ==
    ASSUME NEW q \in Namings
    PROVE  /\ q \in Seq(Slots) /\ Elems(q) \subseteq Slots /\ Elems(q) # {}
           /\ \A j, k \in 1..Len(q) : q[j] = q[k] => j = k
  <1>1. PICK n \in 1..NumSlots :
           q \in [1..n -> Slots] /\ \A j, k \in 1..n : q[j] = q[k] => j = k
    BY DEF Namings
  <1>2. q \in Seq(Slots) /\ Len(q) = n /\ n \in Nat /\ 1 \in 1..n
    BY <1>1, SlotCount
  <1> QED BY <1>1, <1>2 DEF Elems

\* The next name of a save, or the first one of its next phase.
LEMMA AdvanceCases ==
    ASSUME LockInv, DataInv, NEW p \in Savers, Working(p),
           NEW same, NEW next, Advance(p, same, next)
    PROVE  /\ \A q \in Savers \ {p} : pc'[q] = pc[q] /\ i'[q] = i[q]
           /\ \/ Last(p) /\ i[p] = Len(naming[p]) /\ pc'[p] = next /\ i'[p] = 1
              \/ ~Last(p) /\ i[p] < Len(naming[p]) /\ pc'[p] = same /\ i'[p] = i[p] + 1
  <1>1. i[p] \in 1..Len(naming[p]) /\ Len(naming[p]) \in Nat /\ p \in DOMAIN pc
        /\ p \in DOMAIN i
    BY DEF LockInv, DataInv, SaverInv, LocalsInv, Working
  <1> QED BY <1>1 DEF Advance, Last, LockInv, DataInv, LocalsInv

\* A save finds nothing known of its names when it starts, and they are distinct.
NamesInv ==
    \A p \in Savers :
        /\ \A j, k \in 1..Len(naming[p]) : naming[p][j] = naming[p][k] => j = k
        /\ pc[p] = "lock" => i[p] = 1 /\ \A s \in Slots : orig[p][s] = <<>>

PathInv == LockInv /\ DataInv /\ NamesInv

\* The steps of a save that holds its locks.
WorkStep(p) ==
    \/ Probe(p) \/ Read(p) \/ Store(p) \/ Prune(p) \/ Abort(p)
    \/ Clean(p) \/ Write(p) \/ WriteFails(p)
    \/ Restore(p) \/ RestoreClean(p) \/ RestoreWrite(p) \/ RestoreFails(p) \/ Consume(p)

\* Those steps touch one slot, and the variables of no other save.
Touches(p, s) ==
    /\ UNCHANGED <<naming, image, format, hit>>
    /\ \A t \in Slots \ {s} :
          disk'[t] = disk[t] /\ backup'[t] = backup[t] /\ orig'[p][t] = orig[p][t]
    /\ \A q \in Savers \ {p} :
          /\ pc'[q] = pc[q] /\ i'[q] = i[q] /\ found'[q] = found[q]
          /\ data'[q] = data[q] /\ outcome'[q] = outcome[q] /\ orig'[q] = orig[q]

\* Where a save that holds its locks is, and what its variables are.
LEMMA Place ==
    ASSUME PathInv, NEW p \in Savers, Working(p)
    PROVE  /\ i[p] \in 1..Len(naming[p]) /\ Len(naming[p]) \in Nat
           /\ Slot(p) = naming[p][i[p]] /\ Slot(p) \in Slots
           /\ image[p] \in Images /\ format[p] \in Formats
           /\ pc[p] \in Located => found[p] \in Formats
           /\ disk \in [Slots -> Files] /\ backup \in [Slots -> Files]
           /\ pc \in [Savers -> Busy \cup {"idle"}] /\ i \in [Savers -> 1..NumSlots]
           /\ found \in [Savers -> AllFormats] /\ data \in [Savers -> Images \cup {NoImage}]
           /\ outcome \in [Savers -> {"none", "saved", "aborted", "failed", "unrestored"}]
           /\ orig \in [Savers -> [Slots -> {<<>>} \cup (Formats \X Images)]]
           /\ \A k \in 1..Len(naming[p]) :
                 /\ naming[p][k] \in Slots /\ owner[naming[p][k]] = p
                 /\ k # i[p] => naming[p][k] # Slot(p)
  <1>1. pc[p] # "idle" /\ SaverInv(p) /\ naming[p] \in Seq(Slots)
    BY DEF Working, PathInv, LockInv, DataInv
  <1>2. \A k \in 1..Len(naming[p]) : naming[p][k] \in Slots /\ naming[p][k] \in held[p]
    BY <1>1 DEF PathInv, LockInv, Elems
  <1>3. \A k \in 1..Len(naming[p]) : owner[naming[p][k]] = p
    BY <1>2 DEF PathInv, LockInv
  <1>4. i[p] \in 1..Len(naming[p]) /\ \A k \in 1..Len(naming[p]) :
           k # i[p] => naming[p][k] # naming[p][i[p]]
    BY <1>1 DEF PathInv, NamesInv, SaverInv
  <1> QED BY <1>1, <1>2, <1>3, <1>4
          DEF PathInv, DataInv, LockInv, FilesInv, LocalsInv, HistoryInv, SaverInv, Slot

LEMMA WorkTouches ==
    ASSUME PathInv, NEW p \in Savers, WorkStep(p)
    PROVE  Working(p) /\ Touches(p, Slot(p))
  <1>1. Working(p)
    BY DEF WorkStep, Probe, Read, Store, Prune, Abort, Clean, Write, WriteFails, SaveStops,
           Restore, RestoreClean, RestoreWrite, RestoreFails, Consume, Working
  <1>2. LockInv /\ DataInv
    BY DEF PathInv
  <1> DEFINE s == Slot(p)
  <1>3. /\ s \in Slots /\ disk \in [Slots -> Files] /\ backup \in [Slots -> Files]
        /\ pc \in [Savers -> Busy \cup {"idle"}] /\ i \in [Savers -> 1..NumSlots]
        /\ found \in [Savers -> AllFormats] /\ data \in [Savers -> Images \cup {NoImage}]
        /\ outcome \in [Savers -> {"none", "saved", "aborted", "failed", "unrestored"}]
        /\ orig \in [Savers -> [Slots -> {<<>>} \cup (Formats \X Images)]]
    BY <1>1, Place
  <1>4. CASE Probe(p)
    <2>1. PICK o : orig' = orig \/ orig' = [orig EXCEPT ![p][s] = o]
      BY <1>4 DEF Probe
    <2>2. /\ UNCHANGED <<naming, image, format, hit, disk, data, outcome>>
          /\ UNCHANGED found \/ \E f : found' = [found EXCEPT ![p] = f]
          /\ UNCHANGED backup \/ backup' = [backup EXCEPT ![s] = NoFiles]
          /\ Advance(p, "probe", "clean") \/ Goto(p, "read")
      BY <1>4 DEF Probe
    <2>3. \A q \in Savers \ {p} : pc'[q] = pc[q] /\ i'[q] = i[q]
      BY <1>1, <1>2, <1>3, <2>2, AdvanceCases DEF Goto
    <2>4. /\ \A q \in Savers \ {p} : orig'[q] = orig[q]
          /\ \A t \in Slots \ {s} : orig'[p][t] = orig[p][t]
      BY <1>3, <2>1
    <2> QED BY <1>1, <1>3, <2>2, <2>3, <2>4 DEF Touches
  <1>5. CASE Read(p) \/ Store(p) \/ Prune(p) \/ Abort(p)
    <2>1. \A q \in Savers \ {p} : pc'[q] = pc[q] /\ i'[q] = i[q]
      BY <1>1, <1>2, <1>3, <1>5, AdvanceCases DEF Read, Store, Prune, Abort, Goto
    <2> QED BY <1>1, <1>3, <1>5, <2>1 DEF Read, Store, Prune, Abort, Ends, Touches, ghosts
  <1>6. CASE Clean(p) \/ Write(p) \/ WriteFails(p)
    <2>1. \A q \in Savers \ {p} : pc'[q] = pc[q] /\ i'[q] = i[q]
      BY <1>1, <1>2, <1>3, <1>6, AdvanceCases DEF Clean, Write, WriteFails, Goto
    <2> QED BY <1>1, <1>3, <1>6, <2>1
            DEF Clean, Write, WriteFails, CleanConflicts, Ends, Touches, ghosts
  <1>7. CASE Restore(p) \/ RestoreClean(p) \/ RestoreWrite(p) \/ RestoreFails(p) \/ Consume(p)
    <2>1. \A q \in Savers \ {p} : pc'[q] = pc[q] /\ i'[q] = i[q]
      BY <1>1, <1>2, <1>3, <1>7, AdvanceCases
      DEF Restore, RestoreClean, RestoreWrite, RestoreFails, Consume, Goto
    <2> QED BY <1>1, <1>3, <1>7, <2>1
            DEF Restore, RestoreClean, RestoreWrite, RestoreFails, Consume, CleanConflicts,
                Ends, Touches, ghosts
  <1> QED BY <1>4, <1>5, <1>6, <1>7 DEF WorkStep

\* What a call does before it has its locks and after its work, and a delete.
LEMMA NamesStep == PathInv /\ [Next]_vars => NamesInv'
  <1> SUFFICES ASSUME PathInv, [Next]_vars PROVE NamesInv'
    OBVIOUS
  <1>0. /\ NamesInv /\ pc \in [Savers -> Busy \cup {"idle"}] /\ i \in [Savers -> 1..NumSlots]
        /\ naming \in [Savers -> Seq(Slots)]
        /\ orig \in [Savers -> [Slots -> {<<>>} \cup (Formats \X Images)]]
    BY DEF PathInv, LockInv, DataInv, LocalsInv, HistoryInv
  <1>1. ASSUME NEW p \in Savers, WorkStep(p) PROVE NamesInv'
    <2>1. Touches(p, Slot(p)) /\ Working(p)
      BY <1>1, WorkTouches
    <2>2. PICK w \in Busy \ {"lock"} : pc'[p] = w
      <3>1. \/ \E w \in Busy \ {"lock"} : pc' = [pc EXCEPT ![p] = w]
            \/ \E u, w \in Busy \ {"lock"} : Advance(p, u, w)
        BY <1>1
        DEF WorkStep, Probe, Read, Store, Prune, Abort, Clean, Write, WriteFails, Restore,
            RestoreClean, RestoreWrite, RestoreFails, Consume, Goto, Busy
      <3> QED BY <1>0, <2>1, <3>1, AdvanceCases DEF PathInv
    <2>3. ASSUME NEW q \in Savers \ {p} PROVE orig'[q] = orig[q] /\ i'[q] = i[q] /\ pc'[q] = pc[q]
      BY <2>1 DEF Touches
    <2>4. naming' = naming /\ pc'[p] # "lock"
      BY <2>1, <2>2 DEF Touches
    <2>5. ASSUME NEW r \in Savers
          PROVE  /\ \A j, k \in 1..Len(naming'[r]) : naming'[r][j] = naming'[r][k] => j = k
                 /\ pc'[r] = "lock" => i'[r] = 1 /\ \A s \in Slots : orig'[r][s] = <<>>
      <3>1. \A j, k \in 1..Len(naming[r]) : naming[r][j] = naming[r][k] => j = k
        BY <1>0 DEF NamesInv
      <3>2. CASE r = p
        BY <2>4, <3>1, <3>2
      <3>3. CASE r # p
        <4>1. orig'[r] = orig[r] /\ i'[r] = i[r] /\ pc'[r] = pc[r]
          BY <2>3, <3>3
        <4>2. pc[r] = "lock" => i[r] = 1 /\ \A s \in Slots : orig[r][s] = <<>>
          BY <1>0 DEF NamesInv
        <4> QED BY <2>4, <3>1, <4>1, <4>2
      <3> QED BY <3>2, <3>3
    <2> QED BY <2>5 DEF NamesInv
  <1>2. ASSUME NEW p \in Savers, Begin(p) PROVE NamesInv'
    <2>1. PICK q \in Namings : naming' = [naming EXCEPT ![p] = q]
      BY <1>2 DEF Begin
    <2>2. \A j, k \in 1..Len(q) : q[j] = q[k] => j = k
      BY NamingsDistinct
    <2>3. /\ i' = [i EXCEPT ![p] = 1] /\ orig' = [orig EXCEPT ![p] = [s \in Slots |-> <<>>]]
          /\ pc' = [pc EXCEPT ![p] = "lock"]
      BY <1>2 DEF Begin
    <2> HIDE DEF Namings
    <2>4. ASSUME NEW r \in Savers, r # p
          PROVE  naming'[r] = naming[r] /\ pc'[r] = pc[r] /\ i'[r] = i[r] /\ orig'[r] = orig[r]
      BY <1>0, <2>1, <2>3, <2>4
    <2>5. naming'[p] = q /\ i'[p] = 1 /\ orig'[p] = [s \in Slots |-> <<>>]
      BY <1>0, <2>1, <2>3
    <2>6. ASSUME NEW r \in Savers
          PROVE  /\ \A j, k \in 1..Len(naming'[r]) : naming'[r][j] = naming'[r][k] => j = k
                 /\ pc'[r] = "lock" => i'[r] = 1 /\ \A s \in Slots : orig'[r][s] = <<>>
      <3>1. CASE r = p
        BY <2>2, <2>5, <3>1
      <3>2. CASE r # p
        BY <1>0, <2>4, <3>2 DEF NamesInv
      <3> QED BY <3>1, <3>2
    <2> QED BY <2>6 DEF NamesInv
  <1>3. ASSUME NEW p \in Savers, Lock(p) \/ Unlock(p) PROVE NamesInv'
    <2>1. /\ UNCHANGED <<naming, orig>>
          /\ \/ UNCHANGED i /\ pc[p] = "lock"
             \/ i' = [i EXCEPT ![p] = 1] /\ pc[p] = "unlock"
      BY <1>3 DEF Lock, Take, Unlock, ghosts
    <2>2. \E w \in {"lock", "probe", "idle", "unlock"} :
             pc' = [pc EXCEPT ![p] = w] /\ (w = "lock" => pc[p] = "lock")
      BY <1>3 DEF Lock, Take, Unlock
    <2> QED BY <1>0, <2>1, <2>2 DEF NamesInv
  <1>4. CASE (\E s \in Slots, f \in Formats : Delete(s, f)) \/ UNCHANGED vars
    BY <1>0, <1>4 DEF Delete, vars, locals, ghosts, NamesInv
  <1> QED BY <1>1, <1>2, <1>3, <1>4 DEF Next, Step, WorkStep

LEMMA PathInit == Init => PathInv
  <1> SUFFICES ASSUME Init PROVE NamesInv
    BY LockInit, DataInit DEF PathInv
  <1> QED BY DEF Init, NamesInv

LEMMA PathStep == PathInv /\ [Next]_vars => PathInv'
  BY LockStep, DataStep, NamesStep DEF PathInv

\* The name p has yet to look at.
Ahead(p, k) == pc[p] \in Backing /\ (k > i[p] \/ (k = i[p] /\ pc[p] = "probe"))

\* The name is backed up, and not restored.
Protected(p, k) ==
    \/ pc[p] \in Backing /\ k < i[p]
    \/ pc[p] \in Saving
    \/ pc[p] \in Undoing /\ (k > i[p] \/ (k = i[p] /\ pc[p] # "consume"))

\* The name is not written yet, or restored.
Intact(p, k) ==
    \/ pc[p] \in Backing
    \/ /\ pc[p] \in Undoing /\ outcome[p] # "unrestored"
       /\ k < i[p] \/ (k = i[p] /\ pc[p] = "consume")

\* The name p is at, with a format that is settled.
At(p, k) == k = i[p] /\ pc[p] \in Located \cup {"write"}

\* A name's place in the save changes only while the save is at it.
LEMMA OtherNames ==
    ASSUME PathInv, NEW p \in Savers, WorkStep(p),
           NEW k \in 1..Len(naming[p]), k # i[p]
    PROVE  /\ Ahead(p, k)' => Ahead(p, k)
           /\ Protected(p, k)' => Protected(p, k)
           /\ Intact(p, k)' => Intact(p, k)
           /\ ~At(p, k)'
  <1>0. LockInv /\ DataInv /\ Working(p)
    BY WorkTouches DEF PathInv
  <1>1. /\ i[p] \in 1..Len(naming[p]) /\ Len(naming[p]) \in Nat /\ k \in Nat
        /\ pc \in [Savers -> Busy \cup {"idle"}] /\ i \in [Savers -> 1..NumSlots]
        /\ outcome \in [Savers -> {"none", "saved", "aborted", "failed", "unrestored"}]
    BY <1>0, Place
  <1> USE DEF Ahead, Protected, Intact, At, Backing, Saving, Undoing, Located
  <1>2. ASSUME UNCHANGED i,
               \/ pc[p] \in Backing /\ pc'[p] \in Backing \ {"probe"}
               \/ pc[p] \in Saving /\ pc'[p] \in Saving
               \/ pc[p] \in Undoing /\ pc'[p] \in Undoing /\ UNCHANGED outcome
               \/ pc'[p] = "unlock"
        PROVE  /\ Ahead(p, k)' => Ahead(p, k)
               /\ Protected(p, k)' => Protected(p, k)
               /\ Intact(p, k)' => Intact(p, k)
               /\ ~At(p, k)'
    BY <1>1, <1>2
  <1>3. ASSUME pc[p] \in Backing, Advance(p, "probe", "clean")
        PROVE  /\ Ahead(p, k)' => Ahead(p, k)
               /\ Protected(p, k)' => Protected(p, k)
               /\ Intact(p, k)' => Intact(p, k)
               /\ ~At(p, k)'
    BY <1>0, <1>1, <1>3, AdvanceCases
  <1>4. ASSUME pc[p] \in Undoing, Advance(p, "restore", "unlock"),
               outcome'[p] \in {outcome[p], "unrestored"}
        PROVE  /\ Ahead(p, k)' => Ahead(p, k)
               /\ Protected(p, k)' => Protected(p, k)
               /\ Intact(p, k)' => Intact(p, k)
               /\ ~At(p, k)'
    BY <1>0, <1>1, <1>4, AdvanceCases
  <1>5. CASE Probe(p) \/ Read(p) \/ Store(p) \/ Prune(p) \/ Abort(p)
    BY <1>1, <1>2, <1>3, <1>5 DEF Probe, Read, Store, Prune, Abort, Goto
  <1>6. CASE Clean(p)
    BY <1>1, <1>2, <1>6 DEF Clean, Goto
  <1>7. CASE Write(p)
    BY <1>0, <1>1, <1>7, AdvanceCases DEF Write
  <1>8. CASE WriteFails(p)
    BY <1>1, <1>8 DEF WriteFails, SaveStops
  <1>9. CASE Restore(p) \/ RestoreClean(p) \/ RestoreWrite(p)
    BY <1>1, <1>2, <1>4, <1>9 DEF Restore, RestoreClean, RestoreWrite, Goto
  <1>10. CASE RestoreFails(p) \/ Consume(p)
    BY <1>1, <1>4, <1>10 DEF RestoreFails, Consume, Ends
  <1> QED BY <1>5, <1>6, <1>7, <1>8, <1>9, <1>10 DEF WorkStep

----------------------------------------------------------------------------
(* What a failed save restores.                                            *)

\* What a slot held according to orig, as its files.
Origin(o) == IF o = <<>> THEN NoFiles ELSE [NoFiles EXCEPT ![o[1]] = o[2]]

HasData == {"store", "prune", "rclean", "rwrite", "consume"}

\* What p found under its k-th name is on the disk, or in the backup, or in both.
Kept(p, k) ==
    LET s == naming[p][k]
        o == orig[p][s] IN
    /\ Ahead(p, k) => o = <<>>
    /\ o # <<>> =>
          /\ Protected(p, k) => backup[s] = Origin(o)
          /\ Intact(p, k) => disk[s][o[1]] = o[2]
          /\ k = i[p] /\ pc[p] \in Located => found[p] = o[1]
          /\ k = i[p] /\ pc[p] \in HasData => data[p] = o[2]

\* FailedSaveRestores needs to know what becomes of every name in every phase.
KeepInv ==
    \A p \in Savers : \A k \in 1..Len(naming[p]) :
        Working(p) /\ naming[p][k] \notin hit[p] => Kept(p, k)

LEMMA OriginHolds ==
    ASSUME NEW f \in Formats, NEW c \in Images
    PROVE  /\ Origin(<<f, c>>) = [NoFiles EXCEPT ![f] = c]
           /\ Origin(<<f, c>>)[f] = c /\ c # NoImage
           /\ \A g \in Formats \ {f} : Origin(<<f, c>>)[g] = NoImage
  <1>1. <<f, c>> # <<>>
    OBVIOUS
  <1> QED BY <1>1 DEF Origin, NoFiles

\* A step at another name of the save.
LEMMA KeptElsewhere ==
    ASSUME PathInv, NEW p \in Savers, WorkStep(p),
           NEW k \in 1..Len(naming[p]), k # i[p], Kept(p, k)
    PROVE  Kept(p, k)'
  <1>1. Working(p) /\ Touches(p, Slot(p))
    BY WorkTouches
  <1>2. naming[p][k] \in Slots \ {Slot(p)}
    BY <1>1, Place
  <1>3. /\ naming' = naming /\ disk'[naming[p][k]] = disk[naming[p][k]]
        /\ backup'[naming[p][k]] = backup[naming[p][k]]
        /\ orig'[p][naming[p][k]] = orig[p][naming[p][k]]
    BY <1>1, <1>2 DEF Touches
  <1>4. /\ Ahead(p, k)' => Ahead(p, k)
        /\ Protected(p, k)' => Protected(p, k)
        /\ Intact(p, k)' => Intact(p, k)
        /\ ~At(p, k)'
    BY OtherNames
  <1>5. ~(k = i'[p] /\ pc'[p] \in Located) /\ ~(k = i'[p] /\ pc'[p] \in HasData)
    BY <1>4 DEF At, Located, HasData
  <1> QED BY <1>3, <1>4, <1>5 DEF Kept

\* Another save's step.
LEMMA KeptByOthers ==
    ASSUME PathInv, NEW p \in Savers, WorkStep(p), NEW q \in Savers \ {p}, Working(q),
           NEW k \in 1..Len(naming[q]), Kept(q, k)
    PROVE  Kept(q, k)'
  <1>1. Working(p) /\ Touches(p, Slot(p))
    BY WorkTouches
  <1>2. naming[q][k] \in Slots \ {Slot(p)}
    <2>1. owner[Slot(p)] = p
      BY <1>1, Place
    <2>2. owner[naming[q][k]] = q /\ naming[q][k] \in Slots
      BY Place
    <2> QED BY <2>1, <2>2
  <1>3. /\ naming' = naming /\ disk'[naming[q][k]] = disk[naming[q][k]]
        /\ backup'[naming[q][k]] = backup[naming[q][k]]
        /\ orig'[q] = orig[q] /\ pc'[q] = pc[q] /\ i'[q] = i[q] /\ found'[q] = found[q]
        /\ data'[q] = data[q] /\ outcome'[q] = outcome[q]
    BY <1>1, <1>2 DEF Touches
  <1> QED BY <1>3 DEF Kept, Ahead, Protected, Intact

\* The step at the name itself.
LEMMA KeptHere ==
    ASSUME PathInv, NEW p \in Savers, WorkStep(p), NEW n, n = i[p], Kept(p, n)
    PROVE  Kept(p, n)'
  <1> DEFINE s == naming[p][n]
             o == orig[p][s]
  <1>0. Working(p) /\ Touches(p, Slot(p)) /\ LockInv /\ DataInv
    BY WorkTouches DEF PathInv
  <1>1. /\ n \in 1..Len(naming[p]) /\ Len(naming[p]) \in Nat /\ s = Slot(p) /\ s \in Slots
        /\ disk \in [Slots -> Files] /\ backup \in [Slots -> Files]
        /\ pc \in [Savers -> Busy \cup {"idle"}] /\ i \in [Savers -> 1..NumSlots]
        /\ found \in [Savers -> AllFormats] /\ data \in [Savers -> Images \cup {NoImage}]
        /\ outcome \in [Savers -> {"none", "saved", "aborted", "failed", "unrestored"}]
        /\ orig \in [Savers -> [Slots -> {<<>>} \cup (Formats \X Images)]]
        /\ pc[p] \in Located => found[p] \in Formats
    BY <1>0, Place
  <1>2. naming' = naming
    BY <1>0 DEF Touches
  <1>3. CASE o # <<>>
    <2>1. PICK f \in Formats, c \in Images : o = <<f, c>>
      BY <1>1, <1>3
    <2>2. o[1] = f /\ o[2] = c /\ o = <<f, c>> /\ f \in Formats /\ c \in Images
      BY <2>1
    <2>3. Origin(o) = [NoFiles EXCEPT ![f] = c] /\ Origin(o)[f] = c /\ c # NoImage
          /\ \A g \in Formats \ {f} : Origin(o)[g] = NoImage
      BY <2>2, OriginHolds
    <2>4. /\ ~Ahead(p, n)
          /\ Protected(p, n) => backup[s] = Origin(o)
          /\ Intact(p, n) => disk[s][f] = c
          /\ pc[p] \in Located => found[p] = f
          /\ pc[p] \in HasData => data[p] = c
      BY <1>3, <2>2 DEF Kept
    <2>5. pc[p] # "probe"
      BY <1>1, <2>4 DEF Ahead, Backing
    <2>6. SUFFICES ASSUME UNCHANGED orig
                   PROVE  /\ ~Ahead(p, n)'
                          /\ Protected(p, n)' => backup'[s] = Origin(o)
                          /\ Intact(p, n)' => disk'[s][f] = c
                          /\ n = i'[p] /\ pc'[p] \in Located => found'[p] = f
                          /\ n = i'[p] /\ pc'[p] \in HasData => data'[p] = c
      <3>1. UNCHANGED orig
        BY <2>5 DEF WorkStep, Probe, Read, Store, Prune, Abort, Clean, Write, WriteFails,
           Restore, RestoreClean, RestoreWrite, RestoreFails, Consume, ghosts
      <3> HIDE DEF s, o
      <3>2. orig'[p][s] = o /\ naming'[p][n] = s
        BY <1>2, <3>1 DEF s, o
      <3> QED BY <2>2, <2>6, <3>1, <3>2 DEF Kept
    <2> HIDE DEF s, o
    <2> USE DEF Ahead, Protected, Intact, Backing, Saving, Undoing, Located, HasData
    <2>7. ASSUME NEW same, NEW next, Advance(p, same, next)
          PROVE  \/ pc'[p] = next /\ i'[p] = 1 /\ n = Len(naming[p])
                 \/ pc'[p] = same /\ i'[p] = n + 1
      BY <1>0, <2>7, AdvanceCases
    <2>8. CASE Read(p) \/ Store(p)
      <3>1. pc[p] \in {"read", "store"} /\ found[p] = f /\ disk[s][f] = c
        BY <2>4, <2>8 DEF Read, Store
      <3>2. /\ pc' = [pc EXCEPT ![p] = IF pc[p] = "read" THEN "store" ELSE "prune"]
            /\ UNCHANGED <<i, found, disk>>
            /\ IF pc[p] = "read" THEN data' = [data EXCEPT ![p] = c] ELSE data' = data
        BY <1>1, <2>3, <2>8, <3>1 DEF Read, Store, Goto
      <3> QED BY <1>1, <2>4, <3>1, <3>2
    <2>9. CASE Prune(p)
      <3>1. /\ pc[p] = "prune" /\ found[p] = f /\ data[p] = c /\ disk[s][f] = c
            /\ UNCHANGED <<disk, found, data>> /\ Advance(p, "probe", "clean")
            /\ backup' = [backup EXCEPT ![s] = [NoFiles EXCEPT ![f] = c]]
        BY <1>1, <2>4, <2>9 DEF Prune
      <3> QED BY <1>1, <2>3, <2>7, <3>1
    <2>10. CASE Abort(p)
      <3>1. pc' = [pc EXCEPT ![p] = "unlock"]
        BY <2>10 DEF Abort, Goto
      <3> QED BY <1>1, <3>1
    <2>11. CASE Clean(p)
      <3>1. pc[p] = "clean" /\ pc' = [pc EXCEPT ![p] = "write"] /\ UNCHANGED <<backup, i>>
        BY <2>11 DEF Clean, Goto
      <3> QED BY <1>1, <2>4, <3>1
    <2>12. CASE Write(p)
      <3>1. pc[p] = "write" /\ Advance(p, "clean", "unlock") /\ UNCHANGED backup
        BY <2>12 DEF Write
      <3> QED BY <1>1, <2>4, <2>7, <3>1
    <2>13. CASE WriteFails(p)
      <3>1. /\ pc[p] \in {"clean", "write"} /\ pc' = [pc EXCEPT ![p] = "restore"]
            /\ i' = [i EXCEPT ![p] = 1] /\ UNCHANGED backup
        BY <2>13 DEF WriteFails, SaveStops
      <3> QED BY <1>1, <2>4, <3>1
    <2>14. CASE Restore(p)
      <3>1. pc[p] = "restore" /\ backup[s] = Origin(o) /\ UNCHANGED <<disk, backup>>
        BY <2>4, <2>14 DEF Restore
      <3>2. backup[s][f] # NoImage /\ \A g \in Formats \ {f} : backup[s][g] = NoImage
        BY <2>3, <3>1
      <3>3. /\ found' = [found EXCEPT ![p] = f] /\ data' = [data EXCEPT ![p] = c]
            /\ Goto(p, "rclean")
        BY <1>1, <2>2, <2>3, <2>14, <3>1, <3>2 DEF Restore
      <3>4. pc'[p] = "rclean" /\ UNCHANGED i /\ found'[p] = f /\ data'[p] = c
        BY <1>1, <2>2, <3>3, FormatsKnown DEF Goto
      <3> QED BY <1>1, <2>4, <3>1, <3>4
    <2>15. CASE RestoreClean(p)
      <3>1. /\ pc[p] = "rclean" /\ pc' = [pc EXCEPT ![p] = "rwrite"]
            /\ UNCHANGED <<backup, i, found, data>>
        BY <2>15 DEF RestoreClean, Goto
      <3> QED BY <1>1, <2>4, <3>1
    <2>16. CASE RestoreWrite(p)
      <3>1. /\ pc[p] = "rwrite" /\ pc' = [pc EXCEPT ![p] = "consume"]
            /\ UNCHANGED <<backup, i, found, data>>
            /\ disk' = [disk EXCEPT ![s][found[p]] = data[p]]
        BY <1>1, <2>16 DEF RestoreWrite, Goto
      <3>2. disk'[s][f] = c
        BY <1>1, <2>2, <2>4, <3>1 DEF Files
      <3> QED BY <1>1, <2>4, <3>1, <3>2
    <2>17. CASE RestoreFails(p)
      <3>1. Advance(p, "restore", "unlock") /\ outcome' = [outcome EXCEPT ![p] = "unrestored"]
        BY <2>17 DEF RestoreFails, Ends
      <3> QED BY <1>1, <2>7, <3>1
    <2>18. CASE Consume(p)
      <3>1. /\ pc[p] = "consume" /\ Advance(p, "restore", "unlock")
            /\ UNCHANGED <<disk, outcome>>
        BY <2>18 DEF Consume
      <3> QED BY <1>1, <2>4, <2>7, <3>1
    <2>19. ~Probe(p)
      BY <2>5 DEF Probe
    <2> QED BY <2>8, <2>9, <2>10, <2>11, <2>12, <2>13, <2>14, <2>15, <2>16, <2>17, <2>18,
               <2>19 DEF WorkStep
  <1>4. CASE o = <<>> /\ UNCHANGED orig
    <2>1. orig'[p][naming'[p][n]] = <<>>
      BY <1>2, <1>4
    <2> QED BY <2>1 DEF Kept
  <1>5. CASE o = <<>> /\ ~UNCHANGED orig
    <2>1. Probe(p) /\ pc[p] = "probe" /\ UNCHANGED disk
      BY <1>5 DEF WorkStep, Probe, Read, Store, Prune, Abort, Clean, Write, WriteFails,
         Restore, RestoreClean, RestoreWrite, RestoreFails, Consume, ghosts
    <2>2. PICK f \in Probed \cap Formats :
             /\ disk[s][f] # NoImage
             /\ found' = [found EXCEPT ![p] = f]
             /\ orig' = [orig EXCEPT ![p][s] = <<f, disk[s][f]>>]
             /\ Goto(p, "read")
      BY <1>1, <1>5, <2>1 DEF Probe
    <2>3. /\ pc'[p] = "read" /\ i' = i /\ found'[p] = f
          /\ orig'[p][s] = <<f, disk[s][f]>>
      BY <1>1, <2>2 DEF Goto
    <2>4. ~Ahead(p, n)' /\ ~Protected(p, n)' /\ pc'[p] \notin HasData
      BY <1>1, <2>3 DEF Ahead, Protected, Backing, Saving, Undoing, HasData
    <2>5. orig'[p][naming'[p][n]] = <<f, disk[s][f]>> /\ disk'[naming'[p][n]] = disk[s]
      BY <1>2, <2>1, <2>3
    <2> HIDE DEF s
    <2>6. <<f, disk[s][f]>>[1] = f /\ <<f, disk[s][f]>>[2] = disk[s][f]
      OBVIOUS
    <2> QED BY <2>3, <2>4, <2>5, <2>6 DEF Kept
  <1> QED BY <1>3, <1>4, <1>5

LEMMA KeepStep == PathInv /\ KeepInv /\ [Next]_vars => KeepInv'
  <1> SUFFICES ASSUME PathInv, KeepInv, [Next]_vars PROVE KeepInv'
    OBVIOUS
  <1>0. /\ pc \in [Savers -> Busy \cup {"idle"}] /\ disk \in [Slots -> Files]
        /\ naming \in [Savers -> Seq(Slots)] /\ hit \in [Savers -> SUBSET Slots]
    BY DEF PathInv, LockInv, DataInv, FilesInv, HistoryInv
  <1>1. ASSUME NEW p \in Savers, WorkStep(p) PROVE KeepInv'
    <2>1. Working(p) /\ naming' = naming /\ hit' = hit
          /\ \A q \in Savers \ {p} : pc'[q] = pc[q]
      BY <1>1, WorkTouches DEF Touches
    <2>2. ASSUME NEW q \in Savers, NEW k \in 1..Len(naming[q]),
                 Working(q)', naming[q][k] \notin hit[q]
          PROVE  Kept(q, k)'
      <3>1. CASE q = p /\ k # i[p]
        BY <1>1, <2>1, <2>2, <3>1, KeptElsewhere DEF KeepInv
      <3>2. CASE q = p /\ k = i[p]
        BY <1>1, <2>1, <2>2, <3>2, KeptHere DEF KeepInv
      <3>3. CASE q # p
        <4>1. Working(q)
          BY <2>1, <2>2, <3>3 DEF Working
        <4> QED BY <1>1, <2>2, <3>3, <4>1, KeptByOthers DEF KeepInv
      <3> QED BY <3>1, <3>2, <3>3
    <2> QED BY <2>1, <2>2 DEF KeepInv
  <1>2. ASSUME NEW p \in Savers, Begin(p) \/ Lock(p) \/ Unlock(p) PROVE KeepInv'
    <2>1. /\ UNCHANGED <<disk, backup, found, data>>
          /\ \A q \in Savers \ {p} :
                /\ pc'[q] = pc[q] /\ i'[q] = i[q] /\ naming'[q] = naming[q]
                /\ orig'[q] = orig[q] /\ outcome'[q] = outcome[q] /\ hit'[q] = hit[q]
      <3>1. CASE Begin(p)
        <4>1. PICK q \in Namings : naming' = [naming EXCEPT ![p] = q]
          BY <3>1 DEF Begin
        <4> HIDE DEF Namings
        <4> QED BY <1>0, <3>1, <4>1
                DEF Begin, Ends, PathInv, DataInv, LocalsInv, HistoryInv
      <3>2. CASE Lock(p) \/ Unlock(p)
        BY <1>0, <3>2 DEF Lock, Take, Unlock, ghosts, PathInv, DataInv, LocalsInv
      <3> QED BY <1>2, <3>1, <3>2
    <2>2. ASSUME NEW q \in Savers \ {p}, NEW k \in 1..Len(naming'[q]),
                 Working(q)', naming'[q][k] \notin hit'[q]
          PROVE  Kept(q, k)'
      <3>1. Working(q) /\ Kept(q, k)
        BY <2>1, <2>2 DEF KeepInv, Working
      <3> QED BY <2>1, <3>1 DEF Kept, Ahead, Protected, Intact
    <2>3. ASSUME NEW k \in 1..Len(naming'[p]), Working(p)' PROVE Kept(p, k)'
      <3>1. Lock(p) /\ pc[p] = "lock" /\ pc'[p] = "probe"
        <4>1. \/ Lock(p) /\ pc[p] = "lock" /\ pc' = [pc EXCEPT ![p] = "probe"]
              \/ \E w \in {"lock", "unlock", "idle"} : pc' = [pc EXCEPT ![p] = w]
          BY <1>2 DEF Begin, Lock, Take, Unlock
        <4> QED BY <1>0, <2>3, <4>1 DEF Working
      <3>2. UNCHANGED <<naming, i, orig>>
        BY <3>1 DEF Lock, Take, ghosts
      <3>3. naming[p][k] \in Slots /\ k \in Nat /\ k >= 1
        BY <1>0, <2>3, <3>2
      <3>4. i'[p] = 1 /\ orig'[p][naming'[p][k]] = <<>>
        BY <3>1, <3>2, <3>3 DEF PathInv, NamesInv
      <3> QED BY <3>4 DEF Kept
    <2> QED BY <2>2, <2>3 DEF KeepInv
  <1>3. ASSUME NEW s \in Slots, NEW f \in Formats, Delete(s, f) PROVE KeepInv'
    <2>1. /\ UNCHANGED <<backup, owner, pc, naming, i, found, data, outcome, orig>>
          /\ disk' = [disk EXCEPT ![s][f] = NoImage]
          /\ \A p \in Savers :
                hit'[p] = IF owner[s] = p THEN hit[p] \cup {s} ELSE hit[p]
      BY <1>3 DEF Delete, locals
    <2>2. ASSUME NEW p \in Savers, NEW k \in 1..Len(naming[p]),
                 Working(p), naming[p][k] \notin hit'[p]
          PROVE  Kept(p, k)'
      <3>1. naming[p][k] \in Slots /\ owner[naming[p][k]] = p
        BY <2>2, Place
      <3>2. naming[p][k] # s /\ naming[p][k] \notin hit[p]
        BY <2>1, <2>2, <3>1
      <3>3. Kept(p, k) /\ disk'[naming[p][k]] = disk[naming[p][k]]
        BY <1>0, <2>1, <2>2, <3>1, <3>2 DEF KeepInv
      <3> QED BY <2>1, <3>3 DEF Kept, Ahead, Protected, Intact
    <2> QED BY <2>1, <2>2 DEF KeepInv, Working
  <1>4. CASE UNCHANGED vars
    BY <1>4 DEF vars, locals, ghosts, KeepInv, Working, Kept, Ahead, Protected, Intact
  <1> QED BY <1>1, <1>2, <1>3, <1>4 DEF Next, Step, WorkStep

\* What FailedSaveRestores says of a step.
Restores ==
    \A p \in Savers :
        pc'[p] = "unlock" /\ pc[p] # "unlock" /\ outcome'[p] \in {"failed", "aborted"} =>
           \A s \in Elems(naming[p]) \ hit[p] :
               orig[p][s] # <<>> => disk'[s][orig[p][s][1]] = orig[p][s][2]

LEMMA RestoresStep == PathInv /\ KeepInv /\ [Next]_vars => Restores
  <1> SUFFICES ASSUME PathInv, KeepInv, [Next]_vars, NEW p \in Savers,
                      pc'[p] = "unlock", pc[p] # "unlock",
                      outcome'[p] \in {"failed", "aborted"},
                      NEW s \in Elems(naming[p]) \ hit[p], orig[p][s] # <<>>
               PROVE  disk'[s][orig[p][s][1]] = orig[p][s][2]
    BY DEF Restores
  <1>0. /\ pc \in [Savers -> Busy \cup {"idle"}] /\ LockInv /\ DataInv
        /\ i \in [Savers -> 1..NumSlots]
    BY DEF PathInv, LockInv, DataInv, LocalsInv
  <1>1. WorkStep(p)
    <2>1. ASSUME NEW q \in Savers, q # p, WorkStep(q) PROVE FALSE
      BY <2>1, WorkTouches DEF Touches
    <2>2. ASSUME NEW q \in Savers, Begin(q) PROVE FALSE
      BY <1>0, <2>2 DEF Begin
    <2>3. ASSUME NEW q \in Savers, Lock(q) PROVE FALSE
      <3>1. pc' = [pc EXCEPT ![q] = "probe"] \/ pc' = [pc EXCEPT ![q] = "lock"]
        BY <2>3 DEF Lock, Take
      <3> QED BY <1>0, <3>1
    <2>4. ASSUME NEW q \in Savers, Unlock(q) PROVE FALSE
      <3>1. /\ pc[q] = "unlock"
            /\ pc' = [pc EXCEPT ![q] = "idle"] \/ pc' = [pc EXCEPT ![q] = "unlock"]
        BY <2>4 DEF Unlock
      <3> QED BY <1>0, <3>1
    <2>5. ~UNCHANGED vars /\ \A t \in Slots, f \in Formats : ~Delete(t, f)
      BY DEF vars, Delete, locals
    <2> QED BY <2>1, <2>2, <2>3, <2>4, <2>5 DEF Next, Step, WorkStep
  <1>2. Working(p) /\ Touches(p, Slot(p))
    BY <1>1, WorkTouches
  <1>3. PICK k \in 1..Len(naming[p]) : s = naming[p][k]
    BY DEF Elems
  <1>4. Kept(p, k) /\ Kept(p, k)'
    <2>1. Kept(p, k)
      BY <1>2, <1>3 DEF KeepInv
    <2> QED BY <1>1, <2>1, KeptElsewhere, KeptHere
  <1>5. /\ i[p] \in 1..Len(naming[p]) /\ Len(naming[p]) \in Nat /\ s \in Slots
        /\ Slot(p) = naming[p][i[p]]
        /\ orig \in [Savers -> [Slots -> {<<>>} \cup (Formats \X Images)]]
        /\ outcome \in [Savers -> {"none", "saved", "aborted", "failed", "unrestored"}]
    BY <1>2, <1>3, Place
  <1> USE DEF Intact, Protected, Ahead, Backing, Saving, Undoing
  <1>6. CASE Intact(p, k) /\ UNCHANGED disk
    BY <1>3, <1>4, <1>6 DEF Kept
  <1>7. CASE Probe(p) \/ Read(p) \/ Store(p) \/ Prune(p)
    <2>1. Advance(p, "probe", "clean") \/ \E w \in {"read", "store", "prune"} : Goto(p, w)
      BY <1>7 DEF Probe, Read, Store, Prune
    <2> QED BY <1>0, <1>2, <2>1, AdvanceCases DEF Goto
  <1>8. CASE Abort(p)
    BY <1>6, <1>8 DEF Abort
  <1>9. CASE Clean(p) \/ WriteFails(p) \/ RestoreClean(p) \/ RestoreWrite(p)
    <2>1. \E w \in {"write", "restore", "rwrite", "consume"} : pc' = [pc EXCEPT ![p] = w]
      BY <1>9 DEF Clean, WriteFails, RestoreClean, RestoreWrite, Goto
    <2> QED BY <1>0, <2>1
  <1>10. CASE Write(p)
    <2>1. Advance(p, "clean", "unlock") /\ pc[p] = "write"
          /\ outcome' = [outcome EXCEPT ![p] = IF Last(p) THEN "saved" ELSE @]
      BY <1>10 DEF Write
    <2>2. Last(p)
      BY <1>0, <1>2, <2>1, AdvanceCases
    <2> QED BY <1>5, <2>1, <2>2
  <1>11. CASE RestoreFails(p)
    <2>1. outcome' = [outcome EXCEPT ![p] = "unrestored"]
      BY <1>11 DEF RestoreFails, Ends
    <2> QED BY <1>5, <2>1
  <1>12. CASE Consume(p)
    <2>1. /\ Advance(p, "restore", "unlock") /\ pc[p] = "consume"
          /\ UNCHANGED <<disk, outcome>>
      BY <1>12 DEF Consume
    <2>2. i[p] = Len(naming[p])
      BY <1>0, <1>2, <2>1, AdvanceCases
    <2>3. Intact(p, k)
      BY <1>5, <2>1, <2>2
    <2> QED BY <1>6, <2>1, <2>3
  <1>13. CASE Restore(p)
    <2>1. /\ pc[p] = "restore" /\ UNCHANGED <<disk, outcome>>
          /\ \/ /\ {f \in Formats : backup[Slot(p)][f] # NoImage} = {}
                /\ Advance(p, "restore", "unlock")
             \/ Goto(p, "rclean")
      BY <1>13 DEF Restore
    <2>2. /\ {f \in Formats : backup[Slot(p)][f] # NoImage} = {}
          /\ i[p] = Len(naming[p])
      BY <1>0, <1>2, <2>1, AdvanceCases DEF Goto
    <2>3. CASE k # i[p]
      <3>1. Intact(p, k)
        BY <1>5, <2>1, <2>2, <2>3
      <3> QED BY <1>6, <2>1, <3>1
    <2>4. CASE k = i[p]
      <3>1. backup[Slot(p)] = Origin(orig[p][s])
        BY <1>3, <1>4, <1>5, <2>1, <2>4 DEF Kept
      <3>2. PICK f \in Formats, c \in Images : orig[p][s] = <<f, c>>
        BY <1>5
      <3>3. backup[Slot(p)][f] # NoImage
        <4>1. Origin(<<f, c>>)[f] # NoImage
          BY OriginHolds
        <4>2. backup[Slot(p)] = Origin(<<f, c>>)
          BY <3>1, <3>2
        <4> QED BY <4>1, <4>2
      <3> QED BY <2>2, <3>3
    <2> QED BY <2>3, <2>4
  <1> QED BY <1>1, <1>7, <1>8, <1>9, <1>10, <1>11, <1>12, <1>13 DEF WorkStep

\* "Preserve every original, restore on failure" (SaveSlotProtected): whatever fails,
\* backups, clean-ups, writes and restores alike, and whatever the operator deletes
\* elsewhere, a save that fails without reporting a failed rollback leaves in every
\* slot the file it found there.  It holds for every list of names, in any format.
THEOREM FailedSavesRestore == Spec => FailedSaveRestores
  <1>1. Init => PathInv /\ KeepInv
    BY PathInit DEF Init, KeepInv, Working
  <1>2. PathInv /\ KeepInv /\ [Next]_vars => (PathInv /\ KeepInv)'
    BY PathStep, KeepStep
  <1>3. PathInv /\ KeepInv /\ [Next]_vars => [Restores]_vars
    BY RestoresStep
  <1>4. FailedSaveRestores <=> [][Restores]_vars
    BY DEF FailedSaveRestores, Restores
  <1> QED BY <1>1, <1>2, <1>3, <1>4, PTL DEF Spec

----------------------------------------------------------------------------
(* Nothing is destroyed.                                                   *)

\* What is assumed: every format is probed for (a webp beside the names probed is
\* cleaned away unseen), and clean-ups succeed (two files may be left of one slot
\* otherwise, and the next save backs up only one).
Tidy == Formats \subseteq Probed /\ "clean" \notin Faults

AtMostOne(fs) == \A f, g \in Formats : fs[f] # NoImage /\ fs[g] # NoImage => f = g

\* All that slot s holds is in its backup, or is the image p saves.
Covered(p, s) == \A f \in Formats : disk[s][f] \in Content(backup[s]) \cup {image[p], NoImage}

\* The k-th name of a save: what a write could destroy of it is covered.
CoverFits(p, k) ==
    LET s == naming[p][k] IN
    /\ Protected(p, k) => Covered(p, s)
    /\ k = i[p] /\ pc[p] \in {"read", "store", "prune", "rwrite"} =>
          \A g \in Formats \ {found[p]} : disk[s][g] = NoImage
    /\ k = i[p] /\ pc[p] = "write" =>
          \A g \in Formats \ {format[p]} : disk[s][g] = NoImage
    /\ k = i[p] /\ pc[p] \in {"store", "prune"} =>
          data[p] # NoImage /\ disk[s][found[p]] \in {NoImage, data[p]}

CoverInv ==
    /\ destroyed = {}
    /\ \A s \in Slots : AtMostOne(disk[s])
    /\ \A p \in Savers : \A k \in 1..Len(naming[p]) : Working(p) => CoverFits(p, k)

LEMMA CoverElsewhere ==
    ASSUME PathInv, NEW p \in Savers, WorkStep(p),
           NEW k \in 1..Len(naming[p]), k # i[p], CoverFits(p, k)
    PROVE  CoverFits(p, k)'
  <1>1. Working(p) /\ Touches(p, Slot(p))
    BY WorkTouches
  <1>2. naming[p][k] \in Slots \ {Slot(p)}
    BY <1>1, Place
  <1>3. /\ naming' = naming /\ image' = image /\ disk'[naming[p][k]] = disk[naming[p][k]]
        /\ backup'[naming[p][k]] = backup[naming[p][k]]
    BY <1>1, <1>2 DEF Touches
  <1>4. /\ Protected(p, k)' => Protected(p, k)
        /\ ~At(p, k)'
    BY OtherNames
  <1>5. ~(k = i'[p] /\ pc'[p] \in {"read", "store", "prune", "rwrite", "write"})
    BY <1>4 DEF At, Located
  <1> QED BY <1>3, <1>4, <1>5 DEF CoverFits, Covered, Content

LEMMA CoverByOthers ==
    ASSUME PathInv, NEW p \in Savers, WorkStep(p), NEW q \in Savers \ {p}, Working(q),
           NEW k \in 1..Len(naming[q]), CoverFits(q, k)
    PROVE  CoverFits(q, k)'
  <1>1. Working(p) /\ Touches(p, Slot(p))
    BY WorkTouches
  <1>2. naming[q][k] \in Slots \ {Slot(p)}
    <2>1. owner[Slot(p)] = p
      BY <1>1, Place
    <2>2. owner[naming[q][k]] = q /\ naming[q][k] \in Slots
      BY Place
    <2> QED BY <2>1, <2>2
  <1>3. /\ naming' = naming /\ disk'[naming[q][k]] = disk[naming[q][k]]
        /\ backup'[naming[q][k]] = backup[naming[q][k]]
        /\ image' = image /\ format' = format
        /\ pc'[q] = pc[q] /\ i'[q] = i[q] /\ found'[q] = found[q] /\ data'[q] = data[q]
    BY <1>1, <1>2 DEF Touches
  <1> QED BY <1>3 DEF CoverFits, Covered, Content, Protected

\* A clean-up leaves one file, and destroys nothing that is covered.
LEMMA CleanCovers ==
    ASSUME Tidy, PathInv, NEW p \in Savers, Working(p), NEW f \in Formats,
           CleanConflicts(p, f), Covered(p, Slot(p)), destroyed = {}
    PROVE  /\ destroyed' = {} /\ AtMostOne(disk'[Slot(p)])
           /\ \A g \in Formats \ {f} : disk'[Slot(p)][g] = NoImage
           /\ \A g \in Formats : disk'[Slot(p)][g] \in {NoImage, disk[Slot(p)][g]}
  <1> DEFINE s == Slot(p)
             kept == [NoFiles EXCEPT ![f] = disk[s][f]]
  <1>1. s \in Slots /\ disk \in [Slots -> Files]
    BY Place
  <1>2. disk' = [disk EXCEPT ![s] = kept] /\ Destroys(p, s, Content(disk[s]) \ Content(kept))
    BY <1>1, CleansAll DEF Tidy
  <1>3. disk'[s] = kept
    BY <1>1, <1>2
  <1>4. kept[f] = disk[s][f] /\ \A g \in Formats \ {f} : kept[g] = NoImage
    BY DEF NoFiles
  <1>5. Content(disk[s]) \subseteq Content(backup[s]) \cup {image[p]}
    BY DEF Content, Covered
  <1>6. destroyed' = {}
    BY <1>2, <1>5 DEF Destroys
  <1> HIDE DEF kept
  <1> QED BY <1>3, <1>4, <1>6 DEF AtMostOne

\* A write where at most the written format is there destroys nothing covered.
LEMMA WriteCovers ==
    ASSUME PathInv, NEW p \in Savers, Working(p), NEW f \in Formats, NEW c,
           disk' = [disk EXCEPT ![Slot(p)][f] = c],
           Destroys(p, Slot(p), {disk[Slot(p)][f]} \ {NoImage}),
           Covered(p, Slot(p)), destroyed = {},
           \A g \in Formats \ {f} : disk[Slot(p)][g] = NoImage
    PROVE  /\ destroyed' = {} /\ AtMostOne(disk'[Slot(p)])
           /\ \A g \in Formats : disk'[Slot(p)][g] \in {NoImage, c}
  <1>1. Slot(p) \in Slots /\ disk \in [Slots -> Files]
    BY Place
  <1>2. disk'[Slot(p)][f] = c /\ \A g \in Formats \ {f} : disk'[Slot(p)][g] = NoImage
    BY <1>1 DEF Files
  <1>3. destroyed' = {}
    BY DEF Destroys, Covered
  <1> QED BY <1>2, <1>3 DEF AtMostOne

\* The step at the name itself.
LEMMA CoverHere ==
    ASSUME Tidy, PathInv, NEW p \in Savers, WorkStep(p), NEW n, n = i[p], CoverFits(p, n),
           destroyed = {}, AtMostOne(disk[Slot(p)])
    PROVE  CoverFits(p, n)' /\ destroyed' = {} /\ AtMostOne(disk'[Slot(p)])
  <1> DEFINE s == naming[p][n]
  <1>0. Working(p) /\ Touches(p, Slot(p)) /\ LockInv /\ DataInv
    BY WorkTouches DEF PathInv
  <1>1. /\ n \in 1..Len(naming[p]) /\ Len(naming[p]) \in Nat /\ s = Slot(p) /\ s \in Slots
        /\ disk \in [Slots -> Files] /\ backup \in [Slots -> Files]
        /\ pc \in [Savers -> Busy \cup {"idle"}] /\ i \in [Savers -> 1..NumSlots]
        /\ found \in [Savers -> AllFormats] /\ data \in [Savers -> Images \cup {NoImage}]
        /\ image[p] \in Images /\ format[p] \in Formats
        /\ pc[p] \in Located => found[p] \in Formats
    BY <1>0, Place
  <1>2. UNCHANGED <<naming, image, format>>
    BY <1>0 DEF Touches
  <1>3. naming'[p][n] = s
    BY <1>2
  <1> HIDE DEF s
  <1>4. /\ Protected(p, n) => Covered(p, s)
        /\ pc[p] \in {"read", "store", "prune", "rwrite"} =>
              \A g \in Formats \ {found[p]} : disk[s][g] = NoImage
        /\ pc[p] = "write" => \A g \in Formats \ {format[p]} : disk[s][g] = NoImage
        /\ pc[p] \in {"store", "prune"} =>
              data[p] # NoImage /\ disk[s][found[p]] \in {NoImage, data[p]}
    BY DEF CoverFits, s
  <1> DEFINE Goal ==
          /\ destroyed' = {} /\ AtMostOne(disk'[s])
          /\ Protected(p, n)' =>
                \A f \in Formats :
                   disk'[s][f] \in Content(backup'[s]) \cup {image[p], NoImage}
          /\ n = i'[p] /\ pc'[p] \in {"read", "store", "prune", "rwrite"} =>
                \A g \in Formats \ {found'[p]} : disk'[s][g] = NoImage
          /\ n = i'[p] /\ pc'[p] = "write" =>
                \A g \in Formats \ {format[p]} : disk'[s][g] = NoImage
          /\ n = i'[p] /\ pc'[p] \in {"store", "prune"} =>
                data'[p] # NoImage /\ disk'[s][found'[p]] \in {NoImage, data'[p]}
  <1>5. SUFFICES Goal
    BY <1>1, <1>2, <1>3, <1>5 DEF CoverFits, Covered, Content
  <1> USE DEF Protected, Backing, Saving, Undoing, Located
  <1>6. ASSUME NEW same, NEW next, Advance(p, same, next)
        PROVE  \/ pc'[p] = next /\ i'[p] = 1 /\ n = Len(naming[p])
               \/ pc'[p] = same /\ i'[p] = n + 1
    BY <1>0, <1>6, AdvanceCases
  <1>7. ASSUME UNCHANGED <<disk, backup, destroyed>>,
               \/ pc'[p] = "unlock"
               \/ Protected(p, n) /\ pc'[p] \in {"clean", "restore", "rclean"}
               \/ Advance(p, "restore", "unlock")
        PROVE  Goal
    <2>1. Protected(p, n)' => Covered(p, s)
      BY <1>1, <1>4, <1>6, <1>7
    <2>2. pc'[p] \notin {"read", "store", "prune", "rwrite", "write"}
      BY <1>6, <1>7
    <2> QED BY <1>1, <1>7, <2>1, <2>2 DEF Covered
  <1>8. CASE Probe(p)
    <2>1. /\ pc[p] = "probe" /\ UNCHANGED <<disk, data, destroyed>>
          /\ \/ /\ {f \in Probed \cap Formats : disk[s][f] # NoImage} = {}
                /\ Advance(p, "probe", "clean")
             \/ \E f \in Probed \cap Formats :
                   /\ disk[s][f] # NoImage /\ found' = [found EXCEPT ![p] = f]
                   /\ Goto(p, "read")
      BY <1>1, <1>8 DEF Probe
    <2>2. CASE /\ {f \in Probed \cap Formats : disk[s][f] # NoImage} = {}
               /\ Advance(p, "probe", "clean")
      <3>1. \A f \in Formats : disk[s][f] = NoImage
        BY <2>2 DEF Tidy
      <3>2. pc'[p] \in {"probe", "clean"}
        BY <1>6, <2>2
      <3> QED BY <1>1, <2>1, <3>1, <3>2
    <2>3. ASSUME NEW f \in Probed \cap Formats, disk[s][f] # NoImage,
                 found' = [found EXCEPT ![p] = f], Goto(p, "read")
          PROVE  Goal
      <3>1. pc'[p] = "read" /\ i' = i /\ found'[p] = f
        BY <1>1, <2>3 DEF Goto
      <3>2. \A g \in Formats \ {f} : disk[s][g] = NoImage
        BY <1>1, <2>3 DEF AtMostOne
      <3>3. ~Protected(p, n)'
        BY <1>1, <3>1
      <3> QED BY <1>1, <2>1, <3>1, <3>2, <3>3
    <2> HIDE DEF Goal
    <2> QED BY <2>1, <2>2, <2>3
  <1>9. CASE Read(p)
    <2>1. /\ pc[p] = "read" /\ UNCHANGED <<disk, backup, found, destroyed>>
          /\ \/ disk[s][found[p]] = NoImage /\ Advance(p, "probe", "clean")
             \/ /\ disk[s][found[p]] # NoImage /\ Goto(p, "store")
                /\ data' = [data EXCEPT ![p] = disk[s][found[p]]]
      BY <1>1, <1>9 DEF Read, ghosts
    <2>2. \A g \in Formats \ {found[p]} : disk[s][g] = NoImage
      BY <1>4, <2>1
    <2>3. CASE disk[s][found[p]] = NoImage /\ Advance(p, "probe", "clean")
      <3>1. \A f \in Formats : disk[s][f] = NoImage
        BY <2>2, <2>3
      <3>2. pc'[p] \in {"probe", "clean"}
        BY <1>6, <2>3
      <3> QED BY <1>1, <2>1, <3>1, <3>2
    <2>4. CASE /\ disk[s][found[p]] # NoImage /\ Goto(p, "store")
               /\ data' = [data EXCEPT ![p] = disk[s][found[p]]]
      <3>1. pc'[p] = "store" /\ i' = i /\ data'[p] = disk[s][found[p]]
        BY <1>1, <2>4 DEF Goto
      <3> QED BY <1>1, <2>1, <2>2, <2>4, <3>1
    <2> QED BY <2>1, <2>3, <2>4
  <1>10. CASE Store(p)
    <2>1. /\ pc[p] = "store" /\ UNCHANGED <<disk, found, data, destroyed>>
          /\ pc'[p] = "prune" /\ i' = i
      BY <1>1, <1>10 DEF Store, Goto, ghosts
    <2> QED BY <1>1, <1>4, <2>1
  <1>11. CASE Prune(p)
    <2>1. /\ pc[p] = "prune" /\ UNCHANGED <<disk, found, data, destroyed>>
          /\ Advance(p, "probe", "clean")
          /\ backup' = [backup EXCEPT ![s] = [NoFiles EXCEPT ![found[p]] = data[p]]]
      BY <1>1, <1>11 DEF Prune, ghosts
    <2>2. pc'[p] \in {"probe", "clean"}
      BY <1>6, <2>1
    <2>3. data[p] \in Content(backup'[s])
      <3>1. backup'[s][found[p]] = data[p] /\ found[p] \in Formats
        BY <1>1, <2>1 DEF NoFiles
      <3> QED BY <1>4, <2>1, <3>1 DEF Content
    <2>4. \A f \in Formats : disk[s][f] \in {NoImage, data[p]}
      BY <1>4, <2>1
    <2> QED BY <1>1, <2>1, <2>2, <2>3, <2>4
  <1>12. CASE Abort(p)
    BY <1>1, <1>7, <1>12 DEF Abort, Goto, ghosts
  <1>13. CASE Clean(p)
    <2>1. /\ pc[p] = "clean" /\ CleanConflicts(p, format[p]) /\ UNCHANGED backup
          /\ pc'[p] = "write" /\ i' = i
      BY <1>1, <1>13 DEF Clean, Goto
    <2>2. Covered(p, s)
      BY <1>4, <2>1
    <2>3. /\ destroyed' = {} /\ AtMostOne(disk'[s])
          /\ \A g \in Formats \ {format[p]} : disk'[s][g] = NoImage
          /\ \A g \in Formats : disk'[s][g] \in {NoImage, disk[s][g]}
      BY <1>0, <1>1, <2>1, <2>2, CleanCovers
    <2> QED BY <2>1, <2>2, <2>3 DEF Covered
  <1>14. CASE Write(p)
    <2>1. /\ pc[p] = "write" /\ disk' = [disk EXCEPT ![s][format[p]] = image[p]]
          /\ Destroys(p, s, {disk[s][format[p]]} \ {NoImage})
          /\ Advance(p, "clean", "unlock")
      BY <1>1, <1>14 DEF Write
    <2>2. Covered(p, s) /\ \A g \in Formats \ {format[p]} : disk[s][g] = NoImage
      BY <1>4, <2>1
    <2>3. /\ destroyed' = {} /\ AtMostOne(disk'[s])
          /\ \A g \in Formats : disk'[s][g] \in {NoImage, image[p]}
      BY <1>0, <1>1, <2>1, <2>2, WriteCovers
    <2>4. pc'[p] \in {"clean", "unlock"}
      BY <1>6, <2>1
    <2> QED BY <2>3, <2>4
  <1>15. CASE WriteFails(p)
    <2>1. /\ pc[p] \in {"clean", "write"} /\ pc'[p] = "restore"
          /\ UNCHANGED <<disk, backup, destroyed>>
      BY <1>1, <1>15 DEF WriteFails, SaveStops, ghosts
    <2> QED BY <1>1, <1>7, <2>1
  <1>16. CASE Restore(p)
    <2>1. /\ pc[p] = "restore" /\ UNCHANGED <<disk, backup, destroyed>>
          /\ Advance(p, "restore", "unlock") \/ Goto(p, "rclean")
      BY <1>16 DEF Restore, ghosts
    <2>2. Goto(p, "rclean") => pc'[p] = "rclean" /\ Protected(p, n)
      BY <1>1, <2>1 DEF Goto
    <2> QED BY <1>7, <2>1, <2>2
  <1>17. CASE RestoreClean(p)
    <2>1. /\ pc[p] = "rclean" /\ CleanConflicts(p, found[p]) /\ UNCHANGED <<backup, found>>
          /\ pc'[p] = "rwrite" /\ i' = i
      BY <1>1, <1>17 DEF RestoreClean, Goto
    <2>2. Covered(p, s)
      BY <1>4, <2>1
    <2>3. /\ destroyed' = {} /\ AtMostOne(disk'[s])
          /\ \A g \in Formats \ {found[p]} : disk'[s][g] = NoImage
          /\ \A g \in Formats : disk'[s][g] \in {NoImage, disk[s][g]}
      BY <1>0, <1>1, <2>1, <2>2, CleanCovers
    <2> QED BY <2>1, <2>2, <2>3 DEF Covered
  <1>18. CASE RestoreWrite(p)
    <2>1. /\ pc[p] = "rwrite" /\ disk' = [disk EXCEPT ![s][found[p]] = data[p]]
          /\ Destroys(p, s, {disk[s][found[p]]} \ {NoImage})
          /\ pc'[p] = "consume" /\ i' = i
      BY <1>1, <1>18 DEF RestoreWrite, Goto
    <2>2. Covered(p, s) /\ \A g \in Formats \ {found[p]} : disk[s][g] = NoImage
      BY <1>4, <2>1
    <2>3. destroyed' = {} /\ AtMostOne(disk'[s])
      BY <1>0, <1>1, <2>1, <2>2, WriteCovers
    <2>4. ~Protected(p, n)'
      BY <1>1, <2>1
    <2> QED BY <2>1, <2>3, <2>4
  <1>19. CASE RestoreFails(p)
    <2>1. UNCHANGED <<disk, backup, destroyed>> /\ Advance(p, "restore", "unlock")
      BY <1>19 DEF RestoreFails, ghosts
    <2> QED BY <1>7, <2>1
  <1>20. CASE Consume(p)
    <2>1. /\ pc[p] = "consume" /\ UNCHANGED <<disk, destroyed>>
          /\ Advance(p, "restore", "unlock")
      BY <1>20 DEF Consume, ghosts
    <2>2. ~Protected(p, n)' /\ pc'[p] \notin {"read", "store", "prune", "rwrite", "write"}
      BY <1>1, <1>6, <2>1
    <2> QED BY <1>1, <2>1, <2>2
  <1> QED BY <1>8, <1>9, <1>10, <1>11, <1>12, <1>13, <1>14, <1>15, <1>16, <1>17, <1>18,
             <1>19, <1>20 DEF WorkStep

LEMMA CoverStep == Tidy /\ PathInv /\ CoverInv /\ [Next]_vars => CoverInv'
  <1> SUFFICES ASSUME Tidy, PathInv, CoverInv, [Next]_vars PROVE CoverInv'
    OBVIOUS
  <1>0. /\ pc \in [Savers -> Busy \cup {"idle"}] /\ disk \in [Slots -> Files]
        /\ naming \in [Savers -> Seq(Slots)]
    BY DEF PathInv, LockInv, DataInv, FilesInv
  <1>1. ASSUME NEW p \in Savers, WorkStep(p) PROVE CoverInv'
    <2>1. /\ Working(p) /\ naming' = naming /\ Slot(p) \in Slots
          /\ i[p] \in 1..Len(naming[p])
          /\ \A q \in Savers \ {p} : pc'[q] = pc[q]
          /\ \A t \in Slots \ {Slot(p)} : disk'[t] = disk[t]
      BY <1>1, WorkTouches, Place DEF Touches
    <2>2. CoverFits(p, i[p]) /\ destroyed = {} /\ \A t \in Slots : AtMostOne(disk[t])
      BY <2>1 DEF CoverInv
    <2>3. ASSUME NEW m, m = i[p]
          PROVE  CoverFits(p, m)' /\ destroyed' = {} /\ AtMostOne(disk'[Slot(p)])
      BY <1>1, <2>1, <2>2, <2>3, CoverHere
    <2>4. ASSUME NEW q \in Savers, NEW k \in 1..Len(naming[q]), Working(q)'
          PROVE  CoverFits(q, k)'
      <3>1. CASE q = p /\ k # i[p]
        BY <1>1, <2>1, <3>1, CoverElsewhere DEF CoverInv
      <3>2. CASE q = p /\ k = i[p]
        BY <2>3, <3>2
      <3>3. CASE q # p
        <4>1. Working(q)
          BY <2>1, <2>4, <3>3 DEF Working
        <4> QED BY <1>1, <3>3, <4>1, CoverByOthers DEF CoverInv
      <3> QED BY <3>1, <3>2, <3>3
    <2>5. destroyed' = {} /\ \A t \in Slots : AtMostOne(disk'[t])
      BY <2>1, <2>2, <2>3
    <2>6. \A t \in Slots : AtMostOne(disk[t])'
      BY <2>5 DEF AtMostOne
    <2> QED BY <2>1, <2>4, <2>5, <2>6 DEF CoverInv
  <1>2. ASSUME NEW p \in Savers, Begin(p) \/ Lock(p) \/ Unlock(p) PROVE CoverInv'
    <2>1. /\ UNCHANGED <<disk, backup, found, data, destroyed>>
          /\ \A q \in Savers \ {p} :
                /\ pc'[q] = pc[q] /\ i'[q] = i[q] /\ naming'[q] = naming[q]
                /\ image'[q] = image[q] /\ format'[q] = format[q]
      <3>1. CASE Begin(p)
        <4>1. PICK q \in Namings, c \in Images \ used, f \in Written \cap Formats :
                 /\ naming' = [naming EXCEPT ![p] = q]
                 /\ image' = [image EXCEPT ![p] = c] /\ format' = [format EXCEPT ![p] = f]
          BY <3>1 DEF Begin
        <4> HIDE DEF Namings
        <4> QED BY <1>0, <3>1, <4>1 DEF Begin, PathInv, DataInv, LocalsInv
      <3>2. CASE Lock(p) \/ Unlock(p)
        BY <1>0, <3>2 DEF Lock, Take, Unlock, ghosts, PathInv, DataInv, LocalsInv
      <3> QED BY <1>2, <3>1, <3>2
    <2>2. ASSUME NEW q \in Savers \ {p}, NEW k \in 1..Len(naming'[q]), Working(q)'
          PROVE  CoverFits(q, k)'
      <3>1. Working(q) /\ CoverFits(q, k)
        BY <2>1, <2>2 DEF CoverInv, Working
      <3> QED BY <2>1, <3>1 DEF CoverFits, Covered, Content, Protected
    <2>3. ASSUME NEW k \in 1..Len(naming'[p]), Working(p)' PROVE CoverFits(p, k)'
      <3>1. Lock(p) /\ pc[p] = "lock" /\ pc'[p] = "probe"
        <4>1. \/ Lock(p) /\ pc[p] = "lock" /\ pc' = [pc EXCEPT ![p] = "probe"]
              \/ \E w \in {"lock", "unlock", "idle"} : pc' = [pc EXCEPT ![p] = w]
          BY <1>2 DEF Begin, Lock, Take, Unlock
        <4> QED BY <1>0, <2>3, <4>1 DEF Working
      <3>2. UNCHANGED <<naming, i>> /\ i[p] = 1
        BY <3>1 DEF Lock, Take, ghosts, PathInv, NamesInv
      <3>3. k \in Nat /\ k >= 1
        BY <1>0, <2>3, <3>2
      <3> QED BY <3>1, <3>2, <3>3 DEF CoverFits, Protected, Backing, Saving, Undoing
    <2>4. \A t \in Slots : AtMostOne(disk[t])'
      BY <2>1 DEF CoverInv, AtMostOne
    <2> QED BY <2>1, <2>2, <2>3, <2>4 DEF CoverInv
  <1>3. ASSUME NEW s \in Slots, NEW f \in Formats, Delete(s, f) PROVE CoverInv'
    <2>1. /\ UNCHANGED <<backup, pc, naming, i, image, format, found, data, destroyed>>
          /\ disk' = [disk EXCEPT ![s][f] = NoImage]
      BY <1>3 DEF Delete, locals
    <2>2. \A t \in Slots, g \in Formats : disk'[t][g] \in {NoImage, disk[t][g]}
      BY <1>0, <2>1 DEF Files
    <2>3. ASSUME NEW p \in Savers, NEW k \in 1..Len(naming[p]), Working(p)
          PROVE  CoverFits(p, k)'
      <3>1. CoverFits(p, k)
        BY <2>3 DEF CoverInv
      <3>2. /\ naming[p][k] \in Slots
            /\ k = i[p] /\ pc[p] \in {"store", "prune"} => found[p] \in Formats
        BY <2>3, Place DEF Located
      <3>3. \A g \in Formats : disk'[naming[p][k]][g] \in {NoImage, disk[naming[p][k]][g]}
        BY <2>2, <3>2
      <3>4. Covered(p, naming[p][k]) => Covered(p, naming[p][k])'
        BY <2>1, <3>3 DEF Covered, Content
      <3>5. Protected(p, k)' <=> Protected(p, k)
        BY <2>1 DEF Protected
      <3> QED BY <2>1, <3>1, <3>2, <3>3, <3>4, <3>5 DEF CoverFits
    <2>4. ASSUME NEW t \in Slots PROVE AtMostOne(disk[t])'
      BY <2>2 DEF CoverInv, AtMostOne
    <2> QED BY <2>1, <2>3, <2>4 DEF CoverInv, Working
  <1>4. CASE UNCHANGED vars
    <2>1. ASSUME NEW p \in Savers, NEW k \in 1..Len(naming[p]), CoverFits(p, k)
          PROVE  CoverFits(p, k)'
      BY <1>4, <2>1 DEF vars, locals, CoverFits, Covered, Content, Protected
    <2> QED BY <1>4, <2>1 DEF vars, locals, ghosts, CoverInv, Working, AtMostOne
  <1> QED BY <1>1, <1>2, <1>3, <1>4 DEF Next, Step, WorkStep

LEMMA CoverInit == Init => CoverInv
  <1> SUFFICES ASSUME Init PROVE CoverInv
    OBVIOUS
  <1>1. ASSUME NEW s \in Slots PROVE AtMostOne(disk[s])
    <2>1. disk[s] = NoFiles \/ \E f \in Formats, c \in Images : disk[s] = [NoFiles EXCEPT ![f] = c]
      BY DEF Init
    <2> QED BY <2>1 DEF AtMostOne, NoFiles
  <1> QED BY <1>1 DEF Init, CoverInv, Working

\* At no step of a save does the last copy of an image go: what is removed from a slot
\* is in the backup on the disk at that moment, or is the image being saved.  So it is
\* however many saves run, whichever backups, writes and restores fail, and whatever
\* the operator deletes meanwhile (BackupSlot before CleanupConflictingFormats).
THEOREM NeverDestroyed ==
    ASSUME Formats \subseteq Probed, "clean" \notin Faults
    PROVE  Spec => []NothingDestroyed
  <1>1. Tidy
    BY DEF Tidy
  <1>2. PathInv /\ CoverInv /\ [Next]_vars => (PathInv /\ CoverInv)'
    BY <1>1, PathStep, CoverStep
  <1>3. CoverInv => NothingDestroyed
    BY DEF CoverInv, NothingDestroyed
  <1> QED BY <1>2, <1>3, PathInit, CoverInit, PTL DEF Spec

============================================================================
