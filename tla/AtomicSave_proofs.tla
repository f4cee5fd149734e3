-------------------------- MODULE AtomicSave_proofs --------------------------
(***************************************************************************)
(* SlotSave implements AtomicSave: seen from outside, concurrent saves     *)
(* whose backups and writes may fail are atomic, for every number of slots *)
(* and savers and every list of names.                                     *)
(*                                                                         *)
(* The argument follows one save through its phases.  What it found in its *)
(* slots (orig) is in its backups when the first write begins, and from    *)
(* then on each of its slots is in one of three states: not yet written,   *)
(* written, or restored.  Savers past their locks share no slot, so no     *)
(* other save disturbs this.                                               *)
(***************************************************************************)
EXTENDS SlotSave_proofs

\* The files of a slot p has written.
New(p) == [NoFiles EXCEPT ![format[p]] = image[p]]

\* A slot with one file at most.
Plain(fs) == fs = NoFiles \/ \E f \in Formats, c \in Images : fs = [NoFiles EXCEPT ![f] = c]

\* Before the save: the names before the cursor are backed up.
BackedUp(p, k) ==
    LET s == naming[p][k]
        o == orig[p][s] IN
    /\ k < i[p] => disk[s] = Origin(o) /\ backup[s] = Origin(o)
    /\ k > i[p] => o = <<>>
    /\ k = i[p] => IF pc[p] = "probe" THEN o = <<>>
                   ELSE o # <<>> /\ disk[s] = Origin(o) /\ found[p] = o[1]
    /\ k = i[p] /\ pc[p] \in {"store", "prune"} => data[p] = o[2]

\* During the save: those before it are written, and all are backed up.
Saved(p, k) ==
    LET s == naming[p][k]
        o == orig[p][s] IN
    /\ backup[s] = Origin(o)
    /\ k < i[p] => disk[s] = New(p)
    /\ k > i[p] \/ (k = i[p] /\ pc[p] = "clean") => disk[s] = Origin(o)
    /\ k = i[p] /\ pc[p] = "write" => \A g \in Formats \ {format[p]} : disk[s][g] = NoImage
    /\ k = i[p] /\ o = <<>> /\ pc[p] = "write" => disk[s] = NoFiles

\* During the rollback: those before it are restored, the others backed up.
RolledBack(p, k) ==
    LET s == naming[p][k]
        o == orig[p][s] IN
    /\ o = <<>> => disk[s] \in {NoFiles, New(p)}
    /\ k > i[p] \/ (k = i[p] /\ pc[p] # "consume") => backup[s] = Origin(o)
    /\ o # <<>> /\ (k < i[p] \/ (k = i[p] /\ pc[p] = "consume")) => disk[s] = Origin(o)
    /\ k = i[p] /\ pc[p] # "restore" => o # <<>> /\ found[p] = o[1] /\ data[p] = o[2]
    /\ k = i[p] /\ pc[p] = "rwrite" => \A g \in Formats \ {found[p]} : disk[s][g] = NoImage

SaveInv(p) ==
    /\ \A j, k \in 1..Len(naming[p]) : naming[p][j] = naming[p][k] => j = k
    /\ pc[p] = "lock" => i[p] = 1 /\ \A s \in Slots : orig[p][s] = <<>>
    /\ pc[p] \in Backing => \A k \in 1..Len(naming[p]) : BackedUp(p, k)
    /\ pc[p] \in Saving => \A k \in 1..Len(naming[p]) : Saved(p, k)
    /\ pc[p] \in Undoing => \A k \in 1..Len(naming[p]) : RolledBack(p, k)

\* A slot no save is writing to has one file at most.
FreeInv ==
    \A s \in Slots :
        (\A p \in Savers : Unsettled(p) => s \notin Elems(naming[p])) => Plain(disk[s])

PhaseInv == FreeInv /\ \A p \in Savers : SaveInv(p)

----------------------------------------------------------------------------
(* Facts about the files of a slot.                                        *)

Held(o) == IF o = <<>> THEN NoImage ELSE o[2]

Origins == {<<>>} \cup (Formats \X Images)

LEMMA OnlyImage ==
    /\ Only(Content(NoFiles)) = NoImage
    /\ \A f \in Formats, c \in Images : Only(Content([NoFiles EXCEPT ![f] = c])) = c
  <1>1. Content(NoFiles) = {}
    BY DEF Content, NoFiles
  <1>2. ASSUME NEW f \in Formats, NEW c \in Images
        PROVE  Content([NoFiles EXCEPT ![f] = c]) = {c}
    <2> DEFINE fs == [NoFiles EXCEPT ![f] = c]
    <2>1. fs[f] = c /\ \A g \in Formats \ {f} : fs[g] = NoImage
      BY DEF NoFiles
    <2>2. c # NoImage
      BY NoImageIsOne
    <2> HIDE DEF fs
    <2>3. Content(fs) = {c}
      BY <2>1, <2>2 DEF Content
    <2> QED BY <2>3 DEF fs
  <1> QED BY <1>1, <1>2 DEF Only

LEMMA OriginIs ==
    ASSUME NEW o \in Origins
    PROVE  /\ Origin(o) \in Files /\ Plain(Origin(o)) /\ Only(Content(Origin(o))) = Held(o)
           /\ o = <<>> => Origin(o) = NoFiles
           /\ o # <<>> => /\ o[1] \in Formats /\ o[2] \in Images
                          /\ Origin(o) = [NoFiles EXCEPT ![o[1]] = o[2]]
                          /\ Origin(o)[o[1]] = o[2]
                          /\ \A g \in Formats \ {o[1]} : Origin(o)[g] = NoImage
  <1>1. CASE o = <<>>
    BY <1>1, OnlyImage, FilesTyped DEF Origin, Plain, Held
  <1>2. CASE o # <<>>
    <2>1. o[1] \in Formats /\ o[2] \in Images
      BY <1>2 DEF Origins
    <2>2. Origin(o) = [NoFiles EXCEPT ![o[1]] = o[2]]
      BY <1>2 DEF Origin
    <2>3. Plain([NoFiles EXCEPT ![o[1]] = o[2]]) /\ [NoFiles EXCEPT ![o[1]] = o[2]] \in Files
      <3> HIDE DEF Origins
      <3>1. \A f \in Formats, c \in Images : Plain([NoFiles EXCEPT ![f] = c])
        BY DEF Plain
      <3>2. \A f \in Formats, c \in Images : [NoFiles EXCEPT ![f] = c] \in Files
        BY FilesTyped
      <3> QED BY <2>1, <3>1, <3>2
    <2>4. Only(Content(Origin(o))) = Held(o)
      BY <1>2, <2>1, <2>2, OnlyImage DEF Held
    <2>5. Origin(o)[o[1]] = o[2] /\ \A g \in Formats \ {o[1]} : Origin(o)[g] = NoImage
      BY <2>1, <2>2 DEF NoFiles
    <2> QED BY <1>2, <2>1, <2>2, <2>3, <2>4, <2>5
  <1> QED BY <1>1, <1>2

\* Two ways to have nothing but an image in one format.
LEMMA OneFile ==
    ASSUME NEW fs \in Files, NEW f \in Formats, \A g \in Formats \ {f} : fs[g] = NoImage
    PROVE  /\ fs = [NoFiles EXCEPT ![f] = fs[f]]
           /\ \A c : [fs EXCEPT ![f] = c] = [NoFiles EXCEPT ![f] = c]
  BY DEF Files, NoFiles

----------------------------------------------------------------------------
(* What a step of one save leaves alone.                                   *)

\* The steps of p touch no slot but its own, and the variables of no other save.
OnlyTouches(p) ==
    /\ UNCHANGED <<naming, image, format>>
    /\ \A s \in Slots \ Elems(naming[p]) : disk'[s] = disk[s] /\ backup'[s] = backup[s]
    /\ \A q \in Savers \ {p} :
          /\ pc'[q] = pc[q] /\ i'[q] = i[q] /\ found'[q] = found[q]
          /\ data'[q] = data[q] /\ orig'[q] = orig[q]

LEMMA OthersKept ==
    ASSUME LockInv, NEW p \in Savers, Working(p), OnlyTouches(p),
           NEW q \in Savers \ {p}, SaveInv(q)
    PROVE  SaveInv(q)'
  <1>1. CASE ~Working(q)
    BY <1>1 DEF SaveInv, OnlyTouches, Working, Backing, Saving, Undoing
  <1>2. CASE Working(q)
    <2>1. \A k \in 1..Len(naming[q]) :
             /\ disk'[naming[q][k]] = disk[naming[q][k]]
             /\ backup'[naming[q][k]] = backup[naming[q][k]]
      <3> SUFFICES ASSUME NEW k \in 1..Len(naming[q])
                   PROVE  naming[q][k] \in Slots \ Elems(naming[p])
        BY DEF OnlyTouches
      <3>1. naming[q][k] \in Slots /\ naming[q][k] \in Elems(naming[q])
        BY DEF LockInv, Elems
      <3>2. Elems(naming[p]) \cap Elems(naming[q]) = {}
        BY <1>2 DEF LockInv
      <3> QED BY <3>1, <3>2
    <2>2. /\ naming' = naming /\ pc'[q] = pc[q] /\ i'[q] = i[q] /\ found'[q] = found[q]
          /\ data'[q] = data[q] /\ orig'[q] = orig[q] /\ New(q)' = New(q)
          /\ format' = format
      BY DEF OnlyTouches, New
    <2>3. ASSUME NEW k \in 1..Len(naming[q])
          PROVE  /\ BackedUp(q, k) => BackedUp(q, k)'
                 /\ Saved(q, k) => Saved(q, k)'
                 /\ RolledBack(q, k) => RolledBack(q, k)'
      BY <2>1, <2>2 DEF BackedUp, Saved, RolledBack
    <2> QED BY <1>2, <2>2, <2>3 DEF SaveInv, Working
  <1> QED BY <1>1, <1>2

LEMMA FreeKept ==
    ASSUME FreeInv, NEW p \in Savers, OnlyTouches(p),
           \/ Unsettled(p)'
           \/ ~Unsettled(p) /\ UNCHANGED disk
           \/ \A s \in Elems(naming[p]) : Plain(disk'[s])
    PROVE  FreeInv'
  <1> SUFFICES ASSUME NEW s \in Slots,
                      \A r \in Savers : Unsettled(r)' => s \notin Elems(naming'[r])
               PROVE  Plain(disk'[s])
    BY DEF FreeInv, Plain
  <1>1. \A r \in Savers \ {p} : Unsettled(r) => s \notin Elems(naming[r])
    BY DEF OnlyTouches, Unsettled
  <1>2. CASE s \notin Elems(naming[p])
    BY <1>1, <1>2 DEF FreeInv, OnlyTouches
  <1>3. CASE s \in Elems(naming[p])
    BY <1>1, <1>3 DEF FreeInv, OnlyTouches
  <1> QED BY <1>2, <1>3

----------------------------------------------------------------------------
(* How a step of a save inside its call can leave it: five ways.           *)

\* It still looks at its slots, or has given up doing so.
Prepares(p) ==
    /\ ~Unsettled(p) /\ pc'[p] \in Backing \cup {"unlock"}
    /\ UNCHANGED disk

\* All its slots are backed up.
Protects(p) ==
    /\ ~Unsettled(p) /\ pc'[p] = "clean"
    /\ UNCHANGED disk
    /\ \A s \in Elems(naming[p]) : disk[s] = Origin(orig'[p][s])

\* It is between its writes and its end.
Continues(p) == Unsettled(p) /\ Unsettled(p)' /\ UNCHANGED orig

\* All its slots are written.
Finishes(p) ==
    /\ Unsettled(p) /\ pc'[p] = "unlock"
    /\ \A s \in Elems(naming[p]) : disk'[s] = New(p)

\* All its slots are rolled back.
GivesUp(p) ==
    /\ Unsettled(p) /\ pc'[p] = "unlock"
    /\ \A s \in Elems(naming[p]) :
          IF orig[p][s] = <<>> THEN disk'[s] \in {NoFiles, New(p)}
                               ELSE disk'[s] = Origin(orig[p][s])

Moved(p) == Prepares(p) \/ Protects(p) \/ Continues(p) \/ Finishes(p) \/ GivesUp(p)

\* What the invariants say of the slot a save is at, and of its other slots.
LEMMA AtName ==
    ASSUME LockInv, DataInv, PhaseInv, NEW p \in Savers, Working(p)
    PROVE  /\ pc[p] # "idle" /\ i[p] \in 1..Len(naming[p]) /\ i \in [Savers -> 1..NumSlots]
           /\ pc \in [Savers -> Busy \cup {"idle"}] /\ Len(naming[p]) \in Nat
           /\ Slot(p) = naming[p][i[p]] /\ Slot(p) \in Slots
           /\ disk \in [Slots -> Files] /\ backup \in [Slots -> Files]
           /\ image[p] \in Images /\ format[p] \in Formats
           /\ found \in [Savers -> AllFormats] /\ data \in [Savers -> Images \cup {NoImage}]
           /\ orig \in [Savers -> [Slots -> Origins]]
           /\ \A k \in 1..Len(naming[p]) :
                 /\ naming[p][k] \in Slots /\ naming[p][k] \in Elems(naming[p])
                 /\ k # i[p] => naming[p][k] # Slot(p)
           /\ \A s \in Elems(naming[p]) : \E k \in 1..Len(naming[p]) : s = naming[p][k]
  <1>1. pc[p] # "idle" /\ SaverInv(p) /\ SaveInv(p)
    BY DEF Working, DataInv, PhaseInv
  <1>2. Slot(p) \in Slots
    BY <1>1, SlotTyped
  <1> QED BY <1>1, <1>2 DEF LockInv, DataInv, FilesInv, LocalsInv, HistoryInv, SaverInv,
             SaveInv, Slot, Elems, Origins

----------------------------------------------------------------------------
(* The steps, one by one.                                                  *)

\* The part of the model this module is about: all formats are probed, what can
\* fail is a backup or a write, and nobody deletes.
Assumed ==
    /\ Formats \subseteq Probed
    /\ Faults \subseteq {"backup", "write"}
    /\ MaxDeletes = 0

Inv == LockInv /\ DataInv /\ PhaseInv

\* No other save is writing to a slot of one that holds its locks.
LEMMA Alone ==
    ASSUME Inv, NEW p \in Savers, Working(p), NEW s \in Elems(naming[p])
    PROVE  /\ s \in Slots
           /\ \A q \in Savers \ {p} : Unsettled(q) => s \notin Elems(naming[q])
           /\ ~Unsettled(p) => Plain(disk[s])
  <1>0. LockInv /\ DataInv /\ PhaseInv
    BY DEF Inv
  <1>1. s \in Slots
    <2>1. /\ \A k \in 1..Len(naming[p]) : naming[p][k] \in Slots
          /\ \E k \in 1..Len(naming[p]) : s = naming[p][k]
      BY <1>0, AtName
    <2> QED BY <2>1
  <1>2. ASSUME NEW q \in Savers \ {p}, Unsettled(q) PROVE s \notin Elems(naming[q])
    <2>1. Working(q) /\ q \in Savers
      BY <1>2 DEF Unsettled, Working
    <2>2. held[p] = Elems(naming[p]) /\ held[q] = Elems(naming[q])
      BY <1>0, <2>1 DEF LockInv
    <2>3. (s \in held[p] <=> owner[s] = p) /\ (s \in held[q] <=> owner[s] = q)
      BY <1>0, <1>1 DEF LockInv
    <2> QED BY <1>2, <2>2, <2>3
  <1> QED BY <1>1, <1>2 DEF Inv, PhaseInv, FreeInv

LEMMA StepProbe ==
    ASSUME Assumed, Inv, NEW p \in Savers, Probe(p)
    PROVE  SaveInv(p)' /\ OnlyTouches(p) /\ Moved(p)
  <1> DEFINE s == Slot(p)
             n == i[p]
             len == Len(naming[p])
             o(k) == orig[p][naming[p][k]]
  <1>0. pc[p] = "probe" /\ Working(p) /\ ~Unsettled(p)
    BY DEF Probe, Working, Unsettled
  <1>1. /\ n \in 1..len /\ len \in Nat /\ s = naming[p][n] /\ s \in Slots
        /\ disk \in [Slots -> Files] /\ backup \in [Slots -> Files]
        /\ orig \in [Savers -> [Slots -> Origins]] /\ found \in [Savers -> AllFormats]
        /\ pc \in [Savers -> Busy \cup {"idle"}] /\ i \in [Savers -> 1..NumSlots]
        /\ \A k \in 1..len : naming[p][k] \in Slots /\ (k # n => naming[p][k] # s)
        /\ \A t \in Elems(naming[p]) : \E k \in 1..len : t = naming[p][k]
        /\ s \in Elems(naming[p])
    BY <1>0, AtName DEF Inv
  <1>2. SaveInv(p) /\ \A k \in 1..len : BackedUp(p, k)
    BY <1>0 DEF Inv, PhaseInv, SaveInv, Backing
  <1>3. Plain(disk[s]) /\ disk[s] \in Files /\ Formats \subseteq Probed
    BY <1>0, <1>1, Alone DEF Assumed
  <1>4. /\ UNCHANGED <<naming, image, format, disk, data>>
    BY DEF Probe
  <1>5. CASE /\ {f \in Probed \cap Formats : disk[s][f] # NoImage} = {}
             /\ backup' = [backup EXCEPT ![s] = NoFiles]
             /\ Advance(p, "probe", "clean") /\ UNCHANGED <<found, orig>>
    <2>1. disk[s] = NoFiles
      BY <1>3, <1>5 DEF Files, NoFiles
    <2>2. o(n) = <<>> /\ Origin(o(n)) = NoFiles
      BY <1>0, <1>1, <1>2 DEF BackedUp, Origin
    <2>3. backup'[s] = NoFiles /\ \A t \in Slots \ {s} : backup'[t] = backup[t]
      BY <1>1, <1>5
    <2>4. \A k \in 1..n : disk[naming[p][k]] = Origin(o(k)) /\ backup'[naming[p][k]] = Origin(o(k))
      <3> SUFFICES ASSUME NEW k \in 1..n
                   PROVE  /\ disk[naming[p][k]] = Origin(o(k))
                          /\ backup'[naming[p][k]] = Origin(o(k))
        OBVIOUS
      <3>1. CASE k = n
        BY <1>1, <2>1, <2>2, <2>3, <3>1
      <3>2. CASE k # n
        <4>1. k \in 1..len /\ k < n
          BY <1>1, <3>2
        <4> QED BY <1>1, <1>2, <2>3, <3>2, <4>1 DEF BackedUp
      <3> QED BY <3>1, <3>2
    <2>5. OnlyTouches(p)
      BY <1>0, <1>1, <1>4, <1>5, <2>3, AdvanceCases DEF OnlyTouches, Inv
    <2>6. CASE pc'[p] = "probe" /\ i'[p] = n + 1
      <3>1. ASSUME NEW k \in 1..len PROVE BackedUp(p, k)'
        <4>1. CASE k \in 1..n
          BY <1>1, <1>4, <1>5, <2>4, <2>6, <4>1 DEF BackedUp
        <4>2. CASE k > n
          <5>1. o(k) = <<>>
            BY <1>2, <4>2 DEF BackedUp
          <5> QED BY <1>1, <1>4, <1>5, <2>6, <4>2, <5>1 DEF BackedUp
        <4> QED BY <1>1, <4>1, <4>2
      <3> QED BY <1>0, <1>2, <1>4, <1>5, <2>5, <2>6, <3>1
              DEF SaveInv, Moved, Prepares, Backing, Saving, Undoing
    <2>7. CASE pc'[p] = "clean" /\ i'[p] = 1 /\ n = len
      <3>1. \A k \in 1..len : Saved(p, k)'
        BY <1>1, <1>4, <1>5, <2>4, <2>7 DEF Saved
      <3>2. \A t \in Elems(naming[p]) : disk[t] = Origin(orig'[p][t])
        BY <1>1, <1>5, <2>4, <2>7
      <3> QED BY <1>0, <1>2, <1>4, <1>5, <2>5, <2>7, <3>1, <3>2
              DEF SaveInv, Moved, Protects, Backing, Saving, Undoing
    <2> QED BY <1>0, <1>5, <2>6, <2>7, AdvanceCases DEF Inv
  <1>6. ASSUME NEW f \in Probed \cap Formats, disk[s][f] # NoImage,
               found' = [found EXCEPT ![p] = f],
               orig' = [orig EXCEPT ![p][s] = <<f, disk[s][f]>>],
               Goto(p, "read"), UNCHANGED backup
        PROVE  SaveInv(p)' /\ OnlyTouches(p) /\ Moved(p)
    <2> DEFINE new == <<f, disk[s][f]>>
    <2>1. disk[s] = [NoFiles EXCEPT ![f] = disk[s][f]]
      BY <1>3, <1>6 DEF Plain, NoFiles
    <2>2. Origin(new) = disk[s] /\ new # <<>> /\ new[1] = f
      BY <2>1 DEF Origin
    <2>3. /\ orig'[p][s] = new /\ \A t \in Slots \ {s} : orig'[p][t] = orig[p][t]
          /\ \A q \in Savers \ {p} : orig'[q] = orig[q]
      BY <1>1, <1>6
    <2>4. /\ pc'[p] = "read" /\ i' = i /\ found'[p] = f
          /\ \A q \in Savers \ {p} : pc'[q] = pc[q] /\ found'[q] = found[q]
      BY <1>1, <1>6 DEF Goto
    <2> HIDE DEF new
    <2>5. \A k \in 1..len : BackedUp(p, k)'
      <3> SUFFICES ASSUME NEW k \in 1..len PROVE BackedUp(p, k)'
        OBVIOUS
      <3>1. CASE k = n
        BY <1>1, <1>4, <2>2, <2>3, <2>4, <3>1 DEF BackedUp
      <3>2. CASE k # n
        BY <1>1, <1>2, <1>4, <1>6, <2>3, <2>4, <3>2 DEF BackedUp
      <3> QED BY <3>1, <3>2
    <2>6. OnlyTouches(p)
      BY <1>4, <1>6, <2>3, <2>4 DEF OnlyTouches
    <2> QED BY <1>0, <1>2, <1>4, <2>4, <2>5, <2>6
            DEF SaveInv, Moved, Prepares, Backing, Saving, Undoing
  <1> QED BY <1>5, <1>6 DEF Probe

\* Reading the slot, storing its backup, or giving up: the backups before it stay.
LEMMA StepBackup ==
    ASSUME Assumed, Inv, NEW p \in Savers, Read(p) \/ Store(p) \/ Abort(p)
    PROVE  SaveInv(p)' /\ OnlyTouches(p) /\ Moved(p)
  <1> DEFINE s == Slot(p)
             n == i[p]
             len == Len(naming[p])
             o(k) == orig[p][naming[p][k]]
  <1>0. pc[p] \in Backing /\ Working(p) /\ ~Unsettled(p)
    BY DEF Read, Store, Abort, Working, Unsettled, Backing
  <1>1. /\ n \in 1..len /\ len \in Nat /\ s = naming[p][n] /\ s \in Slots
        /\ disk \in [Slots -> Files] /\ backup \in [Slots -> Files]
        /\ orig \in [Savers -> [Slots -> Origins]] /\ data \in [Savers -> Images \cup {NoImage}]
        /\ pc \in [Savers -> Busy \cup {"idle"}]
        /\ \A k \in 1..len : naming[p][k] \in Slots /\ (k # n => naming[p][k] # s)
        /\ s \in Elems(naming[p])
    BY <1>0, AtName DEF Inv
  <1>2. SaveInv(p) /\ \A k \in 1..len : BackedUp(p, k)
    BY <1>0 DEF Inv, PhaseInv, SaveInv
  <1>4. UNCHANGED <<naming, image, format, disk, found, orig, i>>
    <2>1. CASE Read(p)
      <3>1. pc[p] = "read"
        BY <2>1 DEF Read
      <3>2. disk[s] = Origin(o(n)) /\ found[p] = o(n)[1] /\ o(n) # <<>> /\ o(n) \in Origins
        BY <1>1, <1>2, <3>1 DEF BackedUp
      <3>3. disk[s][found[p]] # NoImage
        BY <3>2, OriginIs, NoImageIsOne
      <3> QED BY <2>1, <3>3 DEF Read, Goto, ghosts
    <2>2. CASE Store(p) \/ Abort(p)
      BY <2>2 DEF Store, Abort, Goto, ghosts
    <2> QED BY <2>1, <2>2
  <1>5. CASE Read(p)
    <2>1. pc[p] = "read" /\ UNCHANGED backup
      BY <1>5 DEF Read
    <2>2. disk[s] = Origin(o(n)) /\ found[p] = o(n)[1] /\ o(n) # <<>> /\ o(n) \in Origins
      BY <1>1, <1>2, <2>1 DEF BackedUp
    <2>3. disk[s][found[p]] # NoImage /\ disk[s][found[p]] = o(n)[2]
      <3> HIDE DEF s, n, o
      <3>1. o(n)[2] \in Images /\ Origin(o(n))[o(n)[1]] = o(n)[2]
        BY <2>2, OriginIs
      <3> QED BY <2>2, <3>1, NoImageIsOne
    <2>4. data' = [data EXCEPT ![p] = o(n)[2]] /\ pc' = [pc EXCEPT ![p] = "store"]
      BY <1>5, <2>3 DEF Read, Goto
    <2>5. OnlyTouches(p)
      BY <1>1, <1>4, <2>1, <2>4 DEF OnlyTouches
    <2>6. \A k \in 1..len : BackedUp(p, k)'
      BY <1>1, <1>2, <1>4, <2>1, <2>2, <2>4 DEF BackedUp
    <2> QED BY <1>0, <1>1, <1>2, <1>4, <2>4, <2>5, <2>6
            DEF SaveInv, Moved, Prepares, Backing, Saving, Undoing
  <1>6. CASE Store(p)
    <2>1. /\ pc[p] = "store" /\ UNCHANGED data /\ pc' = [pc EXCEPT ![p] = "prune"]
          /\ backup' = [backup EXCEPT ![s][found[p]] = data[p]]
      BY <1>6 DEF Store, Goto
    <2>2. \A t \in Slots \ {s} : backup'[t] = backup[t]
      BY <1>1, <2>1
    <2>3. OnlyTouches(p)
      BY <1>1, <1>4, <2>1, <2>2 DEF OnlyTouches
    <2>4. \A k \in 1..len : BackedUp(p, k)'
      BY <1>1, <1>2, <1>4, <2>1, <2>2 DEF BackedUp
    <2> QED BY <1>0, <1>1, <1>2, <1>4, <2>1, <2>3, <2>4
            DEF SaveInv, Moved, Prepares, Backing, Saving, Undoing
  <1>7. CASE Abort(p)
    <2>1. UNCHANGED <<backup, data>> /\ pc' = [pc EXCEPT ![p] = "unlock"]
      BY <1>7 DEF Abort, Goto
    <2>2. OnlyTouches(p)
      BY <1>1, <1>4, <2>1 DEF OnlyTouches
    <2> QED BY <1>0, <1>1, <1>2, <1>4, <2>1, <2>2
            DEF SaveInv, Moved, Prepares, Backing, Saving, Undoing
  <1> QED BY <1>5, <1>6, <1>7

LEMMA StepPrune ==
    ASSUME Assumed, Inv, NEW p \in Savers, Prune(p)
    PROVE  SaveInv(p)' /\ OnlyTouches(p) /\ Moved(p)
  <1> DEFINE s == Slot(p)
             n == i[p]
             len == Len(naming[p])
             o(k) == orig[p][naming[p][k]]
  <1>0. pc[p] = "prune" /\ Working(p) /\ ~Unsettled(p)
    BY DEF Prune, Working, Unsettled
  <1>1. /\ n \in 1..len /\ len \in Nat /\ s = naming[p][n] /\ s \in Slots
        /\ backup \in [Slots -> Files] /\ orig \in [Savers -> [Slots -> Origins]]
        /\ \A k \in 1..len : naming[p][k] \in Slots /\ (k # n => naming[p][k] # s)
        /\ \A t \in Elems(naming[p]) : \E k \in 1..len : t = naming[p][k]
        /\ s \in Elems(naming[p])
    BY <1>0, AtName DEF Inv
  <1>2. SaveInv(p) /\ \A k \in 1..len : BackedUp(p, k)
    BY <1>0 DEF Inv, PhaseInv, SaveInv, Backing
  <1>3. /\ disk[s] = Origin(o(n)) /\ found[p] = o(n)[1] /\ data[p] = o(n)[2]
        /\ o(n) # <<>> /\ o(n) \in Origins
    BY <1>0, <1>1, <1>2 DEF BackedUp
  <1>4. /\ UNCHANGED <<naming, image, format, disk, data, found, orig>>
        /\ backup' = [backup EXCEPT ![s] = Origin(o(n))]
        /\ Advance(p, "probe", "clean")
    BY <1>3, OriginIs DEF Prune, ghosts
  <1>5. backup'[s] = Origin(o(n)) /\ \A t \in Slots \ {s} : backup'[t] = backup[t]
    BY <1>1, <1>4
  <1>6. ASSUME NEW k \in 1..n
        PROVE  disk[naming[p][k]] = Origin(o(k)) /\ backup'[naming[p][k]] = Origin(o(k))
    <2>1. CASE k = n
      BY <1>1, <1>3, <1>5, <2>1
    <2>2. CASE k # n
      <3>1. k \in 1..len /\ k < n
        BY <1>1, <2>2
      <3> QED BY <1>1, <1>2, <1>5, <2>2, <3>1 DEF BackedUp
    <2> QED BY <2>1, <2>2
  <1>7. OnlyTouches(p)
    BY <1>0, <1>1, <1>4, <1>5, AdvanceCases DEF OnlyTouches, Inv
  <1>8. CASE pc'[p] = "probe" /\ i'[p] = n + 1
    <2>1. ASSUME NEW k \in 1..len PROVE BackedUp(p, k)'
      <3>1. CASE k \in 1..n
        BY <1>1, <1>4, <1>6, <1>8, <3>1 DEF BackedUp
      <3>2. CASE k > n
        <4>1. o(k) = <<>>
          BY <1>2, <3>2 DEF BackedUp
        <4> QED BY <1>1, <1>4, <1>8, <3>2, <4>1 DEF BackedUp
      <3> QED BY <1>1, <3>1, <3>2
    <2> QED BY <1>0, <1>2, <1>4, <1>7, <1>8, <2>1
            DEF SaveInv, Moved, Prepares, Backing, Saving, Undoing
  <1>9. CASE pc'[p] = "clean" /\ i'[p] = 1 /\ n = len
    <2>1. \A k \in 1..len : Saved(p, k)'
      BY <1>1, <1>4, <1>6, <1>9 DEF Saved
    <2>2. \A t \in Elems(naming[p]) : disk[t] = Origin(orig'[p][t])
      BY <1>1, <1>4, <1>6, <1>9
    <2> QED BY <1>0, <1>2, <1>4, <1>7, <1>9, <2>1, <2>2
            DEF SaveInv, Moved, Protects, Backing, Saving, Undoing
  <1> QED BY <1>0, <1>4, <1>8, <1>9, AdvanceCases DEF Inv

\* A write, or the end of one: the slots before it are written, the others as found.
LEMMA StepSave ==
    ASSUME Assumed, Inv, NEW p \in Savers, Clean(p) \/ Write(p) \/ WriteFails(p)
    PROVE  SaveInv(p)' /\ OnlyTouches(p) /\ Moved(p)
  <1> DEFINE s == Slot(p)
             n == i[p]
             len == Len(naming[p])
             o(k) == orig[p][naming[p][k]]
  <1>0. pc[p] \in Saving /\ Working(p) /\ Unsettled(p)
    BY DEF Clean, Write, WriteFails, SaveStops, Working, Unsettled, Saving
  <1>1. /\ n \in 1..len /\ len \in Nat /\ s = naming[p][n] /\ s \in Slots
        /\ disk \in [Slots -> Files] /\ format[p] \in Formats
        /\ orig \in [Savers -> [Slots -> Origins]]
        /\ pc \in [Savers -> Busy \cup {"idle"}] /\ i \in [Savers -> 1..NumSlots]
        /\ \A k \in 1..len : naming[p][k] \in Slots /\ (k # n => naming[p][k] # s)
        /\ \A t \in Elems(naming[p]) : \E k \in 1..len : t = naming[p][k]
        /\ s \in Elems(naming[p])
    BY <1>0, AtName DEF Inv
  <1>2. SaveInv(p) /\ \A k \in 1..len : Saved(p, k)
    BY <1>0 DEF Inv, PhaseInv, SaveInv, Backing, Saving
  <1>3. /\ UNCHANGED <<naming, image, format, backup, data, found, orig>>
        /\ New(p)' = New(p)
    BY DEF Clean, Write, WriteFails, New, ghosts
  <1>4. CASE Clean(p)
    <2>1. /\ pc[p] = "clean" /\ pc' = [pc EXCEPT ![p] = "write"] /\ UNCHANGED i
          /\ disk' = [disk EXCEPT ![s] = [NoFiles EXCEPT ![format[p]] = disk[s][format[p]]]]
      BY <1>1, <1>4, CleansAll DEF Clean, Goto, Assumed
    <2>2. \A t \in Slots \ {s} : disk'[t] = disk[t]
      BY <1>1, <2>1
    <2>3. /\ \A g \in Formats \ {format[p]} : disk'[s][g] = NoImage
          /\ disk[s] = NoFiles => disk'[s] = NoFiles
      BY <1>1, <2>1 DEF NoFiles
    <2>4. o(n) = <<>> => disk'[s] = NoFiles
      BY <1>1, <1>2, <2>1, <2>3 DEF Saved, Origin
    <2>5. \A k \in 1..len : Saved(p, k)'
      BY <1>1, <1>2, <1>3, <2>1, <2>2, <2>3, <2>4 DEF Saved
    <2>6. OnlyTouches(p)
      BY <1>1, <1>3, <2>1, <2>2 DEF OnlyTouches
    <2>7. pc'[p] = "write"
      BY <1>1, <2>1
    <2> QED BY <1>0, <1>2, <1>3, <2>5, <2>6, <2>7
            DEF SaveInv, Moved, Continues, Unsettled, Backing, Saving, Undoing
  <1>5. CASE Write(p)
    <2>1. /\ pc[p] = "write" /\ Advance(p, "clean", "unlock")
          /\ disk' = [disk EXCEPT ![s][format[p]] = image[p]]
      BY <1>5 DEF Write
    <2>2. \A t \in Slots \ {s} : disk'[t] = disk[t]
      BY <1>1, <2>1
    <2>3. disk'[s] = New(p)
      <3>1. disk'[s] = [disk[s] EXCEPT ![format[p]] = image[p]]
        BY <1>1, <2>1
      <3>2. \A g \in Formats \ {format[p]} : disk[s][g] = NoImage
        BY <1>1, <1>2, <2>1 DEF Saved
      <3>3. disk[s] \in Files
        BY <1>1
      <3> HIDE DEF s
      <3>4. [disk[s] EXCEPT ![format[p]] = image[p]] = [NoFiles EXCEPT ![format[p]] = image[p]]
        <4> DEFINE fs == disk[s]
                   f == format[p]
        <4>1. fs \in Files /\ f \in Formats /\ \A g \in Formats \ {f} : fs[g] = NoImage
          BY <1>1, <3>2
        <4> HIDE DEF fs, f
        <4>2. [fs EXCEPT ![f] = image[p]] = [NoFiles EXCEPT ![f] = image[p]]
          BY <4>1, OneFile
        <4> QED BY <4>2 DEF fs, f
      <3> QED BY <3>1, <3>4 DEF New
    <2>4. ASSUME NEW k \in 1..n PROVE disk'[naming[p][k]] = New(p)
      <3>1. CASE k = n
        BY <1>1, <2>3, <3>1
      <3>2. CASE k # n
        <4>1. k \in 1..len /\ k < n
          BY <1>1, <3>2
        <4> QED BY <1>1, <1>2, <2>2, <3>2, <4>1 DEF Saved
      <3> QED BY <3>1, <3>2
    <2>5. OnlyTouches(p)
      BY <1>0, <1>1, <1>3, <2>1, <2>2, AdvanceCases DEF OnlyTouches, Inv
    <2>6. CASE pc'[p] = "clean" /\ i'[p] = n + 1
      <3>1. ASSUME NEW k \in 1..len PROVE Saved(p, k)'
        <4>1. CASE k \in 1..n
          BY <1>1, <1>2, <1>3, <2>4, <2>6, <4>1 DEF Saved
        <4>2. CASE k > n
          BY <1>1, <1>2, <1>3, <2>2, <2>6, <4>2 DEF Saved
        <4> QED BY <1>1, <4>1, <4>2
      <3> QED BY <1>0, <1>2, <1>3, <2>5, <2>6, <3>1
              DEF SaveInv, Moved, Continues, Unsettled, Backing, Saving, Undoing
    <2>7. CASE pc'[p] = "unlock" /\ n = len
      <3>1. \A t \in Elems(naming[p]) : disk'[t] = New(p)
        BY <1>1, <2>4, <2>7
      <3> QED BY <1>0, <1>2, <1>3, <2>5, <2>7, <3>1
              DEF SaveInv, Moved, Finishes, Backing, Saving, Undoing
    <2> QED BY <1>0, <2>1, <2>6, <2>7, AdvanceCases DEF Inv
  <1>6. CASE WriteFails(p)
    <2>1. /\ pc[p] \in {"clean", "write"} /\ UNCHANGED disk
          /\ pc' = [pc EXCEPT ![p] = "restore"] /\ i' = [i EXCEPT ![p] = 1]
      BY <1>6 DEF WriteFails, SaveStops
    <2>2. pc'[p] = "restore" /\ i'[p] = 1
      BY <1>1, <2>1
    <2>3. ASSUME NEW k \in 1..len, o(k) = <<>>
          PROVE  disk[naming[p][k]] \in {NoFiles, New(p)}
      <3>1. Origin(o(k)) = NoFiles
        BY <2>3 DEF Origin
      <3>2. k < n \/ k = n \/ k > n
        BY <1>1
      <3> QED BY <1>2, <2>1, <2>3, <3>1, <3>2 DEF Saved
    <2>4. ASSUME NEW k \in 1..len PROVE RolledBack(p, k)'
      <3>1. backup[naming[p][k]] = Origin(o(k))
        BY <1>2 DEF Saved
      <3>2. ~(k < 1) /\ pc'[p] \notin {"rclean", "rwrite", "consume"}
        BY <2>2
      <3> QED BY <1>3, <2>1, <2>2, <2>3, <3>1, <3>2 DEF RolledBack
    <2>5. OnlyTouches(p)
      BY <1>1, <1>3, <2>1 DEF OnlyTouches
    <2> QED BY <1>0, <1>2, <1>3, <2>2, <2>4, <2>5
            DEF SaveInv, Moved, Continues, Unsettled, Backing, Saving, Undoing
  <1> QED BY <1>4, <1>5, <1>6

\* Each slot of a rollback that is at its end.
LEMMA RolledBackAll ==
    ASSUME NEW p \in Savers, NEW n \in Nat, n = Len(naming[p]),
           \A k \in 1..n :
              LET t == naming[p][k] IN
              IF orig[p][t] = <<>> THEN disk'[t] \in {NoFiles, New(p)}
                                   ELSE disk'[t] = Origin(orig[p][t]),
           Unsettled(p), pc'[p] = "unlock"
    PROVE  GivesUp(p)
  <1>1. \A t \in Elems(naming[p]) : \E k \in 1..n : t = naming[p][k]
    BY DEF Elems
  <1> QED BY <1>1 DEF GivesUp

\* A slot without a backup had no image; the others are located.
LEMMA StepRestore ==
    ASSUME Assumed, Inv, NEW p \in Savers, Restore(p)
    PROVE  SaveInv(p)' /\ OnlyTouches(p) /\ Moved(p)
  <1> DEFINE s == Slot(p)
             n == i[p]
             len == Len(naming[p])
             o(k) == orig[p][naming[p][k]]
  <1>0. pc[p] = "restore" /\ Working(p) /\ Unsettled(p)
    BY DEF Restore, Working, Unsettled
  <1>1. /\ n \in 1..len /\ len \in Nat /\ s = naming[p][n] /\ s \in Slots
        /\ backup \in [Slots -> Files] /\ orig \in [Savers -> [Slots -> Origins]]
        /\ found \in [Savers -> AllFormats] /\ data \in [Savers -> Images \cup {NoImage}]
        /\ pc \in [Savers -> Busy \cup {"idle"}]
        /\ \A k \in 1..len : naming[p][k] \in Slots /\ (k # n => naming[p][k] # s)
    BY <1>0, AtName DEF Inv
  <1>2. SaveInv(p) /\ \A k \in 1..len : RolledBack(p, k)
    BY <1>0 DEF Inv, PhaseInv, SaveInv, Backing, Saving, Undoing
  <1>3. /\ UNCHANGED <<naming, image, format, disk, backup, orig>> /\ New(p)' = New(p)
    BY DEF Restore, New, ghosts
  <1>4. o(n) \in Origins /\ backup[s] = Origin(o(n))
    BY <1>0, <1>1, <1>2 DEF RolledBack
  <1>5. CASE /\ {f \in Formats : backup[s][f] # NoImage} = {}
             /\ Advance(p, "restore", "unlock") /\ UNCHANGED <<found, data>>
    <2>1. o(n) = <<>>
      <3> SUFFICES ASSUME o(n) # <<>> PROVE FALSE
        OBVIOUS
      <3> HIDE DEF s, n, o
      <3>1. o(n)[1] \in Formats /\ o(n)[2] \in Images /\ Origin(o(n))[o(n)[1]] = o(n)[2]
        BY <1>4, OriginIs
      <3> QED BY <1>4, <1>5, <3>1, NoImageIsOne
    <2>2. OnlyTouches(p)
      BY <1>0, <1>3, <1>5, AdvanceCases DEF OnlyTouches, Inv
    <2>3. ASSUME NEW k \in 1..n
          PROVE  IF o(k) = <<>> THEN disk[naming[p][k]] \in {NoFiles, New(p)}
                                ELSE disk[naming[p][k]] = Origin(o(k))
      <3>1. CASE k = n
        BY <1>1, <1>2, <2>1, <3>1 DEF RolledBack
      <3>2. CASE k # n
        <4>1. k \in 1..len /\ k < n
          BY <1>1, <3>2
        <4> QED BY <1>2, <4>1 DEF RolledBack
      <3> QED BY <3>1, <3>2
    <2>4. CASE pc'[p] = "restore" /\ i'[p] = n + 1
      <3>1. ASSUME NEW k \in 1..len PROVE RolledBack(p, k)'
        <4>1. CASE k \in 1..n
          BY <1>1, <1>3, <2>3, <2>4, <4>1 DEF RolledBack
        <4>2. CASE k > n
          BY <1>1, <1>2, <1>3, <2>4, <4>2 DEF RolledBack
        <4> QED BY <1>1, <4>1, <4>2
      <3> QED BY <1>0, <1>2, <1>3, <2>2, <2>4, <3>1
              DEF SaveInv, Moved, Continues, Unsettled, Backing, Saving, Undoing
    <2>5. CASE pc'[p] = "unlock" /\ n = len
      <3>1. GivesUp(p)
        BY <1>0, <1>1, <1>3, <2>3, <2>5, RolledBackAll
      <3> QED BY <1>2, <1>3, <2>2, <2>5, <3>1
              DEF SaveInv, Moved, Backing, Saving, Undoing
    <2> QED BY <1>0, <1>5, <2>4, <2>5, AdvanceCases DEF Inv
  <1>6. ASSUME NEW f \in Formats, backup[s][f] # NoImage,
               found' = [found EXCEPT ![p] = f],
               data' = [data EXCEPT ![p] = backup[s][f]], Goto(p, "rclean")
        PROVE  SaveInv(p)' /\ OnlyTouches(p) /\ Moved(p)
    <2>1. o(n) # <<>> /\ f = o(n)[1] /\ backup[s][f] = o(n)[2]
      <3> HIDE DEF s, n, o
      <3>1. o(n) # <<>>
        BY <1>4, <1>6, OriginIs DEF NoFiles
      <3>2. /\ Origin(o(n))[o(n)[1]] = o(n)[2]
            /\ \A g \in Formats \ {o(n)[1]} : Origin(o(n))[g] = NoImage
        BY <1>4, <3>1, OriginIs
      <3> QED BY <1>4, <1>6, <3>1, <3>2
    <2>2. /\ pc'[p] = "rclean" /\ i' = i /\ found'[p] = f /\ data'[p] = backup[s][f]
          /\ \A q \in Savers \ {p} :
                pc'[q] = pc[q] /\ found'[q] = found[q] /\ data'[q] = data[q]
      BY <1>1, <1>6 DEF Goto
    <2>3. OnlyTouches(p)
      BY <1>3, <2>2 DEF OnlyTouches
    <2>4. \A k \in 1..len : RolledBack(p, k)'
      BY <1>0, <1>1, <1>2, <1>3, <2>1, <2>2 DEF RolledBack
    <2> QED BY <1>0, <1>2, <1>3, <2>2, <2>3, <2>4
            DEF SaveInv, Moved, Continues, Unsettled, Backing, Saving, Undoing
  <1> QED BY <1>5, <1>6 DEF Restore

\* The backup goes back to its slot.
LEMMA StepRewrite ==
    ASSUME Assumed, Inv, NEW p \in Savers, RestoreClean(p) \/ RestoreWrite(p)
    PROVE  SaveInv(p)' /\ OnlyTouches(p) /\ Moved(p)
  <1> DEFINE s == Slot(p)
             n == i[p]
             len == Len(naming[p])
             o(k) == orig[p][naming[p][k]]
  <1>0. pc[p] \in {"rclean", "rwrite"} /\ Working(p) /\ Unsettled(p)
    BY DEF RestoreClean, RestoreWrite, Working, Unsettled
  <1>1. /\ n \in 1..len /\ len \in Nat /\ s = naming[p][n] /\ s \in Slots
        /\ disk \in [Slots -> Files] /\ orig \in [Savers -> [Slots -> Origins]]
        /\ pc \in [Savers -> Busy \cup {"idle"}]
        /\ \A k \in 1..len : naming[p][k] \in Slots /\ (k # n => naming[p][k] # s)
        /\ s \in Elems(naming[p])
    BY <1>0, AtName DEF Inv
  <1>2. SaveInv(p) /\ \A k \in 1..len : RolledBack(p, k)
    BY <1>0 DEF Inv, PhaseInv, SaveInv, Backing, Saving, Undoing
  <1>3. /\ UNCHANGED <<naming, image, format, backup, data, found, orig, i>>
        /\ New(p)' = New(p)
    BY DEF RestoreClean, RestoreWrite, Goto, New
  <1>4. /\ o(n) \in Origins /\ o(n) # <<>> /\ found[p] = o(n)[1] /\ data[p] = o(n)[2]
        /\ found[p] \in Formats /\ Origin(o(n)) = [NoFiles EXCEPT ![found[p]] = data[p]]
    <2>1. o(n) \in Origins /\ o(n) # <<>> /\ found[p] = o(n)[1] /\ data[p] = o(n)[2]
      BY <1>0, <1>1, <1>2 DEF RolledBack
    <2> HIDE DEF s, n, o
    <2>2. o(n)[1] \in Formats /\ Origin(o(n)) = [NoFiles EXCEPT ![o(n)[1]] = o(n)[2]]
      BY <2>1, OriginIs
    <2> QED BY <2>1, <2>2
  <1>5. CASE RestoreClean(p)
    <2>1. /\ pc[p] = "rclean" /\ pc' = [pc EXCEPT ![p] = "rwrite"]
          /\ disk' = [disk EXCEPT ![s] = [NoFiles EXCEPT ![found[p]] = disk[s][found[p]]]]
      BY <1>1, <1>4, <1>5, CleansAll DEF RestoreClean, Goto, Assumed
    <2>2. \A t \in Slots \ {s} : disk'[t] = disk[t]
      BY <1>1, <2>1
    <2>3. \A g \in Formats \ {found[p]} : disk'[s][g] = NoImage
      BY <1>1, <2>1 DEF NoFiles
    <2>4. pc'[p] = "rwrite"
      BY <1>1, <2>1
    <2>5. ASSUME NEW k \in 1..len PROVE RolledBack(p, k)'
      <3>1. CASE k = n
        <4>1. backup[naming[p][k]] = Origin(o(k))
          BY <1>1, <1>2, <2>1, <3>1 DEF RolledBack
        <4>2. /\ o(k) # <<>> /\ found[p] = o(k)[1] /\ data[p] = o(k)[2]
              /\ \A g \in Formats \ {found[p]} : disk'[naming[p][k]][g] = NoImage
              /\ i[p] = k
          BY <1>1, <1>4, <2>3, <3>1
        <4> HIDE DEF o
        <4> QED BY <1>3, <2>4, <4>1, <4>2 DEF RolledBack, o
      <3>2. CASE k # n
        BY <1>1, <1>2, <1>3, <2>2, <2>4, <3>2 DEF RolledBack
      <3> QED BY <3>1, <3>2
    <2>6. OnlyTouches(p)
      BY <1>1, <1>3, <2>1, <2>2 DEF OnlyTouches
    <2> QED BY <1>0, <1>2, <1>3, <2>4, <2>5, <2>6
            DEF SaveInv, Moved, Continues, Unsettled, Backing, Saving, Undoing
  <1>6. CASE RestoreWrite(p)
    <2>1. /\ pc[p] = "rwrite" /\ pc' = [pc EXCEPT ![p] = "consume"]
          /\ disk' = [disk EXCEPT ![s][found[p]] = data[p]]
      BY <1>6 DEF RestoreWrite, Goto
    <2>2. \A t \in Slots \ {s} : disk'[t] = disk[t]
      BY <1>1, <2>1
    <2>3. disk'[s] = Origin(o(n))
      <3> DEFINE fs == disk[s]
                 f == found[p]
                 c == data[p]
      <3>1. fs \in Files /\ f \in Formats /\ \A g \in Formats \ {f} : fs[g] = NoImage
        <4>1. RolledBack(p, n) /\ fs \in Files /\ f \in Formats
          BY <1>1, <1>2, <1>4
        <4> QED BY <1>1, <2>1, <4>1 DEF RolledBack
      <3>2. disk'[s] = [fs EXCEPT ![f] = c]
        BY <1>1, <2>1
      <3>3. Origin(o(n)) = [NoFiles EXCEPT ![f] = c]
        BY <1>4
      <3> HIDE DEF fs, f, c
      <3>4. [fs EXCEPT ![f] = c] = [NoFiles EXCEPT ![f] = c]
        BY <3>1, OneFile
      <3> QED BY <3>2, <3>3, <3>4
    <2>4. pc'[p] = "consume"
      BY <1>1, <2>1
    <2>5. ASSUME NEW k \in 1..len PROVE RolledBack(p, k)'
      <3>1. CASE k = n
        BY <1>1, <1>3, <1>4, <2>3, <2>4, <3>1 DEF RolledBack
      <3>2. CASE k # n
        BY <1>1, <1>2, <1>3, <2>2, <2>4, <3>2 DEF RolledBack
      <3> QED BY <3>1, <3>2
    <2>6. OnlyTouches(p)
      BY <1>1, <1>3, <2>1, <2>2 DEF OnlyTouches
    <2> QED BY <1>0, <1>2, <1>3, <2>4, <2>5, <2>6
            DEF SaveInv, Moved, Continues, Unsettled, Backing, Saving, Undoing
  <1> QED BY <1>5, <1>6

\* The backup is consumed.
LEMMA StepConsume ==
    ASSUME Assumed, Inv, NEW p \in Savers, Consume(p)
    PROVE  SaveInv(p)' /\ OnlyTouches(p) /\ Moved(p)
  <1> DEFINE s == Slot(p)
             n == i[p]
             len == Len(naming[p])
             o(k) == orig[p][naming[p][k]]
  <1>0. pc[p] = "consume" /\ Working(p) /\ Unsettled(p)
    BY DEF Consume, Working, Unsettled
  <1>1. /\ n \in 1..len /\ len \in Nat /\ s = naming[p][n] /\ s \in Slots
        /\ backup \in [Slots -> Files] /\ s \in Elems(naming[p])
        /\ \A k \in 1..len : naming[p][k] \in Slots /\ (k # n => naming[p][k] # s)
    BY <1>0, AtName DEF Inv
  <1>2. SaveInv(p) /\ \A k \in 1..len : RolledBack(p, k)
    BY <1>0 DEF Inv, PhaseInv, SaveInv, Backing, Saving, Undoing
  <1>3. /\ UNCHANGED <<naming, image, format, disk, data, found, orig>>
        /\ backup' = [backup EXCEPT ![s] = NoFiles]
        /\ Advance(p, "restore", "unlock") /\ New(p)' = New(p)
    BY DEF Consume, New, ghosts, Assumed
  <1>4. \A t \in Slots \ {s} : backup'[t] = backup[t]
    BY <1>1, <1>3
  <1>5. ASSUME NEW k \in 1..n
        PROVE  IF o(k) = <<>> THEN disk[naming[p][k]] \in {NoFiles, New(p)}
                              ELSE disk[naming[p][k]] = Origin(o(k))
    <2>1. k \in 1..len /\ (k < n \/ k = n)
      BY <1>1
    <2> QED BY <1>0, <1>2, <2>1 DEF RolledBack
  <1>6. OnlyTouches(p)
    BY <1>0, <1>1, <1>3, <1>4, AdvanceCases DEF OnlyTouches, Inv
  <1>7. CASE pc'[p] = "restore" /\ i'[p] = n + 1
    <2>1. ASSUME NEW k \in 1..len PROVE RolledBack(p, k)'
      <3>1. CASE k \in 1..n
        BY <1>1, <1>3, <1>5, <1>7, <3>1 DEF RolledBack
      <3>2. CASE k > n
        BY <1>1, <1>2, <1>3, <1>4, <1>7, <3>2 DEF RolledBack
      <3> QED BY <1>1, <3>1, <3>2
    <2> QED BY <1>0, <1>2, <1>3, <1>6, <1>7, <2>1
            DEF SaveInv, Moved, Continues, Unsettled, Backing, Saving, Undoing
  <1>8. CASE pc'[p] = "unlock" /\ n = len
    <2>1. GivesUp(p)
      BY <1>0, <1>1, <1>3, <1>5, <1>8, RolledBackAll
    <2> QED BY <1>2, <1>3, <1>6, <1>8, <2>1
            DEF SaveInv, Moved, Backing, Saving, Undoing
  <1> QED BY <1>0, <1>3, <1>7, <1>8, AdvanceCases DEF Inv

----------------------------------------------------------------------------
(* The invariant.                                                          *)

\* The steps of a save inside its call.
Works(p) ==
    \/ Probe(p) \/ Read(p) \/ Store(p) \/ Prune(p) \/ Abort(p)
    \/ Clean(p) \/ Write(p) \/ WriteFails(p)
    \/ Restore(p) \/ RestoreClean(p) \/ RestoreWrite(p) \/ Consume(p)

\* Steps that touch no slot: a call, its locks and their release.
Calls(p) == Begin(p) \/ Lock(p) \/ Unlock(p)

LEMMA StepWorks ==
    ASSUME Assumed, Inv, NEW p \in Savers, Works(p)
    PROVE  Working(p) /\ SaveInv(p)' /\ OnlyTouches(p) /\ Moved(p)
  <1>1. Working(p)
    BY DEF Works, Working, Probe, Read, Store, Prune, Abort, Clean, Write, WriteFails,
           SaveStops, Restore, RestoreClean, RestoreWrite, Consume
  <1> QED BY <1>1, StepProbe, StepBackup, StepPrune, StepSave, StepRestore, StepRewrite,
             StepConsume DEF Works

\* The other steps of Next do not happen.
LEMMA StepIs ==
    ASSUME Assumed, Inv, Next
    PROVE  \E p \in Savers : Works(p) \/ Calls(p)
  <1>1. ASSUME NEW p \in Savers, RestoreFails(p) PROVE FALSE
    BY <1>1 DEF RestoreFails, Assumed
  <1>2. ASSUME NEW s \in Slots, NEW f \in Formats, Delete(s, f) PROVE FALSE
    BY <1>2 DEF Delete, Assumed, Inv, DataInv, HistoryInv
  <1> QED BY <1>1, <1>2 DEF Next, Step, Works, Calls

LEMMA PlainImages ==
    ASSUME Inv, NEW p \in Savers, Working(p)
    PROVE  /\ Plain(NoFiles) /\ Plain(New(p))
           /\ \A s \in Elems(naming[p]) : Plain(Origin(orig[p][s]))
  <1>1. /\ image[p] \in Images /\ format[p] \in Formats
        /\ orig \in [Savers -> [Slots -> Origins]]
    BY AtName DEF Inv
  <1>2. \A s \in Elems(naming[p]) : s \in Slots
    BY Alone
  <1>3. ASSUME NEW s \in Elems(naming[p]) PROVE Plain(Origin(orig[p][s]))
    <2>1. orig[p][s] \in Origins
      BY <1>1, <1>2
    <2> QED BY <2>1, OriginIs
  <1> QED BY <1>1, <1>3 DEF Plain, New

LEMMA PhaseWorks ==
    ASSUME Assumed, Inv, NEW p \in Savers, Works(p)
    PROVE  PhaseInv'
  <1>1. Working(p) /\ SaveInv(p)' /\ OnlyTouches(p) /\ Moved(p)
    BY StepWorks
  <1>2. ASSUME NEW q \in Savers \ {p} PROVE SaveInv(q)'
    BY <1>1, OthersKept DEF Inv, PhaseInv
  <1>3. \/ Unsettled(p)'
        \/ ~Unsettled(p) /\ UNCHANGED disk
        \/ \A s \in Elems(naming[p]) : Plain(disk'[s])
    <2>1. CASE Prepares(p) \/ Protects(p) \/ Continues(p)
      BY <2>1 DEF Prepares, Protects, Continues
    <2>2. CASE Finishes(p) \/ GivesUp(p)
      BY <1>1, <2>2, PlainImages DEF Finishes, GivesUp
    <2> QED BY <1>1, <2>1, <2>2 DEF Moved
  <1>4. FreeInv'
    BY <1>1, <1>3, FreeKept DEF Inv, PhaseInv
  <1> QED BY <1>1, <1>2, <1>4 DEF PhaseInv

\* What such a step does: the files stay, and so does every other save.
LEMMA CallsTouch ==
    ASSUME Inv, NEW p \in Savers, Calls(p)
    PROVE  /\ UNCHANGED <<disk, backup, found, data>>
           /\ ~Unsettled(p) /\ ~Unsettled(p)'
           /\ \A q \in Savers \ {p} :
                 /\ pc'[q] = pc[q] /\ i'[q] = i[q] /\ orig'[q] = orig[q]
                 /\ naming'[q] = naming[q] /\ image'[q] = image[q] /\ format'[q] = format[q]
           /\ \/ /\ pc[p] = "idle" /\ pc'[p] = "lock" /\ i'[p] = 1
                 /\ naming'[p] \in Namings /\ image'[p] \in Images
                 /\ orig'[p] = [s \in Slots |-> <<>>]
              \/ /\ pc[p] = "lock" /\ pc'[p] \in {"lock", "probe"}
                 /\ UNCHANGED <<i, naming, image, format, orig>>
              \/ /\ pc[p] = "unlock" /\ pc'[p] \in {"unlock", "idle"}
                 /\ UNCHANGED <<naming, image, format, orig>>
  <1>0. /\ p \in DOMAIN pc /\ p \in DOMAIN i /\ p \in DOMAIN naming /\ p \in DOMAIN image
        /\ p \in DOMAIN orig
    BY DEF Inv, LockInv, DataInv, LocalsInv, HistoryInv
  <1>1. CASE Begin(p)
    <2>1. PICK q \in Namings, c \in Images \ used, f \in Written \cap Formats :
             /\ naming' = [naming EXCEPT ![p] = q] /\ image' = [image EXCEPT ![p] = c]
             /\ format' = [format EXCEPT ![p] = f] /\ used' = used \cup {c}
      BY <1>1 DEF Begin
    <2>2. /\ pc[p] = "idle" /\ pc' = [pc EXCEPT ![p] = "lock"] /\ i' = [i EXCEPT ![p] = 1]
          /\ orig' = [orig EXCEPT ![p] = [s \in Slots |-> <<>>]]
          /\ UNCHANGED <<disk, backup, found, data>>
      BY <1>1 DEF Begin
    <2> HIDE DEF Namings
    <2> QED BY <1>0, <2>1, <2>2 DEF Unsettled
  <1>2. CASE Lock(p)
    <2>1. /\ pc[p] = "lock"
          /\ UNCHANGED <<disk, backup, naming, i, image, format, found, data, orig>>
          /\ \E where \in {"probe", "lock"} : pc' = [pc EXCEPT ![p] = where]
      BY <1>2 DEF Lock, Take, ghosts
    <2> QED BY <1>0, <2>1 DEF Unsettled
  <1>3. CASE Unlock(p)
    <2>1. /\ pc[p] = "unlock" /\ i' = [i EXCEPT ![p] = 1]
          /\ UNCHANGED <<disk, backup, naming, image, format, found, data, orig>>
          /\ \E where \in {"idle", "unlock"} : pc' = [pc EXCEPT ![p] = where]
      BY <1>3 DEF Unlock, ghosts
    <2> QED BY <1>0, <2>1 DEF Unsettled
  <1> QED BY <1>1, <1>2, <1>3 DEF Calls

LEMMA PhaseCalls ==
    ASSUME Inv, NEW p \in Savers, Calls(p)
    PROVE  PhaseInv'
  <1>0. FreeInv /\ \A q \in Savers : SaveInv(q)
    BY DEF Inv, PhaseInv
  <1>1. ASSUME NEW q \in Savers \ {p} PROVE SaveInv(q)'
    <2>1. /\ UNCHANGED <<disk, backup, found, data>>
          /\ pc'[q] = pc[q] /\ i'[q] = i[q] /\ orig'[q] = orig[q]
          /\ naming'[q] = naming[q] /\ image'[q] = image[q] /\ format'[q] = format[q]
      BY CallsTouch
    <2>2. ASSUME NEW k \in 1..Len(naming[q])
          PROVE  /\ BackedUp(q, k) => BackedUp(q, k)'
                 /\ Saved(q, k) => Saved(q, k)'
                 /\ RolledBack(q, k) => RolledBack(q, k)'
      BY <2>1 DEF BackedUp, Saved, RolledBack, New
    <2> QED BY <1>0, <2>1, <2>2 DEF SaveInv
  <1>2. SaveInv(p)'
    <2>1. CASE /\ pc'[p] = "lock" /\ i'[p] = 1
               /\ naming'[p] \in Namings /\ orig'[p] = [s \in Slots |-> <<>>]
      BY <2>1, NamingsDistinct DEF SaveInv, Backing, Saving, Undoing
    <2>2. CASE /\ pc[p] = "lock" /\ pc'[p] \in {"lock", "probe"}
               /\ UNCHANGED <<i, naming, image, format, orig>>
      <3>1. i[p] = 1 /\ \A s \in Slots : orig[p][s] = <<>>
        BY <1>0, <2>2 DEF SaveInv
      <3>2. naming[p] \in Seq(Slots)
        BY DEF Inv, LockInv
      <3>3. ASSUME NEW k \in 1..Len(naming[p]), pc'[p] = "probe" PROVE BackedUp(p, k)'
        <4>1. naming[p][k] \in Slots
          BY <3>2
        <4> QED BY <2>2, <3>1, <3>3, <4>1 DEF BackedUp
      <3> QED BY <1>0, <2>2, <3>1, <3>3 DEF SaveInv, Backing, Saving, Undoing
    <2>3. CASE /\ pc[p] = "unlock" /\ pc'[p] \in {"unlock", "idle"}
               /\ UNCHANGED <<naming, image, format, orig>>
      BY <1>0, <2>3 DEF SaveInv, Backing, Saving, Undoing
    <2> QED BY <2>1, <2>2, <2>3, CallsTouch
  <1>3. FreeInv'
    <2> SUFFICES ASSUME NEW s \in Slots,
                        \A r \in Savers : Unsettled(r)' => s \notin Elems(naming'[r])
                 PROVE  Plain(disk'[s])
      BY DEF FreeInv, Plain
    <2>1. \A r \in Savers : Unsettled(r) => s \notin Elems(naming[r])
      BY CallsTouch DEF Unsettled
    <2> QED BY <1>0, <2>1, CallsTouch DEF FreeInv
  <1> QED BY <1>1, <1>2, <1>3 DEF PhaseInv

LEMMA InvInit == Init => Inv
  <1> SUFFICES ASSUME Init PROVE Inv
    OBVIOUS
  <1>1. ASSUME NEW p \in Savers PROVE SaveInv(p)
    BY DEF Init, SaveInv, Backing, Saving, Undoing
  <1>2. FreeInv
    BY DEF Init, FreeInv, Plain
  <1> QED BY <1>1, <1>2, LockInit, DataInit DEF Inv, PhaseInv

LEMMA InvStep == Assumed /\ Inv /\ [Next]_vars => Inv'
  <1> SUFFICES ASSUME Assumed, Inv, [Next]_vars PROVE Inv'
    OBVIOUS
  <1>1. LockInv' /\ DataInv'
    BY LockStep, DataStep DEF Inv
  <1>2. CASE Next
    BY <1>1, <1>2, StepIs, PhaseWorks, PhaseCalls DEF Inv
  <1>3. CASE UNCHANGED vars
    <2>1. ASSUME NEW p \in Savers PROVE SaveInv(p)'
      <3>1. ASSUME NEW k \in 1..Len(naming[p])
            PROVE  /\ BackedUp(p, k) => BackedUp(p, k)'
                   /\ Saved(p, k) => Saved(p, k)'
                   /\ RolledBack(p, k) => RolledBack(p, k)'
        BY <1>3 DEF vars, locals, ghosts, BackedUp, Saved, RolledBack, New
      <3> QED BY <1>3, <3>1 DEF vars, locals, ghosts, Inv, PhaseInv, SaveInv
    <2>2. FreeInv'
      BY <1>3 DEF vars, locals, Inv, PhaseInv, FreeInv, Plain, Unsettled
    <2> QED BY <1>1, <2>1, <2>2 DEF Inv, PhaseInv
  <1> QED BY <1>2, <1>3

----------------------------------------------------------------------------
(* What those outside see.                                                 *)

\* A slot of a save, before and after a step of that save.
LEMMA SettledOwn ==
    ASSUME Inv, NEW p \in Savers, Working(p), OnlyTouches(p), NEW s \in Elems(naming[p])
    PROVE  /\ Settled(s) = IF Unsettled(p) THEN Held(orig[p][s]) ELSE Only(Content(disk[s]))
           /\ Settled(s)' = IF Unsettled(p)' THEN Held(orig'[p][s])
                                             ELSE Only(Content(disk'[s]))
  <1> DEFINE now  == {q \in Savers : Unsettled(q) /\ s \in Elems(naming[q])}
             next == {q \in Savers : Unsettled(q)' /\ s \in Elems(naming'[q])}
  <1>1. /\ \A q \in Savers \ {p} : q \notin now /\ q \notin next
        /\ naming' = naming
    BY Alone DEF OnlyTouches, Unsettled
  <1>2. /\ now = IF Unsettled(p) THEN {p} ELSE {}
        /\ next = IF Unsettled(p)' THEN {p} ELSE {}
    BY <1>1
  <1>3. /\ Settled(s) = IF now = {} THEN Only(Content(disk[s]))
                        ELSE Held(orig[CHOOSE q \in now : TRUE][s])
        /\ Settled(s)' = IF next = {} THEN Only(Content(disk'[s]))
                         ELSE Held(orig'[CHOOSE q \in next : TRUE][s])
    BY DEF Settled, Held, Only, Content
  <1> HIDE DEF now, next
  <1>4. (CHOOSE q \in {p} : TRUE) = p
    OBVIOUS
  <1> QED BY <1>2, <1>3, <1>4

\* No other slot changes for those outside.
LEMMA SettledElsewhere ==
    ASSUME NEW p \in Savers, OnlyTouches(p), NEW s \in Slots \ Elems(naming[p])
    PROVE  Settled(s)' = Settled(s)
  <1> DEFINE now  == {q \in Savers : Unsettled(q) /\ s \in Elems(naming[q])}
             next == {q \in Savers : Unsettled(q)' /\ s \in Elems(naming'[q])}
             who  == CHOOSE q \in now : TRUE
  <1>1. next = now
    BY DEF OnlyTouches, Unsettled
  <1>2. now # {} => who \in Savers \ {p}
    OBVIOUS
  <1>3. now # {} => orig'[who] = orig[who]
    BY <1>2 DEF OnlyTouches
  <1>4. disk'[s] = disk[s]
    BY DEF OnlyTouches
  <1>5. /\ Settled(s) = IF now = {} THEN Only(Content(disk[s])) ELSE Held(orig[who][s])
        /\ Settled(s)' = IF next = {} THEN Only(Content(disk'[s]))
                         ELSE Held(orig'[CHOOSE q \in next : TRUE][s])
    BY DEF Settled, Held, Only, Content
  <1> HIDE DEF now, next
  <1> QED BY <1>1, <1>3, <1>4, <1>5

\* Nor does any by a call, its locks and their release.
LEMMA SettledCalls ==
    ASSUME Inv, NEW p \in Savers, Calls(p), NEW s \in Slots
    PROVE  Settled(s)' = Settled(s)
  <1> DEFINE now  == {q \in Savers : Unsettled(q) /\ s \in Elems(naming[q])}
             next == {q \in Savers : Unsettled(q)' /\ s \in Elems(naming'[q])}
             who  == CHOOSE q \in now : TRUE
  <1>0. /\ ~Unsettled(p) /\ ~Unsettled(p)' /\ disk' = disk
        /\ \A q \in Savers \ {p} :
              pc'[q] = pc[q] /\ naming'[q] = naming[q] /\ orig'[q] = orig[q]
    BY CallsTouch
  <1>1. next = now
    BY <1>0 DEF Unsettled
  <1>2. now # {} => who \in Savers \ {p}
    BY <1>0
  <1>3. now # {} => orig'[who] = orig[who]
    BY <1>0, <1>2
  <1>5. /\ Settled(s) = IF now = {} THEN Only(Content(disk[s])) ELSE Held(orig[who][s])
        /\ Settled(s)' = IF next = {} THEN Only(Content(disk'[s]))
                         ELSE Held(orig'[CHOOSE q \in next : TRUE][s])
    BY DEF Settled, Held, Only, Content
  <1> HIDE DEF now, next
  <1> QED BY <1>0, <1>1, <1>3, <1>5

\* The state of AtomicSave that this one stands for.
Holds == [s \in Slots |-> Settled(s)]
Calling == [p \in Savers |-> Asked(p)]

LEMMA RefineCalls ==
    ASSUME Inv, NEW p \in Savers, Calls(p)
    PROVE  Outside!Ask(p) \/ UNCHANGED <<Holds, Calling>>
  <1>1. Holds' = Holds
    BY SettledCalls DEF Holds
  <1>2. \A q \in Savers \ {p} : Asked(q)' = Asked(q)
    BY CallsTouch DEF Asked
  <1>3. CASE /\ pc[p] = "idle" /\ pc'[p] = "lock"
             /\ naming'[p] \in Namings /\ image'[p] \in Images
    <2>1. Elems(naming'[p]) \in (SUBSET Slots) \ {{}}
      BY <1>3, NamingsDistinct
    <2>2. Asked(p) = <<>> /\ Asked(p)' = <<Elems(naming'[p]), image'[p]>>
      BY <1>3 DEF Asked, Elems
    <2>3. Calling[p] = <<>>
      BY <2>2 DEF Calling
    <2>4. Calling' = [Calling EXCEPT ![p] = <<Elems(naming'[p]), image'[p]>>]
      BY <1>2, <2>2 DEF Calling
    <2> QED BY <1>1, <1>3, <2>1, <2>3, <2>4 DEF Outside!Ask, Holds, Calling
  <1>4. CASE \/ /\ pc[p] = "lock" /\ pc'[p] \in {"lock", "probe"}
                /\ UNCHANGED <<naming, image>>
             \/ /\ pc[p] = "unlock" /\ pc'[p] \in {"unlock", "idle"}
                /\ UNCHANGED <<naming, image>>
    <2>1. Asked(p)' = Asked(p)
      BY <1>4 DEF Asked, Elems
    <2> QED BY <1>1, <1>2, <2>1 DEF Calling
  <1> QED BY <1>3, <1>4, CallsTouch

\* A call of p that ends with its image in the slots of E.
LEMMA EndsOutside ==
    ASSUME Inv, NEW p \in Savers, Working(p), OnlyTouches(p), pc'[p] = "unlock",
           NEW E \in SUBSET Elems(naming[p]),
           \A s \in Elems(naming[p]) :
              Only(Content(disk'[s])) = IF s \in E THEN image[p] ELSE Settled(s)
    PROVE  Calling[p] = <<Elems(naming[p]), image[p]>> /\ Outside!Ends(p, E)
  <1>1. Asked(p) = <<Elems(naming[p]), image[p]>> /\ Asked(p)' = <<>>
    BY DEF Asked, Working
  <1>2. \A q \in Savers \ {p} : Asked(q)' = Asked(q)
    BY DEF OnlyTouches, Asked, Elems
  <1>3. Calling[p] = <<Elems(naming[p]), image[p]>>
    BY <1>1 DEF Calling
  <1>4. Calling' = [Calling EXCEPT ![p] = <<>>]
    BY <1>1, <1>2 DEF Calling
  <1>5. ASSUME NEW s \in Slots
        PROVE  Settled(s)' = IF s \in E THEN image[p] ELSE Settled(s)
    <2>1. CASE s \in Elems(naming[p])
      BY <2>1, SettledOwn DEF Unsettled
    <2>2. CASE s \notin Elems(naming[p])
      BY <2>2, SettledElsewhere
    <2> QED BY <2>1, <2>2
  <1>6. Holds' = [s \in Slots |-> IF s \in E THEN Calling[p][2] ELSE Holds[s]]
    BY <1>3, <1>5 DEF Holds
  <1> QED BY <1>3, <1>4, <1>6 DEF Outside!Ends, Holds, Calling

LEMMA RefineWorks ==
    ASSUME Assumed, Inv, NEW p \in Savers, Works(p)
    PROVE  Outside!Save(p) \/ Outside!SaveFails(p) \/ UNCHANGED <<Holds, Calling>>
  <1>0. Working(p) /\ OnlyTouches(p) /\ Moved(p) /\ Inv'
    BY StepWorks, InvStep DEF Works, Next, Step
  <1>1. /\ image[p] \in Images /\ format[p] \in Formats
        /\ \A s \in Elems(naming[p]) : orig[p][s] \in Origins /\ orig'[p][s] \in Origins
    <2>1. \A s \in Elems(naming[p]) : s \in Slots
      BY <1>0, Alone
    <2> QED BY <1>0, <2>1, AtName DEF Inv, DataInv, HistoryInv, Origins
  <1>2. Only(Content(NoFiles)) = NoImage /\ Only(Content(New(p))) = image[p]
    BY <1>1, OnlyImage DEF New
  <1>3. ASSUME NEW E \in SUBSET {s \in Elems(naming[p]) : Settled(s) = NoImage},
               pc'[p] = "unlock",
               \A s \in Elems(naming[p]) :
                  Only(Content(disk'[s])) = IF s \in E THEN image[p] ELSE Settled(s)
        PROVE  Outside!SaveFails(p)
    <2>1. Calling[p] = <<Elems(naming[p]), image[p]>> /\ Outside!Ends(p, E)
      BY <1>0, <1>3, EndsOutside
    <2>2. \A s \in E : s \in Slots /\ Holds[s] = NoImage
      BY <1>0, Alone DEF Holds
    <2>3. E \in SUBSET {s \in Calling[p][1] : Holds[s] = NoImage} /\ Calling[p] # <<>>
      BY <2>1, <2>2
    <2> QED BY <2>1, <2>3 DEF Outside!SaveFails, Holds, Calling
  <1>4. ASSUME pc'[p] \in Backing \cup Saving \cup Undoing,
               \A s \in Elems(naming[p]) : Settled(s)' = Settled(s)
        PROVE  UNCHANGED <<Holds, Calling>>
    <2>1. \A s \in Slots : Settled(s)' = Settled(s)
      BY <1>0, <1>4, SettledElsewhere
    <2>2. \A q \in Savers : Asked(q)' = Asked(q)
      BY <1>0, <1>4 DEF OnlyTouches, Asked, Elems, Working, Backing, Saving, Undoing
    <2> QED BY <2>1, <2>2 DEF Holds, Calling
  <1>5. CASE Prepares(p)
    <2>1. ~Unsettled(p)' /\ UNCHANGED disk
      BY <1>5 DEF Prepares, Backing, Unsettled
    <2>2. ASSUME NEW s \in Elems(naming[p])
          PROVE  Settled(s) = Only(Content(disk[s])) /\ Settled(s)' = Settled(s)
      BY <1>0, <1>5, <2>1, SettledOwn DEF Prepares
    <2>3. CASE pc'[p] = "unlock"
      <3> DEFINE E == {}
      <3>1. E \in SUBSET {s \in Elems(naming[p]) : Settled(s) = NoImage}
        OBVIOUS
      <3>2. \A s \in Elems(naming[p]) :
               Only(Content(disk'[s])) = IF s \in E THEN image[p] ELSE Settled(s)
        BY <2>1, <2>2
      <3> HIDE DEF E
      <3> QED BY <1>3, <2>3, <3>1, <3>2
    <2> QED BY <1>4, <1>5, <2>2, <2>3 DEF Prepares
  <1>6. CASE Protects(p)
    <2>1. ~Unsettled(p) /\ Unsettled(p)' /\ pc'[p] \in Saving
      BY <1>6 DEF Protects, Unsettled, Saving
    <2>2. ASSUME NEW s \in Elems(naming[p]) PROVE Settled(s)' = Settled(s)
      <3>1. Only(Content(disk[s])) = Held(orig'[p][s])
        BY <1>1, <1>6, OriginIs DEF Protects
      <3> QED BY <1>0, <2>1, <3>1, SettledOwn
    <2> QED BY <1>4, <2>1, <2>2
  <1>7. CASE Continues(p)
    <2>1. Unsettled(p) /\ Unsettled(p)' /\ UNCHANGED orig
      BY <1>7 DEF Continues
    <2>2. \A s \in Elems(naming[p]) : Settled(s)' = Settled(s)
      BY <1>0, <2>1, SettledOwn
    <2> QED BY <1>4, <2>1, <2>2 DEF Unsettled, Saving, Undoing
  <1>8. CASE Finishes(p)
    <2>1. Calling[p] = <<Elems(naming[p]), image[p]>> /\ Outside!Ends(p, Elems(naming[p]))
      BY <1>0, <1>2, <1>8, EndsOutside DEF Finishes
    <2>2. Calling[p][1] = Elems(naming[p]) /\ Calling[p] # <<>>
      BY <2>1
    <2> QED BY <2>1, <2>2 DEF Outside!Save, Holds, Calling
  <1>9. CASE GivesUp(p)
    <2> DEFINE E == {s \in Elems(naming[p]) : orig[p][s] = <<>> /\ disk'[s] = New(p)}
    <2>1. ASSUME NEW s \in Elems(naming[p]) PROVE Settled(s) = Held(orig[p][s])
      BY <1>0, <1>9, SettledOwn DEF GivesUp
    <2>2. E \in SUBSET {s \in Elems(naming[p]) : Settled(s) = NoImage}
      BY <2>1 DEF Held
    <2>3. ASSUME NEW s \in Elems(naming[p])
          PROVE  Only(Content(disk'[s])) = IF s \in E THEN image[p] ELSE Settled(s)
      <3>1. CASE orig[p][s] = <<>>
        BY <1>2, <1>9, <2>1, <3>1 DEF GivesUp, Held
      <3>2. CASE orig[p][s] # <<>>
        BY <1>1, <1>9, <2>1, <3>2, OriginIs DEF GivesUp
      <3> QED BY <3>1, <3>2
    <2> HIDE DEF E
    <2> QED BY <1>3, <1>9, <2>2, <2>3 DEF GivesUp
  <1> QED BY <1>0, <1>5, <1>6, <1>7, <1>8, <1>9 DEF Moved

LEMMA RefineInit == Init => Outside!Init
  <1> SUFFICES ASSUME Init PROVE Outside!Init
    OBVIOUS
  <1> DEFINE one(s) == Only(Content(disk[s]))
  <1>1. ASSUME NEW s \in Slots
        PROVE  /\ Settled(s) = one(s)
               /\ one(s) = NoImage \/ (one(s) \in Images /\ one(s) \in Content(disk[s]))
    <2>1. Settled(s) = one(s)
      BY DEF Init, Settled, Unsettled, Only, Content
    <2>2. CASE Content(disk[s]) = {}
      <3>1. one(s) = NoImage
        BY <2>2 DEF Only
      <3> QED BY <2>1, <3>1
    <2>3. CASE Content(disk[s]) # {}
      <3>1. one(s) \in Content(disk[s])
        BY <2>3 DEF Only
      <3>2. Content(disk[s]) \subseteq Images
        BY DataInit, FilesTyped DEF DataInv, FilesInv
      <3> QED BY <2>1, <3>1, <3>2
    <2> QED BY <2>2, <2>3
  <1> HIDE DEF one
  <1>2. Holds \in [Slots -> Images \cup {NoImage}]
    BY <1>1 DEF Holds
  <1>3. ASSUME NEW s \in Slots, NEW t \in Slots, s # t, Holds[s] # NoImage
        PROVE  Holds[s] # Holds[t]
    <2>1. Holds[s] = one(s) /\ Holds[t] = one(t)
      BY <1>1 DEF Holds
    <2>2. Content(disk[s]) \cap Content(disk[t]) = {}
      BY <1>3 DEF Init
    <2> QED BY <1>1, <1>3, <2>1, <2>2
  <1>4. Calling = [p \in Savers |-> <<>>]
    BY DEF Init, Calling, Asked
  <1> QED BY <1>2, <1>3, <1>4 DEF Outside!Init, Holds, Calling

\* SaveSlotProtected: seen from outside, a save puts its image into all of its slots
\* at once or leaves every image that was there, however many saves run, whatever
\* slots they share and wherever their backups and writes fail.
THEOREM SavesAtomic ==
    ASSUME Formats \subseteq Probed, Faults \subseteq {"backup", "write"}, MaxDeletes = 0
    PROVE  Spec => SavesAreAtomic
  <1>1. Assumed
    BY DEF Assumed
  <1>2. Inv /\ [Next]_vars => Inv'
    BY <1>1, InvStep
  <1>3. Inv /\ [Next]_vars => [Outside!Next]_(Outside!vars)
    <2> SUFFICES ASSUME Inv, [Next]_vars PROVE [Outside!Next]_(Outside!vars)
      OBVIOUS
    <2>1. CASE Next
      <3>1. PICK p \in Savers : Works(p) \/ Calls(p)
        BY <1>1, <2>1, StepIs
      <3>2. Outside!Ask(p) \/ Outside!Save(p) \/ Outside!SaveFails(p)
               \/ UNCHANGED <<Holds, Calling>>
        BY <1>1, <3>1, RefineWorks, RefineCalls
      <3> QED BY <3>2 DEF Outside!Next, Outside!vars, Holds, Calling
    <2>2. CASE UNCHANGED vars
      <3>1. UNCHANGED <<Holds, Calling>>
        BY <2>2 DEF vars, locals, ghosts, Holds, Calling, Settled, Asked, Unsettled, Only,
                    Content, Elems
      <3> QED BY <3>1 DEF Outside!vars, Holds, Calling
    <2> QED BY <2>1, <2>2
  <1> QED BY <1>2, <1>3, InvInit, RefineInit, PTL DEF Spec, SavesAreAtomic, Outside!Spec

============================================================================
