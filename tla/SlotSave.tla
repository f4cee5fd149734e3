------------------------------ MODULE SlotSave ------------------------------
(***************************************************************************)
(* SaveSlotProtected (internal/image/backup.go): the destructive write of  *)
(* one artist's fanart.  A save locks every slot it will touch, backs each *)
(* one up, writes the new image under every configured name, and puts the  *)
(* originals back if a write fails.  Savers run concurrently; the operator *)
(* deletes slots without taking any of the locks.                          *)
(*                                                                         *)
(* A slot is a base name; its file may be in any of several formats, and   *)
(* the formats are distinct files.  Backups have the same shape.           *)
(***************************************************************************)
EXTENDS Integers, Sequences, FiniteSets

CONSTANTS
    NumSlots,   \* base names are 0..NumSlots-1, in lockSlots' sorted order
    Savers,     \* goroutines that call SaveSlotProtected
    Formats,    \* the extensions in use
    Images,     \* the images there may ever be
    NoImage,    \* what an absent file holds
    Nobody,     \* the owner of a free lock
    MaxDeletes, \* bound on the operator's deletes
    Faults      \* the kinds of step that may fail: see AllFaults

AllFormats == {"jpg", "png", "webp"}
AllFaults  == {"backup", "clean", "write", "restore"}

\* FindExistingImageStrict looks for these beside the configured name, and
\* Save writes these; CleanupConflictingFormats removes every other format.
Probed  == {"jpg", "png"}
Written == {"jpg", "png"}

ASSUME SlotCount    == NumSlots \in Nat \ {0}
ASSUME FormatsKnown == Formats \subseteq AllFormats
ASSUME NoImageIsOne == NoImage \notin Images
ASSUME NobodyIsOne  == Nobody \notin Savers
ASSUME Budgets      == MaxDeletes \in Nat /\ Faults \subseteq AllFaults

Slots    == 0..(NumSlots - 1)
Files    == [Formats -> Images \cup {NoImage}]
NoFiles  == [f \in Formats |-> NoImage]

VARIABLES
    disk,     \* disk[s][f]: the file of slot s in format f
    backup,   \* backup[s][f]: likewise under .sw-backup
    owner,    \* owner[s]: who holds the slot's mutex
    pc,       \* idle, lock, probe, read, store, prune, clean, write,
              \* rclean, rwrite, consume, unlock
    naming,   \* the slots of this save, in naming order
    held,     \* the slots whose mutex this save holds
    i,        \* position in naming
    image,    \* the new image
    format,   \* the format it is written in
    found,    \* the format a probe or a restore has settled on
    data,     \* the bytes read
    outcome,  \* none, saved, aborted, failed, unrestored
    used,     \* images that exist or existed
    deletes,  \* deletes so far
    \* bookkeeping of the properties
    orig,     \* orig[p][s]: <<format, image>> of the original p found, or <<>>
    hit,      \* hit[p]: slots deleted while p held their mutex
    gone,     \* images the operator deleted
    destroyed \* images a save removed while no backup held them

locals == <<pc, naming, held, i, image, format, found, data, outcome>>
ghosts == <<orig, hit, gone, destroyed>>
vars   == <<disk, backup, owner, locals, used, deletes, ghosts>>

Elems(q)    == {q[k] : k \in 1..Len(q)}
Slot(p)     == naming[p][i[p]]
Last(p)     == i[p] = Len(naming[p])
Content(fs) == {fs[f] : f \in Formats} \ {NoImage}

\* The save goes on to the next name, or, after the last one, to the next phase.
Advance(p, same, next) ==
    /\ pc' = [pc EXCEPT ![p] = IF Last(p) THEN next ELSE same]
    /\ i'  = [i EXCEPT ![p] = IF Last(p) THEN 1 ELSE @ + 1]

Goto(p, where)   == pc' = [pc EXCEPT ![p] = where] /\ UNCHANGED i
Ends(p, verdict) == outcome' = [outcome EXCEPT ![p] = verdict]

\* Images of slot s that p's step removes although no backup holds them.
Destroys(p, s, removed) ==
    destroyed' = destroyed \cup (removed \ (Content(backup[s]) \cup {image[p]}))

----------------------------------------------------------------------------
Init ==
    /\ disk \in [Slots -> {NoFiles} \cup
                          {[NoFiles EXCEPT ![f] = c] : f \in Formats, c \in Images}]
    /\ \A s, t \in Slots : s # t => Content(disk[s]) \cap Content(disk[t]) = {}
    /\ used = UNION {Content(disk[s]) : s \in Slots}
    /\ backup = [s \in Slots |-> NoFiles]
    /\ owner = [s \in Slots |-> Nobody]
    /\ pc = [p \in Savers |-> "idle"]
    /\ naming = [p \in Savers |-> <<>>]
    /\ held = [p \in Savers |-> {}]
    /\ i = [p \in Savers |-> 1]
    /\ image = [p \in Savers |-> NoImage]
    /\ format = [p \in Savers |-> "jpg"]
    /\ found = [p \in Savers |-> "jpg"]
    /\ data = [p \in Savers |-> NoImage]
    /\ outcome = [p \in Savers |-> "none"]
    /\ deletes = 0
    /\ orig = [p \in Savers |-> [s \in Slots |-> <<>>]]
    /\ hit = [p \in Savers |-> {}]
    /\ gone = {} /\ destroyed = {}

\* A call with a new image and a list of distinct plain names.  protectedSlotNames
\* keeps the order of the naming profile, which two callers may see differently.
Namings == UNION {{q \in [1..n -> Slots] : \A j, k \in 1..n : q[j] = q[k] => j = k}
                  : n \in 1..NumSlots}

Begin(p) ==
    /\ pc[p] = "idle"
    /\ \E q \in Namings, c \in Images \ used, f \in Written \cap Formats :
         /\ naming' = [naming EXCEPT ![p] = q]
         /\ image' = [image EXCEPT ![p] = c]
         /\ format' = [format EXCEPT ![p] = f]
         /\ used' = used \cup {c}
    /\ pc' = [pc EXCEPT ![p] = "lock"]
    /\ i' = [i EXCEPT ![p] = 1]
    /\ Ends(p, "none")
    /\ orig' = [orig EXCEPT ![p] = [s \in Slots |-> <<>>]]
    /\ hit' = [hit EXCEPT ![p] = {}]
    /\ UNCHANGED <<disk, backup, owner, held, found, data, deletes, gone, destroyed>>

Take(p, s) ==
    /\ owner[s] = Nobody
    /\ owner' = [owner EXCEPT ![s] = p]
    /\ held' = [held EXCEPT ![p] = @ \cup {s}]
    /\ pc' = [pc EXCEPT ![p] = IF held'[p] = Elems(naming[p]) THEN "probe" ELSE "lock"]
    /\ UNCHANGED <<disk, backup, naming, i, image, format, found, data, outcome, used,
                   deletes, ghosts>>

\* (variant) The mutexes are taken in the order of the naming profile.
LockInNamingOrder(p) ==
    /\ pc[p] = "lock"
    /\ \E k \in 1..Len(naming[p]) :
         /\ naming[p][k] \notin held[p]
         /\ \A j \in 1..(k - 1) : naming[p][j] \in held[p]
         /\ Take(p, naming[p][k])

\* (variant) Only the first name's mutex is taken.
LockFirstOnly(p) ==
    /\ pc[p] = "lock"
    /\ owner[naming[p][1]] = Nobody
    /\ owner' = [owner EXCEPT ![naming[p][1]] = p]
    /\ held' = [held EXCEPT ![p] = {naming[p][1]}]
    /\ pc' = [pc EXCEPT ![p] = "probe"]
    /\ UNCHANGED <<disk, backup, naming, i, image, format, found, data, outcome, used,
                   deletes, ghosts>>

\* lockSlots: the mutexes are taken one by one in sorted order.
Lock(p) ==
    /\ pc[p] = "lock"
    /\ \E s \in Elems(naming[p]) \ held[p] :
         /\ \A t \in Elems(naming[p]) \ held[p] : s <= t
         /\ Take(p, s)

----------------------------------------------------------------------------
(* BackupSlot, for each name in turn.                                      *)

\* (variant) A name is taken for found whatever its stat says.
ProbeTakesAbsent(p) ==
    /\ pc[p] = "probe"
    /\ \E f \in Probed \cap Formats :
          /\ found' = [found EXCEPT ![p] = f]
          /\ orig' = [orig EXCEPT ![p][Slot(p)] = <<f, disk[Slot(p)][f]>>]
    /\ Goto(p, "read")
    /\ UNCHANGED <<disk, backup, owner, naming, held, image, format, data, outcome, used,
                   deletes, hit, gone, destroyed>>

\* The probe of the configured name and its alternates, which finds any one of
\* them; with no original, a stale backup of the slot is dropped.
Probe(p) ==
    /\ pc[p] = "probe"
    /\ LET s == Slot(p)
           there == {f \in Probed \cap Formats : disk[s][f] # NoImage} IN
       \/ /\ there = {}
          /\ backup' = [backup EXCEPT ![s] = NoFiles]
          /\ Advance(p, "probe", "clean")
          /\ UNCHANGED <<found, orig>>
       \/ \E f \in there :
          /\ found' = [found EXCEPT ![p] = f]
          /\ orig' = [orig EXCEPT ![p][s] = <<f, disk[s][f]>>]
          /\ Goto(p, "read")
          /\ UNCHANGED backup
    /\ UNCHANGED <<disk, owner, naming, held, image, format, data, outcome, used, deletes,
                   hit, gone, destroyed>>

\* The bounded read.  A file that vanished since the probe needs no backup.
Read(p) ==
    /\ pc[p] = "read"
    /\ LET bytes == disk[Slot(p)][found[p]] IN
       IF bytes = NoImage
       THEN Advance(p, "probe", "clean") /\ UNCHANGED data
       ELSE data' = [data EXCEPT ![p] = bytes] /\ Goto(p, "store")
    /\ UNCHANGED <<disk, backup, owner, naming, held, image, format, found, outcome, used,
                   deletes, ghosts>>

\* WriteFileAtomic of the backup.
Store(p) ==
    /\ pc[p] = "store"
    /\ backup' = [backup EXCEPT ![Slot(p)][found[p]] = data[p]]
    /\ Goto(p, "prune")
    /\ UNCHANGED <<disk, owner, naming, held, image, format, found, data, outcome, used,
                   deletes, ghosts>>

\* (variant) The prune does not spare the backup just taken.
PruneKeepsNothing(p) ==
    /\ pc[p] = "prune"
    /\ backup' = [backup EXCEPT ![Slot(p)] = NoFiles]
    /\ Advance(p, "probe", "clean")
    /\ UNCHANGED <<disk, owner, naming, held, image, format, found, data, outcome, used,
                   deletes, ghosts>>

\* pruneSlotBackups: only the backup just taken remains.
Prune(p) ==
    /\ pc[p] = "prune"
    /\ backup' = [backup EXCEPT ![Slot(p)] = [NoFiles EXCEPT ![found[p]] = data[p]]]
    /\ Advance(p, "probe", "clean")
    /\ UNCHANGED <<disk, owner, naming, held, image, format, found, data, outcome, used,
                   deletes, ghosts>>

\* Any failure of the backup aborts the save before anything is written.
Abort(p) ==
    /\ pc[p] \in {"probe", "read", "store", "prune"} /\ "backup" \in Faults
    /\ Goto(p, "unlock")
    /\ Ends(p, "aborted")
    /\ UNCHANGED <<disk, backup, owner, naming, held, image, format, found, data, used,
                   deletes, ghosts>>

----------------------------------------------------------------------------
(* Save, for each name in turn.                                            *)

\* CleanupConflictingFormats: the files in formats other than f are removed one
\* after the other, and the first failure ends the clean-up with some of them
\* left (stay).  It is a warning: the write goes on beside what is left.
CleanConflicts(p, f) ==
    LET s == Slot(p)
        Left(stay) == [g \in Formats |-> IF g \in stay \cup {f} THEN disk[s][g] ELSE NoImage]
    IN  \E stay \in (IF "clean" \in Faults THEN SUBSET (Formats \ {f}) ELSE {{}}) :
            /\ disk' = [disk EXCEPT ![s] = Left(stay)]
            /\ Destroys(p, s, Content(disk[s]) \ Content(Left(stay)))

Clean(p) ==
    /\ pc[p] = "clean"
    /\ CleanConflicts(p, format[p])
    /\ Goto(p, "write")
    /\ UNCHANGED <<backup, owner, naming, held, image, format, found, data, outcome, used,
                   deletes, orig, hit, gone>>

Write(p) ==
    /\ pc[p] = "write"
    /\ disk' = [disk EXCEPT ![Slot(p)][format[p]] = image[p]]
    /\ Destroys(p, Slot(p), {disk[Slot(p)][format[p]]} \ {NoImage})
    /\ Advance(p, "clean", "unlock")
    /\ outcome' = [outcome EXCEPT ![p] = IF Last(p) THEN "saved" ELSE @]
    /\ UNCHANGED <<backup, owner, naming, held, image, format, found, data, used, deletes,
                   orig, hit, gone>>

\* Save fails: at the write of a name, or before the first name, when the format
\* of the new image cannot be detected.
SaveStops(p) ==
    /\ pc[p] = "write" \/ (pc[p] = "clean" /\ i[p] = 1)
    /\ "write" \in Faults

\* (variant) The rollback starts at the name that failed.
WriteFailsRestoreRest(p) ==
    /\ SaveStops(p)
    /\ Goto(p, "restore")
    /\ Ends(p, "failed")
    /\ UNCHANGED <<disk, backup, owner, naming, held, image, format, found, data, used,
                   deletes, ghosts>>

\* However Save has failed, every protected name is rolled back.
WriteFails(p) ==
    /\ SaveStops(p)
    /\ pc' = [pc EXCEPT ![p] = "restore"]
    /\ i' = [i EXCEPT ![p] = 1]
    /\ Ends(p, "failed")
    /\ UNCHANGED <<disk, backup, owner, naming, held, image, format, found, data, used,
                   deletes, ghosts>>

----------------------------------------------------------------------------
(* RestoreSlot, for each name in turn.                                     *)

\* Locate the slot's backup and read it; a slot without one lost nothing.
Restore(p) ==
    /\ pc[p] = "restore"
    /\ LET s == Slot(p)
           there == {f \in Formats : backup[s][f] # NoImage} IN
       \/ /\ there = {}
          /\ Advance(p, "restore", "unlock")
          /\ UNCHANGED <<found, data>>
       \/ \E f \in there :
          /\ found' = [found EXCEPT ![p] = f]
          /\ data' = [data EXCEPT ![p] = backup[s][f]]
          /\ Goto(p, "rclean")
    /\ UNCHANGED <<disk, backup, owner, naming, held, image, format, outcome, used, deletes,
                   ghosts>>

\* Save of the backup under its own name: first the other formats go.
RestoreClean(p) ==
    /\ pc[p] = "rclean"
    /\ CleanConflicts(p, found[p])
    /\ Goto(p, "rwrite")
    /\ UNCHANGED <<backup, owner, naming, held, image, format, found, data, outcome, used,
                   deletes, orig, hit, gone>>

RestoreWrite(p) ==
    /\ pc[p] = "rwrite"
    /\ disk' = [disk EXCEPT ![Slot(p)][found[p]] = data[p]]
    /\ Destroys(p, Slot(p), {disk[Slot(p)][found[p]]} \ {NoImage})
    /\ Goto(p, "consume")
    /\ UNCHANGED <<backup, owner, naming, held, image, format, found, data, outcome, used,
                   deletes, orig, hit, gone>>

\* A failed restore is reported; the other names are still restored.
RestoreFails(p) ==
    /\ pc[p] \in {"restore", "rclean", "rwrite"} /\ "restore" \in Faults
    /\ Advance(p, "restore", "unlock")
    /\ Ends(p, "unrestored")
    /\ UNCHANGED <<disk, backup, owner, naming, held, image, format, found, data, used,
                   deletes, ghosts>>

\* A restored backup is consumed; failing to remove it is only a warning.
Consume(p) ==
    /\ pc[p] = "consume"
    /\ \/ backup' = [backup EXCEPT ![Slot(p)] = NoFiles]
       \/ "restore" \in Faults /\ UNCHANGED backup
    /\ Advance(p, "restore", "unlock")
    /\ UNCHANGED <<disk, owner, naming, held, image, format, found, data, outcome, used,
                   deletes, ghosts>>

\* The deferred release, in reverse order.
Unlock(p) ==
    /\ pc[p] = "unlock"
    /\ \E s \in held[p] :
         /\ \A t \in held[p] : t <= s
         /\ owner' = [owner EXCEPT ![s] = Nobody]
         /\ held' = [held EXCEPT ![p] = @ \ {s}]
         /\ pc' = [pc EXCEPT ![p] = IF held'[p] = {} THEN "idle" ELSE "unlock"]
         /\ i' = [i EXCEPT ![p] = 1]
    /\ UNCHANGED <<disk, backup, naming, image, format, found, data, outcome, used, deletes,
                   ghosts>>

----------------------------------------------------------------------------
\* handleFanartSlotDelete unlinks a file and takes no slot mutex.
Delete(s, f) ==
    /\ deletes < MaxDeletes
    /\ disk[s][f] # NoImage
    /\ disk' = [disk EXCEPT ![s][f] = NoImage]
    /\ deletes' = deletes + 1
    /\ gone' = gone \cup {disk[s][f]}
    /\ hit' = [p \in Savers |-> IF owner[s] = p THEN hit[p] \cup {s} ELSE hit[p]]
    /\ UNCHANGED <<backup, owner, locals, used, orig, destroyed>>

Step(p) ==
    \/ Lock(p) \/ Probe(p) \/ Read(p) \/ Store(p) \/ Prune(p) \/ Abort(p)
    \/ Clean(p) \/ Write(p) \/ WriteFails(p)
    \/ Restore(p) \/ RestoreClean(p) \/ RestoreWrite(p) \/ RestoreFails(p) \/ Consume(p)
    \/ Unlock(p)

Next ==
    \/ \E p \in Savers : Begin(p) \/ Step(p)
    \/ \E s \in Slots, f \in Formats : Delete(s, f)

Spec == Init /\ [][Next]_vars

\* A call to SaveSlotProtected runs to its end on its own goroutine, and a mutex
\* that stays free is eventually taken by one that waits for it.
FairSpec == Spec /\ \A p \in Savers : WF_vars(Step(p))

----------------------------------------------------------------------------
(* Properties.                                                             *)

Working(p) == pc[p] \notin {"idle", "lock", "unlock"}

\* Types.
TypeOK ==
    /\ disk \in [Slots -> Files] /\ backup \in [Slots -> Files]
    /\ owner \in [Slots -> Savers \cup {Nobody}]
    /\ pc \in [Savers -> {"idle", "lock", "probe", "read", "store", "prune", "clean",
                          "write", "restore", "rclean", "rwrite", "consume", "unlock"}]
    /\ naming \in [Savers -> Seq(Slots)]
    /\ held \in [Savers -> SUBSET Slots]
    /\ i \in [Savers -> 1..NumSlots]
    /\ image \in [Savers -> Images \cup {NoImage}]
    /\ format \in [Savers -> Written] /\ found \in [Savers -> AllFormats]
    /\ data \in [Savers -> Images \cup {NoImage}]
    /\ outcome \in [Savers -> {"none", "saved", "aborted", "failed", "unrestored"}]
    /\ used \subseteq Images /\ gone \subseteq Images /\ destroyed \subseteq Images
    /\ deletes \in 0..MaxDeletes
    /\ hit \in [Savers -> SUBSET Slots]
    /\ orig \in [Savers -> [Slots -> {<<>>} \cup (Formats \X Images)]]

\* Two saves that are past their locks never have a slot in common, whatever the
\* overlap of their naming lists (slotMu, lockSlots).
SlotsAreExclusive ==
    \A p, q \in Savers :
        p # q /\ Working(p) /\ Working(q)
            => Elems(naming[p]) \cap Elems(naming[q]) = {}

\* No image disappears from a slot unless its backup is on the disk at that moment,
\* so a crash at any point of a save can be recovered by hand.  (The image being
\* saved itself may disappear: that is the rollback.)
NothingDestroyed == destroyed = {}

\* A save that fails and reports no failed rollback leaves every slot that had an
\* image as it found it, unless the operator deleted the file meanwhile.
FailedSaveRestores ==
    [][\A p \in Savers :
          pc'[p] = "unlock" /\ pc[p] # "unlock" /\ outcome'[p] \in {"failed", "aborted"} =>
             \A s \in Elems(naming[p]) \ hit[p] :
                 orig[p][s] # <<>> => disk'[s][orig[p][s][1]] = orig[p][s][2]]_vars

\* Every call returns: savers whose naming lists overlap in any order do not
\* deadlock (lockSlots' sorted acquisition).
EverySaveReturns == \A p \in Savers : pc[p] = "lock" ~> pc[p] = "idle"

\* What a slot holds for those outside: until a save that is past its backups has
\* ended, what it found there, and otherwise what is on the disk.
Unsettled(p) == pc[p] \in {"clean", "write", "restore", "rclean", "rwrite", "consume"}

Only(images) == IF images = {} THEN NoImage ELSE CHOOSE c \in images : TRUE

Settled(s) ==
    LET savers == {p \in Savers : Unsettled(p) /\ s \in Elems(naming[p])} IN
    IF savers = {} THEN Only(Content(disk[s]))
    ELSE LET o == orig[CHOOSE p \in savers : TRUE][s] IN
         IF o = <<>> THEN NoImage ELSE o[2]

Asked(p) ==
    IF pc[p] \in {"idle", "unlock"} THEN <<>> ELSE <<Elems(naming[p]), image[p]>>

Outside == INSTANCE AtomicSave WITH
    holds <- [s \in Slots |-> Settled(s)],
    asked <- [p \in Savers |-> Asked(p)]

\* Seen from outside, concurrent saves whose writes fail at any point are atomic
\* (SaveSlotProtected: "preserve every original, restore on failure").
SavesAreAtomic == Outside!Spec

\* What the code does not give: "a later failed save cannot roll back to an image
\* the user has deleted", or one replaced before that.
RestoresOnlyItsOriginal ==
    \A p \in Savers :
        pc[p] = "rwrite" => orig[p][Slot(p)] # <<>> /\ data[p] = orig[p][Slot(p)][2]

=============================================================================
