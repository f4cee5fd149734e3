---------------------------- MODULE ArtworkPush ----------------------------
(***************************************************************************)
(* One artist's artwork of one type, held in numbered local files, while   *)
(*                                                                         *)
(*   - the publisher pushes it to platform peers and afterwards repairs    *)
(*     what the peers did to the local files                               *)
(*     (internal/publish/publisher.go),                                    *)
(*   - the operator saves, deletes, reverts and reorders the same files    *)
(*     (internal/api/handlers_image.go, handlers_backdrop.go), a delete    *)
(*     announcing itself with a marker (internal/image/delete_intent.go)   *)
(*     and then renumbering the survivors (internal/image/fanart.go),      *)
(*   - the peers delete or overwrite local files, possibly late.           *)
(*                                                                         *)
(* Nothing serialises the three.  Slot 0 alone models the single-file      *)
(* types (thumb, logo, banner); several slots model fanart.  File contents *)
(* are artworks, members of Art; NoFile is an absent file.                 *)
(***************************************************************************)
EXTENDS Integers, Sequences, FiniteSets

CONSTANTS
    NumSlots,    \* number of file names: slots are 0..NumSlots-1
    Art,         \* the artworks an operator may ever save
    NoFile,      \* what an absent file holds
    PeerBytes,   \* what a peer leaves behind when it overwrites a file
    Pushes,      \* the pushes, each of which runs once
    Peers,       \* the platform connections mapped to the artist
    Kinds,       \* the operator requests there are
    MaxTime,     \* bound on the clock
    MaxDamage,   \* bound on what the peers do to local files
    PushWindow,  \* longest a push stays in flight, in ticks
    Retention,   \* DeleteIntentRetention, in ticks
    IOMayFail    \* whether a read, write, unlink or rename may fail on its own

AllKinds == {"save", "delete", "deleteAll", "revert", "reorder"}

\* The handlers that call MarkDeleteIntent before they touch a file.
MarkingKinds == {"delete", "deleteAll"}

ASSUME SlotsAssumption  == NumSlots \in Nat \ {0}
ASSUME KindsAssumption  == Kinds \subseteq AllKinds
ASSUME BoundsAssumption == MaxTime \in Nat /\ MaxDamage \in Nat
ASSUME IOAssumption     == IOMayFail \in BOOLEAN

\* No two of the special contents are equal, and none is an artwork.
ASSUME ContentAssumption ==
    /\ NoFile \notin Art
    /\ PeerBytes \notin Art
    /\ NoFile # PeerBytes

\* delete_intent.go derives the retention from the push window: it is chosen
\* ten times as long, so that a marker outlives every push it concerns.
ASSUME WindowAssumption ==
    PushWindow \in Nat /\ Retention \in Nat /\ PushWindow <= Retention

Slots    == 0..(NumSlots - 1)
Contents == Art \cup {NoFile, PeerBytes}
NoMark   == -1

VARIABLES
    \* the disk, and the process-wide marker
    file,      \* file[s]: what slot s holds
    temp,      \* temp[i]: the i-th staged temporary of a renumber or reorder
    now,       \* the clock
    marker,    \* the time of the last MarkDeleteIntent, or NoMark
    \* the operator's request
    opPc,      \* idle, mark, unlink, stage, place, retract, unstage
    opKind,    \* which handler runs
    doomed,    \* slots it still has to unlink
    order,     \* the files it will renumber, in their new order
    idx,       \* position in order
    staged,    \* how many renames a rollback has to undo
    \* the pushes
    pc,        \* idle, discover, capture, upload, verify, gate, restore, settle, done
    at,        \* pushScope.at: when the push began
    todo,      \* slots discovered and not yet captured
    snap,      \* the captured bytes, NoFile where none were captured
    peersLeft, \* peers this push has still to offer the artwork
    reached,   \* uploadedTo: peers an upload was attempted on
    pass,      \* repair pass: 0 before the repair, then 1 and 2
    cursor,    \* next slot of the pass
    why,       \* the branch that led to a restore
    \* bookkeeping of the environment and of the properties
    used,      \* artworks saved so far, so that a save is a new one
    damage,    \* how often peers touched a file
    vacated,   \* vacated[p]: slots the operator emptied during push p
    raced,     \* raced[p]: push p began, or had passed the gate, mid-delete
    excused,   \* excused[p]: slots push p is not answerable for
    settleSaved, \* settleSaved[p]: slots saved during p's settle, and still there
    discarded  \* artworks the operator deleted or saved over

diskVars  == <<file, temp>>
clockVars == <<now, marker>>
opVars    == <<opPc, opKind, doomed, order, idx, staged>>
pushVars  == <<pc, at, todo, snap, peersLeft, reached, pass, cursor, why>>
ghostVars == <<vacated, raced, excused, settleSaved, discarded>>
vars == <<diskVars, clockVars, opVars, pushVars, used, damage, ghostVars>>

Occupied    == {s \in Slots : file[s] # NoFile}
InFlight    == {p \in Pushes : pc[p] \notin {"idle", "done"}}
MarkedPhase == opKind \in MarkingKinds /\ opPc \notin {"idle", "mark"}

\* NextFanartIndex: the next image goes after the last one.
NextSlot == {s \in Slots : /\ \A t \in Occupied : t < s
                           /\ s = 0 \/ s - 1 \in Occupied}

\* (variant) A marker in the same tick as the baseline is taken for an older one.
DeleteIntentStrictlyAfter(since) ==
    /\ marker # NoMark
    /\ now - marker <= Retention
    /\ marker > since

\* DeleteIntentAfter: a retained marker at or after the caller's baseline.
DeleteIntentAfter(since) ==
    /\ marker # NoMark
    /\ now - marker <= Retention
    /\ marker >= since

----------------------------------------------------------------------------
(* Bookkeeping shared by the actions.                                      *)

Captured(p, s) == p \in InFlight /\ snap[p][s] # NoFile

\* The operator empties slot s: every push in flight must respect that, and one
\* that has already decided to write s can no longer know.
OperatorEmpties(s) ==
    /\ vacated' = [p \in Pushes |-> IF p \in InFlight THEN vacated[p] \cup {s}
                                    ELSE vacated[p]]
    /\ raced' = [p \in Pushes |-> raced[p] \/ (pc[p] = "restore" /\ cursor[p] = s)]
    /\ excused' = [p \in Pushes |-> IF Captured(p, s) THEN excused[p] \cup {s}
                                    ELSE excused[p]]
    /\ settleSaved' = [p \in Pushes |-> settleSaved[p] \ {s}]

\* Slot s is filled by an actor other than the pushes in except.
Fills(s, except) ==
    /\ vacated' = [p \in Pushes |-> vacated[p] \ {s}]
    /\ excused' = [p \in Pushes |-> IF Captured(p, s) /\ p \notin except
                                    THEN excused[p] \cup {s} ELSE excused[p]]
    /\ UNCHANGED raced

Unlinked(s) == discarded' = discarded \cup ({file[s]} \cap Art)

----------------------------------------------------------------------------
(* The clock.  A push that outlives PushWindow is outside the model.       *)

Tick ==
    /\ now < MaxTime
    /\ \A p \in InFlight : now + 1 - at[p] <= PushWindow
    /\ now' = now + 1
    /\ UNCHANGED <<diskVars, marker, opVars, pushVars, used, damage, ghostVars>>

----------------------------------------------------------------------------
(* The operator.                                                           *)

\* A save promotes new bytes onto an existing slot or appends one.
OpSave(s, c) ==
    /\ "save" \in Kinds
    /\ s \in Occupied \cup NextSlot
    /\ c \in Art \ used
    /\ file' = [file EXCEPT ![s] = c]
    /\ used' = used \cup {c}
    /\ Fills(s, {})
    /\ Unlinked(s)
    /\ settleSaved' = [p \in Pushes |-> IF pc[p] = "settle" THEN settleSaved[p] \cup {s}
                                        ELSE settleSaved[p]]
    /\ UNCHANGED <<temp, clockVars, opVars, pushVars, damage>>

\* Every way of listing the slots in S once each.
Listings(S) ==
    {o \in [1..Cardinality(S) -> S] :
        \A i, j \in 1..Cardinality(S) : o[i] = o[j] => i = j}
Ascending(o) == \A i, j \in DOMAIN o : i < j => o[i] < o[j]

\* The discovery that opens a request: the slots to unlink, then the survivors.
OpBegin(kind, doom, ord, first) ==
    /\ opPc = "idle"
    /\ kind \in Kinds
    /\ opKind' = kind
    /\ doomed' = doom
    /\ order'  = ord
    /\ idx'    = 1
    /\ staged' = 0
    /\ opPc'   = first
    /\ UNCHANGED <<diskVars, clockVars, pushVars, used, damage, ghostVars>>

\* The handler returns, and its local variables are gone.
OpReturn ==
    /\ opPc'   = "idle"
    /\ opKind' = "delete"
    /\ order'  = <<>>
    /\ idx'    = 1
    /\ staged' = 0

\* handleFanartSlotDelete (one slot) and handleFanartBatchDelete (several).
OpDelete == \E doom \in SUBSET Occupied \ {{}} :
              \E ord \in Listings(Occupied \ doom) :
                 Ascending(ord) /\ OpBegin("delete", doom, ord, "mark")

\* handleDeleteImage: every file of the type, and nothing to renumber.
OpDeleteAll == Occupied # {} /\ OpBegin("deleteAll", Occupied, <<>>, "mark")

\* handleImageRevert drops the newest slot, and marks nothing.
OpRevert == \E newest \in Occupied :
              /\ \A s \in Occupied : s <= newest
              /\ Cardinality(Occupied) >= 2
              /\ OpBegin("revert", {newest}, <<>>, "unlink")

\* handleFanartReorder permutes the files, and marks nothing.
OpReorder == \E ord \in Listings(Occupied) :
               /\ Occupied # {}
               /\ OpBegin("reorder", {}, ord, "stage")

\* (variant) A delete handler that does not call MarkDeleteIntent.
OpMarkForgotten ==
    /\ opPc = "mark"
    /\ opPc' = "unlink"
    /\ UNCHANGED <<diskVars, clockVars, opKind, doomed, order, idx, staged,
                   pushVars, used, damage, ghostVars>>

\* MarkDeleteIntent, immediately before the filesystem is touched.
OpMark ==
    /\ opPc = "mark"
    /\ marker' = now
    /\ opPc' = "unlink"
    /\ UNCHANGED <<diskVars, now, opKind, doomed, order, idx, staged,
                   pushVars, used, damage, ghostVars>>

OpUnlink(s) ==
    /\ opPc = "unlink" /\ s \in doomed
    /\ file[s] # NoFile
    /\ file' = [file EXCEPT ![s] = NoFile]
    /\ doomed' = doomed \ {s}
    /\ OperatorEmpties(s)
    /\ Unlinked(s)
    /\ UNCHANGED <<temp, clockVars, opPc, opKind, order, idx, staged,
                   pushVars, used, damage>>

\* A failed unlink is reported, and the survivors are then left as they are.
OpUnlinkFails(s) ==
    /\ opPc = "unlink" /\ s \in doomed
    /\ file[s] = NoFile \/ IOMayFail
    /\ doomed' = doomed \ {s}
    /\ order'  = <<>>
    /\ UNCHANGED <<diskVars, clockVars, opPc, opKind, idx, staged,
                   pushVars, used, damage, ghostVars>>

OpRenumber ==
    /\ opPc = "unlink" /\ doomed = {} /\ order # <<>>
    /\ opPc' = "stage"
    /\ UNCHANGED <<diskVars, clockVars, opKind, doomed, order, idx, staged,
                   pushVars, used, damage, ghostVars>>

\* Nothing to renumber, or RenumberFanart refused (the hash invalidation or the
\* quarantine of an old temporary failed) before it moved a file.
OpFinish ==
    /\ opPc = "unlink" /\ doomed = {}
    /\ order = <<>> \/ IOMayFail
    /\ OpReturn
    /\ UNCHANGED <<diskVars, clockVars, doomed, pushVars, used, damage, ghostVars>>

\* Phase 1: rename the next file, in the new order, to its temporary name.
OpStage ==
    /\ opPc = "stage"
    /\ file[order[idx]] # NoFile
    /\ temp' = [temp EXCEPT ![idx] = file[order[idx]]]
    /\ file' = [file EXCEPT ![order[idx]] = NoFile]
    /\ IF idx = Len(order) THEN opPc' = "place" /\ idx' = 1
                           ELSE opPc' = "stage" /\ idx' = idx + 1
    /\ OperatorEmpties(order[idx])
    /\ UNCHANGED <<clockVars, opKind, doomed, order, staged, pushVars, used, damage,
                   discarded>>

\* A rename of phase 1 fails, at the latest when its file has vanished: the
\* rollback begins, if anything was staged.
OpStageFails ==
    /\ opPc = "stage"
    /\ file[order[idx]] = NoFile \/ IOMayFail
    /\ IF idx = 1
       THEN OpReturn
       ELSE /\ opPc' = "unstage" /\ idx' = 1 /\ staged' = idx - 1
            /\ UNCHANGED <<opKind, order>>
    /\ UNCHANGED <<diskVars, clockVars, doomed, pushVars, used, damage, ghostVars>>

\* A reorder clears the temporary name before each rename, and when that fails
\* it answers without a rollback: what was staged stays under temporary names.
\* A renumber clears the names, by a quarantine, before it moves any file.
OpStageBlocked ==
    /\ opPc = "stage" /\ opKind = "reorder" /\ IOMayFail
    /\ OpReturn
    /\ UNCHANGED <<diskVars, clockVars, doomed, pushVars, used, damage, ghostVars>>

\* Phase 2: rename the next temporary to its contiguous final name.
OpPlace ==
    /\ opPc = "place"
    /\ temp[idx] # NoFile
    /\ file' = [file EXCEPT ![idx - 1] = temp[idx]]
    /\ temp' = [temp EXCEPT ![idx] = NoFile]
    /\ IF idx = Len(order)
       THEN OpReturn
       ELSE idx' = idx + 1 /\ UNCHANGED <<opPc, opKind, order, staged>>
    /\ Fills(idx - 1, {})
    /\ UNCHANGED <<clockVars, doomed, pushVars, used, damage, settleSaved, discarded>>

\* A rename of phase 2 fails: the files already placed go back to their
\* temporary names first, then every temporary to the name its file had.
OpPlaceFails ==
    /\ opPc = "place"
    /\ temp[idx] = NoFile \/ IOMayFail
    /\ idx' = 1
    /\ IF idx = 1 THEN opPc' = "unstage" /\ staged' = Len(order)
                  ELSE opPc' = "retract" /\ staged' = idx - 1
    /\ UNCHANGED <<diskVars, clockVars, opKind, doomed, order,
                   pushVars, used, damage, ghostVars>>

\* A rename of either rollback may fail in its turn, surely when its source is
\* gone.  The failure is only noted, and the rollback goes on to the next file.
OpRetract ==
    /\ opPc = "retract"
    /\ IF idx = staged THEN opPc' = "unstage" /\ idx' = 1 /\ staged' = Len(order)
                       ELSE idx' = idx + 1 /\ UNCHANGED <<opPc, staged>>
    /\ \/ /\ file[idx - 1] # NoFile
          /\ temp' = [temp EXCEPT ![idx] = file[idx - 1]]
          /\ file' = [file EXCEPT ![idx - 1] = NoFile]
          /\ OperatorEmpties(idx - 1)
       \/ /\ file[idx - 1] = NoFile \/ IOMayFail
          /\ UNCHANGED <<diskVars, vacated, raced, excused, settleSaved>>
    /\ UNCHANGED <<clockVars, opKind, doomed, order, pushVars, used, damage, discarded>>

OpUnstage ==
    /\ opPc = "unstage"
    /\ IF idx = staged
       THEN OpReturn
       ELSE idx' = idx + 1 /\ UNCHANGED <<opPc, opKind, order, staged>>
    /\ \/ /\ temp[idx] # NoFile
          /\ file' = [file EXCEPT ![order[idx]] = temp[idx]]
          /\ temp' = [temp EXCEPT ![idx] = NoFile]
          /\ Fills(order[idx], {})
       \/ /\ temp[idx] = NoFile \/ IOMayFail
          /\ UNCHANGED <<diskVars, vacated, raced, excused>>
    /\ UNCHANGED <<clockVars, doomed, pushVars, used, damage, settleSaved, discarded>>

----------------------------------------------------------------------------
(* A push: syncImageToPlatforms and syncAllFanartToPlatforms.              *)

PushFrame == UNCHANGED <<temp, clockVars, opVars, used, damage>>

\* Entry: the baseline is stamped before anything else happens.
PushStart(p) ==
    /\ pc[p] = "idle"
    /\ pc' = [pc EXCEPT ![p] = "discover"]
    /\ at' = [at EXCEPT ![p] = now]
    /\ todo' = [todo EXCEPT ![p] = {}]
    /\ snap' = [snap EXCEPT ![p] = [s \in Slots |-> NoFile]]
    /\ peersLeft' = [peersLeft EXCEPT ![p] = Peers]
    /\ reached' = [reached EXCEPT ![p] = {}]
    /\ pass' = [pass EXCEPT ![p] = 0]
    /\ cursor' = [cursor EXCEPT ![p] = 0]
    /\ vacated' = [vacated EXCEPT ![p] = {}]
    /\ raced' = [raced EXCEPT ![p] = MarkedPhase /\ now > marker]
    /\ excused' = [excused EXCEPT ![p] = {}]
    /\ settleSaved' = [settleSaved EXCEPT ![p] = {}]
    /\ UNCHANGED <<file, why, discarded>> /\ PushFrame

\* The prologue ends with a listing of the directory; an empty one, or any
\* failure of a lookup, ends the push.
PushDiscover(p) ==
    /\ pc[p] = "discover"
    /\ \/ /\ Occupied # {}
          /\ todo' = [todo EXCEPT ![p] = Occupied]
          /\ pc' = [pc EXCEPT ![p] = "capture"]
       \/ /\ Occupied = {} \/ IOMayFail
          /\ pc' = [pc EXCEPT ![p] = "done"]
          /\ UNCHANGED todo
    /\ UNCHANGED <<file, at, snap, peersLeft, reached, pass, cursor, why, ghostVars>>
    /\ PushFrame

\* Read the bytes of the next discovered file.  A file that cannot be read is
\* kept in the snapshot without data.
PushCapture(p) ==
    /\ pc[p] = "capture"
    /\ \E s \in todo[p] :
         /\ \A t \in todo[p] : s <= t
         /\ todo' = [todo EXCEPT ![p] = @ \ {s}]
         /\ \E bytes \in {file[s]} \cup (IF IOMayFail THEN {NoFile} ELSE {}) :
              snap' = [snap EXCEPT ![p][s] = bytes]
    /\ UNCHANGED <<file, pc, at, peersLeft, reached, pass, cursor, why, ghostVars>>
    /\ PushFrame

\* The request has ended, or the mount no longer answers: the snapshot is
\* abandoned and nothing is uploaded.
PushCaptureAborts(p) ==
    /\ pc[p] = "capture" /\ todo[p] # {} /\ IOMayFail
    /\ pc' = [pc EXCEPT ![p] = "done"]
    /\ UNCHANGED <<file, at, todo, snap, peersLeft, reached, pass, cursor, why, ghostVars>>
    /\ PushFrame

\* (variant) The baseline is the instant the bytes were captured.
PushCapturedStamps(p) ==
    /\ pc[p] = "capture" /\ todo[p] = {}
    /\ pc' = [pc EXCEPT ![p] = IF \E s \in Slots : snap[p][s] # NoFile
                               THEN "upload" ELSE "done"]
    /\ at' = [at EXCEPT ![p] = now]
    /\ UNCHANGED <<file, todo, snap, peersLeft, reached, pass, cursor, why, ghostVars>>
    /\ PushFrame

\* hasReadableFanart decides whether there is anything to upload.
PushCaptured(p) ==
    /\ pc[p] = "capture" /\ todo[p] = {}
    /\ pc' = [pc EXCEPT ![p] = IF \E s \in Slots : snap[p][s] # NoFile
                               THEN "upload" ELSE "done"]
    /\ UNCHANGED <<file, at, todo, snap, peersLeft, reached, pass, cursor, why, ghostVars>>
    /\ PushFrame

\* An upload was attempted: the peer now counts as having been handed the files,
\* whether or not the call reports success.
PushUpload(p, c) ==
    /\ pc[p] = "upload" /\ c \in peersLeft[p]
    /\ peersLeft' = [peersLeft EXCEPT ![p] = @ \ {c}]
    /\ reached' = [reached EXCEPT ![p] = @ \cup {c}]
    /\ UNCHANGED <<file, pc, at, todo, snap, pass, cursor, why, ghostVars>>
    /\ PushFrame

\* A connection that is disabled, not ok, unsupported or cannot be loaded.
PushSkip(p, c) ==
    /\ pc[p] = "upload" /\ c \in peersLeft[p]
    /\ peersLeft' = [peersLeft EXCEPT ![p] = @ \ {c}]
    /\ UNCHANGED <<file, pc, at, todo, snap, reached, pass, cursor, why, ghostVars>>
    /\ PushFrame

\* All peers were offered the artwork; repairAfterPush runs if any was reached.
PushUploaded(p) ==
    /\ pc[p] = "upload" /\ peersLeft[p] = {}
    /\ IF reached[p] = {}
       THEN /\ pc' = [pc EXCEPT ![p] = "done"]
            /\ UNCHANGED pass
       ELSE /\ pc' = [pc EXCEPT ![p] = "verify"]
            /\ pass' = [pass EXCEPT ![p] = 1]
    /\ UNCHANGED <<file, at, todo, snap, peersLeft, reached, cursor, why, ghostVars>>
    /\ PushFrame

\* (variant) Existence is compared, not content.
VerdictByExistence(p) ==
    LET had == snap[p][cursor[p]]
        has == file[cursor[p]]
    IN  CASE had = NoFile                   -> "skip"
          [] had # NoFile /\ has = NoFile   -> "missing"
          [] OTHER                          -> "untouched"

\* reassertLocalImage's read, with what it decides from the bytes alone.
Verdict(p) ==
    LET had == snap[p][cursor[p]]
        has == file[cursor[p]]
    IN  CASE had = NoFile                   -> "skip"
          [] had # NoFile /\ has = had      -> "untouched"
          [] had # NoFile /\ has = NoFile   -> "missing"
          [] OTHER                          -> "differs"

\* (variant) The second pass keeps the overwrite branch.
PushVerifyUnscoped(p) ==
    /\ pc[p] = "verify" /\ cursor[p] < NumSlots
    /\ \/ /\ Verdict(p) \in {"skip", "untouched"}
          /\ cursor' = [cursor EXCEPT ![p] = @ + 1]
          /\ UNCHANGED <<pc, why>>
       \/ /\ Verdict(p) \in {"differs", "missing"}
          /\ pc' = [pc EXCEPT ![p] = IF Verdict(p) = "missing" THEN "gate" ELSE "restore"]
          /\ why' = [why EXCEPT ![p] = "rewrote"]
          /\ UNCHANGED cursor
    /\ UNCHANGED <<file, at, todo, snap, peersLeft, reached, pass, ghostVars>>
    /\ PushFrame

PushVerify(p) ==
    /\ pc[p] = "verify" /\ cursor[p] < NumSlots
    /\ \/ /\ Verdict(p) \in {"skip", "untouched"}
          /\ cursor' = [cursor EXCEPT ![p] = @ + 1]
          /\ UNCHANGED <<pc, why, excused>>
       \/ /\ Verdict(p) = "differs" /\ pass[p] = 2     \* repairMissingOnly
          /\ cursor' = [cursor EXCEPT ![p] = @ + 1]
          /\ UNCHANGED <<pc, why, excused>>
       \/ /\ Verdict(p) = "differs" /\ pass[p] = 1     \* repairAllDamage
          /\ pc' = [pc EXCEPT ![p] = "restore"]
          /\ why' = [why EXCEPT ![p] = "rewrote"]
          /\ UNCHANGED <<cursor, excused>>
       \/ /\ Verdict(p) = "missing"
          /\ pc' = [pc EXCEPT ![p] = "gate"]
          /\ UNCHANGED <<cursor, why, excused>>
       \/ /\ Verdict(p) # "skip" /\ IOMayFail          \* unreadable is not absent
          /\ cursor' = [cursor EXCEPT ![p] = @ + 1]
          /\ excused' = [excused EXCEPT ![p] = @ \cup {cursor[p]}]
          /\ UNCHANGED <<pc, why>>
    /\ UNCHANGED <<file, at, todo, snap, peersLeft, reached, pass, vacated, raced,
                   settleSaved, discarded>>
    /\ PushFrame

\* The file was missing: stand down if the operator announced a delete.
PushGate(p) ==
    /\ pc[p] = "gate"
    /\ IF DeleteIntentAfter(at[p])
       THEN /\ pc' = [pc EXCEPT ![p] = "verify"]
            /\ cursor' = [cursor EXCEPT ![p] = @ + 1]
            /\ excused' = [excused EXCEPT ![p] = @ \cup {cursor[p]}]
            /\ UNCHANGED why
       ELSE /\ pc' = [pc EXCEPT ![p] = "restore"]
            /\ why' = [why EXCEPT ![p] = "deleted"]
            /\ UNCHANGED <<cursor, excused>>
    /\ UNCHANGED <<file, at, todo, snap, peersLeft, reached, pass, vacated, raced,
                   settleSaved, discarded>>
    /\ PushFrame

\* WriteFileAtomic of the captured bytes.
PushRestore(p) ==
    /\ pc[p] = "restore"
    /\ file' = [file EXCEPT ![cursor[p]] = snap[p][cursor[p]]]
    /\ pc' = [pc EXCEPT ![p] = "verify"]
    /\ cursor' = [cursor EXCEPT ![p] = @ + 1]
    /\ Fills(cursor[p], {p})
    /\ UNCHANGED <<at, todo, snap, peersLeft, reached, pass, why, settleSaved, discarded>>
    /\ PushFrame

\* The restoration fails: logged, and the pass goes on.
PushRestoreFails(p) ==
    /\ pc[p] = "restore" /\ IOMayFail
    /\ pc' = [pc EXCEPT ![p] = "verify"]
    /\ cursor' = [cursor EXCEPT ![p] = @ + 1]
    /\ excused' = [excused EXCEPT ![p] = @ \cup {cursor[p]}]
    /\ UNCHANGED <<file, at, todo, snap, peersLeft, reached, pass, why, vacated, raced,
                   settleSaved, discarded>>
    /\ PushFrame

\* (variant) One pass only, as before the settle-and-reverify.
PushEndOnlyPass(p) ==
    /\ pc[p] = "verify" /\ cursor[p] = NumSlots
    /\ pc' = [pc EXCEPT ![p] = "done"]
    /\ UNCHANGED <<file, at, todo, snap, peersLeft, reached, pass, cursor, why, ghostVars>>
    /\ PushFrame

\* (variant) Settle and verify again for ever.
PushEndPassAgain(p) ==
    /\ pc[p] = "verify" /\ cursor[p] = NumSlots
    /\ pc' = [pc EXCEPT ![p] = "settle"]
    /\ UNCHANGED <<file, at, todo, snap, peersLeft, reached, pass, cursor, why, ghostVars>>
    /\ PushFrame

\* repairAfterPush: pass 1, the settle delay, pass 2, and no more.
PushEndPass(p) ==
    /\ pc[p] = "verify" /\ cursor[p] = NumSlots
    /\ pc' = [pc EXCEPT ![p] = IF pass[p] = 1 THEN "settle" ELSE "done"]
    /\ UNCHANGED <<file, at, todo, snap, peersLeft, reached, pass, cursor, why, ghostVars>>
    /\ PushFrame

PushSettled(p) ==
    /\ pc[p] = "settle"
    /\ pc' = [pc EXCEPT ![p] = "verify"]
    /\ pass' = [pass EXCEPT ![p] = @ + 1]
    /\ cursor' = [cursor EXCEPT ![p] = 0]
    /\ UNCHANGED <<file, at, todo, snap, peersLeft, reached, why, ghostVars>>
    /\ PushFrame

----------------------------------------------------------------------------
(* The peers, which share the library and are not synchronised with us.    *)

\* Whether push p has looked at slot s for the last time, in pass n or later.
LookedPast(p, s, n) == pass[p] > n \/ (pass[p] = n /\ cursor[p] > s)

\* A peer a push reached removes a file it was handed, during the upload or late.
PeerDelete(p, s) ==
    /\ damage < MaxDamage
    /\ reached[p] # {} /\ snap[p][s] # NoFile
    /\ file[s] # NoFile
    /\ file' = [file EXCEPT ![s] = NoFile]
    /\ damage' = damage + 1
    /\ excused' = [q \in Pushes |-> IF Captured(q, s) /\ LookedPast(q, s, 2)
                                    THEN excused[q] \cup {s} ELSE excused[q]]
    /\ settleSaved' = [q \in Pushes |-> settleSaved[q] \ {s}]
    /\ UNCHANGED <<temp, clockVars, opVars, pushVars, used, vacated, raced, discarded>>

\* A peer overwrites the file with its own rendering.
PeerOverwrite(p, s) ==
    /\ damage < MaxDamage
    /\ reached[p] # {} /\ snap[p][s] # NoFile
    /\ file[s] \notin {NoFile, PeerBytes}
    /\ file' = [file EXCEPT ![s] = PeerBytes]
    /\ damage' = damage + 1
    /\ excused' = [q \in Pushes |-> IF Captured(q, s) /\ LookedPast(q, s, 1)
                                    THEN excused[q] \cup {s} ELSE excused[q]]
    /\ UNCHANGED <<temp, clockVars, opVars, pushVars, used, vacated, raced,
                   settleSaved, discarded>>

----------------------------------------------------------------------------
\* The library holds a contiguous run of different artworks.
Init ==
    /\ file \in {f \in [Slots -> Art \cup {NoFile}] :
                   /\ \A s, t \in Slots : f[s] = f[t] => s = t \/ f[s] = NoFile
                   /\ \A s, t \in Slots : s < t /\ f[s] = NoFile => f[t] = NoFile}
    /\ used = {file[s] : s \in Slots} \ {NoFile}
    /\ temp = [i \in 1..NumSlots |-> NoFile]
    /\ now = 0
    /\ marker = NoMark
    /\ opPc = "idle" /\ opKind = "delete" /\ doomed = {} /\ order = <<>>
    /\ idx = 1 /\ staged = 0
    /\ pc = [p \in Pushes |-> "idle"]
    /\ at = [p \in Pushes |-> 0]
    /\ todo = [p \in Pushes |-> {}]
    /\ snap = [p \in Pushes |-> [s \in Slots |-> NoFile]]
    /\ peersLeft = [p \in Pushes |-> {}]
    /\ reached = [p \in Pushes |-> {}]
    /\ pass = [p \in Pushes |-> 0]
    /\ cursor = [p \in Pushes |-> 0]
    /\ why = [p \in Pushes |-> "rewrote"]
    /\ damage = 0
    /\ vacated = [p \in Pushes |-> {}]
    /\ raced = [p \in Pushes |-> FALSE]
    /\ excused = [p \in Pushes |-> {}]
    /\ settleSaved = [p \in Pushes |-> {}]
    /\ discarded = {}

Operator ==
    \/ \E s \in Slots, c \in Art : OpSave(s, c)
    \/ OpDelete \/ OpDeleteAll \/ OpRevert \/ OpReorder
    \/ OpMark
    \/ \E s \in Slots : OpUnlink(s) \/ OpUnlinkFails(s)
    \/ OpRenumber \/ OpFinish
    \/ OpStage \/ OpStageFails \/ OpStageBlocked
    \/ OpPlace \/ OpPlaceFails \/ OpRetract \/ OpUnstage

\* The steps of a push that has begun; PushStart is its caller's.
PushStep(p) ==
    \/ PushDiscover(p) \/ PushCapture(p) \/ PushCaptureAborts(p) \/ PushCaptured(p)
    \/ \E c \in Peers : PushUpload(p, c) \/ PushSkip(p, c)
    \/ PushUploaded(p)
    \/ PushVerify(p) \/ PushGate(p) \/ PushRestore(p) \/ PushRestoreFails(p)
    \/ PushEndPass(p) \/ PushSettled(p)

Peer == \E p \in Pushes, s \in Slots : PeerDelete(p, s) \/ PeerOverwrite(p, s)

Next ==
    \/ Tick
    \/ Operator
    \/ \E p \in Pushes : PushStart(p) \/ PushStep(p)
    \/ Peer

Spec == Init /\ [][Next]_vars

\* A push runs on a goroutine of its own: every read it makes is bounded by
\* reassertVerifyTimeout and its wait is a plain sleep, so it keeps taking steps.
\* Callers, operators and peers need do nothing.
FairSpec == Spec /\ \A p \in Pushes : WF_vars(PushStep(p))

----------------------------------------------------------------------------
(* Properties.                                                             *)

\* Types, and the bound repairAfterPush promises: never a third pass.
TypeOK ==
    /\ file \in [Slots -> Contents]
    /\ temp \in [1..NumSlots -> Contents]
    /\ now \in Nat
    /\ marker \in Nat \cup {NoMark}
    /\ opPc \in {"idle", "mark", "unlink", "stage", "place", "retract", "unstage"}
    /\ opKind \in AllKinds
    /\ doomed \subseteq Slots
    /\ order \in Seq(Slots)
    /\ idx \in Nat \ {0} /\ staged \in Nat
    /\ pc \in [Pushes -> {"idle", "discover", "capture", "upload", "verify", "gate",
                          "restore", "settle", "done"}]
    /\ at \in [Pushes -> Nat]
    /\ todo \in [Pushes -> SUBSET Slots]
    /\ snap \in [Pushes -> [Slots -> Contents]]
    /\ peersLeft \in [Pushes -> SUBSET Peers]
    /\ reached \in [Pushes -> SUBSET Peers]
    /\ pass \in [Pushes -> 0..2]
    /\ cursor \in [Pushes -> 0..NumSlots]
    /\ why \in [Pushes -> {"rewrote", "deleted"}]
    /\ used \subseteq Art /\ discarded \subseteq Art
    /\ damage \in 0..MaxDamage
    /\ vacated \in [Pushes -> SUBSET Slots]
    /\ raced \in [Pushes -> BOOLEAN]
    /\ excused \in [Pushes -> SUBSET Slots]
    /\ settleSaved \in [Pushes -> SUBSET Slots]

\* The missing-file branch of the repair (reassertLocalImage, ENOENT) never
\* writes a slot that a delete handler emptied while the push was in flight,
\* neither the deleted file nor a survivor's old name: in either pass, whatever
\* the peers do, however the renumber interleaves.  The two exceptions are the
\* pushes named in raced: begun between the marker and the end of the delete,
\* or already past the gate when the slot was emptied.
RestoreHonoursDelete ==
    \A p \in Pushes :
        pc[p] = "restore" /\ why[p] = "deleted" /\ cursor[p] \in vacated[p] => raced[p]

\* An image the operator saved during the settle wait is never reverted by that
\* push's second pass (repairScope, repairMissingOnly).
SettleSaveSurvives ==
    \A p \in Pushes :
        pc[p] = "restore" /\ pass[p] = 2 => cursor[p] \notin settleSaved[p]

\* When the repair ends, every captured file holds the bytes that were pushed,
\* unless the push is excused: the operator or another push changed the slot, a
\* peer struck after the last look that could have seen it, the file could not
\* be read or written, or an operator's delete made the gate stand down.
RepairComplete ==
    [][\A p \in Pushes :
          pc[p] = "verify" /\ pc'[p] = "done" =>
             \A s \in Slots : snap[p][s] # NoFile /\ s \notin excused[p]
                              => file[s] = snap[p][s]]_vars

\* A file that a peer deleted, early or late, and that some push still has to look
\* at comes back, unless the push is excused from it in the meantime: an operator
\* emptied the slot or announced a delete, or the file cannot be read or written.
PeerDeleteIsRepaired ==
    \A p \in Pushes, s \in Slots :
        (/\ Captured(p, s) /\ reached[p] # {} /\ s \notin excused[p]
         /\ ~LookedPast(p, s, 2) /\ file[s] = NoFile)
            ~> (file[s] # NoFile \/ s \in excused[p])

\* What the code does not give.

\* "An operator delete landing during the push window is HONORED": also by the
\* branch that finds different bytes under a name the renumber has reused.
RewriteHonoursDelete ==
    \A p \in Pushes :
        pc[p] = "restore" /\ why[p] = "rewrote" => snap[p][cursor[p]] \notin discarded

\* The same promise without the exceptions of RestoreHonoursDelete.
DeleteAlwaysHonoured ==
    \A p \in Pushes :
        pc[p] = "restore" /\ why[p] = "deleted" => cursor[p] \notin vacated[p]

\* An artwork nobody deleted or replaced is still on the disk.
SurvivorsSurvive ==
    \A a \in used \ discarded :
        \/ \E s \in Slots : file[s] = a
        \/ \E i \in 1..NumSlots : temp[i] = a

\* A reorder that gives up before it has renamed every file has put back those it
\* had, as the comment on renumberFanartFiles asks of its own staging loop.
StagedComeBack ==
    [][opPc = "stage" /\ opPc' = "idle" => \A i \in 1..(idx - 1) : temp'[i] = NoFile]_vars

=============================================================================
