------------------------ MODULE ArtworkPush_proofs ------------------------
(***************************************************************************)
(* Proofs about ArtworkPush, for every number of slots, pushes, peers and  *)
(* artworks and every bound: type correctness; that the missing-file       *)
(* branch of the repair honours the operator's deletes whenever every      *)
(* request that moves or removes files marks its intent; that an image     *)
(* saved during the settle wait survives the second pass; and that a       *)
(* repair is complete when it ends.  Any read, write, unlink or rename may *)
(* fail throughout, those of a rollback included.                          *)
(***************************************************************************)
EXTENDS ArtworkPush, FiniteSetTheorems, TLAPS

PushPcs == {"idle", "discover", "capture", "upload", "verify", "gate", "restore", "settle",
            "done"}

\* What the request's control state says about its position: stage and place
\* walk order, the rollbacks walk the part of it that was renamed.
RequestOK ==
    /\ Len(order) <= NumSlots
    /\ opPc \in {"mark", "unlink"} => idx = 1
    /\ opPc \in {"stage", "place"} => idx \in 1..Len(order)
    /\ opPc \in {"retract", "unstage"} => idx \in 1..staged /\ staged <= Len(order)
    /\ opPc # "idle" => opKind \in Kinds

\* What a push's control state says about its pass and its slot.
PushOK ==
    \A p \in Pushes :
        /\ pc[p] \in {"verify", "gate", "restore"} => pass[p] \in 1..2
        /\ pc[p] = "settle" => pass[p] = 1
        /\ pc[p] \in {"gate", "restore"} => cursor[p] < NumSlots

TypeInv == TypeOK /\ RequestOK /\ PushOK

USE SlotsAssumption, KindsAssumption, BoundsAssumption, IOAssumption,
    ContentAssumption, WindowAssumption

\* A listing of some slots is a sequence of slots, no longer than there are slots.
LEMMA ListingsAreShort ==
    ASSUME NEW S \in SUBSET Slots, NEW o \in Listings(S)
    PROVE  /\ o \in Seq(Slots) /\ Len(o) <= NumSlots
           /\ S # {} => Len(o) >= 1
  <1>1. IsFiniteSet(Slots) /\ Cardinality(Slots) = NumSlots
    BY FS_Interval DEF Slots
  <1>2. IsFiniteSet(S) /\ Cardinality(S) \in Nat /\ Cardinality(S) <= NumSlots
    BY <1>1, FS_Subset, FS_CardinalityType
  <1>3. S # {} => Cardinality(S) # 0
    BY <1>2, FS_EmptySet
  <1>4. o \in [1..Cardinality(S) -> S]
    BY DEF Listings
  <1>5. o \in Seq(S) /\ Len(o) = Cardinality(S)
    BY <1>2, <1>4
  <1> QED BY <1>2, <1>3, <1>5

LEMMA TypeInit == Init => TypeInv
  <1> SUFFICES ASSUME Init PROVE TypeInv
    OBVIOUS
  <1>1. TypeOK
    BY DEF Init, TypeOK, Contents, Slots, AllKinds, NoMark
  <1>2. RequestOK /\ PushOK
    BY DEF Init, RequestOK, PushOK
  <1> QED BY <1>1, <1>2 DEF TypeInv

----------------------------------------------------------------------------
(* Type correctness, one lemma per actor.                                  *)

\* The clock leaves everything but itself alone.
LEMMA TypeTick == TypeInv /\ Tick => TypeInv'
  BY DEF TypeInv, TypeOK, RequestOK, PushOK, Tick, Slots, Contents, NoMark, vars,
         diskVars, clockVars, opVars, pushVars, ghostVars, InFlight

\* A request opens with a listing of slots, to delete or to renumber.
LEMMA TypeBegin ==
    ASSUME TypeInv, NEW kind \in AllKinds, NEW doom \in SUBSET Slots,
           NEW ord, NEW first,
           ord \in Seq(Slots), Len(ord) <= NumSlots,
           \/ first \in {"mark", "unlink"}
           \/ first = "stage" /\ Len(ord) >= 1,
           OpBegin(kind, doom, ord, first)
    PROVE  TypeInv'
  <1> USE DEF OpBegin, TypeInv, diskVars, clockVars, pushVars, ghostVars
  <1>1. TypeOK'
    BY DEF TypeOK, Slots, NoMark
  <1>2. RequestOK'
    BY DEF RequestOK, TypeOK
  <1>3. PushOK'
    BY DEF PushOK
  <1> QED BY <1>1, <1>2, <1>3

\* What is left of a request when its handler has returned.
LEMMA ReturnTypes ==
    ASSUME OpReturn
    PROVE  /\ opPc' = "idle" /\ opKind' \in AllKinds
           /\ order' \in Seq(Slots) /\ Len(order') = 0
           /\ idx' \in Nat \ {0} /\ staged' \in Nat
  BY DEF OpReturn, AllKinds

LEMMA TypeOperator == TypeInv /\ Operator => TypeInv'
  <1> SUFFICES ASSUME TypeInv, Operator PROVE TypeInv'
    OBVIOUS
  <1> USE DEF TypeInv
  <1> Occupied \in SUBSET Slots
    BY DEF Occupied
  <1> <<>> \in Seq(Slots) /\ Len(<<>>) = 0
    OBVIOUS
  <1>1. ASSUME NEW s \in Slots, NEW c \in Art, OpSave(s, c) PROVE TypeInv'
    BY <1>1 DEF OpSave, TypeOK, RequestOK, PushOK, Contents, Slots, Fills, Unlinked,
                clockVars, opVars, pushVars
  <1>2. CASE OpDelete
    <2>0. PICK doom \in SUBSET Occupied \ {{}} :
              \E ord \in Listings(Occupied \ doom) : OpBegin("delete", doom, ord, "mark")
      BY <1>2 DEF OpDelete
    <2>1. PICK ord \in Listings(Occupied \ doom) : OpBegin("delete", doom, ord, "mark")
      BY <2>0
    <2>2. ord \in Seq(Slots) /\ Len(ord) <= NumSlots
      BY <2>1, ListingsAreShort
    <2> QED BY <2>1, <2>2, TypeBegin DEF AllKinds
  <1>3. CASE OpDeleteAll
    <2>1. PICK ord \in Seq(Slots) :
              Len(ord) <= NumSlots /\ OpBegin("deleteAll", Occupied, ord, "mark")
      <3> <<>> \in Seq(Slots) /\ Len(<<>>) <= NumSlots
        OBVIOUS
      <3> WITNESS <<>> \in Seq(Slots)
      <3> QED BY <1>3 DEF OpDeleteAll
    <2> QED BY <2>1, TypeBegin DEF AllKinds
  <1>4. CASE OpRevert
    <2>1. PICK newest \in Occupied : OpBegin("revert", {newest}, <<>>, "unlink")
      BY <1>4 DEF OpRevert
    <2>2. PICK ord \in Seq(Slots) :
              Len(ord) <= NumSlots /\ OpBegin("revert", {newest}, ord, "unlink")
      <3> <<>> \in Seq(Slots) /\ Len(<<>>) <= NumSlots
        OBVIOUS
      <3> WITNESS <<>> \in Seq(Slots)
      <3> QED BY <2>1
    <2> QED BY <2>2, TypeBegin DEF AllKinds
  <1>5. CASE OpReorder
    <2>1. PICK ord \in Listings(Occupied) : OpBegin("reorder", {}, ord, "stage")
      BY <1>5 DEF OpReorder
    <2>2. ord \in Seq(Slots) /\ Len(ord) <= NumSlots /\ Len(ord) >= 1
      BY <1>5, ListingsAreShort DEF OpReorder
    <2> QED BY <2>1, <2>2, TypeBegin DEF AllKinds
  <1>6. CASE OpMark
    BY <1>6 DEF OpMark, TypeOK, RequestOK, PushOK, diskVars, pushVars, ghostVars
  <1>7. ASSUME NEW s \in Slots, OpUnlink(s) PROVE TypeInv'
    BY <1>7 DEF OpUnlink, TypeOK, RequestOK, PushOK, Contents, OperatorEmpties, Unlinked,
                clockVars, pushVars
  <1>8. ASSUME NEW s \in Slots, OpUnlinkFails(s) PROVE TypeInv'
    BY <1>8 DEF OpUnlinkFails, TypeOK, RequestOK, PushOK, diskVars, clockVars, pushVars,
                ghostVars
  <1>9. CASE OpRenumber
    <2>1. order # <<>> => Len(order) >= 1
      BY DEF TypeOK
    <2> QED BY <1>9, <2>1 DEF OpRenumber, TypeOK, RequestOK, PushOK, diskVars, clockVars,
                pushVars, ghostVars
  <1>10. CASE OpFinish \/ OpStageBlocked
    <2>1. OpReturn /\ UNCHANGED <<diskVars, clockVars, doomed, pushVars, used, damage, ghostVars>>
      BY <1>10 DEF OpFinish, OpStageBlocked
    <2>2. TypeOK'
      BY <2>1, ReturnTypes DEF TypeOK, diskVars, clockVars, pushVars, ghostVars
    <2>3. RequestOK' /\ PushOK'
      BY <2>1, ReturnTypes DEF RequestOK, PushOK, pushVars
    <2> QED BY <2>2, <2>3
  <1>11. CASE OpStage
    <2>1. idx \in 1..Len(order) /\ order[idx] \in Slots /\ idx \in 1..NumSlots
      BY <1>11 DEF OpStage, TypeOK, RequestOK
    <2>2. TypeOK'
      BY <1>11, <2>1 DEF OpStage, TypeOK, Contents, OperatorEmpties, clockVars, pushVars
    <2>3. RequestOK' /\ PushOK'
      BY <1>11, <2>1 DEF OpStage, TypeOK, RequestOK, PushOK, pushVars
    <2> QED BY <2>2, <2>3
  <1>12. CASE OpStageFails
    <2>1. idx \in 1..Len(order)
      BY <1>12 DEF OpStageFails, RequestOK
    <2>0. /\ opPc' \in {"idle", "unstage"} /\ opKind' \in AllKinds /\ order' \in Seq(Slots)
          /\ idx' \in Nat \ {0} /\ staged' \in Nat
      <3>1. CASE OpReturn
        BY <3>1, ReturnTypes
      <3>2. CASE /\ opPc' = "unstage" /\ idx' = 1 /\ staged' = idx - 1
                 /\ UNCHANGED <<opKind, order>>
        BY <2>1, <3>2 DEF TypeOK
      <3> QED BY <1>12, <3>1, <3>2 DEF OpStageFails
    <2>2. TypeOK'
      BY <1>12, <2>0 DEF OpStageFails, TypeOK, diskVars, clockVars, pushVars, ghostVars
    <2>3. RequestOK' /\ PushOK'
      BY <1>12, <2>1 DEF OpStageFails, OpReturn, TypeOK, RequestOK, PushOK, pushVars
    <2> QED BY <2>2, <2>3
  <1>13. CASE OpPlace
    <2>1. idx \in 1..Len(order) /\ idx - 1 \in Slots /\ idx \in 1..NumSlots
      BY <1>13 DEF OpPlace, TypeOK, RequestOK, Slots
    <2>0. /\ opPc' \in {"idle", "place"} /\ opKind' \in AllKinds /\ order' \in Seq(Slots)
          /\ idx' \in Nat \ {0} /\ staged' \in Nat
      <3>1. CASE OpReturn
        BY <3>1, ReturnTypes
      <3>2. CASE idx' = idx + 1 /\ UNCHANGED <<opPc, opKind, order, staged>>
        BY <1>13, <2>1, <3>2 DEF OpPlace, TypeOK
      <3> QED BY <1>13, <3>1, <3>2 DEF OpPlace
    <2>2. TypeOK'
      BY <1>13, <2>0, <2>1 DEF OpPlace, TypeOK, Contents, Fills, clockVars, pushVars
    <2>3. RequestOK' /\ PushOK'
      BY <1>13, <2>1 DEF OpPlace, OpReturn, TypeOK, RequestOK, PushOK, pushVars
    <2> QED BY <2>2, <2>3
  <1>14. CASE OpPlaceFails
    <2>1. idx \in 1..Len(order)
      BY <1>14 DEF OpPlaceFails, RequestOK
    <2>2. TypeOK'
      BY <1>14, <2>1 DEF OpPlaceFails, TypeOK, diskVars, clockVars, pushVars, ghostVars
    <2>3. RequestOK' /\ PushOK'
      BY <1>14, <2>1 DEF OpPlaceFails, TypeOK, RequestOK, PushOK, pushVars
    <2> QED BY <2>2, <2>3
  <1>15. CASE OpRetract
    <2>1. /\ idx \in 1..staged /\ staged <= Len(order) /\ idx \in 1..NumSlots
          /\ idx - 1 \in Slots
      BY <1>15 DEF OpRetract, TypeOK, RequestOK, Slots
    <2>2. opPc' \in {"retract", "unstage"} /\ idx' \in Nat \ {0} /\ staged' \in Nat
      BY <1>15, <2>1 DEF OpRetract, TypeOK
    <2>3. /\ file' \in [Slots -> Contents] /\ temp' \in [1..NumSlots -> Contents]
          /\ vacated' \in [Pushes -> SUBSET Slots] /\ raced' \in [Pushes -> BOOLEAN]
          /\ excused' \in [Pushes -> SUBSET Slots]
          /\ settleSaved' \in [Pushes -> SUBSET Slots]
      <3>1. CASE /\ temp' = [temp EXCEPT ![idx] = file[idx - 1]]
                 /\ file' = [file EXCEPT ![idx - 1] = NoFile]
                 /\ OperatorEmpties(idx - 1)
        BY <2>1, <3>1 DEF TypeOK, Contents, OperatorEmpties
      <3>2. CASE UNCHANGED <<diskVars, vacated, raced, excused, settleSaved>>
        BY <3>2 DEF TypeOK, diskVars
      <3> QED BY <1>15, <3>1, <3>2 DEF OpRetract
    <2>4. TypeOK'
      BY <1>15, <2>2, <2>3 DEF OpRetract, TypeOK, clockVars, pushVars
    <2>5. RequestOK' /\ PushOK'
      BY <1>15, <2>1 DEF OpRetract, TypeOK, RequestOK, PushOK, pushVars
    <2> QED BY <2>4, <2>5
  <1>16. CASE OpUnstage
    <2>1. idx \in 1..staged /\ staged <= Len(order) /\ order[idx] \in Slots
          /\ idx \in 1..NumSlots
      BY <1>16 DEF OpUnstage, TypeOK, RequestOK
    <2>2. /\ opPc' \in {"idle", "unstage"} /\ opKind' \in AllKinds /\ order' \in Seq(Slots)
          /\ idx' \in Nat \ {0} /\ staged' \in Nat
      <3>1. CASE OpReturn
        BY <3>1, ReturnTypes
      <3>2. CASE idx' = idx + 1 /\ UNCHANGED <<opPc, opKind, order, staged>>
        BY <1>16, <2>1, <3>2 DEF OpUnstage, TypeOK
      <3> QED BY <1>16, <3>1, <3>2 DEF OpUnstage
    <2>3. /\ file' \in [Slots -> Contents] /\ temp' \in [1..NumSlots -> Contents]
          /\ vacated' \in [Pushes -> SUBSET Slots] /\ raced' \in [Pushes -> BOOLEAN]
          /\ excused' \in [Pushes -> SUBSET Slots]
      <3>1. CASE /\ file' = [file EXCEPT ![order[idx]] = temp[idx]]
                 /\ temp' = [temp EXCEPT ![idx] = NoFile]
                 /\ Fills(order[idx], {})
        BY <2>1, <3>1 DEF TypeOK, Contents, Fills
      <3>2. CASE UNCHANGED <<diskVars, vacated, raced, excused>>
        BY <3>2 DEF TypeOK, diskVars
      <3> QED BY <1>16, <3>1, <3>2 DEF OpUnstage
    <2>4. TypeOK'
      BY <1>16, <2>2, <2>3 DEF OpUnstage, TypeOK, clockVars, pushVars
    <2>5. RequestOK' /\ PushOK'
      BY <1>16, <2>1 DEF OpUnstage, OpReturn, TypeOK, RequestOK, PushOK, pushVars
    <2> QED BY <2>4, <2>5
  <1> QED BY <1>1, <1>2, <1>3, <1>4, <1>5, <1>6, <1>7, <1>8, <1>9, <1>10, <1>11, <1>12,
             <1>13, <1>14, <1>15, <1>16 DEF Operator

LEMMA TypeStart ==
    ASSUME TypeInv, NEW p \in Pushes, PushStart(p) PROVE TypeInv'
  <1> USE DEF TypeInv, PushStart, PushFrame, clockVars, opVars
  <1>1. TypeOK'
    BY DEF TypeOK, Slots, Contents
  <1>2. RequestOK'
    BY DEF RequestOK
  <1>3. PushOK'
    BY DEF PushOK, TypeOK
  <1> QED BY <1>1, <1>2, <1>3

LEMMA TypePush ==
    ASSUME TypeInv, NEW p \in Pushes, PushStep(p) PROVE TypeInv'
  <1> USE DEF TypeInv, PushFrame, clockVars, opVars
  <1>1. CASE PushDiscover(p)
    <2>0. pc' \in [Pushes -> PushPcs] /\ todo' \in [Pushes -> SUBSET Slots]
      <3>1. CASE todo' = [todo EXCEPT ![p] = Occupied] /\ pc' = [pc EXCEPT ![p] = "capture"]
        BY <3>1 DEF TypeOK, Occupied, PushPcs
      <3>2. CASE pc' = [pc EXCEPT ![p] = "done"] /\ UNCHANGED todo
        BY <3>2 DEF TypeOK, PushPcs
      <3> QED BY <1>1, <3>1, <3>2 DEF PushDiscover
    <2>1. TypeOK'
      BY <1>1, <2>0 DEF PushDiscover, TypeOK, PushPcs, ghostVars
    <2>2. RequestOK' /\ PushOK'
      BY <1>1 DEF PushDiscover, TypeOK, RequestOK, PushOK
    <2> QED BY <2>1, <2>2
  <1>2. CASE PushCapture(p)
    <2>1. PICK s \in todo[p] : PushCapture(p)!2!(s)
      BY <1>2 DEF PushCapture
    <2>2. PICK bytes \in {file[s]} \cup (IF IOMayFail THEN {NoFile} ELSE {}) :
              snap' = [snap EXCEPT ![p][s] = bytes]
      BY <2>1
    <2>3. s \in Slots /\ bytes \in Contents
      BY <2>1, <2>2 DEF TypeOK, Contents
    <2>4. snap' \in [Pushes -> [Slots -> Contents]]
      BY <2>2, <2>3 DEF TypeOK
    <2>5. todo' \in [Pushes -> SUBSET Slots]
      BY <2>1 DEF TypeOK
    <2> QED BY <1>2, <2>4, <2>5 DEF PushCapture, TypeOK, RequestOK, PushOK, ghostVars
  <1>3. CASE PushCaptured(p) \/ PushCaptureAborts(p)
    BY <1>3 DEF PushCaptured, PushCaptureAborts, TypeOK, RequestOK, PushOK, ghostVars
  <1>4. ASSUME NEW c \in Peers, PushUpload(p, c) PROVE TypeInv'
    BY <1>4 DEF PushUpload, TypeOK, RequestOK, PushOK, ghostVars
  <1>5. ASSUME NEW c \in Peers, PushSkip(p, c) PROVE TypeInv'
    BY <1>5 DEF PushSkip, TypeOK, RequestOK, PushOK, ghostVars
  <1>6. CASE PushUploaded(p)
    <2>1. pc' \in [Pushes -> PushPcs] /\ pass' \in [Pushes -> 0..2]
      <3>1. CASE reached[p] = {}
        <4>1. pc' = [pc EXCEPT ![p] = "done"] /\ pass' = pass
          BY <1>6, <3>1 DEF PushUploaded
        <4> QED BY <4>1 DEF TypeOK, PushPcs
      <3>2. CASE reached[p] # {}
        <4>1. pc' = [pc EXCEPT ![p] = "verify"] /\ pass' = [pass EXCEPT ![p] = 1]
          BY <1>6, <3>2 DEF PushUploaded
        <4> QED BY <4>1 DEF TypeOK, PushPcs
      <3> QED BY <3>1, <3>2
    <2> QED BY <1>6, <2>1 DEF PushUploaded, TypeOK, PushPcs, RequestOK, PushOK, ghostVars
  <1>7. CASE PushVerify(p)
    <2>1. cursor[p] \in Slots /\ cursor[p] + 1 \in 0..NumSlots
      BY <1>7 DEF PushVerify, TypeOK, Slots
    <2>0. /\ pc' \in [Pushes -> PushPcs] /\ cursor' \in [Pushes -> 0..NumSlots]
          /\ why' \in [Pushes -> {"rewrote", "deleted"}]
          /\ excused' \in [Pushes -> SUBSET Slots]
      <3>1. CASE UNCHANGED <<pc, why>> /\ cursor' = [cursor EXCEPT ![p] = @ + 1]
        <4>1. excused' \in [Pushes -> SUBSET Slots]
          <5>1. \/ excused' = excused
                \/ excused' = [excused EXCEPT ![p] = @ \cup {cursor[p]}]
            BY <1>7 DEF PushVerify
          <5>2. CASE excused' = excused
            BY <5>2 DEF TypeOK
          <5>3. CASE excused' = [excused EXCEPT ![p] = @ \cup {cursor[p]}]
            BY <2>1, <5>3 DEF TypeOK
          <5> QED BY <5>1, <5>2, <5>3
        <4> QED BY <2>1, <3>1, <4>1 DEF TypeOK, PushPcs
      <3>2. CASE /\ pc' = [pc EXCEPT ![p] = "restore"] /\ why' = [why EXCEPT ![p] = "rewrote"]
                 /\ UNCHANGED <<cursor, excused>>
        BY <3>2 DEF TypeOK, PushPcs
      <3>3. CASE pc' = [pc EXCEPT ![p] = "gate"] /\ UNCHANGED <<cursor, why, excused>>
        BY <3>3 DEF TypeOK, PushPcs
      <3> QED BY <1>7, <3>1, <3>2, <3>3 DEF PushVerify
    <2>2. TypeOK'
      BY <1>7, <2>0 DEF PushVerify, TypeOK, PushPcs
    <2>3. RequestOK' /\ PushOK'
      BY <1>7 DEF PushVerify, TypeOK, RequestOK, PushOK
    <2> QED BY <2>2, <2>3
  <1>8. CASE PushGate(p)
    <2>1. cursor[p] \in Slots /\ cursor[p] + 1 \in 0..NumSlots
      BY <1>8 DEF PushGate, TypeOK, PushOK, Slots
    <2>0. /\ pc' \in [Pushes -> PushPcs] /\ cursor' \in [Pushes -> 0..NumSlots]
          /\ why' \in [Pushes -> {"rewrote", "deleted"}]
          /\ excused' \in [Pushes -> SUBSET Slots]
      <3>1. CASE DeleteIntentAfter(at[p])
        <4>1. /\ pc' = [pc EXCEPT ![p] = "verify"] /\ UNCHANGED why
              /\ cursor' = [cursor EXCEPT ![p] = @ + 1]
              /\ excused' = [excused EXCEPT ![p] = @ \cup {cursor[p]}]
          BY <1>8, <3>1 DEF PushGate
        <4> QED BY <2>1, <4>1 DEF TypeOK, PushPcs
      <3>2. CASE ~DeleteIntentAfter(at[p])
        <4>1. /\ pc' = [pc EXCEPT ![p] = "restore"] /\ why' = [why EXCEPT ![p] = "deleted"]
              /\ UNCHANGED <<cursor, excused>>
          BY <1>8, <3>2 DEF PushGate
        <4> QED BY <4>1 DEF TypeOK, PushPcs
      <3> QED BY <3>1, <3>2
    <2>2. TypeOK'
      BY <1>8, <2>0 DEF PushGate, TypeOK, PushPcs
    <2>3. RequestOK' /\ PushOK'
      BY <1>8 DEF PushGate, TypeOK, RequestOK, PushOK
    <2> QED BY <2>2, <2>3
  <1>9. CASE PushRestore(p)
    <2>1. cursor[p] \in Slots /\ cursor[p] + 1 \in 0..NumSlots
      BY <1>9 DEF PushRestore, TypeOK, PushOK, Slots
    <2>2. snap[p][cursor[p]] \in Contents
      BY <2>1 DEF TypeOK
    <2> QED BY <1>9, <2>1, <2>2 DEF PushRestore, Fills, TypeOK, RequestOK, PushOK
  <1>10. CASE PushRestoreFails(p)
    <2>1. cursor[p] \in Slots /\ cursor[p] + 1 \in 0..NumSlots
      BY <1>10 DEF PushRestoreFails, TypeOK, PushOK, Slots
    <2> QED BY <1>10, <2>1 DEF PushRestoreFails, TypeOK, RequestOK, PushOK
  <1>11. CASE PushEndPass(p)
    BY <1>11 DEF PushEndPass, TypeOK, RequestOK, PushOK, ghostVars
  <1>12. CASE PushSettled(p)
    BY <1>12 DEF PushSettled, TypeOK, RequestOK, PushOK, ghostVars
  <1> QED BY <1>1, <1>2, <1>3, <1>4, <1>5, <1>6, <1>7, <1>8, <1>9, <1>10, <1>11, <1>12
          DEF PushStep

LEMMA TypePeer == TypeInv /\ Peer => TypeInv'
  <1> SUFFICES ASSUME TypeInv, NEW p \in Pushes, NEW s \in Slots,
                      PeerDelete(p, s) \/ PeerOverwrite(p, s)
               PROVE TypeInv'
    BY DEF Peer
  <1> USE DEF TypeInv
  <1>1. CASE PeerDelete(p, s)
    BY <1>1 DEF PeerDelete, TypeOK, RequestOK, PushOK, Contents, clockVars, opVars, pushVars
  <1>2. CASE PeerOverwrite(p, s)
    BY <1>2 DEF PeerOverwrite, TypeOK, RequestOK, PushOK, Contents, clockVars, opVars,
                pushVars
  <1> QED BY <1>1, <1>2

LEMMA TypeStep == TypeInv /\ [Next]_vars => TypeInv'
  <1> SUFFICES ASSUME TypeInv, [Next]_vars PROVE TypeInv'
    OBVIOUS
  <1>1. CASE UNCHANGED vars
    BY <1>1 DEF TypeInv, TypeOK, RequestOK, PushOK, vars, diskVars, clockVars, opVars,
                pushVars, ghostVars
  <1> QED BY <1>1, TypeTick, TypeOperator, TypeStart, TypePush, TypePeer DEF Next

\* Every variable keeps its type; in particular no push ever makes a third pass
\* over the files (repairAfterPush), and no rename of a renumber leaves the names
\* the request listed.
THEOREM TypeCorrect == Spec => []TypeOK
  <1>1. TypeInv => TypeOK
    BY DEF TypeInv
  <1> QED BY <1>1, TypeInit, TypeStep, PTL DEF Spec

----------------------------------------------------------------------------
(* The gate honours deletes.  RestoreHonoursDelete is not inductive: that  *)
(* the gate stands down follows from the order of the marker and the       *)
(* baseline, which is fixed when the delete marks its intent or when the   *)
(* push begins, long before the gate is asked.                             *)

Marked(p) == raced[p] \/ marker >= at[p]

DeleteInv ==
    /\ marker <= now
    /\ opPc # "idle" => opKind \in MarkingKinds
    /\ \A p \in Pushes : at[p] <= now
    /\ \A p \in InFlight : now - at[p] <= PushWindow
    /\ \A p \in InFlight : MarkedPhase => Marked(p)
    /\ \A p \in InFlight : vacated[p] # {} => Marked(p)
    /\ RestoreHonoursDelete

LEMMA DeleteInit == Init => DeleteInv
  BY DEF Init, DeleteInv, InFlight, NoMark, RestoreHonoursDelete

\* A step that changes neither the clock nor the marker nor the pushes, announces
\* no delete, and takes no slot out of reach, keeps the invariant.
LEMMA DeleteQuiet ==
    ASSUME TypeInv, DeleteInv,
           UNCHANGED <<now, marker, pc, at, cursor, why, raced>>,
           \A p \in Pushes : vacated'[p] \subseteq vacated[p],
           opPc' # "idle" => opKind' \in MarkingKinds,
           MarkedPhase' => MarkedPhase
    PROVE  DeleteInv'
  BY DEF TypeInv, TypeOK, DeleteInv, InFlight, RestoreHonoursDelete, Marked

\* The slot that OperatorEmpties takes away is marked, or raced from here on.
LEMMA DeleteEmpties ==
    ASSUME TypeInv, DeleteInv, NEW s \in Slots, MarkedPhase, OperatorEmpties(s),
           UNCHANGED <<now, marker, pc, at, cursor, why>>,
           opKind' = opKind
    PROVE  DeleteInv'
  <1>1. \A p \in Pushes : raced[p] => raced'[p]
    BY DEF OperatorEmpties, TypeInv, TypeOK
  <1>2. InFlight' = InFlight
    BY DEF InFlight
  <1>3. \A p \in InFlight : Marked(p)'
    BY <1>1 DEF DeleteInv, Marked, InFlight, TypeInv, TypeOK
  <1>4. RestoreHonoursDelete'
    <2> SUFFICES ASSUME NEW p \in Pushes, pc'[p] = "restore", why'[p] = "deleted",
                        cursor'[p] \in vacated'[p]
                 PROVE raced'[p]
      BY DEF RestoreHonoursDelete
    <2>1. CASE cursor[p] = s
      BY <2>1 DEF OperatorEmpties, TypeInv, TypeOK
    <2>2. CASE cursor[p] # s
      <3>1. cursor[p] \in vacated[p]
        BY <2>2 DEF OperatorEmpties, TypeInv, TypeOK
      <3>2. raced[p]
        BY <3>1 DEF DeleteInv, RestoreHonoursDelete
      <3> QED BY <1>1, <3>2
    <2> QED BY <2>1, <2>2
  <1>5. marker' <= now' /\ opKind' \in MarkingKinds
    BY DEF DeleteInv, MarkedPhase
  <1>6. (\A p \in Pushes : at[p] <= now)'
    BY DEF DeleteInv
  <1>7. (\A p \in InFlight : now - at[p] <= PushWindow)'
    BY <1>2 DEF DeleteInv
  <1>8. (\A p \in InFlight : MarkedPhase => Marked(p))'
    BY <1>2, <1>3
  <1>9. (\A p \in InFlight : vacated[p] # {} => Marked(p))'
    BY <1>2, <1>3
  <1> QED BY <1>4, <1>5, <1>6, <1>7, <1>8, <1>9 DEF DeleteInv

LEMMA DeleteOperator ==
    ASSUME Kinds \cap {"revert", "reorder"} = {}, TypeInv, DeleteInv, Operator
    PROVE  DeleteInv'
  <1> USE DEF clockVars, pushVars, ghostVars, diskVars
  <1>1. ASSUME NEW s \in Slots, NEW c \in Art, OpSave(s, c) PROVE DeleteInv'
    <2>1. \A p \in Pushes : vacated'[p] \subseteq vacated[p]
      BY <1>1 DEF OpSave, Fills, TypeInv, TypeOK
    <2> QED BY <1>1, <2>1, DeleteQuiet DEF OpSave, Fills, opVars, MarkedPhase, DeleteInv
  <1>2. CASE OpDelete \/ OpDeleteAll \/ OpRevert \/ OpReorder
    <2>1. PICK kind \in {"delete", "deleteAll", "revert", "reorder"} :
              \E doom, ord, first : /\ OpBegin(kind, doom, ord, first)
                                    /\ kind \in MarkingKinds => first = "mark"
      BY <1>2 DEF OpDelete, OpDeleteAll, OpRevert, OpReorder, MarkingKinds
    <2>2. kind \in MarkingKinds
      BY <2>1 DEF OpBegin, MarkingKinds
    <2>3. opPc' = "mark" /\ opKind' = kind
          /\ UNCHANGED <<now, marker, pc, at, cursor, why, raced, vacated>>
      BY <2>1, <2>2 DEF OpBegin
    <2> QED BY <2>2, <2>3, DeleteQuiet DEF MarkedPhase
  <1>3. CASE OpMark
    <2>1. InFlight' = InFlight /\ UNCHANGED <<now, pc, at, vacated, cursor, why, raced, opKind>>
          /\ marker' = now
      BY <1>3 DEF OpMark, InFlight
    <2>2. \A p \in Pushes : Marked(p)'
      BY <2>1 DEF Marked, DeleteInv, TypeInv, TypeOK
    <2>3. RestoreHonoursDelete' /\ opKind' \in MarkingKinds
      BY <1>3, <2>1 DEF DeleteInv, RestoreHonoursDelete, OpMark
    <2>4. marker' <= now'
      BY <2>1 DEF TypeInv, TypeOK
    <2> QED BY <2>1, <2>2, <2>3, <2>4 DEF DeleteInv, InFlight
  <1>4. ASSUME NEW s \in Slots, OpUnlink(s) PROVE DeleteInv'
    BY <1>4, DeleteEmpties DEF OpUnlink, MarkedPhase, DeleteInv
  <1>5. ASSUME NEW s \in Slots, OpUnlinkFails(s) PROVE DeleteInv'
    BY <1>5, DeleteQuiet DEF OpUnlinkFails, MarkedPhase, DeleteInv
  <1>6. CASE OpRenumber
    BY <1>6, DeleteQuiet DEF OpRenumber, MarkedPhase, DeleteInv
  <1>7. CASE OpFinish \/ OpStageBlocked
    BY <1>7, DeleteQuiet DEF OpFinish, OpStageBlocked, OpReturn, MarkedPhase, DeleteInv
  <1>8. CASE OpStage
    <2>1. order[idx] \in Slots
      BY <1>8 DEF OpStage, TypeInv, TypeOK, RequestOK
    <2> QED BY <1>8, <2>1, DeleteEmpties DEF OpStage, MarkedPhase, DeleteInv
  <1>9. CASE OpStageFails \/ OpPlaceFails
    BY <1>9, DeleteQuiet DEF OpStageFails, OpPlaceFails, OpReturn, MarkedPhase, DeleteInv
  <1>10. CASE OpPlace
    <2>1. \A p \in Pushes : vacated'[p] \subseteq vacated[p]
      BY <1>10 DEF OpPlace, Fills, TypeInv, TypeOK
    <2>2. UNCHANGED <<now, marker, pc, at, cursor, why, raced>>
      BY <1>10 DEF OpPlace, Fills
    <2>3. /\ opPc' # "idle" => opKind' \in MarkingKinds
          /\ MarkedPhase' => MarkedPhase
      BY <1>10 DEF OpPlace, OpReturn, MarkedPhase, DeleteInv
    <2> QED BY <2>1, <2>2, <2>3, DeleteQuiet
  <1>11. CASE OpRetract
    <2>1. idx - 1 \in Slots
      BY <1>11 DEF OpRetract, TypeInv, TypeOK, RequestOK, Slots
    <2>2. UNCHANGED <<now, marker, pc, at, cursor, why, opKind>>
      BY <1>11 DEF OpRetract
    <2>3. opPc # "idle" /\ opPc' \in {"retract", "unstage"} /\ MarkedPhase
      BY <1>11 DEF OpRetract, MarkedPhase, DeleteInv
    <2>4. CASE OperatorEmpties(idx - 1)
      BY <2>1, <2>2, <2>3, <2>4, DeleteEmpties
    <2>5. CASE UNCHANGED <<vacated, raced>>
      BY <2>2, <2>3, <2>5, DeleteQuiet DEF DeleteInv
    <2> QED BY <1>11, <2>4, <2>5 DEF OpRetract
  <1>12. CASE OpUnstage
    <2>1. \A p \in Pushes : vacated'[p] \subseteq vacated[p]
      BY <1>12 DEF OpUnstage, Fills, TypeInv, TypeOK
    <2>2. UNCHANGED <<now, marker, pc, at, cursor, why, raced>>
      BY <1>12 DEF OpUnstage, Fills
    <2>3. /\ opPc' # "idle" => opKind' \in MarkingKinds
          /\ MarkedPhase' => MarkedPhase
      BY <1>12 DEF OpUnstage, OpReturn, MarkedPhase, DeleteInv
    <2> QED BY <2>1, <2>2, <2>3, DeleteQuiet
  <1> QED BY <1>1, <1>2, <1>3, <1>4, <1>5, <1>6, <1>7, <1>8, <1>9, <1>10, <1>11, <1>12
          DEF Operator

\* A push that begins takes the clock for its baseline: an earlier marker of a
\* delete still under way would not stop it, and raced says so.
LEMMA DeleteStart ==
    ASSUME TypeInv, DeleteInv, NEW p \in Pushes, PushStart(p) PROVE DeleteInv'
  <1> USE DEF PushStart, PushFrame, clockVars, opVars
  <1>1. /\ UNCHANGED <<now, marker, opPc, opKind>>
        /\ \A q \in Pushes \ {p} : /\ pc'[q] = pc[q] /\ at'[q] = at[q] /\ raced'[q] = raced[q]
                                   /\ vacated'[q] = vacated[q] /\ cursor'[q] = cursor[q]
        /\ why' = why
    BY DEF TypeInv, TypeOK
  <1>2. /\ pc'[p] = "discover" /\ at'[p] = now /\ vacated'[p] = {}
        /\ raced'[p] = (MarkedPhase /\ now > marker)
    BY DEF TypeInv, TypeOK
  <1>3. MarkedPhase' = MarkedPhase
    BY <1>1 DEF MarkedPhase
  <1>4. now \in Nat /\ marker \in Int
    BY DEF TypeInv, TypeOK, NoMark
  <1>5. RestoreHonoursDelete'
    BY <1>1, <1>2 DEF DeleteInv, RestoreHonoursDelete
  <1>6. (\A q \in Pushes : at[q] <= now)' /\ (\A q \in InFlight : now - at[q] <= PushWindow)'
    BY <1>1, <1>2, <1>4 DEF DeleteInv, InFlight
  <1>7. (\A q \in InFlight : MarkedPhase => Marked(q))'
    <2>1. MarkedPhase => Marked(p)'
      <3> SUFFICES ASSUME MarkedPhase PROVE Marked(p)'
        OBVIOUS
      <3>1. CASE now > marker
        <4>1. raced'[p]
          BY <1>2, <3>1, Zenon
        <4> QED BY <4>1 DEF Marked
      <3>2. CASE ~(now > marker)
        BY <1>1, <1>2, <1>4, <3>2 DEF Marked
      <3> QED BY <3>1, <3>2
    <2>2. \A q \in Pushes \ {p} : q \in InFlight' => q \in InFlight /\ Marked(q)' = Marked(q)
      BY <1>1 DEF InFlight, Marked
    <2> QED BY <1>3, <2>1, <2>2 DEF DeleteInv, InFlight
  <1>8. (\A q \in InFlight : vacated[q] # {} => Marked(q))'
    BY <1>1, <1>2 DEF DeleteInv, InFlight, Marked
  <1> QED BY <1>1, <1>5, <1>6, <1>7, <1>8 DEF DeleteInv

\* A marker that a push must respect is at or after its baseline and, because the
\* push is still inside its window, not older than the retention.
LEMMA GateStandsDown ==
    ASSUME TypeInv, DeleteInv, NEW p \in InFlight, marker >= at[p]
    PROVE  DeleteIntentAfter(at[p])
  BY DEF TypeInv, TypeOK, DeleteInv, InFlight, DeleteIntentAfter, NoMark

LEMMA DeletePush ==
    ASSUME TypeInv, DeleteInv, NEW p \in Pushes, PushStep(p) PROVE DeleteInv'
  <1>1. /\ UNCHANGED <<now, marker, opPc, opKind, at, raced>>
        /\ \A q \in Pushes : vacated'[q] \subseteq vacated[q]
        /\ \A q \in Pushes \ {p} : pc'[q] = pc[q] /\ cursor'[q] = cursor[q] /\ why'[q] = why[q]
        /\ p \in InFlight
    <2> USE DEF PushFrame, clockVars, opVars, ghostVars, TypeInv, TypeOK, InFlight
    <2>1. CASE PushDiscover(p)
      BY <2>1 DEF PushDiscover
    <2>2. CASE PushCapture(p) \/ PushCaptureAborts(p) \/ PushCaptured(p) \/ PushUploaded(p)
      BY <2>2 DEF PushCapture, PushCaptureAborts, PushCaptured, PushUploaded
    <2>3. ASSUME NEW c \in Peers, PushUpload(p, c) \/ PushSkip(p, c)
          PROVE <1>1!1 /\ <1>1!2 /\ <1>1!3 /\ <1>1!4
      BY <2>3 DEF PushUpload, PushSkip
    <2>4. CASE PushVerify(p)
      BY <2>4 DEF PushVerify
    <2>5. CASE PushGate(p)
      BY <2>5 DEF PushGate
    <2>6. CASE PushRestore(p)
      BY <2>6 DEF PushRestore, Fills
    <2>7. CASE PushRestoreFails(p) \/ PushEndPass(p) \/ PushSettled(p)
      BY <2>7 DEF PushRestoreFails, PushEndPass, PushSettled
    <2> QED BY <2>1, <2>2, <2>3, <2>4, <2>5, <2>6, <2>7 DEF PushStep
  <1>2. MarkedPhase' = MarkedPhase
    BY <1>1 DEF MarkedPhase
  <1>3. InFlight' \subseteq InFlight
    BY <1>1 DEF InFlight
  <1>4. pc'[p] = "restore" /\ why'[p] = "deleted" /\ cursor'[p] \in vacated'[p] => raced'[p]
    <2> SUFFICES ASSUME pc'[p] = "restore", why'[p] = "deleted" PROVE
                        cursor'[p] \in vacated'[p] => raced'[p]
      OBVIOUS
    <2>1. PushGate(p) /\ ~DeleteIntentAfter(at[p])
      <3> USE DEF PushFrame, TypeInv, TypeOK
      <3>1. /\ ~PushDiscover(p) /\ ~PushCapture(p) /\ ~PushCaptureAborts(p)
            /\ ~PushCaptured(p) /\ ~PushUploaded(p)
        BY DEF PushDiscover, PushCapture, PushCaptureAborts, PushCaptured, PushUploaded,
               ghostVars
      <3>2. \A c \in Peers : ~PushUpload(p, c) /\ ~PushSkip(p, c)
        BY DEF PushUpload, PushSkip, ghostVars
      <3>3. ~PushVerify(p)
        BY DEF PushVerify
      <3>4. ~PushRestore(p) /\ ~PushRestoreFails(p) /\ ~PushEndPass(p) /\ ~PushSettled(p)
        BY DEF PushRestore, PushRestoreFails, PushEndPass, PushSettled
      <3>5. PushGate(p)
        BY <3>1, <3>2, <3>3, <3>4 DEF PushStep
      <3> QED BY <3>5 DEF PushGate
    <2>2. ~(marker >= at[p])
      BY <1>1, <2>1, GateStandsDown
    <2>3. vacated[p] # {} => raced[p]
      BY <1>1, <2>2 DEF DeleteInv, Marked
    <2> QED BY <1>1, <2>3
  <1>5. RestoreHonoursDelete'
    BY <1>1, <1>4 DEF DeleteInv, RestoreHonoursDelete
  <1>6. (\A q \in InFlight : MarkedPhase => Marked(q))'
    BY <1>1, <1>2, <1>3 DEF DeleteInv, Marked
  <1>7. (\A q \in InFlight : vacated[q] # {} => Marked(q))'
    BY <1>1, <1>3 DEF DeleteInv, Marked, InFlight
  <1>8. (\A q \in Pushes : at[q] <= now)' /\ (\A q \in InFlight : now - at[q] <= PushWindow)'
    BY <1>1, <1>3 DEF DeleteInv
  <1> QED BY <1>1, <1>5, <1>6, <1>7, <1>8 DEF DeleteInv

LEMMA DeleteStep ==
    ASSUME Kinds \cap {"revert", "reorder"} = {}, TypeInv, DeleteInv, [Next]_vars
    PROVE  DeleteInv'
  <1>1. CASE Tick
    <2>1. /\ UNCHANGED <<marker, opPc, opKind, pc, at, vacated, raced, cursor, why>>
          /\ now' = now + 1 /\ now \in Nat /\ marker \in Int
          /\ \A p \in Pushes : at[p] \in Nat
          /\ \A p \in InFlight : now + 1 - at[p] <= PushWindow
      BY <1>1 DEF Tick, opVars, pushVars, ghostVars, TypeInv, TypeOK, NoMark
    <2>2. InFlight' = InFlight /\ MarkedPhase' = MarkedPhase
      BY <2>1 DEF InFlight, MarkedPhase
    <2>3. RestoreHonoursDelete'
      BY <2>1 DEF DeleteInv, RestoreHonoursDelete
    <2>4. (\A p \in InFlight : MarkedPhase => Marked(p))'
          /\ (\A p \in InFlight : vacated[p] # {} => Marked(p))'
      BY <2>1, <2>2 DEF DeleteInv, Marked
    <2>5. marker' <= now' /\ (\A p \in Pushes : at[p] <= now)'
      BY <2>1 DEF DeleteInv
    <2>6. (\A p \in InFlight : now - at[p] <= PushWindow)'
      BY <2>1, <2>2 DEF InFlight
    <2> QED BY <2>1, <2>3, <2>4, <2>5, <2>6 DEF DeleteInv
  <1>2. CASE Peer
    <2>1. UNCHANGED <<now, marker, opPc, opKind, pc, at, cursor, why, raced, vacated>>
      BY <1>2 DEF Peer, PeerDelete, PeerOverwrite, clockVars, opVars, pushVars
    <2> QED BY <2>1, DeleteQuiet DEF MarkedPhase, DeleteInv
  <1>3. CASE UNCHANGED vars
    <2>1. UNCHANGED <<now, marker, opPc, opKind, pc, at, cursor, why, raced, vacated>>
      BY <1>3 DEF vars, clockVars, opVars, pushVars, ghostVars
    <2> QED BY <2>1, DeleteQuiet DEF MarkedPhase, DeleteInv
  <1> QED BY <1>1, <1>2, <1>3, DeleteOperator, DeleteStart, DeletePush DEF Next

\* When every request that empties or moves slots is one that marks its intent (no
\* revert, no reorder), the missing-file branch of reassertLocalImage never refills
\* a slot the operator emptied during the push, but for the pushes named in raced:
\* whatever the peers delete or overwrite, whatever fails, however many pushes
\* overlap and however the renumber interleaves with them.
THEOREM DeletesHonoured ==
    ASSUME Kinds \cap {"revert", "reorder"} = {}
    PROVE  Spec => []RestoreHonoursDelete
  <1>1. Init => TypeInv /\ DeleteInv
    BY TypeInit, DeleteInit
  <1>2. TypeInv /\ DeleteInv /\ [Next]_vars => (TypeInv /\ DeleteInv)'
    BY TypeStep, DeleteStep
  <1>3. DeleteInv => RestoreHonoursDelete
    BY DEF DeleteInv
  <1> QED BY <1>1, <1>2, <1>3, PTL DEF Spec


----------------------------------------------------------------------------
(* What any step of a push leaves alone: the two invariants below start     *)
(* from this frame.                                                         *)

\* A step of push p touches no other push's control state or captured bytes, only
\* ever adds to what p is excused from, and writes a file only when it restores.
LEMMA PushFrames ==
    ASSUME TypeInv, NEW p \in Pushes, PushStep(p)
    PROVE  /\ p \in InFlight
           /\ UNCHANGED settleSaved
           /\ \A q \in Pushes \ {p} : /\ pc'[q] = pc[q] /\ cursor'[q] = cursor[q]
                                      /\ pass'[q] = pass[q] /\ snap'[q] = snap[q]
           /\ \A q \in Pushes : excused[q] \subseteq excused'[q]
           /\ PushRestore(p) \/ file' = file
  <1> DEFINE Frame ==
               /\ p \in InFlight
               /\ UNCHANGED settleSaved
               /\ \A q \in Pushes \ {p} : /\ pc'[q] = pc[q] /\ cursor'[q] = cursor[q]
                                          /\ pass'[q] = pass[q] /\ snap'[q] = snap[q]
               /\ \A q \in Pushes : excused[q] \subseteq excused'[q]
               /\ PushRestore(p) \/ file' = file
  <1> SUFFICES Frame
    OBVIOUS
  <1> USE DEF PushFrame, opVars, ghostVars, TypeInv, TypeOK, InFlight
  <1>1. CASE PushDiscover(p)
    BY <1>1 DEF PushDiscover
  <1>2. CASE PushCapture(p)
    BY <1>2 DEF PushCapture
  <1>3. CASE PushCaptureAborts(p) \/ PushCaptured(p) \/ PushUploaded(p)
    BY <1>3 DEF PushCaptureAborts, PushCaptured, PushUploaded
  <1>4. ASSUME NEW c \in Peers, PushUpload(p, c) \/ PushSkip(p, c)
        PROVE Frame
    BY <1>4 DEF PushUpload, PushSkip
  <1>0. ASSUME \/ excused' = excused
               \/ excused' = [excused EXCEPT ![p] = @ \cup {cursor[p]}]
        PROVE  \A q \in Pushes : excused[q] \subseteq excused'[q]
    BY <1>0
  <1>5. CASE PushVerify(p)
    <2>1. \/ excused' = excused
          \/ excused' = [excused EXCEPT ![p] = @ \cup {cursor[p]}]
      BY <1>5 DEF PushVerify
    <2> QED BY <1>0, <1>5, <2>1 DEF PushVerify
  <1>6. CASE PushGate(p)
    <2>1. \/ excused' = excused
          \/ excused' = [excused EXCEPT ![p] = @ \cup {cursor[p]}]
      BY <1>6 DEF PushGate
    <2> QED BY <1>0, <1>6, <2>1 DEF PushGate
  <1>7. CASE PushRestore(p)
    BY <1>7 DEF PushRestore, Fills
  <1>8. CASE PushRestoreFails(p)
    BY <1>0, <1>8 DEF PushRestoreFails
  <1>9. CASE PushEndPass(p) \/ PushSettled(p)
    BY <1>9 DEF PushEndPass, PushSettled
  <1> QED BY <1>9, <1>1, <1>2, <1>3, <1>4, <1>5, <1>6, <1>7, <1>8 DEF PushStep

\* What each verdict of reassertLocalImage's read says of the file it read.
LEMMA VerdictMeans ==
    ASSUME NEW p \in Pushes
    PROVE  /\ Verdict(p) = "skip" => snap[p][cursor[p]] = NoFile
           /\ Verdict(p) = "untouched" => file[cursor[p]] = snap[p][cursor[p]]
           /\ Verdict(p) = "missing" => /\ file[cursor[p]] = NoFile
                                        /\ snap[p][cursor[p]] # NoFile
           /\ Verdict(p) = "differs" => /\ snap[p][cursor[p]] # NoFile
                                        /\ file[cursor[p]] \notin {snap[p][cursor[p]], NoFile}
  <1> DEFINE had == snap[p][cursor[p]]
             has == file[cursor[p]]
  <1>1. CASE had = NoFile
    BY <1>1 DEF Verdict
  <1>2. CASE had # NoFile /\ has = had
    BY <1>2 DEF Verdict
  <1>3. CASE had # NoFile /\ has # had /\ has = NoFile
    BY <1>3 DEF Verdict
  <1>4. CASE had # NoFile /\ has # had /\ has # NoFile
    BY <1>4 DEF Verdict
  <1> QED BY <1>1, <1>2, <1>3, <1>4

\* A push whose step leaves its bytes, position and pass alone, or moves it on to
\* the gate or to a restore.
LEMMA PushTargets ==
    ASSUME TypeInv, NEW p \in Pushes, PushStep(p), pc'[p] \in {"gate", "restore"}
    PROVE  /\ UNCHANGED <<file, snap, cursor, pass>>
           /\ \/ PushVerify(p) /\ Verdict(p) = "differs" /\ pass[p] = 1
              \/ PushVerify(p) /\ Verdict(p) = "missing"
              \/ PushGate(p) /\ pc[p] = "gate"
  <1> USE DEF PushFrame, TypeInv, TypeOK
  <1>1. /\ ~PushDiscover(p) /\ ~PushCapture(p) /\ ~PushCaptureAborts(p)
        /\ ~PushCaptured(p) /\ ~PushUploaded(p)
    BY DEF PushDiscover, PushCapture, PushCaptureAborts, PushCaptured, PushUploaded,
           ghostVars
  <1>2. \A c \in Peers : ~PushUpload(p, c) /\ ~PushSkip(p, c)
    BY DEF PushUpload, PushSkip, ghostVars
  <1>3. ~PushRestore(p) /\ ~PushRestoreFails(p) /\ ~PushEndPass(p) /\ ~PushSettled(p)
    BY DEF PushRestore, PushRestoreFails, PushEndPass, PushSettled
  <1>4. CASE PushVerify(p)
    BY <1>4 DEF PushVerify
  <1>5. CASE PushGate(p)
    BY <1>5 DEF PushGate
  <1> QED BY <1>1, <1>2, <1>3, <1>4, <1>5 DEF PushStep

----------------------------------------------------------------------------
(* A save made during the settle wait outlives the second pass.            *)
(* SettleSaveSurvives is not inductive: that the second pass only writes   *)
(* where nothing is, and that a saved slot is not empty, has to survive    *)
(* the renumber and its rollbacks, which rename whatever they find, and    *)
(* the other pushes, which write captured bytes: neither may leave an      *)
(* absent file behind.                                                     *)

SettleInv ==
    /\ \A p \in Pushes, s \in Slots : s \in settleSaved[p] => file[s] # NoFile
    /\ \A p \in Pushes :
          pc[p] \in {"gate", "restore"} =>
             /\ snap[p][cursor[p]] # NoFile
             /\ pass[p] = 2 => cursor[p] \notin settleSaved[p]

LEMMA SettleInit == Init => SettleInv
  BY DEF Init, SettleInv

\* A step that leaves the pushes alone, saves nothing during a settle wait and
\* empties no saved slot.
LEMMA SettleQuiet ==
    ASSUME SettleInv, UNCHANGED <<pc, snap, cursor, pass>>,
           \A p \in Pushes : settleSaved'[p] \subseteq settleSaved[p],
           \A p \in Pushes, s \in Slots : s \in settleSaved'[p] => file'[s] # NoFile
    PROVE  SettleInv'
  BY DEF SettleInv

\* A slot whose file goes away is no longer a saved one; the others keep theirs.
LEMMA SettleEmpties ==
    ASSUME TypeInv, SettleInv, UNCHANGED <<pc, snap, cursor, pass>>,
           NEW s \in Slots, file' = [file EXCEPT ![s] = NoFile],
           settleSaved' = [p \in Pushes |-> settleSaved[p] \ {s}]
    PROVE  SettleInv'
  <1>1. \A p \in Pushes, t \in Slots : t \in settleSaved'[p] => file'[t] # NoFile
    BY DEF TypeInv, TypeOK, SettleInv
  <1> QED BY <1>1, SettleQuiet

\* A write of something leaves every saved slot filled.
LEMMA SettleFills ==
    ASSUME TypeInv, SettleInv, UNCHANGED <<pc, snap, cursor, pass, settleSaved>>,
           NEW s \in Slots, NEW c \in Contents, c # NoFile, file' = [file EXCEPT ![s] = c]
    PROVE  SettleInv'
  <1>1. \A p \in Pushes, t \in Slots : t \in settleSaved'[p] => file'[t] # NoFile
    BY DEF TypeInv, TypeOK, SettleInv
  <1> QED BY <1>1, SettleQuiet

LEMMA SettleOperator == TypeInv /\ SettleInv /\ Operator => SettleInv'
  <1> SUFFICES ASSUME TypeInv, SettleInv, Operator PROVE SettleInv'
    OBVIOUS
  <1> USE DEF clockVars, pushVars, ghostVars, diskVars
  <1>0. \A p \in Pushes, s \in Slots : s \in settleSaved[p] => file[s] # NoFile
    BY DEF SettleInv
  <1>1. ASSUME NEW s \in Slots, NEW c \in Art, OpSave(s, c) PROVE SettleInv'
    <2>1. \A p \in Pushes, t \in Slots : t \in settleSaved'[p] => file'[t] # NoFile
      BY <1>0, <1>1 DEF OpSave, TypeInv, TypeOK
    <2>2. \A p \in Pushes : pc[p] \in {"gate", "restore"} => settleSaved'[p] = settleSaved[p]
      BY <1>1 DEF OpSave
    <2>3. UNCHANGED <<pc, snap, cursor, pass>>
      BY <1>1 DEF OpSave
    <2> QED BY <2>1, <2>2, <2>3 DEF SettleInv
  <1>2. CASE OpDelete \/ OpDeleteAll \/ OpRevert \/ OpReorder
    <2>1. PICK kind, doom, ord, first : OpBegin(kind, doom, ord, first)
      BY <1>2 DEF OpDelete, OpDeleteAll, OpRevert, OpReorder
    <2> QED BY <1>0, <2>1, SettleQuiet DEF OpBegin
  <1>3. CASE OpMark \/ OpRenumber \/ OpFinish \/ OpStageFails \/ OpStageBlocked \/ OpPlaceFails
    <2>1. UNCHANGED <<file, pc, snap, cursor, pass, settleSaved>>
      BY <1>3 DEF OpMark, OpRenumber, OpFinish, OpStageFails, OpStageBlocked, OpPlaceFails
    <2> QED BY <1>0, <2>1, SettleQuiet
  <1>4. ASSUME NEW s \in Slots, OpUnlink(s) PROVE SettleInv'
    BY <1>4, SettleEmpties DEF OpUnlink, OperatorEmpties
  <1>5. ASSUME NEW s \in Slots, OpUnlinkFails(s) PROVE SettleInv'
    BY <1>0, <1>5, SettleQuiet DEF OpUnlinkFails
  <1>6. CASE OpStage
    <2>1. order[idx] \in Slots
      BY <1>6 DEF OpStage, TypeInv, TypeOK, RequestOK
    <2> QED BY <1>6, <2>1, SettleEmpties DEF OpStage, OperatorEmpties
  <1>7. CASE OpPlace
    <2>1. idx - 1 \in Slots /\ temp[idx] \in Contents
      BY <1>7 DEF OpPlace, TypeInv, TypeOK, RequestOK, Slots
    <2> QED BY <1>7, <2>1, SettleFills DEF OpPlace
  <1>8. CASE OpRetract
    <2>1. idx - 1 \in Slots /\ UNCHANGED <<pc, snap, cursor, pass>>
      BY <1>8 DEF OpRetract, TypeInv, TypeOK, RequestOK, Slots
    <2>2. CASE file' = [file EXCEPT ![idx - 1] = NoFile] /\ OperatorEmpties(idx - 1)
      BY <2>1, <2>2, SettleEmpties DEF OperatorEmpties
    <2>3. CASE UNCHANGED <<file, settleSaved>>
      BY <1>0, <2>1, <2>3, SettleQuiet
    <2> QED BY <1>8, <2>2, <2>3 DEF OpRetract
  <1>9. CASE OpUnstage
    <2>1. /\ order[idx] \in Slots /\ temp[idx] \in Contents
          /\ UNCHANGED <<pc, snap, cursor, pass, settleSaved>>
      BY <1>9 DEF OpUnstage, TypeInv, TypeOK, RequestOK
    <2>2. CASE temp[idx] # NoFile /\ file' = [file EXCEPT ![order[idx]] = temp[idx]]
      BY <2>1, <2>2, SettleFills
    <2>3. CASE UNCHANGED file
      BY <1>0, <2>1, <2>3, SettleQuiet
    <2> QED BY <1>9, <2>2, <2>3 DEF OpUnstage
  <1> QED BY <1>1, <1>2, <1>3, <1>4, <1>5, <1>6, <1>7, <1>8, <1>9 DEF Operator

LEMMA SettlePush ==
    ASSUME TypeInv, SettleInv, NEW p \in Pushes, PushStart(p) \/ PushStep(p)
    PROVE  SettleInv'
  <1>0. /\ \A q \in Pushes, s \in Slots : s \in settleSaved[q] => file[s] # NoFile
        /\ \A q \in Pushes :
              pc[q] \in {"gate", "restore"} =>
                 /\ snap[q][cursor[q]] # NoFile
                 /\ pass[q] = 2 => cursor[q] \notin settleSaved[q]
    BY DEF SettleInv
  <1>1. CASE PushStart(p)
    <2>1. /\ UNCHANGED file
          /\ pc'[p] = "discover" /\ settleSaved'[p] = {}
          /\ \A q \in Pushes \ {p} :
                /\ pc'[q] = pc[q] /\ cursor'[q] = cursor[q] /\ pass'[q] = pass[q]
                /\ snap'[q] = snap[q] /\ settleSaved'[q] = settleSaved[q]
      BY <1>1 DEF PushStart, TypeInv, TypeOK
    <2> QED BY <1>0, <2>1 DEF SettleInv
  <1>2. CASE PushStep(p)
    <2>1. /\ UNCHANGED settleSaved
          /\ \A q \in Pushes \ {p} : /\ pc'[q] = pc[q] /\ cursor'[q] = cursor[q]
                                     /\ pass'[q] = pass[q] /\ snap'[q] = snap[q]
      BY <1>2, PushFrames
    <2>3. \A q \in Pushes, s \in Slots : s \in settleSaved'[q] => file'[s] # NoFile
      <3>1. CASE PushRestore(p)
        <4>1. cursor[p] \in Slots /\ snap[p][cursor[p]] # NoFile
          BY <1>0, <3>1 DEF PushRestore, TypeInv, TypeOK, PushOK, Slots
        <4> QED BY <1>0, <2>1, <3>1, <4>1 DEF PushRestore, TypeInv, TypeOK
      <3>2. CASE file' = file
        BY <1>0, <2>1, <3>2
      <3> QED BY <1>2, <3>1, <3>2, PushFrames
    <2>4. ASSUME pc'[p] \in {"gate", "restore"}
          PROVE  /\ snap'[p][cursor'[p]] # NoFile
                 /\ pass'[p] = 2 => cursor'[p] \notin settleSaved'[p]
      <3>1. UNCHANGED <<file, snap, cursor, pass, settleSaved>>
        BY <1>2, <2>1, <2>4, PushTargets
      <3>2. CASE PushVerify(p) /\ Verdict(p) = "differs" /\ pass[p] = 1
        BY <3>1, <3>2, VerdictMeans
      <3>3. CASE PushVerify(p) /\ Verdict(p) = "missing"
        <4>1. cursor[p] \in Slots
          BY <3>3 DEF PushVerify, TypeInv, TypeOK, Slots
        <4>2. file[cursor[p]] = NoFile /\ snap[p][cursor[p]] # NoFile
          BY <3>3, VerdictMeans
        <4> QED BY <1>0, <3>1, <4>1, <4>2
      <3>4. CASE PushGate(p) /\ pc[p] = "gate"
        BY <1>0, <3>1, <3>4
      <3> QED BY <1>2, <2>4, <3>2, <3>3, <3>4, PushTargets
    <2> QED BY <1>0, <2>1, <2>3, <2>4 DEF SettleInv
  <1> QED BY <1>1, <1>2

LEMMA SettleStep == TypeInv /\ SettleInv /\ [Next]_vars => SettleInv'
  <1> SUFFICES ASSUME TypeInv, SettleInv, [Next]_vars PROVE SettleInv'
    OBVIOUS
  <1> USE DEF diskVars, opVars, pushVars, ghostVars
  <1>0. \A p \in Pushes, s \in Slots : s \in settleSaved[p] => file[s] # NoFile
    BY DEF SettleInv
  <1>1. CASE Tick \/ UNCHANGED vars
    BY <1>0, <1>1, SettleQuiet DEF Tick, vars
  <1>2. ASSUME NEW p \in Pushes, NEW s \in Slots, PeerDelete(p, s) PROVE SettleInv'
    BY <1>0, <1>2, SettleEmpties DEF PeerDelete
  <1>3. ASSUME NEW p \in Pushes, NEW s \in Slots, PeerOverwrite(p, s) PROVE SettleInv'
    <2>1. PeerBytes \in Contents /\ PeerBytes # NoFile
      BY DEF Contents
    <2> QED BY <1>0, <1>3, <2>1, SettleFills DEF PeerOverwrite
  <1> QED BY <1>1, <1>2, <1>3, SettleOperator, SettlePush DEF Next, Peer

\* The second pass of a repair (repairScope, repairMissingOnly) never writes over an
\* image the operator saved while the push waited for the peers to settle: for any
\* number of slots, pushes and peers, whatever renumbers, restores and late deletes
\* run in between, and whatever fails.
THEOREM SettleSavesSurvive == Spec => []SettleSaveSurvives
  <1>1. Init => TypeInv /\ SettleInv
    BY TypeInit, SettleInit
  <1>2. TypeInv /\ SettleInv /\ [Next]_vars => (TypeInv /\ SettleInv)'
    BY TypeStep, SettleStep
  <1>3. SettleInv => SettleSaveSurvives
    BY DEF SettleInv, SettleSaveSurvives
  <1> QED BY <1>1, <1>2, <1>3, PTL DEF Spec


----------------------------------------------------------------------------
(* The repair is complete.  RepairComplete speaks of the step that ends a   *)
(* push; what makes it true is what each look has established about the    *)
(* slots behind the cursor: after the first look a captured file is its    *)
(* bytes or gone, after the second it is its bytes.                        *)

\* Slot s is as far repaired as push p has looked, or p is not answerable for it.
RepairedSoFar(p, s) ==
    snap[p][s] # NoFile /\ s \notin excused[p] =>
       /\ LookedPast(p, s, 1) => file[s] \in {snap[p][s], NoFile}
       /\ LookedPast(p, s, 2) => file[s] = snap[p][s]

RepairInv ==
    /\ \A p \in Pushes :
          /\ pc[p] \in {"discover", "capture", "upload"} => pass[p] = 0 /\ cursor[p] = 0
          /\ pc[p] = "settle" => cursor[p] = NumSlots
    /\ \A p \in InFlight, s \in Slots : RepairedSoFar(p, s)

LEMMA RepairInit == Init => RepairInv
  BY DEF Init, RepairInv, InFlight

\* A step that leaves push p alone and either leaves the slot as it is or excuses p
\* from it.
LEMMA RepairedStays ==
    ASSUME NEW p \in Pushes, NEW s \in Slots, RepairedSoFar(p, s),
           pass'[p] = pass[p], cursor'[p] = cursor[p], snap'[p] = snap[p],
           excused[p] \subseteq excused'[p],
           \/ file'[s] = file[s]
           \/ snap[p][s] # NoFile => s \in excused'[p]
    PROVE  RepairedSoFar(p, s)'
  BY DEF RepairedSoFar, LookedPast

\* A step of the operator, who excuses every push from what he changes.
LEMMA RepairQuiet ==
    ASSUME RepairInv, UNCHANGED <<pc, pass, cursor, snap>>,
           \A p \in Pushes : excused[p] \subseteq excused'[p],
           \A p \in InFlight, s \in Slots :
              file'[s] = file[s] \/ (snap[p][s] # NoFile => s \in excused'[p])
    PROVE  RepairInv'
  <1>1. InFlight' = InFlight /\ InFlight \subseteq Pushes
    BY DEF InFlight
  <1>2. ASSUME NEW p \in InFlight, NEW s \in Slots PROVE RepairedSoFar(p, s)'
    <2>1. RepairedSoFar(p, s)
      BY DEF RepairInv
    <2> QED BY <1>1, <2>1, RepairedStays
  <1> QED BY <1>1, <1>2 DEF RepairInv

LEMMA RepairEmpties ==
    ASSUME TypeInv, RepairInv, UNCHANGED <<pc, pass, cursor, snap>>,
           NEW s \in Slots, file' = [file EXCEPT ![s] = NoFile], OperatorEmpties(s)
    PROVE  RepairInv'
  <1>1. \A p \in Pushes : excused[p] \subseteq excused'[p]
    BY DEF OperatorEmpties
  <1>2. \A p \in InFlight : snap[p][s] # NoFile => s \in excused'[p]
    BY DEF OperatorEmpties, Captured, InFlight
  <1>3. \A t \in Slots : t # s => file'[t] = file[t]
    BY DEF TypeInv, TypeOK
  <1> QED BY <1>1, <1>2, <1>3, RepairQuiet

LEMMA RepairFills ==
    ASSUME TypeInv, RepairInv, UNCHANGED <<pc, pass, cursor, snap>>,
           NEW s \in Slots, NEW c, file' = [file EXCEPT ![s] = c], Fills(s, {})
    PROVE  RepairInv'
  <1>1. \A p \in Pushes : excused[p] \subseteq excused'[p]
    BY DEF Fills
  <1>2. \A p \in InFlight : snap[p][s] # NoFile => s \in excused'[p]
    BY DEF Fills, Captured, InFlight
  <1>3. \A t \in Slots : t # s => file'[t] = file[t]
    BY DEF TypeInv, TypeOK
  <1> QED BY <1>1, <1>2, <1>3, RepairQuiet

LEMMA RepairOperator == TypeInv /\ RepairInv /\ Operator => RepairInv'
  <1> SUFFICES ASSUME TypeInv, RepairInv, Operator PROVE RepairInv'
    OBVIOUS
  <1> USE DEF clockVars, pushVars, ghostVars, diskVars
  <1>1. ASSUME NEW s \in Slots, NEW c \in Art, OpSave(s, c) PROVE RepairInv'
    BY <1>1, RepairFills DEF OpSave
  <1>2. CASE OpDelete \/ OpDeleteAll \/ OpRevert \/ OpReorder
    <2>1. PICK kind, doom, ord, first : OpBegin(kind, doom, ord, first)
      BY <1>2 DEF OpDelete, OpDeleteAll, OpRevert, OpReorder
    <2> QED BY <2>1, RepairQuiet DEF OpBegin
  <1>3. CASE OpMark \/ OpRenumber \/ OpFinish \/ OpStageFails \/ OpStageBlocked \/ OpPlaceFails
    BY <1>3, RepairQuiet DEF OpMark, OpRenumber, OpFinish, OpStageFails, OpStageBlocked,
                             OpPlaceFails
  <1>4. ASSUME NEW s \in Slots, OpUnlink(s) PROVE RepairInv'
    BY <1>4, RepairEmpties DEF OpUnlink
  <1>5. ASSUME NEW s \in Slots, OpUnlinkFails(s) PROVE RepairInv'
    BY <1>5, RepairQuiet DEF OpUnlinkFails
  <1>6. CASE OpStage
    <2>1. order[idx] \in Slots
      BY <1>6 DEF OpStage, TypeInv, TypeOK, RequestOK
    <2> QED BY <1>6, <2>1, RepairEmpties DEF OpStage
  <1>7. CASE OpPlace
    <2>1. idx - 1 \in Slots
      BY <1>7 DEF OpPlace, TypeInv, TypeOK, RequestOK, Slots
    <2> QED BY <1>7, <2>1, RepairFills DEF OpPlace
  <1>8. CASE OpRetract
    <2>1. idx - 1 \in Slots /\ UNCHANGED <<pc, pass, cursor, snap>>
      BY <1>8 DEF OpRetract, TypeInv, TypeOK, RequestOK, Slots
    <2>2. CASE file' = [file EXCEPT ![idx - 1] = NoFile] /\ OperatorEmpties(idx - 1)
      BY <2>1, <2>2, RepairEmpties
    <2>3. CASE UNCHANGED <<file, excused>>
      BY <2>1, <2>3, RepairQuiet
    <2> QED BY <1>8, <2>2, <2>3 DEF OpRetract
  <1>9. CASE OpUnstage
    <2>1. order[idx] \in Slots /\ UNCHANGED <<pc, pass, cursor, snap>>
      BY <1>9 DEF OpUnstage, TypeInv, TypeOK, RequestOK
    <2>2. CASE file' = [file EXCEPT ![order[idx]] = temp[idx]] /\ Fills(order[idx], {})
      BY <2>1, <2>2, RepairFills
    <2>3. CASE UNCHANGED <<file, excused>>
      BY <2>1, <2>3, RepairQuiet
    <2> QED BY <1>9, <2>2, <2>3 DEF OpUnstage
  <1> QED BY <1>1, <1>2, <1>3, <1>4, <1>5, <1>6, <1>7, <1>8, <1>9 DEF Operator

\* A push moves on from a slot it is not answerable for, or whose file is its
\* bytes, or which the second pass finds as the first one left it.
LEMMA RepairAdvances ==
    ASSUME TypeInv, RepairInv, NEW p \in InFlight, NEW s \in Slots, cursor[p] < NumSlots,
           pass[p] \in 1..2, pass'[p] = pass[p], snap'[p] = snap[p],
           excused[p] \subseteq excused'[p],
           cursor'[p] = cursor[p] + 1,
           s # cursor[p] => file'[s] = file[s],
           s = cursor[p] => \/ snap[p][s] = NoFile
                            \/ s \in excused'[p]
                            \/ file'[s] = snap[p][s]
    PROVE  RepairedSoFar(p, s)'
  <1>0. RepairedSoFar(p, s)
    BY DEF RepairInv
  <1>1. cursor[p] \in Nat /\ s \in Nat /\ pass[p] \in Nat
    BY DEF TypeInv, TypeOK, Slots, InFlight
  <1>2. CASE s # cursor[p]
    <2>1. LookedPast(p, s, 1)' => LookedPast(p, s, 1)
      BY <1>1, <1>2 DEF LookedPast
    <2>2. LookedPast(p, s, 2)' => LookedPast(p, s, 2)
      BY <1>1, <1>2 DEF LookedPast
    <2> QED BY <1>0, <1>2, <2>1, <2>2 DEF RepairedSoFar
  <1>3. CASE s = cursor[p]
    BY <1>3 DEF RepairedSoFar
  <1> QED BY <1>2, <1>3

\* The push that steps: what it has looked past is repaired as far as that look.
LEMMA RepairOwn ==
    ASSUME TypeInv, RepairInv, NEW p \in Pushes, PushStep(p), p \in InFlight',
           NEW s \in Slots
    PROVE  RepairedSoFar(p, s)'
  <1> USE DEF PushFrame, ghostVars
  <1>0. /\ p \in InFlight /\ excused[p] \subseteq excused'[p]
        /\ PushRestore(p) \/ file' = file
    BY PushFrames
  <1>t. /\ cursor[p] \in 0..NumSlots /\ pass[p] \in 0..2 /\ s \in 0..(NumSlots - 1)
        /\ cursor \in [Pushes -> 0..NumSlots] /\ pass \in [Pushes -> 0..2]
        /\ excused \in [Pushes -> SUBSET Slots]
        /\ pc \in [Pushes -> PushPcs]
        /\ pc[p] \in {"verify", "gate", "restore"} => pass[p] \in 1..2
        /\ pc[p] = "settle" => pass[p] = 1
        /\ pc[p] \in {"gate", "restore"} => cursor[p] < NumSlots
    BY DEF TypeInv, TypeOK, PushOK, Slots, PushPcs
  <1>r. /\ pc[p] \in {"discover", "capture", "upload"} => pass[p] = 0 /\ cursor[p] = 0
        /\ pc[p] = "settle" => cursor[p] = NumSlots
        /\ RepairedSoFar(p, s)
    BY <1>0 DEF RepairInv
  <1>1. CASE PushDiscover(p) \/ PushCapture(p) \/ PushCaptureAborts(p) \/ PushCaptured(p)
    <2>1. pass'[p] = 0
      BY <1>1, <1>r DEF PushDiscover, PushCapture, PushCaptureAborts, PushCaptured
    <2> QED BY <2>1 DEF RepairedSoFar, LookedPast
  <1>2. ASSUME NEW c \in Peers, PushUpload(p, c) \/ PushSkip(p, c) PROVE RepairedSoFar(p, s)'
    BY <1>0, <1>2, <1>r, RepairedStays DEF PushUpload, PushSkip
  <1>3. CASE PushUploaded(p)
    <2>1. pass'[p] \in {0, 1} /\ cursor'[p] = 0
      BY <1>3, <1>r, <1>t DEF PushUploaded
    <2> QED BY <1>t, <2>1 DEF RepairedSoFar, LookedPast
  <1>4. CASE PushVerify(p)
    <2>0. UNCHANGED <<file, snap, pass>> /\ cursor[p] < NumSlots /\ pass[p] \in 1..2
      BY <1>4, <1>t DEF PushVerify
    <2>1. CASE UNCHANGED cursor
      BY <1>0, <1>r, <2>0, <2>1, RepairedStays
    <2>2. CASE cursor' = [cursor EXCEPT ![p] = @ + 1]
      <3>1. cursor'[p] = cursor[p] + 1
        BY <1>t, <2>2
      <3>2. \/ Verdict(p) \in {"skip", "untouched"}
            \/ Verdict(p) = "differs" /\ pass[p] = 2
            \/ excused' = [excused EXCEPT ![p] = @ \cup {cursor[p]}]
        BY <1>4, <1>t, <3>1 DEF PushVerify
      <3>3. s = cursor[p] => \/ snap[p][s] = NoFile
                             \/ s \in excused'[p]
                             \/ file'[s] = snap[p][s]
        <4> SUFFICES ASSUME s = cursor[p], snap[p][s] # NoFile
                     PROVE s \in excused'[p] \/ file'[s] = snap[p][s]
          OBVIOUS
        <4>1. CASE Verdict(p) \in {"skip", "untouched"}
          BY <2>0, <4>1, VerdictMeans
        <4>2. CASE Verdict(p) = "differs" /\ pass[p] = 2
          <5>1. file[s] \notin {snap[p][s], NoFile}
            BY <4>2, VerdictMeans
          <5>2. LookedPast(p, s, 1)
            BY <4>2 DEF LookedPast
          <5>3. s \in excused[p]
            BY <1>r, <5>1, <5>2 DEF RepairedSoFar
          <5> QED BY <1>0, <5>3
        <4>3. CASE excused' = [excused EXCEPT ![p] = @ \cup {cursor[p]}]
          BY <1>t, <4>3
        <4> QED BY <3>2, <4>1, <4>2, <4>3
      <3> QED BY <1>0, <2>0, <3>1, <3>3, RepairAdvances
    <2> QED BY <1>4, <2>1, <2>2 DEF PushVerify
  <1>5. CASE PushGate(p)
    <2>0. UNCHANGED <<file, snap, pass>> /\ cursor[p] < NumSlots /\ pass[p] \in 1..2
      BY <1>5, <1>t DEF PushGate
    <2>1. CASE UNCHANGED cursor
      BY <1>0, <1>r, <2>0, <2>1, RepairedStays
    <2>2. CASE /\ cursor' = [cursor EXCEPT ![p] = @ + 1]
               /\ excused' = [excused EXCEPT ![p] = @ \cup {cursor[p]}]
      <3>1. cursor'[p] = cursor[p] + 1 /\ cursor[p] \in excused'[p]
        BY <1>t, <2>2
      <3> QED BY <1>0, <2>0, <3>1, RepairAdvances
    <2> QED BY <1>5, <2>1, <2>2 DEF PushGate
  <1>6. CASE PushRestore(p)
    <2>1. /\ UNCHANGED <<snap, pass>> /\ cursor[p] < NumSlots /\ pass[p] \in 1..2
          /\ cursor'[p] = cursor[p] + 1
      BY <1>6, <1>t DEF PushRestore
    <2>2. /\ s # cursor[p] => file'[s] = file[s]
          /\ s = cursor[p] => file'[s] = snap[p][s]
      BY <1>6 DEF PushRestore, TypeInv, TypeOK
    <2> QED BY <1>0, <2>1, <2>2, RepairAdvances
  <1>7. CASE PushRestoreFails(p)
    <2>1. /\ UNCHANGED <<file, snap, pass>> /\ cursor[p] < NumSlots /\ pass[p] \in 1..2
          /\ cursor'[p] = cursor[p] + 1 /\ cursor[p] \in excused'[p]
      BY <1>7, <1>t DEF PushRestoreFails
    <2> QED BY <1>0, <2>1, RepairAdvances
  <1>8. CASE PushEndPass(p)
    BY <1>0, <1>8, <1>r, RepairedStays DEF PushEndPass
  <1>9. CASE PushSettled(p)
    <2>1. /\ UNCHANGED <<file, snap, excused>> /\ pass[p] = 1 /\ cursor[p] = NumSlots
          /\ pass'[p] = 2 /\ cursor'[p] = 0
      BY <1>9, <1>t, <1>r DEF PushSettled
    <2>2. LookedPast(p, s, 1) /\ ~LookedPast(p, s, 2)'
      BY <1>t, <2>1 DEF LookedPast
    <2> QED BY <1>r, <2>1, <2>2 DEF RepairedSoFar
  <1> QED BY <1>1, <1>2, <1>3, <1>4, <1>5, <1>6, <1>7, <1>8, <1>9 DEF PushStep

\* A push's position, as far as RepairInv speaks of it.
LEMMA RepairPosition ==
    ASSUME TypeInv, RepairInv, NEW p \in Pushes, PushStep(p)
    PROVE  /\ pc'[p] \in {"discover", "capture", "upload"} => pass'[p] = 0 /\ cursor'[p] = 0
           /\ pc'[p] = "settle" => cursor'[p] = NumSlots
  <1> USE DEF PushFrame, ghostVars, TypeInv, TypeOK
  <1>r. pc[p] \in {"discover", "capture", "upload"} => pass[p] = 0 /\ cursor[p] = 0
    BY DEF RepairInv
  <1>1. CASE PushDiscover(p) \/ PushCapture(p) \/ PushCaptureAborts(p) \/ PushCaptured(p)
    BY <1>1, <1>r DEF PushDiscover, PushCapture, PushCaptureAborts, PushCaptured
  <1>2. ASSUME NEW c \in Peers, PushUpload(p, c) \/ PushSkip(p, c)
        PROVE /\ pc'[p] = "upload" /\ pass'[p] = 0 /\ cursor'[p] = 0
    BY <1>2, <1>r DEF PushUpload, PushSkip
  <1>3. CASE PushUploaded(p) \/ PushSettled(p)
    BY <1>3 DEF PushUploaded, PushSettled
  <1>4. CASE PushVerify(p) \/ PushGate(p)
    BY <1>4 DEF PushVerify, PushGate
  <1>5. CASE PushRestore(p) \/ PushRestoreFails(p)
    BY <1>5 DEF PushRestore, PushRestoreFails
  <1>6. CASE PushEndPass(p)
    BY <1>6 DEF PushEndPass
  <1> QED BY <1>1, <1>2, <1>3, <1>4, <1>5, <1>6 DEF PushStep

LEMMA RepairPush ==
    ASSUME TypeInv, RepairInv, NEW p \in Pushes, PushStart(p) \/ PushStep(p)
    PROVE  RepairInv'
  <1> DEFINE Position(q) ==
          /\ pc[q] \in {"discover", "capture", "upload"} => pass[q] = 0 /\ cursor[q] = 0
          /\ pc[q] = "settle" => cursor[q] = NumSlots
  <1>0. /\ \A q \in Pushes : Position(q)
        /\ \A q \in InFlight, s \in Slots : RepairedSoFar(q, s)
    BY DEF RepairInv
  <1>1. CASE PushStart(p)
    <2>1. /\ pc'[p] = "discover" /\ pass'[p] = 0 /\ cursor'[p] = 0 /\ file' = file
          /\ \A q \in Pushes \ {p} :
                /\ pc'[q] = pc[q] /\ cursor'[q] = cursor[q] /\ pass'[q] = pass[q]
                /\ snap'[q] = snap[q] /\ excused'[q] = excused[q]
      BY <1>1 DEF PushStart, TypeInv, TypeOK
    <2>2. \A q \in Pushes : Position(q)'
      BY <1>0, <2>1
    <2>3. ASSUME NEW q \in InFlight', NEW s \in Slots PROVE RepairedSoFar(q, s)'
      <3>1. CASE q = p
        BY <2>1, <3>1 DEF RepairedSoFar, LookedPast
      <3>2. CASE q # p
        <4>1. q \in InFlight /\ q \in Pushes
          BY <2>1, <3>2 DEF InFlight
        <4> QED BY <1>0, <2>1, <3>2, <4>1, RepairedStays
      <3> QED BY <3>1, <3>2
    <2> QED BY <2>2, <2>3 DEF RepairInv
  <1>2. CASE PushStep(p)
    <2>1. /\ \A q \in Pushes \ {p} : /\ pc'[q] = pc[q] /\ cursor'[q] = cursor[q]
                                     /\ pass'[q] = pass[q] /\ snap'[q] = snap[q]
          /\ \A q \in Pushes : excused[q] \subseteq excused'[q]
          /\ PushRestore(p) \/ file' = file
      BY <1>2, PushFrames
    <2>2. \A q \in Pushes : Position(q)'
      BY <1>0, <1>2, <2>1, RepairPosition
    <2>3. ASSUME NEW q \in InFlight', NEW s \in Slots PROVE RepairedSoFar(q, s)'
      <3>1. CASE q = p
        BY <1>2, <3>1, RepairOwn DEF InFlight
      <3>2. CASE q # p
        <4>1. q \in InFlight /\ q \in Pushes
          BY <2>1, <3>2 DEF InFlight
        <4>2. file'[s] = file[s] \/ (snap[q][s] # NoFile => s \in excused'[q])
          <5>1. CASE PushRestore(p)
            BY <3>2, <4>1, <5>1 DEF PushRestore, Fills, Captured, TypeInv, TypeOK
          <5> QED BY <2>1, <5>1
        <4> QED BY <1>0, <2>1, <3>2, <4>1, <4>2, RepairedStays
      <3> QED BY <3>1, <3>2
    <2> QED BY <2>2, <2>3 DEF RepairInv
  <1> QED BY <1>1, <1>2

\* A peer that strikes after the last look that could see it excuses the push.
LEMMA RepairPeer == TypeInv /\ RepairInv /\ Peer => RepairInv'
  <1> SUFFICES ASSUME TypeInv, RepairInv, NEW r \in Pushes, NEW t \in Slots,
                      PeerDelete(r, t) \/ PeerOverwrite(r, t)
               PROVE RepairInv'
    BY DEF Peer
  <1>1. /\ UNCHANGED <<pc, pass, cursor, snap>>
        /\ \A q \in Pushes : excused[q] \subseteq excused'[q]
        /\ \A s \in Slots : s # t => file'[s] = file[s]
    <2>1. CASE PeerDelete(r, t)
      BY <2>1 DEF PeerDelete, pushVars, TypeInv, TypeOK
    <2>2. CASE PeerOverwrite(r, t)
      BY <2>2 DEF PeerOverwrite, pushVars, TypeInv, TypeOK
    <2> QED BY <2>1, <2>2
  <1>2. InFlight' = InFlight
    BY <1>1 DEF InFlight
  <1>3. ASSUME NEW q \in InFlight, NEW s \in Slots PROVE RepairedSoFar(q, s)'
    <2>0. RepairedSoFar(q, s) /\ q \in Pushes /\ pass[q] \in 0..2
      BY DEF RepairInv, InFlight, TypeInv, TypeOK
    <2>1. CASE s # t
      BY <1>1, <2>0, <2>1, RepairedStays
    <2>2. CASE s = t /\ PeerDelete(r, t)
      <3>1. file'[s] = NoFile
        BY <2>2 DEF PeerDelete, TypeInv, TypeOK
      <3>2. snap[q][s] # NoFile /\ LookedPast(q, s, 2) => s \in excused'[q]
        BY <2>0, <2>2 DEF PeerDelete, Captured
      <3>3. LookedPast(q, s, 2)' = LookedPast(q, s, 2)
        BY <1>1 DEF LookedPast
      <3> QED BY <1>1, <3>1, <3>2, <3>3 DEF RepairedSoFar
    <2>3. CASE s = t /\ PeerOverwrite(r, t)
      <3>1. snap[q][s] # NoFile /\ LookedPast(q, s, 1) => s \in excused'[q]
        BY <2>0, <2>3 DEF PeerOverwrite, Captured
      <3>2. LookedPast(q, s, 2)' => LookedPast(q, s, 1)
        BY <1>1, <2>0 DEF LookedPast
      <3>3. LookedPast(q, s, 1)' = LookedPast(q, s, 1)
        BY <1>1 DEF LookedPast
      <3> QED BY <1>1, <3>1, <3>2, <3>3 DEF RepairedSoFar
    <2> QED BY <2>1, <2>2, <2>3
  <1> QED BY <1>1, <1>2, <1>3 DEF RepairInv

LEMMA RepairStep == TypeInv /\ RepairInv /\ [Next]_vars => RepairInv'
  <1> SUFFICES ASSUME TypeInv, RepairInv, [Next]_vars PROVE RepairInv'
    OBVIOUS
  <1>1. CASE Tick \/ UNCHANGED vars
    BY <1>1, RepairQuiet DEF Tick, vars, diskVars, opVars, pushVars, ghostVars
  <1> QED BY <1>1, RepairOperator, RepairPush, RepairPeer DEF Next

\* Only the end of the second pass takes a push from its last look to its end.
LEMMA RepairEnds ==
    ASSUME TypeInv, RepairInv, [Next]_vars, NEW p \in Pushes,
           pc[p] = "verify", pc'[p] = "done", NEW s \in Slots,
           snap[p][s] # NoFile, s \notin excused[p]
    PROVE  file[s] = snap[p][s]
  <1>1. pc'[p] # pc[p]
    OBVIOUS
  <1>2. ~Tick /\ ~UNCHANGED vars /\ ~Peer
    BY <1>1 DEF Tick, vars, Peer, PeerDelete, PeerOverwrite, pushVars
  <1>3. ~Operator
    <2>1. Operator => UNCHANGED pc
      BY DEF Operator, OpSave, OpDelete, OpDeleteAll, OpRevert, OpReorder, OpBegin, OpMark,
             OpUnlink, OpUnlinkFails, OpRenumber, OpFinish, OpStage, OpStageFails,
             OpStageBlocked, OpPlace, OpPlaceFails, OpRetract, OpUnstage, pushVars
    <2> QED BY <1>1, <2>1
  <1>4. PICK q \in Pushes : PushStart(q) \/ PushStep(q)
    BY <1>2, <1>3 DEF Next
  <1>5. q = p
    BY <1>1, <1>4, PushFrames DEF PushStart, TypeInv, TypeOK
  <1>6. PushEndPass(p) /\ pass[p] # 1
    <2> USE DEF TypeInv, TypeOK
    <2>1. /\ ~PushStart(p) /\ ~PushDiscover(p) /\ ~PushCapture(p) /\ ~PushCaptureAborts(p)
          /\ ~PushCaptured(p)
      BY DEF PushStart, PushDiscover, PushCapture, PushCaptureAborts, PushCaptured
    <2>2. ~PushUploaded(p) /\ \A c \in Peers : ~PushUpload(p, c) /\ ~PushSkip(p, c)
      BY DEF PushUploaded, PushUpload, PushSkip
    <2>3. ~PushVerify(p)
      BY DEF PushVerify
    <2>4. ~PushGate(p) /\ ~PushRestore(p) /\ ~PushRestoreFails(p) /\ ~PushSettled(p)
      BY DEF PushGate, PushRestore, PushRestoreFails, PushSettled
    <2>5. PushEndPass(p)
      BY <1>4, <1>5, <2>1, <2>2, <2>3, <2>4 DEF PushStep
    <2> QED BY <2>5 DEF PushEndPass
  <1>7. pass[p] = 2 /\ cursor[p] = NumSlots /\ s < NumSlots
    BY <1>6 DEF PushEndPass, TypeInv, PushOK, Slots
  <1>8. LookedPast(p, s, 2)
    BY <1>7 DEF LookedPast, Slots
  <1>9. RepairedSoFar(p, s)
    BY DEF RepairInv, InFlight
  <1> QED BY <1>8, <1>9 DEF RepairedSoFar

\* When repairAfterPush has made its second pass, every file the push captured
\* holds the bytes that were pushed, but for the slots the push is excused from:
\* for any number of slots, pushes and peers, whatever the peers delete or rewrite
\* before the last look that could see it, and whatever the operator does.
THEOREM RepairsAreComplete == Spec => RepairComplete
  <1>1. Init => TypeInv /\ RepairInv
    BY TypeInit, RepairInit
  <1>2. TypeInv /\ RepairInv /\ [Next]_vars => (TypeInv /\ RepairInv)'
    BY TypeStep, RepairStep
  <1>3. TypeInv /\ RepairInv /\ [Next]_vars =>
           [\A p \in Pushes :
               pc[p] = "verify" /\ pc'[p] = "done" =>
                  \A s \in Slots : snap[p][s] # NoFile /\ s \notin excused[p]
                                   => file[s] = snap[p][s]]_vars
    BY RepairEnds
  <1> QED BY <1>1, <1>2, <1>3, PTL DEF Spec, RepairComplete

=============================================================================
