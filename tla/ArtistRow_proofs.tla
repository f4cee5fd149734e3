-------------------------- MODULE ArtistRow_proofs --------------------------
(***************************************************************************)
(* Proofs about ArtistRow, for every set of fields, values, passes,        *)
(* writers and operators, every bound and every fault: what a whole-row    *)
(* write leaves alone, and what the stamps of the rule passes are worth.   *)
(***************************************************************************)
EXTENDS ArtistRow, TLAPS

USE BoundsOK, ActorsDiffer, FieldsDiffer

----------------------------------------------------------------------------
(* Types.                                                                  *)

\* What an actor holds.
Held ==
    [val : [Fields -> Values], field : Fields, grant : BOOLEAN,
     old : [Fields -> Values], locks : SUBSET (Fields \cup {Whole}),
     start : 0..MaxClock, seen : 0..MaxChanges, late : BOOLEAN,
     touched : SUBSET (Fields \cup {Locks})]

PCs == {"idle", "start", "evaluate", "read", "write", "stamp", "mark", "pin"}

LEMMA BlankHeld == Blank \in Held
  <1>1. PICK v \in Values : TRUE
    BY NotEmpty
  <1>2. [f \in Fields |-> v] \in [Fields -> Values]
    BY <1>1
  <1>3. (CHOOSE fs \in [Fields -> Values] : TRUE) \in [Fields -> Values]
    BY <1>2
  <1>4. (CHOOSE f \in Fields : TRUE) \in Fields
    BY NotEmpty
  <1> QED BY <1>3, <1>4 DEF Blank, Held

LEMMA BlankIs == /\ Blank.start = 0 /\ Blank.seen = 0 /\ Blank.late = FALSE
                 /\ Blank.touched = {}
  BY DEF Blank

\* What a step of one actor does to what the others hold.
LEMMA TouchedHeld ==
    ASSUME my \in [Actors -> Held], NEW p \in Actors,
           NEW items \in SUBSET (Fields \cup {Locks})
    PROVE  /\ Touched(p, items) \in [Actors -> Held]
           /\ \A q \in Actors :
                /\ q = p \/ pc[q] # "write" => Touched(p, items)[q] = my[q]
                /\ q # p /\ pc[q] = "write" =>
                     Touched(p, items)[q] = [my[q] EXCEPT !.touched = my[q].touched \cup items]
  <1>1. ASSUME NEW q \in Actors
        PROVE  Touched(p, items)[q] =
                 IF q # p /\ pc[q] = "write"
                 THEN [my[q] EXCEPT !.touched = my[q].touched \cup items] ELSE my[q]
    BY DEF Touched
  <1>2. ASSUME NEW q \in Actors
        PROVE  Touched(p, items)[q] \in Held
    <2>1. my[q] \in Held
      OBVIOUS
    <2>2. my[q].touched \cup items \in SUBSET (Fields \cup {Locks})
      BY <2>1 DEF Held
    <2>3. [my[q] EXCEPT !.touched = my[q].touched \cup items] \in Held
      BY <2>1, <2>2 DEF Held
    <2> QED BY <1>1, <2>1, <2>3
  <1>3. Touched(p, items) \in [Actors -> Held]
    BY <1>2 DEF Touched
  <1> QED BY <1>1, <1>3

LEMMA LaterHeld ==
    ASSUME my \in [Actors -> Held], NEW t
    PROVE  /\ Later(t) \in [Actors -> Held]
           /\ \A q \in Actors :
                Later(t)[q] =
                  IF q \in Passes /\ pc[q] \in {"evaluate", "read", "write", "stamp"}
                     /\ t > my[q].start
                  THEN [my[q] EXCEPT !.late = TRUE] ELSE my[q]
  <1>1. ASSUME NEW q \in Actors
        PROVE  [my[q] EXCEPT !.late = TRUE] \in Held
    BY DEF Held
  <1> QED BY <1>1 DEF Later

LEMMA LaterSame ==
    ASSUME my \in [Actors -> Held], NEW t, NEW q \in Actors
    PROVE  /\ Later(t)[q].locks = my[q].locks /\ Later(t)[q].old = my[q].old
           /\ Later(t)[q].touched = my[q].touched /\ Later(t)[q].start = my[q].start
  <1>1. my[q] \in Held
    OBVIOUS
  <1>2. Later(t)[q] = my[q] \/ Later(t)[q] = [my[q] EXCEPT !.late = TRUE]
    BY LaterHeld
  <1> QED BY <1>1, <1>2 DEF Held

LEMMA EnforcedType ==
    ASSUME my \in [Actors -> Held], NEW p \in Actors
    PROVE  Enforced(p) \in [Fields -> Values]
  BY DEF Enforced, Held

\* TypeOK, with what an actor holds and its program counters under a name.
TypeInv ==
    /\ clock \in 1..MaxClock
    /\ val \in [Fields -> Values] /\ pins \subseteq Fields \cup {Whole}
    /\ dirtySince \in 0..MaxClock /\ evaluatedAt \in 0..MaxClock /\ bus \in 0..BusSize
    /\ pc \in [Actors -> PCs]
    /\ my \in [Actors -> Held]
    /\ ver \in 0..MaxChanges /\ evalVer \in 0..MaxChanges
    /\ started \in 0..MaxClock /\ owed \in BOOLEAN /\ overtaken \in BOOLEAN
    /\ pinned \in 0..MaxChanges

LEMMA InitTyped == Init => TypeInv
  <1> SUFFICES ASSUME Init PROVE TypeInv
    OBVIOUS
  <1>1. my \in [Actors -> Held]
    BY BlankHeld DEF Init
  <1>2. pc \in [Actors -> PCs]
    BY DEF Init, PCs
  <1>3. /\ clock \in 1..MaxClock /\ pinned \in 0..MaxChanges
        /\ dirtySince \in 0..MaxClock /\ evaluatedAt \in 0..MaxClock /\ bus \in 0..BusSize
        /\ ver \in 0..MaxChanges /\ evalVer \in 0..MaxChanges /\ started \in 0..MaxClock
    BY DEF Init
  <1>4. /\ val \in [Fields -> Values] /\ pins \subseteq Fields \cup {Whole}
        /\ owed \in BOOLEAN /\ overtaken \in BOOLEAN
    BY DEF Init
  <1> QED BY <1>1, <1>2, <1>3, <1>4 DEF TypeInv

\* Steps that only move p, and change what p holds.
LEMMA MoveTyped ==
    ASSUME TypeInv, NEW p \in Actors, NEW x \in Held, NEW where \in PCs,
           my' = [my EXCEPT ![p] = x], Goto(p, where),
           UNCHANGED <<clock, row, stamps, bus, ver, evalVer, pinned>>
    PROVE  TypeInv'
  <1>1. my' \in [Actors -> Held] /\ pc' \in [Actors -> PCs]
    BY DEF TypeInv, Goto
  <1> QED BY <1>1 DEF TypeInv, row, stamps

\* A mark, at a time of the clock's.
LEMMA MarksTyped ==
    ASSUME TypeInv, NEW t \in 0..MaxClock, Marks(t)
    PROVE  /\ dirtySince' \in 0..MaxClock /\ evaluatedAt' \in 0..MaxClock
           /\ started' \in 0..MaxClock /\ owed' \in BOOLEAN /\ overtaken' \in BOOLEAN
  BY DEF TypeInv, Marks

\* The whole row is replaced.
LEMMA ReplaceTyped ==
    ASSUME TypeInv, NEW p \in Actors, Replace(p)
    PROVE  /\ val' \in [Fields -> Values] /\ pins' \subseteq Fields \cup {Whole}
           /\ my' \in [Actors -> Held]
  <1> DEFINE items == {f \in Fields : Enforced(p)[f] # val[f]} \cup
                      (IF my[p].locks # pins THEN {Locks} ELSE {})
  <1> DEFINE left == IF p \in Passes
                     THEN [Blank EXCEPT !.start = my[p].start, !.seen = my[p].seen,
                                        !.late = my[p].late]
                     ELSE [Blank EXCEPT !.start = clock]
  <1>1. my \in [Actors -> Held] /\ clock \in 0..MaxClock /\ my[p] \in Held
    BY DEF TypeInv
  <1>2. items \in SUBSET (Fields \cup {Locks})
    OBVIOUS
  <1>3. Touched(p, items) \in [Actors -> Held]
    BY <1>1, <1>2, TouchedHeld
  <1>4. left \in Held
    BY <1>1, BlankHeld DEF Held
  <1>5. my' = [Touched(p, items) EXCEPT ![p] = left]
    BY DEF Replace, Replaces
  <1>6. my' \in [Actors -> Held]
    <2> HIDE DEF items, left
    <2> QED BY <1>3, <1>4, <1>5
  <1>7. Enforced(p) \in [Fields -> Values]
    BY <1>1, EnforcedType
  <1>8. my[p].locks \subseteq Fields \cup {Whole}
    BY <1>1 DEF Held
  <1> QED BY <1>6, <1>7, <1>8 DEF Replace, Replaces

LEMMA NextTyped == TypeInv /\ [Next]_vars => TypeInv'
  <1> SUFFICES ASSUME TypeInv, [Next]_vars PROVE TypeInv'
    OBVIOUS
  <1>0. /\ my \in [Actors -> Held] /\ pc \in [Actors -> PCs]
        /\ \A p \in Actors : my[p] \in Held
        /\ clock \in 0..MaxClock
    BY DEF TypeInv
  <1>1. CASE Second
    BY <1>1 DEF TypeInv, Second, row, stamps
  <1>2. CASE Elsewhere
    BY <1>2 DEF TypeInv, Elsewhere, More, row, stamps
  <1>3. CASE Dispatch
    <2>1. bus' \in 0..BusSize
      BY <1>3 DEF TypeInv, Dispatch
    <2>2. CASE Marks(clock) /\ my' = Later(clock)
      <3>1. clock \in 0..MaxClock
        BY DEF TypeInv
      <3>2. my' \in [Actors -> Held]
        BY <2>2, <1>0, LaterHeld
      <3> QED BY <1>3, <2>1, <2>2, <3>1, <3>2, MarksTyped DEF TypeInv, Dispatch, row
    <2>3. CASE UNCHANGED <<stamps, my>>
      BY <1>3, <2>1, <2>3 DEF TypeInv, Dispatch, row, stamps
    <2> QED BY <1>3, <2>2, <2>3 DEF Dispatch
  <1>4. ASSUME NEW p \in Actors, Loads(p) PROVE TypeInv'
    <2> DEFINE x == [my[p] EXCEPT !.val = val, !.seen = ver]
    <2>1. x \in Held
      BY <1>0 DEF TypeInv, Held
    <2>2. my' = [my EXCEPT ![p] = x]
      BY <1>4, <1>0 DEF Loads, Held
    <2>3. "start" \in PCs
      BY DEF PCs
    <2> HIDE DEF x
    <2> QED BY <1>4, <2>1, <2>2, <2>3, MoveTyped DEF Loads
  <1>5. ASSUME NEW p \in Actors, Starts(p) PROVE TypeInv'
    <2>1. [my[p] EXCEPT !.start = clock] \in Held
      BY <1>0 DEF Held
    <2> QED BY <1>5, <2>1, MoveTyped DEF Starts, PCs
  <1>6. ASSUME NEW p \in Actors, Evaluates(p) PROVE TypeInv'
    <2>1. PICK f \in Fields, v \in Values : my' = [my EXCEPT ![p].val[f] = v, ![p].field = f]
      BY <1>6 DEF Evaluates
    <2> DEFINE x == [my[p] EXCEPT !.val = [my[p].val EXCEPT ![f] = v], !.field = f]
    <2>2. x \in Held
      BY <1>0 DEF Held
    <2>3. my' = [my EXCEPT ![p] = x]
      BY <2>1, <1>0 DEF Held
    <2> QED BY <1>6, <2>2, <2>3, MoveTyped DEF Evaluates, PCs
  <1>7. ASSUME NEW p \in Actors, EvaluationFails(p) \/ StampFails(p) \/ ReadFails(p)
        PROVE  TypeInv'
    BY <1>7, BlankHeld, MoveTyped DEF EvaluationFails, StampFails, ReadFails, Ends, PCs
  <1>8. ASSUME NEW p \in Actors, PassWrites(p) PROVE TypeInv'
    <2>1. pc' \in [Actors -> PCs]
      BY <1>0, <1>8 DEF PassWrites, Goto, PCs
    <2> QED BY <1>8, <2>1, ReplaceTyped DEF TypeInv, PassWrites, stamps
  <1>9. ASSUME NEW p \in Actors, Stamp(p) PROVE TypeInv'
    <2>1. pc' \in [Actors -> PCs] /\ my' \in [Actors -> Held]
      BY <1>0, <1>9, BlankHeld DEF Stamp, Stamps, Ends, Goto, PCs
    <2>2. /\ my[p].start \in 0..MaxClock /\ my[p].seen \in 0..MaxChanges
          /\ my[p].late \in BOOLEAN
      BY <1>0 DEF Held
    <2> QED BY <1>9, <2>1, <2>2 DEF TypeInv, Stamp, Stamps, row
  <1>10. ASSUME NEW p \in Actors, Read(p) PROVE TypeInv'
    <2> DEFINE x == [my[p] EXCEPT !.old = val, !.locks = pins]
    <2>1. x \in Held
      BY <1>0 DEF TypeInv, Held
    <2>2. my' = [my EXCEPT ![p] = x]
      BY <1>10, <1>0 DEF Read, Held
    <2> QED BY <1>10, <2>1, <2>2, MoveTyped DEF Read, PCs
  <1>11. ASSUME NEW p \in Actors, Write(p) PROVE TypeInv'
    <2>1. pc' \in [Actors -> PCs]
      BY <1>0, <1>11 DEF Write, Goto, PCs
    <2>2. ver' \in 0..MaxChanges
      BY <1>11 DEF TypeInv, Write, More
    <2> QED BY <1>11, <2>1, <2>2, ReplaceTyped DEF TypeInv, Write, stamps
  <1>12. ASSUME NEW p \in Actors, Mark(p) PROVE TypeInv'
    <2>1. pc' \in [Actors -> PCs]
      BY <1>0, <1>12 DEF Mark, Goto, PCs
    <2>2. ASSUME NEW t \in my[p].start..clock, Marks(t), my' = [Later(t) EXCEPT ![p] = Blank]
          PROVE  TypeInv'
      <3>1. t \in 0..MaxClock
        BY <1>0, <2>2 DEF TypeInv, Held
      <3>2. my' \in [Actors -> Held]
        BY <1>0, <2>2, LaterHeld, BlankHeld
      <3> QED BY <1>12, <2>1, <2>2, <3>1, <3>2, MarksTyped DEF TypeInv, Mark, row
    <2>3. CASE UNCHANGED stamps /\ my' = [my EXCEPT ![p] = Blank]
      BY <1>12, <2>3, BlankHeld, MoveTyped DEF Mark, PCs
    <2> QED BY <1>12, <2>2, <2>3 DEF Mark
  <1>13. ASSUME NEW p \in Actors, NEW f \in Fields, NEW v \in Values, NEW g \in BOOLEAN,
                Proposes(p, f, v, g)
         PROVE  TypeInv'
    <2> DEFINE x == [my[p] EXCEPT !.val = [val EXCEPT ![f] = v], !.field = f, !.grant = g]
    <2>1. x \in Held
      BY <1>0 DEF TypeInv, Held
    <2>2. my' = [my EXCEPT ![p] = x]
      BY <1>13, <1>0 DEF Proposes, Held
    <2> QED BY <1>13, <2>1, <2>2, MoveTyped DEF Proposes, PCs
  <1>14. ASSUME NEW p \in Actors, EditField(p) PROVE TypeInv'
    <2>1. PICK f \in Fields, v \in Values :
             val' = [val EXCEPT ![f] = v] /\ my' = [Touched(p, {f}) EXCEPT ![p].start = clock]
      BY <1>14 DEF EditField
    <2>2. Touched(p, {f}) \in [Actors -> Held]
      BY <1>0, TouchedHeld
    <2>3. ASSUME NEW h \in Held PROVE [h EXCEPT !.start = clock] \in Held
      BY <1>0 DEF Held
    <2>4. my' \in [Actors -> Held]
      BY <2>1, <2>2, <2>3
    <2>5. pc' \in [Actors -> PCs]
      BY <1>0, <1>14 DEF EditField, Goto, PCs
    <2>6. ver' \in 0..MaxChanges
      BY <1>14 DEF TypeInv, EditField, More
    <2> QED BY <1>14, <2>1, <2>4, <2>5, <2>6 DEF TypeInv, EditField, stamps
  <1>15. ASSUME NEW p \in Actors, LockArtist(p) PROVE TypeInv'
    <2>1. my' \in [Actors -> Held]
      BY <1>0, <1>15, TouchedHeld DEF LockArtist
    <2>2. pins' \subseteq Fields \cup {Whole} /\ pinned' \in 0..MaxChanges
      BY <1>15 DEF TypeInv, LockArtist, More
    <2> QED BY <1>15, <2>1, <2>2 DEF TypeInv, LockArtist, stamps
  <1>16. ASSUME NEW p \in Actors, ReadLocks(p) PROVE TypeInv'
    <2>1. PICK f \in Fields : my' = [my EXCEPT ![p].field = f, ![p].locks = pins]
      BY <1>16 DEF ReadLocks
    <2> DEFINE x == [my[p] EXCEPT !.field = f, !.locks = pins]
    <2>2. x \in Held
      BY <1>0 DEF TypeInv, Held
    <2>3. my' = [my EXCEPT ![p] = x]
      BY <2>1, <1>0 DEF Held
    <2>4. my' \in [Actors -> Held] /\ pc' \in [Actors -> PCs]
      BY <1>0, <1>16, <2>2, <2>3 DEF ReadLocks, Goto, PCs
    <2>5. pinned' \in 0..MaxChanges
      BY <1>16 DEF TypeInv, ReadLocks, More
    <2> QED BY <1>16, <2>4, <2>5 DEF TypeInv, ReadLocks, row, stamps
  <1>17. ASSUME NEW p \in Actors, WriteLocks(p) PROVE TypeInv'
    <2>1. my' \in [Actors -> Held]
      BY <1>0, <1>17, TouchedHeld, BlankHeld DEF WriteLocks
    <2>2. pc' \in [Actors -> PCs]
      BY <1>0, <1>17 DEF WriteLocks, Goto, PCs
    <2>3. my[p].field \in Fields /\ my[p].locks \subseteq Fields \cup {Whole}
      BY <1>0 DEF Held
    <2>4. pins' \subseteq Fields \cup {Whole}
      BY <1>17, <2>3 DEF TypeInv, WriteLocks
    <2> QED BY <1>17, <2>1, <2>2, <2>4 DEF TypeInv, WriteLocks, stamps
  <1>18. CASE UNCHANGED vars
    BY <1>18 DEF TypeInv, vars, row, stamps
  <1> QED
    BY <1>1, <1>2, <1>3, <1>4, <1>5, <1>6, <1>7, <1>8, <1>9, <1>10, <1>11, <1>12, <1>13,
       <1>14, <1>15, <1>16, <1>17, <1>18
    DEF Next, Pass, Persist, TickLoads, ClickLoads, WriterLoads, ProviderLoads, Actors

\* Every reachable state is well typed.
THEOREM TypeCorrect == Spec => []TypeOK
  <1>1. TypeInv => TypeOK
    BY DEF TypeInv, TypeOK, Held, PCs
  <1> QED BY <1>1, InitTyped, NextTyped, PTL DEF Spec

----------------------------------------------------------------------------
(* What a whole-row write leaves alone.                                    *)

\* What a writer read of the row is still there, except what others touched since.
RowInv ==
    \A p \in Actors : pc[p] = "write" =>
       /\ Locks \notin my[p].touched => my[p].locks = pins
       /\ \A f \in Fields \ my[p].touched : my[p].old[f] = val[f]

\* A step that leaves the row alone, and no writer with less than it had.
LEMMA RowKept ==
    ASSUME RowInv, UNCHANGED row,
           \A q \in Actors : pc'[q] = "write" =>
              /\ pc[q] = "write" /\ my'[q].locks = my[q].locks
              /\ my'[q].old = my[q].old /\ my'[q].touched = my[q].touched
    PROVE  RowInv'
  BY DEF RowInv, row

\* A step of p that changes the row says so to the others.
LEMMA RowTouched ==
    ASSUME TypeInv, RowInv, NEW p \in Actors, NEW items \in SUBSET (Fields \cup {Locks}),
           pc'[p] # "write",
           \A q \in Actors \ {p} : pc'[q] = pc[q] /\ my'[q] = Touched(p, items)[q],
           \A f \in Fields \ items : val'[f] = val[f],
           Locks \in items \/ pins' = pins
    PROVE  RowInv'
  <1> SUFFICES ASSUME NEW q \in Actors, pc'[q] = "write"
               PROVE  /\ Locks \notin my'[q].touched => my'[q].locks = pins'
                      /\ \A f \in Fields \ my'[q].touched : my'[q].old[f] = val'[f]
    BY DEF RowInv
  <1>1. q # p /\ pc[q] = "write"
    OBVIOUS
  <1>2. my'[q] = [my[q] EXCEPT !.touched = my[q].touched \cup items]
    BY <1>1, TouchedHeld DEF TypeInv
  <1>3. my[q] \in Held
    BY DEF TypeInv
  <1>4. /\ my'[q].touched = my[q].touched \cup items
        /\ my'[q].locks = my[q].locks /\ my'[q].old = my[q].old
    BY <1>2, <1>3 DEF Held
  <1> QED BY <1>1, <1>4 DEF RowInv

LEMMA ReplaceRow ==
    ASSUME TypeInv, RowInv, NEW p \in Actors, Replace(p), NEW where, where # "write",
           Goto(p, where)
    PROVE  RowInv'
  <1> DEFINE items == {f \in Fields : Enforced(p)[f] # val[f]} \cup
                      (IF my[p].locks # pins THEN {Locks} ELSE {})
  <1>1. items \in SUBSET (Fields \cup {Locks})
    OBVIOUS
  <1>2. pc'[p] # "write" /\ \A q \in Actors \ {p} : pc'[q] = pc[q]
    BY DEF Goto, TypeInv
  <1>3. Touched(p, items) \in [Actors -> Held]
    BY <1>1, TouchedHeld DEF TypeInv
  <1>4. \A q \in Actors \ {p} : my'[q] = Touched(p, items)[q]
    BY <1>3 DEF Replace, Replaces
  <1>5. /\ \A f \in Fields \ items : val'[f] = val[f]
        /\ Locks \in items \/ pins' = pins
    BY DEF Replace, Replaces
  <1> HIDE DEF items
  <1> QED BY <1>1, <1>2, <1>4, <1>5, RowTouched

LEMMA NextRow == TypeInv /\ RowInv /\ [Next]_vars => RowInv'
  <1> SUFFICES ASSUME TypeInv, RowInv, [Next]_vars PROVE RowInv'
    OBVIOUS
  <1>0. /\ my \in [Actors -> Held] /\ pc \in [Actors -> PCs]
        /\ \A p \in Actors : my[p] \in Held
    BY DEF TypeInv
  <1>1. CASE Second \/ Elsewhere
    BY <1>1, RowKept DEF Second, Elsewhere
  <1>2. \A t : \A q \in Actors : /\ Later(t)[q].locks = my[q].locks
                             /\ Later(t)[q].old = my[q].old
                             /\ Later(t)[q].touched = my[q].touched
    BY <1>0, LaterSame
  <1>3. CASE Dispatch
    <2>1. UNCHANGED row /\ pc' = pc
      BY <1>3 DEF Dispatch
    <2>2. \A q \in Actors : /\ my'[q].locks = my[q].locks /\ my'[q].old = my[q].old
                            /\ my'[q].touched = my[q].touched
      BY <1>2, <1>3 DEF Dispatch
    <2> QED BY <2>1, <2>2, RowKept
  <1>4. ASSUME NEW p \in Actors,
               \/ Loads(p) \/ Starts(p) \/ Evaluates(p) \/ EvaluationFails(p) \/ Stamp(p)
               \/ StampFails(p) \/ ReadFails(p) \/ ReadLocks(p)
               \/ \E f \in Fields, v \in Values, g \in BOOLEAN : Proposes(p, f, v, g)
        PROVE  RowInv'
    <2>1. UNCHANGED row
      BY <1>4 DEF Loads, Starts, Evaluates, EvaluationFails, Stamp, Stamps, StampFails,
                  ReadFails, ReadLocks, Proposes
    <2>2. pc'[p] # "write" /\ \A q \in Actors \ {p} : pc'[q] = pc[q]
      BY <1>0, <1>4 DEF Loads, Starts, Evaluates, EvaluationFails, Stamp, Stamps,
                        StampFails, ReadFails, ReadLocks, Proposes, Goto, Ends
    <2>3. \A q \in Actors \ {p} : my'[q] = my[q]
      BY <1>0, <1>4 DEF Loads, Starts, Evaluates, EvaluationFails, Stamp, Stamps,
                        StampFails, ReadFails, ReadLocks, Proposes, Ends
    <2> QED BY <2>1, <2>2, <2>3, RowKept
  <1>5. ASSUME NEW p \in Actors, Read(p) PROVE RowInv'
    <2>1. my'[p].locks = pins /\ my'[p].old = val
      BY <1>0, <1>5 DEF Read, Held
    <2>2. \A q \in Actors \ {p} : pc'[q] = pc[q] /\ my'[q] = my[q]
      BY <1>0, <1>5 DEF Read, Goto
    <2>3. val' = val /\ pins' = pins
      BY <1>5 DEF Read, row
    <2> QED BY <2>1, <2>2, <2>3 DEF RowInv
  <1>6. ASSUME NEW p \in Actors, PassWrites(p) \/ Write(p) PROVE RowInv'
    BY <1>6, ReplaceRow DEF PassWrites, Write
  <1>7. ASSUME NEW p \in Actors, Mark(p) PROVE RowInv'
    <2>1. pc'[p] # "write" /\ \A q \in Actors \ {p} : pc'[q] = pc[q]
      BY <1>0, <1>7 DEF Mark, Goto
    <2>2. \A t : Later(t) \in [Actors -> Held]
      BY <1>0, LaterHeld
    <2>3. \A q \in Actors \ {p} :
             /\ my'[q].locks = my[q].locks /\ my'[q].old = my[q].old
             /\ my'[q].touched = my[q].touched
      BY <1>0, <1>2, <1>7, <2>2 DEF Mark
    <2> QED BY <1>7, <2>1, <2>3, RowKept DEF Mark
  <1>8. ASSUME NEW p \in Actors, EditField(p) PROVE RowInv'
    <2>1. PICK f \in Fields, v \in Values :
             val' = [val EXCEPT ![f] = v] /\ my' = [Touched(p, {f}) EXCEPT ![p].start = clock]
      BY <1>8 DEF EditField
    <2>2. Touched(p, {f}) \in [Actors -> Held]
      BY <1>0, TouchedHeld
    <2>3. \A q \in Actors \ {p} : pc'[q] = pc[q] /\ my'[q] = Touched(p, {f})[q]
      BY <1>0, <1>8, <2>1, <2>2 DEF EditField, Goto
    <2>4. pc'[p] # "write"
      BY <1>0, <1>8 DEF EditField, Goto
    <2>5. pins' = pins /\ \A g \in Fields \ {f} : val'[g] = val[g]
      BY <1>8, <2>1 DEF EditField, TypeInv
    <2> QED BY <2>3, <2>4, <2>5, RowTouched
  <1>9. ASSUME NEW p \in Actors, LockArtist(p) \/ WriteLocks(p) PROVE RowInv'
    <2>1. Touched(p, {Locks}) \in [Actors -> Held]
      BY <1>0, TouchedHeld
    <2>2. \A q \in Actors \ {p} : pc'[q] = pc[q] /\ my'[q] = Touched(p, {Locks})[q]
      BY <1>0, <1>9, <2>1 DEF LockArtist, WriteLocks, Goto
    <2>3. pc'[p] # "write" /\ val' = val
      BY <1>0, <1>9 DEF LockArtist, WriteLocks, Goto
    <2> QED BY <2>2, <2>3, RowTouched
  <1>10. CASE UNCHANGED vars
    BY <1>10 DEF vars, row, RowInv
  <1> QED
    BY <1>1, <1>3, <1>4, <1>5, <1>6, <1>7, <1>8, <1>9, <1>10
    DEF Next, Pass, Persist, TickLoads, ClickLoads, WriterLoads, ProviderLoads, Actors

\* A write of p is Service.update's.
LEMMA WritesReplace ==
    ASSUME TypeInv, [Next]_vars, NEW p \in Actors, Writes(p)
    PROVE  Replace(p)
  <1>0. pc \in [Actors -> PCs]
    BY DEF TypeInv
  <1>1. \A q \in Actors : PassWrites(q) \/ Write(q) => q = p
    BY <1>0 DEF PassWrites, Write, Goto, Writes
  <1>2. ASSUME NEW q \in Actors,
               \/ Loads(q) \/ Starts(q) \/ Evaluates(q) \/ EvaluationFails(q) \/ Stamp(q)
               \/ StampFails(q) \/ Read(q) \/ ReadFails(q) \/ Mark(q) \/ EditField(q)
               \/ LockArtist(q) \/ ReadLocks(q) \/ WriteLocks(q)
               \/ \E f \in Fields, v \in Values, g \in BOOLEAN : Proposes(q, f, v, g)
        PROVE  FALSE
    <2>1. pc[q] # "write" /\ \A r \in Actors \ {q} : pc'[r] = pc[r]
      BY <1>0, <1>2 DEF Loads, Starts, Evaluates, EvaluationFails, Stamp, Stamps, StampFails,
                        Read, ReadFails, Mark, EditField, LockArtist, ReadLocks, WriteLocks,
                        Proposes, Goto, Ends
    <2> QED BY <2>1 DEF Writes
  <1>3. CASE Second \/ Elsewhere \/ Dispatch \/ UNCHANGED vars
    BY <1>3 DEF Second, Elsewhere, Dispatch, vars, Writes
  <1>4. CASE \E q \in Actors : PassWrites(q) \/ Write(q)
    BY <1>1, <1>4 DEF PassWrites, Write
  <1> QED BY <1>2, <1>3, <1>4
          DEF Next, Pass, Persist, TickLoads, ClickLoads, WriterLoads, ProviderLoads, Actors

LEMMA InitRow == Init => RowInv
  BY DEF Init, RowInv

\* A whole-row write, however stale its copy of the artist and of the locks, leaves a
\* field alone that was locked throughout the write and that the operator did not grant.
THEOREM LockedFieldsSafe == Spec => NoProposalUnderLock
  <1>1. ASSUME TypeInv, RowInv, [Next]_vars, NEW p \in Actors, Writes(p),
               NEW f \in pins \cap Fields, {f, Locks} \cap my[p].touched = {},
               ~(my[p].grant /\ f = my[p].field)
        PROVE  val'[f] = val[f]
    <2>1. Replace(p)
      BY <1>1, WritesReplace
    <2>2. f \in my[p].locks /\ my[p].old[f] = val[f]
      BY <1>1 DEF RowInv, Writes
    <2> QED BY <1>1, <2>1, <2>2 DEF Replace, Replaces, Enforced
  <1>2. TypeInv /\ RowInv /\ [Next]_vars =>
          [\A p \in Actors : Writes(p) =>
             \A f \in pins \cap Fields :
                {f, Locks} \cap my[p].touched # {} \/ (my[p].grant /\ f = my[p].field)
                   \/ val'[f] = val[f]]_vars
    BY <1>1
  <1> QED BY <1>2, InitTyped, NextTyped, InitRow, NextRow, PTL
          DEF Spec, NoProposalUnderLock

\* Nor does it change the locks, unless they changed between its read and its UPDATE.
THEOREM LocksSafe == Spec => LocksKept
  <1>1. TypeInv /\ RowInv /\ [Next]_vars =>
          [\A p \in Actors : Writes(p) /\ Locks \notin my[p].touched => pins' = pins]_vars
    <2> SUFFICES ASSUME TypeInv, RowInv, [Next]_vars, NEW p \in Actors, Writes(p),
                        Locks \notin my[p].touched
                 PROVE  pins' = pins
      OBVIOUS
    <2>1. Replace(p)
      BY WritesReplace
    <2>2. my[p].locks = pins
      BY DEF RowInv, Writes
    <2> QED BY <2>1, <2>2 DEF Replace, Replaces
  <1> QED BY <1>1, InitTyped, NextTyped, InitRow, NextRow, PTL DEF Spec, LocksKept

----------------------------------------------------------------------------
(* What the stamps of a pass are worth.                                    *)

Active == {"evaluate", "read", "write", "stamp"}

\* A pass knows whether dirty_since is later than its start, unless marks overtook.
PassInv(p) ==
    /\ my[p].start <= clock
    /\ p \in Passes /\ pc[p] \in Active =>
         /\ my[p].start >= 1
         /\ ~my[p].late => dirtySince <= my[p].start
         /\ my[p].late /\ ~overtaken => dirtySince > my[p].start
    /\ p \in Passes /\ pc[p] \notin Active => ~my[p].late

StampInv ==
    /\ started = evaluatedAt
    /\ dirtySince <= clock
    /\ owed /\ ~overtaken => dirtySince > evaluatedAt
    /\ \A p \in Actors : PassInv(p)

LEMMA InitStamp == Init => StampInv
  <1> SUFFICES ASSUME Init PROVE StampInv
    OBVIOUS
  <1>1. ASSUME NEW p \in Actors PROVE PassInv(p)
    <2>1. my[p] = Blank /\ pc[p] = "idle"
      BY DEF Init
    <2> QED BY <2>1, BlankIs DEF PassInv, Active, Init
  <1> QED BY <1>1 DEF StampInv, Init

\* A step that leaves the stamps alone, and of what the actors hold changes p's.
LEMMA StampKept ==
    ASSUME StampInv, NEW p \in Actors, UNCHANGED <<clock, stamps>>,
           \A q \in Actors \ {p} :
              pc'[q] = pc[q] /\ my'[q].start = my[q].start /\ my'[q].late = my[q].late,
           PassInv(p)'
    PROVE  StampInv'
  <1>1. ASSUME NEW q \in Actors PROVE PassInv(q)'
    BY DEF StampInv, PassInv, stamps
  <1> QED BY <1>1 DEF StampInv, stamps

\* A mark: the passes under way hear of it, if it is later than their start.
LEMMA StampMarked ==
    ASSUME TypeInv, StampInv, NEW t \in 0..clock, Marks(t), clock' = clock,
           NEW ps \in SUBSET Actors,
           \A q \in ps : pc'[q] = pc[q] /\ my'[q] = Later(t)[q]
    PROVE  /\ started' = evaluatedAt' /\ dirtySince' <= clock'
           /\ owed' /\ ~overtaken' => dirtySince' > evaluatedAt'
           /\ \A q \in ps : PassInv(q)'
  <1>1. /\ t \in Int /\ clock \in Int /\ dirtySince \in Int /\ evaluatedAt \in Int
        /\ owed \in BOOLEAN /\ overtaken \in BOOLEAN
    BY DEF TypeInv
  <1>2. started' = evaluatedAt' /\ dirtySince' <= clock'
    BY <1>1 DEF Marks, StampInv
  <1>3. owed' /\ ~overtaken' => dirtySince' > evaluatedAt'
    BY <1>1 DEF Marks, StampInv
  <1>4. ASSUME NEW q \in ps PROVE PassInv(q)'
    <2>1. /\ my[q] \in Held /\ my[q].start \in Int /\ my[q].late \in BOOLEAN
      BY DEF TypeInv, Held
    <2>2. my'[q] = IF q \in Passes /\ pc[q] \in Active /\ t > my[q].start
                   THEN [my[q] EXCEPT !.late = TRUE] ELSE my[q]
      BY LaterHeld DEF TypeInv, Active
    <2>3. PassInv(q)
      BY DEF StampInv
    <2>4. CASE q \in Passes /\ pc[q] \in Active /\ t > my[q].start
      <3>1. my'[q].late = TRUE /\ my'[q].start = my[q].start
        BY <2>1, <2>2, <2>4 DEF Held
      <3> QED BY <1>1, <2>1, <2>3, <2>4, <3>1 DEF PassInv, Marks
    <2>5. CASE ~(q \in Passes /\ pc[q] \in Active /\ t > my[q].start)
      <3>1. my'[q] = my[q]
        BY <2>2, <2>5
      <3>3. dirtySince' = t
        BY DEF Marks
      <3>4. ~overtaken' => ~overtaken /\ ~(t < dirtySince)
        BY DEF Marks
      <3>2. ~overtaken' => ~overtaken /\ dirtySince' >= dirtySince
        BY <1>1, <3>3, <3>4
      <3> QED BY <1>1, <2>1, <2>3, <2>5, <3>1, <3>2, <3>3 DEF PassInv
    <2> QED BY <2>4, <2>5
  <1> QED BY <1>2, <1>3, <1>4

\* A step that leaves the clock and the stamps alone, and what the others hold.
OwnStep(p) ==
    /\ UNCHANGED <<clock, stamps>>
    /\ \A q \in Actors \ {p} : pc'[q] = pc[q] /\ my'[q] = my[q]

LEMMA NextStamp == TypeInv /\ StampInv /\ [Next]_vars => StampInv'
  <1> SUFFICES ASSUME TypeInv, StampInv, [Next]_vars PROVE StampInv'
    OBVIOUS
  <1>0. /\ my \in [Actors -> Held] /\ pc \in [Actors -> PCs]
        /\ clock \in Nat /\ clock >= 1 /\ dirtySince \in Nat
        /\ \A p \in Actors : /\ my[p] \in Held /\ my[p].start \in Nat
                             /\ my[p].late \in BOOLEAN /\ PassInv(p)
    BY DEF TypeInv, Held, StampInv
  <1>1. CASE Second
    <2>1. ASSUME NEW p \in Actors PROVE PassInv(p)'
      BY <1>0, <1>1 DEF Second, PassInv, stamps
    <2> QED BY <1>0, <1>1, <2>1 DEF Second, StampInv, stamps
  <1>2. CASE Elsewhere \/ UNCHANGED vars
    <2>1. ASSUME NEW p \in Actors PROVE PassInv(p)'
      BY <1>0, <1>2 DEF Elsewhere, PassInv, stamps, vars
    <2> QED BY <1>0, <1>2, <2>1 DEF Elsewhere, StampInv, stamps, vars
  <1>3. CASE Dispatch
    <2>1. CASE Marks(clock) /\ my' = Later(clock)
      BY <1>0, <1>3, <2>1, StampMarked DEF Dispatch, StampInv
    <2>2. CASE UNCHANGED <<stamps, my>>
      <3>1. ASSUME NEW p \in Actors PROVE PassInv(p)'
        BY <1>0, <1>3, <2>2 DEF Dispatch, PassInv, stamps
      <3> QED BY <1>3, <2>2, <3>1 DEF Dispatch, StampInv, stamps
    <2> QED BY <1>3, <2>1, <2>2 DEF Dispatch
  <1>4. \A p \in Actors :
          /\ Loads(p) => OwnStep(p)
          /\ Starts(p) => OwnStep(p)
          /\ Evaluates(p) \/ EvaluationFails(p) => OwnStep(p)
          /\ StampFails(p) \/ Read(p) \/ ReadFails(p) => OwnStep(p)
          /\ ReadLocks(p) => OwnStep(p)
    BY <1>0 DEF Loads, Starts, Evaluates, EvaluationFails, StampFails, Read, ReadFails,
                ReadLocks, Goto, Ends, OwnStep
  <1>5. ASSUME NEW p \in Actors, Loads(p) PROVE StampInv'
    <2>1. /\ pc[p] = "idle" /\ pc'[p] = "start"
          /\ my'[p].start = my[p].start /\ my'[p].late = my[p].late
      BY <1>0, <1>5 DEF Loads, Goto, Held
    <2>2. PassInv(p)'
      BY <1>0, <1>4, <1>5, <2>1 DEF PassInv, Active, OwnStep
    <2> QED BY <1>4, <1>5, <2>2, StampKept DEF OwnStep
  <1>6. ASSUME NEW p \in Passes, Starts(p) PROVE StampInv'
    <2>0. p \in Actors
      BY DEF Actors
    <2>1. /\ pc[p] = "start" /\ pc'[p] = "evaluate"
          /\ my'[p].start = clock /\ my'[p].late = my[p].late
      BY <2>0, <1>0, <1>6 DEF Starts, Goto, Held
    <2>2. UNCHANGED <<clock, stamps>>
      BY <2>0, <1>4, <1>6 DEF OwnStep
    <2>3. PassInv(p)'
      BY <2>0, <1>0, <2>1, <2>2 DEF PassInv, Active, stamps, StampInv
    <2> QED BY <2>0, <1>4, <1>6, <2>3, StampKept DEF OwnStep
  <1>7. ASSUME NEW p \in Actors, Evaluates(p) \/ Read(p) PROVE StampInv'
    <2>1. /\ pc[p] \in Active /\ pc'[p] \in Active
          /\ my'[p].start = my[p].start /\ my'[p].late = my[p].late
      <3>1. CASE Evaluates(p)
        <4>1. PICK f \in Fields, v \in Values :
                 my' = [my EXCEPT ![p].val[f] = v, ![p].field = f]
          BY <3>1 DEF Evaluates
        <4> QED BY <1>0, <3>1, <4>1 DEF Evaluates, Goto, Held, Active
      <3>2. CASE Read(p)
        BY <1>0, <3>2 DEF Read, Goto, Held, Active
      <3> QED BY <1>7, <3>1, <3>2
    <2>2. PassInv(p)'
      BY <1>0, <1>4, <1>7, <2>1 DEF PassInv, stamps, OwnStep
    <2> QED BY <1>4, <1>7, <2>2, StampKept DEF OwnStep
  <1>8. ASSUME NEW p \in Actors, EvaluationFails(p) \/ StampFails(p) \/ ReadFails(p)
        PROVE  StampInv'
    <2>1. pc'[p] = "idle" /\ my'[p] = Blank
      BY <1>0, <1>8 DEF EvaluationFails, StampFails, ReadFails, Ends, Goto
    <2>2. PassInv(p)'
      BY <1>0, <1>4, <1>8, <2>1, BlankIs DEF PassInv, Active, OwnStep
    <2> QED BY <1>4, <1>8, <2>2, StampKept DEF OwnStep
  <1>9. ASSUME NEW p \in Writers \cup Operators,
               \/ ReadLocks(p)
               \/ \E f \in Fields, v \in Values, g \in BOOLEAN : Proposes(p, f, v, g)
        PROVE  StampInv'
    <2>0. p \in Actors /\ p \notin Passes
      BY DEF Actors
    <2>1. OwnStep(p) /\ my'[p].start = my[p].start
      <3>1. CASE ReadLocks(p)
        <4>1. PICK f \in Fields : my' = [my EXCEPT ![p].field = f, ![p].locks = pins]
          BY <3>1 DEF ReadLocks
        <4> QED BY <2>0, <1>0, <1>4, <3>1, <4>1 DEF Held
      <3>2. ASSUME NEW f \in Fields, NEW v \in Values, NEW g \in BOOLEAN, Proposes(p, f, v, g)
            PROVE  OwnStep(p) /\ my'[p].start = my[p].start
        BY <2>0, <1>0, <3>2 DEF Proposes, Held, OwnStep, Goto
      <3> QED BY <1>9, <3>1, <3>2
    <2>2. PassInv(p)'
      BY <2>0, <1>0, <2>1 DEF PassInv, OwnStep
    <2> QED BY <2>0, <2>1, <2>2, StampKept DEF OwnStep
  <1>10. ASSUME NEW p \in Actors, NEW items \in SUBSET (Fields \cup {Locks})
         PROVE  /\ Touched(p, items) \in [Actors -> Held]
                /\ \A q \in Actors : /\ Touched(p, items)[q].start = my[q].start
                                     /\ Touched(p, items)[q].late = my[q].late
    <2>1. Touched(p, items) \in [Actors -> Held]
      BY <1>0, TouchedHeld
    <2>2. ASSUME NEW q \in Actors
          PROVE  /\ Touched(p, items)[q].start = my[q].start
                 /\ Touched(p, items)[q].late = my[q].late
      <3>1. \/ Touched(p, items)[q] = my[q]
            \/ Touched(p, items)[q] = [my[q] EXCEPT !.touched = my[q].touched \cup items]
        BY <1>0, TouchedHeld
      <3> QED BY <1>0, <3>1 DEF Held
    <2> QED BY <2>1, <2>2
  <1>11. ASSUME NEW p \in Actors, PassWrites(p) \/ Write(p) PROVE StampInv'
    <2> DEFINE items == {f \in Fields : Enforced(p)[f] # val[f]} \cup
                        (IF my[p].locks # pins THEN {Locks} ELSE {})
    <2> DEFINE left == IF p \in Passes
                       THEN [Blank EXCEPT !.start = my[p].start, !.seen = my[p].seen,
                                          !.late = my[p].late]
                       ELSE [Blank EXCEPT !.start = clock]
    <2>1. items \in SUBSET (Fields \cup {Locks})
      OBVIOUS
    <2>2. my' = [Touched(p, items) EXCEPT ![p] = left]
      BY <1>11 DEF PassWrites, Write, Replace, Replaces
    <2>3. /\ left.start = IF p \in Passes THEN my[p].start ELSE clock
          /\ p \in Passes => left.late = my[p].late
      BY BlankHeld DEF Held
    <2> HIDE DEF items, left
    <2>4. my'[p] = left /\ \A q \in Actors \ {p} : my'[q] = Touched(p, items)[q]
      BY <1>10, <2>1, <2>2
    <2>5. /\ UNCHANGED <<clock, stamps>>
          /\ \A q \in Actors \ {p} : pc'[q] = pc[q]
          /\ pc[p] = "write" /\ (p \in Passes => pc'[p] = "stamp")
      BY <1>0, <1>11 DEF PassWrites, Write, Goto
    <2>6. PassInv(p)'
      BY <1>0, <2>3, <2>4, <2>5 DEF PassInv, Active, stamps
    <2> QED BY <1>10, <2>1, <2>4, <2>5, <2>6, StampKept
  <1>12. ASSUME NEW p \in Passes, Stamp(p) PROVE StampInv'
    <2>0. p \in Actors
      BY DEF Actors
    <2>1. /\ pc[p] = "stamp" /\ pc'[p] = "idle" /\ my'[p] = Blank
          /\ clock' = clock /\ dirtySince' = dirtySince /\ overtaken' = overtaken
          /\ evaluatedAt' = my[p].start /\ started' = my[p].start /\ owed' = my[p].late
          /\ \A q \in Actors \ {p} : pc'[q] = pc[q] /\ my'[q] = my[q]
      BY <2>0, <1>0, <1>12 DEF Stamp, Stamps, Ends, Goto
    <2>2. ASSUME NEW q \in Actors PROVE PassInv(q)'
      BY <1>0, <2>1, BlankIs DEF PassInv, Active
    <2>3. PassInv(p)
      BY <2>0, <1>0
    <2>4. owed' /\ ~overtaken' => dirtySince' > evaluatedAt'
      BY <2>1, <2>3 DEF PassInv, Active
    <2> QED BY <2>1, <2>2, <2>4 DEF StampInv
  <1>13. ASSUME NEW p \in Actors, Mark(p) PROVE StampInv'
    <2>1. /\ pc'[p] = "idle" /\ clock' = clock
          /\ \A q \in Actors \ {p} : pc'[q] = pc[q]
      BY <1>0, <1>13 DEF Mark, Goto
    <2>2. ASSUME NEW t \in my[p].start..clock, Marks(t), my' = [Later(t) EXCEPT ![p] = Blank]
          PROVE  StampInv'
      <3>1. t \in 0..clock
        BY <1>0
      <3>2. Later(t) \in [Actors -> Held]
        BY <1>0, LaterHeld
      <3>3. my'[p] = Blank /\ \A q \in Actors \ {p} : my'[q] = Later(t)[q]
        BY <2>2, <3>2
      <3>4. /\ started' = evaluatedAt' /\ dirtySince' <= clock'
            /\ owed' /\ ~overtaken' => dirtySince' > evaluatedAt'
            /\ \A q \in Actors \ {p} : PassInv(q)'
        BY <2>1, <2>2, <3>1, <3>3, StampMarked
      <3>5. PassInv(p)'
        BY <1>0, <2>1, <3>3, BlankIs DEF PassInv, Active
      <3> QED BY <3>4, <3>5 DEF StampInv
    <2>3. CASE UNCHANGED stamps /\ my' = [my EXCEPT ![p] = Blank]
      <3>1. my'[p] = Blank /\ \A q \in Actors \ {p} : my'[q] = my[q]
        BY <1>0, <2>3
      <3>2. PassInv(p)'
        BY <1>0, <2>1, <3>1, BlankIs DEF PassInv, Active
      <3> QED BY <2>1, <2>3, <3>1, <3>2, StampKept
    <2> QED BY <1>13, <2>2, <2>3 DEF Mark
  <1>14. ASSUME NEW p \in Operators, EditField(p) \/ LockArtist(p) \/ WriteLocks(p)
         PROVE  StampInv'
    <2>0. p \in Actors /\ p \notin Passes
      BY DEF Actors
    <2>1. PICK items \in SUBSET (Fields \cup {Locks}) :
             \/ my' = [Touched(p, items) EXCEPT ![p].start = clock]
             \/ my' = [Touched(p, items) EXCEPT ![p] = Blank]
             \/ my' = Touched(p, items)
      <3>1. CASE EditField(p)
        <4>1. PICK f \in Fields : my' = [Touched(p, {f}) EXCEPT ![p].start = clock]
          BY <3>1 DEF EditField
        <4> QED BY <4>1
      <3>2. CASE LockArtist(p)
        BY <3>2 DEF LockArtist
      <3>3. CASE WriteLocks(p)
        BY <3>3 DEF WriteLocks
      <3> QED BY <1>14, <3>1, <3>2, <3>3
    <2>2. /\ \A q \in Actors \ {p} : my'[q] = Touched(p, items)[q]
          /\ my'[p].start \in {clock, 0, my[p].start}
      BY <1>0, <1>10, <2>0, <2>1, BlankIs DEF Held
    <2>3. /\ UNCHANGED <<clock, stamps>>
          /\ \A q \in Actors \ {p} : pc'[q] = pc[q]
      BY <1>0, <1>14 DEF EditField, LockArtist, WriteLocks, Goto
    <2>4. PassInv(p)'
      BY <1>0, <2>0, <2>2, <2>3 DEF PassInv
    <2> QED BY <1>10, <2>0, <2>2, <2>3, <2>4, StampKept
  <1>15. ASSUME NEW p \in Writers \cup Operators, WriterLoads(p) \/ ProviderLoads(p)
         PROVE  StampInv'
    <2>1. \E f \in Fields, v \in Values, g \in BOOLEAN : Proposes(p, f, v, g)
      BY <1>15 DEF WriterLoads, ProviderLoads
    <2> QED BY <2>1, <1>9
  <1>16. ASSUME NEW p \in Passes, TickLoads(p) \/ ClickLoads(p) \/ Pass(p)
         PROVE  StampInv'
    BY <1>16, <1>5, <1>6, <1>7, <1>8, <1>11, <1>12
    DEF TickLoads, ClickLoads, Pass, Actors
  <1>17. ASSUME NEW p \in Actors, Persist(p) PROVE StampInv'
    BY <1>17, <1>7, <1>8, <1>11, <1>13 DEF Persist
  <1>18. ASSUME NEW p \in Operators, LockArtist(p) \/ ReadLocks(p) \/ WriteLocks(p)
         PROVE  StampInv'
    BY <1>18, <1>9, <1>14
  <1>19. ASSUME NEW p \in Writers \cup Operators, EditField(p) PROVE StampInv'
    BY <1>19, <1>14 DEF EditField
  <1> QED
    BY <1>1, <1>2, <1>3, <1>15, <1>16, <1>17, <1>18, <1>19 DEF Next

\* A change that is marked in a later second than an evaluation started in keeps the
\* artist dirty, as long as no mark overtakes another.
THEOREM LateChangesSafe == Spec => []LateChangesStayDirty
  <1>1. TypeInv /\ StampInv => LateChangesStayDirty
    BY DEF TypeInv, StampInv, LateChangesStayDirty, Dirty
  <1> QED BY <1>1, InitTyped, NextTyped, InitStamp, NextStamp, PTL DEF Spec

\* A pass takes the artist out of the dirty set, unless a later change was marked.
THEOREM PassesSafe == Spec => PassesClear
  <1>1. TypeInv /\ StampInv /\ [Next]_vars =>
          [\A p \in Passes :
             pc[p] = "stamp" /\ pc'[p] = "idle" /\ evaluatedAt' = my[p].start /\ ~my[p].late
                => ~Dirty']_vars
    <2> SUFFICES ASSUME TypeInv, StampInv, [Next]_vars, NEW p \in Passes, pc[p] = "stamp",
                        pc'[p] = "idle", evaluatedAt' = my[p].start, ~my[p].late
                 PROVE  ~Dirty'
      OBVIOUS
    <2>1. p \in Actors /\ my[p].start \in Nat /\ dirtySince \in Nat
      BY DEF TypeInv, Held, Actors
    <2>2. my[p].start >= 1 /\ dirtySince <= my[p].start
      BY <2>1 DEF StampInv, PassInv, Active
    <2>3. dirtySince' = dirtySince
      <3>0. pc \in [Actors -> PCs]
        BY DEF TypeInv
      <3>1. ~(\E q \in Actors : Mark(q))
        BY <2>1, <3>0 DEF Mark, Goto
      <3>2. ~Dispatch
        BY DEF Dispatch
      <3> QED BY <3>1, <3>2
              DEF Next, Pass, Persist, TickLoads, ClickLoads, WriterLoads, ProviderLoads,
                  Second, Elsewhere, Loads, Starts, Evaluates, EvaluationFails, PassWrites,
                  Stamp, Stamps, StampFails, Read, ReadFails, Write, Proposes, EditField,
                  LockArtist, ReadLocks, WriteLocks, Ends, vars, stamps
    <2> QED BY <2>1, <2>2, <2>3 DEF Dirty
  <1> QED BY <1>1, InitTyped, NextTyped, InitStamp, NextStamp, PTL DEF Spec, PassesClear

=============================================================================
