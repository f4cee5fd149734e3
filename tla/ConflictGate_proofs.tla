------------------------ MODULE ConflictGate_proofs ------------------------
(***************************************************************************)
(* Proofs about ConflictGate, for every number of connections, callers and *)
(* toggle requests, whatever fails and whatever the administrators do:     *)
(* type correctness with the discipline of the locks; the gate admits a    *)
(* write only if no enabled peer saves files; snapshots hold the           *)
(* administrator's own configuration, an opt-out gives it back, and the    *)
(* ledger knows of it, but for the peers and the sweeps the properties     *)
(* name.                                                                   *)
(***************************************************************************)
EXTENDS ConflictGate, TLAPS

USE ConnCount, ProcsApart, OverlapPairs, KindsKnown, Bounds

----------------------------------------------------------------------------
(* Types and locks.                                                        *)

\* A connection's lock is held only by a request for that connection which is
\* under way: what a request gives back when it returns is all it held.
HoldsItsOwn ==
    \A c \in Conns : connLock[c] # Nobody =>
        /\ req[connLock[c]].conn = c
        /\ pc[connLock[c]] \notin {"idle", "lock"}

TypeInv == TypeOK /\ HoldsItsOwn

\* The variables of the connections, the ledger and the bounds keep their types.
StateTyped ==
    /\ listed \in [Conns -> BOOLEAN]
    /\ enabled \in [Conns -> BOOLEAN] /\ managed \in [Conns -> BOOLEAN]
    /\ snapshot \in [Conns -> Snapshots]
    /\ saver \in [Conns -> BOOLEAN] /\ own \in [Conns -> BOOLEAN]
    /\ ledger \in [Conns -> Rows] /\ age \in {"none", "stale", "fresh"}
    /\ toggles \in 0..MaxToggles /\ edits \in 0..MaxEdits
    /\ moved \subseteq Procs \cup {Cache}
    /\ astray \subseteq Conns /\ lapsed \subseteq (Procs \cup {Cache}) \X Conns

ControlTyped ==
    /\ refreshMu \in Callers \cup {Nobody}
    /\ connLock \in [Conns -> Toggles \cup {Nobody}]
    /\ pc \in [Procs -> CallerPcs \cup SweepPcs \cup TogglePcs]
    /\ refreshMu # Nobody => pc[refreshMu] \in SweepPcs
    /\ \A c \in Conns : connLock[c] # Nobody => pc[connLock[c]] \notin {"idle", "lock"}
    /\ HoldsItsOwn

WorkTyped ==
    /\ req \in [Toggles -> Requests]
    /\ rows \in [Procs -> [Conns -> Rows]] /\ built \in [Procs -> [Conns -> Rows]]
    /\ at \in [Procs -> Conns]
    /\ verdict \in [Callers -> {"none", "admit", "refuse"}]

LEMMA Parts == TypeInv <=> StateTyped /\ ControlTyped /\ WorkTyped
  BY DEF TypeInv, TypeOK, StateTyped, ControlTyped, WorkTyped

LEMMA Assembled == ASSUME StateTyped', ControlTyped', WorkTyped' PROVE TypeInv'
  BY DEF TypeInv, TypeOK, StateTyped, ControlTyped, WorkTyped

LEMMA Pieces ==
    /\ 1 \in Conns /\ NumConns \in Conns
    /\ NoRows \in [Conns -> Rows]
    /\ NoRequest \in Requests
    /\ \A l : Answer(l) \in {"admit", "refuse"}
    /\ \A b : Capture(b) \in Snapshots
  <1>1. 1 \in Conns /\ NumConns \in Conns
    BY DEF Conns
  <1>2. NoRows \in [Conns -> Rows]
    BY DEF NoRows, Unprobed, Rows
  <1>3. NoRequest \in Requests
    BY <1>1 DEF NoRequest, Requests, Snapshots
  <1>4. \A l : Answer(l) \in {"admit", "refuse"}
    BY DEF Answer
  <1>5. \A b : Capture(b) \in Snapshots
    BY DEF Capture, Snapshots
  <1> QED BY <1>1, <1>2, <1>3, <1>4, <1>5

LEMMA TypeInit == Init => TypeInv
  <1> SUFFICES ASSUME Init PROVE TypeInv
    OBVIOUS
  <1>1. /\ listed \in [Conns -> BOOLEAN] /\ enabled \in [Conns -> BOOLEAN]
        /\ managed \in [Conns -> BOOLEAN] /\ snapshot \in [Conns -> Snapshots]
        /\ saver \in [Conns -> BOOLEAN] /\ own \in [Conns -> BOOLEAN]
    BY DEF Init, Snapshots
  <1>2. /\ ledger \in [Conns -> Rows] /\ age \in {"none", "stale", "fresh"}
        /\ rows \in [Procs -> [Conns -> Rows]] /\ built \in [Procs -> [Conns -> Rows]]
        /\ at \in [Procs -> Conns] /\ req \in [Toggles -> Requests]
    BY Pieces DEF Init
  <1>3. /\ refreshMu = Nobody /\ connLock = [c \in Conns |-> Nobody]
        /\ pc \in [Procs -> CallerPcs \cup SweepPcs \cup TogglePcs]
        /\ verdict \in [Callers -> {"none", "admit", "refuse"}]
        /\ toggles \in 0..MaxToggles /\ edits \in 0..MaxEdits
        /\ moved = {} /\ astray = {} /\ lapsed = {}
    BY DEF Init, CallerPcs
  <1> QED BY <1>1, <1>2, <1>3 DEF TypeInv, TypeOK, HoldsItsOwn

\* A step of p that leaves the locks and the requests' connections alone.
LEMMA LocksStay ==
    ASSUME TypeInv, NEW p \in Procs, NEW w \in (CallerPcs \cup SweepPcs \cup TogglePcs),
           Goto(p, w),
           UNCHANGED locks,
           \A t \in Toggles : req'[t].conn = req[t].conn,
           w \in {"idle", "lock"} => \A c \in Conns : connLock[c] # p,
           w \notin SweepPcs => refreshMu # p
    PROVE  ControlTyped'
  <1>0. ControlTyped
    BY Parts
  <1>1. pc' = [pc EXCEPT ![p] = w] /\ UNCHANGED <<refreshMu, connLock>>
    BY DEF Goto, locks
  <1>2. pc' \in [Procs -> CallerPcs \cup SweepPcs \cup TogglePcs]
    BY <1>0, <1>1 DEF ControlTyped
  <1>3. refreshMu # Nobody => pc'[refreshMu] \in SweepPcs
    BY <1>0, <1>1 DEF ControlTyped, Procs
  <1>4. ASSUME NEW c \in Conns, connLock[c] # Nobody
        PROVE  req'[connLock[c]].conn = c /\ pc'[connLock[c]] \notin {"idle", "lock"}
    <2>1. connLock[c] \in Toggles /\ connLock[c] \in Procs
      BY <1>0, <1>4 DEF ControlTyped, Procs
    <2>2. req'[connLock[c]].conn = c
      BY <1>0, <1>4, <2>1 DEF ControlTyped, HoldsItsOwn
    <2>3. CASE connLock[c] = p
      BY <1>0, <1>1, <2>1, <2>2, <2>3 DEF ControlTyped
    <2>4. CASE connLock[c] # p
      BY <1>0, <1>1, <1>4, <2>1, <2>2, <2>4 DEF ControlTyped
    <2> QED BY <2>3, <2>4
  <1> QED BY <1>0, <1>1, <1>2, <1>3, <1>4 DEF ControlTyped, HoldsItsOwn

\* p returns, and gives back what it holds.
LEMMA ReturnTyped ==
    ASSUME TypeInv, NEW p \in Procs, NEW answer \in {"admit", "refuse"}, Return(p, answer),
           pc[p] \in SweepPcs
    PROVE  ControlTyped' /\ WorkTyped'
  <1>1. /\ pc' = [pc EXCEPT ![p] = "idle"]
        /\ rows' \in [Procs -> [Conns -> Rows]] /\ built' \in [Procs -> [Conns -> Rows]]
        /\ at' \in [Procs -> Conns]
    BY Pieces DEF Return, Goto, TypeInv, TypeOK
  <1>2. pc' \in [Procs -> CallerPcs \cup SweepPcs \cup TogglePcs]
    BY <1>1 DEF TypeInv, TypeOK, CallerPcs
  <1>3. CASE p \in Callers
    <2>1. /\ verdict' = [verdict EXCEPT ![p] = answer]
          /\ refreshMu' = IF refreshMu = p THEN Nobody ELSE refreshMu
          /\ UNCHANGED <<connLock, req>>
      BY <1>3 DEF Return
    <2>2. p \notin Toggles /\ \A c \in Conns : connLock[c] # p
      BY <1>3 DEF TypeInv, TypeOK
    <2>3. WorkTyped'
      BY <1>1, <1>3, <2>1 DEF TypeInv, TypeOK, WorkTyped
    <2>4. ControlTyped'
      BY <1>1, <1>2, <1>3, <2>1, <2>2 DEF TypeInv, TypeOK, ControlTyped, HoldsItsOwn, Procs
    <2> QED BY <2>3, <2>4
  <1>4. CASE p \notin Callers
    <2>1. /\ connLock' = [connLock EXCEPT ![req[p].conn] = Nobody]
          /\ req' = [req EXCEPT ![p] = NoRequest]
          /\ UNCHANGED <<verdict, refreshMu>>
      BY <1>4 DEF Return
    <2>2. p \in Toggles /\ refreshMu # p
      BY <1>4 DEF TypeInv, TypeOK, Procs
    <2>3. \A c \in Conns : connLock'[c] # Nobody => connLock'[c] = connLock[c] /\ connLock[c] # p
      BY <2>1, <2>2 DEF TypeInv, TypeOK, HoldsItsOwn
    <2>4. req' \in [Toggles -> Requests]
      BY <2>1, Pieces DEF TypeInv, TypeOK
    <2>5. req[p].conn \in Conns
      BY <2>2 DEF TypeInv, TypeOK, Requests
    <2>6. connLock' \in [Conns -> Toggles \cup {Nobody}]
      BY <2>1, <2>5 DEF TypeInv, TypeOK
    <2>7. HoldsItsOwn'
      BY <1>1, <2>1, <2>3, <2>6 DEF TypeInv, TypeOK, HoldsItsOwn, Procs
    <2>8. \A c \in Conns : connLock'[c] # Nobody => pc'[connLock'[c]] \notin {"idle", "lock"}
      BY <2>7 DEF HoldsItsOwn
    <2>9. refreshMu' # Nobody => pc'[refreshMu'] \in SweepPcs
      BY <1>1, <2>1, <2>2 DEF TypeInv, TypeOK, Procs
    <2>10. ControlTyped'
      BY <1>2, <2>1, <2>6, <2>7, <2>8, <2>9 DEF TypeInv, TypeOK, ControlTyped
    <2>11. WorkTyped'
      BY <1>1, <2>1, <2>4 DEF TypeInv, TypeOK, WorkTyped
    <2> QED BY <2>10, <2>11
  <1> QED BY <1>3, <1>4

\* p appends a row and goes on to the next connection or to the store.
LEMMA AppendTyped ==
    ASSUME TypeInv, NEW p \in Procs, NEW row \in Rows, Append(p, row), pc[p] \in SweepPcs,
           UNCHANGED <<locks, req, rows, verdict>>
    PROVE  ControlTyped' /\ WorkTyped'
  <1>1. at[p] \in Conns /\ built \in [Procs -> [Conns -> Rows]]
    BY DEF TypeInv, TypeOK
  <1>2. built' \in [Procs -> [Conns -> Rows]]
    BY <1>1 DEF Append
  <1>3. at' \in [Procs -> Conns]
    <2>1. CASE at[p] = NumConns
      BY <2>1 DEF Append, TypeInv, TypeOK
    <2>2. CASE at[p] # NumConns
      <3>1. at' = [at EXCEPT ![p] = at[p] + 1]
        BY <2>2 DEF Append
      <3>2. at[p] + 1 \in Conns
        BY <1>1, <2>2 DEF Conns
      <3> QED BY <3>1, <3>2 DEF TypeInv, TypeOK
    <2> QED BY <2>1, <2>2
  <1>4. PICK w \in {"store", "probe"} : Goto(p, w)
    BY DEF Append
  <1>5. ControlTyped'
    BY <1>4, LocksStay DEF SweepPcs
  <1> QED BY <1>2, <1>3, <1>5 DEF TypeInv, TypeOK, WorkTyped

LEMMA TypeSweep ==
    ASSUME TypeInv, NEW p \in Procs, SweepStep(p)
    PROVE  TypeInv'
  <1> USE DEF SweepPcs
  <1>0. StateTyped /\ ControlTyped /\ WorkTyped
    BY Parts
  <1>1. CASE List(p)
    <2>1. StateTyped'
      BY <1>0, <1>1 DEF List, LapsedExcept, StateTyped, db, cache, bounds
    <2>2. ControlTyped'
      BY <1>1, LocksStay DEF List
    <2>3. \A c \in Conns :
              [Unprobed EXCEPT !.enabled = enabled[c], !.managed = managed[c]] \in Rows
      BY <1>0 DEF StateTyped, Unprobed, Rows
    <2>4. WorkTyped'
      BY <1>0, <1>1, <2>3, Pieces DEF List, WorkTyped
    <2> QED BY <2>1, <2>2, <2>4, Assembled
  <1>2. CASE ListFails(p)
    <2>1. StateTyped'
      BY <1>0, <1>2 DEF ListFails, LapsedExcept, StateTyped, db, cache, bounds
    <2>2. PICK answer \in {"admit", "refuse"} : Return(p, answer)
      BY <1>2, Pieces DEF ListFails
    <2>3. ControlTyped' /\ WorkTyped'
      BY <1>2, <2>2, ReturnTyped DEF ListFails
    <2> QED BY <2>1, <2>3, Assembled
  <1>3. CASE Probe(p)
    <2>1. StateTyped'
      BY <1>0, <1>3 DEF Probe, StateTyped, db, cache, bounds
    <2>2. at[p] \in Conns /\ rows[p][at[p]] \in Rows
      BY <1>0 DEF WorkTyped
    <2>3. CASE ~rows[p][at[p]].enabled
      <3>1. Append(p, rows[p][at[p]])
        BY <1>3, <2>3 DEF Probe
      <3> QED BY <1>3, <2>1, <2>2, <3>1, AppendTyped, Assembled DEF Probe
    <2>4. CASE rows[p][at[p]].enabled
      <3>1. PICK r \in Readings(at[p]) :
                LET seen == [rows[p][at[p]] EXCEPT !.saving = r.saving, !.err = r.err]
                IN  \/ /\ built' = [built EXCEPT ![p][at[p]] = seen]
                       /\ Goto(p, "disable")
                       /\ UNCHANGED at
                    \/ Append(p, seen)
        BY <1>3, <2>4 DEF Probe
      <3> DEFINE seen == [rows[p][at[p]] EXCEPT !.saving = r.saving, !.err = r.err]
      <3>2. r.saving \in BOOLEAN /\ r.err \in BOOLEAN
        <4>1. saver[at[p]] \in BOOLEAN
          BY <1>0, <2>2 DEF StateTyped
        <4>2. \/ r = [saving |-> saver[at[p]], err |-> FALSE]
              \/ r = [saving |-> FALSE, err |-> TRUE]
              \/ r = [saving |-> saver[at[p]], err |-> TRUE]
          BY DEF Readings
        <4>3. CASE r = [saving |-> saver[at[p]], err |-> FALSE]
          BY <4>1, <4>3
        <4>4. CASE r = [saving |-> FALSE, err |-> TRUE]
          BY <4>4
        <4>5. CASE r = [saving |-> saver[at[p]], err |-> TRUE]
          BY <4>1, <4>5
        <4> QED BY <4>2, <4>3, <4>4, <4>5
      <3>3. seen \in Rows
        BY <2>2, <3>2 DEF Rows
      <3>4. CASE Append(p, seen)
        BY <1>3, <2>1, <3>3, <3>4, AppendTyped, Assembled DEF Probe
      <3>5. CASE /\ built' = [built EXCEPT ![p][at[p]] = seen]
                 /\ Goto(p, "disable")
                 /\ UNCHANGED at
        <4>1. ControlTyped'
          BY <1>3, <3>5, LocksStay DEF Probe
        <4>2. WorkTyped'
          BY <1>0, <1>3, <2>2, <3>3, <3>5 DEF Probe, WorkTyped
        <4> QED BY <2>1, <4>1, <4>2, Assembled
      <3> QED BY <3>1, <3>4, <3>5
    <2> QED BY <2>3, <2>4
  <1>A. Misfires(p) => astray' \subseteq Conns
    BY <1>0 DEF Misfires, StateTyped, WorkTyped
  <1>4. CASE Disable(p)
    <2>1. StateTyped'
      BY <1>0, <1>4, <1>A DEF Disable, StateTyped, db, cache, bounds
    <2>2. ControlTyped'
      BY <1>4, LocksStay DEF Disable
    <2>3. WorkTyped'
      BY <1>0, <1>4 DEF Disable, WorkTyped, sweep
    <2> QED BY <2>1, <2>2, <2>3, Assembled
  <1>5. CASE DisableFails(p)
    <2>1. StateTyped'
      BY <1>0, <1>5, <1>A DEF DisableFails, StateTyped, db, cache, bounds
    <2>2. [built[p][at[p]] EXCEPT !.managed = FALSE, !.err = TRUE] \in Rows
      <3>1. built[p][at[p]] \in Rows
        BY <1>0 DEF WorkTyped
      <3> QED BY <3>1 DEF Rows
    <2> QED BY <1>5, <2>1, <2>2, AppendTyped, Assembled DEF DisableFails
  <1>6. CASE Recheck(p)
    <2>1. StateTyped'
      BY <1>0, <1>6 DEF Recheck, StateTyped, db, cache, bounds
    <2>2. built[p][at[p]] \in Rows /\ saver[at[p]] \in BOOLEAN
      BY <1>0 DEF WorkTyped, StateTyped
    <2>3. PICK row \in Rows : Append(p, row)
      BY <1>6, <2>2 DEF Recheck, Rows
    <2> QED BY <1>6, <2>1, <2>3, AppendTyped, Assembled DEF Recheck
  <1>7. CASE Store(p)
    <2>0. lapsed' \subseteq (Procs \cup {Cache}) \X Conns
      BY <1>0, <1>7 DEF Store, StateTyped, LapsedExcept, LapsedOf
    <2>1. StateTyped'
      BY <1>0, <1>7, <2>0 DEF Store, StateTyped, WorkTyped, db, bounds
    <2>2. ControlTyped' /\ WorkTyped'
      BY <1>7, ReturnTyped, Pieces DEF Store
    <2> QED BY <2>1, <2>2, Assembled
  <1> QED BY <1>1, <1>2, <1>3, <1>4, <1>5, <1>6, <1>7 DEF SweepStep

LEMMA TypeCaller ==
    ASSUME TypeInv, NEW g \in Callers, Ask(g) \/ Onboard(g) \/ Look(g) \/ LookAgain(g)
    PROVE  TypeInv'
  <1>0. StateTyped /\ ControlTyped /\ WorkTyped /\ g \in Procs /\ g \notin Toggles
    BY Parts DEF Procs
  <1>1. \A c \in Conns : connLock[c] # g
    BY <1>0 DEF ControlTyped
  <1>2. CASE Ask(g)
    <2>1. ControlTyped'
      <3>1. refreshMu # g
        BY <1>0, <1>2 DEF Ask, ControlTyped, SweepPcs
      <3> QED BY <1>0, <1>1, <1>2, <3>1, LocksStay DEF Ask, CallerPcs
    <2>2. StateTyped' /\ WorkTyped'
      BY <1>0, <1>2 DEF Ask, StateTyped, WorkTyped, db, cache, sweep, bounds
    <2> QED BY <2>1, <2>2, Assembled
  <1>3. CASE Onboard(g)
    <2>1. ControlTyped'
      BY <1>0, <1>3, LocksStay DEF Onboard, SweepPcs
    <2>2. StateTyped' /\ WorkTyped'
      BY <1>0, <1>3 DEF Onboard, StateTyped, WorkTyped, db, sweep
    <2> QED BY <2>1, <2>2, Assembled
  <1>4. CASE Look(g)
    <2>1. refreshMu # g
      BY <1>0, <1>4 DEF Look, ControlTyped, SweepPcs
    <2>2. ControlTyped'
      <3>1. PICK w \in {"idle", "waiting"} : Goto(g, w)
        BY <1>4 DEF Look
      <3> QED BY <1>0, <1>1, <1>4, <2>1, <3>1, LocksStay DEF Look, CallerPcs
    <2>3. StateTyped'
      BY <1>0, <1>4 DEF Look, StateTyped, db, cache, bounds
    <2>4. WorkTyped'
      BY <1>0, <1>4, Pieces DEF Look, WorkTyped, sweep
    <2> QED BY <2>2, <2>3, <2>4, Assembled
  <1>5. CASE LookAgain(g)
    <2>1. refreshMu # g
      BY <1>5 DEF LookAgain
    <2>2. ControlTyped'
      <3>1. CASE age = "fresh"
        BY <1>0, <1>1, <1>5, <2>1, <3>1, LocksStay DEF LookAgain, CallerPcs, locks
      <3>2. CASE age # "fresh"
        <4>1. /\ refreshMu' = g /\ pc' = [pc EXCEPT ![g] = "list"]
              /\ UNCHANGED <<connLock, req>>
          BY <1>5, <3>2 DEF LookAgain, Goto
        <4>2. pc' \in [Procs -> CallerPcs \cup SweepPcs \cup TogglePcs] /\ pc'[g] = "list"
          BY <1>0, <4>1 DEF ControlTyped, SweepPcs
        <4>3. \A c \in Conns : connLock'[c] # Nobody => pc'[connLock'[c]] = pc[connLock[c]]
          BY <1>0, <1>1, <4>1 DEF ControlTyped
        <4> QED BY <1>0, <4>1, <4>2, <4>3 DEF ControlTyped, HoldsItsOwn, SweepPcs
      <3> QED BY <3>1, <3>2
    <2>3. StateTyped'
      BY <1>0, <1>5 DEF LookAgain, StateTyped, db, cache, bounds
    <2>4. WorkTyped'
      BY <1>0, <1>5, Pieces DEF LookAgain, WorkTyped, sweep
    <2> QED BY <2>2, <2>3, <2>4, Assembled
  <1> QED BY <1>2, <1>3, <1>4, <1>5

\* A step of t's request between taking its connection's lock and the sweep.
HandlerStep(t) ==
    \/ CaptureConfig(t) \/ Persist(t) \/ Disarm(t) \/ DisarmFails(t) \/ SetFlag(t)
    \/ Undo(t) \/ UndoFails(t) \/ ClearSnapshot(t) \/ Unflag(t)
    \/ Restore(t) \/ RestoreFails(t) \/ CallFails(t) \/ Invalidate(t)

LEMMA HandlerTyped ==
    ASSUME TypeInv, NEW t \in Toggles, HandlerStep(t)
    PROVE  TypeInv'
  <1>0. StateTyped /\ ControlTyped /\ WorkTyped /\ t \in Procs /\ t \notin Callers
    BY Parts DEF Procs
  <1>1. req[t].conn \in Conns /\ req[t].kept \in Snapshots /\ req[t].on \in BOOLEAN
        /\ req[t].owned \in BOOLEAN
    BY <1>0 DEF WorkTyped, Requests
  <1>2. moved' = moved \/ Overtakes
    BY DEF HandlerStep, CaptureConfig, Persist, Disarm, DisarmFails, SetFlag, Undo, UndoFails,
           ClearSnapshot, Unflag, Restore, RestoreFails, CallFails, Invalidate
  <1>3. moved' \subseteq Procs \cup {Cache}
    BY <1>0, <1>2 DEF StateTyped, Overtakes
  <1>A. UNCHANGED lapsed \/ Lapses(t)
    BY DEF HandlerStep, CaptureConfig, Persist, Disarm, DisarmFails, SetFlag, Undo, UndoFails,
           ClearSnapshot, Unflag, Restore, RestoreFails, CallFails, Invalidate
  <1>B. lapsed' \subseteq (Procs \cup {Cache}) \X Conns
    BY <1>0, <1>1, <1>A DEF StateTyped, Lapses
  <1>4. saver' \in [Conns -> BOOLEAN]
    BY <1>0, <1>1
    DEF StateTyped, HandlerStep, CaptureConfig, Persist, Disarm, DisarmFails, SetFlag, Undo,
        UndoFails, ClearSnapshot, Unflag, Restore, RestoreFails, CallFails, Invalidate, Restored
  <1>5. snapshot' \in [Conns -> Snapshots] /\ managed' \in [Conns -> BOOLEAN]
    BY <1>0, <1>1
    DEF StateTyped, HandlerStep, CaptureConfig, Persist, Disarm, DisarmFails, SetFlag, Undo,
        UndoFails, ClearSnapshot, Unflag, Restore, RestoreFails, CallFails, Invalidate, db,
        Snapshots
  <1>6. /\ UNCHANGED <<listed, enabled, own, astray, ledger, toggles, edits, rows, at, built, verdict>>
        /\ UNCHANGED locks
        /\ age' \in {age, "none"}
    BY DEF HandlerStep, CaptureConfig, Persist, Disarm, DisarmFails, SetFlag, Undo, UndoFails,
           ClearSnapshot, Unflag, Restore, RestoreFails, CallFails, Invalidate, db, sweep, bounds,
           cache
  <1>7. /\ req' \in [Toggles -> Requests]
        /\ \A u \in Toggles : req'[u].conn = req[u].conn
    <2>1. CASE CaptureConfig(t)
      <3>1. [req[t] EXCEPT !.kept = Capture(saver[req[t].conn])] \in Requests
        <4>1. req[t] \in Requests
          BY <1>0 DEF WorkTyped
        <4>2. Capture(saver[req[t].conn]) \in Snapshots
          BY Pieces
        <4> QED BY <4>1, <4>2 DEF Requests
      <3>2. req' = [req EXCEPT ![t] = [req[t] EXCEPT !.kept = Capture(saver[req[t].conn])]]
        BY <1>0, <2>1 DEF CaptureConfig, WorkTyped
      <3> QED BY <1>0, <3>1, <3>2 DEF WorkTyped
    <2>2. CASE ~CaptureConfig(t)
      <3>1. UNCHANGED req
        BY <2>2
        DEF HandlerStep, Persist, Disarm, DisarmFails, SetFlag, Undo, UndoFails, ClearSnapshot,
            Unflag, Restore, RestoreFails, CallFails, Invalidate
      <3> QED BY <1>0, <3>1 DEF WorkTyped
    <2> QED BY <2>1, <2>2
  <1>8. PICK w \in (TogglePcs \cup {"list"}) \ {"idle", "lock"} : Goto(t, w)
    BY DEF HandlerStep, CaptureConfig, Persist, Disarm, DisarmFails, SetFlag, Undo, UndoFails,
           ClearSnapshot, Unflag, Restore, RestoreFails, CallFails, Invalidate, MayFail, TogglePcs
  <1>9. refreshMu # t
    BY <1>0 DEF ControlTyped
  <1>10. ControlTyped'
    BY <1>0, <1>6, <1>7, <1>8, <1>9, LocksStay DEF SweepPcs
  <1>11. StateTyped'
    BY <1>0, <1>3, <1>B, <1>4, <1>5, <1>6 DEF StateTyped
  <1>12. WorkTyped'
    BY <1>0, <1>6, <1>7 DEF WorkTyped
  <1> QED BY <1>10, <1>11, <1>12, Assembled

LEMMA TypeRequest ==
    ASSUME TypeInv, NEW t \in Toggles, Request(t) \/ Begin(t)
    PROVE  TypeInv'
  <1>0. StateTyped /\ ControlTyped /\ WorkTyped /\ t \in Procs /\ t \notin Callers
    BY Parts DEF Procs
  <1>1. refreshMu # t
    BY <1>0 DEF ControlTyped
  <1>2. (pc[t] \in {"idle", "lock"}) => \A c \in Conns : connLock[c] # t
    BY <1>0 DEF ControlTyped
  <1>3. CASE Request(t)
    <2>1. PICK c \in Conns, on \in BOOLEAN :
              req' = [req EXCEPT ![t] = [NoRequest EXCEPT !.conn = c, !.on = on]]
      BY <1>3 DEF Request
    <2>2. [NoRequest EXCEPT !.conn = c, !.on = on] \in Requests
      BY DEF NoRequest, Requests, Snapshots
    <2>3. WorkTyped'
      BY <1>0, <1>3, <2>1, <2>2 DEF Request, WorkTyped, sweep
    <2>4. StateTyped'
      <3>1. toggles' \in 0..MaxToggles
        <4>1. toggles \in 0..MaxToggles
          BY <1>0 DEF StateTyped
        <4>2. toggles < MaxToggles /\ toggles' = toggles + 1
          BY <1>3 DEF Request
        <4> QED BY <4>1, <4>2
      <3>2. UNCHANGED <<db, saver, cache, edits, own, astray, moved, lapsed>>
        BY <1>3 DEF Request
      <3> QED BY <1>0, <3>1, <3>2 DEF StateTyped, db, cache
    <2>5. ControlTyped'
      <3>1. pc' = [pc EXCEPT ![t] = "lock"] /\ UNCHANGED <<refreshMu, connLock>>
        BY <1>3 DEF Request, Goto, locks
      <3>2. pc' \in [Procs -> CallerPcs \cup SweepPcs \cup TogglePcs]
        BY <1>0, <3>1 DEF ControlTyped, TogglePcs
      <3>3. \A d \in Conns : connLock[d] # t
        BY <1>2, <1>3 DEF Request
      <3>4. \A d \in Conns : connLock[d] # Nobody =>
                req'[connLock[d]] = req[connLock[d]] /\ pc'[connLock[d]] = pc[connLock[d]]
        BY <1>0, <2>1, <3>1, <3>3 DEF ControlTyped, WorkTyped, Procs
      <3>5. refreshMu # Nobody => pc'[refreshMu] = pc[refreshMu]
        BY <1>0, <1>1, <3>1 DEF ControlTyped, Procs
      <3> QED BY <1>0, <3>1, <3>2, <3>4, <3>5 DEF ControlTyped, HoldsItsOwn
    <2> QED BY <2>3, <2>4, <2>5, Assembled
  <1>4. CASE Begin(t)
    <2>1. StateTyped'
      BY <1>0, <1>4 DEF Begin, StateTyped, db, cache, bounds
    <2>2. CASE NothingToDo(t)
      <3>1. /\ pc' = [pc EXCEPT ![t] = "idle"] /\ req' = [req EXCEPT ![t] = NoRequest]
            /\ UNCHANGED <<connLock, refreshMu, rows, at, built, verdict>> /\ pc[t] = "lock"
        BY <1>4, <2>2 DEF Begin, Goto, sweep
      <3>2. WorkTyped'
        BY <1>0, <3>1, Pieces DEF WorkTyped
      <3>3. ControlTyped'
        BY <1>0, <1>1, <1>2, <3>1 DEF ControlTyped, HoldsItsOwn, TogglePcs, Procs
      <3> QED BY <2>1, <3>2, <3>3, Assembled
    <2>3. CASE ~NothingToDo(t)
      <3> DEFINE c == req[t].conn
      <3>1. req[t] \in Requests /\ c \in Conns /\ snapshot[c] \in Snapshots
        BY <1>0 DEF WorkTyped, Requests, StateTyped
      <3>2. /\ req' = [req EXCEPT ![t] =
                         [req[t] EXCEPT !.kept = snapshot[c],
                                        !.owned = req[t].on /\ snapshot[c] = "none"]]
            /\ connLock' = [connLock EXCEPT ![c] = t]
            /\ UNCHANGED <<refreshMu, rows, at, built, verdict>> /\ pc[t] = "lock"
        BY <1>0, <1>4, <2>3 DEF Begin, sweep, WorkTyped
      <3>3. PICK w \in {"unflag", "capture", "disarm"} : pc' = [pc EXCEPT ![t] = w]
        BY <1>4, <2>3 DEF Begin, Goto
      <3>4. [req[t] EXCEPT !.kept = snapshot[c],
                           !.owned = req[t].on /\ snapshot[c] = "none"] \in Requests
        BY <3>1 DEF Requests
      <3>5. req' \in [Toggles -> Requests] /\ req'[t].conn = c
        BY <1>0, <3>1, <3>2, <3>4 DEF WorkTyped, Requests
      <3>6. WorkTyped'
        BY <1>0, <3>2, <3>5 DEF WorkTyped
      <3>7. ControlTyped'
        <4>1. pc' \in [Procs -> CallerPcs \cup SweepPcs \cup TogglePcs]
          BY <1>0, <3>3 DEF ControlTyped, TogglePcs
        <4>2. connLock' \in [Conns -> Toggles \cup {Nobody}]
          BY <1>0, <3>1, <3>2 DEF ControlTyped
        <4>3. ASSUME NEW d \in Conns, connLock'[d] # Nobody
              PROVE  req'[connLock'[d]].conn = d /\ pc'[connLock'[d]] \notin {"idle", "lock"}
          <5>1. CASE d = c
            BY <1>0, <3>1, <3>2, <3>3, <3>5, <5>1 DEF ControlTyped
          <5>2. CASE d # c
            <6>1. connLock'[d] = connLock[d] /\ connLock[d] \in Toggles /\ connLock[d] # t
              BY <1>0, <1>2, <3>1, <3>2, <4>3, <5>2 DEF ControlTyped
            <6>2. req'[connLock[d]] = req[connLock[d]] /\ pc'[connLock[d]] = pc[connLock[d]]
              BY <1>0, <3>2, <3>3, <6>1 DEF ControlTyped, WorkTyped, Procs
            <6> QED BY <1>0, <4>3, <6>1, <6>2 DEF ControlTyped, HoldsItsOwn
          <5> QED BY <5>1, <5>2
        <4>4. refreshMu' # Nobody => pc'[refreshMu'] \in SweepPcs
          BY <1>0, <1>1, <3>2, <3>3 DEF ControlTyped, Procs
        <4> QED BY <1>0, <3>2, <4>1, <4>2, <4>3, <4>4 DEF ControlTyped, HoldsItsOwn
      <3> QED BY <2>1, <3>6, <3>7, Assembled
    <2> QED BY <2>2, <2>3
  <1> QED BY <1>3, <1>4

LEMMA TypeAdmin ==
    ASSUME TypeInv, Expire \/ \E c \in Conns : Change(c)
    PROVE  TypeInv'
  <1>0. StateTyped /\ ControlTyped /\ WorkTyped
    BY Parts
  <1>1. moved' = moved \/ Overtakes
    BY DEF Expire, Change, Drift, Edit, SetEnabled, Delete
  <1>2. moved' \subseteq Procs \cup {Cache}
    BY <1>0, <1>1 DEF StateTyped, Overtakes
  <1>A. /\ astray' \subseteq astray \cup Conns
        /\ UNCHANGED lapsed
    BY DEF Expire, Change, Drift, Edit, SetEnabled, Delete
  <1>3. StateTyped'
    <2>1. edits' \in 0..MaxEdits /\ UNCHANGED <<ledger, toggles>> /\ age' \in {age, "none", "stale"}
      BY <1>0 DEF StateTyped, Expire, Change, Drift, Edit, SetEnabled, Delete, Edits, cache
    <2>2. CASE Expire
      BY <1>0, <1>2, <1>A, <2>1, <2>2 DEF StateTyped, Expire, db
    <2>3. ASSUME NEW c \in Conns, Drift(c) \/ Edit(c) PROVE StateTyped'
      BY <1>0, <1>2, <1>A, <2>1, <2>3 DEF StateTyped, Drift, Edit, db, cache
    <2>4. ASSUME NEW c \in Conns, SetEnabled(c) \/ Delete(c) PROVE StateTyped'
      BY <1>0, <1>2, <1>A, <2>1, <2>4 DEF StateTyped, SetEnabled, Delete, cache, Snapshots
    <2> QED BY <2>2, <2>3, <2>4 DEF Change
  <1>4. UNCHANGED <<locks, pc, req, rows, at, built, verdict>>
    BY DEF Expire, Change, Drift, Edit, SetEnabled, Delete, sweep
  <1>5. ControlTyped' /\ WorkTyped'
    BY <1>0, <1>4 DEF ControlTyped, HoldsItsOwn, WorkTyped, locks
  <1> QED BY <1>3, <1>5, Assembled

LEMMA TypeStep == TypeInv /\ [Next]_vars => TypeInv'
  <1> SUFFICES ASSUME TypeInv, [Next]_vars PROVE TypeInv'
    OBVIOUS
  <1>1. CASE UNCHANGED vars
    BY <1>1 DEF vars, db, cache, locks, sweep, bounds, TypeInv, TypeOK, HoldsItsOwn
  <1>2. ASSUME NEW g \in Callers, Ask(g) \/ Onboard(g) \/ CallerStep(g) PROVE TypeInv'
    BY <1>2, TypeCaller, TypeSweep DEF CallerStep, Procs
  <1>3. ASSUME NEW t \in Toggles, Request(t) \/ ToggleStep(t) PROVE TypeInv'
    BY <1>3, TypeRequest, HandlerTyped, TypeSweep DEF ToggleStep, HandlerStep, Procs
  <1> QED BY <1>1, <1>2, <1>3, TypeAdmin DEF Next

\* Every variable keeps its type, refreshMu is held only inside Refresh, and a
\* connection's lock only by a request that is under way: every path of
\* handleSetStillwaterManaged and of Current gives back what it took.
THEOREM TypeCorrect == Spec => []TypeOK
  <1>1. TypeInv => TypeOK
    BY DEF TypeInv
  <1> QED BY <1>1, TypeInit, TypeStep, PTL DEF Spec

----------------------------------------------------------------------------
(* What a sweep knows.                                                     *)

\* The row tells the gate what it has to know of connection c: an enabled peer that
\* saves files counts, unless it is managed and could not be read.
Tells(row, c) ==
    enabled[c] /\ saver[c] =>
        /\ row.enabled
        /\ IF row.managed THEN row.err /\ ~row.saving ELSE row.err \/ row.saving

\* The row p is working on was listed as the connection is now.
Current(p, c) ==
    rows[p][c].enabled = enabled[c] /\ rows[p][c].managed = managed[c]

SweepKnows(p) ==
    /\ pc[p] \in {"probe", "disable", "recheck", "store"} => \A c \in Conns : Current(p, c)
    /\ pc[p] \in {"probe", "disable", "recheck"} =>
           \A c \in Conns : c < at[p] => Tells(built[p][c], c)
    /\ pc[p] \in {"disable", "recheck"} =>
           /\ built[p][at[p]].enabled = enabled[at[p]]
           /\ built[p][at[p]].managed = managed[at[p]]
    /\ pc[p] = "recheck" => ~saver[at[p]]
    /\ pc[p] = "store" => \A c \in Conns : Tells(built[p][c], c)

\* AdmitsOnlyKnown speaks of the step that admits; it follows from what every
\* sweep, and the cached ledger, know as long as no change has overtaken them.
KnowsInv ==
    /\ \A p \in Procs : p \notin moved => SweepKnows(p)
    /\ age # "none" /\ Cache \notin moved => \A c \in Conns : Tells(ledger[c], c)

Sweeping == {"probe", "disable", "recheck", "store"}

LEMMA KnowsInit == Init => KnowsInv
  BY DEF Init, KnowsInv, SweepKnows

\* A sweep that takes no step knows what it knew, if the connections table stays as
\* it is and no peer begins to save.
LEMMA SweepKept ==
    ASSUME TypeInv, NEW q \in Procs, SweepKnows(q),
           UNCHANGED <<enabled, managed>>,
           \A c \in Conns : saver'[c] => saver[c],
           rows'[q] = rows[q], built'[q] = built[q], at'[q] = at[q], pc'[q] = pc[q]
    PROVE  SweepKnows(q)'
  <1>1. at[q] \in Conns
    BY DEF TypeInv, TypeOK
  <1> QED BY <1>1 DEF SweepKnows, Current, Tells

LEMMA LedgerKept ==
    ASSUME KnowsInv, UNCHANGED <<enabled, ledger>>,
           \A c \in Conns : saver'[c] => saver[c],
           age' # "none" => age # "none",
           Cache \notin moved' => Cache \notin moved
    PROVE  age' # "none" /\ Cache \notin moved' => \A c \in Conns : Tells(ledger[c], c)'
  BY DEF KnowsInv, Tells

\* A change that overtakes every sweep, and the ledger, leaves nothing to know.
LEMMA OvertakenKnows ==
    ASSUME TypeInv, Overtakes,
           \A q \in Procs : pc'[q] = pc[q] \/ pc'[q] \notin Sweeping
    PROVE  KnowsInv'
  <1>1. ASSUME NEW q \in Procs, q \notin moved' PROVE pc'[q] \notin Sweeping
    BY <1>1 DEF Overtakes, SweepPcs, Sweeping
  <1>2. \A q \in Procs : q \notin moved' => SweepKnows(q)'
    BY <1>1 DEF SweepKnows, Sweeping
  <1> QED BY <1>2 DEF KnowsInv, Overtakes

\* A step of p outside its sweep that starts no peer saving.
LEMMA QuietKnows ==
    ASSUME TypeInv, KnowsInv, NEW p \in Procs,
           \A q \in Procs : pc'[q] = pc[q] \/ pc'[q] \notin Sweeping,
           UNCHANGED <<enabled, managed, ledger, rows, at, built, moved>>,
           \A c \in Conns : saver'[c] => saver[c],
           age' # "none" => age # "none"
    PROVE  KnowsInv'
  <1>1. ASSUME NEW q \in Procs, q \notin moved' PROVE SweepKnows(q)'
    <2>1. SweepKnows(q)
      BY <1>1 DEF KnowsInv
    <2>2. CASE pc'[q] = pc[q]
      BY <2>1, <2>2, SweepKept
    <2>3. CASE pc'[q] \notin Sweeping
      BY <2>3 DEF SweepKnows, Sweeping
    <2> QED BY <2>2, <2>3
  <1> QED BY <1>1, LedgerKept DEF KnowsInv

\* A step of p's sweep: the other sweeps, and the ledger, are as before.
LEMMA OthersKnow ==
    ASSUME TypeInv, KnowsInv, NEW p \in Procs,
           UNCHANGED <<enabled, managed, ledger, age>>,
           \A c \in Conns : saver'[c] => saver[c],
           \A q \in Procs \ {p} : /\ rows'[q] = rows[q] /\ built'[q] = built[q]
                                  /\ at'[q] = at[q] /\ pc'[q] = pc[q],
           moved' \in {moved, moved \ {p}},
           p \notin moved' => SweepKnows(p)'
    PROVE  KnowsInv'
  <1>1. ASSUME NEW q \in Procs \ {p}, q \notin moved' PROVE SweepKnows(q)'
    <2>1. SweepKnows(q)
      BY <1>1 DEF KnowsInv
    <2> QED BY <1>1, <2>1, SweepKept
  <1>2. Cache \notin moved' => Cache \notin moved
    BY DEF Procs
  <1> QED BY <1>1, <1>2, LedgerKept DEF KnowsInv

\* The row p appends tells what it must: so does all that p has built.
LEMMA AppendKnows ==
    ASSUME TypeInv, NEW p \in Procs, NEW row, Append(p, row), UNCHANGED <<rows, enabled, managed>>,
           \A c \in Conns : saver'[c] => saver[c],
           pc[p] \in {"probe", "disable", "recheck"}, SweepKnows(p),
           \A c \in Conns : c = at[p] => Tells(row, c)'
    PROVE  SweepKnows(p)'
  <1> DEFINE b == at[p]
  <1>1. b \in Conns /\ built[p] \in [Conns -> Rows] /\ built \in [Procs -> [Conns -> Rows]]
        /\ at \in [Procs -> Conns] /\ pc \in [Procs -> CallerPcs \cup SweepPcs \cup TogglePcs]
    BY DEF TypeInv, TypeOK
  <1>2. built'[p] = [built[p] EXCEPT ![b] = row]
    BY <1>1 DEF Append
  <1>3. ASSUME NEW c \in Conns, c <= b PROVE Tells(built[p][c], c)'
    <2>1. CASE c = b
      <3>1. Tells(row, c)'
        BY <2>1
      <3>2. built'[p][c] = row
        BY <1>1, <1>2, <2>1
      <3> QED BY <3>1, <3>2 DEF Tells
    <2>2. CASE c # b
      <3>1. Tells(built[p][c], c)
        BY <1>1, <1>3, <2>2 DEF SweepKnows, Conns
      <3>2. built'[p][c] = built[p][c]
        BY <1>1, <1>2, <2>2
      <3> QED BY <3>1, <3>2 DEF Tells
    <2> QED BY <2>1, <2>2
  <1>4. \A c \in Conns : Current(p, c)'
    BY DEF SweepKnows, Current
  <1>5. CASE b = NumConns
    <2>1. pc'[p] = "store"
      BY <1>1, <1>5 DEF Append, Goto
    <2>2. \A c \in Conns : c <= b
      BY <1>5 DEF Conns
    <2> QED BY <1>3, <1>4, <2>1, <2>2 DEF SweepKnows
  <1>6. CASE b # NumConns
    <2>1. pc'[p] = "probe" /\ at'[p] = b + 1
      BY <1>1, <1>6 DEF Append, Goto
    <2>2. \A c \in Conns : c < b + 1 => c <= b
      BY <1>1 DEF Conns
    <2> QED BY <1>3, <1>4, <2>1, <2>2 DEF SweepKnows
  <1> QED BY <1>5, <1>6

LEMMA SweepStepKnows ==
    ASSUME TypeInv, KnowsInv, NEW p \in Procs, SweepStep(p)
    PROVE  KnowsInv'
  <1> DEFINE b == at[p]
  <1>0. /\ b \in Conns /\ rows \in [Procs -> [Conns -> Rows]] /\ built \in [Procs -> [Conns -> Rows]]
        /\ at \in [Procs -> Conns] /\ pc \in [Procs -> CallerPcs \cup SweepPcs \cup TogglePcs]
        /\ saver \in [Conns -> BOOLEAN] /\ enabled \in [Conns -> BOOLEAN]
        /\ managed \in [Conns -> BOOLEAN]
    BY DEF TypeInv, TypeOK
  <1>1. CASE List(p)
    <2>1. /\ \A c \in Conns : rows'[p][c].enabled = enabled[c] /\ rows'[p][c].managed = managed[c]
          /\ at'[p] = 1 /\ pc'[p] = "probe"
      BY <1>0, <1>1 DEF List, Goto, Unprobed
    <2>2. UNCHANGED <<enabled, managed, saver, ledger, age>> /\ moved' = moved \ {p}
      BY <1>1 DEF List, db, cache
    <2>3. SweepKnows(p)'
      BY <2>1, <2>2 DEF SweepKnows, Current, Conns
    <2>4. \A q \in Procs \ {p} : /\ rows'[q] = rows[q] /\ built'[q] = built[q]
                                 /\ at'[q] = at[q] /\ pc'[q] = pc[q]
      BY <1>0, <1>1 DEF List, Goto
    <2> QED BY <2>2, <2>3, <2>4, OthersKnow
  <1>2. CASE ListFails(p)
    <2>1. PICK answer : Return(p, answer)
      BY <1>2 DEF ListFails
    <2>2. SweepKnows(p)'
      BY <1>0, <2>1 DEF Return, Goto, SweepKnows
    <2>3. \A q \in Procs \ {p} : /\ rows'[q] = rows[q] /\ built'[q] = built[q]
                                 /\ at'[q] = at[q] /\ pc'[q] = pc[q]
      BY <1>0, <2>1 DEF Return, Goto
    <2>4. UNCHANGED <<enabled, managed, saver, ledger, age>> /\ moved' = moved \ {p}
      BY <1>2 DEF ListFails, db, cache
    <2> QED BY <2>2, <2>3, <2>4, OthersKnow
  <1>3. ASSUME Probe(p) \/ Disable(p) \/ DisableFails(p) \/ Recheck(p),
               p \notin moved => SweepKnows(p)'
        PROVE  KnowsInv'
    <2>1. UNCHANGED <<enabled, managed, ledger, age, moved, rows>>
      BY <1>3 DEF Probe, Disable, DisableFails, Recheck, db, cache, sweep
    <2>2. \A c \in Conns : saver'[c] => saver[c]
      BY <1>0, <1>3 DEF Probe, Disable, DisableFails, Recheck
    <2>3. \A q \in Procs \ {p} : built'[q] = built[q] /\ at'[q] = at[q] /\ pc'[q] = pc[q]
      BY <1>0, <1>3 DEF Probe, Disable, DisableFails, Recheck, Append, Goto, sweep
    <2> QED BY <1>3, <2>1, <2>2, <2>3, OthersKnow
  <1>4. CASE Probe(p)
    <2> SUFFICES ASSUME p \notin moved PROVE SweepKnows(p)'
      BY <1>3, <1>4
    <2>1. SweepKnows(p) /\ pc[p] = "probe" /\ UNCHANGED <<rows, enabled, managed, saver>>
      BY <1>4 DEF Probe, KnowsInv, db
    <2>2. rows[p][b] \in Rows /\ rows[p][b].enabled = enabled[b] /\ rows[p][b].managed = managed[b]
      BY <1>0, <2>1 DEF SweepKnows, Current
    <2>3. CASE ~rows[p][b].enabled
      <3>1. PICK row : row = rows[p][b] /\ Append(p, row)
        BY <1>4, <2>3 DEF Probe
      <3>2. \A c \in Conns : c = at[p] => Tells(row, c)'
        BY <2>1, <2>2, <2>3 DEF Tells
      <3> QED BY <2>1, <3>1, <3>2, AppendKnows
    <2>4. CASE rows[p][b].enabled
      <3>1. PICK r \in Readings(b) :
                LET seen == [rows[p][b] EXCEPT !.saving = r.saving, !.err = r.err]
                IN  IF rows[p][b].managed /\ r.saving
                    THEN /\ built' = [built EXCEPT ![p][b] = seen]
                         /\ Goto(p, "disable")
                         /\ UNCHANGED at
                    ELSE Append(p, seen)
        BY <1>4, <2>4 DEF Probe
      <3>2. (r.saving = saver[b] \/ (r.saving = FALSE /\ r.err = TRUE)) /\ r.saving \in BOOLEAN
        <4>1. \/ r = [saving |-> saver[b], err |-> FALSE]
              \/ r = [saving |-> FALSE, err |-> TRUE]
              \/ r = [saving |-> saver[b], err |-> TRUE]
          BY DEF Readings
        <4>2. saver[b] \in BOOLEAN
          BY <1>0
        <4>3. CASE r = [saving |-> saver[b], err |-> FALSE]
          BY <4>2, <4>3
        <4>4. CASE r = [saving |-> FALSE, err |-> TRUE]
          BY <4>4
        <4>5. CASE r = [saving |-> saver[b], err |-> TRUE]
          BY <4>2, <4>5
        <4> QED BY <4>1, <4>3, <4>4, <4>5
      <3>3. PICK seen : seen = [rows[p][b] EXCEPT !.saving = r.saving, !.err = r.err]
        OBVIOUS
      <3>4. /\ seen.enabled = enabled[b] /\ seen.managed = managed[b]
            /\ seen.saving = r.saving /\ seen.err = r.err
        BY <2>2, <3>3 DEF Rows
      <3>5. CASE rows[p][b].managed /\ r.saving
        <4>1. /\ built' = [built EXCEPT ![p][b] = seen] /\ pc'[p] = "disable"
              /\ UNCHANGED at
          BY <1>0, <3>1, <3>3, <3>5 DEF Goto
        <4>2. \A c \in Conns : c < b => built'[p][c] = built[p][c]
          BY <1>0, <4>1 DEF Conns
        <4>3. built'[p][b] = seen
          BY <1>0, <4>1
        <4> QED BY <2>1, <3>4, <4>1, <4>2, <4>3 DEF SweepKnows, Current, Tells
      <3>6. CASE ~(rows[p][b].managed /\ r.saving)
        <4>1. Append(p, seen)
          BY <3>1, <3>3, <3>6
        <4>2. \A c \in Conns : c = at[p] => Tells(seen, c)'
          BY <2>1, <2>2, <2>4, <3>2, <3>4, <3>6 DEF Tells
        <4> QED BY <2>1, <4>1, <4>2, AppendKnows
      <3> QED BY <3>5, <3>6
    <2> QED BY <2>3, <2>4
  <1>5. CASE Disable(p)
    <2> SUFFICES ASSUME p \notin moved PROVE SweepKnows(p)'
      BY <1>3, <1>5
    <2>1. SweepKnows(p) /\ pc[p] = "disable" /\ pc'[p] = "recheck"
          /\ UNCHANGED <<rows, built, at, enabled, managed>>
      BY <1>0, <1>5 DEF Disable, KnowsInv, db, sweep, Goto
    <2>2. ~saver'[b] /\ \A c \in Conns : saver'[c] => saver[c]
      BY <1>0, <1>5 DEF Disable
    <2> QED BY <1>0, <2>1, <2>2 DEF SweepKnows, Current, Tells
  <1>6. CASE DisableFails(p)
    <2> SUFFICES ASSUME p \notin moved PROVE SweepKnows(p)'
      BY <1>3, <1>6
    <2>1. SweepKnows(p) /\ pc[p] = "disable" /\ UNCHANGED <<rows, enabled, managed>>
      BY <1>6 DEF DisableFails, KnowsInv, db
    <2>2. \A c \in Conns : saver'[c] => saver[c]
      BY <1>0, <1>6 DEF DisableFails
    <2>3. PICK row : /\ row = [built[p][b] EXCEPT !.managed = FALSE, !.err = TRUE]
                     /\ Append(p, row)
      BY <1>6 DEF DisableFails
    <2>4. built[p][b] \in Rows
      BY <1>0
    <2>5. row.enabled = enabled[b] /\ row.managed = FALSE /\ row.err = TRUE
      BY <2>1, <2>3, <2>4 DEF SweepKnows, Rows
    <2>6. \A c \in Conns : c = at[p] => Tells(row, c)'
      BY <2>1, <2>5 DEF Tells
    <2> QED BY <2>1, <2>2, <2>3, <2>6, AppendKnows
  <1>7. CASE Recheck(p)
    <2> SUFFICES ASSUME p \notin moved PROVE SweepKnows(p)'
      BY <1>3, <1>7
    <2>1. SweepKnows(p) /\ pc[p] = "recheck" /\ UNCHANGED <<rows, enabled, managed, saver>>
      BY <1>7 DEF Recheck, KnowsInv, db
    <2>2. PICK row : Append(p, row)
      BY <1>7 DEF Recheck
    <2>3. \A c \in Conns : c = at[p] => Tells(row, c)'
      BY <2>1 DEF SweepKnows, Tells
    <2> QED BY <2>1, <2>2, <2>3, AppendKnows
  <1>8. CASE Store(p)
    <2>1. pc[p] = "store" /\ ledger' = built[p] /\ UNCHANGED <<enabled, managed, saver>>
          /\ Return(p, Answer(built[p]))
      BY <1>8 DEF Store, db
    <2>2. SweepKnows(p)'
      BY <1>0, <2>1 DEF Return, Goto, SweepKnows
    <2>3. ASSUME NEW q \in Procs, q # p, q \notin moved' PROVE SweepKnows(q)'
      <3>1. q \notin moved
        BY <1>8, <2>3 DEF Store, Procs
      <3>2. rows'[q] = rows[q] /\ built'[q] = built[q] /\ at'[q] = at[q] /\ pc'[q] = pc[q]
        BY <1>0, <2>1, <2>3 DEF Return, Goto
      <3> QED BY <2>1, <3>1, <3>2, SweepKept DEF KnowsInv
    <2>4. ASSUME Cache \notin moved' PROVE \A c \in Conns : Tells(ledger[c], c)'
      <3>1. SweepKnows(p)
        BY <1>8, <2>4 DEF Store, KnowsInv
      <3> QED BY <2>1, <3>1 DEF SweepKnows, Tells
    <2> QED BY <2>2, <2>3, <2>4 DEF KnowsInv
  <1> QED BY <1>1, <1>2, <1>4, <1>5, <1>6, <1>7, <1>8 DEF SweepStep

LEMMA KnowsStep == TypeInv /\ KnowsInv /\ [Next]_vars => KnowsInv'
  <1> SUFFICES ASSUME TypeInv, KnowsInv, [Next]_vars PROVE KnowsInv'
    OBVIOUS
  <1>0. /\ saver \in [Conns -> BOOLEAN]
        /\ pc \in [Procs -> CallerPcs \cup SweepPcs \cup TogglePcs]
    BY DEF TypeInv, TypeOK
  <1>1. CASE UNCHANGED vars
    BY <1>1 DEF vars, db, cache, sweep, KnowsInv, SweepKnows, Current, Tells
  <1>2. ASSUME NEW g \in Callers, Ask(g) \/ Onboard(g) \/ Look(g) \/ LookAgain(g)
        PROVE  KnowsInv'
    <2>1. UNCHANGED <<enabled, managed, saver, ledger, rows, at, built, moved>>
          /\ age' \in {age, "none"}
      BY <1>2 DEF Ask, Onboard, Look, LookAgain, db, cache, sweep
    <2>2. \A q \in Procs : pc'[q] = pc[q] \/ pc'[q] \notin Sweeping
      BY <1>0, <1>2 DEF Ask, Onboard, Look, LookAgain, Goto, Sweeping
    <2>3. g \in Procs
      BY DEF Procs
    <2> QED BY <2>1, <2>2, <2>3, QuietKnows
  <1>3. ASSUME NEW t \in Toggles, Request(t) \/ Begin(t) \/ HandlerStep(t) PROVE KnowsInv'
    <2>1. \A q \in Procs : pc'[q] = pc[q] \/ pc'[q] \notin Sweeping
      BY <1>0, <1>3
      DEF Request, Begin, HandlerStep, CaptureConfig, Persist, Disarm, DisarmFails, SetFlag,
          Undo, UndoFails, ClearSnapshot, Unflag, Restore, RestoreFails, CallFails, Invalidate,
          MayFail, Goto, Sweeping
    <2>2. CASE SetFlag(t) \/ Undo(t) \/ UndoFails(t) \/ Unflag(t) \/ Restore(t) \/ RestoreFails(t)
      BY <2>1, <2>2, OvertakenKnows DEF SetFlag, Undo, UndoFails, Unflag, Restore, RestoreFails
    <2>3. CASE Request(t) \/ Begin(t) \/ CaptureConfig(t) \/ Persist(t) \/ Disarm(t)
               \/ DisarmFails(t) \/ ClearSnapshot(t) \/ CallFails(t) \/ Invalidate(t)
      <3>1. UNCHANGED <<enabled, managed, ledger, rows, at, built, moved>> /\ age' \in {age, "none"}
        BY <2>3 DEF Request, Begin, CaptureConfig, Persist, Disarm, DisarmFails, ClearSnapshot,
                    CallFails, Invalidate, db, cache, sweep
      <3>2. \A c \in Conns : saver'[c] => saver[c]
        BY <1>0, <2>3 DEF Request, Begin, CaptureConfig, Persist, Disarm, DisarmFails,
                          ClearSnapshot, CallFails, Invalidate
      <3>3. t \in Procs
        BY DEF Procs
      <3> QED BY <2>1, <3>1, <3>2, <3>3, QuietKnows
    <2> QED BY <1>3, <2>2, <2>3 DEF HandlerStep
  <1>4. ASSUME NEW c \in Conns, Change(c) PROVE KnowsInv'
    BY <1>4, OvertakenKnows DEF Change, Drift, Edit, SetEnabled, Delete
  <1>5. CASE Expire
    <2>1. UNCHANGED <<enabled, managed, saver, ledger, pc, rows, at, built, moved>>
          /\ (age' # "none" => age # "none")
      BY <1>5 DEF Expire, db, sweep
    <2>2. \A q \in Procs : q \notin moved => SweepKnows(q)'
      BY <2>1, SweepKept DEF KnowsInv
    <2> QED BY <2>1, <2>2, LedgerKept DEF KnowsInv
  <1>6. ASSUME NEW g \in Callers, CallerStep(g) PROVE KnowsInv'
    BY <1>2, <1>6, SweepStepKnows DEF CallerStep, Procs
  <1>7. ASSUME NEW t \in Toggles, ToggleStep(t) PROVE KnowsInv'
    BY <1>3, <1>7, SweepStepKnows DEF ToggleStep, HandlerStep, Procs
  <1> QED BY <1>1, <1>2, <1>3, <1>4, <1>5, <1>6, <1>7 DEF Next

\* What the answer to a ledger that tells of every connection means.
LEMMA AnswerMeans ==
    ASSUME NEW l \in [Conns -> Rows], Answer(l) = "admit", NEW c \in Conns,
           Tells(l[c], c), enabled[c], saver[c]
    PROVE  l[c].managed /\ l[c].err /\ ~l[c].saving
  <1>1. l[c] \in Rows
    OBVIOUS
  <1>2. ~(Counts(l[c]) /\ (l[c].err \/ l[c].saving))
    BY DEF Answer, Blocks, Conflict
  <1> QED BY <1>1, <1>2 DEF Tells, Counts, Rows

Admission ==
    \A g \in Callers : Admits(g) => \A c \in Conns :
        (enabled[c] /\ saver[c]) => (ledger'[c].managed /\ ledger'[c].err /\ ~ledger'[c].saving)

LEMMA AdmissionStep == TypeInv /\ KnowsInv /\ [Next]_vars => Admission
  <1> SUFFICES ASSUME TypeInv, KnowsInv, [Next]_vars, NEW g \in Callers, Admits(g),
                      NEW c \in Conns, enabled[c], saver[c]
               PROVE  ledger'[c].managed /\ ledger'[c].err /\ ~ledger'[c].saving
    BY DEF Admission
  <1>0. /\ ledger \in [Conns -> Rows] /\ built \in [Procs -> [Conns -> Rows]]
        /\ verdict \in [Callers -> {"none", "admit", "refuse"}]
        /\ verdict[g] # "admit" /\ verdict'[g] = "admit" /\ Cache \notin moved'
    BY DEF TypeInv, TypeOK, Admits
  <1>1. ASSUME age # "none", Answer(ledger) = "admit", UNCHANGED ledger, Cache \notin moved
        PROVE  ledger'[c].managed /\ ledger'[c].err /\ ~ledger'[c].saving
    BY <1>0, <1>1, AnswerMeans DEF KnowsInv
  <1>2. UNCHANGED verdict => verdict'[g] # "admit"
    BY <1>0
  <1>3. ASSUME NEW h \in Callers, Ask(h) \/ Onboard(h)
        PROVE  ledger'[c].managed /\ ledger'[c].err /\ ~ledger'[c].saving
    BY <1>0, <1>3 DEF Ask, Onboard
  <1>4. ASSUME NEW h \in Callers, Look(h) \/ LookAgain(h)
        PROVE  ledger'[c].managed /\ ledger'[c].err /\ ~ledger'[c].saving
    <2>1. UNCHANGED <<ledger, moved>> /\ age = "fresh" /\ Answer(ledger) = "admit"
      BY <1>0, <1>4 DEF Look, LookAgain, cache
    <2> QED BY <1>0, <1>1, <2>1
  <1>5. ASSUME NEW p \in Procs, ListFails(p)
        PROVE  ledger'[c].managed /\ ledger'[c].err /\ ~ledger'[c].saving
    <2>1. UNCHANGED ledger /\ (Cache \notin moved' => Cache \notin moved)
      BY <1>5 DEF ListFails, cache, Procs
    <2>2. age # "none" /\ Answer(ledger) = "admit"
      BY <1>0, <1>5 DEF ListFails, Return
    <2> QED BY <1>0, <1>1, <2>1, <2>2
  <1>6. ASSUME NEW p \in Procs, Store(p)
        PROVE  ledger'[c].managed /\ ledger'[c].err /\ ~ledger'[c].saving
    <2>1. ledger' = built[p] /\ Answer(built[p]) = "admit"
      BY <1>0, <1>6 DEF Store, Return
    <2>2. p \notin moved /\ pc[p] = "store"
      BY <1>0, <1>6 DEF Store
    <2>3. Tells(built[p][c], c)
      BY <2>2 DEF KnowsInv, SweepKnows
    <2> QED BY <1>0, <2>1, <2>3, AnswerMeans
  <1>7. ASSUME NEW p \in Procs, SweepStep(p), ~ListFails(p), ~Store(p)
        PROVE  UNCHANGED verdict
    BY <1>7 DEF SweepStep, List, Probe, Disable, DisableFails, Recheck
  <1>8. ASSUME NEW t \in Toggles, Request(t) \/ Begin(t) \/ HandlerStep(t) PROVE UNCHANGED verdict
    BY <1>8
    DEF Request, Begin, HandlerStep, CaptureConfig, Persist, Disarm, DisarmFails, SetFlag, Undo,
        UndoFails, ClearSnapshot, Unflag, Restore, RestoreFails, CallFails, Invalidate
  <1>9. ASSUME Expire \/ \E d \in Conns : Change(d) PROVE UNCHANGED verdict
    BY <1>9 DEF Expire, Change, Drift, Edit, SetEnabled, Delete
  <1>10. CASE UNCHANGED vars
    BY <1>2, <1>0, <1>10 DEF vars
  <1>11. ASSUME NEW p \in Procs, SweepStep(p)
         PROVE  ledger'[c].managed /\ ledger'[c].err /\ ~ledger'[c].saving
    BY <1>0, <1>2, <1>5, <1>6, <1>7, <1>11
  <1>12. ASSUME NEW h \in Callers, Ask(h) \/ Onboard(h) \/ CallerStep(h)
         PROVE  ledger'[c].managed /\ ledger'[c].err /\ ~ledger'[c].saving
    BY <1>3, <1>4, <1>11, <1>12 DEF CallerStep, Procs
  <1>13. ASSUME NEW t \in Toggles, Request(t) \/ ToggleStep(t)
         PROVE  ledger'[c].managed /\ ledger'[c].err /\ ~ledger'[c].saving
    BY <1>0, <1>2, <1>8, <1>11, <1>13 DEF ToggleStep, HandlerStep, Procs
  <1> QED BY <1>0, <1>2, <1>9, <1>10, <1>12, <1>13 DEF Next

\* For any connections, callers and toggle requests, whatever calls fail and
\* whatever the administrators do: when the gate admits a write, from a ledger no
\* change has overtaken, no enabled peer saves files but for a managed one whose
\* savers could not be read (AllowImageWrite, AllowNFOWrite, checkOne).
THEOREM GateIsSound == Spec => AdmitsOnlyKnown
  <1>1. Init => TypeInv /\ KnowsInv
    BY TypeInit, KnowsInit
  <1>2. TypeInv /\ KnowsInv /\ [Next]_vars => (TypeInv /\ KnowsInv)'
    BY TypeStep, KnowsStep
  <1>3. TypeInv /\ KnowsInv /\ [Next]_vars => [Admission]_vars
    BY AdmissionStep
  <1>4. AdmitsOnlyKnown <=> [][Admission]_vars
    BY DEF AdmitsOnlyKnown, Admission
  <1> QED BY <1>1, <1>2, <1>3, <1>4, PTL DEF Spec

----------------------------------------------------------------------------
(* The toggle.                                                             *)

AtWork(t) == pc[t] \notin {"idle", "lock"}

\* A request that is under way holds the lock of its connection.
WorkInv == \A t \in Toggles : AtWork(t) => connLock[req[t].conn] = t

\* The request that holds c's lock has not come to its end.
Busy(c) == connLock[c] # Nobody /\ pc[connLock[c]] \notin SweepPcs \cup {"invalidate"}

\* What a request knows of the connection it serves.
HandlerFits(t) ==
    LET c == req[t].conn
        k == req[t].kept IN
    /\ pc[t] \in {"capture", "persist"} => snapshot[c] = "none" /\ saver[c] = own[c]
    /\ pc[t] = "persist" => k = Capture(own[c])
    /\ pc[t] \in {"disarm", "setFlag", "undo", "unflag", "restore"} =>
          snapshot[c] # "none" /\ k = snapshot[c]
    /\ pc[t] \in {"disarm", "setFlag", "undo", "undoClear", "restore", "clear"} => ~managed[c]
    /\ pc[t] \in {"undoClear", "clear"} => saver[c] = own[c]

\* SnapshotIsOriginal and OwnConfigKept follow: a managed peer has a snapshot, and
\* one without a snapshot runs as its administrator wants unless a request is busy.
ConfigFits(c) ==
    /\ managed[c] => snapshot[c] # "none"
    /\ snapshot[c] # "none" => snapshot[c] = Capture(own[c])
    /\ snapshot[c] = "none" /\ ~Busy(c) => saver[c] = own[c]

ConfigInv ==
    /\ \A c \in Conns \ astray : ConfigFits(c)
    /\ \A t \in Toggles : req[t].conn \notin astray => HandlerFits(t)

\* A request that took a connection's flag away and has its Invalidate to come.
Answers(c) == connLock[c] # Nobody /\ pc[connLock[c]] \in {"restore", "clear", "invalidate"}

\* What a row says of c's flag is so, or c was opted out after the row was listed.
FlagFits(row, p, c) == row.managed /\ listed[c] => managed[c] \/ <<p, c>> \in lapsed

\* A fresh ledger, too, may be wrong only while the opt-out is not at its end.
LedgerInv ==
    /\ age = "fresh" => \A c \in Conns : FlagFits(ledger[c], Cache, c) \/ Answers(c)
    /\ \A p \in Procs : pc[p] \in Sweeping => \A c \in Conns :
          FlagFits(rows[p][c], p, c) /\ FlagFits(built[p][c], p, c)

LEMMA CareInit == Init => WorkInv /\ ConfigInv /\ LedgerInv
  <1> SUFFICES ASSUME Init PROVE WorkInv /\ ConfigInv /\ LedgerInv
    OBVIOUS
  <1>1. /\ \A p \in Procs : pc[p] = "idle"
        /\ \A c \in Conns : ~managed[c] /\ snapshot[c] = "none"
        /\ own = saver /\ age = "none"
    BY DEF Init
  <1>2. WorkInv
    BY <1>1 DEF WorkInv, AtWork, Procs
  <1>3. ConfigInv
    BY <1>1 DEF ConfigInv, ConfigFits, HandlerFits, Procs
  <1>4. LedgerInv
    BY <1>1 DEF LedgerInv, Sweeping
  <1> QED BY <1>2, <1>3, <1>4

\* What every case of the following lemmas starts from.
LEMMA ConfigTypes ==
    ASSUME TypeInv
    PROVE  /\ managed \in [Conns -> BOOLEAN] /\ snapshot \in [Conns -> Snapshots]
           /\ saver \in [Conns -> BOOLEAN] /\ own \in [Conns -> BOOLEAN]
           /\ listed \in [Conns -> BOOLEAN]
           /\ connLock \in [Conns -> Toggles \cup {Nobody}]
           /\ pc \in [Procs -> CallerPcs \cup SweepPcs \cup TogglePcs]
           /\ req \in [Toggles -> Requests]
           /\ rows \in [Procs -> [Conns -> Rows]] /\ built \in [Procs -> [Conns -> Rows]]
           /\ at \in [Procs -> Conns]
           /\ \A t \in Toggles : t \in Procs /\ t # Nobody /\ req[t].conn \in Conns
           /\ \A c \in Conns : connLock[c] # Nobody =>
                 AtWork(connLock[c]) /\ req[connLock[c]].conn = c
           /\ astray \subseteq Conns /\ lapsed \subseteq (Procs \cup {Cache}) \X Conns
  BY DEF TypeInv, TypeOK, Procs, Requests, HoldsItsOwn, AtWork

\* A step of p leaves the others where they are.
OthersStay(p) ==
    \A u \in Procs \ {p} : /\ pc'[u] = pc[u] /\ rows'[u] = rows[u] /\ built'[u] = built[u]
                           /\ u \in Toggles => req'[u] = req[u]

LEMMA ToggleAlone ==
    ASSUME TypeInv, NEW t \in Toggles, Request(t) \/ Begin(t) \/ HandlerStep(t)
    PROVE  OthersStay(t)
  <1>0. /\ pc \in [Procs -> CallerPcs \cup SweepPcs \cup TogglePcs] /\ t \in Procs
        /\ req \in [Toggles -> Requests]
    BY ConfigTypes
  <1>1. CASE Request(t)
    <2>1. PICK r : req' = [req EXCEPT ![t] = r]
      BY <1>1 DEF Request
    <2> QED BY <1>0, <1>1, <2>1 DEF Request, OthersStay, Goto, sweep
  <1>2. CASE Begin(t)
    BY <1>0, <1>2 DEF Begin, OthersStay, Goto, sweep
  <1>3. CASE HandlerStep(t)
    BY <1>0, <1>3
    DEF HandlerStep, CaptureConfig, Persist, Disarm, DisarmFails, SetFlag, Undo, UndoFails,
        ClearSnapshot, Unflag, Restore, RestoreFails, CallFails, Invalidate, MayFail, Goto,
        OthersStay, sweep
  <1> QED BY <1>1, <1>2, <1>3

LEMMA SweepAlone ==
    ASSUME TypeInv, NEW p \in Procs, SweepStep(p)
    PROVE  OthersStay(p)
  <1>0. /\ pc \in [Procs -> CallerPcs \cup SweepPcs \cup TogglePcs]
        /\ req \in [Toggles -> Requests]
        /\ rows \in [Procs -> [Conns -> Rows]] /\ built \in [Procs -> [Conns -> Rows]]
        /\ at \in [Procs -> Conns]
    BY ConfigTypes
  <1>1. CASE List(p) \/ Probe(p) \/ Disable(p) \/ DisableFails(p) \/ Recheck(p)
    BY <1>0, <1>1 DEF List, Probe, Disable, DisableFails, Recheck, Append, Goto, OthersStay, sweep
  <1>2. CASE ListFails(p) \/ Store(p)
    BY <1>0, <1>2 DEF ListFails, Store, Return, Goto, OthersStay
  <1> QED BY <1>1, <1>2 DEF SweepStep

\* Where a sweep is, and goes.
LEMMA SweepGoes ==
    ASSUME TypeInv, NEW p \in Procs, SweepStep(p)
    PROVE  pc[p] \in SweepPcs /\ pc'[p] \in SweepPcs \cup {"idle"}
  <1>1. pc \in [Procs -> CallerPcs \cup SweepPcs \cup TogglePcs]
    BY ConfigTypes
  <1>2. PICK w \in SweepPcs \cup {"idle"} : Goto(p, w)
    BY DEF SweepStep, List, ListFails, Probe, Disable, DisableFails, Recheck, Store, Append,
           Return, SweepPcs
  <1> QED BY <1>1, <1>2
          DEF SweepStep, List, ListFails, Probe, Disable, DisableFails, Recheck, Store, Goto,
              SweepPcs

\* What p's sweep does to the locks: nothing, or it gives back its own.
LEMMA SweepReleases ==
    ASSUME TypeInv, NEW p \in Procs, SweepStep(p)
    PROVE  \/ UNCHANGED <<connLock, req>> /\ (p \in Toggles => pc'[p] # "idle")
           \/ /\ p \in Toggles /\ pc'[p] = "idle"
              /\ connLock' = [connLock EXCEPT ![req[p].conn] = Nobody]
              /\ req' = [req EXCEPT ![p] = NoRequest]
  <1>1. CASE List(p) \/ Probe(p) \/ Disable(p) \/ DisableFails(p) \/ Recheck(p)
    <2>1. UNCHANGED <<connLock, req>>
      BY <1>1 DEF List, Probe, Disable, DisableFails, Recheck, locks
    <2>2. PICK w \in SweepPcs : Goto(p, w)
      BY <1>1 DEF List, Probe, Disable, DisableFails, Recheck, Append, SweepPcs
    <2>3. pc'[p] = w
      BY <2>2, ConfigTypes DEF Goto
    <2> QED BY <2>1, <2>3 DEF SweepPcs
  <1>2. CASE ListFails(p) \/ Store(p)
    <2>1. \E answer : Return(p, answer)
      BY <1>2 DEF ListFails, Store
    <2>2. pc \in [Procs -> CallerPcs \cup SweepPcs \cup TogglePcs]
      BY ConfigTypes
    <2> QED BY <2>1, <2>2 DEF Return, Goto, Procs
  <1> QED BY <1>1, <1>2 DEF SweepStep

LEMMA WorkStep == TypeInv /\ WorkInv /\ [Next]_vars => WorkInv'
  <1> SUFFICES ASSUME TypeInv, WorkInv, [Next]_vars PROVE WorkInv'
    OBVIOUS
  <1> USE DEF WorkInv, AtWork
  <1>0. /\ pc \in [Procs -> CallerPcs \cup SweepPcs \cup TogglePcs]
        /\ req \in [Toggles -> Requests] /\ connLock \in [Conns -> Toggles \cup {Nobody}]
        /\ \A t \in Toggles : t \in Procs /\ t # Nobody /\ req[t].conn \in Conns
    BY ConfigTypes
  <1>1. CASE UNCHANGED vars
    BY <1>1 DEF vars, locks
  <1>2. ASSUME NEW g \in Callers, Ask(g) \/ Onboard(g) \/ Look(g) \/ LookAgain(g) PROVE WorkInv'
    <2>1. UNCHANGED <<connLock, req>>
      BY <1>2 DEF Ask, Onboard, Look, LookAgain, locks
    <2>2. \A t \in Toggles : pc'[t] = pc[t]
      BY <1>0, <1>2 DEF Ask, Onboard, Look, LookAgain, Goto
    <2> QED BY <2>1, <2>2
  <1>3. ASSUME NEW t \in Toggles, Request(t) PROVE WorkInv'
    <2>1. UNCHANGED connLock /\ pc'[t] = "lock" /\ OthersStay(t)
      BY <1>0, <1>3, ToggleAlone DEF Request, locks, Goto
    <2> QED BY <1>0, <2>1 DEF OthersStay
  <1>4. ASSUME NEW t \in Toggles, Begin(t) PROVE WorkInv'
    <2>1. OthersStay(t) /\ connLock[req[t].conn] = Nobody
      BY <1>4, ToggleAlone DEF Begin
    <2>2. CASE NothingToDo(t)
      <3>1. pc'[t] = "idle" /\ UNCHANGED connLock
        BY <1>0, <1>4, <2>2 DEF Begin, Goto
      <3> QED BY <1>0, <2>1, <3>1 DEF OthersStay
    <2>3. CASE ~NothingToDo(t)
      <3>1. /\ connLock' = [connLock EXCEPT ![req[t].conn] = t]
            /\ req' = [req EXCEPT ![t].kept = snapshot[req[t].conn],
                                  ![t].owned = req[t].on /\ snapshot[req[t].conn] = "none"]
        BY <1>4, <2>3 DEF Begin
      <3>2. req'[t].conn = req[t].conn
        BY <1>0, <3>1 DEF Requests
      <3>3. ASSUME NEW u \in Toggles, u # t, AtWork(u)' PROVE connLock'[req'[u].conn] = u
        BY <1>0, <2>1, <3>1, <3>3 DEF OthersStay
      <3> QED BY <1>0, <3>1, <3>2, <3>3
    <2> QED BY <2>2, <2>3
  <1>5. ASSUME NEW t \in Toggles, HandlerStep(t) PROVE WorkInv'
    <2>1. AtWork(t) /\ OthersStay(t) /\ UNCHANGED connLock
      BY <1>5, ToggleAlone
      DEF HandlerStep, CaptureConfig, Persist, Disarm, DisarmFails, SetFlag, Undo, UndoFails,
          ClearSnapshot, Unflag, Restore, RestoreFails, CallFails, Invalidate, MayFail, locks
    <2>2. req'[t].conn = req[t].conn
      BY <1>0, <1>5
      DEF HandlerStep, CaptureConfig, Persist, Disarm, DisarmFails, SetFlag, Undo, UndoFails,
          ClearSnapshot, Unflag, Restore, RestoreFails, CallFails, Invalidate, Requests
    <2> QED BY <1>0, <2>1, <2>2 DEF OthersStay
  <1>6. ASSUME NEW p \in Procs, SweepStep(p) PROVE WorkInv'
    <2>1. OthersStay(p) /\ pc[p] \in SweepPcs
      BY <1>6, SweepAlone, SweepGoes
    <2>2. CASE UNCHANGED <<connLock, req>>
      <3>1. \A t \in Toggles : AtWork(t)' => AtWork(t)
        BY <1>0, <2>1 DEF OthersStay, SweepPcs
      <3> QED BY <2>2, <3>1
    <2>3. CASE /\ p \in Toggles /\ pc'[p] = "idle"
               /\ connLock' = [connLock EXCEPT ![req[p].conn] = Nobody]
               /\ req' = [req EXCEPT ![p] = NoRequest]
      <3>1. connLock[req[p].conn] = p
        BY <2>1, <2>3 DEF SweepPcs
      <3>2. ASSUME NEW u \in Toggles, u # p, AtWork(u)' PROVE connLock'[req'[u].conn] = u
        BY <1>0, <2>1, <2>3, <3>1, <3>2 DEF OthersStay
      <3> QED BY <2>3, <3>2
    <2> QED BY <1>6, <2>2, <2>3, SweepReleases
  <1>7. ASSUME Expire \/ \E c \in Conns : Change(c) PROVE WorkInv'
    BY <1>7 DEF Expire, Change, Drift, Edit, SetEnabled, Delete, locks
  <1> QED BY <1>1, <1>2, <1>3, <1>4, <1>5, <1>6, <1>7
          DEF Next, CallerStep, ToggleStep, HandlerStep, Procs

\* A request that works, or begins to, disturbs ConfigInv only at its connection.
LEMMA ConfigBy ==
    ASSUME TypeInv, WorkInv, ConfigInv, NEW t \in Toggles,
           NEW c \in Conns, c = req[t].conn,
           AtWork(t) \/ connLock[c] = Nobody,
           OthersStay(t), UNCHANGED <<own, astray>>,
           \A d \in Conns \ {c} :
              /\ managed'[d] = managed[d] /\ snapshot'[d] = snapshot[d]
              /\ saver'[d] = saver[d] /\ connLock'[d] = connLock[d],
           c \notin astray => ConfigFits(c)',
           req'[t].conn \notin astray => HandlerFits(t)'
    PROVE  ConfigInv'
  <1>0. /\ connLock \in [Conns -> Toggles \cup {Nobody}]
        /\ \A u \in Toggles : u \in Procs /\ u # Nobody /\ req[u].conn \in Conns
        /\ \A d \in Conns : connLock[d] # Nobody => req[connLock[d]].conn = d
    BY ConfigTypes
  <1>1. ASSUME NEW u \in Toggles, req'[u].conn \notin astray PROVE HandlerFits(u)'
    <2>1. CASE u = t
      BY <1>1, <2>1
    <2>2. CASE u # t
      <3>1. pc'[u] = pc[u] /\ req'[u] = req[u]
        BY <1>0, <2>2 DEF OthersStay
      <3>2. CASE ~AtWork(u)
        BY <3>1, <3>2 DEF AtWork, HandlerFits
      <3>3. CASE AtWork(u)
        <4>1. req[u].conn # c
          BY <1>0, <2>2, <3>3 DEF WorkInv
        <4>2. HandlerFits(u)
          BY <1>1, <3>1 DEF ConfigInv
        <4> QED BY <1>0, <3>1, <4>1, <4>2 DEF HandlerFits
      <3> QED BY <3>2, <3>3
    <2> QED BY <2>1, <2>2
  <1>2. ASSUME NEW d \in Conns, d \notin astray, d # c PROVE ConfigFits(d)'
    <2>1. Busy(d)' <=> Busy(d)
      <3>1. connLock[d] # t
        BY <1>0, <1>2
      <3> QED BY <1>0, <1>2, <3>1 DEF Busy, OthersStay
    <2>2. ConfigFits(d)
      BY <1>2 DEF ConfigInv
    <2> QED BY <1>2, <2>1, <2>2 DEF ConfigFits
  <1> QED BY <1>1, <1>2 DEF ConfigInv

LEMMA ConfigHandler ==
    ASSUME TypeInv, WorkInv, ConfigInv, NEW t \in Toggles, HandlerStep(t)
    PROVE  ConfigInv'
  <1>0. PICK c \in Conns : c = req[t].conn
    BY ConfigTypes
  <1>1. OthersStay(t)
    BY ToggleAlone
  <1>2. /\ pc \in [Procs -> CallerPcs \cup SweepPcs \cup TogglePcs] /\ t \in Procs
        /\ managed \in [Conns -> BOOLEAN] /\ snapshot \in [Conns -> Snapshots]
        /\ saver \in [Conns -> BOOLEAN] /\ own \in [Conns -> BOOLEAN]
        /\ req \in [Toggles -> Requests] /\ t # Nobody
    BY ConfigTypes
  <1>5. /\ AtWork(t) /\ UNCHANGED <<own, astray, connLock>>
        /\ \A d \in Conns \ {c} : /\ managed'[d] = managed[d] /\ snapshot'[d] = snapshot[d]
                                  /\ saver'[d] = saver[d]
        /\ req'[t].conn = c
    BY <1>0, <1>2
    DEF HandlerStep, CaptureConfig, Persist, Disarm, DisarmFails, SetFlag, Undo, UndoFails,
        ClearSnapshot, Unflag, Restore, RestoreFails, CallFails, Invalidate, MayFail, AtWork,
        db, locks, Restored, Requests
  <1>6. connLock[c] = t
    BY <1>0, <1>5 DEF WorkInv
  <1>7. (~Busy(c))' <=> pc'[t] \in SweepPcs \cup {"invalidate"}
    BY <1>2, <1>5, <1>6 DEF Busy
  <1>8. \A on \in BOOLEAN : /\ Capture(on) # "none"
                            /\ (Capture(on) = "on") = on
    BY DEF Capture
  <1>9. SUFFICES ASSUME c \notin astray
                 PROVE  /\ managed'[c] => snapshot'[c] # "none"
                        /\ snapshot'[c] # "none" => snapshot'[c] = Capture(own[c])
                        /\ snapshot'[c] = "none" /\ pc'[t] \in SweepPcs \cup {"invalidate"} =>
                              saver'[c] = own[c]
                        /\ HandlerFits(t)'
    <2>1. c \notin astray => ConfigFits(c)'
      BY <1>5, <1>7, <1>9 DEF ConfigFits
    <2> QED BY <1>0, <1>1, <1>5, <1>9, <2>1, ConfigBy
  <1>3. HandlerFits(t)
    BY <1>0, <1>9 DEF ConfigInv
  <1>4. /\ managed[c] => snapshot[c] # "none"
        /\ snapshot[c] # "none" => snapshot[c] = Capture(own[c])
        /\ snapshot[c] = "none" /\ ~Busy(c) => saver[c] = own[c]
    BY <1>9 DEF ConfigInv, ConfigFits
  <1>10. CASE CaptureConfig(t)
    <2>1. /\ pc[t] = "capture" /\ pc'[t] = "persist" /\ req'[t].conn = c
          /\ req'[t].kept = Capture(saver[c])
          /\ UNCHANGED <<managed, snapshot, saver, own>>
      BY <1>0, <1>2, <1>10 DEF CaptureConfig, Goto, db, Requests
    <2> QED BY <1>0, <1>3, <1>4, <2>1 DEF HandlerFits, SweepPcs
  <1>11. CASE Persist(t)
    <2>1. /\ pc[t] = "persist" /\ pc'[t] = "disarm" /\ snapshot'[c] = req[t].kept
          /\ UNCHANGED <<managed, saver, own, req>>
      BY <1>0, <1>2, <1>11 DEF Persist, Goto
    <2> QED BY <1>0, <1>2, <1>3, <1>4, <1>8, <2>1 DEF HandlerFits, SweepPcs
  <1>12. CASE Disarm(t) \/ DisarmFails(t)
    <2>1. /\ pc[t] = "disarm" /\ pc'[t] \in {"setFlag", "undo"}
          /\ UNCHANGED <<managed, snapshot, own, req>>
      BY <1>0, <1>2, <1>12 DEF Disarm, DisarmFails, MayFail, Goto, db
    <2> QED BY <1>0, <1>3, <1>4, <2>1 DEF HandlerFits, SweepPcs
  <1>13. CASE SetFlag(t)
    <2>1. /\ pc[t] = "setFlag" /\ pc'[t] = "invalidate"
          /\ UNCHANGED <<snapshot, saver, own, req>>
      BY <1>0, <1>2, <1>13 DEF SetFlag, Goto
    <2> QED BY <1>0, <1>3, <1>4, <2>1 DEF HandlerFits, SweepPcs
  <1>14. CASE Undo(t) \/ Restore(t)
    <2>1. /\ pc[t] \in {"undo", "restore"} /\ pc'[t] \in {"undoClear", "clear", "invalidate"}
          /\ saver'[c] = (req[t].kept = "on")
          /\ UNCHANGED <<managed, snapshot, own, req>>
      BY <1>0, <1>2, <1>14 DEF Undo, Restore, Restored, Goto, db
    <2>2. saver'[c] = own[c]
      BY <1>0, <1>2, <1>3, <1>4, <1>8, <2>1 DEF HandlerFits
    <2> QED BY <1>0, <1>3, <1>4, <2>1, <2>2 DEF HandlerFits, SweepPcs
  <1>15. CASE UndoFails(t) \/ RestoreFails(t)
    <2>1. /\ pc[t] \in {"undo", "restore"} /\ pc'[t] = "invalidate"
          /\ UNCHANGED <<managed, snapshot, own, req>>
      BY <1>0, <1>2, <1>15 DEF UndoFails, RestoreFails, MayFail, Goto, db
    <2> QED BY <1>0, <1>3, <1>4, <2>1 DEF HandlerFits, SweepPcs
  <1>16. CASE ClearSnapshot(t)
    <2>1. /\ pc[t] \in {"undoClear", "clear"} /\ pc'[t] = "invalidate"
          /\ snapshot'[c] = "none"
          /\ UNCHANGED <<managed, saver, own, req>>
      BY <1>0, <1>2, <1>16 DEF ClearSnapshot, Goto
    <2> QED BY <1>0, <1>3, <2>1 DEF HandlerFits, SweepPcs
  <1>17. CASE Unflag(t)
    <2>1. /\ pc[t] = "unflag" /\ ~managed'[c]
          /\ pc'[t] = IF req[t].kept = "none" THEN "clear" ELSE "restore"
          /\ UNCHANGED <<snapshot, saver, own, req>>
      BY <1>0, <1>2, <1>17 DEF Unflag, Goto
    <2>2. pc'[t] = "restore"
      BY <1>0, <1>3, <2>1 DEF HandlerFits
    <2> QED BY <1>0, <1>3, <1>4, <2>1, <2>2 DEF HandlerFits, SweepPcs
  <1>18. CASE CallFails(t)
    <2>1. /\ \/ /\ pc[t] \in {"capture", "persist", "unflag", "undoClear", "clear"}
                /\ pc'[t] = "invalidate"
             \/ pc[t] = "setFlag" /\ pc'[t] = "undo"
          /\ UNCHANGED <<managed, snapshot, saver, own, req>>
      BY <1>0, <1>2, <1>18 DEF CallFails, MayFail, Goto, db
    <2> QED BY <1>0, <1>3, <1>4, <2>1 DEF HandlerFits, SweepPcs
  <1>19. CASE Invalidate(t)
    <2>1. /\ pc[t] = "invalidate" /\ pc'[t] = "list"
          /\ UNCHANGED <<managed, snapshot, saver, own, req>>
      BY <1>0, <1>2, <1>19 DEF Invalidate, Goto, db
    <2>2. ~Busy(c)
      BY <1>6, <2>1 DEF Busy
    <2> QED BY <1>0, <1>3, <1>4, <2>1, <2>2 DEF HandlerFits, SweepPcs
  <1> QED BY <1>10, <1>11, <1>12, <1>13, <1>14, <1>15, <1>16, <1>17, <1>18, <1>19
          DEF HandlerStep

LEMMA ConfigBegin ==
    ASSUME TypeInv, WorkInv, ConfigInv, NEW t \in Toggles, Begin(t)
    PROVE  ConfigInv'
  <1>0. PICK c \in Conns : c = req[t].conn
    BY ConfigTypes
  <1>1. OthersStay(t) /\ UNCHANGED astray
    BY ToggleAlone DEF Begin
  <1>2. /\ pc \in [Procs -> CallerPcs \cup SweepPcs \cup TogglePcs] /\ t \in Procs
        /\ connLock \in [Conns -> Toggles \cup {Nobody}] /\ t # Nobody
        /\ req \in [Toggles -> Requests] /\ managed \in [Conns -> BOOLEAN]
        /\ req[t].on \in BOOLEAN
    BY ConfigTypes DEF Requests
  <1>3. c \notin astray =>
          /\ managed[c] => snapshot[c] # "none"
          /\ snapshot[c] # "none" => snapshot[c] = Capture(own[c])
          /\ snapshot[c] = "none" /\ ~Busy(c) => saver[c] = own[c]
    BY DEF ConfigInv, ConfigFits
  <1>4. /\ connLock[c] = Nobody /\ UNCHANGED <<managed, snapshot, saver, own>>
        /\ \A d \in Conns \ {c} : connLock'[d] = connLock[d]
    BY <1>0, <1>2 DEF Begin, db
  <1>5. ~Busy(c)
    BY <1>4 DEF Busy
  <1>6. CASE NothingToDo(t)
    <2>1. pc'[t] = "idle" /\ UNCHANGED connLock
      BY <1>2, <1>6 DEF Begin, Goto
    <2>2. HandlerFits(t)'
      BY <2>1 DEF HandlerFits
    <2>3. c \notin astray => ConfigFits(c)'
      BY <1>3, <1>4, <1>5, <2>1 DEF ConfigFits, Busy
    <2> QED BY <1>0, <1>1, <1>4, <2>1, <2>2, <2>3, ConfigBy
  <1>7. CASE ~NothingToDo(t)
    <2>1. /\ connLock'[c] = t /\ req'[t].conn = c /\ req'[t].kept = snapshot[c]
          /\ pc'[t] = IF ~req[t].on THEN "unflag"
                      ELSE IF snapshot[c] = "none" THEN "capture" ELSE "disarm"
      BY <1>0, <1>2, <1>7 DEF Begin, Goto, Requests
    <2>2. Busy(c)'
      BY <1>2, <2>1 DEF Busy, SweepPcs
    <2> SUFFICES ASSUME c \notin astray PROVE ConfigFits(c)' /\ HandlerFits(t)'
      BY <1>0, <1>1, <1>4, <2>1, ConfigBy
    <2>3. ~(req[t].on = managed[c] /\ managed[c] = (snapshot[c] # "none"))
      BY <1>0, <1>7 DEF NothingToDo
    <2>4. managed[c] \in BOOLEAN
      BY <1>2
    <2>5. pc'[t] = "unflag" => snapshot[c] # "none"
      BY <1>2, <1>3, <2>1, <2>3, <2>4
    <2>6. pc'[t] = "disarm" => snapshot[c] # "none" /\ ~managed[c]
      BY <1>2, <2>1, <2>3, <2>4
    <2>7. HandlerFits(t)'
      BY <1>3, <1>4, <1>5, <2>1, <2>5, <2>6 DEF HandlerFits
    <2> QED BY <1>3, <1>4, <2>2, <2>7 DEF ConfigFits
  <1> QED BY <1>6, <1>7

\* A sweep, whoever's: it changes a peer it believes managed, and if that is not so any
\* more the peer is astray.
LEMMA ConfigSweep ==
    ASSUME TypeInv, WorkInv, ConfigInv, NEW p \in Procs, SweepStep(p)
    PROVE  ConfigInv'
  <1>0. /\ connLock \in [Conns -> Toggles \cup {Nobody}] /\ at \in [Procs -> Conns]
        /\ saver \in [Conns -> BOOLEAN]
        /\ req \in [Toggles -> Requests]
        /\ \A u \in Toggles : u \in Procs /\ u # Nobody /\ req[u].conn \in Conns
    BY ConfigTypes
  <1>1. /\ OthersStay(p) /\ pc[p] \in SweepPcs /\ pc'[p] \in SweepPcs \cup {"idle"}
        /\ UNCHANGED <<own, managed, snapshot>>
    BY SweepAlone, SweepGoes
    DEF SweepStep, List, ListFails, Probe, Disable, DisableFails, Recheck, Store, db
  <1>2. /\ astray \subseteq astray'
        /\ \A d \in Conns : managed[d] \/ d \in astray' \/ saver'[d] = saver[d]
    <2>1. CASE List(p) \/ ListFails(p) \/ Probe(p) \/ Recheck(p) \/ Store(p)
      BY <2>1 DEF List, ListFails, Probe, Recheck, Store
    <2>2. CASE Disable(p) \/ DisableFails(p)
      BY <1>0, <2>2 DEF Disable, DisableFails, Misfires
    <2> QED BY <2>1, <2>2 DEF SweepStep
  <1>3. ASSUME NEW d \in Conns PROVE Busy(d)' <=> Busy(d)
    <2>1. CASE UNCHANGED <<connLock, req>> /\ (p \in Toggles => pc'[p] # "idle")
      BY <1>0, <1>1, <2>1 DEF Busy, OthersStay
    <2>2. CASE /\ p \in Toggles /\ pc'[p] = "idle"
               /\ connLock' = [connLock EXCEPT ![req[p].conn] = Nobody]
               /\ req' = [req EXCEPT ![p] = NoRequest]
      <3>1. connLock[req[p].conn] = p
        BY <1>1, <2>2 DEF WorkInv, AtWork, SweepPcs
      <3>2. CASE d = req[p].conn
        BY <1>0, <1>1, <2>2, <3>1, <3>2 DEF Busy
      <3>3. CASE d # req[p].conn
        <4>1. connLock'[d] = connLock[d] /\ connLock[d] # p
          BY <1>0, <2>2, <3>3, ConfigTypes
        <4> QED BY <1>0, <1>1, <4>1 DEF Busy, OthersStay
      <3> QED BY <3>2, <3>3
    <2> QED BY <2>1, <2>2, SweepReleases
  <1>4. ASSUME NEW d \in Conns \ astray' PROVE ConfigFits(d)'
    <2>1. ConfigFits(d) /\ (managed[d] \/ saver'[d] = saver[d])
      BY <1>2 DEF ConfigInv
    <2> QED BY <1>1, <1>3, <2>1 DEF ConfigFits
  <1>5. ASSUME NEW u \in Toggles, req'[u].conn \notin astray' PROVE HandlerFits(u)'
    <2>1. CASE u = p
      BY <1>1, <2>1 DEF HandlerFits, SweepPcs
    <2>2. CASE u # p
      <3>1. pc'[u] = pc[u] /\ req'[u] = req[u]
        BY <1>0, <1>1, <2>2 DEF OthersStay
      <3>2. HandlerFits(u) /\ ConfigFits(req[u].conn)
            /\ (managed[req[u].conn] \/ saver'[req[u].conn] = saver[req[u].conn])
        BY <1>0, <1>2, <1>5, <3>1 DEF ConfigInv
      <3> QED BY <1>1, <3>1, <3>2 DEF HandlerFits, ConfigFits
    <2> QED BY <2>1, <2>2
  <1> QED BY <1>4, <1>5 DEF ConfigInv

LEMMA ConfigAdmin ==
    ASSUME TypeInv, WorkInv, ConfigInv, NEW c \in Conns, Change(c)
    PROVE  ConfigInv'
  <1>0. /\ saver \in [Conns -> BOOLEAN] /\ own \in [Conns -> BOOLEAN]
        /\ managed \in [Conns -> BOOLEAN] /\ snapshot \in [Conns -> Snapshots]
        /\ connLock \in [Conns -> Toggles \cup {Nobody}]
        /\ \A t \in Toggles : req[t].conn \in Conns /\ t # Nobody
    BY ConfigTypes
  <1>1. UNCHANGED <<connLock, pc, req>>
    BY DEF Change, Drift, Edit, SetEnabled, Delete, locks
  <1>2. ASSUME NEW d \in Conns PROVE Busy(d)' <=> Busy(d)
    BY <1>1 DEF Busy
  \* Where c's lock is free, what changes of c touches no request.
  <1>3. ASSUME connLock[c] = Nobody, NEW t \in Toggles, req[t].conn = c PROVE HandlerFits(t)'
    BY <1>1, <1>3, <1>0 DEF WorkInv, AtWork, HandlerFits
  <1>4. ASSUME NEW t \in Toggles, req[t].conn # c, req[t].conn \notin astray,
               \A d \in Conns \ {c} : /\ managed'[d] = managed[d] /\ snapshot'[d] = snapshot[d]
                                       /\ saver'[d] = saver[d] /\ own'[d] = own[d]
        PROVE  HandlerFits(t)'
    <2>1. HandlerFits(t)
      BY <1>4 DEF ConfigInv
    <2> QED BY <1>0, <1>1, <1>4, <2>1 DEF HandlerFits
  <1>5. ASSUME NEW d \in Conns, d # c, d \notin astray,
               managed'[d] = managed[d], snapshot'[d] = snapshot[d],
               saver'[d] = saver[d], own'[d] = own[d]
        PROVE  ConfigFits(d)'
    <2>1. ConfigFits(d)
      BY <1>5 DEF ConfigInv
    <2> QED BY <1>2, <1>5, <2>1 DEF ConfigFits
  <1>6. CASE Drift(c)
    <2>1. /\ managed[c] /\ saver' = [saver EXCEPT ![c] = TRUE]
          /\ UNCHANGED <<own, managed, snapshot, astray>>
      BY <1>6 DEF Drift, db
    <2>2. c \notin astray => ConfigFits(c)'
      BY <2>1 DEF ConfigInv, ConfigFits
    <2>3. ASSUME NEW t \in Toggles, req[t].conn = c, c \notin astray PROVE HandlerFits(t)'
      <3>1. HandlerFits(t) /\ snapshot[c] # "none"
        BY <2>1, <2>3 DEF ConfigInv, ConfigFits
      <3> QED BY <1>1, <2>1, <2>3, <3>1 DEF HandlerFits
    <2> QED BY <1>0, <1>1, <1>4, <1>5, <2>1, <2>2, <2>3 DEF ConfigInv
  <1>7. CASE Edit(c)
    <2>1. /\ ~managed[c] /\ connLock[c] = Nobody
          /\ saver' = [saver EXCEPT ![c] = ~@] /\ own' = [own EXCEPT ![c] = ~saver[c]]
          /\ astray' = IF snapshot[c] = "none" THEN astray \ {c} ELSE astray \cup {c}
          /\ UNCHANGED <<managed, snapshot>>
      BY <1>7 DEF Edit, db
    <2>2. c \notin astray' => ConfigFits(c)'
      BY <1>0, <2>1 DEF ConfigFits
    <2> QED BY <1>0, <1>1, <1>3, <1>4, <1>5, <2>1, <2>2 DEF ConfigInv
  <1>8. CASE SetEnabled(c)
    <2>1. UNCHANGED <<saver, own, managed, snapshot, astray>>
      BY <1>8 DEF SetEnabled
    <2> QED BY <1>1, <1>2, <2>1 DEF ConfigInv, ConfigFits, HandlerFits
  <1>9. CASE Delete(c)
    <2>1. /\ managed' = [managed EXCEPT ![c] = FALSE] /\ snapshot' = [snapshot EXCEPT ![c] = "none"]
          /\ astray' = IF snapshot[c] = "none" /\ connLock[c] = Nobody THEN astray
                       ELSE astray \cup {c}
          /\ UNCHANGED <<saver, own>>
      BY <1>9 DEF Delete
    <2>2. ASSUME c \notin astray' PROVE ConfigFits(c)' /\ connLock[c] = Nobody
      <3>1. ConfigFits(c) /\ snapshot[c] = "none" /\ connLock[c] = Nobody
        BY <2>1, <2>2 DEF ConfigInv
      <3> QED BY <1>0, <1>2, <2>1, <3>1 DEF ConfigFits, Busy
    <2> QED BY <1>0, <1>1, <1>3, <1>4, <1>5, <2>1, <2>2 DEF ConfigInv
  <1> QED BY <1>6, <1>7, <1>8, <1>9 DEF Change

LEMMA ConfigStep == TypeInv /\ WorkInv /\ ConfigInv /\ [Next]_vars => ConfigInv'
  <1> SUFFICES ASSUME TypeInv, WorkInv, ConfigInv, [Next]_vars PROVE ConfigInv'
    OBVIOUS
  <1>0. ASSUME UNCHANGED <<managed, snapshot, saver, own, astray, connLock, req>>,
               \A u \in Toggles : \/ pc'[u] = pc[u]
                                  \/ pc[u] \in {"idle", "lock"} /\ pc'[u] \in {"idle", "lock"}
        PROVE  ConfigInv'
    <2>1. ASSUME NEW d \in Conns PROVE Busy(d)' <=> Busy(d)
      BY <1>0, ConfigTypes DEF Busy, AtWork
    <2> QED BY <1>0, <2>1 DEF ConfigInv, ConfigFits, HandlerFits
  <1>1. CASE UNCHANGED vars
    BY <1>0, <1>1 DEF vars, db, locks
  <1>2. ASSUME NEW g \in Callers, Ask(g) \/ Onboard(g) \/ Look(g) \/ LookAgain(g)
        PROVE  ConfigInv'
    <2>1. UNCHANGED <<managed, snapshot, saver, own, astray, connLock, req>>
      BY <1>2 DEF Ask, Onboard, Look, LookAgain, db, locks
    <2>2. \A u \in Toggles : pc'[u] = pc[u]
      BY <1>2, ConfigTypes DEF Ask, Onboard, Look, LookAgain, Goto
    <2> QED BY <1>0, <2>1, <2>2
  <1>3. ASSUME NEW t \in Toggles, Request(t) PROVE ConfigInv'
    <2>1. /\ UNCHANGED <<managed, snapshot, saver, own, astray, connLock>>
          /\ pc[t] = "idle" /\ pc'[t] = "lock" /\ OthersStay(t)
      BY <1>3, ConfigTypes, ToggleAlone DEF Request, db, locks, Goto
    <2>2. ASSUME NEW u \in Toggles, req'[u].conn \notin astray PROVE HandlerFits(u)'
      <3>1. CASE u = t
        BY <2>1, <3>1 DEF HandlerFits
      <3>2. CASE u # t
        BY <2>1, <2>2, <3>2, ConfigTypes DEF ConfigInv, HandlerFits, OthersStay
      <3> QED BY <3>1, <3>2
    <2>3. ASSUME NEW d \in Conns PROVE Busy(d)' <=> Busy(d)
      <3>1. connLock[d] \in (Toggles \cup {Nobody}) \ {t}
        BY <2>1, ConfigTypes DEF AtWork
      <3> QED BY <2>1, <3>1, ConfigTypes DEF Busy, OthersStay
    <2> QED BY <2>1, <2>2, <2>3 DEF ConfigInv, ConfigFits
  <1>4. CASE Expire
    BY <1>0, <1>4 DEF Expire, db, locks
  <1> QED BY <1>1, <1>2, <1>3, <1>4, ConfigBegin, ConfigHandler, ConfigSweep, ConfigAdmin
          DEF Next, CallerStep, ToggleStep, HandlerStep, Procs

\* Rows stay right where flags are only set, connections only removed and the pairs of
\* lapsed kept, and the sweeps and the cache hold the rows they held.
LEMMA LedgerQuiet ==
    ASSUME LedgerInv,
           \A c \in Conns : /\ listed'[c] => listed[c]
                            /\ managed[c] /\ listed'[c] => managed'[c],
           lapsed \subseteq lapsed', UNCHANGED ledger,
           \A q \in Procs : pc'[q] \in Sweeping =>
              pc[q] \in Sweeping /\ rows'[q] = rows[q] /\ built'[q] = built[q],
           age' = "fresh" => age = "fresh" /\ \A c \in Conns : Answers(c) => Answers(c)'
    PROVE  LedgerInv'
  BY DEF LedgerInv, FlagFits

LEMMA LedgerUnflag ==
    ASSUME TypeInv, WorkInv, LedgerInv, NEW t \in Toggles, Unflag(t)
    PROVE  LedgerInv'
  <1>0. /\ managed \in [Conns -> BOOLEAN] /\ t \in Procs /\ t # Nobody
        /\ pc \in [Procs -> CallerPcs \cup SweepPcs \cup TogglePcs]
        /\ connLock \in [Conns -> Toggles \cup {Nobody}]
        /\ \A u \in Toggles : u \in Procs
    BY ConfigTypes
  <1>1. PICK c \in Conns : c = req[t].conn
    BY ConfigTypes
  <1>2. /\ managed' = [managed EXCEPT ![c] = FALSE] /\ connLock[c] = t
        /\ pc'[t] \in {"restore", "clear"} /\ OthersStay(t)
        /\ lapsed' = lapsed \cup {<<p, c>> : p \in {q \in Procs : pc[q] \in SweepPcs}}
        /\ UNCHANGED <<listed, ledger, age, connLock, rows, built>>
    <2>1. pc[t] = "unflag" /\ HandlerStep(t)
      BY DEF Unflag, HandlerStep
    <2>2. connLock[c] = t /\ OthersStay(t)
      BY <1>1, <2>1, ToggleAlone DEF WorkInv, AtWork
    <2> QED BY <1>0, <1>1, <2>2 DEF Unflag, Lapses, Goto, cache, locks, sweep
  <1>3. ASSUME NEW d \in Conns, age' = "fresh"
        PROVE  (FlagFits(ledger[d], Cache, d) \/ Answers(d))'
    <2>1. CASE d = c
      BY <1>0, <1>2, <2>1 DEF Answers
    <2>2. CASE d # c
      <3>1. FlagFits(ledger[d], Cache, d) \/ Answers(d)
        BY <1>2, <1>3 DEF LedgerInv
      <3>2. Answers(d) => Answers(d)'
        <4>1. connLock[d] # t
          BY <1>0, <1>1, <2>2, ConfigTypes
        <4> QED BY <1>0, <1>2, <4>1 DEF Answers, OthersStay
      <3> QED BY <1>2, <2>2, <3>1, <3>2 DEF FlagFits
    <2> QED BY <2>1, <2>2
  <1>4. ASSUME NEW p \in Procs, pc'[p] \in Sweeping, NEW d \in Conns
        PROVE  (FlagFits(rows[p][d], p, d) /\ FlagFits(built[p][d], p, d))'
    <2>1. pc[p] \in Sweeping /\ pc[p] \in SweepPcs
      BY <1>2, <1>4 DEF OthersStay, Sweeping, SweepPcs
    <2>2. FlagFits(rows[p][d], p, d) /\ FlagFits(built[p][d], p, d)
      BY <1>4, <2>1 DEF LedgerInv
    <2>3. CASE d = c
      BY <1>2, <1>4, <2>1, <2>3 DEF FlagFits
    <2>4. CASE d # c
      BY <1>2, <2>2, <2>4 DEF FlagFits
    <2> QED BY <2>3, <2>4
  <1> QED BY <1>3, <1>4 DEF LedgerInv

\* The rows a sweep builds take their flag from the listing, or lose it.
LEMMA LedgerSweep ==
    ASSUME TypeInv, WorkInv, LedgerInv, NEW p \in Procs, SweepStep(p)
    PROVE  LedgerInv'
  <1>0. /\ managed \in [Conns -> BOOLEAN] /\ listed \in [Conns -> BOOLEAN]
        /\ pc \in [Procs -> CallerPcs \cup SweepPcs \cup TogglePcs]
        /\ rows \in [Procs -> [Conns -> Rows]] /\ built \in [Procs -> [Conns -> Rows]]
        /\ at \in [Procs -> Conns]
        /\ connLock \in [Conns -> Toggles \cup {Nobody}]
        /\ lapsed \subseteq (Procs \cup {Cache}) \X Conns
        /\ \A u \in Toggles : u \in Procs /\ u # Nobody
    BY ConfigTypes
  <1>1. /\ OthersStay(p) /\ pc[p] \in SweepPcs /\ pc'[p] \in SweepPcs \cup {"idle"}
        /\ UNCHANGED <<listed, managed>>
    BY SweepAlone, SweepGoes
    DEF SweepStep, List, ListFails, Probe, Disable, DisableFails, Recheck, Store, db
  <1>2. p # Cache
    BY DEF Procs
  <1>3. ASSUME NEW c \in Conns PROVE Answers(c) => Answers(c)'
    <2>1. Answers(c) => connLock[c] # p
      BY <1>1 DEF Answers, SweepPcs
    <2>2. connLock[c] # p /\ Answers(c) => connLock'[c] = connLock[c]
      <3>1. CASE UNCHANGED connLock
        BY <3>1
      <3>2. CASE p \in Toggles /\ connLock' = [connLock EXCEPT ![req[p].conn] = Nobody]
        <4>1. connLock[req[p].conn] = p
          BY <1>1, <3>2 DEF WorkInv, AtWork, SweepPcs
        <4> QED BY <1>0, <3>2, <4>1
      <3> QED BY <3>1, <3>2, SweepReleases
    <2> QED BY <1>0, <1>1, <2>1, <2>2 DEF Answers, OthersStay
  <1>4. CASE List(p)
    <2>1. /\ \A c \in Conns : rows'[p][c].managed = managed[c] /\ ~built'[p][c].managed
          /\ lapsed' = LapsedExcept({p}) /\ UNCHANGED <<ledger, age>>
      BY <1>0, <1>4 DEF List, NoRows, Unprobed, cache
    <2>2. \A e \in lapsed : e[1] # p => e \in lapsed'
      BY <2>1 DEF LapsedExcept
    <2>3. ASSUME NEW q \in Procs, pc'[q] \in Sweeping, NEW c \in Conns
          PROVE  (FlagFits(rows[q][c], q, c) /\ FlagFits(built[q][c], q, c))'
      <3>1. CASE q = p
        BY <1>1, <2>1, <3>1 DEF FlagFits
      <3>2. CASE q # p
        <4>1. pc[q] \in Sweeping /\ rows'[q] = rows[q] /\ built'[q] = built[q]
          BY <1>1, <2>3, <3>2 DEF OthersStay
        <4>2. FlagFits(rows[q][c], q, c) /\ FlagFits(built[q][c], q, c)
          BY <2>3, <4>1 DEF LedgerInv
        <4>3. <<q, c>> \in lapsed => <<q, c>> \in lapsed'
          BY <2>2, <3>2
        <4> QED BY <1>1, <4>1, <4>2, <4>3 DEF FlagFits
      <3> QED BY <3>1, <3>2
    <2>4. ASSUME NEW c \in Conns, age' = "fresh"
          PROVE  (FlagFits(ledger[c], Cache, c) \/ Answers(c))'
      <3>1. FlagFits(ledger[c], Cache, c) \/ Answers(c)
        BY <2>1, <2>4 DEF LedgerInv
      <3>2. <<Cache, c>> \in lapsed => <<Cache, c>> \in lapsed'
        BY <1>2, <2>2
      <3> QED BY <1>1, <1>3, <2>1, <3>1, <3>2 DEF FlagFits
    <2> QED BY <2>3, <2>4 DEF LedgerInv
  <1>5. CASE Probe(p) \/ Disable(p) \/ DisableFails(p) \/ Recheck(p)
    <2>1. UNCHANGED <<ledger, age, rows, lapsed>> /\ pc[p] \in Sweeping
      BY <1>5 DEF Probe, Disable, DisableFails, Recheck, cache, sweep, Sweeping
    <2>2. \A c \in Conns : built'[p][c].managed => built[p][c].managed \/ rows[p][c].managed
      <3>0. /\ at[p] \in Conns /\ rows[p] \in [Conns -> Rows] /\ built[p] \in [Conns -> Rows]
            /\ rows[p][at[p]] \in Rows /\ built[p][at[p]] \in Rows
        BY <1>0
      <3>1. CASE Disable(p)
        BY <3>1 DEF Disable, sweep
      <3>2. CASE DisableFails(p)
        BY <1>0, <3>0, <3>2 DEF DisableFails, Append, Rows
      <3>3. CASE Recheck(p)
        <4>1. \/ built' = [built EXCEPT ![p][at[p]] = [built[p][at[p]] EXCEPT !.saving = saver[at[p]]]]
              \/ built' = [built EXCEPT ![p][at[p]] = [built[p][at[p]] EXCEPT !.err = TRUE]]
          BY <3>3 DEF Recheck, Append
        <4>2. \A v \in BOOLEAN : /\ [built[p][at[p]] EXCEPT !.saving = v].managed = built[p][at[p]].managed
                                 /\ [built[p][at[p]] EXCEPT !.err = v].managed = built[p][at[p]].managed
          BY <3>0 DEF Rows
        <4>3. saver[at[p]] \in BOOLEAN
          BY <3>0, ConfigTypes
        <4>4. PICK row : /\ row.managed = built[p][at[p]].managed
                         /\ built' = [built EXCEPT ![p][at[p]] = row]
          <5>1. CASE built' = [built EXCEPT ![p][at[p]] = [built[p][at[p]] EXCEPT !.err = TRUE]]
            BY <4>2, <5>1
          <5>2. CASE built' = [built EXCEPT ![p][at[p]] =
                                 [built[p][at[p]] EXCEPT !.saving = saver[at[p]]]]
            BY <4>2, <4>3, <5>2
          <5> QED BY <4>1, <5>1, <5>2
        <4> QED BY <1>0, <3>0, <4>4
      <3>4. CASE Probe(p)
        <4>1. PICK row : row.managed = rows[p][at[p]].managed
                         /\ built' = [built EXCEPT ![p][at[p]] = row]
          <5>1. CASE ~rows[p][at[p]].enabled
            BY <3>4, <5>1 DEF Probe, Append
          <5>2. CASE rows[p][at[p]].enabled
            <6>1. PICK r \in Readings(at[p]) :
                    built' = [built EXCEPT ![p][at[p]] =
                                [rows[p][at[p]] EXCEPT !.saving = r.saving, !.err = r.err]]
              BY <3>4, <5>2 DEF Probe, Append
            <6> QED BY <3>0, <6>1 DEF Rows
          <5> QED BY <5>1, <5>2
        <4> QED BY <1>0, <3>0, <4>1
      <3> QED BY <1>5, <3>1, <3>2, <3>3, <3>4
    <2>3. ASSUME NEW q \in Procs, pc'[q] \in Sweeping, NEW c \in Conns
          PROVE  (FlagFits(rows[q][c], q, c) /\ FlagFits(built[q][c], q, c))'
      <3>1. pc[q] \in Sweeping /\ (q # p => built'[q] = built[q])
        BY <1>1, <2>1, <2>3 DEF OthersStay
      <3>2. FlagFits(rows[q][c], q, c) /\ FlagFits(built[q][c], q, c)
        BY <2>3, <3>1 DEF LedgerInv
      <3>3. built'[q][c].managed => built[q][c].managed \/ rows[q][c].managed
        BY <2>2, <2>3, <3>1
      <3> QED BY <1>1, <2>1, <3>2, <3>3 DEF FlagFits
    <2>4. ASSUME NEW c \in Conns, age' = "fresh"
          PROVE  (FlagFits(ledger[c], Cache, c) \/ Answers(c))'
      BY <1>1, <1>3, <2>1, <2>4 DEF LedgerInv, FlagFits
    <2> QED BY <2>3, <2>4 DEF LedgerInv
  <1>6. CASE ListFails(p) \/ Store(p)
    <2>1. pc'[p] = "idle"
      BY <1>0, <1>6 DEF ListFails, Store, Return, Goto
    <2>2. \A q \in Procs, c \in Conns : q # p /\ <<q, c>> \in lapsed => <<q, c>> \in lapsed'
      BY <1>6 DEF ListFails, Store, LapsedExcept, Procs
    <2>3. ASSUME NEW q \in Procs, pc'[q] \in Sweeping, NEW c \in Conns
          PROVE  (FlagFits(rows[q][c], q, c) /\ FlagFits(built[q][c], q, c))'
      <3>1. q # p
        BY <2>1, <2>3 DEF Sweeping
      <3>2. pc[q] \in Sweeping /\ rows'[q] = rows[q] /\ built'[q] = built[q]
        BY <1>1, <2>3, <3>1 DEF OthersStay
      <3>3. FlagFits(rows[q][c], q, c) /\ FlagFits(built[q][c], q, c)
        BY <2>3, <3>2 DEF LedgerInv
      <3> QED BY <1>1, <2>2, <3>1, <3>2, <3>3 DEF FlagFits
    <2>4. ASSUME NEW c \in Conns, age' = "fresh"
          PROVE  (FlagFits(ledger[c], Cache, c) \/ Answers(c))'
      <3>1. CASE ListFails(p)
        <4>1. UNCHANGED <<ledger, age>> /\ lapsed' = LapsedExcept({p})
          BY <3>1 DEF ListFails, cache
        <4>2. <<Cache, c>> \in lapsed => <<Cache, c>> \in lapsed'
          BY <1>2, <4>1 DEF LapsedExcept
        <4>3. FlagFits(ledger[c], Cache, c) \/ Answers(c)
          BY <2>4, <4>1 DEF LedgerInv
        <4> QED BY <1>1, <1>3, <4>1, <4>2, <4>3 DEF FlagFits
      <3>2. CASE Store(p)
        <4>1. /\ ledger' = built[p] /\ pc[p] \in Sweeping
              /\ lapsed' = LapsedExcept({p, Cache}) \cup ({Cache} \X LapsedOf(p))
          BY <3>2 DEF Store, Sweeping
        <4>2. <<p, c>> \in lapsed => <<Cache, c>> \in lapsed'
          BY <4>1 DEF LapsedOf
        <4>3. FlagFits(built[p][c], p, c)
          BY <4>1 DEF LedgerInv
        <4> QED BY <1>1, <4>1, <4>2, <4>3 DEF FlagFits
      <3> QED BY <1>6, <3>1, <3>2
    <2> QED BY <2>3, <2>4 DEF LedgerInv
  <1> QED BY <1>4, <1>5, <1>6 DEF SweepStep

LEMMA LedgerStep == TypeInv /\ WorkInv /\ LedgerInv /\ [Next]_vars => LedgerInv'
  <1> SUFFICES ASSUME TypeInv, WorkInv, LedgerInv, [Next]_vars PROVE LedgerInv'
    OBVIOUS
  <1>0. /\ pc \in [Procs -> CallerPcs \cup SweepPcs \cup TogglePcs]
        /\ managed \in [Conns -> BOOLEAN] /\ listed \in [Conns -> BOOLEAN]
        /\ connLock \in [Conns -> Toggles \cup {Nobody}]
        /\ \A t \in Toggles : t \in Procs /\ t # Nobody /\ req[t].conn \in Conns
    BY ConfigTypes
  <1>1. CASE UNCHANGED vars
    BY <1>1, LedgerQuiet DEF vars, db, cache, locks, sweep, Answers
  <1>2. ASSUME NEW g \in Callers, Ask(g) \/ Onboard(g) \/ Look(g) \/ LookAgain(g)
        PROVE  LedgerInv'
    <2>1. /\ UNCHANGED <<listed, managed, ledger, connLock, rows, built, lapsed>>
          /\ age' \in {age, "none"}
      BY <1>2 DEF Ask, Onboard, Look, LookAgain, db, cache, locks, sweep
    <2>2. PICK w \in {"idle", "asked", "waiting", "list"} : Goto(g, w)
      BY <1>2 DEF Ask, Onboard, Look, LookAgain
    <2>3. \A q \in Procs : pc'[q] = pc[q] \/ (q = g /\ pc'[q] \notin Sweeping)
      <3>1. pc'[g] = w /\ \A q \in Procs \ {g} : pc'[q] = pc[q]
        BY <1>0, <2>2 DEF Goto, Procs
      <3> QED BY <3>1 DEF Sweeping
    <2>4. \A t \in Toggles : pc'[t] = pc[t]
      BY <1>0, <2>2 DEF Goto
    <2> QED BY <1>0, <2>1, <2>3, <2>4, LedgerQuiet DEF Answers
  <1>3. ASSUME NEW t \in Toggles, Request(t) \/ Begin(t) PROVE LedgerInv'
    <2>1. /\ UNCHANGED <<listed, managed, ledger, age, rows, built, lapsed>>
          /\ OthersStay(t) /\ pc[t] \in {"idle", "lock"}
      BY <1>3, ToggleAlone DEF Request, Begin, db, cache, sweep
    <2>2. pc'[t] \notin Sweeping
      BY <1>0, <1>3 DEF Request, Begin, Goto, Sweeping
    <2>3. ASSUME NEW c \in Conns, Answers(c) PROVE Answers(c)'
      <3>1. connLock[c] # t /\ connLock[c] # Nobody
        BY <2>1, <2>3 DEF Answers
      <3>2. connLock'[c] = connLock[c]
        BY <1>0, <1>3, <3>1 DEF Request, Begin, locks
      <3> QED BY <1>0, <2>1, <2>3, <3>1, <3>2 DEF Answers, OthersStay
    <2>4. \A q \in Procs : pc'[q] \in Sweeping => pc[q] \in Sweeping
      BY <2>1, <2>2 DEF OthersStay
    <2> QED BY <2>1, <2>3, <2>4, LedgerQuiet
  <1>4. ASSUME NEW t \in Toggles, HandlerStep(t), ~Unflag(t) PROVE LedgerInv'
    <2>1. /\ UNCHANGED <<listed, ledger, connLock, rows, built, lapsed>>
          /\ OthersStay(t) /\ age' \in {age, "none"}
          /\ \A c \in Conns : managed[c] => managed'[c]
      BY <1>0, <1>4, ToggleAlone
      DEF HandlerStep, CaptureConfig, Persist, Disarm, DisarmFails, SetFlag, Undo, UndoFails,
          ClearSnapshot, Restore, RestoreFails, CallFails, Invalidate, db, cache, locks, sweep
    <2>2. /\ pc'[t] \notin Sweeping
          /\ \/ Invalidate(t)
             \/ pc[t] \in {"restore", "clear"} => pc'[t] \in {"clear", "invalidate"}
          /\ pc[t] = "invalidate" => Invalidate(t)
      BY <1>0, <1>4
      DEF HandlerStep, CaptureConfig, Persist, Disarm, DisarmFails, SetFlag, Undo, UndoFails,
          ClearSnapshot, Restore, RestoreFails, CallFails, Invalidate, MayFail, Goto, Sweeping
    <2>3. Invalidate(t) => age' = "none"
      BY DEF Invalidate
    <2>4. ASSUME NEW c \in Conns, Answers(c), age' # "none" PROVE Answers(c)'
      <3>1. CASE connLock[c] = t
        BY <2>1, <2>2, <2>3, <2>4, <3>1 DEF Answers
      <3>2. CASE connLock[c] # t
        BY <1>0, <2>1, <2>4, <3>2 DEF Answers, OthersStay
      <3> QED BY <3>1, <3>2
    <2>5. \A q \in Procs : pc'[q] \in Sweeping => pc[q] \in Sweeping
      BY <2>1, <2>2 DEF OthersStay
    <2> QED BY <2>1, <2>4, <2>5, LedgerQuiet
  <1>5. ASSUME NEW c \in Conns, Change(c) PROVE LedgerInv'
    <2>1. /\ UNCHANGED <<ledger, age, connLock, pc, rows, built, lapsed>>
          /\ \A d \in Conns : /\ listed'[d] => listed[d]
                              /\ managed[d] /\ listed'[d] => managed'[d]
      BY <1>0, <1>5 DEF Change, Drift, Edit, SetEnabled, Delete, db, cache, locks, sweep
    <2> QED BY <2>1, LedgerQuiet DEF Answers
  <1>6. CASE Expire
    <2>1. /\ UNCHANGED <<listed, managed, ledger, connLock, pc, rows, built, lapsed>>
          /\ age' # "fresh"
      BY <1>6 DEF Expire, db, locks, sweep
    <2> QED BY <2>1, LedgerQuiet
  <1> QED BY <1>1, <1>2, <1>3, <1>4, <1>5, <1>6, LedgerUnflag, LedgerSweep
          DEF Next, CallerStep, ToggleStep, HandlerStep, Procs

----------------------------------------------------------------------------
\* The invariant of the toggle, and with it the types.
CareInv == TypeInv /\ WorkInv /\ ConfigInv /\ LedgerInv

THEOREM CareHolds == Spec => []CareInv
  <1>1. Init => CareInv
    BY TypeInit, CareInit DEF CareInv
  <1>2. CareInv /\ [Next]_vars => CareInv'
    BY TypeStep, WorkStep, ConfigStep, LedgerStep DEF CareInv
  <1> QED BY <1>1, <1>2, PTL DEF Spec

\* SnapshotIsOriginal (applyStillwaterManaged, clearStillwaterManaged and their
\* rollback): whatever fails, however often requests are retried and whoever sweeps
\* meanwhile, the snapshot kept of a peer that was not lost track of is what its
\* administrator chose.
THEOREM SnapshotsOriginal == Spec => []SnapshotIsOriginal
  <1>1. CareInv => SnapshotIsOriginal
    BY DEF CareInv, ConfigInv, ConfigFits, SnapshotIsOriginal
  <1> QED BY <1>1, CareHolds, PTL

\* OwnConfigKept (clearStillwaterManaged, rollbackStillwaterManaged): such a peer, once
\* it is neither managed nor kept a snapshot of nor being worked on, runs with it.
THEOREM OwnConfigSafe == Spec => []OwnConfigKept
  <1>1. CareInv => OwnConfigKept
    BY DEF CareInv, ConfigInv, ConfigFits, OwnConfigKept, RunsOwn, Busy
  <1> QED BY <1>1, CareHolds, PTL

\* LedgerKnowsUnmanaged (refreshConflictState): with any number of requests and sweeps
\* at once, a ledger the gate takes for fresh excuses a peer that was opted out only if
\* it is the work of a sweep that listed the peer before and stored after.
THEOREM LedgerSafe == Spec => []LedgerKnowsUnmanaged
  <1>1. CareInv => LedgerKnowsUnmanaged
    BY DEF CareInv, LedgerInv, FlagFits, Answers, LedgerKnowsUnmanaged, Excuses, LapsedOf
  <1> QED BY <1>1, CareHolds, PTL

=============================================================================
