---------------------------- MODULE ConflictGate ----------------------------
(***************************************************************************)
(* The conflict gate (internal/conflict) and the "Let Stillwater manage"   *)
(* toggle (internal/api/handlers_conflict.go).                             *)
(*                                                                         *)
(* A peer server that saves artwork or NFO files itself fights Stillwater  *)
(* over the same directory.  The detector probes every connection's savers *)
(* and caches a ledger; the gate refuses writes while the ledger shows an  *)
(* unmanaged peer that saves.  The toggle makes a peer managed: it keeps a *)
(* snapshot of the peer's configuration, turns its savers off, and puts    *)
(* the snapshot back on opt-out.  Refreshes re-disable a managed peer that *)
(* was turned on again.                                                    *)
(*                                                                         *)
(* Connections are numbered in the order in which the repository lists     *)
(* them.  The two savers of a peer (NFO, images), read and cleared         *)
(* together, are one flag; its libraries likewise.                         *)
(***************************************************************************)
EXTENDS Integers, FiniteSets

CONSTANTS
    NumConns,   \* connections are 1..NumConns
    Callers,    \* goroutines that ask the gate
    Toggles,    \* goroutines that serve toggle requests
    Nobody,     \* the holder of a free lock
    Overlaps,   \* pairs <<c, d>>, c < d, whose library directories overlap
    Faults,     \* which calls may fail: subset of {"peer", "db"}
    Admin,      \* what the administrators do: see AllAdmin
    MaxToggles, \* bound on toggle requests
    MaxEdits    \* bound on the administrators' changes and on expiries

\* drift: a managed peer's saver is turned on in the peer's own settings.
\* edit: an unmanaged peer's saver is changed while no snapshot is kept of it.
\* editKept: likewise while one is kept.  enable: PUT connection, enabled.
\* delete: DELETE connection.  onboard: the onboarding step that refreshes
\* without refreshMu.
AllAdmin == {"drift", "edit", "editKept", "enable", "delete", "onboard"}

Cache == "cache"    \* an element of moved, beside the processes

ASSUME ConnCount   == NumConns \in Nat \ {0}
ASSUME ProcsApart  ==
    /\ Callers \cap Toggles = {}
    /\ Nobody \notin Callers \cup Toggles /\ Cache \notin Callers \cup Toggles
ASSUME OverlapPairs == Overlaps \subseteq {e \in (1..NumConns) \X (1..NumConns) : e[1] < e[2]}
ASSUME KindsKnown  == Faults \subseteq {"peer", "db"} /\ Admin \subseteq AllAdmin
ASSUME Bounds      == MaxToggles \in Nat /\ MaxEdits \in Nat

Conns == 1..NumConns
Procs == Callers \cup Toggles

\* ConnectionState, as far as the gate looks at it.
Rows     == [enabled : BOOLEAN, managed : BOOLEAN, saving : BOOLEAN, err : BOOLEAN]
Unprobed == [enabled |-> FALSE, managed |-> FALSE, saving |-> FALSE, err |-> FALSE]
\* PreStillwaterConfigJSON: the saver's setting that was captured, or nothing.
Snapshots == {"none", "on", "off"}
Capture(on) == IF on THEN "on" ELSE "off"

CallerPcs == {"idle", "asked", "waiting"}
SweepPcs  == {"list", "probe", "disable", "recheck", "store"}
TogglePcs == {"idle", "lock", "capture", "persist", "disarm", "setFlag", "undo", "undoClear",
              "unflag", "restore", "clear", "invalidate"}

VARIABLES
    listed,    \* listed[c]: the connections table has a row for c
    enabled, managed, snapshot, \* its columns
    saver,     \* saver[c]: the peer saves files now
    ledger,    \* cachedLedger
    age,       \* cachedAt: none (zero), stale (older than the TTL), fresh
    refreshMu, \* who holds it
    connLock,  \* connLock[c]: who holds connWriteMu of c
    pc,
    req,       \* req[t]: the toggle request: connection, direction, what it read
    rows,      \* rows[p]: the rows List returned to p's sweep
    at,        \* at[p]: the connection p is probing
    built,     \* built[p]: the states p has appended so far
    verdict,   \* verdict[g]: what the gate last told caller g
    toggles, edits,
    \* bookkeeping of the properties
    own,       \* own[c]: the setting the peer's administrator wants when unmanaged
    moved,     \* the sweeps, and the cache, that predate the latest change
    astray,    \* the connections whose peer the code has lost track of: see Misfires
    lapsed     \* <<p, c>>: c was opted out since the sweep p, or the cache, listed it

db     == <<listed, enabled, managed, snapshot>>
sweep  == <<rows, at, built>>
cache  == <<ledger, age>>
locks  == <<refreshMu, connLock>>
bounds == <<toggles, edits>>
vars   == <<db, saver, cache, locks, pc, req, sweep, verdict, bounds, own, astray, moved, lapsed>>

Goto(p, where) == pc' = [pc EXCEPT ![p] = where]

\* The sweeps that are under way when t opts its connection out.
Lapses(t) ==
    lapsed' = lapsed \cup {<<p, req[t].conn>> : p \in {q \in Procs : pc[q] \in SweepPcs}}

\* The pairs of lapsed that are p's, or another's.
LapsedOf(p)     == {c \in Conns : <<p, c>> \in lapsed}
LapsedExcept(S) == {e \in lapsed : e[1] \notin S}

\* A change that a sweep already under way, and the cached ledger, may not show.
Overtakes == moved' = {p \in Procs : pc[p] \in SweepPcs} \cup {Cache}

----------------------------------------------------------------------------
(* The gate's reading of a ledger.                                         *)

\* AllowImageWrite and AllowNFOWrite.  A row without its paths has an error, so
\* leaving paths out of RoundTrip changes no verdict.
Counts(row) == row.enabled /\ ~row.managed
RoundTrip(l) == \E e \in Overlaps : Counts(l[e[1]]) /\ Counts(l[e[2]])
Conflict(l)  == \E c \in Conns : Counts(l[c]) /\ (l[c].err \/ l[c].saving)
Blocks(l)    == RoundTrip(l) \/ Conflict(l)

Answer(l) == IF Blocks(l) THEN "refuse" ELSE "admit"

----------------------------------------------------------------------------
NoRows    == [c \in Conns |-> Unprobed]
NoRequest == [conn |-> 1, on |-> FALSE, kept |-> "none", owned |-> FALSE]

Init ==
    /\ listed = [c \in Conns |-> TRUE]
    /\ enabled \in [Conns -> IF "enable" \in Admin THEN BOOLEAN ELSE {TRUE}]
    /\ managed = [c \in Conns |-> FALSE]
    /\ snapshot = [c \in Conns |-> "none"]
    /\ saver \in [Conns -> BOOLEAN]
    /\ own = saver
    /\ ledger = NoRows /\ age = "none"
    /\ refreshMu = Nobody
    /\ connLock = [c \in Conns |-> Nobody]
    /\ pc = [p \in Procs |-> "idle"]
    /\ req = [t \in Toggles |-> NoRequest]
    /\ rows = [p \in Procs |-> NoRows]
    /\ at = [p \in Procs |-> 1]
    /\ built = [p \in Procs |-> NoRows]
    /\ verdict = [g \in Callers |-> "none"]
    /\ toggles = 0 /\ edits = 0
    /\ moved = {} /\ astray = {} /\ lapsed = {}

----------------------------------------------------------------------------
(* Detector.Current, called by the gate.                                   *)

Ask(g) ==
    /\ pc[g] = "idle"
    /\ Goto(g, "asked")
    /\ verdict' = [verdict EXCEPT ![g] = "none"]
    /\ UNCHANGED <<db, saver, cache, locks, req, sweep, bounds, own, astray, moved, lapsed>>

\* The first look at the cache: fresh, or off to refreshMu.
Look(g) ==
    /\ pc[g] = "asked"
    /\ IF age = "fresh"
       THEN Goto(g, "idle") /\ verdict' = [verdict EXCEPT ![g] = Answer(ledger)]
       ELSE Goto(g, "waiting") /\ UNCHANGED verdict
    /\ UNCHANGED <<db, saver, cache, locks, req, sweep, bounds, own, astray, moved, lapsed>>

\* refreshMu taken, the cache looked at again.
LookAgain(g) ==
    /\ pc[g] = "waiting"
    /\ refreshMu = Nobody
    /\ IF age = "fresh"
       THEN /\ Goto(g, "idle")
            /\ verdict' = [verdict EXCEPT ![g] = Answer(ledger)]
            /\ UNCHANGED refreshMu
       ELSE /\ Goto(g, "list")
            /\ refreshMu' = g
            /\ UNCHANGED verdict
    /\ UNCHANGED <<db, saver, cache, connLock, req, sweep, bounds, own, astray, moved, lapsed>>

----------------------------------------------------------------------------
(* Detector.Refresh, under refreshMu for a caller and without it for a     *)
(* toggle, which holds its connection's lock instead.                      *)

\* The end of p's refresh, and of the call it served.
Return(p, answer) ==
    /\ Goto(p, "idle")
    /\ rows' = [rows EXCEPT ![p] = NoRows]
    /\ at' = [at EXCEPT ![p] = 1]
    /\ built' = [built EXCEPT ![p] = NoRows]
    /\ IF p \in Callers
       THEN /\ verdict' = [verdict EXCEPT ![p] = answer]
            /\ refreshMu' = IF refreshMu = p THEN Nobody ELSE refreshMu
            /\ UNCHANGED <<connLock, req>>
       ELSE /\ connLock' = [connLock EXCEPT ![req[p].conn] = Nobody]
            /\ req' = [req EXCEPT ![p] = NoRequest]
            /\ UNCHANGED <<verdict, refreshMu>>

List(p) ==
    /\ pc[p] = "list"
    /\ rows' = [rows EXCEPT ![p] =
                  [c \in Conns |-> [Unprobed EXCEPT !.enabled = enabled[c], !.managed = managed[c]]]]
    /\ at' = [at EXCEPT ![p] = 1]
    /\ built' = [built EXCEPT ![p] = NoRows]
    /\ moved' = moved \ {p} /\ lapsed' = LapsedExcept({p})
    /\ Goto(p, "probe")
    /\ UNCHANGED <<db, saver, cache, locks, req, verdict, bounds, own, astray>>

\* The prior ledger, or the sentinel that closes the gate when there is none.
ListFails(p) ==
    /\ pc[p] = "list"
    /\ "db" \in Faults
    /\ Return(p, IF age = "none" THEN "refuse" ELSE Answer(ledger))
    /\ moved' = moved \ {p} /\ lapsed' = LapsedExcept({p})
    /\ UNCHANGED <<db, saver, cache, bounds, own, astray>>

\* checkOne has finished row, for the connection p is at.
Append(p, row) ==
    /\ built' = [built EXCEPT ![p][at[p]] = row]
    /\ IF at[p] = NumConns
       THEN Goto(p, "store") /\ UNCHANGED at
       ELSE Goto(p, "probe") /\ at' = [at EXCEPT ![p] = @ + 1]

\* The saver's setting, or nothing, or the setting while another call failed.
Readings(c) == {[saving |-> saver[c], err |-> FALSE]} \cup
    IF "peer" \notin Faults THEN {}
    ELSE {[saving |-> FALSE, err |-> TRUE], [saving |-> saver[c], err |-> TRUE]}

\* A managed peer that saves is re-disabled before its row is appended.
Probe(p) ==
    /\ pc[p] = "probe"
    /\ LET c   == at[p]
           row == rows[p][c]
       IN  IF ~row.enabled THEN Append(p, row)
           ELSE \E r \in Readings(c) :
             LET seen == [row EXCEPT !.saving = r.saving, !.err = r.err]
             IN  IF row.managed /\ r.saving
                 THEN /\ built' = [built EXCEPT ![p][c] = seen]
                      /\ Goto(p, "disable")
                      /\ UNCHANGED at
                 ELSE Append(p, seen)
    /\ UNCHANGED <<db, saver, cache, locks, req, rows, verdict, bounds, own, astray, moved, lapsed>>

\* The flag the sweep listed may have been cleared since: then it re-disables a peer
\* that is not Stillwater's to change.
Misfires(p) == astray' = IF managed[at[p]] THEN astray ELSE astray \cup {at[p]}

Disable(p) ==
    /\ pc[p] = "disable"
    /\ saver' = [saver EXCEPT ![at[p]] = FALSE]
    /\ Misfires(p)
    /\ Goto(p, "recheck")
    /\ UNCHANGED <<db, cache, locks, req, sweep, verdict, bounds, own, moved, lapsed>>

\* Variant: a failed re-disable leaves the row managed.
DisableFailsManaged(p) ==
    /\ pc[p] = "disable"
    /\ "peer" \in Faults
    /\ saver' \in {saver, [saver EXCEPT ![at[p]] = FALSE]}
    /\ Misfires(p)
    /\ Append(p, [built[p][at[p]] EXCEPT !.err = TRUE])
    /\ UNCHANGED <<db, cache, locks, req, rows, verdict, bounds, own, moved, lapsed>>

\* The peer refused, for some library at least: the row counts again.
DisableFails(p) ==
    /\ pc[p] = "disable"
    /\ "peer" \in Faults
    /\ saver' \in {saver, [saver EXCEPT ![at[p]] = FALSE]}
    /\ Misfires(p)
    /\ Append(p, [built[p][at[p]] EXCEPT !.managed = FALSE, !.err = TRUE])
    /\ UNCHANGED <<db, cache, locks, req, rows, verdict, bounds, own, moved, lapsed>>

Recheck(p) ==
    /\ pc[p] = "recheck"
    /\ LET row == built[p][at[p]]
       IN  \/ Append(p, [row EXCEPT !.saving = saver[at[p]]])
           \/ "peer" \in Faults /\ Append(p, [row EXCEPT !.err = TRUE])
    /\ UNCHANGED <<db, saver, cache, locks, req, rows, verdict, bounds, own, astray, moved, lapsed>>

Store(p) ==
    /\ pc[p] = "store"
    /\ ledger' = built[p] /\ age' = "fresh"
    /\ moved' = IF p \in moved THEN (moved \ {p}) \cup {Cache} ELSE moved \ {Cache}
    /\ lapsed' = LapsedExcept({p, Cache}) \cup ({Cache} \X LapsedOf(p))
    /\ Return(p, Answer(built[p]))
    /\ UNCHANGED <<db, saver, bounds, own, astray>>

\* handlePostOnboardingConflictStep: Refresh itself, perhaps after Invalidate.
Onboard(g) ==
    /\ pc[g] = "idle"
    /\ "onboard" \in Admin /\ edits < MaxEdits
    /\ edits' = edits + 1
    /\ age' \in {age, "none"}
    /\ Goto(g, "list")
    /\ verdict' = [verdict EXCEPT ![g] = "none"]
    /\ UNCHANGED <<db, saver, ledger, locks, req, sweep, toggles, own, astray, moved, lapsed>>

----------------------------------------------------------------------------
(* handleSetStillwaterManaged.                                             *)

Request(t) ==
    /\ pc[t] = "idle"
    /\ toggles < MaxToggles
    /\ toggles' = toggles + 1
    /\ \E c \in {d \in Conns : listed[d]}, on \in BOOLEAN :
         req' = [req EXCEPT ![t] = [NoRequest EXCEPT !.conn = c, !.on = on]]
    /\ Goto(t, "lock")
    /\ UNCHANGED <<db, saver, cache, locks, sweep, verdict, edits, own, astray, moved, lapsed>>

\* The row read under the lock is in the requested state, and its snapshot column
\* in the shape that state implies; or there is no row any more (404).
NothingToDo(t) ==
    LET c == req[t].conn
    IN  \/ ~listed[c]
        \/ req[t].on = managed[c] /\ managed[c] = (snapshot[c] # "none")

\* Variant: every enable captures the peer anew, as before the snapshot was write-once.
BeginRecaptures(t) ==
    /\ pc[t] = "lock"
    /\ LET c == req[t].conn
       IN  /\ connLock[c] = Nobody
           /\ connLock' = [connLock EXCEPT ![c] = t]
           /\ req' = [req EXCEPT ![t].kept = snapshot[c], ![t].owned = req[t].on]
           /\ Goto(t, IF req[t].on THEN "capture" ELSE "unflag")
    /\ UNCHANGED <<db, saver, cache, refreshMu, sweep, verdict, bounds, own, astray, moved, lapsed>>

Begin(t) ==
    /\ pc[t] = "lock"
    /\ LET c == req[t].conn
       IN  /\ connLock[c] = Nobody
           /\ IF NothingToDo(t)
              THEN /\ Goto(t, "idle")
                   /\ req' = [req EXCEPT ![t] = NoRequest]
                   /\ UNCHANGED connLock
              ELSE /\ connLock' = [connLock EXCEPT ![c] = t]
                   /\ req' = [req EXCEPT ![t].kept = snapshot[c],
                                         ![t].owned = req[t].on /\ snapshot[c] = "none"]
                   /\ Goto(t, IF ~req[t].on THEN "unflag"
                              ELSE IF snapshot[c] = "none" THEN "capture" ELSE "disarm")
    /\ UNCHANGED <<db, saver, cache, refreshMu, sweep, verdict, bounds, own, astray, moved, lapsed>>

\* A call of t fails: the peer's, or the database's, which also fails when the row
\* is gone.
MayFail(t, from, fault, onError) ==
    /\ pc[t] = from
    /\ fault \in Faults \/ (fault = "db" /\ ~listed[req[t].conn])
    /\ Goto(t, onError)

\* applyStillwaterManaged
CaptureConfig(t) ==
    /\ pc[t] = "capture"
    /\ req' = [req EXCEPT ![t].kept = Capture(saver[req[t].conn])]
    /\ Goto(t, "persist")
    /\ UNCHANGED <<db, saver, cache, locks, sweep, verdict, bounds, own, astray, moved, lapsed>>

Persist(t) ==
    /\ pc[t] = "persist" /\ listed[req[t].conn]
    /\ snapshot' = [snapshot EXCEPT ![req[t].conn] = req[t].kept]
    /\ Goto(t, "disarm")
    /\ UNCHANGED <<listed, enabled, managed, saver, cache, locks, req, sweep, verdict, bounds, own, astray, moved, lapsed>>

Disarm(t) ==
    /\ pc[t] = "disarm"
    /\ saver' = [saver EXCEPT ![req[t].conn] = FALSE]
    /\ Goto(t, "setFlag")
    /\ UNCHANGED <<db, cache, locks, req, sweep, verdict, bounds, own, astray, moved, lapsed>>

\* The peer took the change for some libraries, for all, or for none.
DisarmFails(t) ==
    /\ MayFail(t, "disarm", "peer", "undo")
    /\ saver' \in {saver, [saver EXCEPT ![req[t].conn] = FALSE]}
    /\ UNCHANGED <<db, cache, locks, req, sweep, verdict, bounds, own, astray, moved, lapsed>>

SetFlag(t) ==
    /\ pc[t] = "setFlag" /\ listed[req[t].conn]
    /\ managed' = [managed EXCEPT ![req[t].conn] = TRUE]
    /\ Goto(t, "invalidate")
    /\ Overtakes
    /\ UNCHANGED <<listed, enabled, snapshot, saver, cache, locks, req, sweep, verdict, bounds, own, astray, lapsed>>

\* restoreLibraryOptions of what the request holds
Restored(t) == [saver EXCEPT ![req[t].conn] = (req[t].kept = "on")]

\* rollbackStillwaterManaged: the snapshot goes only if this request captured it
\* and the peer has it back.
Undo(t) ==
    /\ pc[t] = "undo"
    /\ saver' = Restored(t)
    /\ Goto(t, IF req[t].owned THEN "undoClear" ELSE "invalidate")
    /\ Overtakes
    /\ UNCHANGED <<db, cache, locks, req, sweep, verdict, bounds, own, astray, lapsed>>

\* Variant: the rollback drops the snapshot although the peer was not restored.
UndoFailsClears(t) ==
    /\ MayFail(t, "undo", "peer", IF req[t].owned THEN "undoClear" ELSE "invalidate")
    /\ saver' \in {saver, Restored(t)}
    /\ Overtakes
    /\ UNCHANGED <<db, cache, locks, req, sweep, verdict, bounds, own, astray, lapsed>>

UndoFails(t) ==
    /\ MayFail(t, "undo", "peer", "invalidate")
    /\ saver' \in {saver, Restored(t)}
    /\ Overtakes
    /\ UNCHANGED <<db, cache, locks, req, sweep, verdict, bounds, own, astray, lapsed>>

ClearSnapshot(t) ==
    /\ pc[t] \in {"undoClear", "clear"} /\ listed[req[t].conn]
    /\ snapshot' = [snapshot EXCEPT ![req[t].conn] = "none"]
    /\ Goto(t, "invalidate")
    /\ UNCHANGED <<listed, enabled, managed, saver, cache, locks, req, sweep, verdict, bounds, own, astray, moved, lapsed>>

\* clearStillwaterManaged: flag, then peer, then snapshot.
Unflag(t) ==
    /\ pc[t] = "unflag" /\ listed[req[t].conn]
    /\ managed' = [managed EXCEPT ![req[t].conn] = FALSE]
    /\ Goto(t, IF req[t].kept = "none" THEN "clear" ELSE "restore")
    /\ Overtakes /\ Lapses(t)
    /\ UNCHANGED <<listed, enabled, snapshot, saver, cache, locks, req, sweep, verdict, bounds, own, astray>>

Restore(t) ==
    /\ pc[t] = "restore"
    /\ saver' = Restored(t)
    /\ Goto(t, "clear")
    /\ Overtakes
    /\ UNCHANGED <<db, cache, locks, req, sweep, verdict, bounds, own, astray, lapsed>>

\* Variant: a failed restore answers the request without refreshing the ledger.
RestoreFailsQuietly(t) ==
    /\ MayFail(t, "restore", "peer", "idle")
    /\ saver' \in {saver, Restored(t)}
    /\ connLock' = [connLock EXCEPT ![req[t].conn] = Nobody]
    /\ Overtakes
    /\ UNCHANGED <<db, cache, refreshMu, req, sweep, verdict, bounds, own, astray, lapsed>>

RestoreFails(t) ==
    /\ MayFail(t, "restore", "peer", "invalidate")
    /\ saver' \in {saver, Restored(t)}
    /\ Overtakes
    /\ UNCHANGED <<db, cache, locks, req, sweep, verdict, bounds, own, astray, lapsed>>

\* The calls whose failure leaves everything as it was.
CallFails(t) ==
    /\ \/ MayFail(t, "capture", "peer", "invalidate")
       \/ MayFail(t, "persist", "db", "invalidate")
       \/ MayFail(t, "setFlag", "db", "undo")
       \/ MayFail(t, "unflag", "db", "invalidate")
       \/ MayFail(t, "undoClear", "db", "invalidate")
       \/ MayFail(t, "clear", "db", "invalidate")
    /\ UNCHANGED <<db, saver, cache, locks, req, sweep, verdict, bounds, own, astray, moved, lapsed>>

\* refreshConflictState: every outcome but the idempotent one goes on to refresh.
Invalidate(t) ==
    /\ pc[t] = "invalidate"
    /\ age' = "none"
    /\ Goto(t, "list")
    /\ UNCHANGED <<db, saver, ledger, locks, req, sweep, verdict, bounds, own, astray, moved, lapsed>>

----------------------------------------------------------------------------
(* The administrators, and time.                                           *)

Edits == edits < MaxEdits /\ edits' = edits + 1

Drift(c) ==
    /\ "drift" \in Admin /\ managed[c] /\ ~saver[c]
    /\ Edits
    /\ saver' = [saver EXCEPT ![c] = TRUE]
    /\ Overtakes
    /\ UNCHANGED <<db, cache, locks, pc, req, sweep, verdict, toggles, own, astray, lapsed>>

\* Not while a toggle request is working on c: nobody could say who came last.
Edit(c) ==
    /\ ~managed[c] /\ connLock[c] = Nobody
    /\ listed[c]
    /\ (IF snapshot[c] = "none" THEN "edit" ELSE "editKept") \in Admin
    /\ Edits
    /\ saver' = [saver EXCEPT ![c] = ~@]
    /\ own' = [own EXCEPT ![c] = ~saver[c]]
    /\ astray' = IF snapshot[c] = "none" THEN astray \ {c} ELSE astray \cup {c}
    /\ Overtakes
    /\ UNCHANGED <<db, cache, locks, pc, req, sweep, verdict, toggles, lapsed>>

\* handleUpdateConnection: under the lock, and no word to the detector.
SetEnabled(c) ==
    /\ "enable" \in Admin /\ listed[c]
    /\ connLock[c] = Nobody
    /\ Edits
    /\ enabled' = [enabled EXCEPT ![c] = ~@]
    /\ Overtakes
    /\ UNCHANGED <<listed, managed, snapshot, saver, cache, locks, pc, req, sweep, verdict, toggles, own, astray, lapsed>>

\* handleDeleteConnection takes no connection lock, and asks nothing of the peer.
Delete(c) ==
    /\ "delete" \in Admin /\ listed[c]
    /\ Edits
    /\ listed' = [listed EXCEPT ![c] = FALSE]
    /\ enabled' = [enabled EXCEPT ![c] = FALSE]
    /\ managed' = [managed EXCEPT ![c] = FALSE]
    /\ snapshot' = [snapshot EXCEPT ![c] = "none"]
    /\ astray' = IF snapshot[c] = "none" /\ connLock[c] = Nobody THEN astray ELSE astray \cup {c}
    /\ Overtakes
    /\ UNCHANGED <<saver, cache, locks, pc, req, sweep, verdict, toggles, own, lapsed>>

\* The TTL runs out, or an operator asks for a recheck (Invalidate).
Expire ==
    /\ Edits
    /\ \/ age = "fresh" /\ age' = "stale"
       \/ age' = "none"
    /\ UNCHANGED <<db, saver, ledger, locks, pc, req, sweep, verdict, toggles, own, astray, moved, lapsed>>

----------------------------------------------------------------------------
SweepStep(p) == \/ List(p) \/ ListFails(p) \/ Probe(p) \/ Disable(p) \/ DisableFails(p)
                \/ Recheck(p) \/ Store(p)
CallerStep(g) == Look(g) \/ LookAgain(g) \/ SweepStep(g)
ToggleStep(t) == \/ Begin(t) \/ CaptureConfig(t) \/ Persist(t) \/ Disarm(t) \/ DisarmFails(t)
                 \/ SetFlag(t) \/ Undo(t) \/ UndoFails(t) \/ ClearSnapshot(t) \/ Unflag(t)
                 \/ Restore(t) \/ RestoreFails(t) \/ CallFails(t) \/ Invalidate(t) \/ SweepStep(t)
Change(c) == Drift(c) \/ Edit(c) \/ SetEnabled(c) \/ Delete(c)

Next ==
    \/ \E g \in Callers : Ask(g) \/ Onboard(g) \/ CallerStep(g)
    \/ \E t \in Toggles : Request(t) \/ ToggleStep(t)
    \/ \E c \in Conns : Change(c)
    \/ Expire

Spec == Init /\ [][Next]_vars

----------------------------------------------------------------------------
(* Properties.                                                             *)

Requests == [conn : Conns, on : BOOLEAN, kept : Snapshots, owned : BOOLEAN]

\* Every variable has its type; refreshMu and the connection locks are held by
\* goroutines that are inside the sections the code guards with them.
TypeOK ==
    /\ listed \in [Conns -> BOOLEAN]
    /\ enabled \in [Conns -> BOOLEAN] /\ managed \in [Conns -> BOOLEAN]
    /\ snapshot \in [Conns -> Snapshots]
    /\ saver \in [Conns -> BOOLEAN] /\ own \in [Conns -> BOOLEAN]
    /\ ledger \in [Conns -> Rows] /\ age \in {"none", "stale", "fresh"}
    /\ refreshMu \in Callers \cup {Nobody}
    /\ connLock \in [Conns -> Toggles \cup {Nobody}]
    /\ pc \in [Procs -> CallerPcs \cup SweepPcs \cup TogglePcs]
    /\ req \in [Toggles -> Requests]
    /\ rows \in [Procs -> [Conns -> Rows]] /\ built \in [Procs -> [Conns -> Rows]]
    /\ at \in [Procs -> Conns]
    /\ verdict \in [Callers -> {"none", "admit", "refuse"}]
    /\ toggles \in 0..MaxToggles /\ edits \in 0..MaxEdits
    /\ moved \subseteq Procs \cup {Cache}
    /\ astray \subseteq Conns /\ lapsed \subseteq (Procs \cup {Cache}) \X Conns
    /\ refreshMu # Nobody => pc[refreshMu] \in SweepPcs
    /\ \A c \in Conns : connLock[c] # Nobody => pc[connLock[c]] \notin {"idle", "lock"}

\* The snapshot of a peer, whatever failed and was retried since it was taken and
\* whoever sweeps meanwhile, is the configuration its administrator chose, never what
\* Stillwater set (applyStillwaterManaged's write-once snapshot).  Not of a peer the
\* code has lost track of: one a sweep re-disabled after its opt-out, one changed while
\* its snapshot was kept, or one deleted while managed or being toggled.
SnapshotIsOriginal ==
    \A c \in Conns \ astray : snapshot[c] # "none" => snapshot[c] = Capture(own[c])

\* A peer that Stillwater neither manages nor keeps a snapshot of, with no toggle
\* request at work on it, runs with its administrator's configuration
\* (clearStillwaterManaged and rollbackStillwaterManaged put it back first); again
\* where the code has not lost track of it.
RunsOwn(c) == (~managed[c] /\ snapshot[c] = "none" /\ connLock[c] = Nobody) => saver[c] = own[c]
OwnConfigKept == \A c \in Conns \ astray : RunsOwn(c)

\* A ledger the gate takes for fresh does not excuse as managed a connection that is
\* not any more, once the request that opted it out has returned
\* (refreshConflictState), unless it is the work of a sweep that had listed the
\* connection before the opt-out and stored its ledger after.
Excuses(c) == age = "fresh" /\ connLock[c] = Nobody /\ listed[c] /\ ledger[c].managed
LedgerKnowsUnmanaged ==
    \A c \in Conns \ LapsedOf(Cache) : Excuses(c) => managed[c]

\* What the code does not give: the same of every peer, always.
SnapshotAlwaysOriginal == \A c \in Conns : snapshot[c] # "none" => snapshot[c] = Capture(own[c])
OwnConfigAlwaysKept    == \A c \in Conns : RunsOwn(c)
LedgerAlwaysKnows      == \A c \in Conns : Excuses(c) => managed[c]

\* A verdict that admits a write, from a ledger that no change has overtaken.
Admits(g) == verdict[g] = "none" /\ verdict'[g] = "admit" /\ Cache \notin moved'

\* The gate admits a write only if no enabled peer saves files, but for a managed
\* one whose savers could not be read (AnyImageConflict, checkOne: a failed
\* re-disable and an unknown state close the gate).
AdmitsOnlyKnown ==
    [][\A g \in Callers : Admits(g) => \A c \in Conns :
         (enabled[c] /\ saver[c])
            => (ledger'[c].managed /\ ledger'[c].err /\ ~ledger'[c].saving)]_vars

=============================================================================
