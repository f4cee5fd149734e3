----------------------------- MODULE ArtistRow -----------------------------
(***************************************************************************)
(* The row of one artist: its fields, the operator's locks, and the two    *)
(* stamps that tell the rule pipeline whether to look at it again.         *)
(*                                                                         *)
(* Nothing here runs in a transaction.  A whole-row writer (a rule pass, a *)
(* bulk job, a refresh) loads the artist, works on the copy, reads the     *)
(* stored row for its locks and writes every column; meanwhile the         *)
(* operator edits single columns and locks fields.  Stamps are kept in     *)
(* whole seconds.                                                          *)
(***************************************************************************)
EXTENDS Integers, FiniteSets

CONSTANTS
    Fields,     \* lockable fields
    Values,     \* what a field may hold
    Passes,     \* runs of the enabled rules
    Writers,    \* other automated whole-row writers
    Operators,  \* requests of the operator
    MaxClock,   \* bound on the seconds
    MaxChanges, \* bound on the changes, and the operator's lock requests with them
    BusSize,    \* capacity of the event bus
    Faults      \* what may go wrong: subset of AllFaults

\* An evaluation, the read of a stored row, a stamp, or a dirty mark fails.
AllFaults == {"engine", "read", "stamp", "mark"}

ASSUME BoundsOK == /\ MaxClock \in Nat \ {0} /\ MaxChanges \in Nat /\ BusSize \in Nat
ASSUME FaultsKnown == Faults \subseteq AllFaults

Actors == Passes \cup Writers \cup Operators

\* An actor may be a writer at one time and the operator at another.
ASSUME ActorsDiffer == Passes \cap (Writers \cup Operators) = {}

Whole == "artist" \* the lock on the artist itself
Locks == "locks"  \* in touched: any of the locks
ASSUME NotEmpty == Fields # {} /\ Values # {}
ASSUME FieldsDiffer == {Whole, Locks} \cap Fields = {}

VARIABLES
    clock,                   \* the current second
    val, pins,               \* the row: its fields, and what is locked
    dirtySince, evaluatedAt, \* the row: its stamps; 0 is NULL
    bus,                     \* ArtistUpdated events that wait in the channel
    pc,                      \* idle, start, evaluate, read, write, stamp, mark, pin
    my,                      \* what an actor holds while it is not idle
    \* bookkeeping of the properties
    ver, evalVer,            \* changes so far; those in the last copy evaluated
    started,                 \* when the last stamped evaluation started
    owed,                    \* a change was marked in a later second than that
    overtaken,               \* a mark replaced a later one
    pinned                   \* lock requests so far

row    == <<val, pins>>
stamps == <<dirtySince, evaluatedAt, started, owed, overtaken>>
vars   == <<clock, row, stamps, bus, pc, my, ver, evalVer, pinned>>

\* val: an actor's copy of the fields; field: the one it changes; grant: the operator
\* lets it; old, locks: the row read before the write; start: the second in which it
\* started, or wrote.  For the properties, seen: the changes in its copy; late: one was
\* marked in a later second than it started; touched: what others changed since it read
\* the row.
Blank ==
    [val |-> CHOOSE fs \in [Fields -> Values] : TRUE, field |-> CHOOSE f \in Fields : TRUE,
     grant |-> FALSE, old |-> CHOOSE fs \in [Fields -> Values] : TRUE, locks |-> {},
     start |-> 0, seen |-> 0, late |-> FALSE, touched |-> {}]

Goto(p, where) == pc' = [pc EXCEPT ![p] = where]

\* p is done.
Ends(p) == Goto(p, "idle") /\ my' = [my EXCEPT ![p] = Blank]

\* ListDirtyIDs: never evaluated, or marked in a later second than that.
Dirty == evaluatedAt = 0 \/ dirtySince > evaluatedAt

\* The bound on changes and lock requests is not reached.
More == ver + pinned < MaxChanges

\* What the others hold, when p's step changes the items of the row.
Touched(p, items) ==
    [q \in Actors |-> IF q # p /\ pc[q] = "write"
                      THEN [my[q] EXCEPT !.touched = @ \cup items] ELSE my[q]]

----------------------------------------------------------------------------
Init ==
    /\ clock = 1
    /\ val \in [Fields -> Values] /\ pins \in SUBSET Fields
    /\ dirtySince = 0 /\ evaluatedAt = 0
    /\ bus = 0
    /\ pc = [p \in Actors |-> "idle"]
    /\ my = [p \in Actors |-> Blank]
    /\ ver = 0 /\ evalVer = 0
    /\ started = 0 /\ owed = FALSE /\ overtaken = FALSE
    /\ pinned = 0

Second ==
    /\ clock < MaxClock
    /\ clock' = clock + 1
    /\ UNCHANGED <<row, stamps, bus, pc, my, ver, evalVer, pinned>>

----------------------------------------------------------------------------
(* Service.update, the whole-row persist.                                  *)

\* The stored row is read; if it cannot be, nothing is written.
Read(p) ==
    /\ pc[p] = "read"
    /\ my' = [my EXCEPT ![p].old = val, ![p].locks = pins]
    /\ Goto(p, "write")
    /\ UNCHANGED <<clock, row, stamps, bus, ver, evalVer, pinned>>

ReadFails(p) ==
    /\ pc[p] = "read" /\ "read" \in Faults
    /\ Ends(p)
    /\ UNCHANGED <<clock, row, stamps, bus, ver, evalVer, pinned>>

\* The fields and the locks of p's copy replace what is there.
Replaces(p, fields, locks) ==
    /\ val' = fields
    /\ pins' = locks
    /\ my' = [Touched(p, {f \in Fields : fields[f] # val[f]} \cup
                         (IF locks # pins THEN {Locks} ELSE {}))
              EXCEPT ![p] = IF p \in Passes
                            THEN [Blank EXCEPT !.start = my[p].start, !.seen = my[p].seen,
                                               !.late = my[p].late]
                            ELSE [Blank EXCEPT !.start = clock]]

\* What p may write: a locked field keeps what the stored row holds.
Enforced(p) ==
    [f \in Fields |-> IF f \in my[p].locks /\ ~(my[p].grant /\ f = my[p].field)
                      THEN my[p].old[f] ELSE my[p].val[f]]

\* (variant) The locks are those of the copy, whose LockedFields was not loaded.
ReplaceTrusting(p) == Replaces(p, my[p].val, my[p].locks)

\* (variant) The values are protected, but the copy's lock columns are written.
ReplaceUnpinned(p) == Replaces(p, Enforced(p), {})

\* enforceFieldLocks, and the UPDATE.
Replace(p) == Replaces(p, Enforced(p), my[p].locks)

\* (variant) A rule pass writes through Update, which marks.
PassMarks(p) ==
    /\ p \in Passes /\ pc[p] = "write"
    /\ Replace(p)
    /\ dirtySince' = clock
    /\ Goto(p, "stamp")
    /\ UNCHANGED <<clock, evaluatedAt, started, owed, overtaken, bus, ver, evalVer, pinned>>

\* A rule pass does not mark its own write, and stamps the artist next.
PassWrites(p) ==
    /\ p \in Passes /\ pc[p] = "write"
    /\ Replace(p)
    /\ Goto(p, "stamp")
    /\ UNCHANGED <<clock, stamps, bus, ver, evalVer, pinned>>

\* Any other write is a change.  The code keeps provider identifiers in a table of
\* their own, which it writes after the mark (persistNormalized): here they are fields
\* of the row, and written with it.
Write(p) ==
    /\ p \notin Passes /\ pc[p] = "write" /\ More
    /\ Replace(p)
    /\ ver' = ver + 1
    /\ Goto(p, "mark")
    /\ UNCHANGED <<clock, stamps, bus, evalVer, pinned>>

\* dirty_since becomes t, and so earlier than it was if marks overtake each other.
Marks(t) ==
    /\ dirtySince' = t
    /\ overtaken' = (overtaken \/ t < dirtySince)
    /\ owed' = (owed \/ (evaluatedAt # 0 /\ t > started))
    /\ UNCHANGED <<evaluatedAt, started>>

\* What the passes under way hold, once a change is marked in second t.
Later(t) ==
    [q \in Actors |-> IF q \in Passes /\ pc[q] \in {"evaluate", "read", "write", "stamp"}
                         /\ t > my[q].start
                      THEN [my[q] EXCEPT !.late = TRUE] ELSE my[q]]

\* markDirtyBestEffort takes the time, at some moment since the write, and marks.  Its
\* failure is only logged.
Mark(p) ==
    /\ pc[p] = "mark"
    /\ \/ \E t \in my[p].start..clock : Marks(t) /\ my' = [Later(t) EXCEPT ![p] = Blank]
       \/ "mark" \in Faults /\ UNCHANGED stamps /\ my' = [my EXCEPT ![p] = Blank]
    /\ Goto(p, "idle")
    /\ UNCHANGED <<clock, row, bus, ver, evalVer, pinned>>

----------------------------------------------------------------------------
(* A rule pass.                                                            *)

\* The artist is loaded: alone, or with a page of artists.
Loads(p) ==
    /\ pc[p] = "idle" /\ Whole \notin pins
    /\ my' = [my EXCEPT ![p].val = val, ![p].seen = ver]
    /\ Goto(p, "start")
    /\ UNCHANGED <<clock, row, stamps, bus, ver, evalVer, pinned>>

\* (variant) The scheduler walks the dirty artists only.
TickLoadsDirty(p) == Dirty /\ Loads(p)

\* runEnabledRules: RunScopeAll, the safety net of the dirty marks.
TickLoads(p) == Loads(p)

\* A run by hand, of the dirty artists by default.
ClickLoads(p) == Dirty /\ Loads(p)

\* It is dispatched, after the others of its page.
Starts(p) ==
    /\ pc[p] = "start"
    /\ my' = [my EXCEPT ![p].start = clock]
    /\ Goto(p, "evaluate")
    /\ UNCHANGED <<clock, row, stamps, bus, ver, evalVer, pinned>>

\* The rules are evaluated on the copy, and a fixer may change a field of it.  The row
\* is written in any case, for the health score.
Evaluates(p) ==
    /\ pc[p] = "evaluate"
    /\ \E f \in Fields, v \in Values :
         my' = [my EXCEPT ![p].val[f] = v, ![p].field = f]
    /\ Goto(p, "read")
    /\ UNCHANGED <<clock, row, stamps, bus, ver, evalVer, pinned>>

\* The engine fails: the artist is left as it is, and not stamped.
EvaluationFails(p) ==
    /\ pc[p] = "evaluate" /\ "engine" \in Faults
    /\ Ends(p)
    /\ UNCHANGED <<clock, row, stamps, bus, ver, evalVer, pinned>>

Stamps(p, t) ==
    /\ pc[p] = "stamp"
    /\ evaluatedAt' = t
    /\ started' = my[p].start /\ owed' = my[p].late
    /\ evalVer' = my[p].seen
    /\ Ends(p)
    /\ UNCHANGED <<clock, row, dirtySince, overtaken, bus, ver, pinned>>

\* (variant) The stamp is the time at which the evaluation ended.
StampAtEnd(p) == Stamps(p, clock)

\* markArtistEvaluated, with the time at which the evaluation started.
Stamp(p) == Stamps(p, my[p].start)

StampFails(p) ==
    /\ pc[p] = "stamp" /\ "stamp" \in Faults
    /\ Ends(p)
    /\ UNCHANGED <<clock, row, stamps, bus, ver, evalVer, pinned>>

----------------------------------------------------------------------------
(* The other writers.                                                      *)

\* p has loaded the artist and changes field f of its copy.
Proposes(p, f, v, granted) ==
    /\ pc[p] = "idle" /\ More
    /\ my' = [my EXCEPT ![p].val = [val EXCEPT ![f] = v], ![p].field = f,
                        ![p].grant = granted]
    /\ Goto(p, "read")
    /\ UNCHANGED <<clock, row, stamps, bus, ver, evalVer, pinned>>

\* A bulk job, a refresh or a scan, which take their time from here on.
WriterLoads(p) ==
    p \in Writers /\ \E f \in Fields, v \in Values : Proposes(p, f, v, FALSE)

\* UpdateProviderField: the operator's request carries a grant for its field, and the
\* fixer that backfills identifiers has none and is refused a locked one.
ProviderLoads(p) ==
    \/ p \in Operators /\ \E f \in Fields, v \in Values : Proposes(p, f, v, TRUE)
    \/ p \in Writers /\ \E f \in Fields \ pins, v \in Values : Proposes(p, f, v, FALSE)

\* UpdateField and ClearField: the operator changes one column, locked or not.
EditField(p) ==
    /\ p \in Operators /\ pc[p] = "idle" /\ More
    /\ \E f \in Fields, v \in Values :
         /\ v # val[f]
         /\ val' = [val EXCEPT ![f] = v]
         /\ my' = [Touched(p, {f}) EXCEPT ![p].start = clock]
    /\ ver' = ver + 1
    /\ Goto(p, "mark")
    /\ UNCHANGED <<clock, pins, stamps, bus, evalVer, pinned>>

\* SetLock, one conditional statement.
LockArtist(p) ==
    /\ p \in Operators /\ pc[p] = "idle" /\ More
    /\ pins' = IF Whole \in pins THEN pins \ {Whole} ELSE pins \cup {Whole}
    /\ pinned' = pinned + 1
    /\ my' = Touched(p, {Locks})
    /\ UNCHANGED <<clock, val, stamps, bus, pc, ver, evalVer>>

\* AddLockedField and RemoveLockedField read the locks ...
ReadLocks(p) ==
    /\ p \in Operators /\ pc[p] = "idle" /\ More
    /\ \E f \in Fields : my' = [my EXCEPT ![p].field = f, ![p].locks = pins]
    /\ pinned' = pinned + 1
    /\ Goto(p, "pin")
    /\ UNCHANGED <<clock, row, stamps, bus, ver, evalVer>>

\* ... and write the locked fields, with or without one.
WriteLocks(p) ==
    /\ pc[p] = "pin"
    /\ LET read == my[p].locks \ {Whole}
           f == my[p].field IN
       pins' = (pins \cap {Whole}) \cup (IF f \in read THEN read \ {f} ELSE read \cup {f})
    /\ my' = [Touched(p, {Locks}) EXCEPT ![p] = Blank]
    /\ Goto(p, "idle")
    /\ UNCHANGED <<clock, val, stamps, bus, ver, evalVer, pinned>>

\* (variant) The bus never drops.
ElsewhereUnbounded ==
    /\ More
    /\ ver' = ver + 1
    /\ bus' = bus + 1
    /\ UNCHANGED <<clock, row, stamps, pc, my, evalVer, pinned>>

\* A change that does not go through the service, as of a file of the artist: it is
\* only published, and the bus drops what it has no room for.
Elsewhere ==
    /\ More
    /\ ver' = ver + 1
    /\ bus' = IF bus < BusSize THEN bus + 1 ELSE bus
    /\ UNCHANGED <<clock, row, stamps, pc, my, evalVer, pinned>>

\* The dirty subscriber handles an event.
Dispatch ==
    /\ bus > 0
    /\ bus' = bus - 1
    /\ \/ Marks(clock) /\ my' = Later(clock)
       \/ "mark" \in Faults /\ UNCHANGED <<stamps, my>>
    /\ UNCHANGED <<clock, row, pc, ver, evalVer, pinned>>

----------------------------------------------------------------------------
Pass(p) ==
    \/ Starts(p) \/ Evaluates(p) \/ EvaluationFails(p)
    \/ PassWrites(p) \/ Stamp(p) \/ StampFails(p)

Persist(p) ==
    \/ Read(p) \/ ReadFails(p) \/ Write(p) \/ Mark(p)

Next ==
    \/ Second \/ Elsewhere \/ Dispatch
    \/ \E p \in Passes : TickLoads(p) \/ ClickLoads(p) \/ Pass(p)
    \/ \E p \in Actors : Persist(p)
    \/ \E p \in Writers \cup Operators : WriterLoads(p) \/ ProviderLoads(p) \/ EditField(p)
    \/ \E p \in Operators : LockArtist(p) \/ ReadLocks(p) \/ WriteLocks(p)

Spec == Init /\ [][Next]_vars

\* The scheduler ticks for ever and its passes go on; not every evaluation, read and
\* stamp of the artist fails.
FairSpec ==
    /\ Spec
    /\ \A p \in Passes :
         /\ WF_vars(TickLoads(p)) /\ WF_vars(Starts(p)) /\ WF_vars(PassWrites(p))
         /\ SF_vars(Evaluates(p)) /\ SF_vars(Read(p)) /\ SF_vars(Stamp(p))

----------------------------------------------------------------------------
(* Properties.                                                             *)

\* Types; nothing is locked but fields and the artist.
TypeOK ==
    /\ clock \in 1..MaxClock
    /\ val \in [Fields -> Values] /\ pins \subseteq Fields \cup {Whole}
    /\ dirtySince \in 0..MaxClock /\ evaluatedAt \in 0..MaxClock /\ bus \in 0..BusSize
    /\ pc \in [Actors -> {"idle", "start", "evaluate", "read", "write", "stamp", "mark",
                          "pin"}]
    /\ my \in [Actors -> [val : [Fields -> Values], field : Fields, grant : BOOLEAN,
                          old : [Fields -> Values], locks : SUBSET (Fields \cup {Whole}),
                          start : 0..MaxClock, seen : 0..MaxChanges, late : BOOLEAN,
                          touched : SUBSET (Fields \cup {Locks})]]
    /\ ver \in 0..MaxChanges /\ evalVer \in 0..MaxChanges
    /\ started \in 0..MaxClock /\ owed \in BOOLEAN /\ overtaken \in BOOLEAN
    /\ pinned \in 0..MaxChanges

Writes(p) == pc[p] = "write" /\ pc'[p] # "write"

\* A whole-row write never changes a field that was locked throughout the write,
\* unless the operator granted it, however old the copy and its idea of the locks
\* (enforceLocksBeforeUpdate).
NoProposalUnderLock ==
    [][\A p \in Actors : Writes(p) =>
          \A f \in pins \cap Fields :
             {f, Locks} \cap my[p].touched # {} \/ (my[p].grant /\ f = my[p].field)
                \/ val'[f] = val[f]]_vars

\* Nor does it change the locks, unless they changed while it was under way
\* (pinLockState).
LocksKept ==
    [][\A p \in Actors : Writes(p) /\ Locks \notin my[p].touched => pins' = pins]_vars

\* A change that is marked in a later second than an evaluation started in is looked
\* at again, even if the evaluation ends after it, and whatever passes overlap, as long
\* as no mark overtakes another (walkArtistsWithMark's startedAt).
LateChangesStayDirty == owed /\ ~overtaken => Dirty

\* A pass takes the artist out of the dirty set, unless a change is marked in a later
\* second than it started: its own write does not put the artist back (UpdateAfterRuleEvaluation).
PassesClear ==
    [][\A p \in Passes :
          pc[p] = "stamp" /\ pc'[p] = "idle" /\ evaluatedAt' = my[p].start /\ ~my[p].late
             => ~Dirty']_vars

\* Whatever marks are lost or dropped, an artist that is not locked is in the end
\* evaluated as it is (runEnabledRules: the full walk is the dirty marks' safety net).
EvaluationCatchesUp == <>[](Whole \in pins \/ evalVer = ver)

\* What the code does not give: that only the operator's requests change the locks.
LocksChangeOnRequest == [][\A p \in Actors : Writes(p) => pins' = pins]_vars

\* Nor that a whole-row write changes the field it is about, and no other.
WritesOnlyItsField ==
    [][\A p \in Actors : Writes(p) => \A f \in Fields \ {my[p].field} : val'[f] = val[f]]_vars

\* Nor that an artist that is not dirty has been evaluated as it is, once all marks
\* have been made.
CleanMeansSeen ==
    ~Dirty /\ bus = 0 /\ (\A p \in Actors : pc[p] = "idle") => evalVer = ver

=============================================================================
