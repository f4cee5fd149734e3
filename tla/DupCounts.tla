------------------------------- MODULE DupCounts -------------------------------
(***************************************************************************)
(* The platform half of the duplicate-image counts in the sidebar, and the *)
(* report page behind it: dupimages.Cache, the report the router keeps,    *)
(* and what invalidates it.                                                *)
(*                                                                         *)
(* One refresh runs at a time, started by the scheduler, by a page that    *)
(* finds nothing cached, by a prune or by a remediation of the library.    *)
(* It scans the library and then sweeps the platforms, for minutes, while  *)
(* a prune deletes what is being counted and connections go in and out of  *)
(* use.  At shutdown the cache is drained.                                 *)
(*                                                                         *)
(* A sweep that could not read something is partial and establishes no     *)
(* count.  Three things it leaves out without saying so: connections that  *)
(* are not in use, artists whose mapped item the platform does not know,   *)
(* and rows whose connection cannot be looked up when they are summed.     *)
(* Artists are neither added nor removed.                                  *)
(***************************************************************************)
EXTENDS Naturals, FiniteSets

CONSTANTS
    Copies,   \* platform backdrops that may be redundant
    Pairs,    \* artist/connection mappings
    Conns,    \* connections
    PairOf,   \* PairOf[c]: the mapping whose item has the copy c
    ConnOf,   \* ConnOf[q]: the connection of the mapping q
    Changes,  \* the copies that become redundant on their own, once each
    Faults,   \* what may go wrong: subset of AllFaults
    MaxTurns, \* bound on the changes of the connections' status
    Stops     \* TRUE: the process may be shut down

\* Who runs a refresh: the scheduler, TriggerRefresh's goroutine, a remediation.
Refreshers == {"tick", "lazy", "remediate"}

\* scan: a scan fails.  partial: something cannot be read.  absent: a platform answers
\* 404 to the item of a mapping.  lookup: a connection cannot be looked up when the rows
\* are summed.  delete: a delete on a platform or a whole prune fails.
AllFaults == {"scan", "partial", "absent", "lookup", "delete"}

ASSUME FaultsKnown == Faults \subseteq AllFaults /\ Stops \in BOOLEAN
ASSUME ChangesKnown == Changes \subseteq Copies
ASSUME Mappings == PairOf \in [Copies -> Pairs] /\ ConnOf \in [Pairs -> Conns]
ASSUME TurnsBound == MaxTurns \in Nat

VARIABLES
    platform,             \* the copies that are redundant now
    usable,               \* the connections that are enabled and whose status is ok
    count, known,         \* the cache's platform half, and whether there is one
    report, reportKnown,  \* the router's platform report: its rows
    running,              \* the cache's single-flight latch
    registered,           \* the refreshes Drain waits for (backgroundCount)
    cooling,              \* less than retryCooldown since the last lazy attempt
    rpc, my,              \* where each refresh is, and what it holds
    prune, hit,           \* idle, pruning, trigger; it deleted, or may have
    life,                 \* up, stopping, draining, drained
    waiting,              \* the drain still waits for the channel it took
    todo, turns,          \* the changes still to come; those of a status so far
    \* bookkeeping of the properties
    pruned,               \* copies a prune deleted, and that did not come back
    uncounted,            \* copies that appeared after the counted sweep began
    omitted,              \* copies that the counted refresh left out silently
    inFlight              \* refreshes that ran when the drain began

world    == <<platform, usable, todo, turns>>
counts   == <<count, known, uncounted, omitted>>
page     == <<report, reportKnown>>
latch    == <<running, registered, cooling>>
jobs     == <<rpc, my>>
requests == <<prune, hit, pruned>>
shutdown == <<life, waiting, inFlight>>
vars     == <<world, counts, page, latch, jobs, requests, shutdown>>

\* smooth: nothing will go wrong in this refresh; start: what was redundant when the
\* sweep began; well, sick: the connections that were, or were not, usable at some time
\* of the sweep; rows: what it found; partial: it could not read something; counts: it
\* established a count; late: a prune has invalidated the report since the sweep began;
\* fresh: copies that appeared since; left: copies that were left out silently.
Blank == [smooth |-> FALSE, start |-> {}, well |-> {}, sick |-> {}, rows |-> {},
          partial |-> FALSE, counts |-> FALSE, late |-> FALSE, fresh |-> {}, left |-> {}]

On(k) == {q \in Pairs : ConnOf[q] = k}
CopiesOn(conns) == {c \in Copies : ConnOf[PairOf[c]] \in conns}

Goto(p, where) == rpc' = [rpc EXCEPT ![p] = where]

----------------------------------------------------------------------------
Init ==
    /\ platform \in SUBSET Copies /\ todo = Changes
    /\ usable \in SUBSET Conns /\ turns = 0
    /\ count = {} /\ known = FALSE
    /\ report = {} /\ reportKnown = FALSE
    /\ running = FALSE /\ registered = {} /\ cooling = FALSE
    /\ rpc = [p \in Refreshers |-> "idle"]
    /\ my = [p \in Refreshers |-> Blank]
    /\ prune = "idle" /\ hit = FALSE
    /\ life = "up" /\ waiting = FALSE
    /\ pruned = {} /\ uncounted = {} /\ omitted = {} /\ inFlight = {}

----------------------------------------------------------------------------
(* How a refresh begins.                                                   *)

\* (variant) Only the background refresh is registered for the drain.
BeginsUnregistered(p) ==
    /\ ~running
    /\ running' = TRUE
    /\ registered' = IF p = "lazy" THEN registered \cup {p} ELSE registered
    /\ Goto(p, "library")
    /\ UNCHANGED my

\* The latch is taken and the refresh registered in one critical section.
Begins(p) ==
    /\ ~running
    /\ running' = TRUE
    /\ registered' = registered \cup {p}
    /\ Goto(p, "library")
    /\ UNCHANGED my

\* (variant) The scheduler refreshes only what was never established.
TickOnce ==
    /\ life = "up" /\ ~known
    /\ Begins("tick")
    /\ UNCHANGED <<world, counts, page, cooling, requests, shutdown>>

\* The scheduler's tick, which a running refresh turns into a skip.
Tick ==
    /\ life = "up"
    /\ Begins("tick")
    /\ UNCHANGED <<world, counts, page, cooling, requests, shutdown>>

\* beginBackgroundRefresh: the cooldown bounds the attempts, whatever their outcome.
LazyBegins ==
    /\ ~cooling
    /\ cooling' = TRUE
    /\ Begins("lazy")

\* A page that finds nothing cached, or a report of twelve hours ago.
PageTriggers ==
    /\ LazyBegins
    /\ UNCHANGED <<world, counts, page, requests, shutdown>>

\* retryCooldown has passed.
Cools ==
    /\ cooling
    /\ cooling' = FALSE
    /\ UNCHANGED <<world, counts, page, running, registered, jobs, requests, shutdown>>

----------------------------------------------------------------------------
(* refresh.                                                                *)

\* A canceled context ends a scan with an error.
Canceled(p) == (p = "tick" /\ life # "up") \/ (p = "lazy" /\ life \in {"draining", "drained"})

\* The library scan ends, with a count of its own or an error that the other half
\* does not share; the sweep of the platforms starts.
LibraryEnds(p) ==
    /\ rpc[p] = "library"
    /\ \E smooth \in BOOLEAN :
         my' = [my EXCEPT ![p].start = platform, ![p].smooth = smooth,
                          ![p].well = usable, ![p].sick = Conns \ usable]
    /\ Goto(p, "sweep")
    /\ UNCHANGED <<world, counts, page, latch, requests, shutdown>>

Goes(p, fault) == fault \in Faults /\ ~my[p].smooth

\* The mappings that a sweep without an error can have read: of a connection that was
\* usable throughout all, but for those whose item is unknown there, and not all of them
\* (connAbsenceTally); of one that was usable for a while any.
Readable(p) ==
    {read \in SUBSET {q \in Pairs : ConnOf[q] \in my[p].well} :
       \A k \in my[p].well \ my[p].sick :
          \/ On(k) \subseteq read
          \/ Goes(p, "absent") /\ On(k) \cap read # {}}

\* The rows of the mappings it read: all that was there throughout, and any of what was
\* there for a while.
Seen(start, now, read) ==
    {rows \in SUBSET {c \in start \cup now : PairOf[c] \in read} :
       {c \in start \cap now : PairOf[c] \in read} \subseteq rows}

\* The sweep ends with a report, complete or, if something could not be read or every
\* item of a connection was unknown, partial.
SweepEnds(p) ==
    /\ rpc[p] = "sweep"
    /\ \/ \E read \in Readable(p) : \E rows \in Seen(my[p].start, platform, read) :
            my' = [my EXCEPT ![p].rows = rows, ![p].partial = FALSE, ![p].start = {},
                             ![p].well = {}, ![p].sick = {},
                             ![p].left = {c \in Copies : PairOf[c] \notin read}]
       \/ /\ Goes(p, "partial") \/ Goes(p, "absent") \/ Canceled(p)
          /\ \E rows \in SUBSET ((my[p].start \cup platform) \cap CopiesOn(my[p].well)) :
               my' = [my EXCEPT ![p].rows = rows, ![p].partial = TRUE, ![p].start = {},
                                ![p].well = {}, ![p].sick = {}]
    /\ Goto(p, "report")
    /\ UNCHANGED <<world, counts, page, latch, requests, shutdown>>

\* The sweep fails: there is no report, and no platform half.
SweepFails(p) ==
    /\ rpc[p] = "sweep"
    /\ Goes(p, "scan") \/ Canceled(p)
    /\ my' = [my EXCEPT ![p].start = {}, ![p].well = {}, ![p].sick = {}]
    /\ Goto(p, "store")
    /\ UNCHANGED <<world, counts, page, latch, requests, shutdown>>

\* A partial sweep without rows says nothing of those it did not see.
Outage(p) == my[p].partial /\ my[p].rows = {} /\ report # {}

\* (variant) The report is stored whenever its sweep began.
ReportsAnyway(p) ==
    /\ rpc[p] = "report"
    /\ IF Outage(p)
       THEN UNCHANGED page
       ELSE report' = my[p].rows /\ reportKnown' = TRUE
    /\ Goto(p, IF my[p].partial THEN "store" ELSE "bucket")
    /\ UNCHANGED <<world, counts, my, latch, requests, shutdown>>

\* (variant) What a partial sweep found is counted.
ReportsPartial(p) ==
    /\ rpc[p] = "report"
    /\ IF my[p].late \/ Outage(p)
       THEN UNCHANGED page
       ELSE report' = my[p].rows /\ reportKnown' = TRUE
    /\ Goto(p, "bucket")
    /\ UNCHANGED <<world, counts, my, latch, requests, shutdown>>

\* storePlatformDupReport refuses a sweep that began before the last prune ended; a
\* partial sweep is reported but not counted.
Reports(p) ==
    /\ rpc[p] = "report"
    /\ IF my[p].late \/ Outage(p)
       THEN UNCHANGED page
       ELSE report' = my[p].rows /\ reportKnown' = TRUE
    /\ Goto(p, IF my[p].partial THEN "store" ELSE "bucket")
    /\ UNCHANGED <<world, counts, my, latch, requests, shutdown>>

\* bucketByPlatformType: the rows are summed per platform, but for those of a connection
\* that cannot be looked up.
Buckets(p) ==
    /\ rpc[p] = "bucket"
    /\ \E lost \in IF Goes(p, "lookup") \/ Canceled(p) THEN SUBSET Conns ELSE {{}} :
         my' = [my EXCEPT ![p].rows = @ \ CopiesOn(lost), ![p].left = @ \cup CopiesOn(lost),
                          ![p].counts = TRUE]
    /\ Goto(p, "store")
    /\ UNCHANGED <<world, counts, page, latch, requests, shutdown>>

\* (variant) The rows of a sweep that established nothing are written.
StoresUnmarked(p) ==
    /\ rpc[p] = "store"
    /\ count' = my[p].rows
    /\ known' = (known \/ my[p].counts)
    /\ uncounted' = my[p].fresh /\ omitted' = my[p].left
    /\ running' = FALSE
    /\ registered' = registered \ {p}
    /\ waiting' = (waiting /\ registered' # {})
    /\ inFlight' = inFlight \ {p}
    /\ my' = [my EXCEPT ![p] = Blank]
    /\ Goto(p, "idle")
    /\ UNCHANGED <<world, page, cooling, requests, life>>

\* A count that was established is written; otherwise the last one stays.  (That a
\* fresher one may have been stored meanwhile cannot be while refreshes are single.)
\* The latch is released and the refresh deregistered.
Stores(p) ==
    /\ rpc[p] = "store"
    /\ count' = IF my[p].counts THEN my[p].rows ELSE count
    /\ known' = (known \/ my[p].counts)
    /\ uncounted' = IF my[p].counts THEN my[p].fresh ELSE uncounted
    /\ omitted' = IF my[p].counts THEN my[p].left ELSE omitted
    /\ running' = FALSE
    /\ registered' = registered \ {p}
    /\ waiting' = (waiting /\ registered' # {})
    /\ inFlight' = inFlight \ {p}
    /\ my' = [my EXCEPT ![p] = Blank]
    /\ Goto(p, "idle")
    /\ UNCHANGED <<world, page, cooling, requests, life>>

Refresh(p) == \/ LibraryEnds(p) \/ SweepEnds(p) \/ SweepFails(p) \/ Reports(p)
              \/ Buckets(p) \/ Stores(p)

----------------------------------------------------------------------------
(* The prune of the platforms' duplicates, one at a time.                  *)

PruneBegins ==
    /\ prune = "idle"
    /\ prune' = "pruning" /\ hit' = FALSE
    /\ UNCHANGED <<world, counts, page, latch, jobs, pruned, shutdown>>

\* One delete on a connection that was usable when its turn came.  One that is reported
\* to have failed may have happened.
Deletes(c) ==
    /\ prune = "pruning" /\ c \in platform \cap CopiesOn(usable)
    /\ \/ platform' = platform \ {c} /\ pruned' = pruned \cup {c}
       \/ "delete" \in Faults /\ UNCHANGED <<platform, pruned>>
    /\ hit' = TRUE
    /\ UNCHANGED <<usable, todo, turns, counts, page, latch, jobs, prune, shutdown>>

\* The report is dropped, and with it every sweep that began before.
Invalidates ==
    /\ report' = {} /\ reportKnown' = FALSE
    /\ my' = [p \in Refreshers |-> IF rpc[p] \in {"sweep", "report"}
                                   THEN [my[p] EXCEPT !.late = TRUE] ELSE my[p]]

\* (variant) Only a prune that succeeded invalidates.
PruneEndsClean ==
    /\ prune = "pruning"
    /\ \/ Invalidates /\ prune' = "trigger"
       \/ "delete" \in Faults /\ prune' = "idle" /\ UNCHANGED <<page, my>>
    /\ UNCHANGED <<world, counts, latch, rpc, hit, pruned, shutdown>>

\* A prune that succeeded invalidates; so does one that failed after it deleted, or
\* may have deleted, something.
PruneEnds ==
    /\ prune = "pruning"
    /\ \/ Invalidates /\ prune' = "trigger"
       \/ "delete" \in Faults /\ ~hit /\ prune' = "idle" /\ UNCHANGED <<page, my>>
    /\ UNCHANGED <<world, counts, latch, rpc, hit, pruned, shutdown>>

\* It asks for a refresh, which a running one or the cooldown drops.
PruneTriggers ==
    /\ prune = "trigger"
    /\ prune' = "idle"
    /\ \/ LazyBegins
       \/ (running \/ cooling) /\ UNCHANGED <<latch, jobs>>
    /\ UNCHANGED <<world, counts, page, hit, pruned, shutdown>>

\* A remediation of the library ends with a refresh, unless one is running; its
\* handler waits for it.
Rescans ==
    /\ Begins("remediate")
    /\ UNCHANGED <<world, counts, page, cooling, requests, shutdown>>

----------------------------------------------------------------------------
(* The world, and the shutdown.                                            *)

Appears(c) ==
    /\ c \in todo
    /\ todo' = todo \ {c}
    /\ platform' = platform \cup {c}
    /\ pruned' = pruned \ {c}
    /\ uncounted' = uncounted \cup {c}
    /\ my' = [p \in Refreshers |-> IF rpc[p] \in {"sweep", "report", "bucket", "store"}
                                   THEN [my[p] EXCEPT !.fresh = @ \cup {c}] ELSE my[p]]
    /\ UNCHANGED <<usable, turns, count, known, omitted, page, latch, rpc, prune, hit, shutdown>>

\* UpdateStatus after a connection test, and the operator's enabling and disabling.
StatusTurns(k) ==
    /\ turns < MaxTurns /\ turns' = turns + 1
    /\ usable' = IF k \in usable THEN usable \ {k} ELSE usable \cup {k}
    /\ my' = [p \in Refreshers |->
                IF rpc[p] # "sweep" THEN my[p]
                ELSE IF k \in usable THEN [my[p] EXCEPT !.sick = @ \cup {k}]
                ELSE [my[p] EXCEPT !.well = @ \cup {k}]]
    /\ UNCHANGED <<platform, todo, counts, page, latch, rpc, requests, shutdown>>

\* The shared context is canceled.  (Requests under way keep theirs, and the
\* listener does not wait for the long ones.)
Stop ==
    /\ Stops /\ life = "up"
    /\ life' = "stopping"
    /\ UNCHANGED <<world, counts, page, latch, jobs, requests, waiting, inFlight>>

\* cancelAndSnapshotIdle: the lazy context is canceled and the channel taken in one
\* critical section.
DrainBegins ==
    /\ life = "stopping"
    /\ life' = "draining"
    /\ waiting' = (registered # {})
    /\ inFlight' = {p \in Refreshers : rpc[p] # "idle"}
    /\ UNCHANGED <<world, counts, page, latch, jobs, requests>>

DrainReturns ==
    /\ life = "draining" /\ ~waiting
    /\ life' = "drained"
    /\ UNCHANGED <<world, counts, page, latch, jobs, requests, waiting, inFlight>>

Next ==
    \/ Tick \/ PageTriggers \/ Cools
    \/ \E p \in Refreshers : Refresh(p)
    \/ PruneBegins \/ PruneEnds \/ PruneTriggers \/ Rescans
    \/ \E c \in Copies : Deletes(c) \/ Appears(c)
    \/ \E k \in Conns : StatusTurns(k)
    \/ Stop \/ DrainBegins \/ DrainReturns

Spec == Init /\ [][Next]_vars

\* Scans end; the ticks go on, and not every one of them meets a running refresh; not
\* in every refresh something goes wrong.
FairSpec ==
    /\ Spec
    /\ \A p \in Refreshers : WF_vars(Refresh(p))
    /\ SF_vars(Tick)
    /\ SF_vars(LibraryEnds("tick") /\ my'["tick"].smooth)

----------------------------------------------------------------------------
(* Properties.                                                             *)

\* Types; what was never established is empty (Counts.LibraryAt and PlatformsAt are
\* stamped with what they stamp).
TypeOK ==
    /\ platform \subseteq Copies /\ todo \subseteq Copies
    /\ usable \subseteq Conns /\ turns \in 0..MaxTurns
    /\ count \subseteq Copies /\ report \subseteq Copies
    /\ {known, reportKnown, running, cooling, hit, waiting} \subseteq BOOLEAN
    /\ registered \subseteq Refreshers /\ inFlight \subseteq Refreshers
    /\ rpc \in [Refreshers -> {"idle", "library", "sweep", "report", "bucket", "store"}]
    /\ my \in [Refreshers ->
                 [smooth : BOOLEAN, start : SUBSET Copies, well : SUBSET Conns,
                  sick : SUBSET Conns, rows : SUBSET Copies, partial : BOOLEAN,
                  counts : BOOLEAN, late : BOOLEAN, fresh : SUBSET Copies,
                  left : SUBSET Copies]]
    /\ prune \in {"idle", "pruning", "trigger"}
    /\ life \in {"up", "stopping", "draining", "drained"}
    /\ pruned \subseteq Copies /\ uncounted \subseteq Copies /\ omitted \subseteq Copies
    /\ ~known => count = {}
    /\ ~reportKnown => report = {}

\* Once a prune has ended, the report page never again lists a copy it deleted,
\* whatever sweep was under way (platformDupReportInvalidatedAt).
NoPrunedRows == prune # "pruning" /\ reportKnown => report \cap pruned = {}

\* A platform count leaves out only copies that appeared after its sweep had begun, and
\* those that the refresh skips without an error: on connections that were not in use, of
\* items unknown to their platform, on connections that could not be looked up.  What could
\* not be read never lowers it (ErrPartialScan).
CountsNeverLow == known => platform \ (uncounted \cup omitted) \subseteq count

\* When Drain returns without an error, no refresh that was running when it was
\* called is still at work on the database (cancelAndSnapshotIdle, registerDrainable).
DrainIsComplete == life = "drained" => inFlight = {}

\* As long as the process runs and nothing changes any more, the count ends up at what is
\* there but for what its refresh skipped, which is again and again only what is on
\* connections that are not in use: every refresh a prune asks for may be dropped, the
\* scheduler's ticks make up for them.
CountsCatchUp ==
    /\ <>[](life # "up" \/ (known /\ count = platform \ omitted))
    /\ []<>(life # "up" \/ count = platform \cap CopiesOn(usable))

\* What the code does not give: that a sweep without an error has counted everything
\* ("Only a scan that saw everything is allowed to clear rows", ErrPartialScan).
CountsEverything == known => platform \ uncounted \subseteq count

\* Nor that nothing works on the database once it is drained.
NothingAfterDrain == life = "drained" => \A p \in Refreshers : rpc[p] = "idle" \/ Canceled(p)

=============================================================================
