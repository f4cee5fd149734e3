-------------------------- MODULE DupCounts_proofs --------------------------
(***************************************************************************)
(* Proofs about DupCounts, for every set of copies and every fault: what   *)
(* the sweeps may report and count, and what the drain waits for.          *)
(***************************************************************************)
EXTENDS DupCounts, TLAPS

USE FaultsKnown, ChangesKnown, Mappings, TurnsBound

----------------------------------------------------------------------------
(* Types.                                                                  *)

\* What a refresh holds.
Held ==
    [smooth : BOOLEAN, start : SUBSET Copies, well : SUBSET Conns, sick : SUBSET Conns,
     rows : SUBSET Copies, partial : BOOLEAN, counts : BOOLEAN, late : BOOLEAN,
     fresh : SUBSET Copies, left : SUBSET Copies]

RPCs == {"idle", "library", "sweep", "report", "bucket", "store"}

\* TypeOK, with what a refresh holds and its program counters under a name.
TypeInv ==
    /\ platform \subseteq Copies /\ todo \subseteq Copies
    /\ usable \subseteq Conns /\ turns \in 0..MaxTurns
    /\ count \subseteq Copies /\ report \subseteq Copies
    /\ known \in BOOLEAN /\ reportKnown \in BOOLEAN /\ running \in BOOLEAN
    /\ cooling \in BOOLEAN /\ hit \in BOOLEAN /\ waiting \in BOOLEAN
    /\ registered \subseteq Refreshers /\ inFlight \subseteq Refreshers
    /\ rpc \in [Refreshers -> RPCs] /\ my \in [Refreshers -> Held]
    /\ prune \in {"idle", "pruning", "trigger"}
    /\ life \in {"up", "stopping", "draining", "drained"}
    /\ pruned \subseteq Copies /\ uncounted \subseteq Copies /\ omitted \subseteq Copies
    /\ ~known => count = {}
    /\ ~reportKnown => report = {}

LEMMA BlankHeld == Blank \in Held
  BY DEF Blank, Held

LEMMA BeginsTyped ==
    ASSUME TypeInv, NEW p \in Refreshers, Begins(p)
    PROVE  /\ running' \in BOOLEAN /\ registered' \subseteq Refreshers
           /\ rpc' \in [Refreshers -> RPCs] /\ my' \in [Refreshers -> Held]
  BY DEF Begins, Goto, RPCs, TypeInv

LEMMA InitTyped == Init => TypeInv
  <1> SUFFICES ASSUME Init PROVE TypeInv
    OBVIOUS
  <1>1. rpc \in [Refreshers -> RPCs] /\ my \in [Refreshers -> Held]
    BY BlankHeld DEF Init, RPCs
  <1>2. /\ known \in BOOLEAN /\ reportKnown \in BOOLEAN /\ running \in BOOLEAN
        /\ cooling \in BOOLEAN /\ hit \in BOOLEAN /\ waiting \in BOOLEAN
    BY DEF Init
  <1> QED BY <1>1, <1>2 DEF Init, TypeInv

\* What a sweep that ends holds: its rows, and, unless it is partial, all that was there
\* throughout among them but for what it left out silently.
LEMMA SweepEndsMy ==
    ASSUME TypeInv, NEW p \in Refreshers, SweepEnds(p)
    PROVE  \E rows \in SUBSET Copies, b \in BOOLEAN, l \in SUBSET Copies :
             /\ my' = [my EXCEPT ![p] = [my[p] EXCEPT !.rows = rows, !.partial = b, !.start = {},
                                                      !.well = {}, !.sick = {}, !.left = l]]
             /\ rows \subseteq my[p].start \cup platform
             /\ ~b => (my[p].start \cap platform) \ l \subseteq rows
  <1>0. my[p] \in Held /\ my \in [Refreshers -> Held] /\ platform \subseteq Copies
    BY DEF TypeInv
  <1>1. my[p].start \cup platform \subseteq Copies /\ my[p].left \in SUBSET Copies
    BY <1>0 DEF Held
  <1>2. CASE \E read \in Readable(p) : \E rows \in Seen(my[p].start, platform, read) :
               my' = [my EXCEPT ![p].rows = rows, ![p].partial = FALSE, ![p].start = {},
                                ![p].well = {}, ![p].sick = {},
                                ![p].left = {c \in Copies : PairOf[c] \notin read}]
    <2>0. PICK read \in Readable(p) : \E rows \in Seen(my[p].start, platform, read) :
               my' = [my EXCEPT ![p].rows = rows, ![p].partial = FALSE, ![p].start = {},
                                ![p].well = {}, ![p].sick = {},
                                ![p].left = {c \in Copies : PairOf[c] \notin read}]
      BY <1>2
    <2>1. PICK rows \in Seen(my[p].start, platform, read) :
               my' = [my EXCEPT ![p].rows = rows, ![p].partial = FALSE, ![p].start = {},
                                ![p].well = {}, ![p].sick = {},
                                ![p].left = {c \in Copies : PairOf[c] \notin read}]
      BY <2>0
    <2> DEFINE l == {c \in Copies : PairOf[c] \notin read}
    <2>2. rows \subseteq my[p].start \cup platform /\ (my[p].start \cap platform) \ l \subseteq rows
      BY <1>1 DEF Seen
    <2>3. my' = [my EXCEPT ![p] = [my[p] EXCEPT !.rows = rows, !.partial = FALSE, !.start = {},
                                               !.well = {}, !.sick = {}, !.left = l]]
      BY <1>0, <2>1 DEF Held
    <2> HIDE DEF l
    <2>4. l \in SUBSET Copies /\ rows \in SUBSET Copies
      BY <1>1, <2>2 DEF l
    <2> QED BY <2>2, <2>3, <2>4
  <1>3. CASE \E rows \in SUBSET ((my[p].start \cup platform) \cap CopiesOn(my[p].well)) :
               my' = [my EXCEPT ![p].rows = rows, ![p].partial = TRUE, ![p].start = {},
                                ![p].well = {}, ![p].sick = {}]
    <2>1. PICK rows \in SUBSET ((my[p].start \cup platform) \cap CopiesOn(my[p].well)) :
               my' = [my EXCEPT ![p].rows = rows, ![p].partial = TRUE, ![p].start = {},
                                ![p].well = {}, ![p].sick = {}]
      BY <1>3
    <2>2. my' = [my EXCEPT ![p] = [my[p] EXCEPT !.rows = rows, !.partial = TRUE, !.start = {},
                                      !.well = {}, !.sick = {}, !.left = my[p].left]]
      BY <1>0, <2>1 DEF Held
    <2>3. rows \in SUBSET Copies /\ rows \subseteq my[p].start \cup platform
      BY <1>1
    <2> QED BY <1>1, <2>2, <2>3
  <1> QED BY <1>2, <1>3 DEF SweepEnds

LEMMA BucketsMy ==
    ASSUME TypeInv, NEW p \in Refreshers, Buckets(p)
    PROVE  \E l \in SUBSET Copies :
             my' = [my EXCEPT ![p] = [my[p] EXCEPT !.rows = my[p].rows \ l,
                                                   !.left = my[p].left \cup l, !.counts = TRUE]]
  <1>0. my[p] \in Held /\ my \in [Refreshers -> Held]
    BY DEF TypeInv
  <1>1. PICK lost : my' = [my EXCEPT ![p].rows = @ \ CopiesOn(lost),
                                     ![p].left = @ \cup CopiesOn(lost), ![p].counts = TRUE]
    BY DEF Buckets
  <1> DEFINE l == CopiesOn(lost)
  <1>2. l \in SUBSET Copies
    BY DEF CopiesOn
  <1>3. my' = [my EXCEPT ![p].rows = @ \ l, ![p].left = @ \cup l, ![p].counts = TRUE]
    BY <1>1
  <1> HIDE DEF l
  <1> QED BY <1>0, <1>2, <1>3 DEF Held

LEMMA TurnsMy ==
    ASSUME TypeInv, NEW k \in Conns, StatusTurns(k)
    PROVE  /\ my' \in [Refreshers -> Held]
           /\ \A p \in Refreshers :
                /\ my'[p].start = my[p].start /\ my'[p].rows = my[p].rows
                /\ my'[p].partial = my[p].partial /\ my'[p].counts = my[p].counts
                /\ my'[p].late = my[p].late /\ my'[p].fresh = my[p].fresh
                /\ my'[p].left = my[p].left
  <1>0. my \in [Refreshers -> Held]
    BY DEF TypeInv
  <1> DEFINE Turned(p) ==
                IF rpc[p] # "sweep" THEN my[p]
                ELSE IF k \in usable THEN [my[p] EXCEPT !.sick = my[p].sick \cup {k}]
                ELSE [my[p] EXCEPT !.well = my[p].well \cup {k}]
  <1>1. my' = [p \in Refreshers |-> Turned(p)]
    BY <1>0 DEF StatusTurns
  <1>2. ASSUME NEW p \in Refreshers
        PROVE  /\ Turned(p) \in Held
               /\ Turned(p).start = my[p].start /\ Turned(p).rows = my[p].rows
               /\ Turned(p).partial = my[p].partial /\ Turned(p).counts = my[p].counts
               /\ Turned(p).late = my[p].late /\ Turned(p).fresh = my[p].fresh
               /\ Turned(p).left = my[p].left
    <2>1. my[p] \in Held
      BY <1>0
    <2>2. my[p].sick \cup {k} \in SUBSET Conns /\ my[p].well \cup {k} \in SUBSET Conns
      BY <2>1 DEF Held
    <2> QED BY <2>1, <2>2 DEF Held
  <1> HIDE DEF Turned
  <1> QED BY <1>1, <1>2

LEMMA RefreshTyped ==
    ASSUME TypeInv, NEW p \in Refreshers, Refresh(p)
    PROVE  TypeInv'
  <1>0. my[p] \in Held /\ my \in [Refreshers -> Held] /\ rpc \in [Refreshers -> RPCs]
    BY DEF TypeInv
  <1>1. CASE LibraryEnds(p)
    <2>0. PICK smooth \in BOOLEAN :
             my' = [my EXCEPT ![p].start = platform, ![p].smooth = smooth,
                              ![p].well = usable, ![p].sick = Conns \ usable]
      BY <1>1 DEF LibraryEnds
    <2>1. [my[p] EXCEPT !.start = platform, !.smooth = smooth, !.well = usable,
                        !.sick = Conns \ usable] \in Held
      BY <1>0 DEF Held, TypeInv
    <2>2. my' \in [Refreshers -> Held] /\ rpc' \in [Refreshers -> RPCs]
      BY <1>0, <1>1, <2>0, <2>1 DEF LibraryEnds, Goto, RPCs
    <2> QED BY <1>1, <2>2 DEF LibraryEnds, TypeInv, world, counts, page, latch, requests, shutdown
  <1>2. CASE SweepEnds(p)
    <2>1. PICK rows \in SUBSET Copies, b \in BOOLEAN, l \in SUBSET Copies :
             /\ my' = [my EXCEPT ![p] = [my[p] EXCEPT !.rows = rows, !.partial = b, !.start = {},
                                                      !.well = {}, !.sick = {}, !.left = l]]
             /\ rows \subseteq my[p].start \cup platform
             /\ ~b => (my[p].start \cap platform) \ l \subseteq rows
      BY <1>2, SweepEndsMy
    <2>2. [my[p] EXCEPT !.rows = rows, !.partial = b, !.start = {},
                        !.well = {}, !.sick = {}, !.left = l] \in Held
      BY <1>0 DEF Held
    <2>3. my' \in [Refreshers -> Held] /\ rpc' \in [Refreshers -> RPCs]
      BY <1>0, <1>2, <2>1, <2>2 DEF SweepEnds, Goto, RPCs
    <2> QED BY <1>2, <2>3 DEF SweepEnds, TypeInv, world, counts, page, latch, requests, shutdown
  <1>3. CASE SweepFails(p)
    <2>1. [my[p] EXCEPT !.start = {}, !.well = {}, !.sick = {}] \in Held
      BY <1>0 DEF Held
    <2>2. my' \in [Refreshers -> Held] /\ rpc' \in [Refreshers -> RPCs]
      BY <1>0, <1>3, <2>1 DEF SweepFails, Goto, RPCs
    <2> QED BY <1>3, <2>2 DEF SweepFails, TypeInv, world, counts, page, latch, requests, shutdown
  <1>4. CASE Reports(p)
    <2>2. my' \in [Refreshers -> Held] /\ rpc' \in [Refreshers -> RPCs]
      BY <1>0, <1>4 DEF Reports, Goto, RPCs
    <2>3. my[p].rows \subseteq Copies
      BY <1>0 DEF Held
    <2>4. report' \subseteq Copies /\ reportKnown' \in BOOLEAN /\ (~reportKnown' => report' = {})
      BY <1>4, <2>3 DEF Reports, TypeInv, page
    <2> QED BY <1>4, <2>2, <2>4 DEF Reports, TypeInv, world, counts, latch, requests, shutdown
  <1>5. CASE Stores(p)
    <2>1. my' \in [Refreshers -> Held] /\ rpc' \in [Refreshers -> RPCs]
      BY <1>0, <1>5, BlankHeld DEF Stores, Goto, RPCs
    <2>2. /\ my[p].rows \subseteq Copies /\ my[p].fresh \subseteq Copies
          /\ my[p].left \subseteq Copies /\ my[p].counts \in BOOLEAN
      BY <1>0 DEF Held
    <2>3. count' \subseteq Copies /\ known' \in BOOLEAN /\ (~known' => count' = {})
      BY <1>5, <2>2 DEF Stores, TypeInv
    <2>4. waiting' \in BOOLEAN
      BY <1>5 DEF Stores
    <2>5. /\ uncounted' \subseteq Copies /\ omitted' \subseteq Copies
          /\ registered' \subseteq Refreshers /\ inFlight' \subseteq Refreshers
      BY <1>5, <2>2 DEF Stores, TypeInv
    <2>6. running' \in BOOLEAN
      BY <1>5 DEF Stores
    <2> QED BY <1>5, <2>1, <2>3, <2>4, <2>5, <2>6 DEF Stores, TypeInv, world, page, requests
  <1>6. CASE Buckets(p)
    <2>1. PICK l \in SUBSET Copies :
             my' = [my EXCEPT ![p] = [my[p] EXCEPT !.rows = my[p].rows \ l,
                                                   !.left = my[p].left \cup l, !.counts = TRUE]]
      BY <1>6, BucketsMy
    <2>2. [my[p] EXCEPT !.rows = my[p].rows \ l, !.left = my[p].left \cup l,
                        !.counts = TRUE] \in Held
      <3>1. my[p].rows \ l \in SUBSET Copies /\ my[p].left \cup l \in SUBSET Copies
        BY <1>0 DEF Held
      <3> QED BY <1>0, <3>1 DEF Held
    <2>3. my' \in [Refreshers -> Held] /\ rpc' \in [Refreshers -> RPCs]
      BY <1>0, <1>6, <2>1, <2>2 DEF Buckets, Goto, RPCs
    <2> QED BY <1>6, <2>3 DEF Buckets, TypeInv, world, counts, page, latch, requests, shutdown
  <1> QED BY <1>1, <1>2, <1>3, <1>4, <1>5, <1>6 DEF Refresh

LEMMA InvalidatesTyped ==
    ASSUME TypeInv, Invalidates
    PROVE  /\ my' \in [Refreshers -> Held] /\ report' = {} /\ reportKnown' = FALSE
           /\ \A p \in Refreshers :
                my'[p] = IF rpc[p] \in {"sweep", "report"}
                         THEN [my[p] EXCEPT !.late = TRUE] ELSE my[p]
  <1>1. ASSUME NEW p \in Refreshers PROVE [my[p] EXCEPT !.late = TRUE] \in Held
    <2>1. my[p] \in Held
      BY DEF TypeInv
    <2> QED BY <2>1 DEF Held
  <1> QED BY <1>1 DEF Invalidates, TypeInv

LEMMA AppearsMy ==
    ASSUME TypeInv, NEW c \in Copies, Appears(c)
    PROVE  /\ my' \in [Refreshers -> Held]
           /\ \A p \in Refreshers :
                my'[p] = IF rpc[p] \in {"sweep", "report", "bucket", "store"}
                         THEN [my[p] EXCEPT !.fresh = my[p].fresh \cup {c}] ELSE my[p]
  <1>1. ASSUME NEW p \in Refreshers
        PROVE  [my[p] EXCEPT !.fresh = my[p].fresh \cup {c}] \in Held
    <2>1. my[p] \in Held
      BY DEF TypeInv
    <2>2. my[p].fresh \cup {c} \in SUBSET Copies
      BY <2>1 DEF Held
    <2> QED BY <2>1, <2>2 DEF Held
  <1> QED BY <1>1 DEF Appears, TypeInv

LEMMA NextTyped == TypeInv /\ [Next]_vars => TypeInv'
  <1> SUFFICES ASSUME TypeInv, [Next]_vars PROVE TypeInv'
    OBVIOUS
  <1>1. CASE Tick \/ Rescans
    <2>1. "tick" \in Refreshers /\ "remediate" \in Refreshers
      BY DEF Refreshers
    <2> QED BY <1>1, <2>1, BeginsTyped DEF Tick, Rescans, TypeInv, world, counts, page,
                                           requests, shutdown
  <1>2. CASE LazyBegins /\ UNCHANGED <<world, counts, page, hit, pruned, shutdown>>
             /\ (prune' = prune \/ prune' = "idle")
    <2>1. "lazy" \in Refreshers
      BY DEF Refreshers
    <2>2. cooling' \in BOOLEAN
      BY <1>2 DEF LazyBegins
    <2> QED BY <1>2, <2>1, <2>2, BeginsTyped DEF LazyBegins, TypeInv, world, counts, page, shutdown
  <1>3. CASE PageTriggers
    BY <1>2, <1>3 DEF PageTriggers, requests
  <1>4. CASE PruneTriggers
    <2>1. CASE UNCHANGED <<latch, jobs>>
      BY <1>4, <2>1 DEF PruneTriggers, latch, jobs, TypeInv, world, counts, page, shutdown
    <2> QED BY <1>2, <1>4, <2>1 DEF PruneTriggers
  <1>5. CASE Cools \/ PruneBegins
    BY <1>5 DEF Cools, PruneBegins, TypeInv, world, counts, page, jobs, latch, requests, shutdown
  <1>6. CASE PruneEnds
    <2>1. CASE Invalidates /\ prune' = "trigger"
      BY <1>6, <2>1, InvalidatesTyped DEF PruneEnds, TypeInv, world, counts, latch, shutdown
    <2>2. CASE prune' = "idle" /\ UNCHANGED <<page, my>>
      BY <1>6, <2>2 DEF PruneEnds, page, TypeInv, world, counts, latch, shutdown
    <2> QED BY <1>6, <2>1, <2>2 DEF PruneEnds
  <1>7. ASSUME NEW c \in Copies, Deletes(c) PROVE TypeInv'
    <2>1. platform' \subseteq Copies /\ pruned' \subseteq Copies /\ hit' \in BOOLEAN
      BY <1>7 DEF Deletes, TypeInv
    <2> QED BY <1>7, <2>1 DEF Deletes, TypeInv, counts, page, latch, jobs, shutdown
  <1>8. ASSUME NEW c \in Copies, Appears(c) PROVE TypeInv'
    BY <1>8, AppearsMy DEF Appears, TypeInv, page, latch, shutdown
  <1>9. CASE Stop \/ DrainReturns
    BY <1>9 DEF Stop, DrainReturns, TypeInv, world, counts, page, latch, jobs, requests
  <1>10. CASE DrainBegins
    <2>1. waiting' \in BOOLEAN
      BY <1>10 DEF DrainBegins
    <2> QED BY <1>10, <2>1 DEF DrainBegins, TypeInv, world, counts, page, latch, jobs, requests
  <1>11. CASE UNCHANGED vars
    BY <1>11 DEF vars, TypeInv, world, counts, page, latch, jobs, requests, shutdown
  <1>12. ASSUME NEW k \in Conns, StatusTurns(k) PROVE TypeInv'
    <2>1. usable' \subseteq Conns /\ turns' \in 0..MaxTurns
      BY <1>12 DEF StatusTurns, TypeInv
    <2> QED BY <1>12, <2>1, TurnsMy DEF StatusTurns, TypeInv, counts, page, latch, requests, shutdown
  <1> QED
    BY <1>1, <1>3, <1>4, <1>5, <1>6, <1>7, <1>8, <1>9, <1>10, <1>11, <1>12, RefreshTyped DEF Next

\* Every reachable state is well typed, and what was never established is empty.
THEOREM TypeCorrect == Spec => []TypeOK
  <1>1. TypeInv => TypeOK
    BY DEF TypeInv, TypeOK, Held, RPCs
  <1> QED BY <1>1, InitTyped, NextTyped, PTL DEF Spec

----------------------------------------------------------------------------
(* The single flight, and the drain.                                       *)

\* The latch is held while a refresh is under way, which is registered, and one at most
\* is; the refreshes the drain found are gone when it no longer waits.
RunInv ==
    /\ \A p \in Refreshers : p \in registered <=> rpc[p] # "idle"
    /\ \A p, q \in registered : p = q
    /\ registered # {} => running
    /\ \A p \in Refreshers : rpc[p] # "store" => ~my[p].counts
    /\ inFlight \subseteq registered
    /\ life \in {"up", "stopping"} => inFlight = {}
    /\ life = "draining" => waiting \/ inFlight = {}
    /\ life = "drained" => inFlight = {}

LEMMA BeginsRun ==
    ASSUME TypeInv, RunInv, NEW p \in Refreshers, Begins(p), UNCHANGED shutdown
    PROVE  RunInv'
  <1>1. registered = {} /\ registered' = {p} /\ running' = TRUE
    BY DEF Begins, RunInv
  <1>2. rpc' = [rpc EXCEPT ![p] = "library"] /\ my' = my /\ rpc[p] = "idle"
    BY <1>1 DEF Begins, Goto, RunInv
  <1> QED BY <1>1, <1>2 DEF RunInv, TypeInv, shutdown

LEMMA NextRun == TypeInv /\ RunInv /\ [Next]_vars => RunInv'
  <1> SUFFICES ASSUME TypeInv, RunInv, [Next]_vars PROVE RunInv'
    OBVIOUS
  <1>0. my \in [Refreshers -> Held] /\ rpc \in [Refreshers -> RPCs]
    BY DEF TypeInv
  <1>1. CASE Tick \/ Rescans \/ PageTriggers
    BY <1>1, BeginsRun DEF Tick, Rescans, PageTriggers, LazyBegins, Refreshers
  <1>2. CASE PruneTriggers
    <2>1. CASE LazyBegins
      BY <1>2, <2>1, BeginsRun DEF PruneTriggers, LazyBegins, Refreshers
    <2>2. CASE UNCHANGED <<latch, jobs>>
      BY <1>2, <2>2 DEF PruneTriggers, latch, jobs, shutdown, RunInv
    <2> QED BY <1>2, <2>1, <2>2 DEF PruneTriggers
  <1>3. CASE Cools \/ PruneBegins \/ (\E c \in Copies : Deletes(c)) \/ UNCHANGED vars
    BY <1>3 DEF Cools, PruneBegins, Deletes, vars, latch, jobs, shutdown, RunInv
  <1>4. ASSUME NEW p \in Refreshers,
               LibraryEnds(p) \/ SweepEnds(p) \/ SweepFails(p) \/ Reports(p) \/ Buckets(p)
        PROVE  RunInv'
    <2>1. UNCHANGED <<running, registered, life, waiting, inFlight>>
      BY <1>4 DEF LibraryEnds, SweepEnds, SweepFails, Reports, Buckets, latch, shutdown
    <2>2. rpc[p] # "idle" /\ rpc[p] # "store" /\ rpc'[p] # "idle"
      BY <1>0, <1>4 DEF LibraryEnds, SweepEnds, SweepFails, Reports, Buckets, Goto
    <2>3. \A q \in Refreshers \ {p} : rpc'[q] = rpc[q] /\ my'[q] = my[q]
      BY <1>0, <1>4 DEF LibraryEnds, SweepEnds, SweepFails, Reports, Buckets, Goto
    <2>4. rpc'[p] # "store" => ~my'[p].counts
      <3>1. CASE LibraryEnds(p) \/ SweepFails(p)
        <4>1. my'[p].counts = my[p].counts
          <5>1. CASE LibraryEnds(p)
            BY <1>0, <5>1 DEF LibraryEnds, Held
          <5>2. CASE SweepFails(p)
            BY <1>0, <5>2 DEF SweepFails, Held
          <5> QED BY <3>1, <5>1, <5>2
        <4> QED BY <2>2, <4>1 DEF RunInv
      <3>2. CASE SweepEnds(p)
        <4>1. my'[p].counts = my[p].counts
          <5>1. PICK rows \in SUBSET Copies, b \in BOOLEAN, l \in SUBSET Copies :
             /\ my' = [my EXCEPT ![p] = [my[p] EXCEPT !.rows = rows, !.partial = b, !.start = {},
                                                      !.well = {}, !.sick = {}, !.left = l]]
             /\ rows \subseteq my[p].start \cup platform
             /\ ~b => (my[p].start \cap platform) \ l \subseteq rows
            BY <3>2, SweepEndsMy
          <5>2. my[p] \in Held
            BY <1>0
          <5>3. my'[p] = [my[p] EXCEPT !.rows = rows, !.partial = b, !.start = {},
                                       !.well = {}, !.sick = {}, !.left = l]
            BY <1>0, <5>1
          <5> QED BY <5>2, <5>3 DEF Held
        <4> QED BY <2>2, <4>1 DEF RunInv
      <3>3. CASE Reports(p)
        BY <2>2, <3>3 DEF Reports, RunInv
      <3>4. CASE Buckets(p)
        BY <1>0, <3>4 DEF Buckets, Goto
      <3> QED BY <1>4, <3>1, <3>2, <3>3, <3>4
    <2> QED BY <2>1, <2>2, <2>3, <2>4 DEF RunInv
  <1>5. ASSUME NEW p \in Refreshers, Stores(p) PROVE RunInv'
    <2>1. /\ rpc[p] = "store" /\ rpc' = [rpc EXCEPT ![p] = "idle"]
          /\ my' = [my EXCEPT ![p] = Blank] /\ life' = life
          /\ registered' = registered \ {p} /\ inFlight' = inFlight \ {p}
      BY <1>5 DEF Stores, Goto
    <2>2. registered = {p} /\ registered' = {} /\ inFlight' = {}
      BY <2>1 DEF RunInv
    <2>3. ~Blank.counts
      BY DEF Blank
    <2>4. \A q \in Refreshers : q \in registered' <=> rpc'[q] # "idle"
      BY <1>0, <2>1, <2>2 DEF RunInv
    <2>5. \A q \in Refreshers : rpc'[q] # "store" => ~my'[q].counts
      BY <1>0, <2>1, <2>3 DEF RunInv
    <2> QED BY <2>2, <2>4, <2>5 DEF RunInv
  <1>6. CASE PruneEnds
    <2>1. UNCHANGED <<latch, rpc, shutdown>>
      BY <1>6 DEF PruneEnds
    <2>2. \A p \in Refreshers : my'[p].counts = my[p].counts
      <3>1. CASE Invalidates
        <4> SUFFICES ASSUME NEW p \in Refreshers PROVE my'[p].counts = my[p].counts
          OBVIOUS
        <4>1. my'[p] = my[p] \/ my'[p] = [my[p] EXCEPT !.late = TRUE]
          BY <3>1, InvalidatesTyped
        <4> QED BY <1>0, <4>1 DEF Held
      <3> QED BY <1>6, <3>1 DEF PruneEnds
    <2> QED BY <2>1, <2>2 DEF RunInv, latch, shutdown
  <1>7. ASSUME NEW c \in Copies, Appears(c) PROVE RunInv'
    <2>1. \A p \in Refreshers : my'[p].counts = my[p].counts
      <3> SUFFICES ASSUME NEW p \in Refreshers PROVE my'[p].counts = my[p].counts
        OBVIOUS
      <3>1. my'[p] = my[p] \/ my'[p] = [my[p] EXCEPT !.fresh = my[p].fresh \cup {c}]
        BY <1>7, AppearsMy
      <3> QED BY <1>0, <3>1 DEF Held
    <2> QED BY <1>7, <2>1 DEF Appears, RunInv, latch, shutdown
  <1>8. CASE Stop \/ DrainReturns
    BY <1>8 DEF Stop, DrainReturns, RunInv, latch, jobs
  <1>9. CASE DrainBegins
    <2>1. inFlight' = registered
      BY <1>9 DEF DrainBegins, RunInv, TypeInv
    <2> QED BY <1>9, <2>1 DEF DrainBegins, RunInv, latch, jobs
  <1>10. ASSUME NEW k \in Conns, StatusTurns(k) PROVE RunInv'
    BY <1>10, TurnsMy DEF StatusTurns, RunInv, latch, shutdown
  <1> QED BY <1>1, <1>2, <1>3, <1>4, <1>5, <1>6, <1>7, <1>8, <1>9, <1>10 DEF Next, Refresh

LEMMA InitRun == Init => RunInv
  BY DEF Init, RunInv, Blank

\* Once the drain has returned, every refresh that was running when it began is done.
THEOREM DrainSafe == Spec => []DrainIsComplete
  <1>1. RunInv => DrainIsComplete
    BY DEF RunInv, DrainIsComplete
  <1> QED BY <1>1, InitTyped, NextTyped, InitRun, NextRun, PTL DEF Spec

----------------------------------------------------------------------------
(* What the sweeps find.                                                   *)

\* No prune has deleted anything since it began.
Clean == prune # "pruning" \/ ~hit

\* What a sweep that is not late has found, or may find, was not pruned; and a complete
\* sweep has found, or will find, all that did not appear since it began, but for what it
\* left out silently.
SweepInv ==
    /\ platform \cap pruned = {}
    /\ Clean =>
         /\ report \cap pruned = {}
         /\ \A p \in Refreshers :
              /\ rpc[p] = "sweep" /\ ~my[p].late => my[p].start \cap pruned = {}
              /\ rpc[p] = "report" /\ ~my[p].late => my[p].rows \cap pruned = {}
    /\ \A p \in Refreshers :
         /\ rpc[p] = "sweep" => platform \ my[p].fresh \subseteq my[p].start
         /\ \/ rpc[p] = "report" /\ ~my[p].partial
            \/ rpc[p] = "bucket"
            \/ rpc[p] = "store" /\ my[p].counts
            => platform \ (my[p].fresh \cup my[p].left) \subseteq my[p].rows
    /\ known => platform \ (uncounted \cup omitted) \subseteq count

\* A step that leaves all this alone, and no sweep further than it was.
LEMMA SweepKept ==
    ASSUME SweepInv, UNCHANGED <<platform, pruned, counts, page, my>>, Clean' => Clean,
           \A p \in Refreshers : rpc'[p] \in {"sweep", "report", "bucket", "store"} => rpc'[p] = rpc[p]
    PROVE  SweepInv'
  BY DEF SweepInv, counts, page

LEMMA NextSweep == TypeInv /\ RunInv /\ SweepInv /\ [Next]_vars => SweepInv'
  <1> SUFFICES ASSUME TypeInv, RunInv, SweepInv, [Next]_vars PROVE SweepInv'
    OBVIOUS
  <1>0. my \in [Refreshers -> Held] /\ rpc \in [Refreshers -> RPCs]
    BY DEF TypeInv
  <1>1. ASSUME NEW p \in Refreshers, Begins(p)
        PROVE  /\ UNCHANGED my
               /\ \A q \in Refreshers :
                    rpc'[q] \in {"sweep", "report", "bucket", "store"} => rpc'[q] = rpc[q]
    BY <1>0, <1>1 DEF Begins, Goto
  <1>2. CASE Tick \/ Rescans \/ PageTriggers
    <2>1. PICK p \in Refreshers : Begins(p)
      BY <1>2 DEF Tick, Rescans, PageTriggers, LazyBegins, Refreshers
    <2>2. UNCHANGED <<world, counts, page, requests>>
      BY <1>2 DEF Tick, Rescans, PageTriggers
    <2> QED BY <1>1, <2>1, <2>2, SweepKept DEF world, requests, Clean
  <1>3. CASE PruneTriggers
    <2>1. UNCHANGED <<platform, pruned, counts, page>> /\ Clean
      BY <1>3 DEF PruneTriggers, world, Clean
    <2>2. CASE LazyBegins
      <3>1. "lazy" \in Refreshers /\ Begins("lazy")
        BY <2>2 DEF LazyBegins, Refreshers
      <3> QED BY <1>1, <2>1, <3>1, SweepKept
    <2>3. CASE UNCHANGED <<latch, jobs>>
      BY <2>1, <2>3, SweepKept DEF jobs
    <2> QED BY <1>3, <2>2, <2>3 DEF PruneTriggers
  <1>4. CASE Cools \/ PruneBegins \/ Stop \/ DrainBegins \/ DrainReturns \/ UNCHANGED vars
    <2>1. UNCHANGED <<platform, pruned, counts, page, my, rpc>>
      BY <1>4 DEF Cools, PruneBegins, Stop, DrainBegins, DrainReturns, vars, world, counts,
                  page, jobs, requests
    <2>2. Clean' => Clean
      BY <1>4 DEF Cools, PruneBegins, Stop, DrainBegins, DrainReturns, vars, requests, Clean
    <2> QED BY <2>1, <2>2, SweepKept
  <1>5. ASSUME NEW p \in Refreshers, Refresh(p)
        PROVE  /\ UNCHANGED <<platform, pruned>> /\ (Clean' <=> Clean)
               /\ \A q \in Refreshers \ {p} : rpc'[q] = rpc[q] /\ my'[q] = my[q]
    <2>1. UNCHANGED <<platform, pruned, prune, hit>>
      BY <1>5 DEF Refresh, LibraryEnds, SweepEnds, SweepFails, Reports, Buckets, Stores, world, requests
    <2>2. \A q \in Refreshers \ {p} : rpc'[q] = rpc[q] /\ my'[q] = my[q]
      BY <1>0, <1>5 DEF Refresh, LibraryEnds, SweepEnds, SweepFails, Reports, Buckets, Stores, Goto
    <2> QED BY <2>1, <2>2 DEF Clean
  <1>6. ASSUME NEW p \in Refreshers, LibraryEnds(p) PROVE SweepInv'
    <2>1. rpc'[p] = "sweep" /\ my'[p].start = platform /\ UNCHANGED <<counts, page>>
      BY <1>0, <1>6 DEF LibraryEnds, Goto, Held
    <2>2. Refresh(p)
      BY <1>6 DEF Refresh
    <2> QED BY <1>5, <2>1, <2>2 DEF SweepInv, counts, page
  <1>7. ASSUME NEW p \in Refreshers, SweepEnds(p) PROVE SweepInv'
    <2>1. PICK rows \in SUBSET Copies, b \in BOOLEAN, l \in SUBSET Copies :
             /\ my' = [my EXCEPT ![p] = [my[p] EXCEPT !.rows = rows, !.partial = b, !.start = {},
                                                      !.well = {}, !.sick = {}, !.left = l]]
             /\ rows \subseteq my[p].start \cup platform
             /\ ~b => (my[p].start \cap platform) \ l \subseteq rows
      BY <1>7, SweepEndsMy
    <2>a. rpc[p] = "sweep" /\ rpc'[p] = "report"
      BY <1>0, <1>7 DEF SweepEnds, Goto
    <2>b. my[p] \in Held
      BY <1>0
    <2>c. my'[p] = [my[p] EXCEPT !.rows = rows, !.partial = b, !.start = {},
                                 !.well = {}, !.sick = {}, !.left = l]
      BY <1>0, <2>1
    <2>2. /\ rpc[p] = "sweep" /\ rpc'[p] = "report"
          /\ my'[p].rows = rows /\ my'[p].partial = b /\ my'[p].left = l
          /\ my'[p].late = my[p].late /\ my'[p].fresh = my[p].fresh
      BY <2>a, <2>b, <2>c DEF Held
    <2>3. UNCHANGED <<counts, page>> /\ Refresh(p)
      BY <1>7 DEF SweepEnds, Refresh
    <2>4. Clean /\ ~my[p].late => rows \cap pruned = {}
      BY <2>1, <2>2 DEF SweepInv
    <2>5. ~b => platform \ (my[p].fresh \cup l) \subseteq rows
      BY <2>1, <2>2 DEF SweepInv
    <2> QED BY <1>5, <2>2, <2>3, <2>4, <2>5 DEF SweepInv, counts, page
  <1>8. ASSUME NEW p \in Refreshers, SweepFails(p) PROVE SweepInv'
    <2>1. /\ rpc[p] = "sweep" /\ rpc'[p] = "store" /\ my'[p].counts = my[p].counts
          /\ UNCHANGED <<counts, page>> /\ Refresh(p)
      BY <1>0, <1>8 DEF SweepFails, Goto, Held, Refresh
    <2>2. ~my'[p].counts
      BY <2>1 DEF RunInv
    <2> QED BY <1>5, <2>1, <2>2 DEF SweepInv, counts, page
  <1>9. ASSUME NEW p \in Refreshers, Reports(p) PROVE SweepInv'
    <2>1. /\ rpc[p] = "report" /\ rpc'[p] = IF my[p].partial THEN "store" ELSE "bucket"
          /\ my' = my /\ ~my[p].counts
          /\ UNCHANGED counts /\ Refresh(p)
      BY <1>0, <1>9 DEF Reports, Goto, Refresh, RunInv
    <2>2. report' = report \/ (~my[p].late /\ report' = my[p].rows)
      BY <1>9 DEF Reports, page
    <2>3. Clean => report' \cap pruned = {}
      BY <2>1, <2>2 DEF SweepInv
    <2> QED BY <1>5, <2>1, <2>3 DEF SweepInv, counts
  <1>10. ASSUME NEW p \in Refreshers, Stores(p) PROVE SweepInv'
    <2>1. /\ rpc[p] = "store" /\ rpc'[p] = "idle" /\ UNCHANGED page /\ Refresh(p)
          /\ my[p].counts \in BOOLEAN
      BY <1>0, <1>10 DEF Stores, Goto, Refresh, Held
    <2>2. CASE my[p].counts
      <3>1. count' = my[p].rows /\ uncounted' = my[p].fresh /\ omitted' = my[p].left
        BY <1>10, <2>2 DEF Stores
      <3> QED BY <1>5, <2>1, <2>2, <3>1 DEF SweepInv, page
    <2>3. CASE ~my[p].counts
      <3>1. /\ count' = count /\ uncounted' = uncounted /\ omitted' = omitted
            /\ (known' => known)
        BY <1>10, <2>3 DEF Stores
      <3> QED BY <1>5, <2>1, <3>1 DEF SweepInv, page
    <2> QED BY <2>1, <2>2, <2>3
  <1>11. CASE PruneEnds
    <2>1. UNCHANGED <<platform, pruned, counts, rpc>>
      BY <1>11 DEF PruneEnds, world
    <2>2. CASE Invalidates
      <3>1. report' = {}
        BY <2>2 DEF Invalidates
      <3>2. ASSUME NEW p \in Refreshers
            PROVE  /\ my'[p].fresh = my[p].fresh /\ my'[p].start = my[p].start
                   /\ my'[p].rows = my[p].rows /\ my'[p].partial = my[p].partial
                   /\ my'[p].counts = my[p].counts /\ my'[p].left = my[p].left
                   /\ rpc[p] \in {"sweep", "report"} => my'[p].late
        <4>1. my'[p] = IF rpc[p] \in {"sweep", "report"}
                       THEN [my[p] EXCEPT !.late = TRUE] ELSE my[p]
          BY <2>2, InvalidatesTyped
        <4> QED BY <1>0, <4>1 DEF Held
      <3> QED BY <2>1, <3>1, <3>2 DEF SweepInv, counts
    <2>3. CASE ~hit /\ UNCHANGED <<page, my>>
      BY <2>1, <2>3, SweepKept DEF Clean
    <2> QED BY <1>11, <2>2, <2>3 DEF PruneEnds
  <1>12. ASSUME NEW c \in Copies, Deletes(c) PROVE SweepInv'
    <2>1. UNCHANGED <<counts, page, my, rpc>> /\ ~Clean'
      BY <1>12 DEF Deletes, jobs, Clean
    <2>2. platform' \subseteq platform /\ platform' \cap pruned' = {}
      BY <1>12 DEF Deletes, SweepInv
    <2> QED BY <2>1, <2>2 DEF SweepInv, counts, page
  <1>13. ASSUME NEW c \in Copies, Appears(c) PROVE SweepInv'
    <2>1. /\ platform' = platform \cup {c} /\ pruned' = pruned \ {c}
          /\ uncounted' = uncounted \cup {c} /\ (Clean' <=> Clean)
          /\ UNCHANGED <<count, known, omitted, page, rpc>>
      BY <1>13 DEF Appears, Clean
    <2>2. ASSUME NEW p \in Refreshers
          PROVE  /\ my'[p].start = my[p].start /\ my'[p].rows = my[p].rows
                 /\ my'[p].partial = my[p].partial /\ my'[p].counts = my[p].counts
                 /\ my'[p].late = my[p].late /\ my'[p].left = my[p].left
                 /\ rpc[p] \in {"sweep", "report", "bucket", "store"} =>
                      my'[p].fresh = my[p].fresh \cup {c}
      <3>1. my'[p] = IF rpc[p] \in {"sweep", "report", "bucket", "store"}
                     THEN [my[p] EXCEPT !.fresh = my[p].fresh \cup {c}] ELSE my[p]
        BY <1>13, AppearsMy
      <3> QED BY <1>0, <3>1 DEF Held
    <2> QED BY <2>1, <2>2 DEF SweepInv, page
  <1>14. ASSUME NEW p \in Refreshers, Buckets(p) PROVE SweepInv'
    <2>1. PICK l \in SUBSET Copies :
             my' = [my EXCEPT ![p] = [my[p] EXCEPT !.rows = my[p].rows \ l,
                                                   !.left = my[p].left \cup l, !.counts = TRUE]]
      BY <1>14, BucketsMy
    <2>2. /\ my'[p].rows = my[p].rows \ l /\ my'[p].left = my[p].left \cup l
          /\ my'[p].fresh = my[p].fresh
      BY <1>0, <2>1 DEF Held
    <2>3. /\ rpc[p] = "bucket" /\ rpc'[p] = "store"
          /\ UNCHANGED <<counts, page>> /\ Refresh(p)
      BY <1>0, <1>14 DEF Buckets, Goto, Refresh
    <2> QED BY <1>5, <2>2, <2>3 DEF SweepInv, counts, page
  <1>15. ASSUME NEW k \in Conns, StatusTurns(k) PROVE SweepInv'
    <2>1. UNCHANGED <<platform, pruned, counts, page, rpc>> /\ (Clean' <=> Clean)
      BY <1>15 DEF StatusTurns, requests, Clean
    <2> QED BY <1>15, <2>1, TurnsMy DEF SweepInv, counts, page
  <1> QED BY <1>2, <1>3, <1>4, <1>6, <1>7, <1>8, <1>9, <1>10, <1>11, <1>12, <1>13, <1>14, <1>15
          DEF Next, Refresh

LEMMA InitSweep == Init => SweepInv
  BY DEF Init, SweepInv, Blank, Clean

\* Once a prune has ended, the report never lists a copy that it deleted.
THEOREM PrunedSafe == Spec => []NoPrunedRows
  <1>1. SweepInv => NoPrunedRows
    BY DEF SweepInv, NoPrunedRows, Clean
  <1> QED BY <1>1, InitTyped, NextTyped, InitRun, NextRun, InitSweep, NextSweep, PTL DEF Spec

\* The count leaves out no copy but those that appeared after its sweep had begun and those
\* on connections not in use, of unknown items, or whose connection was not found.
THEOREM CountsSafe == Spec => []CountsNeverLow
  <1>1. SweepInv => CountsNeverLow
    BY DEF SweepInv, CountsNeverLow
  <1> QED BY <1>1, InitTyped, NextTyped, InitRun, NextRun, InitSweep, NextSweep, PTL DEF Spec

=============================================================================
