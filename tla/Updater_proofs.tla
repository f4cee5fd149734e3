--------------------------- MODULE Updater_proofs ---------------------------
(***************************************************************************)
(* Proofs about Updater, for every set of requests, every channel and      *)
(* every set of faults: what a check may store, what an apply may install, *)
(* and that the scheduler is woken.                                        *)
(***************************************************************************)
EXTENDS Updater, FiniteSetTheorems, WellFoundedInduction, TLAPS

USE OffersKnown, ModesKnown, BoundsKnown, ProcsApart

----------------------------------------------------------------------------
(* The latest release.                                                     *)

\* A non-empty set of tags has a greatest one: one above which there are the fewest.
LEMMA Greatest ==
    ASSUME NEW S \in SUBSET Tags, S # {}
    PROVE  \E t \in S : \A u \in S : u <= t
  <1> DEFINE above(t) == {u \in S : u > t}
  <1> DEFINE T == {above(t) : t \in S}
  <1>1. IsFiniteSet(Tags)
    BY FS_Interval DEF Tags
  <1>2. T \subseteq FiniteSubsetsOf(Tags)
    <2> SUFFICES T \subseteq SUBSET Tags
      BY <1>1, FS_FiniteSubsetsOfFinite
    <2> QED OBVIOUS
  <1>3. T # {}
    <2>1. PICK t \in S : TRUE
      OBVIOUS
    <2>2. above(t) \in T
      OBVIOUS
    <2> QED BY <2>2
  <1>4. IsWellFoundedOn(StrictSubsetOrdering(Tags), FiniteSubsetsOf(Tags))
    BY FS_StrictSubsetOrderingWellFounded
  <1>5. PICK X \in T : \A Y \in T : ~(<<Y, X>> \in StrictSubsetOrdering(Tags))
    <2> HIDE DEF T
    <2> QED BY <1>2, <1>3, <1>4, WFMin
  <1>6. PICK t \in S : X = above(t)
    OBVIOUS
  <1>7. ASSUME NEW u \in S, u > t PROVE FALSE
    <2>1. /\ above(u) \in T /\ above(u) \in SUBSET Tags /\ X \in SUBSET Tags
      BY <1>6
    <2>2. above(u) \subseteq X
      <3> SUFFICES ASSUME NEW x \in S, x > u PROVE x > t
        BY <1>6
      <3>1. x \in Int /\ u \in Int /\ t \in Int
        BY DEF Tags
      <3> QED BY <1>7, <3>1
    <2>3. u \in X /\ u \notin above(u)
      BY <1>6, <1>7 DEF Tags
    <2>4. <<above(u), X>> \in StrictSubsetOrdering(Tags)
      <3> HIDE DEF above
      <3> QED BY <2>1, <2>2, <2>3 DEF StrictSubsetOrdering
    <2> QED BY <1>5, <2>1, <2>4
  <1>8. \A u \in S : u <= t
    BY <1>7 DEF Tags
  <1> QED BY <1>8

\* pickLatest answers none, or a published tag of the channel.
LEMMA PickLatestTag ==
    ASSUME NEW ch \in Channels, published \subseteq Tags
    PROVE  /\ PickLatest(ch) \in MaybeTag
           /\ PickLatest(ch) # NoTag => PickLatest(ch) \in Offers[ch]
  <1> DEFINE there == published \cap Offers[ch]
  <1>1. CASE there = {}
    BY <1>1 DEF PickLatest, MaybeTag, NoTag
  <1>2. CASE there # {}
    <2>1. \E t \in there : \A u \in there : u <= t
      BY <1>2, Greatest
    <2>2. PickLatest(ch) = CHOOSE t \in there : \A u \in there : u <= t
      BY <1>2 DEF PickLatest
    <2>3. PickLatest(ch) \in there
      <3> HIDE DEF there
      <3> QED BY <2>1, <2>2
    <2> QED BY <2>3 DEF Tags, MaybeTag
  <1> QED BY <1>1, <1>2

----------------------------------------------------------------------------
(* Types.                                                                  *)

LEMMA BlankJob == Channels # {} => Blank \in Jobs
  BY DEF Blank, Jobs, AllModes, MaybeTag, NoTag

LEMMA BlankIs ==
    Blank.tag = NoTag /\ Blank.pin = NoTag /\ Blank.gen = 0 /\ Blank.cadence = 0
  BY DEF Blank

LEMMA InitTyped == Init => TypeOK
  <1> SUFFICES ASSUME Init PROVE TypeOK
    OBVIOUS
  <1>1. my \in [Procs -> Jobs] /\ pc \in [Procs -> Pcs]
    BY BlankJob DEF Init, Pcs
  <1>2. barred \in [Deciders -> SUBSET Tags] /\ late \subseteq Runners
    BY DEF Init
  <1>3. /\ channel \in Channels /\ mode \in AllModes /\ cadence \in Nat
        /\ skipped \subseteq Tags /\ marker \in MaybeTag
        /\ published \subseteq Tags /\ version \in MaybeTag /\ binary \in MaybeTag
        /\ installed \subseteq MaybeTag
    BY DEF Init, MaybeTag, NoTag
  <1>4. /\ gen \in Nat /\ cache \in MaybeTag /\ pending \in MaybeTag /\ interval \in Nat \cup {Default}
    BY DEF Init, MaybeTag, NoTag, IntervalRead
  <1>5. running \in BOOLEAN /\ restartRequired \in BOOLEAN /\ pulse \in BOOLEAN
    BY DEF Init
  <1> QED BY <1>1, <1>2, <1>3, <1>4, <1>5 DEF TypeOK

LEMMA Members ==
    /\ Sched \in Deciders /\ AutoRun \in Deciders /\ AutoRun \in Runners /\ Sched \in Lookers
    /\ Setters \subseteq Procs /\ Lookers \subseteq Procs /\ Runners \subseteq Procs
    /\ \A p \in Appliers \cup {Sched} : RunnerOf(p) \in Runners /\ p \in Procs
  <1>1. Sched \in Deciders /\ AutoRun \in Deciders /\ AutoRun \in Runners /\ Sched \in Lookers
    BY DEF Deciders, Runners, Lookers
  <1>2. Setters \subseteq Procs /\ Lookers \subseteq Procs /\ Runners \subseteq Procs
    BY DEF Procs
  <1>3. \A p \in Appliers \cup {Sched} : RunnerOf(p) \in Runners
    BY DEF RunnerOf, Runners
  <1>4. \A p \in Appliers \cup {Sched} : p \in Procs
    BY <1>1, <1>2 DEF Runners
  <1> QED BY <1>1, <1>2, <1>3, <1>4

\* The skip lists of the automatic applies.
LEMMA BarredTyped ==
    /\ [p \in Deciders |-> {}] \in [Deciders -> SUBSET Tags]
    /\ \A b \in [Deciders -> SUBSET Tags], p \in Deciders, ts \in SUBSET Tags :
          [b EXCEPT ![p] = ts] \in [Deciders -> SUBSET Tags]
  OBVIOUS

\* A step of p's that leaves the rest alone.
LEMMA MoveTyped ==
    ASSUME TypeOK, NEW p \in Procs, NEW x \in Jobs, NEW where \in Pcs,
           my' = [my EXCEPT ![p] = x], Goto(p, where)
    PROVE  my' \in [Procs -> Jobs] /\ pc' \in [Procs -> Pcs]
  BY DEF TypeOK, Goto

LEMMA SetTyped ==
    ASSUME TypeOK, NEW s \in Setters, SetRead(s) \/ SetCommit(s) \/ SetFails(s) \/ SetAnnounce(s)
    PROVE  TypeOK'
  <1>0. s \in Procs /\ Blank \in Jobs /\ my[s] \in Jobs
    BY BlankJob DEF Procs, TypeOK
  <1>1. CASE SetRead(s)
    <2>1. PICK ch \in Channels, m \in Modes, changed \in BOOLEAN :
             my' = [my EXCEPT ![s] = [Blank EXCEPT !.channel = ch, !.mode = m,
                                                   !.changed = changed]]
      BY <1>1 DEF SetRead
    <2>2. [Blank EXCEPT !.channel = ch, !.mode = m, !.changed = changed] \in Jobs
      BY <1>0 DEF Jobs
    <2>3. my' \in [Procs -> Jobs] /\ pc' \in [Procs -> Pcs]
      BY <1>0, <1>1, <2>1, <2>2, MoveTyped DEF SetRead, Pcs
    <2> QED BY <1>1, <2>3 DEF SetRead, TypeOK, settings, memory, world, wakeup, history
  <1>2. CASE SetCommit(s)
    <2>1. my[s].channel \in Channels /\ my[s].mode \in AllModes
      BY <1>0 DEF Jobs
    <2>2. pc' \in [Procs -> Pcs]
      BY <1>0, <1>2 DEF SetCommit, Goto, Pcs, TypeOK
    <2> QED BY <1>2, <2>1, <2>2 DEF SetCommit, TypeOK, memory, world, wakeup, history
  <1>3. CASE SetFails(s)
    <2>1. my' \in [Procs -> Jobs] /\ pc' \in [Procs -> Pcs]
      BY <1>0, <1>3, MoveTyped DEF SetFails, Ends, Keeps, Pcs
    <2> QED BY <1>3, <2>1 DEF SetFails, TypeOK, settings, memory, world, wakeup, history
  <1>4. CASE SetAnnounce(s)
    <2>1. my' \in [Procs -> Jobs] /\ pc' \in [Procs -> Pcs]
      BY <1>0, <1>4, MoveTyped DEF SetAnnounce, Ends, Keeps, Pcs
    <2>2. cache' \in MaybeTag /\ gen' \in Nat
      BY <1>4 DEF SetAnnounce, TypeOK, MaybeTag, NoTag
    <2> QED BY <1>4, <2>1, <2>2 DEF SetAnnounce, TypeOK, settings, world, history
  <1> QED BY <1>1, <1>2, <1>3, <1>4

LEMMA FailsTyped ==
    ASSUME TypeOK, NEW c \in Lookers, CheckFails(c)
    PROVE  my' \in [Procs -> Jobs] /\ pc' \in [Procs -> Pcs]
  <1>0. c \in Procs /\ Blank \in Jobs /\ my[c] \in Jobs
    BY BlankJob DEF Procs, TypeOK
  <1>1. CASE Ends(c)
    BY <1>0, <1>1, MoveTyped DEF Ends, Keeps, Pcs
  <1>2. CASE Goto(c, "rest") /\ UNCHANGED my
    BY <1>0, <1>2 DEF Goto, TypeOK, Pcs
  <1> QED BY <1>1, <1>2 DEF CheckFails

LEMMA FailsGo ==
    ASSUME TypeOK, NEW c \in Lookers, CheckFails(c)
    PROVE  pc'[c] \in {"idle", "rest"} /\ (my'[c] = my[c] \/ my'[c] = Blank)
  <1>0. c \in Procs
    BY DEF Procs
  <1>1. CASE Ends(c)
    BY <1>0, <1>1 DEF Ends, Goto, Keeps, TypeOK
  <1>2. CASE Goto(c, "rest") /\ UNCHANGED my
    BY <1>0, <1>2 DEF Goto, TypeOK
  <1> QED BY <1>1, <1>2 DEF CheckFails

LEMMA CheckTyped ==
    ASSUME TypeOK, NEW c \in Lookers, Check(c)
    PROVE  TypeOK'
  <1>0. c \in Procs /\ Blank \in Jobs /\ my[c] \in Jobs
    BY BlankJob DEF Procs, TypeOK
  <1>1. CASE CheckBegins(c)
    <2>1. [my[c] EXCEPT !.gen = gen] \in Jobs
      BY <1>0 DEF Jobs, TypeOK
    <2>2. my' \in [Procs -> Jobs] /\ pc' \in [Procs -> Pcs]
      BY <1>0, <1>1, <2>1, MoveTyped DEF CheckBegins, Keeps, Pcs
    <2> QED BY <1>1, <2>2 DEF CheckBegins, TypeOK, settings, memory, world, wakeup, history
  <1>2. CASE CheckReads(c)
    <2>1. [my[c] EXCEPT !.channel = channel] \in Jobs
      BY <1>0 DEF Jobs, TypeOK
    <2>2. my' \in [Procs -> Jobs] /\ pc' \in [Procs -> Pcs]
      <3>1. CASE Keeps(c, [my[c] EXCEPT !.channel = channel]) /\ Goto(c, "fetch")
        BY <1>0, <2>1, <3>1, MoveTyped DEF Keeps, Pcs
      <3>2. CASE CheckFails(c)
        BY <3>2, FailsTyped
      <3> QED BY <1>2, <3>1, <3>2 DEF CheckReads
    <2> QED BY <1>2, <2>2 DEF CheckReads, TypeOK, settings, memory, world, wakeup, history
  <1>3. CASE CheckFetches(c)
    <2> DEFINE x == [Blank EXCEPT !.tag = PickLatest(my[c].channel), !.gen = my[c].gen,
                                  !.cadence = my[c].cadence]
    <2>1. PickLatest(my[c].channel) \in MaybeTag
      BY <1>0, PickLatestTag DEF Jobs, TypeOK
    <2>2. x \in Jobs
      BY <1>0, <2>1 DEF Jobs
    <2>3. my' \in [Procs -> Jobs] /\ pc' \in [Procs -> Pcs]
      <3>1. CASE Keeps(c, x) /\ Goto(c, "store")
        <4> HIDE DEF x
        <4> QED BY <1>0, <2>2, <3>1, MoveTyped DEF Keeps, Pcs
      <3>2. CASE CheckFails(c)
        BY <3>2, FailsTyped
      <3> QED BY <1>3, <3>1, <3>2 DEF CheckFetches
    <2> QED BY <1>3, <2>3 DEF CheckFetches, TypeOK, settings, memory, world, wakeup, history
  <1>4. CASE CheckStores(c)
    <2>1. my[c].tag \in MaybeTag /\ [my[c] EXCEPT !.gen = 0] \in Jobs
      BY <1>0 DEF Jobs
    <2>2. my' \in [Procs -> Jobs] /\ pc' \in [Procs -> Pcs]
      BY <1>0, <1>4, <2>1, MoveTyped DEF CheckStores, Ends, Keeps, Pcs
    <2>3. cache' \in MaybeTag
      BY <1>4, <2>1 DEF CheckStores, TypeOK
    <2> QED BY <1>4, <2>2, <2>3 DEF CheckStores, TypeOK, settings, world, wakeup, history
  <1> QED BY <1>1, <1>2, <1>3, <1>4 DEF Check

\* What the gate decides: nothing, or the release that is newer and not skipped.
LEMMA GateChooses ==
    ASSUME TypeOK, Gate, my[Sched].tag \in MaybeTag
    PROVE  \/ /\ my[Sched].tag \notin skipped /\ my[Sched].tag # NoTag
              /\ Keeps(Sched, [Blank EXCEPT !.pin = my[Sched].tag, !.cadence = my[Sched].cadence])
              /\ barred' = [barred EXCEPT ![Sched] = skipped]
              /\ Goto(Sched, "guard")
              /\ my[Sched].tag \in MaybeTag
           \/ /\ Keeps(Sched, [Blank EXCEPT !.pin = NoTag, !.cadence = my[Sched].cadence])
              /\ barred' = [barred EXCEPT ![Sched] = {}]
              /\ Goto(Sched, "rest")
              /\ NoTag \in MaybeTag
  <1> DEFINE t == my[Sched].tag
  <1>1. PICK go \in {mode = "update" /\ Newer(t) /\ t \notin skipped} \cup
                     (IF "settings" \in Faults THEN {FALSE} ELSE {}) :
             /\ Keeps(Sched, [Blank EXCEPT !.pin = IF go THEN t ELSE NoTag,
                                           !.cadence = my[Sched].cadence])
             /\ barred' = [barred EXCEPT ![Sched] = IF go THEN skipped ELSE {}]
             /\ Goto(Sched, IF go THEN "guard" ELSE "rest")
    BY DEF Gate
  <1>2. NoTag \in MaybeTag
    BY DEF MaybeTag, NoTag
  <1>3. CASE go
    <2>1. mode = "update" /\ Newer(t) /\ t \notin skipped
      BY Zenon, <1>1, <1>3
    <2> QED BY <1>1, <1>3, <2>1 DEF Newer
  <1>4. CASE ~go
    BY <1>1, <1>2, <1>4
  <1> QED BY <1>3, <1>4

LEMMA SchedTyped ==
    ASSUME TypeOK, Wake \/ Tick \/ Gate \/ Rest
    PROVE  TypeOK'
  <1>0. /\ Sched \in Procs /\ Blank \in Jobs /\ my[Sched] \in Jobs /\ Sched \in Lookers
        /\ my[Sched].cadence \in Nat /\ my[Sched].tag \in MaybeTag
    BY BlankJob DEF Procs, Lookers, TypeOK, Jobs
  <1>1. CASE Wake
    BY <1>1 DEF Wake, IntervalRead, TypeOK, settings, memory, world, history
  <1>2. CASE Tick
    <2>1. [Blank EXCEPT !.cadence = cadence] \in Jobs
      BY <1>0 DEF Jobs, TypeOK
    <2>2. my' \in [Procs -> Jobs] /\ pc' \in [Procs -> Pcs]
      BY <1>0, <1>2, <2>1, MoveTyped DEF Tick, Keeps, Pcs
    <2> QED BY <1>2, <2>2 DEF Tick, TypeOK, settings, memory, world, wakeup, history
  <1>3. CASE Gate
    <2>1. PICK t \in MaybeTag, where \in {"guard", "rest"} :
             /\ Keeps(Sched, [Blank EXCEPT !.pin = t, !.cadence = my[Sched].cadence])
             /\ Goto(Sched, where)
      BY <1>0, <1>3, GateChooses
    <2>2. [Blank EXCEPT !.pin = t, !.cadence = my[Sched].cadence] \in Jobs
      BY <1>0 DEF Jobs
    <2>3. my' \in [Procs -> Jobs] /\ pc' \in [Procs -> Pcs]
      BY <1>0, <2>1, <2>2, MoveTyped DEF Keeps, Pcs
    <2>4. barred' \in [Deciders -> SUBSET Tags]
      BY <1>0, <1>3, BarredTyped, GateChooses, Members DEF TypeOK
    <2> QED BY <1>3, <2>3, <2>4 DEF Gate, TypeOK, settings, memory, world, wakeup
  <1>4. CASE Rest
    <2>1. my' \in [Procs -> Jobs] /\ pc' \in [Procs -> Pcs]
      BY <1>0, <1>4, MoveTyped DEF Rest, Ends, Keeps, Pcs
    <2>2. barred' \in [Deciders -> SUBSET Tags]
      BY <1>4, BarredTyped DEF Rest, TypeOK, Deciders
    <2> QED BY <1>0, <1>4, <2>1, <2>2 DEF Rest, TypeOK, settings, memory, world
  <1> QED BY <1>1, <1>2, <1>3, <1>4

LEMMA ApplyTyped ==
    ASSUME TypeOK, NEW p \in Appliers \cup {Sched}, Request(p) \/ Guard(p) \/ Claim(p)
    PROVE  TypeOK'
  <1>0. /\ p \in Procs /\ RunnerOf(p) \in Procs /\ RunnerOf(p) \in Runners
        /\ Sched \in Procs /\ AutoRun \in Procs
        /\ Blank \in Jobs /\ my[p] \in Jobs /\ my[p].pin \in MaybeTag
    <2>1. /\ p \in Procs /\ RunnerOf(p) \in Procs /\ RunnerOf(p) \in Runners
          /\ Sched \in Procs /\ AutoRun \in Procs
      BY Members
    <2>2. Blank \in Jobs /\ my[p] \in Jobs
      BY <2>1, BlankJob DEF TypeOK
    <2> QED BY <2>1, <2>2 DEF Jobs
  <1>1. CASE Request(p)
    <2>1. pc' \in [Procs -> Pcs]
      BY <1>0, <1>1 DEF Request, Goto, TypeOK, Pcs
    <2> QED BY <1>1, <2>1 DEF Request, TypeOK, settings, memory, world, wakeup, history
  <1>2. Refused(p) => my' \in [Procs -> Jobs] /\ pc' \in [Procs -> Pcs]
    <2>1. CASE p = Sched
      BY <1>0, <2>1 DEF Refused, Goto, TypeOK, Pcs
    <2>2. CASE p # Sched
      BY <1>0, <2>2, MoveTyped DEF Refused, Ends, Keeps, Pcs
    <2> QED BY <2>1, <2>2
  <1>3. CASE Guard(p)
    <2>1. my' \in [Procs -> Jobs] /\ pc' \in [Procs -> Pcs]
      BY <1>0, <1>2, <1>3 DEF Guard, Goto, TypeOK, Pcs
    <2>2. late' \subseteq Runners
      BY <1>3 DEF Guard, TypeOK
    <2> QED BY <1>3, <2>1, <2>2 DEF Guard, TypeOK, settings, memory, world, wakeup
  <1>4. CASE Claim(p)
    <2>1. CASE Launched(p)
      <3>1. [Blank EXCEPT !.pin = my[p].pin] \in Jobs
        BY <1>0 DEF Jobs
      <3>2. my' \in [Procs -> Jobs]
        BY <1>0, <2>1, <3>1 DEF Launched, TypeOK
      <3>3. pc' \in [Procs -> Pcs]
        BY <1>0, <2>1 DEF Launched, TypeOK, Pcs
      <3>4. barred' \in [Deciders -> SUBSET Tags]
        BY <2>1, BarredTyped DEF Launched, TypeOK, Deciders
      <3> QED BY <1>4, <3>2, <3>3, <3>4 DEF Claim, TypeOK, settings, world, wakeup
    <2>2. CASE Refused(p) /\ UNCHANGED <<running, barred>>
      BY <1>2, <1>4, <2>2 DEF Claim, TypeOK, settings, world, wakeup
    <2> QED BY <1>4, <2>1, <2>2 DEF Claim
  <1> QED BY <1>1, <1>3, <1>4

LEMMA RunTyped ==
    ASSUME TypeOK, NEW r \in Runners, Run(r)
    PROVE  TypeOK'
  <1>0. /\ r \in Procs /\ Blank \in Jobs /\ my[r] \in Jobs
        /\ my[r].pin \in MaybeTag /\ my[r].tag \in MaybeTag
        /\ published \subseteq Tags /\ my[r].channel \in Channels
    BY BlankJob DEF Procs, TypeOK, Jobs
  <1>1. GivesUp(r) => my' \in [Procs -> Jobs] /\ pc' \in [Procs -> Pcs]
    <2>1. [Blank EXCEPT !.pin = my[r].pin] \in Jobs
      BY <1>0 DEF Jobs
    <2> QED BY <1>0, <2>1, MoveTyped DEF GivesUp, Keeps, Pcs
  <1>2. CASE RunReads(r)
    <2>1. [my[r] EXCEPT !.channel = channel] \in Jobs
      BY <1>0 DEF Jobs, TypeOK
    <2>2. my' \in [Procs -> Jobs] /\ pc' \in [Procs -> Pcs]
      <3>1. CASE Keeps(r, [my[r] EXCEPT !.channel = channel]) /\ Goto(r, "pick")
        BY <1>0, <2>1, <3>1, MoveTyped DEF Keeps, Pcs
      <3> QED BY <1>1, <1>2, <3>1 DEF RunReads
    <2> QED BY <1>2, <2>2 DEF RunReads, TypeOK, settings, memory, world, wakeup, history
  <1>3. CASE RunPicks(r)
    <2> DEFINE x == [Blank EXCEPT !.tag = PickLatest(my[r].channel), !.pin = my[r].pin]
    <2>1. PickLatest(my[r].channel) \in MaybeTag
      BY <1>0, PickLatestTag
    <2>2. x \in Jobs
      BY <1>0, <2>1 DEF Jobs
    <2>3. CASE Keeps(r, x) /\ Goto(r, "replace")
      <3>1. my' \in [Procs -> Jobs] /\ pc' \in [Procs -> Pcs]
        <4> HIDE DEF x
        <4> QED BY <1>0, <2>2, <2>3, MoveTyped DEF Keeps, Pcs
      <3> QED BY <1>3, <3>1 DEF RunPicks, TypeOK, settings, memory, world, wakeup, history
    <2>4. CASE GivesUp(r)
      BY <1>1, <1>3, <2>4 DEF RunPicks, TypeOK, settings, memory, world, wakeup, history
    <2> QED BY <1>3, <2>3, <2>4 DEF RunPicks
  <1>4. CASE RunReplaces(r)
    <2>1. my' \in [Procs -> Jobs] /\ pc' \in [Procs -> Pcs]
      BY <1>0, <1>1, <1>4 DEF RunReplaces, Goto, TypeOK, Pcs
    <2>2. binary' \in MaybeTag /\ installed' \subseteq MaybeTag
      BY <1>0, <1>4 DEF RunReplaces, TypeOK
    <2> QED BY <1>4, <2>1, <2>2 DEF RunReplaces, TypeOK, settings, memory, wakeup, history
  <1>5. CASE RunMarks(r)
    <2>1. [my[r] EXCEPT !.tag = NoTag] \in Jobs
      BY <1>0 DEF Jobs, MaybeTag, NoTag
    <2>2. my' \in [Procs -> Jobs] /\ pc' \in [Procs -> Pcs]
      BY <1>0, <1>5, <2>1, MoveTyped DEF RunMarks, Keeps, Pcs
    <2>3. late' \subseteq Runners
      BY <1>5 DEF RunMarks, TypeOK, RunnerOf, Runners
    <2> QED BY <1>0, <1>5, <2>2, <2>3 DEF RunMarks, TypeOK, settings, world, wakeup
  <1>6. CASE RunReleases(r)
    <2>1. CASE Goto(r, "marker") /\ UNCHANGED my
      BY <1>0, <1>6, <2>1 DEF RunReleases, Goto, TypeOK, Pcs, settings, world, wakeup, history
    <2>2. CASE Ends(r)
      <3>1. my' \in [Procs -> Jobs] /\ pc' \in [Procs -> Pcs]
        BY <1>0, <2>2, MoveTyped DEF Ends, Keeps, Pcs
      <3> QED BY <1>6, <3>1 DEF RunReleases, TypeOK, settings, world, wakeup, history
    <2> QED BY <1>6, <2>1, <2>2 DEF RunReleases
  <1> QED BY <1>2, <1>3, <1>4, <1>5, <1>6 DEF Run

LEMMA OthersTyped ==
    ASSUME TypeOK, Mark \/ Restart \/ (\E t \in Tags : Publish(t) \/ Skip(t)) \/ UNCHANGED vars
    PROVE  TypeOK'
  <1>0. AutoRun \in Procs /\ Blank \in Jobs /\ my[AutoRun] \in Jobs /\ my[AutoRun].pin \in MaybeTag
    <2>1. AutoRun \in Procs
      BY Members
    <2>2. Blank \in Jobs /\ my[AutoRun] \in Jobs
      BY <2>1, BlankJob DEF TypeOK
    <2> QED BY <2>1, <2>2 DEF Jobs
  <1>1. CASE Mark
    <2>1. my' \in [Procs -> Jobs] /\ pc' \in [Procs -> Pcs]
      BY <1>0, <1>1, MoveTyped DEF Mark, Ends, Keeps, Pcs
    <2>2. barred' \in [Deciders -> SUBSET Tags]
      BY <1>1, BarredTyped DEF Mark, TypeOK, Deciders
    <2> QED BY <1>0, <1>1, <2>1, <2>2 DEF Mark, TypeOK, memory, world, wakeup
  <1>2. CASE Restart
    <2>1. my' \in [Procs -> Jobs] /\ pc' \in [Procs -> Pcs]
      BY <1>0, <1>2 DEF Restart, Pcs
    <2>3. /\ running' \in BOOLEAN /\ restartRequired' \in BOOLEAN /\ pulse' \in BOOLEAN
          /\ gen' \in Nat
      BY <1>2 DEF Restart
    <2>4. /\ cache' \in MaybeTag /\ pending' \in MaybeTag /\ version' \in MaybeTag
          /\ interval' \in Nat \cup {Default} /\ late' \subseteq Runners
      BY <1>2 DEF Restart, IntervalRead, TypeOK, MaybeTag, NoTag
    <2>2. barred' \in [Deciders -> SUBSET Tags]
      BY <1>2 DEF Restart
    <2> QED BY <1>2, <2>1, <2>2, <2>3, <2>4 DEF Restart, TypeOK, settings
  <1>3. ASSUME NEW t \in Tags, Publish(t) \/ Skip(t) PROVE TypeOK'
    BY <1>3 DEF Publish, Skip, TypeOK, settings, memory, world, wakeup, history
  <1>4. CASE UNCHANGED vars
    BY <1>4 DEF vars, TypeOK, settings, memory, world, wakeup, history
  <1> QED BY <1>1, <1>2, <1>3, <1>4

LEMMA NextTyped == TypeOK /\ [Next]_vars => TypeOK'
  BY SetTyped, CheckTyped, SchedTyped, ApplyTyped, RunTyped, OthersTyped DEF Next

\* Every reachable state is well typed; in particular what pickLatest answers, and so
\* what is cached, installed and recorded, is a tag.
THEOREM TypeCorrect == Spec => []TypeOK
  BY InitTyped, NextTyped, PTL DEF Spec

----------------------------------------------------------------------------
(* Who acts.                                                               *)

\* A step of p's leaves alone where the others are and what they hold.
OwnStep(p) == \A q \in Procs \ {p} : pc'[q] = pc[q] /\ my'[q] = my[q]

LEMMA Apart ==
    /\ Setters \cap Lookers = {} /\ Setters \cap Runners = {} /\ Lookers \cap Runners = {}
    /\ Sched \notin Setters /\ Sched \notin Runners /\ AutoRun \notin Lookers
    /\ AutoRun \notin Appliers
  BY DEF Lookers, Runners

LEMMA SetOwn ==
    ASSUME TypeOK, NEW s \in Setters, SetRead(s) \/ SetCommit(s) \/ SetFails(s) \/ SetAnnounce(s)
    PROVE  OwnStep(s)
  <1>1. pc \in [Procs -> Pcs] /\ my \in [Procs -> Jobs] /\ s \in Procs
    BY Members DEF TypeOK
  <1>2. CASE SetRead(s)
    BY <1>1, <1>2 DEF SetRead, Goto, OwnStep
  <1>3. CASE SetCommit(s) \/ SetFails(s) \/ SetAnnounce(s)
    BY <1>1, <1>3 DEF SetCommit, SetFails, SetAnnounce, Goto, Ends, Keeps, OwnStep
  <1> QED BY <1>2, <1>3

LEMMA CheckOwn ==
    ASSUME TypeOK, NEW c \in Lookers, Check(c)
    PROVE  OwnStep(c)
  <1>1. pc \in [Procs -> Pcs] /\ my \in [Procs -> Jobs] /\ c \in Procs
    BY Members DEF TypeOK
  <1>2. CASE CheckBegins(c) \/ CheckReads(c)
    BY <1>1, <1>2 DEF CheckBegins, CheckReads, CheckFails, Goto, Ends, Keeps, OwnStep
  <1>3. CASE CheckFetches(c)
    BY <1>1, <1>3 DEF CheckFetches, CheckFails, Goto, Ends, Keeps, OwnStep
  <1>4. CASE CheckStores(c)
    BY <1>1, <1>4 DEF CheckStores, Goto, Ends, Keeps, OwnStep
  <1> QED BY <1>2, <1>3, <1>4 DEF Check

LEMMA SchedOwn ==
    ASSUME TypeOK, Wake \/ Tick \/ Gate \/ Rest
    PROVE  OwnStep(Sched)
  <1>1. pc \in [Procs -> Pcs] /\ my \in [Procs -> Jobs] /\ Sched \in Procs
    BY Members DEF TypeOK
  <1>2. CASE Wake \/ Tick \/ Rest
    BY <1>1, <1>2 DEF Wake, Tick, Rest, Goto, Ends, Keeps, OwnStep
  <1>3. CASE Gate
    BY <1>1, <1>3 DEF Gate, Goto, Keeps, OwnStep
  <1> QED BY <1>2, <1>3

LEMMA ApplyOwn ==
    ASSUME TypeOK, NEW p \in Appliers \cup {Sched}
    PROVE  /\ Request(p) \/ Guard(p) => OwnStep(p)
           /\ Claim(p) => \/ OwnStep(p) /\ Refused(p) /\ UNCHANGED <<running, barred>>
                          \/ ~running /\ running' = TRUE /\ Launched(p)
  <1>1. pc \in [Procs -> Pcs] /\ my \in [Procs -> Jobs] /\ p \in Procs
    BY Members DEF TypeOK
  <1>2. Refused(p) => OwnStep(p)
    BY <1>1 DEF Refused, Goto, Ends, Keeps, OwnStep
  <1>3. Request(p) \/ Guard(p) => OwnStep(p)
    BY <1>1, <1>2 DEF Request, Guard, Goto, OwnStep
  <1>4. CASE Claim(p) /\ running
    <2>1. Refused(p) /\ UNCHANGED <<running, barred>>
      BY Zenon, <1>4 DEF Claim
    <2> QED BY <1>2, <1>3, <2>1
  <1>5. CASE Claim(p) /\ ~running
    BY <1>3, <1>5 DEF Claim
  <1> QED BY <1>3, <1>4, <1>5

LEMMA RunOwn ==
    ASSUME TypeOK, NEW r \in Runners, Run(r)
    PROVE  OwnStep(r)
  <1>1. pc \in [Procs -> Pcs] /\ my \in [Procs -> Jobs] /\ r \in Procs
    BY Members DEF TypeOK
  <1>2. CASE RunReads(r) \/ RunMarks(r)
    BY <1>1, <1>2 DEF RunReads, RunMarks, GivesUp, Goto, Keeps, OwnStep
  <1>3. CASE RunPicks(r)
    BY <1>1, <1>3 DEF RunPicks, GivesUp, Goto, Keeps, OwnStep
  <1>4. CASE RunReplaces(r) \/ RunReleases(r)
    BY <1>1, <1>4 DEF RunReplaces, RunReleases, GivesUp, Goto, Ends, Keeps, OwnStep
  <1> QED BY <1>2, <1>3, <1>4 DEF Run

LEMMA MarkOwn == TypeOK /\ Mark => OwnStep(AutoRun)
  BY Members DEF Mark, Ends, Goto, Keeps, OwnStep, TypeOK

----------------------------------------------------------------------------
(* The wake-up of the scheduler.                                           *)

Due == pulse \/ \E s \in Setters : At(s, "announce")

\* A scheduler at work holds the cadence of the tick, and so may set its timer to it.
WakeInv ==
    /\ interval \notin {cadence, Default} => Due
    /\ ~At(Sched, "idle") => my[Sched].cadence = cadence \/ Due

LEMMA WakeKept ==
    ASSUME WakeInv, UNCHANGED <<cadence, pulse, interval>>,
           \A s \in Setters : At(s, "announce") => pc'[s] = "announce",
           \/ pc'[Sched] = "idle"
           \/ pc[Sched] # "idle" /\ my'[Sched].cadence = my[Sched].cadence
    PROVE  WakeInv'
  BY DEF WakeInv, Due, At

LEMMA NextWake == TypeOK /\ WakeInv /\ [Next]_vars => WakeInv'
  <1> SUFFICES ASSUME TypeOK, WakeInv, [Next]_vars PROVE WakeInv'
    OBVIOUS
  <1>0. /\ pc \in [Procs -> Pcs] /\ my \in [Procs -> Jobs] /\ Sched \in Procs
        /\ Blank \in Jobs /\ my[Sched] \in Jobs
    BY Members, BlankJob DEF TypeOK
  <1>1. ASSUME NEW s \in Setters, SetRead(s) \/ SetFails(s) PROVE WakeInv'
    <2>1. OwnStep(s) /\ s \in Procs
      BY <1>1, SetOwn, Members
    <2>2. pc'[Sched] = pc[Sched] /\ my'[Sched] = my[Sched]
      BY <1>0, <2>1, Apart DEF OwnStep
    <2>3. UNCHANGED <<cadence, pulse, interval>> /\ ~At(s, "announce")
      BY <1>1 DEF SetRead, SetFails, settings, wakeup, At
    <2>4. \A t \in Setters : At(t, "announce") => pc'[t] = "announce"
      BY <2>1, <2>3, Members DEF OwnStep, At
    <2> QED BY <2>2, <2>3, <2>4, WakeKept
  <1>2. ASSUME NEW s \in Setters, SetCommit(s) \/ SetAnnounce(s) PROVE WakeInv'
    <2>1. CASE SetCommit(s)
      BY <1>0, <2>1, Members DEF SetCommit, Goto, WakeInv, Due, At
    <2>2. CASE SetAnnounce(s)
      BY <2>2 DEF SetAnnounce, WakeInv, Due
    <2> QED BY <1>2, <2>1, <2>2
  <1>3. ASSUME NEW p \in Procs \ Setters, OwnStep(p)
        PROVE  /\ \A s \in Setters : At(s, "announce") => pc'[s] = "announce"
               /\ p # Sched => pc'[Sched] = pc[Sched] /\ my'[Sched] = my[Sched]
    BY <1>0, <1>3, Members DEF OwnStep, At
  <1>4. ASSUME NEW c \in Lookers, Check(c) PROVE WakeInv'
    <2>1. OwnStep(c) /\ c \in Procs \ Setters
      BY <1>4, CheckOwn, Members, Apart
    <2>2. UNCHANGED <<cadence, pulse, interval>>
      BY <1>4 DEF Check, CheckBegins, CheckReads, CheckFetches, CheckStores, settings, wakeup
    <2>3. CASE c = Sched
      <3>1. pc[Sched] # "idle"
        BY <1>4, <2>3 DEF Check, CheckBegins, CheckReads, CheckFetches, CheckStores, At
      <3>2. my'[Sched].cadence = my[Sched].cadence
        <4>0. CASE CheckFails(c)
          BY <2>3, <4>0 DEF CheckFails
        <4>1. CASE CheckBegins(c) \/ CheckReads(c)
          <5>1. CASE CheckBegins(c)
            BY <1>0, <2>3, <5>1 DEF CheckBegins, Keeps, Jobs
          <5>2. CASE Keeps(c, [my[c] EXCEPT !.channel = channel])
            BY <1>0, <2>3, <5>2 DEF Keeps, Jobs
          <5> QED BY <4>0, <4>1, <5>1, <5>2 DEF CheckReads
        <4>2. CASE CheckFetches(c)
          <5>2. CASE Keeps(c, [Blank EXCEPT !.tag = PickLatest(my[c].channel),
                                            !.gen = my[c].gen, !.cadence = my[c].cadence])
            BY <1>0, <2>3, <5>2 DEF Keeps, Jobs
          <5> QED BY <4>0, <4>2, <5>2 DEF CheckFetches
        <4>3. CASE CheckStores(c)
          BY <1>0, <2>3, <4>3 DEF CheckStores, Keeps, Jobs
        <4> QED BY <1>4, <4>1, <4>2, <4>3 DEF Check
      <3> QED BY <1>3, <2>1, <2>2, <3>1, <3>2, WakeKept
    <2>4. CASE c # Sched
      BY <1>3, <2>1, <2>2, <2>4, WakeKept
    <2> QED BY <2>3, <2>4
  <1>5. CASE Wake
    BY <1>0, <1>5 DEF Wake, IntervalRead, settings, WakeInv, Due, At
  <1>6. CASE Tick
    <2>1. my'[Sched].cadence = cadence
      BY <1>0, <1>6 DEF Tick, Keeps, Jobs
    <2>2. OwnStep(Sched)
      BY <1>6, SchedOwn
    <2>3. \A s \in Setters : At(s, "announce") => pc'[s] = "announce"
      BY <1>0, <1>3, <2>2, Apart
    <2> QED BY <1>6, <2>1, <2>3 DEF Tick, settings, wakeup, WakeInv, Due, At
  <1>7. CASE Gate
    <2>1. my'[Sched].cadence = my[Sched].cadence
      BY <1>0, <1>7 DEF Gate, Keeps, Jobs
    <2>2. OwnStep(Sched)
      BY <1>7, SchedOwn
    <2>3. \A s \in Setters : At(s, "announce") => pc'[s] = "announce"
      BY <1>0, <1>3, <2>2, Apart
    <2>4. UNCHANGED <<cadence, pulse, interval>> /\ pc[Sched] # "idle"
      BY <1>7 DEF Gate, settings, wakeup, At
    <2> QED BY <2>1, <2>3, <2>4, WakeKept
  <1>8. CASE Rest
    <2>1. OwnStep(Sched)
      BY <1>8, SchedOwn
    <2>2. \A s \in Setters : At(s, "announce") => pc'[s] = "announce"
      BY <1>0, <1>3, <2>1, Apart
    <2>3. pc'[Sched] = "idle" /\ interval' = my[Sched].cadence /\ pc[Sched] # "idle"
      BY <1>0, <1>8 DEF Rest, Ends, Goto, At
    <2>4. UNCHANGED <<cadence, pulse>>
      BY <1>8 DEF Rest, settings
    <2> QED BY <2>2, <2>3, <2>4 DEF WakeInv, Due, At
  <1>9. ASSUME NEW p \in Appliers \cup {Sched}, Request(p) \/ Guard(p) \/ Claim(p)
        PROVE  WakeInv'
    <2>0. p \in Procs \ Setters
      BY Members
    <2>1. UNCHANGED <<cadence, pulse, interval>>
      BY <1>9 DEF Request, Guard, Claim, settings, wakeup
    <2>2. CASE OwnStep(p) /\ p # Sched
      BY <1>3, <2>0, <2>1, <2>2, WakeKept
    <2>3. CASE OwnStep(p) /\ p = Sched /\ ~Launched(p)
      <3>1. pc[Sched] # "idle"
        BY <1>9, <2>3 DEF Request, Guard, Claim, At
      <3>2. my'[Sched] = my[Sched]
        BY <1>9, <2>3 DEF Request, Guard, Claim, Refused
      <3> QED BY <1>3, <2>0, <2>1, <2>3, <3>1, <3>2, WakeKept
    <2>4. CASE Launched(p)
      <3>1. RunnerOf(p) \in Procs \ Setters /\ RunnerOf(p) # Sched
        BY Members, Apart DEF RunnerOf
      <3>2. \A q \in Procs \ {p, RunnerOf(p)} : pc'[q] = pc[q]
        BY <1>0, <2>4 DEF Launched, RunnerOf
      <3>3. \A s \in Setters : At(s, "announce") => pc'[s] = "announce"
        BY <2>0, <3>1, <3>2, Members DEF At
      <3>4. my'[Sched] = my[Sched]
        BY <1>0, <2>4, <3>1 DEF Launched
      <3>5. p = Sched \/ pc'[Sched] = pc[Sched]
        BY <1>0, <3>1, <3>2
      <3>6. p = Sched => pc[Sched] # "idle"
        BY <1>9 DEF Request, Guard, Claim, At
      <3> QED BY <2>1, <3>3, <3>4, <3>5, <3>6, WakeKept
    <2> QED BY <1>9, <2>2, <2>3, <2>4, ApplyOwn
  <1>10. ASSUME NEW r \in Runners, Run(r) PROVE WakeInv'
    <2>1. OwnStep(r) /\ r \in Procs \ Setters /\ r # Sched
      BY <1>10, RunOwn, Members, Apart
    <2>2. UNCHANGED <<cadence, pulse, interval>>
      BY <1>10 DEF Run, RunReads, RunPicks, RunReplaces, RunMarks, RunReleases, settings, wakeup
    <2> QED BY <1>3, <2>1, <2>2, WakeKept
  <1>11. CASE Mark
    <2>1. OwnStep(AutoRun) /\ AutoRun \in Procs \ Setters /\ AutoRun # Sched
      BY <1>11, MarkOwn, Members, Apart
    <2>2. UNCHANGED <<cadence, pulse, interval>>
      BY <1>11 DEF Mark, wakeup
    <2> QED BY <1>3, <2>1, <2>2, WakeKept
  <1>12. CASE Restart
    BY <1>0, <1>12 DEF Restart, IntervalRead, settings, WakeInv, Due, At
  <1>13. CASE (\E t \in Tags : Publish(t) \/ Skip(t)) \/ UNCHANGED vars
    <2>1. UNCHANGED <<cadence, pulse, interval, pc, my>>
      BY <1>13 DEF Publish, Skip, vars, settings, wakeup
    <2> QED BY <2>1 DEF WakeInv, Due, At
  <1> QED BY <1>1, <1>2, <1>4, <1>5, <1>6, <1>7, <1>8, <1>9, <1>10, <1>11, <1>12, <1>13 DEF Next

\* A configuration that was saved reaches the scheduler's timer: it never sleeps on an
\* older interval without a pulse, or a save that is about to send one, unless it could
\* not read the settings and sleeps on the default.
THEOREM WakeUpSafe == Spec => []WakeUpIsDue
  <1>1. Init => WakeInv
    BY Members DEF Init, IntervalRead, WakeInv, Due, At
  <1>2. WakeInv => WakeUpIsDue
    BY DEF WakeInv, WakeUpIsDue, Due
  <1> QED BY <1>1, <1>2, InitTyped, NextTyped, NextWake, PTL DEF Spec

----------------------------------------------------------------------------
(* The applies.                                                            *)

Active == {"run", "pick", "replace", "mark", "release"}

\* Where an apply is that has still to install.
Before == {"run", "pick", "replace"}

\* One apply at a time; what it installed is on the disk when it says so; and one that
\* overtook the guard of another is known to have.
ApplyInv ==
    /\ \A r \in Runners : pc[r] \in Active => running
    /\ \A q, r \in Runners : pc[q] \in Active /\ pc[r] \in Active => q = r
    /\ \A r \in Runners : pc[r] = "mark" => my[r].tag = binary /\ binary \in installed
    /\ restartRequired => pending \in installed
    /\ restartRequired /\ (\A r \in Runners : pc[r] # "mark") => pending = binary
    /\ restartRequired => \A r \in Runners : pc[r] \in Before => r \in late
    /\ restartRequired =>
         \A p \in Appliers \cup {Sched} : pc[p] = "claim" => RunnerOf(p) \in late
    /\ marker # NoTag => marker \in installed

\* A step of p that installs nothing, marks nothing and gets into no apply.
LEMMA ApplyKept ==
    ASSUME TypeOK, ApplyInv, NEW p \in Procs, OwnStep(p), pc[p] # "mark",
           UNCHANGED <<running, binary, installed, restartRequired, pending, late>>,
           marker' = marker \/ marker' \in installed,
           pc'[p] \notin Active \cup {"claim"}
    PROVE  ApplyInv'
  <1>0. pc \in [Procs -> Pcs] /\ Runners \subseteq Procs /\ Appliers \cup {Sched} \subseteq Procs
    BY Members DEF TypeOK
  <1>1. \A r \in Procs : pc'[r] \in Active \cup {"claim"} => pc'[r] = pc[r] /\ my'[r] = my[r]
    BY DEF OwnStep
  <1>2. "mark" \in Active /\ Before \subseteq Active
    BY DEF Active, Before
  <1>3. \A r \in Procs : pc[r] = "mark" => pc'[r] = "mark"
    BY DEF OwnStep
  <1>4. /\ \A r \in Runners : pc'[r] \in Active => running'
        /\ \A q, r \in Runners : pc'[q] \in Active /\ pc'[r] \in Active => q = r
    BY <1>0, <1>1 DEF ApplyInv
  <1>5. \A r \in Runners : pc'[r] = "mark" => my'[r].tag = binary' /\ binary' \in installed'
    BY <1>0, <1>1, <1>2 DEF ApplyInv
  <1>6. restartRequired' => \A r \in Runners : pc'[r] \in Before => r \in late'
    BY <1>0, <1>1, <1>2 DEF ApplyInv
  <1>7. restartRequired' =>
          \A q \in Appliers \cup {Sched} : pc'[q] = "claim" => RunnerOf(q) \in late'
    BY <1>0, <1>1 DEF ApplyInv
  <1>8. /\ restartRequired' => pending' \in installed'
        /\ restartRequired' /\ (\A r \in Runners : pc'[r] # "mark") => pending' = binary'
        /\ marker' # NoTag => marker' \in installed'
    BY <1>0, <1>3 DEF ApplyInv
  <1> QED BY <1>4, <1>5, <1>6, <1>7, <1>8 DEF ApplyInv

\* The requests, the checks and the scheduler.
LEMMA ApplyOutside ==
    ASSUME TypeOK, ApplyInv,
           \/ \E s \in Setters : SetRead(s) \/ SetCommit(s) \/ SetFails(s) \/ SetAnnounce(s)
           \/ \E c \in Lookers : Check(c)
           \/ Wake \/ Tick \/ Gate \/ Rest \/ Mark
           \/ \E p \in Appliers \cup {Sched} : Request(p)
    PROVE  ApplyInv'
  <1>0. pc \in [Procs -> Pcs] /\ \A p \in Appliers \cup {Sched} : p \in Procs
    BY Members DEF TypeOK
  <1>1. ASSUME NEW s \in Setters, SetRead(s) \/ SetCommit(s) \/ SetFails(s) \/ SetAnnounce(s)
        PROVE  ApplyInv'
    <2>1. OwnStep(s) /\ s \in Procs
      BY <1>1, SetOwn, Members
    <2>2. pc[s] # "mark" /\ pc'[s] \notin Active \cup {"claim"}
      BY <1>0, <1>1, <2>1 DEF SetRead, SetCommit, SetFails, SetAnnounce, Goto, Ends, At, Active
    <2>3. UNCHANGED <<running, binary, installed, restartRequired, pending, late, marker>>
      BY <1>1 DEF SetRead, SetCommit, SetFails, SetAnnounce, settings, memory, world, history
    <2> QED BY <2>1, <2>2, <2>3, ApplyKept
  <1>2. ASSUME NEW c \in Lookers, Check(c) PROVE ApplyInv'
    <2>1. OwnStep(c) /\ c \in Procs
      BY <1>2, CheckOwn, Members
    <2>2. pc[c] # "mark" /\ pc'[c] \notin Active \cup {"claim"}
      BY <1>0, <1>2, <2>1, FailsGo
      DEF Check, CheckBegins, CheckReads, CheckFetches, CheckStores, Goto, Ends, At, Active
    <2>3. UNCHANGED <<running, binary, installed, restartRequired, pending, late, marker>>
      BY <1>2 DEF Check, CheckBegins, CheckReads, CheckFetches, CheckStores,
                  settings, memory, world, history
    <2> QED BY <2>1, <2>2, <2>3, ApplyKept
  <1>3. CASE Wake
    <2>1. pc' = pc /\ my' = my
      BY <1>3 DEF Wake
    <2>2. pc[Sched] = "idle" /\ pc'[Sched] \notin Active \cup {"claim"}
      BY <1>3, <2>1 DEF Wake, At, Active
    <2>3. UNCHANGED <<running, binary, installed, restartRequired, pending, late, marker>>
      BY <1>3 DEF Wake, settings, memory, world, history
    <2> QED BY <1>3, <2>2, <2>3, SchedOwn, Members, ApplyKept
  <1>4. CASE Tick \/ Gate \/ Rest
    <2>1. pc[Sched] # "mark" /\ pc'[Sched] \notin Active \cup {"claim"}
      BY <1>0, <1>4, Members DEF Tick, Gate, Rest, Goto, Ends, At, Active
    <2>2. UNCHANGED <<running, binary, installed, restartRequired, pending, late, marker>>
      BY <1>4 DEF Tick, Gate, Rest, settings, memory, world, history
    <2> QED BY <1>4, <2>1, <2>2, SchedOwn, Members, ApplyKept
  <1>5. ASSUME NEW p \in Appliers \cup {Sched}, Request(p) PROVE ApplyInv'
    <2>1. pc[p] # "mark" /\ pc'[p] \notin Active \cup {"claim"}
      BY <1>0, <1>5 DEF Request, Goto, At, Active
    <2>2. UNCHANGED <<running, binary, installed, restartRequired, pending, late, marker>>
      BY <1>5 DEF Request, settings, memory, world, history
    <2> QED BY <1>0, <1>5, <2>1, <2>2, ApplyOwn, ApplyKept
  <1>6. CASE Mark
    <2>1. pc[AutoRun] # "mark" /\ pc'[AutoRun] \notin Active \cup {"claim"}
      BY <1>0, <1>6, Members DEF Mark, Goto, Ends, At, Active
    <2>2. UNCHANGED <<running, binary, installed, restartRequired, pending, late>>
      BY <1>6 DEF Mark, memory, world
    <2>3. marker' = marker \/ marker' \in installed
      BY <1>6 DEF Mark, ApplyInv
    <2> QED BY <1>6, <2>1, <2>2, <2>3, MarkOwn, Members, ApplyKept
  <1> QED BY <1>1, <1>2, <1>3, <1>4, <1>5, <1>6

LEMMA ApplyGuarded ==
    ASSUME TypeOK, ApplyInv, NEW p \in Appliers \cup {Sched}, Guard(p)
    PROVE  ApplyInv'
  <1>0. pc \in [Procs -> Pcs] /\ p \in Procs /\ OwnStep(p) /\ Runners \subseteq Procs
    BY Members, ApplyOwn DEF TypeOK
  <1>1. UNCHANGED <<running, binary, installed, restartRequired, pending, marker>>
    BY DEF Guard, settings, memory, world
  <1>2. pc[p] = "guard"
    BY DEF Guard, At
  <1>3. CASE restartRequired
    <2>1. late' = late /\ pc'[p] \notin Active \cup {"claim"}
      BY <1>0, <1>3 DEF Guard, Refused, Ends, Goto, Active
    <2> QED BY <1>0, <1>1, <1>2, <2>1, ApplyKept
  <1>4. CASE ~restartRequired
    <2>1. pc'[p] = "claim" /\ my' = my
      BY <1>0, <1>4 DEF Guard, Goto
    <2>2. \A r \in Runners : pc'[r] \in Active => pc'[r] = pc[r]
      BY <1>0, <2>1 DEF OwnStep, Active
    <2>3. \A r \in Runners : pc'[r] = "mark" => pc[r] = "mark"
      BY <2>2 DEF Active
    <2> QED BY <1>1, <1>4, <2>1, <2>2, <2>3 DEF ApplyInv
  <1> QED BY <1>3, <1>4

LEMMA ApplyClaimed ==
    ASSUME TypeOK, ApplyInv, NEW p \in Appliers \cup {Sched}, Claim(p)
    PROVE  ApplyInv'
  <1>0. pc \in [Procs -> Pcs] /\ my \in [Procs -> Jobs] /\ p \in Procs /\ Runners \subseteq Procs
    BY Members DEF TypeOK
  <1>1. UNCHANGED <<binary, installed, restartRequired, pending, late, marker>>
    BY DEF Claim, settings, world
  <1>2. pc[p] = "claim"
    BY DEF Claim, At
  <1>3. CASE OwnStep(p) /\ Refused(p) /\ UNCHANGED <<running, barred>>
    <2>1. pc'[p] \notin Active \cup {"claim"}
      BY <1>0, <1>3 DEF Refused, Ends, Goto, Active
    <2> QED BY <1>0, <1>1, <1>2, <1>3, <2>1, ApplyKept
  <1>4. CASE ~running /\ running' = TRUE /\ Launched(p)
    <2> DEFINE r == RunnerOf(p)
    <2>1. r \in Runners /\ r \in Procs
      BY Members
    <2>2. pc'[r] = "run" /\ \A q \in Procs \ {r, p} : pc'[q] = pc[q]
      BY <1>0, <1>4, <2>1, Members DEF Launched, RunnerOf
    <2>3. p # r => pc'[p] = "rest"
      BY <1>0, <1>4, Apart DEF Launched, RunnerOf
    <2>4. \A q \in Runners : pc[q] \notin Active
      BY <1>4 DEF ApplyInv
    <2>5. \A q \in Runners \ {r} : pc'[q] \notin Active
      BY <1>0, <2>2, <2>3, <2>4 DEF Active
    <2>6. restartRequired => r \in late
      BY <1>2 DEF ApplyInv
    <2>7. \A q \in Appliers \cup {Sched} : pc'[q] = "claim" => pc[q] = "claim"
      BY <2>2, <2>3, Members
    <2>8. "mark" \in Active /\ Before \subseteq Active /\ "run" # "mark"
      BY DEF Active, Before
    <2>9. \A q \in Runners : pc'[q] # "mark" /\ pc[q] # "mark"
      BY <2>2, <2>4, <2>5, <2>8
    <2>10. \A q \in Runners : pc'[q] \in Before => q = r
      BY <2>5, <2>8
    <2> HIDE DEF r
    <2>11. /\ \A q \in Runners : pc'[q] \in Active => running'
           /\ \A q, s \in Runners : pc'[q] \in Active /\ pc'[s] \in Active => q = s
      BY <1>4, <2>5
    <2>12. /\ restartRequired' => pending' \in installed'
           /\ restartRequired' => pending' = binary'
           /\ marker' # NoTag => marker' \in installed'
      BY <1>1, <2>9 DEF ApplyInv
    <2>13. /\ restartRequired' => \A q \in Runners : pc'[q] \in Before => q \in late'
           /\ restartRequired' =>
                \A q \in Appliers \cup {Sched} : pc'[q] = "claim" => RunnerOf(q) \in late'
      BY <1>1, <2>6, <2>7, <2>10 DEF ApplyInv
    <2> QED BY <2>9, <2>11, <2>12, <2>13 DEF ApplyInv
  <1> QED BY <1>3, <1>4, ApplyOwn

LEMMA ApplyRuns ==
    ASSUME TypeOK, ApplyInv, NEW r \in Runners, Run(r)
    PROVE  ApplyInv'
  <1>0. /\ pc \in [Procs -> Pcs] /\ my \in [Procs -> Jobs] /\ r \in Procs /\ OwnStep(r)
        /\ my[r] \in Jobs /\ my[r].tag \in MaybeTag /\ Runners \subseteq Procs
    BY Members, RunOwn DEF TypeOK, Jobs
  <1>1. pc[r] \in Active
    BY DEF Run, RunReads, RunPicks, RunReplaces, RunMarks, RunReleases, At, Active
  <1>2. "mark" \in Active /\ Before \subseteq Active /\ "claim" \notin Active
    BY DEF Active, Before
  <1>3. running /\ \A q \in Runners \ {r} : pc[q] \notin Active /\ pc'[q] \notin Active
    BY <1>0, <1>1 DEF ApplyInv, OwnStep
  <1>4. \A q \in Runners \ {r} : pc[q] # "mark" /\ pc'[q] # "mark" /\ pc'[q] \notin Before
    BY <1>2, <1>3
  <1>5. marker' = marker
    BY DEF Run, RunReads, RunPicks, RunReplaces, RunMarks, RunReleases, settings
  <1>6. ASSUME NEW q \in Appliers \cup {Sched}, pc'[q] = "claim", pc'[r] # "claim"
        PROVE  pc[q] = "claim"
    BY <1>0, <1>6, Members DEF OwnStep
  <1>7. pc'[r] # "claim"
    BY <1>0 DEF Run, RunReads, RunPicks, RunReplaces, RunMarks, RunReleases, GivesUp, Ends, Goto
  <1>8. CASE RunReads(r) \/ RunPicks(r)
    <2>1. UNCHANGED <<running, binary, installed, restartRequired, pending, late>>
      BY <1>8 DEF RunReads, RunPicks, memory, world, history
    <2>2. pc[r] \in Before /\ pc[r] # "mark" /\ pc'[r] # "mark"
      BY <1>0, <1>8 DEF RunReads, RunPicks, GivesUp, Goto, At, Before
    <2> QED BY <1>0, <1>2, <1>3, <1>4, <1>5, <1>6, <1>7, <2>1, <2>2 DEF ApplyInv
  <1>9. CASE RunReplaces(r)
    <2>1. UNCHANGED <<running, restartRequired, pending, late>>
      BY <1>9 DEF RunReplaces, memory, history
    <2>2. pc[r] = "replace" /\ pc[r] # "mark" /\ pc[r] \in Before
      BY <1>9 DEF RunReplaces, At, Before
    <2>3. CASE pc'[r] = "mark" /\ binary' = my[r].tag /\ my'[r] = my[r]
               /\ installed' = installed \cup {my[r].tag}
      <3>1. "mark" \notin Before
        BY DEF Before
      <3> QED BY <1>0, <1>2, <1>3, <1>4, <1>5, <1>6, <1>7, <2>1, <2>2, <2>3, <3>1 DEF ApplyInv
    <2>4. CASE pc'[r] = "release" /\ UNCHANGED <<binary, installed>>
      <3>1. pc'[r] \notin Before /\ pc'[r] # "mark"
        BY <2>4 DEF Before
      <3> QED BY <1>0, <1>2, <1>3, <1>4, <1>5, <1>6, <1>7, <2>1, <2>2, <2>4, <3>1 DEF ApplyInv
    <2> QED BY <1>0, <1>9, <2>3, <2>4 DEF RunReplaces, GivesUp, Goto
  <1>10. CASE RunMarks(r)
    <2>1. /\ UNCHANGED <<running, binary, installed>>
          /\ restartRequired' = TRUE /\ pending' = my[r].tag
          /\ \A q \in Appliers \cup {Sched} : pc[q] = "claim" => RunnerOf(q) \in late'
      BY <1>10 DEF RunMarks, world, At
    <2>2. pc[r] = "mark" /\ pc'[r] = "release" /\ "release" \notin Before
      BY <1>0, <1>10 DEF RunMarks, Goto, At, Before
    <2>3. my[r].tag = binary /\ binary \in installed
      BY <2>2 DEF ApplyInv
    <2> QED BY <1>0, <1>2, <1>3, <1>4, <1>5, <1>6, <1>7, <2>1, <2>2, <2>3 DEF ApplyInv
  <1>11. CASE RunReleases(r)
    <2>1. UNCHANGED <<binary, installed, restartRequired, pending, late>>
      BY <1>11 DEF RunReleases, world, history
    <2>2. pc[r] # "mark" /\ pc'[r] \notin Active
      BY <1>0, <1>11 DEF RunReleases, Ends, Goto, At, Active
    <2> QED BY <1>0, <1>2, <1>3, <1>4, <1>5, <1>6, <1>7, <2>1, <2>2 DEF ApplyInv
  <1> QED BY <1>8, <1>9, <1>10, <1>11 DEF Run

LEMMA NextApply == TypeOK /\ ApplyInv /\ [Next]_vars => ApplyInv'
  <1> SUFFICES ASSUME TypeOK, ApplyInv, [Next]_vars PROVE ApplyInv'
    OBVIOUS
  <1>1. CASE Restart
    <2>1. \A p \in Procs : pc'[p] = "idle"
      BY <1>1 DEF Restart
    <2>2. restartRequired' = FALSE /\ UNCHANGED <<marker, installed>>
      BY <1>1 DEF Restart, settings
    <2> QED BY <2>1, <2>2, Members DEF ApplyInv, Active
  <1>2. CASE (\E t \in Tags : Publish(t) \/ Skip(t)) \/ UNCHANGED vars
    <2>1. UNCHANGED <<pc, my, running, binary, installed, restartRequired, pending, late, marker>>
      BY <1>2 DEF Publish, Skip, vars, settings, memory, world, history
    <2> QED BY <2>1 DEF ApplyInv
  <1> QED BY <1>1, <1>2, ApplyOutside, ApplyGuarded, ApplyClaimed, ApplyRuns DEF Next

LEMMA InitApply == Init => ApplyInv
  BY Members DEF Init, ApplyInv, Active

\* Status never promises a tag that is not the one on the disk, however the applies of
\* the scheduler and of the requests compete.
THEOREM PendingSafe == Spec => []PendingIsOnDisk
  <1>1. ApplyInv => PendingIsOnDisk
    BY DEF ApplyInv, PendingIsOnDisk, At
  <1> QED BY <1>1, InitTyped, NextTyped, InitApply, NextApply, PTL DEF Spec

\* The marker of the last automatic apply names a release that was installed.
THEOREM MarkerSafe == Spec => []MarkerWasInstalled
  <1>1. ApplyInv => MarkerWasInstalled
    BY DEF ApplyInv, MarkerWasInstalled
  <1> QED BY <1>1, InitTyped, NextTyped, InitApply, NextApply, PTL DEF Spec

\* A staged binary is replaced only by an apply that had passed its guard before.
THEOREM StagedSafe == Spec => StagedStays
  <1>1. TypeOK /\ ApplyInv /\ [Next]_vars =>
          [\A r \in Runners :
             restartRequired /\ At(r, "replace") /\ pc'[r] = "mark" => r \in late]_vars
    BY DEF ApplyInv, At, Before
  <1> QED BY <1>1, InitTyped, NextTyped, InitApply, NextApply, PTL DEF Spec, StagedStays

----------------------------------------------------------------------------
(* The skip list.                                                          *)

\* The tag the scheduler decided for, the pin of its apply and what it installs were
\* not on the skip list of the decision.
SkipInv ==
    /\ pc[Sched] \in {"guard", "claim"} =>
         my[Sched].pin # NoTag /\ my[Sched].pin \notin barred[Sched]
    /\ pc[AutoRun] \in {"run", "pick"} =>
         my[AutoRun].pin # NoTag /\ my[AutoRun].pin \notin barred[AutoRun]
    /\ pc[AutoRun] \in {"replace", "mark"} => my[AutoRun].tag \notin barred[AutoRun]

LEMMA SkipKept ==
    ASSUME SkipInv, NEW p \in Procs \ {Sched, AutoRun}, OwnStep(p), UNCHANGED barred
    PROVE  SkipInv'
  <1>1. Sched \in Procs /\ AutoRun \in Procs
    BY Members
  <1> QED BY <1>1 DEF SkipInv, OwnStep

LEMMA NextSkip == TypeOK /\ SkipInv /\ [Next]_vars => SkipInv'
  <1> SUFFICES ASSUME TypeOK, SkipInv, [Next]_vars PROVE SkipInv'
    OBVIOUS
  <1>0. /\ pc \in [Procs -> Pcs] /\ my \in [Procs -> Jobs] /\ Blank \in Jobs
        /\ barred \in [Deciders -> SUBSET Tags] /\ Sched \in Deciders /\ AutoRun \in Deciders
        /\ Sched \in Procs /\ AutoRun \in Procs /\ Sched # AutoRun
        /\ my[Sched] \in Jobs /\ my[AutoRun] \in Jobs
    BY Members, BlankJob DEF TypeOK
  <1>1. ASSUME NEW s \in Setters, SetRead(s) \/ SetCommit(s) \/ SetFails(s) \/ SetAnnounce(s)
        PROVE  SkipInv'
    <2>1. OwnStep(s) /\ s \in Procs \ {Sched, AutoRun}
      BY <1>1, SetOwn, Members, Apart
    <2>2. UNCHANGED barred
      BY <1>1 DEF SetRead, SetCommit, SetFails, SetAnnounce, history
    <2> QED BY <2>1, <2>2, SkipKept
  <1>2. ASSUME NEW c \in Lookers, Check(c) PROVE SkipInv'
    <2>1. OwnStep(c) /\ c \in Procs /\ c # AutoRun
      BY <1>2, CheckOwn, Members, Apart
    <2>2. UNCHANGED barred
      BY <1>2 DEF Check, CheckBegins, CheckReads, CheckFetches, CheckStores, history
    <2>3. CASE c # Sched
      BY <2>1, <2>2, <2>3, SkipKept
    <2>4. CASE c = Sched
      <3>1. pc'[Sched] \notin {"guard", "claim"}
        BY <1>0, <1>2, <2>4, FailsGo
        DEF Check, CheckBegins, CheckReads, CheckFetches, CheckStores, Goto, Ends
      <3> QED BY <1>0, <2>1, <2>2, <2>4, <3>1 DEF OwnStep, SkipInv
    <2> QED BY <2>3, <2>4
  <1>3. CASE Wake
    BY <1>3 DEF Wake, history, SkipInv
  <1>4. CASE Tick \/ Rest
    <2>1. pc'[Sched] \notin {"guard", "claim"}
      BY <1>0, <1>4 DEF Tick, Rest, Goto, Ends
    <2>2. OwnStep(Sched) /\ barred'[AutoRun] = barred[AutoRun]
      BY <1>0, <1>4, SchedOwn DEF Tick, Rest, history
    <2> QED BY <1>0, <2>1, <2>2 DEF OwnStep, SkipInv
  <1>5. CASE Gate
    <2> DEFINE t == my[Sched].tag
    <2>0. t \in MaybeTag
      BY <1>0 DEF Jobs
    <2>1. OwnStep(Sched) /\ barred'[AutoRun] = barred[AutoRun]
      BY <1>0, <1>5, SchedOwn DEF Gate
    <2>2. CASE /\ t \notin skipped /\ t # NoTag
               /\ Keeps(Sched, [Blank EXCEPT !.pin = t, !.cadence = my[Sched].cadence])
               /\ barred' = [barred EXCEPT ![Sched] = skipped]
      <3>1. my'[Sched].pin = t
        BY <1>0, <2>0, <2>2 DEF Keeps, Jobs
      <3>2. barred'[Sched] = skipped
        BY <1>0, <2>2
      <3> HIDE DEF t
      <3> QED BY <1>0, <2>1, <2>2, <3>1, <3>2 DEF OwnStep, SkipInv
    <2>3. CASE Goto(Sched, "rest")
      <3>1. pc'[Sched] = "rest"
        BY <1>0, <2>3 DEF Goto
      <3> QED BY <1>0, <2>1, <3>1 DEF OwnStep, SkipInv
    <2> QED BY <1>5, <2>0, <2>2, <2>3, GateChooses
  <1>6. ASSUME NEW p \in Appliers \cup {Sched}, Request(p) PROVE SkipInv'
    <2>1. OwnStep(p) /\ p \in Procs \ {Sched, AutoRun}
      BY <1>6, ApplyOwn, Members, Apart DEF Request
    <2>2. UNCHANGED barred
      BY <1>6 DEF Request, history
    <2> QED BY <2>1, <2>2, SkipKept
  <1>7. ASSUME NEW p \in Appliers \cup {Sched}, Guard(p) PROVE SkipInv'
    <2>1. OwnStep(p) /\ p \in Procs \ {AutoRun} /\ UNCHANGED barred
      BY <1>7, ApplyOwn, Members, Apart DEF Guard
    <2>2. CASE p # Sched
      BY <2>1, <2>2, SkipKept
    <2>3. CASE p = Sched
      <3>1. pc[Sched] = "guard" /\ my' = my
        BY <1>7, <2>3 DEF Guard, Refused, At
      <3> QED BY <1>0, <2>1, <2>3, <3>1 DEF OwnStep, SkipInv
    <2> QED BY <2>2, <2>3
  <1>8. ASSUME NEW p \in Appliers \cup {Sched}, Claim(p) PROVE SkipInv'
    <2>0. p \in Procs \ {AutoRun} /\ pc[p] = "claim"
      BY <1>8, Members, Apart DEF Claim, At
    <2>1. CASE OwnStep(p) /\ Refused(p) /\ UNCHANGED <<running, barred>>
      <3>1. CASE p # Sched
        BY <2>0, <2>1, <3>1, SkipKept
      <3>2. CASE p = Sched
        BY <1>0, <2>0, <2>1, <3>2 DEF Refused, Goto, SkipInv
      <3> QED BY <3>1, <3>2
    <2>2. CASE Launched(p) /\ p = Sched
      <3>1. /\ pc'[Sched] = "rest" /\ pc'[AutoRun] = "run"
            /\ my'[AutoRun].pin = my[Sched].pin
            /\ barred'[AutoRun] = barred[Sched]
        BY <1>0, <2>2 DEF Launched, RunnerOf, Jobs
      <3> QED BY <2>0, <2>2, <3>1 DEF SkipInv
    <2>3. CASE Launched(p) /\ p # Sched
      <3>1. OwnStep(p) /\ UNCHANGED barred
        BY <1>0, <2>3 DEF Launched, RunnerOf, OwnStep
      <3> QED BY <2>0, <2>3, <3>1, SkipKept
    <2> QED BY <1>8, <2>1, <2>2, <2>3, ApplyOwn
  <1>9. ASSUME NEW r \in Runners, Run(r) PROVE SkipInv'
    <2>0. OwnStep(r) /\ r \in Procs \ {Sched} /\ UNCHANGED barred
      BY <1>9, RunOwn, Members, Apart
      DEF Run, RunReads, RunPicks, RunReplaces, RunMarks, RunReleases, history
    <2>1. CASE r # AutoRun
      BY <2>0, <2>1, SkipKept
    <2>2. CASE r = AutoRun
      <3>0. pc'[Sched] = pc[Sched] /\ my'[Sched] = my[Sched]
        BY <1>0, <2>0, <2>2 DEF OwnStep
      <3>1. CASE RunReads(r)
        <4>1. CASE Keeps(r, [my[r] EXCEPT !.channel = channel]) /\ Goto(r, "pick")
          <5>1. pc[r] = "run" /\ pc'[r] = "pick" /\ my'[r].pin = my[r].pin
            BY <1>0, <2>2, <3>1, <4>1 DEF RunReads, Goto, Keeps, At, Jobs
          <5> QED BY <2>0, <2>2, <3>0, <5>1 DEF SkipInv
        <4>2. CASE GivesUp(r)
          <5>1. pc'[r] = "release"
            BY <1>0, <2>2, <4>2 DEF GivesUp, Goto
          <5> QED BY <2>0, <2>2, <3>0, <5>1 DEF SkipInv
        <4> QED BY <3>1, <4>1, <4>2 DEF RunReads
      <3>2. CASE RunPicks(r)
        <4> DEFINE t == PickLatest(my[r].channel)
        <4>1. CASE my[r].pin \in {NoTag, t} /\ Goto(r, "replace")
                   /\ Keeps(r, [Blank EXCEPT !.tag = t, !.pin = my[r].pin])
          <5>1. pc[r] = "pick" /\ pc'[r] = "replace"
            BY <1>0, <2>2, <3>2, <4>1 DEF RunPicks, Goto, At
          <5>2. my'[r].tag = t
            BY <1>0, <2>2, <4>1 DEF Keeps, Jobs
          <5>3. t = my[r].pin
            BY <2>2, <4>1, <5>1 DEF SkipInv
          <5> HIDE DEF t
          <5> QED BY <2>0, <2>2, <3>0, <5>1, <5>2, <5>3 DEF SkipInv
        <4>2. CASE GivesUp(r)
          <5>1. pc'[r] = "release"
            BY <1>0, <2>2, <4>2 DEF GivesUp, Goto
          <5> QED BY <2>0, <2>2, <3>0, <5>1 DEF SkipInv
        <4> QED BY <3>2, <4>1, <4>2 DEF RunPicks
      <3>3. CASE RunReplaces(r)
        <4>1. pc[r] = "replace"
          BY <3>3 DEF RunReplaces, At
        <4>2. \/ pc'[r] = "mark" /\ my'[r] = my[r]
              \/ pc'[r] = "release"
          BY <1>0, <2>2, <3>3 DEF RunReplaces, GivesUp, Goto
        <4> QED BY <2>0, <2>2, <3>0, <4>1, <4>2 DEF SkipInv
      <3>4. CASE RunMarks(r) \/ RunReleases(r)
        <4>1. pc'[r] \notin {"run", "pick", "replace", "mark"}
          BY <1>0, <2>2, <3>4 DEF RunMarks, RunReleases, Goto, Ends
        <4> QED BY <2>0, <2>2, <3>0, <4>1 DEF SkipInv
      <3> QED BY <1>9, <3>1, <3>2, <3>3, <3>4 DEF Run
    <2> QED BY <2>1, <2>2
  <1>10. CASE Mark
    <2>1. pc'[AutoRun] = "idle" /\ OwnStep(AutoRun) /\ barred'[Sched] = barred[Sched]
      BY <1>0, <1>10, MarkOwn DEF Mark, Ends, Goto
    <2> QED BY <1>0, <2>1 DEF OwnStep, SkipInv
  <1>11. CASE Restart
    BY <1>0, <1>11 DEF Restart, SkipInv
  <1>12. CASE (\E t \in Tags : Publish(t) \/ Skip(t)) \/ UNCHANGED vars
    <2>1. UNCHANGED <<pc, my, barred>>
      BY <1>12 DEF Publish, Skip, vars, history
    <2> QED BY <2>1 DEF SkipInv
  <1> QED BY <1>1, <1>2, <1>3, <1>4, <1>5, <1>6, <1>7, <1>8, <1>9, <1>10, <1>11, <1>12 DEF Next

\* An automatic apply installs no release that was on the skip list when the scheduler
\* decided, although it looks for the latest release again.
THEOREM SkipsSafe == Spec => []AutoRespectsSkips
  <1>1. SkipInv => AutoRespectsSkips
    BY DEF SkipInv, AutoRespectsSkips, At
  <1>2. Init => SkipInv
    BY Members DEF Init, SkipInv
  <1> QED BY <1>1, <1>2, InitTyped, NextTyped, NextSkip, PTL DEF Spec

----------------------------------------------------------------------------
(* The cached release.                                                     *)

Announcing == \E s \in Setters : pc[s] = "announce" /\ my[s].changed

\* What a check holds that may still store it, and the cache, are of the channel of the
\* settings, unless a change of it is about to be announced.
ChannelInv ==
    /\ \A s \in Setters : pc[s] = "commit" /\ ~my[s].changed => my[s].channel = channel
    /\ \A c \in Lookers :
         /\ my[c].gen <= gen
         /\ pc[c] = "fetch" /\ my[c].gen = gen /\ ~Announcing => my[c].channel = channel
         /\ pc[c] = "store" /\ my[c].gen = gen /\ ~Announcing /\ my[c].tag # NoTag
              => my[c].tag \in Offers[channel]
    /\ ~Announcing /\ cache # NoTag => cache \in Offers[channel]

\* A step that leaves the channel, the cache and the saves alone, and a check no more
\* than it had.
LEMMA ChannelKept ==
    ASSUME ChannelInv, UNCHANGED <<channel, gen, cache>>,
           \A s \in Setters : pc'[s] = pc[s] /\ my'[s] = my[s],
           \A c \in Lookers :
              /\ my'[c].gen <= gen
              /\ pc'[c] \in {"fetch", "store"} => pc'[c] = pc[c] /\ my'[c] = my[c]
    PROVE  ChannelInv'
  BY DEF ChannelInv, Announcing

LEMMA NextChannel ==
    ASSUME \A s, t \in Setters : s = t
    PROVE  TypeOK /\ ChannelInv /\ [Next]_vars => ChannelInv'
  <1> SUFFICES ASSUME TypeOK, ChannelInv, [Next]_vars PROVE ChannelInv'
    OBVIOUS
  <1>0. /\ pc \in [Procs -> Pcs] /\ my \in [Procs -> Jobs] /\ Blank \in Jobs
        /\ Setters \subseteq Procs /\ Lookers \subseteq Procs /\ Sched \in Procs
        /\ \A p \in Procs : my[p] \in Jobs /\ my[p].gen \in Nat /\ my[p].changed \in BOOLEAN
        /\ Blank.gen = 0 /\ gen \in Nat /\ published \subseteq Tags
    BY Members, BlankJob, BlankIs DEF TypeOK, Jobs
  <1>1. ASSUME NEW p \in Procs \ (Setters \cup Lookers), OwnStep(p),
               UNCHANGED <<channel, gen, cache>>
        PROVE  ChannelInv'
    <2>1. \A q \in Setters \cup Lookers : pc'[q] = pc[q] /\ my'[q] = my[q]
      BY <1>0, <1>1 DEF OwnStep
    <2> QED BY <1>1, <2>1, ChannelKept DEF ChannelInv
  <1>2. ASSUME OwnStep(Sched), UNCHANGED <<channel, gen, cache>>,
               pc'[Sched] \notin {"fetch", "store"}, my'[Sched].gen <= gen
        PROVE  ChannelInv'
    <2>1. /\ \A s \in Setters : pc'[s] = pc[s] /\ my'[s] = my[s]
          /\ \A c \in Lookers \ {Sched} : pc'[c] = pc[c] /\ my'[c] = my[c]
      BY <1>0, <1>2, Apart DEF OwnStep
    <2> QED BY <1>2, <2>1, ChannelKept DEF ChannelInv
  <1>3. ASSUME NEW s \in Setters, SetRead(s) \/ SetCommit(s) \/ SetFails(s) \/ SetAnnounce(s)
        PROVE  ChannelInv'
    <2>0. /\ OwnStep(s) /\ s \in Procs /\ Setters = {s}
          /\ \A c \in Lookers : pc'[c] = pc[c] /\ my'[c] = my[c]
      BY <1>0, <1>3, SetOwn, Apart DEF OwnStep
    <2>1. CASE SetRead(s) \/ SetFails(s)
      <3>1. UNCHANGED <<channel, gen, cache>> /\ pc[s] # "announce" /\ pc'[s] # "announce"
        BY <1>0, <2>0, <2>1 DEF SetRead, SetFails, settings, memory, Goto, Ends, At
      <3>2. pc'[s] = "commit" /\ ~my'[s].changed => my'[s].channel = channel
        <4>1. CASE SetRead(s)
          <5>1. PICK ch \in Channels, m \in Modes, changed \in BOOLEAN :
                   /\ ch # channel => changed
                   /\ my' = [my EXCEPT ![s] = [Blank EXCEPT !.channel = ch, !.mode = m,
                                                            !.changed = changed]]
            BY <4>1 DEF SetRead
          <5>2. my'[s].channel = ch /\ my'[s].changed = changed
            BY <1>0, <2>0, <5>1 DEF Jobs
          <5> QED BY <5>1, <5>2
        <4>2. CASE SetFails(s)
          BY <1>0, <2>0, <4>2 DEF SetFails, Ends, Goto
        <4> QED BY <2>1, <4>1, <4>2
      <3>3. ~Announcing /\ ~Announcing'
        BY <2>0, <3>1 DEF Announcing
      <3> QED BY <2>0, <3>1, <3>2, <3>3 DEF ChannelInv
    <2>2. CASE SetCommit(s)
      <3>1. /\ pc[s] = "commit" /\ pc'[s] = "announce" /\ my' = my
            /\ channel' = my[s].channel /\ UNCHANGED <<gen, cache>>
        BY <1>0, <2>0, <2>2 DEF SetCommit, Goto, At, memory
      <3>2. CASE my[s].changed
        <4>1. Announcing'
          BY <3>1, <3>2 DEF Announcing
        <4> QED BY <2>0, <3>1, <4>1 DEF ChannelInv
      <3>3. CASE ~my[s].changed
        <4>1. channel' = channel /\ ~Announcing
          BY <2>0, <3>1, <3>3 DEF ChannelInv, Announcing
        <4> QED BY <2>0, <3>1, <4>1 DEF ChannelInv
      <3> QED BY <3>2, <3>3
    <2>3. CASE SetAnnounce(s)
      <3>1. pc[s] = "announce" /\ pc'[s] = "idle" /\ channel' = channel
        BY <1>0, <2>0, <2>3 DEF SetAnnounce, Ends, Goto, At, settings
      <3>2. CASE my[s].changed
        <4>1. cache' = NoTag /\ gen' = gen + 1
          BY <2>3, <3>2 DEF SetAnnounce
        <4>2. \A c \in Lookers : my'[c].gen <= gen' /\ my'[c].gen # gen'
          BY <1>0, <2>0, <4>1 DEF ChannelInv
        <4> QED BY <2>0, <3>1, <4>1, <4>2 DEF ChannelInv
      <3>3. CASE ~my[s].changed
        <4>1. UNCHANGED <<cache, gen>>
          BY <2>3, <3>3 DEF SetAnnounce
        <4>2. ~Announcing
          BY <2>0, <3>3 DEF Announcing
        <4> QED BY <2>0, <3>1, <4>1, <4>2 DEF ChannelInv
      <3> QED BY <3>2, <3>3
    <2> QED BY <1>3, <2>1, <2>2, <2>3
  <1>4. ASSUME NEW c \in Lookers, Check(c) PROVE ChannelInv'
    <2>0. /\ OwnStep(c) /\ c \in Procs
          /\ \A s \in Setters : pc'[s] = pc[s] /\ my'[s] = my[s]
          /\ \A d \in Lookers \ {c} : pc'[d] = pc[d] /\ my'[d] = my[d]
      BY <1>0, <1>4, CheckOwn, Apart DEF OwnStep
    <2>A. Announcing' <=> Announcing
      BY <2>0 DEF Announcing
    <2>1. CASE CheckBegins(c)
      <3>1. /\ my'[c].gen = gen /\ pc'[c] = "config"
            /\ UNCHANGED <<channel, gen, cache>>
        BY <1>0, <2>0, <2>1 DEF CheckBegins, Keeps, Goto, Jobs, settings, memory
      <3> QED BY <1>0, <2>0, <3>1, ChannelKept DEF ChannelInv
    <2>F. ASSUME CheckFails(c), UNCHANGED <<channel, gen, cache>> PROVE ChannelInv'
      <3>1. pc'[c] \notin {"fetch", "store"} /\ my'[c].gen <= gen
        BY <1>0, <2>F, FailsGo, BlankIs DEF ChannelInv
      <3> QED BY <2>0, <2>F, <3>1, ChannelKept DEF ChannelInv
    <2>2. CASE CheckReads(c)
      <3>0. UNCHANGED <<channel, gen, cache>>
        BY <2>2 DEF CheckReads, settings, memory
      <3>1. CASE Keeps(c, [my[c] EXCEPT !.channel = channel]) /\ Goto(c, "fetch")
        <4>1. my'[c].gen = my[c].gen /\ my'[c].channel = channel /\ pc'[c] = "fetch"
          BY <1>0, <2>0, <3>1 DEF Keeps, Goto, Jobs
        <4> QED BY <1>0, <2>0, <2>A, <3>0, <4>1 DEF ChannelInv
      <3> QED BY <2>2, <2>F, <3>0, <3>1 DEF CheckReads
    <2>3. CASE CheckFetches(c)
      <3> DEFINE t == PickLatest(my[c].channel)
      <3>1. UNCHANGED <<channel, gen, cache>> /\ pc[c] = "fetch"
        BY <2>3 DEF CheckFetches, settings, memory, At
      <3>2. CASE Goto(c, "store") /\ Keeps(c, [Blank EXCEPT !.tag = t, !.gen = my[c].gen,
                                                            !.cadence = my[c].cadence])
        <4>1. my'[c].gen = my[c].gen /\ my'[c].tag = t /\ pc'[c] = "store"
          BY <1>0, <2>0, <3>2 DEF Keeps, Goto, Jobs
        <4>2. my[c].channel \in Channels
          BY <1>0, <2>0 DEF Jobs
        <4>3. t # NoTag => t \in Offers[my[c].channel]
          BY <1>0, <4>2, PickLatestTag
        <4> HIDE DEF t
        <4> QED BY <1>0, <2>0, <2>A, <3>1, <4>1, <4>3 DEF ChannelInv
      <3> QED BY <2>3, <2>F, <3>1, <3>2 DEF CheckFetches
    <2>4. CASE CheckStores(c)
      <3>1. /\ UNCHANGED <<channel, gen>> /\ pc[c] = "store"
            /\ cache' = IF gen = my[c].gen THEN my[c].tag ELSE cache
        BY <2>4 DEF CheckStores, settings, At
      <3>2. pc'[c] \notin {"fetch", "store"} /\ my'[c].gen = 0
        <4>1. CASE c = Sched
          BY <1>0, <2>0, <2>4, <4>1 DEF CheckStores, Keeps, Goto, Jobs
        <4>2. CASE c # Sched
          BY <1>0, <2>0, <2>4, <4>2 DEF CheckStores, Ends, Keeps, Goto
        <4> QED BY <4>1, <4>2
      <3> QED BY <1>0, <2>0, <2>A, <3>1, <3>2 DEF ChannelInv
    <2> QED BY <1>4, <2>1, <2>2, <2>3, <2>4 DEF Check
  <1>5. CASE Wake
    <2>1. UNCHANGED <<channel, gen, cache, pc, my>>
      BY <1>5 DEF Wake, settings, memory
    <2> QED BY <2>1 DEF ChannelInv, Announcing
  <1>6. CASE Tick \/ Gate \/ Rest
    <2>1. UNCHANGED <<channel, gen, cache>>
      BY <1>6 DEF Tick, Gate, Rest, settings, memory
    <2>2. pc'[Sched] \notin {"fetch", "store"}
      BY <1>0, <1>6 DEF Tick, Gate, Rest, Goto, Ends
    <2>3. my'[Sched].gen = 0
      <3>1. CASE Tick
        BY <1>0, <3>1 DEF Tick, Keeps, Jobs
      <3>2. CASE Gate
        BY <1>0, <3>2 DEF Gate, Keeps, Jobs
      <3>3. CASE Rest
        BY <1>0, <3>3 DEF Rest, Ends, Keeps
      <3> QED BY <1>6, <3>1, <3>2, <3>3
    <2> QED BY <1>0, <1>2, <1>6, <2>1, <2>2, <2>3, SchedOwn
  <1>7. ASSUME NEW p \in Appliers \cup {Sched}, Request(p) \/ Guard(p) \/ Claim(p)
        PROVE  ChannelInv'
    <2>0. p \in Procs /\ UNCHANGED <<channel, gen, cache>>
      BY <1>7, Members DEF Request, Guard, Claim, settings, memory
    <2>1. CASE p # Sched /\ OwnStep(p)
      BY <1>1, <2>0, <2>1, Apart DEF Runners
    <2>2. CASE p = Sched /\ OwnStep(p) /\ ~Launched(p)
      <3>1. my'[Sched] = my[Sched] /\ pc'[Sched] \in {"claim", "rest"}
        BY <1>0, <1>7, <2>2 DEF Request, Guard, Claim, Refused, Goto
      <3> QED BY <1>2, <2>0, <2>2, <3>1, Members DEF ChannelInv
    <2>3. CASE Launched(p)
      <3>1. RunnerOf(p) \in Procs \ (Setters \cup Lookers)
        BY Members, Apart DEF RunnerOf
      <3>2. \A q \in Setters \cup Lookers : my'[q] = my[q]
        BY <1>0, <2>3, <3>1 DEF Launched
      <3>3. \A q \in (Setters \cup Lookers) \ {Sched} : pc'[q] = pc[q]
        BY <1>0, <2>3, <3>1, Apart DEF Launched, RunnerOf
      <3>4. pc'[Sched] = pc[Sched] \/ pc'[Sched] = "rest"
        BY <1>0, <2>3, <3>1 DEF Launched, RunnerOf
      <3> QED BY <2>0, <3>2, <3>3, <3>4, Apart, ChannelKept DEF ChannelInv
    <2> QED BY <1>7, <2>1, <2>2, <2>3, ApplyOwn
  <1>8. ASSUME NEW r \in Runners, Run(r) PROVE ChannelInv'
    <2>1. UNCHANGED <<channel, gen, cache>>
      BY <1>8 DEF Run, RunReads, RunPicks, RunReplaces, RunMarks, RunReleases, settings, memory
    <2> QED BY <1>1, <1>8, <2>1, RunOwn, Members, Apart
  <1>9. CASE Mark
    <2>1. UNCHANGED <<channel, gen, cache>>
      BY <1>9 DEF Mark, memory
    <2> QED BY <1>1, <1>9, <2>1, MarkOwn, Members, Apart
  <1>10. CASE Restart
    <2>1. /\ \A p \in Procs : pc'[p] = "idle" /\ my'[p] = Blank
          /\ gen' = 0 /\ cache' = NoTag
      BY <1>10 DEF Restart
    <2> QED BY <1>0, <2>1 DEF ChannelInv
  <1>11. CASE (\E t \in Tags : Publish(t) \/ Skip(t)) \/ UNCHANGED vars
    <2>1. UNCHANGED <<channel, gen, cache, pc, my>>
      BY <1>11 DEF Publish, Skip, vars, settings, memory
    <2> QED BY <2>1 DEF ChannelInv, Announcing
  <1> QED BY <1>3, <1>4, <1>5, <1>6, <1>7, <1>8, <1>9, <1>10, <1>11 DEF Next

\* If configurations are saved one at a time, the cached release is one of the
\* configured channel, whatever checks a change of channel overtakes.
THEOREM CacheSafe ==
    ASSUME \A s, t \in Setters : s = t
    PROVE  Spec => []CacheMatchesChannel
  <1>1. TypeOK /\ ChannelInv => CacheMatchesChannel
    BY DEF ChannelInv, CacheMatchesChannel, Announcing, At
  <1>2. Init => ChannelInv
    BY Members, BlankIs DEF Init, ChannelInv
  <1> QED BY <1>1, <1>2, InitTyped, NextTyped, NextChannel, PTL DEF Spec

=============================================================================
