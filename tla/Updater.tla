-------------------------------- MODULE Updater --------------------------------
(***************************************************************************)
(* The self-updater (internal/updater/updater.go): what the settings table *)
(* says of the channel and the automation, the cached answer of the last   *)
(* check, and the binary an apply has put on the disk for the next start.  *)
(*                                                                         *)
(* Administrators save the configuration, check and apply; the scheduler   *)
(* checks on its own and may apply what it found; releases are published   *)
(* meanwhile, and the process may stop and start again at any step.        *)
(*                                                                         *)
(* A tag is a number, a release newer than another has a greater one.      *)
(***************************************************************************)
EXTENDS Integers, FiniteSets

CONSTANTS
    Setters,   \* requests that save the configuration
    Checkers,  \* requests that check for an update
    Appliers,  \* requests that apply one
    Channels,  \* the channels in use
    MaxTag,    \* tags are 1..MaxTag
    Offers,    \* Offers[ch]: the tags channel ch carries
    Modes,     \* the modes in use: subset of AllModes
    MaxSets,   \* bound on the configurations saved
    Faults     \* what may go wrong: subset of AllFaults

Sched == "scheduler"   \* StartScheduler's loop
AutoRun  == "auto"        \* the goroutine applyAuto starts
NoTag == 0
\* DefaultCheckIntervalHours, as the interval of a scheduler that could not read its own.
Default == -1

AllFaults == {"settings", "network", "install", "restart"}

\* off: Enabled is false.  check: AutoCheck too.  update: AutoUpdate as well.
AllModes == {"off", "manual", "check", "update"}

Tags     == 1..MaxTag
MaybeTag == 0..MaxTag
Deciders == {Sched, AutoRun}
Runners  == Appliers \cup {AutoRun}
Lookers  == Checkers \cup {Sched}
Procs    == Setters \cup Lookers \cup Runners

ASSUME OffersKnown  == Offers \in [Channels -> SUBSET Tags]
ASSUME ModesKnown   == Modes \subseteq AllModes
ASSUME BoundsKnown  == MaxTag \in Nat /\ MaxSets \in Nat /\ Faults \subseteq AllFaults
ASSUME ProcsApart   ==
    /\ Setters \cap (Checkers \cup Appliers) = {} /\ Checkers \cap Appliers = {}
    /\ {Sched, AutoRun} \cap (Setters \cup Checkers \cup Appliers) = {} /\ Sched # AutoRun

Pcs == {"idle", "commit", "announce", "gen", "config", "fetch", "store", "gate", "guard",
        "claim", "rest", "run", "pick", "replace", "mark", "release", "marker"}

\* What a goroutine holds.  A setter: the channel and mode it was given and whether
\* they change the channel.  A check: the generation it began at, the channel it
\* read and the tag it found.  An apply: its channel, its tag and the tag it is
\* pinned to.  The scheduler: the cadence it read at the tick.
Jobs == [channel : Channels, mode : AllModes, changed : BOOLEAN, gen : Nat,
         tag : MaybeTag, pin : MaybeTag, cadence : Nat]

VARIABLES
    channel, mode,   \* the settings rows
    cadence,         \* updater.check_interval_hours: every save writes another
    skipped,         \* updater.skipped_versions
    marker,          \* updater.last_auto_applied_version
    published,       \* the tags GitHub lists
    version,         \* the tag this process was built from
    binary,          \* the tag of the executable on the disk
    gen,             \* configGen
    cache,           \* latestVersion, NoTag when it is empty
    running,         \* applyRunning
    restartRequired, pending,
    pulse,           \* configChange holds a pulse
    interval,        \* the cadence the scheduler's timer was set to, or Default
    pc, my,
    \* bookkeeping of the properties
    barred,          \* barred[p]: the skip list when the gate let p's apply through
    late,            \* applies past their guard when restartRequired was set
    installed        \* every tag ever put on the disk

settings == <<channel, mode, cadence, skipped, marker>>
memory   == <<gen, cache, running, restartRequired, pending>>
world    == <<published, version, binary, installed>>
wakeup   == <<pulse, interval>>
history  == <<barred, late>>
vars     == <<settings, memory, world, wakeup, history, pc, my>>

Goto(p, where) == pc' = [pc EXCEPT ![p] = where]
At(p, where)   == pc[p] = where

\* (variant) The release after the latest is taken for it.
PickLatestNext(ch) ==
    LET there == published \cap Offers[ch] IN
    IF there = {} THEN NoTag ELSE 1 + CHOOSE t \in there : \A u \in there : u <= t

\* pickLatest: the greatest tag of the channel, or none.
PickLatest(ch) ==
    LET there == published \cap Offers[ch] IN
    IF there = {} THEN NoTag ELSE CHOOSE t \in there : \A u \in there : u <= t

\* newerThan, of the running version.
Newer(t) == t # NoTag /\ t > version

Blank == [channel |-> CHOOSE ch \in Channels : TRUE, mode |-> "off", changed |-> FALSE,
          gen |-> 0, tag |-> NoTag, pin |-> NoTag, cadence |-> 0]

\* What the scheduler sets its timer to when it starts and when it is woken: a GetConfig
\* that fails falls back on the default.
IntervalRead == {cadence} \cup (IF "settings" \in Faults THEN {Default} ELSE {})

\* What p need not remember is dropped.
Keeps(p, kept) == my' = [my EXCEPT ![p] = kept]

\* The goroutine of p ends.
Ends(p) == Goto(p, "idle") /\ Keeps(p, Blank)

----------------------------------------------------------------------------
Init ==
    /\ channel \in Channels /\ mode \in Modes
    /\ cadence = 0 /\ interval \in IntervalRead
    /\ skipped = {} /\ marker = NoTag
    /\ version = NoTag /\ binary = NoTag
    /\ published \in SUBSET Tags
    /\ installed = {}
    /\ gen = 0 /\ cache = NoTag
    /\ running = FALSE /\ restartRequired = FALSE /\ pending = NoTag
    /\ pulse = FALSE
    /\ pc = [p \in Procs |-> "idle"]
    /\ my = [p \in Procs |-> Blank]
    /\ barred = [p \in Deciders |-> {}] /\ late = {}

----------------------------------------------------------------------------
(* SetConfig.                                                              *)

\* The previous channel is read first; a read that fails counts as a change.
SetRead(s) ==
    /\ At(s, "idle")
    /\ cadence + Cardinality({q \in Setters : At(q, "commit")}) < MaxSets
    /\ \E ch \in Channels, m \in Modes :
         \E changed \in {channel # ch} \cup (IF "settings" \in Faults THEN {TRUE} ELSE {}) :
            my' = [my EXCEPT ![s] = [Blank EXCEPT !.channel = ch, !.mode = m,
                                                  !.changed = changed]]
    /\ Goto(s, "commit")
    /\ UNCHANGED <<settings, memory, world, wakeup, history>>

\* One transaction writes every row, or none.
SetCommit(s) ==
    /\ At(s, "commit")
    /\ channel' = my[s].channel /\ mode' = my[s].mode
    /\ cadence' = cadence + 1
    /\ Goto(s, "announce")
    /\ UNCHANGED <<skipped, marker, memory, world, wakeup, history, my>>

SetFails(s) ==
    /\ At(s, "commit") /\ "settings" \in Faults
    /\ Ends(s)
    /\ UNCHANGED <<settings, memory, world, wakeup, history>>

\* (variant) The pulse is lost when the scheduler is not waiting for it.
SetAnnounceUnbuffered(s) ==
    /\ At(s, "announce")
    /\ IF my[s].changed THEN cache' = NoTag /\ gen' = gen + 1 ELSE UNCHANGED <<cache, gen>>
    /\ pulse' = At(Sched, "idle")
    /\ Ends(s)
    /\ UNCHANGED <<settings, running, restartRequired, pending, world, interval, history>>

\* On a change of channel the cache is emptied and the generation moves on in one
\* critical section; then the non-blocking send on a channel of capacity one.
SetAnnounce(s) ==
    /\ At(s, "announce")
    /\ IF my[s].changed THEN cache' = NoTag /\ gen' = gen + 1 ELSE UNCHANGED <<cache, gen>>
    /\ pulse' = TRUE
    /\ Ends(s)
    /\ UNCHANGED <<settings, running, restartRequired, pending, world, interval, history>>

----------------------------------------------------------------------------
(* Check, from a request (it starts from "idle") or the scheduler ("gen"). *)

\* The generation is captured before the configuration is read.
CheckBegins(c) ==
    /\ At(c, IF c = Sched THEN "gen" ELSE "idle")
    /\ Keeps(c, [my[c] EXCEPT !.gen = gen])
    /\ Goto(c, "config")
    /\ UNCHANGED <<settings, memory, world, wakeup, history>>

\* A check that fails leaves nothing behind.
CheckFails(c) == IF c = Sched THEN Goto(c, "rest") /\ UNCHANGED my ELSE Ends(c)

CheckReads(c) ==
    /\ At(c, "config")
    /\ \/ Keeps(c, [my[c] EXCEPT !.channel = channel]) /\ Goto(c, "fetch")
       \/ "settings" \in Faults /\ CheckFails(c)
    /\ UNCHANGED <<settings, memory, world, wakeup, history>>

\* (variant) The generation is captured when the releases arrive.
CheckFetchesWithGen(c) ==
    /\ At(c, "fetch")
    /\ Keeps(c, [Blank EXCEPT !.tag = PickLatest(my[c].channel), !.gen = gen,
                             !.cadence = my[c].cadence])
    /\ Goto(c, "store")
    /\ UNCHANGED <<settings, memory, world, wakeup, history>>

\* fetchReleases and pickLatest; when that fails there is nothing to store.
CheckFetches(c) ==
    /\ At(c, "fetch")
    /\ \/ /\ Keeps(c, [Blank EXCEPT !.tag = PickLatest(my[c].channel), !.gen = my[c].gen,
                                   !.cadence = my[c].cadence])
          /\ Goto(c, "store")
       \/ "network" \in Faults /\ CheckFails(c)
    /\ UNCHANGED <<settings, memory, world, wakeup, history>>

\* storeCheckResult: a check overtaken by a change of channel stores nothing, and
\* its caller has the result all the same.
CheckStores(c) ==
    /\ At(c, "store")
    /\ cache' = IF gen = my[c].gen THEN my[c].tag ELSE cache
    /\ IF c = Sched THEN Goto(c, "gate") /\ Keeps(c, [my[c] EXCEPT !.gen = 0]) ELSE Ends(c)
    /\ UNCHANGED <<settings, gen, running, restartRequired, pending, world, wakeup, history>>

Check(c) == CheckBegins(c) \/ CheckReads(c) \/ CheckFetches(c) \/ CheckStores(c)

----------------------------------------------------------------------------
(* StartScheduler.                                                         *)

\* A configuration change only resets the timer; the pulse is gone whether or not the
\* configuration can be read.
Wake ==
    /\ At(Sched, "idle") /\ pulse
    /\ pulse' = FALSE
    /\ interval' \in IntervalRead
    /\ UNCHANGED <<settings, memory, world, history, pc, my>>

\* (A tick that cannot read the configuration sleeps again for the same interval.)
Tick ==
    /\ At(Sched, "idle")
    /\ Keeps(Sched, [Blank EXCEPT !.cadence = cadence])
    /\ Goto(Sched, IF mode \in {"check", "update"} THEN "gen" ELSE "rest")
    /\ UNCHANGED <<settings, memory, world, wakeup, history>>

\* The configuration is read again, and maybeAutoApply decides; when it cannot be read
\* nothing is applied.
Gate ==
    /\ At(Sched, "gate")
    /\ LET t == my[Sched].tag
           ok == mode = "update" /\ Newer(t) /\ t \notin skipped IN
       \E go \in {ok} \cup (IF "settings" \in Faults THEN {FALSE} ELSE {}) :
       /\ Keeps(Sched, [Blank EXCEPT !.pin = IF go THEN t ELSE NoTag,
                                     !.cadence = my[Sched].cadence])
       /\ barred' = [barred EXCEPT ![Sched] = IF go THEN skipped ELSE {}]
       /\ Goto(Sched, IF go THEN "guard" ELSE "rest")
    /\ UNCHANGED <<settings, memory, world, wakeup, late>>

\* The next interval is the one of the configuration read at the tick.
Rest ==
    /\ At(Sched, "rest")
    /\ interval' = my[Sched].cadence
    /\ Ends(Sched)
    /\ barred' = [barred EXCEPT ![Sched] = {}]
    /\ UNCHANGED <<settings, memory, world, pulse, late>>

----------------------------------------------------------------------------
(* Apply and applyAuto.                                                    *)

\* handlePostUpdateApply: a disabled updater refuses.
Request(p) ==
    /\ p \in Appliers /\ At(p, "idle")
    /\ mode # "off"
    /\ Goto(p, "guard")
    /\ UNCHANGED <<settings, memory, world, wakeup, history, my>>

\* The goroutine that runs the apply p asked for.
RunnerOf(p) == IF p = Sched THEN AutoRun ELSE p

Refused(p) == IF p = Sched THEN Goto(p, "rest") /\ UNCHANGED my ELSE Ends(p)

\* (variant) A staged binary does not stop another apply.
GuardSkipped(p) ==
    /\ At(p, "guard")
    /\ Goto(p, "claim")
    /\ late' = late \ {RunnerOf(p)}
    /\ UNCHANGED <<settings, memory, world, wakeup, barred, my>>

\* restartRequired is read, and its lock let go, before applyRunning is claimed.
Guard(p) ==
    /\ At(p, "guard")
    /\ IF restartRequired THEN Refused(p) /\ UNCHANGED late
                          ELSE /\ Goto(p, "claim")
                               /\ late' = late \ {RunnerOf(p)}
                               /\ UNCHANGED my
    /\ UNCHANGED <<settings, memory, world, wakeup, barred>>

\* Where p and its runner are once the apply was launched.
Launched(p) ==
    /\ pc' = IF p = Sched THEN [pc EXCEPT ![Sched] = "rest", ![AutoRun] = "run"]
                           ELSE [pc EXCEPT ![p] = "run"]
    /\ my' = [my EXCEPT ![RunnerOf(p)] = [Blank EXCEPT !.pin = my[p].pin]]
    /\ barred' = IF p = Sched THEN [barred EXCEPT ![AutoRun] = barred[Sched]] ELSE barred

\* (variant) The claim is a test and a store, not a compare-and-swap.
ClaimUnchecked(p) ==
    /\ At(p, "claim")
    /\ p = Sched => At(AutoRun, "idle")
    /\ running' = TRUE
    /\ Launched(p)
    /\ UNCHANGED <<settings, gen, cache, restartRequired, pending, world, wakeup,
                   late>>

\* The compare-and-swap of applyRunning.  (Bound: an automatic apply has written its
\* marker, its last step, before the tick an hour or more later starts another.)
Claim(p) ==
    /\ At(p, "claim")
    /\ IF running
       THEN Refused(p) /\ UNCHANGED <<running, barred>>
       ELSE (p = Sched => At(AutoRun, "idle")) /\ running' = TRUE /\ Launched(p)
    /\ UNCHANGED <<settings, gen, cache, restartRequired, pending, world, wakeup,
                   late>>

----------------------------------------------------------------------------
(* runApply.                                                               *)

\* Whatever goes wrong, nothing is installed.
GivesUp(r) == Goto(r, "release") /\ Keeps(r, [Blank EXCEPT !.pin = my[r].pin])

RunReads(r) ==
    /\ At(r, "run")
    /\ \/ Keeps(r, [my[r] EXCEPT !.channel = channel]) /\ Goto(r, "pick")
       \/ "settings" \in Faults /\ GivesUp(r)
    /\ UNCHANGED <<settings, memory, world, wakeup, history>>

\* (variant) The pin is not compared.
RunPicksAny(r) ==
    /\ At(r, "pick")
    /\ LET t == PickLatest(my[r].channel) IN
       \/ /\ Newer(t)
          /\ Keeps(r, [Blank EXCEPT !.tag = t, !.pin = my[r].pin])
          /\ Goto(r, "replace")
       \/ (~Newer(t) \/ "network" \in Faults) /\ GivesUp(r)
    /\ UNCHANGED <<settings, memory, world, wakeup, history>>

\* The latest release now; a pinned apply installs no other than its pin.
RunPicks(r) ==
    /\ At(r, "pick")
    /\ LET t == PickLatest(my[r].channel)
           wanted == Newer(t) /\ my[r].pin \in {NoTag, t} IN
       \/ /\ wanted
          /\ Keeps(r, [Blank EXCEPT !.tag = t, !.pin = my[r].pin])
          /\ Goto(r, "replace")
       \/ (~wanted \/ "network" \in Faults) /\ GivesUp(r)
    /\ UNCHANGED <<settings, memory, world, wakeup, history>>

\* The archive is downloaded and checked, then atomicReplaceFile.
RunReplaces(r) ==
    /\ At(r, "replace")
    /\ \/ /\ binary' = my[r].tag
          /\ installed' = installed \cup {my[r].tag}
          /\ Goto(r, "mark")
          /\ UNCHANGED my
       \/ "install" \in Faults /\ GivesUp(r) /\ UNCHANGED <<binary, installed>>
    /\ UNCHANGED <<settings, memory, published, version, wakeup, history>>

\* markRestartRequired.
RunMarks(r) ==
    /\ At(r, "mark")
    /\ restartRequired' = TRUE
    /\ pending' = my[r].tag
    /\ late' = late \cup {RunnerOf(p) : p \in {q \in Appliers \cup {Sched} : At(q, "claim")}}
    /\ Keeps(r, [my[r] EXCEPT !.tag = NoTag])
    /\ Goto(r, "release")
    /\ UNCHANGED <<settings, gen, cache, running, world, wakeup, barred>>

\* The deferred Store(0).
RunReleases(r) ==
    /\ At(r, "release")
    /\ running' = FALSE
    /\ IF r = AutoRun THEN Goto(r, "marker") /\ UNCHANGED my ELSE Ends(r)
    /\ UNCHANGED <<settings, gen, cache, restartRequired, pending, world, wakeup, history>>

\* (variant) The marker is written whatever became of the apply.
MarkAlways ==
    /\ At(AutoRun, "marker")
    /\ marker' = my[AutoRun].pin
    /\ Ends(AutoRun)
    /\ barred' = [barred EXCEPT ![AutoRun] = {}]
    /\ UNCHANGED <<channel, mode, cadence, skipped, memory, world, wakeup, late>>

\* The automatic apply records its tag when that is what awaits the restart.
Mark ==
    /\ At(AutoRun, "marker")
    /\ \/ /\ restartRequired /\ pending = my[AutoRun].pin
          /\ marker' = my[AutoRun].pin
       \/ /\ ~(restartRequired /\ pending = my[AutoRun].pin) \/ "settings" \in Faults
          /\ UNCHANGED marker
    /\ Ends(AutoRun)
    /\ barred' = [barred EXCEPT ![AutoRun] = {}]
    /\ UNCHANGED <<channel, mode, cadence, skipped, memory, world, wakeup, late>>

Run(r) ==
    \/ RunReads(r) \/ RunPicks(r) \/ RunReplaces(r) \/ RunMarks(r) \/ RunReleases(r)

----------------------------------------------------------------------------
(* The world.                                                              *)

Publish(t) ==
    /\ t \in Tags \ published
    /\ published' = published \cup {t}
    /\ UNCHANGED <<settings, memory, version, binary, installed, wakeup, history, pc, my>>

\* AddSkippedVersion and RemoveSkippedVersion: read and written under one mutex.
Skip(t) ==
    /\ t \in published
    /\ skipped' = IF t \in skipped THEN skipped \ {t} ELSE skipped \cup {t}
    /\ UNCHANGED <<channel, mode, cadence, marker, memory, world, wakeup, history, pc, my>>

\* The process stops at any step and starts again from the binary on the disk.
Restart ==
    /\ "restart" \in Faults
    /\ version' = binary
    /\ gen' = 0 /\ cache' = NoTag
    /\ running' = FALSE /\ restartRequired' = FALSE /\ pending' = NoTag
    /\ pulse' = FALSE /\ interval' \in IntervalRead
    /\ pc' = [p \in Procs |-> "idle"]
    /\ my' = [p \in Procs |-> Blank]
    /\ barred' = [p \in Deciders |-> {}] /\ late' = {}
    /\ UNCHANGED <<settings, published, binary, installed>>

Next ==
    \/ \E s \in Setters : SetRead(s) \/ SetCommit(s) \/ SetFails(s) \/ SetAnnounce(s)
    \/ \E c \in Lookers : Check(c)
    \/ Wake \/ Tick \/ Gate \/ Rest
    \/ \E p \in Appliers \cup {Sched} : Request(p) \/ Guard(p) \/ Claim(p)
    \/ \E r \in Runners : Run(r)
    \/ Mark
    \/ \E t \in Tags : Publish(t) \/ Skip(t)
    \/ Restart

Spec == Init /\ [][Next]_vars

----------------------------------------------------------------------------
(* Properties.                                                             *)

\* Types.
TypeOK ==
    /\ channel \in Channels /\ mode \in AllModes /\ cadence \in Nat
    /\ skipped \subseteq Tags /\ marker \in MaybeTag
    /\ published \subseteq Tags /\ version \in MaybeTag /\ binary \in MaybeTag
    /\ gen \in Nat /\ cache \in MaybeTag
    /\ running \in BOOLEAN /\ restartRequired \in BOOLEAN /\ pending \in MaybeTag
    /\ pulse \in BOOLEAN /\ interval \in Nat \cup {Default}
    /\ pc \in [Procs -> Pcs] /\ my \in [Procs -> Jobs]
    /\ barred \in [Deciders -> SUBSET Tags] /\ late \subseteq Runners
    /\ installed \subseteq MaybeTag

\* The cached release is one of the configured channel, whatever checks overlapped
\* the change of channel, once the change has emptied the cache (configGen,
\* storeCheckResult).
CacheMatchesChannel ==
    (\A s \in Setters : ~(At(s, "announce") /\ my[s].changed)) /\ cache # NoTag
        => cache \in Offers[channel]

\* What an automatic apply puts on the disk was not on the skip list when the
\* scheduler decided, although the apply looks for the latest release again
\* (pinnedVersion).
AutoRespectsSkips == At(AutoRun, "mark") => my[AutoRun].tag \notin barred[AutoRun]

\* Status names the binary that really awaits the restart, also while applies
\* compete (applyRunning): it never promises a tag another apply has overwritten.
PendingIsOnDisk ==
    restartRequired /\ (\A r \in Runners : ~At(r, "mark")) => pending = binary

\* An apply that begins after a binary was staged does not replace it: only one
\* that had already read restartRequired may (ErrRestartRequired).
StagedStays ==
    [][\A r \in Runners :
          restartRequired /\ At(r, "replace") /\ pc'[r] = "mark" => r \in late]_vars

\* The marker of the last automatic apply never names a release that was not
\* installed (applyAuto).
MarkerWasInstalled == marker # NoTag => marker \in installed

\* The scheduler never sleeps on the interval of an older configuration without a
\* wake-up on its way, however the saves overlap its ticks (configChange: "coalescing
\* rapid back-to-back changes is correct"); where it could not read the new one it sleeps
\* on the default, until the next tick.
WakeUpIsDue ==
    interval \notin {cadence, Default} => pulse \/ \E s \in Setters : At(s, "announce")

\* What the code does not give: that a wake-up sets the timer to the interval of the
\* settings ("a cadence change takes effect on the very next scheduler iteration").
WakeUpTakesEffect == [][pulse /\ ~pulse' => interval' = cadence']_vars

\* What the code does not give: "without this guard a second Apply call would treat
\* the same release as newer and rerun the full download/replace path on top of the
\* already-staged binary"; with it, a second call still may.
StagedStaysAlways ==
    [][\A r \in Runners : ~(restartRequired /\ At(r, "replace") /\ pc'[r] = "mark")]_vars

\* What the code does not give: that a version skipped while an automatic apply is
\* under way is not installed.
SkipIsHonoured ==
    [][At(AutoRun, "replace") /\ pc'[AutoRun] = "mark" => my[AutoRun].tag \notin skipped]_vars

=============================================================================
