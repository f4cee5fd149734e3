# A TLA+ verification of Stillwater

Stillwater (`src/`) is a self-hosted service, one Go process over one SQLite
database, that keeps the metadata and artwork of a music library and pushes both
to Emby, Jellyfin and Lidarr.  The modules here model the parts of it that run
against each other: pushes, saves and deletes of the same files; rule
evaluations, fixes and operator decisions on the same rows; probes and toggles
of the same peers; saves of the updater's settings and the applies they configure;
a prune and the sweeps that count what it deletes.  TLC checks them on small instances; TLAPS proves some of
their invariants for every value of the constants.

To run: `tlc -config X.cfg M.tla` with the module `PROJECT.json` names for the run
(`MCY` where an instance needs definitions or symmetry, else `Y` itself), `tlapm
Z_proofs.tla` for the proofs.

## 1. Inventory

What follows is from the source under `src/internal` and `src/cmd/stillwater`.

| Component | State it keeps | Operations | Interacts through |
|---|---|---|---|
| Artwork publishing (`publish/publisher.go`) | image files on disk; per push: a snapshot of the files, the peers reached, the pass | upload, verify after the push, settle, restore or rewrite local files | the disk, shared with the image handlers and the peers; the delete-intent marker |
| Image handlers (`api/handlers_image.go`, `handlers_backdrop.go`, `image/fanart.go`) | the same files; `fanart_reorder_*` temporaries | save, delete one slot, delete a batch, revert, reorder; renumber the survivors | as above |
| Delete intents (`image/delete_intent.go`) | one instant per artist and type, in memory | mark, ask "since", prune after the retention | publisher and handlers |
| Protected slot saves (`image/backup.go`, `save.go`, `cleanup.go`, `naming.go`) | `.sw-backup` files, one mutex per base name | lock, back up, write, roll back | the disk; other saves |
| Conflict gate (`conflict/detector.go`, `ledger.go`, `gate.go`) | cached ledger, its age | probe every peer, re-disable managed peers, answer "may I write?" | connections table, the peers' own settings |
| Manage toggle (`api/handlers_conflict.go`) | `connections` row: managed flag and snapshot | opt in (capture, persist, disarm, flag), opt out (restore, clear) | as above, `connWriteMu` |
| Rule verdict tables (`rule/service.go`, `sqlite_rule_results.go`) | `rule_violations`, `rule_results` with an evaluation stamp | upsert, record pass, record failure, retract, resolve, dismiss, reopen, purge on disable | everything that evaluates or fixes |
| Artist rows and rule runs (`artist/service.go`, `lockguard.go`, `sqlite_artist.go`, `sqlite_dirty.go`; `rule/fixer.go`, `scheduler.go`, `dirty_subscriber.go`) | the row: fields, locks, `dirty_since`, `rules_evaluated_at` | edit a field, lock and unlock, write the whole row under the lock guard; full and incremental passes that load, evaluate, write and stamp; dirty marks | verdict tables, event bus |
| Bulk jobs (`rule/bulk_executor.go`, `bulk_service.go`) | job rows, one running job | create, start, cancel, finish | request context, rule pipeline |
| Self-updater (`updater/updater.go`) | settings rows, check state, configuration generation | check, apply, automatic apply, configure, skip | scheduler goroutine against handlers |
| Event bus, webhooks (`event/bus.go`, `webhook/dispatcher.go`) | a bounded channel, a semaphore | publish (drops when full), dispatch, drain | every component |
| Count cache (`dupimages/cache.go`) | counts with the time of the refresh | refresh (one at a time), cool down, drain | scheduler, pages, the platform prune, a remediation |
| Artists, the rest (`artist/*`) | history, aliases, provenance, directories | merge, rename directory | scanner, rules, publisher |
| Scanner, watcher (`scanner`, `watcher`) | the one running scan; expected writes | scan, debounce events | disk, artists |
| Files (`filesystem`) | temporaries and tombs | atomic write, remove, rename | disk |
| Providers (`provider`) | limiter rates (AIMD), cool-downs | look up metadata | network |
| Everything else: settings import and export, authentication, database, certificates, database backups, scraper and library settings, logging, web pages | rows and files of their own | sequential request handling | SQLite |

What makes it hard:

* **Nothing serialises a push with the operator.**  A push works for seconds
  on a snapshot while handlers save, delete and renumber the files, and the peers
  delete or overwrite them.  The code compensates with a marker and a second
  pass; whether that covers every order is what `ArtworkPush` asks.
* **Locks taken in lists.**  A fanart save holds one mutex per configured name,
  and names of two artists' saves overlap; a failure anywhere has to undo what
  earlier steps did (`SlotSave`).
* **Reads used long after.**  A conflict sweep lists the connections, probes them
  over the network for seconds, and then acts and stores on what it listed
  (`ConflictGate`).  A rule pass loads a page of artists, evaluates each and
  writes verdicts on a stamp taken in between.
* **Whole-row writes on an old copy.**  A pass writes every column of an artist from
  a copy that was loaded minutes ago, while the operator edits and locks single
  columns; a lock guard and two stamps of one-second resolution are what protects
  the operator (`ArtistRow`).
* **Flags that are checked and then claimed.**  The updater reads one flag, claims
  another, releases it, and a scheduler, a request and a restart do so in any order
  (`Updater`); a refresh that began before a prune ends after it (`DupCounts`).
* **Two tables, no foreign key.**  Violations and results are written by
  different statements under different guards.
* **Crashes and full queues.**  Job rows outlive the process that ran them;
  events are dropped when the bus is full; saves stop between the cleanup and the
  write.

What makes each component correct is stated with its module below; those that are
not modelled are named in section 7.  The `hazards` of `PROJECT.json` list every place, by
line, where these behaviours bite.

## 2. Plan

The order follows the damage a wrong interleaving does: first what can lose or
resurrect an operator's images, then what can open the gate, then what the
operator is told, then the background services.

| Step | Module | Status | Abstract statement | Theorems |
|---|---|---|---|---|
| 1 | `ArtworkPush` | done | a push puts back what the peers took and never what the operator took | four, see section 6 |
| 2 | `SlotSave` | done | a save is all or nothing, and exclusive | exclusion of slots, no ring of waiting saves, type correctness, rollback, nothing destroyed |
| 3 | `ConflictGate` | done | the gate is open only if no unmanaged peer saves files; opt-out is the inverse of opt-in | five, see section 6 |
| 4 | `RuleVerdicts` | done | the two tables tell the same story, the latest evaluation wins, a decision of the operator stands | six, see section 6 |
| 5 | `ArtistRow` | done | a lock holds against every automated write; a change is evaluated in the end, although a pass loads a page of artists before it stamps them and the mark is compared with a strict `>` at a resolution of one second | five |
| 6 | `Updater` | done | the status tells what is on the disk; an automatic apply obeys the skip list and the channel; no wake-up is lost | seven |
| 7 | `DupCounts` | done | a prune is never undone by an older sweep; a count never reads as progress that was not made; nothing is left running after a drain | four |
| 8 | `AtomicSave`, refined by `SlotSave` | done | one step per save that replaces every slot or none, as a `PROPERTY` of `SlotSave` when no restore fails | `SlotSave!Spec => Outside!Spec` |
| 9 | the step simulation of 8, and the typing of `SlotSave` | done | `AtomicSave_proofs` follows each save through its phases | both |
| 10 | single-slot saves | later | thumb, logo and banner saves have the phases of `SlotSave` without its locks | none |
| 11 | adaptive rate limiter of the providers | later | a step function: the rate stays within its bounds | bounds |

Of the parts once planned, the bounded event bus became part of `ArtistRow`, where
a dropped event matters, and bulk jobs were left out: read closely, they have no
protocol that survives their first step (section 7).

The components meet in few places, and the modules follow them there.  `OpSave` of
`ArtworkPush` is the whole of `SlotSave`, and `AtomicSave` is why it may be one
action: seen from outside, a save that succeeds is a single step.  `RuleVerdicts`
and `ArtistRow` share the pass: the first keeps what it writes about an artist, the
second the artist it read, and `LateChangesStayDirty` of the second is what the
scheduler's fairness in the first rests on.

## 3. The modules and the code

Every module has one action per statement or call after which another goroutine
can see a difference.  `PROJECT.json` maps each definition to its lines.

### ArtworkPush (`publish/publisher.go`, `image/delete_intent.go`, `image/fanart.go`, the image handlers)

One artist's images of one type.  `file[s]` is the file of slot `s`; bytes are
members of `Art`, or `PeerBytes`, or `NoFile`.

| Code | Module |
|---|---|
| `pushScope.at`, taken when a push begins | `PushStart`, `at` |
| discovery of the fanart files, then one read per file, or the end of the snapshot when the request is gone or the mount stalls | `PushDiscover`, `PushCapture`, `PushCaptureAborts` |
| one upload per connection, or its refusal | `PushUpload`, `PushSkip` |
| `repairAfterPush`: pass 1, a wait of 250 ms, pass 2 for missing files only | `PushVerify`, `PushGate`, `PushRestore`, `PushEndPass`, `PushSettled` |
| `MarkDeleteIntent`, `DeleteIntentAfter` with its pruning | `OpMark`, `DeleteIntentAfter` |
| delete handlers: mark, unlink each file, renumber the survivors | `OpDelete`, `OpDeleteAll`, `OpUnlink`, `OpRenumber` |
| `RenumberFanart`: stage into temporaries, place | `OpStage`, `OpPlace` |
| a rename of either phase fails: placed files back to temporaries, temporaries back to their names, each rename of it able to fail too | `OpStageFails`, `OpPlaceFails`, `OpRetract`, `OpUnstage` |
| a reorder that cannot clear a stale temporary returns without a rollback | `OpStageBlocked` |
| revert and reorder handlers | `OpRevert`, `OpReorder` |
| the server at the other end of an upload, which may delete or overwrite the local file at any later time | `PeerDelete`, `PeerOverwrite` (bounded by `MaxDamage`) |

The variables `vacated`, `raced`, `excused`, `settleSaved` and `discarded`
only record history for the properties.  A crash loses the pushes and the marker
together, so it adds nothing to the repair; what it leaves behind for the
reorder handler (stale `fanart_reorder_*` files) is not modelled.

### SlotSave (`image/backup.go`, `save.go`, `cleanup.go`, `naming.go`)

`SaveSlotProtected`, one action per file operation: `Begin` (the new image, its
format, the configured names), `Lock` (sorted, one at a time), `Probe`, `Read`,
`Store` or `Prune` (the backup), `Clean` (the files of other formats, all of them or,
when a removal fails, some), `Write`, and when a write fails or the format of the new
image cannot be detected (`SaveStops`) `Restore`, `RestoreClean`, `RestoreWrite`,
`Consume`, then `Unlock`.  At the start a slot holds one file at most; a clean-up that
stopped half way leaves more.  A slot is a base name and has one file per format, which is what makes
the backup's probe and the cleanup comparable.  The delete handler takes no lock
(`Delete`).  `Faults` names the operations that may fail.

### ConflictGate (`conflict`, `api/handlers_conflict.go`, `handlers_connection.go`)

A caller of the gate looks at the cached ledger (`Look`), takes `refreshMu`,
looks again (`LookAgain`) and sweeps: `List` the connections, `Probe` each,
`Disable` and `Recheck` a managed peer that saves, `Store` the ledger.  A toggle
request (`Request`, `Begin`) holds the lock of its connection over `CaptureConfig`,
`Persist`, `Disarm`, `SetFlag` on the way in and `Unflag`, `Restore`,
`ClearSnapshot` on the way out, with `Undo` for a failure half way, then
`Invalidate` and a sweep of its own that does not take `refreshMu`.  `Drift`,
`Edit`, `SetEnabled`, `Delete`, `Onboard` and `Expire` are the
administrators and the clock.  Two variables record what the code forgets: `astray`,
the connections a sweep re-disabled after their opt-out, that changed while a snapshot
of them was kept, or that were deleted while managed or being toggled; and `lapsed`,
the sweeps (and the cache they stored) that had listed a connection before it was
opted out.  The properties of the toggle are about all others.  The docs say that the sweep probes the connections
at the same time; the code loops over them, and so does the module.

### RuleVerdicts (`rule/service.go`, `sqlite_rule_results.go`, `fixer.go`, `engine.go`, `health_subscriber.go`)

One artist and one rule.  The pool has one connection, so a statement or a
transaction is one action: `UpsertViolation`, `RecordRulePass`,
`RetractRuleVerdict` are operators named after the functions, with the ordering
guard on `evaluated_at` in each.  A goroutine runs one kind of evaluation: a pass
over all rules, a scoped pass, the health subscriber, or `FixViolation`
(`FixBegin` ... `FixRescore`).  `Load` copies the artist, `Stamp` takes the second,
`Evaluate` reads the rule through the five-second cache, `Dispatch...` decides,
`PostEval`, `Persist`, `Resolve`, `Record` write.  `UndoRevert` and `UndoReopen`,
`Toggle` with its three statements, `Dismiss`, `ResolveByHand`, `ClearResolved`
and `Edit` are the operators' requests; `Crash` drops every goroutine.

### ArtistRow (`artist/service.go`, `lockguard.go`, `rule/fixer.go`, `scheduler.go`, `dirty_subscriber.go`, `event/bus.go`)

The row of one artist: `val` (fields), `pins` (locked fields, and the artist as a
whole), `dirtySince` and `evaluatedAt` in whole seconds, 0 for `NULL`.

| Code | Module |
|---|---|
| `Service.update`: `GetByID` of the stored row, `enforceLocksBeforeUpdate` (`enforceFieldLocks`, `pinLockState`), the `UPDATE` of every column | `Read`, `ReadFails`, `Enforced`, `Replace`; then `Write` and `Mark` (`Update`), or `PassWrites` (`UpdateAfterRuleEvaluation`, which does not mark) |
| a pass: the page is loaded, an artist is dispatched (`startedAt`), evaluated, written and stamped | `TickLoads` (all artists), `ClickLoads` (dirty ones, `ListDirtyIDs`), `Starts`, `Evaluates`, `EvaluationFails`, `PassWrites`, `Stamp`, `StampFails` |
| refresh, scan, bulk job; `UpdateProviderField` with the operator's grant or as a fixer | `WriterLoads`, `ProviderLoads` |
| `UpdateField`, `ClearField`; `SetLock`; `AddLockedField`, `RemoveLockedField` (read, then write) | `EditField`; `LockArtist`; `ReadLocks`, `WriteLocks` |
| a change that only publishes an event; the bus that drops it when full; the dirty subscriber | `Elsewhere`, `Dispatch` |

`my[p]` is what an actor's goroutine holds; `owed`, `late`, `touched`, `overtaken`,
`seen` record history.  `Mark` takes the time at some moment since the write, because
the code reads the clock before the statement runs: two marks may overtake each
other, which `LateChangesStayDirty` names as its exception.

### Updater (`updater/updater.go`, `api/handlers_updater.go`)

| Code | Module |
|---|---|
| `SetConfig`: read the previous channel, one transaction, then empty the cache, advance `configGen` and send on `configChange` | `SetRead`, `SetCommit` or `SetFails`, `SetAnnounce` |
| `Check`: capture the generation, read the configuration, fetch, `storeCheckResult` | `CheckBegins`, `CheckReads`, `CheckFetches`, `CheckStores` |
| `StartScheduler`: a pulse resets the timer, a tick checks, `maybeAutoApply` decides | `Wake`, `Tick`, `Gate`, `Rest` |
| `Apply`, `applyAuto`: `restartRequired`, then the compare-and-swap of `applyRunning` | `Request`, `Guard`, `Claim` |
| `runApply`: read the channel, pick the latest and compare it with the pin, replace the executable, `markRestartRequired`, release; the marker of an automatic apply | `RunReads`, `RunPicks`, `RunReplaces`, `RunMarks`, `RunReleases`, `Mark` |
| releases, the skip list, the process | `Publish`, `Skip`, `Restart` (at any step) |

The state of an interval is the save that wrote it: `cadence` counts the saves, and
`interval` is the count the timer was set from, or `Default` when the settings could not
be read at the start or at a wake-up.  Every read of the settings may fail.  A tag is a
number and the newer release has the greater one.

### DupCounts (`dupimages/cache.go`, `api/handlers_platform_backdrop_prune.go`, `handlers_duplicate_images_nav.go`, `handlers_backdrop_repair.go`, `maintenance/dupimage_counts.go`)

| Code | Module |
|---|---|
| `beginRefresh`, `registerDrainable`; `beginBackgroundRefresh` with the cooldown | `Begins` (under `Tick` and `Rescans`); `LazyBegins` (under `PageTriggers` and `PruneTriggers`), `Cools` |
| `refresh`: the library scan, the sweep of the platforms, `storePlatformDupReport`, `bucketByPlatformType`, the count, `endRefresh` | `LibraryEnds`, `SweepEnds` or `SweepFails`, `Reports`, `Buckets`, `Stores` |
| `detectArtistPlatformDups` and the systemic bound of `connAbsenceTally`: which mappings a sweep without an error has read | `Readable`, `Seen` |
| `UpdateStatus`, enabling and disabling a connection | `StatusTurns` |
| the prune: deletes, then invalidation and a request for a refresh | `PruneBegins`, `Deletes`, `PruneEnds`, `PruneTriggers` |
| shutdown: the shared context, `cancelAndSnapshotIdle`, `Drain` | `Stop`, `DrainBegins`, `DrainReturns` |

A sweep takes minutes while copies appear and are deleted: it reports everything that
was there throughout, and any of what was there for a while (`Seen`).  A sweep that
could not read something is partial.  A sweep without an error may still have left
copies out: of connections that were not in use (for a while, or throughout), of items
their platform does not know (unless those are all of a connection), and, when the rows
are summed, of connections that cannot be looked up.  `omitted` remembers what the stored
count left out so.  A prune, too, passes over connections not in use.  (A router without
a connection service sums nothing; production always wires one.)  (A comment at `handlers_platform_backdrop_prune.go:67` says
that the periodic refresh has no production caller; `cmd/stillwater/main.go:1375` calls
it, and the module has `Tick`.)

### AtomicSave

What a caller of `SaveSlotProtected` sees: `Ask`, then `Save` (all slots of the call
get the image) or `SaveFails`.  A failed call leaves every slot that had an image as it
was; a slot that had none has nothing to be restored from and may keep the new image,
which the code accepts and the abstract step allows.  `SlotSave` implements it
(`SavesAreAtomic`) under the mapping `Outside`: while a save is past its backup
and not settled, the slots it holds count as what it found in them.  The mapping is
stated for calls without an operator's delete, which takes no lock, and without a
failed restore, which the code only reports.

## 4. What is checked

All runs are small enough for TLC in minutes.  Bounds are constants of the
modules and appear only in guards.

| Run | Instance | Shows |
|---|---|---|
| `push_delete` | two slots, one push, one peer that strikes twice, save and both deletes, one tick, any read, write, unlink or rename may fail, fairness | in every order of push, peer, delete and renumbering, the missing-file branch restores nothing the operator emptied (`RestoreHonoursDelete`), the second pass reverts no save (`SettleSaveSurvives`), and a peer's delete is repaired in the end (`PeerDeleteIsRepaired`) |
| `push_faults` | the same with every request and no tick | the repair leaves no captured file damaged without an excuse (`RepairComplete`) |
| `slot_concurrent` | two savers, two slots, two formats, four images, writes fail | exclusion, no image gone without a backup, and the refinement of `AtomicSave` |
| `slot_faults` | two savers, every fault, one delete | a failed save restores, every save returns |
| `gate_toggle` | two clients and three requests on one connection, a caller that sweeps meanwhile, every fault, drift, edits, deletion | but for a peer the code lost track of (`astray`) the snapshot is the original and the peer gets it back; only a sweep that straddles the opt-out (`lapsed`) is wrong about it |
| `gate_gate` | two connections that overlap, a caller, a toggle, every fault, every administrator's action | an admitted write meets no peer that saves, but for the exception in `AdmitsOnlyKnown` |
| `rule_tables` | a pass and the subscriber, skips, every fault, crashes, three seconds | the two tables agree, a dismissal stays |
| `rule_decisions` | two scoped passes or fixes, undo, dismiss, clear | a parked choice is kept, and an overtaken evaluation changes neither table, also between fixes |
| `rule_agree` | a pass and the subscriber, edits, disable and enable | the tables agree through a disable, and the list agrees with the artist in the end |
| `artist_row` | one field of two values, a pass, an actor that is a writer at one time and the operator at another, two seconds, three changes or lock requests, a bus of one, every fault | a lock holds throughout a write (`NoProposalUnderLock`, `LocksKept`), a late change stays dirty, a pass clears what nobody changed, and the artist is evaluated as it is in the end |
| `updater_races` | one save, one apply by hand, the scheduler with its automatic apply, two releases on two channels, skips, every fault, restarts | the cache, the pending tag, the marker and the disk agree; skips and the staged binary are respected; no wake-up is lost |
| `dup_counts` | two artists on one connection, a copy that is there or appears on its own, one change of status, all three refreshes, prune, shutdown, every fault, fairness | no pruned row comes back, a count leaves out only what is new or was skipped without an error, a drain is complete, and the count catches up |

Why these bounds are enough to mean something.  `push_delete` needs two
slots for a delete whose renumbering moves a survivor into the deleted name, and one
tick for a marker in the same and in a later instant than the push; a batch delete that
moves several survivors is left to `DeletesHonoured`, which is proved for any number of
slots and pushes.  A reorder of two stages two files, so its failure and rollback may
come between them.  Two savers and two slots give the opposite lock orders and the partial
overlap.  One connection is enough for the toggle, which touches no other row, with two
clients and one sweep to meet each other in it; two for the round trip between connections.  Two evaluations are enough for the
ordering guard, which compares two stamps, and two seconds for stamps that tie
and that do not.  The updater needs two releases for one to be published, or skipped, between the
decision and the download, and one request beside the scheduler for two applies that
compete; the requests that only check are left out of the run because the
scheduler's own check has the same steps (5.6 million states, three minutes).  In
`ArtistRow` two seconds make a mark tie with, precede or follow a stamp, and one field
shows everything but that a grant covers no other field, which the theorem
`LockedFieldsSafe` proves for any set of them.  Each property of `DupCounts` is about each
copy by itself, and one copy may be there from the start or appear, so one is enough;
its artist and one without a copy are two mappings on one connection, which the bound
on unknown items needs.  Each property was also checked to fail on a plausible mutation
of the code (a guard dropped, a stamp not compared, an order swapped) under the
same bounds: `mutants` in `PROJECT.json`, written as "Variant" definitions in the
modules.

Fairness.  A push is a goroutine whose reads are bounded by a timeout and whose
wait is a sleep: weak fairness of its steps, and nothing of operators or peers.  A
save runs to its end: weak fairness of each saver.  `ConflictGate` states no liveness.  In
`RuleVerdicts` the scheduler and the subscriber start evaluations for ever, and a
request that has begun goes on.  In `ArtistRow` the scheduler's ticks come for ever and
load every artist (`RunScopeAll`), and a pass that began goes on: weak fairness; the
evaluation, the read of the stored row and the stamp may each fail, and failing the
same way for ever is excluded by strong fairness.  In `DupCounts` a refresh that began
ends (its context has a deadline); the tick is tried for ever and is skipped while
another refresh runs, so that it gets through needs strong fairness, as does that not
in every refresh something goes wrong.  The updater states no liveness: a check may fail as
often as the network does.

Runs say `CHECK_DEADLOCK FALSE` because the instances stop: every push runs once,
images are used up, toggles, edits and the clock are bounded, and a process that
was shut down stays so.  That nobody
waits for ever is stated as liveness instead (`EverySaveReturns`,
`PeerDeleteIsRepaired`), and the locks of the saves are proved to be
taken in order (`WaitsUpwards`).

## 5. What does not hold

While modelling, TLC refuted a number of statements that a comment or a document
makes of the code, or that a reader would expect.  Each has a configuration beside
the modules, `tlc -config <cfg> <module>.tla` with the module the name of the
configuration begins with (`MC<module>` where there is one), and TLC reports the
property named as violated.

| Configuration | Property | Source | What happens |
|---|---|---|---|
| `ArtworkPush_rewrite.cfg` | `RewriteHonoursDelete` | `publish/publisher.go:1879` | reassertLocalImage restores any file whose bytes differ in pass 1 without asking for a delete intent, and a fanart slot delete renumbers a survivor into the deleted name, so the deleted backdrop is written back; publish/publisher.go:1704 says "An operator delete landing during the push window is HONORED. The artwork is not resurrected", and image/delete_intent.go:66 says the type-wide marker "closes the renumber hazard". |
| `ArtworkPush_revert.cfg` | `RestoreHonoursDelete` | `api/handlers_image.go:2529` | handleImageRevert removes the newest fanart slot without MarkDeleteIntent, so a push in flight finds it missing, sees no marker and restores it; publish/publisher.go:1683 says "The delete handlers record an explicit, short-lived intent marker" and 1702 says "An operator delete landing during the push window is HONORED." |
| `ArtworkPush_midDelete.cfg` | `DeleteAlwaysHonoured` | `image/delete_intent.go:191` | the gate compares the marker with the instant the push began, so a push that begins after MarkDeleteIntent and captures the file before the unlink restores it; publish/publisher.go:1704 says "An operator delete landing during the push window is HONORED." |
| `ArtworkPush_lost.cfg` | `SurvivorsSurvive` | `publish/publisher.go:1879` | after a renumber the bytes under a reused name are the survivor's only copy, and pass 1 overwrites them with the snapshot while the survivor's old name is left missing by the delete gate; publish/publisher.go:1740 says of the overwrite direction "the losing outcome is a stale image, recoverable by saving again". |
| `ArtworkPush_stranded.cfg` | `StagedComeBack` | `api/handlers_backdrop.go:656` | the reorder clears the temporary names one by one between its renames and returns without a rollback when that fails, so the files renamed so far stay under names that the discovery does not list and that the next reorder removes; image/fanart.go:635 describes this very exit in the renumber and says that its own loop was changed to make it "structurally unreachable rather than correctly recoverable". |
| `SlotSave_stale.cfg` | `RestoresOnlyItsOriginal` | `image/backup.go:334` | when the file vanishes between the probe and the read, BackupSlot returns without pruning, so the backup of an earlier save survives and a failed save restores it over the deleted slot; image/backup.go:316 says "Drop any stale backup for this slot so a later failed save cannot roll back to an image the user has deleted." |
| `SlotSave_webp.cfg` | `NothingDestroyed` | `image/cleanup.go:116` | CleanupConflictingFormats removes a .webp file of the slot, but FindExistingImageStrict probes only .jpg, .jpeg and .png beside the configured name, so BackupSlot takes it for absent and no backup is made; image/backup.go:572 says "We never destroy an original we could not protect." |
| `ConflictGate_stale.cfg` | `LedgerAlwaysKnows` | `api/handlers_conflict.go:336` | the toggle's Refresh does not take refreshMu and a Refresh stores its ledger unconditionally, so one already under way overwrites the toggle's ledger with rows it listed before; api/handlers_conflict.go:322 says "refreshConflictState rebuilds the cached ledger and emits a ConflictChanged event so the UI banner and write gate pick up the new connection state immediately." |
| `ConflictGate_redisable.cfg` | `OwnConfigAlwaysKept` | `conflict/detector.go:420` | checkOne re-disables on the managed flag its sweep listed, which a toggle-off may have cleared since, so the restored savers are turned off again and the snapshot is gone; src/docs/site/src/getting-started/connect-emby.md:74 says "Disabling the toggle later (or deleting the connection) restores Emby's previous library options from the snapshot. The change is reversible." |
| `ConflictGate_cosmetic.cfg` | `SnapshotAlwaysOriginal` | `api/handlers_conflict.go:454` | a snapshot left behind by a failed clear is reused by the next enable although the administrator has changed the peer since, so the next disable replays the old configuration over the new one; api/handlers_conflict.go:442 says "Snapshot clearing is last because failing there only leaves a stale snapshot (cosmetic; restore is idempotent)." |
| `RuleVerdicts_hidden.cfg` | `HiddenStaysHidden` | `rule/fixer.go:1960` | FixViolation checks the status once, at its start, and resolves the row without a condition at its end, so a dismissal made in between becomes a resolution and the next evaluation reopens it; rule/service.go:1225 says "dismissed is terminal from the user's perspective. Once a row is stored as 'dismissed', re-evaluation must NOT clobber the status or dismissed_at back to fresh values" |
| `RuleVerdicts_undo.cfg` | `PassHasNoActive` | `rule/service.go:2228` | ReopenViolation reopens the row and leaves the result, which a pass has recorded as passed since the fix; rule/sqlite_rule_results.go:169 says "the resulting state -- passed=1 with an active violation -- is exactly the #2519 bug" |
| `RuleVerdicts_disabled.cfg` | `DisabledHasNoActive` | `rule/service.go:782` | the cleanup runs once, while evaluations that read the rule as enabled are under way and write their violation afterwards; rule/service.go:718 says "When a rule is disabled, active violations for that rule are soft-resolved (status='resolved', resolved_at=now) so they stop counting against compliance" |
| `RuleVerdicts_older.cfg` | `NewerStands` | `rule/sqlite_rule_results.go:410` | RetractRuleVerdict deletes the row, so an evaluation that began before the retraction finds none and applies; rule/service.go:1194 says "A pair with no stored result row has no evaluation to be older than, so the write applies -- that is the first-ever evaluation, not a stale one." |
| `RuleVerdicts_pinned.cfg` | `RevertedStaysOpen` | `rule/fixer.go:1482` | the verdict that persistPassResults records was evaluated on the fixed copy, before the save put the locked field back, so RecordRulePass resolves the row that reopenLockRevertedRows has just left open; rule/fixer.go:1471 says "a row whose every guarded change the lock guard reverted stays OPEN here, not resolved." |
| `ArtistRow_lockLost.cfg` | `LocksChangeOnRequest` | `artist/lockguard.go:361` | a lock the operator takes after a whole-row write has read the stored row, and before its UPDATE, is erased; artist/lockguard.go:342 says so itself: "a lock an operator takes after that read and before the write commits is reverted." |
| `ArtistRow_editLost.cfg` | `WritesOnlyItsField` | `rule/fixer.go:1714` | a pass works on a copy loaded with its page and writes every column, so it takes back what the operator typed into an unlocked field since. |
| `ArtistRow_missed.cfg` | `CleanMeansSeen` | `rule/fixer.go:1718` | a change made after the artist was loaded with its page and before it was dispatched, or in the second of the dispatch, is not in the copy evaluated and yet not later than the stamp, so the artist is clean; only the next full walk sees it. |
| `Updater_twoSaves.cfg` | `CacheMatchesChannel` | `updater/updater.go:584` | two overlapping saves read the previous channel before either commits, so the one that commits last may change the channel and not notice; updater/updater.go:650 says that without the guard "a channel switch overlapping a slow GitHub fetch could re-surface cross-channel release badges". |
| `Updater_restaged.cfg` | `StagedStaysAlways` | `updater/updater.go:800` | restartRequired is read before applyRunning is claimed, so an apply that read it before another one finished installs again over the staged binary; updater/updater.go:96 says "without this guard a second Apply call would treat the same release as newer and rerun the full download/replace path on top of the already-staged binary". |
| `Updater_lateSkip.cfg` | `SkipIsHonoured` | `api/handlers_updater.go:277` | the skip list is read by the scheduler before the automatic apply starts and never again, so a skip that arrives while the apply is under way does not stop it; api/handlers_updater.go:276 says "a click on "skip this version" gates the in-flight auto-apply candidate without any further coordination". |
| `Updater_blind.cfg` | `WakeUpTakesEffect` | `updater/updater.go:1347` | the pulse is consumed before the configuration is read, so when that read fails the timer is set to the default of 24 hours and nothing wakes the scheduler for the saved interval; updater/updater.go:1289 says "a cadence change (24h to 1h) or Enabled/AutoCheck/AutoUpdate toggle takes effect on the very next scheduler iteration rather than waiting out the previous interval". |
| `DupCounts_lateRemediation.cfg` | `NothingAfterDrain` | `api/handlers_backdrop_repair.go:203` | the rescan of a remediation runs under the context of its request, which the shutdown does not cancel, and may begin after the drain has found nothing running; the comment before the drain (cmd/stillwater/main.go:1502) says "Without this it can still be running -- and still querying -- after the database is closed". |
| `DupCounts_undercount.cfg` | `CountsEverything` | `api/handlers_duplicate_images_nav.go:236` | rows whose connection cannot be looked up when they are summed (a database error, or a context that expired after the sweep) are dropped with a warning and no error, so the lower sum, or zero, is stored as established; dupimages/cache.go:82 says "Only a scan that saw everything (ScanErrors == 0) is allowed to clear rows." Connections that are not in use and items unknown to their platform are left out likewise, by design. |

Read together they draw the limits of the properties that do hold: the runs of
section 4 leave out exactly the behaviour the last column describes, and the
theorems of section 6 name it in their assumptions.

## 6. What is proved

`tlapm` checks every proof to its leaves.  No theorem assumes more of the
constants than the `ASSUME`s of the module and what its own statement names.

| Theorem | Statement | Argument |
|---|---|---|
| `ArtworkPush_proofs!TypeCorrect` | `Spec => []TypeOK` | the positions in `order` and `cursor` need the control state: `RequestOK`, `PushOK` |
| `ArtworkPush_proofs!DeletesHonoured` | without the revert and reorder handlers, `Spec => []RestoreHonoursDelete`, for any number of slots, pushes and peers | `DeleteInv`: a slot emptied during a push that did not race it comes after a marker no older than the push began, and that marker is not pruned while the push is within its window; so the gate stands down in whichever pass looks |
| `ArtworkPush_proofs!SettleSavesSurvive` | `Spec => []SettleSaveSurvives`, no assumption | `SettleInv`: the second pass only restores where it found nothing, and a saved slot is never empty, because a rename needs its source, so that neither a renumber or its rollback nor another push's restore ever writes an absent file over it |
| `ArtworkPush_proofs!RepairsAreComplete` | `Spec => RepairComplete`, no assumption | `RepairInv`: behind the cursor of the first pass a captured file is its bytes or gone, behind that of the second it is its bytes (`RepairedSoFar`), for every slot the push is not excused from |
| `SlotSave_proofs!SlotsExclusive` | `Spec => []SlotsAreExclusive` | `LockInv`: the mutexes a save holds are those it owns, and past its locks they are all of its names |
| `SlotSave_proofs!WaitsAreOrdered` | `Spec => []WaitsUpwards`, no assumption and no run: the safety half of `EverySaveReturns`, which a run checks | `OrderInv`: a save still taking its locks holds only such as precede those it has yet to take |
| `SlotSave_proofs!TypeCorrect` | `Spec => []TypeOK` | `DataInv`: a save past its first step is at one of its names, and has settled on a format before it uses one |
| `SlotSave_proofs!FailedSavesRestore` | `Spec => FailedSaveRestores`, no assumption: backups, writes, clean-ups and restores may all fail | `KeepInv`: what each name of a save holds, on the disk and as a backup, by the phase of the save and the place of the name before, at or after its cursor |
| `SlotSave_proofs!NeverDestroyed` | when all formats are probed and the clean-up does not fail, `Spec => []NothingDestroyed`, with restores failing and files deleted | `CoverInv`: a slot holds one file at most, and past its backups a save covers what each of its slots held |
| `AtomicSave_proofs!SavesAtomic` | when all formats are probed, no clean-up or restore fails and nobody deletes, `Spec => SavesAreAtomic` (the refinement of `AtomicSave`), for any slots, savers and names | `PhaseInv`: each slot of a save is as found and backed up, written, or restored, by its place before, at or after the save's cursor; a slot no save writes to has one file at most. Each step then does one of five things (`Moved`), and each of these is a step of `AtomicSave` or none |
| `ConflictGate_proofs!TypeCorrect` | `Spec => []TypeOK` | `HoldsItsOwn`: a toggle past its first step holds the lock of its connection |
| `ConflictGate_proofs!GateIsSound` | `Spec => AdmitsOnlyKnown`, for any number of connections, callers and toggles, any faults and any administrators | `KnowsInv`: a connection that no change has overtaken is described correctly by every sweep that has read it, and by the cached ledger |
| `ConflictGate_proofs!SnapshotsOriginal`, `OwnConfigSafe` | `Spec => []SnapshotIsOriginal`, `[]OwnConfigKept`, no assumption: any number of requests, sweeps and faults, and every administrator | `ConfigInv`: of every connection not in `astray`, a managed peer has a snapshot, a snapshot is the administrator's configuration, and what a half-done request carries agrees with both (`HandlerFits`); it needs `WorkInv`, that a request under way holds its connection's lock |
| `ConflictGate_proofs!LedgerSafe` | `Spec => []LedgerKnowsUnmanaged`, no assumption | `LedgerInv`: what a sweep has listed or built, and the fresh ledger, are right about every flag but for the pairs in `lapsed` and, of the ledger, while the request that cleared the flag has its `Invalidate` to come (`Answers`) |
| `RuleVerdicts_proofs!TypeCorrect` | `Spec => []TypeOK` | one lemma per group of steps |
| `RuleVerdicts_proofs!TablesAgree` | without undo, `Spec => []PassHasNoActive` | every write of the tables is one of five operators (`WhoWrites`), and each keeps it |
| `RuleVerdicts_proofs!OpenIsBacked` | without undo and disable, `Spec => []OpenHasFail` | as above |
| `RuleVerdicts_proofs!DismissalsStay` | without `FixViolation`, `Spec => []HiddenStaysHidden` | strengthened to "hidden means dismissed" |
| `RuleVerdicts_proofs!OldVerdictsLose` | without skipped evaluations and disable, `Spec => NewerStands` | the stored stamp is the newest one (`NewestIsStored`), so an evaluation that is not skipped as stale is at least as new (`NotStale`) |
| `RuleVerdicts_proofs!ChoicesAreKept` | `Spec => ChoiceKept`, no assumption | `EvaluationUnparks`: the only upserts that take a parked choice away resolve or dismiss it, without candidates and not stale |
| `ArtistRow_proofs!TypeCorrect` | `Spec => []TypeOK` | `TypeInv`, with one lemma per group of steps |
| `ArtistRow_proofs!LockedFieldsSafe`, `LocksSafe` | `Spec => NoProposalUnderLock`, `Spec => LocksKept`, for any fields, passes, writers and operators | `RowInv`: what a writer read of the stored row still holds, but for the fields and locks in `touched` |
| `ArtistRow_proofs!LateChangesSafe` | `Spec => []LateChangesStayDirty` | `StampInv`: the stamp in force is the second its evaluation started in, and a mark that is owed is later |
| `ArtistRow_proofs!PassesSafe` | `Spec => PassesClear` | `PassInv`, part of `StampInv`: a pass knows (`late`) whether a mark is later than its start |
| `Updater_proofs!TypeCorrect` | `Spec => []TypeOK` | one lemma per group of steps; `Greatest` types the latest release |
| `Updater_proofs!WakeUpSafe` | `Spec => []WakeUpIsDue`, for any number of saves | `WakeInv`: the scheduler at work holds the cadence of the settings, or a pulse is on its way; the default a failed read leaves is the disclosed exception |
| `Updater_proofs!PendingSafe`, `MarkerSafe`, `StagedSafe` | `Spec => []PendingIsOnDisk`, `[]MarkerWasInstalled`, `StagedStays`, for any number of applies | `ApplyInv`: one apply at most is past its claim, and what it holds is what is on the disk once it has replaced it; an apply past its guard read `restartRequired` before it was set, or is in `late` |
| `Updater_proofs!SkipsSafe` | `Spec => []AutoRespectsSkips` | `SkipInv`: the pin was not on the list when the gate let it through, and nothing but the pin is replaced |
| `Updater_proofs!CacheSafe` | with at most one save at a time, `Spec => []CacheMatchesChannel` | `ChannelInv`: a check that read another channel than the configured one holds an older generation, or its announcement is still to come |
| `DupCounts_proofs!TypeCorrect` | `Spec => []TypeOK` | `TypeInv` |
| `DupCounts_proofs!DrainSafe` | `Spec => []DrainIsComplete` | `RunInv`: one refresh runs at most, it is registered, and the drain waits for the one it met |
| `DupCounts_proofs!PrunedSafe`, `CountsSafe` | `Spec => []NoPrunedRows`, `[]CountsNeverLow`, for any copies | `SweepInv`: a sweep that no prune has overtaken holds no pruned copy, and one that counts holds all but the fresh ones and those it left out silently |

The assumptions are not there for the provers: with any of the actors they
exclude, TLC finds the statement violated (two saves at a time and
`CacheMatchesChannel`, for one).  Section 5 lists most of these
counterexamples; a reorder alone also breaks `RestoreHonoursDelete`, a toggle of
the rule also breaks `OpenHasFail` and `NewerStands`, and a clean-up that fails breaks
`NothingDestroyed` (two files are left of one slot and the next save backs up one).

Only model-checked: the liveness properties (`PeerDeleteIsRepaired`,
`EverySaveReturns`, `EventuallyAgrees`, `EvaluationCatchesUp`,
`CountsCatchUp`), because the prover has no `ENABLED`.  Every invariant and action
property that a run checks is a theorem, under the assumptions of the table.

## 7. What is not modelled, and why

* Bytes, formats and metadata: an image is a value, an evaluation's finding is pass,
  fail or skip.  The properties compare values and never look inside.
* Several artists: files, markers, verdict rows and backups are keyed by the
  artist, and no action reads another's.  The exception, one mutex per base name for
  all artists, is what `SlotSave`'s savers share.
* Several operator requests at a time on one artist in `ArtworkPush`: one at a
  time is a bound of the model, the code has no lock there.
* A crash between a peer's delete and its repair: nothing records the push, so
  the file stays lost until the next save.
* What is plain from the lines and needs no interleaving has no configuration.  The
  handlers that create, update and delete a connection never call `Invalidate`, although
  its comment (`conflict/detector.go:329`) names them, so a ledger of before the change
  answers until it expires; that is the exception in `AdmitsOnlyKnown`.  A deleted
  connection takes its snapshot with it and its peer is left as it was set
  (`api/handlers_connection.go:615`), which is why `astray` has it.  An unreachable managed
  peer does not close the gate (`conflict/ledger.go:143`).  Two requests that lock
  different fields of an artist may drop one of them (`artist/service.go:1993`).
* Database internals: one connection, so statements and transactions are atomic.
* Bulk jobs (`rule/bulk_executor.go`, `bulk_service.go`).  `startBulkJob`
  (`api/handlers_rule.go:854`) starts the executor under the context of its request,
  which ends when the 202 answer is written, so a job is canceled at its first check
  of the context whatever else happens; a `Start` refused because another job runs
  leaves its row pending; `handleBulkJobCancel` cancels whatever job runs, not the one
  it names; rows that were running when the process died are never settled.  Each is
  plain from the lines and needs no interleaving; a model would add nothing to them.
* Of `ArtistRow`: `MarkAllDirty` (a settings change marks every artist in one
  statement, which is `Dispatch` for each), images, aliases and provenance.  Provider
  identifiers are fields of the row; the code writes them to a table of their own once
  the artist is marked (`artist/service.go:912`, `939`), so a pass in between evaluates
  the old one and stamps the artist clean: one more way to `ArtistRow_missed.cfg`, which
  the next full walk makes good.
* Of `Updater`: the phase and progress shown to the user, the nightly channel, the
  download and the checks of the archive but for their failure.
* Of `DupCounts`: the library half, whose refresh is the same one and whose count no
  prune touches; the type of a platform, by which the rows are summed; and artists
  that are added or removed while a sweep pages through them.
* Single-slot saves (thumb, logo, banner): the phases of `SlotSave` without its
  locks.  Two of one artist at a time race, and the code says that they do.
* The web pages (`web/templates`, half of the lines of the repository and generated
  from templates), the adapters of external services, database migrations and
  parsers: they hold no state between two steps.
* The components marked `not_modelled` in `PROJECT.json`, each with its reason.
