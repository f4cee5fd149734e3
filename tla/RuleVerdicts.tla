---------------------------- MODULE RuleVerdicts ----------------------------
(***************************************************************************)
(* What Stillwater records about one rule and one artist (internal/rule).  *)
(*                                                                         *)
(* Two tables say whether the rule holds: rule_violations carries a status *)
(* and the operator's decisions, rule_results the latest verdict and the   *)
(* second its evaluation began.  Concurrent evaluations write both: passes *)
(* of the pipeline, which may also fix what they find, and the health      *)
(* subscriber.  Operators dismiss, resolve, fix, undo and edit meanwhile,  *)
(* and disable the rule.                                                   *)
(*                                                                         *)
(* Each statement or transaction is atomic (the pool has one connection).  *)
(* Every one of them but the disable's names a single (artist, rule) pair, *)
(* so one pair is modelled.                                                *)
(***************************************************************************)
EXTENDS Integers, FiniteSets

CONSTANTS
    Evals,    \* goroutines that evaluate or fix
    Kinds,    \* Kinds[e]: what goroutine e runs, see AllKinds
    Verdicts, \* what the engine can find: subset of {"pass", "fail", "skip"}
    OnDisk,   \* TRUE: the rule reads files; FALSE: it reads the artist's row
    Pinned,   \* the operator has locked the field the rule's fixer writes
    Ops,      \* what the operators do: see AllOps
    Faults,   \* what may fail: subset of {"db", "engine", "crash"}
    MaxTime, MaxEdits \* bounds on the clock (in seconds) and on changes

\* health: HealthSubscriber.  all: a pass over every rule (RunAll, RunForArtist).
\* rule: a scoped one (RunRule, RunImageRulesForArtist).  fix: FixViolation.
AllKinds == {"health", "all", "rule", "fix"}
AllOps   == {"edit", "dismiss", "resolve", "clear", "undo", "toggle"}

ASSUME KindsKnown    == Kinds \in [Evals -> SUBSET AllKinds] /\ Ops \subseteq AllOps
ASSUME VerdictsKnown == Verdicts \subseteq {"pass", "fail", "skip"} /\ {"pass", "fail"} \subseteq Verdicts
ASSUME SwitchesKnown == OnDisk \in BOOLEAN /\ Pinned \in BOOLEAN /\ (Pinned => ~OnDisk)
ASSUME FaultsKnown   == Faults \subseteq {"db", "engine", "crash"}
ASSUME BoundsKnown   == MaxTime \in Nat /\ MaxEdits \in Nat

Active   == {"open", "pending_choice"}
Statuses == Active \cup {"none", "dismissed", "resolved"}
Never    == -1
Stamps   == 0..MaxTime \cup {Never}
Pcs      == {"idle", "loaded", "evaluate", "dispatch", "dismiss", "postEval", "persist",
             "resolve", "record", "try", "save", "resolveFixed", "rescore", "return"}

\* What an evaluation carries: mine is its copy of the artist, found the verdict
\* of its latest evaluation ("off": the rule was not considered; "none": it
\* failed), fixed that a fix succeeded, restored that the lock guard undid it.
Jobs == [kind : AllKinds, mine : Verdicts, found : Verdicts \cup {"off", "none"},
         startedAt : Stamps, fixed : BOOLEAN, restored : BOOLEAN]

VARIABLES
    now,
    data,           \* what the stored artist makes the rule's checker say
    status,         \* rule_violations.status, "none" without a row
    choices,        \* rule_violations.candidates is not empty
    result,         \* rule_results.passed, "none" without a row
    evaluatedAt,    \* rule_results.evaluated_at
    enabled,        \* rules.enabled
    cached,         \* the engine's cached copy of enabled: on, off, none
    undo,           \* none, offered, reverted: the latest fix
    togglePc,       \* idle, rows, results, invalidate: the rule update handler
    pc, job,
    edits,
    \* bookkeeping of the properties
    hidden,         \* the operator has dismissed the finding and not taken it back
    newest          \* the latest stamp of a verdict that was written, or retracted

tables == <<status, choices, result, evaluatedAt, newest>>
rules  == <<enabled, cached, togglePc>>
vars   == <<now, data, tables, rules, undo, pc, job, edits, hidden>>

Goto(e, where) == pc' = [pc EXCEPT ![e] = where]
Busy(e) == pc[e] # "idle"

Blank == [kind |-> "health", mine |-> "pass", found |-> "none", startedAt |-> Never,
          fixed |-> FALSE, restored |-> FALSE]

----------------------------------------------------------------------------
(* The transactions on the two tables.                                     *)

Wrote(stamp) == newest' = IF stamp > newest THEN stamp ELSE newest

\* A definition a mutant can take the place of is preceded by the mutant.

\* RFC3339 strings compare like whole seconds; a pair without a row is older.
StaleOnTie(stamp) == result # "none" /\ stamp <= evaluatedAt
Stale(stamp) == result # "none" /\ stamp < evaluatedAt

MergedReopens(st) == IF status = "pending_choice" /\ st = "open" THEN status ELSE st
MergedUnparks(st) == IF status = "dismissed" THEN status ELSE st

\* The CASE over status in UpsertViolation: dismissed stays, and a partial
\* violation does not take back a parked choice.
Merged(st) ==
    IF status = "dismissed" \/ (status = "pending_choice" /\ st = "open") THEN status ELSE st

UpsertCopiesStatus(st, withChoices, stamp) ==
    /\ status' = Merged(st) /\ choices' = (choices \/ withChoices)
    /\ result' = st /\ evaluatedAt' = stamp /\ Wrote(stamp)

UpsertViolation(st, withChoices, stamp) ==
    IF Stale(stamp) THEN UNCHANGED tables
    ELSE /\ status' = Merged(st)
         /\ choices' = (choices \/ withChoices)
         /\ IF st \in Active /\ Merged(st) \in Active
            THEN result' = "fail" /\ evaluatedAt' = stamp /\ Wrote(stamp)
            ELSE UNCHANGED <<result, evaluatedAt, newest>>

\* The pass row and the resolve stand or fall together.
RecordRowOnly(stamp) ==
    IF Stale(stamp) THEN UNCHANGED tables
    ELSE /\ result' = "pass" /\ evaluatedAt' = stamp /\ Wrote(stamp)
         /\ UNCHANGED <<status, choices>>

\* Variant: only the row of rule_results is ordered, not the resolve beside it.
RecordResolvesAnyway(stamp) ==
    /\ IF Stale(stamp) THEN UNCHANGED <<result, evaluatedAt, newest>>
       ELSE result' = "pass" /\ evaluatedAt' = stamp /\ Wrote(stamp)
    /\ status' = IF status \in Active THEN "resolved" ELSE status
    /\ UNCHANGED choices

RecordRulePass(stamp) ==
    IF Stale(stamp) THEN UNCHANGED tables
    ELSE /\ result' = "pass"
         /\ evaluatedAt' = stamp
         /\ status' = IF status \in Active THEN "resolved" ELSE status
         /\ Wrote(stamp)
         /\ UNCHANGED choices

\* A skipped rule has no verdict: the row goes, stamp and all.
RetractRowOnly(stamp) ==
    /\ Wrote(stamp)
    /\ result' = "none" /\ evaluatedAt' = Never
    /\ UNCHANGED <<status, choices>>

RetractRuleVerdict(stamp) ==
    /\ Wrote(stamp)
    /\ result' = "none"
    /\ evaluatedAt' = Never
    /\ status' = IF status = "open" THEN "resolved" ELSE status
    /\ UNCHANGED choices

\* The service's single-row updates leave rule_results alone.
SetStatus(st) == status' = st /\ UNCHANGED <<choices, result, evaluatedAt, newest>>

----------------------------------------------------------------------------
Init ==
    /\ now = 0
    /\ data \in Verdicts
    /\ status = "none" /\ choices = FALSE
    /\ result = "none" /\ evaluatedAt = Never
    /\ enabled = TRUE /\ cached = "none" /\ togglePc = "idle"
    /\ undo = "none"
    /\ pc = [e \in Evals |-> "idle"]
    /\ job = [e \in Evals |-> Blank]
    /\ edits = 0
    /\ hidden = FALSE /\ newest = Never

----------------------------------------------------------------------------
(* An evaluation.  The artist is loaded first, alone or with a page of     *)
(* others, and the stamp taken afterwards.                                 *)

Load(e, kind) ==
    /\ ~Busy(e)
    /\ kind \in Kinds[e] \ {"fix"}
    /\ kind = "health" => \A d \in Evals : Busy(d) => job[d].kind # "health"
    /\ Goto(e, "loaded")
    /\ job' = [job EXCEPT ![e] = [Blank EXCEPT !.kind = kind, !.mine = data]]
    /\ UNCHANGED <<now, data, tables, rules, undo, edits, hidden>>

Stamp(e) ==
    /\ pc[e] = "loaded"
    /\ Goto(e, "evaluate")
    /\ job' = [job EXCEPT ![e].startedAt = now]
    /\ UNCHANGED <<now, data, tables, rules, undo, edits, hidden>>

\* cachedRules refills the cache when it has expired or was invalidated.
ReadsRule == IF cached = "none" THEN (IF enabled THEN "on" ELSE "off") ELSE cached

\* What e's evaluation finds: a disabled rule is neither considered nor skipped.
Finds(e) ==
    IF ReadsRule = "off" THEN "off" ELSE IF OnDisk THEN data ELSE job[e].mine

\* The first evaluation; only a violation needs dispatching.
Evaluate(e) ==
    /\ pc[e] = "evaluate"
    /\ cached' = ReadsRule
    /\ job' = [job EXCEPT ![e].found = Finds(e)]
    /\ Goto(e, IF job[e].kind = "health" THEN "record"
               ELSE IF Finds(e) = "fail" THEN "dispatch" ELSE "postEval")
    /\ UNCHANGED <<now, data, tables, enabled, togglePc, undo, edits, hidden>>

\* A failed or cancelled evaluation ends the artist's turn and writes nothing.
EvaluateFails(e) ==
    /\ "engine" \in Faults
    /\ pc[e] = "evaluate"
    /\ Goto(e, "return")
    /\ UNCHANGED <<now, data, tables, rules, undo, job, edits, hidden>>

\* A manual rule, an unfixable violation or a fix that did not work: the finding
\* is recorded, with the candidates if there are any to choose from.
DispatchUnfixed(e) ==
    /\ pc[e] = "dispatch"
    /\ \E found \in BOOLEAN :
           UpsertViolation(IF found THEN "pending_choice" ELSE "open", found, job[e].startedAt)
    /\ Goto(e, "postEval")
    /\ UNCHANGED <<now, data, rules, undo, job, edits, hidden>>

\* The fixer changes the files, or the evaluation's copy of the artist; the
\* row that says so is deferred until the artist is persisted.
DispatchFixed(e) ==
    /\ pc[e] = "dispatch"
    /\ job' = [job EXCEPT ![e].fixed = TRUE, ![e].mine = "pass"]
    /\ data' = IF OnDisk THEN "pass" ELSE data
    /\ Goto(e, "postEval")
    /\ UNCHANGED <<now, tables, rules, undo, edits, hidden>>

\* A terminal fix result is written twice: an open baseline, then dismissed.
DispatchTerminal(e) ==
    /\ pc[e] = "dispatch"
    /\ UpsertViolation("open", FALSE, job[e].startedAt)
    /\ Goto(e, "dismiss")
    /\ UNCHANGED <<now, data, rules, undo, job, edits, hidden>>

DispatchDismissed(e) ==
    /\ pc[e] = "dismiss"
    /\ UpsertViolation("dismissed", FALSE, job[e].startedAt)
    /\ Goto(e, "postEval")
    /\ UNCHANGED <<now, data, rules, undo, job, edits, hidden>>

DispatchFails(e) ==
    /\ "db" \in Faults
    /\ pc[e] \in {"dispatch", "dismiss"}
    /\ Goto(e, "postEval")
    /\ UNCHANGED <<now, data, tables, rules, undo, job, edits, hidden>>

PostEval(e) ==
    /\ pc[e] = "postEval"
    /\ cached' = ReadsRule
    /\ job' = [job EXCEPT ![e].found = Finds(e)]
    /\ Goto(e, "persist")
    /\ UNCHANGED <<now, data, tables, enabled, togglePc, undo, edits, hidden>>

\* Without a second verdict the artist is still persisted if it was fixed, but
\* nothing is resolved or recorded, and the run is not stamped.
PostEvalFails(e) ==
    /\ "engine" \in Faults
    /\ pc[e] = "postEval"
    /\ job' = [job EXCEPT ![e].found = "none"]
    /\ Goto(e, IF job[e].fixed THEN "persist" ELSE "return")
    /\ UNCHANGED <<now, data, tables, rules, undo, edits, hidden>>

\* UpdateAfterRuleEvaluation writes the whole row from the evaluation's copy,
\* whatever the row holds by now, except that a locked field is put back into
\* the copy.
WriteRow(e) ==
    /\ data' = IF OnDisk \/ Pinned THEN data ELSE job[e].mine
    /\ job' = [job EXCEPT
                 ![e].restored = Pinned /\ job[e].mine # data,
                 ![e].mine = IF OnDisk \/ Pinned THEN data ELSE job[e].mine]

Persist(e) ==
    /\ pc[e] = "persist"
    /\ WriteRow(e)
    /\ Goto(e, IF job[e].found = "none" THEN "return" ELSE "resolve")
    /\ UNCHANGED <<now, tables, rules, undo, edits, hidden>>

\* A scoped pass without a full baseline and without a fix leaves the row alone.
PersistNothing(e) ==
    /\ pc[e] = "persist"
    /\ job[e].kind = "rule" /\ ~job[e].fixed
    /\ Goto(e, "resolve")
    /\ UNCHANGED <<now, data, tables, rules, undo, job, edits, hidden>>

PersistFails(e) ==
    /\ "db" \in Faults
    /\ pc[e] = "persist"
    /\ Goto(e, "return")
    /\ UNCHANGED <<now, data, tables, rules, undo, job, edits, hidden>>

\* resolveOrReopenRows: a fix the lock guard undid leaves the finding open.  The
\* resolved row carries the fix result's candidates, of which there are none: only
\* candidateListResult returns any, and it fixes nothing.
Resolve(e) ==
    /\ pc[e] = "resolve"
    /\ IF job[e].fixed
       THEN UpsertViolation(IF job[e].restored THEN "open" ELSE "resolved", FALSE, job[e].startedAt)
       ELSE UNCHANGED tables
    /\ Goto(e, "record")
    /\ UNCHANGED <<now, data, rules, undo, job, edits, hidden>>

\* What the latest evaluation found, written at the stamp of the first.  The
\* subscriber writes its violations here; a pass has dispatched them.
Record(e) ==
    /\ pc[e] = "record"
    /\ CASE job[e].found = "pass" -> RecordRulePass(job[e].startedAt)
         [] job[e].found = "skip" -> RetractRuleVerdict(job[e].startedAt)
         [] job[e].found = "fail" /\ job[e].kind = "health" ->
                UpsertViolation("open", FALSE, job[e].startedAt)
         [] OTHER -> UNCHANGED tables
    /\ Goto(e, "return")
    /\ UNCHANGED <<now, data, rules, undo, job, edits, hidden>>

WriteFails(e) ==
    /\ "db" \in Faults
    /\ pc[e] \in {"resolve", "record"}
    /\ Goto(e, IF pc[e] = "resolve" THEN "record" ELSE "return")
    /\ UNCHANGED <<now, data, tables, rules, undo, job, edits, hidden>>

----------------------------------------------------------------------------
(* FixViolation: one finding, on the operator's request.                   *)

FixBegin(e) ==
    /\ ~Busy(e)
    /\ "fix" \in Kinds[e]
    /\ status \in Active
    /\ ~(status = "pending_choice" /\ choices)
    /\ job' = [job EXCEPT ![e] = [Blank EXCEPT !.kind = "fix", !.mine = data]]
    /\ Goto(e, "try")
    /\ UNCHANGED <<now, data, tables, rules, undo, edits, hidden>>

FixTry(e) ==
    /\ pc[e] = "try"
    /\ data' = IF OnDisk THEN "pass" ELSE data
    /\ job' = [job EXCEPT ![e].mine = "pass"]
    /\ Goto(e, "save")
    /\ UNCHANGED <<now, tables, rules, undo, edits, hidden>>

FixFails(e) ==
    /\ pc[e] = "try"
    /\ Goto(e, "return")
    /\ UNCHANGED <<now, data, tables, rules, undo, job, edits, hidden>>

\* A terminal result dismisses the row, whatever its status is by now.
FixTerminal(e) ==
    /\ pc[e] = "try"
    /\ SetStatus("dismissed")
    /\ Goto(e, "return")
    /\ UNCHANGED <<now, data, rules, undo, job, edits, hidden>>

\* UpdateReportingLocks: a fix the lock guard undid is reported and resolves nothing.
FixSave(e) ==
    /\ pc[e] = "save"
    /\ WriteRow(e)
    /\ Goto(e, IF Pinned /\ job[e].mine # data THEN "return" ELSE "resolveFixed")
    /\ UNCHANGED <<now, tables, rules, undo, edits, hidden>>

\* ResolveViolation has no condition on the status.
FixResolve(e) ==
    /\ pc[e] = "resolveFixed"
    /\ SetStatus("resolved")
    /\ Goto(e, "rescore")
    /\ UNCHANGED <<now, data, rules, undo, job, edits, hidden>>

\* persistHealthAfterRun, if the score can be computed; then the handler offers
\* an undo of what the fix did to the files.
FixRescore(e) ==
    /\ pc[e] = "rescore"
    /\ WriteRow(e) \/ UNCHANGED <<data, job>>
    /\ undo' = IF OnDisk THEN "offered" ELSE undo
    /\ Goto(e, "return")
    /\ UNCHANGED <<now, tables, rules, edits, hidden>>

\* The goroutine is done and its variables go out of scope.
Return(e) ==
    /\ pc[e] = "return"
    /\ Goto(e, "idle")
    /\ job' = [job EXCEPT ![e] = Blank]
    /\ UNCHANGED <<now, data, tables, rules, undo, edits, hidden>>

----------------------------------------------------------------------------
(* The operators.                                                          *)

\* An edit of the artist, or a change of its files.
Edit ==
    /\ "edit" \in Ops
    /\ edits < MaxEdits
    /\ ~Pinned
    /\ \E v \in Verdicts \ {data} : data' = v
    /\ edits' = edits + 1
    /\ UNCHANGED <<now, tables, rules, undo, pc, job, hidden>>

Dismiss ==
    /\ "dismiss" \in Ops
    /\ status # "none"
    /\ SetStatus("dismissed")
    /\ hidden' = TRUE
    /\ UNCHANGED <<now, data, rules, undo, pc, job, edits>>

\* handleResolveViolation, or a candidate applied from the list.
ResolveByHand ==
    /\ "resolve" \in Ops
    /\ status # "none"
    /\ SetStatus("resolved")
    /\ hidden' = FALSE
    /\ UNCHANGED <<now, data, rules, undo, pc, job, edits>>

\* ClearResolvedViolations drops old rows; rule_results keeps its own.
ClearResolved ==
    /\ "clear" \in Ops
    /\ status = "resolved"
    /\ status' = "none" /\ choices' = FALSE
    /\ UNCHANGED <<now, data, result, evaluatedAt, newest, rules, undo, pc, job, edits, hidden>>

UndoRevert ==
    /\ "undo" \in Ops
    /\ undo = "offered"
    /\ undo' = "reverted"
    /\ data' = "fail"
    /\ UNCHANGED <<now, tables, rules, pc, job, edits, hidden>>

\* ReopenViolation: only a resolved row, and only its status.
UndoReopen ==
    /\ undo = "reverted"
    /\ undo' = "none"
    /\ IF status = "resolved" THEN SetStatus("open") ELSE UNCHANGED tables
    /\ hidden' = (hidden /\ status # "resolved")
    /\ UNCHANGED <<now, data, rules, pc, job, edits>>

\* Service.Update, then cleanupDisabledRuleState's two statements, then the
\* handler's InvalidateRuleCache.
Toggle ==
    /\ "toggle" \in Ops
    /\ togglePc = "idle"
    /\ edits < MaxEdits
    /\ edits' = edits + 1
    /\ enabled' = ~enabled
    /\ togglePc' = IF enabled THEN "rows" ELSE "invalidate"
    /\ UNCHANGED <<now, data, tables, cached, undo, pc, job, hidden>>

CleanRows ==
    /\ togglePc = "rows"
    /\ SetStatus(IF status \in Active THEN "resolved" ELSE status)
    /\ togglePc' = "results"
    /\ UNCHANGED <<now, data, enabled, cached, undo, pc, job, edits, hidden>>

CleanResults ==
    /\ togglePc = "results"
    /\ result' = "none" /\ evaluatedAt' = Never
    /\ togglePc' = "invalidate"
    /\ UNCHANGED <<now, data, status, choices, newest, enabled, cached, undo, pc, job,
                   edits, hidden>>

InvalidateRuleCache ==
    /\ togglePc = "invalidate"
    /\ cached' = "none"
    /\ togglePc' = "idle"
    /\ UNCHANGED <<now, data, tables, enabled, undo, pc, job, edits, hidden>>

----------------------------------------------------------------------------
Tick ==
    /\ now < MaxTime
    /\ now' = now + 1
    /\ UNCHANGED <<data, tables, rules, undo, pc, job, edits, hidden>>

\* ruleCacheTTL.
CacheExpires ==
    /\ "toggle" \in Ops
    /\ cached # "none"
    /\ cached' = "none"
    /\ UNCHANGED <<now, data, tables, enabled, togglePc, undo, pc, job, edits, hidden>>

\* The process stops and starts again: only the tables are left.
Crash ==
    /\ "crash" \in Faults
    /\ edits < MaxEdits
    /\ edits' = edits + 1
    /\ pc' = [e \in Evals |-> "idle"]
    /\ job' = [e \in Evals |-> Blank]
    /\ cached' = "none" /\ togglePc' = "idle" /\ undo' = "none"
    /\ UNCHANGED <<now, data, tables, enabled, hidden>>

----------------------------------------------------------------------------
Dispatch(e) ==
    \/ DispatchUnfixed(e)
    \/ DispatchFixed(e)
    \/ DispatchTerminal(e)
    \/ DispatchDismissed(e)
    \/ DispatchFails(e)

EvalStep(e) ==
    \/ Stamp(e) \/ Evaluate(e) \/ EvaluateFails(e)
    \/ Dispatch(e)
    \/ PostEval(e) \/ PostEvalFails(e)
    \/ Persist(e) \/ PersistNothing(e) \/ PersistFails(e)
    \/ Resolve(e) \/ Record(e) \/ WriteFails(e)
    \/ Return(e)

FixStep(e) ==
    \/ FixTry(e) \/ FixFails(e) \/ FixTerminal(e)
    \/ FixSave(e) \/ FixResolve(e) \/ FixRescore(e)

Operator ==
    \/ Edit
    \/ Dismiss \/ ResolveByHand \/ ClearResolved
    \/ UndoRevert \/ UndoReopen
    \/ Toggle \/ CleanRows \/ CleanResults \/ InvalidateRuleCache

Next ==
    \/ \E e \in Evals : \/ \E kind \in AllKinds : Load(e, kind)
                        \/ FixBegin(e)
                        \/ EvalStep(e)
                        \/ FixStep(e)
    \/ Operator
    \/ Tick \/ CacheExpires \/ Crash

Spec == Init /\ [][Next]_vars

\* The scheduler and the subscriber start evaluations again and again, and a
\* goroutine that has something to do keeps running.
FairSpec ==
    /\ Spec
    /\ \A e \in Evals : /\ WF_vars(\E kind \in AllKinds : Load(e, kind))
                        /\ WF_vars(EvalStep(e))
    /\ WF_vars(CleanRows \/ CleanResults \/ InvalidateRuleCache)

----------------------------------------------------------------------------
(* Properties.                                                             *)

TypeOK ==
    /\ now \in 0..MaxTime
    /\ data \in Verdicts
    /\ status \in Statuses /\ choices \in BOOLEAN
    /\ result \in {"none", "pass", "fail"} /\ evaluatedAt \in Stamps
    /\ enabled \in BOOLEAN /\ cached \in {"on", "off", "none"}
    /\ togglePc \in {"idle", "rows", "results", "invalidate"}
    /\ undo \in {"none", "offered", "reverted"}
    /\ pc \in [Evals -> Pcs]
    /\ job \in [Evals -> Jobs]
    /\ edits \in 0..MaxEdits
    /\ hidden \in BOOLEAN /\ newest \in Stamps

\* "The two tables stand or fall together": a recorded pass never stands beside a
\* violation that is still on the operator's list.  The resolve, the retraction,
\* the ordering guard and the disable each touch the tables differently.
PassHasNoActive == result = "pass" => status \notin Active

\* An open violation is backed by a recorded failure, so that a report built from
\* the results counts what the list shows.
OpenHasFail == status = "open" => result = "fail"

\* What the operator hid does not come back to the list by itself: no order of
\* evaluations, fixes by the pipeline and retractions takes a dismissed finding
\* through another status to open (UpsertViolation's CASE over status).
HiddenStaysHidden == hidden => status \notin Active

\* The subscriber's partial violations and overtaken evaluations do not undo a
\* parked choice: it never turns back into an open finding, keeps its candidates,
\* and leaves the list by an evaluation only if that is no older than the recorded one.
ChoiceKept ==
    [][status = "pending_choice" /\ status' # status =>
           /\ status' # "open"
           /\ choices' = choices
           /\ \A e \in Evals : pc[e] \in {"resolve", "record"} /\ pc'[e] # pc[e] =>
                  result = "none" \/ job[e].startedAt >= evaluatedAt]_vars

\* An evaluation changes a column of the two tables only if it is no older than the
\* newest verdict.
Columns == <<status, choices, result, evaluatedAt>>
WritesInOrder ==
    \A e \in Evals :
        pc[e] \in {"dispatch", "dismiss", "resolve", "record"} /\ pc'[e] # pc[e]
            /\ Columns' # Columns
            => job[e].startedAt >= newest

\* An evaluation that began in an earlier second than one whose verdict has been
\* recorded changes nothing in either table: it neither overwrites the verdict nor
\* reopens, parks or resolves the violation (UpsertViolation: "one skip covers every
\* column and both statements"; RecordRulePass).  Only where no verdict is dropped:
\* a skip or a disable deletes the stamp, and older evaluations apply again.
NewerStands == [][WritesInOrder]_vars

\* Once the operators stop, the scheduler's passes bring the list back in line
\* with the artist, whatever was lost, hidden by stale copies or overtaken.
ListAgrees ==
    enabled => /\ data = "fail" => status \in Active \cup {"dismissed"}
               /\ data = "pass" => status \notin Active
EventuallyAgrees == <>[]ListAgrees

Settled == togglePc = "idle" /\ \A e \in Evals : ~Busy(e)

\* Service.Update: a disabled rule has no finding left on the list.
DisabledHasNoActive == Settled /\ ~enabled => status \notin Active

\* reopenLockRevertedRows: a run whose fix the lock guard undid ends with the
\* violation open.
RevertedStaysOpen ==
    [][\A e \in Evals :
          pc[e] = "record" /\ job[e].fixed /\ job[e].restored /\ pc'[e] # "record"
              => (status = "open" => status' = "open")]_vars
=============================================================================
