------------------------ MODULE RuleVerdicts_proofs ------------------------
(***************************************************************************)
(* Proofs about RuleVerdicts, for every set of goroutines, every verdict,  *)
(* fault and bound: the two tables agree unless a fix is undone; an open   *)
(* violation has its failure recorded unless, besides, the rule is         *)
(* disabled; a dismissal is final unless FixViolation runs; verdicts are   *)
(* written in the order of their stamps unless a result row is dropped;    *)
(* and a parked choice never degrades to an open finding.                  *)
(***************************************************************************)
EXTENDS RuleVerdicts, TLAPS

----------------------------------------------------------------------------
(* Who writes the tables.                                                  *)

\* A write of goroutine e's evaluation.
EvaluationWrites(e) ==
    \/ \E st \in {"open", "pending_choice", "resolved", "dismissed"}, c \in BOOLEAN :
           UpsertViolation(st, c, job[e].startedAt)
    \/ RecordRulePass(job[e].startedAt)
    \/ RetractRuleVerdict(job[e].startedAt)

\* The writes of the operators' requests, but for the undo and the disable.
RequestWrites == SetStatus("dismissed") \/ SetStatus("resolved") \/ ClearResolved

\* A step of an evaluation leaves the tables alone or is one of its writes.
LEMMA EvaluationsWrite ==
    ASSUME NEW e \in Evals, EvalStep(e)
    PROVE  UNCHANGED tables \/ EvaluationWrites(e)
  <1>1. CASE Stamp(e) \/ Evaluate(e) \/ EvaluateFails(e) \/ PostEval(e) \/ PostEvalFails(e)
             \/ Persist(e) \/ PersistNothing(e) \/ PersistFails(e) \/ WriteFails(e) \/ Return(e)
    BY <1>1 DEF Stamp, Evaluate, EvaluateFails, PostEval, PostEvalFails, Persist,
                PersistNothing, PersistFails, WriteFails, Return
  <1>2. CASE DispatchUnfixed(e)
    <2>1. PICK found \in BOOLEAN :
              UpsertViolation(IF found THEN "pending_choice" ELSE "open", found,
                              job[e].startedAt)
      BY <1>2 DEF DispatchUnfixed
    <2>2. CASE found
      BY <2>1, <2>2 DEF EvaluationWrites
    <2>3. CASE ~found
      BY <2>1, <2>3 DEF EvaluationWrites
    <2> QED BY <2>2, <2>3
  <1>3. CASE DispatchFixed(e) \/ DispatchFails(e)
    BY <1>3 DEF DispatchFixed, DispatchFails
  <1>4. CASE DispatchTerminal(e)
    BY <1>4 DEF DispatchTerminal, EvaluationWrites
  <1>5. CASE DispatchDismissed(e)
    BY <1>5 DEF DispatchDismissed, EvaluationWrites
  <1>6. CASE Resolve(e)
    <2>1. CASE ~job[e].fixed
      BY <1>6, <2>1 DEF Resolve
    <2>2. CASE job[e].fixed
      <3>1. UpsertViolation(IF job[e].restored THEN "open" ELSE "resolved", FALSE,
                            job[e].startedAt)
        BY <1>6, <2>2 DEF Resolve
      <3>2. CASE job[e].restored
        BY <3>1, <3>2 DEF EvaluationWrites
      <3>3. CASE ~job[e].restored
        BY <3>1, <3>3 DEF EvaluationWrites
      <3> QED BY <3>2, <3>3
    <2> QED BY <2>1, <2>2
  <1>7. CASE Record(e)
    BY <1>7 DEF Record, EvaluationWrites
  <1> QED BY <1>1, <1>2, <1>3, <1>4, <1>5, <1>6, <1>7 DEF EvalStep, Dispatch

\* Every step leaves the tables alone or is one of the listed writes.
LEMMA WhoWrites ==
    ASSUME [Next]_vars
    PROVE  \/ UNCHANGED tables
           \/ \E e \in Evals : EvaluationWrites(e)
           \/ RequestWrites
           \/ UndoReopen \/ CleanRows \/ CleanResults
  <1>1. ASSUME NEW e \in Evals, EvalStep(e)
        PROVE  UNCHANGED tables \/ EvaluationWrites(e)
    BY <1>1, EvaluationsWrite
  <1>2. ASSUME NEW e \in Evals, FixStep(e)
        PROVE  UNCHANGED tables \/ RequestWrites
    BY <1>2 DEF FixStep, FixTry, FixFails, FixTerminal, FixSave, FixResolve, FixRescore,
                RequestWrites
  <1>3. ASSUME NEW e \in Evals, FixBegin(e) \/ \E kind \in AllKinds : Load(e, kind)
        PROVE  UNCHANGED tables
    BY <1>3 DEF FixBegin, Load
  <1>4. ASSUME Operator
        PROVE  UNCHANGED tables \/ RequestWrites \/ UndoReopen \/ CleanRows \/ CleanResults
    BY <1>4 DEF Operator, Edit, Dismiss, ResolveByHand, UndoRevert, Toggle,
                InvalidateRuleCache, RequestWrites
  <1>5. ASSUME Tick \/ CacheExpires \/ Crash \/ UNCHANGED vars
        PROVE  UNCHANGED tables
    BY <1>5 DEF Tick, CacheExpires, Crash, vars
  <1> QED BY <1>1, <1>2, <1>3, <1>4, <1>5 DEF Next

----------------------------------------------------------------------------
(* The tables agree.                                                       *)

\* With the undo out of the operators' hands no fix is ever reverted.
NothingReverted == undo # "reverted"

LEMMA NoUndoNoReopen ==
    ASSUME "undo" \notin Ops, NothingReverted, [Next]_vars
    PROVE  NothingReverted' /\ ~UndoReopen
  <1>1. ~UndoReopen
    BY DEF UndoReopen, NothingReverted
  <1>2. ~UndoRevert
    BY DEF UndoRevert
  <1>3. NothingReverted'
    <2>1. ASSUME NEW e \in Evals, EvalStep(e) PROVE NothingReverted'
      BY <2>1 DEF NothingReverted, EvalStep, Dispatch, Stamp, Evaluate, EvaluateFails,
                  DispatchUnfixed, DispatchFixed, DispatchTerminal, DispatchDismissed,
                  DispatchFails, PostEval, PostEvalFails, Persist, PersistNothing,
                  PersistFails, Resolve, Record, WriteFails, Return
    <2>2. ASSUME NEW e \in Evals, FixStep(e) PROVE NothingReverted'
      BY <2>2 DEF NothingReverted, FixStep, FixTry, FixFails, FixTerminal, FixSave,
                  FixResolve, FixRescore
    <2>3. ASSUME NEW e \in Evals, FixBegin(e) \/ \E kind \in AllKinds : Load(e, kind)
          PROVE  NothingReverted'
      BY <2>3 DEF NothingReverted, FixBegin, Load
    <2>4. ASSUME Operator PROVE NothingReverted'
      BY <1>1, <1>2, <2>4 DEF NothingReverted, Operator, Edit, Dismiss, ResolveByHand,
                  ClearResolved, Toggle, CleanRows, CleanResults, InvalidateRuleCache
    <2>5. ASSUME Tick \/ CacheExpires \/ Crash \/ UNCHANGED vars PROVE NothingReverted'
      BY <2>5 DEF NothingReverted, Tick, CacheExpires, Crash, vars
    <2> QED BY <2>1, <2>2, <2>3, <2>4, <2>5 DEF Next
  <1> QED BY <1>1, <1>3

\* The transactions keep the agreement: an upsert that leaves an active status has
\* recorded a failure, or left a recorded one in place.
LEMMA WritesAgree ==
    ASSUME NEW e \in Evals, EvaluationWrites(e) \/ RequestWrites, PassHasNoActive
    PROVE  PassHasNoActive'
  BY DEF EvaluationWrites, RequestWrites, UpsertViolation, Merged, RecordRulePass,
         RetractRuleVerdict, SetStatus, ClearResolved, PassHasNoActive, Active, tables

\* PassHasNoActive for every instance without the undo (sqlite_rule_results.go,
\* RecordRulePass and RetractRuleVerdict; service.go, UpsertViolation): whatever
\* order evaluations, fixes, decisions, disables and crashes come in.
THEOREM TablesAgree == ASSUME "undo" \notin Ops PROVE Spec => []PassHasNoActive
  <1> DEFINE Inv == PassHasNoActive /\ NothingReverted
  <1>1. Init => Inv
    BY DEF Init, PassHasNoActive, NothingReverted
  <1>2. Inv /\ [Next]_vars => Inv'
    <2> SUFFICES ASSUME Inv, [Next]_vars PROVE Inv'
      OBVIOUS
    <2>1. NothingReverted' /\ ~UndoReopen
      BY NoUndoNoReopen
    <2>2. CASE UNCHANGED tables
      BY <2>1, <2>2 DEF tables, PassHasNoActive
    <2>3. CASE \E e \in Evals : EvaluationWrites(e)
      BY <2>1, <2>3, WritesAgree
    <2>4. CASE RequestWrites
      BY <2>1, <2>4 DEF RequestWrites, SetStatus, ClearResolved, PassHasNoActive, Active
    <2>5. CASE CleanRows \/ CleanResults
      BY <2>1, <2>5 DEF CleanRows, CleanResults, SetStatus, PassHasNoActive, Active
    <2> QED BY <2>1, <2>2, <2>3, <2>4, <2>5, WhoWrites
  <1>3. Inv => PassHasNoActive
    OBVIOUS
  <1> QED BY <1>1, <1>2, <1>3, PTL DEF Spec

----------------------------------------------------------------------------
(* An open violation has its failure recorded.                             *)

LEMMA WritesBackOpen ==
    ASSUME NEW e \in Evals, EvaluationWrites(e), OpenHasFail
    PROVE  OpenHasFail'
  BY DEF EvaluationWrites, UpsertViolation, Merged, RecordRulePass, RetractRuleVerdict,
         OpenHasFail, Active, tables

\* Without toggles the disable's cleanup, which drops results, never runs.
NothingDisabled == togglePc = "idle"

LEMMA NoToggleNoCleanup ==
    ASSUME "toggle" \notin Ops, NothingDisabled, [Next]_vars
    PROVE  NothingDisabled' /\ ~CleanRows /\ ~CleanResults
  <1>1. ~CleanRows /\ ~CleanResults /\ ~InvalidateRuleCache
    BY DEF CleanRows, CleanResults, InvalidateRuleCache, NothingDisabled
  <1>2. NothingDisabled'
    <2>1. ASSUME NEW e \in Evals, EvalStep(e) PROVE NothingDisabled'
      BY <2>1 DEF NothingDisabled, rules, EvalStep, Dispatch, Stamp, Evaluate, EvaluateFails,
                  DispatchUnfixed, DispatchFixed, DispatchTerminal, DispatchDismissed,
                  DispatchFails, PostEval, PostEvalFails, Persist, PersistNothing,
                  PersistFails, Resolve, Record, WriteFails, Return
    <2>2. ASSUME NEW e \in Evals, FixStep(e) PROVE NothingDisabled'
      BY <2>2 DEF NothingDisabled, rules, FixStep, FixTry, FixFails, FixTerminal, FixSave,
                  FixResolve, FixRescore
    <2>3. ASSUME NEW e \in Evals, FixBegin(e) \/ \E kind \in AllKinds : Load(e, kind)
          PROVE  NothingDisabled'
      BY <2>3 DEF NothingDisabled, rules, FixBegin, Load
    <2>4. ASSUME Operator PROVE NothingDisabled'
      BY <1>1, <2>4 DEF NothingDisabled, rules, Operator, Edit, Dismiss, ResolveByHand,
                  ClearResolved, UndoRevert, UndoReopen, Toggle
    <2>5. ASSUME Tick \/ CacheExpires \/ Crash \/ UNCHANGED vars PROVE NothingDisabled'
      BY <2>5 DEF NothingDisabled, rules, Tick, CacheExpires, Crash, vars
    <2> QED BY <2>1, <2>2, <2>3, <2>4, <2>5 DEF Next
  <1> QED BY <1>1, <1>2

\* OpenHasFail for every instance without the undo and without disables: neither a
\* retraction nor an overtaken or partial write leaves an open violation that the
\* results do not count (service.go, UpsertViolation).
THEOREM OpenIsBacked ==
    ASSUME "undo" \notin Ops, "toggle" \notin Ops
    PROVE  Spec => []OpenHasFail
  <1> DEFINE Inv == OpenHasFail /\ NothingReverted /\ NothingDisabled
  <1>1. Init => Inv
    BY DEF Init, OpenHasFail, NothingReverted, NothingDisabled
  <1>2. Inv /\ [Next]_vars => Inv'
    <2> SUFFICES ASSUME Inv, [Next]_vars PROVE Inv'
      OBVIOUS
    <2>1. NothingReverted' /\ ~UndoReopen
      BY NoUndoNoReopen
    <2>2. NothingDisabled' /\ ~CleanRows /\ ~CleanResults
      BY NoToggleNoCleanup
    <2>3. CASE UNCHANGED tables
      BY <2>1, <2>2, <2>3 DEF tables, OpenHasFail
    <2>4. CASE \E e \in Evals : EvaluationWrites(e)
      BY <2>1, <2>2, <2>4, WritesBackOpen
    <2>5. CASE RequestWrites
      BY <2>1, <2>2, <2>5 DEF RequestWrites, SetStatus, ClearResolved, OpenHasFail
    <2> QED BY <2>1, <2>2, <2>3, <2>4, <2>5, WhoWrites
  <1>3. Inv => OpenHasFail
    OBVIOUS
  <1> QED BY <1>1, <1>2, <1>3, PTL DEF Spec

----------------------------------------------------------------------------
(* Dismissals are final.                                                   *)

\* FixViolation is not running anywhere.
NothingFixedByHand ==
    /\ pc \in [Evals -> Pcs]
    /\ \A e \in Evals : pc[e] \notin {"try", "save", "resolveFixed", "rescore"}

LEMMA NoFixByHand ==
    ASSUME \A e \in Evals : "fix" \notin Kinds[e], NothingFixedByHand, [Next]_vars
    PROVE  NothingFixedByHand' /\ \A e \in Evals : ~FixStep(e)
  <1> DEFINE Moved(e) == \E where \in Pcs \ {"try", "save", "resolveFixed", "rescore"} :
                             Goto(e, where)
  <1>1. \A e \in Evals : ~FixBegin(e) /\ ~FixStep(e)
    BY DEF FixBegin, FixStep, FixTry, FixFails, FixTerminal, FixSave, FixResolve, FixRescore,
           NothingFixedByHand
  <1>2. ASSUME NEW e \in Evals, Moved(e) PROVE NothingFixedByHand'
    <2>1. PICK where \in Pcs \ {"try", "save", "resolveFixed", "rescore"} :
              pc' = [pc EXCEPT ![e] = where]
      BY <1>2 DEF Goto
    <2> QED BY <2>1 DEF NothingFixedByHand
  <1>3. ASSUME NEW e \in Evals, NEW kind \in AllKinds, Load(e, kind)
        PROVE  Moved(e)
    BY <1>3 DEF Load, Pcs
  <1>4. ASSUME NEW e \in Evals, EvalStep(e)
        PROVE  Moved(e)
    <2>1. CASE Evaluate(e)
      <3>1. Goto(e, "record") \/ Goto(e, "dispatch") \/ Goto(e, "postEval")
        BY <2>1 DEF Evaluate
      <3> QED BY <3>1 DEF Pcs
    <2>2. CASE PostEvalFails(e)
      <3>1. Goto(e, "persist") \/ Goto(e, "return")
        BY <2>2 DEF PostEvalFails
      <3> QED BY <3>1 DEF Pcs
    <2>3. CASE Persist(e)
      <3>1. Goto(e, "resolve") \/ Goto(e, "return")
        BY <2>3 DEF Persist
      <3> QED BY <3>1 DEF Pcs
    <2>4. CASE WriteFails(e)
      <3>1. Goto(e, "record") \/ Goto(e, "return")
        BY <2>4 DEF WriteFails
      <3> QED BY <3>1 DEF Pcs
    <2>5. CASE Stamp(e) \/ EvaluateFails(e) \/ Dispatch(e) \/ PostEval(e) \/ PersistNothing(e)
               \/ PersistFails(e) \/ Resolve(e) \/ Record(e) \/ Return(e)
      BY <2>5 DEF Stamp, EvaluateFails, Dispatch, DispatchUnfixed, DispatchFixed,
                  DispatchTerminal, DispatchDismissed, DispatchFails, PostEval,
                  PersistNothing, PersistFails, Resolve, Record, Return, Pcs
    <2> QED BY <1>4, <2>1, <2>2, <2>3, <2>4, <2>5 DEF EvalStep
  <1>5. ASSUME Operator \/ Tick \/ CacheExpires \/ UNCHANGED vars
        PROVE  pc' = pc
    BY <1>5 DEF Operator, Edit, Dismiss, ResolveByHand, ClearResolved, UndoRevert, UndoReopen,
                Toggle, CleanRows, CleanResults, InvalidateRuleCache, Tick, CacheExpires, vars
  <1>6. ASSUME Crash
        PROVE  NothingFixedByHand'
    BY <1>6 DEF Crash, NothingFixedByHand, Pcs
  <1> QED BY <1>1, <1>2, <1>3, <1>4, <1>5, <1>6 DEF Next, NothingFixedByHand

\* The inductive form: hidden means dismissed, not merely off the list.
HiddenIsDismissed == hidden => status = "dismissed"

LEMMA WritesKeepDismissed ==
    ASSUME NEW e \in Evals, EvaluationWrites(e), status = "dismissed"
    PROVE  status' = "dismissed"
  BY DEF EvaluationWrites, UpsertViolation, Merged, RecordRulePass, RetractRuleVerdict,
         Active, tables

LEMMA StepKeepsDismissed ==
    ASSUME \A e \in Evals : "fix" \notin Kinds[e], NothingFixedByHand, HiddenIsDismissed,
           [Next]_vars
    PROVE  HiddenIsDismissed'
  <1>1. \A e \in Evals : ~FixStep(e)
    BY NoFixByHand
  <1>2. CASE Operator
    BY <1>2 DEF Operator, Edit, Dismiss, ResolveByHand, ClearResolved, UndoRevert, UndoReopen,
                Toggle, CleanRows, CleanResults, InvalidateRuleCache, SetStatus, tables,
                HiddenIsDismissed, Active
  <1>3. CASE ~Operator
    <2>1. UNCHANGED hidden
      <3>1. ASSUME NEW e \in Evals, EvalStep(e) PROVE UNCHANGED hidden
        BY <3>1 DEF EvalStep, Dispatch, Stamp, Evaluate, EvaluateFails, DispatchUnfixed,
                    DispatchFixed, DispatchTerminal, DispatchDismissed, DispatchFails,
                    PostEval, PostEvalFails, Persist, PersistNothing, PersistFails, Resolve,
                    Record, WriteFails, Return
      <3>2. ASSUME NEW e \in Evals, FixBegin(e) \/ \E kind \in AllKinds : Load(e, kind)
            PROVE  UNCHANGED hidden
        BY <3>2 DEF FixBegin, Load
      <3>3. ASSUME Tick \/ CacheExpires \/ Crash \/ UNCHANGED vars PROVE UNCHANGED hidden
        BY <3>3 DEF Tick, CacheExpires, Crash, vars
      <3> QED BY <1>1, <1>3, <3>1, <3>2, <3>3 DEF Next
    <2>2. CASE UNCHANGED tables
      BY <2>1, <2>2 DEF tables, HiddenIsDismissed
    <2>3. CASE \E e \in Evals : EvaluationWrites(e)
      BY <2>1, <2>3, WritesKeepDismissed DEF HiddenIsDismissed
    <2>4. ASSUME ~UNCHANGED tables
          PROVE  \E e \in Evals : EvaluationWrites(e)
      <3>1. ASSUME NEW e \in Evals, FixBegin(e) \/ \E kind \in AllKinds : Load(e, kind)
            PROVE  UNCHANGED tables
        BY <3>1 DEF FixBegin, Load
      <3>2. ASSUME Tick \/ CacheExpires \/ Crash \/ UNCHANGED vars PROVE UNCHANGED tables
        BY <3>2 DEF Tick, CacheExpires, Crash, vars
      <3> QED BY <1>1, <1>3, <2>4, <3>1, <3>2, EvaluationsWrite DEF Next
    <2> QED BY <2>2, <2>3, <2>4
  <1> QED BY <1>2, <1>3

\* HiddenStaysHidden for every instance without FixViolation (service.go, the CASE
\* of UpsertViolation): the unconditional resolve of FixViolation is the only way
\* back to the list.
THEOREM DismissalsStay ==
    ASSUME \A e \in Evals : "fix" \notin Kinds[e]
    PROVE  Spec => []HiddenStaysHidden
  <1> DEFINE Inv == HiddenIsDismissed /\ NothingFixedByHand
  <1>1. Init => Inv
    BY DEF Init, HiddenIsDismissed, NothingFixedByHand, Pcs
  <1>2. Inv /\ [Next]_vars => Inv'
    BY StepKeepsDismissed, NoFixByHand
  <1>3. Inv => HiddenStaysHidden
    BY DEF HiddenIsDismissed, HiddenStaysHidden, Active
  <1> QED BY <1>1, <1>2, <1>3, PTL DEF Spec

----------------------------------------------------------------------------
(* Type correctness.                                                       *)

TablesOK ==
    /\ status \in Statuses /\ choices \in BOOLEAN
    /\ result \in {"none", "pass", "fail"} /\ evaluatedAt \in Stamps
    /\ newest \in Stamps

LEMMA BlankIsJob == Blank \in Jobs
  BY VerdictsKnown DEF Blank, Jobs, AllKinds, Stamps, Never

LEMMA TablesTyped ==
    ASSUME TypeOK, [Next]_vars
    PROVE  TablesOK'
  <1>1. CASE UNCHANGED tables
    BY <1>1 DEF tables, TypeOK, TablesOK
  <1>2. ASSUME NEW e \in Evals, EvaluationWrites(e)
        PROVE  TablesOK'
    <2>1. job[e].startedAt \in Stamps
      BY DEF TypeOK, Jobs
    <2>2. ASSUME NEW st \in {"open", "pending_choice", "resolved", "dismissed"},
                 NEW c \in BOOLEAN, UpsertViolation(st, c, job[e].startedAt)
          PROVE  TablesOK'
      BY <2>1, <2>2 DEF UpsertViolation, Merged, Wrote, tables, TypeOK, TablesOK, Statuses,
                        Active
    <2>3. CASE RecordRulePass(job[e].startedAt)
      BY <2>1, <2>3 DEF RecordRulePass, Wrote, tables, TypeOK, TablesOK, Statuses, Active
    <2>4. CASE RetractRuleVerdict(job[e].startedAt)
      BY <2>1, <2>4 DEF RetractRuleVerdict, Wrote, TypeOK, TablesOK, Statuses, Active,
                        Stamps, Never
    <2> QED BY <1>2, <2>2, <2>3, <2>4 DEF EvaluationWrites
  <1>3. CASE RequestWrites \/ UndoReopen \/ CleanRows \/ CleanResults
    BY <1>3 DEF RequestWrites, UndoReopen, CleanRows, CleanResults, ClearResolved, SetStatus,
                tables, TypeOK, TablesOK, Statuses, Active, Stamps, Never
  <1> QED BY <1>1, <1>2, <1>3, WhoWrites

\* What a goroutine may do to its own control state and variables.
Advances(e) ==
    /\ \E where \in Pcs : pc' = [pc EXCEPT ![e] = where]
    /\ \E mine \in Jobs : job' = [job EXCEPT ![e] = mine]

LEMMA AdvancesTyped ==
    ASSUME TypeOK, NEW e \in Evals, Advances(e)
    PROVE  pc' \in [Evals -> Pcs] /\ job' \in [Evals -> Jobs]
  BY DEF TypeOK, Advances

LEMMA FoundTyped ==
    ASSUME TypeOK, NEW e \in Evals
    PROVE  Finds(e) \in Verdicts \cup {"off"}
  BY DEF TypeOK, Finds, ReadsRule, Jobs

LEMMA EvalAdvances ==
    ASSUME TypeOK, NEW e \in Evals, EvalStep(e)
    PROVE  Advances(e)
  <1> USE DEF Goto
  <1>1. pc \in [Evals -> Pcs] /\ job \in [Evals -> Jobs] /\ now \in Stamps /\ data \in Verdicts
    BY DEF TypeOK, Stamps
  <1>2. job[e] \in Jobs /\ job = [job EXCEPT ![e] = job[e]]
    BY <1>1
  <1>3. CASE Stamp(e)
    <2>1. [job[e] EXCEPT !.startedAt = now] \in Jobs
      BY <1>1, <1>2 DEF Jobs
    <2> QED BY <1>1, <1>3, <2>1 DEF Stamp, Advances, Pcs
  <1>4. CASE Evaluate(e) \/ PostEval(e)
    <2>1. [job[e] EXCEPT !.found = Finds(e)] \in Jobs
      BY <1>2, FoundTyped DEF Jobs
    <2>2. job' = [job EXCEPT ![e] = [job[e] EXCEPT !.found = Finds(e)]]
      BY <1>1, <1>4 DEF Evaluate, PostEval
    <2>3. \/ pc' = [pc EXCEPT ![e] = "record"] \/ pc' = [pc EXCEPT ![e] = "dispatch"]
          \/ pc' = [pc EXCEPT ![e] = "postEval"] \/ pc' = [pc EXCEPT ![e] = "persist"]
      BY <1>4 DEF Evaluate, PostEval
    <2> QED BY <2>1, <2>2, <2>3 DEF Advances, Pcs
  <1>5. CASE DispatchFixed(e)
    <2>1. [job[e] EXCEPT !.fixed = TRUE, !.mine = "pass"] \in Jobs
      BY <1>2, VerdictsKnown DEF Jobs
    <2>2. job' = [job EXCEPT ![e] = [job[e] EXCEPT !.fixed = TRUE, !.mine = "pass"]]
      BY <1>1, <1>5 DEF DispatchFixed
    <2> QED BY <1>5, <2>1, <2>2 DEF DispatchFixed, Advances, Pcs
  <1>6. CASE PostEvalFails(e)
    <2>1. [job[e] EXCEPT !.found = "none"] \in Jobs
      BY <1>2 DEF Jobs
    <2>2. job' = [job EXCEPT ![e] = [job[e] EXCEPT !.found = "none"]]
      BY <1>1, <1>6 DEF PostEvalFails
    <2>3. pc' = [pc EXCEPT ![e] = "persist"] \/ pc' = [pc EXCEPT ![e] = "return"]
      BY <1>6 DEF PostEvalFails
    <2> QED BY <2>1, <2>2, <2>3 DEF Advances, Pcs
  <1>7. CASE Persist(e)
    <2>1. PICK r \in BOOLEAN, m \in Verdicts :
              job' = [job EXCEPT ![e].restored = r, ![e].mine = m]
      <3>1. WriteRow(e)
        BY <1>7 DEF Persist
      <3>2. (Pinned /\ job[e].mine # data) \in BOOLEAN
        BY SwitchesKnown
      <3>3. (IF OnDisk \/ Pinned THEN data ELSE job[e].mine) \in Verdicts
        BY <1>1, <1>2 DEF Jobs
      <3> QED BY <3>1, <3>2, <3>3 DEF WriteRow
    <2>2. [job[e] EXCEPT !.restored = r, !.mine = m] \in Jobs
      BY <1>2 DEF Jobs
    <2>3. job' = [job EXCEPT ![e] = [job[e] EXCEPT !.restored = r, !.mine = m]]
      BY <1>1, <2>1
    <2>4. pc' = [pc EXCEPT ![e] = "resolve"] \/ pc' = [pc EXCEPT ![e] = "return"]
      BY <1>7 DEF Persist
    <2> QED BY <2>2, <2>3, <2>4 DEF Advances, Pcs
  <1>8. CASE Return(e)
    BY <1>8, BlankIsJob DEF Return, Advances, Pcs
  <1>9. CASE WriteFails(e)
    <2>1. job' = [job EXCEPT ![e] = job[e]]
      BY <1>2, <1>9 DEF WriteFails
    <2>2. pc' = [pc EXCEPT ![e] = "record"] \/ pc' = [pc EXCEPT ![e] = "return"]
      BY <1>9 DEF WriteFails
    <2> QED BY <1>2, <2>1, <2>2 DEF Advances, Pcs
  <1>10. CASE \/ EvaluateFails(e) \/ DispatchUnfixed(e) \/ DispatchTerminal(e)
              \/ DispatchDismissed(e) \/ DispatchFails(e) \/ PersistNothing(e)
              \/ PersistFails(e) \/ Resolve(e) \/ Record(e)
    <2>1. job' = [job EXCEPT ![e] = job[e]]
      BY <1>2, <1>10 DEF EvaluateFails, DispatchUnfixed, DispatchTerminal, DispatchDismissed,
                  DispatchFails, PersistNothing, PersistFails, Resolve, Record
    <2>2. PICK where \in Pcs : pc' = [pc EXCEPT ![e] = where]
      BY <1>10 DEF EvaluateFails, DispatchUnfixed, DispatchTerminal, DispatchDismissed,
                  DispatchFails, PersistNothing, PersistFails, Resolve, Record, Pcs
    <2> QED BY <1>2, <2>1, <2>2 DEF Advances
  <1> QED BY <1>3, <1>4, <1>5, <1>6, <1>7, <1>8, <1>9, <1>10 DEF EvalStep, Dispatch

LEMMA FixAdvances ==
    ASSUME TypeOK, NEW e \in Evals, FixStep(e)
    PROVE  Advances(e)
  <1> USE DEF Goto
  <1>1. pc \in [Evals -> Pcs] /\ job \in [Evals -> Jobs] /\ data \in Verdicts
    BY DEF TypeOK
  <1>2. job[e] \in Jobs /\ job = [job EXCEPT ![e] = job[e]]
    BY <1>1
  <1>3. ASSUME WriteRow(e)
        PROVE  \E mine \in Jobs : job' = [job EXCEPT ![e] = mine]
    <2>1. (Pinned /\ job[e].mine # data) \in BOOLEAN
      BY SwitchesKnown
    <2>2. (IF OnDisk \/ Pinned THEN data ELSE job[e].mine) \in Verdicts
      BY <1>1, <1>2 DEF Jobs
    <2>3. PICK r \in BOOLEAN, m \in Verdicts :
              job' = [job EXCEPT ![e].restored = r, ![e].mine = m]
      BY <1>3, <2>1, <2>2 DEF WriteRow
    <2>4. [job[e] EXCEPT !.restored = r, !.mine = m] \in Jobs
      BY <1>2 DEF Jobs
    <2>5. job' = [job EXCEPT ![e] = [job[e] EXCEPT !.restored = r, !.mine = m]]
      BY <1>1, <2>3
    <2> QED BY <2>4, <2>5
  <1>4. CASE FixTry(e)
    <2>1. [job[e] EXCEPT !.mine = "pass"] \in Jobs
      BY <1>2, VerdictsKnown DEF Jobs
    <2>2. job' = [job EXCEPT ![e] = [job[e] EXCEPT !.mine = "pass"]]
      BY <1>1, <1>4 DEF FixTry
    <2> QED BY <1>4, <2>1, <2>2 DEF FixTry, Advances, Pcs
  <1>5. CASE FixFails(e) \/ FixTerminal(e) \/ FixResolve(e)
    <2>1. job' = [job EXCEPT ![e] = job[e]]
      BY <1>2, <1>5 DEF FixFails, FixTerminal, FixResolve
    <2>2. PICK where \in Pcs : pc' = [pc EXCEPT ![e] = where]
      BY <1>5 DEF FixFails, FixTerminal, FixResolve, Pcs
    <2> QED BY <1>2, <2>1, <2>2 DEF Advances
  <1>6. CASE FixSave(e)
    <2>1. pc' = [pc EXCEPT ![e] = "resolveFixed"] \/ pc' = [pc EXCEPT ![e] = "return"]
      BY <1>6 DEF FixSave
    <2> QED BY <1>3, <1>6, <2>1 DEF FixSave, Advances, Pcs
  <1>7. CASE FixRescore(e)
    <2>1. \E mine \in Jobs : job' = [job EXCEPT ![e] = mine]
      BY <1>2, <1>3, <1>7 DEF FixRescore
    <2> QED BY <1>7, <2>1 DEF FixRescore, Advances, Pcs
  <1> QED BY <1>4, <1>5, <1>6, <1>7 DEF FixStep

LEMMA TypeInit == Init => TypeOK
  <1> SUFFICES ASSUME Init PROVE TypeOK
    OBVIOUS
  <1>1. pc \in [Evals -> Pcs] /\ job \in [Evals -> Jobs]
    BY BlankIsJob DEF Init, Pcs
  <1>2. now \in 0..MaxTime /\ edits \in 0..MaxEdits /\ newest \in Stamps /\ evaluatedAt \in Stamps
    BY BoundsKnown DEF Init, Stamps
  <1>3. choices \in BOOLEAN /\ enabled \in BOOLEAN /\ hidden \in BOOLEAN
    BY DEF Init
  <1>4. /\ data \in Verdicts /\ status \in Statuses /\ result = "none" /\ cached = "none"
        /\ togglePc = "idle" /\ undo = "none"
    BY DEF Init, Statuses
  <1> QED BY <1>1, <1>2, <1>3, <1>4 DEF TypeOK

LEMMA StepTyped == TypeOK /\ [Next]_vars => TypeOK'
  <1> SUFFICES ASSUME TypeOK, [Next]_vars PROVE TypeOK'
    OBVIOUS
  <1> DEFINE ControlOK == pc \in [Evals -> Pcs] /\ job \in [Evals -> Jobs]
             RestOK == /\ now \in 0..MaxTime /\ data \in Verdicts
                       /\ enabled \in BOOLEAN /\ cached \in {"on", "off", "none"}
                       /\ togglePc \in {"idle", "rows", "results", "invalidate"}
                       /\ undo \in {"none", "offered", "reverted"}
                       /\ edits \in 0..MaxEdits /\ hidden \in BOOLEAN
  <1>1. RestOK
    BY DEF TypeOK
  <1>2. \A e \in Evals : job[e].mine \in Verdicts
    BY DEF TypeOK, Jobs
  <1>3. ReadsRule \in {"on", "off", "none"}
    BY <1>1 DEF ReadsRule
  <1>4. ASSUME NEW e \in Evals, EvalStep(e) PROVE ControlOK' /\ RestOK'
    <2>1. ControlOK'
      BY <1>4, EvalAdvances, AdvancesTyped
    <2>2. CASE Evaluate(e) \/ PostEval(e)
      BY <1>1, <1>3, <2>1, <2>2 DEF Evaluate, PostEval
    <2>3. CASE DispatchFixed(e) \/ Persist(e)
      BY <1>1, <1>2, <2>1, <2>3, VerdictsKnown DEF DispatchFixed, Persist, WriteRow, rules
    <2>4. CASE \/ Stamp(e) \/ EvaluateFails(e) \/ DispatchUnfixed(e) \/ DispatchTerminal(e)
               \/ DispatchDismissed(e) \/ DispatchFails(e) \/ PostEvalFails(e)
               \/ PersistNothing(e) \/ PersistFails(e) \/ Resolve(e) \/ Record(e)
               \/ WriteFails(e) \/ Return(e)
      BY <1>1, <2>1, <2>4 DEF Stamp, EvaluateFails, DispatchUnfixed, DispatchTerminal,
             DispatchDismissed, DispatchFails, PostEvalFails, PersistNothing, PersistFails,
             Resolve, Record, WriteFails, Return, rules
    <2> QED BY <1>4, <2>2, <2>3, <2>4 DEF EvalStep, Dispatch
  <1>5. ASSUME NEW e \in Evals, FixStep(e) PROVE ControlOK' /\ RestOK'
    <2>1. ControlOK'
      BY <1>5, FixAdvances, AdvancesTyped
    <2> QED BY <1>1, <1>2, <1>5, <2>1, VerdictsKnown DEF FixStep, FixTry, FixFails,
             FixTerminal, FixSave, FixResolve, FixRescore, WriteRow, rules
  <1>6. ASSUME NEW e \in Evals, FixBegin(e) \/ \E kind \in AllKinds : Load(e, kind)
        PROVE  ControlOK' /\ RestOK'
    <2>1. \A kind \in AllKinds : [Blank EXCEPT !.kind = kind, !.mine = data] \in Jobs
      BY <1>1, BlankIsJob DEF Jobs
    <2>2. Advances(e)
      BY <1>6, <2>1 DEF FixBegin, Load, Advances, Goto, Pcs, AllKinds
    <2>3. ControlOK'
      BY <2>2, AdvancesTyped
    <2> QED BY <1>1, <1>6, <2>3 DEF FixBegin, Load, rules
  <1>7. ASSUME Operator PROVE ControlOK' /\ RestOK'
    <2>1. UNCHANGED <<pc, job>>
      BY <1>7 DEF Operator, Edit, Dismiss, ResolveByHand, ClearResolved, UndoRevert,
             UndoReopen, Toggle, CleanRows, CleanResults, InvalidateRuleCache
    <2>2. RestOK'
      <3>1. CASE Edit \/ Dismiss \/ ResolveByHand \/ ClearResolved
        <4>1. hidden' \in BOOLEAN
          BY <1>1, <3>1 DEF Edit, Dismiss, ResolveByHand, ClearResolved
        <4>2. data' \in Verdicts
          BY <1>1, <3>1 DEF Edit, Dismiss, ResolveByHand, ClearResolved
        <4>3. edits' \in 0..MaxEdits
          BY <1>1, <3>1, BoundsKnown DEF Edit, Dismiss, ResolveByHand, ClearResolved
        <4>4. UNCHANGED <<now, enabled, cached, togglePc, undo>>
          BY <3>1 DEF Edit, Dismiss, ResolveByHand, ClearResolved, rules
        <4> QED BY <1>1, <4>1, <4>2, <4>3, <4>4
      <3>2. CASE UndoRevert \/ UndoReopen
        <4>1. hidden' \in BOOLEAN
          BY <1>1, <3>2 DEF UndoRevert, UndoReopen
        <4> QED BY <1>1, <3>2, <4>1, VerdictsKnown DEF UndoRevert, UndoReopen, rules
      <3>3. CASE Toggle \/ CleanRows \/ CleanResults \/ InvalidateRuleCache
        <4>1. enabled' \in BOOLEAN
          BY <1>1, <3>3 DEF Toggle, CleanRows, CleanResults, InvalidateRuleCache
        <4> QED BY <1>1, <3>3, <4>1, BoundsKnown DEF Toggle, CleanRows, CleanResults,
               InvalidateRuleCache
      <3> QED BY <1>7, <3>1, <3>2, <3>3 DEF Operator
    <2> QED BY <2>1, <2>2 DEF TypeOK
  <1>8. ASSUME Tick \/ CacheExpires \/ UNCHANGED vars PROVE ControlOK' /\ RestOK'
    BY <1>1, <1>8, BoundsKnown DEF TypeOK, Tick, CacheExpires, vars, rules
  <1>9. ASSUME Crash PROVE ControlOK' /\ RestOK'
    BY <1>1, <1>9, BlankIsJob, BoundsKnown DEF Crash, Pcs
  <1>10. ControlOK' /\ RestOK'
    BY <1>4, <1>5, <1>6, <1>7, <1>8, <1>9 DEF Next
  <1> QED BY <1>10, TablesTyped DEF TypeOK, TablesOK

\* Every variable keeps its type (RuleVerdicts, all actions).
THEOREM TypeCorrect == Spec => []TypeOK
  BY TypeInit, StepTyped, PTL DEF Spec

----------------------------------------------------------------------------
(* Verdicts are written in order.                                          *)

\* As long as no result row is dropped, it carries the newest stamp.
NewestIsStored == newest = (IF result = "none" THEN Never ELSE evaluatedAt)

\* Without skipped rules no evaluation retracts.
NothingSkipped == \A e \in Evals : job[e].found # "skip"

LEMMA NoSkipNoRetract ==
    ASSUME "skip" \notin Verdicts, TypeOK
    PROVE  NothingSkipped
  BY DEF TypeOK, Jobs, NothingSkipped

\* A write that is not stale is at least as new as the newest.
LEMMA InOrder ==
    ASSUME NewestIsStored, NEW stamp \in Stamps, evaluatedAt \in Stamps,
           ~Stale(stamp), evaluatedAt' = stamp, Wrote(stamp), result' # "none"
    PROVE  NewestIsStored' /\ stamp >= newest
  <1>1. stamp \in Int /\ stamp >= Never /\ evaluatedAt \in Int
    BY BoundsKnown DEF Stamps, Never
  <1>2. CASE result = "none"
    BY <1>1, <1>2 DEF NewestIsStored, Wrote, Never
  <1>3. CASE result # "none"
    BY <1>1, <1>3 DEF NewestIsStored, Stale, Wrote
  <1> QED BY <1>2, <1>3

LEMMA NotStale ==
    ASSUME NewestIsStored, NEW stamp \in Stamps, evaluatedAt \in Stamps, ~Stale(stamp)
    PROVE  stamp >= newest
  <1>1. stamp \in Int /\ stamp >= Never /\ evaluatedAt \in Int
    BY BoundsKnown DEF Stamps, Never
  <1>2. CASE result = "none"
    BY <1>1, <1>2 DEF NewestIsStored, Never
  <1>3. CASE result # "none"
    BY <1>1, <1>3 DEF NewestIsStored, Stale
  <1> QED BY <1>2, <1>3

\* What an evaluation does to the tables if it retracts nothing.
LEMMA VerdictInOrder ==
    ASSUME TypeOK, NothingSkipped, NewestIsStored, NEW e \in Evals, EvalStep(e)
    PROVE  /\ NewestIsStored'
           /\ Columns' # Columns => job[e].startedAt >= newest
  <1>1. job[e].startedAt \in Stamps /\ job[e].found # "skip" /\ Stamps \subseteq Int
        /\ evaluatedAt \in Stamps /\ newest \in Stamps
        /\ result \in {"none", "pass", "fail"}
        /\ \A stamp \in Stamps : stamp >= Never
    BY BoundsKnown DEF TypeOK, Jobs, NothingSkipped, Stamps, Never
  <1>2. CASE UNCHANGED tables
    BY <1>2 DEF tables, NewestIsStored, Columns
  <1>3. ASSUME NEW st, NEW c, UpsertViolation(st, c, job[e].startedAt)
        PROVE  /\ NewestIsStored'
               /\ Columns' # Columns => job[e].startedAt >= newest
    <2>1. CASE Stale(job[e].startedAt)
      BY <1>2, <1>3, <2>1 DEF UpsertViolation
    <2>2. CASE ~Stale(job[e].startedAt) /\ UNCHANGED <<result, evaluatedAt, newest>>
      BY <1>1, <2>2, NotStale DEF NewestIsStored
    <2>3. CASE /\ ~Stale(job[e].startedAt) /\ result' = "fail"
               /\ evaluatedAt' = job[e].startedAt /\ Wrote(job[e].startedAt)
      BY <1>1, <2>3, InOrder
    <2> QED BY <1>3, <2>1, <2>2, <2>3 DEF UpsertViolation
  <1>4. CASE RecordRulePass(job[e].startedAt)
    <2>1. CASE Stale(job[e].startedAt)
      BY <1>2, <1>4, <2>1 DEF RecordRulePass
    <2>2. CASE ~Stale(job[e].startedAt)
      BY <1>1, <1>4, <2>2, InOrder DEF RecordRulePass
    <2> QED BY <2>1, <2>2
  <1>5. CASE Record(e) /\ ~RecordRulePass(job[e].startedAt)
    BY <1>1, <1>2, <1>3, <1>5 DEF Record
  <1>6. CASE Resolve(e) \/ DispatchUnfixed(e) \/ DispatchTerminal(e) \/ DispatchDismissed(e)
    BY <1>2, <1>3, <1>6 DEF Resolve, DispatchUnfixed, DispatchTerminal, DispatchDismissed
  <1>7. CASE \/ Stamp(e) \/ Evaluate(e) \/ EvaluateFails(e) \/ DispatchFixed(e)
             \/ DispatchFails(e) \/ PostEval(e) \/ PostEvalFails(e) \/ Persist(e)
             \/ PersistNothing(e) \/ PersistFails(e) \/ WriteFails(e) \/ Return(e)
    BY <1>2, <1>7 DEF Stamp, Evaluate, EvaluateFails, DispatchFixed, DispatchFails, PostEval,
           PostEvalFails, Persist, PersistNothing, PersistFails, WriteFails, Return
  <1> QED BY <1>4, <1>5, <1>6, <1>7 DEF EvalStep, Dispatch

LEMMA OrderStep ==
    ASSUME "skip" \notin Verdicts, "toggle" \notin Ops,
           TypeOK, NothingDisabled, NewestIsStored, [Next]_vars
    PROVE  NewestIsStored' /\ (WritesInOrder \/ UNCHANGED vars)
  <1>1. CASE \E e \in Evals : EvalStep(e)
    <2>1. PICK d \in Evals : EvalStep(d)
      BY <1>1
    <2>2. /\ NewestIsStored'
          /\ Columns' # Columns => job[d].startedAt >= newest
      BY <2>1, NoSkipNoRetract, VerdictInOrder
    <2>3. \A e \in Evals \ {d} : pc'[e] = pc[e]
      <3>1. PICK where \in Pcs : pc' = [pc EXCEPT ![d] = where]
        BY <2>1, EvalAdvances DEF Advances
      <3> QED BY <3>1 DEF TypeOK
    <2> QED BY <2>2, <2>3 DEF WritesInOrder
  <1>2. ASSUME UNCHANGED tables \/ UNCHANGED <<result, evaluatedAt, newest, pc>>
        PROVE  NewestIsStored' /\ WritesInOrder
    BY <1>2 DEF NewestIsStored, WritesInOrder, Columns, tables
  \* FixViolation writes the status outside the steps that carry a stamp.
  <1>3. ASSUME NEW e \in Evals, FixStep(e)
        PROVE  NewestIsStored' /\ WritesInOrder
    <2>1. UNCHANGED <<result, evaluatedAt, newest>>
      BY <1>3 DEF FixStep, FixTry, FixFails, FixTerminal, FixSave, FixResolve, FixRescore,
             SetStatus, tables
    <2>2. /\ pc[e] \in {"try", "save", "resolveFixed", "rescore"}
          /\ \E where : pc' = [pc EXCEPT ![e] = where]
      BY <1>3 DEF FixStep, FixTry, FixFails, FixTerminal, FixSave, FixResolve, FixRescore, Goto
    <2> QED BY <2>1, <2>2 DEF NewestIsStored, WritesInOrder, TypeOK
  <1>4. ASSUME NEW e \in Evals, FixBegin(e) \/ \E kind \in AllKinds : Load(e, kind)
        PROVE  UNCHANGED tables
    BY <1>4 DEF FixBegin, Load
  <1>5. ASSUME Operator
        PROVE  UNCHANGED <<result, evaluatedAt, newest, pc>>
    <2>1. ~CleanResults
      BY NoToggleNoCleanup
    <2> QED BY <1>5, <2>1 DEF Operator, Edit, Dismiss, ResolveByHand, ClearResolved,
           UndoRevert, UndoReopen, Toggle, CleanRows, InvalidateRuleCache, SetStatus, tables
  <1>6. ASSUME Tick \/ CacheExpires \/ Crash \/ UNCHANGED vars
        PROVE  UNCHANGED tables
    BY <1>6 DEF Tick, CacheExpires, Crash, vars
  <1> QED BY <1>1, <1>2, <1>3, <1>4, <1>5, <1>6 DEF Next

\* NewerStands for every instance without skipped rules and disables (service.go,
\* UpsertViolation; sqlite_rule_results.go, RecordRulePass): an evaluation overtaken by
\* one whose verdict is recorded changes neither table.  Dropping a result row, and the
\* stamp with it, is the only thing that lets an older one through.
THEOREM OldVerdictsLose ==
    ASSUME "skip" \notin Verdicts, "toggle" \notin Ops
    PROVE  Spec => NewerStands
  <1> DEFINE Inv == TypeOK /\ NothingDisabled /\ NewestIsStored
  <1>1. Init => Inv
    BY TypeInit DEF Init, NothingDisabled, NewestIsStored
  <1>2. Inv /\ [Next]_vars => Inv'
    BY StepTyped, NoToggleNoCleanup, OrderStep
  <1>3. Inv /\ [Next]_vars => [WritesInOrder]_vars
    BY OrderStep
  <1> QED BY <1>1, <1>2, <1>3, PTL DEF Spec, NewerStands


----------------------------------------------------------------------------
(* A parked choice is kept.                                                *)

\* What an evaluation that takes a parked choice off the list has done: it has
\* resolved or dismissed it, with its candidates, and was not overtaken.
LEMMA EvaluationUnparks ==
    ASSUME TypeOK, NEW e \in Evals, EvalStep(e),
           status = "pending_choice", status' # status
    PROVE  /\ status' # "open" /\ choices' = choices
           /\ pc[e] \in {"resolve", "record"} =>
                  result = "none" \/ job[e].startedAt >= evaluatedAt
  <1> DEFINE stamp == job[e].startedAt
             Kept == /\ status' # "open" /\ choices' = choices
                     /\ pc[e] \in {"resolve", "record"} =>
                            result = "none" \/ stamp >= evaluatedAt
  <1>0. stamp \in Int /\ evaluatedAt \in Int /\ choices \in BOOLEAN
    BY BoundsKnown DEF TypeOK, Jobs, Stamps, Never
  <1>1. ~UNCHANGED tables
    BY DEF tables
  <1>2. ASSUME NEW st \in {"open", "pending_choice", "resolved", "dismissed"},
               NEW c \in BOOLEAN, UpsertViolation(st, c, stamp),
               st \in {"resolved", "dismissed"} => ~c
        PROVE  Kept
    <2>1. ~Stale(stamp) /\ status' = Merged(st) /\ choices' = (choices \/ c)
      BY <1>1, <1>2 DEF UpsertViolation
    <2>2. st \in {"resolved", "dismissed"} /\ status' = st
      BY <2>1 DEF Merged
    <2>3. choices' = choices
      BY <1>0, <1>2, <2>1, <2>2
    <2>4. result = "none" \/ stamp >= evaluatedAt
      BY <1>0, <2>1 DEF Stale
    <2> QED BY <2>2, <2>3, <2>4
  <1>3. CASE DispatchUnfixed(e)
    <2>1. PICK found \in BOOLEAN :
              UpsertViolation(IF found THEN "pending_choice" ELSE "open", found, stamp)
      BY <1>3 DEF DispatchUnfixed
    <2>2. CASE found
      BY <1>2, <2>1, <2>2
    <2>3. CASE ~found
      BY <1>2, <2>1, <2>3
    <2> QED BY <2>2, <2>3
  <1>4. CASE DispatchTerminal(e)
    BY <1>2, <1>4 DEF DispatchTerminal
  <1>5. CASE DispatchDismissed(e)
    BY <1>2, <1>5 DEF DispatchDismissed
  <1>6. CASE Resolve(e)
    <2>1. UpsertViolation(IF job[e].restored THEN "open" ELSE "resolved", FALSE, stamp)
      BY <1>1, <1>6 DEF Resolve
    <2>2. CASE job[e].restored
      BY <1>2, <2>1, <2>2
    <2>3. CASE ~job[e].restored
      BY <1>2, <2>1, <2>3
    <2> QED BY <2>2, <2>3
  <1>7. CASE Record(e)
    <2>1. CASE RecordRulePass(stamp)
      <3>1. ~Stale(stamp) /\ status' = "resolved" /\ UNCHANGED choices
        BY <1>1, <2>1 DEF RecordRulePass, Active
      <3>2. result = "none" \/ stamp >= evaluatedAt
        BY <1>0, <3>1 DEF Stale
      <3> QED BY <3>1, <3>2
    <2>2. CASE RetractRuleVerdict(stamp)
      BY <2>2 DEF RetractRuleVerdict
    <2>3. CASE UpsertViolation("open", FALSE, stamp)
      BY <1>2, <2>3
    <2> QED BY <1>1, <1>7, <2>1, <2>2, <2>3 DEF Record
  <1>8. ~( \/ Stamp(e) \/ Evaluate(e) \/ EvaluateFails(e) \/ DispatchFixed(e)
           \/ DispatchFails(e) \/ PostEval(e) \/ PostEvalFails(e) \/ Persist(e)
           \/ PersistNothing(e) \/ PersistFails(e) \/ WriteFails(e) \/ Return(e) )
    BY <1>1 DEF Stamp, Evaluate, EvaluateFails, DispatchFixed, DispatchFails, PostEval,
           PostEvalFails, Persist, PersistNothing, PersistFails, WriteFails, Return
  <1> QED BY <1>3, <1>4, <1>5, <1>6, <1>7, <1>8 DEF EvalStep, Dispatch

\* ChoiceKept, of one step.
ChoiceStays ==
    status = "pending_choice" /\ status' # status =>
        /\ status' # "open"
        /\ choices' = choices
        /\ \A e \in Evals : pc[e] \in {"resolve", "record"} /\ pc'[e] # pc[e] =>
               result = "none" \/ job[e].startedAt >= evaluatedAt

LEMMA ChoiceStep == TypeOK /\ [Next]_vars => ChoiceStays
  <1> SUFFICES ASSUME TypeOK, [Next]_vars, status = "pending_choice", status' # status
               PROVE ChoiceStays
    BY DEF ChoiceStays
  <1>1. CASE \E e \in Evals : EvalStep(e)
    <2>1. PICK d \in Evals : EvalStep(d)
      BY <1>1
    <2>2. /\ status' # "open" /\ choices' = choices
          /\ pc[d] \in {"resolve", "record"} =>
                 result = "none" \/ job[d].startedAt >= evaluatedAt
      BY <2>1, EvaluationUnparks
    <2>3. \A e \in Evals \ {d} : pc'[e] = pc[e]
      <3>1. PICK where \in Pcs : pc' = [pc EXCEPT ![d] = where]
        BY <2>1, EvalAdvances DEF Advances
      <3> QED BY <3>1 DEF TypeOK
    <2> QED BY <2>2, <2>3 DEF ChoiceStays
  <1>2. ASSUME NEW e \in Evals, FixStep(e)
        PROVE ChoiceStays
    <2>1. FixTerminal(e) \/ FixResolve(e)
      BY <1>2 DEF FixStep, FixTry, FixFails, FixSave, FixRescore, tables
    <2>2. /\ status' # "open" /\ choices' = choices
          /\ pc[e] \in {"try", "resolveFixed"}
          /\ \E where : pc' = [pc EXCEPT ![e] = where]
      BY <2>1 DEF FixTerminal, FixResolve, SetStatus, Goto
    <2> QED BY <2>2 DEF ChoiceStays, TypeOK
  <1>3. ASSUME NEW e \in Evals
        PROVE ~FixBegin(e) /\ \A kind \in AllKinds : ~Load(e, kind)
    BY DEF FixBegin, Load, tables
  <1>4. CASE Operator
    <2>1. UNCHANGED <<pc, job>>
      BY <1>4 DEF Operator, Edit, Dismiss, ResolveByHand, ClearResolved, UndoRevert,
             UndoReopen, Toggle, CleanRows, CleanResults, InvalidateRuleCache
    <2>2. status' # "open" /\ choices' = choices
      BY <1>4 DEF Operator, Edit, Dismiss, ResolveByHand, ClearResolved, UndoRevert,
             UndoReopen, Toggle, CleanRows, CleanResults, InvalidateRuleCache, SetStatus,
             tables, Active
    <2> QED BY <2>1, <2>2 DEF ChoiceStays
  <1>5. ~(Tick \/ CacheExpires \/ Crash \/ UNCHANGED vars)
    BY DEF Tick, CacheExpires, Crash, vars, tables
  <1> QED BY <1>1, <1>2, <1>3, <1>4, <1>5 DEF Next

\* ChoiceKept for every instance (service.go, UpsertViolation; sqlite_rule_results.go,
\* RecordRulePass): a choice the operator has yet to make never degrades to an open
\* finding, keeps its candidates, and is only resolved by an evaluation that is no
\* older than the recorded one, whatever is undone, disabled or fails.
THEOREM ChoicesAreKept == Spec => ChoiceKept
  <1>1. TypeOK /\ [Next]_vars => TypeOK'
    BY StepTyped
  <1>2. TypeOK /\ [Next]_vars => [ChoiceStays]_vars
    BY ChoiceStep
  <1>3. ChoiceKept <=> [][ChoiceStays]_vars
    BY PTL DEF ChoiceKept, ChoiceStays
  <1> QED BY <1>1, <1>2, <1>3, TypeInit, PTL DEF Spec

=============================================================================
