------------------------------ MODULE ApplyPlan ------------------------------
(***************************************************************************)
(* ai.apply_plan of Component/plugin/YDAgentServerWorker.lua, on the       *)
(* worker thread, over the live trigger data of the editor (EcaTree), with *)
(* the editor's UI thread running beside it: the user grants approvals,    *)
(* edits triggers and compiles (a save), which clears and refills the list *)
(* of captured triggers the worker's indices refer to.                     *)
(*                                                                         *)
(* Every native call is a step of its own, so the UI thread may act        *)
(* between any two of them.  object_set_field is not an operation of this  *)
(* module.                                                                 *)
(***************************************************************************)
EXTENDS EcaTree

CONSTANTS
    Trigger,        \* the trigger objects of the open map
    Plans,          \* the plans clients send, well formed or not
    OptionSets,     \* the option records clients send
    InitTrigs,      \* the trigger data a session may start from
    CaptureOrders,  \* the orders in which a compile may visit the triggers
    MaxCalls,       \* bound: apply_plan calls
    MaxGrants,      \* bound: approvals granted in the UI
    MaxUiSteps      \* bound: user edits and compiles

SetOps == {"set_trigger_name", "set_trigger_disabled", "set_eca_func_name",
           "set_eca_active", "set_eca_param_value"}

\* What the validators of YDAgentOps let through, field by field.
Operation ==
    [op : {"set_trigger_name"}, trigger : Nat, value : Name]
    \cup [op : {"set_trigger_disabled"}, trigger : Nat, value : BOOLEAN]
    \cup [op : {"set_eca_func_name"}, trigger : Nat, type : EcaType, index : Nat, value : Name]
    \cup [op : {"set_eca_active"}, trigger : Nat, type : EcaType, index : Nat, value : BOOLEAN]
    \cup [op : {"set_eca_param_value"}, trigger : Nat, type : EcaType, index : Nat,
          param : Nat, value : Text]
    \cup [op : {"add_eca"}, trigger : Nat, type : EcaType, func : Name \cup {Nil},
          params : Seq(Text)]
    \cup [op : {"remove_eca"}, trigger : Nat, type : EcaType, index : Nat]

Options == [dry_run : BOOLEAN, confirm : BOOLEAN, continue_on_error : BOOLEAN,
            allow_non_recoverable : BOOLEAN]

ASSUME PlanAssumption ==
    /\ IsFiniteSet(Trigger)
    /\ OptionSets \subseteq Options
    /\ InitTrigs \subseteq [Trigger -> TriggerRecord]
    /\ CaptureOrders \subseteq Seq(Trigger)
    /\ Plans \subseteq Seq(Operation \cup {Nil})   \* Nil: an entry no validator accepts
    /\ MaxCalls \in Nat /\ MaxGrants \in Nat /\ MaxUiSteps \in Nat

VARIABLES
    \* the editor, shared by the two threads
    trigs,      \* the trigger objects' data
    cap,        \* g_triggers: the captured triggers, in index order
    toPut,      \* the triggers a running compile has still to capture
    approvals,  \* tokens in the apply-approval channel
    fresh,      \* the next unused node address
    \* the worker inside apply_plan
    pc, plan, opts, step, before, newIndex, paramAt, rollbacks, applied, reply,
    \* history: the trees before each recorded operation; no UI step since the
    \* call began; every operation of the call can be undone; the bounds' counters
    hist, quiet, sound, calls, grants, uiSteps

editor == <<trigs, cap, toPut, approvals, fresh>>
worker == <<pc, plan, opts, step, before, newIndex, paramAt, rollbacks, applied, reply>>
counters == <<calls, grants, uiSteps>>
history == <<hist, quiet, sound>>
vars == <<editor, worker, history, counters>>

Op == plan[step]

-----------------------------------------------------------------------------
(***************************************************************************)
(* validate_plan and operation_is_recoverable                              *)
(***************************************************************************)

ValidPlan(p) == p # <<>> /\ \A i \in DOMAIN p : p[i] \in Operation

Recoverable(op) == op.op # "remove_eca"

(***************************************************************************)
(* An operation's native calls on the trigger its index stands for now     *)
(***************************************************************************)

Captured(op) == op.trigger < Len(cap)
Object(op) == cap[op.trigger + 1]
Target(op) == trigs[Object(op)]

\* snapshot_operation's "before" and verify_operation's "after": one read each.
ReadFrom(trig, op) ==
    CASE op.op \in {"add_eca", "remove_eca"} -> CountEca(trig.ecas, op.type)
      [] op.op = "set_trigger_name" -> ToStr(trig.name)
      [] op.op = "set_trigger_disabled" -> trig.disabled
      [] op.op = "set_eca_func_name" -> EcaFuncName(trig, op.type, op.index)
      [] op.op = "set_eca_active" -> EcaActive(trig, op.type, op.index)
      [] op.op = "set_eca_param_value" -> EcaParamValue(trig, op.type, op.index, op.param)

Reading(op) ==
    IF Captured(op) THEN ReadFrom(Target(op), op)
    ELSE IF op.op \in {"add_eca", "remove_eca"} THEN 0 ELSE Nil

\* The records a set operation leaves when it writes "value"; none: it fails.
Set(trig, op, value) ==
    CASE op.op = "set_trigger_name" -> SetTriggerName(trig, value)
      [] op.op = "set_trigger_disabled" -> SetTriggerDisabled(trig, value)
      [] op.op = "set_eca_func_name" -> SetEcaFuncName(trig, op.type, op.index, value)
      [] op.op = "set_eca_active" -> SetEcaActive(trig, op.type, op.index, value)
      [] op.op = "set_eca_param_value" ->
            SetEcaParamValue(trig, op.type, op.index, op.param, value)

\* The single native call of every operation but add_eca.
Applying(op) ==
    IF ~Captured(op) THEN {}
    ELSE IF op.op = "remove_eca" THEN RemoveEca(Target(op), op.type, op.index)
    ELSE Set(Target(op), op, op.value)

\* Faults for the mutation runs: the ordinal an addition is undone at is one off.
RevertAfter(trig, op, value) ==
    IF op.op = "add_eca" THEN RemoveEca(trig, op.type, value + 1)
    ELSE IF op.op = "remove_eca" \/ value = Nil THEN {}
    ELSE Set(trig, op, value)

RevertBefore(trig, op, value) ==
    IF op.op = "add_eca" THEN RemoveEca(trig, op.type, value - 1)
    ELSE IF op.op = "remove_eca" \/ value = Nil THEN {}
    ELSE Set(trig, op, value)

\* revert_operation: the count taken before an add is the ordinal it removes.
RevertFrom(trig, op, value) ==
    IF op.op = "add_eca" THEN RemoveEca(trig, op.type, value)
    ELSE IF op.op = "remove_eca" \/ value = Nil THEN {}
    ELSE Set(trig, op, value)

Reverting(op, value) == IF Captured(op) THEN RevertFrom(Target(op), op, value) ELSE {}

\* The native ydt_add_eca, and the two calls that fill the node it added.
Adding(op) ==
    IF ~Captured(op) THEN {}
    ELSE AddEca([i \in DOMAIN cap |-> trigs[cap[i]]], op.trigger + 1, op.type, fresh)

SettingAddedFunc(op) ==
    IF ~Captured(op) THEN {}
    ELSE SetEcaFuncName(Target(op), op.type, newIndex, op.func)

SettingAddedParam(op) ==
    IF ~Captured(op) THEN {}
    ELSE SetEcaParamValue(Target(op), op.type, newIndex, paramAt - 1, op.params[paramAt])

\* verify_operation; the expected count of a removal is at least 0.
Verified(op) ==
    CASE op.op = "add_eca" -> Reading(op) = before + 1
      [] op.op = "remove_eca" -> Reading(op) = IF before > 0 THEN before - 1 ELSE 0
      [] OTHER -> Reading(op) = op.value

-----------------------------------------------------------------------------
(***************************************************************************)
(* History: a call whose every operation can be undone when it starts.     *)
(***************************************************************************)

Adds(p) == \E i \in DOMAIN p : p[i].op = "add_eca"

CleanOp(op) ==
    /\ Recoverable(op)
    /\ op.op = "set_eca_param_value" => op.value # NoText
    /\ op.op = "set_eca_func_name" /\ op.value = CommentString => op.type = Action
    /\ op.op = "add_eca" => op.params = <<>> /\ (op.func = CommentString => op.type = Action)

\* A plan with an addition neither meets nor makes an inactive node.
CleanStart(p) ==
    /\ \A i \in DOMAIN p : CleanOp(p[i])
    /\ \A o \in Trigger : Readable(trigs[o])
    /\ Adds(p) => /\ \A o \in Trigger : AllActive(trigs[o])
                  /\ \A i \in DOMAIN p : p[i].op = "set_eca_active" => p[i].value

\* ... and no step of the UI thread has come between.
Clean == quiet /\ sound

-----------------------------------------------------------------------------
Init ==
    /\ trigs \in InitTrigs
    /\ cap \in CaptureOrders
    /\ toPut = <<>> /\ approvals = 0 /\ fresh = 100
    /\ pc = "idle" /\ plan = <<>> /\ opts = Nil /\ step = 0 /\ before = Nil
    /\ newIndex = 0 /\ paramAt = 0 /\ rollbacks = <<>> /\ applied = <<>>
    /\ reply = "none"
    /\ hist = <<trigs>> /\ quiet = FALSE /\ sound = FALSE
    /\ calls = 0 /\ grants = 0 /\ uiSteps = 0

(***************************************************************************)
(* The head of apply_plan: every early return, or the loop's first step    *)
(***************************************************************************)

Verdict(p, o) ==
    IF ~ValidPlan(p) THEN "invalid"
    ELSE IF ~o.dry_run /\ ~o.allow_non_recoverable /\ \E i \in DOMAIN p : ~Recoverable(p[i])
    THEN "not_recoverable"
    ELSE IF o.dry_run THEN "preview"
    ELSE IF ~o.confirm THEN "unconfirmed"
    ELSE "ask"

Return(text) ==
    /\ reply' = text
    /\ UNCHANGED <<trigs, cap, toPut, approvals, fresh, pc, plan, opts, step, before,
                   newIndex, paramAt, rollbacks, applied, history>>

\* A fault: the approval is looked at but not consumed.
BeginFree(p, o) ==
    /\ pc' = "snapshot" /\ plan' = p /\ opts' = o /\ step' = 1
    /\ rollbacks' = <<>> /\ applied' = <<>> /\ reply' = "none"
    /\ hist' = <<trigs>> /\ quiet' = (toPut = <<>>) /\ sound' = CleanStart(p)
    /\ UNCHANGED <<trigs, cap, toPut, approvals, fresh, before, newIndex, paramAt>>

Begin(p, o) ==
    /\ approvals' = approvals - 1
    /\ pc' = "snapshot" /\ plan' = p /\ opts' = o /\ step' = 1
    /\ rollbacks' = <<>> /\ applied' = <<>> /\ reply' = "none"
    /\ hist' = <<trigs>> /\ quiet' = (toPut = <<>>) /\ sound' = CleanStart(p)
    /\ UNCHANGED <<trigs, cap, toPut, fresh, before, newIndex, paramAt>>

Call ==
    /\ pc = "idle" /\ calls < MaxCalls
    /\ calls' = calls + 1
    /\ UNCHANGED <<grants, uiSteps>>
    /\ \E p \in Plans, o \in OptionSets :
          \/ Verdict(p, o) # "ask" /\ Return(Verdict(p, o))
          \/ Verdict(p, o) = "ask" /\ approvals = 0 /\ Return("unapproved")
          \/ Verdict(p, o) = "ask" /\ approvals > 0 /\ Begin(p, o)

(***************************************************************************)
(* The loop over the operations                                            *)
(***************************************************************************)

Snapshot ==
    /\ pc = "snapshot"
    /\ pc' = IF Op.op = "add_eca" THEN "count" ELSE "apply"
    /\ before' = Reading(Op)
    /\ UNCHANGED <<editor, plan, opts, step, newIndex, paramAt, rollbacks, applied, reply,
                   history, counters>>

\* The write a native call makes when it returns 1.
Written(op, recs) == \E rec \in recs : trigs' = [trigs EXCEPT ![Object(op)] = rec]

\* A fault: a failing operation returns without walking the rollback list.
FailAtOnce ==
    /\ applied' = Append(applied, [op |-> Op, ok |-> FALSE, verified |-> Nil]) /\ before' = Nil
    /\ pc' = "idle" /\ reply' = "rolled_back"
    /\ UNCHANGED <<trigs, cap, toPut, approvals, fresh, plan, opts, step, newIndex,
                   paramAt, rollbacks, history, counters>>

\* Any failing call of an operation ends it: the loop goes on or turns back.
Fail ==
    /\ applied' = Append(applied, [op |-> Op, ok |-> FALSE, verified |-> Nil]) /\ before' = Nil
    /\ IF ~opts.continue_on_error
       THEN pc' = "revert" /\ UNCHANGED <<step, reply>>
       ELSE IF step = Len(plan)
       THEN pc' = "idle" /\ reply' = "ok" /\ UNCHANGED step
       ELSE pc' = "snapshot" /\ step' = step + 1 /\ UNCHANGED reply
    /\ UNCHANGED <<trigs, cap, toPut, approvals, fresh, plan, opts, newIndex,
                   paramAt, rollbacks, history, counters>>

Apply ==
    /\ pc = "apply"
    /\ \/ /\ Written(Op, Applying(Op)) /\ pc' = "verify"
          /\ UNCHANGED <<cap, toPut, approvals, fresh, plan, opts, step, before, newIndex,
                         paramAt, rollbacks, applied, reply, history, counters>>
       \/ Applying(Op) = {} /\ Fail

\* A fault: the index of the last node there is, not of the one to be added.
CountForLast ==
    /\ pc = "count"
    /\ newIndex' = Reading(Op) - 1 /\ pc' = "add"
    /\ UNCHANGED <<editor, plan, opts, step, before, paramAt, rollbacks, applied, reply,
                   history, counters>>

CountForAdd ==
    /\ pc = "count"
    /\ newIndex' = Reading(Op) /\ pc' = "add"
    /\ UNCHANGED <<editor, plan, opts, step, before, paramAt, rollbacks, applied, reply,
                   history, counters>>

\* Where an added node's filling goes on after its first "done" parameters.
Filling(done) == IF done < Len(Op.params) THEN "addparam" ELSE "verify"

AddNode ==
    /\ pc = "add"
    /\ \/ /\ Written(Op, Adding(Op)) /\ fresh' = fresh + 1
          /\ pc' = IF Op.func # Nil THEN "addfunc" ELSE Filling(0)
          /\ paramAt' = 1
          /\ UNCHANGED <<cap, toPut, approvals, plan, opts, step, before, newIndex,
                         rollbacks, applied, reply, history, counters>>
       \/ Adding(Op) = {} /\ Fail

SetAddedFunc ==
    /\ pc = "addfunc"
    /\ \/ /\ Written(Op, SettingAddedFunc(Op)) /\ pc' = Filling(0)
          /\ UNCHANGED <<cap, toPut, approvals, fresh, plan, opts, step, before, newIndex,
                         paramAt, rollbacks, applied, reply, history, counters>>
       \/ SettingAddedFunc(Op) = {} /\ Fail

SetAddedParam ==
    /\ pc = "addparam"
    /\ \/ /\ Written(Op, SettingAddedParam(Op))
          /\ pc' = Filling(paramAt) /\ paramAt' = paramAt + 1
          /\ UNCHANGED <<cap, toPut, approvals, fresh, plan, opts, step, before, newIndex,
                         rollbacks, applied, reply, history, counters>>
       \/ SettingAddedParam(Op) = {} /\ Fail

Verify ==
    /\ pc = "verify"
    /\ applied' = Append(applied, [op |-> Op, ok |-> TRUE, verified |-> Verified(Op)])
    /\ rollbacks' = Append(rollbacks, [op |-> Op, before |-> before])
    /\ hist' = Append(hist, trigs) /\ before' = Nil
    /\ IF step = Len(plan)
       THEN pc' = "idle" /\ reply' = "ok" /\ UNCHANGED step
       ELSE pc' = "snapshot" /\ step' = step + 1 /\ UNCHANGED reply
    /\ UNCHANGED <<editor, plan, opts, newIndex, paramAt, quiet, sound, counters>>

\* A fault: a revert that fails is tried again.
RevertAgain ==
    /\ pc = "revert"
    /\ UNCHANGED <<cap, toPut, approvals, fresh, plan, opts, step, before, newIndex,
                   paramAt, applied, quiet, sound, counters>>
    /\ \/ /\ rollbacks = <<>>
          /\ pc' = "idle" /\ reply' = "rolled_back"
          /\ UNCHANGED <<trigs, rollbacks, hist>>
       \/ /\ rollbacks # <<>>
          /\ LET last == rollbacks[Len(rollbacks)]
             IN  Written(last.op, Reverting(last.op, last.before))
          /\ rollbacks' = SubSeq(rollbacks, 1, Len(rollbacks) - 1)
          /\ hist' = SubSeq(hist, 1, Len(hist) - 1)
          /\ UNCHANGED <<pc, reply>>

\* A revert that fails is reported and the loop goes on to the earlier ones.
Revert ==
    /\ pc = "revert"
    /\ UNCHANGED <<cap, toPut, approvals, fresh, plan, opts, step, before, newIndex,
                   paramAt, applied, quiet, sound, counters>>
    /\ \/ /\ rollbacks = <<>>
          /\ pc' = "idle" /\ reply' = "rolled_back"
          /\ UNCHANGED <<trigs, rollbacks, hist>>
       \/ /\ rollbacks # <<>>
          /\ LET last == rollbacks[Len(rollbacks)]
                 recs == Reverting(last.op, last.before)
             IN  Written(last.op, recs) \/ (recs = {} /\ UNCHANGED trigs)
          /\ rollbacks' = SubSeq(rollbacks, 1, Len(rollbacks) - 1)
          /\ hist' = SubSeq(hist, 1, Len(hist) - 1)
          /\ UNCHANGED <<pc, reply>>

\* The worker drains the approvals it finds when it starts, before it serves its
\* first call; the UI thread may have granted some by then.
WorkerStart ==
    /\ calls = 0 /\ approvals > 0
    /\ approvals' = 0
    /\ UNCHANGED <<trigs, cap, toPut, fresh, worker, history, counters>>

-----------------------------------------------------------------------------
(***************************************************************************)
(* The UI thread                                                           *)
(***************************************************************************)

Grant ==
    /\ grants < MaxGrants
    /\ approvals' = approvals + 1 /\ grants' = grants + 1
    /\ UNCHANGED <<trigs, cap, toPut, fresh, worker, history, calls, uiSteps>>

UiStep ==
    /\ uiSteps < MaxUiSteps /\ uiSteps' = uiSteps + 1 /\ quiet' = FALSE
    /\ UNCHANGED <<approvals, fresh, worker, hist, sound, calls, grants>>

\* What a user may do to a trigger: toggle or delete any node, or rename.
UserEdits(trig) ==
    {[trig EXCEPT !.ecas[p].active = ~trig.ecas[p].active] : p \in DOMAIN trig.ecas}
    \cup {[trig EXCEPT !.ecas = RemoveAt(trig.ecas, p)] : p \in DOMAIN trig.ecas}
    \cup {[trig EXCEPT !.name = name] : name \in Name}

UserEdit(o) ==
    /\ UiStep /\ toPut = <<>>
    /\ \E rec \in UserEdits(trigs[o]) : trigs' = [trigs EXCEPT ![o] = rec]
    /\ UNCHANGED <<cap, toPut>>

\* CC_Main clears the captured triggers, CC_PutTrigger captures them again.
CompileStart(order) ==
    /\ UiStep /\ toPut = <<>>
    /\ cap' = <<>> /\ toPut' = order
    /\ UNCHANGED trigs

CompilePut ==
    /\ toPut # <<>>
    /\ cap' = Append(cap, toPut[1]) /\ toPut' = Tail(toPut)
    /\ quiet' = FALSE
    /\ UNCHANGED <<trigs, approvals, fresh, worker, hist, sound, counters>>

-----------------------------------------------------------------------------
Loop == \/ Snapshot \/ Apply \/ CountForAdd \/ AddNode \/ SetAddedFunc
        \/ SetAddedParam \/ Verify \/ Revert

Worker == Loop \/ WorkerStart \/ Call

Ui == \/ Grant \/ CompilePut
      \/ \E o \in Trigger : UserEdit(o)
      \/ \E order \in CaptureOrders : CompileStart(order)

Next == Worker \/ Ui

\* The worker thread is never suspended inside a call and a compile runs through.
Spec == Init /\ [][Next]_vars /\ WF_vars(Loop) /\ WF_vars(CompilePut)

-----------------------------------------------------------------------------
(***************************************************************************)
(* Properties                                                              *)
(***************************************************************************)

Pcs == {"idle", "snapshot", "count", "apply", "add", "addfunc", "addparam", "verify",
        "revert"}
ReadingOf(op) ==
    IF op.op \in {"add_eca", "remove_eca"} THEN Nat
    ELSE IF op.op \in {"set_trigger_disabled", "set_eca_active"} THEN BOOLEAN \cup {Nil}
    ELSE Text \cup {Nil}
InOperation == pc \notin {"idle", "snapshot", "revert"}

\* Every variable keeps its type, and the history is one tree longer than the
\* rollback list (apply_plan, lines 2502-2534).
TypeOK ==
    /\ trigs \in [Trigger -> TriggerRecord]
    /\ cap \in Seq(Trigger) /\ toPut \in Seq(Trigger)
    /\ approvals \in Nat /\ fresh \in Nat
    /\ pc \in Pcs /\ step \in Nat /\ newIndex \in Nat /\ paramAt \in Nat
    /\ plan \in Seq(Operation)
    /\ opts \in Options \cup {Nil}
    /\ pc # "idle" => step \in DOMAIN plan /\ opts \in Options
    /\ InOperation => before \in ReadingOf(Op)
    /\ Len(rollbacks) \in Nat /\ DOMAIN rollbacks = 1 .. Len(rollbacks)
    /\ \A i \in DOMAIN rollbacks : /\ rollbacks[i].op \in Operation
                                  /\ rollbacks[i].before \in ReadingOf(rollbacks[i].op)
    /\ applied \in Seq([op : Operation, ok : BOOLEAN, verified : BOOLEAN \cup {Nil}])
    /\ hist \in Seq([Trigger -> TriggerRecord])
    /\ Len(hist) = Len(rollbacks) + 1
    /\ quiet \in BOOLEAN /\ sound \in BOOLEAN
    /\ calls \in 0 .. MaxCalls /\ grants \in 0 .. MaxGrants /\ uiSteps \in 0 .. MaxUiSteps

Ids(trig) == {trig.ecas[p].id : p \in DOMAIN trig.ecas}

\* A failed plan whose operations can all be undone, run without interference
\* from the UI thread, leaves every trigger exactly as it found it: the reverse
\* walk over the rollback list undoes each operation where it was applied.
RollbackExact ==
    Clean /\ pc = "idle" /\ reply = "rolled_back" => trigs = hist[1]

\* What an operation that reports success has written is what it was given.
Intact(op) == op.op = "set_eca_param_value" => Fits(op.value)

\* In such a plan "verified" tells the truth of every operation that reports
\* success: it is false exactly for a parameter text the editor's buffer cut
\* short (AgentAPI.cpp, line 841), so the ordinal a value is read by still names
\* the node it was written to, and nothing else is cut.
ReadBack ==
    Clean => \A i \in DOMAIN applied :
        applied[i].ok => applied[i].verified = Intact(applied[i].op)

\* Default calls never lose a node of the user: whatever step of the worker
\* fails or is undone, the nodes that were there before it are still there.
NoNodeLost ==
    Clean => \A o \in Trigger : Ids(hist[1][o]) \subseteq Ids(trigs[o])

\* The worker writes the triggers only inside a call that took an approval, and
\* a call that takes none, previews, refusals and failures of the checks at its
\* head included, writes nothing and keeps the approvals there are.
ApprovedWritesOnly ==
    [][/\ (trigs' # trigs /\ uiSteps' = uiSteps) => pc # "idle"
       /\ (pc = "idle" /\ pc' # "idle") => approvals' = approvals - 1 /\ opts'.confirm
       /\ (pc = "idle" /\ calls' # calls /\ pc' = "idle") => approvals' = approvals]_vars

\* Whatever fails, and whatever the UI thread does meanwhile, a call returns.
CallReturns == pc # "idle" ~> pc = "idle"

-----------------------------------------------------------------------------
(***************************************************************************)
(* What the documents say of the rollback, for any trigger data            *)
(***************************************************************************)

Undone == quiet /\ pc = "idle" /\ reply = "rolled_back"

\* docs/refactor-status.md, lines 176-178: "if a plan adds an action ECA and a
\* later operation fails, rollback removes the added ECA and restores the
\* original ECA count"; docs/agent-gui-api.md, line 28: add_eca has Rollback "Yes".
RollbackRemovesAdded == Undone => \A o \in Trigger : Ids(trigs[o]) = Ids(hist[1][o])
=============================================================================
