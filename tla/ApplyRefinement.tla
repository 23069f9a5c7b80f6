--------------------------- MODULE ApplyRefinement ---------------------------
(***************************************************************************)
(* ApplyPlan implements AtomicApply as long as its plans can be undone and *)
(* the UI thread leaves the triggers alone.  The abstract tree stays at    *)
(* the one the call began with until the call returns, and node addresses  *)
(* are forgotten.                                                          *)
(***************************************************************************)
EXTENDS ApplyPlan

Contents(tree) ==
    [o \in Trigger |-> [tree[o] EXCEPT !.ecas =
        [p \in DOMAIN tree[o].ecas |-> [tree[o].ecas[p] EXCEPT !.id = 0]]]]

\* The triggers by index; without a compile the order never changes.
Order == CHOOSE order \in CaptureOrders : TRUE

\* An added node, renamed when the operation names a function.
AddedNodes(op, recs, type) ==
    LET named(rec) == IF op.func = Nil THEN {rec}
                      ELSE SetEcaFuncName(rec, type, CountEca(rec.ecas, type) - 1, op.func)
    IN  UNION {named(rec) : rec \in AddEca(recs, op.trigger + 1, type, 0)}

Effect(op, tree) ==
    IF op.trigger >= Len(Order) THEN {}
    ELSE LET object == Order[op.trigger + 1]
             recs == IF op.op = "add_eca"
                     THEN AddedNodes(op, [i \in DOMAIN Order |-> tree[Order[i]]], op.type)
                     ELSE Set(tree[object], op, op.value)
         IN  {[tree EXCEPT ![object] = rec] : rec \in recs}

Atomic == INSTANCE AtomicApply WITH
    Trees <- {Contents(tree) : tree \in InitTrigs},
    Jobs <- Plans,
    NoJob <- Nil,
    Refusals <- {"invalid", "not_recoverable", "preview",
                 "unconfirmed", "unapproved"},
    tree <- Contents(IF pc = "idle" THEN trigs ELSE hist[1]),
    credits <- approvals,
    job <- IF pc = "idle" THEN Nil ELSE plan,
    outcome <- IF pc = "idle" THEN reply ELSE "none"

\* A call is all or nothing to whoever looks at the triggers between calls: it
\* commits every operation of the plan in order, or none and only because one
\* of them is impossible, it spends exactly one approval, and it returns
\* (apply_plan, lines 2448-2538).
AtomicSpec == Atomic!Spec

-----------------------------------------------------------------------------
(***************************************************************************)
(* A calm session: no step of the UI thread but grants, one order of the   *)
(* captured triggers, and whatever a client can get started can be undone  *)
(* from any trees the earlier calls may leave.                             *)
(***************************************************************************)
Starts(p, o) == p \in Plans /\ o \in OptionSets /\ Verdict(p, o) = "ask"

AnyAdds == \E p \in Plans, o \in OptionSets : Starts(p, o) /\ Adds(p)

CalmOp(op) == CleanOp(op) /\ (AnyAdds /\ op.op = "set_eca_active" => op.value)

Rested(trig) == Readable(trig) /\ (AnyAdds => AllActive(trig))
Rests(tree) == \A o \in Trigger : Rested(tree[o])

Calm ==
    /\ MaxUiSteps = 0
    /\ \E order \in CaptureOrders : CaptureOrders = {order}
    /\ Nil \notin Plans
    /\ \A p \in Plans, o \in OptionSets : Starts(p, o) =>
          ~o.continue_on_error /\ \A i \in DOMAIN p : CalmOp(p[i])
    /\ \A tree \in InitTrigs : Rests(tree)
=============================================================================
