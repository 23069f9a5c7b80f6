---------------------------- MODULE MCApplyPlan ----------------------------
(***************************************************************************)
(* Instances of ApplyPlan for TLC: two triggers, two or three nodes each.  *)
(***************************************************************************)
EXTENDS ApplyRefinement, TLC

CONSTANTS t1, t2, a, b, long, noText, empty, null, comment, nil

MCText == {a, b, long, noText, empty, null, comment}
MCStored == [text \in MCText |-> IF text = long THEN b ELSE text]
MCTrigger == {t1, t2}

Slot(raw) == [ref |-> noText, raw |-> raw]
Ref(ref) == [ref |-> ref, raw |-> noText]
N(id, type, func, active, params) ==
    [id |-> id, type |-> type, func |-> func, active |-> active, params |-> params]
T(ecas) == [name |-> a, disabled |-> FALSE, ecas |-> ecas]
Two(r1, r2) == (t1 :> r1) @@ (t2 :> r2)

\* Every node active and every parameter a plain text.
CleanTree == Two(T(<<N(1, 0, a, TRUE, <<>>), N(2, 2, a, TRUE, <<Slot(a)>>)>>),
                 T(<<N(3, 2, comment, TRUE, <<Slot(b)>>)>>))

\* The first action of t1 is switched off by the user; a slot is empty,
\* another holds a reference, a third is null.
RoughTree == Two(T(<<N(1, 2, a, FALSE, <<Slot(a)>>), N(2, 2, b, TRUE, <<Slot(noText), Ref(b), NullParam>>)>>),
                 T(<<>>))

CleanTrees == {CleanTree}
AllTrees == {CleanTree, RoughTree}
RoughTrees == {RoughTree}
OneOrder == {<<t1, t2>>}
Orders == {<<t1, t2>>, <<t2, t1>>}

SetName(t, v) == [op |-> "set_trigger_name", trigger |-> t, value |-> v]
SetDisabled(t, v) == [op |-> "set_trigger_disabled", trigger |-> t, value |-> v]
SetFunc(t, y, i, v) == [op |-> "set_eca_func_name", trigger |-> t, type |-> y, index |-> i, value |-> v]
SetActive(t, y, i, v) == [op |-> "set_eca_active", trigger |-> t, type |-> y, index |-> i, value |-> v]
SetParam(t, y, i, k, v) ==
    [op |-> "set_eca_param_value", trigger |-> t, type |-> y, index |-> i, param |-> k, value |-> v]
AddOp(t, y, f, ps) == [op |-> "add_eca", trigger |-> t, type |-> y, func |-> f, params |-> ps]
RemoveOp(t, y, i) == [op |-> "remove_eca", trigger |-> t, type |-> y, index |-> i]

Failing == SetFunc(1, 2, 1, b)
\* A parameter text longer than its buffer.
TooLong == SetParam(0, 2, 0, 0, long)

\* One operation of each kind on the first two triggers, one with an index out of range.
OneOfEach == {SetName(0, b), SetDisabled(0, TRUE), SetFunc(0, 2, 0, b), SetActive(0, 2, 0, FALSE),
              SetParam(0, 2, 0, 0, b), AddOp(0, 2, nil, <<>>), AddOp(0, 2, b, <<long, b>>),
              AddOp(0, 1, nil, <<>>), RemoveOp(0, 2, 0), Failing}
Upto(n) == UNION {[1 .. k -> OneOfEach] : k \in 1 .. n}
Unsound == {<<>>, <<SetName(0, b), nil>>}

\* Every plan of one or two operations, some with a text that is cut short, those
\* of three that begin with a change of a node and end with an operation that
\* cannot be carried out, and two that the checks at the head of the call refuse.
CleanPlans == Upto(2) \cup Unsound
              \cup {<<TooLong>>, <<TooLong, Failing>>, <<SetActive(0, 2, 0, FALSE), TooLong>>}
              \cup {<<x, y, Failing>> : x \in {op \in OneOfEach : op.op \in
                        {"add_eca", "set_eca_func_name", "set_eca_active"}}, y \in OneOfEach}

\* The plans that can be undone whatever undoable plan ran before them: no
\* operation switches a node off.
Undoable == {op \in OneOfEach : CleanOp(op) /\ op.op # "set_eca_active"}
            \cup {SetActive(0, 2, 0, TRUE), TooLong}
UndoablePlans == UNION {[1 .. k -> Undoable] : k \in 1 .. 2} \cup Unsound

Bad == SetFunc(1, 2, 7, b)
AddThenFail == {<<AddOp(0, 2, nil, <<>>), Bad>>}

Opt(d, c, e, r) ==
    [dry_run |-> d, confirm |-> c, continue_on_error |-> e, allow_non_recoverable |-> r]
Default == Opt(FALSE, TRUE, FALSE, FALSE)
DefaultOnly == {Default}
AllOptions == {Default, Opt(FALSE, TRUE, TRUE, FALSE), Opt(FALSE, TRUE, FALSE, TRUE),
               Opt(TRUE, TRUE, FALSE, FALSE), Opt(FALSE, FALSE, FALSE, TRUE)}
=============================================================================
