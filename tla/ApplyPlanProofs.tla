---------------------------- MODULE ApplyPlanProofs ----------------------------
(***************************************************************************)
(* Theorems about ApplyPlan for every map, plan and bound: its state keeps *)
(* its types, and a plan whose operations can be undone, run without       *)
(* interference from the UI thread, is undone exactly when it fails and    *)
(* reads back what it wrote when it succeeds; a session of such plans      *)
(* takes the steps of AtomicApply.                                         *)
(***************************************************************************)
EXTENDS ApplyRefinement, EcaTreeProofs, WellFoundedInduction

-----------------------------------------------------------------------------
(***************************************************************************)
(* Operations, one read and one write at a time                            *)
(***************************************************************************)

LEMMA OpFields ==
    ASSUME NEW op \in Operation
    PROVE  /\ op.trigger \in Nat
           /\ op.op \in SetOps \cup {"add_eca", "remove_eca"}
           /\ op.op = "set_trigger_name" => op.value \in Name
           /\ op.op = "set_trigger_disabled" => op.value \in BOOLEAN
           /\ op.op = "set_eca_func_name" => op.value \in Name
           /\ op.op = "set_eca_active" => op.value \in BOOLEAN
           /\ op.op = "set_eca_param_value" => op.value \in Text /\ op.param \in Nat
           /\ op.op = "add_eca" => op.func \in Name \cup {Nil} /\ op.params \in Seq(Text)
BY DEF Operation, SetOps

LEMMA TextFacts ==
    /\ NoText \in Text /\ EmptyMark \in Text /\ NullMark \in Text /\ CommentString \in Text
    /\ Nil \notin Text /\ Nil \notin BOOLEAN /\ Nil \notin Nat
    /\ \A text \in Text : ToStr(text) \in Text \cup {Nil}
BY TextAssumption DEF ToStr

\* What a buffer keeps of a text fits it.
LEMMA StoredFacts ==
    /\ \A text \in Text : Stored[text] \in Text
    /\ \A text \in Text \ {NoText} : Stored[text] \in Name
    /\ \A text \in Name : Stored[text] = text /\ text \in Text
BY StoredAssumption DEF Name, Fits

LEMMA ReadType ==
    ASSUME NEW trig \in TriggerRecord, NEW op \in Operation
    PROVE  ReadFrom(trig, op) \in ReadingOf(op)
<1>1. trig.ecas \in Seq(Node) /\ trig.name \in Text /\ trig.disabled \in BOOLEAN
    BY DEF TriggerRecord
<1>2. CASE op.op \in {"add_eca", "remove_eca"}
    BY <1>1, <1>2, CountType DEF ReadFrom, ReadingOf
<1>3. CASE op.op = "set_trigger_name"
    BY <1>1, <1>3, TextFacts DEF ReadFrom, ReadingOf
<1>4. CASE op.op = "set_trigger_disabled"
    BY <1>1, <1>4 DEF ReadFrom, ReadingOf
<1>5. CASE op.op = "set_eca_func_name"
    <2>1. EcaFuncName(trig, op.type, op.index) \in Text \cup {Nil}
        <3>1. CASE FindEca(trig.ecas, op.type, op.index) = {}
            BY <3>1 DEF EcaFuncName
        <3>2. CASE FindEca(trig.ecas, op.type, op.index) # {}
            <4>1. PICK p \in FindEca(trig.ecas, op.type, op.index) : TRUE
                BY <3>2
            <4>2. trig.ecas[p] \in Node /\ FindEca(trig.ecas, op.type, op.index) = {p}
                BY <1>1, <4>1, Found
            <4>3. trig.ecas[p].func \in Text
                BY <4>2 DEF Node
            <4> QED  BY <4>2, <4>3, TextFacts DEF EcaFuncName
        <3> QED  BY <3>1, <3>2
    <2> QED  BY <1>5, <2>1 DEF ReadFrom, ReadingOf
<1>6. CASE op.op = "set_eca_active"
    <2>1. EcaActive(trig, op.type, op.index) \in BOOLEAN \cup {Nil}
        <3>1. CASE FindAnyEca(trig.ecas, op.type, op.index) = {}
            BY <3>1 DEF EcaActive
        <3>2. CASE FindAnyEca(trig.ecas, op.type, op.index) # {}
            <4>1. PICK p \in FindAnyEca(trig.ecas, op.type, op.index) : TRUE
                BY <3>2
            <4>2. trig.ecas[p] \in Node /\ FindAnyEca(trig.ecas, op.type, op.index) = {p}
                BY <1>1, <4>1, Found
            <4>3. trig.ecas[p].active \in BOOLEAN
                BY <4>2 DEF Node
            <4> QED  BY <4>2, <4>3 DEF EcaActive
        <3> QED  BY <3>1, <3>2
    <2> QED  BY <1>6, <2>1 DEF ReadFrom, ReadingOf
<1>7. CASE op.op = "set_eca_param_value"
    <2> DEFINE found == FindEca(trig.ecas, op.type, op.index)
               node == trig.ecas[CHOOSE p \in found : TRUE]
    <2>1. EcaParamValue(trig, op.type, op.index, op.param) \in Text \cup {Nil}
        <3>1. CASE found = {} \/ op.param >= Len(node.params)
            BY <3>1 DEF EcaParamValue
        <3>2. CASE found # {} /\ ~(op.param >= Len(node.params))
            <4>1. PICK p \in found : TRUE
                BY <3>2
            <4>2. trig.ecas[p] \in Node /\ found = {p}
                BY <1>1, <4>1, Found
            <4>3. node \in Node
                BY <4>2
            <4>4. node.params \in Seq(Param) /\ op.param \in Nat
                BY <1>7, <4>3, OpFields DEF Node
            <4>5. op.param + 1 \in 1 .. Len(node.params)
                BY <3>2, <4>4, LenProperties
            <4>6. node.params[op.param + 1] \in Param
                BY <4>4, <4>5, ElementOfSeq
            <4>7. ReadSlot(node.params[op.param + 1]) \in Text
                BY <4>6, TextFacts DEF ReadSlot, Param, ParamSlot
            <4> QED  BY <3>2, <4>7 DEF EcaParamValue
        <3> QED  BY <3>1, <3>2
    <2> QED  BY <1>7, <2>1 DEF ReadFrom, ReadingOf
<1> QED  BY <1>2, <1>3, <1>4, <1>5, <1>6, <1>7, OpFields DEF SetOps

LEMMA SetType ==
    ASSUME NEW trig \in TriggerRecord, NEW op \in Operation, op.op \in SetOps,
           NEW value \in ReadingOf(op) \ {Nil}
    PROVE  Set(trig, op, value) \subseteq TriggerRecord
<1>1. CASE op.op = "set_trigger_name"
    BY <1>1 DEF Set, ReadingOf, SetTriggerName, TriggerRecord
<1>2. CASE op.op = "set_trigger_disabled"
    BY <1>2 DEF Set, ReadingOf, SetTriggerDisabled, TriggerRecord
<1>3. CASE op.op = "set_eca_func_name"
    BY <1>3, SetFuncType DEF Set, ReadingOf
<1>4. CASE op.op = "set_eca_active"
    BY <1>4, SetActiveType DEF Set, ReadingOf
<1>5. CASE op.op = "set_eca_param_value"
    <2>1. value \in Text /\ op.param \in Nat /\ Stored[value] \in Text
        BY <1>5, OpFields, StoredFacts DEF ReadingOf
    <2>2. WriteParam(trig, op.type, op.index, op.param, Stored[value]) \subseteq TriggerRecord
        BY <2>1, SetParamType
    <2> QED  BY <1>5, <2>2 DEF Set, SetEcaParamValue
<1> QED  BY <1>1, <1>2, <1>3, <1>4, <1>5 DEF SetOps

LEMMA ValueType ==
    ASSUME NEW op \in Operation, op.op \in SetOps
    PROVE  op.value \in ReadingOf(op) \ {Nil}
BY OpFields, TextFacts DEF ReadingOf, SetOps, Name

LEMMA RevertType ==
    ASSUME NEW trig \in TriggerRecord, NEW op \in Operation, NEW value \in ReadingOf(op)
    PROVE  RevertFrom(trig, op, value) \subseteq TriggerRecord
<1>1. CASE op.op = "add_eca"
    BY <1>1, RemoveType DEF RevertFrom
<1>2. CASE op.op = "remove_eca" \/ value = Nil
    BY <1>2, RemoveType DEF RevertFrom
<1>3. CASE op.op \in SetOps /\ value # Nil
    BY <1>3, SetType DEF RevertFrom, SetOps
<1> QED  BY <1>1, <1>2, <1>3, OpFields

-----------------------------------------------------------------------------
(***************************************************************************)
(* Types                                                                   *)
(***************************************************************************)

\* Which operation is at hand where in the loop.
Control ==
    /\ pc \in {"count", "add", "addfunc", "addparam"} => Op.op = "add_eca"
    /\ pc = "apply" => Op.op # "add_eca"
    /\ pc = "addfunc" => Op.func # Nil /\ paramAt = 1
    /\ pc = "addparam" => paramAt \in DOMAIN Op.params

TypeInv == TypeOK /\ Control

\* The typing of the editor's part of the state, which most steps leave alone.
LEMMA OpInPlan ==
    ASSUME TypeOK, pc # "idle"
    PROVE  /\ Op \in Operation /\ step \in 1 .. Len(plan) /\ Len(plan) \in Nat
           /\ opts \in Options
BY LenProperties, ElementOfSeq DEF TypeOK, Op

LEMMA ObjectType ==
    ASSUME TypeOK, NEW op \in Operation, Captured(op)
    PROVE  /\ Object(op) \in Trigger /\ Target(op) \in TriggerRecord
           /\ op.trigger + 1 \in 1 .. Len(cap)
<1>1. cap \in Seq(Trigger) /\ op.trigger \in Nat /\ op.trigger < Len(cap) /\ Len(cap) \in Nat
    BY OpFields, LenProperties DEF TypeOK, Captured
<1>2. op.trigger + 1 \in 1 .. Len(cap)
    BY <1>1
<1>3. Object(op) \in Trigger
    BY <1>1, <1>2, ElementOfSeq DEF Object
<1> QED  BY <1>2, <1>3 DEF Target, TypeOK

LEMMA ReadingType ==
    ASSUME TypeOK, NEW op \in Operation
    PROVE  Reading(op) \in ReadingOf(op)
<1>1. CASE Captured(op)
    BY <1>1, ObjectType, ReadType DEF Reading
<1>2. CASE ~Captured(op)
    BY <1>2 DEF Reading, ReadingOf
<1> QED  BY <1>1, <1>2

LEMMA RecsType ==
    ASSUME TypeOK
    PROVE  /\ [i \in DOMAIN cap |-> trigs[cap[i]]] \in Seq(TriggerRecord)
           /\ Len([i \in DOMAIN cap |-> trigs[cap[i]]]) = Len(cap)
           /\ \A i \in 1 .. Len(cap) : /\ cap[i] \in Trigger
                                       /\ [j \in DOMAIN cap |-> trigs[cap[j]]][i] = trigs[cap[i]]
<1>1. cap \in Seq(Trigger) /\ DOMAIN cap = 1 .. Len(cap) /\ Len(cap) \in Nat
    BY LenProperties DEF TypeOK
<1>2. \A i \in 1 .. Len(cap) : cap[i] \in Trigger
    BY <1>1, ElementOfSeq
<1>3. \A i \in 1 .. Len(cap) : trigs[cap[i]] \in TriggerRecord
    BY <1>2 DEF TypeOK
<1>4. [i \in DOMAIN cap |-> trigs[cap[i]]] \in [1 .. Len(cap) -> TriggerRecord]
    BY <1>1, <1>3
<1>5. [i \in DOMAIN cap |-> trigs[cap[i]]] \in Seq(TriggerRecord)
    BY <1>1, <1>4, IsASeq
<1> QED  BY <1>1, <1>2, <1>5, LenProperties

\* What every write of the worker leaves is a record.
LEMMA WriteTypes ==
    ASSUME TypeInv, pc # "idle"
    PROVE  /\ pc = "apply" => Applying(Op) \subseteq TriggerRecord
           /\ pc = "add" => Adding(Op) \subseteq TriggerRecord
           /\ pc = "addfunc" => SettingAddedFunc(Op) \subseteq TriggerRecord
           /\ pc = "addparam" => SettingAddedParam(Op) \subseteq TriggerRecord
<1> USE DEF TypeInv
<1>1. Op \in Operation /\ TypeOK
    BY OpInPlan
<1>2. CASE ~Captured(Op)
    BY <1>2 DEF Applying, Adding, SettingAddedFunc, SettingAddedParam
<1>3. CASE Captured(Op)
    <2>1. Object(Op) \in Trigger /\ Target(Op) \in TriggerRecord /\ Op.trigger + 1 \in 1 .. Len(cap)
        BY <1>1, <1>3, ObjectType
    <2>2. ASSUME pc = "apply" PROVE Applying(Op) \subseteq TriggerRecord
        <3>1. Op.op # "add_eca"
            BY <2>2 DEF Control
        <3>2. CASE Op.op = "remove_eca"
            BY <1>3, <2>1, <3>2, RemoveType DEF Applying
        <3>3. CASE Op.op \in SetOps
            <4>1. Set(Target(Op), Op, Op.value) \subseteq TriggerRecord
                BY <1>1, <2>1, <3>3, SetType, ValueType
            <4> QED  BY <1>3, <3>3, <4>1 DEF Applying, SetOps
        <3> QED  BY <1>1, <3>1, <3>2, <3>3, OpFields
    <2>3. ASSUME pc = "add" PROVE Adding(Op) \subseteq TriggerRecord
        <3>1. PICK recs : recs = [i \in DOMAIN cap |-> trigs[cap[i]]]
            OBVIOUS
        <3>2. recs \in Seq(TriggerRecord) /\ Op.trigger + 1 \in 1 .. Len(recs) /\ fresh \in Nat
            BY <1>1, <2>1, <3>1, RecsType DEF TypeOK
        <3>3. AddEca(recs, Op.trigger + 1, Op.type, fresh) \subseteq TriggerRecord
            BY <3>2, AddType
        <3> QED  BY <1>3, <3>1, <3>3 DEF Adding
    <2>4. ASSUME pc = "addfunc" PROVE SettingAddedFunc(Op) \subseteq TriggerRecord
        <3>1. Op.func \in Text
            BY <1>1, <2>4, OpFields DEF Control, Name
        <3> QED  BY <1>3, <2>1, <3>1, SetFuncType DEF SettingAddedFunc
    <2>5. ASSUME pc = "addparam" PROVE SettingAddedParam(Op) \subseteq TriggerRecord
        <3>1. Op.params \in Seq(Text) /\ paramAt \in DOMAIN Op.params
            BY <1>1, <2>5, OpFields DEF Control
        <3>2. paramAt - 1 \in Nat /\ Op.params[paramAt] \in Text
            BY <3>1, LenProperties, ElementOfSeq
        <3>3. Stored[Op.params[paramAt]] \in Text
            BY <3>2, StoredFacts
        <3>4. WriteParam(Target(Op), Op.type, newIndex, paramAt - 1, Stored[Op.params[paramAt]])
                  \subseteq TriggerRecord
            BY <2>1, <3>2, <3>3, SetParamType
        <3> QED  BY <1>3, <3>4 DEF SettingAddedParam, SetEcaParamValue
    <2> QED  BY <2>2, <2>3, <2>4, <2>5
<1> QED  BY <1>2, <1>3

LEMMA WrittenType ==
    ASSUME TypeOK, NEW op, NEW recs, recs \subseteq TriggerRecord, Written(op, recs)
    PROVE  trigs' \in [Trigger -> TriggerRecord]
BY DEF TypeOK, Written

LEMMA TypeInit ==
    ASSUME Init
    PROVE  TypeInv
<1>1. <<trigs>> \in Seq([Trigger -> TriggerRecord]) /\ Len(<<trigs>>) = 1
    BY PlanAssumption DEF Init
<1>2. <<>> \in Seq(Trigger) /\ <<>> \in Seq(Operation)
      /\ <<>> \in Seq([op : Operation, ok : BOOLEAN, verified : BOOLEAN \cup {Nil}])
    OBVIOUS
<1>3. TypeOK
    <2>1. trigs \in [Trigger -> TriggerRecord] /\ cap \in Seq(Trigger)
        BY PlanAssumption DEF Init
    <2>2. /\ toPut \in Seq(Trigger) /\ plan \in Seq(Operation) /\ rollbacks = <<>>
          /\ applied \in Seq([op : Operation, ok : BOOLEAN, verified : BOOLEAN \cup {Nil}])
          /\ hist \in Seq([Trigger -> TriggerRecord]) /\ Len(hist) = Len(rollbacks) + 1
        BY <1>1, <1>2 DEF Init
    <2>3. \A i \in DOMAIN rollbacks : FALSE
        BY <2>2
    <2>4. calls \in 0 .. MaxCalls /\ grants \in 0 .. MaxGrants /\ uiSteps \in 0 .. MaxUiSteps
        BY PlanAssumption DEF Init
    <2>5. pc \in Pcs /\ pc = "idle" /\ ~InOperation
        BY DEF Init, Pcs, InOperation
    <2>6. /\ approvals \in Nat /\ fresh \in Nat /\ step \in Nat /\ newIndex \in Nat
          /\ paramAt \in Nat /\ opts = Nil /\ quiet \in BOOLEAN /\ sound \in BOOLEAN
        BY DEF Init
    <2> QED  BY <2>1, <2>2, <2>3, <2>4, <2>5, <2>6 DEF TypeOK
<1>4. Control
    BY DEF Init, Control
<1> QED  BY <1>3, <1>4 DEF TypeInv

LEMMA BoundsKept ==
    ASSUME NEW n \in Nat, NEW k \in 0 .. n, k < n
    PROVE  k + 1 \in 0 .. n
OBVIOUS

LEMMA ValidPlanType ==
    ASSUME NEW p \in Plans, ValidPlan(p)
    PROVE  p \in Seq(Operation) /\ 1 \in DOMAIN p
<1>1. p \in Seq(Operation \cup {Nil}) /\ p # <<>>
    BY PlanAssumption DEF ValidPlan
<1>2. Len(p) \in Nat /\ p \in [1 .. Len(p) -> Operation] /\ 1 \in 1 .. Len(p)
    BY <1>1, LenProperties, EmptySeq DEF ValidPlan
<1> QED  BY <1>2

LEMMA TypeCall ==
    ASSUME TypeInv, Call
    PROVE  TypeInv'
<1>1. calls' \in 0 .. MaxCalls
    BY PlanAssumption, BoundsKept DEF Call, TypeInv, TypeOK
<1>2. PICK p \in Plans, o \in OptionSets :
          \/ \E text : Return(text)
          \/ Verdict(p, o) = "ask" /\ approvals > 0 /\ Begin(p, o)
    BY DEF Call
<1>3. pc = "idle" /\ UNCHANGED <<grants, uiSteps>>
    BY DEF Call
<1>4. CASE \E text : Return(text)
    <2>1. TypeOK' 
        BY <1>1, <1>3, <1>4 DEF Return, TypeInv, TypeOK, history, InOperation, Op
    <2>2. Control'
        BY <1>3, <1>4 DEF Return, Control
    <2> QED  BY <2>1, <2>2 DEF TypeInv
<1>5. CASE Verdict(p, o) = "ask" /\ approvals > 0 /\ Begin(p, o)
    <2>1. ValidPlan(p)
        BY <1>5 DEF Verdict
    <2>2. p \in Seq(Operation) /\ 1 \in DOMAIN p /\ o \in Options
        BY <2>1, ValidPlanType, PlanAssumption
    <2>3. approvals' \in Nat
        BY <1>5 DEF Begin, TypeInv, TypeOK
    <2>4. /\ hist' \in Seq([Trigger -> TriggerRecord]) /\ rollbacks' = <<>>
          /\ Len(hist') = Len(rollbacks') + 1
          /\ applied' \in Seq([op : Operation, ok : BOOLEAN, verified : BOOLEAN \cup {Nil}])
        BY <1>5 DEF Begin, TypeInv, TypeOK
    <2>5. quiet' \in BOOLEAN /\ sound' \in BOOLEAN
        BY <1>5 DEF Begin, CleanStart
    <2>6. pc' = "snapshot" /\ plan' = p /\ opts' = o /\ step' = 1
        BY <1>5 DEF Begin
    <2>7. TypeOK'
        BY <1>1, <1>3, <1>5, <2>2, <2>3, <2>4, <2>5, <2>6
        DEF Begin, TypeInv, TypeOK, InOperation, Pcs
    <2>8. Control'
        BY <2>6 DEF Control
    <2> QED  BY <2>7, <2>8 DEF TypeInv
<1> QED  BY <1>2, <1>4, <1>5

\* Where the loop goes on after an operation: the next one or the end.
LEMMA TypeFail ==
    ASSUME TypeInv, pc # "idle", Fail
    PROVE  TypeInv'
<1>1. step \in 1 .. Len(plan) /\ Len(plan) \in Nat /\ opts \in Options /\ plan \in Seq(Operation)
    BY OpInPlan DEF TypeInv, TypeOK
<1>2. step # Len(plan) => step + 1 \in DOMAIN plan /\ step + 1 \in Nat
    BY <1>1, LenProperties
<1>3. applied' \in Seq([op : Operation, ok : BOOLEAN, verified : BOOLEAN \cup {Nil}])
    BY OpInPlan, AppendProperties DEF Fail, TypeInv, TypeOK
<1>4. /\ pc' \in {"idle", "snapshot", "revert"} /\ pc' \in Pcs
      /\ step' \in Nat /\ step' \in DOMAIN plan
    BY <1>1, <1>2 DEF Fail, TypeInv, TypeOK, Pcs
<1>5. TypeOK'
    BY <1>1, <1>3, <1>4 DEF Fail, TypeInv, TypeOK, history, counters, InOperation, Op
<1>6. Control'
    BY <1>4 DEF Control
<1> QED  BY <1>5, <1>6 DEF TypeInv

LEMMA TypeSnapshot ==
    ASSUME TypeInv, Snapshot
    PROVE  TypeInv'
<1>1. Op \in Operation /\ Op' = Op
    BY OpInPlan DEF Snapshot, TypeInv, Op
<1>2. before' \in ReadingOf(Op)
    BY <1>1, ReadingType DEF Snapshot, TypeInv
<1>3. pc' \in {"count", "apply"} /\ pc' \in Pcs /\ pc # "idle"
    BY DEF Snapshot, Pcs
<1>4. TypeOK'
    BY <1>1, <1>2, <1>3 DEF Snapshot, TypeInv, TypeOK, editor, history, counters
<1>5. Control'
    BY <1>1 DEF Snapshot, Control
<1> QED  BY <1>4, <1>5 DEF TypeInv

LEMMA TypeApply ==
    ASSUME TypeInv, Apply
    PROVE  TypeInv'
<1>1. CASE Fail
    BY <1>1, TypeFail DEF Apply
<1>2. CASE ~Fail
    <2>1. pc = "apply" /\ Written(Op, Applying(Op)) /\ pc' = "verify"
        BY <1>2 DEF Apply
    <2>2. trigs' \in [Trigger -> TriggerRecord]
        BY <2>1, WriteTypes, WrittenType DEF TypeInv
    <2>3. TypeOK'
        BY <1>2, <2>1, <2>2 DEF Apply, TypeInv, TypeOK, history, counters, InOperation, Pcs, Op
    <2>4. Control'
        BY <2>1 DEF Control
    <2> QED  BY <2>3, <2>4 DEF TypeInv
<1> QED  BY <1>1, <1>2

LEMMA TypeCountForAdd ==
    ASSUME TypeInv, CountForAdd
    PROVE  TypeInv'
<1>1. Op \in Operation /\ Op' = Op /\ Op.op = "add_eca"
    BY OpInPlan DEF CountForAdd, TypeInv, Control, Op
<1>2. newIndex' \in Nat
    BY <1>1, ReadingType DEF CountForAdd, TypeInv, ReadingOf
<1>3. pc = "count" /\ pc' = "add"
    BY DEF CountForAdd
<1>4. TypeOK'
    BY <1>1, <1>2, <1>3 DEF CountForAdd, TypeInv, TypeOK, editor, history, counters, InOperation, Pcs
<1>5. Control'
    BY <1>1, <1>3 DEF Control
<1> QED  BY <1>4, <1>5 DEF TypeInv

LEMMA FillingType ==
    ASSUME NEW params \in Seq(Text), NEW done \in Nat, done < Len(params)
    PROVE  done + 1 \in DOMAIN params
BY LenProperties

LEMMA TypeAddNode ==
    ASSUME TypeInv, AddNode
    PROVE  TypeInv'
<1>1. CASE Fail
    BY <1>1, TypeFail DEF AddNode
<1>2. CASE ~Fail
    <2>1. /\ pc = "add" /\ Written(Op, Adding(Op)) /\ fresh' = fresh + 1 /\ paramAt' = 1
          /\ pc' = IF Op.func # Nil THEN "addfunc" ELSE Filling(0)
        BY <1>2 DEF AddNode
    <2>2. trigs' \in [Trigger -> TriggerRecord] /\ fresh' \in Nat
        BY <2>1, WriteTypes, WrittenType DEF TypeInv, TypeOK
    <2>3. Op \in Operation /\ Op' = Op /\ Op.op = "add_eca" /\ Op.params \in Seq(Text)
        BY <1>2, <2>1, OpInPlan, OpFields DEF AddNode, TypeInv, Control, Op
    <2>4. /\ pc' \in {"addfunc", "addparam", "verify"} /\ pc' \in Pcs
          /\ pc' = "addfunc" => Op.func # Nil
          /\ pc' = "addparam" => 1 \in DOMAIN Op.params
        BY <2>1, <2>3, FillingType DEF Filling, Pcs
    <2>5. TypeOK'
        BY <1>2, <2>1, <2>2, <2>3, <2>4 DEF AddNode, TypeInv, TypeOK, history, counters, InOperation
    <2>6. Control'
        BY <2>1, <2>3, <2>4 DEF Control
    <2> QED  BY <2>5, <2>6 DEF TypeInv
<1> QED  BY <1>1, <1>2

LEMMA TypeSetAddedFunc ==
    ASSUME TypeInv, SetAddedFunc
    PROVE  TypeInv'
<1>1. CASE Fail
    BY <1>1, TypeFail DEF SetAddedFunc
<1>2. CASE ~Fail
    <2>1. /\ pc = "addfunc" /\ Written(Op, SettingAddedFunc(Op)) /\ pc' = Filling(0)
          /\ paramAt' = paramAt
        BY <1>2 DEF SetAddedFunc
    <2>2. trigs' \in [Trigger -> TriggerRecord]
        BY <2>1, WriteTypes, WrittenType DEF TypeInv
    <2>3. /\ Op \in Operation /\ Op' = Op /\ Op.op = "add_eca" /\ Op.params \in Seq(Text)
          /\ paramAt = 1
        BY <1>2, <2>1, OpInPlan, OpFields DEF SetAddedFunc, TypeInv, Control, Op
    <2>4. /\ pc' \in {"addparam", "verify"} /\ pc' \in Pcs
          /\ pc' = "addparam" => 1 \in DOMAIN Op.params
        BY <2>1, <2>3, FillingType DEF Filling, Pcs
    <2>5. TypeOK'
        BY <1>2, <2>1, <2>2, <2>3, <2>4 DEF SetAddedFunc, TypeInv, TypeOK, history, counters, InOperation
    <2>6. Control'
        BY <2>1, <2>3, <2>4 DEF Control
    <2> QED  BY <2>5, <2>6 DEF TypeInv
<1> QED  BY <1>1, <1>2

LEMMA TypeSetAddedParam ==
    ASSUME TypeInv, SetAddedParam
    PROVE  TypeInv'
<1>1. CASE Fail
    BY <1>1, TypeFail DEF SetAddedParam
<1>2. CASE ~Fail
    <2>1. /\ pc = "addparam" /\ Written(Op, SettingAddedParam(Op)) /\ pc' = Filling(paramAt)
          /\ paramAt' = paramAt + 1
        BY <1>2 DEF SetAddedParam
    <2>2. trigs' \in [Trigger -> TriggerRecord]
        BY <2>1, WriteTypes, WrittenType DEF TypeInv
    <2>3. /\ Op \in Operation /\ Op' = Op /\ Op.op = "add_eca" /\ Op.params \in Seq(Text)
          /\ paramAt \in Nat /\ paramAt' \in Nat
        BY SMTT(30), <1>2, <2>1, OpInPlan, OpFields DEF SetAddedParam, TypeInv, TypeOK, Control, Op
    <2>4. /\ pc' \in {"addparam", "verify"} /\ pc' \in Pcs
          /\ pc' = "addparam" => paramAt' \in DOMAIN Op.params
        BY <2>1, <2>3, FillingType DEF Filling, Pcs
    <2>5. TypeOK'
        BY <1>2, <2>1, <2>2, <2>3, <2>4 DEF SetAddedParam, TypeInv, TypeOK, history, counters, InOperation
    <2>6. Control'
        BY <2>1, <2>3, <2>4 DEF Control
    <2> QED  BY <2>5, <2>6 DEF TypeInv
<1> QED  BY <1>1, <1>2

LEMMA TypeVerify ==
    ASSUME TypeInv, Verify
    PROVE  TypeInv'
<1>1. /\ pc = "verify" /\ Op \in Operation /\ step \in 1 .. Len(plan) /\ Len(plan) \in Nat
      /\ before \in ReadingOf(Op) /\ plan \in Seq(Operation)
    BY OpInPlan DEF Verify, TypeInv, TypeOK, InOperation
<1>2. step # Len(plan) => step + 1 \in DOMAIN plan /\ step + 1 \in Nat
    BY <1>1, LenProperties
<1>3. Verified(Op) \in BOOLEAN
    BY DEF Verified
<1>4. applied' \in Seq([op : Operation, ok : BOOLEAN, verified : BOOLEAN \cup {Nil}])
    BY <1>1, <1>3, AppendProperties DEF Verify, TypeInv, TypeOK
<1>5. /\ hist' \in Seq([Trigger -> TriggerRecord])
      /\ Len(hist') = Len(rollbacks') + 1
      /\ \A i \in DOMAIN rollbacks' : /\ rollbacks'[i].op \in Operation
                                     /\ rollbacks'[i].before \in ReadingOf(rollbacks'[i].op)
    BY SMTT(30), <1>1 DEF Verify, TypeInv, TypeOK
<1>6. pc' \in {"idle", "snapshot"} /\ pc' \in Pcs /\ step' \in Nat /\ step' \in DOMAIN plan
    BY <1>1, <1>2, LenProperties DEF Verify, Pcs
<1>7. TypeOK'
    BY SMTT(30), <1>1, <1>4, <1>5, <1>6 DEF Verify, TypeInv, TypeOK, editor, counters, InOperation
<1>8. Control'
    BY <1>6 DEF Control
<1> QED  BY <1>7, <1>8 DEF TypeInv

LEMMA TypeRevert ==
    ASSUME TypeInv, Revert
    PROVE  TypeInv'
<1>1. pc = "revert" /\ pc' \in {"idle", "revert"} /\ pc' \in Pcs /\ UNCHANGED <<step, plan>>
    BY DEF Revert, Pcs
<1>2. CASE rollbacks = <<>>
    <2>1. TypeOK'
        BY <1>1, <1>2 DEF Revert, TypeInv, TypeOK, counters, InOperation
    <2> QED  BY <1>1, <2>1 DEF TypeInv, Control
<1>3. CASE rollbacks # <<>>
    <2> DEFINE n == Len(rollbacks)
               last == rollbacks[n]
    <2>1. n \in DOMAIN rollbacks /\ n \in Nat \ {0} /\ n = Len(hist) - 1
        BY <1>3 DEF TypeInv, TypeOK
    <2>2. last.op \in Operation /\ last.before \in ReadingOf(last.op)
        BY <2>1 DEF TypeInv, TypeOK
    <2>3. Reverting(last.op, last.before) \subseteq TriggerRecord
        BY <2>2, ObjectType, RevertType DEF Reverting, TypeInv
    <2>4. trigs' \in [Trigger -> TriggerRecord]
        BY <1>3, <2>3, WrittenType DEF Revert, TypeInv, TypeOK
    <2>5. /\ Len(rollbacks') = n - 1
          /\ \A i \in DOMAIN rollbacks' : i \in DOMAIN rollbacks /\ rollbacks'[i] = rollbacks[i]
        <3>1. rollbacks' = SubSeq(rollbacks, 1, n - 1)
            BY <1>3 DEF Revert
        <3> QED  BY <2>1, <3>1
    <2>6. hist' \in Seq([Trigger -> TriggerRecord]) /\ Len(hist') = n
        <3>1. hist \in Seq([Trigger -> TriggerRecord]) /\ hist' = SubSeq(hist, 1, Len(hist) - 1)
            BY <1>3 DEF Revert, TypeInv, TypeOK
        <3> QED  BY <2>1, <3>1
    <2>7. \A i \in DOMAIN rollbacks' : /\ rollbacks'[i].op \in Operation
                                      /\ rollbacks'[i].before \in ReadingOf(rollbacks'[i].op)
        BY <2>5 DEF TypeInv, TypeOK
    <2>8. Len(hist') = Len(rollbacks') + 1
        BY <2>1, <2>5, <2>6
    <2>9. UNCHANGED <<cap, toPut, approvals, fresh, opts, newIndex, paramAt, applied, quiet,
                      sound, calls, grants, uiSteps>>
        BY DEF Revert, counters
    <2>10. TypeOK'
        BY <1>1, <2>4, <2>6, <2>7, <2>8, <2>9 DEF TypeInv, TypeOK, InOperation
    <2> QED  BY <1>1, <2>10 DEF TypeInv, Control
<1> QED  BY <1>2, <1>3

LEMMA TypeUi ==
    ASSUME TypeInv, WorkerStart \/ Grant
    PROVE  TypeInv'
<1>1. approvals' \in Nat /\ grants' \in 0 .. MaxGrants
    BY SMTT(30), PlanAssumption, BoundsKept DEF WorkerStart, Grant, TypeInv, TypeOK, counters
<1>2. UNCHANGED <<trigs, cap, toPut, fresh, worker, history, calls, uiSteps>>
    BY DEF WorkerStart, Grant, counters
<1>3. TypeOK'
    BY <1>1, <1>2 DEF TypeInv, TypeOK, worker, history, InOperation, Op
<1>4. Control'
    BY <1>2 DEF TypeInv, Control, worker, Op
<1> QED  BY <1>3, <1>4 DEF TypeInv

LEMMA TypeUserEdit ==
    ASSUME TypeInv, NEW o \in Trigger, UserEdit(o)
    PROVE  TypeInv'
<1>1. uiSteps' \in 0 .. MaxUiSteps /\ quiet' \in BOOLEAN
    BY PlanAssumption, BoundsKept DEF UserEdit, UiStep, TypeInv, TypeOK
<1>2. UserEdits(trigs[o]) \subseteq TriggerRecord
    <2> DEFINE trig == trigs[o]
    <2>1. trig \in TriggerRecord /\ trig.ecas \in Seq(Node) /\ DOMAIN trig.ecas = 1 .. Len(trig.ecas)
        BY LenProperties DEF TypeInv, TypeOK, TriggerRecord
    <2> HIDE DEF trig
    <2>2. ASSUME NEW p \in DOMAIN trig.ecas
          PROVE  [trig EXCEPT !.ecas[p].active = ~trig.ecas[p].active] \in TriggerRecord
        <3>1. trig.ecas[p] \in Node
            BY <2>1, <2>2, ElementOfSeq
        <3>2. [trig.ecas[p] EXCEPT !.active = ~trig.ecas[p].active] \in Node
            BY <3>1 DEF Node
        <3>3. [trig.ecas EXCEPT ![p] = [trig.ecas[p] EXCEPT !.active = ~trig.ecas[p].active]] \in Seq(Node)
            BY <2>1, <2>2, <3>2, ReplaceNode
        <3> QED  BY <2>1, <3>3 DEF TriggerRecord
    <2>3. ASSUME NEW p \in DOMAIN trig.ecas
          PROVE  [trig EXCEPT !.ecas = RemoveAt(trig.ecas, p)] \in TriggerRecord
        <3>1. RemoveAt(trig.ecas, p) \in Seq(Node)
            BY <2>1, <2>3, RemoveAtType
        <3> QED  BY <2>1, <3>1 DEF TriggerRecord
    <2>4. ASSUME NEW name \in Name
          PROVE  [trig EXCEPT !.name = name] \in TriggerRecord
        BY <2>1 DEF TriggerRecord, Name
    <2> QED  BY <2>2, <2>3, <2>4 DEF UserEdits, trig
<1>3. trigs' \in [Trigger -> TriggerRecord]
    BY <1>2 DEF UserEdit, TypeInv, TypeOK
<1>4. UNCHANGED <<cap, toPut, approvals, fresh, worker, hist, sound, calls, grants>>
    BY DEF UserEdit, UiStep
<1>5. TypeOK'
    BY <1>1, <1>3, <1>4 DEF TypeInv, TypeOK, worker, InOperation, Op
<1>6. Control'
    BY <1>4 DEF TypeInv, Control, worker, Op
<1> QED  BY <1>5, <1>6 DEF TypeInv

LEMMA TypeCompile ==
    ASSUME TypeInv, CompilePut \/ \E order \in CaptureOrders : CompileStart(order)
    PROVE  TypeInv'
<1>1. UNCHANGED <<trigs, approvals, fresh, worker, hist, sound, calls, grants>>
    BY DEF CompilePut, CompileStart, UiStep, counters
<1>2. uiSteps' \in 0 .. MaxUiSteps /\ quiet' \in BOOLEAN
    BY PlanAssumption, BoundsKept DEF CompilePut, CompileStart, UiStep, TypeInv, TypeOK, counters
<1>3. cap' \in Seq(Trigger) /\ toPut' \in Seq(Trigger)
    <2>1. CASE CompilePut
        BY <2>1, EmptySeq, HeadTailProperties, AppendProperties DEF CompilePut, TypeInv, TypeOK
    <2>2. CASE \E order \in CaptureOrders : CompileStart(order)
        BY <2>2, PlanAssumption DEF CompileStart
    <2> QED  BY <2>1, <2>2
<1>4. TypeOK'
    BY <1>1, <1>2, <1>3 DEF TypeInv, TypeOK, worker, InOperation, Op
<1>5. Control'
    BY <1>1 DEF TypeInv, Control, worker, Op
<1> QED  BY <1>4, <1>5 DEF TypeInv

LEMMA TypeStutter ==
    ASSUME TypeInv, UNCHANGED vars
    PROVE  TypeInv'
<1>1. TypeOK'
    BY DEF TypeInv, TypeOK, vars, editor, worker, history, counters, InOperation, Op
<1>2. Control'
    BY DEF TypeInv, Control, vars, worker, Op
<1> QED  BY <1>1, <1>2 DEF TypeInv

LEMMA TypeNext ==
    ASSUME TypeInv, [Next]_vars
    PROVE  TypeInv'
BY TypeCall, TypeSnapshot, TypeApply, TypeCountForAdd, TypeAddNode, TypeSetAddedFunc,
   TypeSetAddedParam, TypeVerify, TypeRevert, TypeUi, TypeUserEdit, TypeCompile, TypeStutter
   DEF Next, Worker, Loop, Ui

\* Every variable keeps its type, whatever plans, trees and bounds are given:
\* apply_plan's loop never uses an operation as another kind than it is.
THEOREM TypeCorrect == Spec => []TypeOK
<1>1. Init => TypeInv
    BY TypeInit
<1>2. TypeInv /\ [Next]_vars => TypeInv'
    BY TypeNext
<1>3. TypeInv => TypeOK
    BY DEF TypeInv
<1> QED  BY <1>1, <1>2, <1>3, PTL DEF Spec

-----------------------------------------------------------------------------
(***************************************************************************)
(* Rollback.  In a clean call the history holds, for every rollback entry, *)
(* the trees its reverting call goes from and to; the trees at hand are    *)
(* the last of them except inside an operation, where they are one write   *)
(* (or an added node) away.                                                *)
(***************************************************************************)

Lasting == hist[Len(hist)]

SoundTree(tree) == \A o \in Trigger : Readable(tree[o]) /\ (Adds(plan) => AllActive(tree[o]))

PlanClean == \A i \in DOMAIN plan :
    /\ CleanOp(plan[i])
    /\ Adds(plan) /\ plan[i].op = "set_eca_active" => plan[i].value

UndoneBy(op, value, later, earlier) ==
    /\ Captured(op)
    /\ later = [earlier EXCEPT ![Object(op)] = later[Object(op)]]
    /\ RevertFrom(later[Object(op)], op, value) = {earlier[Object(op)]}

NodeAdded ==
    /\ Captured(Op)
    /\ \E node \in {Target(Op).ecas[Len(Target(Op).ecas)]} :
          /\ node \in Node /\ ReadableNode(node) /\ node.type = Op.type /\ node.active
          /\ trigs = [Lasting EXCEPT ![Object(Op)] = Added(Lasting[Object(Op)], node)]
    /\ newIndex = CountEca(Lasting[Object(Op)].ecas, Op.type)
    /\ before = newIndex

HistSound == \A k \in DOMAIN hist : SoundTree(hist[k])

HistUndone == \A j \in DOMAIN rollbacks :
    UndoneBy(rollbacks[j].op, rollbacks[j].before, hist[j + 1], hist[j])

AppliedVerified == \A i \in DOMAIN applied :
    applied[i].ok => applied[i].verified = Intact(applied[i].op)

\* verify_operation returns true exactly when nothing was cut short.
VerifiedAsIntact == Verified(Op) = Intact(Op)

RunInv == Clean =>
    /\ PlanClean /\ HistSound /\ HistUndone /\ AppliedVerified
    /\ pc \in {"snapshot", "count", "apply", "add", "revert"} => trigs = Lasting
    /\ pc \in {"count", "apply", "add"} => before = Reading(Op)
    /\ pc = "add" => newIndex = before
    /\ pc = "addfunc" => NodeAdded
    /\ pc # "addparam"
    /\ pc = "verify" => UndoneBy(Op, before, trigs, Lasting) /\ SoundTree(trigs) /\ VerifiedAsIntact
    /\ pc = "idle" /\ reply = "rolled_back" => trigs = hist[1]

\* A set operation is undone by the value read before it and reads back.
LEMMA SetUndo ==
    ASSUME NEW trig \in TriggerRecord, NEW op \in Operation, op.op \in SetOps,
           CleanOp(op), Readable(trig), NEW after \in Set(trig, op, op.value)
    PROVE  /\ RevertFrom(after, op, ReadFrom(trig, op)) = {trig}
           /\ (ReadFrom(after, op) = op.value) = Intact(op)
           /\ after \in TriggerRecord /\ Readable(after)
           /\ AllActive(trig) /\ (op.op = "set_eca_active" => op.value) => AllActive(after)
<1>1. after \in TriggerRecord
    BY SetType, ValueType
<1>2. CASE op.op = "set_trigger_name"
    <2>1. op.value \in Text \ {NoText} /\ after \in SetTriggerName(trig, op.value)
        BY <1>2, OpFields DEF Set, Name
    <2>2. /\ SetTriggerName(after, ToStr(trig.name)) = {trig}
          /\ ToStr(after.name) = op.value
          /\ after.ecas = trig.ecas /\ after.name = op.value
        BY <2>1, UndoSetName
    <2>3. ToStr(trig.name) # Nil
        BY TextFacts DEF ToStr, Readable, TriggerRecord
    <2> QED  BY <1>1, <1>2, <2>1, <2>2, <2>3 DEF RevertFrom, ReadFrom, Set, Readable, AllActive, Intact
<1>3. CASE op.op = "set_trigger_disabled"
    <2>1. op.value \in BOOLEAN /\ after \in SetTriggerDisabled(trig, op.value)
        BY <1>3, OpFields DEF Set
    <2>3. /\ SetTriggerDisabled(after, trig.disabled) = {trig}
          /\ after.disabled = op.value
          /\ after.ecas = trig.ecas /\ after.name = trig.name
        BY <2>1, UndoSetDisabled
    <2>4. trig.disabled # Nil
        BY TextFacts DEF TriggerRecord
    <2> QED  BY <1>1, <1>3, <2>3, <2>4 DEF RevertFrom, ReadFrom, Set, Readable, AllActive, Intact
<1>4. CASE op.op = "set_eca_func_name"
    <2>1. /\ op.value \in Text \ {NoText} /\ op.value # Nil
          /\ after \in SetEcaFuncName(trig, op.type, op.index, op.value)
          /\ op.value = CommentString => op.type = Action
        BY <1>4, OpFields, TextFacts DEF Set, Name, CleanOp
    <2>2. /\ EcaFuncName(trig, op.type, op.index) \in Text
          /\ SetEcaFuncName(after, op.type, op.index, EcaFuncName(trig, op.type, op.index)) = {trig}
          /\ EcaFuncName(after, op.type, op.index) = op.value
        BY <2>1, UndoSetFunc DEF ToStr
    <2>3. Readable(after) /\ (AllActive(trig) => AllActive(after))
        BY <2>1, SetFuncReadable
    <2> QED  BY <1>1, <1>4, <2>2, <2>3, TextFacts DEF RevertFrom, ReadFrom, Set, Intact
<1>5. CASE op.op = "set_eca_active"
    <2>1. op.value \in BOOLEAN /\ after \in SetEcaActive(trig, op.type, op.index, op.value)
        BY <1>5, OpFields DEF Set
    <2>2. /\ EcaActive(trig, op.type, op.index) \in BOOLEAN
          /\ SetEcaActive(after, op.type, op.index, EcaActive(trig, op.type, op.index)) = {trig}
          /\ EcaActive(after, op.type, op.index) = op.value
        BY <2>1, UndoSetActive
    <2>3. Readable(after) /\ (AllActive(trig) /\ op.value => AllActive(after))
        BY <2>1, SetActiveReadable
    <2>4. RevertFrom(after, op, ReadFrom(trig, op)) = {trig}
        BY <1>5, <2>2, TextFacts DEF RevertFrom, ReadFrom, Set
    <2>5. ReadFrom(after, op) = op.value
        BY <1>5, <2>2 DEF ReadFrom
    <2> QED  BY <1>1, <1>5, <2>3, <2>4, <2>5 DEF Intact
<1>6. CASE op.op = "set_eca_param_value"
    <2>1. /\ op.value \in Text \ {NoText} /\ op.param \in Nat /\ Stored[op.value] \in Name
          /\ after \in WriteParam(trig, op.type, op.index, op.param, Stored[op.value])
        BY <1>6, OpFields, StoredFacts DEF Set, SetEcaParamValue, CleanOp
    <2> DEFINE read == EcaParamValue(trig, op.type, op.index, op.param)
    <2>2. /\ read \in Name
          /\ WriteParam(after, op.type, op.index, op.param, read) = {trig}
          /\ EcaParamValue(after, op.type, op.index, op.param) = Stored[op.value]
        BY <2>1, UndoSetParam
    <2>3. Readable(after) /\ (AllActive(trig) => AllActive(after))
        BY <2>1, SetParamReadable
    <2>4. RevertFrom(after, op, ReadFrom(trig, op)) = {trig}
        <3>1. Stored[read] = read /\ read # Nil
            BY <2>2, StoredFacts, TextFacts
        <3> QED  BY <1>6, <2>2, <3>1 DEF RevertFrom, ReadFrom, Set, SetEcaParamValue
    <2>5. (ReadFrom(after, op) = op.value) = Intact(op)
        BY <1>6, <2>2 DEF ReadFrom, Intact, Fits
    <2> QED  BY <1>1, <1>6, <2>3, <2>4, <2>5
<1> QED  BY <1>2, <1>3, <1>4, <1>5, <1>6 DEF SetOps

\* The same for an added node.
LEMMA AddUndo ==
    ASSUME NEW trig \in TriggerRecord, NEW op \in Operation, op.op = "add_eca",
           NEW node \in Node, ReadableNode(node), node.type = op.type, node.active,
           Readable(trig), AllActive(trig)
    PROVE  /\ RevertFrom(Added(trig, node), op, CountEca(trig.ecas, op.type)) = {trig}
           /\ CountEca(Added(trig, node).ecas, op.type) = CountEca(trig.ecas, op.type) + 1
           /\ Added(trig, node) \in TriggerRecord
           /\ Readable(Added(trig, node)) /\ AllActive(Added(trig, node))
<1>1. RemoveEca(Added(trig, node), op.type, CountEca(trig.ecas, op.type)) = {trig}
    BY UndoAdd
<1>2. CountEca(Added(trig, node).ecas, op.type) = CountEca(trig.ecas, op.type) + 1
    BY AddedOrdinal
<1>3. Readable(Added(trig, node)) /\ AllActive(Added(trig, node))
    BY AddedReadable
<1>4. Added(trig, node) \in TriggerRecord
    BY AddedType
<1> QED  BY <1>1, <1>2, <1>3, <1>4 DEF RevertFrom

Inv == TypeInv /\ RunInv

\* The clean call's history is not touched by a step inside an operation.
LEMMA FrameHist ==
    ASSUME Inv, UNCHANGED <<cap, plan, rollbacks, hist, quiet, sound>>, Clean'
    PROVE  Clean /\ Lasting' = Lasting /\ PlanClean' /\ HistSound' /\ HistUndone'
<1>1. Clean /\ PlanClean /\ HistSound /\ HistUndone
    BY DEF Inv, RunInv, Clean
<1>2. Lasting' = Lasting
    BY DEF Lasting
<1>3. PlanClean'
    BY <1>1 DEF PlanClean, CleanOp, Recoverable, Adds
<1>4. HistSound'
    BY <1>1 DEF HistSound, SoundTree, Readable, ReadableNode, ReadableSlot, AllActive, Adds
<1>5. HistUndone'
    BY <1>1 DEF HistUndone, UndoneBy, Captured, Object
<1> QED  BY <1>1, <1>2, <1>3, <1>4, <1>5

LEMMA Frame ==
    ASSUME Inv, UNCHANGED <<cap, plan, rollbacks, hist, applied, quiet, sound>>, Clean'
    PROVE  /\ Clean /\ Lasting' = Lasting
           /\ PlanClean' /\ HistSound' /\ HistUndone' /\ AppliedVerified'
<1>1. Clean /\ Lasting' = Lasting /\ PlanClean' /\ HistSound' /\ HistUndone'
    BY FrameHist
<1>2. AppliedVerified'
    BY <1>1 DEF Inv, RunInv, AppliedVerified
<1> QED  BY <1>1, <1>2

\* The trees at hand before an operation's write are the last of the history.
LEMMA BeforeWrite ==
    ASSUME Inv, Clean, pc \in {"snapshot", "count", "apply", "add", "addfunc", "verify"}
    PROVE  /\ Op \in Operation /\ CleanOp(Op)
           /\ Op.op \in SetOps \/ Op.op = "add_eca"
           /\ Op.op = "add_eca" => Adds(plan)
           /\ Op.op = "set_eca_active" /\ Adds(plan) => Op.value
           /\ Lasting \in [Trigger -> TriggerRecord] /\ SoundTree(Lasting)
           /\ Len(hist) \in DOMAIN hist
<1>1. Op \in Operation /\ step \in DOMAIN plan
    BY OpInPlan DEF Inv, TypeInv, TypeOK
<1>2. PlanClean /\ HistSound
    BY DEF Inv, RunInv
<1>3. CleanOp(Op) /\ (Op.op = "set_eca_active" /\ Adds(plan) => Op.value)
    BY <1>1, <1>2 DEF PlanClean, Op
<1>4. Op.op \in SetOps \/ Op.op = "add_eca"
    BY <1>1, <1>3, OpFields DEF CleanOp, Recoverable
<1>5. Op.op = "add_eca" => Adds(plan)
    BY <1>1 DEF Adds, Op
<1>6. hist \in Seq([Trigger -> TriggerRecord]) /\ Len(hist) = Len(rollbacks) + 1
    BY DEF Inv, TypeInv, TypeOK
<1>7. Len(hist) \in DOMAIN hist
    <2>1. Len(hist) \in Nat /\ DOMAIN hist = 1 .. Len(hist)
        BY <1>6, LenProperties
    <2>2. hist # <<>>
        BY <1>6
    <2> QED  BY <2>1, <2>2, <1>6, EmptySeq
<1>8. Lasting \in [Trigger -> TriggerRecord] /\ SoundTree(Lasting)
    BY <1>2, <1>6, <1>7, ElementOfSeq, LenProperties DEF Lasting, HistSound
<1> QED  BY <1>1, <1>3, <1>4, <1>5, <1>7, <1>8

\* What a finished write establishes for Verify.
LEMMA Finished ==
    ASSUME Inv, Clean, NEW old \in TriggerRecord, NEW rec \in TriggerRecord,
           pc \in {"apply", "add", "addfunc"}, Captured(Op), old = Lasting[Object(Op)],
           trigs' = [Lasting EXCEPT ![Object(Op)] = rec],
           UNCHANGED <<cap, plan, step, before, hist>>,
           RevertFrom(rec, Op, before) = {old},
           Readable(rec), Adds(plan) => AllActive(rec),
           IF Op.op = "add_eca" THEN CountEca(rec.ecas, Op.type) = before + 1
           ELSE (ReadFrom(rec, Op) = Op.value) = Intact(Op)
    PROVE  (UndoneBy(Op, before, trigs, Lasting) /\ SoundTree(trigs) /\ VerifiedAsIntact)'
<1>1. /\ Op \in Operation /\ Lasting \in [Trigger -> TriggerRecord] /\ SoundTree(Lasting)
      /\ Op.op \in SetOps \/ Op.op = "add_eca"
    BY BeforeWrite
<1>2. Object(Op) \in Trigger
    BY <1>1, ObjectType DEF Inv, TypeInv
<1>3. Op' = Op /\ Lasting' = Lasting /\ Object(Op)' = Object(Op) /\ Captured(Op)' /\ Adds(plan)' = Adds(plan)
    BY DEF Op, Lasting, Object, Captured, Adds
<1>4. trigs'[Object(Op)] = rec
    BY <1>1, <1>2
<1>5. UndoneBy(Op, before, trigs, Lasting)'
    BY <1>1, <1>2, <1>3, <1>4 DEF UndoneBy
<1>6. SoundTree(trigs)'
    BY <1>1, <1>2, <1>3, <1>4 DEF SoundTree
<1>7. Reading(Op)' = ReadFrom(rec, Op)
    BY <1>3, <1>4 DEF Reading, Target
<1>8. VerifiedAsIntact'
    <2>1. CASE Op.op = "add_eca"
        BY <1>3, <1>7, <2>1 DEF Verified, ReadFrom, Intact, VerifiedAsIntact
    <2>2. CASE Op.op \in SetOps
        BY <1>3, <1>7, <2>2 DEF Verified, SetOps, Intact, VerifiedAsIntact
    <2> QED  BY <1>1, <2>1, <2>2
<1> QED  BY <1>5, <1>6, <1>8

LEMMA RunFail ==
    ASSUME Inv, pc \in {"apply", "add"}, Fail
    PROVE  RunInv'
<1> SUFFICES ASSUME Clean' PROVE RunInv'
    BY DEF RunInv
<1>1. UNCHANGED <<cap, plan, rollbacks, hist, quiet, sound, trigs>>
    BY DEF Fail, history
<1>2. Clean /\ trigs = Lasting
    BY <1>1 DEF Inv, RunInv, Clean
<1>3. PlanClean' /\ HistSound' /\ HistUndone' /\ Lasting' = Lasting
    BY <1>1, FrameHist
<1>4. AppliedVerified'
    <2>1. applied' = Append(applied, [op |-> Op, ok |-> FALSE, verified |-> Nil])
        BY DEF Fail
    <2>2. AppliedVerified /\ applied \in Seq([op : Operation, ok : BOOLEAN, verified : BOOLEAN \cup {Nil}])
        BY <1>2 DEF Inv, RunInv, TypeInv, TypeOK
    <2>3. \A i \in DOMAIN applied' : applied'[i].ok => i \in DOMAIN applied /\ applied'[i] = applied[i]
        BY <2>1, <2>2
    <2> QED  BY <2>2, <2>3 DEF AppliedVerified
<1>5. pc' \in {"idle", "snapshot", "revert"} /\ (pc' = "idle" => reply' = "ok")
    BY DEF Fail
<1> QED  BY <1>1, <1>2, <1>3, <1>4, <1>5 DEF RunInv

LEMMA RunSnapshot ==
    ASSUME Inv, Snapshot
    PROVE  RunInv'
<1> SUFFICES ASSUME Clean' PROVE RunInv'
    BY DEF RunInv
<1>1. UNCHANGED <<cap, plan, step, rollbacks, hist, applied, quiet, sound, trigs>>
    BY DEF Snapshot, editor, history
<1>2. Clean /\ Lasting' = Lasting /\ PlanClean' /\ HistSound' /\ HistUndone' /\ AppliedVerified'
    BY <1>1, Frame
<1>3. trigs = Lasting /\ pc = "snapshot"
    BY <1>2 DEF Inv, RunInv, Snapshot
<1>4. before' = Reading(Op) /\ Reading(Op)' = Reading(Op)
    BY <1>1 DEF Snapshot, Reading, Op, Captured, Target, Object
<1>5. pc' \in {"count", "apply"}
    BY DEF Snapshot
<1> QED  BY <1>1, <1>2, <1>3, <1>4, <1>5 DEF RunInv

LEMMA RunCountForAdd ==
    ASSUME Inv, CountForAdd
    PROVE  RunInv'
<1> SUFFICES ASSUME Clean' PROVE RunInv'
    BY DEF RunInv
<1>1. UNCHANGED <<cap, plan, step, before, rollbacks, hist, applied, quiet, sound, trigs>>
    BY DEF CountForAdd, editor, history
<1>2. Clean /\ Lasting' = Lasting /\ PlanClean' /\ HistSound' /\ HistUndone' /\ AppliedVerified'
    BY <1>1, Frame
<1>3. trigs = Lasting /\ before = Reading(Op)
    BY <1>2 DEF Inv, RunInv, CountForAdd
<1>4. newIndex' = Reading(Op) /\ Reading(Op)' = Reading(Op)
    BY <1>1 DEF CountForAdd, Reading, Op, Captured, Target, Object
<1>5. pc' = "add"
    BY DEF CountForAdd
<1> QED  BY <1>1, <1>2, <1>3, <1>4, <1>5 DEF RunInv

LEMMA RunApply ==
    ASSUME Inv, Apply
    PROVE  RunInv'
<1>1. CASE Fail
    BY <1>1, RunFail DEF Apply
<1>2. CASE ~Fail
    <2> SUFFICES ASSUME Clean' PROVE RunInv'
        BY DEF RunInv
    <2>1. /\ pc = "apply" /\ pc' = "verify"
          /\ UNCHANGED <<cap, plan, step, before, rollbacks, hist, applied, quiet, sound>>
        BY <1>2 DEF Apply, history
    <2>2. PICK rec \in Applying(Op) : trigs' = [trigs EXCEPT ![Object(Op)] = rec]
        BY <1>2 DEF Apply, Written
    <2>3. Clean /\ Lasting' = Lasting /\ PlanClean' /\ HistSound' /\ HistUndone' /\ AppliedVerified'
        BY <2>1, Frame
    <2>4. trigs = Lasting /\ before = Reading(Op) /\ Op.op # "add_eca" /\ TypeOK
        BY <2>1, <2>3 DEF Inv, RunInv, TypeInv, Control
    <2>5. /\ Op \in Operation /\ CleanOp(Op) /\ Op.op \in SetOps /\ SoundTree(Lasting)
          /\ Op.op = "set_eca_active" /\ Adds(plan) => Op.value
        BY <2>1, <2>3, <2>4, BeforeWrite
    <2>6. Captured(Op) /\ rec \in Set(Target(Op), Op, Op.value)
        BY <2>2, <2>5 DEF Applying, SetOps
    <2>7. /\ Object(Op) \in Trigger /\ Target(Op) \in TriggerRecord
          /\ Target(Op) = Lasting[Object(Op)] /\ before = ReadFrom(Target(Op), Op)
          /\ Readable(Target(Op)) /\ (Adds(plan) => AllActive(Target(Op)))
        BY <2>4, <2>5, <2>6, ObjectType DEF Target, Reading, SoundTree
    <2>8. PICK old : old = Target(Op)
        OBVIOUS
    <2>9. /\ RevertFrom(rec, Op, before) = {old}
          /\ (ReadFrom(rec, Op) = Op.value) = Intact(Op)
          /\ rec \in TriggerRecord /\ Readable(rec)
          /\ Adds(plan) => AllActive(rec)
        BY <2>5, <2>6, <2>7, <2>8, SetUndo
    <2>10. (UndoneBy(Op, before, trigs, Lasting) /\ SoundTree(trigs) /\ VerifiedAsIntact)'
        BY <2>1, <2>2, <2>3, <2>4, <2>6, <2>7, <2>8, <2>9, Finished
    <2> QED  BY <2>1, <2>3, <2>10 DEF RunInv
<1> QED  BY <1>1, <1>2

\* The node ydt_add_eca adds is an active, readable one of the type asked for.
LEMMA AddedNode ==
    ASSUME TypeOK, SoundTree(trigs), NEW op \in Operation, Captured(op),
           NEW rec \in Adding(op)
    PROVE  \E node \in Node : /\ ReadableNode(node) /\ node.type = op.type /\ node.active
                              /\ rec = Added(Target(op), node)
<1>1. PICK recs : recs = [i \in DOMAIN cap |-> trigs[cap[i]]]
    OBVIOUS
<1>2. PICK t : t = op.trigger + 1
    OBVIOUS
<1>3. t \in 1 .. Len(cap) /\ fresh \in Nat
    BY <1>2, ObjectType DEF TypeOK
<1>4. /\ recs \in Seq(TriggerRecord) /\ t \in 1 .. Len(recs) /\ recs[t] = Target(op)
      /\ \A k \in 1 .. Len(recs) : Readable(recs[k])
    BY <1>1, <1>2, <1>3, RecsType DEF Target, Object, SoundTree
<1>5. rec \in AddEca(recs, t, op.type, fresh)
    BY <1>1, <1>2 DEF Adding
<1>6. PICK tpl \in TemplateNodes(recs, t, op.type) :
          rec = [recs[t] EXCEPT !.ecas = Append(recs[t].ecas, [tpl EXCEPT !.id = fresh, !.active = TRUE])]
    BY <1>5 DEF AddEca
<1>7. tpl \in Node /\ ReadableNode(tpl) /\ tpl.type = op.type
    BY <1>4, TemplateReadable
<1>8. PICK node : node = [tpl EXCEPT !.id = fresh, !.active = TRUE]
    OBVIOUS
<1>9. /\ node \in Node /\ node.type = op.type /\ node.active
      /\ node.func = tpl.func /\ node.params = tpl.params
    BY <1>3, <1>7, <1>8 DEF Node
<1>10. ReadableNode(node)
    BY <1>7, <1>9 DEF ReadableNode
<1>11. rec = Added(Target(op), node)
    BY <1>4, <1>6, <1>8 DEF Added
<1> QED  BY <1>9, <1>10, <1>11

LEMMA RunAddNode ==
    ASSUME Inv, AddNode
    PROVE  RunInv'
<1>1. CASE Fail
    BY <1>1, RunFail DEF AddNode
<1>2. CASE ~Fail
    <2> SUFFICES ASSUME Clean' PROVE RunInv'
        BY DEF RunInv
    <2>1. /\ pc = "add" /\ pc' = (IF Op.func # Nil THEN "addfunc" ELSE Filling(0))
          /\ UNCHANGED <<cap, plan, step, before, newIndex, rollbacks, hist, applied, quiet, sound>>
        BY <1>2 DEF AddNode, history
    <2>2. PICK rec \in Adding(Op) : trigs' = [trigs EXCEPT ![Object(Op)] = rec]
        BY <1>2 DEF AddNode, Written
    <2>3. Clean /\ Lasting' = Lasting /\ PlanClean' /\ HistSound' /\ HistUndone' /\ AppliedVerified'
        BY <2>1, Frame
    <2>4. trigs = Lasting /\ before = Reading(Op) /\ newIndex = before /\ Op.op = "add_eca" /\ TypeOK
        BY <2>1, <2>3 DEF Inv, RunInv, TypeInv, Control
    <2>5. Op \in Operation /\ CleanOp(Op) /\ Adds(plan) /\ SoundTree(Lasting)
        BY <2>1, <2>3, <2>4, BeforeWrite
    <2>6. Captured(Op)
        BY <2>2 DEF Adding
    <2>7. PICK old : old = Target(Op)
        OBVIOUS
    <2>8. /\ Object(Op) \in Trigger /\ old \in TriggerRecord /\ old = Lasting[Object(Op)]
          /\ before = CountEca(old.ecas, Op.type)
          /\ Readable(old) /\ AllActive(old)
        BY <2>4, <2>5, <2>6, <2>7, ObjectType DEF Target, Reading, ReadFrom, SoundTree
    <2>9. PICK node \in Node : /\ ReadableNode(node) /\ node.type = Op.type /\ node.active
                               /\ rec = Added(old, node)
        BY <2>2, <2>4, <2>5, <2>6, <2>7, AddedNode
    <2>10. /\ RevertFrom(rec, Op, before) = {old}
           /\ CountEca(rec.ecas, Op.type) = before + 1
           /\ rec \in TriggerRecord /\ Readable(rec) /\ AllActive(rec)
        <3>1. /\ Op \in Operation /\ Op.op = "add_eca" /\ old \in TriggerRecord
              /\ Readable(old) /\ AllActive(old)
            BY <2>4, <2>5, <2>8
        <3>2. /\ RevertFrom(Added(old, node), Op, CountEca(old.ecas, Op.type)) = {old}
              /\ CountEca(Added(old, node).ecas, Op.type) = CountEca(old.ecas, Op.type) + 1
              /\ Added(old, node) \in TriggerRecord
              /\ Readable(Added(old, node)) /\ AllActive(Added(old, node))
            BY <2>9, <3>1, AddUndo
        <3> QED  BY <2>8, <2>9, <3>2
    <2>11. CASE Op.func # Nil
        <3>1. Op' = Op /\ Captured(Op)' /\ Object(Op)' = Object(Op)
            BY <2>1, <2>6 DEF Op, Captured, Object
        <3>2. Target(Op)' = rec /\ rec.ecas[Len(rec.ecas)] = node
            <4>1. Target(Op)' = rec
                BY <2>2, <2>4, <2>8, <3>1 DEF Target, TypeOK
            <4>2. rec.ecas[Len(rec.ecas)] = node
                BY <2>8, <2>9, AddedType
            <4> QED  BY <4>1, <4>2
        <3>3. trigs' = [Lasting EXCEPT ![Object(Op)] = Added(Lasting[Object(Op)], node)]
            BY <2>2, <2>4, <2>8, <2>9
        <3>4. newIndex' = CountEca(Lasting[Object(Op)].ecas, Op.type) /\ before' = newIndex'
            BY <2>1, <2>4, <2>8
        <3>5. NodeAdded'
            BY <2>3, <2>9, <3>1, <3>2, <3>3, <3>4 DEF NodeAdded
        <3> QED  BY <2>1, <2>3, <2>11, <3>5 DEF RunInv
    <2>12. CASE Op.func = Nil
        <3>1. pc' = "verify"
            BY <2>1, <2>4, <2>5, <2>12 DEF Filling, CleanOp
        <3>2. (UndoneBy(Op, before, trigs, Lasting) /\ SoundTree(trigs) /\ VerifiedAsIntact)'
            BY <2>1, <2>2, <2>3, <2>4, <2>6, <2>8, <2>10, Finished
        <3> QED  BY <2>3, <3>1, <3>2 DEF RunInv
    <2> QED  BY <2>11, <2>12
<1> QED  BY <1>1, <1>2

LEMMA RunSetAddedFunc ==
    ASSUME Inv, SetAddedFunc
    PROVE  RunInv'
<1> SUFFICES ASSUME Clean' PROVE RunInv'
    BY DEF RunInv
<1>1. pc = "addfunc" /\ UNCHANGED <<cap, plan, rollbacks, hist, quiet, sound>>
    BY DEF SetAddedFunc, Fail, history
<1>2. Clean /\ NodeAdded /\ Op.op = "add_eca" /\ Op.func # Nil /\ TypeOK
    BY <1>1 DEF Inv, RunInv, TypeInv, Control, Clean
<1>3. /\ Op \in Operation /\ CleanOp(Op) /\ Adds(plan) /\ SoundTree(Lasting)
      /\ Lasting \in [Trigger -> TriggerRecord]
    BY <1>1, <1>2, BeforeWrite
<1>4. Op.func \in Text \ {NoText} /\ (Op.func = CommentString => Op.type = Action) /\ Op.params = <<>>
    BY <1>2, <1>3, OpFields DEF CleanOp, Name
<1>5. PICK old : old = Lasting[Object(Op)]
    OBVIOUS
<1>6. PICK node : /\ node \in Node /\ ReadableNode(node) /\ node.type = Op.type /\ node.active
                  /\ trigs = [Lasting EXCEPT ![Object(Op)] = Added(old, node)]
    BY <1>2, <1>5 DEF NodeAdded
<1>7. /\ Captured(Op) /\ Object(Op) \in Trigger /\ old \in TriggerRecord
      /\ Readable(old) /\ AllActive(old)
      /\ newIndex = CountEca(old.ecas, Op.type) /\ before = CountEca(old.ecas, Op.type)
    BY <1>2, <1>3, <1>5, ObjectType DEF NodeAdded, SoundTree
<1>8. Target(Op) = Added(old, node)
    BY <1>3, <1>6, <1>7 DEF Target
<1>9. PICK named : named = [node EXCEPT !.func = Op.func]
    OBVIOUS
<1>10. /\ named \in Node /\ ReadableNode(named) /\ named.type = Op.type /\ named.active
    BY <1>4, <1>6, <1>9 DEF Node, ReadableNode
<1>11. SettingAddedFunc(Op) = {Added(old, named)}
    <2>1. SetEcaFuncName(Added(old, node), Op.type, CountEca(old.ecas, Op.type), Op.func) =
              {Added(old, [node EXCEPT !.func = Op.func])}
        BY <1>4, <1>6, <1>7, NameAdded
    <2> QED  BY <1>7, <1>8, <1>9, <2>1 DEF SettingAddedFunc
<1>12. pc' = Filling(0) /\ UNCHANGED <<step, before, applied>> /\ Written(Op, {Added(old, named)})
    BY <1>11 DEF SetAddedFunc
<1>13. pc' = "verify"
    BY <1>4, <1>12 DEF Filling
<1>14. trigs' = [Lasting EXCEPT ![Object(Op)] = Added(old, named)]
    BY <1>3, <1>6, <1>7, <1>12 DEF Written
<1>15. /\ RevertFrom(Added(old, named), Op, before) = {old}
       /\ CountEca(Added(old, named).ecas, Op.type) = before + 1
       /\ Added(old, named) \in TriggerRecord
       /\ Readable(Added(old, named)) /\ AllActive(Added(old, named))
    <2>1. /\ RevertFrom(Added(old, named), Op, CountEca(old.ecas, Op.type)) = {old}
          /\ CountEca(Added(old, named).ecas, Op.type) = CountEca(old.ecas, Op.type) + 1
          /\ Added(old, named) \in TriggerRecord
          /\ Readable(Added(old, named)) /\ AllActive(Added(old, named))
        BY <1>2, <1>3, <1>7, <1>10, AddUndo
    <2> QED  BY <1>7, <2>1
<1>16. Clean /\ Lasting' = Lasting /\ PlanClean' /\ HistSound' /\ HistUndone' /\ AppliedVerified'
    BY <1>1, <1>12, Frame
<1>17. (UndoneBy(Op, before, trigs, Lasting) /\ SoundTree(trigs) /\ VerifiedAsIntact)'
    BY <1>1, <1>2, <1>5, <1>7, <1>12, <1>14, <1>15, Finished
<1> QED  BY <1>13, <1>16, <1>17 DEF RunInv

LEMMA RunVerify ==
    ASSUME Inv, Verify
    PROVE  RunInv'
<1> SUFFICES ASSUME Clean' PROVE RunInv'
    BY DEF RunInv
<1>1. /\ pc = "verify" /\ UNCHANGED <<trigs, cap, plan, quiet, sound>>
      /\ applied' = Append(applied, [op |-> Op, ok |-> TRUE, verified |-> Verified(Op)])
      /\ rollbacks' = Append(rollbacks, [op |-> Op, before |-> before])
      /\ hist' = Append(hist, trigs)
    BY DEF Verify, editor
<1>2. /\ Clean /\ PlanClean /\ HistSound /\ HistUndone /\ AppliedVerified
      /\ UndoneBy(Op, before, trigs, Lasting) /\ SoundTree(trigs) /\ VerifiedAsIntact
    BY <1>1 DEF Inv, RunInv, Clean
<1> DEFINE n == Len(rollbacks)
<1>3. /\ hist \in Seq([Trigger -> TriggerRecord]) /\ Len(hist) = n + 1 /\ n \in Nat
      /\ DOMAIN rollbacks = 1 .. n
      /\ trigs \in [Trigger -> TriggerRecord]
      /\ applied \in Seq([op : Operation, ok : BOOLEAN, verified : BOOLEAN \cup {Nil}])
    BY DEF Inv, TypeInv, TypeOK
<1>4. /\ DOMAIN hist = 1 .. n + 1 /\ DOMAIN hist' = 1 .. n + 2 /\ Len(hist') = n + 2
      /\ hist'[n + 2] = trigs
      /\ \A k \in 1 .. n + 1 : hist'[k] = hist[k]
    <2>1. /\ Len(Append(hist, trigs)) = n + 2 /\ Append(hist, trigs)[n + 2] = trigs
          /\ \A k \in 1 .. n + 1 : Append(hist, trigs)[k] = hist[k]
          /\ Append(hist, trigs) \in Seq([Trigger -> TriggerRecord])
        BY <1>3, AppendProperties
    <2> QED  BY <1>1, <1>3, <2>1, LenProperties
<1>5. /\ DOMAIN rollbacks' = 1 .. n + 1
      /\ rollbacks'[n + 1] = [op |-> Op, before |-> before]
      /\ \A j \in 1 .. n : rollbacks'[j] = rollbacks[j]
    BY <1>1, <1>3
<1>6. \A tree : SoundTree(tree) => \A o \in Trigger : Readable(tree[o]) /\ (Adds(plan') => AllActive(tree[o]))
    BY <1>1 DEF SoundTree
<1>7. HistSound'
    <2>1. \A k \in 1 .. n + 2 : k \in 1 .. n + 1 \/ k = n + 2
        BY <1>3
    <2> QED  BY <1>2, <1>4, <1>6, <2>1 DEF HistSound, SoundTree
<1>8. PlanClean'
    BY <1>1, <1>2 DEF PlanClean, CleanOp, Recoverable, Adds
<1>9. HistUndone'
    <2>1. SUFFICES ASSUME NEW j \in DOMAIN rollbacks'
                   PROVE  UndoneBy(rollbacks[j].op, rollbacks[j].before, hist[j + 1], hist[j])'
        BY DEF HistUndone
    <2>2. CASE j \in 1 .. n
        <3>1. /\ rollbacks'[j] = rollbacks[j] /\ hist'[j + 1] = hist[j + 1] /\ hist'[j] = hist[j]
              /\ j \in DOMAIN rollbacks
            BY <2>2, <1>3, <1>4, <1>5
        <3>2. UndoneBy(rollbacks[j].op, rollbacks[j].before, hist[j + 1], hist[j])
            BY <3>1, <1>2 DEF HistUndone
        <3> QED  BY <1>1, <3>1, <3>2 DEF UndoneBy, Captured, Object
    <2>3. CASE j = n + 1
        <3>1. /\ rollbacks'[j].op = Op /\ rollbacks'[j].before = before
              /\ hist'[j + 1] = trigs /\ hist'[j] = Lasting
            BY <2>3, <1>3, <1>4, <1>5 DEF Lasting
        <3> QED  BY <1>1, <1>2, <3>1 DEF UndoneBy, Captured, Object
    <2> QED  BY <1>3, <1>5, <2>2, <2>3
<1>10. AppliedVerified'
    <2>1. \A i \in DOMAIN applied' : \/ i \in DOMAIN applied /\ applied'[i] = applied[i]
                                     \/ applied'[i] = [op |-> Op, ok |-> TRUE, verified |-> Verified(Op)]
        BY <1>1, <1>3
    <2> QED  BY <1>2, <2>1 DEF AppliedVerified, VerifiedAsIntact
<1>11. trigs' = Lasting'
    BY <1>1, <1>4 DEF Lasting
<1>12. pc' \in {"idle", "snapshot"} /\ (pc' = "idle" => reply' = "ok")
    BY DEF Verify
<1> QED  BY <1>7, <1>8, <1>9, <1>10, <1>11, <1>12 DEF RunInv

LEMMA RunSetAddedParam ==
    ASSUME Inv, SetAddedParam
    PROVE  RunInv'
<1>1. pc = "addparam" /\ UNCHANGED <<quiet, sound>>
    BY DEF SetAddedParam, Fail, history
<1>2. ~Clean'
    BY <1>1 DEF Inv, RunInv, Clean
<1> QED  BY <1>2 DEF RunInv

LEMMA RunRevert ==
    ASSUME Inv, Revert
    PROVE  RunInv'
<1> SUFFICES ASSUME Clean' PROVE RunInv'
    BY DEF RunInv
<1>1. pc = "revert" /\ UNCHANGED <<cap, plan, applied, quiet, sound>>
    BY DEF Revert
<1>2. /\ Clean /\ PlanClean /\ HistSound /\ HistUndone /\ AppliedVerified /\ trigs = Lasting
    BY <1>1 DEF Inv, RunInv, Clean
<1> DEFINE n == Len(rollbacks)
<1>3. /\ hist \in Seq([Trigger -> TriggerRecord]) /\ Len(hist) = n + 1 /\ n \in Nat
      /\ DOMAIN rollbacks = 1 .. n
    BY DEF Inv, TypeInv, TypeOK
<1>4. CASE rollbacks = <<>>
    <2>1. pc' = "idle" /\ UNCHANGED <<trigs, rollbacks, hist>>
        BY <1>4 DEF Revert
    <2>2. PlanClean' /\ HistSound' /\ HistUndone' /\ AppliedVerified'
        BY <1>1, <2>1, Frame
    <2>3. n = 0
        BY <1>4
    <2>4. trigs' = hist'[1]
        <3>1. Len(hist) = 1
            BY <1>3, <2>3
        <3>2. trigs = hist[1]
            BY <1>2, <3>1, Zenon DEF Lasting
        <3> QED  BY <2>1, <3>2
    <2> QED  BY <2>1, <2>2, <2>4 DEF RunInv
<1>5. CASE rollbacks # <<>>
    <2>1. PICK last : last = rollbacks[n]
        OBVIOUS
    <2>2. /\ Written(last.op, Reverting(last.op, last.before))
             \/ (Reverting(last.op, last.before) = {} /\ UNCHANGED trigs)
          /\ rollbacks' = SubSeq(rollbacks, 1, n - 1)
          /\ hist' = SubSeq(hist, 1, n)
          /\ pc' = "revert"
        <3>1. /\ Written(last.op, Reverting(last.op, last.before))
                 \/ (Reverting(last.op, last.before) = {} /\ UNCHANGED trigs)
              /\ rollbacks' = SubSeq(rollbacks, 1, n - 1)
              /\ hist' = SubSeq(hist, 1, Len(hist) - 1)
              /\ UNCHANGED pc
            BY <1>5, <2>1, Zenon DEF Revert
        <3>2. Len(hist) - 1 = n
            BY <1>3
        <3> QED  BY <1>1, <3>1, <3>2, Zenon
    <2>3. n >= 1 /\ n \in DOMAIN rollbacks
        BY <1>3, <1>5
    <2>4. UndoneBy(last.op, last.before, hist[n + 1], hist[n])
        BY <1>2, <2>1, <2>3 DEF HistUndone
    <2>5. trigs = hist[n + 1] /\ hist[n] \in [Trigger -> TriggerRecord]
        <3>1. n \in 1 .. Len(hist)
            BY <1>3, <2>3
        <3> QED  BY <1>2, <1>3, <3>1, ElementOfSeq DEF Lasting
    <2>6. Reverting(last.op, last.before) = {hist[n][Object(last.op)]}
        BY <2>4, <2>5 DEF UndoneBy, Reverting, Target
    <2>7. trigs' = [trigs EXCEPT ![Object(last.op)] = hist[n][Object(last.op)]]
        BY <2>2, <2>6 DEF Written
    <2>8. trigs = [hist[n] EXCEPT ![Object(last.op)] = trigs[Object(last.op)]]
        BY <2>4, <2>5 DEF UndoneBy
    <2>9. trigs' = hist[n]
        BY <2>5, <2>7, <2>8
    <2>10. /\ DOMAIN hist' = 1 .. n /\ Len(hist') = n
           /\ \A k \in 1 .. n : hist'[k] = hist[k]
        BY <1>3, <2>2, <2>3
    <2>11. /\ DOMAIN rollbacks' = 1 .. n - 1
           /\ \A j \in 1 .. n - 1 : rollbacks'[j] = rollbacks[j]
        BY <1>3, <2>2, <2>3
    <2>12. trigs' = Lasting'
        BY <2>3, <2>9, <2>10 DEF Lasting
    <2>13. HistSound'
        <3>1. \A k \in 1 .. n : k \in DOMAIN hist
            BY <1>3
        <3> QED  BY <1>1, <1>2, <2>10, <3>1 DEF HistSound, SoundTree, Readable, ReadableNode,
                                               ReadableSlot, AllActive, Adds
    <2>14. HistUndone'
        <3>1. SUFFICES ASSUME NEW j \in DOMAIN rollbacks'
                       PROVE  UndoneBy(rollbacks[j].op, rollbacks[j].before, hist[j + 1], hist[j])'
            BY DEF HistUndone
        <3>2. /\ rollbacks'[j] = rollbacks[j] /\ hist'[j + 1] = hist[j + 1] /\ hist'[j] = hist[j]
              /\ j \in DOMAIN rollbacks
            BY <1>3, <2>3, <2>10, <2>11
        <3>3. UndoneBy(rollbacks[j].op, rollbacks[j].before, hist[j + 1], hist[j])
            BY <1>2, <3>2 DEF HistUndone
        <3> QED  BY <1>1, <3>2, <3>3 DEF UndoneBy, Captured, Object
    <2>15. PlanClean' /\ AppliedVerified'
        BY <1>1, <1>2 DEF PlanClean, CleanOp, Recoverable, Adds, AppliedVerified
    <2> QED  BY <2>2, <2>12, <2>13, <2>14, <2>15 DEF RunInv
<1> QED  BY <1>4, <1>5

LEMMA RunCall ==
    ASSUME Inv, Call
    PROVE  RunInv'
<1> SUFFICES ASSUME Clean' PROVE RunInv'
    BY DEF RunInv
<1>1. PICK p \in Plans, o \in OptionSets :
          \/ Verdict(p, o) # "ask" /\ Return(Verdict(p, o))
          \/ Return("unapproved")
          \/ Begin(p, o)
    BY DEF Call
<1>2. pc = "idle"
    BY DEF Call
<1>3. ASSUME NEW text, Return(text), text # "rolled_back"
      PROVE  RunInv'
    <2>1. /\ UNCHANGED <<trigs, cap, plan, pc, rollbacks, applied, hist, quiet, sound>>
          /\ reply' # "rolled_back"
        BY <1>3 DEF Return, history
    <2>2. PlanClean' /\ HistSound' /\ HistUndone' /\ AppliedVerified'
        BY <2>1, Frame
    <2> QED  BY <1>2, <2>1, <2>2 DEF RunInv
<1>4. CASE Begin(p, o)
    <2>1. /\ pc' = "snapshot" /\ plan' = p /\ rollbacks' = <<>> /\ applied' = <<>>
          /\ hist' = <<trigs>> /\ trigs' = trigs /\ CleanStart(p)
        BY <1>4 DEF Begin, Clean
    <2>2. PlanClean'
        BY <2>1 DEF PlanClean, CleanStart, CleanOp, Recoverable, Adds
    <2>3. HistSound'
        <3>1. SoundTree(trigs)'
            BY <2>1 DEF SoundTree, CleanStart, Readable, ReadableNode, ReadableSlot, AllActive, Adds
        <3>2. DOMAIN hist' = {1} /\ hist'[1] = trigs'
            BY <2>1
        <3> QED  BY <3>1, <3>2 DEF HistSound, SoundTree
    <2>4. HistUndone' /\ AppliedVerified'
        BY <2>1 DEF HistUndone, AppliedVerified
    <2>5. trigs' = Lasting'
        BY <2>1 DEF Lasting
    <2> QED  BY <2>1, <2>2, <2>3, <2>4, <2>5 DEF RunInv
<1>5. Verdict(p, o) # "rolled_back"
    BY DEF Verdict
<1> QED  BY <1>1, <1>3, <1>4, <1>5

\* Steps that touch neither the triggers nor the worker's call.
LEMMA RunSame ==
    ASSUME Inv, UNCHANGED <<trigs, cap, worker, history>>
    PROVE  RunInv'
<1> SUFFICES ASSUME Clean' PROVE RunInv'
    BY DEF RunInv
<1>1. UNCHANGED <<trigs, cap, pc, plan, step, before, newIndex, rollbacks, applied, reply, hist,
                  quiet, sound>>
    BY DEF worker, history
<1>2. /\ Clean /\ Lasting' = Lasting
      /\ PlanClean' /\ HistSound' /\ HistUndone' /\ AppliedVerified'
    BY <1>1, Frame
<1>3. /\ Op' = Op /\ Reading(Op)' = Reading(Op) /\ Captured(Op)' = Captured(Op)
      /\ Object(Op)' = Object(Op) /\ Target(Op)' = Target(Op)
    BY <1>1 DEF Op, Reading, Captured, Target, Object
<1>4. pc = "addfunc" => NodeAdded'
    BY <1>1, <1>2, <1>3 DEF NodeAdded, Inv, RunInv
<1>5. pc = "verify" => UndoneBy(Op, before, trigs, Lasting)' /\ SoundTree(trigs)' /\ VerifiedAsIntact'
    <2>1. SUFFICES ASSUME pc = "verify"
                   PROVE  UndoneBy(Op, before, trigs, Lasting)' /\ SoundTree(trigs)' /\ VerifiedAsIntact'
        OBVIOUS
    <2>2. UndoneBy(Op, before, trigs, Lasting) /\ SoundTree(trigs) /\ VerifiedAsIntact
        BY <1>2, <2>1 DEF Inv, RunInv
    <2>3. UndoneBy(Op, before, trigs, Lasting)'
        BY <1>1, <1>2, <1>3, <2>2 DEF UndoneBy
    <2>4. SoundTree(trigs)'
        BY <1>1, <2>2 DEF SoundTree, Readable, ReadableNode, ReadableSlot, AllActive, Adds
    <2>5. VerifiedAsIntact'
        BY <1>1, <1>3, <2>2 DEF Verified, Intact, VerifiedAsIntact
    <2> QED  BY <2>3, <2>4, <2>5
<1>6. /\ pc \in {"snapshot", "count", "apply", "add", "revert"} => trigs = Lasting
      /\ pc \in {"count", "apply", "add"} => before = Reading(Op)
      /\ pc = "add" => newIndex = before
      /\ pc # "addparam"
      /\ pc = "idle" /\ reply = "rolled_back" => trigs = hist[1]
    BY <1>2 DEF Inv, RunInv
<1> QED  BY <1>1, <1>2, <1>3, <1>4, <1>5, <1>6 DEF RunInv

LEMMA RunInit == Init => RunInv
<1> QED  BY DEF Init, RunInv, Clean

LEMMA RunNext ==
    ASSUME Inv, [Next]_vars
    PROVE  RunInv'
<1>1. CASE Loop
    BY <1>1, RunSnapshot, RunApply, RunCountForAdd, RunAddNode, RunSetAddedFunc,
       RunSetAddedParam, RunVerify, RunRevert DEF Loop
<1>2. CASE Call
    BY <1>2, RunCall
<1>3. CASE WorkerStart \/ Grant \/ UNCHANGED vars
    BY <1>3, RunSame DEF WorkerStart, Grant, vars, editor
<1>4. ASSUME quiet' = FALSE PROVE RunInv'
    BY <1>4 DEF RunInv, Clean
<1>5. ASSUME NEW o \in Trigger, UserEdit(o) PROVE RunInv'
    BY <1>4, <1>5 DEF UserEdit, UiStep
<1>6. ASSUME NEW order \in CaptureOrders, CompileStart(order) PROVE RunInv'
    BY <1>4, <1>6 DEF CompileStart, UiStep
<1>7. CASE CompilePut
    BY <1>4, <1>7 DEF CompilePut
<1> QED  BY <1>1, <1>2, <1>3, <1>5, <1>6, <1>7 DEF Next, Worker, Ui

LEMMA InvHolds == Spec => []Inv
<1>1. Init => Inv
    BY TypeInit, RunInit DEF Inv
<1>2. Inv /\ [Next]_vars => Inv'
    BY TypeNext, RunNext DEF Inv
<1> QED  BY <1>1, <1>2, PTL DEF Spec

\* A failed plan whose operations can all be undone, undisturbed by the UI
\* thread, leaves the triggers as it found them: the reverse walk of
\* apply_plan's rollback list (2502-2534) with revert_operation (2343-2379).
THEOREM RollbackCorrect == Spec => []RollbackExact
<1>1. Inv => RollbackExact
    BY DEF Inv, RunInv, RollbackExact
<1> QED  BY <1>1, InvHolds, PTL

\* In such a plan verify_operation (2381-2405), after apply_operation (2407-2439),
\* returns true for each operation that reports success but those whose text the
\* editor's buffer cut short, and false for these.
THEOREM ReadBackCorrect == Spec => []ReadBack
<1>1. Inv => ReadBack
    BY DEF Inv, RunInv, ReadBack, AppliedVerified
<1> QED  BY <1>1, InvHolds, PTL

-----------------------------------------------------------------------------
(***************************************************************************)
(* The nodes of the user.  A clean call only renames, marks and adds       *)
(* nodes, and the reverse walk goes back to trees the history holds.       *)
(***************************************************************************)

\* Every node of one record is in another.
Keeps(old, trig) ==
    \A p \in DOMAIN old.ecas : \E q \in DOMAIN trig.ecas : trig.ecas[q].id = old.ecas[p].id

LEMMA KeepsIds ==
    ASSUME NEW old, NEW trig
    PROVE  Keeps(old, trig) <=> Ids(old) \subseteq Ids(trig)
BY DEF Keeps, Ids

LEMMA SameIds ==
    ASSUME NEW trig, NEW after, DOMAIN after.ecas = DOMAIN trig.ecas,
           \A q \in DOMAIN trig.ecas : after.ecas[q].id = trig.ecas[q].id
    PROVE  Keeps(trig, after)
BY DEF Keeps

LEMMA SetKeeps ==
    ASSUME NEW trig \in TriggerRecord, NEW op, op.op \in SetOps, NEW value,
           NEW after \in Set(trig, op, value)
    PROVE  Keeps(trig, after)
<1>1. trig.ecas \in Seq(Node)
    BY DEF TriggerRecord
<1>2. \A p \in DOMAIN trig.ecas : trig.ecas[p] \in Node
    BY <1>1, ElementOfSeq, LenProperties
<1>3. /\ FindEca(trig.ecas, op.type, op.index) \subseteq DOMAIN trig.ecas
      /\ FindAnyEca(trig.ecas, op.type, op.index) \subseteq DOMAIN trig.ecas
    BY <1>1, Found
<1>4. CASE op.op = "set_trigger_name"
    BY <1>4 DEF Set, SetTriggerName, Keeps, TriggerRecord
<1>5. CASE op.op = "set_trigger_disabled"
    BY <1>5 DEF Set, SetTriggerDisabled, Keeps, TriggerRecord
<1>6. CASE op.op = "set_eca_func_name"
    <2>1. PICK p \in FindEca(trig.ecas, op.type, op.index) : after = [trig EXCEPT !.ecas[p].func = value]
        BY <1>6 DEF Set, SetEcaFuncName
    <2>2. PICK node : node = [trig.ecas[p] EXCEPT !.func = value]
        OBVIOUS
    <2>3. after.ecas = [trig.ecas EXCEPT ![p] = node] /\ node.id = trig.ecas[p].id
        BY <1>2, <1>3, <2>1, <2>2 DEF TriggerRecord, Node
    <2>6. /\ DOMAIN after.ecas = DOMAIN trig.ecas
          /\ \A q \in DOMAIN trig.ecas : after.ecas[q].id = trig.ecas[q].id
        BY <2>3
    <2> QED  BY <2>6, SameIds
<1>7. CASE op.op = "set_eca_active"
    <2>1. PICK p \in FindAnyEca(trig.ecas, op.type, op.index) : after = [trig EXCEPT !.ecas[p].active = value]
        BY <1>7 DEF Set, SetEcaActive
    <2>2. PICK node : node = [trig.ecas[p] EXCEPT !.active = value]
        OBVIOUS
    <2>3. after.ecas = [trig.ecas EXCEPT ![p] = node] /\ node.id = trig.ecas[p].id
        BY <1>2, <1>3, <2>1, <2>2 DEF TriggerRecord, Node
    <2>6. /\ DOMAIN after.ecas = DOMAIN trig.ecas
          /\ \A q \in DOMAIN trig.ecas : after.ecas[q].id = trig.ecas[q].id
        BY <2>3
    <2> QED  BY <2>6, SameIds
<1>8. CASE op.op = "set_eca_param_value"
    <2>1. PICK p \in FindEca(trig.ecas, op.type, op.index) :
              after = [trig EXCEPT !.ecas[p].params[op.param + 1].raw = Stored[value]]
        BY <1>8 DEF Set, SetEcaParamValue, WriteParam
    <2>2. PICK slots : slots = [trig.ecas[p].params EXCEPT ![op.param + 1] =
                                   [trig.ecas[p].params[op.param + 1] EXCEPT !.raw = Stored[value]]]
        OBVIOUS
    <2>3. PICK node : node = [trig.ecas[p] EXCEPT !.params = slots]
        OBVIOUS
    <2>4. after.ecas = [trig.ecas EXCEPT ![p] = node] /\ node.id = trig.ecas[p].id
        BY <1>2, <1>3, <2>1, <2>2, <2>3 DEF TriggerRecord, Node
    <2>6. /\ DOMAIN after.ecas = DOMAIN trig.ecas
          /\ \A q \in DOMAIN trig.ecas : after.ecas[q].id = trig.ecas[q].id
        BY <2>4
    <2> QED  BY <2>6, SameIds
<1> QED  BY <1>4, <1>5, <1>6, <1>7, <1>8 DEF SetOps

LEMMA AddKeeps ==
    ASSUME NEW trig \in TriggerRecord, NEW node \in Node
    PROVE  Keeps(trig, Added(trig, node))
<1>1. /\ trig.ecas \in Seq(Node) /\ Len(trig.ecas) \in Nat /\ DOMAIN trig.ecas = 1 .. Len(trig.ecas)
      /\ Added(trig, node).ecas = Append(trig.ecas, node)
    BY AddedType
<1>2. \A q \in DOMAIN trig.ecas : q \in DOMAIN Append(trig.ecas, node)
                                  /\ Append(trig.ecas, node)[q] = trig.ecas[q]
    BY <1>1
<1> QED  BY <1>1, <1>2 DEF Keeps

\* Every tree of a clean call, in its history and at hand, holds the nodes the
\* call began with.
KeepInv == Clean =>
    \A o \in Trigger :
        /\ Keeps(hist[1][o], trigs[o])
        /\ \A k \in DOMAIN hist : Keeps(hist[1][o], hist[k][o])

\* A worker's step that changes one trigger only by adding or altering nodes.
LEMMA KeepWritten ==
    ASSUME Inv, KeepInv, UNCHANGED <<hist, quiet, sound>>, NEW o \in Trigger, NEW rec,
           trigs' = [trigs EXCEPT ![o] = rec], Clean => Keeps(trigs[o], rec)
    PROVE  KeepInv'
<1>1. trigs \in [Trigger -> TriggerRecord]
    BY DEF Inv, TypeInv, TypeOK
<1> QED  BY SMTT(30), <1>1 DEF KeepInv, Clean, Keeps

LEMMA KeepSame ==
    ASSUME KeepInv, UNCHANGED <<trigs, hist, quiet, sound>>
    PROVE  KeepInv'
BY DEF KeepInv, Clean, Keeps

LEMMA KeepApply ==
    ASSUME Inv, KeepInv, Apply
    PROVE  KeepInv'
<1>1. CASE Fail
    BY <1>1, KeepSame DEF Fail, history
<1>2. CASE ~Fail
    <2>1. pc = "apply" /\ UNCHANGED <<hist, quiet, sound>>
        BY <1>2 DEF Apply, history
    <2>2. PICK rec \in Applying(Op) : trigs' = [trigs EXCEPT ![Object(Op)] = rec]
        BY <1>2 DEF Apply, Written
    <2>3. Captured(Op) /\ Op \in Operation /\ Op.op # "add_eca"
        BY <2>1, <2>2, OpInPlan DEF Applying, Inv, TypeInv, TypeOK, Control
    <2>4. Object(Op) \in Trigger /\ Target(Op) \in TriggerRecord
        BY <2>3, ObjectType DEF Inv, TypeInv
    <2>5. ASSUME Clean PROVE Keeps(Target(Op), rec)
        <3>1. Op.op \in SetOps
            BY <2>1, <2>3, <2>5, BeforeWrite
        <3>2. rec \in Set(Target(Op), Op, Op.value)
            BY <2>2, <2>3, <3>1 DEF Applying, SetOps
        <3> QED  BY <2>4, <3>1, <3>2, SetKeeps
    <2> QED  BY <2>1, <2>2, <2>4, <2>5, KeepWritten DEF Target
<1> QED  BY <1>1, <1>2

LEMMA KeepAddNode ==
    ASSUME Inv, KeepInv, AddNode
    PROVE  KeepInv'
<1>1. CASE Fail
    BY <1>1, KeepSame DEF Fail, history
<1>2. CASE ~Fail
    <2>1. pc = "add" /\ UNCHANGED <<hist, quiet, sound>>
        BY <1>2 DEF AddNode, history
    <2>2. PICK rec \in Adding(Op) : trigs' = [trigs EXCEPT ![Object(Op)] = rec]
        BY <1>2 DEF AddNode, Written
    <2>3. Captured(Op) /\ Op \in Operation
        BY <2>1, <2>2, OpInPlan DEF Adding, Inv, TypeInv, TypeOK
    <2>4. Object(Op) \in Trigger /\ Target(Op) \in TriggerRecord
        BY <2>3, ObjectType DEF Inv, TypeInv
    <2>5. ASSUME Clean PROVE Keeps(Target(Op), rec)
        <3>1. trigs = Lasting /\ SoundTree(Lasting) /\ TypeOK
            BY <2>1, <2>5, BeforeWrite DEF Inv, RunInv, TypeInv
        <3>2. PICK node \in Node : rec = Added(Target(Op), node)
            BY <2>2, <2>3, <3>1, AddedNode
        <3> QED  BY <2>4, <3>2, AddKeeps
    <2> QED  BY <2>1, <2>2, <2>4, <2>5, KeepWritten DEF Target
<1> QED  BY <1>1, <1>2

LEMMA KeepSetAddedFunc ==
    ASSUME Inv, KeepInv, SetAddedFunc
    PROVE  KeepInv'
<1>1. CASE Fail
    BY <1>1, KeepSame DEF Fail, history
<1>2. CASE ~Fail
    <2>1. pc = "addfunc" /\ UNCHANGED <<hist, quiet, sound>>
        BY <1>2 DEF SetAddedFunc, history
    <2>2. PICK rec \in SettingAddedFunc(Op) : trigs' = [trigs EXCEPT ![Object(Op)] = rec]
        BY <1>2 DEF SetAddedFunc, Written
    <2>3. Captured(Op) /\ Op \in Operation
        BY <2>1, <2>2, OpInPlan DEF SettingAddedFunc, Inv, TypeInv, TypeOK
    <2>4. Object(Op) \in Trigger /\ Target(Op) \in TriggerRecord
        BY <2>3, ObjectType DEF Inv, TypeInv
    <2>5. PICK call : call = [op |-> "set_eca_func_name", type |-> Op.type, index |-> newIndex]
        OBVIOUS
    <2>6. rec \in Set(Target(Op), call, Op.func) /\ call.op \in SetOps
        BY <2>2, <2>3, <2>5 DEF SettingAddedFunc, Set, SetOps
    <2>7. Keeps(Target(Op), rec)
        BY <2>4, <2>6, SetKeeps
    <2> QED  BY <2>1, <2>2, <2>4, <2>7, KeepWritten DEF Target
<1> QED  BY <1>1, <1>2

LEMMA KeepVerify ==
    ASSUME Inv, KeepInv, Verify
    PROVE  KeepInv'
<1>1. hist' = Append(hist, trigs) /\ UNCHANGED <<trigs, quiet, sound>>
    BY DEF Verify, editor
<1>2. hist \in Seq([Trigger -> TriggerRecord]) /\ Len(hist) # 0
    BY DEF Inv, TypeInv, TypeOK
<1>3. /\ hist'[1] = hist[1]
      /\ \A k \in DOMAIN hist' : (k \in DOMAIN hist /\ hist'[k] = hist[k]) \/ hist'[k] = trigs
    BY <1>1, <1>2
<1> QED  BY <1>1, <1>3 DEF KeepInv, Clean, Keeps

LEMMA KeepRevert ==
    ASSUME Inv, Inv', KeepInv, Revert
    PROVE  KeepInv'
<1>1. CASE rollbacks = <<>>
    BY <1>1, KeepSame DEF Revert
<1>2. CASE rollbacks # <<>>
    <2>1. /\ hist' = SubSeq(hist, 1, Len(hist) - 1) /\ pc' = "revert"
          /\ UNCHANGED <<quiet, sound>>
        BY <1>2 DEF Revert
    <2>2. hist \in Seq([Trigger -> TriggerRecord]) /\ Len(hist') \in Nat \ {0}
        BY DEF Inv, TypeInv, TypeOK
    <2>3. \A k \in DOMAIN hist' : k \in DOMAIN hist /\ hist'[k] = hist[k]
        BY <2>1, <2>2
    <2>4. 1 \in DOMAIN hist' /\ Len(hist') \in DOMAIN hist'
        BY <2>1, <2>2
    <2>5. Clean' => Clean /\ trigs' = hist'[Len(hist')]
        BY <2>1 DEF Inv, RunInv, Clean, Lasting
    <2> QED  BY <2>3, <2>4, <2>5 DEF KeepInv, Keeps
<1> QED  BY <1>1, <1>2

LEMMA KeepCall ==
    ASSUME KeepInv, Call
    PROVE  KeepInv'
<1>1. PICK p \in Plans, o \in OptionSets :
          (\E text : Return(text)) \/ Begin(p, o)
    BY DEF Call
<1>2. CASE \E text : Return(text)
    BY <1>2, KeepSame DEF Return, history
<1>3. CASE Begin(p, o)
    BY <1>3 DEF Begin, KeepInv, Keeps
<1> QED  BY <1>1, <1>2, <1>3

LEMMA KeepNext ==
    ASSUME Inv, Inv', KeepInv, [Next]_vars
    PROVE  KeepInv'
<1>1. CASE Snapshot \/ CountForAdd
    BY <1>1, KeepSame DEF Snapshot, CountForAdd, editor, history
<1>2. CASE SetAddedParam
    <2>1. pc = "addparam" /\ UNCHANGED <<quiet, sound>>
        BY <1>2 DEF SetAddedParam, Fail, history
    <2> QED  BY <2>1 DEF Inv, RunInv, Clean, KeepInv
<1>3. CASE WorkerStart \/ Grant \/ UNCHANGED vars
    BY <1>3, KeepSame DEF WorkerStart, Grant, vars, editor, history
<1>4. ASSUME quiet' = FALSE PROVE KeepInv'
    BY <1>4 DEF KeepInv, Clean
<1>5. ASSUME NEW o \in Trigger, UserEdit(o) PROVE KeepInv'
    BY <1>4, <1>5 DEF UserEdit, UiStep
<1>6. ASSUME NEW order \in CaptureOrders, CompileStart(order) PROVE KeepInv'
    BY <1>4, <1>6 DEF CompileStart, UiStep
<1>7. CASE CompilePut
    BY <1>4, <1>7 DEF CompilePut
<1> QED  BY <1>1, <1>2, <1>3, <1>5, <1>6, <1>7, KeepApply, KeepAddNode, KeepSetAddedFunc,
            KeepVerify, KeepRevert, KeepCall DEF Next, Worker, Loop, Ui

\* No step of a clean call, failed, undone or not, loses a node that was there
\* before it (apply_operation 2407-2439, revert_operation 2343-2379).
THEOREM NodesKept == Spec => []NoNodeLost
<1>1. Init => KeepInv
    BY DEF Init, KeepInv, Clean
<1>2. KeepInv => NoNodeLost
    BY KeepsIds DEF KeepInv, NoNodeLost
<1> QED  BY <1>1, <1>2, InvHolds, KeepNext, PTL DEF Spec

-----------------------------------------------------------------------------
(***************************************************************************)
(* Approvals                                                               *)
(***************************************************************************)

LEMMA AskedConfirmed ==
    ASSUME NEW p, NEW o, Verdict(p, o) = "ask"
    PROVE  o.confirm
BY Zenon DEF Verdict

LEMMA ApprovalStep ==
    ASSUME TypeOK, [Next]_vars
    PROVE  /\ (trigs' # trigs /\ uiSteps' = uiSteps) => pc # "idle"
           /\ (pc = "idle" /\ pc' # "idle") => approvals' = approvals - 1 /\ opts'.confirm
           /\ (pc = "idle" /\ calls' # calls /\ pc' = "idle") => approvals' = approvals
<1>1. CASE Call
    <2>1. PICK p \in Plans, o \in OptionSets :
              (\E text : Return(text)) \/ (Verdict(p, o) = "ask" /\ Begin(p, o))
        BY <1>1 DEF Call
    <2>2. CASE \E text : Return(text)
        BY <2>2 DEF Return
    <2>3. CASE Verdict(p, o) = "ask" /\ Begin(p, o)
        <3>1. o.confirm
            BY <2>3, AskedConfirmed
        <3> QED  BY <2>3, <3>1 DEF Begin
    <2> QED  BY <2>1, <2>2, <2>3
<1>2. CASE Loop
    <2>1. pc # "idle"
        BY <1>2 DEF Loop, Snapshot, Apply, CountForAdd, AddNode, SetAddedFunc, SetAddedParam,
                    Verify, Revert
    <2> QED  BY <2>1
<1>3. CASE WorkerStart \/ Grant \/ CompilePut \/ UNCHANGED vars
    BY <1>3 DEF WorkerStart, Grant, CompilePut, vars, editor, worker, counters
<1>4. ASSUME UiStep PROVE uiSteps' # uiSteps /\ pc' = pc /\ calls' = calls
    BY <1>4 DEF UiStep, worker, TypeOK
<1>5. ASSUME NEW o \in Trigger, UserEdit(o) PROVE UiStep
    BY <1>5 DEF UserEdit
<1>6. ASSUME NEW order \in CaptureOrders, CompileStart(order) PROVE UiStep
    BY <1>6 DEF CompileStart
<1> QED  BY <1>1, <1>2, <1>3, <1>4, <1>5, <1>6 DEF Next, Worker, Ui

\* The worker writes the triggers only inside a call that took one approval, for
\* any plans, options and approvals granted meanwhile
\* (consume_apply_approval 307-317 before apply_plan's loop).
THEOREM ApprovalNeeded == Spec => ApprovedWritesOnly
<1>1. TypeOK /\ [Next]_vars =>
         [/\ (trigs' # trigs /\ uiSteps' = uiSteps) => pc # "idle"
          /\ (pc = "idle" /\ pc' # "idle") => approvals' = approvals - 1 /\ opts'.confirm
          /\ (pc = "idle" /\ calls' # calls /\ pc' = "idle") => approvals' = approvals]_vars
    BY ApprovalStep
<1> QED  BY <1>1, TypeCorrect, PTL DEF Spec, ApprovedWritesOnly

-----------------------------------------------------------------------------
(***************************************************************************)
(* The refinement of AtomicApply.  First what Finals is: the trees after   *)
(* each number of operations, as a function.                               *)
(***************************************************************************)

\* A set of numbers that has 0 and, with each, the next, has all.
LEMMA Numbers ==
    ASSUME NEW G, 0 \in G, \A n \in Nat : n \in G => n + 1 \in G
    PROVE  Nat \subseteq G
<1> DEFINE R == {ss \in Nat \X Nat : ss[1] < ss[2]}
<1> SUFFICES ASSUME Nat \ G # {} PROVE FALSE
    OBVIOUS
<1>1. IsWellFoundedOn(R, Nat)
    BY NatLessThanWellFounded, Zenon DEF OpToRel
<1>2. \A k, m \in Nat : k < m => <<k, m>> \in R
    OBVIOUS
<1> HIDE DEF R
<1>3. PICK m \in Nat \ G : \A k \in Nat \ G : ~ (<<k, m>> \in R)
    BY <1>1, WFMin
<1>4. m # 0 /\ m - 1 \in Nat /\ m - 1 < m /\ m = (m - 1) + 1
    BY <1>3
<1>5. m - 1 \in G
    BY <1>2, <1>3, <1>4
<1> QED  BY <1>3, <1>4, <1>5

After(trees, op) == UNION {Effect(op, t) : t \in trees}
Stages(f, ops, first, n) == f = [i \in 0 .. n |-> IF i = 0 THEN first ELSE After(f[i - 1], ops[i])]

\* What such a function is, value by value.
Walk(f, ops, first, n) == f[0] = first /\ \A i \in 1 .. n : f[i] = After(f[i - 1], ops[i])

LEMMA StageAt ==
    ASSUME NEW ops, NEW first, NEW n, NEW f, Stages(f, ops, first, n), NEW i \in 0 .. n
    PROVE  f[i] = IF i = 0 THEN first ELSE After(f[i - 1], ops[i])
BY Zenon DEF Stages

LEMMA StageFacts ==
    ASSUME NEW ops, NEW first, NEW n \in Nat, NEW f, Stages(f, ops, first, n)
    PROVE  Walk(f, ops, first, n)
<1>1. 0 \in 0 .. n /\ \A i \in 1 .. n : i \in 0 .. n /\ i # 0
    OBVIOUS
<1>2. f[0] = first
    BY <1>1, StageAt
<1>3. ASSUME NEW i \in 1 .. n PROVE f[i] = After(f[i - 1], ops[i])
    <2>1. i \in 0 .. n /\ i # 0
        BY <1>1
    <2>2. f[i] = IF i = 0 THEN first ELSE After(f[i - 1], ops[i])
        BY <2>1, StageAt
    <2> QED  BY <2>1, <2>2
<1> QED  BY <1>2, <1>3 DEF Walk

LEMMA StagesExist ==
    ASSUME NEW ops, NEW first, NEW n \in Nat
    PROVE  \E f : Stages(f, ops, first, n)
<1> DEFINE G == {k \in Nat : \E f : Stages(f, ops, first, k)}
<1>1. 0 \in G
    <2> DEFINE f == [i \in 0 .. 0 |-> first]
    <2>1. Stages(f, ops, first, 0)
        BY DEF Stages
    <2> QED  BY <2>1
<1>2. ASSUME NEW k \in Nat, k \in G PROVE k + 1 \in G
    <2>1. PICK f : Stages(f, ops, first, k)
        BY <1>2
    <2> DEFINE g == [i \in 0 .. k + 1 |-> IF i <= k THEN f[i] ELSE After(f[k], ops[i])]
    <2>2. \A i \in 0 .. k : g[i] = f[i] /\ f[i] = IF i = 0 THEN first ELSE After(f[i - 1], ops[i])
        <3>1. \A i \in 0 .. k : f[i] = IF i = 0 THEN first ELSE After(f[i - 1], ops[i])
            BY <2>1, StageAt
        <3>2. \A i \in 0 .. k : g[i] = f[i]
            OBVIOUS
        <3> QED  BY <3>1, <3>2
    <2>3. \A i \in 0 .. k + 1 : g[i] = IF i = 0 THEN first ELSE After(g[i - 1], ops[i])
        <3> TAKE i \in 0 .. k + 1
        <3>1. CASE i = 0
            <4>1. i \in 0 .. k
                BY <3>1
            <4>2. g[i] = f[i] /\ f[i] = first
                BY <2>2, <3>1, <4>1
            <4> QED  BY <3>1, <4>2
        <3>2. CASE i \in 1 .. k
            <4>1. i - 1 \in 0 .. k /\ i \in 0 .. k
                BY <3>2
            <4> QED  BY <2>2, <3>2, <4>1
        <3>3. CASE i = k + 1
            <4>1. g[i] = After(f[k], ops[i]) /\ k \in 0 .. k /\ i - 1 = k
                BY <3>3
            <4> QED  BY <2>2, <3>3, <4>1
        <3> QED  BY <3>1, <3>2, <3>3
    <2>4. Stages(g, ops, first, k + 1)
        BY <2>3 DEF Stages
    <2> QED  BY <2>4
<1> HIDE DEF G
<1>3. Nat \subseteq G
    BY <1>1, <1>2, Numbers
<1> QED  BY <1>3 DEF G

LEMMA FinalsUnfold ==
    ASSUME NEW ops, NEW start, Len(ops) \in Nat
    PROVE  \E f : Stages(f, ops, {start}, Len(ops)) /\ Atomic!Finals(ops, start) = f[Len(ops)]
<1> DEFINE f == CHOOSE f : f = [i \in 0 .. Len(ops) |->
                    IF i = 0 THEN {start} ELSE UNION {Effect(ops[i], t) : t \in f[i - 1]}]
<1>1. Atomic!Finals(ops, start) = f[Len(ops)]
    BY DEF Atomic!Finals
<1>2. \E g : g = [i \in 0 .. Len(ops) |->
                    IF i = 0 THEN {start} ELSE UNION {Effect(ops[i], t) : t \in g[i - 1]}]
    <2>1. PICK g : Stages(g, ops, {start}, Len(ops))
        BY StagesExist
    <2>2. g = [i \in 0 .. Len(ops) |->
                    IF i = 0 THEN {start} ELSE UNION {Effect(ops[i], t) : t \in g[i - 1]}]
        BY <2>1 DEF Stages, After
    <2> QED  BY <2>2
<1>3. f = [i \in 0 .. Len(ops) |->
                    IF i = 0 THEN {start} ELSE UNION {Effect(ops[i], t) : t \in f[i - 1]}]
    BY <1>2
<1> HIDE DEF f
<1>4. Stages(f, ops, {start}, Len(ops))
    BY <1>3 DEF Stages, After
<1> QED  BY <1>1, <1>4

\* The first "m" operations lead from each tree to the next and to no other.
Chain(ops, trees, m) == \A k \in 1 .. m : Effect(ops[k], trees[k]) = {trees[k + 1]}

LEMMA ChainStages ==
    ASSUME NEW ops, NEW trees, NEW n \in Nat, NEW m \in 0 .. n, Chain(ops, trees, m),
           NEW f, Walk(f, ops, {trees[1]}, n)
    PROVE  f[m] = {trees[m + 1]}
<1> DEFINE G == {k \in Nat : k <= m => f[k] = {trees[k + 1]}}
<1>1. f[0] = {trees[1]} /\ \A i \in 1 .. n : f[i] = After(f[i - 1], ops[i])
    BY DEF Walk
<1>2. 0 \in G
    BY <1>1
<1>3. ASSUME NEW k \in Nat, k \in G PROVE k + 1 \in G
    <2> SUFFICES ASSUME k + 1 <= m PROVE f[k + 1] = {trees[k + 1 + 1]}
        OBVIOUS
    <2>1. k + 1 \in 1 .. n /\ k + 1 \in 1 .. m /\ k + 1 - 1 = k /\ k <= m
        OBVIOUS
    <2>2. f[k] = {trees[k + 1]} /\ f[k + 1] = After(f[k], ops[k + 1])
        BY <1>1, <1>3, <2>1
    <2>3. Effect(ops[k + 1], trees[k + 1]) = {trees[k + 1 + 1]}
        BY <2>1 DEF Chain
    <2> QED  BY <2>2, <2>3 DEF After
<1> HIDE DEF G
<1>4. Nat \subseteq G
    BY <1>2, <1>3, Numbers
<1>5. m \in Nat /\ m <= m
    OBVIOUS
<1> QED  BY <1>4, <1>5 DEF G

\* Finals is the last of the trees.
LEMMA FinalsStages ==
    ASSUME NEW ops, NEW start, NEW n \in Nat, n = Len(ops)
    PROVE  \E f : Walk(f, ops, {start}, n) /\ Atomic!Finals(ops, start) = f[n]
<1>1. PICK f : Stages(f, ops, {start}, n) /\ Atomic!Finals(ops, start) = f[n]
    BY FinalsUnfold
<1>2. Walk(f, ops, {start}, n)
    BY <1>1, StageFacts
<1> QED  BY <1>1, <1>2

LEMMA FinalsOne ==
    ASSUME NEW ops, NEW trees, Len(ops) \in Nat, Chain(ops, trees, Len(ops))
    PROVE  Atomic!Finals(ops, trees[1]) = {trees[Len(ops) + 1]}
<1>1. PICK n : n = Len(ops)
    OBVIOUS
<1>2. n \in Nat /\ n \in 0 .. n
    BY <1>1
<1>3. PICK f : Walk(f, ops, {trees[1]}, n) /\ Atomic!Finals(ops, trees[1]) = f[n]
    BY <1>1, <1>2, FinalsStages
<1>4. f[n] = {trees[n + 1]}
    BY <1>1, <1>2, <1>3, ChainStages
<1> QED  BY <1>1, <1>3, <1>4

\* An operation that is impossible leaves the plan without an end.
LEMMA FinalsNone ==
    ASSUME NEW ops, NEW trees, Len(ops) \in Nat, NEW m \in 1 .. Len(ops),
           Chain(ops, trees, m - 1), Effect(ops[m], trees[m]) = {}
    PROVE  Atomic!Finals(ops, trees[1]) = {}
<1>1. PICK n : n = Len(ops)
    OBVIOUS
<1>2. n \in Nat /\ m - 1 \in 0 .. n /\ m - 1 + 1 = m /\ m \in 1 .. n /\ m \in Nat /\ m <= n
    BY <1>1
<1>3. PICK f : Walk(f, ops, {trees[1]}, n) /\ Atomic!Finals(ops, trees[1]) = f[n]
    BY <1>1, <1>2, FinalsStages
<1>4. f[m - 1] = {trees[m]}
    <2>1. PICK k : k = m - 1
        OBVIOUS
    <2>2. k \in 0 .. n /\ k + 1 = m /\ Chain(ops, trees, k)
        BY <1>2, <2>1
    <2>3. f[k] = {trees[k + 1]}
        BY <1>2, <1>3, <2>2, ChainStages
    <2> QED  BY <2>1, <2>2, <2>3
<1>5. \A i \in 1 .. n : f[i] = After(f[i - 1], ops[i])
    BY <1>3 DEF Walk
<1>6. f[m] = {}
    <2>1. f[m] = After({trees[m]}, ops[m])
        BY <1>2, <1>4, <1>5
    <2> QED  BY <2>1 DEF After
<1> DEFINE G == {k \in Nat : k <= n - m => f[m + k] = {}}
<1>7. 0 \in G
    BY <1>2, <1>6
<1>8. ASSUME NEW k \in Nat, k \in G PROVE k + 1 \in G
    <2> SUFFICES ASSUME k + 1 <= n - m PROVE f[m + (k + 1)] = {}
        OBVIOUS
    <2>1. m + (k + 1) \in 1 .. n /\ m + (k + 1) - 1 = m + k /\ k <= n - m
        BY <1>2
    <2>2. f[m + k] = {}
        BY <1>8, <2>1
    <2> QED  BY <1>5, <2>1, <2>2 DEF After
<1> HIDE DEF G
<1>9. Nat \subseteq G
    BY <1>7, <1>8, Numbers
<1>10. n - m \in Nat /\ m + (n - m) = n /\ n - m <= n - m
    BY <1>2
<1>11. n - m \in G
    BY <1>9, <1>10
<1> QED  BY <1>3, <1>10, <1>11 DEF G

-----------------------------------------------------------------------------
(***************************************************************************)
(* Effect, and the calls of an operation on the trees it stands for.       *)
(***************************************************************************)

LEMMA ContentsAt ==
    ASSUME NEW tree \in [Trigger -> TriggerRecord]
    PROVE  /\ Contents(tree) = [o \in Trigger |-> PlainTrig(tree[o])]
           /\ \A o \in Trigger : Contents(tree)[o] = PlainTrig(tree[o]) /\ tree[o] \in TriggerRecord
<1>1. Contents(tree) = [o \in Trigger |-> PlainTrig(tree[o])]
    BY DEF Contents, PlainTrig, Plains, Plain
<1> QED  BY <1>1

LEMMA ContentsWrite ==
    ASSUME NEW tree \in [Trigger -> TriggerRecord], NEW o \in Trigger, NEW rec \in TriggerRecord
    PROVE  [Contents(tree) EXCEPT ![o] = PlainTrig(rec)] = Contents([tree EXCEPT ![o] = rec])
<1>1. PICK after : after = [tree EXCEPT ![o] = rec]
    OBVIOUS
<1>2. after \in [Trigger -> TriggerRecord] /\ \A p \in Trigger : after[p] = IF p = o THEN rec ELSE tree[p]
    BY <1>1
<1>3. /\ Contents(tree) = [p \in Trigger |-> PlainTrig(tree[p])]
      /\ Contents(after) = [p \in Trigger |-> PlainTrig(after[p])]
    BY <1>2, ContentsAt
<1>4. [Contents(tree) EXCEPT ![o] = PlainTrig(rec)] = [p \in Trigger |-> PlainTrig(after[p])]
    BY <1>2, <1>3
<1> QED  BY <1>1, <1>3, <1>4

LEMMA SetSame ==
    ASSUME NEW trig \in TriggerRecord, NEW op \in Operation, op.op \in SetOps
    PROVE  Same(Set(PlainTrig(trig), op, op.value), Set(trig, op, op.value))
<1>1. CASE op.op = "set_trigger_name"
    <2>1. op.value \in Text
        BY <1>1, OpFields DEF Name
    <2> QED  BY <1>1, <2>1, PlainSetName DEF Set
<1>2. CASE op.op = "set_trigger_disabled"
    <2>1. op.value \in BOOLEAN
        BY <1>2, OpFields
    <2> QED  BY <1>2, <2>1, PlainSetDisabled DEF Set
<1>3. CASE op.op = "set_eca_func_name"
    <2>1. op.value \in Text
        BY <1>3, OpFields DEF Name
    <2> QED  BY <1>3, <2>1, PlainSetFunc DEF Set
<1>4. CASE op.op = "set_eca_active"
    <2>1. op.value \in BOOLEAN
        BY <1>4, OpFields
    <2> QED  BY <1>4, <2>1, PlainSetActive DEF Set
<1>5. CASE op.op = "set_eca_param_value"
    <2>1. op.value \in Text /\ op.param \in Nat /\ Stored[op.value] \in Text
        BY <1>5, OpFields, StoredFacts
    <2>2. Same(WriteParam(PlainTrig(trig), op.type, op.index, op.param, Stored[op.value]),
               WriteParam(trig, op.type, op.index, op.param, Stored[op.value]))
        BY <2>1, PlainSetParam
    <2> QED  BY <1>5, <2>2 DEF Set, SetEcaParamValue
<1> QED  BY <1>1, <1>2, <1>3, <1>4, <1>5 DEF SetOps

\* The ways to write one of "recs" to a trigger, and the captured triggers' records.
Writes(tree, o, recs) == {[tree EXCEPT ![o] = rec] : rec \in recs}
Recs(tree) == [i \in DOMAIN Order |-> tree[Order[i]]]

\* An operation that writes one of the records that are "bare" without addresses.
LEMMA EffectWrites ==
    ASSUME NEW tree \in [Trigger -> TriggerRecord], NEW o \in Trigger, NEW op,
           NEW recs, recs \subseteq TriggerRecord, NEW bare, Same(bare, recs),
           Effect(op, Contents(tree)) = Writes(Contents(tree), o, bare)
    PROVE  /\ recs = {} => Effect(op, Contents(tree)) = {}
           /\ \A rec \in recs : Effect(op, Contents(tree)) = {Contents([tree EXCEPT ![o] = rec])}
<1>1. bare = {PlainTrig(rec) : rec \in recs} /\ \A a, b \in recs : a = b
    BY DEF Same
<1>2. recs = {} => Effect(op, Contents(tree)) = {}
    BY <1>1 DEF Writes
<1>3. ASSUME NEW rec \in recs
      PROVE  Effect(op, Contents(tree)) = {Contents([tree EXCEPT ![o] = rec])}
    <2>1. bare = {PlainTrig(rec)}
        BY <1>1
    <2>2. Effect(op, Contents(tree)) = {[Contents(tree) EXCEPT ![o] = PlainTrig(rec)]}
        BY <2>1 DEF Writes
    <2>3. [Contents(tree) EXCEPT ![o] = PlainTrig(rec)] = Contents([tree EXCEPT ![o] = rec])
        BY ContentsWrite
    <2> QED  BY <2>2, <2>3
<1> QED  BY <1>2, <1>3

LEMMA EffectSet ==
    ASSUME NEW tree \in [Trigger -> TriggerRecord], NEW op \in Operation, op.op \in SetOps,
           Order \in Seq(Trigger), op.trigger < Len(Order), NEW o \in Trigger, o = Order[op.trigger + 1]
    PROVE  /\ Set(tree[o], op, op.value) = {} => Effect(op, Contents(tree)) = {}
           /\ \A rec \in Set(tree[o], op, op.value) :
                 Effect(op, Contents(tree)) = {Contents([tree EXCEPT ![o] = rec])}
<1>1. tree[o] \in TriggerRecord /\ Contents(tree)[o] = PlainTrig(tree[o])
    BY ContentsAt
<1>2. PICK recs, bare : recs = Set(tree[o], op, op.value) /\ bare = Set(PlainTrig(tree[o]), op, op.value)
    OBVIOUS
<1>3. Same(bare, recs) /\ recs \subseteq TriggerRecord
    BY <1>1, <1>2, SetSame, SetType, ValueType
<1>4. op.op # "add_eca" /\ ~ (op.trigger >= Len(Order))
    <2>1. op.op # "add_eca"
        BY DEF SetOps
    <2>2. op.trigger \in Nat
        BY OpFields
    <2>3. Len(Order) \in Nat
        BY LenProperties
    <2> QED  BY <2>1, <2>2, <2>3
<1>5. Effect(op, Contents(tree)) = Writes(Contents(tree), o, bare)
    BY <1>1, <1>2, <1>4 DEF Effect, Writes
<1>6. /\ recs = {} => Effect(op, Contents(tree)) = {}
      /\ \A rec \in recs : Effect(op, Contents(tree)) = {Contents([tree EXCEPT ![o] = rec])}
    BY <1>3, <1>5, EffectWrites
<1> QED  BY <1>2, <1>6

\* An addition: the same node is cloned, and with AllActive the name is set on
\* the clone.
LEMMA EffectAdd ==
    ASSUME NEW tree \in [Trigger -> TriggerRecord], NEW op \in Operation, op.op = "add_eca",
           Order \in Seq(Trigger), op.trigger < Len(Order), NEW o \in Trigger, o = Order[op.trigger + 1],
           NEW id \in Nat, NEW recs, recs = Recs(tree)
    PROVE  /\ recs \in Seq(TriggerRecord) /\ op.trigger + 1 \in 1 .. Len(recs) /\ recs[op.trigger + 1] = tree[o]
           /\ PlainRecs(recs) = Recs(Contents(tree))
           /\ Same(AddEca(PlainRecs(recs), op.trigger + 1, op.type, 0), AddEca(recs, op.trigger + 1, op.type, id))
           /\ Effect(op, Contents(tree)) = Writes(Contents(tree), o, AddedNodes(op, PlainRecs(recs), op.type))
<1>1. /\ DOMAIN Order = 1 .. Len(Order) /\ Len(Order) \in Nat
      /\ \A i \in DOMAIN Order : Order[i] \in Trigger
    BY LenProperties, ElementOfSeq
<1>2. op.trigger \in Nat /\ op.trigger + 1 \in 1 .. Len(Order) /\ ~ (op.trigger >= Len(Order))
    <2>1. op.trigger \in Nat
        BY OpFields
    <2> QED  BY <1>1, <2>1
<1>3. recs \in [1 .. Len(Order) -> TriggerRecord]
    BY <1>1 DEF Recs
<1>4. recs \in Seq(TriggerRecord) /\ Len(recs) = Len(Order) /\ recs[op.trigger + 1] = tree[o]
    BY <1>1, <1>2, <1>3, IsASeq, LenProperties DEF Recs
<1>5. PlainRecs(recs) = Recs(Contents(tree))
    <2>1. \A i \in DOMAIN Order : PlainTrig(recs[i]) = Contents(tree)[Order[i]]
        BY <1>1, ContentsAt DEF Recs
    <2>2. DOMAIN recs = DOMAIN Order
        BY DEF Recs
    <2> QED  BY <2>1, <2>2 DEF PlainRecs, Recs
<1>6. Same(AddEca(PlainRecs(recs), op.trigger + 1, op.type, 0), AddEca(recs, op.trigger + 1, op.type, id))
    BY <1>2, <1>4, PlainAdd
<1>7. Effect(op, Contents(tree)) = Writes(Contents(tree), o, AddedNodes(op, PlainRecs(recs), op.type))
    BY <1>2, <1>5 DEF Effect, Writes, Recs
<1> QED  BY <1>2, <1>4, <1>5, <1>6, <1>7

\* With no template there is no addition, and without a name the clone is it.
CloneEffect(op, tree, o, recs, made) ==
    /\ made = {} => Effect(op, Contents(tree)) = {}
    /\ \A rec \in made : AddEca(PlainRecs(recs), op.trigger + 1, op.type, 0) = {PlainTrig(rec)}
    /\ op.func = Nil => \A rec \in made : Effect(op, Contents(tree)) = {Contents([tree EXCEPT ![o] = rec])}

LEMMA EffectClone ==
    ASSUME NEW tree \in [Trigger -> TriggerRecord], NEW op \in Operation, op.op = "add_eca",
           Order \in Seq(Trigger), op.trigger < Len(Order), NEW o \in Trigger, o = Order[op.trigger + 1],
           NEW id \in Nat, NEW recs, recs = Recs(tree),
           NEW made, made = AddEca(recs, op.trigger + 1, op.type, id)
    PROVE  CloneEffect(op, tree, o, recs, made)
<1>1. PICK bare : bare = AddEca(PlainRecs(recs), op.trigger + 1, op.type, 0)
    OBVIOUS
<1>2. /\ recs \in Seq(TriggerRecord) /\ op.trigger + 1 \in 1 .. Len(recs)
      /\ Same(bare, made)
      /\ Effect(op, Contents(tree)) = Writes(Contents(tree), o, AddedNodes(op, PlainRecs(recs), op.type))
    BY <1>1, EffectAdd
<1>3. bare = {PlainTrig(rec) : rec \in made} /\ \A a, b \in made : a = b
    BY <1>2 DEF Same
<1>4. made \subseteq TriggerRecord
    BY <1>2, AddType
<1>5. ASSUME made = {} PROVE Effect(op, Contents(tree)) = {}
    <2>1. bare = {}
        BY <1>3, <1>5
    <2>2. AddedNodes(op, PlainRecs(recs), op.type) = {}
        BY <1>1, <2>1 DEF AddedNodes
    <2> QED  BY <1>2, <2>2 DEF Writes
<1>6. ASSUME NEW rec \in made PROVE bare = {PlainTrig(rec)}
    BY <1>3
<1>7. ASSUME op.func = Nil, NEW rec \in made
      PROVE  Effect(op, Contents(tree)) = {Contents([tree EXCEPT ![o] = rec])}
    <2>1. AddedNodes(op, PlainRecs(recs), op.type) = bare
        BY <1>1, <1>7 DEF AddedNodes
    <2>2. \A r \in made : Effect(op, Contents(tree)) = {Contents([tree EXCEPT ![o] = r])}
        BY <1>2, <1>4, <2>1, EffectWrites
    <2> QED  BY <2>2
<1> QED  BY <1>1, <1>5, <1>6, <1>7 DEF CloneEffect

\* The name is set on a clone in the last place, and the same without addresses.
Just(x) == {x}

LEMMA NamedClone ==
    ASSUME NEW old \in TriggerRecord, NEW node \in Node, NEW type, NEW name \in Text,
           AllActive(old), node.type = type, node.active,
           NEW rec, rec = Added(old, node),
           NEW named, named = Added(old, [node EXCEPT !.func = name])
    PROVE  /\ named \in TriggerRecord
           /\ Same(SetEcaFuncName(PlainTrig(rec), type, CountEca(PlainTrig(rec).ecas, type) - 1, name),
                   Just(named))
<1>2. rec \in TriggerRecord /\ rec.ecas \in Seq(Node) /\ old.ecas \in Seq(Node)
    BY AddedType
<1>3. CountEca(PlainTrig(rec).ecas, type) - 1 = CountEca(old.ecas, type)
    <2>1. CountEca(PlainTrig(rec).ecas, type) = CountEca(rec.ecas, type)
        BY <1>2, PlainFacts, PlainLookups
    <2>2. CountEca(rec.ecas, type) = CountEca(old.ecas, type) + 1
        BY AddedOrdinal
    <2>3. CountEca(old.ecas, type) \in Nat
        BY <1>2, CountType
    <2> QED  BY <2>1, <2>2, <2>3
<1>4. SetEcaFuncName(rec, type, CountEca(old.ecas, type), name) = Just(named)
    <2>1. SetEcaFuncName(Added(old, node), type, CountEca(old.ecas, type), name) =
              {Added(old, [node EXCEPT !.func = name])}
        BY NameAdded
    <2> QED  BY <2>1 DEF Just
<1>5. Same(SetEcaFuncName(PlainTrig(rec), type, CountEca(old.ecas, type), name),
           SetEcaFuncName(rec, type, CountEca(old.ecas, type), name))
    BY <1>2, PlainSetFunc
<1>6. named \in TriggerRecord
    <2>1. [node EXCEPT !.func = name] \in Node
        BY DEF Node
    <2> QED  BY <2>1, AddedType
<1> QED  BY <1>3, <1>4, <1>5, <1>6

\* The operation turns the trees into these and no others.
Gives(op, tree, o, rec) == Effect(op, Contents(tree)) = {Contents([tree EXCEPT ![o] = rec])}

LEMMA EffectNamed ==
    ASSUME NEW tree \in [Trigger -> TriggerRecord], NEW op \in Operation, op.op = "add_eca",
           Order \in Seq(Trigger), op.trigger < Len(Order), NEW o \in Trigger, o = Order[op.trigger + 1],
           NEW recs, recs = Recs(tree),
           NEW rec \in TriggerRecord, NEW named \in TriggerRecord
    PROVE  /\ op.func # Nil
           /\ AddEca(PlainRecs(recs), op.trigger + 1, op.type, 0) = Just(PlainTrig(rec))
           /\ Same(SetEcaFuncName(PlainTrig(rec), op.type, CountEca(PlainTrig(rec).ecas, op.type) - 1, op.func),
                   Just(named))
           => Gives(op, tree, o, named)
<1>1. PICK bare : bare = AddedNodes(op, PlainRecs(recs), op.type)
    OBVIOUS
<1>2. Effect(op, Contents(tree)) = Writes(Contents(tree), o, bare)
    <2>1. 0 \in Nat
        OBVIOUS
    <2> QED  BY <1>1, <2>1, EffectAdd
<1>3. Just(named) \subseteq TriggerRecord /\ named \in Just(named)
    BY DEF Just
<1>4. PICK just : just = Just(named)
    OBVIOUS
<1>5. Same(bare, just) => \A r \in just : Effect(op, Contents(tree)) = {Contents([tree EXCEPT ![o] = r])}
    BY ZenonT(30), <1>2, <1>3, <1>4, EffectWrites
<1>6. ASSUME op.func # Nil,
             AddEca(PlainRecs(recs), op.trigger + 1, op.type, 0) = Just(PlainTrig(rec))
      PROVE  bare = SetEcaFuncName(PlainTrig(rec), op.type, CountEca(PlainTrig(rec).ecas, op.type) - 1, op.func)
    BY <1>1, <1>6 DEF AddedNodes, Just
<1> QED  BY <1>3, <1>4, <1>5, <1>6 DEF Gives

-----------------------------------------------------------------------------
(***************************************************************************)
(* The inductive invariant.  Each finished operation led from one recorded *)
(* tree to the next and to no other; the one at hand is one step away; and *)
(* a call turns back only when its plan has no end.                        *)
(***************************************************************************)
CalmPlan == /\ Clean /\ plan \in Plans /\ ~opts.continue_on_error
            /\ \A i \in DOMAIN plan : CalmOp(plan[i])

HistRests == \A k \in DOMAIN hist : Rests(hist[k])

Step(k) == Effect(plan[k], Contents(hist[k])) = {Contents(hist[k + 1])}
Path == Len(hist) = step /\ \A k \in 1 .. step - 1 : Step(k)

Cloned == AddEca(PlainRecs(Recs(Lasting)), Op.trigger + 1, Op.type, 0) = Just(PlainTrig(Target(Op)))

Reached == Effect(Op, Contents(Lasting)) = {Contents(trigs)}

Hopeless == Atomic!Finals(plan, Contents(hist[1])) = {}

CalmInv ==
    /\ toPut = <<>> /\ cap = Order /\ uiSteps = 0
    /\ calls = 0 => pc = "idle"
    /\ HistRests
    /\ pc \in {"idle", "verify"} => Rests(trigs)
    /\ pc # "idle" => CalmPlan
    /\ pc \notin {"idle", "revert"} => Path
    /\ pc = "addfunc" => Cloned
    /\ pc = "verify" => Reached
    /\ pc = "revert" => Hopeless

AtomicStep == Atomic!Next \/ UNCHANGED Atomic!vars

LEMMA OrderType ==
    ASSUME Calm
    PROVE  Order \in Seq(Trigger) /\ \A order \in CaptureOrders : order = Order
<1>1. PICK order \in CaptureOrders : CaptureOrders = {order}
    BY DEF Calm
<1>2. Order = order
    BY <1>1 DEF Order
<1> QED  BY <1>1, <1>2, PlanAssumption

LEMMA CalmInit ==
    ASSUME Calm, Init
    PROVE  CalmInv /\ Atomic!Init
<1>1. trigs \in InitTrigs /\ cap = Order /\ hist = <<trigs>> /\ pc = "idle"
    BY OrderType DEF Init
<1>2. Rests(trigs)
    BY <1>1 DEF Calm
<1>3. HistRests
    BY <1>1, <1>2 DEF HistRests
<1>4. CalmInv
    BY <1>1, <1>2, <1>3 DEF CalmInv, Init
<1>5. Atomic!Init
    BY <1>1 DEF Atomic!Init, Init
<1> QED  BY <1>4, <1>5

\* The steps of other actors, and replies that start nothing.
LEMMA CalmSame ==
    ASSUME CalmInv, UNCHANGED <<trigs, cap, toPut, uiSteps, pc, plan, opts, step, hist, quiet, sound>>,
           calls' = calls \/ pc = "idle"
    PROVE  CalmInv'
<1>1. Op' = Op /\ Lasting' = Lasting
    BY DEF Op, Lasting
<1>2. HistRests' /\ (Rests(trigs) => Rests(trigs)')
    BY DEF CalmInv, HistRests
<1>3. CalmPlan => CalmPlan'
    BY DEF CalmPlan, Clean
<1>4. Path => Path'
    BY DEF Path, Step
<1>5. Cloned => Cloned'
    BY <1>1 DEF Cloned, Target, Object
<1>6. (Reached => Reached') /\ (Hopeless => Hopeless')
    BY <1>1 DEF Reached, Hopeless
<1> QED  BY <1>2, <1>3, <1>4, <1>5, <1>6 DEF CalmInv

LEMMA CalmGrant ==
    ASSUME CalmInv, Grant \/ WorkerStart
    PROVE  CalmInv' /\ AtomicStep
<1>1. UNCHANGED <<trigs, cap, toPut, uiSteps, calls>> /\ UNCHANGED worker /\ UNCHANGED history
    BY DEF Grant, WorkerStart, counters
<1>2. UNCHANGED <<pc, plan, opts, step, reply, hist, quiet, sound>>
    BY <1>1 DEF worker, history
<1>3. CalmInv'
    BY <1>1, <1>2, CalmSame
<1>4. CASE Grant
    <2>1. approvals' = approvals + 1
        BY <1>4 DEF Grant
    <2>2. Atomic!Grant
        BY <1>1, <1>2, <2>1 DEF Atomic!Grant
    <2> QED  BY <1>3, <2>2 DEF AtomicStep, Atomic!Next
<1>5. CASE WorkerStart
    <2>1. approvals' = 0 /\ pc = "idle"
        BY <1>5 DEF WorkerStart, CalmInv
    <2>2. Atomic!Withdraw
        BY <1>1, <1>2, <2>1 DEF Atomic!Withdraw
    <2> QED  BY <1>3, <2>2 DEF AtomicStep, Atomic!Next
<1> QED  BY <1>4, <1>5

LEMMA CalmReturn ==
    ASSUME CalmInv, pc = "idle", UNCHANGED uiSteps, NEW text, Return(text),
           text \in {"invalid", "not_recoverable", "preview", "unconfirmed", "unapproved"}
    PROVE  CalmInv' /\ AtomicStep
<1>1. /\ UNCHANGED <<trigs, cap, toPut, approvals, pc, plan, opts, step, hist, quiet, sound>>
      /\ reply' = text
    BY DEF Return, history
<1>2. CalmInv'
    BY <1>1, CalmSame
<1>3. Atomic!Refuse
    BY <1>1 DEF Atomic!Refuse
<1> QED  BY <1>2, <1>3 DEF AtomicStep, Atomic!Next

LEMMA CalmBegin ==
    ASSUME Calm, TypeOK, CalmInv, pc = "idle", UNCHANGED uiSteps, calls' = calls + 1,
           NEW p \in Plans, NEW o \in OptionSets, Starts(p, o), approvals > 0, Begin(p, o)
    PROVE  CalmInv' /\ AtomicStep
<1>1. /\ approvals' = approvals - 1 /\ pc' = "snapshot" /\ plan' = p /\ opts' = o /\ step' = 1
      /\ hist' = <<trigs>> /\ quiet' = (toPut = <<>>) /\ sound' = CleanStart(p)
      /\ UNCHANGED <<trigs, cap, toPut>>
    BY DEF Begin
<1>2. ~o.continue_on_error /\ \A i \in DOMAIN p : CalmOp(p[i])
    BY DEF Calm
<1>3. Rests(trigs)
    BY DEF CalmInv
<1>4. CleanStart(p)
    <2>1. Adds(p) => AnyAdds
        BY DEF AnyAdds
    <2> QED  BY <1>2, <1>3, <2>1 DEF CleanStart, CalmOp, Rests, Rested
<1>5. CalmPlan'
    BY <1>1, <1>2, <1>4 DEF CalmPlan, Clean, CalmInv
<1>6. HistRests'
    BY <1>1, <1>3 DEF HistRests
<1>7. Path'
    BY <1>1 DEF Path
<1>8. calls' # 0
    BY DEF TypeOK
<1>9. CalmInv'
    BY <1>1, <1>5, <1>6, <1>7, <1>8 DEF CalmInv
<1>10. Atomic!Take
    BY <1>1 DEF Atomic!Take
<1> QED  BY <1>9, <1>10 DEF AtomicStep, Atomic!Next

LEMMA CalmCall ==
    ASSUME Calm, TypeOK, CalmInv, Call
    PROVE  CalmInv' /\ AtomicStep
<1>1. pc = "idle" /\ UNCHANGED uiSteps /\ calls' = calls + 1
    BY DEF Call
<1>2. PICK p \in Plans, o \in OptionSets :
          \/ Verdict(p, o) # "ask" /\ Return(Verdict(p, o))
          \/ Return("unapproved")
          \/ Verdict(p, o) = "ask" /\ approvals > 0 /\ Begin(p, o)
    BY DEF Call
<1>3. Verdict(p, o) # "ask" => Verdict(p, o) \in {"invalid", "not_recoverable", "preview", "unconfirmed"}
    BY Zenon DEF Verdict
<1>4. Verdict(p, o) = "ask" => Starts(p, o)
    BY DEF Starts
<1> QED  BY <1>1, <1>2, <1>3, <1>4, CalmReturn, CalmBegin

\* What every step inside a call leaves alone.
LEMMA CalmFrame ==
    ASSUME TypeOK, CalmInv, pc # "idle", pc' # "idle",
           UNCHANGED <<cap, toPut, approvals, plan, opts, hist, quiet, sound, calls, uiSteps>>
    PROVE  /\ toPut' = <<>> /\ cap' = Order /\ uiSteps' = 0 /\ calls' # 0 /\ HistRests' /\ CalmPlan'
           /\ UNCHANGED Atomic!vars /\ AtomicStep
           /\ Path /\ UNCHANGED step => Path'
           /\ Hopeless => Hopeless'
<1>1. HistRests' /\ (Hopeless => Hopeless')
    BY DEF CalmInv, HistRests, Hopeless
<1>2. CalmPlan'
    BY DEF CalmInv, CalmPlan, Clean
<1>3. UNCHANGED Atomic!vars
    BY DEF Atomic!vars
<1>4. Path /\ UNCHANGED step => Path'
    BY DEF Path, Step
<1> QED  BY <1>1, <1>2, <1>3, <1>4 DEF CalmInv, AtomicStep

LEMMA CalmCount ==
    ASSUME TypeOK, CalmInv, Snapshot \/ CountForAdd
    PROVE  CalmInv' /\ AtomicStep
<1>1. /\ pc \in {"snapshot", "count"} /\ pc' \in {"count", "apply", "add"}
      /\ UNCHANGED <<cap, toPut, approvals, plan, opts, step, hist, quiet, sound, calls, uiSteps>>
    BY DEF Snapshot, CountForAdd, editor, history, counters
<1>2. /\ toPut' = <<>> /\ cap' = Order /\ uiSteps' = 0 /\ calls' # 0 /\ HistRests' /\ CalmPlan'
      /\ AtomicStep /\ (Path => Path')
    BY <1>1, CalmFrame
<1>3. Path
    BY <1>1 DEF CalmInv
<1> QED  BY <1>1, <1>2, <1>3 DEF CalmInv

\* What an operation of a calm call has before its write.
LEMMA CalmBefore ==
    ASSUME Calm, Inv, CalmInv, pc \in {"apply", "add", "addfunc", "verify"}
    PROVE  /\ Clean /\ TypeOK /\ Op \in Operation /\ CalmOp(Op)
           /\ Op.op \in SetOps \/ Op.op = "add_eca"
           /\ Op.op = "add_eca" => Adds(plan)
           /\ Lasting \in [Trigger -> TriggerRecord] /\ SoundTree(Lasting) /\ Rests(Lasting)
           /\ Path /\ Len(hist) \in DOMAIN hist
           /\ Order \in Seq(Trigger) /\ cap = Order
           /\ Op.trigger \in Nat /\ Len(Order) \in Nat
           /\ Captured(Op) <=> Op.trigger < Len(Order)
           /\ Captured(Op) => Object(Op) \in Trigger /\ Object(Op) = Order[Op.trigger + 1]
<1>1. Clean /\ TypeOK /\ Path /\ cap = Order /\ HistRests /\ CalmPlan
    BY DEF CalmInv, CalmPlan, Inv, TypeInv
<1>2. /\ Op \in Operation
      /\ Op.op \in SetOps \/ Op.op = "add_eca"
      /\ Op.op = "add_eca" => Adds(plan)
      /\ Lasting \in [Trigger -> TriggerRecord] /\ SoundTree(Lasting)
      /\ Len(hist) \in DOMAIN hist
    BY <1>1, BeforeWrite
<1>3. step \in DOMAIN plan
    BY <1>1 DEF TypeOK
<1>4. CalmOp(Op) /\ Rests(Lasting)
    BY <1>1, <1>2, <1>3 DEF CalmPlan, HistRests, Op, Lasting
<1>5. Order \in Seq(Trigger) /\ Len(Order) \in Nat /\ Op.trigger \in Nat
    BY <1>2, OrderType, OpFields, LenProperties
<1>6. Captured(Op) <=> Op.trigger < Len(Order)
    BY <1>1 DEF Captured
<1>7. Captured(Op) => Object(Op) \in Trigger /\ Object(Op) = Order[Op.trigger + 1]
    BY <1>1, <1>2, ObjectType DEF Object
<1> QED  BY <1>1, <1>2, <1>4, <1>5, <1>6, <1>7

\* An operation that is impossible now: its plan has no end.
LEMMA NoEnd ==
    ASSUME TypeOK, pc # "idle", Path, Effect(Op, Contents(Lasting)) = {}
    PROVE  Hopeless
<1> DEFINE trees == [k \in 1 .. step |-> Contents(hist[k])]
<1>1. Len(plan) \in Nat /\ step \in 1 .. Len(plan) /\ Len(hist) = step
    BY OpInPlan DEF Path
<1>2. \A k \in 1 .. step : trees[k] = Contents(hist[k])
    OBVIOUS
<1>3. trees[1] = Contents(hist[1]) /\ trees[step] = Contents(Lasting)
    BY <1>1, <1>2 DEF Lasting
<1> HIDE DEF trees
<1>4. Chain(plan, trees, step - 1)
    <2>1. ASSUME NEW k \in 1 .. step - 1
          PROVE  Effect(plan[k], trees[k]) = {trees[k + 1]}
        <3>1. k \in 1 .. step /\ k + 1 \in 1 .. step
            BY <1>1
        <3>2. Effect(plan[k], Contents(hist[k])) = {Contents(hist[k + 1])}
            BY DEF Path, Step
        <3> QED  BY <1>2, <3>1, <3>2
    <2> QED  BY <2>1 DEF Chain
<1>5. Effect(plan[step], trees[step]) = {}
    BY <1>3 DEF Op
<1>6. Atomic!Finals(plan, trees[1]) = {}
    BY <1>1, <1>4, <1>5, FinalsNone
<1> QED  BY <1>3, <1>6 DEF Hopeless

LEMMA CalmFail ==
    ASSUME Calm, Inv, CalmInv, pc \in {"apply", "add"}, Fail,
           Effect(Op, Contents(Lasting)) = {}
    PROVE  CalmInv' /\ AtomicStep
<1>1. Path /\ TypeOK /\ CalmPlan
    BY DEF CalmInv, Inv, TypeInv
<1>2. /\ pc' = "revert"
      /\ UNCHANGED <<cap, toPut, approvals, plan, opts, step, hist, quiet, sound, calls, uiSteps>>
    BY <1>1 DEF Fail, CalmPlan, history, counters
<1>3. Hopeless
    BY <1>1, NoEnd
<1>4. /\ toPut' = <<>> /\ cap' = Order /\ uiSteps' = 0 /\ calls' # 0 /\ HistRests' /\ CalmPlan'
      /\ AtomicStep /\ Hopeless'
    BY <1>1, <1>2, <1>3, CalmFrame
<1> QED  BY <1>2, <1>4 DEF CalmInv

\* The write that finishes an operation.
LEMMA CalmFinished ==
    ASSUME Inv, CalmInv, Path, pc \in {"apply", "add", "addfunc"}, pc' = "verify",
           UNCHANGED <<cap, toPut, approvals, plan, opts, step, hist, quiet, sound, calls, uiSteps>>,
           Lasting \in [Trigger -> TriggerRecord], Rests(Lasting),
           NEW o \in Trigger, NEW rec, Rested(rec),
           trigs' = [Lasting EXCEPT ![o] = rec],
           Effect(Op, Contents(Lasting)) = {Contents([Lasting EXCEPT ![o] = rec])}
    PROVE  CalmInv' /\ AtomicStep
<1>1. TypeOK
    BY DEF Inv, TypeInv
<1>2. /\ toPut' = <<>> /\ cap' = Order /\ uiSteps' = 0 /\ calls' # 0 /\ HistRests' /\ CalmPlan'
      /\ AtomicStep /\ Path'
    BY <1>1, CalmFrame
<1>3. Op' = Op /\ Lasting' = Lasting
    BY DEF Op, Lasting
<1>4. Reached'
    BY <1>3 DEF Reached
<1>5. Rests(trigs)'
    BY DEF Rests
<1> QED  BY <1>2, <1>4, <1>5 DEF CalmInv

LEMMA CalmApply ==
    ASSUME Calm, Inv, CalmInv, Apply
    PROVE  CalmInv' /\ AtomicStep
<1>1. pc = "apply"
    BY DEF Apply
<1>2. /\ Clean /\ TypeOK /\ Op \in Operation /\ CalmOp(Op)
      /\ Lasting \in [Trigger -> TriggerRecord] /\ Rests(Lasting) /\ Path
      /\ Order \in Seq(Trigger) /\ Op.trigger \in Nat /\ Len(Order) \in Nat
      /\ Captured(Op) <=> Op.trigger < Len(Order)
      /\ Captured(Op) => Object(Op) \in Trigger /\ Object(Op) = Order[Op.trigger + 1]
    BY <1>1, CalmBefore
<1>3. Op.op \in SetOps
    BY <1>1, CalmBefore DEF Inv, TypeInv, Control
<1>4. trigs = Lasting
    BY <1>1, <1>2 DEF Inv, RunInv
<1>5. PICK o : o = Object(Op)
    OBVIOUS
<1>6. Captured(Op) => Applying(Op) = Set(Lasting[o], Op, Op.value)
    BY <1>3, <1>4, <1>5 DEF Applying, Target, SetOps
<1>7. ASSUME ~Captured(Op) PROVE Applying(Op) = {} /\ Effect(Op, Contents(Lasting)) = {}
    BY <1>2, <1>7 DEF Applying, Effect
<1>8. ASSUME Captured(Op)
      PROVE  /\ Applying(Op) = {} => Effect(Op, Contents(Lasting)) = {}
             /\ \A rec \in Applying(Op) :
                   Effect(Op, Contents(Lasting)) = {Contents([Lasting EXCEPT ![o] = rec])}
    <2>1. Op.trigger < Len(Order) /\ o \in Trigger /\ o = Order[Op.trigger + 1]
        BY <1>2, <1>5, <1>8
    <2>2. /\ Set(Lasting[o], Op, Op.value) = {} => Effect(Op, Contents(Lasting)) = {}
          /\ \A rec \in Set(Lasting[o], Op, Op.value) :
                Effect(Op, Contents(Lasting)) = {Contents([Lasting EXCEPT ![o] = rec])}
        BY <1>2, <1>3, <2>1, EffectSet
    <2> QED  BY <1>6, <1>8, <2>2
<1>9. CASE Applying(Op) = {} /\ Fail
    <2>1. Effect(Op, Contents(Lasting)) = {}
        BY <1>7, <1>8, <1>9
    <2> QED  BY <1>1, <1>9, <2>1, CalmFail
<1>10. CASE ~ (Applying(Op) = {} /\ Fail)
    <2>1. /\ pc' = "verify" /\ Written(Op, Applying(Op))
          /\ UNCHANGED <<cap, toPut, approvals, plan, opts, step, hist, quiet, sound, calls, uiSteps>>
        BY <1>10 DEF Apply, history, counters
    <2>2. PICK rec \in Applying(Op) : trigs' = [Lasting EXCEPT ![o] = rec]
        BY <1>4, <1>5, <2>1 DEF Written
    <2>3. Captured(Op)
        BY <2>2 DEF Applying
    <2>4. o \in Trigger /\ Lasting[o] \in TriggerRecord /\ Rested(Lasting[o])
        BY <1>2, <1>5, <2>3 DEF Rests
    <2>5. rec \in Set(Lasting[o], Op, Op.value)
        BY <1>6, <2>2, <2>3
    <2>6. /\ Readable(rec)
          /\ AllActive(Lasting[o]) /\ (Op.op = "set_eca_active" => Op.value) => AllActive(rec)
        BY <1>2, <1>3, <2>4, <2>5, SetUndo DEF Rested, CalmOp
    <2>7. Rested(rec)
        BY <1>2, <2>4, <2>6 DEF Rested, CalmOp
    <2>8. Effect(Op, Contents(Lasting)) = {Contents([Lasting EXCEPT ![o] = rec])}
        BY <1>8, <2>2, <2>3
    <2> QED  BY <1>1, <1>2, <2>1, <2>2, <2>4, <2>7, <2>8, CalmFinished
<1> QED  BY <1>9, <1>10

LEMMA CalmAddNode ==
    ASSUME Calm, Inv, CalmInv, AddNode
    PROVE  CalmInv' /\ AtomicStep
<1>1. pc = "add"
    BY DEF AddNode
<1>2. /\ Clean /\ TypeOK /\ Op \in Operation /\ CalmOp(Op) /\ Adds(plan)
      /\ Lasting \in [Trigger -> TriggerRecord] /\ SoundTree(Lasting) /\ Rests(Lasting) /\ Path
      /\ Order \in Seq(Trigger) /\ cap = Order /\ Op.trigger \in Nat /\ Len(Order) \in Nat
      /\ Captured(Op) <=> Op.trigger < Len(Order)
      /\ Captured(Op) => Object(Op) \in Trigger /\ Object(Op) = Order[Op.trigger + 1]
    BY <1>1, CalmBefore DEF Inv, TypeInv, Control
<1>3. Op.op = "add_eca"
    BY <1>1 DEF Inv, TypeInv, Control
<1>4. trigs = Lasting /\ fresh \in Nat
    BY <1>1, <1>2 DEF Inv, RunInv, TypeOK
<1>5. PICK o, recs, made : /\ o = Object(Op) /\ recs = Recs(Lasting)
                           /\ made = AddEca(recs, Op.trigger + 1, Op.type, fresh)
    OBVIOUS
<1>6. Captured(Op) => Adding(Op) = made
    BY <1>2, <1>4, <1>5 DEF Adding, Recs
<1>7. ASSUME ~Captured(Op) PROVE Effect(Op, Contents(Lasting)) = {}
    BY <1>2, <1>7 DEF Effect
<1>8. ASSUME Captured(Op)
      PROVE  /\ made = {} => Effect(Op, Contents(Lasting)) = {}
             /\ \A rec \in made : AddEca(PlainRecs(recs), Op.trigger + 1, Op.type, 0) = {PlainTrig(rec)}
             /\ Op.func = Nil => \A rec \in made :
                   Effect(Op, Contents(Lasting)) = {Contents([Lasting EXCEPT ![o] = rec])}
    <2>1. Op.trigger < Len(Order) /\ o \in Trigger /\ o = Order[Op.trigger + 1]
        BY <1>2, <1>5, <1>8
    <2>2. PICK op, tree : op = Op /\ tree = Lasting
        OBVIOUS
    <2>3. /\ tree \in [Trigger -> TriggerRecord] /\ op \in Operation /\ op.op = "add_eca"
          /\ op.trigger < Len(Order) /\ o = Order[op.trigger + 1] /\ recs = Recs(tree)
          /\ made = AddEca(recs, op.trigger + 1, op.type, fresh) /\ fresh \in Nat
          /\ Order \in Seq(Trigger) /\ o \in Trigger
        BY <1>2, <1>3, <1>4, <1>5, <2>1, <2>2
    <2>4. CloneEffect(op, tree, o, recs, made)
        BY <2>3, EffectClone
    <2> QED  BY <2>2, <2>4 DEF CloneEffect
<1>9. CASE Adding(Op) = {} /\ Fail
    <2>1. Effect(Op, Contents(Lasting)) = {}
        BY <1>6, <1>7, <1>8, <1>9
    <2> QED  BY <1>1, <1>9, <2>1, CalmFail
<1>10. CASE ~ (Adding(Op) = {} /\ Fail)
    <2>1. /\ pc' = (IF Op.func # Nil THEN "addfunc" ELSE Filling(0)) /\ Written(Op, Adding(Op))
          /\ UNCHANGED <<cap, toPut, approvals, plan, opts, step, hist, quiet, sound, calls, uiSteps>>
        BY <1>10 DEF AddNode, history, counters
    <2>2. PICK rec \in Adding(Op) : trigs' = [Lasting EXCEPT ![o] = rec]
        BY <1>4, <1>5, <2>1 DEF Written
    <2>3. Captured(Op)
        BY <2>2 DEF Adding
    <2>4. /\ o \in Trigger /\ Lasting[o] \in TriggerRecord /\ Target(Op) = Lasting[o]
          /\ Readable(Lasting[o]) /\ AllActive(Lasting[o])
        BY <1>2, <1>4, <1>5, <2>3 DEF SoundTree, Target
    <2>5. rec \in made
        BY <1>6, <2>2, <2>3
    <2>6. CASE Op.func = Nil
        <3>1. pc' = "verify"
            BY <1>2, <1>3, <2>1, <2>6 DEF Filling, CalmOp, CleanOp
        <3>2. PICK node \in Node : /\ ReadableNode(node) /\ node.type = Op.type /\ node.active
                                   /\ rec = Added(Lasting[o], node)
            BY <1>2, <1>4, <2>2, <2>3, <2>4, AddedNode
        <3>3. Rested(rec)
            BY <1>2, <1>3, <2>4, <3>2, AddUndo DEF Rested
        <3>4. Effect(Op, Contents(Lasting)) = {Contents([Lasting EXCEPT ![o] = rec])}
            BY <1>8, <2>3, <2>5, <2>6
        <3> QED  BY <1>1, <1>2, <2>1, <2>2, <2>4, <3>1, <3>3, <3>4, CalmFinished
    <2>7. CASE Op.func # Nil
        <3>1. pc' = "addfunc"
            BY <2>1, <2>7
        <3>2. /\ toPut' = <<>> /\ cap' = Order /\ uiSteps' = 0 /\ calls' # 0 /\ HistRests' /\ CalmPlan'
              /\ AtomicStep /\ Path'
            BY <1>1, <1>2, <2>1, <3>1, CalmFrame
        <3>3. Op' = Op /\ Lasting' = Lasting /\ Object(Op)' = o
            BY <1>5, <2>1 DEF Op, Lasting, Object
        <3>4. Target(Op)' = rec
            BY <1>2, <2>2, <2>4, <3>3 DEF Target
        <3>5. AddEca(PlainRecs(recs), Op.trigger + 1, Op.type, 0) = Just(PlainTrig(rec))
            BY <1>8, <2>3, <2>5 DEF Just
        <3>6. Cloned'
            BY <1>5, <3>3, <3>4, <3>5 DEF Cloned
        <3> QED  BY <3>1, <3>2, <3>6 DEF CalmInv
    <2> QED  BY <2>6, <2>7
<1> QED  BY <1>9, <1>10

LEMMA CalmSetAddedFunc ==
    ASSUME Calm, Inv, CalmInv, SetAddedFunc
    PROVE  CalmInv' /\ AtomicStep
<1>1. pc = "addfunc" /\ Op.op = "add_eca" /\ Op.func # Nil /\ Cloned
    BY DEF SetAddedFunc, Inv, TypeInv, Control, CalmInv
<1>2. /\ Clean /\ TypeOK /\ Op \in Operation /\ CalmOp(Op) /\ Adds(plan)
      /\ Lasting \in [Trigger -> TriggerRecord] /\ SoundTree(Lasting) /\ Rests(Lasting) /\ Path
      /\ Order \in Seq(Trigger) /\ cap = Order /\ Op.trigger \in Nat /\ Len(Order) \in Nat
      /\ Captured(Op) <=> Op.trigger < Len(Order)
      /\ Captured(Op) => Object(Op) \in Trigger /\ Object(Op) = Order[Op.trigger + 1]
    BY <1>1, CalmBefore
<1>3. NodeAdded
    BY <1>1, <1>2 DEF Inv, RunInv
<1>4. Op.func \in Text \ {NoText} /\ (Op.func = CommentString => Op.type = Action) /\ Op.params = <<>>
    BY <1>1, <1>2, OpFields DEF CalmOp, CleanOp, Name
<1>5. PICK o, old, recs, tree : o = Object(Op) /\ old = Lasting[o] /\ recs = Recs(Lasting) /\ tree = Lasting
    OBVIOUS
<1>6. PICK node : /\ node \in Node /\ ReadableNode(node) /\ node.type = Op.type /\ node.active
                  /\ trigs = [Lasting EXCEPT ![o] = Added(old, node)]
    BY <1>3, <1>5 DEF NodeAdded
<1>7. PICK rec, named : rec = Added(old, node) /\ named = Added(old, [node EXCEPT !.func = Op.func])
    OBVIOUS
<1>8. /\ Captured(Op) /\ o \in Trigger /\ old \in TriggerRecord
      /\ Readable(old) /\ AllActive(old) /\ newIndex = CountEca(old.ecas, Op.type)
    BY <1>2, <1>3, <1>5 DEF NodeAdded, SoundTree
<1>9. Target(Op) = rec
    BY <1>2, <1>5, <1>6, <1>7, <1>8 DEF Target
<1>10. SettingAddedFunc(Op) = Just(named)
    <2>1. SetEcaFuncName(Added(old, node), Op.type, CountEca(old.ecas, Op.type), Op.func) =
              {Added(old, [node EXCEPT !.func = Op.func])}
        BY <1>4, <1>6, <1>8, NameAdded
    <2> QED  BY <1>7, <1>8, <1>9, <2>1 DEF SettingAddedFunc, Just
<1>11. trigs' = [Lasting EXCEPT ![o] = named]
    <2>1. Written(Op, Just(named))
        BY <1>10 DEF SetAddedFunc, Just
    <2> QED  BY <1>2, <1>5, <1>6, <1>8, <2>1 DEF Written, Just
<1>12. Rested(named)
    <2>1. PICK other : other = [node EXCEPT !.func = Op.func]
        OBVIOUS
    <2>2. other \in Node /\ ReadableNode(other) /\ other.type = Op.type /\ other.active
        BY <1>4, <1>6, <2>1 DEF Node, ReadableNode
    <2>3. Readable(Added(old, other)) /\ AllActive(Added(old, other))
        BY <1>1, <1>2, <1>8, <2>2, AddUndo
    <2> QED  BY <1>7, <2>1, <2>3 DEF Rested
<1>13. Effect(Op, Contents(Lasting)) = {Contents([Lasting EXCEPT ![o] = named])}
    <2>1. PICK op : op = Op
        OBVIOUS
    <2>2. /\ named \in TriggerRecord /\ rec \in TriggerRecord
          /\ Same(SetEcaFuncName(PlainTrig(rec), op.type, CountEca(PlainTrig(rec).ecas, op.type) - 1, op.func),
                  Just(named))
        BY <1>4, <1>6, <1>7, <1>8, <2>1, NamedClone, AddedType
    <2>3. AddEca(PlainRecs(recs), op.trigger + 1, op.type, 0) = Just(PlainTrig(rec))
        BY <1>1, <1>5, <1>9, <2>1 DEF Cloned
    <2>4. /\ op.func # Nil /\ op \in Operation /\ op.op = "add_eca" /\ op.trigger < Len(Order)
          /\ tree \in [Trigger -> TriggerRecord] /\ o = Order[op.trigger + 1] /\ recs = Recs(tree)
          /\ Order \in Seq(Trigger) /\ o \in Trigger
        BY <1>1, <1>2, <1>5, <1>8, <2>1
    <2>5. Gives(op, tree, o, named)
        BY <2>2, <2>3, <2>4, EffectNamed
    <2> QED  BY <1>5, <2>1, <2>5 DEF Gives
<1>14. /\ pc' = "verify"
       /\ UNCHANGED <<cap, toPut, approvals, plan, opts, step, hist, quiet, sound, calls, uiSteps>>
    <2>1. SettingAddedFunc(Op) # {}
        BY <1>10 DEF Just
    <2> QED  BY <1>4, <2>1 DEF SetAddedFunc, Filling, history, counters
<1> QED  BY <1>1, <1>2, <1>8, <1>11, <1>12, <1>13, <1>14, CalmFinished

LEMMA CalmVerify ==
    ASSUME Calm, Inv, CalmInv, Verify
    PROVE  CalmInv' /\ AtomicStep
<1> DEFINE n == Len(hist)
<1>1. /\ pc = "verify" /\ hist' = Append(hist, trigs)
      /\ UNCHANGED <<trigs, cap, toPut, approvals, plan, opts, quiet, sound, calls, uiSteps>>
    BY DEF Verify, editor, counters
<1>2. TypeOK /\ HistRests /\ CalmPlan /\ Path /\ Reached /\ Rests(trigs)
    BY <1>1 DEF CalmInv, Inv, TypeInv
<1>3. /\ hist \in Seq([Trigger -> TriggerRecord]) /\ n \in Nat /\ n = step
      /\ step \in 1 .. Len(plan) /\ Len(plan) \in Nat
    BY <1>1, <1>2, OpInPlan, LenProperties DEF TypeOK, Path
<1>4. /\ Len(hist') = n + 1 /\ DOMAIN hist' = 1 .. n + 1 /\ hist'[n + 1] = trigs
      /\ \A k \in 1 .. n : hist'[k] = hist[k] /\ k \in DOMAIN hist
    <2>1. /\ Append(hist, trigs) \in Seq([Trigger -> TriggerRecord])
          /\ Len(Append(hist, trigs)) = n + 1 /\ Append(hist, trigs)[n + 1] = trigs
          /\ \A k \in 1 .. n : Append(hist, trigs)[k] = hist[k]
        BY <1>2, <1>3, AppendProperties DEF TypeOK
    <2> QED  BY <1>1, <1>3, <2>1, LenProperties
<1>5. HistRests'
    <2>1. \A k \in 1 .. n + 1 : k \in 1 .. n \/ k = n + 1
        BY <1>3
    <2> QED  BY <1>2, <1>4, <2>1 DEF HistRests
<1>6. \A k \in 1 .. n : Effect(plan[k], Contents(hist'[k])) = {Contents(hist'[k + 1])}
    <2> TAKE k \in 1 .. n
    <2>1. CASE k = n
        <3>1. Effect(plan[n], Contents(hist[n])) = {Contents(trigs)}
            BY <1>2, <1>3 DEF Reached, Op, Lasting
        <3> QED  BY <1>4, <2>1, <3>1
    <2>2. CASE k \in 1 .. n - 1
        <3>1. Effect(plan[k], Contents(hist[k])) = {Contents(hist[k + 1])}
            BY <1>2, <1>3, <2>2 DEF Path, Step
        <3>2. k \in 1 .. n /\ k + 1 \in 1 .. n
            BY <1>3, <2>2
        <3> QED  BY <1>4, <3>1, <3>2
    <2> QED  BY <1>3, <2>1, <2>2
<1>7. CalmPlan'
    BY <1>1, <1>2 DEF CalmPlan, Clean
<1>8. hist'[1] = hist[1]
    BY <1>3, <1>4
<1>9. CASE step = Len(plan)
    <2>1. pc' = "idle" /\ reply' = "ok"
        BY <1>9 DEF Verify
    <2>2. CalmInv'
        BY <1>1, <1>2, <1>5, <2>1 DEF CalmInv
    <2>3. Atomic!Finals(plan, Contents(hist[1])) = {Contents(trigs)}
        <3> DEFINE trees == [k \in 1 .. n + 1 |-> Contents(hist'[k])]
        <3>1. \A k \in 1 .. n + 1 : trees[k] = Contents(hist'[k])
            OBVIOUS
        <3> HIDE DEF trees
        <3>2. Chain(plan, trees, Len(plan))
            <4>1. ASSUME NEW k \in 1 .. n PROVE Effect(plan[k], trees[k]) = {trees[k + 1]}
                <5>1. k \in 1 .. n + 1 /\ k + 1 \in 1 .. n + 1
                    BY <1>3
                <5> QED  BY <1>6, <3>1, <5>1
            <4> QED  BY <1>3, <1>9, <4>1 DEF Chain
        <3>3. Atomic!Finals(plan, trees[1]) = {trees[Len(plan) + 1]}
            BY <1>3, <3>2, FinalsOne
        <3>4. trees[1] = Contents(hist[1]) /\ trees[Len(plan) + 1] = Contents(trigs)
            BY <1>3, <1>4, <1>8, <1>9, <3>1
        <3> QED  BY <3>3, <3>4
    <2>4. plan # Nil
        BY <1>2 DEF CalmPlan, Calm
    <2>5. Contents(trigs)' \in Atomic!Finals(plan, Contents(hist[1]))
        BY <1>1, <2>3
    <2>6. Atomic!Commit
        BY <1>1, <2>1, <2>4, <2>5 DEF Atomic!Commit
    <2> QED  BY <2>2, <2>6 DEF AtomicStep, Atomic!Next
<1>10. CASE step # Len(plan)
    <2>1. pc' = "snapshot" /\ step' = step + 1
        BY <1>10 DEF Verify
    <2>2. Path'
        <3>1. Len(hist') = step' /\ step' - 1 = n
            BY <1>3, <1>4, <2>1
        <3> QED  BY <1>1, <1>6, <3>1 DEF Path, Step
    <2>3. CalmInv'
        BY <1>1, <1>5, <1>7, <2>1, <2>2 DEF CalmInv
    <2>4. UNCHANGED Atomic!vars
        BY <1>1, <1>8, <2>1 DEF Atomic!vars
    <2> QED  BY <2>3, <2>4 DEF AtomicStep
<1> QED  BY <1>9, <1>10

LEMMA CalmRevert ==
    ASSUME Calm, Inv, Inv', CalmInv, Revert
    PROVE  CalmInv' /\ AtomicStep
<1>1. /\ pc = "revert"
      /\ UNCHANGED <<cap, toPut, approvals, plan, opts, quiet, sound, calls, uiSteps>>
    BY DEF Revert, counters
<1>2. TypeOK /\ HistRests /\ CalmPlan /\ Hopeless /\ Clean
    BY <1>1 DEF CalmInv, CalmPlan, Inv, TypeInv
<1>3. CalmPlan' /\ Clean'
    BY <1>1, <1>2 DEF CalmPlan, Clean
<1>4. Len(hist) \in Nat /\ DOMAIN hist = 1 .. Len(hist)
    BY <1>2, LenProperties DEF TypeOK
<1>5. CASE rollbacks = <<>>
    <2>1. pc' = "idle" /\ reply' = "rolled_back" /\ UNCHANGED <<trigs, hist>>
        BY <1>5 DEF Revert
    <2>2. trigs = hist[1]
        BY <1>3, <2>1 DEF Inv, RunInv
    <2>3. Rests(trigs)
        <3>1. Len(hist) = 1
            BY <1>2, <1>5 DEF TypeOK
        <3> QED  BY <1>2, <1>4, <2>2, <3>1 DEF HistRests
    <2>4. CalmInv'
        BY <1>1, <1>2, <2>1, <2>3 DEF CalmInv, HistRests
    <2>5. plan # Nil
        BY <1>2 DEF CalmPlan, Calm
    <2>6. Atomic!Abort
        BY <1>1, <1>2, <2>1, <2>2, <2>5 DEF Atomic!Abort, Hopeless
    <2> QED  BY <2>4, <2>6 DEF AtomicStep, Atomic!Next
<1>6. CASE rollbacks # <<>>
    <2>1. pc' = "revert" /\ hist' = SubSeq(hist, 1, Len(hist) - 1)
        BY <1>1, <1>6 DEF Revert
    <2>2. Len(hist) >= 2
        <3>1. Len(rollbacks) # 0 /\ Len(hist) = Len(rollbacks) + 1 /\ Len(rollbacks) \in Nat
            BY <1>2, <1>6 DEF TypeOK
        <3> QED  BY <3>1
    <2>3. \A k \in DOMAIN hist' : k \in DOMAIN hist /\ hist'[k] = hist[k]
        BY <1>2, <2>1 DEF TypeOK
    <2>4. hist'[1] = hist[1]
        BY <1>4, <2>1, <2>2
    <2>5. HistRests'
        BY <1>2, <2>3 DEF HistRests
    <2>6. Hopeless'
        BY <1>1, <1>2, <2>4 DEF Hopeless
    <2>7. CalmInv'
        BY <1>1, <1>3, <2>1, <2>5, <2>6 DEF CalmInv
    <2>8. UNCHANGED Atomic!vars
        BY <1>1, <2>1, <2>4 DEF Atomic!vars
    <2> QED  BY <2>7, <2>8 DEF AtomicStep
<1> QED  BY <1>5, <1>6

LEMMA CalmNext ==
    ASSUME Calm, Inv, Inv', CalmInv, [Next]_vars
    PROVE  CalmInv' /\ AtomicStep
<1>1. TypeOK
    BY DEF Inv, TypeInv
<1>2. CASE Loop
    <2>1. CASE SetAddedParam
        <3>1. pc = "addparam" /\ Clean
            BY <2>1 DEF SetAddedParam, CalmInv, CalmPlan
        <3> QED  BY <3>1 DEF Inv, RunInv
    <2> QED  BY <1>1, <1>2, <2>1, CalmCount, CalmApply, CalmAddNode, CalmSetAddedFunc, CalmVerify,
                CalmRevert DEF Loop
<1>3. CASE Call
    BY <1>1, <1>3, CalmCall
<1>4. CASE WorkerStart \/ Grant
    BY <1>4, CalmGrant
<1>5. CASE UNCHANGED vars
    <2>1. /\ UNCHANGED <<trigs, cap, toPut, uiSteps, pc, plan, opts, step, hist, quiet, sound, calls>>
          /\ UNCHANGED <<approvals, reply>>
        BY <1>5 DEF vars, editor, worker, history, counters
    <2>2. CalmInv'
        BY <2>1, CalmSame
    <2>3. UNCHANGED Atomic!vars
        BY <2>1 DEF Atomic!vars
    <2> QED  BY <2>2, <2>3 DEF AtomicStep
<1>6. ~UiStep /\ ~CompilePut
    BY DEF UiStep, CompilePut, CalmInv, Calm
<1>7. ASSUME NEW o \in Trigger, UserEdit(o) PROVE FALSE
    BY <1>6, <1>7 DEF UserEdit
<1>8. ASSUME NEW order \in CaptureOrders, CompileStart(order) PROVE FALSE
    BY <1>6, <1>8 DEF CompileStart
<1> QED  BY <1>2, <1>3, <1>4, <1>5, <1>6, <1>7, <1>8 DEF Next, Worker, Ui

\* Seen between calls, a calm session's calls are the steps of AtomicApply: a
\* call spends one approval and carries out its whole plan in order, or leaves
\* the triggers as they were because one of its operations is impossible
\* (apply_plan 2448-2538).
THEOREM CallsAtomic ==
    ASSUME Calm
    PROVE  Spec => Atomic!Init /\ [][Atomic!Next]_(Atomic!vars)
<1>1. Init => CalmInv /\ Atomic!Init
    BY CalmInit
<1>2. Inv /\ Inv' /\ CalmInv /\ [Next]_vars => CalmInv' /\ [Atomic!Next]_(Atomic!vars)
    BY CalmNext DEF AtomicStep
<1> QED  BY <1>1, <1>2, InvHolds, PTL DEF Spec
=============================================================================
