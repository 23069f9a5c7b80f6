---------------------------- MODULE EcaTreeProofs ----------------------------
(***************************************************************************)
(* Lemmas about the native calls of EcaTree: an ordinal names at most one  *)
(* node, every write keeps the type of a record, and a write that read the *)
(* old value first is undone by writing that value back.                   *)
(***************************************************************************)
EXTENDS EcaTree, FiniteSetTheorems, SequenceTheorems, TLAPS

LEMMA OrderedFinite ==
    ASSUME NEW ecas \in Seq(Node), NEW type
    PROVE  /\ OfType(ecas, type) \subseteq 1 .. Len(ecas)
           /\ ActiveOfType(ecas, type) \subseteq 1 .. Len(ecas)
           /\ IsFiniteSet(OfType(ecas, type))
           /\ IsFiniteSet(ActiveOfType(ecas, type))
<1>1. /\ OfType(ecas, type) \subseteq 1 .. Len(ecas) /\ Len(ecas) \in Nat
      /\ ActiveOfType(ecas, type) \subseteq OfType(ecas, type)
    BY LenProperties DEF OfType, ActiveOfType
<1>2. IsFiniteSet(1 .. Len(ecas))
    BY <1>1, FS_Interval
<1>3. IsFiniteSet(OfType(ecas, type))
    BY <1>1, <1>2, FS_Subset
<1> QED  BY <1>1, <1>3, FS_Subset

\* Two positions never share an ordinal: find_eca_ex's "found == eca_idx" is met
\* once in its walk (AgentAPI.cpp, lines 175-196).
LEMMA NthSingle ==
    ASSUME NEW S, IsFiniteSet(S), S \subseteq Nat, NEW index, NEW p \in Nth(S, index)
    PROVE  Nth(S, index) = {p}
<1> SUFFICES ASSUME NEW q \in Nth(S, index) PROVE q = p
    OBVIOUS
<1> DEFINE Below(r) == {s \in S : s < r}
<1>1. /\ p \in S /\ q \in S /\ p \in Nat /\ q \in Nat
      /\ Cardinality(Below(p)) = Cardinality(Below(q))
    BY DEF Nth
<1>2. ASSUME NEW r \in S, NEW s \in S, r < s, Cardinality(Below(r)) = Cardinality(Below(s))
      PROVE  FALSE
    <2>1. r \in Nat /\ s \in Nat /\ r \in Below(s) /\ r \notin Below(r)
        BY <1>2
    <2>4. \A x \in Below(r) : x \in Below(s)
        BY <1>2, <2>1
    <2>2. IsFiniteSet(Below(s))
        BY FS_Subset
    <2>3. Below(r) = Below(s)
        BY <2>4, <2>2, <1>2, FS_Subset
    <2> QED  BY <2>1, <2>3
<1> QED  BY <1>1, <1>2

\* A found position is that of a node of the type asked for, and the only one.
LEMMA Found ==
    ASSUME NEW ecas \in Seq(Node), NEW type, NEW index
    PROVE  /\ DOMAIN ecas = 1 .. Len(ecas)
           /\ \A p \in FindEca(ecas, type, index) :
                 /\ p \in DOMAIN ecas /\ ecas[p] \in Node
                 /\ ecas[p].type = type /\ ecas[p].active
                 /\ FindEca(ecas, type, index) = {p}
           /\ \A p \in FindAnyEca(ecas, type, index) :
                 /\ p \in DOMAIN ecas /\ ecas[p] \in Node
                 /\ ecas[p].type = type
                 /\ FindAnyEca(ecas, type, index) = {p}
<1>1. DOMAIN ecas = 1 .. Len(ecas) /\ \A p \in DOMAIN ecas : ecas[p] \in Node
    BY LenProperties, ElementOfSeq
<1>2. \A p \in FindEca(ecas, type, index) :
          p \in DOMAIN ecas /\ ecas[p].type = type /\ ecas[p].active
    BY DEF FindEca, Nth, ActiveOfType, OfType
<1>3. \A p \in FindAnyEca(ecas, type, index) : p \in DOMAIN ecas /\ ecas[p].type = type
    BY DEF FindAnyEca, Nth, OfType
<1>4. /\ IsFiniteSet(OfType(ecas, type)) /\ OfType(ecas, type) \subseteq Nat
      /\ IsFiniteSet(ActiveOfType(ecas, type)) /\ ActiveOfType(ecas, type) \subseteq Nat
    BY OrderedFinite
<1>5. \A p \in FindEca(ecas, type, index) : FindEca(ecas, type, index) = {p}
    BY <1>4, NthSingle DEF FindEca
<1>6. \A p \in FindAnyEca(ecas, type, index) : FindAnyEca(ecas, type, index) = {p}
    BY <1>4, NthSingle DEF FindAnyEca
<1> QED  BY <1>1, <1>2, <1>3, <1>5, <1>6

-----------------------------------------------------------------------------
(***************************************************************************)
(* Types                                                                   *)
(***************************************************************************)

LEMMA CountType ==
    ASSUME NEW ecas \in Seq(Node), NEW type
    PROVE  CountEca(ecas, type) \in Nat
BY OrderedFinite, FS_CardinalityType DEF CountEca

LEMMA RemoveAtType ==
    ASSUME NEW ecas \in Seq(Node), NEW p \in 1 .. Len(ecas)
    PROVE  RemoveAt(ecas, p) \in Seq(Node)
<1>1. Len(ecas) \in Nat /\ \A i \in 1 .. Len(ecas) : ecas[i] \in Node
    BY LenProperties, ElementOfSeq
<1>2. SubSeq(ecas, 1, p - 1) \in Seq(Node)
    BY <1>1, SubSeqProperties
<1>3. SubSeq(ecas, p + 1, Len(ecas)) \in Seq(Node)
    BY <1>1, SubSeqProperties
<1>4. SubSeq(ecas, 1, p - 1) \o SubSeq(ecas, p + 1, Len(ecas)) \in Seq(Node)
    BY <1>2, <1>3, ConcatProperties
<1> QED  BY <1>4 DEF RemoveAt

LEMMA RemoveType ==
    ASSUME NEW trig \in TriggerRecord, NEW type, NEW index
    PROVE  RemoveEca(trig, type, index) \subseteq TriggerRecord
<1> SUFFICES ASSUME NEW p \in FindAnyEca(trig.ecas, type, index)
             PROVE  [trig EXCEPT !.ecas = RemoveAt(trig.ecas, p)] \in TriggerRecord
    BY DEF RemoveEca
<1>1. trig.ecas \in Seq(Node)
    BY DEF TriggerRecord
<1>2. p \in 1 .. Len(trig.ecas)
    BY <1>1, Found
<1>3. RemoveAt(trig.ecas, p) \in Seq(Node)
    BY <1>1, <1>2, RemoveAtType
<1> QED  BY <1>3 DEF TriggerRecord

\* Replacing a node in place keeps the length and the other nodes.
LEMMA ReplaceNode ==
    ASSUME NEW ecas \in Seq(Node), NEW p \in 1 .. Len(ecas), NEW node \in Node
    PROVE  /\ [ecas EXCEPT ![p] = node] \in Seq(Node)
           /\ Len([ecas EXCEPT ![p] = node]) = Len(ecas)
           /\ \A q \in 1 .. Len(ecas) :
                 [ecas EXCEPT ![p] = node][q] = IF q = p THEN node ELSE ecas[q]
BY ExceptSeq

LEMMA SetFuncType ==
    ASSUME NEW trig \in TriggerRecord, NEW type, NEW index, NEW name \in Text
    PROVE  SetEcaFuncName(trig, type, index, name) \subseteq TriggerRecord
<1> SUFFICES ASSUME NEW p \in FindEca(trig.ecas, type, index)
             PROVE  [trig EXCEPT !.ecas[p].func = name] \in TriggerRecord
    BY DEF SetEcaFuncName
<1>1. trig.ecas \in Seq(Node)
    BY DEF TriggerRecord
<1>2. p \in 1 .. Len(trig.ecas)
    BY <1>1, Found
<1>3. [trig.ecas[p] EXCEPT !.func = name] \in Node
    <2>1. trig.ecas[p] \in Node
        BY <1>1, <1>2, ElementOfSeq
    <2> QED  BY <2>1 DEF Node
<1>4. [trig.ecas EXCEPT ![p] = [trig.ecas[p] EXCEPT !.func = name]] \in Seq(Node)
    BY <1>1, <1>2, <1>3, ReplaceNode
<1> QED  BY <1>4 DEF TriggerRecord

LEMMA SetActiveType ==
    ASSUME NEW trig \in TriggerRecord, NEW type, NEW index, NEW active \in BOOLEAN
    PROVE  SetEcaActive(trig, type, index, active) \subseteq TriggerRecord
<1> SUFFICES ASSUME NEW p \in FindAnyEca(trig.ecas, type, index)
             PROVE  [trig EXCEPT !.ecas[p].active = active] \in TriggerRecord
    BY DEF SetEcaActive
<1>1. trig.ecas \in Seq(Node)
    BY DEF TriggerRecord
<1>2. p \in 1 .. Len(trig.ecas)
    BY <1>1, Found
<1>3. [trig.ecas[p] EXCEPT !.active = active] \in Node
    <2>1. trig.ecas[p] \in Node
        BY <1>1, <1>2, ElementOfSeq
    <2> QED  BY <2>1 DEF Node
<1>4. [trig.ecas EXCEPT ![p] = [trig.ecas[p] EXCEPT !.active = active]] \in Seq(Node)
    BY <1>1, <1>2, <1>3, ReplaceNode
<1> QED  BY <1>4 DEF TriggerRecord

LEMMA SetParamType ==
    ASSUME NEW trig \in TriggerRecord, NEW type, NEW index, NEW param \in Nat,
           NEW value \in Text
    PROVE  WriteParam(trig, type, index, param, value) \subseteq TriggerRecord
<1> SUFFICES ASSUME NEW p \in FindEca(trig.ecas, type, index), Writable(trig.ecas[p], param)
             PROVE  [trig EXCEPT !.ecas[p].params[param + 1].raw = value] \in TriggerRecord
    BY DEF WriteParam
<1>1. trig.ecas \in Seq(Node)
    BY DEF TriggerRecord
<1>2. p \in 1 .. Len(trig.ecas)
    BY <1>1, Found
<1> DEFINE node == trig.ecas[p]
           slot == node.params[param + 1]
           slots == [node.params EXCEPT ![param + 1] = [slot EXCEPT !.raw = value]]
<1>3. node \in Node /\ node.params \in Seq(Param)
    <2>1. node \in Node
        BY <1>1, <1>2, ElementOfSeq
    <2> QED  BY <2>1 DEF Node
<1>4. param + 1 \in 1 .. Len(node.params) /\ slot # NullParam
    BY <1>3, LenProperties DEF Writable
<1>5. slot \in Param
    BY <1>3, <1>4, ElementOfSeq
<1>6. slot \in ParamSlot
    BY <1>4, <1>5 DEF Param
<1>7. [slot EXCEPT !.raw = value] \in Param
    BY <1>6 DEF Param, ParamSlot
<1>8. slots \in Seq(Param)
    BY <1>3, <1>4, <1>7, ExceptSeq
<1>9. [node EXCEPT !.params = slots] \in Node
    BY <1>3, <1>8 DEF Node
<1>10. [trig.ecas EXCEPT ![p] = [node EXCEPT !.params = slots]] \in Seq(Node)
    BY <1>1, <1>2, <1>9, ReplaceNode
<1> QED  BY <1>10 DEF TriggerRecord

\* The clone template is a node of a captured trigger.
LEMMA TemplateNode ==
    ASSUME NEW recs \in Seq(TriggerRecord), NEW t, NEW type,
           NEW node \in TemplateNodes(recs, t, type)
    PROVE  /\ node \in Node
           /\ \E k \in 1 .. Len(recs) : \E p \in DOMAIN recs[k].ecas : node = recs[k].ecas[p]
           /\ node.type = type \/ (type = Action /\ node.func = CommentString)
<1>1. \A a \in Places(recs) : a[1] \in DOMAIN recs /\ a[2] \in DOMAIN recs[a[1]].ecas
    BY DEF Places
<1>2. PICK a : /\ a \in Places(recs) /\ node = At(recs, a)
               /\ node.type = type \/ (type = Action /\ node.func = CommentString)
    BY DEF TemplateNodes, SourceNodes, FirstNodes, TypePlaces, CommentPlaces
<1>3. a[1] \in 1 .. Len(recs) /\ a[2] \in DOMAIN recs[a[1]].ecas /\ node = recs[a[1]].ecas[a[2]]
    BY <1>1, <1>2, LenProperties DEF At
<1>4. node \in Node
    <2>1. recs[a[1]] \in TriggerRecord
        BY <1>3, ElementOfSeq
    <2> QED  BY <1>3, <2>1, LenProperties, ElementOfSeq DEF TriggerRecord
<1> QED  BY <1>2, <1>3, <1>4

LEMMA AddType ==
    ASSUME NEW recs \in Seq(TriggerRecord), NEW t \in 1 .. Len(recs), NEW type,
           NEW id \in Nat
    PROVE  AddEca(recs, t, type, id) \subseteq TriggerRecord
<1> SUFFICES ASSUME NEW node \in TemplateNodes(recs, t, type), Copied(node)
             PROVE  [recs[t] EXCEPT !.ecas =
                        Append(recs[t].ecas, [node EXCEPT !.id = id, !.active = TRUE])] \in TriggerRecord
    BY DEF AddEca
<1>1. recs[t] \in TriggerRecord
    BY ElementOfSeq
<1>2. [node EXCEPT !.id = id, !.active = TRUE] \in Node
    <2>1. node \in Node
        BY TemplateNode
    <2> QED  BY <2>1 DEF Node
<1>3. Append(recs[t].ecas, [node EXCEPT !.id = id, !.active = TRUE]) \in Seq(Node)
    BY <1>1, <1>2, AppendProperties DEF TriggerRecord
<1> QED  BY <1>1, <1>3 DEF TriggerRecord

-----------------------------------------------------------------------------
(***************************************************************************)
(* Undoing                                                                 *)
(***************************************************************************)

\* What the three node setters do to a record.
Replace(trig, p, node) == [trig EXCEPT !.ecas = [trig.ecas EXCEPT ![p] = node]]

LEMMA ReplaceType ==
    ASSUME NEW trig \in TriggerRecord, NEW p \in 1 .. Len(trig.ecas), NEW node \in Node
    PROVE  /\ Replace(trig, p, node) \in TriggerRecord
           /\ Replace(trig, p, node).ecas \in Seq(Node)
           /\ DOMAIN Replace(trig, p, node).ecas = DOMAIN trig.ecas
           /\ DOMAIN trig.ecas = 1 .. Len(trig.ecas)
           /\ \A q \in DOMAIN trig.ecas :
                 Replace(trig, p, node).ecas[q] = IF q = p THEN node ELSE trig.ecas[q]
<1>1. trig.ecas \in Seq(Node)
    BY DEF TriggerRecord
<1>2. Replace(trig, p, node).ecas = [trig.ecas EXCEPT ![p] = node]
    BY DEF Replace, TriggerRecord
<1>3. /\ Replace(trig, p, node).ecas \in Seq(Node)
      /\ Len(Replace(trig, p, node).ecas) = Len(trig.ecas)
      /\ \A q \in 1 .. Len(trig.ecas) :
            Replace(trig, p, node).ecas[q] = IF q = p THEN node ELSE trig.ecas[q]
    BY <1>1, <1>2, ReplaceNode
<1>4. DOMAIN Replace(trig, p, node).ecas = 1 .. Len(trig.ecas) /\ DOMAIN trig.ecas = 1 .. Len(trig.ecas)
    BY <1>1, <1>3, LenProperties
<1>5. Replace(trig, p, node) \in TriggerRecord
    BY <1>2, <1>3 DEF Replace, TriggerRecord
<1> QED  BY <1>3, <1>4, <1>5

\* Putting a node back where it was replaced restores the record.
LEMMA PutBack ==
    ASSUME NEW trig \in TriggerRecord, NEW p \in 1 .. Len(trig.ecas), NEW node \in Node
    PROVE  Replace(Replace(trig, p, node), p, trig.ecas[p]) = trig
<1> DEFINE after == Replace(trig, p, node)
           back == [after.ecas EXCEPT ![p] = trig.ecas[p]]
<1>1. trig.ecas \in Seq(Node) /\ trig.ecas[p] \in Node
    BY ElementOfSeq DEF TriggerRecord
<1>2. /\ after \in TriggerRecord
      /\ after.ecas \in Seq(Node)
      /\ DOMAIN after.ecas = DOMAIN trig.ecas
      /\ \A q \in DOMAIN trig.ecas : after.ecas[q] = IF q = p THEN node ELSE trig.ecas[q]
    BY ReplaceType
<1>3. DOMAIN back = DOMAIN trig.ecas /\ \A q \in DOMAIN trig.ecas : back[q] = trig.ecas[q]
    <2> HIDE DEF after
    <2> QED  BY <1>1, <1>2
<1>4. back = trig.ecas
    <2>1. back \in [DOMAIN trig.ecas -> Node] /\ trig.ecas \in [DOMAIN trig.ecas -> Node]
        <3>1. trig.ecas \in [1 .. Len(trig.ecas) -> Node] /\ DOMAIN trig.ecas = 1 .. Len(trig.ecas)
            BY <1>1, LenProperties
        <3>2. after.ecas \in [DOMAIN trig.ecas -> Node]
            BY <1>2, LenProperties
        <3> HIDE DEF after
        <3> QED  BY <1>1, <3>1, <3>2
    <2> HIDE DEF back
    <2> QED  BY <1>3, <2>1
<1>5. Replace(after, p, trig.ecas[p]) = [after EXCEPT !.ecas = trig.ecas]
    BY <1>4 DEF Replace
<1>6. [after EXCEPT !.ecas = trig.ecas] = trig
    BY <1>1 DEF Replace, TriggerRecord
<1> QED  BY <1>5, <1>6

\* A lookup depends only on the types and the active marks of the nodes, and a
\* lookup that counts inactive nodes too on the types only.
LEMMA FindAnyAfterReplace ==
    ASSUME NEW trig \in TriggerRecord, NEW type, NEW index,
           NEW p \in DOMAIN trig.ecas, NEW node \in Node, node.type = trig.ecas[p].type
    PROVE  FindAnyEca(Replace(trig, p, node).ecas, type, index) = FindAnyEca(trig.ecas, type, index)
<1> DEFINE other == Replace(trig, p, node).ecas
<1>1. trig.ecas \in Seq(Node) /\ p \in 1 .. Len(trig.ecas)
    BY LenProperties DEF TriggerRecord
<1>2. /\ DOMAIN other = DOMAIN trig.ecas
      /\ \A q \in DOMAIN trig.ecas : other[q] = IF q = p THEN node ELSE trig.ecas[q]
    BY <1>1, ReplaceType
<1> HIDE DEF other
<1>3. OfType(other, type) = OfType(trig.ecas, type)
    BY <1>2 DEF OfType
<1>4. FindAnyEca(other, type, index) = FindAnyEca(trig.ecas, type, index)
    BY <1>3 DEF FindAnyEca
<1> QED  BY <1>4 DEF other

SameMarks(node, old) == node.type = old.type /\ node.active = old.active

LEMMA FindAfterReplace ==
    ASSUME NEW trig \in TriggerRecord, NEW type, NEW index,
           NEW p \in DOMAIN trig.ecas, NEW node \in Node, SameMarks(node, trig.ecas[p])
    PROVE  FindEca(Replace(trig, p, node).ecas, type, index) = FindEca(trig.ecas, type, index)
<1> DEFINE other == Replace(trig, p, node).ecas
<1>1. trig.ecas \in Seq(Node) /\ p \in 1 .. Len(trig.ecas)
    BY LenProperties DEF TriggerRecord
<1>2. /\ DOMAIN other = DOMAIN trig.ecas
      /\ \A q \in DOMAIN trig.ecas : other[q] = IF q = p THEN node ELSE trig.ecas[q]
    BY <1>1, ReplaceType
<1> HIDE DEF other
<1>3. ActiveOfType(other, type) = ActiveOfType(trig.ecas, type)
    BY <1>2 DEF ActiveOfType, OfType, SameMarks
<1>4. FindEca(other, type, index) = FindEca(trig.ecas, type, index)
    BY <1>3 DEF FindEca
<1> QED  BY <1>4 DEF other

\* A function name written over a non-empty one is undone by the name read
\* before, and reads back as written.
LEMMA UndoSetFunc ==
    ASSUME NEW trig \in TriggerRecord, NEW type, NEW index, NEW name \in Text,
           NEW after \in SetEcaFuncName(trig, type, index, name),
           Readable(trig)
    PROVE  /\ EcaFuncName(trig, type, index) \in Text
           /\ SetEcaFuncName(after, type, index, EcaFuncName(trig, type, index)) = {trig}
           /\ EcaFuncName(after, type, index) = ToStr(name)
<1>1. PICK p, node :
              /\ p \in FindEca(trig.ecas, type, index)
              /\ node = [trig.ecas[p] EXCEPT !.func = name]
              /\ after = Replace(trig, p, node)
    BY DEF SetEcaFuncName, Replace
<1>2. /\ trig.ecas \in Seq(Node) /\ p \in 1 .. Len(trig.ecas)
      /\ p \in DOMAIN trig.ecas /\ trig.ecas[p] \in Node
      /\ FindEca(trig.ecas, type, index) = {p}
    BY <1>1, Found DEF TriggerRecord
<1>3. node \in Node /\ node.func = name /\ SameMarks(node, trig.ecas[p])
    BY <1>1, <1>2 DEF Node, SameMarks
<1>4. /\ FindEca(after.ecas, type, index) = {p}
      /\ after.ecas[p] = node
      /\ Replace(after, p, trig.ecas[p]) = trig
    <2>1. FindEca(Replace(trig, p, node).ecas, type, index) = FindEca(trig.ecas, type, index)
        <3>1. trig \in TriggerRecord /\ p \in DOMAIN trig.ecas /\ node \in Node /\ SameMarks(node, trig.ecas[p])
            BY <1>2, <1>3
        <3> QED  BY <3>1, FindAfterReplace, Zenon
    <2>2. Replace(trig, p, node).ecas[p] = node
        BY <1>2, <1>3, ReplaceType
    <2>3. Replace(Replace(trig, p, node), p, trig.ecas[p]) = trig
        BY <1>2, <1>3, PutBack
    <2> QED  BY <1>1, <1>2, <2>1, <2>2, <2>3
<1>5. EcaFuncName(trig, type, index) = trig.ecas[p].func /\ trig.ecas[p].func \in Text
    BY <1>2 DEF EcaFuncName, ToStr, Node, Readable, ReadableNode
<1>6. [after.ecas[p] EXCEPT !.func = trig.ecas[p].func] = trig.ecas[p]
    BY <1>1, <1>2, <1>4 DEF Node
<1>7. SetEcaFuncName(after, type, index, trig.ecas[p].func) =
          {Replace(after, p, [after.ecas[p] EXCEPT !.func = trig.ecas[p].func])}
    BY <1>4 DEF SetEcaFuncName, Replace
<1>8. EcaFuncName(after, type, index) = ToStr(name)
    BY <1>3, <1>4 DEF EcaFuncName
<1> QED  BY <1>4, <1>5, <1>6, <1>7, <1>8

\* An active mark is undone by the mark read before: the read and the write
\* count the nodes in the same way.
LEMMA UndoSetActive ==
    ASSUME NEW trig \in TriggerRecord, NEW type, NEW index, NEW active \in BOOLEAN,
           NEW after \in SetEcaActive(trig, type, index, active)
    PROVE  /\ EcaActive(trig, type, index) \in BOOLEAN
           /\ SetEcaActive(after, type, index, EcaActive(trig, type, index)) = {trig}
           /\ EcaActive(after, type, index) = active
<1>1. PICK p, node :
              /\ p \in FindAnyEca(trig.ecas, type, index)
              /\ node = [trig.ecas[p] EXCEPT !.active = active]
              /\ after = Replace(trig, p, node)
    BY DEF SetEcaActive, Replace
<1>2. /\ trig.ecas \in Seq(Node) /\ p \in 1 .. Len(trig.ecas)
      /\ p \in DOMAIN trig.ecas /\ trig.ecas[p] \in Node
      /\ FindAnyEca(trig.ecas, type, index) = {p}
    BY <1>1, Found DEF TriggerRecord
<1>3. node \in Node /\ node.active = active /\ node.type = trig.ecas[p].type
    BY <1>1, <1>2 DEF Node
<1>4. /\ FindAnyEca(after.ecas, type, index) = {p}
      /\ after.ecas[p] = node
      /\ Replace(after, p, trig.ecas[p]) = trig
    <2>1. FindAnyEca(Replace(trig, p, node).ecas, type, index) = FindAnyEca(trig.ecas, type, index)
        <3>1. trig \in TriggerRecord /\ p \in DOMAIN trig.ecas /\ node \in Node /\ node.type = trig.ecas[p].type
            BY <1>2, <1>3
        <3> QED  BY <3>1, FindAnyAfterReplace, Zenon
    <2>2. Replace(trig, p, node).ecas[p] = node
        BY <1>2, <1>3, ReplaceType
    <2>3. Replace(Replace(trig, p, node), p, trig.ecas[p]) = trig
        BY <1>2, <1>3, PutBack
    <2> QED  BY <1>1, <1>2, <2>1, <2>2, <2>3
<1>5. EcaActive(trig, type, index) = trig.ecas[p].active /\ trig.ecas[p].active \in BOOLEAN
    BY <1>2 DEF EcaActive, Node
<1>6. [after.ecas[p] EXCEPT !.active = trig.ecas[p].active] = trig.ecas[p]
    BY <1>1, <1>2, <1>4 DEF Node
<1>7. SetEcaActive(after, type, index, trig.ecas[p].active) =
          {Replace(after, p, [after.ecas[p] EXCEPT !.active = trig.ecas[p].active])}
    BY <1>4 DEF SetEcaActive, Replace
<1>8. EcaActive(after, type, index) = active
    BY <1>3, <1>4 DEF EcaActive
<1> QED  BY <1>4, <1>5, <1>6, <1>7, <1>8

\* A parameter text is undone by the text read before when the slot holds a
\* non-empty text under no reference, and reads back as written.
LEMMA UndoSetParam ==
    ASSUME NEW trig \in TriggerRecord, NEW type, NEW index, NEW param \in Nat,
           NEW value \in Name,
           NEW after \in WriteParam(trig, type, index, param, value),
           Readable(trig)
    PROVE  /\ EcaParamValue(trig, type, index, param) \in Name
           /\ WriteParam(after, type, index, param,
                               EcaParamValue(trig, type, index, param)) = {trig}
           /\ EcaParamValue(after, type, index, param) = value
<1>1. PICK p, old, slot, new, slots, node :
          /\ p \in FindEca(trig.ecas, type, index)
          /\ Writable(old, param)
          /\ old = trig.ecas[p]
          /\ slot = old.params[param + 1]
          /\ new = [slot EXCEPT !.raw = value]
          /\ slots = [old.params EXCEPT ![param + 1] = new]
          /\ node = [old EXCEPT !.params = slots]
          /\ after = Replace(trig, p, node)
    <2>1. PICK p \in FindEca(trig.ecas, type, index) :
              /\ Writable(trig.ecas[p], param)
              /\ after = [trig EXCEPT !.ecas[p].params[param + 1].raw = value]
        BY DEF WriteParam
    <2> QED  BY <2>1 DEF Replace
<1>2. /\ trig.ecas \in Seq(Node) /\ p \in 1 .. Len(trig.ecas)
      /\ p \in DOMAIN trig.ecas /\ old \in Node
      /\ FindEca(trig.ecas, type, index) = {p}
    BY <1>1, Found DEF TriggerRecord
<1>3. old.params \in Seq(Param) /\ DOMAIN old.params = 1 .. Len(old.params) /\ Len(old.params) \in Nat
    BY <1>2, LenProperties DEF Node
<1>4. param + 1 \in DOMAIN old.params /\ param < Len(old.params)
    BY <1>1, <1>3 DEF Writable
<1>5. slot \in [ref : {NoText}, raw : Name]
    BY <1>1, <1>2, <1>4 DEF Readable, ReadableNode, ReadableSlot
<1>6. /\ slot.ref = NoText /\ slot.raw # NoText /\ slot.raw \in Name /\ slot # NullParam
      /\ new.ref = NoText /\ new.raw = value /\ new # NullParam /\ new \in Param
      /\ [new EXCEPT !.raw = slot.raw] = slot
    <2>1. NoText \in Text
        BY TextAssumption
    <2>2. DOMAIN slot = {"ref", "raw"} /\ DOMAIN new = {"ref", "raw"} /\ DOMAIN NullParam = {"null"}
        BY <1>1, <1>5 DEF NullParam
    <2>3. slot # NullParam /\ new # NullParam
        BY <2>2
    <2> QED  BY <1>1, <1>5, <2>1, <2>3 DEF Param, ParamSlot, Name
<1>7. /\ slots \in Seq(Param) /\ Len(slots) = Len(old.params)
      /\ slots[param + 1] = new
      /\ [slots EXCEPT ![param + 1] = slot] = old.params
    <2>1. /\ slots \in Seq(Param) /\ Len(slots) = Len(old.params)
          /\ \A i \in 1 .. Len(old.params) :
                slots[i] = IF i = param + 1 THEN new ELSE old.params[i]
        <3>1. param + 1 \in 1 .. Len(old.params) /\ new \in Param
            BY <1>3, <1>4, <1>6
        <3>2. /\ [old.params EXCEPT ![param + 1] = new] \in Seq(Param)
              /\ Len([old.params EXCEPT ![param + 1] = new]) = Len(old.params)
              /\ \A i \in 1 .. Len(old.params) :
                    [old.params EXCEPT ![param + 1] = new][i] =
                        IF i = param + 1 THEN new ELSE old.params[i]
            BY <1>3, <3>1, ExceptSeq
        <3> QED  BY <1>1, <3>2
    <2>2. PICK back : back = [slots EXCEPT ![param + 1] = slot]
        OBVIOUS
    <2>3. slot \in Param
        BY <1>1, <1>3, <1>4, ElementOfSeq
    <2>4. /\ back \in Seq(Param) /\ Len(back) = Len(old.params)
          /\ \A i \in 1 .. Len(old.params) : back[i] = IF i = param + 1 THEN slot ELSE slots[i]
        BY <1>3, <1>4, <2>1, <2>2, <2>3, ExceptSeq
    <2>5. \A i \in 1 .. Len(old.params) : back[i] = old.params[i]
        BY <1>1, <2>1, <2>4
    <2>6. back = old.params
        BY <1>3, <2>4, <2>5, SeqEqual
    <2> QED  BY <1>3, <1>4, <2>1, <2>2, <2>6
<1>8. /\ node \in Node /\ node.params = slots /\ SameMarks(node, old)
      /\ [node EXCEPT !.params = old.params] = old
    BY <1>1, <1>2, <1>7 DEF Node, SameMarks
<1>9. /\ FindEca(after.ecas, type, index) = {p}
      /\ after.ecas[p] = node
      /\ Replace(after, p, old) = trig
    <2>1. FindEca(Replace(trig, p, node).ecas, type, index) = FindEca(trig.ecas, type, index)
        <3>1. trig \in TriggerRecord /\ p \in DOMAIN trig.ecas /\ node \in Node /\ SameMarks(node, trig.ecas[p])
            BY <1>1, <1>2, <1>8
        <3> QED  BY <3>1, FindAfterReplace, Zenon
    <2>2. Replace(trig, p, node).ecas[p] = node
        BY <1>2, <1>8, ReplaceType
    <2>3. Replace(Replace(trig, p, node), p, trig.ecas[p]) = trig
        BY <1>2, <1>8, PutBack
    <2> QED  BY <1>1, <1>2, <2>1, <2>2, <2>3
<1>10. EcaParamValue(trig, type, index, param) = slot.raw
    <2>1. ReadSlot(slot) = slot.raw
        BY <1>6 DEF ReadSlot
    <2> QED  BY <1>1, <1>2, <1>3, <1>4, <2>1 DEF EcaParamValue
<1>11. EcaParamValue(after, type, index, param) = value
    <2>1. ReadSlot(new) = value
        BY <1>6 DEF ReadSlot, Name
    <2> QED  BY <1>3, <1>4, <1>7, <1>8, <1>9, <2>1 DEF EcaParamValue
<1>12. WriteParam(after, type, index, param, slot.raw) = {trig}
    <2>1. Writable(after.ecas[p], param)
        BY <1>4, <1>6, <1>7, <1>8, <1>9 DEF Writable
    <2>2. WriteParam(after, type, index, param, slot.raw) =
              {[after EXCEPT !.ecas[p].params[param + 1].raw = slot.raw]}
        <3>1. {q \in FindEca(after.ecas, type, index) : Writable(after.ecas[q], param)} = {p}
            BY <1>9, <2>1
        <3> QED  BY <3>1 DEF WriteParam
    <2>3. [after EXCEPT !.ecas[p].params[param + 1].raw = slot.raw] =
              Replace(after, p, [node EXCEPT !.params =
                  [slots EXCEPT ![param + 1] = [new EXCEPT !.raw = slot.raw]]])
        BY <1>7, <1>8, <1>9 DEF Replace
    <2>4. [node EXCEPT !.params = [slots EXCEPT ![param + 1] = [new EXCEPT !.raw = slot.raw]]] = old
        BY <1>6, <1>7, <1>8
    <2> QED  BY <1>9, <2>2, <2>3, <2>4
<1> QED  BY <1>6, <1>10, <1>11, <1>12

LEMMA UndoSetName ==
    ASSUME NEW trig \in TriggerRecord, NEW name \in Text \ {NoText}, Readable(trig),
           NEW after \in SetTriggerName(trig, name)
    PROVE  /\ SetTriggerName(after, ToStr(trig.name)) = {trig}
           /\ ToStr(after.name) = name
           /\ after.ecas = trig.ecas /\ after.name = name
<1>1. trig.name \in Text /\ trig.name # NoText /\ trig.name # Nil /\ name # Nil
    BY TextAssumption DEF TriggerRecord, Readable
<1>2. after = [trig EXCEPT !.name = name]
    BY <1>1 DEF SetTriggerName
<1>3. [after EXCEPT !.name = trig.name] = trig
    BY <1>2 DEF TriggerRecord
<1> QED  BY <1>1, <1>2, <1>3 DEF SetTriggerName, ToStr, TriggerRecord

LEMMA UndoSetDisabled ==
    ASSUME NEW trig \in TriggerRecord, NEW disabled \in BOOLEAN,
           NEW after \in SetTriggerDisabled(trig, disabled)
    PROVE  /\ SetTriggerDisabled(after, trig.disabled) = {trig}
           /\ after.disabled = disabled
           /\ after.ecas = trig.ecas /\ after.name = trig.name
<1>1. after = [trig EXCEPT !.disabled = disabled]
    BY DEF SetTriggerDisabled
<1>2. [after EXCEPT !.disabled = trig.disabled] = trig
    BY <1>1 DEF TriggerRecord
<1> QED  BY <1>1, <1>2 DEF SetTriggerDisabled, TriggerRecord

-----------------------------------------------------------------------------
(***************************************************************************)
(* An addition and its removal                                             *)
(***************************************************************************)

Added(trig, node) == [trig EXCEPT !.ecas = Append(trig.ecas, node)]

LEMMA AddedType ==
    ASSUME NEW trig \in TriggerRecord, NEW node \in Node
    PROVE  /\ trig.ecas \in Seq(Node)
           /\ Len(trig.ecas) \in Nat /\ DOMAIN trig.ecas = 1 .. Len(trig.ecas)
           /\ Added(trig, node) \in TriggerRecord
           /\ Added(trig, node).ecas \in Seq(Node)
           /\ Added(trig, node).ecas = Append(trig.ecas, node)
           /\ Len(Added(trig, node).ecas) = Len(trig.ecas) + 1
           /\ DOMAIN Added(trig, node).ecas = 1 .. Len(trig.ecas) + 1
           /\ Added(trig, node).ecas[Len(trig.ecas) + 1] = node
           /\ \A q \in 1 .. Len(trig.ecas) : Added(trig, node).ecas[q] = trig.ecas[q]
<1>1. trig.ecas \in Seq(Node)
    BY DEF TriggerRecord
<1>2. Len(trig.ecas) \in Nat /\ DOMAIN trig.ecas = 1 .. Len(trig.ecas)
    BY <1>1, LenProperties
<1>3. /\ Append(trig.ecas, node) \in Seq(Node)
      /\ Len(Append(trig.ecas, node)) = Len(trig.ecas) + 1
      /\ Append(trig.ecas, node)[Len(trig.ecas) + 1] = node
      /\ \A q \in 1 .. Len(trig.ecas) : Append(trig.ecas, node)[q] = trig.ecas[q]
    BY <1>1, AppendProperties
<1>4. Added(trig, node).ecas = Append(trig.ecas, node)
    BY DEF Added, TriggerRecord
<1>5. Added(trig, node) \in TriggerRecord
    BY <1>3 DEF Added, TriggerRecord
<1>6. DOMAIN Append(trig.ecas, node) = 1 .. Len(trig.ecas) + 1
    BY <1>3, LenProperties
<1> QED  BY <1>1, <1>2, <1>3, <1>4, <1>5, <1>6

\* When every node is active the count taken before an addition is the ordinal
\* of the added node in both ways of counting (YDAgentServerWorker.lua, lines
\* 2345-2352 and 2419-2433, use it for all three calls).
LEMMA AddedOrdinal ==
    ASSUME NEW trig \in TriggerRecord, NEW node \in Node, NEW type,
           AllActive(trig), node.type = type, node.active
    PROVE  /\ FindAnyEca(Added(trig, node).ecas, type, CountEca(trig.ecas, type)) = {Len(trig.ecas) + 1}
           /\ FindEca(Added(trig, node).ecas, type, CountEca(trig.ecas, type)) = {Len(trig.ecas) + 1}
           /\ CountEca(Added(trig, node).ecas, type) = CountEca(trig.ecas, type) + 1
<1> PICK ecas, old, new, len : /\ ecas = Added(trig, node).ecas
                               /\ old = OfType(trig.ecas, type)
                               /\ new = OfType(ecas, type)
                               /\ len = Len(trig.ecas)
    OBVIOUS
<1>1. /\ ecas \in Seq(Node) /\ trig.ecas \in Seq(Node) /\ len \in Nat
      /\ DOMAIN trig.ecas = 1 .. len /\ DOMAIN ecas = 1 .. len + 1 /\ ecas[len + 1] = node
      /\ \A q \in 1 .. len : ecas[q] = trig.ecas[q]
    BY AddedType
<1>2. new = old \cup {len + 1} /\ len + 1 \notin old
    BY <1>1 DEF OfType
<1>3. ActiveOfType(trig.ecas, type) = old
    BY <1>1 DEF ActiveOfType, OfType, AllActive
<1>4. ActiveOfType(ecas, type) = new
    BY <1>1, <1>2 DEF ActiveOfType, OfType, AllActive
<1>5. old \subseteq 1 .. len /\ IsFiniteSet(old) /\ IsFiniteSet(new) /\ new \subseteq Nat
    BY <1>1, OrderedFinite
<1>6. {q \in new : q < len + 1} = old
    BY <1>1, <1>2, <1>5
<1>7. len + 1 \in Nth(new, Cardinality(old))
    BY <1>2, <1>6 DEF Nth
<1>8. Nth(new, Cardinality(old)) = {len + 1}
    BY <1>5, <1>7, NthSingle
<1>9. Cardinality(new) = Cardinality(old) + 1
    BY <1>2, <1>5, FS_AddElement
<1> QED  BY <1>3, <1>4, <1>8, <1>9 DEF FindAnyEca, FindEca, CountEca

LEMMA UndoAdd ==
    ASSUME NEW trig \in TriggerRecord, NEW node \in Node, NEW type,
           AllActive(trig), node.type = type, node.active
    PROVE  RemoveEca(Added(trig, node), type, CountEca(trig.ecas, type)) = {trig}
<1> PICK after, len : after = Added(trig, node) /\ len = Len(trig.ecas)
    OBVIOUS
<1>1. /\ after.ecas = Append(trig.ecas, node) /\ trig.ecas \in Seq(Node) /\ len \in Nat
      /\ after.ecas \in Seq(Node) /\ Len(after.ecas) = len + 1
      /\ \A q \in 1 .. len : after.ecas[q] = trig.ecas[q]
    BY AddedType
<1>2. RemoveEca(after, type, CountEca(trig.ecas, type)) =
          {[after EXCEPT !.ecas = RemoveAt(after.ecas, len + 1)]}
    <2>1. FindAnyEca(after.ecas, type, CountEca(trig.ecas, type)) = {len + 1}
        BY AddedOrdinal
    <2> QED  BY <2>1 DEF RemoveEca
<1>3. RemoveAt(after.ecas, len + 1) = trig.ecas
    <2>1. RemoveAt(after.ecas, len + 1) = SubSeq(after.ecas, 1, len) \o SubSeq(after.ecas, len + 2, len + 1)
        <3>1. (len + 1) - 1 = len /\ (len + 1) + 1 = len + 2
            BY <1>1
        <3> QED  BY <1>1, <3>1 DEF RemoveAt
    <2>2. SubSeq(after.ecas, len + 2, len + 1) = << >>
        BY <1>1, SubSeqEmpty
    <2>3. SubSeq(after.ecas, 1, len) = trig.ecas
        <3>1. \A i \in 1 .. len : after.ecas[i] \in Node
            BY <1>1, ElementOfSeq
        <3>2. /\ SubSeq(after.ecas, 1, len) \in Seq(Node)
              /\ Len(SubSeq(after.ecas, 1, len)) = len
              /\ \A i \in 1 .. len : SubSeq(after.ecas, 1, len)[i] = trig.ecas[i]
            BY <1>1, <3>1, SubSeqProperties
        <3> QED  BY <1>1, <3>2, SeqEqual
    <2> QED  BY <1>1, <2>1, <2>2, <2>3, ConcatEmptySeq
<1>4. [after EXCEPT !.ecas = trig.ecas] = trig
    BY DEF Added, TriggerRecord
<1> QED  BY <1>2, <1>3, <1>4

\* The function name of the added node is set on the added node.
LEMMA NameAdded ==
    ASSUME NEW trig \in TriggerRecord, NEW node \in Node, NEW type, NEW name \in Text,
           AllActive(trig), node.type = type, node.active
    PROVE  SetEcaFuncName(Added(trig, node), type, CountEca(trig.ecas, type), name) =
               {Added(trig, [node EXCEPT !.func = name])}
<1> PICK after, len : after = Added(trig, node) /\ len = Len(trig.ecas)
    OBVIOUS
<1>1. /\ after.ecas = Append(trig.ecas, node) /\ trig.ecas \in Seq(Node) /\ len \in Nat
      /\ after.ecas[len + 1] = node
    BY AddedType
<1>2. SetEcaFuncName(after, type, CountEca(trig.ecas, type), name) =
          {[after EXCEPT !.ecas[len + 1].func = name]}
    <2>1. FindEca(after.ecas, type, CountEca(trig.ecas, type)) = {len + 1}
        BY AddedOrdinal
    <2> QED  BY <2>1 DEF SetEcaFuncName
<1>3. [after.ecas EXCEPT ![len + 1].func = name] = Append(trig.ecas, [node EXCEPT !.func = name])
    <2>1. PICK named, left, right : /\ named = [node EXCEPT !.func = name]
                                    /\ left = [after.ecas EXCEPT ![len + 1] = named]
                                    /\ right = Append(trig.ecas, named)
        OBVIOUS
    <2>2. named \in Node
        BY <2>1 DEF Node
    <2>3. after.ecas \in Seq(Node) /\ Len(after.ecas) = len + 1
        BY AddedType
    <2>4. /\ [after.ecas EXCEPT ![len + 1] = named] \in Seq(Node)
          /\ Len([after.ecas EXCEPT ![len + 1] = named]) = len + 1
          /\ \A q \in 1 .. len + 1 :
                [after.ecas EXCEPT ![len + 1] = named][q] = IF q = len + 1 THEN named ELSE after.ecas[q]
        <3>1. PICK ecas, p : ecas = after.ecas /\ p = len + 1
            OBVIOUS
        <3>2. ecas \in Seq(Node) /\ p \in 1 .. Len(ecas)
            BY <1>1, <2>3, <3>1
        <3> QED  BY <2>2, <2>3, <3>1, <3>2, ReplaceNode
    <2>5. /\ right \in Seq(Node) /\ Len(right) = len + 1 /\ right[len + 1] = named
          /\ \A q \in 1 .. len : right[q] = trig.ecas[q]
        BY <1>1, <2>1, <2>2, AppendProperties
    <2>6. \A q \in 1 .. len + 1 : left[q] = right[q]
        BY <1>1, <2>1, <2>4, <2>5, AppendProperties
    <2>7. left = right
        BY <2>1, <2>4, <2>5, <2>6, SeqEqual
    <2> QED  BY <1>1, <2>1, <2>7
<1>4. [after EXCEPT !.ecas[len + 1].func = name] =
          [after EXCEPT !.ecas = [after.ecas EXCEPT ![len + 1].func = name]]
    OBVIOUS
<1>5. [after EXCEPT !.ecas = Append(trig.ecas, [node EXCEPT !.func = name])] =
          Added(trig, [node EXCEPT !.func = name])
    BY DEF Added, TriggerRecord
<1> QED  BY <1>2, <1>3, <1>4, <1>5

-----------------------------------------------------------------------------
(***************************************************************************)
(* Writes of non-empty texts keep a record readable                        *)
(***************************************************************************)

LEMMA ReplaceReadable ==
    ASSUME NEW trig \in TriggerRecord, NEW p \in DOMAIN trig.ecas, NEW node \in Node,
           Readable(trig), ReadableNode(node)
    PROVE  /\ Replace(trig, p, node) \in TriggerRecord
           /\ Readable(Replace(trig, p, node))
           /\ AllActive(trig) /\ node.active => AllActive(Replace(trig, p, node))
<1>1. trig.ecas \in Seq(Node) /\ p \in 1 .. Len(trig.ecas)
    BY LenProperties DEF TriggerRecord
<1>2. /\ Replace(trig, p, node) \in TriggerRecord
      /\ DOMAIN Replace(trig, p, node).ecas = DOMAIN trig.ecas
      /\ \A q \in DOMAIN trig.ecas :
            Replace(trig, p, node).ecas[q] = IF q = p THEN node ELSE trig.ecas[q]
    BY <1>1, ReplaceType
<1>3. Replace(trig, p, node).name = trig.name
    BY DEF Replace, TriggerRecord
<1>4. Readable(Replace(trig, p, node))
    BY <1>2, <1>3 DEF Readable
<1>5. ASSUME AllActive(trig), node.active
      PROVE  AllActive(Replace(trig, p, node))
    BY <1>2, <1>5 DEF AllActive
<1> QED  BY <1>2, <1>4, <1>5

LEMMA SetFuncReadable ==
    ASSUME NEW trig \in TriggerRecord, NEW type, NEW index, NEW name \in Text \ {NoText},
           Readable(trig), name = CommentString => type = Action,
           NEW after \in SetEcaFuncName(trig, type, index, name)
    PROVE  Readable(after) /\ (AllActive(trig) => AllActive(after))
<1>1. PICK p, node :
              /\ p \in FindEca(trig.ecas, type, index)
              /\ node = [trig.ecas[p] EXCEPT !.func = name]
              /\ after = Replace(trig, p, node)
    BY DEF SetEcaFuncName, Replace
<1>2. /\ p \in DOMAIN trig.ecas /\ trig.ecas[p] \in Node
      /\ trig.ecas[p].type = type /\ trig.ecas[p].active
    BY <1>1, Found DEF TriggerRecord
<1>3. /\ node \in Node /\ node.func = name /\ node.active /\ node.type = type
      /\ node.params = trig.ecas[p].params
    BY <1>1, <1>2 DEF Node
<1>4. ReadableNode(node)
    BY <1>2, <1>3 DEF Readable, ReadableNode
<1> QED  BY <1>1, <1>2, <1>3, <1>4, ReplaceReadable

LEMMA SetActiveReadable ==
    ASSUME NEW trig \in TriggerRecord, NEW type, NEW index, NEW active \in BOOLEAN,
           Readable(trig), NEW after \in SetEcaActive(trig, type, index, active)
    PROVE  Readable(after) /\ (AllActive(trig) /\ active => AllActive(after))
<1>1. PICK p, node :
              /\ p \in FindAnyEca(trig.ecas, type, index)
              /\ node = [trig.ecas[p] EXCEPT !.active = active]
              /\ after = Replace(trig, p, node)
    BY DEF SetEcaActive, Replace
<1>2. p \in DOMAIN trig.ecas /\ trig.ecas[p] \in Node
    BY <1>1, Found DEF TriggerRecord
<1>3. /\ node \in Node /\ node.func = trig.ecas[p].func /\ node.active = active
      /\ node.type = trig.ecas[p].type /\ node.params = trig.ecas[p].params
    BY <1>1, <1>2 DEF Node
<1>4. ReadableNode(node)
    BY <1>2, <1>3 DEF Readable, ReadableNode
<1> QED  BY <1>1, <1>2, <1>3, <1>4, ReplaceReadable

LEMMA SetParamReadable ==
    ASSUME NEW trig \in TriggerRecord, NEW type, NEW index, NEW param \in Nat,
           NEW value \in Name, Readable(trig),
           NEW after \in WriteParam(trig, type, index, param, value)
    PROVE  Readable(after) /\ (AllActive(trig) => AllActive(after))
<1>1. PICK p, old, slot, new, slots, node :
          /\ p \in FindEca(trig.ecas, type, index)
          /\ Writable(old, param)
          /\ old = trig.ecas[p]
          /\ slot = old.params[param + 1]
          /\ new = [slot EXCEPT !.raw = value]
          /\ slots = [old.params EXCEPT ![param + 1] = new]
          /\ node = [old EXCEPT !.params = slots]
          /\ after = Replace(trig, p, node)
    <2>1. PICK p \in FindEca(trig.ecas, type, index) :
              /\ Writable(trig.ecas[p], param)
              /\ after = [trig EXCEPT !.ecas[p].params[param + 1].raw = value]
        BY DEF WriteParam
    <2> QED  BY <2>1 DEF Replace
<1>2. p \in DOMAIN trig.ecas /\ old \in Node /\ old.active /\ ReadableNode(old)
    BY <1>1, Found DEF TriggerRecord, Readable
<1>3. old.params \in Seq(Param) /\ DOMAIN old.params = 1 .. Len(old.params) /\ Len(old.params) \in Nat
    BY <1>2, LenProperties DEF Node
<1>4. param + 1 \in DOMAIN old.params
    BY <1>1, <1>3 DEF Writable
<1>5. ReadableSlot(slot) /\ ReadableSlot(new)
    BY <1>1, <1>2, <1>4 DEF ReadableNode, ReadableSlot
<1>6. new \in Param
    BY <1>5, TextAssumption DEF ReadableSlot, Param, ParamSlot, Name
<1>7. slots \in Seq(Param) /\ DOMAIN slots = DOMAIN old.params
    <2>1. [old.params EXCEPT ![param + 1] = new] \in Seq(Param)
        BY <1>3, <1>4, <1>6, ExceptSeq
    <2> QED  BY <1>1, <2>1
<1>8. \A i \in DOMAIN slots : ReadableSlot(slots[i])
    BY <1>1, <1>2, <1>5, <1>7 DEF ReadableNode
<1>9. /\ node \in Node /\ node.func = old.func /\ node.active = old.active
      /\ node.type = old.type /\ node.params = slots
    BY <1>1, <1>2, <1>7 DEF Node
<1>10. ReadableNode(node)
    BY <1>2, <1>8, <1>9 DEF ReadableNode
<1> QED  BY <1>1, <1>2, <1>9, <1>10, ReplaceReadable

LEMMA AddedReadable ==
    ASSUME NEW trig \in TriggerRecord, NEW node \in Node,
           Readable(trig), ReadableNode(node), AllActive(trig), node.active
    PROVE  Readable(Added(trig, node)) /\ AllActive(Added(trig, node))
<1>1. /\ DOMAIN trig.ecas = 1 .. Len(trig.ecas) /\ Len(trig.ecas) \in Nat
      /\ DOMAIN Added(trig, node).ecas = 1 .. Len(trig.ecas) + 1
      /\ Added(trig, node).ecas[Len(trig.ecas) + 1] = node
      /\ \A q \in 1 .. Len(trig.ecas) : Added(trig, node).ecas[q] = trig.ecas[q]
    BY AddedType
<1>2. Added(trig, node).name = trig.name
    BY DEF Added, TriggerRecord
<1>3. \A q \in 1 .. Len(trig.ecas) + 1 : q \in 1 .. Len(trig.ecas) \/ q = Len(trig.ecas) + 1
    BY <1>1
<1>4. Readable(Added(trig, node))
    BY <1>1, <1>2, <1>3 DEF Readable
<1>5. AllActive(Added(trig, node))
    BY <1>1, <1>3 DEF AllActive
<1> QED  BY <1>4, <1>5

\* The clone of a readable tree's node is a readable node of the type asked for.
LEMMA TemplateReadable ==
    ASSUME NEW recs \in Seq(TriggerRecord), NEW t \in 1 .. Len(recs), NEW type,
           \A k \in 1 .. Len(recs) : Readable(recs[k]),
           NEW node \in TemplateNodes(recs, t, type)
    PROVE  node \in Node /\ ReadableNode(node) /\ node.type = type
<1>1. PICK k \in 1 .. Len(recs) : \E p \in DOMAIN recs[k].ecas : node = recs[k].ecas[p]
    BY TemplateNode
<1>2. ReadableNode(node)
    BY <1>1 DEF Readable
<1> QED  BY <1>2, TemplateNode DEF ReadableNode

-----------------------------------------------------------------------------
(***************************************************************************)
(* Records without addresses: no call of the API but for an addition looks *)
(* at the address of a node, so that each does to a record without them    *)
(* what it does to the record.                                             *)
(***************************************************************************)

Plain(node) == [node EXCEPT !.id = 0]
Plains(ecas) == [p \in DOMAIN ecas |-> Plain(ecas[p])]
PlainTrig(trig) == [trig EXCEPT !.ecas = Plains(trig.ecas)]

LEMMA PlainNode ==
    ASSUME NEW node \in Node
    PROVE  /\ Plain(node) \in Node /\ SameMarks(Plain(node), node)
           /\ Plain(node).func = node.func /\ Plain(node).params = node.params
           /\ ReadableNode(Plain(node)) <=> ReadableNode(node)
           /\ Copied(Plain(node)) <=> Copied(node)
<1>1. /\ Plain(node) \in Node /\ Plain(node).type = node.type /\ Plain(node).active = node.active
      /\ Plain(node).func = node.func /\ Plain(node).params = node.params
    BY DEF Plain, Node
<1> QED  BY <1>1 DEF SameMarks, ReadableNode, Copied

LEMMA PlainsFacts ==
    ASSUME NEW ecas \in Seq(Node)
    PROVE  /\ Plains(ecas) \in Seq(Node) /\ Len(Plains(ecas)) = Len(ecas)
           /\ DOMAIN Plains(ecas) = DOMAIN ecas /\ DOMAIN ecas = 1 .. Len(ecas) /\ Len(ecas) \in Nat
           /\ \A p \in DOMAIN ecas : ecas[p] \in Node /\ Plains(ecas)[p] = Plain(ecas[p])
<1>1. DOMAIN ecas = 1 .. Len(ecas) /\ Len(ecas) \in Nat
    BY LenProperties
<1>2. \A p \in DOMAIN ecas : ecas[p] \in Node /\ Plain(ecas[p]) \in Node
    BY <1>1, ElementOfSeq, PlainNode
<1>3. Plains(ecas) \in [1 .. Len(ecas) -> Node]
    BY <1>1, <1>2 DEF Plains
<1>4. Plains(ecas) \in Seq(Node) /\ Len(Plains(ecas)) = Len(ecas)
    BY <1>1, <1>3, IsASeq, LenProperties
<1> QED  BY <1>1, <1>2, <1>4 DEF Plains

LEMMA PlainFacts ==
    ASSUME NEW trig \in TriggerRecord
    PROVE  /\ PlainTrig(trig) \in TriggerRecord
           /\ PlainTrig(trig).name = trig.name /\ PlainTrig(trig).disabled = trig.disabled
           /\ PlainTrig(trig).ecas = Plains(trig.ecas)
           /\ Readable(PlainTrig(trig)) <=> Readable(trig)
           /\ AllActive(PlainTrig(trig)) <=> AllActive(trig)
<1>1. trig.ecas \in Seq(Node)
    BY DEF TriggerRecord
<1>2. /\ Plains(trig.ecas) \in Seq(Node) /\ DOMAIN Plains(trig.ecas) = DOMAIN trig.ecas
      /\ \A p \in DOMAIN trig.ecas : trig.ecas[p] \in Node /\ Plains(trig.ecas)[p] = Plain(trig.ecas[p])
    BY <1>1, PlainsFacts
<1>3. /\ PlainTrig(trig) \in TriggerRecord
      /\ PlainTrig(trig).name = trig.name /\ PlainTrig(trig).disabled = trig.disabled
      /\ PlainTrig(trig).ecas = Plains(trig.ecas)
    BY <1>2 DEF PlainTrig, TriggerRecord
<1>4. \A p \in DOMAIN trig.ecas :
          /\ ReadableNode(Plains(trig.ecas)[p]) <=> ReadableNode(trig.ecas[p])
          /\ Plains(trig.ecas)[p].active = trig.ecas[p].active
    BY <1>2, PlainNode DEF SameMarks
<1> QED  BY <1>2, <1>3, <1>4 DEF Readable, AllActive

LEMMA PlainLookups ==
    ASSUME NEW ecas \in Seq(Node), NEW type
    PROVE  /\ CountEca(Plains(ecas), type) = CountEca(ecas, type)
           /\ \A index : /\ FindEca(Plains(ecas), type, index) = FindEca(ecas, type, index)
                         /\ FindAnyEca(Plains(ecas), type, index) = FindAnyEca(ecas, type, index)
<1>1. /\ DOMAIN Plains(ecas) = DOMAIN ecas
      /\ \A p \in DOMAIN ecas : Plains(ecas)[p].type = ecas[p].type /\ Plains(ecas)[p].active = ecas[p].active
    BY PlainsFacts, PlainNode DEF SameMarks
<1>2. OfType(Plains(ecas), type) = OfType(ecas, type)
    BY <1>1 DEF OfType
<1>3. ActiveOfType(Plains(ecas), type) = ActiveOfType(ecas, type)
    BY <1>1, <1>2 DEF ActiveOfType, OfType
<1> QED  BY <1>2, <1>3 DEF CountEca, FindEca, FindAnyEca

LEMMA SameRecord ==
    ASSUME NEW a \in TriggerRecord, NEW b \in TriggerRecord,
           a.name = b.name, a.disabled = b.disabled, a.ecas = b.ecas
    PROVE  a = b
BY DEF TriggerRecord

LEMMA PlainReplace ==
    ASSUME NEW trig \in TriggerRecord, NEW p \in DOMAIN trig.ecas, NEW node \in Node
    PROVE  PlainTrig(Replace(trig, p, node)) = Replace(PlainTrig(trig), p, Plain(node))
<1> DEFINE after == Replace(trig, p, node)
           plain == PlainTrig(trig)
           left == PlainTrig(after)
           right == Replace(plain, p, Plain(node))
<1>1. trig.ecas \in Seq(Node) /\ DOMAIN trig.ecas = 1 .. Len(trig.ecas) /\ Plain(node) \in Node
    BY LenProperties, PlainNode DEF TriggerRecord
<1>2. /\ after \in TriggerRecord /\ DOMAIN after.ecas = DOMAIN trig.ecas
      /\ \A q \in DOMAIN trig.ecas : after.ecas[q] = IF q = p THEN node ELSE trig.ecas[q]
      /\ after.name = trig.name /\ after.disabled = trig.disabled
    BY <1>1, ReplaceType DEF Replace, TriggerRecord
<1>3. /\ plain \in TriggerRecord /\ plain.ecas = Plains(trig.ecas) /\ DOMAIN plain.ecas = DOMAIN trig.ecas
      /\ plain.name = trig.name /\ plain.disabled = trig.disabled
      /\ Len(plain.ecas) = Len(trig.ecas)
      /\ \A q \in DOMAIN trig.ecas : plain.ecas[q] = Plain(trig.ecas[q])
    BY <1>1, PlainFacts, PlainsFacts
<1> HIDE DEF after, plain
<1>4. /\ left \in TriggerRecord /\ left.ecas = Plains(after.ecas)
      /\ left.name = trig.name /\ left.disabled = trig.disabled
    BY <1>2, PlainFacts
<1>5. after.ecas \in Seq(Node)
    BY <1>2 DEF TriggerRecord
<1>6. /\ left.ecas \in Seq(Node) /\ DOMAIN left.ecas = DOMAIN trig.ecas
      /\ \A q \in DOMAIN trig.ecas : left.ecas[q] = Plain(IF q = p THEN node ELSE trig.ecas[q])
    BY <1>2, <1>4, <1>5, PlainsFacts
<1>7. p \in 1 .. Len(plain.ecas)
    BY <1>1, <1>3
<1>8. /\ right \in TriggerRecord /\ right.ecas \in Seq(Node) /\ DOMAIN right.ecas = DOMAIN trig.ecas
      /\ \A q \in DOMAIN trig.ecas : right.ecas[q] = IF q = p THEN Plain(node) ELSE plain.ecas[q]
    BY <1>1, <1>3, <1>7, ReplaceType
<1>9. right.name = trig.name /\ right.disabled = trig.disabled
    BY <1>3 DEF Replace, TriggerRecord
<1> HIDE DEF left, right
<1>10. \A q \in DOMAIN trig.ecas : left.ecas[q] = right.ecas[q]
    BY <1>3, <1>6, <1>8
<1>11. Len(left.ecas) = Len(right.ecas) /\ \A q \in 1 .. Len(left.ecas) : left.ecas[q] = right.ecas[q]
    <2>1. /\ DOMAIN left.ecas = 1 .. Len(left.ecas) /\ DOMAIN right.ecas = 1 .. Len(right.ecas)
          /\ Len(left.ecas) \in Nat /\ Len(right.ecas) \in Nat
        BY <1>6, <1>8, LenProperties
    <2>2. 1 .. Len(left.ecas) = 1 .. Len(right.ecas)
        BY <1>6, <1>8, <2>1
    <2>3. Len(left.ecas) = Len(right.ecas)
        BY <2>1, <2>2
    <2> QED  BY <1>6, <1>10, <2>1, <2>3
<1>12. left.ecas = right.ecas
    BY <1>6, <1>8, <1>11, SeqEqual
<1>13. left = right
    BY <1>4, <1>8, <1>9, <1>12, SameRecord
<1> QED  BY <1>13 DEF left, right, after, plain

LEMMA PlainAdded ==
    ASSUME NEW trig \in TriggerRecord, NEW node \in Node
    PROVE  PlainTrig(Added(trig, node)) = Added(PlainTrig(trig), Plain(node))
<1> DEFINE after == Added(trig, node)
           plain == PlainTrig(trig)
           left == PlainTrig(after)
           right == Added(plain, Plain(node))
           n == Len(trig.ecas)
<1>1. trig.ecas \in Seq(Node) /\ Plain(node) \in Node /\ n \in Nat /\ DOMAIN trig.ecas = 1 .. n
    BY LenProperties, PlainNode DEF TriggerRecord
<1>2. /\ after \in TriggerRecord /\ after.ecas = Append(trig.ecas, node) /\ after.ecas \in Seq(Node)
      /\ after.name = trig.name /\ after.disabled = trig.disabled
    BY AddedType DEF Added, TriggerRecord
<1>3. /\ plain \in TriggerRecord /\ plain.ecas = Plains(trig.ecas) /\ plain.ecas \in Seq(Node)
      /\ plain.name = trig.name /\ plain.disabled = trig.disabled
      /\ Len(plain.ecas) = n
      /\ \A q \in 1 .. n : plain.ecas[q] = Plain(trig.ecas[q])
    BY <1>1, PlainFacts, PlainsFacts
<1> HIDE DEF after, plain
<1>4. /\ left \in TriggerRecord /\ left.ecas = Plains(after.ecas)
      /\ left.name = trig.name /\ left.disabled = trig.disabled
    BY <1>2, PlainFacts
<1>5. /\ Len(after.ecas) = n + 1 /\ after.ecas[n + 1] = node
      /\ \A q \in 1 .. n : after.ecas[q] = trig.ecas[q]
    BY <1>1, <1>2, AppendProperties
<1>6. /\ left.ecas \in Seq(Node) /\ Len(left.ecas) = n + 1
      /\ \A q \in 1 .. n + 1 : left.ecas[q] = Plain(after.ecas[q])
    <2>1. /\ Plains(after.ecas) \in Seq(Node) /\ Len(Plains(after.ecas)) = Len(after.ecas)
          /\ DOMAIN after.ecas = 1 .. Len(after.ecas)
          /\ \A q \in DOMAIN after.ecas : Plains(after.ecas)[q] = Plain(after.ecas[q])
        BY <1>2, PlainsFacts
    <2> QED  BY <1>4, <1>5, <2>1
<1>7. /\ right \in TriggerRecord /\ right.ecas = Append(plain.ecas, Plain(node))
      /\ right.name = trig.name /\ right.disabled = trig.disabled
    BY <1>1, <1>3, AddedType DEF Added, TriggerRecord
<1>8. /\ right.ecas \in Seq(Node) /\ Len(right.ecas) = n + 1 /\ right.ecas[n + 1] = Plain(node)
      /\ \A q \in 1 .. n : right.ecas[q] = plain.ecas[q]
    BY <1>1, <1>3, <1>7, AppendProperties
<1> HIDE DEF left, right
<1>9. \A q \in 1 .. n + 1 : left.ecas[q] = right.ecas[q]
    <2>1. \A q \in 1 .. n + 1 : q = n + 1 \/ q \in 1 .. n
        BY <1>1
    <2> QED  BY <1>3, <1>5, <1>6, <1>8, <2>1
<1>10. left.ecas = right.ecas
    BY <1>6, <1>8, <1>9, SeqEqual
<1>11. left = right
    BY <1>4, <1>7, <1>10, SameRecord
<1> QED  BY <1>11 DEF left, right, after, plain

\* A node with a parameter written.
WithRaw(node, param, value) == [node EXCEPT !.params[param + 1].raw = value]

\* A change of a node but for its address is the change of the node without it.
LEMMA PlainRenamed ==
    ASSUME NEW node \in Node, NEW text \in Text
    PROVE  /\ [node EXCEPT !.func = text] \in Node
           /\ [Plain(node) EXCEPT !.func = text] = Plain([node EXCEPT !.func = text])
BY DEF Plain, Node

LEMMA PlainMarked ==
    ASSUME NEW node \in Node, NEW active \in BOOLEAN
    PROVE  /\ [node EXCEPT !.active = active] \in Node
           /\ [Plain(node) EXCEPT !.active = active] = Plain([node EXCEPT !.active = active])
BY DEF Plain, Node

LEMMA PlainCloned ==
    ASSUME NEW node \in Node, NEW id \in Nat
    PROVE  /\ [node EXCEPT !.id = id, !.active = TRUE] \in Node
           /\ [Plain(node) EXCEPT !.id = 0, !.active = TRUE] = Plain([node EXCEPT !.id = id, !.active = TRUE])
<1>1. [node EXCEPT !.id = id, !.active = TRUE] \in Node
    BY DEF Node
<1>2. [Plain(node) EXCEPT !.id = 0, !.active = TRUE] = Plain([node EXCEPT !.id = id, !.active = TRUE])
    BY DEF Plain, Node
<1> QED  BY <1>1, <1>2

LEMMA PlainRaw ==
    ASSUME NEW node \in Node, NEW param \in Nat, Writable(node, param), NEW value \in Text
    PROVE  /\ WithRaw(node, param, value) \in Node
           /\ WithRaw(Plain(node), param, value) = Plain(WithRaw(node, param, value))
<1> DEFINE slot == node.params[param + 1]
           slots == [node.params EXCEPT ![param + 1] = [slot EXCEPT !.raw = value]]
<1>1. node.params \in Seq(Param) /\ param + 1 \in 1 .. Len(node.params) /\ slot # NullParam
    BY LenProperties DEF Node, Writable
<1>2. slot \in ParamSlot
    BY <1>1, ElementOfSeq DEF Param
<1>3. [slot EXCEPT !.raw = value] \in Param
    BY <1>2 DEF Param, ParamSlot
<1>4. slots \in Seq(Param)
    BY <1>1, <1>3, ExceptSeq
<1>5. WithRaw(node, param, value) = [node EXCEPT !.params = slots]
    BY DEF WithRaw
<1>6. WithRaw(Plain(node), param, value) = [Plain(node) EXCEPT !.params = slots]
    <2>1. Plain(node).params = node.params
        BY PlainNode
    <2> QED  BY <2>1 DEF WithRaw
<1> HIDE DEF slots
<1>7. [node EXCEPT !.params = slots] \in Node
    BY <1>4 DEF Node
<1>8. [Plain(node) EXCEPT !.params = slots] = Plain([node EXCEPT !.params = slots])
    BY DEF Plain, Node
<1> QED  BY <1>5, <1>6, <1>7, <1>8

\* A lookup finds one node at most, and the same without addresses.
LEMMA PlainFound ==
    ASSUME NEW trig \in TriggerRecord, NEW type, NEW index
    PROVE  /\ FindEca(PlainTrig(trig).ecas, type, index) = FindEca(trig.ecas, type, index)
           /\ FindAnyEca(PlainTrig(trig).ecas, type, index) = FindAnyEca(trig.ecas, type, index)
           /\ \A p \in FindEca(trig.ecas, type, index) :
                 p \in DOMAIN trig.ecas /\ FindEca(trig.ecas, type, index) = {p}
           /\ \A p \in FindAnyEca(trig.ecas, type, index) :
                 p \in DOMAIN trig.ecas /\ FindAnyEca(trig.ecas, type, index) = {p}
           /\ \A p \in DOMAIN trig.ecas :
                 trig.ecas[p] \in Node /\ PlainTrig(trig).ecas[p] = Plain(trig.ecas[p])
<1>1. trig.ecas \in Seq(Node)
    BY DEF TriggerRecord
<1>2. PlainTrig(trig).ecas = Plains(trig.ecas)
    BY PlainFacts
<1>3. /\ FindEca(Plains(trig.ecas), type, index) = FindEca(trig.ecas, type, index)
      /\ FindAnyEca(Plains(trig.ecas), type, index) = FindAnyEca(trig.ecas, type, index)
    BY <1>1, PlainLookups
<1>4. \A p \in DOMAIN trig.ecas : trig.ecas[p] \in Node /\ Plains(trig.ecas)[p] = Plain(trig.ecas[p])
    BY <1>1, PlainsFacts
<1>5. /\ \A p \in FindEca(trig.ecas, type, index) :
            p \in DOMAIN trig.ecas /\ FindEca(trig.ecas, type, index) = {p}
      /\ \A p \in FindAnyEca(trig.ecas, type, index) :
            p \in DOMAIN trig.ecas /\ FindAnyEca(trig.ecas, type, index) = {p}
    BY <1>1, Found
<1> QED  BY <1>2, <1>3, <1>4, <1>5

\* "recs" and "bare" are what a call makes of a record and of the same without
\* addresses: one record at most, and the same one.
Same(bare, recs) ==
    /\ bare = {PlainTrig(rec) : rec \in recs}
    /\ \A a, b \in recs : a = b

LEMMA SameEmpty == Same({}, {})
BY DEF Same

LEMMA SameSingle ==
    ASSUME NEW rec
    PROVE  Same({PlainTrig(rec)}, {rec})
BY DEF Same

LEMMA PlainSetFunc ==
    ASSUME NEW trig \in TriggerRecord, NEW type, NEW index, NEW name \in Text
    PROVE  Same(SetEcaFuncName(PlainTrig(trig), type, index, name), SetEcaFuncName(trig, type, index, name))
<1>1. PICK found, bare : found = FindEca(trig.ecas, type, index) /\ bare = PlainTrig(trig)
    OBVIOUS
<1>2. found = FindEca(bare.ecas, type, index)
    BY <1>1, PlainFound
<1>3. CASE found = {}
    BY <1>1, <1>2, <1>3, SameEmpty DEF SetEcaFuncName
<1>4. CASE found # {}
    <2>1. PICK p : p \in found
        BY <1>4
    <2>2. /\ p \in DOMAIN trig.ecas /\ found = {p}
          /\ trig.ecas[p] \in Node /\ bare.ecas[p] = Plain(trig.ecas[p])
        BY <1>1, <2>1, PlainFound
    <2>3. PICK node : node = [trig.ecas[p] EXCEPT !.func = name]
        OBVIOUS
    <2>4. node \in Node /\ [bare.ecas[p] EXCEPT !.func = name] = Plain(node)
        BY <2>2, <2>3, PlainRenamed
    <2>5. SetEcaFuncName(trig, type, index, name) = {Replace(trig, p, node)}
        BY <1>1, <2>2, <2>3 DEF SetEcaFuncName, Replace
    <2>6. SetEcaFuncName(bare, type, index, name) = {Replace(bare, p, [bare.ecas[p] EXCEPT !.func = name])}
        BY <1>2, <2>2 DEF SetEcaFuncName, Replace
    <2>7. PlainTrig(Replace(trig, p, node)) = Replace(bare, p, Plain(node))
        BY <1>1, <2>2, <2>4, PlainReplace
    <2> QED  BY <1>1, <2>4, <2>5, <2>6, <2>7, SameSingle
<1> QED  BY <1>3, <1>4

LEMMA PlainSetActive ==
    ASSUME NEW trig \in TriggerRecord, NEW type, NEW index, NEW active \in BOOLEAN
    PROVE  Same(SetEcaActive(PlainTrig(trig), type, index, active), SetEcaActive(trig, type, index, active))
<1>1. PICK found, bare : found = FindAnyEca(trig.ecas, type, index) /\ bare = PlainTrig(trig)
    OBVIOUS
<1>2. found = FindAnyEca(bare.ecas, type, index)
    BY <1>1, PlainFound
<1>3. CASE found = {}
    BY <1>1, <1>2, <1>3, SameEmpty DEF SetEcaActive
<1>4. CASE found # {}
    <2>1. PICK p : p \in found
        BY <1>4
    <2>2. /\ p \in DOMAIN trig.ecas /\ found = {p}
          /\ trig.ecas[p] \in Node /\ bare.ecas[p] = Plain(trig.ecas[p])
        BY <1>1, <2>1, PlainFound
    <2>3. PICK node : node = [trig.ecas[p] EXCEPT !.active = active]
        OBVIOUS
    <2>4. node \in Node /\ [bare.ecas[p] EXCEPT !.active = active] = Plain(node)
        BY <2>2, <2>3, PlainMarked
    <2>5. SetEcaActive(trig, type, index, active) = {Replace(trig, p, node)}
        BY <1>1, <2>2, <2>3 DEF SetEcaActive, Replace
    <2>6. SetEcaActive(bare, type, index, active) = {Replace(bare, p, [bare.ecas[p] EXCEPT !.active = active])}
        BY <1>2, <2>2 DEF SetEcaActive, Replace
    <2>7. PlainTrig(Replace(trig, p, node)) = Replace(bare, p, Plain(node))
        BY <1>1, <2>2, <2>4, PlainReplace
    <2> QED  BY <1>1, <2>4, <2>5, <2>6, <2>7, SameSingle
<1> QED  BY <1>3, <1>4

LEMMA PlainSetParam ==
    ASSUME NEW trig \in TriggerRecord, NEW type, NEW index, NEW param \in Nat, NEW value \in Text
    PROVE  Same(WriteParam(PlainTrig(trig), type, index, param, value),
                WriteParam(trig, type, index, param, value))
<1>1. PICK found, bare : /\ found = {q \in FindEca(trig.ecas, type, index) : Writable(trig.ecas[q], param)}
                         /\ bare = PlainTrig(trig)
    OBVIOUS
<1>2. /\ FindEca(bare.ecas, type, index) = FindEca(trig.ecas, type, index)
      /\ \A p \in FindEca(trig.ecas, type, index) :
            p \in DOMAIN trig.ecas /\ FindEca(trig.ecas, type, index) = {p}
      /\ \A p \in DOMAIN trig.ecas : trig.ecas[p] \in Node /\ bare.ecas[p] = Plain(trig.ecas[p])
    BY <1>1, PlainFound
<1>3. \A p \in DOMAIN trig.ecas : Writable(bare.ecas[p], param) <=> Writable(trig.ecas[p], param)
    BY <1>2, PlainNode DEF Writable
<1>4. found = {q \in FindEca(bare.ecas, type, index) : Writable(bare.ecas[q], param)}
    BY <1>1, <1>2, <1>3
<1>5. CASE found = {}
    BY <1>1, <1>4, <1>5, SameEmpty DEF WriteParam
<1>6. CASE found # {}
    <2>1. PICK p : p \in found
        BY <1>6
    <2>2. /\ p \in DOMAIN trig.ecas /\ found = {p} /\ Writable(trig.ecas[p], param)
          /\ trig.ecas[p] \in Node /\ bare.ecas[p] = Plain(trig.ecas[p])
        BY <1>1, <1>2, <2>1
    <2>3. PICK node : node = WithRaw(trig.ecas[p], param, value)
        OBVIOUS
    <2>4. node \in Node /\ WithRaw(bare.ecas[p], param, value) = Plain(node)
        BY <2>2, <2>3, PlainRaw
    <2>5. WriteParam(trig, type, index, param, value) = {Replace(trig, p, node)}
        BY <1>1, <2>2, <2>3 DEF WriteParam, Replace, WithRaw
    <2>6. WriteParam(bare, type, index, param, value) = {Replace(bare, p, WithRaw(bare.ecas[p], param, value))}
        BY <1>4, <2>2 DEF WriteParam, Replace, WithRaw
    <2>7. PlainTrig(Replace(trig, p, node)) = Replace(bare, p, Plain(node))
        BY <1>1, <2>2, <2>4, PlainReplace
    <2> QED  BY <1>1, <2>4, <2>5, <2>6, <2>7, SameSingle
<1> QED  BY <1>5, <1>6

LEMMA PlainSetName ==
    ASSUME NEW trig \in TriggerRecord, NEW name \in Text
    PROVE  Same(SetTriggerName(PlainTrig(trig), name), SetTriggerName(trig, name))
<1>1. name # Nil
    BY TextAssumption
<1>2. [PlainTrig(trig) EXCEPT !.name = name] = PlainTrig([trig EXCEPT !.name = name])
    BY DEF PlainTrig, TriggerRecord
<1> QED  BY <1>1, <1>2, SameSingle DEF SetTriggerName

LEMMA PlainSetDisabled ==
    ASSUME NEW trig \in TriggerRecord, NEW disabled \in BOOLEAN
    PROVE  Same(SetTriggerDisabled(PlainTrig(trig), disabled), SetTriggerDisabled(trig, disabled))
<1>1. [PlainTrig(trig) EXCEPT !.disabled = disabled] = PlainTrig([trig EXCEPT !.disabled = disabled])
    BY DEF PlainTrig, TriggerRecord
<1> QED  BY <1>1, SameSingle DEF SetTriggerDisabled

\* The records of the captured triggers without addresses.
PlainRecs(recs) == [i \in DOMAIN recs |-> PlainTrig(recs[i])]

LEMMA PlainRecsFacts ==
    ASSUME NEW recs \in Seq(TriggerRecord)
    PROVE  /\ PlainRecs(recs) \in Seq(TriggerRecord) /\ Len(PlainRecs(recs)) = Len(recs)
           /\ DOMAIN recs = 1 .. Len(recs) /\ DOMAIN PlainRecs(recs) = DOMAIN recs /\ Len(recs) \in Nat
           /\ \A k \in DOMAIN recs :
                 /\ recs[k] \in TriggerRecord /\ recs[k].ecas \in Seq(Node)
                 /\ PlainRecs(recs)[k] = PlainTrig(recs[k])
                 /\ PlainRecs(recs)[k].ecas = Plains(recs[k].ecas)
<1>1. DOMAIN recs = 1 .. Len(recs) /\ Len(recs) \in Nat
    BY LenProperties
<1>2. \A k \in DOMAIN recs : recs[k] \in TriggerRecord
    BY <1>1, ElementOfSeq
<1>3. \A k \in DOMAIN recs : /\ PlainTrig(recs[k]) \in TriggerRecord /\ recs[k].ecas \in Seq(Node)
                             /\ PlainTrig(recs[k]).ecas = Plains(recs[k].ecas)
    BY <1>2, PlainFacts DEF TriggerRecord
<1>4. PlainRecs(recs) \in [1 .. Len(recs) -> TriggerRecord]
    BY <1>1, <1>3 DEF PlainRecs
<1>5. PlainRecs(recs) \in Seq(TriggerRecord) /\ Len(PlainRecs(recs)) = Len(recs)
    BY <1>1, <1>4, IsASeq, LenProperties
<1> QED  BY <1>1, <1>2, <1>3, <1>5 DEF PlainRecs

LEMMA PlainPlaces ==
    ASSUME NEW recs \in Seq(TriggerRecord), NEW type
    PROVE  /\ Places(PlainRecs(recs)) = Places(recs)
           /\ \A a \in Places(recs) : /\ a[1] \in Nat /\ a[2] \in Nat /\ At(recs, a) \in Node
                                      /\ At(PlainRecs(recs), a) = Plain(At(recs, a))
           /\ TypePlaces(PlainRecs(recs), type) = TypePlaces(recs, type)
           /\ CommentPlaces(PlainRecs(recs)) = CommentPlaces(recs)
<1>1. PICK bare : bare = PlainRecs(recs)
    OBVIOUS
<1>2. /\ DOMAIN bare = DOMAIN recs /\ DOMAIN recs = 1 .. Len(recs) /\ Len(recs) \in Nat
      /\ \A k \in DOMAIN recs : recs[k].ecas \in Seq(Node) /\ bare[k].ecas = Plains(recs[k].ecas)
    BY <1>1, PlainRecsFacts
<1>3. \A k \in DOMAIN recs :
          /\ DOMAIN bare[k].ecas = DOMAIN recs[k].ecas /\ DOMAIN recs[k].ecas = 1 .. Len(recs[k].ecas)
          /\ \A p \in DOMAIN recs[k].ecas : /\ p \in Nat /\ recs[k].ecas[p] \in Node
                                            /\ bare[k].ecas[p] = Plain(recs[k].ecas[p])
    <2> SUFFICES ASSUME NEW k \in DOMAIN recs
                 PROVE  /\ DOMAIN bare[k].ecas = DOMAIN recs[k].ecas /\ DOMAIN recs[k].ecas = 1 .. Len(recs[k].ecas)
                        /\ \A p \in DOMAIN recs[k].ecas : /\ p \in Nat /\ recs[k].ecas[p] \in Node
                                                          /\ bare[k].ecas[p] = Plain(recs[k].ecas[p])
        OBVIOUS
    <2> QED  BY <1>2, PlainsFacts
<1>4. Places(bare) = Places(recs)
    BY <1>2, <1>3 DEF Places
<1>5. \A a \in Places(recs) : a[1] \in DOMAIN recs /\ a[2] \in DOMAIN recs[a[1]].ecas
    BY DEF Places
<1>6. \A a \in Places(recs) : /\ a[1] \in Nat /\ a[2] \in Nat /\ At(recs, a) \in Node
                              /\ At(bare, a) = Plain(At(recs, a))
    BY <1>2, <1>3, <1>5 DEF At
<1>7. \A a \in Places(recs) : /\ At(bare, a).type = At(recs, a).type /\ At(bare, a).active = At(recs, a).active
                              /\ At(bare, a).func = At(recs, a).func
    BY <1>6, PlainNode DEF SameMarks
<1>8. TypePlaces(bare, type) = TypePlaces(recs, type) /\ CommentPlaces(bare) = CommentPlaces(recs)
    BY <1>4, <1>7 DEF TypePlaces, CommentPlaces
<1> QED  BY <1>1, <1>4, <1>6, <1>8

\* There is one first node at most.
LEMMA PlainFirst ==
    ASSUME NEW recs \in Seq(TriggerRecord), NEW places, places \subseteq Places(recs)
    PROVE  /\ FirstNodes(PlainRecs(recs), places) = {Plain(node) : node \in FirstNodes(recs, places)}
           /\ \A m, n \in FirstNodes(recs, places) : m = n
           /\ FirstNodes(recs, places) \subseteq Node
<1>1. PICK bare : bare = PlainRecs(recs)
    OBVIOUS
<1>2. \A a \in places : /\ a[1] \in Nat /\ a[2] \in Nat /\ At(recs, a) \in Node
                        /\ At(bare, a) = Plain(At(recs, a))
    BY <1>1, PlainPlaces
<1>3. PICK first : first = {b \in places : \A c \in places : c = b \/ Before(b, c)}
    OBVIOUS
<1>4. /\ FirstNodes(recs, places) = {At(recs, a) : a \in first}
      /\ FirstNodes(bare, places) = {At(bare, a) : a \in first}
    BY <1>3 DEF FirstNodes
<1>5. FirstNodes(bare, places) = {Plain(node) : node \in FirstNodes(recs, places)}
    BY <1>2, <1>3, <1>4
<1>6. \A a, b \in first : a = b
    BY <1>2, <1>3 DEF Before
<1> QED  BY <1>1, <1>2, <1>3, <1>4, <1>5, <1>6

LEMMA PlainTemplates ==
    ASSUME NEW recs \in Seq(TriggerRecord), NEW t, NEW type
    PROVE  /\ TemplateNodes(PlainRecs(recs), t, type) = {Plain(node) : node \in TemplateNodes(recs, t, type)}
           /\ \A m, n \in TemplateNodes(recs, t, type) : m = n
           /\ TemplateNodes(recs, t, type) \subseteq Node
<1>1. PICK bare, places, comments : /\ bare = PlainRecs(recs)
                                    /\ places = TypePlaces(recs, type) /\ comments = CommentPlaces(recs)
    OBVIOUS
<1>2. /\ TypePlaces(bare, type) = places /\ CommentPlaces(bare) = comments
      /\ places \subseteq Places(recs) /\ comments \subseteq Places(recs)
    <2>1. TypePlaces(bare, type) = places /\ CommentPlaces(bare) = comments
        BY <1>1, PlainPlaces
    <2>2. places \subseteq Places(recs) /\ comments \subseteq Places(recs)
        BY <1>1 DEF TypePlaces, CommentPlaces
    <2> QED  BY <2>1, <2>2
<1>3. PICK own : own = {a \in places : a[1] = t}
    OBVIOUS
<1>4. PICK near : near = IF own # {} THEN own ELSE places
    OBVIOUS
<1>5. SourceNodes(recs, t, type) = FirstNodes(recs, near) /\ SourceNodes(bare, t, type) = FirstNodes(bare, near)
    BY <1>1, <1>2, <1>3, <1>4 DEF SourceNodes
<1>6. near \subseteq Places(recs)
    BY <1>2, <1>3, <1>4
<1>7. /\ FirstNodes(bare, near) = {Plain(node) : node \in FirstNodes(recs, near)}
      /\ \A m, n \in FirstNodes(recs, near) : m = n
      /\ FirstNodes(recs, near) \subseteq Node
    BY <1>1, <1>6, PlainFirst
<1>8. /\ FirstNodes(bare, comments) = {Plain(node) : node \in FirstNodes(recs, comments)}
      /\ \A m, n \in FirstNodes(recs, comments) : m = n
      /\ FirstNodes(recs, comments) \subseteq Node
    BY <1>1, <1>2, PlainFirst
<1>9. FirstNodes(bare, near) # {} <=> FirstNodes(recs, near) # {}
    BY <1>7
<1>10. CASE FirstNodes(recs, near) # {} /\ type = Action /\ comments # {}
    <2>1. /\ TemplateNodes(recs, t, type) = FirstNodes(recs, comments)
          /\ TemplateNodes(bare, t, type) = FirstNodes(bare, comments)
        BY <1>1, <1>2, <1>5, <1>9, <1>10 DEF TemplateNodes
    <2> QED  BY <1>1, <1>8, <2>1
<1>11. CASE ~ (FirstNodes(recs, near) # {} /\ type = Action /\ comments # {})
    <2>1. /\ TemplateNodes(recs, t, type) = FirstNodes(recs, near)
          /\ TemplateNodes(bare, t, type) = FirstNodes(bare, near)
        BY <1>1, <1>2, <1>5, <1>9, <1>11 DEF TemplateNodes
    <2> QED  BY <1>1, <1>7, <2>1
<1> QED  BY <1>10, <1>11

LEMMA PlainAdd ==
    ASSUME NEW recs \in Seq(TriggerRecord), NEW t \in 1 .. Len(recs), NEW type, NEW id \in Nat
    PROVE  Same(AddEca(PlainRecs(recs), t, type, 0), AddEca(recs, t, type, id))
<1>1. PICK bare, old, from, plain : /\ bare = PlainRecs(recs) /\ old = recs[t]
                                    /\ from = {n \in TemplateNodes(recs, t, type) : Copied(n)}
                                    /\ plain = {n \in TemplateNodes(bare, t, type) : Copied(n)}
    OBVIOUS
<1>2. old \in TriggerRecord /\ bare[t] = PlainTrig(old)
    BY <1>1, PlainRecsFacts
<1>3. /\ TemplateNodes(bare, t, type) = {Plain(node) : node \in TemplateNodes(recs, t, type)}
      /\ \A m, n \in TemplateNodes(recs, t, type) : m = n
      /\ TemplateNodes(recs, t, type) \subseteq Node
    BY <1>1, PlainTemplates
<1>4. \A node \in TemplateNodes(recs, t, type) : Copied(Plain(node)) <=> Copied(node)
    BY <1>3, PlainNode
<1>5. plain = {Plain(node) : node \in from}
    BY <1>1, <1>3, <1>4
<1>6. CASE from = {}
    <2>1. plain = {}
        BY <1>5, <1>6
    <2> QED  BY <1>1, <1>6, <2>1, SameEmpty DEF AddEca
<1>7. CASE from # {}
    <2>1. PICK node : node \in from
        BY <1>7
    <2>2. from = {node} /\ plain = {Plain(node)} /\ node \in Node
        BY <1>1, <1>3, <1>5, <2>1
    <2>3. PICK clone : clone = [node EXCEPT !.id = id, !.active = TRUE]
        OBVIOUS
    <2>4. clone \in Node /\ [Plain(node) EXCEPT !.id = 0, !.active = TRUE] = Plain(clone)
        BY <2>2, <2>3, PlainCloned
    <2>5. AddEca(recs, t, type, id) = {Added(old, clone)}
        BY <1>1, <2>2, <2>3 DEF AddEca, Added
    <2>6. AddEca(bare, t, type, 0) = {Added(bare[t], Plain(clone))}
        <3>1. AddEca(bare, t, type, 0) =
                  {[bare[t] EXCEPT !.ecas = Append(bare[t].ecas, [n EXCEPT !.id = 0, !.active = TRUE])] : n \in plain}
            BY <1>1 DEF AddEca
        <3> QED  BY <2>2, <2>4, <3>1 DEF Added
    <2>7. PlainTrig(Added(old, clone)) = Added(bare[t], Plain(clone))
        BY <1>2, <2>4, PlainAdded
    <2> QED  BY <1>1, <2>5, <2>6, <2>7, SameSingle
<1> QED  BY <1>6, <1>7
=============================================================================
