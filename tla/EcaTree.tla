------------------------------- MODULE EcaTree -------------------------------
(***************************************************************************)
(* The trigger data of World Editor as the exported functions ydt_* of     *)
(* Plugin/WE/YDTrigger/AgentAPI.cpp see it: a trigger is a record whose    *)
(* "ecas" are its event, condition and action nodes in array order, and a  *)
(* node is found by its type and its ordinal among the nodes of that type. *)
(* Two ordinals exist, one over all the nodes and one over the ACTIVE      *)
(* nodes only (find_eca), and the exported functions disagree on which one *)
(* they take: that disagreement is kept here as it is in the code.         *)
(*                                                                         *)
(* Texts are opaque and hold no NUL byte; of their length only what the    *)
(* 260-byte buffers of the editor keep is told apart.  A native call is    *)
(* one atomic step; heap exhaustion and the structured-exception exits are *)
(* not modelled.                                                           *)
(***************************************************************************)
EXTENDS Naturals, Sequences, FiniteSets, SequencesExt

CONSTANTS
    Text,           \* names and parameter texts, NoText included
    Stored,         \* a text as a buffer keeps it: its first 259 bytes
    NoText,         \* the empty string
    EmptyMark,      \* the literal "(empty)" returned for an empty parameter
    NullMark,       \* the literal "null" returned for a null parameter pointer
    CommentString,  \* the function name the clone template is looked up by
    Nil             \* Lua's nil

ASSUME TextAssumption ==
    /\ {NoText, EmptyMark, NullMark, CommentString} \subseteq Text
    /\ Cardinality({NoText, EmptyMark, NullMark, CommentString}) = 4
    /\ Nil \notin Text \cup BOOLEAN \cup Nat

ASSUME StoredAssumption ==
    /\ Stored \in [Text -> Text]
    /\ \A text \in Text : Stored[Stored[text]] = Stored[text]
    /\ \A text \in Text : text # NoText => Stored[text] # NoText

Fits(text) == Stored[text] = text

\* What the validators of YDAgentOps let through as a name, 256 bytes at most;
\* a buffer keeps all of it, so the two setters of names write it as it is.
Name == {text \in Text \ {NoText} : Fits(text)}

EcaType == 0 .. 2       \* 0 event, 1 condition, 2 action
Action == 2

\* A parameter slot: a null pointer, or a reference name (+0x20; NoText also
\* stands for the name "Null", which is no reference) and a raw text (+0x4C).
NullParam == [null |-> TRUE]
ParamSlot == [ref : Text, raw : Text]
Param == ParamSlot \cup {NullParam}

\* "id" stands for the address of the node.
Node == [id : Nat, type : EcaType, func : Text, active : BOOLEAN, params : Seq(Param)]
TriggerRecord == [name : Text, disabled : BOOLEAN, ecas : Seq(Node)]

-----------------------------------------------------------------------------
(***************************************************************************)
(* Lookup                                                                  *)
(***************************************************************************)

\* The positions each of the two ordinals ranges over.
OfType(ecas, type) == {p \in DOMAIN ecas : ecas[p].type = type}
ActiveOfType(ecas, type) == {p \in OfType(ecas, type) : ecas[p].active}

CountEca(ecas, type) == Cardinality(ActiveOfType(ecas, type))

\* The member of "positions" whose ordinal is "index": one, or none.
Nth(positions, index) ==
    {p \in positions : Cardinality({q \in positions : q < p}) = index}

\* find_eca_ex, counting all the nodes of the type or its active ones only.
FindAnyEca(ecas, type, index) == Nth(OfType(ecas, type), index)
FindEca(ecas, type, index) == Nth(ActiveOfType(ecas, type), index)

-----------------------------------------------------------------------------
(***************************************************************************)
(* Reads, as the Lua wrappers of the worker return them                    *)
(***************************************************************************)

\* to_str turns an empty C string into nil.
ToStr(text) == IF text = NoText THEN Nil ELSE text

EcaFuncName(trig, type, index) ==
    LET found == FindEca(trig.ecas, type, index)
    IN  IF found = {} THEN Nil
        ELSE ToStr(trig.ecas[CHOOSE p \in found : TRUE].func)

EcaActive(trig, type, index) ==
    LET found == FindAnyEca(trig.ecas, type, index)
    IN  IF found = {} THEN Nil ELSE trig.ecas[CHOOSE p \in found : TRUE].active

\* A reference hides the raw text, and an empty slot reads as the mark "(empty)".
ReadSlot(slot) ==
    CASE slot = NullParam -> NullMark
      [] slot # NullParam /\ slot.ref # NoText -> slot.ref
      [] slot # NullParam /\ slot.ref = NoText /\ slot.raw # NoText -> slot.raw
      [] OTHER -> EmptyMark

EcaParamValue(trig, type, index, param) ==
    LET found == FindEca(trig.ecas, type, index)
        node  == trig.ecas[CHOOSE p \in found : TRUE]
    IN  IF found = {} \/ param >= Len(node.params) THEN Nil
        ELSE ReadSlot(node.params[param + 1])

-----------------------------------------------------------------------------
(***************************************************************************)
(* Writes.  Each is the set of records the exported function can leave:    *)
(* one record when it returns 1, none when it returns 0 and writes nothing.*)
(***************************************************************************)

SetTriggerName(trig, name) ==
    IF name = Nil THEN {} ELSE {[trig EXCEPT !.name = name]}

SetTriggerDisabled(trig, disabled) ==
    {[trig EXCEPT !.disabled = disabled]}

\* A fault for the mutation runs: the ordinal counts inactive nodes too.
SetAnyFuncName(trig, type, index, name) ==
    {[trig EXCEPT !.ecas[p].func = name] : p \in FindAnyEca(trig.ecas, type, index)}

SetEcaFuncName(trig, type, index, name) ==
    {[trig EXCEPT !.ecas[p].func = name] : p \in FindEca(trig.ecas, type, index)}

\* The ordinal counts inactive nodes too.
SetEcaActive(trig, type, index, active) ==
    {[trig EXCEPT !.ecas[p].active = active] :
        p \in FindAnyEca(trig.ecas, type, index)}

\* Only the raw text is written, and only through a non-null slot.
Writable(node, param) ==
    param < Len(node.params) /\ node.params[param + 1] # NullParam

WriteParam(trig, type, index, param, text) ==
    {[trig EXCEPT !.ecas[p].params[param + 1].raw = text] :
        p \in {q \in FindEca(trig.ecas, type, index) : Writable(trig.ecas[q], param)}}

\* No validator bounds a parameter's text: one that does not fit is cut short,
\* and the call returns 1 all the same.
SetEcaParamValue(trig, type, index, param, value) ==
    WriteParam(trig, type, index, param, Stored[value])

\* The ordinal counts inactive nodes too.
RemoveEca(trig, type, index) ==
    {[trig EXCEPT !.ecas = RemoveAt(trig.ecas, p)] :
        p \in FindAnyEca(trig.ecas, type, index)}

-----------------------------------------------------------------------------
(***************************************************************************)
(* The node a new one is cloned from: "recs" are the records of the        *)
(* captured triggers in capture order and "t" the target's position.  An   *)
(* action is cloned from the first active CommentString node when there is *)
(* one; otherwise the first node of the type, of the target trigger        *)
(* before the others.                                                      *)
(***************************************************************************)
At(recs, place) == recs[place[1]].ecas[place[2]]
Places(recs) == UNION {{k} \X DOMAIN recs[k].ecas : k \in DOMAIN recs}
Before(a, b) == a[1] < b[1] \/ (a[1] = b[1] /\ a[2] < b[2])
FirstNodes(recs, places) ==
    {At(recs, a) : a \in {b \in places : \A c \in places : c = b \/ Before(b, c)}}

TypePlaces(recs, type) == {a \in Places(recs) : At(recs, a).type = type}
CommentPlaces(recs) ==
    {a \in Places(recs) : At(recs, a).func = CommentString /\ At(recs, a).active}

SourceNodes(recs, t, type) ==
    LET own == {a \in TypePlaces(recs, type) : a[1] = t}
    IN  FirstNodes(recs, IF own # {} THEN own ELSE TypePlaces(recs, type))

TemplateNodes(recs, t, type) ==
    IF SourceNodes(recs, t, type) # {} /\ type = Action /\ CommentPlaces(recs) # {}
    THEN FirstNodes(recs, CommentPlaces(recs))
    ELSE SourceNodes(recs, t, type)

\* A null parameter cannot be copied: the access fault makes the call return 0.
Copied(node) == \A i \in DOMAIN node.params : node.params[i] # NullParam

\* The clone gets the fresh address "id", goes last and is always active.
AddEca(recs, t, type, id) ==
    {[recs[t] EXCEPT !.ecas = Append(recs[t].ecas, [node EXCEPT !.id = id, !.active = TRUE])] :
        node \in {n \in TemplateNodes(recs, t, type) : Copied(n)}}

-----------------------------------------------------------------------------
(***************************************************************************)
(* Records whose reads return what they hold: no empty text and none       *)
(* longer than its buffer, no reference over a raw text, and comments are  *)
(* actions, as they are in the editor.                                     *)
(***************************************************************************)
ReadableSlot(slot) == slot \in [ref : {NoText}, raw : Name]
ReadableNode(node) ==
    /\ node.func # NoText
    /\ node.func = CommentString => node.type = Action
    /\ \A i \in DOMAIN node.params : ReadableSlot(node.params[i])
Readable(trig) ==
    trig.name # NoText /\ \A p \in DOMAIN trig.ecas : ReadableNode(trig.ecas[p])
AllActive(trig) == \A p \in DOMAIN trig.ecas : trig.ecas[p].active
=============================================================================
