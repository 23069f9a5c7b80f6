---------------------------- MODULE MCPendingSave ----------------------------
(***************************************************************************)
(* Instances of PendingSave for TLC: an open map and a closed one, two     *)
(* object files, two edits, two globals.                                   *)
(***************************************************************************)
EXTENDS PendingSave, TLC

CONSTANTS m1, m2, f1, f2, e1, e2, g1, g2, v1, v2

MCMap == {m1, m2}
MCFile == {f1, f2}
MCEdit == {e1, e2}
MCGlobal == {g1, g2}
MCValue == {v1, v2}
OneFile == {f1}
OneGlobal == {g1}

OtherMap == {<<m2, f1>>}
NoEntry == {}

ReadObject(m, f) == [kind |-> "object.read", map |-> m, file |-> f]
SetField(m, f, e) == [kind |-> "object_set_field", map |-> m, file |-> f, edit |-> e]
SetGlobal(g, v) == [kind |-> "set_global_value", global |-> g, value |-> v]
ClearObjects(keys) == [kind |-> "clear_pending_objects", keys |-> keys]
ClearGlobals(keys) == [kind |-> "clear_pending_globals", keys |-> keys]

ObjectOps == {ReadObject(m, f1) : m \in MCMap} \cup {SetField(m1, f, e) : f \in MCFile, e \in MCEdit}
             \cup {SetField(m2, f2, e1), ClearObjects({<<m1, f1>>}), ClearObjects(Objects)}
AllOps == ObjectOps \cup {SetGlobal(g1, v1), SetGlobal(g1, v2), SetGlobal(g2, v1),
                          ClearGlobals({<<m1, g1>>}), ClearGlobals({<<m2, g1>>})}
OverlapOps == {SetField(m1, f1, e1), SetField(m1, f1, e2), SetGlobal(g1, v1),
               ReadObject(m1, f1), ClearObjects({<<m2, f1>>})}
OnlySetFields == {SetField(m1, f1, e) : e \in MCEdit}
=============================================================================
