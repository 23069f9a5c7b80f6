-------------------------- MODULE MCTriggerRegistry --------------------------
(***************************************************************************)
(* Instances of TriggerRegistry for TLC: a root with a folder and a        *)
(* trigger, a trigger in the folder, and ECAs with and without children.   *)
(***************************************************************************)
EXTENDS TriggerRegistry

Node(kind, kids) ==
    [kind |-> kind, kids |-> kids, params |-> 0, list |-> <<>>, type |-> 0, comment |-> FALSE,
     near |-> TRUE]
Eca(type, params, kids, comment) ==
    [Node("eca", kids) EXCEPT !.type = type, !.params = params, !.comment = comment]
List(list) == Array(list, TRUE)
Params == Node("params", 0)

Folders == <<Node("folder", 2), List(<<3, 4>>), Node("folder", 5), Node("trigger", 6),
             List(<<7>>), List(<<9, 10>>), Node("trigger", 8)>>

\* A comment in the first trigger.
Flat == Folders \o <<List(<<13>>), Eca(0, 0, 0, FALSE), Eca(2, 11, 0, TRUE), Params,
                     Params, Eca(2, 12, 0, FALSE)>>

\* A condition and an action with a child, and a comment that hides the latter.
Deep == Folders \o <<List(<<13>>), Eca(2, 11, 12, FALSE), Eca(1, 0, 0, FALSE), Params,
                     List(<<14>>), Eca(2, 0, 0, TRUE), Eca(2, 15, 0, FALSE), Params>>

MCHeaps == {Flat, Deep}
=============================================================================
