--------------------------- MODULE TriggerRegistry ---------------------------
(***************************************************************************)
(* The trigger tree of the editor as the native trigger API sees it        *)
(* (AgentAPI.cpp): cells on the heap that point to each other.  A node (a  *)
(* folder, a trigger or an ECA) points to the array of its children and an *)
(* ECA to its parameters; the API keeps the addresses of the triggers it   *)
(* has seen, and allocates, copies and frees cells of a tree that belongs  *)
(* to the editor, whose user deletes triggers and opens other maps between *)
(* the calls: nothing tells the API of it.                                 *)
(*                                                                         *)
(* An address is a number, never used twice, so that an address in use     *)
(* that is not in the heap is one that was freed.  0 is the null pointer.  *)
(***************************************************************************)
EXTENDS Naturals, FiniteSets, SequencesExt

CONSTANTS
    Root,       \* the root of the tree
    Heaps,      \* the maps, each the heap of a session that starts with it
    MaxCells, MaxCalls  \* bounds, the second on the calls and the user's steps

Type == 0 .. 2
Address == 1 .. MaxCells
Pointer == 0 .. MaxCells
Kind == {"folder", "trigger", "eca", "array", "params"}

\* "comment" marks an active CommentString, which additions like to copy; "near"
\* says whether the address lies in the range is_valid_node accepts, which an
\* allocation of the API may or may not do.
Cell == [kind : Kind, kids : Pointer, params : Pointer, list : Seq(Address), type : Type,
         comment : BOOLEAN, near : BOOLEAN]

\* The children of a node of a heap.
ListOf(h, n) == IF n \in DOMAIN h /\ h[n].kids \in DOMAIN h THEN h[h[n].kids].list ELSE <<>>

NodeKind == {"folder", "trigger", "eca"}
\* What may be listed in a node.
Below == [folder |-> {"folder", "trigger"}, trigger |-> {"eca"}, eca |-> {"eca"}]

\* A tree as the editor builds it: folders of folders and triggers below one
\* root, triggers of ECAs, ECAs of ECAs; nothing has two owners.
Tree(h) ==
    LET nodes == {n \in DOMAIN h : h[n].kind \in NodeKind}
        folders == {n \in nodes : h[n].kind = "folder"}
        kids(n) == ToSet(ListOf(h, n))
    IN  /\ DOMAIN h \subseteq Address /\ \A n \in DOMAIN h : h[n] \in Cell
        /\ Root \in folders
        /\ \A n \in nodes :
              /\ h[n].kids # 0 => h[n].kids \in DOMAIN h /\ h[h[n].kids].kind = "array"
              /\ h[n].params # 0 =>
                    h[n].kind = "eca" /\ h[n].params \in DOMAIN h /\ h[h[n].params].kind = "params"
              /\ IsInjective(ListOf(h, n))
              /\ \A k \in kids(n) : k \in DOMAIN h /\ h[k].kind \in Below[h[n].kind]
        /\ \A m, n \in nodes : m # n =>
              /\ h[m].kids # 0 => h[m].kids # h[n].kids
              /\ h[m].params # 0 => h[m].params # h[n].params
              /\ kids(m) \cap kids(n) = {}
        /\ \A f \in folders \ {Root} : \E g \in folders : f \in kids(g)
        /\ \E rank \in [folders -> Address] :
              \A f \in folders : \A k \in kids(f) \cap folders : rank[k] < rank[f]

ASSUME RegistryAssumption ==
    /\ MaxCells \in Nat /\ MaxCalls \in Nat /\ Root \in Address
    /\ \A h \in Heaps : Tree(h) /\ \E last \in Address : h \in [1 .. last -> Cell]

VARIABLES
    heap,       \* the cells there are
    cache,      \* g_triggers
    next,       \* the address of the next allocation
    misuse,     \* an address that was freed has been used or freed again
    astray,     \* a call has done what nothing in the code prevents: copied a
                \* node with its children, or freed a trigger still listed
    misled,     \* a call has taken for the root a node that is no folder
    gone,       \* the triggers the user has removed since the cache was filled
    calls
vars == <<heap, cache, next, misuse, astray, misled, gone, calls>>

-----------------------------------------------------------------------------
Live == DOMAIN heap
Nodes == {n \in Live : heap[n].kind \in NodeKind}
Of(kind) == {n \in Live : heap[n].kind = kind}
Readable(n) == n \in Live /\ heap[n].kids \in Live \cup {0}
Kids(n) == ListOf(heap, n)

\* is_valid_node: the cell and the array of its children lie near the program.
Valid(n) == heap[n].near /\ (heap[n].kids \in Live => heap[heap[n].kids].near)

\* A fault: a trigger is what begins with an event.
FirstIsEvent(n) ==
    Kids(n) # <<>> /\ Kids(n)[1] \in Live
    /\ heap[Kids(n)[1]].kind = "eca" /\ heap[Kids(n)[1]].type = 0

\* node_is_trigger: the first child is an ECA, so a trigger has to have one.
IsTrigger(n) == Kids(n) # <<>> /\ Kids(n)[1] \in Live /\ heap[Kids(n)[1]].kind = "eca"

\* The elements of a sequence that are in a set, in their order.
Among(s, S) ==
    LET among[i \in 0 .. Len(s)] ==
            IF i = 0 THEN <<>>
            ELSE IF s[i] \in S THEN Append(among[i - 1], s[i]) ELSE among[i - 1]
    IN  among[Len(s)]

\* The children of a node but for one.
Rest(n, k) == Among(Kids(n), ToSet(Kids(n)) \ {k})

\* The nodes a traversal of the tree visits, depth first, that goes into the
\* nodes of Into: the children of a node come before what was left to do.  No
\* node is visited twice, so MaxCells steps are enough.
Visited(v, Into) ==
    IF v.todo = <<>> THEN v
    ELSE [done |-> Append(v.done, Head(v.todo)),
          todo |-> (IF Head(v.todo) \in Into THEN Kids(Head(v.todo)) ELSE <<>>) \o Tail(v.todo)]
Visits(root, Into) ==
    LET visits[k \in 0 .. MaxCells] ==
            IF k = 0 THEN [done |-> <<>>, todo |-> <<root>>] ELSE Visited(visits[k - 1], Into)
    IN  visits[MaxCells].done

\* walk_tree goes into valid nodes and stops at triggers, which it lists.
Walked(root) == Visits(root, {n \in Live : Valid(n) /\ ~IsTrigger(n)})
Walk(root) == Among(Walked(root), {n \in Live : Valid(n) /\ IsTrigger(n)})
WalkReadable(root) == root = 0 \/ \A n \in ToSet(Walked(root)) : Readable(n)

\* The triggers a compile visits, with and without children.
Compiled == Among(Visits(Root, Of("folder")), Of("trigger"))

\* The nodes a node leads to; a compile reads every one of the root.
Onward(nodes) == nodes \cup UNION {ToSet(Kids(n)) : n \in nodes}
Under(root) ==
    LET reach[k \in 0 .. MaxCells] == IF k = 0 THEN {root} ELSE Onward(reach[k - 1])
    IN  reach[MaxCells]
TreeReadable == \A n \in Under(Root) : Readable(n)

\* The known offsets hold the root's address.  When the root does not look valid
\* or is empty, the scans take any node, a trigger or an ECA as well as a folder,
\* with a valid first child, or find nothing.
Likely(n) == Valid(n) /\ Kids(n) # <<>>
Roots ==
    IF Likely(Root) THEN {Root}
    ELSE {n \in Nodes : Likely(n) /\ (Kids(n)[1] \in Live => Valid(Kids(n)[1]))} \cup {0}

\* Every trigger of the cache can be searched for ECAs.
Searchable(t) == Readable(t) /\ \A e \in ToSet(Kids(t)) : Readable(e)
CacheReadable == \A t \in ToSet(cache) : Searchable(t)

Init ==
    /\ heap \in Heaps
    /\ cache = <<>> /\ next = Cardinality(Live) + 1
    /\ misuse = FALSE /\ astray = FALSE /\ misled = FALSE /\ gone = {} /\ calls = 0

-----------------------------------------------------------------------------
(***************************************************************************)
(* The exported functions, each on the worker's thread                     *)
(***************************************************************************)

\* What a program does after it has used freed memory, or has listed the children
\* of what is no folder or put a trigger there, is not followed.
Goes == ~misuse /\ ~misled /\ calls < MaxCalls /\ calls' = calls + 1
Call(readable) == Goes /\ misuse' = ~readable
Found(root) == misled' = (root \notin Of("folder") \cup {0})
Lost == misuse' \/ misled'

Without(cells) == [n \in Live \ cells |-> heap[n]]

\* New cells, from the address "next" on.
Place(h, cells) ==
    [n \in DOMAIN h \cup (next .. next + Len(cells) - 1) |->
        IF n \in DOMAIN h THEN h[n] ELSE cells[n - next + 1]]
Array(list, near) ==
    [kind |-> "array", kids |-> 0, params |-> 0, list |-> list, type |-> 0, comment |-> FALSE,
     near |-> near]

\* ydt_refresh empties the cache first, so that it has no trigger left to search
\* a root from.
Refresh ==
    /\ gone' = {}
    /\ UNCHANGED <<heap, next, astray>>
    /\ \E root \in Roots :
          /\ Call(WalkReadable(root)) /\ Found(root)
          /\ cache' = IF root = 0 \/ Lost THEN <<>> ELSE Walk(root)

\* CC_Main clears the captured triggers, CC_PutTrigger captures each.
Compile ==
    /\ Call(TreeReadable)
    /\ cache' = IF misuse' THEN <<>> ELSE Compiled
    /\ gone' = {}
    /\ UNCHANGED <<heap, next, astray, misled>>

OfType(t, type) == Among(Kids(t), {e \in Live : heap[e].type = type})
Comments(t) == Among(Kids(t), {e \in Live : heap[e].comment})
FirstOf(seqs) ==
    LET k == CHOOSE k \in DOMAIN seqs : seqs[k] # <<>> /\ \A j \in 1 .. k - 1 : seqs[j] = <<>>
    IN  Head(seqs[k])

\* find_comment_string_template, otherwise the first ECA of the type in the
\* trigger itself or in the others.  The search goes over active comments of
\* whatever type they are.
Source(i, type) ==
    LET comments == [k \in DOMAIN cache |-> Comments(cache[k])]
        alike == [k \in DOMAIN cache |-> OfType(cache[k], type)]
    IN  IF type = 2 /\ \E k \in DOMAIN cache : comments[k] # <<>> THEN FirstOf(comments)
        ELSE IF alike[i] # <<>> THEN Head(alike[i])
        ELSE FirstOf(alike)

\* ydt_add_eca and add_eca_to_trigger: the copy has parameters of its own, but
\* the children of its source, and the old array is left behind.
AddEca(i, type) ==
    /\ i \in DOMAIN cache /\ Call(CacheReadable)
    /\ IF misuse' \/ \A k \in DOMAIN cache : OfType(cache[k], type) = <<>>
       THEN UNCHANGED <<heap, next, astray>>
       ELSE /\ next + 2 <= MaxCells
            /\ \E near \in BOOLEAN :
                  LET trig == cache[i]
                      node == heap[Source(i, type)]
                      params == IF node.params = 0 THEN <<>>
                                ELSE <<[heap[node.params] EXCEPT !.near = near]>>
                      cells == <<[node EXCEPT !.params = IF params = <<>> THEN 0 ELSE next + 2,
                                              !.near = near],
                                 Array(Append(Kids(trig), next), near)>> \o params
                  IN  /\ heap' = Place([heap EXCEPT ![trig].kids = next + 1], cells)
                      /\ next' = next + Len(cells)
                      /\ astray' = (astray \/ node.kids # 0)
    /\ UNCHANGED <<cache, misled, gone>>

\* An ECA with its parameters, and the array of its children with theirs.
Parts(e) == {e} \cup ({heap[e].params} \ {0})
Nested(e) == ({heap[e].kids} \ {0}) \cup UNION {Parts(k) : k \in ToSet(Kids(e)) \cap Live}
Removable(e) == Nested(e) \cup Parts(e) \cup ToSet(Kids(e)) \subseteq Live

\* A fault: one slot too many is copied to the new array.
RemoveEcaSlot(i, type, k) ==
    /\ i \in DOMAIN cache /\ Call(CacheReadable)
    /\ k \in DOMAIN OfType(cache[i], type) /\ next <= MaxCells
    /\ LET trig == cache[i]
           e == OfType(trig, type)[k]
       IN  heap' = Place([Without(Parts(e)) EXCEPT ![trig].kids = next],
                         <<Array(Append(Rest(trig, e), 0), TRUE)>>)
    /\ next' = next + 1
    /\ UNCHANGED <<cache, astray, misled, gone>>

\* A fault: the array of the trigger stays, with the freed node in it.
RemoveEcaOnly(i, type, k) ==
    /\ i \in DOMAIN cache /\ Call(CacheReadable)
    /\ k \in DOMAIN OfType(cache[i], type)
    /\ heap' = Without(Parts(OfType(cache[i], type)[k]))
    /\ UNCHANGED <<cache, next, astray, misled, gone>>

\* ydt_remove_eca frees both and the old array.
RemoveEca(i, type, k) ==
    /\ i \in DOMAIN cache
    /\ LET trig == cache[i]
           ecas == OfType(trig, type)
           e == ecas[k]
       IN  /\ Call(Searchable(trig) /\ (k \in DOMAIN ecas => Removable(e)))
           /\ IF misuse' \/ k \notin DOMAIN ecas
              THEN UNCHANGED <<heap, next>>
              ELSE LET rest == Rest(trig, e)
                       left == Without(Parts(e) \cup Nested(e) \cup {heap[trig].kids})
                   IN  IF rest = <<>>
                       THEN heap' = [left EXCEPT ![trig].kids = 0] /\ UNCHANGED next
                       ELSE /\ next <= MaxCells
                            /\ \E near \in BOOLEAN :
                                  heap' = Place([left EXCEPT ![trig].kids = next], <<Array(rest, near)>>)
                            /\ next' = next + 1
    /\ UNCHANGED <<cache, astray, misled, gone>>

\* A fault: the copy keeps the children of the trigger it is made from.
CreateTriggerFull ==
    /\ cache # <<>> /\ Call(Readable(cache[1]))
    /\ next + 1 <= MaxCells
    /\ LET list == Append(Kids(Root), next)
       IN  heap' = Place([heap EXCEPT ![Root].kids = next + 1], <<heap[cache[1]], Array(list, TRUE)>>)
    /\ next' = next + 2
    /\ cache' = Append(cache, next)
    /\ UNCHANGED <<astray, misled, gone>>

\* ydt_create_trigger copies the first trigger, without its children; the copy
\* goes to the end of the root found, if there is one, and of the cache.
CreateTrigger ==
    /\ cache # <<>> /\ Call(cache[1] \in Live)
    /\ \E root \in Roots, near \in BOOLEAN :
          LET trig == [heap[cache[1]] EXCEPT !.kids = 0, !.near = near]
          IN  /\ Found(root)
              /\ IF Lost
                 THEN UNCHANGED <<heap, next, cache>>
                 ELSE /\ next + 1 <= MaxCells
                      /\ heap' = IF root = 0 THEN Place(heap, <<trig>>)
                                 ELSE Place([heap EXCEPT ![root].kids = next + 1],
                                            <<trig, Array(Append(Kids(root), next), near)>>)
                      /\ next' = next + 2
                      /\ cache' = Append(cache, next)
    /\ UNCHANGED <<astray, gone>>

\* A fault: the entry of the cache stays.
DeleteTriggerOnly(i) ==
    /\ i \in DOMAIN cache /\ Call(Readable(cache[i]))
    /\ cache[i] \in ToSet(Kids(Root))
    /\ heap' = [Without({cache[i]}) EXCEPT
                    ![heap[Root].kids].list = Rest(Root, cache[i])]
    /\ UNCHANGED <<cache, next, astray, misled, gone>>

Listed(t) == \E n \in Nodes : t \in ToSet(Kids(n))

\* ydt_delete_trigger: the trigger leaves the children of the root found, if it
\* is one of them, and is freed with its ECAs, whose parameters and children
\* stay behind.
DeleteTrigger(i) ==
    /\ i \in DOMAIN cache
    /\ LET trig == cache[i]
       IN  /\ Call(Readable(trig) /\ ToSet(Kids(trig)) \subseteq Live)
           /\ IF misuse'
              THEN UNCHANGED <<heap, next, cache, astray>>
              ELSE /\ next <= MaxCells
                   /\ \E root \in Roots, near \in BOOLEAN :
                         LET rest == Rest(root, trig)
                             left == Without({trig, heap[trig].kids} \cup ToSet(Kids(trig)))
                         IN  /\ heap' = IF trig \notin ToSet(Kids(root)) THEN left
                                        ELSE IF rest = <<>> THEN [left EXCEPT ![root].kids = 0]
                                        ELSE Place([left EXCEPT ![root].kids = next],
                                                   <<Array(rest, near)>>)
                             /\ astray' = (astray \/ (Listed(trig) /\ trig \notin ToSet(Kids(root))))
                   /\ next' = next + 1
                   /\ cache' = RemoveAt(cache, i)
    /\ UNCHANGED <<misled, gone>>

-----------------------------------------------------------------------------
(***************************************************************************)
(* The user, in the editor's own windows.  The editor frees what it takes  *)
(* out of its tree and leaves a tree; what it does with one that a call    *)
(* has broken is not followed.  Steps that free no trigger are left out.   *)
(***************************************************************************)
CellsOf(nodes) ==
    (nodes \cup {heap[n].kids : n \in nodes} \cup {heap[n].params : n \in nodes}) \ {0}

Edited(h) ==
    /\ Tree(h) = TRUE  \* one step, however many ranks the folders could be given
    /\ heap' = h /\ gone' = gone \cup (Of("trigger") \ DOMAIN h)
    /\ UNCHANGED <<cache, misuse, astray, misled>>

\* The user deletes a trigger.
UserDeletes(f, t) ==
    /\ Goes /\ t \in ToSet(Kids(f)) /\ TreeReadable
    /\ Edited([Without(CellsOf(Under(t))) EXCEPT ![heap[f].kids].list = Rest(f, t)])
    /\ UNCHANGED next

\* The user opens another map: its cells come after all that there were, but for
\* the root, which stays where it is.
Moved(n) == IF n \in {0, Root} THEN n ELSE next - 1 + n
Copied(cell) ==
    [cell EXCEPT !.kids = Moved(@), !.params = Moved(@),
                 !.list = [k \in DOMAIN @ |-> Moved(@[k])]]
UserOpens(map) ==
    /\ Goes /\ next - 1 + Cardinality(DOMAIN map) <= MaxCells /\ TreeReadable
    /\ LET kept == Live \ CellsOf(Under(Root))
           new == {n \in DOMAIN map : n # Root}
       IN  Edited([n \in kept \cup {Root} \cup {Moved(m) : m \in new} |->
                       IF n \in kept THEN heap[n]
                       ELSE Copied(map[IF n = Root THEN Root ELSE n - (next - 1)])])
    /\ next' = next + Cardinality(DOMAIN map)

Next ==
    \/ Refresh \/ Compile \/ CreateTrigger
    \/ \E f \in Of("folder"), t \in Of("trigger") : UserDeletes(f, t)
    \/ \E map \in Heaps : UserOpens(map)
    \/ \E i \in DOMAIN cache :
          \/ DeleteTrigger(i)
          \/ \E type \in Type :
                AddEca(i, type) \/ \E k \in 1 .. Len(Kids(cache[i])) + 1 : RemoveEca(i, type, k)

Spec == Init /\ [][Next]_vars

-----------------------------------------------------------------------------
(***************************************************************************)
(* Properties                                                              *)
(***************************************************************************)

\* Every cell and every cached address keeps its type; no array has an empty
\* slot.
TypeOK ==
    /\ Live \subseteq Address /\ \A n \in Live : heap[n] \in Cell
    /\ cache \in Seq(Address)
    /\ next \in 1 .. MaxCells + 2
    /\ misuse \in BOOLEAN /\ astray \in BOOLEAN /\ misled \in BOOLEAN
    /\ gone \subseteq Address /\ calls \in 0 .. MaxCalls

\* Unless a call has gone astray or was misled, no function has read or freed what
\* was freed, save through an index whose trigger the user has removed, and the
\* editor can follow every pointer of every node it still has (add_eca_to_trigger,
\* ydt_remove_eca, ydt_create_trigger, delete_trigger_impl).
TreeSound ==
    ~astray /\ ~misled =>
        /\ misuse => ToSet(cache) \cap gone # {}
        /\ \A n \in Nodes :
              /\ heap[n].kids # 0 => heap[n].kids \in Live /\ heap[heap[n].kids].kind = "array"
              /\ ToSet(Kids(n)) \subseteq Nodes
              /\ heap[n].params # 0 => heap[n].params \in Live /\ heap[heap[n].params].kind = "params"

\* Unless a call has gone astray or was misled, no two nodes have an array, a
\* parameter or a child in common, so that freeing one leaves the other whole
\* (add_eca_to_trigger, ydt_create_trigger).
Unshared ==
    ~astray /\ ~misled =>
        \A m, n \in Nodes : m # n =>
            /\ heap[m].kids # 0 => heap[m].kids # heap[n].kids
            /\ heap[m].params # 0 => heap[m].params # heap[n].params
            /\ ToSet(Kids(m)) \cap ToSet(Kids(n)) = {}

\* Only the user makes an index stale, and a refresh or a compile mends it: each
\* index of the cache, even after a call has gone astray, names a trigger that
\* exists or one the user has removed since the cache was filled, and each trigger
\* has one index, unless the scan took what is no folder for the root (g_triggers).
CacheSound ==
    ~misled => IsInjective(cache) /\ ToSet(cache) \ Of("trigger") \subseteq gone

\* While everything lies near the program, a refresh that finds the root lists the
\* triggers in the order of the last compile, without the empty ones (walk_tree,
\* agent_api_add_trigger).
RefreshAgrees ==
    [][Refresh /\ ~Lost /\ (\A n \in Live : heap[n].near) =>
        cache' = Among(Compiled, {t \in Live : Kids(t) # <<>>})]_vars
=============================================================================
