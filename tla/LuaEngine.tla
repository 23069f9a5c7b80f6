------------------------------ MODULE LuaEngine ------------------------------
(***************************************************************************)
(* The Lua engine inside the game (Plugin/Warcraft3/yd_lua_engine), with   *)
(* runtime.handle_level = 2 and runtime.sleep = true: the userdata that    *)
(* stand for the game's handles (class_handle.cpp), the coroutines that    *)
(* let a callback sleep (callback.cpp, libs_runtime.cpp), the hooks of     *)
(* native functions (libs_hook.cpp), and the collector of the Lua state,   *)
(* which may run at any of their allocations.  The map's script runs twice *)
(* (lua_loader.cpp): when the map is chosen, before the game has a machine *)
(* for Jass, and in the game.  One game is followed; a function set as a   *)
(* hook is not one that sleeps.                                            *)
(***************************************************************************)
EXTENDS Integers, Sequences, FiniteSets

CONSTANTS
    Handle,         \* the handles of the game a script meets
    Userdata,       \* the userdata there is room for
    Func,           \* the functions a script registers
    Thread,         \* the addresses of the game's threads
    Name,           \* the native functions a script hooks
    None,
    Original,       \* the game's own code of a native function
    MaxActs,        \* bound: callbacks started
    MaxSleeps,      \* bound: sleeps of one callback
    MaxDepth,       \* bound: callbacks inside callbacks
    MaxCollections  \* bound: cycles of the collector

\* A coroutine is known by the callback that created it and the sleeps it has
\* behind it.
Coroutine == [act : 1 .. MaxActs, slept : Nat]

\* What a thread of the game will go on with, and whether the collector ran or an
\* earlier sleep was cut off since (history).
Sleeper == [func : Func, act : 1 .. MaxActs, slept : Nat, odd : BOOLEAN]

ASSUME EngineAssumption ==
    /\ IsFiniteSet(Userdata)
    /\ None \notin Handle /\ None \notin Userdata /\ None \notin Func
    /\ None \notin Coroutine /\ None \notin Sleeper
    /\ Original \notin Func /\ Original # None
    /\ MaxActs \in Nat /\ MaxSleeps \in Nat /\ MaxDepth \in Nat /\ MaxCollections \in Nat

VARIABLES
    table,      \* _JASS_HANDLE_UD_TABLE: the userdata it holds for a handle
    of,         \* the handle a userdata stands for; None: free memory
    doomed,     \* the userdata collected, whose __gc has yet to run
    refs,       \* the references to a handle the engine has taken
    saved,      \* _JASS_THREAD_TABLE: the coroutine of a function and a thread
    sleeper,    \* what a sleeping thread of the game will call again
    stack,      \* the callbacks that run, innermost last
    crashed,    \* the game has crashed
    vm,         \* the game has a machine for Jass, with its table of natives
    stub,       \* jhook_t::base_: the function of a name's hook
    real,       \* jhook_t::real_func_; None: zero
    registered, \* once_hook_info_list: stubs for the next table; None: not in it
    native,     \* what the game calls for a name; None: the address zero
    acts, collections,
    \* history: handles asked for while a userdata of theirs awaited its __gc;
    \* functions and threads whose sleep the game has cut off; names hooked
    \* before there was a table
    late, orphans, early

handles == <<table, of, doomed, refs, late>>
callbacks == <<saved, sleeper, stack, acts, orphans>>
hooks == <<vm, stub, real, registered, native, early>>
vars == <<handles, callbacks, hooks, crashed, collections>>

Held == {u \in Userdata : of[u] # None} \ doomed
Standing(h) == {u \in Userdata : of[u] = h}

Init ==
    /\ table = [h \in Handle |-> None] /\ of = [u \in Userdata |-> None]
    /\ doomed = {} /\ refs = [h \in Handle |-> 0] /\ late = {}
    /\ saved = [p \in Func \X Thread |-> None]
    /\ sleeper = [j \in Thread |-> None] /\ stack = <<>> /\ crashed = FALSE
    /\ acts = 0 /\ orphans = {}
    /\ vm = FALSE /\ early = {}
    /\ stub = [n \in Name |-> None] /\ real = [n \in Name |-> None]
    /\ registered = [n \in Name |-> None] /\ native = [n \in Name |-> Original]
    /\ collections = 0

-----------------------------------------------------------------------------
(***************************************************************************)
(* Handles                                                                 *)
(***************************************************************************)

\* A fault: the table is not asked for the userdata there is.
PushAlways(h) ==
    /\ \E u \in Userdata :
          /\ of[u] = None
          /\ of' = [of EXCEPT ![u] = h] /\ table' = [table EXCEPT ![h] = u]
    /\ refs' = [refs EXCEPT ![h] = @ + 1]
    /\ late' = IF Standing(h) \cap doomed # {} THEN late \cup {h} ELSE late
    /\ UNCHANGED <<doomed, callbacks, hooks, crashed, collections>>

\* A handle reaches the script: as the userdata the table holds for it, if it
\* holds one, which changes nothing; else as a new one.
Push(h) ==
    /\ table[h] = None
    /\ \E u \in Userdata :
          /\ of[u] = None
          /\ of' = [of EXCEPT ![u] = h] /\ table' = [table EXCEPT ![h] = u]
    /\ refs' = [refs EXCEPT ![h] = @ + 1]
    /\ late' = IF Standing(h) \cap doomed # {} THEN late \cup {h} ELSE late
    /\ UNCHANGED <<doomed, callbacks, hooks, crashed, collections>>

\* A fault: the userdata is not taken off the list of those to finalize.
FinalizeAgain(u) ==
    /\ u \in doomed /\ of[u] # None
    /\ table' = [table EXCEPT ![of[u]] = None]
    /\ refs' = [refs EXCEPT ![of[u]] = @ - 1]
    /\ of' = [of EXCEPT ![u] = None]
    /\ UNCHANGED <<doomed, late, callbacks, hooks, crashed, collections>>

\* The __gc of a collected userdata empties the table's place for its handle,
\* whichever userdata is there.
Finalize(u) ==
    /\ u \in doomed
    /\ table' = [table EXCEPT ![of[u]] = None]
    /\ refs' = [refs EXCEPT ![of[u]] = @ - 1]
    /\ of' = [of EXCEPT ![u] = None] /\ doomed' = doomed \ {u}
    /\ UNCHANGED <<late, callbacks, hooks, crashed, collections>>

-----------------------------------------------------------------------------
(***************************************************************************)
(* Callbacks that sleep                                                    *)
(***************************************************************************)

\* thread_create: the coroutine saved for the function on this thread, or a new
\* one for the callback "act".
Resumed(f, j, act) ==
    IF saved[<<f, j>>] # None THEN saved[<<f, j>>] ELSE [act |-> act, slept |-> 0]

\* A fault: the coroutine found is left in the table.
RunKept(f, j, act, slept, odd) ==
    /\ Len(stack) < MaxDepth
    /\ stack' = Append(stack, [func |-> f, thread |-> j, act |-> act, slept |-> slept,
                               odd |-> odd, co |-> Resumed(f, j, act)])
    /\ saved' = saved
    /\ orphans' = orphans \ {<<f, j>>}
    /\ crashed' = FALSE

\* Having taken the coroutine out of the thread's table, the code asks lua_next
\* whether anything is left there, but of the coroutine below (index -2), whose
\* memory it reads as a table's.  When that looks like an empty table the
\* function and the table change places on the stack and the game crashes.
Run(f, j, act, slept, odd) ==
    /\ Len(stack) < MaxDepth
    /\ stack' = Append(stack, [func |-> f, thread |-> j, act |-> act, slept |-> slept,
                               odd |-> odd, co |-> Resumed(f, j, act)])
    /\ saved' = [saved EXCEPT ![<<f, j>>] = None]
    /\ orphans' = orphans \ {<<f, j>>}
    /\ crashed' \in {FALSE, saved[<<f, j>>] # None}

\* The game calls a function on a thread of its own, also from inside a callback.
Start(f, j) ==
    /\ acts < MaxActs /\ acts' = acts + 1
    /\ sleeper[j] = None /\ \A i \in DOMAIN stack : stack[i].thread # j
    /\ Run(f, j, acts', 0, <<f, j>> \in orphans)
    /\ UNCHANGED <<sleeper, handles, hooks, collections>>

\* A sleep is over: the game runs the same trampoline again.
Wake(j) ==
    /\ stack = <<>> /\ sleeper[j] # None
    /\ Run(sleeper[j].func, j, sleeper[j].act, sleeper[j].slept, sleeper[j].odd)
    /\ sleeper' = [sleeper EXCEPT ![j] = None]
    /\ UNCHANGED <<acts, handles, hooks, collections>>

\* The innermost callback calls a native that sleeps and yields: thread_save.
Sleep ==
    /\ stack # <<>>
    /\ LET top == stack[Len(stack)]
       IN  /\ top.slept < MaxSleeps
           /\ saved' = [saved EXCEPT ![<<top.func, top.thread>>] =
                            [top.co EXCEPT !.slept = @ + 1]]
           /\ sleeper' = [sleeper EXCEPT ![top.thread] =
                            [func |-> top.func, act |-> top.act, slept |-> top.slept + 1,
                             odd |-> top.odd]]
    /\ stack' = SubSeq(stack, 1, Len(stack) - 1)
    /\ UNCHANGED <<crashed, acts, orphans, handles, hooks, collections>>

\* The innermost callback returns, or ends with an error.
Return ==
    /\ stack # <<>>
    /\ stack' = SubSeq(stack, 1, Len(stack) - 1)
    /\ UNCHANGED <<saved, sleeper, crashed, acts, orphans, handles, hooks, collections>>

\* The game ends a thread in its sleep, with the trigger it belongs to.
Kill(j) ==
    /\ sleeper[j] # None
    /\ orphans' = orphans \cup {<<sleeper[j].func, j>>}
    /\ sleeper' = [sleeper EXCEPT ![j] = None]
    /\ UNCHANGED <<saved, stack, crashed, acts, handles, hooks, collections>>

-----------------------------------------------------------------------------
(***************************************************************************)
(* Hooks                                                                   *)
(***************************************************************************)

\* A fault: the hook is forgotten without being taken out of the game's table.
UninstallForget(n) ==
    /\ stub[n] # None
    /\ stub' = [stub EXCEPT ![n] = None]
    /\ UNCHANGED <<vm, real, registered, native, early, crashed>>

\* jass::unhook reports what it has done, which uninstall takes for a failure:
\* the stub stays, and install, which finds it, does nothing any more.  Without a
\* machine table_unhook, unlike table_hook, looks for the table at zero.
Uninstall(n) ==
    /\ stub[n] # None
    /\ native' = IF vm THEN [native EXCEPT ![n] = real[n]] ELSE native
    /\ crashed' = ~vm
    /\ UNCHANGED <<vm, stub, real, registered, early>>

\* Without a machine table_hook fails and the stub is registered for the table to
\* come: install reports a failure nobody reads, and real_func_ stays zero, in
\* whose place jass_call_native_function calls the original.
Install(n, f) ==
    /\ stub[n] = None
    /\ stub' = [stub EXCEPT ![n] = f]
    /\ \/ /\ vm
          /\ real' = [real EXCEPT ![n] = native[n]] /\ native' = [native EXCEPT ![n] = f]
          /\ UNCHANGED <<registered, early>>
       \/ /\ ~vm
          /\ registered' = [registered EXCEPT ![n] = f] /\ early' = early \cup {n}
          /\ UNCHANGED <<real, native>>
    /\ UNCHANGED <<vm, crashed>>

\* hook[name] = f, or nil.
SetHook(n, f) ==
    /\ \/ Uninstall(n)
       \/ f # None /\ Install(n, f)
    /\ UNCHANGED <<handles, callbacks, collections>>

\* The game has made its machine and filled the table.  First the Lua state of the
\* script's first run is closed: the __gc of each hook takes its registration back
\* and writes the zero it has for the original into the table.  Then the
\* registrations left are carried out.
OpenGame ==
    /\ ~vm /\ vm' = TRUE
    /\ LET left(n) == IF stub[n] # None THEN None ELSE registered[n]
       IN  native' = [n \in Name |-> IF left(n) # None THEN left(n)
                                     ELSE IF stub[n] # None THEN real[n] ELSE native[n]]
    /\ stub' = [n \in Name |-> None] /\ real' = [n \in Name |-> None]
    /\ registered' = [n \in Name |-> None]
    /\ UNCHANGED <<early, handles, callbacks, crashed, collections>>

-----------------------------------------------------------------------------
(***************************************************************************)
(* The collector.  Both tables are weak in keys and values: what only they *)
(* lead to is collected, the inner tables of _JASS_THREAD_TABLE with the   *)
(* coroutines in them always.  The entry of a collected userdata goes      *)
(* before its __gc runs.                                                   *)
(***************************************************************************)

Collect ==
    /\ collections < MaxCollections /\ collections' = collections + 1
    /\ \E dead \in SUBSET Held :
          /\ doomed' = doomed \cup dead
          /\ table' = [h \in Handle |-> IF table[h] \in dead THEN None ELSE table[h]]
    /\ saved' = [p \in Func \X Thread |-> None] /\ orphans' = {}
    /\ sleeper' = [j \in Thread |-> IF sleeper[j] = None THEN None
                                    ELSE [sleeper[j] EXCEPT !.odd = TRUE]]
    /\ UNCHANGED <<of, refs, late, stack, crashed, acts, hooks>>

Next ==
    /\ ~crashed
    /\ \/ OpenGame
       \/ \E n \in Name, f \in Func \cup {None} : SetHook(n, f)
       \/ vm /\ \/ \E h \in Handle : Push(h)
                \/ \E u \in Userdata : Finalize(u)
                \/ \E f \in Func, j \in Thread : Start(f, j)
                \/ \E j \in Thread : Wake(j) \/ Kill(j)
                \/ Sleep \/ Return \/ Collect

Spec == Init /\ [][Next]_vars

-----------------------------------------------------------------------------
(***************************************************************************)
(* Properties                                                              *)
(***************************************************************************)

Callback == [func : Func, thread : Thread, act : 1 .. MaxActs, slept : Nat, odd : BOOLEAN,
             co : Coroutine]

\* Every variable keeps its type; what awaits its __gc stands for a handle.
TypeOK ==
    /\ table \in [Handle -> Userdata \cup {None}]
    /\ of \in [Userdata -> Handle \cup {None}]
    /\ doomed \in SUBSET {u \in Userdata : of[u] # None}
    /\ refs \in [Handle -> Nat] /\ late \in SUBSET Handle
    /\ saved \in [Func \X Thread -> Coroutine \cup {None}]
    /\ sleeper \in [Thread -> Sleeper \cup {None}]
    /\ stack \in Seq(Callback)
    /\ crashed \in BOOLEAN /\ acts \in 0 .. MaxActs /\ orphans \in SUBSET (Func \X Thread)
    /\ stub \in [Name -> Func \cup {None}]
    /\ real \in [Name -> Func \cup {None, Original}]
    /\ vm \in BOOLEAN /\ early \in SUBSET Name
    /\ registered \in [Name -> Func \cup {None}]
    /\ native \in [Name -> Func \cup {None, Original}]
    /\ collections \in 0 .. MaxCollections

\* The engine holds one reference to a handle for each userdata that stands for
\* it, so that the game does not give the handle away while a script has it; and
\* there is one userdata only, which scripts use as a key of their tables, unless
\* a second was asked for while the first awaited its __gc (jhandle_ud_push,
\* jhandle_ud_gc).  example/JAPI/lua/runtime_init.lua, line 32: Lua adds to a
\* handle's reference count while it holds it and releases it in __gc.
HandlesSound ==
    \A h \in Handle : /\ refs[h] = Cardinality(Standing(h))
                      /\ h \notin late => refs[h] <= 1

Continues(r) == r.co = [act |-> r.act, slept |-> r.slept]

\* A callback goes on in its own coroutine where it went to sleep, and a new one
\* begins at its beginning, unless the collector ran during a sleep or the game
\* cut an earlier sleep of the same function on that thread off (thread_create,
\* thread_save).
ResumesOwn == \A i \in DOMAIN stack : stack[i].odd \/ Continues(stack[i])

\* However hooks are set and removed, in both runs of the script, the game never
\* calls a stub that is gone or whose Lua state is closed, and a hook never takes
\* a stub for the original function; only where the first run set a hook can the
\* table be left with no function at all (jhook_t::install, uninstall, jass::hook,
\* nfunction_hook).
HookSound ==
    \A n \in Name : /\ native[n] \in Func => native[n] = stub[n]
                    /\ real[n] \notin Func
                    /\ native[n] = None => n \in early

-----------------------------------------------------------------------------
(***************************************************************************)
(* What the comments say                                                   *)
(***************************************************************************)

\* example/JAPI/lua/runtime_init.lua, lines 42-44: when runtime.sleep is true, the
\* four functions that sleep are executed correctly.
SleepContinues == \A i \in DOMAIN stack : stack[i].slept > 0 => Continues(stack[i])
=============================================================================
