--------------------------- MODULE LuaEngineProofs ---------------------------
(***************************************************************************)
(* Proofs about LuaEngine, for any handles, functions, threads and bounds: *)
(* references to handles balance, callbacks go on as themselves, hooks     *)
(* never dangle.  The three parts of the state share nothing but the       *)
(* collector, so each has an invariant of its own.                         *)
(***************************************************************************)
EXTENDS LuaEngine, FiniteSetTheorems, TLAPS

-----------------------------------------------------------------------------
(***************************************************************************)
(* Hooks                                                                   *)
(***************************************************************************)

HookTypes ==
    /\ vm \in BOOLEAN /\ early \in SUBSET Name
    /\ stub \in [Name -> Func \cup {None}]
    /\ real \in [Name -> Func \cup {None, Original}]
    /\ registered \in [Name -> Func \cup {None}]
    /\ native \in [Name -> Func \cup {None, Original}]

\* Without a machine the table is untouched and what is registered has its stub.  In
\* the game a hook is made from the original, or from the zero the first run left,
\* and the table is back at that or at the stub there is.
HookPlaces ==
    \A n \in Name :
        /\ real[n] \notin Func /\ (real[n] = None /\ vm /\ stub[n] # None => n \in early)
        /\ ~vm => native[n] = Original /\ real[n] = None
        /\ registered[n] # None => ~vm /\ registered[n] = stub[n]
        /\ ~vm /\ stub[n] # None => n \in early
        /\ native[n] = None => n \in early
        /\ native[n] \in Func => native[n] = stub[n]

HookInv == HookTypes /\ HookPlaces

LEMMA HookStep ==
    ASSUME HookInv, [Next]_vars
    PROVE  HookInv'
<1> USE EngineAssumption DEF EngineAssumption
<1>1. ASSUME NEW n \in Name, Uninstall(n) PROVE HookInv'
    <2>1. HookTypes'
        BY <1>1 DEF HookInv, HookTypes, Uninstall
    <2>2. HookPlaces'
        BY <1>1 DEF HookInv, HookTypes, HookPlaces, Uninstall
    <2> QED
        BY <2>1, <2>2 DEF HookInv
<1>2. ASSUME NEW n \in Name, NEW f \in Func, Install(n, f) PROVE HookInv'
    <2>1. CASE vm
        <3>1. /\ stub[n] = None /\ stub' = [stub EXCEPT ![n] = f]
              /\ real' = [real EXCEPT ![n] = native[n]] /\ native' = [native EXCEPT ![n] = f]
              /\ registered' = registered /\ early' = early /\ vm' = vm
            BY <1>2, <2>1 DEF Install
        <3>2. HookTypes'
            BY <2>1, <3>1 DEF HookInv, HookTypes
        <3>3. HookPlaces'
            BY <2>1, <3>1 DEF HookInv, HookTypes, HookPlaces
        <3> QED
            BY <3>2, <3>3 DEF HookInv
    <2>2. CASE ~vm
        <3>1. /\ stub' = [stub EXCEPT ![n] = f] /\ registered' = [registered EXCEPT ![n] = f]
              /\ early' = early \cup {n} /\ real' = real /\ native' = native /\ vm' = vm
            BY <1>2, <2>2 DEF Install
        <3>2. HookTypes'
            BY <2>2, <3>1 DEF HookInv, HookTypes
        <3>3. HookPlaces'
            BY <2>2, <3>1 DEF HookInv, HookTypes, HookPlaces
        <3> QED
            BY <3>2, <3>3 DEF HookInv
    <2> QED
        BY <2>1, <2>2
<1>3. ASSUME UNCHANGED hooks PROVE HookInv'
    BY <1>3 DEF HookInv, HookTypes, HookPlaces, hooks
<1>9. ASSUME OpenGame PROVE HookInv'
    <2>1. /\ ~vm /\ vm' = TRUE /\ early' = early
          /\ stub' = [n \in Name |-> None] /\ real' = [n \in Name |-> None]
          /\ registered' = [n \in Name |-> None]
        BY <1>9 DEF OpenGame
    <2>2. native' = [n \in Name |-> IF stub[n] # None THEN real[n] ELSE native[n]]
        BY <1>9 DEF HookInv, HookPlaces, OpenGame
    <2>3. HookTypes'
        BY <2>1, <2>2 DEF HookInv, HookTypes
    <2>4. HookPlaces'
        BY <2>1, <2>2 DEF HookInv, HookTypes, HookPlaces
    <2> QED
        BY <2>3, <2>4 DEF HookInv
<1>4. ASSUME NEW n \in Name, NEW f \in Func \cup {None}, SetHook(n, f) PROVE HookInv'
    BY <1>1, <1>2, <1>4 DEF SetHook
<1>5. ASSUME NEW f \in Func, NEW j \in Thread, Start(f, j) PROVE UNCHANGED hooks
    BY <1>5 DEF Start
<1>6. ASSUME NEW j \in Thread, Wake(j) \/ Kill(j) PROVE UNCHANGED hooks
    BY <1>6 DEF Wake, Kill
<1>7. ASSUME Sleep \/ Return \/ Collect \/ UNCHANGED vars PROVE UNCHANGED hooks
    BY <1>7 DEF Sleep, Return, Collect, vars
<1>8. ASSUME (\E h \in Handle : Push(h)) \/ (\E u \in Userdata : Finalize(u)) PROVE UNCHANGED hooks
    BY <1>8 DEF Push, Finalize
<1> QED
    BY <1>3, <1>4, <1>5, <1>6, <1>7, <1>8, <1>9 DEF Next

LEMMA HookAlways == Spec => []HookInv
<1>1. Init => HookInv
    BY EngineAssumption DEF Init, HookInv, HookTypes, HookPlaces, EngineAssumption
<1> QED
    BY <1>1, HookStep, PTL DEF Spec

\* In any order of setting, setting again and removing hooks, before the game and in
\* it, the game's table of natives names the original, a stub that exists or, where
\* the first run set a hook, nothing; what a stub takes for the original is no stub
\* (jhook_t::install, uninstall, mt_newindex, jass::hook).
THEOREM HooksNeverDangle == Spec => []HookSound
<1>1. HookInv => HookSound
    BY DEF HookInv, HookPlaces, HookSound
<1> QED
    BY <1>1, HookAlways, PTL

-----------------------------------------------------------------------------
(***************************************************************************)
(* Handles                                                                 *)
(***************************************************************************)

\* The types, without the one of refs, which needs the count below.
HandleTypes ==
    /\ table \in [Handle -> Userdata \cup {None}]
    /\ of \in [Userdata -> Handle \cup {None}]
    /\ doomed \in SUBSET Userdata /\ \A u \in doomed : of[u] # None
    /\ refs \in [Handle -> Nat] /\ late \in SUBSET Handle

\* The table holds userdata that are alive and stand for their handle.  For a
\* handle that is not late every other userdata of it awaits its __gc, and there
\* is at most one in all.
TableInv ==
    \A h \in Handle :
        /\ table[h] # None => of[table[h]] = h /\ table[h] \notin doomed
        /\ h \notin late =>
              /\ \A u \in Userdata : of[u] = h => u = table[h] \/ u \in doomed
              /\ \A u, v \in Userdata : of[u] = h /\ of[v] = h => u = v

Counted == \A h \in Handle : refs[h] = Cardinality(Standing(h))

HandleInv == HandleTypes /\ TableInv /\ Counted

LEMMA StandingFinite ==
    ASSUME NEW h PROVE IsFiniteSet(Standing(h)) /\ Cardinality(Standing(h)) \in Nat
<1>1. Standing(h) \in SUBSET Userdata
    BY DEF Standing
<1>2. IsFiniteSet(Userdata)
    BY EngineAssumption DEF EngineAssumption
<1>3. IsFiniteSet(Standing(h))
    BY <1>1, <1>2, FS_Subset
<1> QED
    BY <1>3, FS_CardinalityType

\* The collector turns live userdata into doomed ones and touches no count.
LEMMA CollectHandles ==
    ASSUME HandleInv, Collect
    PROVE  HandleInv'
<1> USE EngineAssumption DEF EngineAssumption
<1>1. PICK dead \in SUBSET Held :
          /\ doomed' = doomed \cup dead
          /\ table' = [h \in Handle |-> IF table[h] \in dead THEN None ELSE table[h]]
    BY Zenon DEF Collect
<1>2. of' = of /\ refs' = refs /\ late' = late
    BY DEF Collect
<1>3. \A u \in dead : u \in Userdata /\ of[u] # None
    BY DEF Held
<1>4. HandleTypes'
    BY <1>1, <1>2, <1>3 DEF HandleInv, HandleTypes
<1>5. TableInv'
    BY <1>1, <1>2, <1>3 DEF HandleInv, HandleTypes, TableInv
<1>6. Counted'
    BY <1>2 DEF HandleInv, Counted, Standing
<1> QED
    BY <1>4, <1>5, <1>6 DEF HandleInv

\* A new userdata: the table was empty for the handle, so when none awaits its
\* __gc there is none at all.
LEMMA PushHandles ==
    ASSUME HandleInv, NEW g \in Handle, Push(g)
    PROVE  HandleInv'
<1> USE EngineAssumption DEF EngineAssumption
<1>1. PICK w \in Userdata : /\ of[w] = None
                            /\ of' = [of EXCEPT ![w] = g] /\ table' = [table EXCEPT ![g] = w]
    BY DEF Push
<1>2. /\ table[g] = None /\ refs' = [refs EXCEPT ![g] = @ + 1] /\ doomed' = doomed
      /\ late' = IF Standing(g) \cap doomed # {} THEN late \cup {g} ELSE late
    BY DEF Push
<1>3. w \notin doomed
    BY <1>1 DEF HandleInv, HandleTypes
<1>4. HandleTypes'
    BY <1>1, <1>2, <1>3 DEF HandleInv, HandleTypes
<1>5. ASSUME g \notin late' PROVE \A u \in Userdata : of[u] # g
    BY <1>2, <1>5 DEF HandleInv, HandleTypes, TableInv, Standing
<1>6. TableInv'
    <2> SUFFICES ASSUME NEW h \in Handle
                 PROVE /\ table'[h] # None => of'[table'[h]] = h /\ table'[h] \notin doomed'
                       /\ h \notin late' =>
                            /\ \A u \in Userdata : of'[u] = h => u = table'[h] \/ u \in doomed'
                            /\ \A u, v \in Userdata : of'[u] = h /\ of'[v] = h => u = v
        BY DEF TableInv
    <2>1. h \notin late' => h \notin late
        BY <1>2
    <2>2. CASE h = g
        BY <1>1, <1>2, <1>3, <1>5, <2>1, <2>2 DEF HandleInv, HandleTypes
    <2>3. CASE h # g
        BY <1>1, <1>2, <1>3, <2>1, <2>3 DEF HandleInv, HandleTypes, TableInv
    <2> QED
        BY <2>2, <2>3
<1>7. Standing(g)' = Standing(g) \cup {w}
    BY <1>1 DEF HandleInv, HandleTypes, Standing
<1>8. w \notin Standing(g)
    BY <1>1 DEF Standing
<1>9. Cardinality(Standing(g)') = Cardinality(Standing(g)) + 1
    <2>1. Cardinality(Standing(g) \cup {w}) = Cardinality(Standing(g)) + 1
        BY <1>8, StandingFinite, FS_AddElement
    <2> QED
        BY <1>7, <2>1
<1>10. \A h \in Handle : h # g => Standing(h)' = Standing(h)
    BY <1>1 DEF HandleInv, HandleTypes, Standing
<1>11. Counted'
    BY <1>2, <1>9, <1>10 DEF HandleInv, HandleTypes, Counted
<1> QED
    BY <1>4, <1>6, <1>11 DEF HandleInv

\* The __gc gives back the reference of its userdata; the count it takes down is
\* at least one.
LEMMA FinalizeHandles ==
    ASSUME HandleInv, NEW w \in Userdata, Finalize(w)
    PROVE  HandleInv'
<1> USE EngineAssumption DEF EngineAssumption
<1>1. PICK g : g = of[w]
    OBVIOUS
<1>2. /\ w \in doomed
      /\ table' = [table EXCEPT ![g] = None] /\ refs' = [refs EXCEPT ![g] = @ - 1]
      /\ of' = [of EXCEPT ![w] = None] /\ doomed' = doomed \ {w} /\ late' = late
    BY <1>1 DEF Finalize
<1>3. g \in Handle
    BY <1>1, <1>2 DEF HandleInv, HandleTypes
<1>4. w \in Standing(g)
    BY <1>1 DEF Standing
<1>5. Standing(g)' = Standing(g) \ {w}
    BY <1>1, <1>2, <1>3 DEF HandleInv, HandleTypes, Standing
<1>6. Cardinality(Standing(g)') = Cardinality(Standing(g)) - 1 /\ Cardinality(Standing(g)) - 1 \in Nat
    <2>1. /\ Cardinality(Standing(g) \ {w}) = Cardinality(Standing(g)) - 1
          /\ IsFiniteSet(Standing(g) \ {w})
        BY <1>4, StandingFinite, FS_RemoveElement
    <2>2. Cardinality(Standing(g) \ {w}) \in Nat
        BY <2>1, FS_CardinalityType
    <2> QED
        BY <1>5, <2>1, <2>2
<1>7. \A h \in Handle : h # g => Standing(h)' = Standing(h)
    BY <1>1, <1>2, <1>3 DEF HandleInv, HandleTypes, Standing
<1>8. refs[g] - 1 \in Nat
    BY <1>3, <1>6 DEF HandleInv, Counted
<1>9. HandleTypes'
    BY <1>2, <1>3, <1>8 DEF HandleInv, HandleTypes
<1>10. Counted'
    BY <1>2, <1>3, <1>6, <1>7 DEF HandleInv, HandleTypes, Counted
<1>11. TableInv'
    <2> SUFFICES ASSUME NEW h \in Handle
                 PROVE /\ table'[h] # None => of'[table'[h]] = h /\ table'[h] \notin doomed'
                       /\ h \notin late' =>
                            /\ \A u \in Userdata : of'[u] = h => u = table'[h] \/ u \in doomed'
                            /\ \A u, v \in Userdata : of'[u] = h /\ of'[v] = h => u = v
        BY DEF TableInv
    <2>1. CASE h = g
        BY <1>1, <1>2, <1>3, <2>1 DEF HandleInv, HandleTypes, TableInv
    <2>2. CASE h # g
        BY <1>1, <1>2, <1>3, <2>2 DEF HandleInv, HandleTypes, TableInv
    <2> QED
        BY <2>1, <2>2
<1> QED
    BY <1>9, <1>10, <1>11 DEF HandleInv

LEMMA HandleStep ==
    ASSUME HandleInv, [Next]_vars
    PROVE  HandleInv'
<1>1. ASSUME UNCHANGED handles PROVE HandleInv'
    BY <1>1 DEF HandleInv, HandleTypes, TableInv, Counted, Standing, handles
<1>2. ASSUME NEW f \in Func, NEW j \in Thread, Start(f, j) PROVE UNCHANGED handles
    BY <1>2 DEF Start
<1>3. ASSUME NEW j \in Thread, Wake(j) \/ Kill(j) PROVE UNCHANGED handles
    BY <1>3 DEF Wake, Kill
<1>4. ASSUME Sleep \/ Return \/ UNCHANGED vars PROVE UNCHANGED handles
    BY <1>4 DEF Sleep, Return, vars
<1>5. ASSUME NEW n \in Name, NEW f \in Func \cup {None}, SetHook(n, f) PROVE UNCHANGED handles
    BY <1>5 DEF SetHook
<1>6. ASSUME OpenGame PROVE UNCHANGED handles
    BY <1>6 DEF OpenGame
<1> QED
    BY <1>1, <1>2, <1>3, <1>4, <1>5, <1>6, PushHandles, FinalizeHandles, CollectHandles DEF Next

LEMMA HandleAlways == Spec => []HandleInv
<1>1. Init => HandleInv
    <2> SUFFICES ASSUME Init PROVE HandleInv
        OBVIOUS
    <2>1. HandleTypes /\ TableInv
        BY EngineAssumption DEF Init, HandleTypes, TableInv, EngineAssumption
    <2>2. \A h \in Handle : Standing(h) = {}
        BY EngineAssumption DEF Init, Standing, EngineAssumption
    <2>3. Counted
        BY <2>2, FS_EmptySet DEF Init, Counted
    <2> QED
        BY <2>1, <2>3 DEF HandleInv
<1> QED
    BY <1>1, HandleStep, PTL DEF Spec

\* The engine never releases a handle too early or too late, and a handle has one
\* userdata only as long as it is not asked for between a collection and the
\* __gc that follows (jhandle_ud_push, jhandle_ud_gc).
THEOREM HandlesBalanced == Spec => []HandlesSound
<1>1. ASSUME HandleInv PROVE HandlesSound
    <2> SUFFICES ASSUME NEW h \in Handle
                 PROVE refs[h] = Cardinality(Standing(h)) /\ (h \notin late => refs[h] <= 1)
        BY DEF HandlesSound
    <2>1. refs[h] = Cardinality(Standing(h))
        BY <1>1 DEF HandleInv, Counted
    <2>2. CASE Standing(h) = {}
        BY <2>1, <2>2, FS_EmptySet
    <2>3. ASSUME h \notin late, NEW u \in Standing(h) PROVE refs[h] <= 1
        <3>1. Standing(h) = {u}
            BY <1>1, <2>3 DEF HandleInv, TableInv, Standing
        <3>2. Cardinality({u}) = 1
            BY FS_Singleton
        <3> QED
            BY <2>1, <3>1, <3>2
    <2> QED
        BY <2>1, <2>2, <2>3
<1> QED
    BY <1>1, HandleAlways, PTL

-----------------------------------------------------------------------------
(***************************************************************************)
(* Callbacks                                                               *)
(***************************************************************************)

CallbackTypes ==
    /\ saved \in [Func \X Thread -> Coroutine \cup {None}]
    /\ sleeper \in [Thread -> Sleeper \cup {None}]
    /\ stack \in Seq(Callback)
    /\ acts \in 0 .. MaxActs /\ orphans \in SUBSET (Func \X Thread)

\* A coroutine waits for a sleeper of its function on its thread or was left by
\* one that the game ended.
Awaited ==
    \A f \in Func, j \in Thread :
        saved[<<f, j>>] # None => \/ <<f, j>> \in orphans
                                  \/ sleeper[j] # None /\ sleeper[j].func = f

\* A sleeper nobody interfered with finds its own coroutine.
Waiting ==
    \A j \in Thread :
        sleeper[j] # None => \/ sleeper[j].odd
                             \/ saved[<<sleeper[j].func, j>>] =
                                    [act |-> sleeper[j].act, slept |-> sleeper[j].slept]

\* The threads of the callbacks that run are awake, and each runs one.
Awake ==
    /\ \A i \in DOMAIN stack : sleeper[stack[i].thread] = None
    /\ \A i, k \in DOMAIN stack : stack[i].thread = stack[k].thread => i = k

CallbackInv == CallbackTypes /\ Awaited /\ Waiting /\ Awake /\ ResumesOwn

LEMMA Pushed ==
    ASSUME NEW S, NEW s \in Seq(S), NEW e \in S
    PROVE  /\ Append(s, e) \in Seq(S)
           /\ DOMAIN Append(s, e) = 1 .. Len(s) + 1 /\ DOMAIN s = 1 .. Len(s) /\ Len(s) \in Nat
           /\ \A i \in DOMAIN s : Append(s, e)[i] = s[i]
           /\ Append(s, e)[Len(s) + 1] = e
OBVIOUS

LEMMA Popped ==
    ASSUME NEW S, NEW s \in Seq(S), s # <<>>
    PROVE  /\ SubSeq(s, 1, Len(s) - 1) \in Seq(S)
           /\ DOMAIN SubSeq(s, 1, Len(s) - 1) = 1 .. Len(s) - 1 /\ DOMAIN s = 1 .. Len(s)
           /\ Len(s) \in Nat \ {0}
           /\ \A i \in 1 .. Len(s) - 1 : SubSeq(s, 1, Len(s) - 1)[i] = s[i]
<1>1. Len(s) \in Nat \ {0} /\ DOMAIN s = 1 .. Len(s)
    OBVIOUS
<1>2. \A i \in 1 .. Len(s) - 1 : s[i] \in S
    BY <1>1
<1> QED
    BY <1>1, <1>2

\* A callback that begins, or goes on after a sleep: "odd" accounts for what it may find.
LEMMA RunStep ==
    ASSUME CallbackInv, NEW f \in Func, NEW j \in Thread, NEW act \in 1 .. MaxActs,
           NEW slept \in Nat, NEW odd \in BOOLEAN, Run(f, j, act, slept, odd),
           \A i \in DOMAIN stack : stack[i].thread # j,
           sleeper[j] # None => sleeper[j].func = f,
           odd \/ Resumed(f, j, act) = [act |-> act, slept |-> slept],
           sleeper' = [sleeper EXCEPT ![j] = None], acts' \in 0 .. MaxActs
    PROVE  CallbackInv'
<1> DEFINE e == [func |-> f, thread |-> j, act |-> act, slept |-> slept, odd |-> odd,
                 co |-> Resumed(f, j, act)]
<1>1. /\ stack' = Append(stack, e) /\ saved' = [saved EXCEPT ![<<f, j>>] = None]
      /\ orphans' = orphans \ {<<f, j>>}
    BY DEF Run
<1>2. Resumed(f, j, act) \in Coroutine
    BY DEF CallbackInv, CallbackTypes, Resumed, Coroutine
<1>3. e \in Callback /\ e.thread = j /\ (e.odd \/ Continues(e))
    BY <1>2, Zenon DEF Callback, Continues
<1> HIDE DEF e
<1>4. /\ stack' \in Seq(Callback) /\ DOMAIN stack' = 1 .. Len(stack) + 1
      /\ DOMAIN stack = 1 .. Len(stack) /\ Len(stack) \in Nat
      /\ \A i \in DOMAIN stack : stack'[i] = stack[i]
      /\ stack'[Len(stack) + 1] = e
    BY <1>1, <1>3, Pushed DEF CallbackInv, CallbackTypes
<1>5. \A i \in DOMAIN stack' : i \in DOMAIN stack \/ i = Len(stack) + 1
    BY <1>4
<1>6. CallbackTypes'
    BY <1>1, <1>4 DEF CallbackInv, CallbackTypes
<1>7. Awaited'
    BY <1>1 DEF CallbackInv, CallbackTypes, Awaited
<1>8. Waiting'
    BY <1>1, EngineAssumption DEF CallbackInv, CallbackTypes, Waiting, EngineAssumption, Sleeper
<1>9. Awake'
    BY SMTT(30), <1>3, <1>4, <1>5 DEF CallbackInv, CallbackTypes, Awake
<1>10. ResumesOwn'
    BY <1>3, <1>4, <1>5 DEF CallbackInv, ResumesOwn, Continues
<1> QED
    BY <1>6, <1>7, <1>8, <1>9, <1>10 DEF CallbackInv

LEMMA StartStep ==
    ASSUME CallbackInv, NEW f \in Func, NEW j \in Thread, Start(f, j)
    PROVE  CallbackInv'
<1>1. /\ acts' = acts + 1 /\ acts' \in 1 .. MaxActs /\ sleeper[j] = None /\ sleeper' = sleeper
      /\ \A i \in DOMAIN stack : stack[i].thread # j
    BY EngineAssumption DEF Start, CallbackInv, CallbackTypes, EngineAssumption
<1>2. PICK act \in 1 .. MaxActs : act = acts'
    BY <1>1
<1>3. /\ sleeper' = [sleeper EXCEPT ![j] = None] /\ (sleeper[j] # None => sleeper[j].func = f)
      /\ acts' \in 0 .. MaxActs /\ 0 \in Nat
    BY <1>1, EngineAssumption DEF CallbackInv, CallbackTypes, EngineAssumption
<1>4. CASE <<f, j>> \in orphans
    <2>1. Run(f, j, act, 0, TRUE)
        <3>1. TRUE = (<<f, j>> \in orphans)
            BY <1>4, Zenon
        <3> QED
            BY <1>2, <3>1, Zenon DEF Start
    <2> QED
        BY <1>1, <1>3, <2>1, RunStep
<1>5. CASE <<f, j>> \notin orphans
    <2>1. Run(f, j, act, 0, FALSE)
        <3>1. FALSE = (<<f, j>> \in orphans)
            BY <1>5
        <3> QED
            BY <1>2, <3>1, Zenon DEF Start
    <2>2. Resumed(f, j, act) = [act |-> act, slept |-> 0]
        BY <1>1, <1>5 DEF Resumed, CallbackInv, Awaited
    <2> QED
        BY <1>1, <1>3, <2>1, <2>2, RunStep
<1> QED
    BY <1>4, <1>5

LEMMA WakeStep ==
    ASSUME CallbackInv, NEW j \in Thread, Wake(j)
    PROVE  CallbackInv'
<1>1. /\ stack = <<>> /\ sleeper[j] # None /\ sleeper' = [sleeper EXCEPT ![j] = None]
      /\ acts' = acts
      /\ Run(sleeper[j].func, j, sleeper[j].act, sleeper[j].slept, sleeper[j].odd)
    BY DEF Wake
<1>2. sleeper[j] \in Sleeper
    BY <1>1 DEF CallbackInv, CallbackTypes
<1>3. /\ sleeper[j].func \in Func /\ sleeper[j].act \in 1 .. MaxActs /\ sleeper[j].slept \in Nat
      /\ sleeper[j].odd \in BOOLEAN
    BY <1>2 DEF Sleeper
<1>4. \/ sleeper[j].odd
      \/ Resumed(sleeper[j].func, j, sleeper[j].act) =
             [act |-> sleeper[j].act, slept |-> sleeper[j].slept]
    <2> DEFINE own == [act |-> sleeper[j].act, slept |-> sleeper[j].slept]
    <2>1. own # None
        BY <1>3, EngineAssumption DEF EngineAssumption, Coroutine
    <2>2. sleeper[j].odd \/ saved[<<sleeper[j].func, j>>] = own
        BY <1>1 DEF CallbackInv, Waiting
    <2> QED
        BY <2>1, <2>2 DEF Resumed
<1>5. \A i \in DOMAIN stack : stack[i].thread # j
    BY <1>1
<1>6. acts' \in 0 .. MaxActs /\ sleeper' = [sleeper EXCEPT ![j] = None]
    BY <1>1 DEF CallbackInv, CallbackTypes
<1>7. PICK f \in Func, act \in 1 .. MaxActs, slept \in Nat, odd \in BOOLEAN :
          /\ f = sleeper[j].func /\ act = sleeper[j].act
          /\ slept = sleeper[j].slept /\ odd = sleeper[j].odd
    BY <1>3, Zenon
<1>8. Run(f, j, act, slept, odd)
    BY <1>1, <1>7, Zenon
<1>9. odd \/ Resumed(f, j, act) = [act |-> act, slept |-> slept]
    BY <1>4, <1>7, Zenon
<1>10. sleeper[j] # None => sleeper[j].func = f
    BY <1>7, Zenon
<1> QED
    BY <1>5, <1>6, <1>8, <1>9, <1>10, RunStep

LEMMA SleepStep ==
    ASSUME CallbackInv, Sleep
    PROVE  CallbackInv'
<1> DEFINE n == Len(stack)
           top == stack[n]
           f == top.func
           j == top.thread
           co == [top.co EXCEPT !.slept = @ + 1]
           asleep == [func |-> f, act |-> top.act, slept |-> top.slept + 1, odd |-> top.odd]
<1>1. /\ stack # <<>> /\ stack' = SubSeq(stack, 1, n - 1)
      /\ saved' = [saved EXCEPT ![<<f, j>>] = co] /\ sleeper' = [sleeper EXCEPT ![j] = asleep]
      /\ acts' = acts /\ orphans' = orphans
    BY DEF Sleep
<1>2. /\ stack' \in Seq(Callback) /\ DOMAIN stack' = 1 .. n - 1 /\ DOMAIN stack = 1 .. n
      /\ n \in Nat \ {0} /\ \A i \in 1 .. n - 1 : stack'[i] = stack[i]
    BY <1>1, Popped DEF CallbackInv, CallbackTypes
<1>3. n \in DOMAIN stack /\ top \in Callback
    BY <1>2 DEF CallbackInv, CallbackTypes
<1>4. /\ f \in Func /\ j \in Thread /\ top.act \in 1 .. MaxActs /\ top.slept \in Nat
      /\ top.odd \in BOOLEAN /\ top.co \in Coroutine
    BY <1>3 DEF Callback
<1>5. co \in Coroutine /\ asleep \in Sleeper
    BY <1>4 DEF Coroutine, Sleeper
<1>6. asleep.func = f /\ asleep # None /\ co # None
    BY <1>5, EngineAssumption DEF EngineAssumption
<1>7. asleep.odd \/ co = [act |-> asleep.act, slept |-> asleep.slept]
    <2>1. top.odd \/ top.co = [act |-> top.act, slept |-> top.slept]
        BY <1>3 DEF CallbackInv, ResumesOwn, Continues
    <2>2. asleep.odd = top.odd /\ asleep.act = top.act /\ asleep.slept = top.slept + 1
        OBVIOUS
    <2> QED
        BY <2>1, <2>2
<1>8. sleeper[j] = None
    BY <1>3 DEF CallbackInv, Awake
<1>9. \A i \in 1 .. n - 1 : stack[i].thread # j /\ i \in DOMAIN stack
    BY <1>2, <1>3 DEF CallbackInv, Awake
<1> HIDE DEF n, top, f, j, co, asleep
<1>10. CallbackTypes'
    BY <1>1, <1>2, <1>4, <1>5 DEF CallbackInv, CallbackTypes
<1>11. Awaited'
    <2> SUFFICES ASSUME NEW g \in Func, NEW k \in Thread, saved'[<<g, k>>] # None
                 PROVE <<g, k>> \in orphans' \/ (sleeper'[k] # None /\ sleeper'[k].func = g)
        BY DEF Awaited
    <2>1. CASE k = j /\ g = f
        BY <1>1, <1>4, <1>6, <2>1 DEF CallbackInv, CallbackTypes
    <2>2. CASE k # j \/ g # f
        <3>1. <<g, k>> # <<f, j>>
            BY <2>2
        <3>2. saved'[<<g, k>>] = saved[<<g, k>>]
            BY <1>1, <3>1 DEF CallbackInv, CallbackTypes
        <3>3. <<g, k>> \in orphans \/ (sleeper[k] # None /\ sleeper[k].func = g)
            BY <3>2 DEF CallbackInv, Awaited
        <3>4. k # j => sleeper'[k] = sleeper[k]
            BY <1>1 DEF CallbackInv, CallbackTypes
        <3> QED
            BY <1>1, <1>8, <3>3, <3>4
    <2> QED
        BY <2>1, <2>2
<1>12. Waiting'
    <2> SUFFICES ASSUME NEW i \in Thread, sleeper'[i] # None
                 PROVE \/ sleeper'[i].odd
                       \/ saved'[<<sleeper'[i].func, i>>] =
                              [act |-> sleeper'[i].act, slept |-> sleeper'[i].slept]
        BY DEF Waiting
    <2>1. CASE i = j
        <3>1. sleeper'[i] = asleep /\ saved'[<<sleeper'[i].func, i>>] = co
            BY <1>1, <1>4, <1>6, <2>1 DEF CallbackInv, CallbackTypes
        <3> QED
            BY <3>1, <1>7
    <2>2. CASE i # j
        <3>1. sleeper'[i] = sleeper[i] /\ sleeper[i] \in Sleeper
            BY <1>1, <2>2 DEF CallbackInv, CallbackTypes
        <3>2. saved'[<<sleeper'[i].func, i>>] = saved[<<sleeper[i].func, i>>]
            BY <1>1, <2>2, <3>1 DEF CallbackInv, CallbackTypes, Sleeper
        <3> QED
            BY <3>1, <3>2 DEF CallbackInv, Waiting
    <2> QED
        BY <2>1, <2>2
<1>13. Awake'
    <2>1. \A i \in DOMAIN stack' : i \in DOMAIN stack /\ stack'[i] = stack[i] /\ stack[i].thread # j
        BY <1>2, <1>9
    <2>2. \A i \in DOMAIN stack : stack[i] \in Callback
        BY <1>2 DEF CallbackInv, CallbackTypes
    <2>3. \A i \in DOMAIN stack : stack[i].thread \in Thread
        BY <2>2 DEF Callback
    <2>4. \A k \in Thread : k # j => sleeper'[k] = sleeper[k]
        BY <1>1 DEF CallbackInv, CallbackTypes
    <2> QED
        BY <2>1, <2>3, <2>4 DEF CallbackInv, Awake
<1>14. ResumesOwn'
    BY <1>2, <1>9 DEF CallbackInv, ResumesOwn, Continues
<1> QED
    BY <1>10, <1>11, <1>12, <1>13, <1>14 DEF CallbackInv

LEMMA ReturnStep ==
    ASSUME CallbackInv, Return
    PROVE  CallbackInv'
<1>1. /\ stack # <<>> /\ stack' = SubSeq(stack, 1, Len(stack) - 1)
      /\ saved' = saved /\ sleeper' = sleeper /\ acts' = acts /\ orphans' = orphans
    BY DEF Return
<1>2. /\ stack' \in Seq(Callback) /\ DOMAIN stack' = 1 .. Len(stack) - 1
      /\ DOMAIN stack = 1 .. Len(stack) /\ Len(stack) \in Nat \ {0}
      /\ \A i \in 1 .. Len(stack) - 1 : stack'[i] = stack[i]
    BY <1>1, Popped DEF CallbackInv, CallbackTypes
<1>3. CallbackTypes' /\ Awaited' /\ Waiting'
    BY <1>1, <1>2 DEF CallbackInv, CallbackTypes, Awaited, Waiting
<1>4. \A i \in DOMAIN stack' : i \in DOMAIN stack /\ stack'[i] = stack[i]
    BY <1>2
<1>5. Awake' /\ ResumesOwn'
    BY <1>1, <1>4 DEF CallbackInv, Awake, ResumesOwn, Continues
<1> QED
    BY <1>3, <1>5 DEF CallbackInv

LEMMA KillStep ==
    ASSUME CallbackInv, NEW j \in Thread, Kill(j)
    PROVE  CallbackInv'
<1>1. /\ sleeper[j] # None /\ orphans' = orphans \cup {<<sleeper[j].func, j>>}
      /\ sleeper' = [sleeper EXCEPT ![j] = None]
      /\ saved' = saved /\ stack' = stack /\ acts' = acts
    BY DEF Kill
<1>2. sleeper[j] \in Sleeper /\ sleeper[j].func \in Func
    BY <1>1 DEF CallbackInv, CallbackTypes, Sleeper
<1>3. CallbackTypes'
    BY <1>1, <1>2 DEF CallbackInv, CallbackTypes
<1>4. Awaited'
    <2> SUFFICES ASSUME NEW g \in Func, NEW k \in Thread, saved'[<<g, k>>] # None
                 PROVE <<g, k>> \in orphans' \/ (sleeper'[k] # None /\ sleeper'[k].func = g)
        BY DEF Awaited
    <2>1. <<g, k>> \in orphans \/ (sleeper[k] # None /\ sleeper[k].func = g)
        BY <1>1 DEF CallbackInv, Awaited
    <2>2. k # j => sleeper'[k] = sleeper[k]
        BY <1>1 DEF CallbackInv, CallbackTypes
    <2> QED
        BY <1>1, <2>1, <2>2
<1>5. Waiting'
    BY <1>1 DEF CallbackInv, CallbackTypes, Waiting
<1>6. Awake'
    BY <1>1 DEF CallbackInv, CallbackTypes, Awake
<1>7. ResumesOwn'
    BY <1>1 DEF CallbackInv, ResumesOwn, Continues
<1> QED
    BY <1>3, <1>4, <1>5, <1>6, <1>7 DEF CallbackInv

\* The collector takes every coroutine that waits, and marks who waits for one.
LEMMA CollectStep ==
    ASSUME CallbackInv, Collect
    PROVE  CallbackInv'
<1>1. /\ saved' = [p \in Func \X Thread |-> None] /\ orphans' = {}
      /\ sleeper' = [j \in Thread |-> IF sleeper[j] = None THEN None
                                      ELSE [sleeper[j] EXCEPT !.odd = TRUE]]
      /\ stack' = stack /\ acts' = acts
    BY DEF Collect
<1>2. \A s \in Sleeper : [s EXCEPT !.odd = TRUE] \in Sleeper /\ [s EXCEPT !.odd = TRUE].odd
    BY Zenon DEF Sleeper
<1>3. \A j \in Thread : \/ sleeper'[j] = None /\ sleeper[j] = None
                        \/ sleeper'[j] \in Sleeper /\ sleeper'[j].odd /\ sleeper[j] # None
    BY <1>1, <1>2, Zenon DEF CallbackInv, CallbackTypes
<1>4. sleeper' \in [Thread -> Sleeper \cup {None}]
    BY <1>1, <1>3
<1>5. CallbackTypes'
    BY <1>1, <1>4 DEF CallbackInv, CallbackTypes
<1>6. Awaited'
    BY <1>1 DEF Awaited
<1>7. Waiting'
    BY <1>3 DEF Waiting
<1>8. Awake'
    <2>1. \A i \in DOMAIN stack : stack[i] \in Callback
        BY DEF CallbackInv, CallbackTypes
    <2>2. \A i \in DOMAIN stack : stack[i].thread \in Thread
        BY <2>1 DEF Callback
    <2> QED
        BY <1>1, <1>3, <2>2 DEF CallbackInv, Awake
<1>9. ResumesOwn'
    BY <1>1 DEF CallbackInv, ResumesOwn, Continues
<1> QED
    BY <1>5, <1>6, <1>7, <1>8, <1>9 DEF CallbackInv

LEMMA CallbackStep ==
    ASSUME CallbackInv, [Next]_vars
    PROVE  CallbackInv'
<1>1. ASSUME UNCHANGED callbacks PROVE CallbackInv'
    BY <1>1 DEF CallbackInv, CallbackTypes, Awaited, Waiting, Awake, ResumesOwn, Continues, callbacks
<1>2. ASSUME NEW h \in Handle, Push(h) PROVE UNCHANGED callbacks
    BY <1>2 DEF Push
<1>3. ASSUME NEW u \in Userdata, Finalize(u) PROVE UNCHANGED callbacks
    BY <1>3 DEF Finalize
<1>4. ASSUME NEW n \in Name, NEW f \in Func \cup {None}, SetHook(n, f) PROVE UNCHANGED callbacks
    BY <1>4 DEF SetHook
<1>5. ASSUME UNCHANGED vars PROVE UNCHANGED callbacks
    BY <1>5 DEF vars
<1>6. ASSUME OpenGame PROVE UNCHANGED callbacks
    BY <1>6 DEF OpenGame
<1> QED
    BY <1>1, <1>2, <1>3, <1>4, <1>5, <1>6, StartStep, WakeStep, SleepStep, ReturnStep, KillStep,
       CollectStep DEF Next

LEMMA CallbackAlways == Spec => []CallbackInv
<1>1. Init => CallbackInv
    <2> SUFFICES ASSUME Init PROVE CallbackInv
        OBVIOUS
    <2>1. CallbackTypes
        BY EngineAssumption DEF Init, CallbackTypes, EngineAssumption
    <2>2. Awaited /\ Waiting
        BY DEF Init, Awaited, Waiting
    <2>3. Awake /\ ResumesOwn
        BY DEF Init, Awake, ResumesOwn
    <2> QED
        BY <2>1, <2>2, <2>3 DEF CallbackInv
<1> QED
    BY <1>1, CallbackStep, PTL DEF Spec

\* For any number of functions, threads, sleeps and nested callbacks: unless the
\* collector ran during a sleep, or the game ended a sleeping thread of the same
\* address and function, a callback has its own coroutine (thread_create,
\* thread_save).
THEOREM CallbacksContinue == Spec => []ResumesOwn
<1>1. CallbackInv => ResumesOwn
    BY DEF CallbackInv
<1> QED
    BY <1>1, CallbackAlways, PTL

-----------------------------------------------------------------------------
\* The two counters no other invariant speaks of.
CountersInv == crashed \in BOOLEAN /\ collections \in 0 .. MaxCollections

LEMMA CountersAlways == Spec => []CountersInv
<1>1. Init => CountersInv
    <2>1. Init => crashed \in BOOLEAN
        BY Zenon DEF Init
    <2>2. Init => collections \in 0 .. MaxCollections
        BY EngineAssumption DEF Init, EngineAssumption
    <2> QED
        BY <2>1, <2>2 DEF CountersInv
<1>2. ASSUME CountersInv, [Next]_vars PROVE CountersInv'
    <2>1. ASSUME NEW f, NEW j, NEW act, NEW slept, NEW odd, Run(f, j, act, slept, odd)
          PROVE crashed' \in BOOLEAN
        BY <2>1, Zenon DEF Run
    <2>2. ASSUME NEW f \in Func, NEW j \in Thread, Start(f, j) PROVE CountersInv'
        BY <1>2, <2>1, <2>2 DEF Start, CountersInv
    <2>3. ASSUME NEW j \in Thread, Wake(j) PROVE CountersInv'
        BY <1>2, <2>1, <2>3 DEF Wake, CountersInv
    <2>4. ASSUME NEW j \in Thread, Kill(j) PROVE CountersInv'
        BY <1>2, <2>4 DEF Kill, CountersInv
    <2>5. CASE Sleep \/ Return
        BY <1>2, <2>5 DEF Sleep, Return, CountersInv
    <2>6. CASE Collect
        BY <1>2, <2>6, EngineAssumption DEF Collect, CountersInv, EngineAssumption
    <2>7. ASSUME NEW h \in Handle, Push(h) PROVE CountersInv'
        BY <1>2, <2>7 DEF Push, CountersInv, callbacks
    <2>8. ASSUME NEW u \in Userdata, Finalize(u) PROVE CountersInv'
        BY <1>2, <2>8 DEF Finalize, CountersInv, callbacks
    <2>9. ASSUME NEW n \in Name, NEW f \in Func \cup {None}, SetHook(n, f) PROVE CountersInv'
        <3>1. collections' = collections
            BY <2>9 DEF SetHook
        <3>2. crashed' = ~vm \/ crashed' = crashed
            BY <2>9 DEF SetHook, Uninstall, Install
        <3>3. crashed' \in BOOLEAN
            BY <1>2, <3>2, Zenon DEF CountersInv
        <3> QED
            BY <1>2, <3>1, <3>3 DEF CountersInv
    <2>10. CASE UNCHANGED vars
        BY <1>2, <2>10 DEF vars, CountersInv, callbacks
    <2>11. CASE OpenGame
        BY <1>2, <2>11 DEF OpenGame, CountersInv
    <2> QED
        BY <1>2, <2>2, <2>3, <2>4, <2>5, <2>6, <2>7, <2>8, <2>9, <2>10, <2>11 DEF Next
<1> QED
    BY <1>1, <1>2, PTL DEF Spec

\* The types of the three parts together: what waits for its __gc stands for a
\* handle, what lies on the stack is a callback (all the handlers).
THEOREM TypeCorrect == Spec => []TypeOK
<1>1. HandleInv /\ CallbackInv /\ HookInv /\ CountersInv => TypeOK
    BY DEF HandleInv, HandleTypes, CallbackInv, CallbackTypes, HookInv, HookTypes, CountersInv, TypeOK
<1> QED
    BY <1>1, HandleAlways, CallbackAlways, HookAlways, CountersAlways, PTL
=============================================================================
