-------------------------- MODULE PendingSaveProofs --------------------------
(***************************************************************************)
(* Proofs about PendingSave, for every set of maps, files, edits and       *)
(* globals and any number of calls, saves and crashes.  However the worker *)
(* and the save interleave: the types, and that an entry a save can read   *)
(* names a cache file that is there.  Where calls and saves take turns:    *)
(* no write that was reported as done is lost without a word, a save that  *)
(* reports success has packed all that was staged, and for a map with a    *)
(* variable.lml it leaves nothing staged.                                  *)
(***************************************************************************)
EXTENDS PendingSave, TLAPS

-----------------------------------------------------------------------------
(***************************************************************************)
(* Tables                                                                  *)
(***************************************************************************)

LEMMA TableShape ==
    ASSUME NEW K, NEW V, NEW t
    PROVE  (t \in Table(K, V)) <=> (DOMAIN t \subseteq K /\ t \in [DOMAIN t -> V])
BY DEF Table

LEMMA EmptyTable == ASSUME NEW K, NEW V PROVE Empty \in Table(K, V)
<1>1. DOMAIN Empty = {} /\ Empty \in [{} -> V]
    BY DEF Empty
<1> QED
    BY <1>1, TableShape

LEMMA LoadTable ==
    ASSUME NEW K, NEW V, NEW t \in Table(K, V) \cup {Torn}
    PROVE  Load(t) \in Table(K, V)
BY EmptyTable DEF Load

LEMMA RestrictTable ==
    ASSUME NEW K, NEW V, NEW t \in Table(K, V), NEW S, S \subseteq DOMAIN t
    PROVE  /\ Restrict(t, S) \in Table(K, V)
           /\ DOMAIN Restrict(t, S) = S
<1>1. t \in [DOMAIN t -> V] /\ DOMAIN t \subseteq K
    BY TableShape
<1>2. DOMAIN Restrict(t, S) = S /\ Restrict(t, S) \in [S -> V] /\ S \subseteq K
    BY <1>1 DEF Restrict
<1> QED
    BY <1>2, TableShape

LEMMA WithTable ==
    ASSUME NEW K, NEW V, NEW t \in Table(K, V), NEW k \in K, NEW v \in V
    PROVE  /\ With(t, k, v) \in Table(K, V)
           /\ DOMAIN With(t, k, v) = DOMAIN t \cup {k}
<1>1. t \in [DOMAIN t -> V] /\ DOMAIN t \subseteq K
    BY TableShape
<1>2. /\ DOMAIN With(t, k, v) = DOMAIN t \cup {k} /\ DOMAIN t \cup {k} \subseteq K
      /\ With(t, k, v) \in [DOMAIN t \cup {k} -> V]
    BY <1>1 DEF With
<1> QED
    BY <1>2, TableShape

LEMMA WithoutTable ==
    ASSUME NEW K, NEW V, NEW t \in Table(K, V), NEW keys
    PROVE  Without(t, keys) \in Table(K, V) /\ DOMAIN Without(t, keys) \subseteq DOMAIN t
BY RestrictTable DEF Without

LEMMA WithoutMapTable ==
    ASSUME NEW K, NEW V, NEW t \in Table(K, V), NEW map
    PROVE  WithoutMap(t, map) \in Table(K, V) /\ DOMAIN WithoutMap(t, map) \subseteq DOMAIN t
BY WithoutTable DEF WithoutMap

LEMMA OfMapTable ==
    ASSUME NEW K, NEW V, NEW t \in Table(K, V), NEW map
    PROVE  OfMap(t, map) \in Table(K, V) /\ DOMAIN OfMap(t, map) \subseteq DOMAIN t
BY RestrictTable DEF OfMap

-----------------------------------------------------------------------------
(***************************************************************************)
(* Types                                                                   *)
(***************************************************************************)

Globals == Map \X Global
GlobalTable == Table(Globals, Value)
ObjectTable == Table(Objects, {TRUE})

Storing == wpc \in {"store", "fill"}
Clearing == spc \in {"clear", "clearStore", "clearFill"}

FilesInv ==
    /\ sidecar \in [globals : GlobalTable \cup {Torn}, objects : ObjectTable \cup {Torn}]
    /\ cache \in [Objects -> (SUBSET Edit) \cup {Missing}]
    /\ archive \in [Objects -> SUBSET Edit]
    /\ defaults \in [Global -> Value \cup {NoValue}]
    /\ temp \in Directory \cup {Nil}

\* What the worker holds when it is inside a call.
WorkerInv ==
    /\ content \subseteq Edit
    /\ wpc # "idle" => call \in Operation
    /\ wpc \in {"read", "resolve", "writeTemp", "writeCache"} => OnObject(call)
    /\ wpc \in {"resolve", "writeTemp", "writeCache"} => call.kind = "object_set_field"
    /\ wpc \in {"load", "store", "fill"} => call.kind # "object.read"
    /\ Storing /\ Sidecar = "globals" => staged \in GlobalTable
    /\ Storing /\ Sidecar = "objects" => staged \in ObjectTable

SaveInv ==
    /\ spc \in {"idle", "globals", "objects", "copy", "clear", "clearStore", "clearFill", "end"}
    /\ temp # Nil <=> spc # "idle"
    /\ packed \in Directory \cup {Nil}
    /\ copying \subseteq File \/ spc # "copy"
    /\ toClear \in Seq({"globals", "objects"})
    /\ Clearing => toClear # <<>> /\ packed # Nil
    /\ spc \in {"clearStore", "clearFill"} =>
          /\ Head(toClear) = "globals" => text \in GlobalTable
          /\ Head(toClear) = "objects" => text \in ObjectTable

HistoryInv == acked \subseteq Map \X File \X Edit

TypeInv == FilesInv /\ WorkerInv /\ SaveInv /\ HistoryInv

\* What a call that is inside an operation names.
LEMMA CallShape ==
    ASSUME NEW op \in Operation
    PROVE  /\ OnObject(op) => op.map \in Map /\ op.file \in File /\ <<op.map, op.file>> \in Objects
           /\ op.kind = "object_set_field" => op.edit \in Edit
           /\ op.kind = "set_global_value" => op.global \in Global /\ op.value \in Value
           /\ ~OnObject(op) => op.kind \in {"set_global_value", "clear_pending_objects",
                                            "clear_pending_globals"}
BY DEF Operation, OnObject, Objects

LEMMA SidecarTable ==
    ASSUME FilesInv
    PROVE  /\ Load(sidecar.globals) \in GlobalTable
           /\ Load(sidecar.objects) \in ObjectTable
<1>1. sidecar.globals \in GlobalTable \cup {Torn} /\ sidecar.objects \in ObjectTable \cup {Torn}
    BY DEF FilesInv
<1> QED
    BY <1>1, LoadTable DEF GlobalTable, ObjectTable

\* The worker's own steps.
LEMMA CallTypes ==
    ASSUME TypeInv, NEW op \in Ops, Call(op)
    PROVE  TypeInv'
<1>1. op \in Operation
    BY PendingAssumption DEF PendingAssumption
<1>2. /\ wpc' = (IF OnObject(op) THEN "read" ELSE "load") /\ call' = op /\ content' = content
      /\ UNCHANGED <<files, save, acked>>
    BY DEF Call, history
<1>3. OnObject(op) <=> op.kind \in {"object.read", "object_set_field"}
    BY DEF OnObject
<1>4. WorkerInv'
    BY <1>1, <1>2, <1>3 DEF TypeInv, WorkerInv, Storing, OnObject
<1>5. FilesInv' /\ SaveInv' /\ HistoryInv'
    BY <1>2 DEF TypeInv, FilesInv, SaveInv, HistoryInv, Clearing, files, save
<1> QED
    BY <1>4, <1>5 DEF TypeInv

\* Extracting an object file leaves the cache files well typed.
LEMMA ExtractTypes ==
    ASSUME FilesInv, Object \in Objects, Extract
    PROVE  cache' \in [Objects -> (SUBSET Edit) \cup {Missing}]
BY DEF FilesInv, Extract

LEMMA ReadTypes ==
    ASSUME TypeInv, ObjectRead
    PROVE  TypeInv'
<1>1. call \in Operation /\ OnObject(call)
    BY DEF TypeInv, WorkerInv, ObjectRead
<1>2. Object \in Objects /\ call.map \in Map /\ call.file \in File
    BY <1>1, CallShape DEF Object
<1>3. cache' \in [Objects -> (SUBSET Edit) \cup {Missing}]
    BY <1>2, ExtractTypes DEF TypeInv, ObjectRead
<1>4. content' \subseteq Edit
    BY <1>2 DEF TypeInv, FilesInv, ObjectRead, InTemp, Directory
<1>5. /\ wpc' = (IF call.kind = "object.read" THEN "idle" ELSE "resolve") /\ call' = call
      /\ UNCHANGED <<sidecar, archive, defaults, temp, save, acked>>
    BY DEF ObjectRead, history
<1>6. WorkerInv'
    BY <1>1, <1>4, <1>5 DEF WorkerInv, Storing, OnObject
<1>7. FilesInv' /\ SaveInv' /\ HistoryInv'
    BY <1>3, <1>5 DEF TypeInv, FilesInv, SaveInv, HistoryInv, Clearing, save
<1> QED
    BY <1>6, <1>7 DEF TypeInv

LEMMA ResolveTypes ==
    ASSUME TypeInv, ObjectResolve
    PROVE  TypeInv'
<1>1. call \in Operation /\ OnObject(call) /\ call.kind = "object_set_field"
    BY DEF TypeInv, WorkerInv, ObjectResolve
<1>2. Object \in Objects
    BY <1>1, CallShape DEF Object
<1>3. cache' \in [Objects -> (SUBSET Edit) \cup {Missing}]
    BY <1>2, ExtractTypes DEF TypeInv, ObjectResolve
<1>4. /\ wpc' \in {"writeTemp", "writeCache"} /\ call' = call /\ content' = content
      /\ UNCHANGED <<sidecar, archive, defaults, temp, save, acked>>
    BY DEF ObjectResolve, history
<1>5. WorkerInv'
    BY <1>1, <1>4 DEF TypeInv, WorkerInv, Storing, OnObject
<1>6. FilesInv' /\ SaveInv' /\ HistoryInv'
    BY <1>3, <1>4 DEF TypeInv, FilesInv, SaveInv, HistoryInv, Clearing, save
<1> QED
    BY <1>5, <1>6 DEF TypeInv

LEMMA WriteTempTypes ==
    ASSUME TypeInv, WriteTemp
    PROVE  TypeInv'
<1>1. call \in Operation /\ OnObject(call) /\ call.kind = "object_set_field"
    BY DEF TypeInv, WorkerInv, WriteTemp
<1>2. call.map \in Map /\ call.file \in File /\ call.edit \in Edit /\ Edited \subseteq Edit
    BY <1>1, CallShape DEF Edited, TypeInv, WorkerInv
<1>3. /\ wpc' = "idle" /\ call' = call /\ content' = content
      /\ UNCHANGED <<sidecar, cache, archive, defaults, save>>
    BY DEF WriteTemp
<1>4. temp' \in Directory \cup {Nil} /\ (temp' # Nil <=> temp # Nil) /\ HistoryInv'
    <2>1. CASE UNCHANGED <<temp, acked>>
        BY <2>1 DEF TypeInv, FilesInv, HistoryInv
    <2>2. CASE temp # Nil /\ temp' = [temp EXCEPT !.objects[call.file] = Edited] /\ Acknowledged
        <3>1. temp' \in Directory
            BY <1>2, <2>2 DEF TypeInv, FilesInv, Directory
        <3>2. temp' # Nil
            BY <3>1, PendingAssumption DEF PendingAssumption
        <3>3. HistoryInv'
            BY <1>2, <2>2 DEF TypeInv, HistoryInv, Acknowledged
        <3> QED
            BY <2>2, <3>1, <3>2, <3>3
    <2> QED
        BY <2>1, <2>2 DEF WriteTemp
<1>5. WorkerInv'
    BY <1>3 DEF TypeInv, WorkerInv, Storing
<1>6. FilesInv' /\ SaveInv'
    BY <1>3, <1>4 DEF TypeInv, FilesInv, SaveInv, Clearing, save
<1> QED
    BY <1>4, <1>5, <1>6 DEF TypeInv

LEMMA WriteCacheTypes ==
    ASSUME TypeInv, WriteCache
    PROVE  TypeInv'
<1>1. call \in Operation /\ OnObject(call) /\ call.kind = "object_set_field"
    BY DEF TypeInv, WorkerInv, WriteCache
<1>2. /\ call.map \in Map /\ call.file \in File /\ call.edit \in Edit /\ Edited \subseteq Edit
      /\ Object \in Objects
    BY <1>1, CallShape DEF Edited, Object, TypeInv, WorkerInv
<1>3. /\ wpc' \in {"load", "idle"} /\ call' = call /\ content' = content
      /\ UNCHANGED <<sidecar, defaults, temp, save>>
    BY DEF WriteCache
<1>4. cache' \in [Objects -> (SUBSET Edit) \cup {Missing}] /\ archive' \in [Objects -> SUBSET Edit]
    BY <1>2 DEF TypeInv, FilesInv, WriteCache
<1>5. HistoryInv'
    BY <1>2 DEF TypeInv, HistoryInv, WriteCache, Acknowledged
<1>6. WorkerInv'
    BY <1>1, <1>3 DEF TypeInv, WorkerInv, Storing
<1>7. FilesInv' /\ SaveInv'
    BY <1>3, <1>4 DEF TypeInv, FilesInv, SaveInv, Clearing, save
<1> QED
    BY <1>5, <1>6, <1>7 DEF TypeInv

LEMMA ChangedTypes ==
    ASSUME NEW t, call \in Operation, call.kind # "object.read", OpenMap \in Map
    PROVE  /\ Sidecar = "globals" /\ t \in GlobalTable => Changed(t) \in GlobalTable
           /\ Sidecar = "objects" /\ t \in ObjectTable => Changed(t) \in ObjectTable
<1>1. CASE call.kind = "object_set_field"
    <2>1. Sidecar = "objects" /\ Changed(t) = With(t, Object, TRUE) /\ Object \in Objects
        BY <1>1, CallShape DEF Sidecar, Changed, Object, OnObject
    <2>2. ASSUME t \in ObjectTable PROVE With(t, Object, TRUE) \in ObjectTable
        <3>1. t \in Table(Objects, {TRUE}) /\ TRUE \in {TRUE}
            BY <2>2, Zenon DEF ObjectTable
        <3> QED
            BY <2>1, <3>1, WithTable, Zenon DEF ObjectTable
    <2> QED
        BY <2>1, <2>2
<1>2. CASE call.kind = "set_global_value"
    <2>1. /\ Sidecar = "globals" /\ Changed(t) = With(t, <<OpenMap, call.global>>, call.value)
          /\ <<OpenMap, call.global>> \in Globals /\ call.value \in Value
        BY <1>2, CallShape DEF Sidecar, Changed, Globals
    <2>2. ASSUME t \in GlobalTable
          PROVE  With(t, <<OpenMap, call.global>>, call.value) \in GlobalTable
        <3>1. t \in Table(Globals, Value)
            BY <2>2 DEF GlobalTable
        <3> QED
            BY <2>1, <3>1, WithTable, Zenon DEF GlobalTable
    <2> QED
        BY <2>1, <2>2
<1>3. CASE call.kind \notin {"object_set_field", "set_global_value"}
    <2>1. Changed(t) = Without(t, call.keys)
        BY <1>3 DEF Changed
    <2> QED
        BY <2>1, WithoutTable DEF GlobalTable, ObjectTable
<1> QED
    BY <1>1, <1>2, <1>3

LEMMA LoadTypes ==
    ASSUME TypeInv, LoadSidecar
    PROVE  TypeInv'
<1>1. call \in Operation /\ call.kind # "object.read"
    BY DEF TypeInv, WorkerInv, LoadSidecar
<1>2. Load(sidecar.globals) \in GlobalTable /\ Load(sidecar.objects) \in ObjectTable
    BY SidecarTable DEF TypeInv
<1>3. /\ Sidecar = "globals" => staged' \in GlobalTable
      /\ Sidecar = "objects" => staged' \in ObjectTable
    BY <1>1, <1>2, ChangedTypes, PendingAssumption DEF LoadSidecar, PendingAssumption
<1>4. /\ wpc' = "store" /\ call' = call /\ content' = content /\ Sidecar' = Sidecar
      /\ UNCHANGED <<files, save, acked>>
    BY DEF LoadSidecar, history, Sidecar
<1>5. WorkerInv'
    BY <1>1, <1>3, <1>4 DEF TypeInv, WorkerInv, Storing
<1>6. FilesInv' /\ SaveInv' /\ HistoryInv'
    BY <1>4 DEF TypeInv, FilesInv, SaveInv, HistoryInv, Clearing, files, save
<1> QED
    BY <1>5, <1>6 DEF TypeInv

\* A sidecar takes a table of its own kind or a text that does not parse.
LEMMA SidecarStored ==
    ASSUME FilesInv, NEW k \in {"globals", "objects"}, NEW t, NEW data,
           k = "globals" => t \in GlobalTable, k = "objects" => t \in ObjectTable,
           data \in {t, Torn, Empty}
    PROVE  [sidecar EXCEPT ![k] = data] \in
               [globals : GlobalTable \cup {Torn}, objects : ObjectTable \cup {Torn}]
<1>1. Empty \in GlobalTable /\ Empty \in ObjectTable
    BY EmptyTable DEF GlobalTable, ObjectTable
<1>2. CASE k = "globals"
    BY <1>1, <1>2 DEF FilesInv
<1>3. CASE k = "objects"
    BY <1>1, <1>3 DEF FilesInv
<1> QED
    BY <1>2, <1>3

LEMMA DoneTypes ==
    ASSUME TypeInv, call \in Operation, call.kind # "object.read", Done
    PROVE  HistoryInv'
<1>1. CASE call.kind = "object_set_field"
    <2>1. call.map \in Map /\ call.file \in File /\ call.edit \in Edit
        BY <1>1, CallShape DEF OnObject
    <2>2. acked' = acked \cup {<<call.map, call.file, call.edit>>}
        BY <1>1 DEF Done, AckedDone
    <2> QED
        BY <2>1, <2>2 DEF TypeInv, HistoryInv
<1>2. CASE call.kind # "object_set_field"
    <2>1. acked' \subseteq acked
        BY <1>2 DEF Done, AckedDone
    <2> QED
        BY <2>1 DEF TypeInv, HistoryInv
<1> QED
    BY <1>1, <1>2

LEMMA StoreTypes ==
    ASSUME TypeInv, StoreOpen \/ StoreFill
    PROVE  TypeInv'
<1>1. /\ call \in Operation /\ call.kind # "object.read" /\ Sidecar \in {"globals", "objects"}
      /\ Sidecar = "globals" => staged \in GlobalTable
      /\ Sidecar = "objects" => staged \in ObjectTable
    BY DEF TypeInv, WorkerInv, StoreOpen, StoreFill, Storing, Sidecar
<1>2. PICK data \in {staged, Torn, Empty} : sidecar' = [sidecar EXCEPT ![Sidecar] = data]
    BY DEF StoreOpen, StoreFill, Opened, Filled
<1>3. sidecar' \in [globals : GlobalTable \cup {Torn}, objects : ObjectTable \cup {Torn}]
    BY <1>1, <1>2, SidecarStored DEF TypeInv
<1>4. HistoryInv'
    BY <1>1, DoneTypes DEF StoreOpen, StoreFill, history, TypeInv, HistoryInv
<1>5. /\ wpc' \in {"idle", "fill"} /\ Sidecar' = Sidecar
      /\ UNCHANGED <<cache, archive, defaults, temp, call, content, staged, save>>
    BY DEF StoreOpen, StoreFill, Done, Sidecar
<1>6. WorkerInv'
    BY <1>1, <1>5 DEF TypeInv, WorkerInv, Storing
<1>7. FilesInv' /\ SaveInv'
    BY <1>3, <1>5 DEF TypeInv, FilesInv, SaveInv, Clearing, save
<1> QED
    BY <1>4, <1>6, <1>7 DEF TypeInv

\* What no step of the save touches.
LEMMA WorkerKept ==
    ASSUME WorkerInv, UNCHANGED worker
    PROVE  WorkerInv'
BY DEF WorkerInv, worker, Storing, Sidecar

LEMMA SaveStartTypes ==
    ASSUME TypeInv, SaveStart
    PROVE  TypeInv'
<1>0. PICK layout \in Layouts :
        temp' = [objects |-> [f \in File |-> archive[<<OpenMap, f>>]],
                 defaults |-> defaults, layout |-> layout]
    BY DEF SaveStart
<1> DEFINE dir == [objects |-> [f \in File |-> archive[<<OpenMap, f>>]],
                   defaults |-> defaults, layout |-> layout]
<1>1. dir \in Directory /\ dir # Nil
    <2>1. \A f \in File : <<OpenMap, f>> \in Objects
        BY PendingAssumption DEF PendingAssumption, Objects
    <2>2. dir \in Directory
        BY <2>1 DEF Directory, TypeInv, FilesInv
    <2> QED
        BY <2>2, PendingAssumption DEF PendingAssumption
<1>2. /\ temp' = dir /\ spc' = "globals" /\ toClear' = <<>> /\ packed' = packed
      /\ UNCHANGED <<sidecar, cache, archive, defaults, worker, acked>>
    BY <1>0 DEF SaveStart, history
<1> HIDE DEF dir
<1>3. FilesInv' /\ SaveInv' /\ HistoryInv'
    BY <1>1, <1>2 DEF TypeInv, FilesInv, SaveInv, HistoryInv, Clearing
<1> QED
    BY <1>2, <1>3, WorkerKept DEF TypeInv

LEMMA PatchedTypes ==
    ASSUME temp \in Directory, NEW entry \in GlobalTable, NEW names
    PROVE  Patched(entry, names) \in [Global -> Value \cup {NoValue}]
<1>1. entry \in [DOMAIN entry -> Value]
    BY TableShape DEF GlobalTable
<1> QED
    BY <1>1 DEF Patched, Directory

LEMMA PatchTypes ==
    ASSUME temp \in Directory, NEW entry \in GlobalTable
    PROVE  Patch(entry) = Nil \/ Patch(entry) \in [Global -> Value \cup {NoValue}]
<1>1. Patch(entry) \in {Patched(entry, Declared), Patched(entry, Global), Nil}
    BY DEF Patch
<1> QED
    BY <1>1, PatchedTypes

LEMMA ApplyGlobalsTypes ==
    ASSUME TypeInv, ApplyGlobals
    PROVE  TypeInv'
<1> DEFINE entry == OfMap(Load(sidecar.globals), OpenMap)
<1>1. entry \in GlobalTable /\ temp \in Directory
    BY SidecarTable, OfMapTable DEF TypeInv, GlobalTable, FilesInv, SaveInv, ApplyGlobals
<1>2. /\ temp' = (IF entry = Empty \/ Patch(entry) = Nil THEN temp
                  ELSE [temp EXCEPT !.defaults = Patch(entry)])
      /\ toClear' \in {<<"globals">>, <<>>} /\ spc' = "objects" /\ packed' = packed
      /\ UNCHANGED <<sidecar, cache, archive, defaults, worker, acked>>
    BY DEF ApplyGlobals, history
<1> HIDE DEF entry
<1>3. temp' \in Directory
    BY <1>1, <1>2, PatchTypes DEF Directory
<1>4. temp' # Nil
    BY <1>3, PendingAssumption DEF PendingAssumption
<1>5. toClear' \in Seq({"globals", "objects"})
    <2>1. <<"globals">> \in Seq({"globals", "objects"}) /\ <<>> \in Seq({"globals", "objects"})
        OBVIOUS
    <2> QED
        BY <1>2, <2>1
<1>6. SaveInv'
    BY <1>2, <1>3, <1>4, <1>5 DEF TypeInv, SaveInv, Clearing
<1>7. FilesInv' /\ HistoryInv'
    BY <1>2, <1>3 DEF TypeInv, FilesInv, HistoryInv
<1> QED
    BY <1>2, <1>6, <1>7, WorkerKept DEF TypeInv

LEMMA ApplyObjectsTypes ==
    ASSUME TypeInv, ApplyObjects
    PROVE  TypeInv'
<1> DEFINE entry == OfMap(Load(sidecar.objects), OpenMap)
<1>1. DOMAIN entry \subseteq Objects
    BY SidecarTable, OfMapTable, TableShape DEF TypeInv, ObjectTable
<1>2. copying' = {p[2] : p \in DOMAIN entry}
    BY DEF ApplyObjects
<1> HIDE DEF entry
<1>3. copying' \subseteq File
    BY <1>1, <1>2 DEF Objects
<1>4. /\ toClear' \in {toClear, Append(toClear, "objects")} /\ spc' = "copy" /\ spc = "objects"
      /\ UNCHANGED <<files, worker, packed, acked>>
    BY DEF ApplyObjects, history
<1>5. SaveInv'
    BY <1>3, <1>4 DEF TypeInv, SaveInv, Clearing, files
<1>6. FilesInv' /\ HistoryInv'
    BY <1>4 DEF TypeInv, FilesInv, HistoryInv, files
<1> QED
    BY <1>4, <1>5, <1>6, WorkerKept DEF TypeInv

LEMMA CopyTypes ==
    ASSUME TypeInv, NEW f \in File, Copy(f)
    PROVE  TypeInv'
<1>1. temp \in Directory /\ <<OpenMap, f>> \in Objects
    BY PendingAssumption DEF PendingAssumption, Objects, TypeInv, FilesInv, SaveInv, Copy
<1>2. /\ spc' \in {"end", "copy"} /\ copying' \subseteq copying /\ spc = "copy"
      /\ UNCHANGED <<sidecar, cache, archive, defaults, worker, toClear, packed, acked>>
    BY DEF Copy, history
<1>3. temp' \in Directory
    BY <1>1 DEF Copy, Directory, TypeInv, FilesInv
<1>4. temp' # Nil
    BY <1>3, PendingAssumption DEF PendingAssumption
<1>5. SaveInv'
    BY <1>2, <1>3, <1>4 DEF TypeInv, SaveInv, Clearing
<1>6. FilesInv' /\ HistoryInv'
    BY <1>2, <1>3 DEF TypeInv, FilesInv, HistoryInv
<1> QED
    BY <1>2, <1>5, <1>6, WorkerKept DEF TypeInv

LEMMA PackTypes ==
    ASSUME TypeInv, Pack
    PROVE  TypeInv'
<1>1. temp \in Directory /\ temp # Nil
    BY DEF TypeInv, FilesInv, SaveInv, Pack
<1>2. UNCHANGED <<files, worker, copying, toClear, text, acked>>
    BY DEF Pack, history
<1>3. SaveInv'
    BY <1>1, <1>2 DEF Pack, AfterPack, TypeInv, SaveInv, Clearing, files
<1>4. FilesInv' /\ HistoryInv'
    BY <1>2 DEF TypeInv, FilesInv, HistoryInv, files
<1> QED
    BY <1>2, <1>3, <1>4, WorkerKept DEF TypeInv

\* Clearing one sidecar leaves the others to clear.
LEMMA ClearedTypes ==
    ASSUME SaveInv, Clearing, Cleared, temp' = temp, packed' = packed
    PROVE  SaveInv'
<1>1. Tail(toClear) \in Seq({"globals", "objects"}) /\ (Len(toClear) # 1 => Tail(toClear) # <<>>)
    <2>1. toClear \in Seq({"globals", "objects"}) /\ toClear # <<>>
        BY DEF SaveInv
    <2>2. Len(toClear) \in Nat \ {0}
        BY <2>1
    <2>3. Tail(toClear) \in Seq({"globals", "objects"}) /\ Len(Tail(toClear)) = Len(toClear) - 1
        BY <2>1
    <2>4. Len(toClear) # 1 => Len(Tail(toClear)) # 0
        BY <2>2, <2>3
    <2>5. Len(<<>>) = 0
        OBVIOUS
    <2> QED
        BY <2>3, <2>4, <2>5
<1> QED
    BY <1>1 DEF SaveInv, Clearing, Cleared

LEMMA ClearTypes ==
    ASSUME TypeInv, ClearLoad \/ ClearOpen \/ ClearFill
    PROVE  TypeInv'
<1> DEFINE k == Head(toClear)
<1>1. k \in {"globals", "objects"} /\ Clearing /\ temp # Nil /\ packed # Nil /\ toClear # <<>>
    BY DEF TypeInv, SaveInv, Clearing, ClearLoad, ClearOpen, ClearFill
<1>2. CASE ClearLoad
    <2> DEFINE data == Load(sidecar[k])
    <2>1. /\ k = "globals" => data \in GlobalTable
          /\ k = "objects" => data \in ObjectTable
        BY SidecarTable DEF TypeInv
    <2>2. /\ k = "globals" => text' \in GlobalTable
          /\ k = "objects" => text' \in ObjectTable
        BY <1>2, <2>1, WithoutMapTable DEF ClearLoad, GlobalTable, ObjectTable
    <2>3. UNCHANGED <<files, worker, copying, packed, acked>>
        BY <1>2 DEF ClearLoad, history
    <2>4. CASE Cleared
        BY <1>1, <2>3, <2>4, ClearedTypes, WorkerKept
        DEF TypeInv, FilesInv, HistoryInv, files
    <2>5. CASE spc' = "clearStore" /\ toClear' = toClear
        <3> HIDE DEF k
        <3>1. SaveInv'
            BY <1>1, <2>2, <2>3, <2>5 DEF TypeInv, SaveInv, Clearing, files, k
        <3> QED
            BY <2>3, <3>1, WorkerKept DEF TypeInv, FilesInv, HistoryInv, files
    <2> QED
        BY <1>2, <2>4, <2>5 DEF ClearLoad
<1>3. CASE ClearOpen \/ ClearFill
    <2>1. /\ k = "globals" => text \in GlobalTable
          /\ k = "objects" => text \in ObjectTable
        BY <1>3 DEF TypeInv, SaveInv, ClearOpen, ClearFill
    <2>2. PICK data \in {text, Torn, Empty} : sidecar' = [sidecar EXCEPT ![k] = data]
        BY <1>3 DEF ClearOpen, ClearFill, Opened, Filled
    <2>3. sidecar' \in [globals : GlobalTable \cup {Torn}, objects : ObjectTable \cup {Torn}]
        BY <1>1, <2>1, <2>2, SidecarStored DEF TypeInv
    <2>4. UNCHANGED <<cache, archive, defaults, temp, worker, copying, text, packed, acked>>
        BY <1>3 DEF ClearOpen, ClearFill, history
    <2>5. FilesInv' /\ HistoryInv' /\ WorkerInv'
        BY <2>3, <2>4, WorkerKept DEF TypeInv, FilesInv, HistoryInv
    <2>6. SaveInv'
        <3>1. CASE Cleared
            BY <1>1, <2>4, <3>1, ClearedTypes DEF TypeInv
        <3>2. CASE spc' = "clearFill" /\ toClear' = toClear
            BY <1>1, <2>1, <2>4, <3>2 DEF TypeInv, SaveInv, Clearing
        <3> QED
            BY <1>3, <3>1, <3>2 DEF ClearOpen, ClearFill
    <2> QED
        BY <2>5, <2>6 DEF TypeInv
<1> QED
    BY <1>2, <1>3

LEMMA SaveEndTypes ==
    ASSUME TypeInv, SaveEnd
    PROVE  TypeInv'
<1>1. archive' \in [Objects -> SUBSET Edit] /\ defaults' \in [Global -> Value \cup {NoValue}]
    <2>1. CASE packed = Nil
        BY <2>1 DEF TypeInv, FilesInv, SaveEnd
    <2>2. CASE packed # Nil
        <3>1. packed \in Directory
            BY <2>2 DEF TypeInv, SaveInv
        <3>2. \A p \in Objects : p[2] \in File
            BY DEF Objects
        <3> QED
            BY <2>2, <3>1, <3>2 DEF TypeInv, FilesInv, SaveEnd, Directory
    <2> QED
        BY <2>1, <2>2
<1>2. /\ spc' = "idle" /\ temp' = Nil /\ packed' = Nil
      /\ UNCHANGED <<sidecar, cache, worker, copying, toClear, text, acked>>
    BY DEF SaveEnd, history
<1>3. FilesInv' /\ SaveInv' /\ HistoryInv'
    BY <1>1, <1>2 DEF TypeInv, FilesInv, SaveInv, HistoryInv, Clearing
<1> QED
    BY <1>2, <1>3, WorkerKept DEF TypeInv

LEMMA SurroundingTypes ==
    ASSUME TypeInv, Crash \/ (\E p \in Objects : CacheLost(p)) \/ UNCHANGED vars
    PROVE  TypeInv'
<1>1. CASE Crash
    BY <1>1 DEF TypeInv, FilesInv, WorkerInv, SaveInv, HistoryInv, Crash, Clearing, Storing, history
<1>2. ASSUME NEW p \in Objects, CacheLost(p) PROVE TypeInv'
    <2>1. cache' \in [Objects -> (SUBSET Edit) \cup {Missing}]
        BY <1>2 DEF TypeInv, FilesInv, CacheLost
    <2>2. UNCHANGED <<sidecar, archive, defaults, temp, worker, save, acked>>
        BY <1>2 DEF CacheLost, history
    <2> QED
        BY <2>1, <2>2, WorkerKept
        DEF TypeInv, FilesInv, SaveInv, HistoryInv, Clearing, save
<1>3. CASE UNCHANGED vars
    BY <1>3, WorkerKept
    DEF TypeInv, FilesInv, SaveInv, HistoryInv, Clearing, vars, files, save, history
<1> QED
    BY <1>1, <1>2, <1>3

LEMMA TypeStep ==
    ASSUME TypeInv, [Next]_vars
    PROVE  TypeInv'
<1>1. ASSUME NEW op \in Ops, Call(op) PROVE TypeInv'
    BY <1>1, CallTypes
<1>2. CASE Worker
    BY <1>2, ReadTypes, ResolveTypes, WriteTempTypes, WriteCacheTypes, LoadTypes, StoreTypes
    DEF Worker
<1>3. CASE SaveStart \/ Save
    BY <1>3, SaveStartTypes, ApplyGlobalsTypes, ApplyObjectsTypes, CopyTypes, PackTypes,
       ClearTypes, SaveEndTypes
    DEF Save
<1> QED
    BY <1>1, <1>2, <1>3, SurroundingTypes DEF Next

LEMMA TypeAlways == Spec => []TypeInv
<1>1. Init => TypeInv
    <2> SUFFICES ASSUME Init PROVE TypeInv
        OBVIOUS
    <2>1. [p \in Leftover |-> TRUE] \in ObjectTable
        <3>1. Leftover \subseteq Objects
            BY PendingAssumption DEF PendingAssumption
        <3>2. [p \in Leftover |-> TRUE] \in [Leftover -> {TRUE}]
            BY Zenon
        <3> QED
            BY <3>1, <3>2, Zenon DEF ObjectTable, Table
    <2>2. Empty \in GlobalTable
        BY EmptyTable DEF GlobalTable
    <2>3. \A p \in Leftover : p[1] \in Map /\ p[2] \in File
        BY PendingAssumption DEF PendingAssumption, Objects
    <2> QED
        BY <2>1, <2>2, <2>3
        DEF Init, TypeInv, FilesInv, WorkerInv, SaveInv, HistoryInv, Clearing, Storing
<1> QED
    BY <1>1, TypeStep, PTL DEF Spec

\* Every variable keeps its type, and the temporary directory exists exactly as
\* long as a save runs, however calls, saves, crashes and losses interleave.
THEOREM TypeCorrect == Spec => []TypeOK
<1>1. TypeInv => TypeOK
    <2> SUFFICES ASSUME TypeInv PROVE TypeOK
        OBVIOUS
    <2>1. Range(toClear) \subseteq {"globals", "objects"}
        BY DEF TypeInv, SaveInv, Range
    <2>2. sidecar.globals \in GlobalTable \cup {Torn} /\ sidecar.objects \in ObjectTable \cup {Torn}
        BY DEF TypeInv, FilesInv
    <2> QED
        BY <2>1, <2>2
        DEF TypeInv, FilesInv, SaveInv, HistoryInv, TypeOK, Clearing, Directory, GlobalTable,
            ObjectTable, Globals
<1> QED
    BY <1>1, TypeAlways, PTL

-----------------------------------------------------------------------------
(***************************************************************************)
(* Entries and their cache files                                           *)
(***************************************************************************)

AllCached(data) == \A p \in DOMAIN data : cache[p] # Missing

\* Not only what the sidecar names has its cache file, but also what the worker
\* or the save is about to store into it.
CacheInv ==
    /\ losses \in Nat
    /\ losses = 0 =>
        /\ AllCached(Load(sidecar.objects))
        /\ wpc = "load" /\ call.kind = "object_set_field" => cache[Object] # Missing
        /\ Storing /\ Sidecar = "objects" => AllCached(staged)
        /\ spc \in {"clearStore", "clearFill"} /\ Head(toClear) = "objects" => AllCached(text)

\* A cache file once written stays, unless somebody deletes it.
LEMMA CacheGrows ==
    ASSUME TypeInv, [Next]_vars, losses' = 0, losses \in Nat
    PROVE  losses = 0 /\ \A p \in Objects : cache[p] # Missing => cache'[p] # Missing
<1>1. ASSUME NEW p \in Objects, CacheLost(p) PROVE FALSE
    BY <1>1 DEF CacheLost
<1>2. CASE (\E op \in Ops : Call(op)) \/ SaveStart \/ Save \/ Crash \/ UNCHANGED vars
    BY <1>2 DEF Call, SaveStart, Save, ApplyGlobals, ApplyObjects, Copy, Pack, ClearLoad, ClearOpen,
                ClearFill, SaveEnd, Crash, vars, files, counters
<1>3. CASE LoadSidecar \/ StoreOpen \/ StoreFill \/ WriteTemp
    BY <1>3 DEF LoadSidecar, StoreOpen, StoreFill, WriteTemp, files, counters
<1>4. CASE ObjectRead \/ ObjectResolve
    <2>1. losses' = losses /\ Extract
        BY <1>4 DEF ObjectRead, ObjectResolve, counters
    <2>2. \A p \in Objects : archive[p] # Missing
        BY PendingAssumption DEF PendingAssumption, TypeInv, FilesInv
    <2> QED
        BY <2>1, <2>2 DEF Extract, TypeInv, FilesInv
<1>5. CASE WriteCache
    <2>1. losses' = losses
        BY <1>5 DEF WriteCache, counters
    <2>2. call \in Operation /\ call.kind = "object_set_field" /\ content \subseteq Edit
        BY <1>5 DEF WriteCache, TypeInv, WorkerInv
    <2>3. Edited \in SUBSET Edit
        BY <2>2, CallShape DEF Edited
    <2>4. Edited # Missing
        BY <2>3, PendingAssumption DEF PendingAssumption
    <2> QED
        BY <1>5, <2>1, <2>4 DEF WriteCache, TypeInv, FilesInv
<1> QED
    BY <1>1, <1>2, <1>3, <1>4, <1>5 DEF Next, Worker

LEMMA ObjectDomain == ASSUME NEW t \in ObjectTable PROVE DOMAIN t \subseteq Objects
BY TableShape DEF ObjectTable

\* The table of entries a store leaves behind.
LEMMA StoredEntries ==
    ASSUME FilesInv, NEW k \in {"globals", "objects"}, NEW t, NEW data \in {t, Torn, Empty},
           sidecar' = [sidecar EXCEPT ![k] = data]
    PROVE  Load(sidecar'.objects) \in {Load(sidecar.objects), Empty} \cup (IF k = "objects" THEN {t} ELSE {})
<1>1. CASE k = "globals"
    <2>1. sidecar'.objects = sidecar.objects
        BY <1>1 DEF FilesInv
    <2> QED
        BY <2>1
<1>2. CASE k = "objects"
    <2>1. sidecar'.objects = data
        BY <1>2 DEF FilesInv
    <2>2. Load(data) \in {Empty, t}
        BY DEF Load
    <2> QED
        BY <1>2, <2>1, <2>2
<1> QED
    BY <1>1, <1>2

\* The entries of the sidecar.
LEMMA EntriesStep ==
    ASSUME TypeInv, CacheInv, [Next]_vars, losses = 0,
           \A p \in Objects : cache[p] # Missing => cache'[p] # Missing
    PROVE  AllCached(Load(sidecar.objects))'
<1> DEFINE after == Load(sidecar'.objects)
<1>1. Load(sidecar.objects) \in ObjectTable /\ AllCached(Load(sidecar.objects))
    BY SidecarTable DEF TypeInv, CacheInv
<1>2. ASSUME NEW t \in ObjectTable, AllCached(t) PROVE \A p \in DOMAIN t : cache'[p] # Missing
    BY <1>2, ObjectDomain DEF AllCached
<1>3. DOMAIN Empty = {}
    BY DEF Empty
<1>4. SUFFICES \A p \in DOMAIN after : cache'[p] # Missing
    BY DEF AllCached
<1>5. CASE sidecar' = sidecar
    BY <1>1, <1>2, <1>5
<1>6. CASE StoreOpen \/ StoreFill
    <2>1. PICK data \in {staged, Torn, Empty} : sidecar' = [sidecar EXCEPT ![Sidecar] = data]
        BY <1>6 DEF StoreOpen, StoreFill, Opened, Filled
    <2>2. Sidecar \in {"globals", "objects"}
        BY DEF Sidecar
    <2>3. after \in {Load(sidecar.objects), Empty} \cup (IF Sidecar = "objects" THEN {staged} ELSE {})
        BY <2>1, <2>2, StoredEntries DEF TypeInv
    <2>4. Sidecar = "objects" => staged \in ObjectTable /\ AllCached(staged)
        BY <1>6 DEF StoreOpen, StoreFill, TypeInv, WorkerInv, CacheInv, Storing
    <2> HIDE DEF after
    <2> QED
        BY <1>1, <1>2, <1>3, <2>3, <2>4
<1>7. CASE ClearOpen \/ ClearFill
    <2> DEFINE k == Head(toClear)
    <2>1. PICK data \in {text, Torn, Empty} : sidecar' = [sidecar EXCEPT ![k] = data]
        BY <1>7 DEF ClearOpen, ClearFill, Opened, Filled
    <2>2. k \in {"globals", "objects"}
        BY <1>7 DEF ClearOpen, ClearFill, TypeInv, SaveInv, Clearing
    <2>3. k = "objects" => text \in ObjectTable /\ AllCached(text)
        BY <1>7 DEF ClearOpen, ClearFill, TypeInv, SaveInv, CacheInv
    <2> HIDE DEF k
    <2>4. after \in {Load(sidecar.objects), Empty} \cup (IF k = "objects" THEN {text} ELSE {})
        BY <2>1, <2>2, StoredEntries DEF TypeInv
    <2> HIDE DEF after
    <2> QED
        BY <1>1, <1>2, <1>3, <2>3, <2>4
<1>8. sidecar' = sidecar \/ StoreOpen \/ StoreFill \/ ClearOpen \/ ClearFill
    BY DEF Next, Worker, Save, Call, ObjectRead, ObjectResolve, WriteTemp, WriteCache, LoadSidecar,
           SaveStart, ApplyGlobals, ApplyObjects, Copy, Pack, ClearLoad, SaveEnd, CacheLost, Crash,
           vars, files
<1> QED
    BY <1>5, <1>6, <1>7, <1>8

\* The file a registration is about to name.
LEMMA RegisteringStep ==
    ASSUME TypeInv, CacheInv, [Next]_vars, losses = 0,
           \A p \in Objects : cache[p] # Missing => cache'[p] # Missing
    PROVE  wpc' = "load" /\ call'.kind = "object_set_field" => cache'[Object'] # Missing
<1>1. ASSUME NEW op \in Ops, Call(op), wpc' = "load" PROVE call'.kind # "object_set_field"
    BY <1>1 DEF Call, OnObject
<1>2. CASE WriteCache
    <2>1. call \in Operation /\ call.kind = "object_set_field" /\ content \subseteq Edit
        BY <1>2 DEF WriteCache, TypeInv, WorkerInv
    <2>2. Edited \in SUBSET Edit /\ Object \in Objects
        BY <2>1, CallShape DEF Edited, Object, OnObject
    <2>3. Edited # Missing
        BY <2>2, PendingAssumption DEF PendingAssumption
    <2>4. wpc' = "load" => cache' = [cache EXCEPT ![Object] = Edited]
        BY <1>2 DEF WriteCache
    <2>5. Object' = Object
        BY <1>2 DEF WriteCache, Object
    <2> QED
        BY <2>2, <2>3, <2>4, <2>5 DEF TypeInv, FilesInv
<1>3. CASE wpc' # "load"
    BY <1>3
<1>4. CASE wpc' = wpc /\ call' = call
    <2> SUFFICES ASSUME wpc = "load", call.kind = "object_set_field" PROVE cache'[Object] # Missing
        BY <1>4 DEF Object
    <2>1. cache[Object] # Missing
        BY DEF CacheInv
    <2>2. Object \in Objects
        BY CallShape DEF TypeInv, WorkerInv, Object, OnObject
    <2> QED
        BY <2>1, <2>2
<1>5. \/ \E op \in Ops : Call(op)
      \/ WriteCache \/ wpc' # "load" \/ (wpc' = wpc /\ call' = call)
    BY DEF Next, Worker, Save, ObjectRead, ObjectResolve, WriteTemp, LoadSidecar, StoreOpen,
           StoreFill, Done, SaveStart, ApplyGlobals, ApplyObjects, Copy, Pack, ClearLoad, ClearOpen,
           ClearFill, SaveEnd, CacheLost, Crash, vars, worker
<1> QED
    BY <1>1, <1>2, <1>3, <1>4, <1>5

\* The table the worker is about to store.
LEMMA StagedStep ==
    ASSUME TypeInv, CacheInv, [Next]_vars, losses = 0,
           \A p \in Objects : cache[p] # Missing => cache'[p] # Missing
    PROVE  Storing' /\ Sidecar' = "objects" => AllCached(staged)'
<1> DEFINE entries == Load(sidecar.objects)
<1> SUFFICES ASSUME Storing', Sidecar' = "objects"
             PROVE  \A p \in DOMAIN staged' : cache'[p] # Missing
    BY DEF AllCached
<1>1. CASE LoadSidecar
    <2>1. /\ call \in Operation /\ call.kind # "object.read" /\ Sidecar = "objects"
          /\ cache' = cache
        BY <1>1 DEF TypeInv, WorkerInv, LoadSidecar, Sidecar, files
    <2>2. staged' = Changed(entries) /\ entries \in ObjectTable
        BY <1>1, <2>1, SidecarTable DEF LoadSidecar, TypeInv
    <2>3. \A p \in DOMAIN entries : cache[p] # Missing
        BY DEF CacheInv, AllCached
    <2> HIDE DEF entries
    <2>4. CASE call.kind = "object_set_field"
        <3>1. staged' = With(entries, Object, TRUE) /\ cache[Object] # Missing
            BY <1>1, <2>2, <2>4 DEF Changed, CacheInv, LoadSidecar
        <3>2. DOMAIN With(entries, Object, TRUE) = DOMAIN entries \cup {Object}
            BY DEF With
        <3> QED
            BY <2>1, <2>3, <3>1, <3>2
    <2>5. CASE call.kind # "object_set_field"
        <3>1. staged' = Without(entries, call.keys)
            BY <2>1, <2>2, <2>5 DEF Changed, Sidecar
        <3>2. DOMAIN staged' \subseteq DOMAIN entries
            BY <2>2, <3>1, WithoutTable DEF ObjectTable
        <3> QED
            BY <2>1, <2>3, <3>2
    <2> QED
        BY <2>4, <2>5
<1>2. CASE Storing /\ call' = call /\ staged' = staged
    <2>1. Sidecar = "objects"
        BY <1>2 DEF Sidecar
    <2>2. staged \in ObjectTable /\ AllCached(staged)
        BY <1>2, <2>1 DEF TypeInv, WorkerInv, CacheInv
    <2> QED
        BY <1>2, <2>2, ObjectDomain DEF AllCached
<1>3. LoadSidecar \/ (Storing /\ call' = call /\ staged' = staged)
    BY DEF Storing, Next, Worker, Save, Call, ObjectRead, ObjectResolve, WriteTemp, WriteCache,
           StoreOpen, StoreFill, Done, SaveStart, ApplyGlobals, ApplyObjects, Copy, Pack, ClearLoad,
           ClearOpen, ClearFill, SaveEnd, CacheLost, Crash, vars, worker
<1> QED
    BY <1>1, <1>2, <1>3

\* The table the save is about to store.
LEMMA TextStep ==
    ASSUME TypeInv, CacheInv, [Next]_vars, losses = 0,
           \A p \in Objects : cache[p] # Missing => cache'[p] # Missing
    PROVE  spc' \in {"clearStore", "clearFill"} /\ Head(toClear') = "objects" => AllCached(text)'
<1> SUFFICES ASSUME spc' \in {"clearStore", "clearFill"}, Head(toClear') = "objects"
             PROVE  \A p \in DOMAIN text' : cache'[p] # Missing
    BY DEF AllCached
<1>1. CASE ClearLoad
    <2> DEFINE entries == Load(sidecar.objects)
    <2>1. toClear' = toClear /\ cache' = cache
        BY <1>1 DEF ClearLoad, Cleared, files
    <2>2. text' = WithoutMap(entries, OpenMap) /\ entries \in ObjectTable
        BY <1>1, <2>1, SidecarTable DEF ClearLoad, TypeInv
    <2>3. \A p \in DOMAIN entries : cache[p] # Missing
        BY DEF CacheInv, AllCached
    <2> HIDE DEF entries
    <2>4. DOMAIN text' \subseteq DOMAIN entries
        BY <2>2, WithoutMapTable DEF ObjectTable
    <2> QED
        BY <2>1, <2>3, <2>4
<1>2. CASE spc \in {"clearStore", "clearFill"} /\ toClear' = toClear /\ text' = text
    <2>1. text \in ObjectTable /\ AllCached(text)
        BY <1>2 DEF TypeInv, SaveInv, CacheInv
    <2> QED
        BY <1>2, <2>1, ObjectDomain DEF AllCached
<1>3. ClearLoad \/ (spc \in {"clearStore", "clearFill"} /\ toClear' = toClear /\ text' = text)
    BY DEF Next, Worker, Save, Call, ObjectRead, ObjectResolve, WriteTemp, WriteCache, LoadSidecar,
           StoreOpen, StoreFill, SaveStart, ApplyGlobals, ApplyObjects, Copy, Pack, AfterPack,
           ClearOpen, ClearFill, Cleared, SaveEnd, CacheLost, Crash, vars, save
<1> QED
    BY <1>1, <1>2, <1>3

LEMMA CacheStep ==
    ASSUME TypeInv, CacheInv, [Next]_vars
    PROVE  CacheInv'
<1>1. losses \in Nat /\ losses' \in Nat
    <2>1. losses \in Nat
        BY DEF CacheInv
    <2>2. ASSUME NEW p \in Objects, CacheLost(p) PROVE losses' = losses + 1
        BY <2>2 DEF CacheLost
    <2>3. CASE Worker
        BY <2>1, <2>3 DEF Worker, ObjectRead, ObjectResolve, WriteTemp, WriteCache, LoadSidecar, StoreOpen,
                    StoreFill, counters
    <2>4. CASE Save
        BY <2>1, <2>4 DEF Save, ApplyGlobals, ApplyObjects, Copy, Pack, ClearLoad, ClearOpen,
                          ClearFill, SaveEnd, counters
    <2>5. CASE (\E op \in Ops : Call(op)) \/ SaveStart \/ Crash \/ UNCHANGED vars
        BY <2>1, <2>5 DEF Call, SaveStart, Crash, vars, counters
    <2> QED
        BY <2>1, <2>2, <2>3, <2>4, <2>5 DEF Next
<1>2. SUFFICES ASSUME losses' = 0 PROVE CacheInv'
    BY <1>1 DEF CacheInv
<1>3. losses = 0 /\ \A p \in Objects : cache[p] # Missing => cache'[p] # Missing
    BY <1>1, <1>2, CacheGrows
<1>4. AllCached(Load(sidecar.objects))'
    BY <1>3, EntriesStep
<1>5. wpc' = "load" /\ call'.kind = "object_set_field" => cache'[Object'] # Missing
    BY <1>3, RegisteringStep
<1>6. Storing' /\ Sidecar' = "objects" => AllCached(staged)'
    BY <1>3, StagedStep
<1>7. spc' \in {"clearStore", "clearFill"} /\ Head(toClear') = "objects" => AllCached(text)'
    BY <1>3, TextStep
<1> QED
    BY <1>1, <1>4, <1>5, <1>6, <1>7 DEF CacheInv

\* Whoever saves what and wherever the editor dies, an entry a save can read names
\* a cache file that is there, unless somebody deletes one (object.write writes
\* the cache before it registers it, lines 2148-2175).
THEOREM EntriesCached == Spec => []EntryHasCache
<1>1. Init => CacheInv
    <2> SUFFICES ASSUME Init PROVE CacheInv
        OBVIOUS
    <2>1. sidecar.objects = [p \in Leftover |-> TRUE]
        BY DEF Init
    <2>2. DOMAIN sidecar.objects = Leftover
        BY <2>1, Zenon
    <2>3. DOMAIN Load(sidecar.objects) \subseteq Leftover
        BY <2>2 DEF Load, Empty
    <2>4. \A p \in Leftover : cache[p] # Missing
        BY PendingAssumption DEF PendingAssumption, Init
    <2> QED
        BY <2>3, <2>4 DEF Init, CacheInv, AllCached, Storing
<1>2. CacheInv => EntryHasCache
    BY DEF CacheInv, EntryHasCache, AllCached
<1> QED
    BY <1>1, <1>2, CacheStep, TypeAlways, PTL DEF Spec

-----------------------------------------------------------------------------
(***************************************************************************)
(* What is staged and what was promised.  From here on no save is asked    *)
(* for while a call runs.                                                  *)
(***************************************************************************)

Sole == wpc = "idle" \/ spc = "idle"

\* The tables as they will be when the store that is under way has ended, and
\* what the call will have been reported to have done.
TableOf(k) ==
    IF Storing /\ Sidecar = k THEN staged
    ELSE IF spc \in {"clearStore", "clearFill"} /\ Head(toClear) = k THEN text
    ELSE Load(sidecar[k])
StagedObjects == TableOf("objects")
StagedGlobals == TableOf("globals")
Promised == IF Storing THEN AckedDone ELSE acked
Vowed == IF Storing THEN ChosenDone ELSE chosen

File2(a) == <<a[1], a[2]>>
Key(g) == <<OpenMap, g>>
Settable == {op.global : op \in {o \in Ops : o.kind = "set_global_value"}}

\* Every promised edit is in the cache file that is staged for its object file,
\* or else in the archive (until the packed map takes its place).
InCache(t) ==
    \A a \in Promised : File2(a) \in DOMAIN t
                        => cache[File2(a)] = Missing \/ a[3] \in cache[File2(a)]
InArchive(t) ==
    \A a \in Promised : File2(a) \notin DOMAIN t /\ (a[1] # OpenMap \/ packed = Nil)
                        => a[3] \in archive[File2(a)]
Valued(t) == \A g \in DOMAIN Vowed : Key(g) \in DOMAIN t => t[Key(g)] = Vowed[g]
Settled(t) ==
    \A g \in DOMAIN Vowed : Key(g) \notin DOMAIN t /\ packed = Nil => defaults[g] = Vowed[g]

StagedInv ==
    /\ InCache(StagedObjects) /\ InArchive(StagedObjects)
    /\ Valued(StagedGlobals) /\ Settled(StagedGlobals)
    /\ Vowed \in Table(Settable, Value)
    /\ Promised \subseteq Map \X File \X Edit

\* The worker edits a file that is not staged, and what it read is the archive's.
EditInv ==
    /\ wpc # "idle" => call \in Ops
    /\ wpc # "writeTemp"
    /\ wpc \in {"read", "resolve", "writeCache"} => Object \notin DOMAIN StagedObjects
    /\ wpc \in {"resolve", "writeCache"} => content = archive[Object]
    /\ wpc = "load" /\ call.kind = "object_set_field" =>
          cache[Object] = Missing \/ archive[Object] \cup {call.edit} \subseteq cache[Object]
    /\ wpc = "fill" => sidecar[Sidecar] = Torn

\* What the files of the temporary directory hold.
Covered(g) ==
    temp.layout = "script" \/ (temp.layout \in {"lml", "wtg"} /\ g \in Declared)
TempObjects ==
    \A a \in Promised : a[1] = OpenMap =>
        \/ a[3] \in temp.objects[a[2]]
        \/ spc \in {"globals", "objects"} /\ File2(a) \in DOMAIN StagedObjects
        \/ spc = "copy" /\ a[2] \in copying
        \/ spc = "end" /\ packed = Nil
TempGlobals ==
    \A g \in DOMAIN Vowed :
        \/ temp.defaults[g] = Vowed[g]
        \/ ~Covered(g) /\ Key(g) \in DOMAIN StagedGlobals /\ "globals" \notin Range(toClear)
PackInv ==
    /\ packed \in {Nil, temp}
    /\ spc \in {"globals", "objects", "copy"} => packed = Nil
    /\ spc = "globals" => temp.defaults = defaults
    /\ spc # "idle" => TempObjects
    /\ spc \notin {"idle", "globals"} => TempGlobals
    /\ spc = "copy" => \A f \in copying : <<OpenMap, f>> \in DOMAIN StagedObjects
    /\ spc = "clearFill" => sidecar[Head(toClear)] = Torn

LossInv == crashes = 0 /\ Sole /\ StagedInv /\ EditInv /\ PackInv

\* Calls and saves take turns, clients leave a staged object file alone, the editor
\* lives, and a map with a variable.lml declares every global that is set.
Turns ==
    /\ Careful /\ ~Overlap /\ MaxCrashes = 0
    /\ "lml" \in Layouts => Settable \subseteq Declared

LEMMA WorkerAlone ==
    ASSUME TypeInv, LossInv, wpc # "idle"
    PROVE  spc = "idle" /\ temp = Nil /\ packed = Nil /\ ~InTemp
BY DEF TypeInv, SaveInv, LossInv, Sole, PackInv, InTemp

LEMMA SaveAlone ==
    ASSUME TypeInv, LossInv, spc # "idle"
    PROVE  wpc = "idle" /\ ~Storing /\ temp \in Directory /\ temp # Nil
BY DEF TypeInv, FilesInv, SaveInv, LossInv, Sole, Storing

\* A step that leaves tables, promises and maps alone, and the cache files that
\* are staged or takes them away.
LEMMA StagedKept ==
    ASSUME StagedInv, UNCHANGED <<Promised, Vowed, StagedObjects, StagedGlobals>>,
           UNCHANGED <<archive, defaults, packed>>,
           \A p \in DOMAIN StagedObjects : cache'[p] = cache[p] \/ cache'[p] = Missing
    PROVE  StagedInv'
BY DEF StagedInv, InCache, InArchive, Valued, Settled

LEMMA TempKept ==
    ASSUME PackInv, UNCHANGED <<Promised, Vowed, StagedObjects, StagedGlobals>>,
           UNCHANGED <<temp, defaults, packed, spc, copying, toClear>>,
           UNCHANGED sidecar
    PROVE  PackInv'
BY DEF PackInv, TempObjects, TempGlobals, Covered

\* The steps of the worker that leave the sidecars alone.
LEMMA WorkerTables ==
    ASSUME ~Storing, ~Storing', UNCHANGED <<sidecar, spc, toClear, text, acked, chosen>>
    PROVE  UNCHANGED <<Promised, Vowed, StagedObjects, StagedGlobals>>
BY DEF Promised, Vowed, StagedObjects, StagedGlobals, TableOf

\* A step of the worker between two saves.
LEMMA WorkerPack ==
    ASSUME TypeInv, LossInv, TypeInv', spc = "idle", UNCHANGED save
    PROVE  PackInv'
<1>1. temp = Nil /\ packed = Nil /\ spc' = "idle" /\ packed' = Nil /\ temp' = Nil
    BY DEF TypeInv, SaveInv, LossInv, PackInv, save
<1> QED
    BY <1>1 DEF PackInv

LEMMA StagedTypes ==
    ASSUME TypeInv
    PROVE  StagedObjects \in ObjectTable /\ StagedGlobals \in GlobalTable
BY SidecarTable
DEF StagedObjects, StagedGlobals, TableOf, TypeInv, WorkerInv, SaveInv, Storing

LEMMA StagedDomain == ASSUME TypeInv PROVE DOMAIN StagedObjects \subseteq Objects
BY StagedTypes, ObjectDomain

LEMMA CallLoss ==
    ASSUME Turns, TypeInv, TypeInv', LossInv, NEW op \in Ops, Call(op)
    PROVE  LossInv'
<1>1. /\ wpc = "idle" /\ spc = "idle" /\ call' = op
      /\ wpc' = (IF OnObject(op) THEN "read" ELSE "load")
      /\ OnObject(op) => ~Staged(<<op.map, op.file>>)
      /\ UNCHANGED <<sidecar, cache, archive, defaults, save, acked, chosen, crashes>>
    BY DEF Call, Turns, files, history
<1>2. UNCHANGED <<Promised, Vowed, StagedObjects, StagedGlobals>>
    BY <1>1, WorkerTables DEF Storing, save
<1>3. StagedInv'
    BY <1>1, <1>2, StagedKept DEF LossInv, save
<1>4. EditInv'
    <2>1. StagedObjects = Load(sidecar.objects)
        BY <1>1 DEF StagedObjects, TableOf, Storing
    <2>2. OnObject(op) => Object' \notin DOMAIN StagedObjects'
        BY <1>1, <1>2, <2>1 DEF Object, Staged
    <2>3. wpc' = "load" => op.kind # "object_set_field"
        BY <1>1 DEF OnObject
    <2> QED
        BY <1>1, <2>2, <2>3 DEF EditInv
<1>5. PackInv'
    BY <1>1, WorkerPack
<1> QED
    BY <1>1, <1>3, <1>4, <1>5 DEF LossInv, Sole, save

\* Reading extracts the archive's file over the cache file of a file that is
\* not staged.
LEMMA ReadLoss ==
    ASSUME TypeInv, TypeInv', LossInv, ObjectRead \/ ObjectResolve
    PROVE  LossInv'
<1>1. wpc \in {"read", "resolve"} /\ ~Storing
    BY DEF ObjectRead, ObjectResolve, Storing
<1>2. spc = "idle" /\ ~InTemp
    BY <1>1, WorkerAlone
<1>3. /\ wpc' \in {"idle", "resolve", "writeCache"} /\ call' = call
      /\ cache' = [cache EXCEPT ![Object] = archive[Object]]
      /\ UNCHANGED <<sidecar, archive, defaults, save, acked, chosen, crashes>>
      /\ wpc' # "idle" => content' = archive[Object]
    BY <1>1, <1>2 DEF ObjectRead, ObjectResolve, Extract, history, counters, LossInv, EditInv
<1>4. UNCHANGED <<Promised, Vowed, StagedObjects, StagedGlobals>> /\ Object' = Object
    BY <1>1, <1>3, WorkerTables DEF Storing, save, Object
<1>5. Object \notin DOMAIN StagedObjects
    BY <1>1 DEF LossInv, EditInv
<1>6. \A p \in DOMAIN StagedObjects : cache'[p] = cache[p]
    BY <1>3, <1>5, StagedDomain DEF TypeInv, FilesInv
<1>7. StagedInv'
    BY <1>3, <1>4, <1>6, StagedKept DEF LossInv, save
<1>8. EditInv'
    BY <1>1, <1>3, <1>4, <1>5 DEF LossInv, EditInv
<1>9. PackInv'
    BY <1>2, <1>3, WorkerPack
<1> QED
    BY <1>2, <1>3, <1>7, <1>8, <1>9 DEF LossInv, Sole, save

LEMMA WriteCacheLoss ==
    ASSUME TypeInv, TypeInv', LossInv, WriteCache
    PROVE  LossInv'
<1>1. wpc = "writeCache" /\ ~Storing /\ call \in Operation /\ call.kind = "object_set_field"
    BY DEF WriteCache, Storing, TypeInv, WorkerInv
<1>2. /\ spc = "idle" /\ packed = Nil /\ content = archive[Object]
      /\ Object \notin DOMAIN StagedObjects /\ call \in Ops
    BY <1>1, WorkerAlone DEF LossInv, EditInv
<1>3. /\ wpc' \in {"idle", "load"} /\ call' = call /\ Object' = Object
      /\ UNCHANGED <<sidecar, defaults, save, chosen, crashes>>
    BY DEF WriteCache, counters, Object
<1>4. Object \in Objects /\ Object = <<call.map, call.file>> /\ call.edit \in Edit
    BY <1>1, CallShape DEF Object, OnObject
<1>5. /\ Vowed' = Vowed /\ StagedObjects' = StagedObjects /\ StagedGlobals' = StagedGlobals
      /\ Promised = acked /\ Promised' = acked'
    BY <1>1, <1>3 DEF Storing, save, Vowed, StagedObjects, StagedGlobals, TableOf, Promised
<1>6. \A p \in DOMAIN StagedObjects : cache'[p] = cache[p]
    <2>1. cache' = cache \/ cache' = [cache EXCEPT ![Object] = Edited]
        BY DEF WriteCache
    <2> QED
        BY <1>2, <2>1, StagedDomain DEF TypeInv, FilesInv
<1>7. PackInv'
    BY <1>2, <1>3, WorkerPack
<1>8. CASE UNCHANGED <<archive, acked>>
    <2>1. StagedInv'
        BY <1>3, <1>5, <1>6, <1>8, StagedKept DEF LossInv, save
    <2>2. wpc' = "load" => cache' = [cache EXCEPT ![Object] = Edited]
        BY DEF WriteCache
    <2>3. wpc' = "load" => archive[Object] \cup {call.edit} \subseteq cache'[Object]
        BY <1>2, <1>4, <2>2 DEF Edited, TypeInv, FilesInv
    <2>4. EditInv'
        BY <1>2, <1>3, <1>8, <2>3 DEF EditInv
    <2> QED
        BY <1>2, <1>3, <1>7, <2>1, <2>4 DEF LossInv, Sole, save
<1>9. CASE wpc' = "idle" /\ archive' = [archive EXCEPT ![Object] = Edited] /\ Acknowledged
    <2>1. acked' = acked \cup {<<call.map, call.file, call.edit>>}
        BY <1>9 DEF Acknowledged
    <2>2. \A p \in Objects : archive[p] \subseteq archive'[p]
        BY <1>2, <1>4, <1>9 DEF Edited, TypeInv, FilesInv
    <2>3. call.edit \in archive'[Object]
        BY <1>4, <1>9 DEF Edited, TypeInv, FilesInv
    <2>4. acked \subseteq Map \X File \X Edit /\ \A a \in acked : File2(a) \in Objects
        BY DEF TypeInv, HistoryInv, File2, Objects
    <2>5. File2(<<call.map, call.file, call.edit>>) = Object
        BY <1>4 DEF File2
    <2>6. InCache(StagedObjects)'
        BY <1>2, <1>5, <1>6, <2>1, <2>5 DEF LossInv, StagedInv, InCache, File2
    <2>7. InArchive(StagedObjects)'
        <3> SUFFICES ASSUME NEW a \in acked', File2(a) \notin DOMAIN StagedObjects
                     PROVE  a[3] \in archive'[File2(a)]
            BY <1>5 DEF InArchive, File2
        <3>1. CASE a \in acked
            BY <1>2, <1>5, <2>2, <2>4, <3>1 DEF LossInv, StagedInv, InArchive
        <3>2. CASE a = <<call.map, call.file, call.edit>>
            BY <2>3, <2>5, <3>2
        <3> QED
            BY <2>1, <3>1, <3>2
    <2>8. Promised' \subseteq Map \X File \X Edit
        BY <1>5 DEF TypeInv, HistoryInv
    <2>9. StagedInv'
        BY <1>3, <1>5, <2>6, <2>7, <2>8 DEF LossInv, StagedInv, Valued, Settled, save
    <2>10. EditInv'
        BY <1>3, <1>9 DEF EditInv
    <2> QED
        BY <1>3, <1>7, <1>9, <2>9, <2>10 DEF LossInv, Sole
<1> QED
    BY <1>8, <1>9 DEF WriteCache

\* What is staged, and what is promised, once the worker has loaded a sidecar: the
\* four calls that store one.
LEMMA LoadedTables ==
    ASSUME TypeInv, LossInv, LoadSidecar
    PROVE  /\ Promised = acked /\ Vowed = chosen /\ Promised' = AckedDone /\ Vowed' = ChosenDone
           /\ Sidecar = "objects" => /\ StagedObjects' = Changed(StagedObjects)
                                     /\ StagedGlobals' = StagedGlobals
           /\ Sidecar = "globals" => /\ StagedGlobals' = Changed(StagedGlobals)
                                     /\ StagedObjects' = StagedObjects
           /\ packed = Nil
<1>1. /\ wpc = "load" /\ ~Storing /\ Storing' /\ staged' = Changed(Load(sidecar[Sidecar]))
      /\ UNCHANGED <<files, call, content, save, history, counters>>
    BY DEF LoadSidecar, Storing
<1>2. spc = "idle" /\ spc' = "idle" /\ packed = Nil
    BY <1>1, WorkerAlone DEF save
<1>3. Promised = acked /\ Vowed = chosen /\ Promised' = AckedDone' /\ Vowed' = ChosenDone'
    BY <1>1 DEF Promised, Vowed
<1>4. AckedDone' = AckedDone /\ ChosenDone' = ChosenDone /\ Sidecar' = Sidecar
    BY <1>1 DEF AckedDone, ChosenDone, Sidecar, files, history
<1>5. \A k : TableOf(k) = Load(sidecar[k])
    BY <1>1, <1>2 DEF TableOf
<1>6. \A k : TableOf(k)' = IF Sidecar = k THEN staged' ELSE Load(sidecar[k])
    BY <1>1, <1>2, <1>4 DEF TableOf, files
<1> QED
    BY <1>1, <1>2, <1>3, <1>4, <1>5, <1>6 DEF StagedObjects, StagedGlobals

LEMMA LoadEditLoss ==
    ASSUME TypeInv, TypeInv', LossInv, LoadSidecar, call.kind = "object_set_field"
    PROVE  StagedInv'
<1>1. call \in Operation /\ wpc = "load" /\ call' = call /\ Sidecar = "objects"
    BY DEF TypeInv, WorkerInv, LoadSidecar, Sidecar
<1>2. /\ Object \in Objects /\ Object = <<call.map, call.file>>
      /\ call.map \in Map /\ call.file \in File /\ call.edit \in Edit
    BY <1>1, CallShape DEF Object, OnObject
<1>3. UNCHANGED <<cache, archive, defaults, packed>>
    BY DEF LoadSidecar, files, save
<1>4. /\ Promised = acked /\ Promised' = acked \cup {<<call.map, call.file, call.edit>>}
      /\ Vowed' = Vowed /\ StagedGlobals' = StagedGlobals /\ packed = Nil
      /\ StagedObjects' = With(StagedObjects, Object, TRUE)
    BY <1>1, LoadedTables DEF AckedDone, ChosenDone, Changed
<1>5. DOMAIN StagedObjects' = DOMAIN StagedObjects \cup {Object}
    BY <1>4 DEF With
<1>6. cache[Object] = Missing \/ archive[Object] \cup {call.edit} \subseteq cache[Object]
    BY <1>1 DEF LossInv, EditInv
<1>7. File2(<<call.map, call.file, call.edit>>) = Object
    BY <1>2 DEF File2
<1>8. InCache(StagedObjects)'
    <2> SUFFICES ASSUME NEW a \in Promised', File2(a) \in DOMAIN StagedObjects',
                        cache[File2(a)] # Missing
                 PROVE  a[3] \in cache[File2(a)]
        BY <1>3 DEF InCache, File2
    <2>1. CASE a = <<call.map, call.file, call.edit>>
        BY <1>6, <1>7, <2>1
    <2>2. CASE a \in acked /\ File2(a) \in DOMAIN StagedObjects
        BY <1>4, <2>2 DEF LossInv, StagedInv, InCache
    <2>3. CASE a \in acked /\ File2(a) \notin DOMAIN StagedObjects
        <3>1. a[3] \in archive[File2(a)] /\ File2(a) = Object
            BY <1>4, <1>5, <2>3 DEF LossInv, StagedInv, InArchive
        <3> QED
            BY <1>6, <3>1
    <2> QED
        BY <1>4, <2>1, <2>2, <2>3
<1>9. InArchive(StagedObjects)'
    <2> SUFFICES ASSUME NEW a \in Promised', File2(a) \notin DOMAIN StagedObjects'
                 PROVE  a[3] \in archive[File2(a)]
        BY <1>3 DEF InArchive, File2
    <2>1. a \in acked /\ File2(a) \notin DOMAIN StagedObjects
        BY <1>4, <1>5, <1>7
    <2> QED
        BY <1>4, <2>1 DEF LossInv, StagedInv, InArchive
<1>10. Promised' \subseteq Map \X File \X Edit
    BY <1>2, <1>4 DEF TypeInv, HistoryInv
<1> QED
    BY <1>3, <1>4, <1>8, <1>9, <1>10 DEF LossInv, StagedInv, Valued, Settled

LEMMA LoadClearObjectsLoss ==
    ASSUME TypeInv, TypeInv', LossInv, LoadSidecar, call.kind = "clear_pending_objects"
    PROVE  StagedInv'
<1>1. call \in Operation /\ wpc = "load" /\ call' = call /\ Sidecar = "objects"
    BY DEF TypeInv, WorkerInv, LoadSidecar, Sidecar
<1>2. UNCHANGED <<cache, archive, defaults, packed>>
    BY DEF LoadSidecar, files, save
<1>3. /\ Promised = acked
      /\ Promised' = {a \in acked : File2(a) \in call.keys => a[3] \in archive[File2(a)]}
      /\ Vowed' = Vowed /\ StagedGlobals' = StagedGlobals /\ packed = Nil
      /\ StagedObjects' = Without(StagedObjects, call.keys)
    BY <1>1, LoadedTables DEF AckedDone, ChosenDone, Changed, File2
<1>4. DOMAIN StagedObjects' = DOMAIN StagedObjects \ call.keys
    BY <1>3 DEF Without, Restrict
<1>5. InCache(StagedObjects)'
    BY <1>2, <1>3, <1>4 DEF LossInv, StagedInv, InCache, File2
<1>6. InArchive(StagedObjects)'
    BY <1>2, <1>3, <1>4 DEF LossInv, StagedInv, InArchive, File2
<1> QED
    BY <1>2, <1>3, <1>5, <1>6 DEF LossInv, StagedInv, Valued, Settled

LEMMA LoadSetGlobalLoss ==
    ASSUME TypeInv, TypeInv', LossInv, LoadSidecar, call.kind = "set_global_value"
    PROVE  StagedInv'
<1>1. call \in Operation /\ call \in Ops /\ call' = call /\ Sidecar = "globals"
    BY DEF TypeInv, WorkerInv, LoadSidecar, Sidecar, LossInv, EditInv
<1>2. UNCHANGED <<cache, archive, defaults, packed>>
    BY DEF LoadSidecar, files, save
<1>3. call.global \in Settable /\ call.value \in Value /\ <<OpenMap, call.global>> = Key(call.global)
    BY <1>1, CallShape DEF Settable, Key
<1>4. /\ Promised' = Promised /\ StagedObjects' = StagedObjects
      /\ Vowed' = With(Vowed, call.global, call.value)
      /\ StagedGlobals' = With(StagedGlobals, Key(call.global), call.value)
    BY <1>1, <1>3, LoadedTables DEF AckedDone, ChosenDone, Changed
<1>5. Vowed \in Table(Settable, Value)
    BY DEF LossInv, StagedInv
<1>6. Vowed' \in Table(Settable, Value)
    BY <1>3, <1>4, <1>5, WithTable
<1>7. \A g, h : Key(g) = Key(h) => g = h
    BY DEF Key
<1>8. /\ Valued(StagedGlobals)'
      /\ Settled(StagedGlobals)'
    <2> SUFFICES ASSUME NEW g \in DOMAIN Vowed'
                 PROVE  /\ Key(g) \in DOMAIN StagedGlobals' => StagedGlobals'[Key(g)] = Vowed'[g]
                        /\ Key(g) \notin DOMAIN StagedGlobals' /\ packed = Nil
                              => defaults[g] = Vowed'[g]
        BY <1>2 DEF Valued, Settled, Key
    <2>1. CASE g = call.global
        BY <1>4, <2>1 DEF With
    <2>2. CASE g # call.global
        <3>1. /\ g \in DOMAIN Vowed /\ Vowed'[g] = Vowed[g] /\ Key(g) # Key(call.global)
              /\ Key(g) \in DOMAIN StagedGlobals' <=> Key(g) \in DOMAIN StagedGlobals
              /\ Key(g) \in DOMAIN StagedGlobals =>
                    StagedGlobals'[Key(g)] = StagedGlobals[Key(g)]
            BY <1>4, <1>7, <2>2 DEF With
        <3> QED
            BY <3>1 DEF LossInv, StagedInv, Valued, Settled
    <2> QED
        BY <2>1, <2>2
<1> QED
    BY <1>2, <1>4, <1>6, <1>8 DEF LossInv, StagedInv, InCache, InArchive

LEMMA LoadClearGlobalsLoss ==
    ASSUME TypeInv, TypeInv', LossInv, LoadSidecar, call.kind = "clear_pending_globals"
    PROVE  StagedInv'
<1>1. call \in Operation /\ call' = call /\ Sidecar = "globals"
    BY DEF TypeInv, WorkerInv, LoadSidecar, Sidecar
<1>2. UNCHANGED <<cache, archive, defaults, packed>>
    BY DEF LoadSidecar, files, save
<1> DEFINE left == {g \in DOMAIN Vowed : Key(g) \in call.keys => defaults[g] = Vowed[g]}
<1>3. /\ Promised' = Promised /\ StagedObjects' = StagedObjects
      /\ Vowed' = Restrict(Vowed, left)
      /\ StagedGlobals' = Without(StagedGlobals, call.keys)
    BY <1>1, LoadedTables DEF AckedDone, ChosenDone, Changed, Key
<1>4. Vowed' \in Table(Settable, Value) /\ DOMAIN Vowed' = left
    BY <1>3, RestrictTable DEF LossInv, StagedInv
<1>5. \A g \in left : Vowed'[g] = Vowed[g]
    BY <1>3 DEF Restrict
<1>6. /\ DOMAIN StagedGlobals' = DOMAIN StagedGlobals \ call.keys
      /\ \A k \in DOMAIN StagedGlobals' : StagedGlobals'[k] = StagedGlobals[k]
    BY <1>3 DEF Without, Restrict
<1>7. Valued(StagedGlobals)' /\ Settled(StagedGlobals)'
    <2> SUFFICES ASSUME NEW g \in left
                 PROVE  /\ Key(g) \in DOMAIN StagedGlobals' => StagedGlobals'[Key(g)] = Vowed'[g]
                        /\ Key(g) \notin DOMAIN StagedGlobals' /\ packed = Nil
                              => defaults[g] = Vowed'[g]
        BY <1>2, <1>4 DEF Valued, Settled, Key
    <2>1. Vowed'[g] = Vowed[g]
        BY <1>5
    <2> QED
        BY <1>6, <2>1 DEF LossInv, StagedInv, Valued, Settled
<1> QED
    BY <1>2, <1>3, <1>4, <1>7 DEF LossInv, StagedInv, InCache, InArchive

LEMMA LoadLoss ==
    ASSUME TypeInv, TypeInv', LossInv, LoadSidecar
    PROVE  LossInv'
<1>1. /\ wpc = "load" /\ wpc' = "store" /\ call' = call
      /\ UNCHANGED <<save, crashes>>
    BY DEF LoadSidecar, counters
<1>2. call.kind \in {"object_set_field", "clear_pending_objects", "set_global_value",
                     "clear_pending_globals"}
    BY <1>1, CallShape DEF TypeInv, WorkerInv, OnObject
<1>3. StagedInv'
    BY <1>2, LoadEditLoss, LoadClearObjectsLoss, LoadSetGlobalLoss, LoadClearGlobalsLoss
<1>4. spc = "idle"
    BY <1>1, WorkerAlone
<1>5. EditInv'
    BY <1>1 DEF LossInv, EditInv
<1> QED
    BY <1>1, <1>3, <1>4, <1>5, WorkerPack DEF LossInv, Sole, save

\* What is promised while a call stores its table is what it reports in the end.
LEMMA StoreLoss ==
    ASSUME TypeInv, TypeInv', LossInv, StoreOpen \/ StoreFill
    PROVE  LossInv'
<1>1. /\ Storing /\ call' = call /\ staged' = staged /\ Sidecar \in {"globals", "objects"}
      /\ wpc' \in {"fill", "idle"} /\ Sidecar' = Sidecar
      /\ UNCHANGED <<cache, archive, defaults, temp, save, counters>>
    BY DEF StoreOpen, StoreFill, Storing, Done, Sidecar
<1>2. spc = "idle" /\ spc' = "idle"
    BY <1>1, WorkerAlone DEF Storing, save
<1>3. PICK data : sidecar' = [sidecar EXCEPT ![Sidecar] = data]
    BY DEF StoreOpen, StoreFill
<1>4. \A k \in {"globals", "objects"} \ {Sidecar} : sidecar'[k] = sidecar[k]
    BY <1>3 DEF TypeInv, FilesInv
<1>5. wpc' = "fill" => sidecar'[Sidecar] = Torn /\ acked' = acked /\ chosen' = chosen
    BY <1>1 DEF StoreOpen, StoreFill, Opened, Done, history, TypeInv, FilesInv
<1>6. staged # Torn
    BY <1>1, PendingAssumption
    DEF PendingAssumption, TypeInv, WorkerInv, GlobalTable, Globals, ObjectTable
<1>7. wpc' = "idle" => /\ Load(sidecar'[Sidecar]) = staged
                       /\ acked' = AckedDone /\ chosen' = ChosenDone
    <2> SUFFICES ASSUME wpc' = "idle" 
                 PROVE  /\ Load(sidecar'[Sidecar]) = staged
                        /\ acked' = AckedDone /\ chosen' = ChosenDone
        OBVIOUS
    <2>1. CASE StoreOpen
        <3>1. staged = Empty /\ Done /\ sidecar' = [sidecar EXCEPT ![Sidecar] = Empty]
            BY <2>1 DEF StoreOpen, Opened
        <3> QED
            BY <1>1, <3>1 DEF Done, Load, TypeInv, FilesInv
    <2>2. CASE StoreFill
        <3>1. sidecar[Sidecar] = Torn /\ Done
            BY <2>2 DEF StoreFill, LossInv, EditInv
        <3>2. sidecar' = [sidecar EXCEPT ![Sidecar] = staged]
            BY <2>2, <3>1 DEF StoreFill, Filled
        <3>3. sidecar'[Sidecar] = staged
            BY <1>1, <3>2 DEF TypeInv, FilesInv
        <3> QED
            BY <1>6, <3>1, <3>3 DEF Done, Load
    <2> QED
        BY <2>1, <2>2
<1>8. AckedDone = Promised /\ ChosenDone = Vowed
    BY <1>1 DEF Promised, Vowed
<1>9. Promised' = Promised /\ Vowed' = Vowed
    <2>1. CASE wpc' = "idle"
        BY <1>7, <1>8, <2>1 DEF Promised, Vowed, Storing
    <2>2. CASE wpc' = "fill"
        <3>1. Storing' /\ AckedDone' = AckedDone /\ ChosenDone' = ChosenDone
            BY <1>1, <1>5, <2>2 DEF Storing, AckedDone, ChosenDone
        <3> QED
            BY <1>8, <3>1 DEF Promised, Vowed
    <2> QED
        BY <1>1, <2>1, <2>2
<1>10. \A k \in {"globals", "objects"} : TableOf(k)' = TableOf(k)
    BY <1>1, <1>2, <1>4, <1>7 DEF TableOf, Storing
<1>11. StagedInv'
    BY <1>1, <1>9, <1>10, StagedKept DEF LossInv, StagedObjects, StagedGlobals, save
<1>12. EditInv'
    <2>1. call \in Ops
        BY <1>1 DEF Storing, LossInv, EditInv
    <2> QED
        BY <1>1, <1>5, <2>1 DEF EditInv
<1>13. PackInv'
    BY <1>1, <1>2, WorkerPack
<1> QED
    BY <1>1, <1>2, <1>11, <1>12, <1>13 DEF LossInv, Sole, counters

\* The steps of the save: the worker is idle, so nothing is promised anew and the
\* edits stay as they are.
LEMMA SaveEdits ==
    ASSUME LossInv, wpc = "idle", wpc' = "idle"
    PROVE  EditInv' /\ Sole'
BY DEF EditInv, Sole

LEMMA SaveTables ==
    ASSUME wpc = "idle", wpc' = "idle", UNCHANGED <<sidecar, acked, chosen>>,
           spc \notin {"clearStore", "clearFill"}, spc' \notin {"clearStore", "clearFill"}
    PROVE  UNCHANGED <<Promised, Vowed, StagedObjects, StagedGlobals>>
BY DEF Promised, Vowed, StagedObjects, StagedGlobals, TableOf, Storing

LEMMA IdleTables ==
    ASSUME wpc = "idle", spc \notin {"clearStore", "clearFill"}
    PROVE  StagedObjects = Load(sidecar.objects) /\ StagedGlobals = Load(sidecar.globals)
BY DEF StagedObjects, StagedGlobals, TableOf, Storing

LEMMA SaveStartLoss ==
    ASSUME Turns, TypeInv, TypeInv', LossInv, SaveStart
    PROVE  LossInv'
<1>1. /\ wpc = "idle" /\ wpc' = "idle" /\ spc = "idle" /\ spc' = "globals"
      /\ temp'.objects = [f \in File |-> archive[<<OpenMap, f>>]] /\ temp'.defaults = defaults
      /\ UNCHANGED <<sidecar, cache, archive, defaults, packed, acked, chosen, crashes>>
    BY DEF SaveStart, Turns, worker, history
<1>2. packed = Nil
    BY <1>1 DEF TypeInv, SaveInv, LossInv, PackInv
<1>3. UNCHANGED <<Promised, Vowed, StagedObjects, StagedGlobals>>
    BY <1>1, SaveTables
<1>4. StagedInv'
    BY <1>1, <1>3, StagedKept DEF LossInv
<1>5. TempObjects'
    <2> SUFFICES ASSUME NEW a \in Promised, a[1] = OpenMap, File2(a) \notin DOMAIN StagedObjects
                 PROVE  a[3] \in temp'.objects[a[2]]
        BY <1>1, <1>3 DEF TempObjects, File2
    <2>1. a[3] \in archive[File2(a)] /\ a[2] \in File /\ File2(a) = <<OpenMap, a[2]>>
        BY <1>2 DEF LossInv, StagedInv, InArchive, File2
    <2> QED
        BY <1>1, <2>1
<1>6. PackInv'
    BY <1>1, <1>2, <1>5 DEF PackInv
<1> QED
    BY <1>1, <1>4, <1>6, SaveEdits DEF LossInv

\* What the save finds staged for the open map.
LEMMA EntryOf ==
    ASSUME NEW t, NEW g
    PROVE  /\ Key(g) \in DOMAIN OfMap(t, OpenMap) <=> Key(g) \in DOMAIN t
           /\ Key(g) \in DOMAIN t => OfMap(t, OpenMap)[Key(g)] = t[Key(g)]
BY DEF OfMap, Restrict, Key

\* What is patched into the files is what was promised, for every global they
\* can take.
LEMMA PatchLoss ==
    ASSUME TypeInv, LossInv, spc = "globals", NEW entry,
           entry = OfMap(Load(sidecar.globals), OpenMap), entry # Empty,
           Patch(entry) # Nil, NEW g \in DOMAIN Vowed, g \in Global
    PROVE  \/ Patch(entry)[g] = Vowed[g]
           \/ ~Covered(g) /\ Key(g) \in DOMAIN StagedGlobals
<1>1. wpc = "idle" /\ temp.defaults = defaults /\ packed = Nil
    BY SaveAlone DEF LossInv, PackInv
<1>2. StagedGlobals = Load(sidecar.globals)
    BY <1>1, IdleTables
<1>3. /\ Key(g) \in DOMAIN entry <=> Key(g) \in DOMAIN StagedGlobals
      /\ Key(g) \in DOMAIN entry => entry[Key(g)] = Vowed[g]
      /\ Key(g) \notin DOMAIN entry => temp.defaults[g] = Vowed[g]
    BY <1>1, <1>2, EntryOf DEF LossInv, StagedInv, Valued, Settled
<1>4. ASSUME NEW names PROVE Patched(entry, names)[g] =
              IF Key(g) \in DOMAIN entry /\ g \in names THEN entry[Key(g)] ELSE temp.defaults[g]
    BY DEF Patched, Key
<1>5. CASE Key(g) \notin DOMAIN entry
    <2>1. \A names : Patched(entry, names)[g] = Vowed[g]
        BY <1>3, <1>4, <1>5
    <2> QED
        BY <2>1 DEF Patch
<1>6. CASE Key(g) \in DOMAIN entry /\ Covered(g)
    <2>1. \A names : g \in names => Patched(entry, names)[g] = Vowed[g]
        BY <1>3, <1>4, <1>6
    <2>2. temp.layout = "script" => Patch(entry) = Patched(entry, Global)
        BY DEF Patch
    <2>3. temp.layout = "lml" => Patch(entry) = Patched(entry, Declared)
        BY DEF Patch
    <2>4. temp.layout = "wtg" /\ g \in Declared => Patch(entry) = Patched(entry, Declared)
        BY <1>6 DEF Patch, Key
    <2> QED
        BY <1>6, <2>1, <2>2, <2>3, <2>4 DEF Covered
<1> QED
    BY <1>3, <1>5, <1>6

LEMMA ApplyGlobalsLoss ==
    ASSUME Turns, TypeInv, TypeInv', LossInv, ApplyGlobals
    PROVE  LossInv'
<1> DEFINE entry == OfMap(Load(sidecar.globals), OpenMap)
<1>1. /\ spc = "globals" /\ spc' = "objects"
      /\ temp' = (IF entry = Empty \/ Patch(entry) = Nil THEN temp
                  ELSE [temp EXCEPT !.defaults = Patch(entry)])
      /\ toClear' = (IF entry # Empty /\ temp.layout = "lml" THEN <<"globals">> ELSE <<>>)
      /\ UNCHANGED <<sidecar, cache, archive, defaults, packed, acked, chosen, crashes, wpc>>
    BY DEF ApplyGlobals, worker, history, counters
<1>2. /\ wpc = "idle" /\ wpc' = "idle" /\ packed = Nil /\ temp.defaults = defaults
      /\ temp \in Directory
    BY <1>1, SaveAlone DEF LossInv, PackInv
<1>3. UNCHANGED <<Promised, Vowed, StagedObjects, StagedGlobals>>
    BY <1>1, <1>2, SaveTables
<1>4. StagedInv'
    BY <1>1, <1>3, StagedKept DEF LossInv
<1>5. temp'.objects = temp.objects /\ temp'.layout = temp.layout /\ temp.layout \in Layouts
    BY <1>1, <1>2 DEF Directory
<1>6. TempObjects'
    BY <1>1, <1>2, <1>3, <1>5 DEF LossInv, PackInv, TempObjects
<1>7. TempGlobals'
    <2> SUFFICES ASSUME NEW g \in DOMAIN Vowed
                 PROVE  \/ temp'.defaults[g] = Vowed[g]
                        \/ ~Covered(g) /\ Key(g) \in DOMAIN StagedGlobals
                           /\ "globals" \notin Range(toClear')
        BY <1>3, <1>5 DEF TempGlobals, Covered, Key
    <2>1. g \in Settable /\ (temp.layout = "lml" => g \in Declared) /\ g \in Global
        <3>1. g \in Settable
            BY TableShape DEF LossInv, StagedInv
        <3>2. PICK op \in Ops : op.kind = "set_global_value" /\ op.global = g
            BY <3>1 DEF Settable
        <3>3. op \in Operation
            BY PendingAssumption DEF PendingAssumption
        <3> QED
            BY <1>5, <3>1, <3>2, <3>3, CallShape DEF Turns
    <2>2. temp.layout # "lml" => "globals" \notin Range(toClear')
        BY <1>1 DEF Range
    <2>3. temp.layout = "lml" => Covered(g)
        BY <2>1 DEF Covered
    <2>4. CASE entry = Empty
        <3>1. Key(g) \notin DOMAIN entry
            BY <2>4 DEF Empty
        <3>2. Key(g) \notin DOMAIN StagedGlobals
            BY <1>1, <1>2, <3>1, EntryOf, IdleTables
        <3> QED
            BY <1>1, <1>2, <2>4, <3>2 DEF LossInv, StagedInv, Settled
    <2>5. CASE entry # Empty /\ Patch(entry) # Nil
        <3>1. \/ Patch(entry)[g] = Vowed[g]
              \/ ~Covered(g) /\ Key(g) \in DOMAIN StagedGlobals
            BY <1>1, <2>1, <2>5, PatchLoss
        <3>2. temp'.defaults = Patch(entry)
            BY <1>1, <1>2, <2>5 DEF Directory
        <3> QED
            BY <2>2, <2>3, <3>1, <3>2
    <2>6. CASE entry # Empty /\ Patch(entry) = Nil
        <3>1. temp' = temp
            BY <1>1, <2>6
        <3>2. ~Covered(g)
            <4>1. entry \in GlobalTable
                BY SidecarTable, OfMapTable DEF TypeInv, GlobalTable
            <4>2. \A names : Patched(entry, names) # Nil
                <5> TAKE names
                <5>1. Patched(entry, names) \in [Global -> Value \cup {NoValue}]
                    BY <1>2, <4>1, PatchedTypes
                <5> QED
                    BY <5>1, PendingAssumption DEF PendingAssumption
            <4> QED
                BY <2>6, <4>2 DEF Patch, Covered
        <3>3. Key(g) \notin DOMAIN StagedGlobals => temp.defaults[g] = Vowed[g]
            BY <1>2 DEF LossInv, StagedInv, Settled
        <3> QED
            BY <2>2, <2>3, <3>1, <3>2, <3>3
    <2> QED
        BY <2>4, <2>5, <2>6
<1>8. PackInv'
    BY <1>1, <1>2, <1>6, <1>7 DEF PackInv
<1> QED
    BY <1>1, <1>2, <1>4, <1>8, SaveEdits DEF LossInv

LEMMA ApplyObjectsLoss ==
    ASSUME TypeInv, TypeInv', LossInv, ApplyObjects
    PROVE  LossInv'
<1> DEFINE entry == OfMap(Load(sidecar.objects), OpenMap)
<1>1. /\ spc = "objects" /\ spc' = "copy" /\ copying' = {p[2] : p \in DOMAIN entry}
      /\ toClear' \in {toClear, Append(toClear, "objects")}
      /\ UNCHANGED <<files, packed, acked, chosen, crashes, wpc>>
    BY DEF ApplyObjects, worker, history, counters
<1>2. wpc = "idle" /\ wpc' = "idle" /\ packed = Nil
    BY <1>1, SaveAlone DEF LossInv, PackInv
<1>3. UNCHANGED <<Promised, Vowed, StagedObjects, StagedGlobals>>
    BY <1>1, <1>2, SaveTables DEF files
<1>4. StagedInv'
    BY <1>1, <1>3, StagedKept DEF LossInv, files
<1>5. DOMAIN entry = {p \in DOMAIN StagedObjects : p[1] = OpenMap}
    BY <1>1, <1>2, IdleTables DEF OfMap, Restrict
<1> HIDE DEF entry
<1>6. \A f \in copying' : <<OpenMap, f>> \in DOMAIN StagedObjects
    <2>1. \A p \in DOMAIN StagedObjects : p = <<p[1], p[2]>>
        BY StagedDomain DEF Objects
    <2> QED
        BY <1>1, <1>5, <2>1
<1>7. TempObjects'
    <2> SUFFICES ASSUME NEW a \in Promised, a[1] = OpenMap, a[3] \notin temp.objects[a[2]]
                 PROVE  a[2] \in copying'
        BY <1>1, <1>3 DEF TempObjects, files
    <2>1. File2(a) \in DOMAIN StagedObjects
        BY <1>1 DEF LossInv, PackInv, TempObjects
    <2>2. File2(a) \in DOMAIN entry /\ File2(a)[2] = a[2]
        BY <1>5, <2>1 DEF File2
    <2> QED
        BY <1>1, <2>2
<1>8. TempGlobals'
    <2>1. "globals" \notin Range(toClear) => "globals" \notin Range(toClear')
        <3>1. toClear \in Seq({"globals", "objects"})
            BY DEF TypeInv, SaveInv
        <3>2. ASSUME NEW i \in DOMAIN Append(toClear, "objects"),
                     Append(toClear, "objects")[i] = "globals"
              PROVE  i \in DOMAIN toClear /\ toClear[i] = "globals"
            BY <3>1, <3>2
        <3>3. "globals" \in Range(Append(toClear, "objects")) => "globals" \in Range(toClear)
            BY <3>2 DEF Range
        <3> QED
            BY <1>1, <3>3
    <2> QED
        BY <1>1, <1>3, <2>1 DEF LossInv, PackInv, TempGlobals, Covered, Key, files
<1>9. PackInv'
    BY <1>1, <1>2, <1>3, <1>6, <1>7, <1>8 DEF PackInv, files
<1> QED
    BY <1>1, <1>2, <1>4, <1>9, SaveEdits DEF LossInv

LEMMA CopyLoss ==
    ASSUME TypeInv, TypeInv', LossInv, NEW f \in File, Copy(f)
    PROVE  LossInv'
<1> DEFINE p == <<OpenMap, f>>
<1>1. /\ spc = "copy" /\ f \in copying /\ spc' \in {"copy", "end"}
      /\ UNCHANGED <<sidecar, cache, archive, defaults, toClear, packed, acked, chosen, crashes, wpc>>
    BY DEF Copy, worker, history, counters
<1>2. wpc = "idle" /\ wpc' = "idle" /\ packed = Nil /\ temp \in Directory
    BY <1>1, SaveAlone DEF LossInv, PackInv
<1>3. UNCHANGED <<Promised, Vowed, StagedObjects, StagedGlobals>>
    BY <1>1, <1>2, SaveTables
<1>4. StagedInv'
    BY <1>1, <1>3, StagedKept DEF LossInv
<1>5. p \in DOMAIN StagedObjects
    BY <1>1 DEF LossInv, PackInv
<1>6. CASE spc' = "end" /\ UNCHANGED <<temp, copying>>
    <2>1. TempGlobals'
        BY <1>1, <1>3, <1>6 DEF LossInv, PackInv, TempGlobals, Covered, Key
    <2> QED
        BY <1>1, <1>2, <1>4, <1>6, <2>1, SaveEdits DEF LossInv, PackInv, TempObjects
<1>7. CASE /\ cache[p] # Missing /\ spc' = "copy" /\ copying' = copying \ {f}
           /\ temp' = [temp EXCEPT !.objects[f] = cache[p]]
    <2>1. /\ temp'.defaults = temp.defaults /\ temp'.layout = temp.layout
          /\ temp'.objects[f] = cache[p]
          /\ \A h \in File \ {f} : temp'.objects[h] = temp.objects[h]
        BY <1>2, <1>7 DEF Directory
    <2>2. TempGlobals'
        BY <1>1, <1>3, <2>1 DEF LossInv, PackInv, TempGlobals, Covered, Key
    <2>3. TempObjects'
        <3> SUFFICES ASSUME NEW a \in Promised, a[1] = OpenMap
                     PROVE  a[3] \in temp'.objects[a[2]] \/ a[2] \in copying'
            BY <1>3, <1>7 DEF TempObjects
        <3>1. a[2] \in File
            BY DEF LossInv, StagedInv
        <3>2. CASE a[2] = f
            <4>1. File2(a) = p
                BY <3>2 DEF File2
            <4> QED
                BY <1>5, <1>7, <2>1, <3>2, <4>1 DEF LossInv, StagedInv, InCache
        <3>3. CASE a[2] # f
            BY <1>1, <1>7, <2>1, <3>1, <3>3 DEF LossInv, PackInv, TempObjects
        <3> QED
            BY <3>2, <3>3
    <2>4. PackInv'
        BY <1>1, <1>2, <1>3, <1>7, <2>2, <2>3 DEF LossInv, PackInv
    <2> QED
        BY <1>1, <1>2, <1>4, <2>4, SaveEdits DEF LossInv
<1> QED
    BY <1>6, <1>7 DEF Copy

\* A pack that succeeds packs every promised edit and global.
LEMMA PackLoss ==
    ASSUME TypeInv, TypeInv', LossInv, Pack
    PROVE  LossInv' /\ \A a \in Promised : a[1] = OpenMap => a[3] \in temp.objects[a[2]]
<1>1. wpc = "idle" /\ spc = "copy" /\ packed = Nil /\ temp # Nil
    BY SaveAlone DEF Pack, LossInv, PackInv
<1>2. /\ spc = "copy" /\ copying = {} /\ packed' \in {temp, Nil}
      /\ spc' \in {"end", "clear"} /\ (packed' = Nil => spc' = "end")
      /\ UNCHANGED <<files, toClear, copying, acked, chosen, crashes, wpc>>
    BY <1>1 DEF Pack, AfterPack, worker, history, counters
<1>3. UNCHANGED <<Promised, Vowed, StagedObjects, StagedGlobals>>
    BY <1>1, <1>2, SaveTables DEF files
<1>4. \A a \in Promised : a[1] = OpenMap => a[3] \in temp.objects[a[2]]
    BY <1>2 DEF LossInv, PackInv, TempObjects
<1>5. StagedInv'
    BY <1>1, <1>2, <1>3 DEF LossInv, StagedInv, InCache, InArchive, Valued, Settled, files
<1>6. TempObjects' /\ TempGlobals'
    BY <1>1, <1>2, <1>3, <1>4
    DEF LossInv, PackInv, TempObjects, TempGlobals, Covered, Key, files
<1>7. PackInv'
    BY <1>1, <1>2, <1>6 DEF PackInv, files
<1> QED
    BY <1>1, <1>2, <1>4, <1>5, <1>7, SaveEdits DEF LossInv

\* Clearing one sidecar: what is staged becomes what is left of it.
LEMMA ClearLoadLoss ==
    ASSUME TypeInv, TypeInv', LossInv, ClearLoad
    PROVE  LossInv'
<1> DEFINE k == Head(toClear)
<1> DEFINE data == Load(sidecar[k])
<1>1. /\ spc = "clear" /\ text' = WithoutMap(data, OpenMap)
      /\ (spc' \in {"end", "clear"} /\ toClear' = Tail(toClear))
         \/ (spc' = "clearStore" /\ toClear' = toClear)
      /\ UNCHANGED <<files, packed, copying, acked, chosen, crashes, wpc>>
    BY DEF ClearLoad, Cleared, worker, history, counters
<1>2. /\ wpc = "idle" /\ wpc' = "idle" /\ packed # Nil /\ k \in {"globals", "objects"}
      /\ toClear \in Seq({"globals", "objects"}) /\ toClear # <<>>
    BY <1>1, SaveAlone DEF TypeInv, SaveInv, Clearing
<1>3. Promised' = Promised /\ Vowed' = Vowed
    BY <1>1, <1>2 DEF Promised, Vowed, Storing
<1>4. /\ \A a \in Promised : a[1] = OpenMap => a[3] \in temp.objects[a[2]]
      /\ TempGlobals
    BY <1>1 DEF LossInv, PackInv, TempObjects
<1>5. TempObjects'
    BY <1>1, <1>3, <1>4 DEF TempObjects, files
<1>6. StagedObjects = Load(sidecar.objects) /\ StagedGlobals = Load(sidecar.globals)
    BY <1>1, <1>2, IdleTables
<1>7. CASE spc' \in {"end", "clear"} /\ toClear' = Tail(toClear)
    <2>1. UNCHANGED <<StagedObjects, StagedGlobals>>
        BY <1>1, <1>2, <1>7, SaveTables DEF files
    <2>2. StagedInv'
        BY <1>1, <1>3, <2>1, StagedKept DEF LossInv, files
    <2>3. Range(toClear') \subseteq Range(toClear)
        BY <1>2, <1>7 DEF Range
    <2>4. TempGlobals'
        BY <1>1, <1>3, <1>4, <2>1, <2>3 DEF TempGlobals, Covered, Key, files
    <2>5. PackInv'
        BY <1>1, <1>5, <1>7, <2>4 DEF LossInv, PackInv, files
    <2> QED
        BY <1>1, <1>2, <2>2, <2>5, SaveEdits DEF LossInv
<1>8. CASE spc' = "clearStore" /\ toClear' = toClear
    <2>1. /\ StagedObjects' = IF k = "objects" THEN text' ELSE StagedObjects
          /\ StagedGlobals' = IF k = "globals" THEN text' ELSE StagedGlobals
        BY <1>1, <1>2, <1>6, <1>8 DEF StagedObjects, StagedGlobals, TableOf, Storing, files
    <2>2. /\ DOMAIN text' = {q \in DOMAIN data : q[1] # OpenMap}
          /\ \A q \in DOMAIN text' : text'[q] = data[q]
        BY <1>1 DEF WithoutMap, Without, OfMap, Restrict
    <2>3. /\ k = "objects" => data = StagedObjects
          /\ k = "globals" => data = StagedGlobals
        BY <1>6
    <2> HIDE DEF data
    <2>4. InCache(StagedObjects)' /\ InArchive(StagedObjects)'
        <3>1. DOMAIN StagedObjects' \subseteq DOMAIN StagedObjects
            BY <2>1, <2>2, <2>3
        <3>2. \A a \in Promised : a[1] # OpenMap /\ File2(a) \notin DOMAIN StagedObjects'
                                  => File2(a) \notin DOMAIN StagedObjects
            BY <2>1, <2>2, <2>3 DEF File2
        <3> QED
            BY <1>1, <1>2, <1>3, <3>1, <3>2
            DEF LossInv, StagedInv, InCache, InArchive, File2, files
    <2>5. Valued(StagedGlobals)' /\ Settled(StagedGlobals)'
        BY <1>1, <1>2, <1>3, <2>1, <2>2, <2>3 DEF LossInv, StagedInv, Valued, Settled, Key, files
    <2>6. StagedInv'
        BY <1>3, <2>4, <2>5 DEF LossInv, StagedInv
    <2>7. TempGlobals'
        <3>1. k = "globals" => "globals" \in Range(toClear)
            BY <1>2 DEF Range
        <3> QED
            BY <1>1, <1>3, <1>4, <1>8, <2>1, <3>1 DEF TempGlobals, Covered, Key, files
    <2>8. PackInv'
        BY <1>1, <1>5, <1>8, <2>7 DEF LossInv, PackInv, files
    <2> QED
        BY <1>1, <1>2, <2>6, <2>8, SaveEdits DEF LossInv
<1> QED
    BY <1>1, <1>7, <1>8

LEMMA ClearStoreLoss ==
    ASSUME TypeInv, TypeInv', LossInv, ClearOpen \/ ClearFill
    PROVE  LossInv'
<1> DEFINE k == Head(toClear)
<1>1. /\ spc \in {"clearStore", "clearFill"} /\ text' = text
      /\ (spc' \in {"end", "clear"} /\ toClear' = Tail(toClear))
         \/ (spc' = "clearFill" /\ toClear' = toClear)
      /\ UNCHANGED <<cache, archive, defaults, temp, packed, copying, acked, chosen, crashes, wpc>>
    BY DEF ClearOpen, ClearFill, Cleared, worker, history, counters
<1>2. /\ wpc = "idle" /\ wpc' = "idle" /\ packed # Nil /\ k \in {"globals", "objects"}
      /\ toClear \in Seq({"globals", "objects"}) /\ toClear # <<>>
    BY <1>1, SaveAlone DEF TypeInv, SaveInv, Clearing
<1>3. Promised' = Promised /\ Vowed' = Vowed
    BY <1>1, <1>2 DEF Promised, Vowed, Storing
<1>4. PICK data : sidecar' = [sidecar EXCEPT ![k] = data]
    BY DEF ClearOpen, ClearFill
<1>5. \A j \in {"globals", "objects"} \ {k} : sidecar'[j] = sidecar[j]
    BY <1>4 DEF TypeInv, FilesInv
<1>6. spc' = "clearFill" => sidecar'[k] = Torn
    BY <1>1, <1>2 DEF ClearOpen, ClearFill, Cleared, Opened, TypeInv, FilesInv
<1>7. text # Torn
    BY <1>1, <1>2, PendingAssumption
    DEF PendingAssumption, TypeInv, SaveInv, GlobalTable, Globals, ObjectTable
<1>8. spc' # "clearFill" => Load(sidecar'[k]) = text
    <2>1. CASE ClearOpen /\ spc' # "clearFill"
        <3>1. text = Empty /\ sidecar' = [sidecar EXCEPT ![k] = Empty]
            BY <2>1 DEF ClearOpen, Opened
        <3> QED
            BY <1>2, <3>1 DEF Load, TypeInv, FilesInv
    <2>2. CASE ClearFill
        <3>1. sidecar[k] = Torn
            BY <2>2 DEF ClearFill, LossInv, PackInv
        <3>2. sidecar' = [sidecar EXCEPT ![k] = text]
            BY <2>2, <3>1 DEF ClearFill, Filled
        <3> QED
            BY <1>2, <1>7, <3>2 DEF Load, TypeInv, FilesInv
    <2> QED
        BY <2>1, <2>2
<1> HIDE DEF k
<1>9. \A j \in {"globals", "objects"} : TableOf(j) = IF j = k THEN text ELSE Load(sidecar[j])
    BY <1>1, <1>2 DEF TableOf, Storing, k
<1>10. \A j \in {"globals", "objects"} : TableOf(j)' = IF j = k THEN text ELSE Load(sidecar[j])
    <2>1. CASE spc' = "clearFill"
        BY <1>1, <1>2, <1>5, <2>1 DEF TableOf, Storing, k
    <2>2. CASE spc' \in {"end", "clear"}
        BY <1>1, <1>2, <1>5, <1>8, <2>2 DEF TableOf, Storing
    <2> QED
        BY <1>1, <2>1, <2>2
<1>11. UNCHANGED <<StagedObjects, StagedGlobals>>
    BY <1>9, <1>10 DEF StagedObjects, StagedGlobals
<1>12. StagedInv'
    BY <1>1, <1>3, <1>11, StagedKept DEF LossInv
<1>13. TempObjects' /\ TempGlobals'
    <2>1. Range(toClear') \subseteq Range(toClear)
        BY <1>1, <1>2 DEF Range
    <2>2. TempGlobals'
        BY <1>1, <1>3, <1>11, <2>1 DEF LossInv, PackInv, TempGlobals, Covered, Key
    <2>3. TempObjects'
        BY <1>1, <1>3 DEF LossInv, PackInv, TempObjects
    <2> QED
        BY <2>2, <2>3
<1>14. PackInv'
    BY <1>1, <1>6, <1>13 DEF LossInv, PackInv, k
<1> QED
    BY <1>1, <1>2, <1>12, <1>14, SaveEdits DEF LossInv

\* The packed map takes the place of the archive.
LEMMA SaveEndLoss ==
    ASSUME TypeInv, TypeInv', LossInv, SaveEnd
    PROVE  LossInv'
<1>1. /\ spc = "end" /\ spc' = "idle" /\ temp' = Nil /\ packed' = Nil
      /\ UNCHANGED <<sidecar, cache, copying, toClear, text, acked, chosen, crashes, wpc>>
    BY DEF SaveEnd, worker, history, counters
<1>2. wpc = "idle" /\ wpc' = "idle"
    BY <1>1, SaveAlone
<1>3. UNCHANGED <<Promised, Vowed, StagedObjects, StagedGlobals>>
    BY <1>1, <1>2, SaveTables
<1>4. PackInv'
    BY <1>1 DEF PackInv
<1>5. CASE packed = Nil
    <2>1. StagedInv'
        BY <1>1, <1>3, <1>5, StagedKept DEF LossInv, SaveEnd
    <2> QED
        BY <1>1, <1>2, <1>4, <2>1, SaveEdits DEF LossInv
<1>6. CASE packed # Nil
    <2>1. /\ packed = temp /\ defaults' = temp.defaults
          /\ archive' = [p \in Objects |-> IF p[1] = OpenMap THEN temp.objects[p[2]] ELSE archive[p]]
        BY <1>6 DEF SaveEnd, LossInv, PackInv
    <2>2. \A a \in Promised : a[1] = OpenMap => a[3] \in temp.objects[a[2]]
        BY <1>1, <1>6 DEF LossInv, PackInv, TempObjects
    <2>3. \A a \in Promised : File2(a) \in Objects /\ File2(a)[1] = a[1] /\ File2(a)[2] = a[2]
        BY DEF LossInv, StagedInv, File2, Objects
    <2>4. InArchive(StagedObjects)'
        <3> SUFFICES ASSUME NEW a \in Promised, File2(a) \notin DOMAIN StagedObjects
                     PROVE  a[3] \in archive'[File2(a)]
            BY <1>3 DEF InArchive, File2
        <3>1. a[1] # OpenMap => a[3] \in archive[File2(a)]
            BY DEF LossInv, StagedInv, InArchive
        <3> QED
            BY <2>1, <2>2, <2>3, <3>1
    <2>5. Settled(StagedGlobals)'
        <3> SUFFICES ASSUME NEW g \in DOMAIN Vowed, Key(g) \notin DOMAIN StagedGlobals
                     PROVE  defaults'[g] = Vowed[g]
            BY <1>3 DEF Settled, Key
        <3> QED
            BY <1>1, <2>1 DEF LossInv, PackInv, TempGlobals
    <2>6. InCache(StagedObjects)' /\ Valued(StagedGlobals)'
        BY <1>1, <1>3 DEF LossInv, StagedInv, InCache, Valued, File2, Key
    <2>7. StagedInv'
        BY <1>3, <2>4, <2>5, <2>6 DEF LossInv, StagedInv
    <2> QED
        BY <1>1, <1>2, <1>4, <2>7, SaveEdits DEF LossInv
<1> QED
    BY <1>5, <1>6

LEMMA LostLoss ==
    ASSUME TypeInv, TypeInv', LossInv, NEW p \in Objects, CacheLost(p)
    PROVE  LossInv'
<1>1. /\ cache' = [cache EXCEPT ![p] = Missing]
      /\ UNCHANGED <<sidecar, archive, defaults, temp, worker, save, history, crashes>>
    BY DEF CacheLost
<1>2. /\ UNCHANGED <<Promised, Vowed, StagedObjects, StagedGlobals>>
      /\ Sidecar' = Sidecar /\ Object' = Object
    <2>1. AckedDone' = AckedDone /\ ChosenDone' = ChosenDone /\ Sidecar' = Sidecar /\ Object' = Object
        BY <1>1 DEF AckedDone, ChosenDone, Sidecar, Object, worker, history
    <2>2. \A k : TableOf(k)' = TableOf(k)
        BY <1>1, <2>1 DEF TableOf, Storing, worker, save
    <2> QED
        BY <1>1, <2>1, <2>2
        DEF Promised, Vowed, Storing, StagedObjects, StagedGlobals, worker, history
<1>3. \A q \in Objects : cache'[q] = cache[q] \/ cache'[q] = Missing
    BY <1>1 DEF TypeInv, FilesInv
<1>4. StagedInv'
    BY <1>1, <1>2, <1>3, StagedKept, StagedDomain DEF LossInv, save
<1>5. EditInv'
    <2>1. wpc = "load" /\ call.kind = "object_set_field" => Object \in Objects
        BY CallShape DEF TypeInv, WorkerInv, Object, OnObject
    <2> QED
        BY <1>1, <1>2, <1>3, <2>1 DEF LossInv, EditInv, worker
<1>6. PackInv'
    BY <1>1, <1>2, TempKept DEF LossInv, save
<1> QED
    BY <1>1, <1>4, <1>5, <1>6 DEF LossInv, Sole, worker, save

LEMMA StutterLoss == ASSUME LossInv, UNCHANGED vars PROVE LossInv'
<1>1. UNCHANGED <<files, wpc, call, content, staged, save, acked, chosen, crashes>>
    BY DEF vars, worker, history, counters
<1>2. UNCHANGED <<Promised, Vowed, StagedObjects, StagedGlobals, Sidecar, Object>>
    <2>1. AckedDone' = AckedDone /\ ChosenDone' = ChosenDone /\ Sidecar' = Sidecar /\ Object' = Object
        BY <1>1 DEF AckedDone, ChosenDone, Sidecar, Object, files
    <2>2. \A k : TableOf(k)' = TableOf(k)
        BY <1>1, <2>1 DEF TableOf, Storing, save, files
    <2> QED
        BY <1>1, <2>1, <2>2 DEF Promised, Vowed, Storing, StagedObjects, StagedGlobals
<1>3. StagedInv'
    BY <1>1, <1>2, StagedKept DEF LossInv, files, save
<1>4. EditInv'
    BY <1>1, <1>2 DEF LossInv, EditInv, files
<1>5. PackInv'
    BY <1>1, <1>2, TempKept DEF LossInv, files, save
<1> QED
    BY <1>1, <1>3, <1>4, <1>5 DEF LossInv, Sole, save

LEMMA LossStep ==
    ASSUME Turns, TypeInv, TypeInv', LossInv, [Next]_vars
    PROVE  LossInv'
<1>1. ASSUME NEW op \in Ops, Call(op) PROVE LossInv'
    BY <1>1, CallLoss
<1>2. CASE Worker
    <2>1. ~WriteTemp
        BY DEF LossInv, EditInv, WriteTemp
    <2> QED
        BY <1>2, <2>1, ReadLoss, WriteCacheLoss, LoadLoss, StoreLoss DEF Worker
<1>3. CASE SaveStart
    BY <1>3, SaveStartLoss
<1>4. CASE Save
    BY <1>4, ApplyGlobalsLoss, ApplyObjectsLoss, CopyLoss, PackLoss, ClearLoadLoss, ClearStoreLoss,
       SaveEndLoss
    DEF Save
<1>5. ~Crash
    BY DEF Crash, LossInv, Turns
<1>6. ASSUME NEW p \in Objects, CacheLost(p) PROVE LossInv'
    BY <1>6, LostLoss
<1> QED
    BY <1>1, <1>2, <1>3, <1>4, <1>5, <1>6, StutterLoss DEF Next

LEMMA LossAlways == ASSUME Turns PROVE Spec => []LossInv
<1>1. Init => LossInv
    <2> SUFFICES ASSUME Init PROVE LossInv
        OBVIOUS
    <2>1. ~Storing /\ wpc = "idle" /\ spc = "idle" /\ packed = Nil /\ crashes = 0
        BY DEF Init, Storing
    <2>2. Promised = {<<p[1], p[2], e>> : p \in Leftover, e \in Edit} /\ Vowed = Empty
        BY <2>1 DEF Promised, Vowed, Init
    <2>3. StagedObjects = Load(sidecar.objects) /\ StagedGlobals = Load(sidecar.globals)
        BY <2>1, IdleTables
    <2>4. DOMAIN StagedObjects = Leftover /\ Leftover \subseteq Objects
        <3>1. sidecar.objects = [p \in Leftover |-> TRUE]
            BY DEF Init
        <3>2. [p \in Leftover |-> TRUE] \in [Leftover -> {TRUE}] /\ Leftover \subseteq Objects
            BY PendingAssumption, Zenon DEF PendingAssumption
        <3>3. [p \in Leftover |-> TRUE] \in Table(Objects, {TRUE})
            BY <3>2, Zenon DEF Table
        <3>4. [p \in Leftover |-> TRUE] # Torn
            BY <3>3, PendingAssumption DEF PendingAssumption
        <3>5. StagedObjects = [p \in Leftover |-> TRUE]
            BY <2>3, <3>1, <3>4 DEF Load
        <3> QED
            BY <3>2, <3>5
    <2>5. /\ Promised \subseteq Map \X File \X Edit
          /\ \A a \in Promised : File2(a) \in Leftover /\ cache[File2(a)] = Edit
        <3>1. \A p \in Leftover : p[1] \in Map /\ p[2] \in File /\ p = <<p[1], p[2]>>
            BY <2>4 DEF Objects
        <3>2. \A p \in Leftover : cache[p] = Edit
            BY <2>4 DEF Init
        <3> QED
            BY <2>2, <3>1, <3>2 DEF File2
    <2>6. InCache(StagedObjects) /\ InArchive(StagedObjects)
        BY <2>4, <2>5 DEF InCache, InArchive
    <2>7. DOMAIN Vowed = {} /\ Vowed \in Table(Settable, Value)
        BY <2>2, EmptyTable DEF Empty
    <2>8. StagedInv
        BY <2>5, <2>6, <2>7 DEF StagedInv, Valued, Settled
    <2> QED
        BY <2>1, <2>8 DEF LossInv, Sole, EditInv, PackInv
<1> QED
    BY <1>1, LossStep, TypeAlways, PTL DEF Spec

\* Calls and saves that take turns lose no write, however many there are and whatever
\* cache files are deleted: one reported as done is in the archive or staged, where
\* the next save takes it from (object.write, set_global_value and saveW3x).
THEOREM NothingLost == ASSUME Turns PROVE Spec => []NoSilentLoss
<1>1. TypeInv /\ LossInv => NoSilentLoss
    <2> SUFFICES ASSUME TypeInv, LossInv, Quiet
                 PROVE  /\ \A a \in acked : Kept(a)
                        /\ \A g \in DOMAIN chosen :
                              LET key == <<OpenMap, g>>
                                  data == Load(sidecar.globals)
                              IN  IF key \in DOMAIN data THEN data[key] = chosen[g]
                                  ELSE defaults[g] = chosen[g]
        BY DEF NoSilentLoss
    <2>1. /\ Promised = acked /\ Vowed = chosen
          /\ StagedObjects = Load(sidecar.objects) /\ StagedGlobals = Load(sidecar.globals)
          /\ packed = Nil
        BY IdleTables DEF Quiet, Promised, Vowed, Storing, TypeInv, SaveInv, LossInv, PackInv
    <2>2. ASSUME NEW a \in acked PROVE Kept(a)
        <3>1. CASE File2(a) \in DOMAIN StagedObjects
            BY <2>1, <3>1 DEF LossInv, StagedInv, InCache, Kept, Staged, File2
        <3>2. CASE File2(a) \notin DOMAIN StagedObjects
            BY <2>1, <3>2 DEF LossInv, StagedInv, InArchive, Kept, File2
        <3> QED
            BY <3>1, <3>2
    <2> QED
        BY <2>1, <2>2 DEF LossInv, StagedInv, Valued, Settled, Key
<1> QED
    BY <1>1, LossAlways, TypeAlways, PTL

\* The layouts whose files take every global that is set.
Complete ==
    /\ Layouts \subseteq {"lml", "wtg", "script"}
    /\ Layouts \subseteq {"script"} \/ Settable \subseteq Declared

\* A save that reports success has packed every write reported as done, where the
\* map's files can take every global that is set (saveW3x, lines 518-559).
THEOREM SavesAreComplete == ASSUME Turns, Complete PROVE Spec => SaveIsComplete
<1>1. ASSUME TypeInv, TypeInv', LossInv, [Next]_vars, packed = Nil, packed' # Nil
      PROVE  /\ \A a \in acked : a[1] = OpenMap => a[3] \in packed'.objects[a[2]]
             /\ \A g \in DOMAIN chosen : packed'.defaults[g] = chosen[g]
    <2>1. Pack
        BY <1>1
        DEF Next, Worker, Save, Call, ObjectRead, ObjectResolve, WriteTemp, WriteCache, LoadSidecar,
            StoreOpen, StoreFill, SaveStart, ApplyGlobals, ApplyObjects, Copy, ClearLoad, ClearOpen,
            ClearFill, SaveEnd, CacheLost, Crash, vars, save
    <2>2. packed' = temp /\ spc = "copy"
        BY <1>1, <2>1 DEF Pack
    <2>3. Promised = acked /\ Vowed = chosen
        BY <1>1, <2>2, SaveAlone DEF Promised, Vowed
    <2>4. \A a \in Promised : a[1] = OpenMap => a[3] \in temp.objects[a[2]]
        BY <1>1, <2>1, PackLoss
    <2>5. \A g \in DOMAIN Vowed : g \in Settable /\ Covered(g)
        <3>1. temp.layout \in Layouts
            BY <1>1, <2>2, SaveAlone DEF Directory
        <3> QED
            BY <1>1, <3>1, TableShape DEF LossInv, StagedInv, Complete, Covered
    <2>6. TempGlobals
        BY <1>1, <2>2 DEF LossInv, PackInv
    <2> QED
        BY <2>2, <2>3, <2>4, <2>5, <2>6 DEF TempGlobals
<1> QED
    BY <1>1, LossAlways, TypeAlways, PTL DEF Spec, SaveIsComplete

-----------------------------------------------------------------------------
(***************************************************************************)
(* What a successful save leaves staged.  The editor may die, and clients  *)
(* may do as they please between two saves.                                *)
(***************************************************************************)

NoKeys(t) == \A p \in DOMAIN t : p[1] # OpenMap

\* The temporary directories of all saves take every global.
Full == Layouts \subseteq {"lml", "wtg", "script"} /\ Declared = Global

\* A sidecar that is not in the list of those to be cleared holds nothing of the
\* open map; the sidecar of the globals may, and then the directory holds its values.
ClearedOf(k) == k \in Range(toClear) \/ NoKeys(Load(sidecar[k]))
Holds(t, map) == \A p \in DOMAIN t : p[1] = OpenMap => map.defaults[p[2]] = t[p]
GlobalsLeft == ClearedOf("globals") \/ temp.layout # "lml"
GlobalsHeld == Holds(Load(sidecar.globals), temp)
ClearInv ==
    /\ crashes \in Nat /\ Sole
    /\ spc \in {"globals", "objects", "copy"} => packed = Nil
    /\ packed \in {Nil, temp}
    /\ spc \in {"objects", "copy"} \/ packed # Nil => GlobalsLeft /\ GlobalsHeld
    /\ spc = "copy" \/ packed # Nil => ClearedOf("objects")
    /\ spc \in {"clearStore", "clearFill"} => NoKeys(text)
    /\ spc = "end" /\ packed # Nil => toClear = <<>>
    /\ packed # Nil => spc # "idle"

LEMMA NoKeysOfMap == ASSUME NEW t PROVE NoKeys(t) <=> OfMap(t, OpenMap) = Empty
<1>1. DOMAIN OfMap(t, OpenMap) = {p \in DOMAIN t : p[1] = OpenMap}
    BY DEF OfMap, Restrict
<1>2. DOMAIN Empty = {}
    BY DEF Empty
<1>3. ASSUME NoKeys(t) PROVE OfMap(t, OpenMap) = Empty
    <2>1. {p \in DOMAIN t : p[1] = OpenMap} = {}
        BY <1>3 DEF NoKeys
    <2> QED
        BY <2>1 DEF OfMap, Restrict, Empty
<1> QED
    BY <1>1, <1>2, <1>3 DEF NoKeys

LEMMA NoKeysLeft == ASSUME NEW t PROVE NoKeys(WithoutMap(t, OpenMap))
BY DEF NoKeys, WithoutMap, Without, OfMap, Restrict

LEMMA NoKeysEmpty == NoKeys(Empty)
BY DEF NoKeys, Empty

LEMMA NoKeysHolds == ASSUME NEW t, NEW map, NoKeys(t) PROVE Holds(t, map)
BY DEF NoKeys, Holds

\* A step that leaves the sidecar of the globals, the list and the directory's
\* globals alone.
LEMMA LeftKept ==
    ASSUME GlobalsLeft, GlobalsHeld, UNCHANGED <<sidecar, toClear>>,
           temp'.defaults = temp.defaults, temp'.layout = temp.layout
    PROVE  GlobalsLeft' /\ GlobalsHeld'
BY DEF GlobalsLeft, GlobalsHeld, Holds, ClearedOf, NoKeys

\* Between two saves the invariant speaks of the counter alone.
LEMMA ClearWorker ==
    ASSUME TypeInv, ClearInv, spc = "idle", spc' = "idle", packed' = packed, crashes' = crashes
    PROVE  ClearInv'
BY DEF TypeInv, SaveInv, ClearInv, Sole

LEMMA ClearTail ==
    ASSUME toClear \in Seq({"globals", "objects"}), toClear # <<>>, Cleared,
           NEW k \in {"globals", "objects"}, k \in Range(toClear)
    PROVE  /\ k \in Range(toClear') \/ k = Head(toClear)
           /\ spc' = "end" => toClear' = <<>>
           /\ spc' \in {"clear", "end"}
<1>1. toClear' = Tail(toClear) /\ Len(toClear) \in Nat \ {0}
    BY DEF Cleared
<1>2. k \in Range(toClear') \/ k = Head(toClear)
    <2>1. PICK i \in DOMAIN toClear : toClear[i] = k
        BY DEF Range
    <2>2. CASE i = 1
        BY <2>1, <2>2
    <2>3. CASE i # 1
        <3>1. i - 1 \in DOMAIN Tail(toClear) /\ Tail(toClear)[i - 1] = k
            BY <2>1, <2>3
        <3> QED
            BY <1>1, <3>1 DEF Range
    <2> QED
        BY <2>2, <2>3
<1>3. spc' = "end" => toClear' = <<>>
    <2>1. spc' = "end" => Len(toClear) = 1
        BY DEF Cleared
    <2> QED
        BY <1>1, <2>1
<1> QED
    BY <1>2, <1>3 DEF Cleared

LEMMA ClearKept ==
    ASSUME ClearInv, TypeInv, wpc = "idle", wpc' = "idle", crashes' = crashes,
           UNCHANGED <<packed, temp>>, packed # Nil, Clearing, Cleared, NoKeys(Load(sidecar'[Head(toClear)])),
           \A k \in {"globals", "objects"} \ {Head(toClear)} : sidecar'[k] = sidecar[k]
    PROVE  ClearInv'
<1>1. toClear \in Seq({"globals", "objects"}) /\ toClear # <<>>
    BY DEF TypeInv, SaveInv
<1>2. ASSUME NEW k \in {"globals", "objects"}, ClearedOf(k)
      PROVE  k \in Range(toClear') \/ NoKeys(Load(sidecar'[k]))
    <2>1. k \in Range(toClear) \/ NoKeys(Load(sidecar[k]))
        BY <1>2 DEF ClearedOf
    <2>2. CASE k = Head(toClear)
        BY <2>2
    <2>3. CASE k # Head(toClear)
        BY <1>1, <2>1, <2>3, ClearTail
    <2> QED
        BY <2>2, <2>3
<1>3. spc' \in {"clear", "end"} /\ (spc' = "end" => toClear' = <<>>)
    <2>1. Head(toClear) \in {"globals", "objects"} /\ Head(toClear) \in Range(toClear)
        BY <1>1 DEF Range
    <2> QED
        BY <1>1, <2>1, ClearTail
<1>4. GlobalsHeld'
    <2>1. CASE Head(toClear) = "globals"
        BY <2>1, NoKeysHolds DEF GlobalsHeld, Holds, NoKeys
    <2>2. CASE Head(toClear) # "globals"
        BY <2>2 DEF ClearInv, GlobalsHeld, Holds
    <2> QED
        BY <2>1, <2>2
<1>5. GlobalsLeft'
    <2>1. CASE temp.layout = "lml"
        <3>1. ClearedOf("globals")
            BY <2>1 DEF ClearInv, GlobalsLeft
        <3> QED
            BY <1>2, <3>1 DEF GlobalsLeft, ClearedOf, NoKeys
    <2>2. CASE temp.layout # "lml"
        BY <2>2 DEF GlobalsLeft
    <2> QED
        BY <2>1, <2>2
<1>6. ClearedOf("objects")'
    <2>1. ClearedOf("objects")
        BY DEF ClearInv
    <2> QED
        BY <1>2, <2>1 DEF ClearedOf, NoKeys
<1> QED
    BY <1>3, <1>4, <1>5, <1>6 DEF ClearInv, Sole

LEMMA ApplyGlobalsClear ==
    ASSUME Full, TypeInv, ApplyGlobals
    PROVE  GlobalsLeft' /\ GlobalsHeld'
<1> DEFINE entry == OfMap(Load(sidecar.globals), OpenMap)
<1>1. /\ spc = "globals" /\ sidecar' = sidecar
      /\ temp' = (IF entry = Empty \/ Patch(entry) = Nil THEN temp
                  ELSE [temp EXCEPT !.defaults = Patch(entry)])
      /\ toClear' = (IF entry # Empty /\ temp.layout = "lml" THEN <<"globals">> ELSE <<>>)
    BY DEF ApplyGlobals
<1>2. temp \in Directory /\ temp.layout \in Layouts
    BY <1>1 DEF TypeInv, FilesInv, SaveInv, Directory
<1>3. temp'.layout = temp.layout
    BY <1>1, <1>2 DEF Directory
<1>4. CASE entry = Empty
    <2>1. NoKeys(Load(sidecar'.globals))
        BY <1>1, <1>4, NoKeysOfMap DEF NoKeys
    <2> QED
        BY <2>1, NoKeysHolds DEF GlobalsLeft, GlobalsHeld, ClearedOf, NoKeys, Holds
<1>5. CASE entry # Empty
    <2>1. GlobalsLeft'
        <3>1. CASE temp.layout = "lml"
            <4>1. toClear' = <<"globals">>
                BY <1>1, <1>5, <3>1
            <4> QED
                BY <4>1 DEF GlobalsLeft, ClearedOf, Range
        <3>2. CASE temp.layout # "lml"
            BY <1>3, <3>2 DEF GlobalsLeft
        <3> QED
            BY <3>1, <3>2
    <2>2. entry \in GlobalTable
        BY SidecarTable, OfMapTable DEF TypeInv, GlobalTable
    <2>3. Patch(entry) = Patched(entry, Global)
        BY <1>2 DEF Patch, Full
    <2>4. Patch(entry) \in [Global -> Value \cup {NoValue}]
        BY <1>2, <2>2, <2>3, PatchedTypes
    <2>5. Patch(entry) # Nil
        BY <2>4, PendingAssumption DEF PendingAssumption
    <2>6. temp'.defaults = Patch(entry)
        BY <1>1, <1>2, <1>5, <2>5 DEF Directory
    <2>7. ASSUME NEW p \in DOMAIN Load(sidecar.globals), p[1] = OpenMap
          PROVE  temp'.defaults[p[2]] = Load(sidecar.globals)[p]
        <3>1. p \in DOMAIN entry /\ entry[p] = Load(sidecar.globals)[p]
            BY <2>7 DEF OfMap, Restrict
        <3>2. p \in Globals
            BY <2>2, <3>1, TableShape DEF GlobalTable
        <3>3. p = <<OpenMap, p[2]>> /\ p[2] \in Global
            BY <2>7, <3>2 DEF Globals
        <3>4. Patched(entry, Global)[p[2]] = entry[p]
            BY <3>1, <3>3 DEF Patched
        <3> QED
            BY <2>3, <2>6, <3>1, <3>4
    <2>8. GlobalsHeld'
        BY <1>1, <2>7 DEF GlobalsHeld, Holds
    <2> QED
        BY <2>1, <2>8
<1> QED
    BY <1>4, <1>5

LEMMA ClearStep ==
    ASSUME ~Overlap, Full, TypeInv, TypeInv', ClearInv, [Next]_vars
    PROVE  ClearInv'
<1>1. ASSUME NEW op \in Ops, Call(op) PROVE ClearInv'
    BY <1>1, ClearWorker DEF Call, save
<1>2. CASE Worker
    <2>1. wpc # "idle" /\ UNCHANGED <<save, crashes>>
        BY <1>2 DEF Worker, ObjectRead, ObjectResolve, WriteTemp, WriteCache, LoadSidecar, StoreOpen,
                    StoreFill, counters
    <2> QED
        BY <2>1, ClearWorker DEF ClearInv, Sole, save
<1>3. CASE SaveStart
    <2>1. /\ spc' = "globals" /\ packed' = packed /\ crashes' = crashes /\ wpc' = "idle"
          /\ spc = "idle"
        BY <1>3 DEF SaveStart, worker
    <2> QED
        BY <2>1 DEF ClearInv, Sole
<1>4. CASE ApplyGlobals
    <2>1. /\ spc = "globals" /\ spc' = "objects" /\ wpc' = wpc
          /\ UNCHANGED <<sidecar, packed, crashes>>
        BY <1>4 DEF ApplyGlobals, worker, counters
    <2>2. GlobalsLeft' /\ GlobalsHeld'
        BY <1>4, ApplyGlobalsClear DEF ClearInv
    <2>3. packed = Nil /\ packed' = Nil
        BY <2>1 DEF ClearInv
    <2> QED
        BY <2>1, <2>2, <2>3 DEF ClearInv, Sole
<1>5. CASE ApplyObjects
    <2> DEFINE entry == OfMap(Load(sidecar.objects), OpenMap)
    <2>1. /\ spc = "objects" /\ spc' = "copy" /\ copying' = {p[2] : p \in DOMAIN entry}
          /\ toClear' = IF copying' = {} THEN toClear ELSE Append(toClear, "objects")
          /\ UNCHANGED <<sidecar, packed, crashes, wpc>>
        BY <1>5 DEF ApplyObjects, files, worker, counters
    <2>2. toClear \in Seq({"globals", "objects"}) /\ packed = Nil
        BY <2>1 DEF TypeInv, SaveInv, ClearInv
    <2>3. Range(toClear) \subseteq Range(toClear')
        <3>1. CASE toClear' = toClear
            BY <3>1
        <3>2. CASE toClear' = Append(toClear, "objects")
            <4>1. \A i \in DOMAIN toClear : i \in DOMAIN toClear' /\ toClear'[i] = toClear[i]
                BY <2>2, <3>2
            <4> QED
                BY <4>1 DEF Range
        <3> QED
            BY <2>1, <3>1, <3>2
    <2>4. GlobalsLeft' /\ GlobalsHeld'
        <3>1. temp' = temp /\ sidecar' = sidecar
            BY <1>5 DEF ApplyObjects, files
        <3>2. GlobalsLeft /\ GlobalsHeld
            BY <2>1 DEF ClearInv
        <3>3. GlobalsHeld'
            BY <3>1, <3>2 DEF GlobalsHeld, Holds
        <3>4. GlobalsLeft'
            BY <2>3, <3>1, <3>2 DEF GlobalsLeft, ClearedOf, NoKeys
        <3> QED
            BY <3>3, <3>4
    <2>5. ClearedOf("objects")'
        <3>1. CASE copying' = {}
            <4>1. DOMAIN entry = {}
                BY <2>1, <3>1
            <4>2. NoKeys(Load(sidecar.objects))
                <5>1. DOMAIN entry = {p \in DOMAIN Load(sidecar.objects) : p[1] = OpenMap}
                    BY DEF OfMap, Restrict
                <5> QED
                    BY <4>1, <5>1 DEF NoKeys
            <4> QED
                BY <2>1, <4>2 DEF ClearedOf, NoKeys
        <3>2. CASE toClear' = Append(toClear, "objects")
            <4>1. /\ Len(toClear) + 1 \in DOMAIN toClear'
                  /\ toClear'[Len(toClear) + 1] = "objects"
                BY <2>2, <3>2
            <4> QED
                BY <4>1 DEF ClearedOf, Range
        <3> QED
            BY <2>1, <3>1, <3>2
    <2>6. packed' = Nil
        BY <2>1, <2>2
    <2> QED
        BY <2>1, <2>2, <2>4, <2>5, <2>6 DEF ClearInv, Sole
<1>6. ASSUME NEW f \in File, Copy(f) PROVE ClearInv'
    <2>1. /\ spc = "copy" /\ spc' \in {"copy", "end"}
          /\ UNCHANGED <<sidecar, packed, crashes, toClear, wpc>>
        BY <1>6 DEF Copy, worker, counters
    <2>2. temp \in Directory
        BY <2>1 DEF TypeInv, FilesInv, SaveInv
    <2>3. temp'.defaults = temp.defaults /\ temp'.layout = temp.layout
        BY <1>6, <2>2 DEF Copy, Directory
    <2>4. GlobalsLeft' /\ GlobalsHeld'
        BY <2>1, <2>3, LeftKept DEF ClearInv
    <2>5. packed = Nil /\ packed' = Nil /\ spc' # "idle"
        BY <2>1 DEF ClearInv
    <2>6. spc' = "copy" => ClearedOf("objects")'
        BY <2>1 DEF ClearInv, ClearedOf, NoKeys
    <2> QED
        BY <2>1, <2>4, <2>5, <2>6 DEF ClearInv, Sole
<1>7. CASE Pack
    <2>1. /\ spc = "copy" /\ spc' \in {"clear", "end"}
          /\ spc' = "end" => packed' = Nil \/ toClear' = <<>>
          /\ UNCHANGED <<sidecar, temp, crashes, toClear, wpc>> /\ packed' \in {Nil, temp}
        BY <1>7 DEF Pack, AfterPack, files, worker, counters
    <2>2. GlobalsLeft' /\ GlobalsHeld'
        BY <2>1, LeftKept DEF ClearInv
    <2>3. ClearedOf("objects")'
        BY <2>1 DEF ClearInv, ClearedOf, NoKeys
    <2> QED
        BY <2>1, <2>2, <2>3 DEF ClearInv, Sole
<1>8. CASE ClearLoad \/ ClearOpen \/ ClearFill
    <2>1. /\ Clearing /\ packed # Nil /\ packed' = packed /\ crashes' = crashes /\ wpc' = wpc
          /\ temp' = temp
          /\ Head(toClear) \in {"globals", "objects"}
        BY <1>8 DEF ClearLoad, ClearOpen, ClearFill, Clearing, TypeInv, SaveInv, files,
                    worker, counters
    <2>2. wpc = "idle"
        BY <2>1 DEF ClearInv, Sole, Clearing
    <2>3. CASE ClearLoad
        <3>1. NoKeys(text)' /\ UNCHANGED sidecar
            BY <2>3, NoKeysLeft DEF ClearLoad, files, NoKeys
        <3>2. CASE Cleared /\ OfMap(Load(sidecar[Head(toClear)]), OpenMap) = Empty
            BY <2>1, <2>2, <3>1, <3>2, ClearKept, NoKeysOfMap
        <3>3. CASE spc' = "clearStore" /\ UNCHANGED toClear
            <4>1. GlobalsLeft' /\ GlobalsHeld'
                BY <2>1, <3>1, <3>3, LeftKept DEF ClearInv
            <4>2. ClearedOf("objects")'
                BY <2>1, <3>1, <3>3 DEF ClearInv, ClearedOf, NoKeys
            <4> QED
                BY <2>1, <2>2, <3>1, <3>3, <4>1, <4>2 DEF ClearInv, Sole, Clearing
        <3> QED
            BY <2>3, <3>2, <3>3 DEF ClearLoad
    <2>4. CASE ClearOpen \/ ClearFill
        <3>1. PICK data \in {text, Torn, Empty} : sidecar' = [sidecar EXCEPT ![Head(toClear)] = data]
            BY <2>4 DEF ClearOpen, ClearFill, Opened, Filled
        <3>2. /\ sidecar'[Head(toClear)] = data
              /\ \A k \in {"globals", "objects"} \ {Head(toClear)} : sidecar'[k] = sidecar[k]
            BY <2>1, <3>1 DEF TypeInv, FilesInv
        <3>3. text' = text /\ NoKeys(text)
            BY <2>4 DEF ClearOpen, ClearFill, ClearInv
        <3>4. NoKeys(Load(data))
            BY <3>3, NoKeysEmpty DEF Load
        <3>5. CASE Cleared
            BY <2>1, <2>2, <3>2, <3>4, <3>5, ClearKept
        <3>6. CASE spc' = "clearFill" /\ UNCHANGED toClear
            <4>1. GlobalsLeft' /\ ClearedOf("objects")'
                BY <2>1, <3>2, <3>4, <3>6 DEF ClearInv, GlobalsLeft, ClearedOf, NoKeys
            <4>2. GlobalsHeld'
                <5>1. CASE Head(toClear) = "globals"
                    BY <3>2, <3>4, <5>1, NoKeysHolds DEF GlobalsHeld, Holds, NoKeys
                <5>2. CASE Head(toClear) # "globals"
                    BY <2>1, <3>2, <5>2 DEF ClearInv, GlobalsHeld, Holds
                <5> QED
                    BY <5>1, <5>2
            <4> QED
                BY <2>1, <2>2, <3>3, <3>6, <4>1, <4>2 DEF ClearInv, Sole, NoKeys
        <3> QED
            BY <2>4, <3>5, <3>6 DEF ClearOpen, ClearFill
    <2> QED
        BY <1>8, <2>3, <2>4
<1>9. CASE SaveEnd \/ Crash
    <2>1. spc' = "idle" /\ packed' = Nil /\ crashes' \in {crashes, crashes + 1}
        BY <1>9 DEF SaveEnd, Crash, counters
    <2> QED
        BY <2>1 DEF ClearInv, Sole
<1>10. CASE (\E p \in Objects : CacheLost(p)) \/ UNCHANGED vars
    <2>1. UNCHANGED <<sidecar, temp, wpc, save, crashes>>
        BY <1>10 DEF CacheLost, vars, files, worker, counters
    <2> QED
        BY <2>1 DEF ClearInv, ClearedOf, GlobalsLeft, GlobalsHeld, Holds, NoKeys, Sole, save
<1> QED
    BY <1>1, <1>2, <1>3, <1>4, <1>5, <1>6, <1>7, <1>8, <1>9, <1>10 DEF Next, Save

\* After a save that packed the map no object file of it is staged any more, and a
\* global is only where there is no variable.lml and the packed map holds the staged
\* value, wherever the editor died before (saveW3x, lines 552-558).
THEOREM SavesClear == ASSUME ~Overlap, Full PROVE Spec => ClearedAfterSave
<1>1. Init => ClearInv
    BY DEF Init, ClearInv, Sole
<1>2. ASSUME TypeInv, ClearInv, [Next]_vars, spc = "end", spc' = "idle", packed # Nil,
             crashes' = crashes
      PROVE  LET left == OfMap(Load(sidecar.globals), OpenMap)
             IN  /\ OfMap(Load(sidecar.objects), OpenMap) = Empty
                 /\ \A key \in DOMAIN left :
                       packed.layout # "lml" /\ packed.defaults[key[2]] = left[key]
    <2> DEFINE left == OfMap(Load(sidecar.globals), OpenMap)
    <2>1. "globals" \notin Range(toClear) /\ "objects" \notin Range(toClear)
        BY <1>2 DEF ClearInv, Range
    <2>2. OfMap(Load(sidecar.objects), OpenMap) = Empty
        BY <1>2, <2>1, NoKeysOfMap DEF ClearInv, ClearedOf
    <2>3. packed = temp /\ GlobalsLeft /\ GlobalsHeld
        BY <1>2 DEF ClearInv
    <2>4. ASSUME NEW key \in DOMAIN left
          PROVE  packed.layout # "lml" /\ packed.defaults[key[2]] = left[key]
        <3>1. /\ key \in DOMAIN Load(sidecar.globals) /\ key[1] = OpenMap
              /\ left[key] = Load(sidecar.globals)[key]
            BY <2>4 DEF OfMap, Restrict
        <3>2. ~NoKeys(Load(sidecar.globals))
            BY <3>1 DEF NoKeys
        <3> QED
            BY <2>1, <2>3, <3>1, <3>2 DEF GlobalsLeft, GlobalsHeld, Holds, ClearedOf
    <2> QED
        BY <2>2, <2>4
<1> QED
    BY <1>1, <1>2, ClearStep, TypeAlways, PTL DEF Spec, ClearedAfterSave
=============================================================================
