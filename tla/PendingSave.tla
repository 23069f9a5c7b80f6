----------------------------- MODULE PendingSave -----------------------------
(***************************************************************************)
(* Edits of a map that is open in the editor cannot be written into its    *)
(* archive, so the worker stages them: a global's default in one sidecar   *)
(* file, an object file in a cache file named by an entry of another       *)
(* (YDAgentServerWorker.lua).  The save pipeline of the UI thread          *)
(* (saveW3x in script/ydwe/ydwe_on_save.lua) puts what is staged into the  *)
(* temporary map directory, packs it and clears the entries.  Both threads *)
(* load, change and store whole sidecar files, without a lock; storing     *)
(* truncates the file first, and a file that does not parse loads as {}.   *)
(*                                                                         *)
(* An object file is the set of the edits it holds.  The open map is a     *)
(* .w3x archive; the editor writes into the temporary directory what the   *)
(* archive holds.                                                          *)
(***************************************************************************)
EXTENDS Naturals, Sequences, FiniteSets, Functions, SequencesExt

CONSTANTS
    Map, OpenMap,   \* the maps with files on disk; the one open in the editor
    File, Edit,     \* object files of a map; edits of single fields
    Global, Value, NoValue,  \* scalar globals, defaults, a default nobody chose
    Missing, Torn, Nil,      \* no cache file; a sidecar that does not parse; none
    Layouts,        \* what the temporary directories hold of the globals
    Declared,       \* the globals its variable.lml or war3map.wtg declares
    Ops,            \* the calls clients make
    Leftover,       \* entries of the object sidecar left by an earlier session
    Overlap,        \* the user saves by hand while calls run
    Careful,        \* clients leave a staged object file alone until it is saved
    MaxOps, MaxSaves, MaxLosses, MaxCrashes     \* bounds

Objects == Map \X File
Operation ==
    [kind : {"object.read"}, map : Map, file : File]
    \cup [kind : {"object_set_field"}, map : Map, file : File, edit : Edit]
    \cup [kind : {"set_global_value"}, global : Global, value : Value]
    \cup [kind : {"clear_pending_objects"}, keys : SUBSET Objects]
    \cup [kind : {"clear_pending_globals"}, keys : SUBSET (Map \X Global)]

Table(keys, values) == UNION {[d -> values] : d \in SUBSET keys}
Directory == [objects : [File -> SUBSET Edit], defaults : [Global -> Value \cup {NoValue}],
              layout : Layouts]

ASSUME PendingAssumption ==
    /\ OpenMap \in Map /\ IsFiniteSet(File)
    /\ Layouts \subseteq {"lml", "badLml", "wtg", "script", "nothing"}
    /\ Declared \subseteq Global /\ Ops \subseteq Operation /\ NoValue \notin Value
    /\ Leftover \subseteq Objects /\ Overlap \in BOOLEAN /\ Careful \in BOOLEAN
    /\ \A edits \in SUBSET Edit : Missing # edits
    /\ Torn \notin Table(Map \X Global, Value) \cup Table(Objects, {TRUE})
    /\ \A dir \in Directory : Nil # dir
    /\ \A patched \in [Global -> Value \cup {NoValue}] : Nil # patched
    /\ MaxOps \in Nat /\ MaxSaves \in Nat /\ MaxLosses \in Nat /\ MaxCrashes \in Nat

VARIABLES
    sidecar,    \* the two sidecar files: staged values by map and global, and
                \* TRUE by map and object file
    cache,      \* the cache files
    archive,    \* the object files in the maps' archives
    defaults,   \* the globals' defaults in the open map's archive
    temp,       \* the temporary directory of a running save, or Nil
    wpc, call, content, staged,             \* the worker
    spc, copying, toClear, text, packed,    \* the save; the map it packed, or Nil
    acked, chosen,                          \* history: writes reported as done
    ops, saves, losses, crashes             \* the bounds' counters

files == <<sidecar, cache, archive, defaults, temp>>
worker == <<wpc, call, content, staged>>
save == <<spc, copying, toClear, text, packed>>
history == <<acked, chosen>>
counters == <<ops, saves, losses, crashes>>
vars == <<files, worker, save, history, counters>>

-----------------------------------------------------------------------------
(***************************************************************************)
(* Sidecar files                                                           *)
(***************************************************************************)

Empty == [p \in {} |-> TRUE]
Load(data) == IF data = Torn THEN Empty ELSE data
OfMap(data, map) == Restrict(data, {p \in DOMAIN data : p[1] = map})
Without(data, keys) == Restrict(data, DOMAIN data \ keys)
WithoutMap(data, map) == Without(data, DOMAIN OfMap(data, map))
With(data, key, value) == [p \in DOMAIN data \cup {key} |-> IF p = key THEN value ELSE data[p]]

\* The first half of a store: an empty table removes the file, another one
\* truncates it.
Opened(data) == IF data = Empty THEN Empty ELSE Torn

\* The second half.  If another store ended in between, this one writes over
\* its text, which leaves a tail that does not parse when the text is longer.
Filled(old, data) == IF old = Torn THEN {data} ELSE {data, Torn}

-----------------------------------------------------------------------------
Init ==
    /\ sidecar = [globals |-> Empty, objects |-> [p \in Leftover |-> TRUE]]
    /\ cache = [p \in Objects |-> IF p \in Leftover THEN Edit ELSE Missing]
    /\ archive = [p \in Objects |-> {}]
    /\ defaults = [g \in Global |-> NoValue]
    /\ temp = Nil
    /\ wpc = "idle" /\ call = Nil /\ content = {} /\ staged = Empty
    /\ spc = "idle" /\ copying = {} /\ toClear = <<>> /\ text = Empty /\ packed = Nil
    /\ acked = {<<p[1], p[2], e>> : p \in Leftover, e \in Edit} /\ chosen = Empty
    /\ ops = 0 /\ saves = 0 /\ losses = 0 /\ crashes = 0

(***************************************************************************)
(* The worker: one call at a time                                          *)
(***************************************************************************)

Staged(p) == p \in DOMAIN Load(sidecar.objects)
Object == <<call.map, call.file>>
OnObject(op) == op.kind \in {"object.read", "object_set_field"}

Call(op) ==
    /\ wpc = "idle" /\ ops < MaxOps
    /\ Overlap \/ spc = "idle"
    /\ Careful /\ OnObject(op) => ~Staged(<<op.map, op.file>>)
    /\ call' = op /\ ops' = ops + 1
    /\ wpc' = IF OnObject(op) THEN "read" ELSE "load"
    /\ UNCHANGED <<files, content, staged, save, history, saves, losses, crashes>>

\* resolve_object_file_for_read: the file in the temporary directory if there is
\* one; otherwise it is extracted from the archive, over the cache file.
InTemp == temp # Nil /\ call.map = OpenMap
Extract == cache' = IF InTemp THEN cache ELSE [cache EXCEPT ![Object] = archive[Object]]

ObjectRead ==
    /\ wpc = "read"
    /\ Extract
    /\ content' = IF InTemp THEN temp.objects[call.file] ELSE archive[Object]
    /\ wpc' = IF call.kind = "object.read" THEN "idle" ELSE "resolve"
    /\ UNCHANGED <<sidecar, archive, defaults, temp, call, staged, save, history, counters>>

\* object.write resolves the path again, then writes the whole file.
ObjectResolve ==
    /\ wpc = "resolve"
    /\ Extract
    /\ wpc' = IF InTemp THEN "writeTemp" ELSE "writeCache"
    /\ UNCHANGED <<sidecar, archive, defaults, temp, call, content, staged, save, history,
                   counters>>

Edited == content \cup {call.edit}
Acknowledged == acked' = acked \cup {<<call.map, call.file, call.edit>>}

\* The temporary directory may be gone by now; ydt_write_object_file may fail.
WriteTemp ==
    /\ wpc = "writeTemp" /\ wpc' = "idle"
    /\ \/ temp # Nil /\ temp' = [temp EXCEPT !.objects[call.file] = Edited] /\ Acknowledged
       \/ UNCHANGED <<temp, acked>>
    /\ UNCHANGED <<sidecar, cache, archive, defaults, call, content, staged, save, chosen,
                   counters>>

\* A fault for the mutation runs: the entry is registered before the cache is written.
WriteCacheLate ==
    /\ wpc = "writeCache"
    /\ \/ /\ IF call.map = OpenMap
             THEN wpc' = "load" /\ cache' = [cache EXCEPT ![Object] = Missing]
                  /\ UNCHANGED <<archive, acked>>
             ELSE wpc' = "idle" /\ archive' = [archive EXCEPT ![Object] = Edited]
                  /\ Acknowledged /\ UNCHANGED cache
       \/ wpc' = "idle" /\ UNCHANGED <<cache, archive, acked>>
    /\ UNCHANGED <<sidecar, defaults, temp, call, content, staged, save, chosen, counters>>

\* The archive of the open map cannot be opened for writing: the cache file is
\* staged instead of being added to the archive.
WriteCache ==
    /\ wpc = "writeCache"
    /\ \/ /\ cache' = [cache EXCEPT ![Object] = Edited]
          /\ IF call.map = OpenMap
             THEN wpc' = "load" /\ UNCHANGED <<archive, acked>>
             ELSE wpc' = "idle" /\ archive' = [archive EXCEPT ![Object] = Edited]
                  /\ Acknowledged
       \/ wpc' = "idle" /\ UNCHANGED <<cache, archive, acked>>
    /\ UNCHANGED <<sidecar, defaults, temp, call, content, staged, save, chosen, counters>>

Sidecar ==
    IF call.kind \in {"set_global_value", "clear_pending_globals"} THEN "globals" ELSE "objects"

\* register_pending_object_override, stage_pending_global_override and the
\* clear_pending calls: the table they load, changed.
Changed(data) ==
    CASE call.kind = "object_set_field" -> With(data, Object, TRUE)
      [] call.kind = "set_global_value" -> With(data, <<OpenMap, call.global>>, call.value)
      [] OTHER -> Without(data, call.keys)

LoadSidecar ==
    /\ wpc = "load" /\ wpc' = "store"
    /\ staged' = Changed(Load(sidecar[Sidecar]))
    /\ UNCHANGED <<files, call, content, save, history, counters>>

\* What a call that returns true adds to what was reported as done.  Clearing
\* what is staged takes the request back.
AckedDone ==
    CASE call.kind = "object_set_field" -> acked \cup {<<call.map, call.file, call.edit>>}
      [] call.kind = "clear_pending_objects" ->
            {a \in acked : <<a[1], a[2]>> \in call.keys => a[3] \in archive[<<a[1], a[2]>>]}
      [] OTHER -> acked
ChosenDone ==
    CASE call.kind = "set_global_value" -> With(chosen, call.global, call.value)
      [] call.kind = "clear_pending_globals" ->
            Restrict(chosen, {g \in DOMAIN chosen : <<OpenMap, g>> \in call.keys
                                                   => defaults[g] = chosen[g]})
      [] OTHER -> chosen
Done == wpc' = "idle" /\ acked' = AckedDone /\ chosen' = ChosenDone

StoreOpen ==
    /\ wpc = "store"
    /\ sidecar' = [sidecar EXCEPT ![Sidecar] = Opened(staged)]
    /\ IF staged = Empty THEN Done ELSE wpc' = "fill" /\ UNCHANGED history
    /\ UNCHANGED <<cache, archive, defaults, temp, call, content, staged, save, counters>>

StoreFill ==
    /\ wpc = "fill"
    /\ \E data \in Filled(sidecar[Sidecar], staged) :
          sidecar' = [sidecar EXCEPT ![Sidecar] = data]
    /\ Done
    /\ UNCHANGED <<cache, archive, defaults, temp, call, content, staged, save, counters>>

-----------------------------------------------------------------------------
(***************************************************************************)
(* The save of the open map, on the UI thread                              *)
(***************************************************************************)

SaveStart ==
    /\ spc = "idle" /\ saves < MaxSaves
    /\ Overlap \/ wpc = "idle"
    /\ saves' = saves + 1
    /\ \E layout \in Layouts :
          temp' = [objects |-> [f \in File |-> archive[<<OpenMap, f>>]],
                   defaults |-> defaults, layout |-> layout]
    /\ spc' = "globals" /\ toClear' = <<>>
    /\ UNCHANGED <<sidecar, cache, archive, defaults, worker, copying, text, packed, history,
                   ops, losses, crashes>>

\* The entry's values for the globals of "names".
Patched(entry, names) ==
    [g \in Global |-> IF <<OpenMap, g>> \in DOMAIN entry /\ g \in names
                      THEN entry[<<OpenMap, g>>] ELSE temp.defaults[g]]

\* The globals the files of the temporary directory take; Nil: an error.
Patch(entry) ==
    IF temp.layout = "lml"
       \/ (temp.layout = "wtg" /\ \E g \in Declared : <<OpenMap, g>> \in DOMAIN entry)
    THEN Patched(entry, Declared)
    ELSE IF temp.layout \in {"wtg", "script"} THEN Patched(entry, Global)
    ELSE Nil

\* apply_pending_global_overrides.  Its error lands in the wrong one of the
\* three results saveW3x takes, so the save goes on; only variable.lml asks for
\* the entry to be cleared.
ApplyGlobals ==
    /\ spc = "globals" /\ spc' = "objects"
    /\ LET entry == OfMap(Load(sidecar.globals), OpenMap)
       IN  /\ temp' = IF entry = Empty \/ Patch(entry) = Nil THEN temp
                      ELSE [temp EXCEPT !.defaults = Patch(entry)]
           /\ toClear' = IF entry # Empty /\ temp.layout = "lml" THEN <<"globals">> ELSE <<>>
    /\ UNCHANGED <<sidecar, cache, archive, defaults, worker, copying, text, packed, history,
                   counters>>

\* apply_pending_object_overrides.
ApplyObjects ==
    /\ spc = "objects" /\ spc' = "copy"
    /\ copying' = {p[2] : p \in DOMAIN OfMap(Load(sidecar.objects), OpenMap)}
    /\ toClear' = IF copying' = {} THEN toClear ELSE Append(toClear, "objects")
    /\ UNCHANGED <<files, worker, text, packed, history, counters>>

\* A fault: a staged file that is not there is passed over.
CopyIfThere(f) ==
    /\ spc = "copy" /\ f \in copying
    /\ copying' = copying \ {f}
    /\ temp' = IF cache[<<OpenMap, f>>] = Missing THEN temp
               ELSE [temp EXCEPT !.objects[f] = cache[<<OpenMap, f>>]]
    /\ UNCHANGED <<sidecar, cache, archive, defaults, worker, spc, toClear, text, packed,
                   history, counters>>

\* A fault: the file stays in the list of those to be copied.
CopyOver(f) ==
    /\ spc = "copy" /\ f \in copying
    /\ temp' = [temp EXCEPT !.objects[f] = cache[<<OpenMap, f>>]]
    /\ UNCHANGED <<sidecar, cache, archive, defaults, worker, spc, copying, toClear, text,
                   packed, history, counters>>

Copy(f) ==
    /\ spc = "copy" /\ f \in copying
    /\ IF cache[<<OpenMap, f>>] = Missing
       THEN spc' = "end" /\ UNCHANGED <<temp, copying>>
       ELSE /\ temp' = [temp EXCEPT !.objects[f] = cache[<<OpenMap, f>>]]
            /\ copying' = copying \ {f}
            /\ UNCHANGED spc
    /\ UNCHANGED <<sidecar, cache, archive, defaults, worker, toClear, text, packed, history,
                   counters>>

AfterPack == IF toClear = <<>> THEN "end" ELSE "clear"

\* A fault: the entries are cleared whether the packer succeeds or not.
PackAndClear ==
    /\ spc = "copy" /\ copying = {}
    /\ packed' \in {temp, Nil} /\ spc' = AfterPack
    /\ UNCHANGED <<files, worker, copying, toClear, text, history, counters>>

\* map_packer, which may fail, packs the directory into a file within it.
Pack ==
    /\ spc = "copy" /\ copying = {}
    /\ \/ packed' = temp /\ spc' = AfterPack
       \/ packed' = Nil /\ spc' = "end"
    /\ UNCHANGED <<files, worker, copying, toClear, text, history, counters>>

\* A fault: only the first sidecar is cleared.
ClearedFirst == toClear' = Tail(toClear) /\ spc' = "end"

Cleared == toClear' = Tail(toClear) /\ spc' = IF Len(toClear) = 1 THEN "end" ELSE "clear"

\* clear_pending_global_overrides and clear_pending_object_overrides.
ClearLoad ==
    /\ spc = "clear"
    /\ LET data == Load(sidecar[Head(toClear)])
       IN  /\ text' = WithoutMap(data, OpenMap)
           /\ IF OfMap(data, OpenMap) = Empty
              THEN Cleared
              ELSE spc' = "clearStore" /\ UNCHANGED toClear
    /\ UNCHANGED <<files, worker, copying, packed, history, counters>>

ClearOpen ==
    /\ spc = "clearStore"
    /\ sidecar' = [sidecar EXCEPT ![Head(toClear)] = Opened(text)]
    /\ IF text = Empty THEN Cleared ELSE spc' = "clearFill" /\ UNCHANGED toClear
    /\ UNCHANGED <<cache, archive, defaults, temp, worker, copying, text, packed, history,
                   counters>>

ClearFill ==
    /\ spc = "clearFill"
    /\ \E data \in Filled(sidecar[Head(toClear)], text) :
          sidecar' = [sidecar EXCEPT ![Head(toClear)] = data]
    /\ Cleared
    /\ UNCHANGED <<cache, archive, defaults, temp, worker, copying, text, packed, history,
                   counters>>

\* The editor moves the packed map over the archive and removes the directory.
SaveEnd ==
    /\ spc = "end" /\ spc' = "idle"
    /\ temp' = Nil /\ packed' = Nil
    /\ IF packed = Nil
       THEN UNCHANGED <<archive, defaults>>
       ELSE /\ archive' = [p \in Objects |-> IF p[1] = OpenMap THEN packed.objects[p[2]]
                                             ELSE archive[p]]
            /\ defaults' = packed.defaults
    /\ UNCHANGED <<sidecar, cache, worker, copying, toClear, text, history, counters>>

-----------------------------------------------------------------------------
(***************************************************************************)
(* The surroundings                                                        *)
(***************************************************************************)

\* Somebody deletes a cache file.
CacheLost(p) ==
    /\ losses < MaxLosses /\ losses' = losses + 1
    /\ cache[p] # Missing /\ cache' = [cache EXCEPT ![p] = Missing]
    /\ UNCHANGED <<sidecar, archive, defaults, temp, worker, save, history, ops, saves, crashes>>

\* The editor dies and is started again on the same map.
Crash ==
    /\ crashes < MaxCrashes /\ crashes' = crashes + 1
    /\ wpc # "idle" \/ spc # "idle"
    /\ wpc' = "idle" /\ spc' = "idle" /\ temp' = Nil /\ packed' = Nil
    /\ UNCHANGED <<sidecar, cache, archive, defaults, call, content, staged, copying, toClear,
                   text, history, ops, saves, losses>>

Worker == ObjectRead \/ ObjectResolve \/ WriteTemp \/ WriteCache \/ LoadSidecar
          \/ StoreOpen \/ StoreFill

Save == ApplyGlobals \/ ApplyObjects \/ (\E f \in File : Copy(f)) \/ Pack
        \/ ClearLoad \/ ClearOpen \/ ClearFill \/ SaveEnd

Next == \/ \E op \in Ops : Call(op)
        \/ Worker \/ SaveStart \/ Save \/ Crash
        \/ \E p \in Objects : CacheLost(p)

\* A save that has begun runs to its end on the UI thread.
Spec == Init /\ [][Next]_vars /\ WF_vars(Save)

-----------------------------------------------------------------------------
(***************************************************************************)
(* Properties                                                              *)
(***************************************************************************)

\* Every variable keeps its type, and the temporary directory exists exactly as
\* long as a save runs.
TypeOK ==
    /\ sidecar.globals \in Table(Map \X Global, Value) \cup {Torn}
    /\ sidecar.objects \in Table(Objects, {TRUE}) \cup {Torn}
    /\ \A p \in Objects : archive[p] \subseteq Edit /\ (cache[p] = Missing \/ cache[p] \subseteq Edit)
    /\ defaults \in [Global -> Value \cup {NoValue}]
    /\ temp # Nil <=> spc # "idle"
    /\ temp # Nil => temp.objects \in [File -> SUBSET Edit]
    /\ Range(toClear) \subseteq {"globals", "objects"}
    /\ spc \in {"clear", "clearStore", "clearFill"} => toClear # <<>> /\ packed # Nil
    /\ acked \subseteq Map \X File \X Edit

Quiet == wpc = "idle" /\ spc = "idle"

Kept(a) ==
    LET p == <<a[1], a[2]>>
    IN  a[3] \in archive[p] \/ (Staged(p) /\ (cache[p] = Missing \/ a[3] \in cache[p]))

\* An object write or a global write reported as done is in the map's archive
\* or still staged, where the next save takes it from (or fails on it), unless
\* the client took it back (object.write, set_global_value and saveW3x); a save
\* of one map leaves what is staged for the others alone.
\* docs/refactor-status.md, line 78: "no silent cache-only object writes";
\* lines 127-129: "object.write now supports open-editor .w3x sessions by staging
\* modified object files [...]; the save pipeline copies staged war3map.w3*
\* files into the active temp map before packing".
NoSilentLoss ==
    Quiet => /\ \A a \in acked : Kept(a)
             /\ \A g \in DOMAIN chosen :
                   LET key == <<OpenMap, g>>
                       data == Load(sidecar.globals)
                   IN  IF key \in DOMAIN data THEN data[key] = chosen[g]
                       ELSE defaults[g] = chosen[g]

\* A save that reports success has packed every write reported as done: it fails
\* when the cache of a staged object file is gone, and never packs a map that
\* holds some of the writes only (saveW3x, lines 518-559).
\* docs/refactor-status.md, line 77: "failures must be explicit"; lines 605-606:
\* "if a staged object cache file is deleted before save, the save pipeline fails
\* rather than silently producing a partial map".
SaveIsComplete ==
    [][packed = Nil /\ packed' # Nil =>
          /\ \A a \in acked : a[1] = OpenMap => a[3] \in packed'.objects[a[2]]
          /\ \A g \in DOMAIN chosen : packed'.defaults[g] = chosen[g]]_vars

\* After a successful save no object file of the map is staged any more, and no
\* global of a map with a variable.lml.  With a war3map.wtg or only a war3map.j
\* (ydwe_on_save.lua, lines 464 and 475) a global stays staged, and then the map
\* just packed holds the staged value.  docs/refactor-status.md, lines 75-76,
\* promises more: "all generated pending sidecars are inspectable from CLI and
\* are cleared after successful save/restore".
ClearedAfterSave ==
    [][spc = "end" /\ spc' = "idle" /\ packed # Nil /\ crashes' = crashes =>
          LET left == OfMap(Load(sidecar.globals), OpenMap)
          IN  /\ OfMap(Load(sidecar.objects), OpenMap) = Empty
              /\ \A key \in DOMAIN left :
                    packed.layout # "lml" /\ packed.defaults[key[2]] = left[key]]_vars

\* Whoever saves what, an entry a save can read names a cache file that is
\* there: no save fails for a file that is only about to be written
\* (object.write writes the cache before it registers it).
EntryHasCache ==
    losses = 0 => \A p \in DOMAIN Load(sidecar.objects) : cache[p] # Missing

\* A save ends, whatever the worker does to the files meanwhile.
SaveEnds == spc # "idle" ~> spc = "idle"
=============================================================================
