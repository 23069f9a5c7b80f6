# Formal models of YDWE

YDWE extends the Warcraft III World Editor. Most of the repository is vendored
libraries, data and resource files, memory patches and text conversion. What has
a protocol, a life cycle or an ordering of its own is in four places, and this
project models them in TLA+, checks them with TLC and proves what matters most
with TLAPS:

* the **agent runtime**: a worker thread inside the editor that serves JSON-RPC
  clients, changes the triggers and objects of the open map, asks the user for
  approval, rolls back what fails, and stages what cannot be written into an
  open archive until the user saves;
* the **trigger registry** below it: native functions that find, copy, create
  and free nodes of the editor's own tree;
* the **language server**: a child process behind two pipes, with a thread of
  its own in the editor, and the parser every document goes through;
* the **Lua engine inside the game**: handles, callbacks that sleep and hooks of
  natives, beside a garbage collector and the game's threads.

Paths below are relative to `src/Development/` unless they begin with `src/`.

## Inventory

| Component | Source | State | Operations | Talks to |
|---|---|---|---|---|
| Apply-plan engine | `Component/plugin/YDAgentServerWorker.lua` 2245-2540, `YDAgentOps.lua` | operation at hand, snapshot, rollback list, results | validate, dry run, consume an approval, snapshot / apply / verify each operation, walk the rollback list | native trigger API (one call at a time), approval channel |
| Native trigger API | `Plugin/WE/YDTrigger/AgentAPI.cpp`, `CC_Main_Hook.cpp`, `Core/CC_PutTrigger_Hook.cpp` | `g_triggers`, the editor's trigger objects and their nodes | count, find, get, set, add, remove; a compile clears and refills `g_triggers` | the worker, the UI thread |
| Pending sidecars, save pipeline | `YDAgentServerWorker.lua` 589-785, 1269-1293, 2057-2243; `Component/script/ydwe/ydwe_on_save.lua` | sidecar for globals, sidecar for object files, cache files, temporary map directory | stage, read, write, clear; apply, copy, pack, clear | worker and UI thread through files only |
| Agent server, life cycle, clients | `YDAgentServerWorker.lua` 250-325, 2600-2946, `YDAgentServer.lua`, `YDAgentUI.lua`, `AI/ydagent_client.py` | the connection being served, the queue of others, channels for reviews, approvals, stop | accept, read, dispatch, answer; save the map by a window message; review, approve, refresh, exit | sockets, channels, `SendMessageW`, a provider's program |
| Trigger creation, deletion, registry | `AgentAPI.cpp` 45-150, 593-628, 849-1147, 1236-1246 | `g_triggers`, the tree's nodes, arrays and parameters, who owns them | refresh, capture at a compile, create, delete, add, remove | apply-plan engine, the editor |
| Language server and its client | `Plugin/Lua/lsp_client`, `Component/script/common/lsp.lua`, `AI/ydwe-lsp` | process and pipe handles, reading thread, message queue; the server's documents | start, send, poll, stop; read, answer, publish; parse | a child process |
| In-game Lua engine | `Plugin/Warcraft3/yd_lua_engine/lua_engine` | userdata of handles, saved coroutines, hooks | push, finalize; start, sleep, wake; set a hook | the game's threads, Lua's collector |
| AI plan generation, templates | `YDAgentAI.lua`, `YDAgentOps.lua` | none that lasts | build a prompt, call a provider, compile a template | server |
| File exchange on compile | `YDAgentServer.lua` 138-228 | a request and an answer file | serve one request per compile | scripts |
| Event system | `Component/script/common/ev.lua`, `Plugin/Lua/event` | handler lists, removals delayed during an emit | register, emit, remove | all scripts |
| The rest | start-up, menus, test runs, packing, compilers, object data API, loader, hooks, Python clients, vendored code | | | see `PROJECT.json` |

### What is hard, and what makes each part correct

* **Apply-plan engine.** A plan is a series of native calls with nothing atomic
  about it; the rollback uses counts and ordinals read at other moments; the
  UI thread may compile or edit in between. Correct: a failed plan that can be
  undone is undone exactly; what is reported as done reads back; no node of the
  user is lost; every call returns; nothing is written without an approval.
* **Native trigger API.** Nodes are found by ordinal, and two ordinals exist:
  over all the nodes of a type, and over the active ones. Correct: a write
  reaches the node its ordinal was taken from.
* **Sidecars and saves.** Both threads load, change and store whole files; a
  store truncates first; the entries are cleared after packing, whatever was
  packed, and in most maps those of globals not at all. Correct: an acknowledged
  write is saved or still staged; a save is complete or fails; an entry a save
  reads has its cache file; what a save leaves staged it has packed.
* **Server.** One thread serves one connection at a time; clients leave and
  call again; the UI thread waits for the worker and the worker, in
  `SendMessageW`, for the UI thread; a provider's program and a dialog may take
  as long as they like. Correct: neither thread waits for ever for the other; a save a
  client asked for never runs beside the worker; approvals balance; the review
  list shows the newest plans; the stop token is seen.
* **Trigger registry.** The functions copy nodes byte by byte, pointers
  included, and free nodes the editor may still list. Correct: after any
  sequence of calls no pointer dangles, nothing has two owners, an index of the
  cache names a trigger or one the user has removed since, and a refresh lists
  what a compile listed.
* **Language server.** Both pipes are of limited size and every call on them
  blocks; answers arrive in pieces; the server may end at any point; the client
  is started and stopped many times. Correct: answers arrive whole, once and in
  order; nobody waits for ever; threads and handles are accounted for; client
  and server have the same documents, save where the client could not tell the
  server of a change. The parser: it ends on every text, and a
  correct program is read as what it declares.
* **Lua engine.** The collector may run at any allocation, tables are weak, a
  thread's address is used again, callbacks nest. Correct: one reference for
  each userdata; a callback goes on as itself; the game never calls a stub that
  is gone.

`PROJECT.json` lists the hazards line by line with the properties aimed at them.

## The modules

| Module | What it is |
|---|---|
| `EcaTree` | trigger data and the exported `ydt_*` functions, as operators from a record to the set of records a call may leave (empty: the call fails) |
| `ApplyPlan` | `ai.apply_plan` over `EcaTree`, one step per native call, with the UI thread beside it |
| `AtomicApply` | the abstract promise: a job takes one approval and commits or leaves no trace |
| `ApplyRefinement` | the refinement mapping from `ApplyPlan` to `AtomicApply`, and the sessions it is about (`Calm`) |
| `PendingSave` | worker and save over the sidecars, the cache, the archive and the temporary directory, one step per file access |
| `AgentServer` | worker loop, clients, UI thread, channels, the save message |
| `TriggerRegistry` | the registry over a heap of nodes, arrays and parameters, one step per exported function |
| `LspSession` | client and server over two pipes, one step per blocking call |
| `JassParser` | the server's parser over tokens, one step per turn of a loop |
| `LuaEngine` | handles, sleeping callbacks and hooks beside the collector and the game |
| `EcaTreeProofs`, `ApplyPlanProofs`, `PendingSaveProofs`, `AgentServerProofs`, `TriggerRegistryProofs`, `LspSessionProofs`, `JassParserProofs`, `LuaEngineProofs` | lemmas and theorems |
| `MCApplyPlan`, `MCApplyAtomic`, `MCPendingSave`, `MCAgentServer`, `MCTriggerRegistry`, `MCLspSession`, `MCJassParser`, `MCLuaEngine` | instances for TLC |

The modules are separate because the code is: `AgentServer` treats a call as one
step and looks at who waits for whom, `ApplyPlan` looks inside
`ai.apply_plan`, `PendingSave` inside the calls that stage and the save.
`SaveExclusive` is what ties them together: a save a client asks for is serial
with the worker (`Overlap = FALSE` in `PendingSave`, `MaxUiSteps = 0` in
`ApplyPlan`), and only a save or edit by hand is not. `EcaTree` takes a
trigger's nodes as values, which is what a plan sees of them;
`TriggerRegistry` has the same functions over the memory they share. `LspSession`
takes a diagnosis as a function of a document, `JassParser` is the loop behind it.

Some definitions begin with the comment "A fault": variants of the action after
them with a plausible bug (a dropped guard, an ordinal one off). No
specification uses them; each property is run once with one of them in place of
the real definition, to see that it can fail.

### EcaTree and ApplyPlan

`trigs` holds the editor's trigger objects, `cap` is `g_triggers`. A node's
`id` is its address. `FindEca` counts the active nodes of a type,
`FindAnyEca` all of them (`find_eca_ex`), and each exported function uses the
one its code uses: `ydt_set_eca_active` and `ydt_remove_eca` all nodes, the others
the active ones. `ReadSlot` renders a parameter as the code does: a reference's
name, `(empty)`, `null`. `AddEca` looks for a template node to clone, first in
the target trigger, then in every captured one. `Stored` is a text as the
260-byte buffer of a parameter keeps it (`AgentAPI.cpp` 841), and `Fits` says that
nothing is cut; names are no longer than 256 bytes by their validators. The plan's
validators let a parameter of any length through, so a long one is written short,
reported as done, and read back as something else.

`ApplyPlan`'s worker walks `snapshot`, then `apply` or `count`, `add`, `addfunc`,
`addparam`, then `verify`, or `revert`. Every native call is one step, so the
UI thread may edit a trigger or compile between any two. `Call` has the early
returns of the function's head in their order (`Verdict`). History variables:
`hist` holds the trees before each recorded operation, `quiet` says the UI
thread did nothing since the call began, `sound` says that every operation of
the plan can be undone on the tree the call began with.

Not in `ApplyPlan`: `object_set_field` (its staging is in `PendingSave`), nested
nodes (children of a condition or loop; their memory is in `TriggerRegistry`),
heap exhaustion, and torn reads of `g_triggers`.

### PendingSave

`sidecar` holds both sidecar files as functions from (map, global) or (map,
file) to what is staged; `Torn` is a file that does not parse, which loads as
empty. A store is two steps (`Opened`, `Filled`): truncation, then the text;
another store in between may leave a text with a tail. An object file is the set of
edits it holds, so a lost edit is a missing member. `ObjectRead` and
`ObjectResolve` extract the archive's file over the cache file, as
`resolve_object_file_for_read` does. The save runs `globals`, `objects`,
`copy`, packing, `clear` (one sidecar after the other, each a load and a store),
`end`. `packed` is the map the packer wrote, until the editor moves it.
`Layouts` are what a temporary directory may hold of the globals, chosen anew for
each save: a `variable.lml` (`lml`; `badLml` cannot be read), a `war3map.wtg`
(`wtg`, what an ordinary `.w3x` has), only a `war3map.j` (`script`), or nothing.
Only the first lets the save clear the sidecar of globals.

Taken from how the code uses it, not from code here: the editor writes into the
temporary directory what the archive holds; after `EVENT_NEW_SAVE_MAP`
it moves the packed map to its place and removes the directory (`SaveEnd`); the
archive of the open map can be read but not opened for writing.

Not modelled: source-directory (LNI) maps, which are written directly;
`.w3m` and `.w3n` maps; "save as" and saves for a test run.

### AgentServer

`pc` is where the worker is, `cur` the connection it serves, `backlog` those
the system has accepted for it. `text` of a connection says how much of the request has
arrived; a client that gives up leaves what it sent in the socket, and the call
is carried out. `ui` is what the UI thread does; `message` is the WM_COMMAND of
`editor.save_map`, which the worker waits on in `saving`. A message is handled
before the next user input, and not while the UI thread sits in `recv_all` or
saves: Windows delivers a sent message only when the receiver looks for
messages. A dialog (`asking`, `userasking`) keeps the UI thread inside its save until
the user answers. `Run` is one step but for the two calls that can last: `save_map`
goes through `saving`, and `generate_plan` through `provider`, where the worker reads a
program's output to its end and waits for its exit without a timeout. `SaveMap` has
the early returns of the function, and its keyboard fallback, whose save is one by
hand. `attempts` records for each approved call whether it applied its plan or
failed; what happens inside `apply_plan` or a staging call is the other modules'
subject.

Not modelled: connections refused after the stop, windows and layout of the panels,
and the contents of prompts and answers.

### TriggerRegistry

`heap` is a function from addresses in use to cells, so an address outside its
domain is free memory and addresses are never used twice; that a real heap
hands freed memory out again could only hide what `misuse` shows. `cache` is
`g_triggers`. A cell is `near` when `is_valid_node` would accept its address:
`HeapAlloc` promises nothing, so every allocation may be near or far. A call
that reads a freed cell sets `misuse` and is the last. Two things the code does
nothing against make everything possible, and `astray` marks them: copying a
node that has children (the copy gets the same child array, `AgentAPI.cpp`
884), and freeing a trigger that a folder, or a root that was not found, still
lists (1126-1141). A third is `misled`: the scan for the root (131-146) takes any
node whose first child is valid, so that a call may list what lies below a trigger
or an ECA. `TreeSound` and `Unshared` are about sessions without the three;
`CacheSound` holds with the first two as well.

The user is an actor: he deletes a trigger (`UserDeletes`), or opens another map
(`UserOpens`), which frees every cell and puts new ones in their place. Neither touches
`g_triggers`, whose indices lead to freed cells until the next compile or refresh;
`gone` is the set of these cells. What else he does in the editor's windows frees no
listed trigger and is left out, as is what the editor does with a tree a call has
already damaged.

A heap a session starts with is a `Tree`: what the editor has in memory when a map
is open (the root, folders, triggers, arrays, parameters and nodes at any depth,
each with one owner). `Visits` is `walk_tree`, a recursion over folders with the
early return at a cell that is not valid, and the editor's own traversal in a
compile (`Compiled`); `Among` picks what is listed.

Not modelled: the capture of global variables, and the strings `alloc_str` keeps.

### LspSession

The UI thread is inside one call at a time (`ui`: writing, flushing, joining,
or idle); a write is one step for each piece of a message and blocks while the
pipe is full, a flush until the server has read everything, a join until the
thread ends. The thread reads any number of pieces at once, collects them in
`buffer` and puts whole messages into `queue`. A poll takes them all (`batch`) and
hands them over one by one, and a callback may send in between; `delivered` is what
Lua was handed. `stream` says how the C runtime writes line ends. On a text stream
the header ends in CR CR LF, the client finds no end of a header, and
everything stays in `buffer`. That is the stream of the server as it is built, of
which `InOrder` therefore says nothing; it is about the framing.

The client composes the text of a `call` by pasting its arguments between quotes.
`Quotable` are the uris and `Escapable` the lines for which the outcome is JSON:
`escapeJson` takes care of five characters, is not applied to a uri, and bytes that are no
UTF-8 go through as they are. A change never is JSON: `notifyDocumentChange` opens a brace
for the element of `contentChanges` that it does not close. Lua can hand over texts
of its own (`raw`). The server drops what does not parse, answers a request whose
handler throws with an error, swallows what a notification throws, and ends on
a method that is no string.

A failed start loses the handles `createPipes` opened
when the next start overwrites them (`lost`, `failures`).

Not modelled: a callback that polls again or stops the client, which neither of the
two scripts that use the client does (newer messages would be handed over first; the
client would be deleted under the loop of `pollMessages`); and which of Lua's
callbacks an answer is given to: `lsp.lua` 103 gives every one to the latest.

### JassParser

`mode` is the loop the parser is in, `pos` the token at hand. Every test of the code is a
test of a token's kind or value, so a token is just these two. `text` is
either any text or what `Written` makes of a `program`, which is the reference
the result is compared with.

`Faithful` is about `Plain` programs: no global has an initial value (the parser
skips too much behind one), and no string literal is just `local` or `endfunction`
(the body's loop compares a token's value and not its kind).

Not modelled: the lexer's characters, ranges and columns of what is found, the
analyzer, completion and hover.

### LuaEngine

Three parts that share the collector. `table` and `of` are the weak table of
userdata and the userdata themselves; `doomed` are those the collector took out
of the table and whose `__gc` has not run yet, a state Lua's manual allows at
any allocation. `saved` is the table of sleeping coroutines, `sleeper` what the
game will call again when a sleep is over, `stack` the callbacks inside
callbacks. A coroutine is known by the callback that made it and the number of
its sleeps, so that a callback that starts again from its beginning, or
continues a stranger's, differs from one that goes on. `odd` and `orphans` are
history: the collector ran during a sleep, or the game ended a sleeping thread.
`crashed` is the undefined read at `libs_runtime.cpp` 108 ending badly, or a hook
removed where there is no table to remove it from.

The map's script runs twice: when the map is chosen and the game has no
machine for Jass yet (`vm`), and in the game. In the first run `table_hook` fails and the
hook is put on a list for the next table (`registered`). When the game has made that
table (`OpenGame`), the first run's Lua state is closed before the list is carried
out: each hook takes its registration back, and its `table_unhook` writes the zero it
has in place of the original function into the new table. So no registration of a
script's is ever carried out, and a native hooked in the first run (`early`) has no
function until a hook of the second run replaces the zero, for which
`jass_call_native_function` then calls the original.

Not modelled: a hook function that sleeps; a second game; handle levels 0 and 1 and `sleep = false`, which keep no such
state; arrays, numbers, the memory file system, the debugger, the loader.

## Runs

| Run | Bounds | Shows |
|---|---|---|
| `apply_plan` | 2 triggers, 3 nodes, tidy and untidy, every plan of up to 2 of 10 operations, some with a parameter text that is cut, and those of 3 that end in a failure, 5 option sets, 1 call, a user step or a compile between any two native calls | `RollbackExact`, `ReadBack`, `NoNodeLost`, `ApprovedWritesOnly`, `CallReturns`, types |
| `apply_atomic` | 2 calls, plans of up to 2 operations that can be undone | `ApplyPlan` implements `AtomicApply` (safety and liveness) |
| `apply_inactive_node` | one plan: add, then fail | violation, see findings |
| `pending_careful` | 2 maps, 2 files, 2 edits, 2 globals, 3 calls, 2 saves, one lost cache file, each save with a `variable.lml`, a `war3map.wtg` or only a `war3map.j`; calls and saves take turns | `NoSilentLoss`, `SaveIsComplete`, `ClearedAfterSave`, types |
| `pending_overlap` | 1 file, 1 global, 3 calls, 2 saves, a crash, every interleaving; globals in `war3map.wtg` or an unreadable `variable.lml` | `EntryHasCache`, `SaveEnds` |
| `pending_reread` | 1 file, 2 edits | violation, see findings |
| `server` | 1 client and the UI thread, 2 plans, 3 connections, 1 approval, 1 save by hand, a list of 1, providers and dialogs that may never end | `SaveExclusive`, `ReviewOrder`, `ApprovalsSpent`, `UiReturns`, `WorkerReturns`, types |
| `lsp_session` | 2 documents, one with a uri that is no JSON text, lines with and without such a text, 11 messages, pipes of 2 pieces, 2 starts, 2 sends, 1 crash of the server, both streams | `InOrder`, `ThreadMatchesFlag`, `HandlesBalance`, `DocsAgree`, `CallsReturn`, types |
| `registry` | two trees with a folder, 2 triggers, nested actions and a comment; 5 calls or steps of the user; room for 34 cells | `TreeSound`, `Unshared`, `CacheSound`, `RefreshAgrees`, types |
| `jass_parser` | every text of up to 4 of 13 tokens, alone and behind the beginning of a function, up to 3 of 17 in a body and an expression; every program of up to 2 declarations | `Faithful`, `LocalsOwned`, `Progress`, `Terminates`, types |
| `lua_engine` | 1 handle, 3 userdata, 2 functions, 2 threads, 1 native hooked before the game and in it, 3 callbacks of 2 sleeps, nested twice, 2 cycles of the collector | `HandlesSound`, `ResumesOwn`, `HookSound`, types |
| `lua_sleep` | the same | violation, see findings |

**Why the bounds are enough to meet the hard cases.** Rollback needs an
operation that shifts ordinals, one that uses them and one that fails: three.
The trees hold a node of the same type before and after the target, the comment
node that templates are cloned from, and (rough tree) an inactive node, an empty
parameter, a reference and a null. For the sidecars, two stores must overlap
(two actors, one entry each), a second save must find what the first left, and
another map's leftovers must survive. For the server, three connections let the
UI thread, a client and the same client's retry be in the queue together; a
review list of one is full at once. A pipe of two pieces holds less than a
message, so that both pipes fill; two starts show what the first left behind.
Five calls of the registry are enough to add, remove what was added, create,
refresh and delete, or to list, let the user delete or change the map, and list again. Four tokens from the beginning of a loop reach every exit of
every loop of the parser with one token more. Three userdata are one in use, one awaiting its
`__gc` and a new one; three callbacks are one that sleeps, one inside it
and one that finds what the first left. The proofs below have no such bounds.

`lua_engine` uses symmetry in userdata, functions and threads: its properties
are invariants, and no definition tells two of a kind apart.

The counters `MaxCalls`, `MaxGrants`, `MaxUiSteps`, `MaxOps`, `MaxSaves`,
`MaxLosses`, `MaxCrashes`, `MaxStarts`, `MaxSends`, `MaxActs`, `MaxSleeps`,
`MaxDepth`, `MaxCollections` bound the environment only and are guards of its
actions; `MaxCells` is the room of the registry's heap. When they are used up
the model stops, which is why every run says `CHECK_DEADLOCK FALSE` (a parser
stops when it is done); that the system itself does not get stuck is the
subject of `CallReturns`, `SaveEnds`, `UiReturns`, `WorkerReturns`, `CallsReturn` and
`Terminates`.

**Preconditions.** `RollbackExact`, `ReadBack` and `NoNodeLost` are about clean
calls: no step of the UI thread since the call began, every text in the trees
readable back as it is stored, no removal, no parameters on an added node and,
when the plan adds a node, no inactive node. Each of these conditions is needed:
the findings and remarks below name what fails without it. `pending_careful`
lets a client touch a staged object file again only after a save (`Careful`),
because of the finding `pending_reread`, and lets calls and saves take turns,
because a write that overlaps with a save by hand can be lost. The registry's
properties exclude `astray` and `misled` sessions as said above, `RefreshAgrees` a refresh
that does not find the root, `TreeSound` the use of an index whose trigger the user
removed (`gone`), `WorkerReturns` a provider or a dialog that never ends (`Held`), `Faithful` globals with initial
values (`Plain`), `DocsAgree` the documents the server could not be told about (`doubt`),
`ResumesOwn` callbacks the collector or the game interfered with (`odd`),
`HandlesSound` (for its second half) handles asked for before a `__gc` (`late`).

## Fairness

* `ApplyPlan`: weak fairness on the loop inside a call (a thread in a loop of
  native calls goes on) and on the compile's captures (a compile runs through).
  None on calls, approvals, edits.
* `PendingSave`: weak fairness on the save's own steps, which run in one event
  handler. None on the worker: `SaveEnds` holds even if it stops.
* `AgentServer`: weak fairness on the worker's own step (`Serve`) and on the UI
  thread's (`UiLoop`: handle a sent message, finish a save, give up on an answer).
  None on clients: they may stay silent for ever; none on a provider's program
  (`ProviderEnds`) and on the user before a dialog (`UserAnswers`), because nothing in
  the code limits either. `WorkerReturns` is conditional instead: it holds of
  every run in which the worker is again and again not held by one of these. `UiGiveUp` is fair because
  `recv_all` counts 1200 rounds of a tenth of a second; `ReadTimeout` because
  `read_request` counts 25. `Saved` is fair because `SaveEnds` holds, and gives way to a dialog.
* `LspSession`: weak fairness on the UI thread inside a call (`UiRun`), on the
  reading thread and on the server, each of which runs whenever its blocking
  call can return. None on Lua's calls, on polling, on crashes: senders get through
  although nobody polls.
* `JassParser`: weak fairness on its only step; a program runs.
* `TriggerRegistry` and `LuaEngine`: none, every property is about safety.

## What is proved

Checked by TLAPS, for every value of the constants the named assumptions allow:

| Theorem | Statement |
|---|---|
| `ApplyPlanProofs!TypeCorrect` | `Spec => []TypeOK` |
| `ApplyPlanProofs!RollbackCorrect` | `Spec => []RollbackExact` |
| `ApplyPlanProofs!ReadBackCorrect` | `Spec => []ReadBack` |
| `ApplyPlanProofs!NodesKept` | `Spec => []NoNodeLost` |
| `ApplyPlanProofs!ApprovalNeeded` | `Spec => ApprovedWritesOnly` |
| `ApplyPlanProofs!CallsAtomic` | `Calm` implies `Spec => Atomic!Init /\ [][Atomic!Next]_(Atomic!vars)` |
| `PendingSaveProofs!TypeCorrect` | `Spec => []TypeOK` |
| `PendingSaveProofs!EntriesCached` | `Spec => []EntryHasCache` |
| `PendingSaveProofs!NothingLost` | `Turns` implies `Spec => []NoSilentLoss` |
| `PendingSaveProofs!SavesAreComplete` | `Turns` and `Complete` imply `Spec => SaveIsComplete` |
| `PendingSaveProofs!SavesClear` | `~Overlap` and `Full` imply `Spec => ClearedAfterSave` |
| `AgentServerProofs!TypeCorrect` | `Spec => []TypeOK` |
| `AgentServerProofs!SaveExcludesWorker` | `Spec => []SaveExclusive` |
| `AgentServerProofs!ApprovalsBalance` | `Spec => []ApprovalsSpent` |
| `AgentServerProofs!ReviewListOrdered` | `Spec => []ReviewOrder` |
| `TriggerRegistryProofs!TypesHold` | `Spec => []TypeOK` |
| `TriggerRegistryProofs!TreeStaysSound` | `Spec => []TreeSound` |
| `TriggerRegistryProofs!NothingShared` | `Spec => []Unshared` |
| `TriggerRegistryProofs!CacheStaysSound` | `Spec => []CacheSound` |
| `TriggerRegistryProofs!RefreshAgreesAlways` | `Spec => RefreshAgrees` |
| `LspSessionProofs!TypesHold` | `Spec => []TypeOK` |
| `LspSessionProofs!DocumentsAgree` | `Spec => []DocsAgree` |
| `LspSessionProofs!AnswersInOrder` | `Spec => []InOrder` |
| `LspSessionProofs!ThreadAccounted` | `Spec => []ThreadMatchesFlag` |
| `LspSessionProofs!HandlesAccounted` | `Spec => []HandlesBalance` |
| `JassParserProofs!TypeCorrect` | `Spec => []TypeOK` |
| `JassParserProofs!AlwaysProgress` | `Spec => Progress` |
| `JassParserProofs!LocalsHaveFunctions` | `Spec => []LocalsOwned` |
| `JassParserProofs!ParsesFaithfully` | `Spec => []Faithful` |
| `LuaEngineProofs!TypeCorrect` | `Spec => []TypeOK` |
| `LuaEngineProofs!HandlesBalanced` | `Spec => []HandlesSound` |
| `LuaEngineProofs!CallbacksContinue` | `Spec => []ResumesOwn` |
| `LuaEngineProofs!HooksNeverDangle` | `Spec => []HookSound` |

The constants have named assumptions (`TextAssumption`, `StoredAssumption`, `PlanAssumption`,
`PendingAssumption`, `ServerAssumption`, `RegistryAssumption`, `LspAssumption`,
`ParserAssumption`, `ProgramAssumption`, `EngineAssumption`): sets of the
right types, bounds that are numbers, a buffer (`StoredAssumption`) that keeps what it
kept once and empties no text, marks (`Nil`, `Missing`, `Torn`) that differ from
the values they stand beside, for the registry that each of `Heaps` is a
`Tree`, and for the parser that each `Program` is a list of `Declaration`s, which says
what a correct program is: names that are no words of the language, expressions
and statements of any tokens but those that declare a local or end the function.
TLC evaluates them in every run.

**Rollback.** `RollbackExact` speaks of the end of a call. The inductive
invariant `RunInv` says what holds on the way: the history has one tree more
than the rollback list has entries; reverting entry *j* on tree *j* + 1 gives
tree *j* and nothing else (`HistUndone`); the trees at hand are the last of the
history, except inside an operation, where they are one write or one added node
away (`NodeAdded`). It needs `TypeInv` (`TypeOK` and which operation is at hand
where) and, from `EcaTreeProofs`, the two facts about the data: what a set
operation writes is read back as it is stored and undone by the value read before it, and
removing at the ordinal counted before an addition removes the added node when
all nodes are active. That last condition is where the two ordinals agree, and why
the first finding below is a finding. `NodesKept` adds to it that every tree of the history
keeps the nodes of the one before (`Keeps`), and `ApprovalNeeded` that the
worker is past the checks at the head of the call only with an approval.

**All or nothing.** `CallsAtomic` is the safety half of the refinement: seen between
calls, `ApplyPlan` takes the steps of `AtomicApply`. Its hypothesis `Calm` is what the
mapping needs. The UI thread does nothing but grant (a compile or an edit between
two native calls is seen by the client), there is one order of the captured triggers,
and whatever a client can get past the checks at the head of the call is clean, from
the first trees and, because clean operations keep trees readable, from those that
earlier calls leave. TLC evaluates `Calm` on the instance of `apply_atomic`
(`CalmInstance`). Two things have to be shown. *Addresses do not matter*: `Effect`
works on trees without node addresses, so each native call must do to a record
without them what it does to the record (`PlainReplace`, `PlainLookups`, `PlainAdd`,
and the relation `Same` between the two sets of outcomes). *The promise is exact*:
`Finals`, a recursive function, is the last of the trees the history went through
when every operation had one outcome (`FinalsOne`), and empty as soon as one of them had
none (`FinalsNone`), both by the set form of induction below. `CalmInv` joins the two to
`RunInv`: each finished operation led from one tree of the history to the next and to no
other (`Path`), an unfinished addition has cloned what `Effect` clones (`Cloned`), and a
call walks back only when its plan has no end (`Hopeless`). The last `Verify` is then
`Commit` and the last `Revert`, by `RollbackExact`, `Abort`.

**Sidecars.** `EntryHasCache` is not inductive: a store that is half done hides an entry
that the next step shows. `CacheInv` extends it to the copies both actors hold of a
sidecar: whatever entry is in a copy, in a text being written or in the file names
a cache file that is there, and only a lost file breaks it.

`NothingLost` and `SavesAreComplete` need hypotheses, named in the module. `Turns`:
calls and saves take turns (what `SaveExclusive` shows of the saves a client asks
for), clients leave a staged object file alone until it is saved (or finding 2
applies), the editor does not die in the middle of a store (which empties a
sidecar), and a `variable.lml` declares the globals clients set. `Complete` adds
that the layouts take every such global. `SavesClear` needs less: no overlap and layouts
that take every global (`Full`); crashes are allowed. It says that no object file stays
staged, and that a global stays only where there is no `variable.lml`, with the value
that was packed. The invariant
`LossInv` follows a write from its call to the archive. In the middle of a store or
of a clearing the file itself says nothing, so `StagedInv` speaks of the table as
it will be when the store is done (`TableOf`) and of what will then have been
promised (`Promised`, `Vowed`). `EditInv` says that the worker edits what it read
from the archive, and `PackInv` that during a save each promised write is in the
temporary directory, or staged and still to be copied. `ClearInv` says that a sidecar not in the
list of those to be cleared has nothing of the open map.

**Server.** `SaveExclusive` is strengthened by "a command is on its way or being
handled, not both" (`SaveInv`), without which a second save could outlast the
call the first belongs to. Types need `SaveInv` too: only the save's end takes
the worker from `saving`. `ApprovalsSpent` and `ReviewOrder` are inductive given
the types; two lemmas about the newest members of a sequence (`NewestAppend`,
`NewestNewest`) carry the review list.

**Trigger registry.** A tree whose nodes have parents, arrays and parameters
of their own is not kept by any one of these facts. `Inv` has six parts: the cells
have their shape and nothing lies beyond `next` (`Cells`); a pointer leads to the
right kind of cell as long as that cell is there (`Linked`); parameters are never shared
(`OwnParams`); folders and triggers keep a list of their own (`Whole`, `OwnKids`);
and the folders are a tree below the root (`Folded`). Most of it holds even after a
call has gone astray, which is why `CacheSound`, needed by every call that
indexes the cache, does too. The user's steps keep the same parts: a deletion takes a
trigger and all below it from the tree and from nowhere else, and a new map is a
`Tree` again, at addresses not used before (`EditedInv`, `UserDeletesInv`, `UserOpensInv`). Each call is taken apart into cells added, a
list linked, cells freed (`Added`, `Relinked`, `Freed`), and each of these keeps the
invariant for a reason of its own. `RefreshAgreesAlways` compares two
traversals, `walk_tree` and the editor's: while all cells are near they go into
the same nodes, step by step, and one lists the nodes with an ECA in front, the
other the triggers, which are the same but for empty ones. No node is visited
twice because each has one parent (`VisitsOnce`).

**Language server.** `ThreadInv` says what holds inside calls: between the
clearing of the flag and the join there is a thread to wait for, and only then
do flag and thread differ. `HandleInv` counts handles through a stop.
`DocumentsAgree` and `AnswersInOrder` follow the text through the pipes. `InInv`:
of what was sent only the last message can be under way, what the server has read
of it, what is in its pipe and what is still to be written make up its frame,
and the server holds the documents of a session with the others; `DocsInv` adds
that these are the editor's, but for the documents in doubt. `OutInv`: what the server has buffered, what is in
the pipe and what the thread has collected spell (`Spells`) the answers between those
Lua was handed, or a poll has taken, and the rest of the session, whole while the server is up and cut
off where it ended. Wherever a read cuts the text, only a whole frame leaves
`pending`, because a frame's size is in its first piece.

**Parser.** A measure (`pos`, then the rank of the loop) advances with every step of
`Next`, which is what bounds the number of turns; locals are owned because a
body is entered only behind a function that was recorded (`Owned`).

`ParsesFaithfully` holds for programs of any length. `FlattenSeq` puts the texts of the
declarations behind one another, and within a declaration those of its
variables, parameters or statements; `Upto` is the first *k* of such a list, so its
length is the place where the next begins. `TypeWritten`, `GlobalsWritten`,
`ParamsWritten`, `StatementWritten` and `FunctionWritten` say which token is at which
place.
`Faithful` speaks of the end of the parse. The invariant `ReadInv` speaks of all
of it: wherever the parser can be (`Reading`: before a declaration, behind some of
the variables of a block, at four places of a signature, behind some
statements of a body) it has collected exactly what is declared up to there, and
reported nothing. In a body it need not be at a statement's beginning: an ordinary
statement is read over token by token and an initial value by `skipExpression`,
which may stop early and hand the rest to the body's loop. `InBody` therefore allows
every place between the end of a statement's beginning (`Begun`) and the end of the
statement. There is one lemma for each of these places (`TopTypes` to `BodyBegins`):
from what the parser sees there, one action is possible, and it leads to the next
place (`NextReads`).

**Lua engine.** The three parts have an invariant each. `HandleInv`: the
userdata in the table are alive and stand for their handle, and for a handle that is
not late every other one of it awaits its `__gc`. `CallbackInv`: a saved coroutine waits for a
sleeper of its function and thread, or was left by one that the game ended; a
sleeper nobody interfered with finds its own; the threads of the callbacks that
run are awake and differ. `HookInv` (`HookPlaces`): a stub is made from the original, or
from the zero the first run left; before the game the table is untouched, and what is
registered then has its stub, which closing the state takes back.

**Recursive definitions.** `Finals`, `Session` and `View` (what the server makes of what was
sent, what the editor holds), `Visits`, `Among`, `Under` and the library's `FlattenSeq` (`FlattenUpto`) are recursive
functions.
The library's induction theorems take an operator as a parameter, which the provers
cannot instantiate. The proofs that need induction use its set form instead: the
set of the numbers or sequences for which a fact holds has the first and, with
each, the next, so it has all (`NatInd`, `Numbers`, `SeqInd`, from the least element that
`WellFoundedInduction` gives to every set that is not empty). That such a function exists and
satisfies its equation is proved the same way before it is used.

**Only model-checked.** Liveness under fairness and `ENABLED` are out of the
prover's reach, so `CallReturns`, `SaveEnds`, `UiReturns`, `WorkerReturns`,
`CallsReturn`, `Terminates` and the fairness half of `AtomicSpec` stay
with TLC (`CallsAtomic` proves the other half). Every other
property of a passing run is a theorem, some under the hypotheses named in the table.

## Findings

1. `apply_inactive_node`: rollback of `add_eca` removes at an ordinal over active
   nodes with a function that counts all nodes. With an inactive node in front,
   it removes a node of the user and keeps the added one.
2. `pending_reread`: reading or writing an object file of the open map first
   extracts the archive's file over the cache file, so the edit staged there is gone.
3. `lua_sleep`: the coroutine of a sleeping callback is held by a weak table and
   nothing else. When the collector runs during the sleep, the callback begins
   again at its beginning.

Met while modelling, without a run of their own:

* `YDAgentServerWorker.lua` 2424: an addition that fails while its parameters
  are set is not in the rollback list, and its node stays.
* `ydwe_on_save.lua` 521-524: `apply_pending_global_overrides` returns nil and an
  error, which `saveW3x` takes into a variable that is not the one it tests, so
  an unreadable `variable.lml` lets the save succeed without the staged globals.
* `ydwe_on_save.lua` 556: a save clears every entry of the map, also one the
  worker registered after the staged files were copied.
* `ydwe_on_save.lua` 464, 475: globals applied through `war3map.wtg`, the file of
  ordinary maps, or `war3map.j` stay staged and are applied again by every later save,
  over what the user chose since. `src/docs/refactor-status.md` 75-76 says that all
  pending sidecars are cleared after a successful save; `ClearedAfterSave` states
  what the code keeps of it.
* `AgentAPI.cpp` 841: a parameter text is cut to 259 bytes and reported as written.
* `YDAgentAI.lua` 213: the one worker waits for a provider's program without a
  timeout, and serves nobody and sees no stop token meanwhile. `AgentAPI.cpp` 738: an empty parameter is rolled back
  to the text `(empty)`. `YDAgentServerWorker.lua` 672: a crash between the
  truncation and the writing of a sidecar empties it.
* `AgentAPI.cpp` 884 and 1126-1141: the two ways to go astray, above. 616: the
  second search for the root starts from a cache that was just emptied. 131-146: the
  scan for the root takes what is no folder. An index whose trigger the user has
  deleted passes the bounds test and is used, as at 639 or 755.
* `lsp_client.cpp` 202: a stop refuses its own shutdown message and then waits
  for a thread that waits for a server nobody told to end. `server.cpp` 667: the
  header is written through a text stream. `lsp_client.cpp` 293-301: the text of a
  change lacks a closing brace, so that the server discards every change the client
  composes and keeps the old text; 269-283 escapes too little. `server.cpp` 606: a partial change
  replaces the document. `lsp.lua` 103: one callback for every answer.
* `jass_parser.cpp` 214, 424: the initial value of a global is skipped up to a
  statement's word, and takes the declarations between with it.
* `class_handle.cpp` 97: an old userdata's `__gc` takes a newer one out of the
  table. `libs_runtime.cpp` 108: `lua_next` reads a coroutine as a table.
  97: a new thread at an old address resumes a stranger's coroutine.
  `libs_hook.cpp` 52: a successful removal is taken for a failure, so that a
  second hook of the same native does nothing. `hook.cpp` 287, `lua_loader.cpp` 132: a hook
  registered before the game is taken back before it is carried out, and leaves
  the native without a function.
* `ev.lua` 62-69: after an emit only one of several removed handlers is taken
  out of the list; a handler that fails leaves `lock` above zero for good.

## Not modelled

`PROJECT.json` gives every component with its status. What is left out, and why:

* **Pure transformations**: the template compilers, dumps, object tables, map
  packing, compiler scripts, the analyzer, completion and hover. They compute a
  result from an input and keep no state between calls; a model would restate
  their tables.
* **Input and output in a straight line**: prompts and providers, the file
  exchange on compile, start-up, menus, test runs.
* **The event system**: its hard case, handlers removed during an emit, arises
  once in the repository, for a single handler that removes itself, which the code handles.
* **Memory patching**: hooks of the editor and the game, virtual archives, the
  launcher. What could go wrong there is a matter of addresses and calling conventions.
* **Torn reads of `g_triggers`**: the worker indexes a `std::vector` that a
  compile clears; the model makes each native call atomic.
* **Names of cache files** (`YDAgentServerWorker.lua` 2048): made of the map's
  path without its drive and with each special character as one underscore, so two
  maps may share one; the model has a single map.
* **Vendored code and data** under `src/OpenSource`, `src/ThirdParty` and the
  headers beside the plug-ins, about nine tenths of the C and C++ lines. The
  agent runtime itself is Lua for the most part.

## How to run

`tlc -config ApplyPlan.cfg MCApplyPlan` and so on: the `runs` of
`PROJECT.json` pair modules and configurations. `tlapm AgentServerProofs.tla` checks
a module of proofs. The longest runs take two to three minutes with two workers: `registry`,
`lsp_session` and `apply_plan`.
