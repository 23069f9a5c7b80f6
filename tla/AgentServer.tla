----------------------------- MODULE AgentServer -----------------------------
(***************************************************************************)
(* The agent server inside the editor: one worker thread that accepts      *)
(* connections on the loopback, one at a time, each carrying one JSON-RPC  *)
(* request (Component/plugin/YDAgentServerWorker.lua), the clients that    *)
(* give up after a timeout (AI/ydagent_client.py), and the editor's UI     *)
(* thread (YDAgentUI.lua), which is a client of the worker from its menus  *)
(* and panels.  The two threads can wait for each other: the UI thread for *)
(* an answer, the worker in SendMessageW for the UI thread to save the     *)
(* map.  They share the channels for approvals, review plans and the stop  *)
(* token.  Two things can hold the worker for as long as they like: the    *)
(* command-line program it reads a plan from, and a dialog a save opens.   *)
(*                                                                         *)
(* The worker starts once, when the editor loads its plug-ins, and the     *)
(* channels are empty then.                                                *)
(***************************************************************************)
EXTENDS Naturals, Sequences

CONSTANTS
    Client, Ui,     \* the clients outside; the UI thread as a client
    Plan,           \* the plans that are applied and reviewed
    Cap,            \* review plans the UI keeps (20)
    Nil,
    MaxCalls, MaxGrants, MaxSaves   \* bounds: connections, approvals, saves by hand

Actor == Client \cup {Ui}
Kind == {"status", "queue_review", "generate_plan", "apply_plan", "save_map"}
Part == {"part", "whole"}   \* of the request that has arrived; a part may be empty
Connection == [id : 1 .. MaxCalls, from : Actor, kind : Kind, plan : Plan, text : Part]

ASSUME ServerAssumption ==
    /\ Ui \notin Client /\ Nil \notin Connection /\ Nil \notin Plan
    /\ Cap \in Nat \ {0}
    /\ MaxCalls \in Nat /\ MaxGrants \in Nat /\ MaxSaves \in Nat

VARIABLES
    pc, cur,        \* the worker: where it is, the connection it serves
    backlog,        \* connections it has not accepted yet
    reviews, approvals, stop,   \* the channels
    waiting,        \* the connection each actor waits on, 0: none
    ui, message,    \* the UI thread; WM_COMMAND sent to it and not handled
    items, shown,   \* its review plans; the one on display
    published,      \* history: plans put up for review
    attempts,       \* history: the approved calls; TRUE: it applied its plan
    calls, grants, saves    \* the bounds' counters

worker == <<pc, cur, backlog>>
channels == <<reviews, approvals, stop>>
panel == <<items, shown>>
counters == <<calls, grants, saves>>
vars == <<worker, channels, waiting, ui, message, panel, published, attempts, counters>>

Init ==
    /\ pc = "loop" /\ cur = Nil /\ backlog = <<>>
    /\ reviews = <<>> /\ approvals = 0 /\ stop = FALSE
    /\ waiting = [a \in Actor |-> 0]
    /\ ui = "free" /\ message = FALSE /\ items = <<>> /\ shown = Nil
    /\ published = <<>> /\ attempts = <<>>
    /\ calls = 0 /\ grants = 0 /\ saves = 0

-----------------------------------------------------------------------------
(***************************************************************************)
(* Clients and their connections                                           *)
(***************************************************************************)

Connect(a, kind, plan, text) ==
    /\ pc # "stopped" /\ calls < MaxCalls
    /\ calls' = calls + 1
    /\ backlog' = Append(backlog, [id |-> calls + 1, from |-> a, kind |-> kind,
                                   plan |-> plan, text |-> text])
    /\ waiting' = [waiting EXCEPT ![a] = calls + 1]

NoPlan == CHOOSE plan \in Plan : TRUE   \* in a request whose plan does not matter

\* A client outside; its request may arrive late or never.
ClientCall(a, kind, plan, text) ==
    /\ waiting[a] = 0
    /\ kind \in {"status", "apply_plan", "save_map"} => plan = NoPlan
    /\ Connect(a, kind, plan, text)
    /\ UNCHANGED <<pc, cur, channels, ui, message, panel, published, attempts, grants, saves>>

\* The rest of a request arrives.
Arrive(a) ==
    /\ waiting[a] # 0
    /\ \/ /\ cur # Nil /\ cur.id = waiting[a] /\ pc = "read" /\ cur.text # "whole"
          /\ cur' = [cur EXCEPT !.text = "whole"] /\ UNCHANGED backlog
       \/ \E i \in DOMAIN backlog :
             /\ backlog[i].id = waiting[a] /\ backlog[i].text # "whole"
             /\ backlog' = [backlog EXCEPT ![i].text = "whole"] /\ UNCHANGED cur
    /\ UNCHANGED <<pc, channels, waiting, ui, message, panel, published, attempts, counters>>

\* A timeout of the client.  What it has sent stays in the socket.
GiveUp(a) ==
    /\ waiting[a] # 0 /\ waiting' = [waiting EXCEPT ![a] = 0]
    /\ UNCHANGED <<worker, channels, ui, message, panel, published, attempts, counters>>

-----------------------------------------------------------------------------
(***************************************************************************)
(* The worker                                                              *)
(***************************************************************************)

Closed(a, id) == IF waiting[a] = id THEN [waiting EXCEPT ![a] = 0] ELSE waiting

\* The stop channel is looked at between two connections.
Accept ==
    /\ pc = "loop" /\ ~stop /\ backlog # <<>>
    /\ cur' = Head(backlog) /\ backlog' = Tail(backlog)
    /\ pc' = "read"
    /\ UNCHANGED <<channels, waiting, ui, message, panel, published, attempts, counters>>

Stop ==
    /\ pc = "loop" /\ stop
    /\ pc' = "stopped" /\ stop' = FALSE /\ backlog' = <<>>
    /\ waiting' = [a \in Actor |-> 0]
    /\ ui' = IF ui = "waiting" THEN "free" ELSE ui
    /\ UNCHANGED <<cur, reviews, approvals, message, panel, published, attempts, counters>>

\* read_request ends when the text parses, when nothing came for 2.5 seconds, or
\* when the client has closed.
ReadWhole ==
    /\ pc = "read" /\ cur.text = "whole" /\ pc' = "run"
    /\ UNCHANGED <<cur, backlog, channels, waiting, ui, message, panel, published, attempts,
                   counters>>

\* A fault: a silent client is waited for as long as it keeps the connection.
ReadForever ==
    /\ pc = "read" /\ cur.text # "whole" /\ waiting[cur.from] # cur.id /\ pc' = "reply"
    /\ UNCHANGED <<cur, backlog, channels, waiting, ui, message, panel, published, attempts,
                   counters>>

\* A text that is not a whole request gets a parse error, no text no answer.
ReadTimeout ==
    /\ pc = "read" /\ cur.text # "whole" /\ pc' = "reply"
    /\ UNCHANGED <<cur, backlog, channels, waiting, ui, message, panel, published, attempts,
                   counters>>

\* publish_review_plan
Publish ==
    /\ reviews' = Append(reviews, cur.plan) /\ published' = Append(published, cur.plan)
    /\ UNCHANGED <<approvals, attempts>>

Unpublished == UNCHANGED <<reviews, published, approvals, attempts>>

\* An operation may fail; the ones before it are undone then.
Attempted ==
    \E done \in BOOLEAN : attempts' = Append(attempts, done)

\* A fault: the approval stays in the channel.
ApplyAgain ==
    \/ approvals > 0 /\ Attempted /\ UNCHANGED <<approvals, reviews, published>>
    \/ Unpublished

\* apply_plan: a call that is refused, or only a preview, ends before it asks for
\* an approval (consume_apply_approval), one that finds none ends there.
ApplyPlan ==
    \/ /\ approvals > 0 /\ approvals' = approvals - 1
       /\ Attempted
       /\ UNCHANGED <<reviews, published>>
    \/ Unpublished

\* A fault: the command is posted instead of sent.
SavePost ==
    /\ Unpublished
    /\ \/ pc' = "reply" /\ message' = TRUE
       \/ pc' = "reply" /\ UNCHANGED message

\* editor.save_map sends its command and waits.  It returns at once when the map
\* is source-backed or there is no editor window; when no menu has the command it
\* types the keys for it, and the save they start is like one by hand.
SaveMap ==
    /\ Unpublished
    /\ \/ pc' = "saving" /\ message' = TRUE
       \/ pc' = "reply" /\ UNCHANGED message

\* Calling the provider is a step of its own, unless none can be called.
Generate ==
    /\ Unpublished /\ UNCHANGED message
    /\ pc' \in {"provider", "reply"}

Run ==
    /\ pc = "run"
    /\ CASE cur.kind = "queue_review" -> Publish /\ pc' = "reply" /\ UNCHANGED message
         [] cur.kind = "generate_plan" -> Generate
         [] cur.kind = "apply_plan" -> ApplyPlan /\ pc' = "reply" /\ UNCHANGED message
         [] cur.kind = "save_map" -> SaveMap
         [] OTHER -> Unpublished /\ pc' = "reply" /\ UNCHANGED message
    /\ UNCHANGED <<cur, backlog, stop, waiting, ui, panel, counters>>

\* The provider's program ends or closes its output: run_cli_agent reads it to
\* the end and waits for the exit, without a timeout.
ProviderEnds ==
    /\ pc = "provider" /\ pc' = "reply"
    /\ Publish \/ Unpublished   \* it may fail, or the caller may want no review
    /\ UNCHANGED <<cur, backlog, stop, waiting, ui, message, panel, counters>>

\* A fault: the connection stays the current one.
ReplyOpen ==
    /\ pc = "reply" /\ pc' = "loop"
    /\ waiting' = Closed(cur.from, cur.id)
    /\ ui' = IF cur.from = Ui /\ waiting[Ui] = cur.id THEN "free" ELSE ui
    /\ UNCHANGED <<cur, backlog, channels, message, panel, published, attempts, counters>>

\* The answer reaches whoever still waits; the connection is closed.
Reply ==
    /\ pc = "reply" /\ pc' = "loop" /\ cur' = Nil
    /\ waiting' = Closed(cur.from, cur.id)
    /\ ui' = IF cur.from = Ui /\ waiting[Ui] = cur.id THEN "free" ELSE ui
    /\ UNCHANGED <<backlog, channels, message, panel, published, attempts, counters>>

-----------------------------------------------------------------------------
(***************************************************************************)
(* The UI thread.  A message sent to it is handled before the user's next  *)
(* input, but not while it waits for an answer or saves.                   *)
(***************************************************************************)

Input == ui = "free" /\ ~message

UiCall(kind, plan) == Connect(Ui, kind, plan, "whole") /\ ui' = "waiting"

\* A button of the generate panel.
ClickGenerate(plan) ==
    /\ Input /\ UiCall("generate_plan", plan)
    /\ UNCHANGED <<pc, cur, channels, message, panel, published, attempts, grants, saves>>

\* The last n members.
Newest(list, n) == SubSeq(list, Len(list) - n + 1, Len(list))

\* A fault: the newest plans are dropped.
DrainedOld == LET all == items \o reviews
              IN  IF Len(all) > Cap THEN SubSeq(all, 1, Cap) ELSE all

\* drain_review_queue keeps the newest plans.
Drained == LET all == items \o reviews
           IN  IF Len(all) > Cap THEN Newest(all, Cap) ELSE all

\* The review panel drains the channel, then asks the worker for a dry run of
\* the newest plan.
Refresh ==
    /\ Input
    /\ items' = Drained /\ reviews' = <<>>
    /\ IF Drained = <<>>
       THEN shown' = Nil /\ UNCHANGED <<ui, waiting, calls, backlog>>
       ELSE /\ shown' = Drained[Len(Drained)]
            /\ UiCall("status", shown')
    /\ UNCHANGED <<pc, cur, approvals, stop, message, published, attempts, grants, saves>>

\* A fault: the wait ends only when the worker is done.
UiGiveUpLate ==
    /\ ui = "waiting" /\ pc = "loop" /\ ui' = "free" /\ waiting' = [waiting EXCEPT ![Ui] = 0]
    /\ UNCHANGED <<worker, channels, message, panel, published, attempts, counters>>

\* recv_all gives up after two minutes without data.
UiGiveUp ==
    /\ ui = "waiting" /\ ui' = "free" /\ waiting' = [waiting EXCEPT ![Ui] = 0]
    /\ UNCHANGED <<worker, channels, message, panel, published, attempts, counters>>

\* push_apply_approval
Approve ==
    /\ Input /\ grants < MaxGrants
    /\ approvals' = approvals + 1 /\ grants' = grants + 1
    /\ UNCHANGED <<worker, reviews, stop, waiting, ui, message, panel, published, attempts,
                   calls, saves>>

\* A save by hand, or by the keys editor.save_map has typed.
SaveByHand ==
    /\ Input /\ saves < MaxSaves
    /\ ui' = "usersave" /\ saves' = saves + 1
    /\ UNCHANGED <<worker, channels, waiting, message, panel, published, attempts, calls, grants>>

HandleMessage ==
    /\ ui = "free" /\ message
    /\ ui' = "saving" /\ message' = FALSE
    /\ UNCHANGED <<worker, channels, waiting, panel, published, attempts, counters>>

\* The save asks the user something, and goes on when he has answered.
SaveAsks ==
    /\ \/ ui = "saving" /\ ui' = "asking"
       \/ ui = "usersave" /\ ui' = "userasking"
    /\ UNCHANGED <<worker, channels, waiting, message, panel, published, attempts, counters>>

UserAnswers ==
    /\ ui \in {"asking", "userasking"} /\ ui' = "free"
    /\ pc' = IF ui = "asking" THEN "reply" ELSE pc
    /\ UNCHANGED <<cur, backlog, channels, waiting, message, panel, published, attempts, counters>>

\* The worker's SendMessageW returns.
Saved ==
    /\ ui \in {"saving", "usersave"} /\ ui' = "free"
    /\ pc' = IF ui = "saving" THEN "reply" ELSE pc
    /\ UNCHANGED <<cur, backlog, channels, waiting, message, panel, published, attempts, counters>>

\* A window that is gone does not keep its sender waiting.
Undelivered ==
    /\ ui = "gone" /\ message
    /\ message' = FALSE /\ pc' = "reply"
    /\ UNCHANGED <<cur, backlog, channels, waiting, ui, panel, published, attempts, counters>>

\* The editor closes: loader.unload leaves the stop token.
Exit ==
    /\ Input /\ ui' = "gone" /\ stop' = TRUE
    /\ UNCHANGED <<worker, reviews, approvals, waiting, message, panel, published, attempts,
                   counters>>

-----------------------------------------------------------------------------
Serve == Accept \/ Stop \/ ReadWhole \/ ReadTimeout \/ Run \/ Reply

Outside ==
    \E a \in Client :
       \/ \E kind \in Kind, plan \in Plan, text \in Part : ClientCall(a, kind, plan, text)
       \/ Arrive(a) \/ GiveUp(a)

UiLoop == HandleMessage \/ Undelivered \/ Saved \/ UiGiveUp
User ==
    \/ Refresh \/ Approve \/ SaveByHand \/ SaveAsks \/ UserAnswers \/ Exit
    \/ \E plan \in Plan : ClickGenerate(plan)

Next == Serve \/ ProviderEnds \/ Outside \/ UiLoop \/ User

\* The worker and the UI thread run; nobody has to call, click or answer in time,
\* neither a client, nor a provider, nor the user before a dialog.
Spec == Init /\ [][Next]_vars /\ WF_vars(Serve) /\ WF_vars(UiLoop)

-----------------------------------------------------------------------------
(***************************************************************************)
(* Properties                                                              *)
(***************************************************************************)

\* Every variable keeps its type; the worker serves a connection exactly when it
\* is inside one, and the UI thread waits exactly when its call is open.
TypeOK ==
    /\ pc \in {"loop", "read", "run", "provider", "saving", "reply", "stopped"}
    /\ cur \in Connection \cup {Nil} /\ backlog \in Seq(Connection)
    /\ cur = Nil <=> pc \in {"loop", "stopped"}
    /\ reviews \in Seq(Plan) /\ items \in Seq(Plan) /\ published \in Seq(Plan)
    /\ attempts \in Seq(BOOLEAN) /\ shown \in Plan \cup {Nil}
    /\ approvals \in Nat /\ stop \in BOOLEAN /\ message \in BOOLEAN
    /\ waiting \in [Actor -> Nat]
    /\ ui \in {"free", "waiting", "saving", "asking", "usersave", "userasking", "gone"}
    /\ (waiting[Ui] = 0) <=> (ui # "waiting")
    /\ calls \in 0 .. MaxCalls /\ grants \in 0 .. MaxGrants /\ saves \in 0 .. MaxSaves

\* While a save that the worker commanded runs on the UI thread, the worker is
\* inside the call that asked for it, so it touches neither the triggers nor the
\* sidecar files the save reads and clears: only saves by hand, and those by the
\* keys that are typed when no menu has the command, can overlap with the worker
\* (editor.save_map sends its command with SendMessageW).
SaveExclusive ==
    message \/ ui \in {"saving", "asking"} => pc = "saving" /\ cur.kind = "save_map"

\* The plans a reviewer has before him and those still in the channel are the
\* newest that were published, in their order, and none is missing unless the
\* panel is full (publish_review_plan, drain_review_queue).
ReviewOrder ==
    /\ Len(items \o reviews) <= Len(published)
    /\ items \o reviews = Newest(published, Len(items \o reviews))
    /\ Len(items) <= Cap
    /\ Len(items) < Cap => items \o reviews = published

\* Every approval of the user is still to be spent or was spent by one call, which
\* applied its plan or failed: also when a client gives up, its call is carried
\* out all the same, and it sends the plan again (consume_apply_approval).
ApprovalsSpent == Len(attempts) + approvals = grants

\* The UI thread never waits for ever for an answer, not even when the worker
\* is itself waiting for the UI thread to save (recv_all's timeout), and a save
\* ends unless it asks the user something.
UiReturns == /\ ui = "waiting" ~> ui = "free"
             /\ ui \in {"saving", "usersave"} ~> ui \in {"free", "asking", "userasking"}

\* What can hold the worker without limit: a provider's program, and a save that
\* asks the user something, its own or one by hand it has to wait for.
Held == pc = "provider" \/ (pc = "saving" /\ ui \in {"asking", "userasking"})

\* Unless a provider or a dialog holds it for ever, the worker gets back to its
\* loop from every connection, from silent clients, clients that left, and saves
\* asked for while the UI thread waits, and so in the end sees the stop token
\* (read_request's timeout, editor.save_map, run_cli_agent).
WorkerReturns ==
    []<>~Held => /\ pc \in {"read", "saving", "provider"} ~> pc = "loop"
                 /\ stop ~> pc = "stopped"
=============================================================================
