----------------------------- MODULE LspSession -----------------------------
(***************************************************************************)
(* A session of the editor with the language server.  The client lives in  *)
(* the editor's process: Lua calls it on the UI thread                     *)
(* (script/common/lsp.lua through Plugin/Lua/lsp_client), and a thread of  *)
(* its own reads what the server prints.  The server is a process of its   *)
(* own (AI/ydwe-lsp); two pipes of limited size connect them, and every    *)
(* call on a pipe blocks.                                                  *)
(*                                                                         *)
(* A message travels as a header and the pieces of a body, the unit of     *)
(* reading and writing here; a document is a sequence of lines.  A         *)
(* callback of Lua may send while a poll hands messages over.  Neither     *)
(* lsp.lua nor YDLspClient.lua polls again or stops there, and no action   *)
(* here does: the first would hand newer messages over before older ones,  *)
(* the second delete the client under the loop of pollMessages.            *)
(***************************************************************************)
EXTENDS Naturals, FiniteSets, SequencesExt

CONSTANTS
    Uri, Line, Nil,
    Jass,           \* the documents opened with the language "jass"
    Quotable,       \* uris that are the text of a JSON string as they stand
    Escapable,      \* lines that escapeJson makes the text of a JSON string
    Message,        \* what Lua sends after "initialize"
    Streams,        \* how the server's standard output treats line ends
    PipeSize,       \* pieces of messages that fit into a pipe
    MaxStarts, MaxSends, MaxCrashes     \* bounds

Requests == {"initialize", "shutdown", "completion", "hover", "definition", "documentSymbol",
             "unknown"}
Notices == {"didOpen", "didChange", "didClose", "didSave", "exit", "numbered", "garbage", "empty"}

\* "lines" is what a didOpen or didChange carries, from "first" to "last" the
\* lines it is meant to replace.  The client composes the text of a "call"; Lua
\* hands over that of a "raw" message (lsp.send), which is JSON but for
\* "garbage".  Without "args" the parameters are not of the types the handler
\* asks for; the method of "numbered" is no string.
Messages == [method : Requests \cup Notices, uri : Uri, lines : Seq(Line),
             first : Nat, last : Nat, by : {"call", "raw"}, args : BOOLEAN]

ASSUME LspAssumption ==
    /\ Jass \subseteq Uri /\ Nil \notin Seq(Line) /\ Uri # {}
    /\ Quotable \subseteq Uri /\ Escapable \subseteq Line
    /\ Message \subseteq Messages /\ Streams \subseteq {"text", "binary"}
    /\ PipeSize \in Nat \ {0}
    /\ MaxStarts \in Nat /\ MaxSends \in Nat /\ MaxCrashes \in Nat

VARIABLES
    ui, todo,       \* the UI thread: the call it is inside; what it has to write
    running,        \* the flag both threads of the client look at
    thread, buffer, \* the reading thread: where it is; what it has not taken apart
    queue,          \* messages waiting for a poll
    open, lost,     \* handles in the client's slots; handles nobody can close
    inPipe, outPipe,
    server, docs,   \* the server process; the documents it holds
    part, pending,  \* what it has read of a message and still has to print
    stream,         \* of its standard output
    batch,          \* messages a poll has taken and not handed over
    sent, delivered,            \* history of this session
    starts, failures, sends, crashes    \* the bounds' counters

client == <<running, thread, buffer, queue>>
handles == <<open, lost>>
process == <<server, docs, part, pending>>
given == <<batch, delivered>>
history == <<sent, given>>
counters == <<starts, failures, sends, crashes>>
vars == <<ui, todo, client, handles, inPipe, outPipe, process, stream, history, counters>>

-----------------------------------------------------------------------------
(***************************************************************************)
(* What the server does with a message                                     *)
(***************************************************************************)

NoDocs == [u \in Uri |-> Nil]

\* What the client composes is JSON when the uri and the lines it pastes in
\* leave it so.  escapeJson takes care of quotes, backslashes and line ends only,
\* and of none in a uri; the text of a change never closes the brace it opens for
\* the element of contentChanges.
Composed(m) ==
    m.method # "didChange" /\ m.uri \in Quotable /\ ToSet(m.lines) \subseteq Escapable
Parses(m) == m.method \notin {"garbage", "empty"} /\ (m.by = "call" => Composed(m))

\* A handler throws when it asks for a parameter of another type.
Throws(m) == ~m.args /\ m.method \notin {"initialize", "shutdown", "exit"}
Handled(m) == Parses(m) /\ ~Throws(m)

\* A fault: a closed document is kept.
StoredForGood(d, m) ==
    IF Handled(m) /\ (m.method = "didOpen" \/ (m.method = "didChange" /\ d[m.uri] # Nil))
    THEN [d EXCEPT ![m.uri] = m.lines] ELSE d

\* The documents after a message.  A change takes the new text for the whole
\* document.
Stored(d, m) ==
    CASE ~Handled(m) -> d
      [] m.method = "didOpen" -> [d EXCEPT ![m.uri] = m.lines]
      [] m.method = "didChange" /\ d[m.uri] # Nil -> [d EXCEPT ![m.uri] = m.lines]
      [] m.method = "didClose" -> [d EXCEPT ![m.uri] = Nil]
      [] OTHER -> d

Diagnostics(u, lines) == [kind |-> "diagnostics", of |-> u, lines |-> lines]
Result(m, value) == [kind |-> "result", of |-> m.method, lines |-> value]

\* parseAndPublishDiagnostics: only of a Jass document the server holds.
Published(d, u) == IF u \in Jass /\ d[u] # Nil THEN <<Diagnostics(u, d[u])>> ELSE <<>>

\* Completion and hover look into any document, the other two into parsed ones.
LookedUp(d, m) == IF m.method \in {"completion", "hover"} \/ m.uri \in Jass THEN d[m.uri] ELSE Nil

Error(m) == [kind |-> "error", of |-> m.method, lines |-> Nil]

\* What it prints for a message that left the documents d: a request gets one
\* answer, an error when nobody handles it or its handler throws; what a
\* notification throws is swallowed, and a text that is no JSON gets nothing.
Printed(d, m) ==
    CASE ~Parses(m) -> <<>>
      [] m.method = "unknown" -> <<Error(m)>>
      [] Throws(m) -> IF m.method \in Requests THEN <<Error(m)>> ELSE <<>>
      [] m.method \in {"didOpen", "didChange", "didSave"} -> Published(d, m.uri)
      [] m.method = "didClose" -> <<Diagnostics(m.uri, <<>>)>>
      [] m.method \in {"initialize", "shutdown"} -> <<Result(m, Nil)>>
      [] m.method \in Requests -> <<Result(m, LookedUp(d, m))>>
      [] OTHER -> <<>>

\* An empty message is taken for the end of the input; a method that is no string
\* throws where nobody catches it but main.
Ending(m) ==
    m.method = "empty" \/ (Parses(m) /\ m.method \in {"shutdown", "exit", "numbered"})

-----------------------------------------------------------------------------
(***************************************************************************)
(* Framing                                                                 *)
(***************************************************************************)

IsEmpty(m) == m \in Message /\ m.method = "empty"

\* The Content-Length of a message, in pieces; a long text takes several.
Size(m) == IF IsEmpty(m) THEN 0 ELSE IF m.lines \in {Nil, <<>>} THEN 1 ELSE Len(m.lines)

Piece(name, m) == [piece |-> name, msg |-> m]
Frame(m) == <<Piece("header", m)>> \o [i \in 1 .. Size(m) |-> Piece("body", m)]
Frames(ms) == IF ms = <<>> THEN <<>> ELSE Frame(ms[1])

\* A message that has come whole begins the text.
Complete(pieces) ==
    pieces # <<>> /\ pieces[1].piece = "header" /\ Len(pieces) > Size(pieces[1].msg)

\* A text stream of the C runtime turns the "\r\n" of a header into "\r\r\n", and
\* the reader looks for "\r\n\r\n".
Found == stream = "binary" /\ Complete(buffer)
After == SubSeq(buffer, Size(buffer[1].msg) + 2, Len(buffer))

\* startServer hands over a fixed text.
Initialize == [method |-> "initialize", uri |-> CHOOSE u \in Uri : TRUE, lines |-> <<>>,
               first |-> 0, last |-> 0, by |-> "raw", args |-> TRUE]

-----------------------------------------------------------------------------
Init ==
    /\ ui = "idle" /\ todo = <<>>
    /\ running = FALSE /\ thread = "none" /\ buffer = <<>> /\ queue = <<>>
    /\ open = {} /\ lost = 0
    /\ inPipe = <<>> /\ outPipe = <<>>
    /\ server = "none" /\ docs = NoDocs /\ part = <<>> /\ pending = <<>>
    /\ stream \in Streams
    /\ batch = <<>> /\ sent = <<>> /\ delivered = <<>>
    /\ starts = 0 /\ failures = 0 /\ sends = 0 /\ crashes = 0

(***************************************************************************)
(* The client's calls, on the UI thread                                    *)
(***************************************************************************)

Alive == server \in {"up", "ending"}

\* createPipes puts new handles into the slots, whatever they hold.
Created(slots) == open' = open \cup slots /\ lost' = lost + Cardinality(open \cap slots)

StartOf(m) == ui' = "write" /\ todo' = Frame(m)

Start ==
    /\ ui = "idle" /\ ~running /\ starts < MaxStarts
    /\ starts' = starts + 1
    /\ open' = {"inWrite", "outRead", "process"}
    /\ lost' = lost + Cardinality(open)
    /\ running' = TRUE /\ thread' = "top" /\ buffer' = <<>>
    /\ server' = "up" /\ docs' = NoDocs /\ part' = <<>> /\ pending' = <<>>
    /\ inPipe' = <<>> /\ outPipe' = <<>>
    /\ StartOf(Initialize)
    /\ sent' = <<Initialize>> /\ delivered' = <<>>
    /\ UNCHANGED <<queue, batch, stream, failures, sends, crashes>>

\* The second pipe or the process cannot be made; nothing is closed.
StartFails ==
    /\ ui = "idle" /\ ~running /\ starts < MaxStarts
    /\ starts' = starts + 1 /\ failures' = failures + 1
    /\ \/ Created({"outRead", "outWrite"})
       \/ Created({"outRead", "outWrite", "inRead", "inWrite"})
    /\ UNCHANGED <<ui, todo, client, inPipe, outPipe, process, stream, history, sends, crashes>>

Send(m) ==
    /\ ui = "idle" /\ running /\ sends < MaxSends
    /\ sends' = sends + 1
    /\ StartOf(m)
    /\ sent' = Append(sent, m)
    /\ UNCHANGED <<client, handles, inPipe, outPipe, process, stream, given, starts,
                   failures, crashes>>

\* A fault: what a failed call did not write is kept.
WriteOver ==
    /\ ui = "write"
    /\ \/ /\ ~Alive /\ ui' = "idle" /\ UNCHANGED <<inPipe, todo>>
       \/ /\ Alive /\ Len(inPipe) < PipeSize
          /\ inPipe' = Append(inPipe, Head(todo)) /\ todo' = Tail(todo)
          /\ ui' = IF todo' = <<>> THEN "flush" ELSE "write"
    /\ UNCHANGED <<client, handles, outPipe, process, stream, history, counters>>

\* WriteFile waits while the pipe is full, and fails once nobody reads it.
Write ==
    /\ ui = "write"
    /\ \/ /\ ~Alive /\ ui' = "idle" /\ todo' = <<>> /\ UNCHANGED inPipe
       \/ /\ Alive /\ Len(inPipe) < PipeSize
          /\ inPipe' = Append(inPipe, Head(todo)) /\ todo' = Tail(todo)
          /\ ui' = IF todo' = <<>> THEN "flush" ELSE "write"
    /\ UNCHANGED <<client, handles, outPipe, process, stream, history, counters>>

\* FlushFileBuffers waits until the pipe is empty.
Flush ==
    /\ ui = "flush" /\ (inPipe = <<>> \/ ~Alive)
    /\ ui' = "idle"
    /\ UNCHANGED <<todo, client, handles, inPipe, outPipe, process, stream, history, counters>>

\* A fault: the queue is copied.
PollCopy ==
    /\ ui = "idle" /\ running /\ batch = <<>> /\ queue # <<>>
    /\ batch' = Tail(queue) /\ delivered' = Append(delivered, Head(queue))
    /\ UNCHANGED <<ui, todo, queue, running, thread, buffer, handles, inPipe, outPipe, process,
                   stream, sent, counters>>

\* pollMessages takes the whole queue and calls back with the first message,
Poll ==
    /\ ui = "idle" /\ running /\ batch = <<>> /\ queue # <<>>
    /\ batch' = Tail(queue) /\ delivered' = Append(delivered, Head(queue)) /\ queue' = <<>>
    /\ UNCHANGED <<ui, todo, running, thread, buffer, handles, inPipe, outPipe, process, stream,
                   sent, counters>>

\* then with the next, when the callback, which may send, returns.
HandOver ==
    /\ ui = "idle" /\ batch # <<>>
    /\ batch' = Tail(batch) /\ delivered' = Append(delivered, Head(batch))
    /\ UNCHANGED <<ui, todo, client, handles, inPipe, outPipe, process, stream, sent, counters>>

\* A fault: the thread is left to itself.
StopAtOnce ==
    /\ ui = "idle" /\ running /\ batch = <<>>
    /\ running' = FALSE
    /\ open' = {} /\ server' = "none" /\ inPipe' = <<>> /\ outPipe' = <<>> /\ queue' = <<>>
    /\ UNCHANGED <<ui, todo, thread, buffer, lost, docs, part, pending, stream, history, counters>>

\* stopServer takes the flag down first, so that the "shutdown" it sends next is
\* refused by sendMessage, and waits for the thread.
Stop ==
    /\ ui = "idle" /\ running /\ batch = <<>>
    /\ running' = FALSE /\ ui' = "join"
    /\ UNCHANGED <<todo, thread, buffer, queue, handles, inPipe, outPipe, process, stream,
                   history, counters>>

\* A fault: the handle of the process is not closed.
JoinAll ==
    /\ ui = "join" /\ thread = "ended"
    /\ ui' = "idle" /\ thread' = "none"
    /\ open' = open \ {"inWrite", "outRead"} /\ queue' = <<>>
    /\ server' = "none" /\ inPipe' = <<>> /\ outPipe' = <<>>
    /\ UNCHANGED <<todo, running, buffer, lost, docs, part, pending, stream, history, counters>>

\* Then it closes the handles and ends the server; lsp_client_stop deletes the
\* client and the messages nobody polled.
Join ==
    /\ ui = "join" /\ thread = "ended"
    /\ ui' = "idle" /\ thread' = "none"
    /\ open' = open \ {"inWrite", "outRead", "process"} /\ queue' = <<>>
    /\ server' = "none" /\ inPipe' = <<>> /\ outPipe' = <<>>
    /\ UNCHANGED <<todo, running, buffer, lost, docs, part, pending, stream, history, counters>>

\* Nothing runs: the client is deleted with the handles of a failed start.
StopNothing ==
    /\ ui = "idle" /\ ~running /\ open # {}
    /\ open' = {} /\ lost' = lost + Cardinality(open)
    /\ UNCHANGED <<ui, todo, client, inPipe, outPipe, process, stream, history, counters>>

-----------------------------------------------------------------------------
(***************************************************************************)
(* The reading thread                                                      *)
(***************************************************************************)

\* A fault: the thread reads on only after a poll.
ReaderWaits ==
    /\ thread = "top" /\ queue = <<>>
    /\ thread' = IF running THEN "read" ELSE "ended"
    /\ UNCHANGED <<ui, todo, running, buffer, queue, handles, inPipe, outPipe, process, stream,
                   history, counters>>

ReaderTop ==
    /\ thread = "top"
    /\ thread' = IF running THEN "read" ELSE "ended"
    /\ UNCHANGED <<ui, todo, running, buffer, queue, handles, inPipe, outPipe, process, stream,
                   history, counters>>

\* ReadFile takes what there is, as much as fits; a pipe without a writer ends it.
ReaderRead ==
    /\ thread = "read"
    /\ \/ \E n \in 1 .. Len(outPipe) :
             /\ buffer' = buffer \o SubSeq(outPipe, 1, n)
             /\ outPipe' = SubSeq(outPipe, n + 1, Len(outPipe))
             /\ thread' = "parse"
       \/ /\ outPipe = <<>> /\ ~Alive
          /\ thread' = "ended" /\ UNCHANGED <<buffer, outPipe>>
    /\ UNCHANGED <<ui, todo, running, queue, handles, inPipe, process, stream, history, counters>>

\* Each complete message goes into the queue, an incomplete one waits for more.
ReaderParse ==
    /\ thread = "parse"
    /\ IF Found
       THEN /\ queue' = Append(queue, buffer[1].msg)
            /\ buffer' = After
            /\ UNCHANGED thread
       ELSE thread' = "top" /\ UNCHANGED <<queue, buffer>>
    /\ UNCHANGED <<ui, todo, running, handles, inPipe, outPipe, process, stream, history, counters>>

-----------------------------------------------------------------------------
(***************************************************************************)
(* The server process                                                      *)
(***************************************************************************)

Serve(m) ==
    /\ docs' = Stored(docs, m)
    /\ pending' = Frames(Printed(docs', m))
    /\ part' = <<>>
    /\ server' = IF Ending(m) THEN "ending" ELSE server

\* readMessage and processMessage; nothing is read while something is printed.
ServerRead ==
    /\ server = "up" /\ pending = <<>> /\ inPipe # <<>>
    /\ inPipe' = Tail(inPipe)
    /\ LET text == Append(part, Head(inPipe))
       IN  IF Complete(text)
           THEN Serve(text[1].msg)
           ELSE part' = text /\ UNCHANGED <<server, docs, pending>>
    /\ UNCHANGED <<ui, todo, client, handles, outPipe, stream, history, counters>>

ServerWrite ==
    /\ Alive /\ pending # <<>> /\ Len(outPipe) < PipeSize
    /\ outPipe' = Append(outPipe, Head(pending)) /\ pending' = Tail(pending)
    /\ UNCHANGED <<ui, todo, client, handles, inPipe, server, docs, part, stream, history, counters>>

ServerEnds ==
    /\ server = "ending" /\ pending = <<>>
    /\ server' = "dead"
    /\ UNCHANGED <<ui, todo, client, handles, inPipe, outPipe, docs, part, pending, stream,
                   history, counters>>

ServerCrash ==
    /\ Alive /\ crashes < MaxCrashes
    /\ crashes' = crashes + 1
    /\ server' = "dead" /\ pending' = <<>>
    /\ UNCHANGED <<ui, todo, client, handles, inPipe, outPipe, docs, part, stream, history,
                   starts, failures, sends>>

-----------------------------------------------------------------------------
UiRun == Write \/ Flush \/ Join
Reader == ReaderTop \/ ReaderRead \/ ReaderParse
Server == ServerRead \/ ServerWrite \/ ServerEnds
Call == Start \/ StartFails \/ (\E m \in Message : Send(m)) \/ Poll \/ HandOver
        \/ Stop \/ StopNothing

Next == UiRun \/ Reader \/ Server \/ Call \/ ServerCrash

\* Threads and processes run; nobody has to call, to poll or to stop.
Spec == Init /\ [][Next]_vars /\ WF_vars(UiRun) /\ WF_vars(Reader) /\ WF_vars(Server)

-----------------------------------------------------------------------------
(***************************************************************************)
(* Properties                                                              *)
(***************************************************************************)

Slots == {"inRead", "inWrite", "outRead", "outWrite", "process"}
Answers == [kind : {"diagnostics", "result", "error"}, of : Uri \cup Requests,
            lines : Seq(Line) \cup {Nil}]
Pieces(msgs) == [piece : {"header", "body"}, msg : msgs]
Sent == Message \cup {Initialize}

\* Every variable keeps its type; a message is being written exactly inside the
\* call that sends it, and what is printed is what the server's loop waits for.
TypeOK ==
    /\ ui \in {"idle", "write", "flush", "join"}
    /\ thread \in {"none", "top", "read", "parse", "ended"} /\ running \in BOOLEAN
    /\ server \in {"none", "up", "ending", "dead"} /\ stream \in Streams
    /\ todo \in Seq(Pieces(Sent)) /\ inPipe \in Seq(Pieces(Sent)) /\ part \in Seq(Pieces(Sent))
    /\ outPipe \in Seq(Pieces(Answers)) /\ buffer \in Seq(Pieces(Answers))
    /\ pending \in Seq(Pieces(Answers))
    /\ queue \in Seq(Answers) /\ batch \in Seq(Answers) /\ delivered \in Seq(Answers)
    /\ sent \in Seq(Sent)
    /\ docs \in [Uri -> Seq(Line) \cup {Nil}]
    /\ open \subseteq Slots /\ lost \in Nat
    /\ ui = "write" <=> todo # <<>>
    /\ starts \in 0 .. MaxStarts /\ failures \in 0 .. starts
    /\ sends \in 0 .. MaxSends /\ crashes \in 0 .. MaxCrashes

\* The server after a sequence of messages, served one after the other, and the
\* answers to them.
Served(s, m) ==
    IF s.over THEN s
    ELSE [docs |-> Stored(s.docs, m), out |-> s.out \o Printed(Stored(s.docs, m), m),
          over |-> Ending(m)]
Session(ms) ==
    LET after[i \in 0 .. Len(ms)] ==
            IF i = 0 THEN [docs |-> NoDocs, out |-> <<>>, over |-> FALSE]
            ELSE Served(after[i - 1], ms[i])
    IN  after[Len(ms)]
Expected(ms) == Session(ms).out

\* Whatever the pipes' size, however the text of the server is cut into reads,
\* and wherever either side ends, Lua is handed the answers to what was sent,
\* whole, in order and once each, also when its callbacks send
\* (readLoop, pollMessages, readMessage, run).  Of the server as it is built this
\* says little: main.cpp leaves its output a text stream, in which the client finds
\* no message, and Lua is handed nothing.
InOrder == IsPrefix(delivered \o batch \o queue, Expected(sent))

\* Between two calls of Lua the client has a thread to join, reading or already
\* ended with its server, exactly if it says that it is running: no start throws
\* away a thread that was not joined, which would end the editor, and no thread
\* survives a stop (startServer, stopServer).
ThreadMatchesFlag == ui = "idle" => (running <=> thread # "none")

\* A client that does not run holds no handle, but for those of failed starts,
\* four at the most of each (createPipes, startProcess, stopServer).
HandlesBalance ==
    ui = "idle" /\ ~running => Cardinality(open) + lost <= 4 * failures

\* The client's view of its documents: a change replaces the lines it names.
Edited(lines, m) ==
    SubSeq(lines, 1, m.first - 1) \o m.lines \o SubSeq(lines, m.last + 1, Len(lines))
Viewed(d, m) ==
    CASE m.method = "didOpen" -> [d EXCEPT ![m.uri] = m.lines]
      [] m.method = "didChange" /\ d[m.uri] # Nil -> [d EXCEPT ![m.uri] = Edited(d[m.uri], m)]
      [] m.method = "didClose" -> [d EXCEPT ![m.uri] = Nil]
      [] OTHER -> d
\* The documents about which it may be wrong.  The server never sees a text that
\* is no JSON, and takes the lines of a partial change for the whole document.
Misses(d, m) ==
    IF m.method = "didChange"
    THEN d[m.uri] # Nil /\ ~(Handled(m) /\ m.first = 1 /\ m.last = Len(d[m.uri]))
    ELSE m.method \in {"didOpen", "didClose"} /\ ~Handled(m)
Doubted(s, m) ==
    IF Misses(s.docs, m) THEN s.doubt \cup {m.uri}
    ELSE IF m.method \in {"didOpen", "didClose"} THEN s.doubt \ {m.uri} ELSE s.doubt

Seen(s, m) == [docs |-> Viewed(s.docs, m), doubt |-> Doubted(s, m)]
View(ms) ==
    LET after[i \in 0 .. Len(ms)] ==
            IF i = 0 THEN [docs |-> NoDocs, doubt |-> {}] ELSE Seen(after[i - 1], ms[i])
    IN  after[Len(ms)]

\* A server that has read everything has the editor's text of every document but
\* those about which the client failed to tell it since they were last opened or
\* closed with success: a failed change spoils no other document and nothing
\* beyond the next open (escapeJson, notifyDocumentOpen, notifyDocumentChange,
\* processMessage, handleDidOpen, handleDidChange, handleDidClose).
DocsAgree ==
    server = "up" /\ todo = <<>> /\ inPipe = <<>> /\ part = <<>>
    => \A u \in Uri \ View(sent).doubt : docs[u] = View(sent).docs[u]

SendReturns == ui \in {"write", "flush"} ~> ui = "idle"

StopReturns ==
    ui = "join" /\ (~Alive \/ outPipe # <<>> \/ pending # <<>>) ~> ui = "idle"

\* The calls of Lua return: one that sends, also when both pipes are full, for
\* the thread drains the one the server prints into, whether Lua polls or not;
\* and a stop, when the server ends by itself or still has something to print
\* (sendMessage, readLoop, stopServer).  With a server that is silent a stop does
\* not return: running is cleared first, so that the shutdown it sends is refused.
CallsReturn == SendReturns /\ StopReturns
=============================================================================
