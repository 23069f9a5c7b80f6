---------------------------- MODULE MCLspSession ----------------------------
(***************************************************************************)
(* Instances of LspSession for TLC: a Jass document, another whose uri is  *)
(* no JSON text, documents of one or two lines with one that escapeJson    *)
(* leaves as it is, pipes that hold one message.                           *)
(***************************************************************************)
EXTENDS LspSession

CONSTANTS u1, u2, x, y, raw

MCUri == {u1, u2}
MCJass == {u1}
MCLine == {x, y, raw}
MCQuotable == {u1}
MCEscapable == {x, y}

Msg(method, u, lines, first, last, by) ==
    [method |-> method, uri |-> u, lines |-> lines, first |-> first, last |-> last, by |-> by,
     args |-> TRUE]
Called(method, u) == Msg(method, u, <<>>, 0, 0, "call")
Raw(method, u) == Msg(method, u, <<>>, 0, 0, "raw")

Opens == {Msg("didOpen", u1, <<x, y>>, 0, 0, "call"), Msg("didOpen", u1, <<raw>>, 0, 0, "call"),
          Msg("didOpen", u2, <<x>>, 0, 0, "raw")}
Changes == {Msg("didChange", u1, <<y>>, 1, 1, "call"), Msg("didChange", u1, <<y>>, 1, 2, "raw")}
Others == {Called("didClose", u1), Called("didClose", u2), Called("completion", u1),
           [Raw("hover", u1) EXCEPT !.args = FALSE], Raw("numbered", u1), Raw("empty", u1)}
AllMessages == Opens \cup Changes \cup Others

BothStreams == {"text", "binary"}
=============================================================================
