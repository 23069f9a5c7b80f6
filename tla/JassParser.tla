----------------------------- MODULE JassParser -----------------------------
(***************************************************************************)
(* The parser of the language server (AI/ydwe-lsp/src/jass_parser.cpp),    *)
(* which reads the tokens of a Jass text from left to right and collects   *)
(* what is declared.  A turn of one of its loops is a step, "mode" is the  *)
(* loop it is in; routines without a loop are part of the step that calls  *)
(* them.                                                                   *)
(*                                                                         *)
(* A token is a kind and a value, and the parser compares mostly values.   *)
(* There is no token for the end of a line.                                *)
(***************************************************************************)
EXTENDS Naturals, SequencesExt

CONSTANTS
    Lexeme,     \* the values of tokens
    Text,       \* token sequences of any kind
    Program,    \* correct programs, to be written down as tokens
    Nil

\* Values that are not words; "" is that of the end of the text.
None == ""
Comma == ","
Open == "("
Close == ")"
Semicolon == ";"
Keywords == {"function", "endfunction", "takes", "returns", "nothing", "globals", "endglobals",
             "local", "set", "call", "return", "if", "then", "else", "elseif", "endif", "loop",
             "exitwhen", "endloop", "true", "false", "null", "constant", "native", "type",
             "extends", "array"}
Reserved == Keywords \cup {None, Comma, Open, Close, Semicolon, "="}
Token == [kind : {"keyword", "type", "identifier", "literal", "operator", "punctuation", "eof"},
          value : Lexeme]

ASSUME ParserAssumption == Text \subseteq Seq(Token) /\ Nil \notin Program /\ Reserved \subseteq Lexeme

VARIABLES
    program, text,  \* what is parsed: a program, or Nil, and its tokens
    pos, mode,
    depth, back,    \* of skipExpression: open parentheses, and the caller's loop
    func,           \* the function whose signature or body is read
    types, globals, functions, locals, diagnostics
input == <<program, text>>
skipping == <<depth, back>>
doc == <<types, globals, functions, locals>>
vars == <<input, pos, mode, skipping, func, doc, diagnostics>>

-----------------------------------------------------------------------------
(***************************************************************************)
(* Writing a program down                                                  *)
(***************************************************************************)

Word(value) == [kind |-> "keyword", value |-> value]
Name(value) == [kind |-> "identifier", value |-> value]
Mark(value) == [kind |-> "punctuation", value |-> value]
Equals == [kind |-> "operator", value |-> "="]
Optional(condition, tokens) == IF condition THEN tokens ELSE <<>>
Map(f(_), seq) == [i \in DOMAIN seq |-> f(seq[i])]

\* A variable: its type as a token, and the tokens of its initial value, if any.
WrittenVariable(v) ==
    Optional(v.constant, <<Word("constant")>>) \o <<v.type>> \o Optional(v.array, <<Word("array")>>)
    \o <<Name(v.name)>> \o Optional(v.value # <<>>, <<Equals>> \o v.value)
WrittenStatement(s) ==
    IF s.kind = "local" THEN <<Word("local")>> \o WrittenVariable(s.variable) ELSE s.tokens
WrittenParams(params) ==
    IF params = <<>> THEN <<Word("nothing")>>
    ELSE FlattenSeq([i \in DOMAIN params |->
             Optional(i > 1, <<Mark(Comma)>>) \o <<params[i].type, Name(params[i].name)>>])

Written(d) ==
    CASE d.kind = "type" ->
           <<Word("type"), Name(d.name)>> \o Optional(d.parent # Nil, <<Word("extends"), d.parent>>)
      [] d.kind = "globals" ->
           <<Word("globals")>> \o FlattenSeq(Map(WrittenVariable, d.variables)) \o <<Word("endglobals")>>
      [] d.kind = "function" ->
           Optional(d.constant, <<Word("constant")>>)
           \o <<Word(IF d.native THEN "native" ELSE "function"), Name(d.name), Word("takes")>>
           \o WrittenParams(d.params) \o <<Word("returns"), d.returns>>
           \o Optional(~d.native,
                FlattenSeq(Map(WrittenStatement, d.body)) \o <<Word("endfunction")>>)
WrittenProgram(p) == FlattenSeq(Map(Written, p))

\* What a correct program declares.  No name is a word of the language; expressions
\* and statements are any tokens that neither declare a local nor end the function.
TypeName == [kind : {"identifier", "type"}, value : Lexeme \ Reserved]
Inside == {t \in Token : t.kind # "eof" /\ (t.kind # "literal" => t.value \notin {"local", "endfunction"})}
DeclaredVariable(constants) == [type : TypeName, name : Lexeme \ Reserved, constant : constants,
                                array : BOOLEAN, value : Seq(Inside)]
BodyPart ==
    [kind : {"local"}, variable : DeclaredVariable({FALSE})]
    \cup {s \in [kind : {"other"}, tokens : Seq(Inside)] :
             s.tokens # <<>> /\ s.tokens[1].value # "="}
Declaration ==
    [kind : {"type"}, name : Lexeme \ Reserved, parent : TypeName \cup {Nil}]
    \cup [kind : {"globals"}, variables : Seq(DeclaredVariable(BOOLEAN))]
    \cup {d \in [kind : {"function"}, name : Lexeme \ Reserved, native : BOOLEAN, constant : BOOLEAN,
                 params : Seq([type : TypeName, name : Lexeme \ Reserved]),
                 returns : TypeName \cup {Word("nothing")}, body : Seq(BodyPart)] :
             d.native => d.body = <<>>}

ASSUME ProgramAssumption == Program \subseteq Seq(Declaration)

-----------------------------------------------------------------------------
NoFunction == [name |-> None, native |-> FALSE, constant |-> FALSE, params |-> <<>>, returns |-> None]

Init ==
    /\ \/ program = Nil /\ text \in Text
       \/ program \in Program /\ text = WrittenProgram(program)
    /\ pos = 1 /\ mode = "top" /\ depth = 0 /\ back = "top" /\ func = NoFunction
    /\ types = <<>> /\ globals = <<>> /\ functions = <<>> /\ locals = <<>> /\ diagnostics = <<>>

Eof == [kind |-> "eof", value |-> None]
At(k) == IF pos + k <= Len(text) THEN text[pos + k] ELSE Eof
Ended == At(0).kind = "eof"
Is(k, value) == At(k).value = value
IsName(k) == At(k).kind = "identifier"
IsType(k) == At(k).kind \in {"identifier", "type"}

\* Go on behind the next n tokens.
Advance(n) == pos' = pos + n
\* addError, at the k-th token from here.
Error(k) == diagnostics' = Append(diagnostics, pos + k)
NoError == UNCHANGED diagnostics

(***************************************************************************)
(* parseDocument                                                           *)
(***************************************************************************)

Finish ==
    /\ mode = "top" /\ Ended
    /\ mode' = "done"
    /\ UNCHANGED <<input, pos, skipping, func, doc, diagnostics>>

Unknown ==
    /\ mode = "top" /\ ~Ended
    /\ At(0).value \notin {"type", "globals", "native", "function", "constant"}
    /\ Advance(1)
    /\ UNCHANGED <<input, mode, skipping, func, doc, diagnostics>>

Declared(parent, n) ==
    types' = Append(types, [name |-> At(1).value, parent |-> parent]) /\ Advance(n) /\ NoError

TypeDecl ==
    /\ mode = "top" /\ Is(0, "type") /\ ~Ended
    /\ \/ ~IsType(1) /\ Error(1) /\ Advance(1) /\ UNCHANGED types
       \/ IsType(1) /\ ~Is(2, "extends") /\ Declared(None, 2)
       \/ IsType(1) /\ Is(2, "extends") /\ IsType(3) /\ Declared(At(3).value, 4)
       \/ IsType(1) /\ Is(2, "extends") /\ ~IsType(3) /\ Error(3) /\ Advance(3) /\ UNCHANGED types
    /\ UNCHANGED <<input, mode, skipping, func, globals, functions, locals>>

GlobalsBlock ==
    /\ mode = "top" /\ Is(0, "globals") /\ ~Ended
    /\ mode' = "globals" /\ Advance(1)
    /\ UNCHANGED <<input, skipping, func, doc, diagnostics>>

Signature(native, constant, n) ==
    /\ func' = [NoFunction EXCEPT !.native = native, !.constant = constant]
    /\ mode' = "signature" /\ Advance(n) /\ NoError

FunctionDecl ==
    /\ mode = "top" /\ ~Ended
    /\ \/ Is(0, "native") /\ Signature(TRUE, FALSE, 1)
       \/ Is(0, "function") /\ Signature(FALSE, FALSE, 1)
       \/ Is(0, "constant") /\ Is(1, "native") /\ Signature(TRUE, TRUE, 2)
       \/ Is(0, "constant") /\ Is(1, "function") /\ Signature(FALSE, TRUE, 2)
       \/ /\ Is(0, "constant") /\ ~Is(1, "native") /\ ~Is(1, "function")
          /\ Error(1) /\ Advance(1) /\ UNCHANGED <<mode, func>>
    /\ UNCHANGED <<input, skipping, doc>>

(***************************************************************************)
(* parseGlobalsBlock, parseGlobalVariable                                  *)
(***************************************************************************)

EndGlobals ==
    /\ mode = "globals" /\ (Ended \/ Is(0, "endglobals"))
    /\ mode' = "top" /\ Advance(IF Ended THEN 0 ELSE 1)
    /\ UNCHANGED <<input, skipping, func, doc, diagnostics>>

\* Behind a variable's name, n tokens on: its initial value is skipped.
Behind(n) ==
    IF Is(n, "=")
    THEN mode' = "skip" /\ back' = mode /\ depth' = 0 /\ Advance(n + 1)
    ELSE Advance(n) /\ UNCHANGED <<mode, skipping>>

\* A fault: an unexpected token stays where it is.
GlobalVariableStuck ==
    /\ mode = "globals" /\ ~Ended /\ ~Is(0, "endglobals")
    /\ LET c == IF Is(0, "constant") THEN 1 ELSE 0
           a == IF Is(c + 1, "array") THEN 1 ELSE 0
           typed == IsType(c) \/ At(c).kind = "keyword"
       IN  \/ ~typed /\ Advance(c) /\ NoError /\ UNCHANGED <<mode, skipping, globals>>
           \/ /\ typed /\ ~IsName(c + a + 1)
              /\ Error(c + a + 1) /\ Advance(c + a + 1) /\ UNCHANGED <<mode, skipping, globals>>
           \/ /\ typed /\ IsName(c + a + 1)
              /\ globals' = Append(globals, [name |-> At(c + a + 1).value, type |-> At(c).value,
                                             constant |-> c = 1, array |-> a = 1])
              /\ Behind(c + a + 2) /\ NoError
    /\ UNCHANGED <<input, func, types, functions, locals>>

\* Any keyword will do as a type, "endglobals" behind "constant" as well.
GlobalVariable ==
    /\ mode = "globals" /\ ~Ended /\ ~Is(0, "endglobals")
    /\ LET c == IF Is(0, "constant") THEN 1 ELSE 0
           a == IF Is(c + 1, "array") THEN 1 ELSE 0
           typed == IsType(c) \/ At(c).kind = "keyword"
       IN  \/ ~typed /\ Advance(c + 1) /\ NoError /\ UNCHANGED <<mode, skipping, globals>>
           \/ /\ typed /\ ~IsName(c + a + 1)
              /\ Error(c + a + 1) /\ Advance(c + a + 1) /\ UNCHANGED <<mode, skipping, globals>>
           \/ /\ typed /\ IsName(c + a + 1)
              /\ globals' = Append(globals, [name |-> At(c + a + 1).value, type |-> At(c).value,
                                             constant |-> c = 1, array |-> a = 1])
              /\ Behind(c + a + 2) /\ NoError
    /\ UNCHANGED <<input, func, types, functions, locals>>

(***************************************************************************)
(* parseFunctionSignature                                                  *)
(***************************************************************************)

SignatureHead ==
    /\ mode = "signature"
    /\ \/ ~IsName(0) /\ Error(0) /\ Advance(0) /\ mode' = "top"
       \/ IsName(0) /\ ~Is(1, "takes") /\ Error(1) /\ Advance(1) /\ mode' = "top"
       \/ IsName(0) /\ Is(1, "takes") /\ Is(2, "nothing") /\ NoError /\ Advance(3) /\ mode' = "returns"
       \/ IsName(0) /\ Is(1, "takes") /\ ~Is(2, "nothing") /\ NoError /\ Advance(2) /\ mode' = "params"
    /\ func' = [func EXCEPT !.name = At(0).value]
    /\ UNCHANGED <<input, skipping, doc>>

\* A fault: an error in a parameter does not end the list.
ParamAgain ==
    /\ mode = "params"
    /\ \/ ~IsType(0) /\ Error(0) /\ Advance(0) /\ UNCHANGED <<mode, func>>
       \/ IsType(0) /\ ~IsName(1) /\ Error(1) /\ Advance(1) /\ mode' = "returns" /\ UNCHANGED func
       \/ /\ IsType(0) /\ IsName(1) /\ NoError
          /\ func' = [func EXCEPT !.params =
                         Append(func.params, [type |-> At(0).value, name |-> At(1).value])]
          /\ \/ Is(2, Comma) /\ Advance(3) /\ UNCHANGED mode
             \/ ~Is(2, Comma) /\ Advance(2) /\ mode' = "returns"
    /\ UNCHANGED <<input, skipping, doc>>

Param ==
    /\ mode = "params"
    /\ \/ ~IsType(0) /\ Error(0) /\ Advance(0) /\ mode' = "returns" /\ UNCHANGED func
       \/ IsType(0) /\ ~IsName(1) /\ Error(1) /\ Advance(1) /\ mode' = "returns" /\ UNCHANGED func
       \/ /\ IsType(0) /\ IsName(1) /\ NoError
          /\ func' = [func EXCEPT !.params =
                         Append(func.params, [type |-> At(0).value, name |-> At(1).value])]
          /\ \/ Is(2, Comma) /\ Advance(3) /\ UNCHANGED mode
             \/ ~Is(2, Comma) /\ Advance(2) /\ mode' = "returns"
    /\ UNCHANGED <<input, skipping, doc>>

Returns ==
    /\ mode = "returns"
    /\ LET typed == Is(1, "nothing") \/ IsType(1)
           f == [func EXCEPT !.returns = IF typed THEN At(1).value ELSE None]
       IN  \/ ~Is(0, "returns") /\ Error(0) /\ Advance(0) /\ mode' = "top" /\ UNCHANGED <<func, functions>>
           \/ /\ Is(0, "returns") /\ NoError /\ Advance(IF typed THEN 2 ELSE 1)
              /\ func' = f
              /\ \/ f.native /\ functions' = Append(functions, f) /\ mode' = "top"
                 \/ ~f.native /\ mode' = "body" /\ UNCHANGED functions
    /\ UNCHANGED <<input, skipping, types, globals, locals>>

(***************************************************************************)
(* parseFunctionBody, parseLocalVariable                                   *)
(***************************************************************************)

\* A fault: a body without an end is no function.
EndFunctionOnly ==
    /\ mode = "body" /\ (Ended \/ Is(0, "endfunction"))
    /\ functions' = IF Ended THEN functions ELSE Append(functions, func)
    /\ mode' = "top" /\ Advance(IF Ended THEN 0 ELSE 1)
    /\ UNCHANGED <<input, skipping, func, types, globals, locals, diagnostics>>

\* The text may end before the function does.
EndFunction ==
    /\ mode = "body" /\ (Ended \/ Is(0, "endfunction"))
    /\ functions' = Append(functions, func)
    /\ mode' = "top" /\ Advance(IF Ended THEN 0 ELSE 1)
    /\ UNCHANGED <<input, skipping, func, types, globals, locals, diagnostics>>

Statement ==
    /\ mode = "body" /\ ~Ended /\ ~Is(0, "endfunction") /\ ~Is(0, "local")
    /\ Advance(1)
    /\ UNCHANGED <<input, mode, skipping, func, doc, diagnostics>>

\* A local that is not one is passed over without a word.
LocalVariable ==
    /\ mode = "body" /\ ~Ended /\ Is(0, "local")
    /\ LET a == IF Is(2, "array") THEN 1 ELSE 0
       IN  \/ ~IsType(1) /\ Advance(2) /\ UNCHANGED <<mode, skipping, locals>>
           \/ IsType(1) /\ ~IsName(a + 2) /\ Advance(a + 2) /\ UNCHANGED <<mode, skipping, locals>>
           \/ /\ IsType(1) /\ IsName(a + 2)
              /\ locals' = Append(locals, [function |-> func.name, name |-> At(a + 2).value,
                                           type |-> At(1).value])
              /\ Behind(a + 3)
    /\ UNCHANGED <<input, func, types, globals, functions, diagnostics>>

(***************************************************************************)
(* skipExpression                                                          *)
(***************************************************************************)

StatementWords == {"call", "set", "local", "if", "elseif", "else", "endif", "loop", "endloop",
                   "exitwhen", "return", "endfunction"}

\* A fault: the beginning of a statement does not end an expression.
StopsAtMarks == Ended \/ (depth = 0 /\ (Is(0, Close) \/ Is(0, Comma)))

\* A fault: a parenthesis closes none.
StopsAtComma ==
    \/ Ended
    \/ depth = 0 /\ Is(0, Comma)
    \/ At(0).kind = "keyword" /\ At(0).value \in StatementWords

\* What ends an expression before it is read; the words that end a block of
\* globals or begin a declaration do not.
Stops ==
    \/ Ended
    \/ depth = 0 /\ (Is(0, Close) \/ Is(0, Comma))
    \/ At(0).kind = "keyword" /\ At(0).value \in StatementWords

SkipExpression ==
    /\ mode = "skip"
    /\ \/ Stops /\ mode' = back /\ Advance(0) /\ UNCHANGED depth
       \/ /\ ~Stops /\ Advance(1)
          /\ depth' = IF Is(0, Open) THEN depth + 1 ELSE IF Is(0, Close) THEN depth - 1 ELSE depth
          /\ mode' = IF At(0) = Mark(Semicolon) THEN back ELSE mode
    /\ UNCHANGED <<input, back, func, doc, diagnostics>>

Next ==
    \/ Finish \/ Unknown \/ TypeDecl \/ GlobalsBlock \/ FunctionDecl
    \/ EndGlobals \/ GlobalVariable
    \/ SignatureHead \/ Param \/ Returns
    \/ EndFunction \/ Statement \/ LocalVariable
    \/ SkipExpression

\* The parser is a call that runs on.
Spec == Init /\ [][Next]_vars /\ WF_vars(Next)

-----------------------------------------------------------------------------
(***************************************************************************)
(* Properties                                                              *)
(***************************************************************************)

Modes == {"top", "globals", "signature", "params", "returns", "body", "skip", "done"}
Function == [name : Lexeme, native : BOOLEAN, constant : BOOLEAN,
             params : Seq([type : Lexeme, name : Lexeme]), returns : Lexeme]
Local == [function : Lexeme, name : Lexeme, type : Lexeme]

\* The variables' types; a skipped expression returns to one of its two callers.
TypeOK ==
    /\ text \in Seq(Token) /\ pos \in 1 .. Len(text) + 2
    /\ mode \in Modes /\ depth \in Nat /\ back \in {"top", "globals", "body"}
    /\ mode = "skip" => back # "top"
    /\ func \in Function /\ functions \in Seq(Function)
    /\ types \in Seq([name : Lexeme, parent : Lexeme])
    /\ globals \in Seq([name : Lexeme, type : Lexeme, constant : BOOLEAN, array : BOOLEAN])
    /\ locals \in Seq(Local) /\ diagnostics \in Seq(Nat)

Rank == [m \in Modes |-> CASE m = "done" -> 0
                           [] m = "top" -> 1
                           [] m \in {"globals", "returns", "body"} -> 2
                           [] OTHER -> 3]

\* Whatever the text, a turn of a loop consumes a token, or ends its loop for one
\* further out: no text makes the server hang (parseDocument, skipExpression).
Progress == [][pos' > pos \/ (pos' = pos /\ Rank[mode'] < Rank[mode])]_vars

\* So every text is read to its end.
Terminates == <>(mode = "done")

\* A local belongs to a function that is found, however broken the text is: the
\* completion looks locals up by it (parseFunctionSignature, parseLocalVariable).
LocalsOwned ==
    mode = "done" =>
        \A i \in DOMAIN locals : \E k \in DOMAIN functions : functions[k].name = locals[i].function

\* What a program declares.
Types(d) == IF d.kind # "type" THEN <<>>
            ELSE <<[name |-> d.name, parent |-> IF d.parent = Nil THEN None ELSE d.parent.value]>>
Globals(d) == IF d.kind # "globals" THEN <<>>
              ELSE Map(LAMBDA v : [name |-> v.name, type |-> v.type.value,
                                   constant |-> v.constant, array |-> v.array], d.variables)
Functions(d) == IF d.kind # "function" THEN <<>>
                ELSE <<[name |-> d.name, native |-> d.native, constant |-> d.constant,
                        params |-> Map(LAMBDA p : [type |-> p.type.value, name |-> p.name], d.params),
                        returns |-> d.returns.value]>>
Locals(d) == IF d.kind # "function" THEN <<>>
             ELSE FlattenSeq(Map(LAMBDA s : Optional(s.kind = "local",
                      <<[function |-> d.name, name |-> s.variable.name,
                         type |-> s.variable.type.value]>>), d.body))
All(f(_)) == FlattenSeq(Map(f, program))

\* No global has an initial value, and no string literal reads like the words the
\* body's loop looks for.
Plain ==
    /\ \A i \in DOMAIN program : program[i].kind = "globals" =>
          \A k \in DOMAIN program[i].variables : program[i].variables[k].value = <<>>
    /\ \A i \in DOMAIN text : text[i].kind = "literal" => text[i].value \notin {"local", "endfunction"}

\* A correct program without initialised globals parses to what it declares, and
\* gets no diagnostics (Parser::parse).
Faithful ==
    mode = "done" /\ program # Nil /\ Plain =>
        /\ types = All(Types) /\ globals = All(Globals)
        /\ functions = All(Functions) /\ locals = All(Locals)
        /\ diagnostics = <<>>
=============================================================================
