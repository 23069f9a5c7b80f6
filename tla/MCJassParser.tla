---------------------------- MODULE MCJassParser ----------------------------
(***************************************************************************)
(* Instances of JassParser for TLC: all texts of up to Length tokens,      *)
(* behind nothing and behind the beginning of a signature, shorter ones    *)
(* in a body and in an expression, and all programs of up to two           *)
(* declarations.                                                           *)
(***************************************************************************)
EXTENDS JassParser, FiniteSets

CONSTANTS Length

MCLexeme == Keywords \cup {"", "f", "t", "u", "v", "x", "y", "z", "unit", "integer", "handle", "1",
                           "(", ")", ",", ";", "="}

Type(value) == [kind |-> "type", value |-> value]
Literal(value) == [kind |-> "literal", value |-> value]

Vocabulary ==
    {Word("type"), Word("extends"), Word("globals"), Word("endglobals"), Word("constant"),
     Word("function"), Word("takes"), Word("nothing"), Word("returns"), Word("local"),
     Name("f"), Mark("("), Equals}
InExpression == Vocabulary \cup {Mark(";"), Mark(","), Mark(")"), Word("endfunction")}
UpTo(n, tokens) == UNION {[1 .. k -> tokens] : k \in 0 .. n}
Opening == <<Word("function"), Name("f"), Word("takes")>>
Body == Opening \o <<Word("nothing"), Word("returns"), Type("unit")>>
Initialised == <<Word("local"), Type("unit"), Name("x"), Equals>>
MCText == UpTo(Length, Vocabulary)
          \cup {Opening \o end : end \in UpTo(Length, Vocabulary)}
          \cup {Body \o end : end \in UpTo(Length - 1, InExpression)}
          \cup {Body \o Initialised \o end : end \in UpTo(Length - 1, InExpression)}

Variable(type, name, constant, array, value) ==
    [type |-> type, name |-> name, constant |-> constant, array |-> array, value |-> value]
Var(value) == Variable(Type("integer"), "x", FALSE, FALSE, value)
Fun(native, constant, params, body) ==
    [kind |-> "function", name |-> "f", native |-> native, constant |-> constant, params |-> params,
     returns |-> Word("nothing"), body |-> body]
LocalOf(v) == [kind |-> "local", variable |-> v]
Other(tokens) == [kind |-> "other", tokens |-> tokens]
GlobalsOf(variables) == [kind |-> "globals", variables |-> variables]

Sum == <<Name("f"), Mark("("), Literal(","), Mark(","), Literal("local"), Mark(")")>>
Params == <<[type |-> Type("unit"), name |-> "u"], [type |-> Name("t"), name |-> "v"]>>
Call == <<Word("call"), Name("f"), Mark("("), Literal("globals"), Mark(")")>>
Bodies ==
    {<<>>,
     <<LocalOf(Var(<<Literal("1")>>)), Other(Call)>>,
     <<LocalOf(Variable(Type("unit"), "y", FALSE, TRUE, <<>>)), LocalOf(Var(<<>>))>>,
     <<LocalOf(Var(<<Name("f"), Mark("("), Literal(","), Mark(","), Literal("1"), Mark(")")>>)),
       Other(<<Word("if"), Name("x"), Word("then")>>), Other(Call), Other(<<Word("endif")>>)>>,
     <<Other(<<Word("call"), Name("f"), Mark("("), Literal("endfunction"), Mark(")")>>)>>,
     <<LocalOf(Var(Sum)), Other(<<Word("return")>>)>>}

Declarations ==
    {[kind |-> "type", name |-> "t", parent |-> Nil],
     [kind |-> "type", name |-> "t", parent |-> Type("handle")],
     GlobalsOf(<<>>), GlobalsOf(<<Var(<<Literal("1")>>)>>),
     GlobalsOf(<<Var(<<>>), Variable(Name("t"), "y", TRUE, FALSE, <<>>),
                 Variable(Type("unit"), "z", FALSE, TRUE, <<>>)>>)}
    \cup {Fun(TRUE, c, p, <<>>) : c \in BOOLEAN, p \in {<<>>, Params}}
    \cup {Fun(FALSE, c, Params, b) : c \in BOOLEAN, b \in Bodies}
MCProgram == UNION {[1 .. n -> Declarations] : n \in 0 .. 2}
=============================================================================
