-------------------------- MODULE JassParserProofs --------------------------
(***************************************************************************)
(* Proofs about JassParser, for every text and every program: its types,   *)
(* that every step consumes a token or leaves a loop, that a local has     *)
(* its function, and that a correct program parses to what it declares.    *)
(*                                                                         *)
(* The last goes by the place of the parser.  The text of a program is the *)
(* texts of its declarations behind one another, and so on inwards; Upto   *)
(* is the first of them, its length the place where the next begins.  The  *)
(* inductive invariant, ReadInv, says of every place where the parser can  *)
(* be what it has collected there.                                         *)
(***************************************************************************)
EXTENDS JassParser, WellFoundedInduction, TLAPS

-----------------------------------------------------------------------------
(***************************************************************************)
(* Sequences written one behind the other                                  *)
(***************************************************************************)

\* A set of numbers that has 0 and, with each, the next, has all.
LEMMA Numbers ==
    ASSUME NEW G, 0 \in G, \A n \in Nat : n \in G => n + 1 \in G
    PROVE  Nat \subseteq G
<1> DEFINE R == {ss \in Nat \X Nat : ss[1] < ss[2]}
<1> SUFFICES ASSUME Nat \ G # {} PROVE FALSE
    OBVIOUS
<1>1. IsWellFoundedOn(R, Nat)
    BY NatLessThanWellFounded, Zenon DEF OpToRel
<1>2. \A k, m \in Nat : k < m => <<k, m>> \in R
    OBVIOUS
<1> HIDE DEF R
<1>3. PICK m \in Nat \ G : \A k \in Nat \ G : ~ (<<k, m>> \in R)
    BY <1>1, WFMin
<1>4. m # 0 /\ m - 1 \in Nat /\ m - 1 < m /\ m = (m - 1) + 1
    BY <1>3
<1>5. m - 1 \in G
    BY <1>2, <1>3, <1>4
<1> QED
    BY <1>3, <1>4, <1>5

\* The first k of a sequence of sequences, one behind the other.
IsUpto(f, seqs, n) == f = [i \in 0 .. n |-> IF i = 0 THEN <<>> ELSE f[i - 1] \o seqs[i]]
Upto(seqs, k) ==
    LET upto[i \in 0 .. Len(seqs)] == IF i = 0 THEN <<>> ELSE upto[i - 1] \o seqs[i]
    IN  upto[k]

LEMMA UptoExists ==
    ASSUME NEW seqs, NEW n \in Nat
    PROVE  \E f : IsUpto(f, seqs, n)
<1> DEFINE G == {k \in Nat : \E f : IsUpto(f, seqs, k)}
<1>1. 0 \in G
    <2> DEFINE f == [i \in 0 .. 0 |-> <<>>]
    <2>1. IsUpto(f, seqs, 0)
        BY DEF IsUpto
    <2> QED
        BY <2>1
<1>2. ASSUME NEW k \in Nat, k \in G PROVE k + 1 \in G
    <2>1. PICK f : IsUpto(f, seqs, k)
        BY <1>2
    <2> DEFINE g == [i \in 0 .. k + 1 |-> IF i <= k THEN f[i] ELSE f[k] \o seqs[i]]
    <2>2. \A i \in 0 .. k : g[i] = f[i] /\ f[i] = IF i = 0 THEN <<>> ELSE f[i - 1] \o seqs[i]
        <3>1. \A i \in 0 .. k : f[i] = IF i = 0 THEN <<>> ELSE f[i - 1] \o seqs[i]
            BY <2>1, Zenon DEF IsUpto
        <3>2. \A i \in 0 .. k : g[i] = f[i]
            OBVIOUS
        <3> QED
            BY <3>1, <3>2
    <2>3. \A i \in 0 .. k + 1 : g[i] = IF i = 0 THEN <<>> ELSE g[i - 1] \o seqs[i]
        <3> TAKE i \in 0 .. k + 1
        <3>1. CASE i = 0
            <4>1. i \in 0 .. k
                BY <3>1
            <4> QED
                BY <2>2, <3>1, <4>1
        <3>2. CASE i \in 1 .. k
            <4>1. i - 1 \in 0 .. k /\ i \in 0 .. k /\ i # 0
                BY <3>2
            <4>2. g[i - 1] = f[i - 1] /\ g[i] = f[i] /\ f[i] = f[i - 1] \o seqs[i]
                BY <2>2, <4>1
            <4> QED
                BY <4>1, <4>2
        <3>3. CASE i = k + 1
            <4>0. k \in 0 .. k /\ i - 1 = k /\ i # 0 /\ ~ (i <= k)
                BY <3>3
            <4>1. g[i] = f[k] \o seqs[i]
                BY <4>0, Zenon
            <4>2. g[i - 1] = f[k]
                BY <2>2, <4>0
            <4> QED
                BY <4>0, <4>1, <4>2
        <3> QED
            BY <3>1, <3>2, <3>3
    <2>4. IsUpto(g, seqs, k + 1)
        BY <2>3, Zenon DEF IsUpto
    <2> QED
        BY <2>4
<1> HIDE DEF G
<1>3. Nat \subseteq G
    BY <1>1, <1>2, Numbers
<1> QED
    BY <1>3 DEF G

LEMMA UptoStep ==
    ASSUME NEW seqs, Len(seqs) \in Nat
    PROVE  /\ Upto(seqs, 0) = <<>>
           /\ \A k \in Nat : k < Len(seqs) => Upto(seqs, k + 1) = Upto(seqs, k) \o seqs[k + 1]
<1> DEFINE f == CHOOSE f : f = [i \in 0 .. Len(seqs) |-> IF i = 0 THEN <<>> ELSE f[i - 1] \o seqs[i]]
<1>1. \A k : Upto(seqs, k) = f[k]
    BY DEF Upto
<1>2. f = [i \in 0 .. Len(seqs) |-> IF i = 0 THEN <<>> ELSE f[i - 1] \o seqs[i]]
    BY UptoExists, Zenon DEF IsUpto
<1> HIDE DEF f
<1>3. \A i \in 0 .. Len(seqs) : f[i] = IF i = 0 THEN <<>> ELSE f[i - 1] \o seqs[i]
    BY <1>2, Zenon
<1>4. f[0] = <<>>
    BY <1>3
<1>5. ASSUME NEW k \in Nat, k < Len(seqs) PROVE f[k + 1] = f[k] \o seqs[k + 1]
    <2>1. PICK m : m = k + 1
        OBVIOUS
    <2>2. m \in 0 .. Len(seqs) /\ m # 0 /\ m - 1 = k
        BY <1>5, <2>1
    <2>3. f[m] = f[m - 1] \o seqs[m]
        BY <1>3, <2>2, Zenon
    <2> QED
        BY <2>1, <2>2, <2>3, Zenon
<1> QED
    BY <1>1, <1>4, <1>5, Zenon

\* A sequence of sequences, and what its parts one behind the other are.
LEMMA UptoType ==
    ASSUME NEW S, NEW seqs \in Seq(Seq(S)), NEW k \in 0 .. Len(seqs)
    PROVE  Upto(seqs, k) \in Seq(S)
<1> DEFINE G == {n \in Nat : n <= Len(seqs) => Upto(seqs, n) \in Seq(S)}
<1>0. Len(seqs) \in Nat /\ \A i \in 1 .. Len(seqs) : seqs[i] \in Seq(S)
    OBVIOUS
<1>1. 0 \in G
    <2>1. Upto(seqs, 0) = <<>>
        BY <1>0, UptoStep, Zenon
    <2>2. <<>> \in Seq(S)
        OBVIOUS
    <2> QED
        BY <2>1, <2>2
<1>2. ASSUME NEW n \in Nat, n \in G PROVE n + 1 \in G
    <2> SUFFICES ASSUME n + 1 <= Len(seqs) PROVE Upto(seqs, n + 1) \in Seq(S)
        OBVIOUS
    <2>1. n + 1 \in 1 .. Len(seqs) /\ n < Len(seqs) /\ n <= Len(seqs)
        BY <1>0
    <2>2. Upto(seqs, n + 1) = Upto(seqs, n) \o seqs[n + 1]
        BY <1>0, <2>1, UptoStep, Zenon
    <2>3. Upto(seqs, n) \in Seq(S) /\ seqs[n + 1] \in Seq(S)
        BY <1>0, <1>2, <2>1
    <2>4. Upto(seqs, n) \o seqs[n + 1] \in Seq(S)
        BY <2>3
    <2> QED
        BY <2>2, <2>4, Zenon
<1> HIDE DEF G
<1>3. Nat \subseteq G
    BY <1>1, <1>2, Numbers
<1> QED
    BY <1>0, <1>3 DEF G

\* The next part begins behind those before it.
LEMMA UptoNext ==
    ASSUME NEW S, NEW seqs \in Seq(Seq(S)), NEW k \in Nat, k < Len(seqs)
    PROVE  /\ Upto(seqs, k + 1) = Upto(seqs, k) \o seqs[k + 1]
           /\ Upto(seqs, k) \in Seq(S) /\ Upto(seqs, k + 1) \in Seq(S) /\ seqs[k + 1] \in Seq(S)
           /\ Len(Upto(seqs, k + 1)) = Len(Upto(seqs, k)) + Len(seqs[k + 1])
           /\ \A i \in 1 .. Len(Upto(seqs, k)) : Upto(seqs, k + 1)[i] = Upto(seqs, k)[i]
           /\ \A j \in 1 .. Len(seqs[k + 1]) : Upto(seqs, k + 1)[Len(Upto(seqs, k)) + j] = seqs[k + 1][j]
<1>1. /\ Upto(seqs, k + 1) = Upto(seqs, k) \o seqs[k + 1]
      /\ Upto(seqs, k) \in Seq(S) /\ seqs[k + 1] \in Seq(S)
    <2>1. k \in 0 .. Len(seqs) /\ seqs[k + 1] \in Seq(S) /\ Len(seqs) \in Nat
        OBVIOUS
    <2> QED
        BY <2>1, UptoStep, UptoType, Zenon
<1>2. PICK a, b, c : a = Upto(seqs, k) /\ b = seqs[k + 1] /\ c = Upto(seqs, k + 1)
    OBVIOUS
<1>3. a \in Seq(S) /\ b \in Seq(S) /\ c = a \o b
    BY <1>1, <1>2, Zenon
<1>4. /\ c \in Seq(S) /\ Len(c) = Len(a) + Len(b)
      /\ \A i \in 1 .. Len(a) : c[i] = a[i]
      /\ \A j \in 1 .. Len(b) : c[Len(a) + j] = b[j]
    BY <1>3
<1> QED
    BY <1>2, <1>3, <1>4, Zenon

LEMMA UptoPlace ==
    ASSUME NEW S, NEW seqs \in Seq(Seq(S)), NEW i \in 1 .. Len(seqs), NEW k \in i .. Len(seqs)
    PROVE  /\ Len(Upto(seqs, i)) <= Len(Upto(seqs, k))
           /\ \A j \in 1 .. Len(Upto(seqs, i)) : Upto(seqs, k)[j] = Upto(seqs, i)[j]
<1> DEFINE Place(n) == /\ Len(Upto(seqs, i)) <= Len(Upto(seqs, n))
                       /\ \A j \in 1 .. Len(Upto(seqs, i)) : Upto(seqs, n)[j] = Upto(seqs, i)[j]
           G == {n \in Nat : n \in i .. Len(seqs) => Place(n)}
<1>0. Len(seqs) \in Nat /\ Upto(seqs, i) \in Seq(S)
    BY UptoType
<1>1. Place(i)
    BY <1>0
<1>2. ASSUME NEW n \in Nat, n \in i .. Len(seqs) => Place(n), n + 1 \in i .. Len(seqs)
      PROVE  Place(n + 1)
    <2>1. CASE n + 1 = i
        BY <1>1, <2>1
    <2>2. CASE n + 1 # i
        <3>1. n \in i .. Len(seqs) /\ n < Len(seqs)
            BY <1>0, <1>2, <2>2
        <3>2. Place(n)
            BY <1>2, <3>1
        <3>3. /\ Len(Upto(seqs, n + 1)) = Len(Upto(seqs, n)) + Len(seqs[n + 1])
              /\ seqs[n + 1] \in Seq(S) /\ Upto(seqs, n) \in Seq(S)
              /\ \A j \in 1 .. Len(Upto(seqs, n)) : Upto(seqs, n + 1)[j] = Upto(seqs, n)[j]
            BY <3>1, UptoNext, Zenon
        <3> HIDE DEF Place
        <3>4. /\ Len(Upto(seqs, i)) <= Len(Upto(seqs, n))
              /\ \A j \in 1 .. Len(Upto(seqs, i)) : Upto(seqs, n)[j] = Upto(seqs, i)[j]
            BY <3>2 DEF Place
        <3>5. Len(Upto(seqs, i)) \in Nat /\ Len(Upto(seqs, n)) \in Nat /\ Len(seqs[n + 1]) \in Nat
            BY <1>0, <3>3
        <3>6. Len(Upto(seqs, i)) <= Len(Upto(seqs, n + 1))
            <4>1. PICK e, f, g, h : /\ e = Len(Upto(seqs, i)) /\ f = Len(Upto(seqs, n))
                                    /\ g = Len(seqs[n + 1]) /\ h = Len(Upto(seqs, n + 1))
                OBVIOUS
            <4>2. e \in Nat /\ f \in Nat /\ g \in Nat /\ h = f + g /\ e <= f
                BY <3>3, <3>4, <3>5, <4>1, Zenon
            <4>3. e <= h
                BY <4>2
            <4> QED
                BY <4>1, <4>3, Zenon
        <3>7. \A j \in 1 .. Len(Upto(seqs, i)) : j \in 1 .. Len(Upto(seqs, n))
            BY <3>4, <3>5
        <3>8. \A j \in 1 .. Len(Upto(seqs, i)) : Upto(seqs, n + 1)[j] = Upto(seqs, i)[j]
            BY <3>3, <3>4, <3>7
        <3> QED
            BY <3>6, <3>8 DEF Place
    <2> QED
        BY <2>1, <2>2
<1> HIDE DEF Place
<1>3. 0 \in G
    OBVIOUS
<1>4. \A n \in Nat : n \in G => n + 1 \in G
    <2> TAKE n \in Nat
    <2> HAVE n \in G
    <2>1. n \in i .. Len(seqs) => Place(n)
        OBVIOUS
    <2>2. n + 1 \in i .. Len(seqs) => Place(n + 1)
        BY <1>2, <2>1, Zenon
    <2> QED
        BY <2>2
<1> HIDE DEF G
<1>5. Nat \subseteq G
    BY <1>3, <1>4, Numbers
<1> QED
    BY <1>0, <1>5 DEF G, Place

\* FlattenSeq is all of them.
LEMMA FlattenUpto ==
    ASSUME NEW S, NEW seqs \in Seq(Seq(S))
    PROVE  FlattenSeq(seqs) = Upto(seqs, Len(seqs)) /\ FlattenSeq(seqs) \in Seq(S)
<1>0. Len(seqs) \in Nat /\ \A i \in 1 .. Len(seqs) : seqs[i] \in Seq(S)
    OBVIOUS
<1>1. CASE Len(seqs) = 0
    <2>1. FlattenSeq(seqs) = seqs /\ seqs = <<>>
        BY <1>1 DEF FlattenSeq
    <2>2. Upto(seqs, 0) = <<>>
        BY <1>0, UptoStep, Zenon
    <2> QED
        BY <1>0, <1>1, <2>1, <2>2
<1>2. CASE Len(seqs) # 0
    <2> DEFINE f == CHOOSE f : f = [i \in 1 .. Len(seqs) |-> IF i = 1 THEN seqs[i] ELSE f[i - 1] \o seqs[i]]
               g == [i \in 1 .. Len(seqs) |-> Upto(seqs, i)]
    <2>1. FlattenSeq(seqs) = f[Len(seqs)]
        BY <1>2 DEF FlattenSeq
    <2>2. \A i \in 1 .. Len(seqs) : g[i] = IF i = 1 THEN seqs[i] ELSE g[i - 1] \o seqs[i]
        <3> TAKE i \in 1 .. Len(seqs)
        <3>1. Upto(seqs, i) = Upto(seqs, i - 1) \o seqs[i] /\ Upto(seqs, 0) = <<>>
            <4>1. PICK m : m = i - 1
                OBVIOUS
            <4>2. m \in Nat /\ m < Len(seqs) /\ m + 1 = i
                BY <1>0, <4>1
            <4>3. Upto(seqs, m + 1) = Upto(seqs, m) \o seqs[m + 1] /\ Upto(seqs, 0) = <<>>
                BY <1>0, <4>2, UptoStep, Zenon
            <4> QED
                BY <4>1, <4>2, <4>3, Zenon
        <3>2. CASE i = 1
            <4>1. <<>> \o seqs[i] = seqs[i]
                BY <1>0
            <4>2. Upto(seqs, i) = <<>> \o seqs[i]
                BY <3>1, <3>2
            <4> QED
                BY <3>2, <4>1, <4>2
        <3>3. CASE i # 1
            <4>1. i - 1 \in 1 .. Len(seqs)
                BY <3>3
            <4> QED
                BY <3>1, <3>3, <4>1
        <3> QED
            BY <3>2, <3>3
    <2>3. g = [i \in 1 .. Len(seqs) |-> IF i = 1 THEN seqs[i] ELSE g[i - 1] \o seqs[i]]
        <3> HIDE DEF g
        <3>1. g = [i \in 1 .. Len(seqs) |-> g[i]]
            BY DEF g
        <3> QED
            BY <2>2, <3>1, Zenon
    <2> HIDE DEF g
    <2>4. f = [i \in 1 .. Len(seqs) |-> IF i = 1 THEN seqs[i] ELSE f[i - 1] \o seqs[i]]
        BY <2>3, Zenon
    <2> HIDE DEF f
    <2>5. \A i \in 1 .. Len(seqs) : f[i] = IF i = 1 THEN seqs[i] ELSE f[i - 1] \o seqs[i]
        BY <2>4, Zenon
    <2> DEFINE G == {n \in Nat : n \in 1 .. Len(seqs) => f[n] = Upto(seqs, n)}
    <2>6. 0 \in G
        OBVIOUS
    <2>7. ASSUME NEW n \in Nat, n \in G, n + 1 \in 1 .. Len(seqs) PROVE f[n + 1] = Upto(seqs, n + 1)
        <3>0. n < Len(seqs)
            BY <1>0, <2>7
        <3>1. Upto(seqs, n + 1) = Upto(seqs, n) \o seqs[n + 1] /\ Upto(seqs, 0) = <<>>
            BY <1>0, <3>0, UptoStep, Zenon
        <3>2. CASE n = 0
            <4>1. f[n + 1] = seqs[n + 1]
                BY <2>5, <2>7, <3>2
            <4>2. <<>> \o seqs[n + 1] = seqs[n + 1]
                BY <1>0, <2>7
            <4>3. Upto(seqs, n) = <<>>
                BY <3>1, <3>2
            <4> QED
                BY <3>1, <4>1, <4>2, <4>3, Zenon
        <3>3. CASE n # 0
            <4>1. n \in 1 .. Len(seqs)
                BY <1>0, <2>7, <3>3
            <4>2. f[n + 1] = f[n] \o seqs[n + 1]
                <5>1. PICK m : m = n + 1
                    OBVIOUS
                <5>2. m \in 1 .. Len(seqs) /\ m # 1 /\ m - 1 = n
                    BY <2>7, <4>1, <5>1
                <5>3. f[m] = f[m - 1] \o seqs[m]
                    BY <2>5, <5>2, Zenon
                <5> QED
                    BY <5>1, <5>2, <5>3, Zenon
            <4>3. f[n] = Upto(seqs, n)
                BY <2>7, <4>1
            <4> QED
                BY <3>1, <4>1, <4>2, <4>3
        <3> QED
            BY <3>2, <3>3
    <2>8. \A n \in Nat : n \in G => n + 1 \in G
        <3> TAKE n \in Nat
        <3> HAVE n \in G
        <3>1. n + 1 \in 1 .. Len(seqs) => f[n + 1] = Upto(seqs, n + 1)
            BY <2>7, Zenon
        <3> QED
            BY <3>1
    <2> HIDE DEF G
    <2>9. Nat \subseteq G
        BY <2>6, <2>8, Numbers
    <2>10. Len(seqs) \in Nat /\ Len(seqs) \in 1 .. Len(seqs) /\ Len(seqs) \in 0 .. Len(seqs)
        BY <1>0, <1>2
    <2>11. f[Len(seqs)] = Upto(seqs, Len(seqs))
        BY <2>9, <2>10 DEF G
    <2> QED
        BY <2>1, <2>10, <2>11, UptoType
<1> QED
    BY <1>1, <1>2

-----------------------------------------------------------------------------
(***************************************************************************)
(* What is written: the tokens of each declaration and their places        *)
(***************************************************************************)

NoWord == Lexeme \ Reserved
One(condition) == IF condition THEN 1 ELSE 0

LEMMA Words ==
    /\ \A w \in Reserved : w \in Lexeme
    /\ \A w \in Keywords : Word(w) \in Token
    /\ Mark(Comma) \in Token /\ Equals \in Token
    /\ \A x \in NoWord : Name(x) \in Token /\ x \in Lexeme
    /\ TypeName \subseteq Token /\ Inside \subseteq Token
<1>1. \A w \in Reserved : w \in Lexeme
    BY ParserAssumption DEF ParserAssumption
<1>2. \A w \in Keywords : w \in Reserved
    BY DEF Reserved
<1>3. Comma \in Reserved /\ "=" \in Reserved
    BY DEF Reserved
<1>4. \A w \in Keywords : Word(w) \in Token /\ Word(w).kind = "keyword" /\ Word(w).value = w
    BY <1>1, <1>2 DEF Token, Word
<1>5. Mark(Comma) \in Token /\ Equals \in Token
    BY <1>1, <1>3 DEF Token, Mark, Equals
<1>6. \A x \in NoWord : Name(x) \in Token /\ x \in Lexeme
    BY DEF NoWord, Name, Token
<1>7. TypeName \subseteq Token /\ Inside \subseteq Token
    BY DEF TypeName, Token, Inside
<1> QED
    BY <1>1, <1>4, <1>5, <1>6, <1>7

LEMMA Ones ==
    ASSUME NEW b \in BOOLEAN, NEW c, c = One(b)
    PROVE  c \in {0, 1} /\ (c = 1 <=> b) /\ (b => c = 1) /\ (~b => c = 0)
BY DEF One

Joins(r, p, q) == r = p \o q
JoinsOne(r, p, x) == r = p \o <<x>>
BothIn(r, p, q) == /\ Len(r) = Len(p) + Len(q)
                   /\ \A i \in 1 .. Len(p) : r[i] = p[i]
                   /\ \A i \in 1 .. Len(q) : r[Len(p) + i] = q[i]
IfWord(p, b, x) == p = Optional(b, <<x>>)

LEMMA Joined ==
    ASSUME NEW S, NEW p \in Seq(S), NEW q \in Seq(S), NEW r, Joins(r, p, q)
    PROVE  r \in Seq(S) /\ BothIn(r, p, q)
BY DEF Joins, BothIn

LEMMA JoinedOne ==
    ASSUME NEW S, NEW p \in Seq(S), NEW x \in S, NEW r, JoinsOne(r, p, x)
    PROVE  /\ r \in Seq(S) /\ Len(r) = Len(p) + 1 /\ r[Len(p) + 1] = x
           /\ \A i \in 1 .. Len(p) : r[i] = p[i]
BY DEF JoinsOne

LEMMA OptionalWord ==
    ASSUME NEW S, NEW b \in BOOLEAN, NEW x \in S, NEW p, IfWord(p, b, x)
    PROVE  p \in Seq(S) /\ Len(p) = One(b) /\ (b => p[1] = x)
<1>1. CASE b
    BY <1>1 DEF IfWord, Optional, One
<1>2. CASE ~b
    BY <1>2 DEF IfWord, Optional, One
<1> QED
    BY <1>1, <1>2

IsWritten(v, c, a, w) == c = One(v.constant) /\ a = One(v.array) /\ w = WrittenVariable(v)

VariablePlaces(v, c, a, w) ==
    /\ c \in {0, 1} /\ a \in {0, 1} /\ w \in Seq(Token)
    /\ v.value \in Seq(Inside) /\ v.type \in TypeName /\ v.name \in NoWord
    /\ Len(v.value) \in Nat /\ (v.value = <<>> => Len(v.value) = 0 /\ Len(w) = c + a + 2)
    /\ v.value # <<>> => Len(w) = c + a + 3 + Len(v.value)
    /\ (c = 1 <=> v.constant) /\ (a = 1 <=> v.array)
    /\ v.constant => w[1] = Word("constant")
    /\ v.array => w[c + 2] = Word("array")
    /\ w[c + 1] = v.type /\ w[c + a + 2] = Name(v.name)
    /\ v.value # <<>> => w[c + a + 3] = Equals
    /\ \A j \in 1 .. Len(v.value) : w[c + a + 3 + j] = v.value[j]

LEMMA VariableWritten ==
    ASSUME NEW v \in DeclaredVariable(BOOLEAN), NEW c, NEW a, NEW w, IsWritten(v, c, a, w)
    PROVE  VariablePlaces(v, c, a, w)
<1>1. /\ v.value \in Seq(Inside) /\ v.type \in TypeName /\ v.name \in NoWord
      /\ v.constant \in BOOLEAN /\ v.array \in BOOLEAN
    BY DEF DeclaredVariable, NoWord
<1>2. /\ c \in {0, 1} /\ (c = 1 <=> v.constant)
      /\ a \in {0, 1} /\ (a = 1 <=> v.array)
    BY <1>1, Ones DEF IsWritten
<1>3. PICK x, y, z, u : x = Word("constant") /\ y = v.type /\ z = Word("array") /\ u = Name(v.name)
    OBVIOUS
<1>4. x \in Token /\ y \in Token /\ z \in Token /\ u \in Token
    <2>1. "constant" \in Keywords /\ "array" \in Keywords
        BY DEF Keywords
    <2> QED
        BY <1>1, <1>3, <2>1, Words
<1>5. PICK p1, p2, q1, q2, h, e :
         /\ IfWord(p1, v.constant, x) /\ IfWord(p2, v.array, z)
         /\ JoinsOne(q1, p1, y) /\ Joins(q2, q1, p2) /\ JoinsOne(h, q2, u)
         /\ e = Optional(v.value # <<>>, <<Equals>> \o v.value)
    BY Zenon DEF IfWord, JoinsOne, Joins
<1>6. Joins(w, h, e)
    BY <1>3, <1>5, Zenon DEF IsWritten, WrittenVariable, IfWord, JoinsOne, Joins
<1>7. /\ h \in Seq(Token) /\ Len(h) = c + a + 2
      /\ v.constant => h[1] = x
      /\ v.array => h[c + 2] = z
      /\ h[c + 1] = y /\ h[c + a + 2] = u
    <2>1. p1 \in Seq(Token) /\ Len(p1) = c /\ (v.constant => p1[1] = x)
        BY <1>1, <1>4, <1>5, OptionalWord DEF IsWritten
    <2>2. p2 \in Seq(Token) /\ Len(p2) = a /\ (v.array => p2[1] = z)
        BY <1>1, <1>4, <1>5, OptionalWord DEF IsWritten
    <2>3. q1 \in Seq(Token) /\ Len(q1) = c + 1 /\ q1[c + 1] = y /\ \A i \in 1 .. c : q1[i] = p1[i]
        BY <1>4, <1>5, <2>1, JoinedOne
    <2>4. v.constant => q1[1] = x
        <3> SUFFICES ASSUME v.constant PROVE q1[1] = x
            OBVIOUS
        <3>0. c = 1
            BY <1>2, Zenon
        <3>1. 1 \in 1 .. c
            BY <3>0
        <3> QED
            BY <2>1, <2>3, <3>1
    <2>5. /\ q2 \in Seq(Token) /\ Len(q2) = c + 1 + a
          /\ \A i \in 1 .. c + 1 : q2[i] = q1[i]
          /\ \A i \in 1 .. a : q2[c + 1 + i] = p2[i]
        <3>1. /\ q2 \in Seq(Token) /\ Len(q2) = Len(q1) + Len(p2)
              /\ \A i \in 1 .. Len(q1) : q2[i] = q1[i]
              /\ \A i \in 1 .. Len(p2) : q2[Len(q1) + i] = p2[i]
            <4>1. q2 \in Seq(Token) /\ BothIn(q2, q1, p2)
                BY <1>5, <2>2, <2>3, Joined
            <4> QED
                BY <4>1, Zenon DEF BothIn
        <3> QED
            BY <2>2, <2>3, <3>1, Zenon
    <2>6. 1 \in 1 .. c + 1 /\ c + 1 \in 1 .. c + 1 /\ (v.array => 1 \in 1 .. a) /\ c + 1 + 1 = c + 2
        BY <1>2
    <2>7. q2[c + 1] = y /\ (v.constant => q2[1] = x) /\ (v.array => q2[c + 2] = z)
        BY <2>2, <2>3, <2>4, <2>5, <2>6
    <2>8. /\ h \in Seq(Token) /\ Len(h) = c + 1 + a + 1 /\ h[c + 1 + a + 1] = u
          /\ \A i \in 1 .. c + 1 + a : h[i] = q2[i]
        BY <1>4, <1>5, <2>5, JoinedOne
    <2>9. /\ 1 \in 1 .. c + 1 + a /\ c + 1 \in 1 .. c + 1 + a /\ (v.array => c + 2 \in 1 .. c + 1 + a)
          /\ c + 1 + a + 1 = c + a + 2
        BY <1>2
    <2> QED
        BY <2>7, <2>8, <2>9
<1>8. /\ e \in Seq(Token) /\ Len(e) = (IF v.value = <<>> THEN 0 ELSE 1 + Len(v.value))
      /\ v.value # <<>> => e[1] = Equals
      /\ \A j \in 1 .. Len(v.value) : e[1 + j] = v.value[j]
    <2>1. v.value \in Seq(Token) /\ Equals \in Token
        BY <1>1, Words
    <2>2. CASE v.value = <<>>
        <3>1. e = <<>>
            BY <1>5, <2>2, Zenon DEF Optional
        <3> QED
            BY <2>1, <2>2, <3>1
    <2>3. CASE v.value # <<>>
        <3>1. e = <<Equals>> \o v.value
            BY <1>5, <2>3, Zenon DEF Optional
        <3> QED
            BY <2>1, <2>3, <3>1
    <2> QED
        BY <2>2, <2>3
<1>9. /\ w \in Seq(Token) /\ Len(w) = Len(h) + Len(e)
      /\ \A i \in 1 .. Len(h) : w[i] = h[i]
      /\ \A j \in 1 .. Len(e) : w[Len(h) + j] = e[j]
    <2>1. w \in Seq(Token) /\ BothIn(w, h, e)
        BY <1>6, <1>7, <1>8, Joined
    <2> QED
        BY <2>1, Zenon DEF BothIn
<1>10. /\ v.constant => w[1] = x
       /\ v.array => w[c + 2] = z
       /\ w[c + 1] = y /\ w[c + a + 2] = u
    <2>1. /\ 1 \in 1 .. c + a + 2 /\ c + 1 \in 1 .. c + a + 2 /\ c + 2 \in 1 .. c + a + 2
          /\ c + a + 2 \in 1 .. c + a + 2
        BY <1>2
    <2> QED
        BY <1>7, <1>9, <2>1
<1>11. /\ v.value # <<>> => w[c + a + 3] = Equals
       /\ \A j \in 1 .. Len(v.value) : w[c + a + 3 + j] = v.value[j]
    <2>0. Len(v.value) \in Nat /\ (v.value = <<>> => Len(v.value) = 0)
        BY <1>1
    <2>1. ASSUME v.value # <<>> PROVE w[c + a + 3] = Equals
        <3>1. 1 \in 1 .. Len(e) /\ Len(h) + 1 = c + a + 3
            BY <1>2, <1>7, <1>8, <2>0, <2>1
        <3> QED
            BY <1>8, <1>9, <2>1, <3>1
    <2>2. ASSUME NEW j \in 1 .. Len(v.value) PROVE w[c + a + 3 + j] = v.value[j]
        <3>1. Len(e) = 1 + Len(v.value)
            BY <1>8, <2>0
        <3>2. 1 + j \in 1 .. Len(e) /\ Len(h) + (1 + j) = c + a + 3 + j
            BY <1>2, <1>7, <2>0, <3>1
        <3> QED
            BY <1>8, <1>9, <3>2
    <2> QED
        BY <2>1, <2>2
<1>12. /\ Len(v.value) \in Nat /\ (v.value = <<>> => Len(v.value) = 0 /\ Len(w) = c + a + 2)
       /\ v.value # <<>> => Len(w) = c + a + 3 + Len(v.value)
    <2>1. Len(v.value) \in Nat /\ (v.value = <<>> => Len(v.value) = 0)
        BY <1>1
    <2>2. /\ v.value = <<>> => Len(e) = 0
          /\ v.value # <<>> => Len(e) = 1 + Len(v.value)
        BY <1>8, Zenon
    <2>3. Len(w) = c + a + 2 + Len(e)
        BY <1>7, <1>9, Zenon
    <2>4. PICK l, m, o : l = Len(w) /\ m = Len(e) /\ o = Len(v.value)
        OBVIOUS
    <2>5. c \in Nat /\ a \in Nat
        BY <1>2
    <2>6. ASSUME v.value = <<>> PROVE o = 0 /\ l = c + a + 2
        <3>1. l = c + a + 2 + m /\ m = 0 /\ o = 0
            BY <2>1, <2>2, <2>3, <2>4, <2>6, Zenon
        <3> QED
            BY <2>5, <3>1
    <2>7. ASSUME v.value # <<>> PROVE l = c + a + 3 + o
        <3>1. l = c + a + 2 + m /\ m = 1 + o /\ o \in Nat
            BY <2>1, <2>2, <2>3, <2>4, <2>7, Zenon
        <3> QED
            BY <2>5, <3>1
    <2> QED
        BY <2>1, <2>4, <2>6, <2>7, Zenon
<1> QED
    BY <1>1, <1>2, <1>3, <1>9, <1>10, <1>11, <1>12, Zenon DEF VariablePlaces

\* Behind a statement's beginning: a local up to its value, any other one word.
Begun(s) == IF s.kind = "local" THEN 3 + One(s.variable.array) + One(s.variable.value # <<>>) ELSE 1

LEMMA BodyParts ==
    ASSUME NEW s \in BodyPart
    PROVE  \/ s.kind = "local" /\ s.variable \in DeclaredVariable(BOOLEAN) /\ s.variable.constant = FALSE
           \/ s.kind = "other" /\ s.tokens \in Seq(Inside) /\ s.tokens # <<>> /\ s.tokens[1].value # "="
<1>1. CASE s \in [kind : {"local"}, variable : DeclaredVariable({FALSE})]
    <2>1. s.kind = "local" /\ s.variable \in DeclaredVariable({FALSE})
        BY <1>1
    <2>2. PICK v : v = s.variable
        OBVIOUS
    <2>3. v \in DeclaredVariable(BOOLEAN) /\ v.constant = FALSE
        BY <2>1, <2>2 DEF DeclaredVariable
    <2> QED
        BY <2>1, <2>2, <2>3
<1>2. CASE s \in {x \in [kind : {"other"}, tokens : Seq(Inside)] : x.tokens # <<>> /\ x.tokens[1].value # "="}
    BY <1>2
<1> QED
    BY <1>1, <1>2 DEF BodyPart

IsLocal(s, v, a, t) == s.kind = "local" /\ v = s.variable /\ a = One(v.array) /\ t = WrittenStatement(s)
LocalPlaces(v, a, t) ==
    /\ v.value \in Seq(Inside) /\ v.type \in TypeName /\ v.name \in NoWord
    /\ a \in {0, 1} /\ t \in Seq(Token) /\ (a = 1 <=> v.array)
    /\ Len(v.value) \in Nat /\ (v.value = <<>> => Len(v.value) = 0 /\ Len(t) = 3 + a)
    /\ v.value # <<>> => Len(t) = 4 + a + Len(v.value)
    /\ t[1] = Word("local") /\ t[2] = v.type /\ (v.array => t[3] = Word("array")) /\ t[3 + a] = Name(v.name)
    /\ v.value # <<>> => t[4 + a] = Equals
    /\ \A j \in 1 .. Len(v.value) : t[4 + a + j] = v.value[j]

LEMMA LocalWritten ==
    ASSUME NEW s \in BodyPart, NEW v, NEW a, NEW t, IsLocal(s, v, a, t)
    PROVE  LocalPlaces(v, a, t)
<1>1. v \in DeclaredVariable(BOOLEAN) /\ v.constant = FALSE /\ s.kind = "local"
    BY BodyParts DEF IsLocal
<1>2. PICK w : w = WrittenVariable(v)
    OBVIOUS
<1>3. IsWritten(v, 0, a, w)
    BY <1>1, <1>2 DEF IsWritten, IsLocal, One
<1>4. /\ a \in {0, 1} /\ w \in Seq(Token)
      /\ v.value \in Seq(Inside) /\ v.type \in TypeName /\ v.name \in NoWord
      /\ Len(v.value) \in Nat /\ (v.value = <<>> => Len(v.value) = 0 /\ Len(w) = 0 + a + 2)
      /\ v.value # <<>> => Len(w) = 0 + a + 3 + Len(v.value)
      /\ (a = 1 <=> v.array)
      /\ v.array => w[0 + 2] = Word("array")
      /\ w[0 + 1] = v.type /\ w[0 + a + 2] = Name(v.name)
      /\ v.value # <<>> => w[0 + a + 3] = Equals
      /\ \A j \in 1 .. Len(v.value) : w[0 + a + 3 + j] = v.value[j]
    <2>1. VariablePlaces(v, 0, a, w)
        BY <1>1, <1>3, VariableWritten, Zenon
    <2> QED
        BY <2>1, Zenon DEF VariablePlaces
<1>5. PICK x, e, y, z : x = Word("local") /\ e = Equals /\ y = Name(v.name) /\ z = Word("array")
    OBVIOUS
<1>6. t = <<x>> \o w
    BY <1>1, <1>2, <1>5, Zenon DEF WrittenStatement, IsLocal
<1>7. x \in Token
    BY <1>5, Words DEF Keywords
<1>8. t \in Seq(Token) /\ Len(t) = 1 + Len(w) /\ t[1] = x /\ \A j \in 1 .. Len(w) : t[1 + j] = w[j]
    BY <1>4, <1>6, <1>7
<1>9. PICK m, n : m = Len(w) /\ n = Len(v.value)
    OBVIOUS
<1>14. /\ a \in {0, 1} /\ n \in Nat
       /\ v.value = <<>> => n = 0 /\ m = 0 + a + 2
       /\ v.value # <<>> => m = 0 + a + 3 + n
    BY <1>4, <1>9, Zenon
<1>15. m \in Nat /\ m >= a + 2 /\ (v.value # <<>> => m = a + 3 + n)
    BY <1>14
<1>10. t[2] = v.type /\ t[3 + a] = y /\ (v.array => t[3] = z)
    <2>1. 1 \in 1 .. Len(w) /\ 2 \in 1 .. Len(w) /\ a + 2 \in 1 .. Len(w) /\ 1 + (a + 2) = 3 + a
        BY <1>9, <1>14, <1>15
    <2>2. t[1 + 1] = w[1] /\ t[1 + 2] = w[2] /\ t[1 + (a + 2)] = w[a + 2]
        BY <1>8, <2>1
    <2> QED
        BY <1>4, <1>5, <2>1, <2>2
<1>11. ASSUME v.value # <<>> PROVE t[4 + a] = e
    <2>1. a + 3 \in 1 .. Len(w) /\ 1 + (a + 3) = 4 + a /\ 0 + a + 3 = a + 3
        <3>1. m = a + 3 + n
            BY <1>11, <1>15, Zenon
        <3>2. a + 3 \in 1 .. m /\ 1 + (a + 3) = 4 + a /\ 0 + a + 3 = a + 3
            BY <1>14, <3>1
        <3> QED
            BY <1>9, <3>2, Zenon
    <2>2. t[1 + (a + 3)] = w[a + 3]
        BY <1>8, <2>1
    <2> QED
        BY <1>4, <1>5, <1>11, <2>1, <2>2
<1>12. ASSUME NEW j \in 1 .. Len(v.value) PROVE t[4 + a + j] = v.value[j]
    <2>1. v.value # <<>> /\ j \in 1 .. n
        BY <1>9, <1>12, <1>14
    <2>2. a + 3 + j \in 1 .. Len(w) /\ 1 + (a + 3 + j) = 4 + a + j /\ 0 + a + 3 + j = a + 3 + j
        <3>1. m = a + 3 + n /\ j \in 1 .. n /\ a \in {0, 1} /\ n \in Nat
            BY <1>14, <1>15, <2>1, Zenon
        <3>2. a + 3 + j \in 1 .. m /\ 1 + (a + 3 + j) = 4 + a + j /\ 0 + a + 3 + j = a + 3 + j
            BY <3>1
        <3> QED
            BY <1>9, <3>2, Zenon
    <2>3. t[1 + (a + 3 + j)] = w[a + 3 + j]
        BY <1>8, <2>2
    <2> QED
        BY <1>4, <2>2, <2>3
<1>13. (v.value = <<>> => Len(v.value) = 0 /\ Len(t) = 3 + a) /\ (v.value # <<>> => Len(t) = 4 + a + Len(v.value))
    <2>1. Len(t) = 1 + m
        BY <1>8, <1>9, Zenon
    <2>2. CASE v.value = <<>>
        <3>1. n = 0 /\ m = 0 + a + 2
            BY <1>14, <2>2, Zenon
        <3> QED
            BY <1>9, <1>14, <2>1, <2>2, <3>1
    <2>3. CASE v.value # <<>>
        <3>1. m = a + 3 + n
            BY <1>15, <2>3, Zenon
        <3>2. Len(t) = 4 + a + n
            BY <1>14, <2>1, <3>1
        <3> QED
            BY <1>9, <2>3, <3>2, Zenon
    <2> QED
        BY <2>2, <2>3
<1> QED
    BY <1>4, <1>5, <1>8, <1>10, <1>11, <1>12, <1>13 DEF LocalPlaces

StatementPlaces(s, t) ==
    /\ t \in Seq(Token) /\ Begun(s) \in 1 .. Len(t) /\ \A j \in Begun(s) + 1 .. Len(t) : t[j] \in Inside
    /\ s.kind # "local" => t[1] \in Inside /\ t[1].value # "=" /\ Begun(s) = 1

LEMMA StatementWritten ==
    ASSUME NEW s \in BodyPart, NEW t, t = WrittenStatement(s)
    PROVE  StatementPlaces(s, t)
<1>1. CASE s.kind = "local"
    <2>1. PICK v, a : v = s.variable /\ a = One(v.array)
        OBVIOUS
    <2>2. LocalPlaces(v, a, t)
        BY <1>1, <2>1, LocalWritten DEF IsLocal
    <2>3. v.value \in Seq(Inside) /\ t \in Seq(Token) /\ \A j \in 1 .. Len(v.value) : t[4 + a + j] = v.value[j]
        BY <2>2 DEF LocalPlaces
    <2>4. PICK m, n : m = Len(t) /\ n = Len(v.value)
        OBVIOUS
    <2>5. /\ a \in {0, 1} /\ n \in Nat
          /\ v.value = <<>> => n = 0 /\ m = 3 + a
          /\ v.value # <<>> => m = 4 + a + n
        BY <2>2, <2>4, Zenon DEF LocalPlaces
    <2>6. (v.value = <<>> => Begun(s) = 3 + a + 0) /\ (v.value # <<>> => Begun(s) = 3 + a + 1)
        BY <1>1, <2>1 DEF Begun, One
    <2>7. Begun(s) \in 1 .. m
        BY <2>5, <2>6
    <2>8. ASSUME NEW j \in Begun(s) + 1 .. m PROVE t[j] \in Inside
        <3>1. PICK i : i = j - (4 + a)
            OBVIOUS
        <3>2. v.value # <<>>
            BY <2>5, <2>6
        <3>3. i \in 1 .. n /\ j = 4 + a + i
            BY <2>5, <2>6, <3>1, <3>2
        <3>4. t[j] = v.value[i] /\ v.value[i] \in Inside
            BY <2>3, <2>4, <3>3
        <3> QED
            BY <3>4
    <2> QED
        BY <1>1, <2>3, <2>4, <2>7, <2>8, Zenon DEF StatementPlaces
<1>2. CASE s.kind # "local"
    <2>1. s.tokens \in Seq(Inside) /\ s.tokens # <<>> /\ s.tokens[1].value # "="
        BY <1>2, BodyParts
    <2>2. t = s.tokens /\ Begun(s) = 1
        BY <1>2 DEF WrittenStatement, Begun
    <2>3. t \in Seq(Inside) /\ t # <<>> /\ t[1].value # "="
        BY <2>1, <2>2, Zenon
    <2>4. t \in Seq(Token) /\ Len(t) \in Nat /\ Len(t) >= 1 /\ \A j \in 1 .. Len(t) : t[j] \in Inside
        BY <2>3, Words
    <2> QED
        BY <1>2, <2>2, <2>3, <2>4 DEF StatementPlaces
<1> QED
    BY <1>1, <1>2

\* Sequences in a row between two others.
InRow(t, a, seqs, b) == t = a \o FlattenSeq(seqs) \o b
RowPlaces(t, a, seqs, b) ==
    /\ Len(t) = Len(a) + Len(Upto(seqs, Len(seqs))) + Len(b)
    /\ \A i \in 1 .. Len(a) : t[i] = a[i]
    /\ \A k \in Nat : k < Len(seqs) =>
          \A j \in 1 .. Len(seqs[k + 1]) : t[Len(a) + Len(Upto(seqs, k)) + j] = seqs[k + 1][j]
    /\ \A j \in 1 .. Len(b) : t[Len(a) + Len(Upto(seqs, Len(seqs))) + j] = b[j]

LEMMA FlatPlace ==
    ASSUME NEW S, NEW seqs \in Seq(Seq(S)), NEW f, f = FlattenSeq(seqs),
           NEW k \in Nat, k < Len(seqs), NEW j \in 1 .. Len(seqs[k + 1])
    PROVE  /\ Len(Upto(seqs, k)) \in Nat
           /\ Len(Upto(seqs, k)) + j \in 1 .. Len(f) /\ f[Len(Upto(seqs, k)) + j] = seqs[k + 1][j]
<1>1. PICK m, n, s : m = Len(Upto(seqs, k)) /\ n = Len(seqs) /\ s = seqs[k + 1]
    OBVIOUS
<1>2. n \in Nat /\ k + 1 \in 1 .. n /\ n \in k + 1 .. n
    BY <1>1
<1>3. /\ Upto(seqs, k) \in Seq(S) /\ s \in Seq(S) /\ Upto(seqs, k + 1) \in Seq(S)
      /\ Len(Upto(seqs, k + 1)) = m + Len(s) /\ Upto(seqs, k + 1)[m + j] = s[j]
    BY <1>1, UptoNext
<1>4. m \in Nat /\ Len(s) \in Nat /\ m + j \in 1 .. Len(Upto(seqs, k + 1))
    BY <1>1, <1>3
<1>5. /\ Len(Upto(seqs, k + 1)) <= Len(Upto(seqs, n))
      /\ \A i \in 1 .. Len(Upto(seqs, k + 1)) : Upto(seqs, n)[i] = Upto(seqs, k + 1)[i]
    BY <1>1, <1>2, UptoPlace
<1>6. f = Upto(seqs, n) /\ f \in Seq(S)
    BY <1>1, FlattenUpto
<1>7. Len(Upto(seqs, k + 1)) \in Nat /\ Len(f) \in Nat
    BY <1>3, <1>6
<1> QED
    BY <1>1, <1>3, <1>4, <1>5, <1>6, <1>7

LEMMA Row ==
    ASSUME NEW S, NEW a \in Seq(S), NEW seqs \in Seq(Seq(S)), NEW b \in Seq(S), NEW t, InRow(t, a, seqs, b)
    PROVE  t \in Seq(S) /\ RowPlaces(t, a, seqs, b)
<1>1. PICK f, u : f = FlattenSeq(seqs) /\ Joins(u, a, f)
    BY DEF Joins
<1>2. Joins(t, u, b)
    BY <1>1, Zenon DEF Joins, InRow
<1>3. f \in Seq(S) /\ f = Upto(seqs, Len(seqs))
    BY <1>1, FlattenUpto
<1>4. u \in Seq(S) /\ BothIn(u, a, f)
    BY <1>1, <1>3, Joined
<1>5. t \in Seq(S) /\ BothIn(t, u, b)
    BY <1>2, <1>4, Joined
<1>6. PICK l, m, n : l = Len(a) /\ m = Len(f) /\ n = Len(b)
    OBVIOUS
<1>7. l \in Nat /\ m \in Nat /\ n \in Nat
    BY <1>3, <1>6
<1>8. /\ Len(u) = l + m /\ Len(t) = l + m + n
      /\ \A i \in 1 .. l : u[i] = a[i]
      /\ \A i \in 1 .. m : u[l + i] = f[i]
      /\ \A i \in 1 .. l + m : t[i] = u[i]
      /\ \A i \in 1 .. n : t[l + m + i] = b[i]
    BY <1>4, <1>5, <1>6, Zenon DEF BothIn
<1>9. ASSUME NEW i \in 1 .. l PROVE t[i] = a[i]
    <2>1. i \in 1 .. l + m
        BY <1>7
    <2> QED
        BY <1>8, <2>1
<1>10. ASSUME NEW k \in Nat, k < Len(seqs), NEW j \in 1 .. Len(seqs[k + 1])
       PROVE  t[l + Len(Upto(seqs, k)) + j] = seqs[k + 1][j]
    <2>1. PICK o : o = Len(Upto(seqs, k))
        OBVIOUS
    <2>2. o \in Nat /\ o + j \in 1 .. m /\ f[o + j] = seqs[k + 1][j]
        BY <1>1, <1>6, <1>10, <2>1, FlatPlace
    <2>3. l + (o + j) \in 1 .. l + m /\ l + (o + j) = l + o + j
        BY <1>7, <2>2
    <2>4. t[l + (o + j)] = u[l + (o + j)] /\ u[l + (o + j)] = f[o + j]
        BY <1>8, <2>2, <2>3
    <2> QED
        BY <2>1, <2>2, <2>3, <2>4
<1> QED
    BY <1>3, <1>5, <1>6, <1>8, <1>9, <1>10, Zenon DEF RowPlaces

-----------------------------------------------------------------------------
VariableTexts(d) == [i \in DOMAIN d.variables |-> WrittenVariable(d.variables[i])]
ParamText(d, i) == Optional(i > 1, <<Mark(Comma)>>) \o <<d.params[i].type, Name(d.params[i].name)>>
ParamTexts(d) == [i \in DOMAIN d.params |-> ParamText(d, i)]
StatementTexts(d) == [i \in DOMAIN d.body |-> WrittenStatement(d.body[i])]

TypePlaces(d, t) ==
    /\ d.name \in NoWord /\ t \in Seq(Token) /\ t[1] = Word("type") /\ t[2] = Name(d.name)
    /\ d.parent = Nil => Len(t) = 2
    /\ d.parent # Nil => Len(t) = 4 /\ t[3] = Word("extends") /\ t[4] = d.parent /\ d.parent \in TypeName

LEMMA TypeWritten ==
    ASSUME NEW d \in Declaration, d.kind = "type", NEW t, t = Written(d)
    PROVE  TypePlaces(d, t)
<1>1. d \in [kind : {"type"}, name : NoWord, parent : TypeName \cup {Nil}]
    BY DEF Declaration, NoWord
<1>2. d.name \in NoWord /\ (d.parent = Nil \/ d.parent \in TypeName)
    BY <1>1
<1>3. PICK x, y, z, u : x = Word("type") /\ y = Name(d.name) /\ z = Word("extends") /\ u = d.parent
    OBVIOUS
<1>4. x \in Token /\ y \in Token /\ z \in Token /\ (u # Nil => u \in Token)
    BY <1>2, <1>3, Words DEF Keywords
<1>5. t = <<x, y>> \o Optional(u # Nil, <<z, u>>)
    BY <1>3 DEF Written
<1>6. CASE u = Nil
    <2>1. t = <<x, y>> \o <<>>
        BY <1>5, <1>6 DEF Optional
    <2>2. t \in Seq(Token) /\ Len(t) = 2 /\ t[1] = x /\ t[2] = y
        BY <1>4, <2>1
    <2> QED
        BY <1>2, <1>3, <1>6, <2>2 DEF TypePlaces
<1>7. CASE u # Nil
    <2>1. t = <<x, y>> \o <<z, u>>
        BY <1>5, <1>7 DEF Optional
    <2>2. t \in Seq(Token) /\ Len(t) = 4 /\ t[1] = x /\ t[2] = y /\ t[3] = z /\ t[4] = u
        BY <1>4, <1>7, <2>1
    <2> QED
        BY <1>2, <1>3, <1>7, <2>2 DEF TypePlaces
<1> QED
    BY <1>6, <1>7

LEMMA VariableTextsType ==
    ASSUME NEW d, d.variables \in Seq(DeclaredVariable(BOOLEAN))
    PROVE  /\ VariableTexts(d) \in Seq(Seq(Token)) /\ Len(VariableTexts(d)) = Len(d.variables)
           /\ \A i \in 1 .. Len(d.variables) : VariableTexts(d)[i] = WrittenVariable(d.variables[i])
<1>1. PICK vs, n : vs = d.variables /\ n = Len(vs)
    OBVIOUS
<1>2. vs \in Seq(DeclaredVariable(BOOLEAN)) /\ n \in Nat /\ DOMAIN vs = 1 .. n
    BY <1>1
<1>3. ASSUME NEW i \in 1 .. n PROVE WrittenVariable(vs[i]) \in Seq(Token)
    <2>1. vs[i] \in DeclaredVariable(BOOLEAN)
        BY <1>1, <1>2
    <2>2. PICK v, c, a, w : v = vs[i] /\ IsWritten(v, c, a, w)
        BY Zenon DEF IsWritten
    <2>3. VariablePlaces(v, c, a, w)
        BY <2>1, <2>2, VariableWritten
    <2>4. w \in Seq(Token)
        BY <2>3, Zenon DEF VariablePlaces
    <2> QED
        BY <2>2, <2>4, Zenon DEF IsWritten
<1>4. VariableTexts(d) = [i \in 1 .. n |-> WrittenVariable(vs[i])]
    BY <1>1, <1>2, Zenon DEF VariableTexts
<1> QED
    BY <1>1, <1>2, <1>3, <1>4

GlobalsPlaces(d, t) ==
    /\ d.variables \in Seq(DeclaredVariable(BOOLEAN)) /\ t \in Seq(Token) /\ t[1] = Word("globals")
    /\ \A k \in Nat : k < Len(d.variables) =>
          /\ Len(Upto(VariableTexts(d), k)) \in Nat
          /\ Len(Upto(VariableTexts(d), k + 1)) =
                Len(Upto(VariableTexts(d), k)) + Len(WrittenVariable(d.variables[k + 1]))
          /\ \A j \in 1 .. Len(WrittenVariable(d.variables[k + 1])) :
                t[1 + Len(Upto(VariableTexts(d), k)) + j] = WrittenVariable(d.variables[k + 1])[j]
    /\ Len(Upto(VariableTexts(d), Len(d.variables))) \in Nat
    /\ Len(t) = Len(Upto(VariableTexts(d), Len(d.variables))) + 2
    /\ t[Len(t)] = Word("endglobals")

LEMMA GlobalsWritten ==
    ASSUME NEW d \in Declaration, d.kind = "globals", NEW t, t = Written(d)
    PROVE  GlobalsPlaces(d, t)
<1>1. d.variables \in Seq(DeclaredVariable(BOOLEAN))
    BY DEF Declaration
<1>2. PICK x, y, a, b, seqs, n :
         /\ x = Word("globals") /\ y = Word("endglobals") /\ a = <<x>> /\ b = <<y>>
         /\ seqs = VariableTexts(d) /\ n = Len(d.variables)
    OBVIOUS
<1>3. x \in Token /\ y \in Token
    BY <1>2, Words DEF Keywords
<1>4. a \in Seq(Token) /\ Len(a) = 1 /\ a[1] = x /\ b \in Seq(Token) /\ Len(b) = 1 /\ b[1] = y
    BY <1>2, <1>3
<1>5. /\ seqs \in Seq(Seq(Token)) /\ Len(seqs) = n
      /\ \A i \in 1 .. n : seqs[i] = WrittenVariable(d.variables[i])
    BY <1>1, <1>2, VariableTextsType
<1>6. Map(WrittenVariable, d.variables) = seqs
    BY <1>2 DEF Map, VariableTexts
<1>7. t = <<Word("globals")>> \o FlattenSeq(Map(WrittenVariable, d.variables)) \o <<Word("endglobals")>>
    BY DEF Written
<1>8. InRow(t, a, seqs, b)
    BY <1>2, <1>6, <1>7, Zenon DEF InRow
<1>9. t \in Seq(Token) /\ RowPlaces(t, a, seqs, b)
    BY <1>4, <1>5, <1>8, Row
<1>10. n \in Nat
    BY <1>1, <1>2
<1>11. ASSUME NEW k \in Nat, k < n
       PROVE  /\ Len(Upto(seqs, k)) \in Nat
              /\ Len(Upto(seqs, k + 1)) = Len(Upto(seqs, k)) + Len(WrittenVariable(d.variables[k + 1]))
              /\ \A j \in 1 .. Len(WrittenVariable(d.variables[k + 1])) :
                    t[1 + Len(Upto(seqs, k)) + j] = WrittenVariable(d.variables[k + 1])[j]
    <2>1. PICK s : s = seqs[k + 1]
        OBVIOUS
    <2>2. s = WrittenVariable(d.variables[k + 1])
        BY <1>5, <1>10, <1>11, <2>1
    <2>3. Len(Upto(seqs, k + 1)) = Len(Upto(seqs, k)) + Len(s) /\ Upto(seqs, k) \in Seq(Token)
        BY <1>5, <1>11, <2>1, UptoNext
    <2>4. \A j \in 1 .. Len(s) : t[1 + Len(Upto(seqs, k)) + j] = s[j]
        BY <1>4, <1>5, <1>9, <1>11, <2>1, Zenon DEF RowPlaces
    <2>5. Len(Upto(seqs, k)) \in Nat
        BY <2>3
    <2> QED
        BY <2>2, <2>3, <2>4, <2>5, Zenon
<1>12. PICK m : m = Len(Upto(seqs, n))
    OBVIOUS
<1>13. m \in Nat
    BY <1>5, <1>10, <1>12, UptoType
<1>14. Len(t) = m + 2 /\ t[1] = x /\ t[Len(t)] = y
    <2>1. Len(t) = 1 + m + 1 /\ \A i \in 1 .. 1 : t[i] = a[i]
        BY <1>4, <1>5, <1>9, <1>12, Zenon DEF RowPlaces
    <2>2. \A j \in 1 .. 1 : t[1 + m + j] = b[j]
        BY <1>4, <1>5, <1>9, <1>12, Zenon DEF RowPlaces
    <2>3. 1 \in 1 .. 1 /\ 1 + m + 1 = m + 2
        BY <1>13
    <2> QED
        BY <1>4, <2>1, <2>2, <2>3
<1>15. /\ t[1] = Word("globals") /\ t[Len(t)] = Word("endglobals")
       /\ Len(Upto(seqs, n)) \in Nat /\ Len(t) = Len(Upto(seqs, n)) + 2
    BY <1>2, <1>12, <1>13, <1>14, Zenon
<1> QED
    BY <1>1, <1>2, <1>9, <1>11, <1>15, Zenon DEF GlobalsPlaces

ParamSet == [type : TypeName, name : NoWord]
IsParam(d, i, type, name, s) ==
    s = ParamText(d, i) /\ type = d.params[i].type /\ name = Name(d.params[i].name)

LEMMA ParamTextPlaces ==
    ASSUME NEW d, NEW i \in Nat, NEW type \in Token, NEW name \in Token, NEW s, IsParam(d, i, type, name, s)
    PROVE  /\ s \in Seq(Token) /\ Len(s) = One(i > 1) + 2
           /\ s[One(i > 1) + 1] = type /\ s[One(i > 1) + 2] = name
           /\ i > 1 => s[1] = Mark(Comma)
<1>1. PICK x : x = Mark(Comma)
    OBVIOUS
<1>2. x \in Token
    BY <1>1, Words
<1>3. s = Optional(i > 1, <<x>>) \o <<type, name>>
    BY <1>1, Zenon DEF ParamText, IsParam
<1>4. CASE i > 1
    <2>1. s = <<x>> \o <<type, name>>
        BY <1>3, <1>4, Zenon DEF Optional
    <2>2. s \in Seq(Token) /\ Len(s) = 3 /\ s[1] = x /\ s[2] = type /\ s[3] = name
        BY <1>2, <2>1
    <2>3. One(i > 1) = 1
        BY <1>4, Zenon DEF One
    <2> QED
        BY <1>1, <2>2, <2>3
<1>5. CASE ~ (i > 1)
    <2>1. s = <<>> \o <<type, name>>
        BY <1>3, <1>5, Zenon DEF Optional
    <2>2. s \in Seq(Token) /\ Len(s) = 2 /\ s[1] = type /\ s[2] = name
        BY <2>1
    <2>3. One(i > 1) = 0
        BY <1>5, Zenon DEF One
    <2> QED
        BY <1>5, <2>2, <2>3
<1> QED
    BY <1>4, <1>5

ParamPlaces(d, t) ==
    /\ t \in Seq(Token)
    /\ d.params = <<>> => Len(t) = 1 /\ t[1] = Word("nothing")
    /\ d.params # <<>> => Len(t) = Len(Upto(ParamTexts(d), Len(d.params)))
    /\ \A k \in Nat : k < Len(d.params) =>
          /\ d.params[k + 1].type \in TypeName /\ d.params[k + 1].name \in NoWord
          /\ Len(Upto(ParamTexts(d), k)) \in Nat
          /\ Len(Upto(ParamTexts(d), k + 1)) = Len(Upto(ParamTexts(d), k)) + One(k > 0) + 2
          /\ Len(Upto(ParamTexts(d), k)) + One(k > 0) + 2 <= Len(t)
          /\ t[Len(Upto(ParamTexts(d), k)) + One(k > 0) + 1] = d.params[k + 1].type
          /\ t[Len(Upto(ParamTexts(d), k)) + One(k > 0) + 2] = Name(d.params[k + 1].name)
          /\ k > 0 => t[Len(Upto(ParamTexts(d), k)) + 1] = Mark(Comma)

LEMMA ParamsWritten ==
    ASSUME NEW d, d.params \in Seq(ParamSet), NEW t, t = WrittenParams(d.params)
    PROVE  ParamPlaces(d, t)
<1>1. PICK ps, n : ps = d.params /\ n = Len(ps)
    OBVIOUS
<1>2. ps \in Seq(ParamSet) /\ n \in Nat /\ DOMAIN ps = 1 .. n
    BY <1>1
<1>3. ASSUME NEW i \in 1 .. n PROVE ps[i].type \in TypeName /\ ps[i].name \in NoWord
    <2>1. PICK p : p = ps[i]
        OBVIOUS
    <2>2. p \in ParamSet
        BY <1>2, <2>1
    <2> QED
        BY <2>1, <2>2 DEF ParamSet
<1>4. PICK seqs : seqs = ParamTexts(d)
    OBVIOUS
<1>5. ASSUME NEW i \in 1 .. n
      PROVE  /\ seqs[i] \in Seq(Token) /\ Len(seqs[i]) = One(i > 1) + 2
             /\ seqs[i][One(i > 1) + 1] = ps[i].type /\ seqs[i][One(i > 1) + 2] = Name(ps[i].name)
             /\ i > 1 => seqs[i][1] = Mark(Comma)
    <2>1. seqs[i] = ParamText(d, i)
        BY <1>1, <1>2, <1>4, Zenon DEF ParamTexts
    <2>2. PICK type, name, s : type = ps[i].type /\ name = Name(ps[i].name) /\ s = seqs[i]
        OBVIOUS
    <2>3. type \in Token /\ name \in Token
        BY <1>3, <2>2, Words
    <2>4. IsParam(d, i, type, name, s) /\ i \in Nat
        BY <1>1, <2>1, <2>2 DEF IsParam
    <2>5. /\ s \in Seq(Token) /\ Len(s) = One(i > 1) + 2
          /\ s[One(i > 1) + 1] = type /\ s[One(i > 1) + 2] = name
          /\ i > 1 => s[1] = Mark(Comma)
        BY <2>3, <2>4, ParamTextPlaces
    <2> QED
        BY <2>2, <2>5, Zenon
<1>6. seqs \in Seq(Seq(Token)) /\ Len(seqs) = n
    <2>1. seqs = [i \in 1 .. n |-> ParamText(d, i)]
        BY <1>1, <1>2, <1>4, Zenon DEF ParamTexts
    <2>2. \A i \in 1 .. n : ParamText(d, i) \in Seq(Token)
        BY <1>5, <2>1
    <2> QED
        BY <1>2, <2>1, <2>2
<1>7. CASE ps = <<>>
    <2>1. t = <<Word("nothing")>> /\ n = 0
        BY <1>1, <1>7 DEF WrittenParams
    <2>2. PICK x : x = Word("nothing")
        OBVIOUS
    <2>3. x \in Token
        BY <2>2, Words DEF Keywords
    <2>4. t \in Seq(Token) /\ Len(t) = 1 /\ t[1] = x
        BY <2>1, <2>2, <2>3
    <2>5. \A k \in Nat : ~ (k < Len(d.params))
        BY <1>1, <2>1
    <2> QED
        BY <1>1, <1>7, <2>2, <2>4, <2>5, Zenon DEF ParamPlaces
<1>8. CASE ps # <<>>
    <2>1. [i \in DOMAIN d.params |->
              Optional(i > 1, <<Mark(Comma)>>) \o <<d.params[i].type, Name(d.params[i].name)>>] = seqs
        BY <1>4, Zenon DEF ParamTexts, ParamText
    <2>2. t = FlattenSeq(seqs)
        BY <1>1, <1>8, <2>1, Zenon DEF WrittenParams
    <2>3. t \in Seq(Token) /\ t = Upto(seqs, n)
        BY <1>6, <2>2, FlattenUpto
    <2>4. ASSUME NEW k \in Nat, k < n
          PROVE  /\ ps[k + 1].type \in TypeName /\ ps[k + 1].name \in NoWord
                 /\ Len(Upto(seqs, k)) \in Nat
                 /\ Len(Upto(seqs, k + 1)) = Len(Upto(seqs, k)) + One(k > 0) + 2
                 /\ Len(Upto(seqs, k)) + One(k > 0) + 2 <= Len(t)
                 /\ t[Len(Upto(seqs, k)) + One(k > 0) + 1] = ps[k + 1].type
                 /\ t[Len(Upto(seqs, k)) + One(k > 0) + 2] = Name(ps[k + 1].name)
                 /\ k > 0 => t[Len(Upto(seqs, k)) + 1] = Mark(Comma)
        <3>1. PICK i, o, u, s : i = k + 1 /\ o = One(i > 1) /\ u = Len(Upto(seqs, k)) /\ s = seqs[k + 1]
            OBVIOUS
        <3>2. i \in 1 .. n /\ (i > 1 <=> k > 0)
            BY <1>2, <2>4, <3>1
        <3>3. o = One(k > 0) /\ (k > 0 => o = 1) /\ o \in {0, 1}
            BY <3>1, <3>2 DEF One
        <3>4. /\ s \in Seq(Token) /\ Len(s) = o + 2 /\ s[o + 1] = ps[i].type /\ s[o + 2] = Name(ps[i].name)
              /\ k > 0 => s[1] = Mark(Comma)
            BY <1>5, <3>1, <3>2, Zenon
        <3>5. /\ Len(Upto(seqs, k + 1)) = u + Len(s)
              /\ \A j \in 1 .. Len(s) : u \in Nat /\ u + j \in 1 .. Len(t) /\ t[u + j] = s[j]
            <4>1. seqs \in Seq(Seq(Token)) /\ k < Len(seqs)
                BY <1>6, <2>4
            <4>2. Len(Upto(seqs, k + 1)) = u + Len(s)
                BY <3>1, <4>1, UptoNext
            <4>3. \A j \in 1 .. Len(s) : u \in Nat /\ u + j \in 1 .. Len(t) /\ t[u + j] = s[j]
                <5> TAKE j \in 1 .. Len(s)
                <5>1. j \in 1 .. Len(seqs[k + 1])
                    BY <3>1
                <5> QED
                    BY <2>2, <3>1, <4>1, <5>1, FlatPlace
            <4> QED
                BY <4>2, <4>3
        <3>6. o + 1 \in 1 .. Len(s) /\ o + 2 \in 1 .. Len(s) /\ 1 \in 1 .. Len(s)
            BY <3>3, <3>4
        <3>7. /\ u \in Nat /\ u + (o + 2) \in 1 .. Len(t) /\ t[u + (o + 1)] = ps[i].type
              /\ t[u + (o + 2)] = Name(ps[i].name) /\ (k > 0 => t[u + 1] = Mark(Comma))
            BY <3>4, <3>5, <3>6
        <3>8. u + (o + 1) = u + o + 1 /\ u + (o + 2) = u + o + 2 /\ u + o + 2 <= Len(t)
            BY <3>3, <3>7
        <3>9. ps[k + 1].type \in TypeName /\ ps[k + 1].name \in NoWord
            BY <1>3, <3>1, <3>2
        <3>10. Len(Upto(seqs, k + 1)) = u + o + 2
            BY <3>4, <3>5, <3>8
        <3> QED
            BY <3>1, <3>3, <3>7, <3>8, <3>9, <3>10
    <2> QED
        BY <1>1, <1>4, <1>8, <2>3, <2>4, Zenon DEF ParamPlaces
<1> QED
    BY <1>7, <1>8

LEMMA StatementTextsType ==
    ASSUME NEW d, d.body \in Seq(BodyPart)
    PROVE  /\ StatementTexts(d) \in Seq(Seq(Token)) /\ Len(StatementTexts(d)) = Len(d.body)
           /\ \A i \in 1 .. Len(d.body) : StatementTexts(d)[i] = WrittenStatement(d.body[i])
<1>1. PICK ss, n : ss = d.body /\ n = Len(ss)
    OBVIOUS
<1>2. ss \in Seq(BodyPart) /\ n \in Nat /\ DOMAIN ss = 1 .. n
    BY <1>1
<1>3. ASSUME NEW i \in 1 .. n PROVE WrittenStatement(ss[i]) \in Seq(Token)
    <2>1. PICK s, t : s = ss[i] /\ t = WrittenStatement(s)
        OBVIOUS
    <2>2. s \in BodyPart
        BY <1>2, <2>1
    <2>3. StatementPlaces(s, t)
        BY <2>1, <2>2, StatementWritten
    <2>4. t \in Seq(Token)
        BY <2>3, Zenon DEF StatementPlaces
    <2> QED
        BY <2>1, <2>4, Zenon
<1>4. StatementTexts(d) = [i \in 1 .. n |-> WrittenStatement(ss[i])]
    BY <1>1, <1>2, Zenon DEF StatementTexts
<1> QED
    BY <1>1, <1>2, <1>3, <1>4

FunctionParts(d) ==
    /\ d.name \in NoWord /\ d.native \in BOOLEAN /\ d.constant \in BOOLEAN
    /\ d.returns \in TypeName \cup {Word("nothing")}
    /\ d.params \in Seq(ParamSet) /\ d.body \in Seq(BodyPart) /\ (d.native => d.body = <<>>)

LEMMA FunctionDeclared ==
    ASSUME NEW d \in Declaration, d.kind = "function"
    PROVE  FunctionParts(d)
<1>1. d \in {x \in [kind : {"function"}, name : NoWord, native : BOOLEAN, constant : BOOLEAN,
                 params : Seq(ParamSet), returns : TypeName \cup {Word("nothing")}, body : Seq(BodyPart)] :
             x.native => x.body = <<>>}
    BY DEF Declaration, NoWord, ParamSet
<1> QED
    BY <1>1, Zenon DEF FunctionParts

HeadPlaces(d, t, c, p) ==
    /\ c \in {0, 1} /\ (c = 1 <=> d.constant) /\ (d.constant => c = 1) /\ (~d.constant => c = 0) /\ p \in Nat
    /\ t \in Seq(Token)
    /\ Len(t) >= c + p + 5
    /\ d.constant => t[1] = Word("constant")
    /\ d.native => t[c + 1] = Word("native") /\ Len(t) = c + p + 5
    /\ ~d.native => t[c + 1] = Word("function")
    /\ t[c + 2] = Name(d.name) /\ t[c + 3] = Word("takes")
    /\ \A j \in 1 .. p : t[c + 3 + j] = WrittenParams(d.params)[j]
    /\ t[c + p + 4] = Word("returns") /\ t[c + p + 5] = d.returns
BodyPlaces(d, t, h) ==
    /\ \A k \in Nat : k < Len(d.body) =>
          /\ Len(Upto(StatementTexts(d), k)) \in Nat
          /\ Len(Upto(StatementTexts(d), k + 1)) =
                Len(Upto(StatementTexts(d), k)) + Len(WrittenStatement(d.body[k + 1]))
          /\ \A j \in 1 .. Len(WrittenStatement(d.body[k + 1])) :
                t[h + Len(Upto(StatementTexts(d), k)) + j] = WrittenStatement(d.body[k + 1])[j]
    /\ Len(Upto(StatementTexts(d), Len(d.body))) \in Nat
    /\ Len(t) = h + Len(Upto(StatementTexts(d), Len(d.body))) + 1
    /\ t[Len(t)] = Word("endfunction")

\* The end of a function, and what stands before it.
IsTail(d, e) == e = Optional(~d.native, FlattenSeq(Map(WrittenStatement, d.body)) \o <<Word("endfunction")>>)

LEMMA TailWritten ==
    ASSUME NEW d, FunctionParts(d), NEW e, IsTail(d, e)
    PROVE  e \in Seq(Token) /\ (d.native => Len(e) = 0) /\ (~d.native => BodyPlaces(d, e, 0))
<1>1. d.native \in BOOLEAN /\ d.body \in Seq(BodyPart)
    BY Zenon DEF FunctionParts
<1>2. CASE d.native
    <2>1. e = <<>>
        BY <1>2, Zenon DEF Optional, IsTail
    <2> QED
        BY <1>2, <2>1
<1>3. CASE ~d.native
    <2>1. PICK x, b, seqs, n :
             x = Word("endfunction") /\ b = <<x>> /\ seqs = StatementTexts(d) /\ n = Len(d.body)
        OBVIOUS
    <2>2. x \in Token
        BY <2>1, Words DEF Keywords
    <2>3. b \in Seq(Token) /\ Len(b) = 1 /\ b[1] = x
        BY <2>1, <2>2
    <2>4. /\ seqs \in Seq(Seq(Token)) /\ Len(seqs) = n /\ n \in Nat
          /\ \A i \in 1 .. n : seqs[i] = WrittenStatement(d.body[i])
        BY <1>1, <2>1, StatementTextsType
    <2>5. Map(WrittenStatement, d.body) = seqs
        BY <2>1 DEF Map, StatementTexts
    <2>6. e = FlattenSeq(seqs) \o b
        BY <1>3, <2>1, <2>5, Zenon DEF Optional, IsTail
    <2>7. FlattenSeq(seqs) \in Seq(Token)
        BY <2>4, FlattenUpto
    <2>8. <<>> \o FlattenSeq(seqs) = FlattenSeq(seqs)
        <3>1. PICK f : f = FlattenSeq(seqs)
            OBVIOUS
        <3>2. f \in Seq(Token)
            BY <2>7, <3>1
        <3>3. <<>> \o f = f
            BY <3>2
        <3> QED
            BY <3>1, <3>3
    <2>9. InRow(e, <<>>, seqs, b)
        BY <2>6, <2>8, Zenon DEF InRow
    <2>10. PICK a : a = <<>>
        OBVIOUS
    <2>11. a \in Seq(Token) /\ Len(a) = 0
        BY <2>10
    <2>12. e \in Seq(Token) /\ RowPlaces(e, a, seqs, b)
        BY <2>3, <2>4, <2>9, <2>10, <2>11, Row
    <2>13. ASSUME NEW k \in Nat, k < n
           PROVE  /\ Len(Upto(seqs, k)) \in Nat
                  /\ Len(Upto(seqs, k + 1)) = Len(Upto(seqs, k)) + Len(WrittenStatement(d.body[k + 1]))
                  /\ \A j \in 1 .. Len(WrittenStatement(d.body[k + 1])) :
                        e[0 + Len(Upto(seqs, k)) + j] = WrittenStatement(d.body[k + 1])[j]
        <3>1. PICK s : s = seqs[k + 1]
            OBVIOUS
        <3>2. s = WrittenStatement(d.body[k + 1])
            BY <2>4, <2>13, <3>1
        <3>3. Len(Upto(seqs, k + 1)) = Len(Upto(seqs, k)) + Len(s) /\ Upto(seqs, k) \in Seq(Token)
            BY <2>4, <2>13, <3>1, UptoNext
        <3>4. \A j \in 1 .. Len(s) : e[0 + Len(Upto(seqs, k)) + j] = s[j]
            BY <2>4, <2>11, <2>12, <2>13, <3>1, Zenon DEF RowPlaces
        <3>5. Len(Upto(seqs, k)) \in Nat
            BY <3>3
        <3> QED
            BY <3>2, <3>3, <3>4, <3>5, Zenon
    <2>14. PICK m : m = Len(Upto(seqs, n))
        OBVIOUS
    <2>15. m \in Nat
        BY <2>4, <2>14, UptoType
    <2>16. Len(e) = 0 + m + 1 /\ \A j \in 1 .. 1 : e[0 + m + j] = b[j]
        BY <2>3, <2>4, <2>11, <2>12, <2>14, Zenon DEF RowPlaces
    <2>17. e[Len(e)] = x
        BY <2>3, <2>15, <2>16
    <2> QED
        BY <1>3, <2>1, <2>12, <2>13, <2>14, <2>15, <2>16, <2>17, Zenon DEF BodyPlaces
<1> QED
    BY <1>1, <1>2, <1>3

LEMMA Three ==
    ASSUME NEW S, NEW x \in S, NEW y \in S, NEW z \in S
    PROVE  /\ <<x, y, z>> \in Seq(S) /\ Len(<<x, y, z>>) = 3
           /\ <<x, y, z>>[1] = x /\ <<x, y, z>>[2] = y /\ <<x, y, z>>[3] = z
           /\ <<x, y>> \in Seq(S) /\ Len(<<x, y>>) = 2
           /\ <<x, y>>[1] = x /\ <<x, y>>[2] = y
OBVIOUS

FunctionPlaces(d, t, c, p) ==
    HeadPlaces(d, t, c, p) /\ (~d.native => BodyPlaces(d, t, c + p + 5))

LEMMA FunctionWritten ==
    ASSUME NEW d \in Declaration, d.kind = "function", NEW t, t = Written(d)
    PROVE  FunctionParts(d) /\ FunctionPlaces(d, t, One(d.constant), Len(WrittenParams(d.params)))
<1>1. FunctionParts(d)
    BY FunctionDeclared
<1>2. PICK c, p, ps : c = One(d.constant) /\ ps = WrittenParams(d.params) /\ p = Len(ps)
    OBVIOUS
<1>3. c \in {0, 1} /\ (c = 1 <=> d.constant) /\ (d.constant => c = 1) /\ (~d.constant => c = 0)
    <2>1. d.constant \in BOOLEAN
        BY <1>1, Zenon DEF FunctionParts
    <2> QED
        BY <1>2, <2>1, Ones, Zenon
<1>4. ps \in Seq(Token) /\ p \in Nat
    <2>1. d.params \in Seq(ParamSet)
        BY <1>1, Zenon DEF FunctionParts
    <2>2. ParamPlaces(d, ps)
        BY <1>2, <2>1, ParamsWritten, Zenon
    <2>3. ps \in Seq(Token)
        BY <2>2, Zenon DEF ParamPlaces
    <2> QED
        BY <1>2, <2>3
<1>5. PICK x, y, z, u, v, r :
         /\ x = Word("constant") /\ y = Word(IF d.native THEN "native" ELSE "function") /\ z = Name(d.name)
         /\ u = Word("takes") /\ v = Word("returns") /\ r = d.returns
    OBVIOUS
<1>6. x \in Token /\ y \in Token /\ z \in Token /\ u \in Token /\ v \in Token /\ r \in Token
    <2>1. "constant" \in Keywords /\ "native" \in Keywords /\ "function" \in Keywords /\ "takes" \in Keywords
          /\ "returns" \in Keywords /\ "nothing" \in Keywords
        BY DEF Keywords
    <2>2. d.name \in NoWord /\ d.returns \in TypeName \cup {Word("nothing")}
        BY <1>1, Zenon DEF FunctionParts
    <2> QED
        BY <1>5, <2>1, <2>2, Words
<1>7. PICK q1, q2, q3, h1, h2, h3, e :
         /\ IfWord(q1, d.constant, x) /\ q2 = <<y, z, u>> /\ q3 = <<v, r>>
         /\ Joins(h1, q1, q2) /\ Joins(h2, h1, ps) /\ Joins(h3, h2, q3) /\ IsTail(d, e)
    BY Zenon DEF IfWord, Joins, IsTail
<1>8. Joins(t, h3, e)
    <2>1. t = Optional(d.constant, <<Word("constant")>>)
              \o <<Word(IF d.native THEN "native" ELSE "function"), Name(d.name), Word("takes")>>
              \o WrittenParams(d.params) \o <<Word("returns"), d.returns>>
              \o Optional(~d.native, FlattenSeq(Map(WrittenStatement, d.body)) \o <<Word("endfunction")>>)
        BY DEF Written
    <2> QED
        BY <1>2, <1>5, <1>7, <2>1, Zenon DEF IfWord, Joins, IsTail
<1>9. q1 \in Seq(Token) /\ Len(q1) = c /\ (d.constant => q1[1] = x)
    <2>1. d.constant \in BOOLEAN
        BY <1>1, Zenon DEF FunctionParts
    <2> QED
        BY SMTT(30), <1>2, <1>6, <1>7, <2>1, OptionalWord
<1>10. q2 \in Seq(Token) /\ Len(q2) = 3 /\ q2[1] = y /\ q2[2] = z /\ q2[3] = u
       /\ q3 \in Seq(Token) /\ Len(q3) = 2 /\ q3[1] = v /\ q3[2] = r
    BY <1>6, <1>7, Three, Zenon
<1>11. e \in Seq(Token) /\ (d.native => Len(e) = 0) /\ (~d.native => BodyPlaces(d, e, 0))
    BY <1>1, <1>7, TailWritten, Zenon
<1>12. h1 \in Seq(Token) /\ BothIn(h1, q1, q2)
    BY <1>7, <1>9, <1>10, Joined
<1>13. h2 \in Seq(Token) /\ BothIn(h2, h1, ps)
    BY <1>4, <1>7, <1>12, Joined
<1>14. h3 \in Seq(Token) /\ BothIn(h3, h2, q3)
    BY <1>7, <1>10, <1>13, Joined
<1>15. t \in Seq(Token) /\ BothIn(t, h3, e)
    BY <1>8, <1>11, <1>14, Joined
<1>16. /\ Len(h1) = c + 3
       /\ \A i \in 1 .. c : h1[i] = q1[i]
       /\ \A i \in 1 .. 3 : h1[c + i] = q2[i]
    BY <1>9, <1>10, <1>12, Zenon DEF BothIn
<1>17. /\ Len(h2) = c + 3 + p
       /\ \A i \in 1 .. c + 3 : h2[i] = h1[i]
       /\ \A i \in 1 .. p : h2[c + 3 + i] = ps[i]
    BY <1>2, <1>13, <1>16, Zenon DEF BothIn
<1>18. /\ Len(h3) = c + 3 + p + 2
       /\ \A i \in 1 .. c + 3 + p : h3[i] = h2[i]
       /\ \A i \in 1 .. 2 : h3[c + 3 + p + i] = q3[i]
    BY <1>10, <1>14, <1>17, Zenon DEF BothIn
<1>19. /\ Len(t) = c + 3 + p + 2 + Len(e)
       /\ \A i \in 1 .. c + 3 + p + 2 : t[i] = h3[i]
       /\ \A i \in 1 .. Len(e) : t[c + 3 + p + 2 + i] = e[i]
    BY <1>15, <1>18, Zenon DEF BothIn
<1>20. ASSUME NEW i \in 1 .. c + 3 PROVE t[i] = h1[i]
    <2>1. i \in 1 .. c + 3 + p /\ i \in 1 .. c + 3 + p + 2
        BY <1>3, <1>4
    <2> QED
        BY <1>17, <1>18, <1>19, <2>1
<1>21. t[c + 1] = y /\ t[c + 2] = z /\ t[c + 3] = u
    <2>1. c + 1 \in 1 .. c + 3 /\ c + 2 \in 1 .. c + 3 /\ c + 3 \in 1 .. c + 3
          /\ 1 \in 1 .. 3 /\ 2 \in 1 .. 3 /\ 3 \in 1 .. 3
        BY <1>3
    <2> QED
        BY <1>10, <1>16, <1>20, <2>1
<1>22. ASSUME d.constant PROVE t[1] = x
    <2>1. c = 1
        BY <1>3, <1>22, Zenon
    <2>2. 1 \in 1 .. c /\ 1 \in 1 .. c + 3
        BY <2>1
    <2> QED
        BY <1>9, <1>16, <1>20, <1>22, <2>2
<1>23. ASSUME NEW j \in 1 .. p PROVE t[c + 3 + j] = ps[j]
    <2>1. c + 3 + j \in 1 .. c + 3 + p /\ c + 3 + j \in 1 .. c + 3 + p + 2
        BY <1>3, <1>4
    <2> QED
        BY <1>17, <1>18, <1>19, <2>1
<1>24. t[c + p + 4] = v /\ t[c + p + 5] = r
    <2>1. /\ c + 3 + p + 1 \in 1 .. c + 3 + p + 2 /\ c + 3 + p + 2 \in 1 .. c + 3 + p + 2
          /\ 1 \in 1 .. 2 /\ 2 \in 1 .. 2 /\ c + 3 + p + 1 = c + p + 4 /\ c + 3 + p + 2 = c + p + 5
        BY <1>3, <1>4
    <2>2. t[c + 3 + p + 1] = v /\ t[c + 3 + p + 2] = r
        BY <1>10, <1>18, <1>19, <2>1
    <2> QED
        BY <2>1, <2>2
<1>25. Len(e) \in Nat /\ Len(t) = c + p + 5 + Len(e) /\ \A i \in 1 .. Len(e) : t[c + p + 5 + i] = e[i]
    <2>1. c + 3 + p + 2 = c + p + 5
        BY <1>3, <1>4
    <2>2. Len(e) \in Nat
        BY <1>11
    <2> QED
        BY <1>19, <2>1, <2>2, Zenon
<1>26. HeadPlaces(d, t, c, p)
    <2>1. Len(t) >= c + p + 5 /\ (d.native => Len(t) = c + p + 5)
        BY <1>3, <1>4, <1>11, <1>25
    <2>2. (d.native => y = Word("native")) /\ (~d.native => y = Word("function"))
        BY <1>5
    <2> QED
        BY <1>2, <1>3, <1>4, <1>5, <1>15, <1>21, <1>22, <1>23, <1>24, <2>1, <2>2, Zenon DEF HeadPlaces
<1>27. ASSUME ~d.native PROVE BodyPlaces(d, t, c + p + 5)
    <2>1. PICK h, n, b : h = c + p + 5 /\ n = Len(d.body) /\ b = Len(Upto(StatementTexts(d), n))
        OBVIOUS
    <2>2. h \in Nat /\ Len(e) \in Nat /\ Len(t) = h + Len(e) /\ \A i \in 1 .. Len(e) : t[h + i] = e[i]
        BY <1>3, <1>4, <1>25, <2>1
    <2>3. BodyPlaces(d, e, 0)
        BY <1>11, <1>27, Zenon
    <2>4. b \in Nat /\ Len(e) = 0 + b + 1 /\ e[Len(e)] = Word("endfunction")
        BY <2>1, <2>3, Zenon DEF BodyPlaces
    <2>5. Len(t) = h + b + 1 /\ t[Len(t)] = Word("endfunction")
        <3>1. Len(e) \in 1 .. Len(e) /\ Len(t) = h + b + 1
            BY <2>2, <2>4
        <3> QED
            BY <2>2, <2>4, <3>1
    <2>6. d.body \in Seq(BodyPart)
        BY <1>1, Zenon DEF FunctionParts
    <2>7. ASSUME NEW k \in Nat, k < n
          PROVE  /\ Len(Upto(StatementTexts(d), k)) \in Nat
                 /\ Len(Upto(StatementTexts(d), k + 1)) =
                       Len(Upto(StatementTexts(d), k)) + Len(WrittenStatement(d.body[k + 1]))
                 /\ \A j \in 1 .. Len(WrittenStatement(d.body[k + 1])) :
                       t[h + Len(Upto(StatementTexts(d), k)) + j] = WrittenStatement(d.body[k + 1])[j]
        <3>1. PICK o, w, f : /\ o = Len(Upto(StatementTexts(d), k)) /\ w = WrittenStatement(d.body[k + 1])
                             /\ f = FlattenSeq(StatementTexts(d))
            OBVIOUS
        <3>2. /\ o \in Nat /\ Len(Upto(StatementTexts(d), k + 1)) = o + Len(w)
              /\ \A j \in 1 .. Len(w) : e[0 + o + j] = w[j]
            BY <2>1, <2>3, <2>7, <3>1, Zenon DEF BodyPlaces
        <3>3. /\ StatementTexts(d) \in Seq(Seq(Token)) /\ Len(StatementTexts(d)) = n /\ n \in Nat
              /\ StatementTexts(d)[k + 1] = w
            BY <2>1, <2>6, <2>7, <3>1, StatementTextsType
        <3>4. f = Upto(StatementTexts(d), n)
            BY <3>1, <3>3, FlattenUpto
        <3>5. ASSUME NEW j \in 1 .. Len(w) PROVE t[h + o + j] = w[j]
            <4>1. j \in 1 .. Len(StatementTexts(d)[k + 1])
                BY <3>3
            <4>2. o + j \in 1 .. Len(f)
                BY <2>7, <3>1, <3>3, <4>1, FlatPlace
            <4>3. o + j \in 1 .. b
                BY <2>1, <3>4, <4>2
            <4>4. o + j \in 1 .. Len(e) /\ h + (o + j) = h + o + j /\ 0 + o + j = o + j
                BY <2>2, <2>4, <3>2, <4>3
            <4> QED
                BY <2>2, <3>2, <4>4
        <3> QED
            BY <3>1, <3>2, <3>5, Zenon
    <2> QED
        BY <2>1, <2>4, <2>5, <2>7, Zenon DEF BodyPlaces
<1> QED
    BY <1>1, <1>2, <1>26, <1>27, Zenon DEF FunctionPlaces

-----------------------------------------------------------------------------
(***************************************************************************)
(* The text of a program                                                   *)
(***************************************************************************)

Texts(p) == [i \in DOMAIN p |-> Written(p[i])]
Start(p, n) == Len(Upto(Texts(p), n))

LEMMA Kinds ==
    ASSUME NEW d \in Declaration
    PROVE  d.kind \in {"type", "globals", "function"}
BY DEF Declaration

\* Every declaration begins with one of five words.
FirstWords == {"type", "globals", "constant", "native", "function"}
Begins(token) == token.kind = "keyword" /\ token.value \in FirstWords

LEMMA DeclarationWritten ==
    ASSUME NEW d \in Declaration, NEW t, t = Written(d)
    PROVE  t \in Seq(Token) /\ Len(t) >= 1 /\ Begins(t[1])
<1>1. CASE d.kind = "type"
    <2>1. TypePlaces(d, t)
        BY <1>1, TypeWritten
    <2>2. t \in Seq(Token) /\ t[1] = Word("type") /\ (Len(t) = 2 \/ Len(t) = 4)
        BY <2>1, Zenon DEF TypePlaces
    <2>3. Begins(t[1])
        BY <2>2 DEF Begins, FirstWords, Word
    <2> QED
        BY <2>2, <2>3
<1>2. CASE d.kind = "globals"
    <2>1. GlobalsPlaces(d, t)
        BY <1>2, GlobalsWritten
    <2>2. PICK m : m = Len(Upto(VariableTexts(d), Len(d.variables)))
        OBVIOUS
    <2>3. t \in Seq(Token) /\ t[1] = Word("globals") /\ Len(t) = m + 2 /\ m \in Nat
        BY <2>1, <2>2, Zenon DEF GlobalsPlaces
    <2>4. Begins(t[1])
        BY <2>3 DEF Begins, FirstWords, Word
    <2> QED
        BY <2>3, <2>4
<1>3. CASE d.kind = "function"
    <2>1. PICK c, p : c = One(d.constant) /\ p = Len(WrittenParams(d.params))
        OBVIOUS
    <2>2. FunctionParts(d) /\ HeadPlaces(d, t, c, p)
        BY <1>3, <2>1, FunctionWritten, Zenon DEF FunctionPlaces
    <2>3. /\ t \in Seq(Token) /\ c \in {0, 1} /\ p \in Nat /\ Len(t) >= c + p + 5
          /\ (d.constant => t[1] = Word("constant")) /\ (~d.constant => c = 0)
          /\ d.native => t[c + 1] = Word("native")
          /\ ~d.native => t[c + 1] = Word("function")
          /\ d.constant \in BOOLEAN /\ d.native \in BOOLEAN
        BY <2>2, Zenon DEF HeadPlaces, FunctionParts
    <2>4. Begins(Word("constant")) /\ Begins(Word("native")) /\ Begins(Word("function"))
        BY DEF Begins, FirstWords, Word
    <2>5. CASE d.constant
        BY <2>3, <2>4, <2>5
    <2>6. CASE ~d.constant
        <3>1. c + 1 = 1
            BY <2>3, <2>6
        <3>2. t[1] = Word("native") \/ t[1] = Word("function")
            BY <2>3, <3>1, Zenon
        <3> QED
            BY <2>3, <2>4, <3>2
    <2> QED
        BY <2>3, <2>5, <2>6
<1> QED
    BY <1>1, <1>2, <1>3, Kinds

LEMMA TextsType ==
    ASSUME NEW p \in Seq(Declaration)
    PROVE  /\ Texts(p) \in Seq(Seq(Token)) /\ Len(Texts(p)) = Len(p) /\ Len(p) \in Nat
           /\ \A n \in Nat : n < Len(p) => p[n + 1] \in Declaration /\ Texts(p)[n + 1] = Written(p[n + 1])
           /\ WrittenProgram(p) = FlattenSeq(Texts(p)) /\ WrittenProgram(p) \in Seq(Token)
           /\ WrittenProgram(p) = Upto(Texts(p), Len(p))
<1>1. PICK m : m = Len(p)
    OBVIOUS
<1>2. m \in Nat /\ DOMAIN p = 1 .. m /\ \A i \in 1 .. m : p[i] \in Declaration
    BY <1>1
<1>3. \A i \in 1 .. m : Written(p[i]) \in Seq(Token)
    BY <1>2, DeclarationWritten
<1>4. Texts(p) = [i \in 1 .. m |-> Written(p[i])]
    BY <1>2, Zenon DEF Texts
<1>5. Texts(p) \in Seq(Seq(Token)) /\ Len(Texts(p)) = m
    BY <1>2, <1>3, <1>4
<1>6. \A n \in Nat : n < m => n + 1 \in 1 .. m
    BY <1>2
<1>7. Map(Written, p) = Texts(p)
    BY DEF Map, Texts
<1>8. WrittenProgram(p) = FlattenSeq(Texts(p))
    BY <1>7, Zenon DEF WrittenProgram
<1>9. FlattenSeq(Texts(p)) \in Seq(Token) /\ FlattenSeq(Texts(p)) = Upto(Texts(p), m)
    BY <1>5, FlattenUpto
<1>10. \A n \in Nat : n < m => p[n + 1] \in Declaration /\ Texts(p)[n + 1] = Written(p[n + 1])
    BY <1>2, <1>4, <1>6
<1> QED
    BY <1>1, <1>2, <1>5, <1>8, <1>9, <1>10, Zenon

LEMMA ProgramText ==
    ASSUME NEW p \in Program
    PROVE  p \in Seq(Declaration) /\ WrittenProgram(p) \in Seq(Token)
<1>1. p \in Seq(Declaration)
    BY ProgramAssumption DEF ProgramAssumption
<1> QED
    BY <1>1, TextsType

\* What is parsed is the text of p, and Faithful is about it.
Correct(p) == program = p /\ p \in Program /\ text = WrittenProgram(p) /\ Plain

LEMMA DeclaredAt ==
    ASSUME NEW p, Correct(p), NEW n \in Nat, n < Len(p), NEW d, d = p[n + 1]
    PROVE  /\ d \in Declaration /\ Len(p) \in Nat /\ Start(p, n) \in Nat
           /\ Len(Written(d)) \in Nat /\ Start(p, n + 1) = Start(p, n) + Len(Written(d))
           /\ Start(p, n + 1) <= Len(text)
<1>1. p \in Seq(Declaration)
    BY ProgramText DEF Correct
<1>2. PICK seqs, t : seqs = Texts(p) /\ t = Written(d)
    OBVIOUS
<1>3. /\ d \in Declaration /\ Len(p) \in Nat /\ seqs \in Seq(Seq(Token)) /\ Len(seqs) = Len(p)
      /\ seqs[n + 1] = t /\ text = Upto(seqs, Len(p))
    BY <1>1, <1>2, TextsType DEF Correct
<1>4. /\ Upto(seqs, n) \in Seq(Token) /\ t \in Seq(Token)
      /\ Len(Upto(seqs, n + 1)) = Len(Upto(seqs, n)) + Len(t)
    BY <1>3, UptoNext
<1>5. n + 1 \in 1 .. Len(seqs) /\ Len(p) \in n + 1 .. Len(seqs)
    BY <1>3
<1>6. Len(Upto(seqs, n + 1)) <= Len(Upto(seqs, Len(p)))
    BY <1>3, <1>5, UptoPlace
<1>7. Len(Upto(seqs, n)) \in Nat /\ Len(t) \in Nat
    BY <1>4
<1> QED
    BY <1>2, <1>3, <1>4, <1>6, <1>7, Zenon DEF Start

\* The j-th token of the declaration behind the first n.
LEMMA TokenOf ==
    ASSUME TypeOK, NEW p, Correct(p), NEW n \in Nat, n < Len(p), NEW t, t = Written(p[n + 1]),
           NEW j \in 1 .. Len(t), NEW k \in Nat, pos + k = Start(p, n) + j
    PROVE  At(k) = t[j]
<1>1. p \in Seq(Declaration)
    BY ProgramText DEF Correct
<1>2. PICK seqs, f : seqs = Texts(p) /\ f = text
    OBVIOUS
<1>3. /\ Len(p) \in Nat /\ seqs \in Seq(Seq(Token)) /\ Len(seqs) = Len(p)
      /\ seqs[n + 1] = t /\ f = FlattenSeq(seqs)
    BY <1>1, <1>2, TextsType DEF Correct
<1>4. j \in 1 .. Len(seqs[n + 1])
    BY <1>3
<1>5. Len(Upto(seqs, n)) + j \in 1 .. Len(f) /\ f[Len(Upto(seqs, n)) + j] = seqs[n + 1][j]
    BY <1>3, <1>4, FlatPlace
<1>6. pos + k \in 1 .. Len(text) /\ text[pos + k] = t[j]
    BY <1>2, <1>3, <1>5 DEF Start
<1>7. pos + k <= Len(text)
    BY <1>6
<1> QED
    BY <1>6, <1>7 DEF At

\* Behind n declarations the next one begins, or the text ends.
LEMMA TokenBehind ==
    ASSUME TypeOK, NEW p, Correct(p), NEW n \in 0 .. Len(p), NEW k \in Nat, pos + k = Start(p, n) + 1
    PROVE  /\ n = Len(p) => At(k) = Eof
           /\ n < Len(p) => Begins(At(k))
<1>1. p \in Seq(Declaration)
    BY ProgramText DEF Correct
<1>2. Len(p) \in Nat /\ text = Upto(Texts(p), Len(p)) /\ text \in Seq(Token)
    BY <1>1, TextsType DEF Correct
<1>3. ASSUME n = Len(p) PROVE At(k) = Eof
    <2>1. pos + k = Len(text) + 1 /\ Len(text) \in Nat
        BY <1>2, <1>3 DEF Start
    <2>2. ~ (pos + k <= Len(text))
        BY <2>1
    <2> QED
        BY <2>2 DEF At
<1>4. ASSUME n < Len(p) PROVE Begins(At(k))
    <2>1. PICK t : t = Written(p[n + 1])
        OBVIOUS
    <2>2. p[n + 1] \in Declaration /\ n \in Nat
        BY <1>1, <1>4, TextsType
    <2>3. t \in Seq(Token) /\ Len(t) >= 1 /\ Begins(t[1])
        BY <2>1, <2>2, DeclarationWritten
    <2>4. 1 \in 1 .. Len(t)
        BY <2>3
    <2>5. At(k) = t[1]
        BY <1>4, <2>1, <2>2, <2>4, TokenOf
    <2> QED
        BY <2>3, <2>5
<1> QED
    BY <1>3, <1>4

-----------------------------------------------------------------------------
(***************************************************************************)
(* Types, progress, and the owners of locals                               *)
(***************************************************************************)

LEMMA NoneIsNone ==
    None \notin {"array", "extends", "takes", "nothing", "returns"}
BY Zenon DEF None

LEMMA NoneType == None \in Lexeme
BY ParserAssumption DEF ParserAssumption, Reserved

LEMMA AtToken ==
    ASSUME TypeOK, NEW k \in Nat
    PROVE  /\ At(k) \in Token
           /\ At(k).kind # "eof" \/ At(k).value # None => pos + k <= Len(text)
<1>1. Eof \in Token
    BY NoneType DEF Eof, Token
<1>2. pos + k \in Nat /\ pos + k >= 1
    BY DEF TypeOK
<1>3. pos + k <= Len(text) => text[pos + k] \in Token
    BY <1>2 DEF TypeOK
<1>4. ~(pos + k <= Len(text)) => At(k) = Eof
    BY DEF At
<1>5. Eof.kind = "eof" /\ Eof.value = None
    BY DEF Eof
<1> QED
    BY <1>1, <1>3, <1>4, <1>5 DEF At

LEMMA NoFunctionType == NoFunction \in Function
<1>1. None \in Lexeme
    BY NoneType
<1>2. <<>> \in Seq([type : Lexeme, name : Lexeme])
    OBVIOUS
<1> QED
    BY <1>1, <1>2, Zenon DEF NoFunction, Function

LEMMA InitTypes == Init => TypeOK
<1> SUFFICES ASSUME Init PROVE TypeOK
    OBVIOUS
<1>1. text \in Seq(Token)
    <2>1. CASE text \in Text
        BY <2>1, ParserAssumption DEF ParserAssumption
    <2>2. CASE program \in Program /\ text = WrittenProgram(program)
        BY <2>2, ProgramText
    <2> QED
        BY <2>1, <2>2 DEF Init
<1>2. pos \in 1 .. Len(text) + 2
    BY <1>1 DEF Init
<1>3. func \in Function
    BY NoFunctionType DEF Init
<1> QED
    BY <1>1, <1>2, <1>3 DEF Init, TypeOK, Modes

\* A step goes on as far as behind the end, or one token further.
LEMMA Forward ==
    ASSUME TypeOK, UNCHANGED input
    PROVE  /\ pos \in Nat /\ pos >= 1 /\ Len(text) \in Nat
           /\ \A n \in Nat : pos + n <= Len(text) + 2 /\ Advance(n) => pos' \in 1 .. Len(text') + 2
<1>1. pos \in Nat /\ pos >= 1 /\ Len(text) \in Nat
    BY DEF TypeOK
<1>2. text' = text
    BY DEF input
<1> QED
    BY <1>1, <1>2 DEF Advance

LEMMA ErrorType ==
    ASSUME TypeOK, NEW k \in Nat, Error(k) \/ NoError \/ UNCHANGED diagnostics
    PROVE  diagnostics' \in Seq(Nat)
<1>1. pos + k \in Nat /\ diagnostics \in Seq(Nat)
    BY DEF TypeOK
<1>2. diagnostics' = Append(diagnostics, pos + k) \/ diagnostics' = diagnostics
    BY DEF Error, NoError
<1> QED
    BY <1>1, <1>2

LEMMA FinishTypes == TypeOK /\ Finish => TypeOK'
BY DEF TypeOK, Finish, input, skipping, doc, Modes

LEMMA UnknownTypes == TypeOK /\ Unknown => TypeOK'
<1> SUFFICES ASSUME TypeOK, Unknown PROVE TypeOK'
    OBVIOUS
<1>1. pos + 0 <= Len(text)
    BY AtToken DEF Unknown, Ended
<1>2. pos' \in 1 .. Len(text') + 2
    BY <1>1, Forward DEF Unknown, TypeOK
<1> QED
    BY <1>2 DEF TypeOK, Unknown, input, skipping, doc, Modes

LEMMA TypeDeclTypes == TypeOK /\ TypeDecl => TypeOK'
<1> SUFFICES ASSUME TypeOK, TypeDecl PROVE TypeOK'
    OBVIOUS
<1>1. /\ At(1) \in Token /\ At(3) \in Token
      /\ IsType(1) => pos + 1 <= Len(text)
      /\ IsType(3) => pos + 3 <= Len(text)
      /\ Is(2, "extends") => pos + 2 <= Len(text)
      /\ pos + 0 <= Len(text)
    BY AtToken, NoneIsNone DEF IsType, Is, TypeDecl, Ended
<1>2. UNCHANGED input
    BY DEF TypeDecl
<1>3. /\ pos \in Nat /\ Len(text) \in Nat
      /\ \A n \in {1, 2, 3, 4} : pos + n <= Len(text) + 2 /\ Advance(n) => pos' \in 1 .. Len(text') + 2
    BY <1>2, Forward
<1>4. /\ At(1).value \in Lexeme /\ At(3).value \in Lexeme /\ None \in Lexeme
    BY <1>1, NoneType DEF Token
<1>5. types \in Seq([name : Lexeme, parent : Lexeme])
    BY DEF TypeOK
<1>6. CASE ~IsType(1) /\ Error(1) /\ Advance(1) /\ UNCHANGED types
    <2>1. pos' \in 1 .. Len(text') + 2
        BY <1>6, <1>1, <1>3
    <2>2. diagnostics' \in Seq(Nat)
        BY <1>6, ErrorType
    <2> QED
        BY <1>6, <2>1, <2>2 DEF TypeOK, TypeDecl, input, skipping, Modes
<1>7. ASSUME NEW parent \in Lexeme, NEW n \in Nat, Declared(parent, n),
             n \in {1, 2, 3, 4}, pos + n <= Len(text) + 2
      PROVE  TypeOK'
    <2>0. types' = Append(types, [name |-> At(1).value, parent |-> parent]) /\ Advance(n) /\ NoError
        BY <1>7 DEF Declared
    <2>1. pos' \in 1 .. Len(text') + 2
        BY <2>0, <1>7, <1>3
    <2>2. diagnostics' \in Seq(Nat)
        BY <2>0, ErrorType DEF Declared
    <2>3. types' \in Seq([name : Lexeme, parent : Lexeme])
        BY <2>0, <1>4, <1>5
    <2> QED
        BY <2>1, <2>2, <2>3 DEF TypeOK, TypeDecl, input, skipping, Modes
<1>8. CASE Is(2, "extends") /\ Error(3) /\ Advance(3) /\ UNCHANGED types
    <2>1. pos' \in 1 .. Len(text') + 2
        BY <1>8, <1>1, <1>3
    <2>2. diagnostics' \in Seq(Nat)
        BY <1>8, ErrorType
    <2> QED
        BY <1>8, <2>1, <2>2 DEF TypeOK, TypeDecl, input, skipping, Modes
<1>9. IsType(1) /\ Declared(None, 2) => TypeOK'
    BY <1>1, <1>3, <1>4, <1>7
<1>10. IsType(1) /\ IsType(3) /\ Declared(At(3).value, 4) => TypeOK'
    BY <1>1, <1>3, <1>4, <1>7
<1> QED
    BY <1>6, <1>8, <1>9, <1>10 DEF TypeDecl

LEMMA GlobalsBlockTypes == TypeOK /\ GlobalsBlock => TypeOK'
<1> SUFFICES ASSUME TypeOK, GlobalsBlock PROVE TypeOK'
    OBVIOUS
<1>1. pos + 0 <= Len(text)
    BY AtToken DEF GlobalsBlock, Ended
<1>2. pos' \in 1 .. Len(text') + 2
    BY <1>1, Forward DEF GlobalsBlock, TypeOK
<1> QED
    BY <1>2 DEF TypeOK, GlobalsBlock, input, skipping, doc, Modes

LEMMA FunctionDeclTypes == TypeOK /\ FunctionDecl => TypeOK'
<1> SUFFICES ASSUME TypeOK, FunctionDecl PROVE TypeOK'
    OBVIOUS
<1>1. pos + 0 <= Len(text)
    BY AtToken DEF FunctionDecl, Ended
<1>2. pos' \in 1 .. Len(text') + 2
    <2>1. (Advance(1) \/ Advance(2)) /\ UNCHANGED input
        BY DEF FunctionDecl, Signature
    <2> QED
        BY <1>1, <2>1, Forward
<1>3. func' \in Function
    <2>1. \A n, c \in BOOLEAN : [NoFunction EXCEPT !.native = n, !.constant = c] \in Function
        BY NoFunctionType, Zenon DEF Function
    <2> QED
        BY <2>1 DEF FunctionDecl, Signature, TypeOK
<1>4. diagnostics' \in Seq(Nat)
    BY ErrorType DEF FunctionDecl, Signature
<1>5. mode' \in Modes /\ mode' # "skip"
    BY DEF FunctionDecl, Signature, TypeOK, Modes
<1> QED
    BY <1>2, <1>3, <1>4, <1>5 DEF TypeOK, FunctionDecl, input, skipping, doc

LEMMA EndGlobalsTypes == TypeOK /\ EndGlobals => TypeOK'
<1> SUFFICES ASSUME TypeOK, EndGlobals PROVE TypeOK'
    OBVIOUS
<1>1. ~Ended => pos + 0 <= Len(text)
    BY AtToken DEF Ended
<1>2. pos' \in 1 .. Len(text') + 2
    BY <1>1, Forward DEF EndGlobals, TypeOK
<1> QED
    BY <1>2 DEF TypeOK, EndGlobals, input, skipping, doc, Modes

LEMMA BehindType ==
    ASSUME TypeOK, UNCHANGED input, mode \in {"globals", "body"}, NEW n \in Nat,
           pos + n <= Len(text) + 1, Behind(n)
    PROVE  /\ pos' \in 1 .. Len(text') + 2
           /\ mode' \in Modes /\ depth' \in Nat /\ back' \in {"top", "globals", "body"}
           /\ mode' = "skip" => back' # "top"
<1>1. n + 1 \in Nat /\ pos + (n + 1) <= Len(text) + 2 /\ pos + n <= Len(text) + 2
    BY Forward
<1>2. depth \in Nat /\ back \in {"top", "globals", "body"}
    BY DEF TypeOK
<1>3. pos' \in 1 .. Len(text') + 2
    <2>1. Advance(n) \/ Advance(n + 1)
        BY DEF Behind
    <2> QED
        BY <1>1, <2>1, Forward
<1> QED
    BY <1>2, <1>3 DEF Behind, skipping, Modes

LEMMA GlobalVariableTypes == TypeOK /\ GlobalVariable => TypeOK'
<1> SUFFICES ASSUME TypeOK, GlobalVariable PROVE TypeOK'
    OBVIOUS
<1> DEFINE c == IF Is(0, "constant") THEN 1 ELSE 0
           a == IF Is(c + 1, "array") THEN 1 ELSE 0
           typed == IsType(c) \/ At(c).kind = "keyword"
           new == [name |-> At(c + a + 1).value, type |-> At(c).value,
                   constant |-> c = 1, array |-> a = 1]
<1>1. /\ \/ ~typed /\ Advance(c + 1) /\ NoError /\ UNCHANGED <<mode, skipping, globals>>
         \/ /\ typed /\ ~IsName(c + a + 1)
            /\ Error(c + a + 1) /\ Advance(c + a + 1) /\ UNCHANGED <<mode, skipping, globals>>
         \/ /\ typed /\ IsName(c + a + 1)
            /\ globals' = Append(globals, new) /\ Behind(c + a + 2) /\ NoError
      /\ mode = "globals" /\ ~Ended
      /\ UNCHANGED <<input, func, types, functions, locals>>
    BY DEF GlobalVariable
<1>2. c \in {0, 1} /\ a \in {0, 1}
    OBVIOUS
<1>3. /\ pos + 0 <= Len(text)
      /\ c = 1 => Is(0, "constant")
      /\ a = 1 => Is(c + 1, "array")
    BY <1>1, AtToken DEF Ended
<1> HIDE DEF c, a
<1>4. /\ typed => pos + c <= Len(text)
      /\ a = 1 => pos + (c + 1) <= Len(text)
      /\ IsName(c + a + 1) => pos + (c + a + 1) <= Len(text)
      /\ At(c).value \in Lexeme /\ At(c + a + 1).value \in Lexeme
    <2>1. c \in Nat /\ c + 1 \in Nat /\ c + a + 1 \in Nat
        BY <1>2
    <2> QED
        BY <1>3, <2>1, AtToken, NoneIsNone DEF Is, IsName, IsType, Token
<1>5. new \in [name : Lexeme, type : Lexeme, constant : BOOLEAN, array : BOOLEAN]
    BY <1>4
<1> HIDE DEF new
<1>6. globals \in Seq([name : Lexeme, type : Lexeme, constant : BOOLEAN, array : BOOLEAN])
    BY DEF TypeOK
<1>7. /\ pos \in Nat /\ Len(text) \in Nat
      /\ \A n \in Nat : pos + n <= Len(text) + 2 /\ Advance(n) => pos' \in 1 .. Len(text') + 2
    BY <1>1, Forward
<1>8. CASE ~typed /\ Advance(c + 1) /\ NoError /\ UNCHANGED <<mode, skipping, globals>>
    <2>1. pos' \in 1 .. Len(text') + 2
        <3>1. c + 1 \in Nat /\ pos + (c + 1) <= Len(text) + 2
            BY <1>2, <1>3, <1>7
        <3> QED
            BY <1>7, <1>8, <3>1
    <2> QED
        BY <1>1, <1>8, <2>1 DEF TypeOK, NoError, input, skipping
<1>9. CASE /\ typed /\ ~IsName(c + a + 1)
           /\ Error(c + a + 1) /\ Advance(c + a + 1) /\ UNCHANGED <<mode, skipping, globals>>
    <2>1. c + a + 1 \in Nat /\ pos + (c + a + 1) <= Len(text) + 2
        BY <1>2, <1>4, <1>7, <1>9
    <2>2. pos' \in 1 .. Len(text') + 2
        BY <1>7, <1>9, <2>1
    <2>3. diagnostics' \in Seq(Nat)
        BY <1>9, <2>1, ErrorType
    <2> QED
        BY <1>1, <1>9, <2>2, <2>3 DEF TypeOK, input, skipping
<1>10. CASE /\ typed /\ IsName(c + a + 1)
            /\ globals' = Append(globals, new) /\ Behind(c + a + 2) /\ NoError
    <2>1. c + a + 2 \in Nat /\ pos + (c + a + 2) <= Len(text) + 1
        BY <1>2, <1>4, <1>7, <1>10
    <2>2. /\ pos' \in 1 .. Len(text') + 2
          /\ mode' \in Modes /\ depth' \in Nat /\ back' \in {"top", "globals", "body"}
          /\ mode' = "skip" => back' # "top"
        BY <1>1, <1>10, <2>1, BehindType
    <2>3. globals' \in Seq([name : Lexeme, type : Lexeme, constant : BOOLEAN, array : BOOLEAN])
        BY <1>5, <1>6, <1>10
    <2> QED
        BY <1>1, <1>10, <2>2, <2>3 DEF TypeOK, NoError, input
<1> QED
    BY <1>1, <1>8, <1>9, <1>10

LEMMA SignatureHeadTypes == TypeOK /\ SignatureHead => TypeOK'
<1> SUFFICES ASSUME TypeOK, SignatureHead PROVE TypeOK'
    OBVIOUS
<1>1. /\ At(0) \in Token
      /\ IsName(0) => pos + 0 <= Len(text)
      /\ Is(1, "takes") => pos + 1 <= Len(text)
      /\ Is(2, "nothing") => pos + 2 <= Len(text)
    BY AtToken, NoneIsNone DEF IsName, Is
<1>2. UNCHANGED input
    BY DEF SignatureHead
<1>3. /\ pos \in Nat /\ Len(text) \in Nat /\ pos <= Len(text) + 2
      /\ \A n \in {0, 1, 2, 3} : pos + n <= Len(text) + 2 /\ Advance(n) => pos' \in 1 .. Len(text') + 2
    <2>1. pos \in 1 .. Len(text) + 2
        BY DEF TypeOK
    <2> QED
        BY <1>2, <2>1, Forward
<1>4. func' \in Function
    <2>1. At(0).value \in Lexeme /\ func \in Function
        BY <1>1 DEF Token, TypeOK
    <2> QED
        BY <2>1, Zenon DEF SignatureHead, Function
<1>5. pos' \in 1 .. Len(text') + 2
    BY <1>1, <1>3 DEF SignatureHead
<1>6. diagnostics' \in Seq(Nat)
    BY ErrorType DEF SignatureHead
<1>7. mode' \in Modes /\ mode' # "skip"
    BY DEF SignatureHead, Modes
<1> QED
    BY <1>4, <1>5, <1>6, <1>7 DEF TypeOK, SignatureHead, input, skipping, doc

LEMMA ParamTypes == TypeOK /\ Param => TypeOK'
<1> SUFFICES ASSUME TypeOK, Param PROVE TypeOK'
    OBVIOUS
<1>1. /\ At(0) \in Token /\ At(1) \in Token
      /\ IsType(0) => pos + 0 <= Len(text)
      /\ IsName(1) => pos + 1 <= Len(text)
    BY AtToken DEF IsName, IsType
<1>2. UNCHANGED input
    BY DEF Param
<1>3. /\ pos \in Nat /\ Len(text) \in Nat /\ pos <= Len(text) + 2
      /\ \A n \in {0, 1, 2, 3} : pos + n <= Len(text) + 2 /\ Advance(n) => pos' \in 1 .. Len(text') + 2
    <2>1. pos \in 1 .. Len(text) + 2
        BY DEF TypeOK
    <2> QED
        BY <1>2, <2>1, Forward
<1>4. func' \in Function
    <2> DEFINE new == [type |-> At(0).value, name |-> At(1).value]
               more == Append(func.params, new)
    <2>1. func \in Function /\ func.params \in Seq([type : Lexeme, name : Lexeme])
        BY DEF TypeOK, Function
    <2>2. new \in [type : Lexeme, name : Lexeme]
        BY <1>1 DEF Token
    <2>3. func' = func \/ func' = [func EXCEPT !.params = more]
        BY DEF Param
    <2> HIDE DEF new
    <2>4. more \in Seq([type : Lexeme, name : Lexeme])
        BY <2>1, <2>2
    <2> HIDE DEF more
    <2> QED
        BY <2>1, <2>3, <2>4, Zenon DEF Function
<1>5. pos' \in 1 .. Len(text') + 2
    <2>1. \/ Advance(0)
          \/ IsType(0) /\ Advance(1)
          \/ IsName(1) /\ (Advance(2) \/ Advance(3))
        BY DEF Param
    <2> QED
        BY <1>1, <1>3, <2>1
<1>6. diagnostics' \in Seq(Nat)
    BY ErrorType DEF Param
<1>7. mode' \in Modes /\ mode' # "skip"
    BY DEF Param, Modes
<1> QED
    BY <1>4, <1>5, <1>6, <1>7 DEF TypeOK, Param, input, skipping, doc

LEMMA ReturnsTypes == TypeOK /\ Returns => TypeOK'
<1> SUFFICES ASSUME TypeOK, Returns PROVE TypeOK'
    OBVIOUS
<1> DEFINE typed == Is(1, "nothing") \/ IsType(1)
           value == IF typed THEN At(1).value ELSE None
           f == [func EXCEPT !.returns = value]
<1>1. /\ At(1) \in Token
      /\ Is(0, "returns") => pos + 0 <= Len(text)
    BY AtToken, NoneIsNone DEF Is
<1>2. /\ \/ ~Is(0, "returns") /\ Error(0) /\ Advance(0) /\ mode' = "top" /\ UNCHANGED <<func, functions>>
         \/ /\ Is(0, "returns") /\ NoError /\ Advance(IF typed THEN 2 ELSE 1)
            /\ func' = f
            /\ \/ f.native /\ functions' = Append(functions, f) /\ mode' = "top"
               \/ ~f.native /\ mode' = "body" /\ UNCHANGED functions
      /\ UNCHANGED <<input, skipping, types, globals, locals>>
    BY DEF Returns
<1>3. /\ pos \in Nat /\ Len(text) \in Nat /\ pos <= Len(text) + 2
      /\ \A n \in {0, 1, 2} : pos + n <= Len(text) + 2 /\ Advance(n) => pos' \in 1 .. Len(text') + 2
    <2>1. pos \in 1 .. Len(text) + 2
        BY DEF TypeOK
    <2> QED
        BY <1>2, <2>1, Forward
<1>4. f \in Function
    <2>1. value \in Lexeme /\ func \in Function
        BY <1>1, NoneType DEF Token, TypeOK
    <2> HIDE DEF value
    <2> QED
        BY <2>1, Zenon DEF Function
<1>5. pos' \in 1 .. Len(text') + 2
    <2>1. (IF typed THEN 2 ELSE 1) \in {0, 1, 2}
        OBVIOUS
    <2> HIDE DEF typed
    <2> QED
        BY <1>1, <1>2, <1>3, <2>1
<1>6. diagnostics' \in Seq(Nat)
    BY <1>2, ErrorType
<1>7. mode' \in Modes /\ mode' # "skip"
    BY <1>2 DEF Modes
<1>8. func' \in Function /\ functions' \in Seq(Function)
    <2>1. func \in Function /\ functions \in Seq(Function)
        BY DEF TypeOK
    <2> HIDE DEF f
    <2> QED
        BY <1>2, <1>4, <2>1
<1> QED
    BY <1>2, <1>5, <1>6, <1>7, <1>8 DEF TypeOK, input, skipping

LEMMA EndFunctionTypes == TypeOK /\ EndFunction => TypeOK'
<1> SUFFICES ASSUME TypeOK, EndFunction PROVE TypeOK'
    OBVIOUS
<1>1. ~Ended => pos + 0 <= Len(text)
    BY AtToken DEF Ended
<1>2. pos' \in 1 .. Len(text') + 2
    BY <1>1, Forward DEF EndFunction, TypeOK
<1>3. functions' \in Seq(Function)
    BY DEF EndFunction, TypeOK
<1> QED
    BY <1>2, <1>3 DEF TypeOK, EndFunction, input, skipping, Modes

LEMMA StatementTypes == TypeOK /\ Statement => TypeOK'
<1> SUFFICES ASSUME TypeOK, Statement PROVE TypeOK'
    OBVIOUS
<1>1. pos + 0 <= Len(text)
    BY AtToken DEF Statement, Ended
<1>2. pos' \in 1 .. Len(text') + 2
    BY <1>1, Forward DEF Statement, TypeOK
<1> QED
    BY <1>2 DEF TypeOK, Statement, input, skipping, doc, Modes

LEMMA LocalVariableTypes == TypeOK /\ LocalVariable => TypeOK'
<1> SUFFICES ASSUME TypeOK, LocalVariable PROVE TypeOK'
    OBVIOUS
<1> DEFINE a == IF Is(2, "array") THEN 1 ELSE 0
           new == [function |-> func.name, name |-> At(a + 2).value, type |-> At(1).value]
<1>1. /\ \/ ~IsType(1) /\ Advance(2) /\ UNCHANGED <<mode, skipping, locals>>
         \/ IsType(1) /\ ~IsName(a + 2) /\ Advance(a + 2) /\ UNCHANGED <<mode, skipping, locals>>
         \/ IsType(1) /\ IsName(a + 2) /\ locals' = Append(locals, new) /\ Behind(a + 3)
      /\ mode = "body" /\ ~Ended
      /\ UNCHANGED <<input, func, types, globals, functions, diagnostics>>
    BY DEF LocalVariable
<1>2. a \in {0, 1} /\ (a = 1 => Is(2, "array")) /\ pos + 0 <= Len(text)
    BY <1>1, AtToken DEF Ended
<1> HIDE DEF a
<1>3. /\ a = 1 => pos + 2 <= Len(text)
      /\ IsType(1) => pos + 1 <= Len(text)
      /\ IsName(a + 2) => pos + (a + 2) <= Len(text)
      /\ At(a + 2).value \in Lexeme /\ At(1).value \in Lexeme
    <2>1. a + 2 \in Nat
        BY <1>2
    <2> QED
        BY <1>2, <2>1, AtToken, NoneIsNone DEF Is, IsName, IsType, Token
<1>4. new \in Local
    <2>1. func.name \in Lexeme
        BY DEF TypeOK, Function
    <2> QED
        BY <1>3, <2>1 DEF Local
<1> HIDE DEF new
<1>5. locals \in Seq(Local)
    BY DEF TypeOK
<1>6. /\ pos \in Nat /\ Len(text) \in Nat
      /\ \A n \in Nat : pos + n <= Len(text) + 2 /\ Advance(n) => pos' \in 1 .. Len(text') + 2
    BY <1>1, Forward
<1>7. ASSUME NEW n \in {2, a + 2}, pos + n <= Len(text) + 2, Advance(n), UNCHANGED <<mode, skipping, locals>>
      PROVE  TypeOK'
    <2>1. pos' \in 1 .. Len(text') + 2
        BY <1>2, <1>6, <1>7
    <2> QED
        BY <1>1, <1>7, <2>1 DEF TypeOK, input, skipping
<1>8. CASE IsName(a + 2) /\ locals' = Append(locals, new) /\ Behind(a + 3)
    <2>1. a + 3 \in Nat /\ pos + (a + 3) <= Len(text) + 1
        BY <1>2, <1>3, <1>6, <1>8
    <2>2. /\ pos' \in 1 .. Len(text') + 2
          /\ mode' \in Modes /\ depth' \in Nat /\ back' \in {"top", "globals", "body"}
          /\ mode' = "skip" => back' # "top"
        BY <1>1, <1>8, <2>1, BehindType
    <2>3. locals' \in Seq(Local)
        BY <1>4, <1>5, <1>8
    <2> QED
        BY <1>1, <2>2, <2>3 DEF TypeOK, input
<1>9. pos + 2 <= Len(text) + 2 /\ (IsType(1) => pos + (a + 2) <= Len(text) + 2)
    BY <1>2, <1>3, <1>6
<1> QED
    BY <1>1, <1>7, <1>8, <1>9

LEMMA SkipTypes == TypeOK /\ SkipExpression => TypeOK'
<1> SUFFICES ASSUME TypeOK, SkipExpression PROVE TypeOK'
    OBVIOUS
<1>1. ~Stops => pos + 0 <= Len(text)
    BY AtToken DEF Stops, Ended
<1>2. pos \in 1 .. Len(text) + 2 /\ depth \in Nat /\ back \in {"globals", "body"}
    BY DEF TypeOK, SkipExpression
<1>3. pos' \in 1 .. Len(text') + 2
    <2>1. Advance(0) \/ (~Stops /\ Advance(1))
        BY DEF SkipExpression
    <2>2. UNCHANGED input
        BY DEF SkipExpression
    <2> QED
        BY <1>1, <1>2, <2>1, <2>2, Forward
<1>4. depth' \in Nat
    BY <1>2 DEF SkipExpression, Stops
<1>5. mode' \in Modes /\ back' \in {"globals", "body"}
    BY <1>2 DEF SkipExpression, Modes
<1> QED
    BY <1>3, <1>4, <1>5 DEF TypeOK, SkipExpression, input, doc

LEMMA NextTypes == TypeOK /\ [Next]_vars => TypeOK'
<1>1. TypeOK /\ UNCHANGED vars => TypeOK'
    BY DEF TypeOK, vars, input, skipping, doc
<1> QED
    BY <1>1, FinishTypes, UnknownTypes, TypeDeclTypes, GlobalsBlockTypes, FunctionDeclTypes,
       EndGlobalsTypes, GlobalVariableTypes, SignatureHeadTypes, ParamTypes, ReturnsTypes,
       EndFunctionTypes, StatementTypes, LocalVariableTypes, SkipTypes DEF Next

\* Every variable keeps its type, whatever the text: in particular the position
\* never runs past the token behind the end, and a parenthesis that closes none
\* never makes the depth negative (parseDocument).
THEOREM TypeCorrect == Spec => []TypeOK
BY InitTypes, NextTypes, PTL DEF Spec

-----------------------------------------------------------------------------
LEMMA RankValues ==
    /\ Rank["done"] = 0 /\ Rank["top"] = 1
    /\ \A m \in {"globals", "returns", "body"} : Rank[m] = 2
    /\ \A m \in {"signature", "params", "skip"} : Rank[m] = 3
BY DEF Rank, Modes

LEMMA StepProgress ==
    ASSUME TypeOK, Next
    PROVE  pos' > pos \/ (pos' = pos /\ Rank[mode'] < Rank[mode])
<1> USE RankValues
<1>1. pos \in Nat
    BY DEF TypeOK
<1>2. CASE Finish
    BY <1>1, <1>2 DEF Finish
<1>3. CASE Unknown \/ GlobalsBlock \/ Statement
    BY <1>1, <1>3 DEF Unknown, GlobalsBlock, Statement, Advance
<1>4. CASE TypeDecl
    BY <1>1, <1>4 DEF TypeDecl, Declared, Advance
<1>5. CASE FunctionDecl
    BY <1>1, <1>5 DEF FunctionDecl, Signature, Advance
<1>6. CASE EndGlobals \/ EndFunction
    BY <1>1, <1>6 DEF EndGlobals, EndFunction, Advance
<1>7. CASE GlobalVariable
    BY <1>1, <1>7 DEF GlobalVariable, Behind, Advance
<1>8. CASE SignatureHead
    BY <1>1, <1>8 DEF SignatureHead, Advance
<1>9. CASE Param
    BY <1>1, <1>9 DEF Param, Advance
<1>10. CASE Returns
    BY <1>1, <1>10 DEF Returns, Advance
<1>11. CASE LocalVariable
    BY <1>1, <1>11 DEF LocalVariable, Behind, Advance
<1>12. CASE SkipExpression
    BY <1>1, <1>12 DEF SkipExpression, Advance, TypeOK
<1> QED
    BY <1>2, <1>3, <1>4, <1>5, <1>6, <1>7, <1>8, <1>9, <1>10, <1>11, <1>12 DEF Next

\* Every turn of every loop consumes a token or ends the loop, whatever the text:
\* with RankValues, a text of n tokens takes finitely many of them
\* (parseDocument, parseGlobalsBlock, parseFunctionBody, skipExpression).
THEOREM AlwaysProgress == Spec => Progress
<1>1. TypeOK /\ [Next]_vars => [pos' > pos \/ (pos' = pos /\ Rank[mode'] < Rank[mode])]_vars
    BY StepProgress
<1> QED
    BY <1>1, TypeCorrect, PTL DEF Spec, Progress

-----------------------------------------------------------------------------
\* A local belongs to a function already found or to the one that is read.
InBodyLoop == mode = "body" \/ (mode = "skip" /\ back = "body")
Found(name) == \E k \in DOMAIN functions : functions[k].name = name
Owned == \A i \in DOMAIN locals :
            Found(locals[i].function) \/ (InBodyLoop /\ locals[i].function = func.name)

LEMMA OwnedStays ==
    ASSUME Owned, UNCHANGED <<locals, functions>>, InBodyLoop => InBodyLoop' /\ func' = func
    PROVE  Owned'
BY DEF Owned, Found

\* A function that is appended hides none of those before.
LEMMA FoundStays ==
    ASSUME TypeOK, NEW f \in Function, functions' = Append(functions, f)
    PROVE  /\ \A name : Found(name) => Found(name)'
           /\ Found(f.name)'
<1>1. functions \in Seq(Function)
    BY DEF TypeOK
<1>2. /\ DOMAIN functions' = 1 .. Len(functions) + 1 /\ DOMAIN functions = 1 .. Len(functions)
      /\ \A k \in DOMAIN functions : functions'[k] = functions[k]
      /\ functions'[Len(functions) + 1] = f
      /\ Len(functions) \in Nat
    BY <1>1
<1> QED
    BY <1>2 DEF Found

LEMMA OwnedStep ==
    ASSUME TypeOK, Owned, Next
    PROVE  Owned'
<1>1. CASE Finish \/ Unknown \/ GlobalsBlock \/ EndGlobals \/ Statement
    <2>1. UNCHANGED <<locals, functions>> /\ (InBodyLoop => InBodyLoop' /\ func' = func)
        BY <1>1 DEF Finish, Unknown, GlobalsBlock, EndGlobals, Statement, doc, InBodyLoop
    <2> QED
        BY <2>1, OwnedStays
<1>2. CASE TypeDecl \/ FunctionDecl
    <2>1. UNCHANGED <<locals, functions>> /\ ~InBodyLoop
        BY <1>2 DEF TypeDecl, FunctionDecl, doc, InBodyLoop
    <2> QED
        BY <2>1, OwnedStays
<1>3. CASE GlobalVariable \/ SignatureHead \/ Param
    <2>1. UNCHANGED <<locals, functions>> /\ ~InBodyLoop
        BY <1>3 DEF GlobalVariable, SignatureHead, Param, doc, InBodyLoop
    <2> QED
        BY <2>1, OwnedStays
<1>4. CASE Returns
    <2>1. ~InBodyLoop /\ UNCHANGED locals
        BY <1>4 DEF Returns, InBodyLoop
    <2>2. func' \in Function
        BY <1>4, ReturnsTypes DEF TypeOK
    <2>3. UNCHANGED functions \/ functions' = Append(functions, func')
        BY <1>4 DEF Returns
    <2>4. \A name : Found(name) => Found(name)'
        <3>1. CASE UNCHANGED functions
            BY <3>1 DEF Found
        <3>2. CASE functions' = Append(functions, func')
            BY <2>2, <3>2, FoundStays
        <3> QED
            BY <2>3, <3>1, <3>2
    <2> QED
        BY <2>1, <2>4 DEF Owned
<1>5. CASE EndFunction
    <2>1. functions' = Append(functions, func) /\ UNCHANGED locals /\ func \in Function
        BY <1>5 DEF EndFunction, TypeOK
    <2>2. PICK f \in Function : f = func
        BY <2>1
    <2>3. (\A name : Found(name) => Found(name)') /\ Found(f.name)'
        BY <2>1, <2>2, FoundStays
    <2>4. \A i \in DOMAIN locals : Found(locals[i].function) \/ locals[i].function = f.name
        BY <2>2 DEF Owned
    <2> QED
        BY <2>1, <2>3, <2>4 DEF Owned
<1>6. CASE LocalVariable
    <2>1. InBodyLoop /\ InBodyLoop' /\ UNCHANGED <<func, functions>>
        BY <1>6 DEF LocalVariable, Behind, InBodyLoop, skipping
    <2>2. PICK new : new.function = func.name /\ (UNCHANGED locals \/ locals' = Append(locals, new))
        BY <1>6 DEF LocalVariable
    <2>3. CASE UNCHANGED locals
        BY <2>1, <2>3, OwnedStays
    <2>4. CASE locals' = Append(locals, new)
        <3>1. locals \in Seq(Local)
            BY DEF TypeOK
        <3>2. /\ DOMAIN locals' = DOMAIN locals \cup {Len(locals) + 1}
              /\ \A i \in DOMAIN locals : locals'[i] = locals[i]
              /\ locals'[Len(locals) + 1] = new
            BY <2>4, <3>1
        <3>3. \A name : Found(name)' <=> Found(name)
            BY <2>1 DEF Found
        <3> QED
            BY <2>1, <2>2, <3>2, <3>3 DEF Owned
    <2> QED
        BY <2>2, <2>3, <2>4
<1>7. CASE SkipExpression
    <2>1. UNCHANGED <<locals, functions>> /\ (InBodyLoop => InBodyLoop' /\ func' = func)
        BY <1>7 DEF SkipExpression, doc, InBodyLoop
    <2> QED
        BY <2>1, OwnedStays
<1> QED
    BY <1>1, <1>2, <1>3, <1>4, <1>5, <1>6, <1>7 DEF Next

\* However broken a text is, each local the parser reports belongs to a function
\* it reports, so that the completion finds it (parseLocalVariable).
THEOREM LocalsHaveFunctions == Spec => []LocalsOwned
<1>1. Init => Owned
    BY DEF Init, Owned
<1>2. TypeOK /\ Owned /\ [Next]_vars => Owned'
    <2>1. UNCHANGED vars /\ Owned => Owned'
        BY OwnedStays DEF vars, doc, skipping, InBodyLoop
    <2> QED
        BY <2>1, OwnedStep
<1>3. Owned => LocalsOwned
    BY DEF Owned, LocalsOwned, Found, InBodyLoop
<1> QED
    BY <1>1, <1>2, <1>3, TypeCorrect, PTL DEF Spec

-----------------------------------------------------------------------------
(***************************************************************************)
(* What a program declares, declaration by declaration                     *)
(***************************************************************************)

TypeLists(p) == Map(Types, p)
GlobalLists(p) == Map(Globals, p)
FunctionLists(p) == Map(Functions, p)
LocalLists(p) == Map(Locals, p)

\* What the first n declarations declare has been collected, each kind for itself.
TypesRead(p, n) == types = Upto(TypeLists(p), n)
GlobalsRead(p, n) == globals = Upto(GlobalLists(p), n)
FunctionsRead(p, n) == functions = Upto(FunctionLists(p), n)
LocalsRead(p, n) == locals = Upto(LocalLists(p), n)
AllRead(p, n) == TypesRead(p, n) /\ GlobalsRead(p, n) /\ FunctionsRead(p, n) /\ LocalsRead(p, n)

LEMMA ListsStart ==
    ASSUME NEW p, Len(p) \in Nat, DOMAIN p = 1 .. Len(p)
    PROVE  /\ Upto(TypeLists(p), 0) = <<>> /\ Upto(GlobalLists(p), 0) = <<>>
           /\ Upto(FunctionLists(p), 0) = <<>> /\ Upto(LocalLists(p), 0) = <<>>
<1>1. /\ Len(TypeLists(p)) = Len(p) /\ Len(GlobalLists(p)) = Len(p)
      /\ Len(FunctionLists(p)) = Len(p) /\ Len(LocalLists(p)) = Len(p)
    BY DEF TypeLists, GlobalLists, FunctionLists, LocalLists, Map
<1> QED
    BY <1>1, UptoStep, Zenon

LEMMA ListsStep ==
    ASSUME NEW p \in Seq(Declaration), NEW n \in Nat, n < Len(p), NEW d, d = p[n + 1]
    PROVE  /\ Upto(TypeLists(p), n + 1) = Upto(TypeLists(p), n) \o Types(d)
           /\ Upto(GlobalLists(p), n + 1) = Upto(GlobalLists(p), n) \o Globals(d)
           /\ Upto(FunctionLists(p), n + 1) = Upto(FunctionLists(p), n) \o Functions(d)
           /\ Upto(LocalLists(p), n + 1) = Upto(LocalLists(p), n) \o Locals(d)
<1>1. Len(p) \in Nat /\ DOMAIN p = 1 .. Len(p) /\ n + 1 \in 1 .. Len(p)
    OBVIOUS
<1>2. /\ TypeLists(p)[n + 1] = Types(d) /\ GlobalLists(p)[n + 1] = Globals(d)
      /\ FunctionLists(p)[n + 1] = Functions(d) /\ LocalLists(p)[n + 1] = Locals(d)
    BY <1>1, Zenon DEF TypeLists, GlobalLists, FunctionLists, LocalLists, Map
<1>3. /\ Len(TypeLists(p)) = Len(p) /\ Len(GlobalLists(p)) = Len(p)
      /\ Len(FunctionLists(p)) = Len(p) /\ Len(LocalLists(p)) = Len(p)
    BY <1>1 DEF TypeLists, GlobalLists, FunctionLists, LocalLists, Map
<1> QED
    BY <1>1, <1>2, <1>3, UptoStep, Zenon

\* A declaration of another kind adds nothing.
LEMMA NothingAdded ==
    ASSUME TypeOK, NEW p \in Seq(Declaration), NEW n \in Nat, n < Len(p), NEW d, d = p[n + 1]
    PROVE  /\ d.kind # "type" /\ TypesRead(p, n) => TypesRead(p, n + 1)
           /\ d.kind # "globals" /\ GlobalsRead(p, n) => GlobalsRead(p, n + 1)
           /\ d.kind # "function" /\ FunctionsRead(p, n) => FunctionsRead(p, n + 1)
           /\ d.kind # "function" /\ LocalsRead(p, n) => LocalsRead(p, n + 1)
<1>1. types \o <<>> = types /\ globals \o <<>> = globals /\ functions \o <<>> = functions
      /\ locals \o <<>> = locals
    BY DEF TypeOK
<1>0. /\ Upto(TypeLists(p), n + 1) = Upto(TypeLists(p), n) \o Types(d)
      /\ Upto(GlobalLists(p), n + 1) = Upto(GlobalLists(p), n) \o Globals(d)
      /\ Upto(FunctionLists(p), n + 1) = Upto(FunctionLists(p), n) \o Functions(d)
      /\ Upto(LocalLists(p), n + 1) = Upto(LocalLists(p), n) \o Locals(d)
    BY ListsStep
<1>2. d.kind # "type" /\ TypesRead(p, n) => TypesRead(p, n + 1)
    <2>1. d.kind # "type" => Types(d) = <<>>
        BY DEF Types
    <2> QED
        BY <1>0, <1>1, <2>1, Zenon DEF TypesRead
<1>3. d.kind # "globals" /\ GlobalsRead(p, n) => GlobalsRead(p, n + 1)
    <2>1. d.kind # "globals" => Globals(d) = <<>>
        BY DEF Globals
    <2> QED
        BY <1>0, <1>1, <2>1, Zenon DEF GlobalsRead
<1>4. d.kind # "function" /\ FunctionsRead(p, n) => FunctionsRead(p, n + 1)
    <2>1. d.kind # "function" => Functions(d) = <<>>
        BY DEF Functions
    <2> QED
        BY <1>0, <1>1, <2>1, Zenon DEF FunctionsRead
<1>5. d.kind # "function" /\ LocalsRead(p, n) => LocalsRead(p, n + 1)
    <2>1. d.kind # "function" => Locals(d) = <<>>
        BY DEF Locals
    <2> QED
        BY <1>0, <1>1, <2>1, Zenon DEF LocalsRead
<1> QED
    BY <1>2, <1>3, <1>4, <1>5

TypeSet == [name : Lexeme, parent : Lexeme]
GlobalSet == [name : Lexeme, type : Lexeme, constant : BOOLEAN, array : BOOLEAN]

GlobalRecord(v) == [name |-> v.name, type |-> v.type.value, constant |-> v.constant, array |-> v.array]
ParamRecord(q) == [type |-> q.type.value, name |-> q.name]
LocalPart(d, s) == Optional(s.kind = "local", <<[function |-> d.name, name |-> s.variable.name,
                                                 type |-> s.variable.type.value]>>)
LocalParts(d) == [i \in DOMAIN d.body |-> LocalPart(d, d.body[i])]

LEMMA NamesTypes ==
    /\ \A x \in NoWord : x \in Lexeme
    /\ \A x \in TypeName : x.value \in NoWord /\ x.value \in Lexeme /\ x.kind \in {"identifier", "type"}
    /\ None \in Lexeme
BY ParserAssumption DEF ParserAssumption, Reserved, NoWord, TypeName

LEMMA TypesType ==
    ASSUME NEW d \in Declaration
    PROVE  Types(d) \in Seq(TypeSet)
<1>1. CASE d.kind = "type"
    <2>1. d \in [kind : {"type"}, name : NoWord, parent : TypeName \cup {Nil}]
        BY <1>1 DEF Declaration, NoWord
    <2>2. d.name \in NoWord /\ (d.parent = Nil \/ d.parent \in TypeName)
        BY <2>1
    <2>3. PICK x, y : x = d.name /\ y = IF d.parent = Nil THEN None ELSE d.parent.value
        OBVIOUS
    <2>4. x \in Lexeme /\ y \in Lexeme
        BY <2>2, <2>3, NamesTypes
    <2>5. Types(d) = <<[name |-> x, parent |-> y]>>
        BY <1>1, <2>3, Zenon DEF Types
    <2> QED
        BY <2>4, <2>5 DEF TypeSet
<1>2. CASE d.kind # "type"
    BY <1>2 DEF Types
<1> QED
    BY <1>1, <1>2

LEMMA GlobalsType ==
    ASSUME NEW d \in Declaration
    PROVE  /\ Globals(d) \in Seq(GlobalSet)
           /\ d.kind = "globals" => Globals(d) = [i \in 1 .. Len(d.variables) |-> GlobalRecord(d.variables[i])]
<1>1. CASE d.kind = "globals"
    <2>1. d.variables \in Seq(DeclaredVariable(BOOLEAN))
        BY <1>1 DEF Declaration
    <2>2. PICK vs, n : vs = d.variables /\ n = Len(vs)
        OBVIOUS
    <2>3. n \in Nat /\ DOMAIN vs = 1 .. n /\ \A i \in 1 .. n : vs[i] \in DeclaredVariable(BOOLEAN)
        BY <2>1, <2>2
    <2>4. ASSUME NEW v \in DeclaredVariable(BOOLEAN) PROVE GlobalRecord(v) \in GlobalSet
        <3>1. v.type \in TypeName /\ v.name \in NoWord /\ v.constant \in BOOLEAN /\ v.array \in BOOLEAN
            BY DEF DeclaredVariable, NoWord
        <3>2. v.type.value \in Lexeme /\ v.name \in Lexeme
            BY <3>1, NamesTypes
        <3> QED
            BY <3>1, <3>2, Zenon DEF GlobalRecord, GlobalSet
    <2>5. Globals(d) = [i \in 1 .. n |-> GlobalRecord(vs[i])]
        BY <1>1, <2>2, <2>3, Zenon DEF Globals, Map, GlobalRecord
    <2>6. \A i \in 1 .. n : GlobalRecord(vs[i]) \in GlobalSet
        BY <2>3, <2>4
    <2>7. [i \in 1 .. n |-> GlobalRecord(vs[i])] \in Seq(GlobalSet)
        BY <2>3, <2>6
    <2> QED
        BY <2>2, <2>5, <2>7, Zenon
<1>2. CASE d.kind # "globals"
    <2>1. Globals(d) = <<>>
        BY <1>2, Zenon DEF Globals
    <2> QED
        BY <1>2, <2>1
<1> QED
    BY <1>1, <1>2

LEMMA LocalPartType ==
    ASSUME NEW d, d.name \in NoWord, NEW s \in BodyPart
    PROVE  /\ LocalPart(d, s) \in Seq(Local)
           /\ s.kind # "local" => LocalPart(d, s) = <<>>
           /\ s.kind = "local" => LocalPart(d, s) = <<[function |-> d.name, name |-> s.variable.name,
                                                       type |-> s.variable.type.value]>>
<1>1. CASE s.kind = "local"
    <2>1. s.variable \in DeclaredVariable(BOOLEAN)
        BY <1>1, BodyParts
    <2>2. s.variable.type \in TypeName /\ s.variable.name \in NoWord
        BY <2>1 DEF DeclaredVariable, NoWord
    <2>3. PICK x, y, z : x = d.name /\ y = s.variable.name /\ z = s.variable.type.value
        OBVIOUS
    <2>4. x \in Lexeme /\ y \in Lexeme /\ z \in Lexeme
        BY <2>2, <2>3, NamesTypes
    <2>5. LocalPart(d, s) = <<[function |-> x, name |-> y, type |-> z]>>
        BY <1>1, <2>3, Zenon DEF LocalPart, Optional
    <2>6. <<[function |-> x, name |-> y, type |-> z]>> \in Seq(Local)
        BY <2>4 DEF Local
    <2> QED
        BY <1>1, <2>3, <2>5, <2>6, Zenon
<1>2. CASE s.kind # "local"
    <2>1. LocalPart(d, s) = <<>>
        BY <1>2, Zenon DEF LocalPart, Optional
    <2> QED
        BY <1>2, <2>1
<1> QED
    BY <1>1, <1>2

LEMMA LocalPartsType ==
    ASSUME NEW d, FunctionParts(d)
    PROVE  /\ LocalParts(d) \in Seq(Seq(Local)) /\ Len(LocalParts(d)) = Len(d.body) /\ Len(d.body) \in Nat
           /\ \A k \in Nat : k < Len(d.body) => /\ d.body[k + 1] \in BodyPart
                                                /\ LocalParts(d)[k + 1] = LocalPart(d, d.body[k + 1])
<1>1. d.name \in NoWord /\ d.body \in Seq(BodyPart)
    BY Zenon DEF FunctionParts
<1>2. PICK ss, n : ss = d.body /\ n = Len(ss)
    OBVIOUS
<1>3. n \in Nat /\ DOMAIN ss = 1 .. n /\ \A i \in 1 .. n : ss[i] \in BodyPart
    BY <1>1, <1>2
<1>4. \A i \in 1 .. n : LocalPart(d, ss[i]) \in Seq(Local)
    BY <1>1, <1>3, LocalPartType
<1>5. LocalParts(d) = [i \in 1 .. n |-> LocalPart(d, ss[i])]
    BY <1>2, <1>3, Zenon DEF LocalParts
<1>6. LocalParts(d) \in Seq(Seq(Local)) /\ Len(LocalParts(d)) = n
    BY <1>3, <1>4, <1>5
<1>7. \A k \in Nat : k < n => k + 1 \in 1 .. n
    BY <1>3
<1> QED
    BY <1>2, <1>3, <1>5, <1>6, <1>7

LEMMA LocalsType ==
    ASSUME NEW d \in Declaration
    PROVE  /\ Locals(d) \in Seq(Local)
           /\ d.kind = "function" => Locals(d) = Upto(LocalParts(d), Len(d.body))
<1>1. CASE d.kind = "function"
    <2>1. FunctionParts(d)
        BY <1>1, FunctionDeclared
    <2>2. PICK seqs : seqs = LocalParts(d)
        OBVIOUS
    <2>3. seqs \in Seq(Seq(Local)) /\ Len(seqs) = Len(d.body)
        BY <2>1, <2>2, LocalPartsType
    <2>4. Locals(d) = FlattenSeq(seqs)
        BY <1>1, <2>2, Zenon DEF Locals, Map, LocalParts, LocalPart
    <2> QED
        BY <2>2, <2>3, <2>4, FlattenUpto
<1>2. CASE d.kind # "function"
    BY <1>2 DEF Locals
<1> QED
    BY <1>1, <1>2

\* The function as its signature is read: its parameters so far and what it returns.
Signed(d, params, returns) ==
    [name |-> d.name, native |-> d.native, constant |-> d.constant, params |-> params, returns |-> returns]
ParamRecords(d, k) == [i \in 1 .. k |-> ParamRecord(d.params[i])]
ParamRecordSet == [type : Lexeme, name : Lexeme]

LEMMA ParamRecordsType ==
    ASSUME NEW d, FunctionParts(d)
    PROVE  /\ Len(d.params) \in Nat
           /\ \A k \in 0 .. Len(d.params) : ParamRecords(d, k) \in Seq(ParamRecordSet)
           /\ ParamRecords(d, 0) = <<>>
           /\ \A k \in Nat : k < Len(d.params) =>
                 ParamRecords(d, k + 1) = Append(ParamRecords(d, k), ParamRecord(d.params[k + 1]))
<1>1. d.params \in Seq(ParamSet)
    BY Zenon DEF FunctionParts
<1>2. PICK ps, n : ps = d.params /\ n = Len(ps)
    OBVIOUS
<1>3. n \in Nat /\ \A i \in 1 .. n : ps[i] \in ParamSet
    BY <1>1, <1>2
<1>4. ASSUME NEW q \in ParamSet PROVE ParamRecord(q) \in ParamRecordSet
    <2>1. q.type \in TypeName /\ q.name \in NoWord
        BY DEF ParamSet
    <2>2. q.type.value \in Lexeme /\ q.name \in Lexeme
        BY <2>1, NamesTypes
    <2> QED
        BY <2>2, Zenon DEF ParamRecord, ParamRecordSet
<1>5. \A i \in 1 .. n : ParamRecord(ps[i]) \in ParamRecordSet
    BY <1>3, <1>4
<1>6. \A k : ParamRecords(d, k) = [i \in 1 .. k |-> ParamRecord(ps[i])]
    BY <1>2 DEF ParamRecords
<1>7. ASSUME NEW k \in 0 .. n PROVE ParamRecords(d, k) \in Seq(ParamRecordSet)
    <2>1. [i \in 1 .. k |-> ParamRecord(ps[i])] \in Seq(ParamRecordSet)
        BY <1>3, <1>5
    <2> QED
        BY <1>6, <2>1
<1>8. ParamRecords(d, 0) = <<>>
    BY <1>6
<1>9. ASSUME NEW k \in Nat, k < n
      PROVE  ParamRecords(d, k + 1) = Append(ParamRecords(d, k), ParamRecord(ps[k + 1]))
    BY <1>6
<1> QED
    BY <1>2, <1>3, <1>7, <1>8, <1>9

LEMMA FunctionsType ==
    ASSUME NEW d \in Declaration
    PROVE  /\ Functions(d) \in Seq(Function)
           /\ d.kind = "function" =>
                 Functions(d) = <<Signed(d, ParamRecords(d, Len(d.params)), d.returns.value)>>
<1>1. CASE d.kind = "function"
    <2>1. FunctionParts(d)
        BY <1>1, FunctionDeclared
    <2>2. /\ d.name \in NoWord /\ d.native \in BOOLEAN /\ d.constant \in BOOLEAN
          /\ d.returns \in TypeName \cup {Word("nothing")} /\ d.params \in Seq(ParamSet)
        BY <2>1, Zenon DEF FunctionParts
    <2>3. PICK n, ps, rs, r : n = d.name /\ ps = d.params /\ rs = ParamRecords(d, Len(ps)) /\ r = d.returns.value
        OBVIOUS
    <2>4. Len(ps) \in Nat /\ DOMAIN ps = 1 .. Len(ps)
        BY <2>2, <2>3
    <2>5. rs \in Seq(ParamRecordSet)
        BY <2>1, <2>3, <2>4, ParamRecordsType
    <2>6. n \in Lexeme /\ r \in Lexeme
        <3>1. Word("nothing").value \in Lexeme
            BY ParserAssumption DEF ParserAssumption, Reserved, Keywords, Word
        <3> QED
            BY <2>2, <2>3, <3>1, NamesTypes
    <2>7. Map(LAMBDA q : [type |-> q.type.value, name |-> q.name], ps) = rs
        BY <2>3, <2>4, Zenon DEF Map, ParamRecords, ParamRecord
    <2>8. Functions(d) = <<Signed(d, rs, r)>>
        BY <1>1, <2>3, <2>7, Zenon DEF Functions, Signed
    <2>9. Signed(d, rs, r) \in Function
        BY <2>2, <2>3, <2>5, <2>6, Zenon DEF Signed, Function, ParamRecordSet
    <2> QED
        BY <2>3, <2>8, <2>9
<1>2. CASE d.kind # "function"
    <2>1. Functions(d) = <<>>
        BY <1>2, Zenon DEF Functions
    <2> QED
        BY <1>2, <2>1
<1> QED
    BY <1>1, <1>2

\* Behind the last declaration all has been collected.
Done(p) == /\ types = FlattenSeq(TypeLists(p)) /\ globals = FlattenSeq(GlobalLists(p))
           /\ functions = FlattenSeq(FunctionLists(p)) /\ locals = FlattenSeq(LocalLists(p))

LEMMA AllIsRead ==
    ASSUME NEW p \in Seq(Declaration), AllRead(p, Len(p))
    PROVE  Done(p)
<1>1. PICK n : n = Len(p)
    OBVIOUS
<1>2. n \in Nat /\ DOMAIN p = 1 .. n /\ \A i \in 1 .. n : p[i] \in Declaration
    BY <1>1
<1>3. FlattenSeq(TypeLists(p)) = Upto(TypeLists(p), n)
    <2>1. TypeLists(p) = [i \in 1 .. n |-> Types(p[i])] /\ \A i \in 1 .. n : Types(p[i]) \in Seq(TypeSet)
        BY <1>2, TypesType, Zenon DEF TypeLists, Map
    <2>2. TypeLists(p) \in Seq(Seq(TypeSet)) /\ Len(TypeLists(p)) = n
        BY <1>2, <2>1
    <2> QED
        BY <2>2, FlattenUpto
<1>4. FlattenSeq(GlobalLists(p)) = Upto(GlobalLists(p), n)
    <2>1. GlobalLists(p) = [i \in 1 .. n |-> Globals(p[i])] /\ \A i \in 1 .. n : Globals(p[i]) \in Seq(GlobalSet)
        BY <1>2, GlobalsType, Zenon DEF GlobalLists, Map
    <2>2. GlobalLists(p) \in Seq(Seq(GlobalSet)) /\ Len(GlobalLists(p)) = n
        BY <1>2, <2>1
    <2> QED
        BY <2>2, FlattenUpto
<1>5. FlattenSeq(FunctionLists(p)) = Upto(FunctionLists(p), n)
    <2>1. FunctionLists(p) = [i \in 1 .. n |-> Functions(p[i])] /\ \A i \in 1 .. n : Functions(p[i]) \in Seq(Function)
        BY <1>2, FunctionsType, Zenon DEF FunctionLists, Map
    <2>2. FunctionLists(p) \in Seq(Seq(Function)) /\ Len(FunctionLists(p)) = n
        BY <1>2, <2>1
    <2> QED
        BY <2>2, FlattenUpto
<1>6. FlattenSeq(LocalLists(p)) = Upto(LocalLists(p), n)
    <2>1. LocalLists(p) = [i \in 1 .. n |-> Locals(p[i])] /\ \A i \in 1 .. n : Locals(p[i]) \in Seq(Local)
        BY <1>2, LocalsType, Zenon DEF LocalLists, Map
    <2>2. LocalLists(p) \in Seq(Seq(Local)) /\ Len(LocalLists(p)) = n
        BY <1>2, <2>1
    <2> QED
        BY <2>2, FlattenUpto
<1> QED
    BY <1>1, <1>3, <1>4, <1>5, <1>6, Zenon
       DEF AllRead, TypesRead, GlobalsRead, FunctionsRead, LocalsRead, Done

-----------------------------------------------------------------------------
(***************************************************************************)
(* Where the parser is in the text of a correct program                    *)
(***************************************************************************)

\* The tokens of a function up to its parameters and up to its body.
Bodied(d) == One(d.constant) + Len(WrittenParams(d.params)) + 5
GlobalRecords(d, k) == [i \in 1 .. k |-> GlobalRecord(d.variables[i])]
\* Behind the k-th statement's beginning.
Low(d, k) == IF k = 0 THEN 0 ELSE Len(Upto(StatementTexts(d), k - 1)) + Begun(d.body[k])

InTop(p, n) == mode = "top" /\ pos = Start(p, n) + 1 /\ AllRead(p, n)
InGlobals(p, n, d, k) ==
    /\ mode = "globals" /\ d.kind = "globals" /\ k \in 0 .. Len(d.variables)
    /\ pos = Start(p, n) + Len(Upto(VariableTexts(d), k)) + 2
    /\ TypesRead(p, n) /\ FunctionsRead(p, n) /\ LocalsRead(p, n)
    /\ globals = Upto(GlobalLists(p), n) \o GlobalRecords(d, k)
InFunction(p, n, d) ==
    d.kind = "function" /\ TypesRead(p, n) /\ GlobalsRead(p, n) /\ FunctionsRead(p, n)
InSignature(p, n, d) ==
    /\ mode = "signature" /\ InFunction(p, n, d) /\ LocalsRead(p, n)
    /\ pos = Start(p, n) + One(d.constant) + 2
    /\ func = [NoFunction EXCEPT !.native = d.native, !.constant = d.constant]
InParams(p, n, d, k) ==
    /\ mode = "params" /\ InFunction(p, n, d) /\ LocalsRead(p, n)
    /\ k \in Nat /\ k < Len(d.params)
    /\ pos = Start(p, n) + One(d.constant) + 3 + Len(Upto(ParamTexts(d), k)) + One(k > 0) + 1
    /\ func = Signed(d, ParamRecords(d, k), None)
InReturns(p, n, d) ==
    /\ mode = "returns" /\ InFunction(p, n, d) /\ LocalsRead(p, n)
    /\ pos = Start(p, n) + Bodied(d) - 1
    /\ func = Signed(d, ParamRecords(d, Len(d.params)), None)
\* Among the statements the parser may be behind any token of the k-th's that is not its beginning.
InBody(p, n, d, k) ==
    /\ mode = "body" \/ (mode = "skip" /\ back = "body")
    /\ InFunction(p, n, d) /\ ~d.native
    /\ func = Signed(d, ParamRecords(d, Len(d.params)), d.returns.value)
    /\ k \in 0 .. Len(d.body)
    /\ pos > Start(p, n) + Bodied(d) + Low(d, k)
    /\ pos <= Start(p, n) + Bodied(d) + Len(Upto(StatementTexts(d), k)) + 1
    /\ locals = Upto(LocalLists(p), n) \o Upto(LocalParts(d), k)
InDeclaration(p, n, d) ==
    \/ \E k \in Nat : InGlobals(p, n, d, k)
    \/ InSignature(p, n, d)
    \/ \E k \in Nat : InParams(p, n, d, k)
    \/ InReturns(p, n, d)
    \/ \E k \in Nat : InBody(p, n, d, k)
Reading(p) ==
    \/ \E n \in 0 .. Len(p) : InTop(p, n)
    \/ mode = "done" /\ Done(p)
    \/ \E n \in Nat : n < Len(p) /\ InDeclaration(p, n, p[n + 1])

Reads(p) == Reading(p)' /\ NoError

LEMMA DoneStays ==
    ASSUME NEW p
    PROVE  Done(p) /\ UNCHANGED doc => Done(p)'
BY DEF Done, doc

LEMMA ReadStays ==
    ASSUME NEW p, NEW n
    PROVE  /\ UNCHANGED types /\ TypesRead(p, n) => TypesRead(p, n)'
           /\ UNCHANGED globals /\ GlobalsRead(p, n) => GlobalsRead(p, n)'
           /\ UNCHANGED functions /\ FunctionsRead(p, n) => FunctionsRead(p, n)'
           /\ UNCHANGED locals /\ LocalsRead(p, n) => LocalsRead(p, n)'
           /\ UNCHANGED doc /\ AllRead(p, n) => AllRead(p, n)'
BY Zenon DEF TypesRead, GlobalsRead, FunctionsRead, LocalsRead, AllRead, doc

LEMMA Arrives ==
    ASSUME NEW p, NEW n \in 0 .. Len(p), InTop(p, n)', NoError
    PROVE  Reads(p)
BY Zenon DEF Reads, Reading

LEMMA Enters ==
    ASSUME NEW p, NEW n \in Nat, n < Len(p), NEW d, d = p[n + 1], InDeclaration(p, n, d)', NoError
    PROVE  Reads(p)
BY Zenon DEF Reads, Reading

LEMMA TopEnds ==
    ASSUME TypeOK, NEW p, Correct(p), InTop(p, Len(p)), Next
    PROVE  Reads(p)
<1>1. p \in Seq(Declaration)
    BY ProgramText DEF Correct
<1>2. Len(p) \in 0 .. Len(p)
    BY <1>1
<1>3. pos + 0 = Start(p, Len(p)) + 1
    BY DEF InTop, TypeOK
<1>4. At(0) = Eof
    BY <1>2, <1>3, TokenBehind
<1>5. Ended /\ mode = "top"
    BY <1>4 DEF Ended, Eof, InTop
<1>6. Finish
    BY <1>5 DEF Next, Unknown, TypeDecl, GlobalsBlock, FunctionDecl, EndGlobals, GlobalVariable,
                SignatureHead, Param, Returns, EndFunction, Statement, LocalVariable, SkipExpression
<1>7. Done(p)
    BY <1>1, AllIsRead DEF InTop
<1>8. Done(p)' /\ mode' = "done" /\ NoError
    BY <1>6, <1>7, DoneStays DEF Finish, NoError
<1> QED
    BY <1>8, Zenon DEF Reads, Reading

\* In the loop over the declarations only its own steps are possible.
LEMMA TopSteps ==
    ASSUME mode = "top", ~Ended, Next
    PROVE  /\ Is(0, "type") => TypeDecl
           /\ Is(0, "globals") => GlobalsBlock
           /\ Is(0, "constant") \/ Is(0, "function") \/ Is(0, "native") => FunctionDecl
BY DEF Next, Finish, Unknown, TypeDecl, GlobalsBlock, FunctionDecl, EndGlobals, GlobalVariable,
       SignatureHead, Param, Returns, EndFunction, Statement, LocalVariable, SkipExpression, Is

\* The parser is behind the first b tokens of the declaration d.
Placed(p, n, d, t, s, b) ==
    /\ n \in Nat /\ n < Len(p) /\ d = p[n + 1] /\ t = Written(d) /\ s = Start(p, n)
    /\ b \in Nat /\ pos = s + b + 1
\* What it sees: the declaration's tokens and then the next declaration's first or the end.
Sees(t, b) ==
    \A k \in Nat : /\ b + k + 1 <= Len(t) => At(k) = t[b + k + 1]
                   /\ b + k = Len(t) => At(k).value \in FirstWords \cup {None}

LEMMA Ahead ==
    ASSUME TypeOK, NEW p, Correct(p), NEW n, NEW d, NEW t, NEW s, NEW b, Placed(p, n, d, t, s, b)
    PROVE  /\ Sees(t, b) /\ d \in Declaration /\ p \in Seq(Declaration)
           /\ s \in Nat /\ Start(p, n + 1) = s + Len(t) /\ n + 1 \in 0 .. Len(p) /\ Len(t) \in Nat
<1>1. /\ n \in Nat /\ n < Len(p) /\ d = p[n + 1] /\ t = Written(d) /\ s = Start(p, n)
      /\ b \in Nat /\ pos = s + b + 1
    BY Zenon DEF Placed
<1>2. p \in Seq(Declaration)
    BY ProgramText DEF Correct
<1>3. /\ d \in Declaration /\ Len(p) \in Nat /\ s \in Nat /\ Len(t) \in Nat
      /\ Start(p, n + 1) = s + Len(t)
    BY <1>1, DeclaredAt
<1>4. n + 1 \in 0 .. Len(p) /\ (n + 1 = Len(p) \/ n + 1 < Len(p))
    BY <1>1, <1>3
<1>5. ASSUME NEW k \in Nat, b + k + 1 <= Len(t) PROVE At(k) = t[b + k + 1]
    <2>1. PICK j : j = b + k + 1
        OBVIOUS
    <2>2. j \in 1 .. Len(t) /\ pos + k = s + j
        BY <1>1, <1>3, <1>5, <2>1
    <2>3. At(k) = t[j]
        BY <1>1, <2>2, TokenOf
    <2> QED
        BY <2>1, <2>3
<1>6. ASSUME NEW k \in Nat, b + k = Len(t) PROVE At(k).value \in FirstWords \cup {None}
    <2>a. PICK l, e : l = Len(t) /\ e = Start(p, n + 1)
        OBVIOUS
    <2>b. l \in Nat /\ e = s + l /\ b + k = l /\ pos = s + b + 1 /\ b \in Nat /\ s \in Nat
        BY <1>1, <1>3, <1>6, <2>a, Zenon
    <2>c. pos + k = e + 1
        BY <2>b
    <2>1. pos + k = Start(p, n + 1) + 1
        BY <2>a, <2>c, Zenon
    <2>2. At(k) = Eof \/ Begins(At(k))
        BY <1>4, <2>1, TokenBehind
    <2> QED
        BY <2>2 DEF Eof, Begins
<1> QED
    BY <1>2, <1>3, <1>4, <1>5, <1>6, Zenon DEF Sees

\* Behind the whole declaration the next one begins.
LEMMA Behinds ==
    ASSUME TypeOK, NEW p, Correct(p), NEW n, NEW d, NEW t, NEW s, NEW b, Placed(p, n, d, t, s, b),
           mode' = "top", AllRead(p, n + 1)', pos' = s + Len(t) + 1, NoError
    PROVE  Reads(p)
<1>1. Start(p, n + 1) = s + Len(t) /\ n + 1 \in 0 .. Len(p)
    BY Ahead
<1>2. InTop(p, n + 1)'
    BY <1>1 DEF InTop
<1> QED
    BY <1>1, <1>2, Arrives

LEMMA TypeAdded ==
    ASSUME NEW p \in Seq(Declaration), NEW n \in Nat, n < Len(p), NEW d, d = p[n + 1], d.kind = "type",
           TypeOK, AllRead(p, n), UNCHANGED <<globals, functions, locals>>,
           NEW r, Types(d) = <<r>>, types' = Append(types, r)
    PROVE  AllRead(p, n + 1)'
<1>1. types' = types \o <<r>>
    BY DEF TypeOK
<1>2. TypesRead(p, n) /\ GlobalsRead(p, n) /\ FunctionsRead(p, n) /\ LocalsRead(p, n)
    BY Zenon DEF AllRead
<1>3. Upto(TypeLists(p), n + 1) = Upto(TypeLists(p), n) \o Types(d)
    BY ListsStep
<1>4. TypesRead(p, n + 1)'
    BY <1>1, <1>2, <1>3, Zenon DEF TypesRead
<1>5. d.kind # "globals" /\ d.kind # "function"
    OBVIOUS
<1>6. GlobalsRead(p, n + 1) /\ FunctionsRead(p, n + 1) /\ LocalsRead(p, n + 1)
    BY <1>2, <1>5, NothingAdded
<1>7. GlobalsRead(p, n + 1)' /\ FunctionsRead(p, n + 1)' /\ LocalsRead(p, n + 1)'
    BY <1>6, ReadStays
<1> QED
    BY <1>4, <1>7, Zenon DEF AllRead

LEMMA TopTypes ==
    ASSUME TypeOK, NEW p, Correct(p), NEW n, NEW d, NEW t, NEW s, Placed(p, n, d, t, s, 0),
           InTop(p, n), Next, d.kind = "type"
    PROVE  Reads(p)
<1>1. Sees(t, 0) /\ p \in Seq(Declaration) /\ d \in Declaration /\ s \in Nat /\ Len(t) \in Nat
    BY Ahead
<1>2. n \in Nat /\ n < Len(p) /\ d = p[n + 1] /\ t = Written(d) /\ pos = s + 0 + 1
    BY Zenon DEF Placed
<1>3. TypePlaces(d, t)
    BY <1>1, <1>2, TypeWritten
<1>4. /\ d.name \in NoWord /\ t[1] = Word("type") /\ t[2] = Name(d.name)
      /\ d.parent = Nil => Len(t) = 2
      /\ d.parent # Nil => Len(t) = 4 /\ t[3] = Word("extends") /\ t[4] = d.parent /\ d.parent \in TypeName
    BY <1>3, Zenon DEF TypePlaces
<1>5. mode = "top" /\ AllRead(p, n)
    BY Zenon DEF InTop
<1>6. \A k \in Nat : k + 1 <= Len(t) => At(k) = t[k + 1]
    BY <1>1 DEF Sees
<1>7. At(0) = Word("type") /\ At(1) = Name(d.name)
    <2>1. 0 + 1 <= Len(t) /\ 1 + 1 <= Len(t)
        BY <1>4
    <2>2. At(0) = t[0 + 1] /\ At(1) = t[1 + 1]
        BY <1>6, <2>1
    <2> QED
        BY <1>4, <2>2
<1>8. ~Ended /\ Is(0, "type") /\ IsType(1) /\ At(1).value = d.name
    BY <1>7 DEF Ended, Is, IsType, Word, Name
<1>9. TypeDecl
    BY <1>5, <1>8, TopSteps
<1>10. mode' = "top" /\ UNCHANGED <<globals, functions, locals>>
    BY <1>5, <1>9 DEF TypeDecl
<1>11. ASSUME NEW parent, NEW k, Declared(parent, k), k = Len(t),
              Types(d) = <<[name |-> d.name, parent |-> parent]>>
       PROVE  Reads(p)
    <2>1. types' = Append(types, [name |-> d.name, parent |-> parent]) /\ pos' = pos + k /\ NoError
        BY <1>8, <1>11 DEF Declared, Advance
    <2>2. AllRead(p, n + 1)'
        BY <1>1, <1>2, <1>5, <1>10, <1>11, <2>1, TypeAdded
    <2>3. pos' = s + Len(t) + 1
        BY <1>1, <1>2, <1>11, <2>1
    <2> QED
        BY <1>10, <2>1, <2>2, <2>3, Behinds
<1>12. CASE d.parent = Nil
    <2>1. 0 + 2 = Len(t) /\ 2 = Len(t)
        BY <1>4, <1>12
    <2>2. At(2).value \in FirstWords \cup {None}
        BY <1>1, <2>1 DEF Sees
    <2>3. ~Is(2, "extends")
        BY <2>2 DEF Is, None, FirstWords
    <2>4. Declared(None, 2)
        BY <1>8, <1>9, <2>3 DEF TypeDecl
    <2>5. Types(d) = <<[name |-> d.name, parent |-> None]>>
        BY <1>12 DEF Types
    <2> QED
        BY <1>11, <2>1, <2>4, <2>5
<1>13. CASE d.parent # Nil
    <2>1. At(2) = Word("extends") /\ At(3) = d.parent
        <3>1. 2 + 1 <= Len(t) /\ 3 + 1 <= Len(t)
            BY <1>4, <1>13
        <3>2. At(2) = t[2 + 1] /\ At(3) = t[3 + 1]
            BY <1>6, <3>1
        <3> QED
            BY <1>4, <1>13, <3>2
    <2>2. Is(2, "extends") /\ IsType(3) /\ At(3).value = d.parent.value
        BY <1>4, <1>13, <2>1, NamesTypes DEF Is, IsType, Word
    <2>3. Declared(d.parent.value, 4)
        BY <1>8, <1>9, <2>2 DEF TypeDecl
    <2>4. Types(d) = <<[name |-> d.name, parent |-> d.parent.value]>>
        BY <1>13 DEF Types
    <2> QED
        BY <1>4, <1>11, <1>13, <2>3, <2>4
<1> QED
    BY <1>12, <1>13

LEMMA TopGlobals ==
    ASSUME TypeOK, NEW p, Correct(p), NEW n, NEW d, NEW t, NEW s, Placed(p, n, d, t, s, 0),
           InTop(p, n), Next, d.kind = "globals"
    PROVE  Reads(p)
<1>1. Sees(t, 0) /\ p \in Seq(Declaration) /\ d \in Declaration /\ s \in Nat
    BY Ahead
<1>2. n \in Nat /\ n < Len(p) /\ d = p[n + 1] /\ t = Written(d) /\ pos = s + 0 + 1 /\ s = Start(p, n)
    BY Zenon DEF Placed
<1>3. GlobalsPlaces(d, t)
    BY <1>1, <1>2, GlobalsWritten
<1>4. PICK vs, m : vs = d.variables /\ m = Len(Upto(VariableTexts(d), Len(vs)))
    OBVIOUS
<1>5. /\ vs \in Seq(DeclaredVariable(BOOLEAN)) /\ t[1] = Word("globals")
      /\ m \in Nat /\ Len(t) = m + 2
    BY <1>3, <1>4, Zenon DEF GlobalsPlaces
<1>6. mode = "top" /\ AllRead(p, n)
    BY Zenon DEF InTop
<1>7. At(0) = Word("globals")
    <2>1. 0 + 0 + 1 <= Len(t) /\ 0 + 0 + 1 = 1
        BY <1>5
    <2> QED
        BY <1>1, <1>5, <2>1 DEF Sees
<1>8. ~Ended /\ Is(0, "globals")
    BY <1>7 DEF Ended, Is, Word
<1>9. GlobalsBlock
    BY <1>6, <1>8, TopSteps
<1>10. mode' = "globals" /\ pos' = pos + 1 /\ UNCHANGED doc /\ NoError
    BY <1>9 DEF GlobalsBlock, Advance, NoError
<1>11. AllRead(p, n)'
    BY <1>6, <1>10, ReadStays
<1>12. 0 \in 0 .. Len(d.variables) /\ Len(Upto(VariableTexts(d), 0)) = 0
    <2>1. Len(VariableTexts(d)) = Len(vs) /\ Len(vs) \in Nat
        BY <1>4, <1>5, VariableTextsType
    <2>2. Upto(VariableTexts(d), 0) = <<>>
        BY <2>1, UptoStep
    <2> QED
        BY <1>4, <2>1, <2>2
<1>13. pos' = Start(p, n) + Len(Upto(VariableTexts(d), 0)) + 2
    BY <1>1, <1>2, <1>10, <1>12
<1>14. globals' = Upto(GlobalLists(p), n) \o GlobalRecords(d, 0)
    <2>1. GlobalRecords(d, 0) = <<>> /\ globals \o <<>> = globals
        BY DEF GlobalRecords, TypeOK
    <2>2. globals' = globals /\ globals = Upto(GlobalLists(p), n)
        BY <1>6, <1>10, Zenon DEF AllRead, GlobalsRead, doc
    <2> QED
        BY <2>1, <2>2, Zenon
<1>15. InGlobals(p, n, d, 0)'
    BY <1>10, <1>11, <1>12, <1>13, <1>14, Zenon DEF InGlobals, AllRead
<1>16. InDeclaration(p, n, d)'
    BY <1>15 DEF InDeclaration
<1> QED
    BY <1>2, <1>10, <1>16, Enters

LEMMA TopFunction ==
    ASSUME TypeOK, NEW p, Correct(p), NEW n, NEW d, NEW t, NEW s, Placed(p, n, d, t, s, 0),
           InTop(p, n), Next, d.kind = "function"
    PROVE  Reads(p)
<1>1. Sees(t, 0) /\ p \in Seq(Declaration) /\ d \in Declaration /\ s \in Nat
    BY Ahead
<1>2. n \in Nat /\ n < Len(p) /\ d = p[n + 1] /\ t = Written(d) /\ pos = s + 0 + 1 /\ s = Start(p, n)
    BY Zenon DEF Placed
<1>3. PICK c, q : c = One(d.constant) /\ q = Len(WrittenParams(d.params))
    OBVIOUS
<1>4. FunctionParts(d) /\ HeadPlaces(d, t, c, q)
    BY <1>1, <1>2, <1>3, FunctionWritten, Zenon DEF FunctionPlaces
<1>5. /\ c \in {0, 1} /\ (d.constant => c = 1) /\ (~d.constant => c = 0)
      /\ q \in Nat /\ Len(t) >= c + q + 5 /\ Len(t) \in Nat
      /\ d.native \in BOOLEAN /\ d.constant \in BOOLEAN
      /\ d.constant => t[1] = Word("constant")
      /\ d.native => t[c + 1] = Word("native")
      /\ ~d.native => t[c + 1] = Word("function")
    <2>1. Len(t) \in Nat
        BY Ahead
    <2> QED
        BY <1>4, <2>1, Zenon DEF HeadPlaces, FunctionParts
<1>6. mode = "top" /\ AllRead(p, n)
    BY Zenon DEF InTop
<1>7. At(0) = t[1] /\ At(1) = t[2]
    <2>1. 0 + 0 + 1 <= Len(t) /\ 0 + 1 + 1 <= Len(t) /\ 0 + 0 + 1 = 1 /\ 0 + 1 + 1 = 2
        BY <1>5
    <2>2. At(0) = t[0 + 0 + 1] /\ At(1) = t[0 + 1 + 1]
        BY <1>1, <2>1 DEF Sees
    <2> QED
        BY <2>1, <2>2
<1>8. PICK word : word = IF d.native THEN "native" ELSE "function"
    OBVIOUS
<1>9. t[c + 1] = Word(word) /\ word \in {"native", "function"}
    BY <1>5, <1>8, Zenon
<1>10. /\ d.constant => Is(0, "constant") /\ Is(1, word)
       /\ ~d.constant => Is(0, word)
       /\ ~Ended
    <2>1. CASE d.constant
        <3>1. c + 1 = 2
            BY <1>5, <2>1
        <3> QED
            BY <1>5, <1>7, <1>9, <2>1, <3>1 DEF Is, Ended, Word
    <2>2. CASE ~d.constant
        <3>1. c + 1 = 1
            BY <1>5, <2>2
        <3> QED
            BY <1>5, <1>7, <1>9, <2>2, <3>1 DEF Is, Ended, Word
    <2> QED
        BY <1>5, <2>1, <2>2
<1>11. FunctionDecl
    BY <1>5, <1>6, <1>9, <1>10, TopSteps
<1>12. Signature(d.native, d.constant, c + 1)
    <2>1. (d.native => word = "native" /\ d.native = TRUE) /\ (~d.native => word = "function" /\ d.native = FALSE)
        BY <1>5, <1>8, Zenon
    <2>2. CASE d.constant
        <3>1. c + 1 = 2 /\ Is(0, "constant") /\ Is(1, word) /\ d.constant = TRUE
            BY <1>5, <1>10, <2>2
        <3>2. /\ word = "native" => Signature(TRUE, TRUE, 2)
              /\ word = "function" => Signature(FALSE, TRUE, 2)
            BY <1>11, <3>1 DEF FunctionDecl, Is
        <3> QED
            BY <2>1, <3>1, <3>2
    <2>3. CASE ~d.constant
        <3>1. c + 1 = 1 /\ Is(0, word) /\ d.constant = FALSE
            BY <1>5, <1>10, <2>3
        <3>2. /\ word = "native" => Signature(TRUE, FALSE, 1)
              /\ word = "function" => Signature(FALSE, FALSE, 1)
            BY <1>11, <3>1 DEF FunctionDecl, Is
        <3> QED
            BY <2>1, <3>1, <3>2
    <2> QED
        BY <1>5, <2>2, <2>3
<1>13. /\ func' = [NoFunction EXCEPT !.native = d.native, !.constant = d.constant]
       /\ mode' = "signature" /\ pos' = pos + (c + 1) /\ NoError
    BY <1>12 DEF Signature, Advance
<1>14. UNCHANGED doc
    BY <1>11 DEF FunctionDecl
<1>15. AllRead(p, n)'
    BY <1>6, <1>14, ReadStays
<1>16. pos' = Start(p, n) + One(d.constant) + 2
    BY <1>1, <1>2, <1>3, <1>5, <1>13
<1>17. InSignature(p, n, d)'
    BY <1>13, <1>15, <1>16, Zenon DEF InSignature, InFunction, AllRead
<1>18. InDeclaration(p, n, d)'
    BY <1>17 DEF InDeclaration
<1> QED
    BY <1>2, <1>13, <1>18, Enters

\* The block of globals.
LEMMA UptoBounds ==
    ASSUME NEW S, NEW seqs \in Seq(Seq(S)), NEW k \in 0 .. Len(seqs)
    PROVE  /\ Len(Upto(seqs, k)) \in Nat /\ Len(Upto(seqs, Len(seqs))) \in Nat
           /\ Len(Upto(seqs, k)) <= Len(Upto(seqs, Len(seqs)))
           /\ Len(Upto(seqs, 0)) = 0
<1>1. Len(seqs) \in Nat /\ Len(seqs) \in 0 .. Len(seqs)
    OBVIOUS
<1>2. Upto(seqs, k) \in Seq(S) /\ Upto(seqs, Len(seqs)) \in Seq(S) /\ Upto(seqs, 0) = <<>>
    BY <1>1, UptoType, UptoStep
<1>3. CASE k = 0
    BY <1>2, <1>3
<1>4. CASE k # 0
    <2>1. k \in 1 .. Len(seqs) /\ Len(seqs) \in k .. Len(seqs)
        BY <1>1, <1>4
    <2>2. Len(Upto(seqs, k)) <= Len(Upto(seqs, Len(seqs)))
        BY <2>1, UptoPlace
    <2> QED
        BY <1>2, <2>2
<1> QED
    BY <1>3, <1>4

IsAppend(f, z, r) == f = Append(z, r)

LEMMA Appended ==
    ASSUME NEW S, NEW z \in Seq(S), NEW r \in S, NEW f, IsAppend(f, z, r)
    PROVE  /\ f \in Seq(S) /\ Len(f) = Len(z) + 1 /\ f[Len(z) + 1] = r
           /\ \A i \in 1 .. Len(z) : f[i] = z[i]
BY DEF IsAppend

LEMMA SameSequence ==
    ASSUME NEW S, NEW f \in Seq(S), NEW g \in Seq(S), NEW n \in Nat, Len(f) = n, Len(g) = n,
           \A i \in 1 .. n : f[i] = g[i]
    PROVE  f = g
OBVIOUS

LEMMA AppendBehind ==
    ASSUME NEW S, NEW x \in Seq(S), NEW y \in Seq(S), NEW z, Joins(z, x, y), NEW r \in S,
           NEW e, IsAppend(e, y, r), NEW f, IsAppend(f, z, r)
    PROVE  Joins(f, x, e)
<1>1. PICK l, m, g : l = Len(x) /\ m = Len(y) /\ Joins(g, x, e)
    BY DEF Joins
<1>2. /\ l \in Nat /\ m \in Nat /\ z \in Seq(S) /\ Len(z) = l + m
      /\ \A i \in 1 .. l : z[i] = x[i]
      /\ \A i \in 1 .. m : z[l + i] = y[i]
    <2>1. l \in Nat /\ m \in Nat
        BY <1>1
    <2>2. z \in Seq(S) /\ BothIn(z, x, y)
        BY Joined
    <2> QED
        BY <1>1, <2>1, <2>2, Zenon DEF BothIn
<1>3. /\ e \in Seq(S) /\ Len(e) = m + 1 /\ e[m + 1] = r
      /\ \A i \in 1 .. m : e[i] = y[i]
    BY <1>1, Appended
<1>4. /\ f \in Seq(S) /\ Len(f) = l + m + 1 /\ f[l + m + 1] = r
      /\ \A i \in 1 .. l + m : f[i] = z[i]
    <2>1. /\ f \in Seq(S) /\ Len(f) = Len(z) + 1 /\ f[Len(z) + 1] = r
          /\ \A i \in 1 .. Len(z) : f[i] = z[i]
        <3>1. z \in Seq(S)
            BY <1>2, Zenon
        <3> QED
            BY <3>1, Appended
    <2> QED
        BY <1>2, <2>1, Zenon
<1>5. /\ g \in Seq(S) /\ Len(g) = l + (m + 1)
      /\ \A i \in 1 .. l : g[i] = x[i]
      /\ \A i \in 1 .. m + 1 : g[l + i] = e[i]
    <2>2. g \in Seq(S) /\ BothIn(g, x, e)
        BY <1>1, <1>3, Joined
    <2> QED
        BY <1>1, <1>3, <2>2, Zenon DEF BothIn
<1>6. ASSUME NEW i \in 1 .. l + m + 1 PROVE f[i] = g[i]
    <2>1. CASE i \in 1 .. l
        <3>1. i \in 1 .. l + m
            BY <1>2, <2>1
        <3> QED
            BY <1>2, <1>4, <1>5, <2>1, <3>1, Zenon
    <2>2. CASE i \in l + 1 .. l + m
        <3>1. PICK j : j = i - l
            OBVIOUS
        <3>2. j \in 1 .. m /\ j \in 1 .. m + 1 /\ i = l + j /\ i \in 1 .. l + m
            BY <1>2, <2>2, <3>1
        <3> QED
            BY <1>2, <1>3, <1>4, <1>5, <3>2, Zenon
    <2>3. CASE i = l + m + 1
        <3>1. m + 1 \in 1 .. m + 1 /\ i = l + (m + 1)
            BY <1>2, <2>3
        <3> QED
            BY <1>3, <1>4, <1>5, <2>3, <3>1, Zenon
    <2> QED
        BY <1>2, <2>1, <2>2, <2>3
<1>7. f = g
    <2>1. PICK o : o = l + m + 1
        OBVIOUS
    <2>2. o \in Nat /\ Len(f) = o /\ Len(g) = o
        BY <1>2, <1>4, <1>5, <2>1
    <2> QED
        BY <1>4, <1>5, <1>6, <2>1, <2>2, SameSequence
<1> QED
    BY <1>1, <1>7, Zenon

LEMMA GlobalRecordsType ==
    ASSUME NEW d \in Declaration, d.kind = "globals"
    PROVE  /\ d.variables \in Seq(DeclaredVariable(BOOLEAN)) /\ Len(d.variables) \in Nat
           /\ Globals(d) = GlobalRecords(d, Len(d.variables))
           /\ \A k \in Nat : k < Len(d.variables) =>
                 /\ d.variables[k + 1] \in DeclaredVariable(BOOLEAN)
                 /\ GlobalRecord(d.variables[k + 1]) \in GlobalSet
                 /\ GlobalRecords(d, k) \in Seq(GlobalSet)
                 /\ GlobalRecords(d, k + 1) = Append(GlobalRecords(d, k), GlobalRecord(d.variables[k + 1]))
<1>1. d.variables \in Seq(DeclaredVariable(BOOLEAN))
    BY DEF Declaration
<1>2. PICK vs, m : vs = d.variables /\ m = Len(vs)
    OBVIOUS
<1>3. m \in Nat /\ \A i \in 1 .. m : vs[i] \in DeclaredVariable(BOOLEAN)
    BY <1>1, <1>2
<1>4. PICK g : g = Globals(d)
    OBVIOUS
<1>5. g \in Seq(GlobalSet) /\ g = [i \in 1 .. m |-> GlobalRecord(vs[i])]
    BY <1>2, <1>4, GlobalsType
<1>6. \A i \in 1 .. m : GlobalRecord(vs[i]) \in GlobalSet
    BY <1>3, <1>5
<1>7. \A k : GlobalRecords(d, k) = [i \in 1 .. k |-> GlobalRecord(vs[i])]
    BY <1>2 DEF GlobalRecords
<1>8. g = GlobalRecords(d, m)
    BY <1>5, <1>7
<1>9. ASSUME NEW k \in Nat, k < m
      PROVE  /\ vs[k + 1] \in DeclaredVariable(BOOLEAN) /\ GlobalRecord(vs[k + 1]) \in GlobalSet
             /\ GlobalRecords(d, k) \in Seq(GlobalSet)
             /\ GlobalRecords(d, k + 1) = Append(GlobalRecords(d, k), GlobalRecord(vs[k + 1]))
    <2>1. k + 1 \in 1 .. m /\ \A i \in 1 .. k : GlobalRecord(vs[i]) \in GlobalSet
        BY <1>3, <1>6, <1>9
    <2>2. [i \in 1 .. k |-> GlobalRecord(vs[i])] \in Seq(GlobalSet)
        BY <2>1
    <2>3. GlobalRecords(d, k + 1) = Append(GlobalRecords(d, k), GlobalRecord(vs[k + 1]))
        BY <1>7
    <2> QED
        BY <1>3, <1>6, <1>7, <2>1, <2>2, <2>3
<1> QED
    BY <1>1, <1>2, <1>3, <1>4, <1>8, <1>9, Zenon

\* What a variable begins with.
BeginsVariable(token) == token.kind # "eof" /\ token.value \notin {"=", "endglobals", None}

LEMMA VariableFirst ==
    ASSUME NEW v, NEW c, NEW a, NEW w, VariablePlaces(v, c, a, w)
    PROVE  BeginsVariable(w[1])
<1>1. /\ c \in {0, 1} /\ v.type \in TypeName /\ (c = 1 <=> v.constant)
      /\ v.constant => w[1] = Word("constant")
      /\ w[c + 1] = v.type
    BY Zenon DEF VariablePlaces
<1>2. BeginsVariable(Word("constant"))
    BY DEF BeginsVariable, Word, None
<1>3. CASE c = 1
    BY <1>1, <1>2, <1>3
<1>4. CASE c = 0
    <2>1. w[1] = v.type
        BY <1>1, <1>4
    <2>2. v.type.value \in NoWord /\ v.type.kind \in {"identifier", "type"}
        BY <1>1, NamesTypes
    <2> QED
        BY <2>1, <2>2 DEF BeginsVariable, NoWord, Reserved, Keywords
<1> QED
    BY <1>1, <1>3, <1>4

\* Behind k variables another one begins, or the block ends.
\* Behind k variables, u tokens long, the next one begins, or the block ends.
GlobalsFilled(d, k, u) == u = Len(Upto(VariableTexts(d), k))
GlobalsNext(d, t, k, u) ==
    /\ u \in Nat /\ Len(t) \in Nat /\ 1 + u + 1 <= Len(t) /\ Len(d.variables) \in Nat
    /\ k = Len(d.variables) => t[1 + u + 1] = Word("endglobals") /\ Len(t) = 1 + u + 1
    /\ k < Len(d.variables) => BeginsVariable(t[1 + u + 1])

LEMMA VariableBegins ==
    ASSUME NEW d, NEW t, GlobalsPlaces(d, t), NEW k \in 0 .. Len(d.variables),
           NEW u, GlobalsFilled(d, k, u)
    PROVE  GlobalsNext(d, t, k, u)
<1>0. u = Len(Upto(VariableTexts(d), k))
    BY Zenon DEF GlobalsFilled
<1>1. PICK vs, seqs, m : vs = d.variables /\ seqs = VariableTexts(d) /\ m = Len(Upto(seqs, Len(vs)))
    OBVIOUS
<1>2. /\ vs \in Seq(DeclaredVariable(BOOLEAN)) /\ m \in Nat /\ Len(t) = m + 2
      /\ t[Len(t)] = Word("endglobals")
    BY <1>1, Zenon DEF GlobalsPlaces
<1>3. seqs \in Seq(Seq(Token)) /\ Len(seqs) = Len(vs) /\ Len(vs) \in Nat
    BY <1>1, <1>2, VariableTextsType
<1>4. u \in Nat /\ u <= m
    BY <1>0, <1>1, <1>3, UptoBounds
<1>5. ASSUME k = Len(vs) PROVE t[1 + u + 1] = Word("endglobals") /\ Len(t) = 1 + u + 1
    <2>1. u = m
        BY <1>0, <1>1, <1>5, Zenon
    <2>2. Len(t) = 1 + u + 1
        BY <1>2, <2>1
    <2> QED
        BY <1>2, <2>2
<1>6. ASSUME k < Len(vs) PROVE BeginsVariable(t[1 + u + 1])
    <2>1. PICK v, c, a, w : v = vs[k + 1] /\ IsWritten(v, c, a, w)
        BY Zenon DEF IsWritten
    <2>2. v \in DeclaredVariable(BOOLEAN)
        BY <1>2, <1>3, <1>6, <2>1
    <2>3. VariablePlaces(v, c, a, w)
        BY <2>1, <2>2, VariableWritten
    <2>4. BeginsVariable(w[1])
        BY <2>3, VariableFirst
    <2>5. /\ c \in {0, 1} /\ a \in {0, 1} /\ Len(v.value) \in Nat
          /\ v.value = <<>> => Len(w) = c + a + 2
          /\ v.value # <<>> => Len(w) = c + a + 3 + Len(v.value)
        BY <2>3, Zenon DEF VariablePlaces
    <2>6. 1 \in 1 .. Len(w)
        <3>1. PICK l, o : l = Len(w) /\ o = Len(v.value)
            OBVIOUS
        <3>2. c \in {0, 1} /\ a \in {0, 1} /\ o \in Nat /\ (l = c + a + 2 \/ l = c + a + 3 + o)
            BY <2>5, <3>1, Zenon
        <3>3. 1 \in 1 .. l
            BY <3>2
        <3> QED
            BY <3>1, <3>3
    <2>a. k \in Nat
        OBVIOUS
    <2>7. w = WrittenVariable(vs[k + 1]) /\ k \in Nat
        BY <2>1, <2>a, Zenon DEF IsWritten
    <2>8. t[1 + u + 1] = w[1]
        BY <1>0, <1>1, <1>6, <2>6, <2>7, Zenon DEF GlobalsPlaces
    <2> QED
        BY <2>4, <2>8
<1> QED
    <2>1. Len(t) \in Nat /\ 1 + u + 1 <= Len(t)
        BY <1>2, <1>4
    <2> QED
        BY <1>1, <1>3, <1>4, <1>5, <1>6, <2>1, Zenon DEF GlobalsNext

LEMMA GlobalsSteps ==
    ASSUME mode = "globals", Next
    PROVE  EndGlobals \/ GlobalVariable
BY DEF Next, Finish, Unknown, TypeDecl, GlobalsBlock, FunctionDecl,
       SignatureHead, Param, Returns, EndFunction, Statement, LocalVariable, SkipExpression

LEMMA GlobalVariableOf ==
    ASSUME GlobalVariable, NEW c \in {0, 1}, NEW a \in {0, 1}, Is(0, "constant") <=> c = 1,
           Is(c + 1, "array") <=> a = 1, IsType(c), IsName(c + a + 1)
    PROVE  /\ globals' = Append(globals, [name |-> At(c + a + 1).value, type |-> At(c).value,
                                          constant |-> c = 1, array |-> a = 1])
           /\ Behind(c + a + 2) /\ NoError /\ UNCHANGED <<input, func, types, functions, locals>>
<1>1. c = IF Is(0, "constant") THEN 1 ELSE 0
    OBVIOUS
<1>2. a = IF Is(c + 1, "array") THEN 1 ELSE 0
    OBVIOUS
<1> QED
    BY <1>1, <1>2, Zenon DEF GlobalVariable

LEMMA GlobalsEnd ==
    ASSUME TypeOK, NEW p, Correct(p), NEW n, NEW d, NEW t, NEW s, NEW b, Placed(p, n, d, t, s, b),
           InGlobals(p, n, d, Len(d.variables)), Next
    PROVE  Reads(p)
<1>1. Sees(t, b) /\ p \in Seq(Declaration) /\ d \in Declaration /\ s \in Nat /\ Len(t) \in Nat
    BY Ahead
<1>2. n \in Nat /\ n < Len(p) /\ d = p[n + 1] /\ t = Written(d) /\ pos = s + b + 1 /\ b \in Nat
      /\ s = Start(p, n)
    BY Zenon DEF Placed
<1>3. PICK m, u : m = Len(d.variables) /\ u = Len(Upto(VariableTexts(d), m))
    OBVIOUS
<1>4. /\ mode = "globals" /\ d.kind = "globals" /\ m \in 0 .. m /\ pos = s + u + 2
      /\ TypesRead(p, n) /\ FunctionsRead(p, n) /\ LocalsRead(p, n)
      /\ globals = Upto(GlobalLists(p), n) \o GlobalRecords(d, m)
    BY <1>2, <1>3, Zenon DEF InGlobals
<1>5. GlobalsPlaces(d, t)
    BY <1>1, <1>2, <1>4, GlobalsWritten
<1>6. u \in Nat /\ t[1 + u + 1] = Word("endglobals") /\ Len(t) = 1 + u + 1
    <2>1. GlobalsFilled(d, m, u) /\ m \in 0 .. Len(d.variables)
        BY <1>3, <1>4, Zenon DEF GlobalsFilled
    <2>2. GlobalsNext(d, t, m, u)
        BY <1>5, <2>1, VariableBegins
    <2> QED
        BY <1>3, <2>2, Zenon DEF GlobalsNext
<1>7. b + 0 + 1 = Len(t) /\ 1 + u + 1 = b + 0 + 1
    BY <1>1, <1>2, <1>4, <1>6
<1>8. At(0) = Word("endglobals")
    BY <1>1, <1>6, <1>7 DEF Sees
<1>9. ~Ended /\ Is(0, "endglobals")
    BY <1>8 DEF Ended, Is, Word
<1>10. EndGlobals
    BY <1>4, <1>9, GlobalsSteps DEF GlobalVariable
<1>11. mode' = "top" /\ pos' = pos + 1 /\ UNCHANGED doc /\ NoError
    BY <1>9, <1>10 DEF EndGlobals, Advance, NoError
<1>12. GlobalsRead(p, n + 1)
    <2>1. Globals(d) = GlobalRecords(d, m)
        BY <1>1, <1>3, <1>4, GlobalRecordsType
    <2>2. Upto(GlobalLists(p), n + 1) = Upto(GlobalLists(p), n) \o Globals(d)
        BY <1>1, <1>2, ListsStep
    <2> QED
        BY <1>4, <2>1, <2>2, Zenon DEF GlobalsRead
<1>13. TypesRead(p, n + 1) /\ FunctionsRead(p, n + 1) /\ LocalsRead(p, n + 1)
    <2>1. d.kind # "type" /\ d.kind # "function"
        BY <1>4
    <2> QED
        BY <1>1, <1>2, <1>4, <2>1, NothingAdded
<1>14. AllRead(p, n + 1)'
    BY <1>11, <1>12, <1>13, ReadStays, Zenon DEF AllRead
<1>15. pos' = s + Len(t) + 1
    <2>1. PICK l : l = Len(t)
        OBVIOUS
    <2>2. b + 0 + 1 = l /\ b \in Nat /\ s \in Nat /\ pos' = s + b + 1 + 1
        BY <1>1, <1>2, <1>7, <1>11, <2>1, Zenon
    <2> QED
        BY <2>1, <2>2
<1> QED
    BY <1>11, <1>14, <1>15, Behinds

VariableAt(d, k, v, w, u, b, l) ==
    /\ k \in Nat /\ k < Len(d.variables) /\ v = d.variables[k + 1] /\ w = WrittenVariable(v)
    /\ u = Len(Upto(VariableTexts(d), k)) /\ b = u + 1 /\ l = Len(w) /\ l \in Nat

LEMMA GlobalsRow ==
    ASSUME NEW d, NEW t, NEW k, NEW v, NEW w, NEW u, NEW b, NEW l, GlobalsPlaces(d, t),
           VariableAt(d, k, v, w, u, b, l), Sees(t, b)
    PROVE  /\ u \in Nat /\ Len(Upto(VariableTexts(d), k + 1)) = u + l /\ k + 1 \in 0 .. Len(d.variables)
           /\ \A i \in Nat : i < l => At(i) = w[i + 1]
           /\ At(l).value # "="
<1>0. /\ k \in Nat /\ k < Len(d.variables) /\ v = d.variables[k + 1] /\ w = WrittenVariable(v)
      /\ u = Len(Upto(VariableTexts(d), k)) /\ b = u + 1 /\ l = Len(w) /\ l \in Nat
    BY Zenon DEF VariableAt
<1>1. PICK x, m : x = Len(Upto(VariableTexts(d), k + 1)) /\ m = Len(d.variables)
    OBVIOUS
<1>2. d.variables \in Seq(DeclaredVariable(BOOLEAN))
    BY Zenon DEF GlobalsPlaces
<1>3. m \in Nat /\ k + 1 \in 0 .. m /\ (k + 1 = m \/ k + 1 < m)
    BY <1>0, <1>1, <1>2
<1>4. u \in Nat /\ x = u + l /\ \A j \in 1 .. l : t[1 + u + j] = w[j]
    BY <1>0, <1>1, Zenon DEF GlobalsPlaces
<1>5. /\ Len(t) \in Nat /\ 1 + x + 1 <= Len(t)
      /\ k + 1 = m => t[1 + x + 1] = Word("endglobals")
      /\ k + 1 < m => BeginsVariable(t[1 + x + 1])
    <2>1. GlobalsFilled(d, k + 1, x) /\ k + 1 \in 0 .. Len(d.variables)
        BY <1>1, <1>3, Zenon DEF GlobalsFilled
    <2>2. GlobalsNext(d, t, k + 1, x)
        BY <2>1, VariableBegins
    <2> QED
        BY <1>1, <2>2, Zenon DEF GlobalsNext
<1>6. ASSUME NEW i \in Nat, i < l PROVE At(i) = w[i + 1]
    <2>1. PICK j, g : j = i + 1 /\ g = Len(t)
        OBVIOUS
    <2>2. j \in 1 .. l /\ b + i + 1 = 1 + u + j /\ b + i + 1 <= g
        BY <1>0, <1>4, <1>5, <1>6, <2>1
    <2>3. At(i) = t[b + i + 1]
        BY <2>1, <2>2 DEF Sees
    <2> QED
        BY <1>0, <1>4, <2>1, <2>2, <2>3
<1>7. At(l) = t[1 + x + 1]
    <2>1. PICK g : g = Len(t)
        OBVIOUS
    <2>2. b + l + 1 = 1 + x + 1 /\ b + l + 1 <= g
        BY <1>0, <1>4, <1>5, <2>1
    <2>3. l \in Nat
        BY <1>0, Zenon
    <2>4. At(l) = t[b + l + 1]
        BY <2>1, <2>2, <2>3 DEF Sees
    <2> QED
        BY <2>2, <2>4, Zenon
<1>8. At(l).value # "="
    BY <1>0, <1>3, <1>5, <1>7 DEF BeginsVariable, Word
<1> QED
    BY <1>0, <1>1, <1>3, <1>4, <1>6, <1>8, Zenon

LEMMA GlobalRead ==
    ASSUME NEW v \in DeclaredVariable(BOOLEAN), NEW c, NEW a, NEW w, VariablePlaces(v, c, a, w), v.value = <<>>,
           \A i \in Nat : i < Len(w) => At(i) = w[i + 1], At(Len(w)).value # "=", GlobalVariable
    PROVE  /\ globals' = Append(globals, GlobalRecord(v)) /\ pos' = pos + Len(w)
           /\ UNCHANGED <<mode, types, functions, locals>> /\ NoError
<1>1. /\ c \in {0, 1} /\ a \in {0, 1} /\ v.type \in TypeName /\ v.name \in NoWord
      /\ Len(w) = c + a + 2
      /\ (c = 1 <=> v.constant) /\ (a = 1 <=> v.array)
      /\ v.constant => w[1] = Word("constant")
      /\ v.array => w[c + 2] = Word("array")
      /\ w[c + 1] = v.type /\ w[c + a + 2] = Name(v.name)
    BY Zenon DEF VariablePlaces
<1>2. At(0) = w[1] /\ At(c) = w[c + 1] /\ At(c + 1) = w[c + 2] /\ At(c + a + 1) = w[c + a + 2]
    <2>1. PICK l : l = Len(w)
        OBVIOUS
    <2>2. l = c + a + 2
        BY <1>1, <2>1
    <2>3. /\ 0 \in Nat /\ c \in Nat /\ c + 1 \in Nat /\ c + a + 1 \in Nat
          /\ 0 < l /\ c < l /\ c + 1 < l /\ c + a + 1 < l
          /\ c + 1 + 1 = c + 2 /\ c + a + 1 + 1 = c + a + 2 /\ 0 + 1 = 1
        BY <1>1, <2>2
    <2>4. At(0) = w[0 + 1] /\ At(c) = w[c + 1] /\ At(c + 1) = w[c + 1 + 1] /\ At(c + a + 1) = w[c + a + 1 + 1]
        BY <2>1, <2>3
    <2> QED
        BY <2>3, <2>4
<1>3. v.type.value \in NoWord /\ v.type.kind \in {"identifier", "type"}
    BY <1>1, NamesTypes
<1>4. Is(0, "constant") <=> c = 1
    <2>1. CASE c = 1
        BY <1>1, <1>2, <2>1 DEF Is, Word
    <2>2. CASE c = 0
        <3>1. At(0) = v.type
            BY <1>1, <1>2, <2>2
        <3> QED
            BY <1>3, <2>2, <3>1 DEF Is, NoWord, Reserved, Keywords
    <2> QED
        BY <1>1, <2>1, <2>2
<1>5. Is(c + 1, "array") <=> a = 1
    <2>1. CASE a = 1
        BY <1>1, <1>2, <2>1 DEF Is, Word
    <2>2. CASE a = 0
        <3>1. c + a + 2 = c + 2
            BY <1>1, <2>2
        <3>2. At(c + 1) = Name(v.name)
            BY <1>1, <1>2, <3>1
        <3> QED
            BY <1>1, <2>2, <3>2 DEF Is, Name, NoWord, Reserved, Keywords
    <2> QED
        BY <1>1, <2>1, <2>2
<1>6. IsType(c) /\ At(c).value = v.type.value
    BY <1>1, <1>2, <1>3 DEF IsType
<1>7. IsName(c + a + 1) /\ At(c + a + 1).value = v.name
    BY <1>1, <1>2 DEF IsName, Name
<1>8. /\ globals' = Append(globals, [name |-> At(c + a + 1).value, type |-> At(c).value,
                                     constant |-> c = 1, array |-> a = 1])
      /\ Behind(c + a + 2) /\ NoError /\ UNCHANGED <<input, func, types, functions, locals>>
    BY <1>1, <1>4, <1>5, <1>6, <1>7, GlobalVariableOf
<1>9. [name |-> At(c + a + 1).value, type |-> At(c).value, constant |-> c = 1, array |-> a = 1]
      = GlobalRecord(v)
    <2>1. v.constant \in BOOLEAN /\ v.array \in BOOLEAN
        BY DEF DeclaredVariable
    <2>2. (c = 1) = v.constant /\ (a = 1) = v.array
        BY <1>1, <2>1, Zenon
    <2> QED
        BY <1>6, <1>7, <2>2, Zenon DEF GlobalRecord
<1>10. pos' = pos + (c + a + 2) /\ UNCHANGED mode
    BY <1>1, <1>8 DEF Behind, Is, Advance
<1> QED
    BY <1>1, <1>8, <1>9, <1>10

LEMMA GlobalsGoOn ==
    ASSUME TypeOK, NEW p, Correct(p), NEW n, NEW d, NEW t, NEW s, NEW b, Placed(p, n, d, t, s, b),
           NEW k, InGlobals(p, n, d, k), k < Len(d.variables), Next
    PROVE  Reads(p)
<1>1. Sees(t, b) /\ p \in Seq(Declaration) /\ d \in Declaration /\ s \in Nat /\ Len(t) \in Nat
    BY Ahead
<1>2. n \in Nat /\ n < Len(p) /\ d = p[n + 1] /\ t = Written(d) /\ pos = s + b + 1 /\ b \in Nat
      /\ s = Start(p, n)
    BY Zenon DEF Placed
<1>3. PICK u, m : u = Len(Upto(VariableTexts(d), k)) /\ m = Len(d.variables)
    OBVIOUS
<1>4. /\ mode = "globals" /\ d.kind = "globals" /\ k \in 0 .. m /\ pos = s + u + 2
      /\ TypesRead(p, n) /\ FunctionsRead(p, n) /\ LocalsRead(p, n)
      /\ globals = Upto(GlobalLists(p), n) \o GlobalRecords(d, k)
    BY <1>2, <1>3, Zenon DEF InGlobals
<1>5. GlobalsPlaces(d, t)
    BY <1>1, <1>2, <1>4, GlobalsWritten
<1>6. PICK v, c, a, w, l : v = d.variables[k + 1] /\ IsWritten(v, c, a, w) /\ l = Len(w)
    BY Zenon DEF IsWritten
<1>7. /\ m \in Nat /\ k \in Nat /\ v \in DeclaredVariable(BOOLEAN) /\ GlobalRecord(v) \in GlobalSet
      /\ GlobalRecords(d, k) \in Seq(GlobalSet)
      /\ GlobalRecords(d, k + 1) = Append(GlobalRecords(d, k), GlobalRecord(v))
    <2>1. m \in Nat /\ k \in Nat /\ k < m
        BY <1>1, <1>3, <1>4, GlobalRecordsType
    <2> QED
        BY <1>1, <1>3, <1>4, <1>6, <2>1, GlobalRecordsType
<1>8. VariablePlaces(v, c, a, w)
    BY <1>6, <1>7, VariableWritten
<1>9. v.value = <<>>
    <2>1. k + 1 \in DOMAIN d.variables /\ n + 1 \in DOMAIN p
        <3>1. d.variables \in Seq(DeclaredVariable(BOOLEAN))
            BY <1>1, <1>4, GlobalRecordsType
        <3> QED
            BY SMTT(30), <1>1, <1>2, <1>3, <1>7, <3>1
    <2>2. \A i \in DOMAIN p : p[i].kind = "globals" =>
             \A j \in DOMAIN p[i].variables : p[i].variables[j].value = <<>>
        BY Zenon DEF Correct, Plain
    <2> QED
        BY <1>2, <1>4, <1>6, <2>1, <2>2, Zenon
<1>10. l \in Nat /\ l >= 1 /\ w = WrittenVariable(v)
    <2>1. c \in {0, 1} /\ a \in {0, 1} /\ l = c + a + 2
        BY <1>6, <1>8, <1>9, Zenon DEF VariablePlaces
    <2>2. l \in Nat /\ l >= 1
        BY <2>1
    <2> QED
        BY <1>6, <2>2, Zenon DEF IsWritten
<1>11. b = u + 1
    <2>1. u \in Nat
        BY <1>3, <1>5, <1>7, Zenon DEF GlobalsPlaces
    <2> QED
        BY <1>1, <1>2, <1>4, <2>1
<1>12. /\ u \in Nat /\ Len(Upto(VariableTexts(d), k + 1)) = u + l /\ k + 1 \in 0 .. m
       /\ \A i \in Nat : i < l => At(i) = w[i + 1]
       /\ At(l).value # "="
    <2>1. VariableAt(d, k, v, w, u, b, l)
        BY <1>3, <1>6, <1>7, <1>10, <1>11, Zenon DEF VariableAt
    <2> QED
        BY <1>1, <1>3, <1>5, <2>1, GlobalsRow
<1>13. At(0) = w[1] /\ BeginsVariable(w[1])
    <2>1. 0 \in Nat /\ 0 < l /\ 0 + 1 = 1
        BY <1>10
    <2> QED
        BY <1>8, <1>12, <2>1, VariableFirst
<1>14. GlobalVariable
    <2>1. ~EndGlobals
        BY <1>13 DEF EndGlobals, Ended, Is, BeginsVariable
    <2> QED
        BY <1>4, <2>1, GlobalsSteps
<1>15. /\ globals' = Append(globals, GlobalRecord(v)) /\ pos' = pos + l
       /\ UNCHANGED <<mode, types, functions, locals>> /\ NoError
    BY <1>6, <1>7, <1>8, <1>9, <1>12, <1>14, GlobalRead
<1>16. globals' = Upto(GlobalLists(p), n) \o GlobalRecords(d, k + 1)
    <2>1. Upto(GlobalLists(p), n) \in Seq(GlobalSet)
        <3>1. \A i \in 1 .. Len(p) : Globals(p[i]) \in Seq(GlobalSet)
            BY <1>1, GlobalsType
        <3>2. GlobalLists(p) = [i \in 1 .. Len(p) |-> Globals(p[i])] /\ Len(p) \in Nat
            BY <1>1 DEF GlobalLists, Map
        <3>3. GlobalLists(p) \in Seq(Seq(GlobalSet)) /\ Len(GlobalLists(p)) = Len(p)
            BY <3>1, <3>2
        <3>4. n \in 0 .. Len(GlobalLists(p))
            BY <1>2, <3>2, <3>3
        <3> QED
            BY <3>3, <3>4, UptoType
    <2>2. PICK x, y, r : x = Upto(GlobalLists(p), n) /\ y = GlobalRecords(d, k) /\ r = GlobalRecord(v)
        OBVIOUS
    <2>3. Joins(globals, x, y) /\ IsAppend(GlobalRecords(d, k + 1), y, r) /\ IsAppend(globals', globals, r)
        BY <1>4, <1>7, <1>15, <2>2, Zenon DEF Joins, IsAppend
    <2>4. Joins(globals', x, GlobalRecords(d, k + 1))
        BY <1>7, <2>1, <2>2, <2>3, AppendBehind
    <2> QED
        BY <2>2, <2>4, Zenon DEF Joins
<1>17. pos' = s + Len(Upto(VariableTexts(d), k + 1)) + 2
    <2>1. pos' = s + (u + l) + 2
        BY <1>1, <1>4, <1>10, <1>12, <1>15
    <2> QED
        BY <1>12, <2>1
<1>18. mode' = "globals" /\ TypesRead(p, n)' /\ FunctionsRead(p, n)' /\ LocalsRead(p, n)'
    BY <1>4, <1>15, ReadStays
<1>19. InGlobals(p, n, d, k + 1)'
    BY <1>2, <1>3, <1>4, <1>12, <1>16, <1>17, <1>18, Zenon DEF InGlobals
<1>20. InDeclaration(p, n, d)'
    <2>1. k + 1 \in Nat
        BY <1>7
    <2> QED
        BY <1>19, <2>1, Zenon DEF InDeclaration
<1> QED
    BY <1>2, <1>15, <1>20, Enters

\* The signature of a function.
IsHead(d, c, q, ps) == c = One(d.constant) /\ ps = WrittenParams(d.params) /\ q = Len(ps)

LEMMA HeadAt ==
    ASSUME NEW d \in Declaration, d.kind = "function", NEW t, t = Written(d),
           NEW c, NEW q, NEW ps, IsHead(d, c, q, ps)
    PROVE  /\ FunctionParts(d) /\ HeadPlaces(d, t, c, q) /\ ParamPlaces(d, ps)
           /\ ~d.native => BodyPlaces(d, t, c + q + 5)
           /\ c \in {0, 1} /\ q \in Nat /\ ps \in Seq(Token) /\ Bodied(d) = c + q + 5 /\ Len(t) \in Nat
           /\ \A j \in 1 .. q : t[c + 3 + j] = ps[j]
<1>1. c = One(d.constant) /\ ps = WrittenParams(d.params) /\ q = Len(ps)
    BY Zenon DEF IsHead
<1>2. FunctionParts(d) /\ HeadPlaces(d, t, c, q) /\ (~d.native => BodyPlaces(d, t, c + q + 5))
    BY <1>1, FunctionWritten, Zenon DEF FunctionPlaces
<1>3. d.params \in Seq(ParamSet)
    BY <1>2, Zenon DEF FunctionParts
<1>4. ParamPlaces(d, ps)
    BY <1>1, <1>3, ParamsWritten
<1>5. /\ c \in {0, 1} /\ q \in Nat /\ t \in Seq(Token)
      /\ \A j \in 1 .. q : t[c + 3 + j] = ps[j]
    BY <1>1, <1>2, Zenon DEF HeadPlaces
<1>6. ps \in Seq(Token) /\ Bodied(d) = c + q + 5
    BY <1>1, <1>4, Zenon DEF ParamPlaces, Bodied
<1> QED
    BY <1>2, <1>4, <1>5, <1>6

\* The first parameter, or that there is none.
LEMMA FirstParam ==
    ASSUME NEW d, FunctionParts(d), NEW ps, ParamPlaces(d, ps)
    PROVE  /\ d.params = <<>> => Len(ps) = 1 /\ ps[1] = Word("nothing") /\ Len(d.params) = 0
           /\ d.params # <<>> => /\ Len(ps) >= 1 /\ ps[1] \in TypeName /\ 0 < Len(d.params)
                                 /\ Len(Upto(ParamTexts(d), 0)) = 0
<1>1. Len(d.params) \in Nat /\ DOMAIN d.params = 1 .. Len(d.params) /\ (d.params # <<>> => 0 < Len(d.params))
    <2>1. d.params \in Seq(ParamSet)
        BY Zenon DEF FunctionParts
    <2> QED
        BY <2>1
<1>2. CASE d.params = <<>>
    BY <1>2, Zenon DEF ParamPlaces
<1>3. CASE d.params # <<>>
    <2>1. Len(ParamTexts(d)) = Len(d.params)
        BY <1>1 DEF ParamTexts
    <2>2. PICK u : u = Upto(ParamTexts(d), 0)
        OBVIOUS
    <2>3. u = <<>>
        BY <1>1, <2>1, <2>2, UptoStep
    <2>4. PICK l, o, r : l = Len(u) /\ o = One(0 > 0) /\ r = Len(ps)
        OBVIOUS
    <2>5. l = 0 /\ o = 0
        BY <2>3, <2>4 DEF One
    <2>6. 0 \in Nat /\ 0 < Len(d.params)
        BY <1>1, <1>3
    <2>7. l + o + 2 <= r /\ ps[l + o + 1] = d.params[0 + 1].type /\ d.params[0 + 1].type \in TypeName
        BY <2>2, <2>4, <2>6, Zenon DEF ParamPlaces
    <2>8. l + o + 1 = 1 /\ r >= 1
        <3>1. r \in Nat
            <4>1. ps \in Seq(Token)
                BY Zenon DEF ParamPlaces
            <4> QED
                BY <2>4, <4>1
        <3> QED
            BY <2>5, <2>7, <3>1
    <2> QED
        BY <1>3, <2>2, <2>4, <2>5, <2>6, <2>7, <2>8
<1> QED
    BY <1>1, <1>2, <1>3

LEMMA SignatureSteps ==
    ASSUME Next
    PROVE  /\ mode = "signature" => SignatureHead
           /\ mode = "params" => Param
           /\ mode = "returns" => Returns
BY DEF Next, Finish, Unknown, TypeDecl, GlobalsBlock, FunctionDecl, EndGlobals, GlobalVariable,
       SignatureHead, Param, Returns, EndFunction, Statement, LocalVariable, SkipExpression

LEMMA SignatureRead ==
    ASSUME TypeOK, NEW p, Correct(p), NEW n, NEW d, NEW t, NEW s, NEW b, Placed(p, n, d, t, s, b),
           InSignature(p, n, d), Next
    PROVE  Reads(p)
<1>1. Sees(t, b) /\ p \in Seq(Declaration) /\ d \in Declaration /\ s \in Nat
    BY Ahead
<1>2. n \in Nat /\ n < Len(p) /\ d = p[n + 1] /\ t = Written(d) /\ pos = s + b + 1 /\ b \in Nat
      /\ s = Start(p, n)
    BY Zenon DEF Placed
<1>3. PICK c, q, ps : IsHead(d, c, q, ps) /\ c = One(d.constant) /\ q = Len(ps)
    BY DEF IsHead
<1>4. /\ mode = "signature" /\ d.kind = "function" /\ pos = s + c + 2
      /\ TypesRead(p, n) /\ GlobalsRead(p, n) /\ FunctionsRead(p, n) /\ LocalsRead(p, n)
      /\ func = [NoFunction EXCEPT !.native = d.native, !.constant = d.constant]
    BY <1>2, <1>3, Zenon DEF InSignature, InFunction
<1>5. /\ FunctionParts(d) /\ HeadPlaces(d, t, c, q) /\ ParamPlaces(d, ps)
      /\ c \in {0, 1} /\ q \in Nat /\ Bodied(d) = c + q + 5 /\ Len(t) \in Nat
      /\ \A j \in 1 .. q : t[c + 3 + j] = ps[j]
    BY SMTT(30), <1>1, <1>2, <1>3, <1>4, HeadAt
<1>6. b = c + 1
    BY <1>1, <1>2, <1>4, <1>5
<1>7. t[c + 2] = Name(d.name) /\ t[c + 3] = Word("takes") /\ Len(t) >= c + q + 5
    BY <1>5, Zenon DEF HeadPlaces
<1>8. /\ q >= 1
      /\ d.params = <<>> => q = 1 /\ ps[1] = Word("nothing") /\ Len(d.params) = 0
      /\ d.params # <<>> => /\ ps[1] \in TypeName /\ 0 < Len(d.params)
                            /\ Len(Upto(ParamTexts(d), 0)) = 0
    <2>1. /\ d.params = <<>> => Len(ps) = 1 /\ ps[1] = Word("nothing") /\ Len(d.params) = 0
          /\ d.params # <<>> => /\ Len(ps) >= 1 /\ ps[1] \in TypeName /\ 0 < Len(d.params)
                                /\ Len(Upto(ParamTexts(d), 0)) = 0
        BY <1>5, FirstParam
    <2>2. (d.params = <<>> => q = 1) /\ (d.params # <<>> => q >= 1)
        BY <1>3, <2>1, Zenon
    <2>3. q >= 1
        BY <2>2
    <2> QED
        BY <2>1, <2>2, <2>3, Zenon
<1>9. At(0) = Name(d.name) /\ At(1) = Word("takes") /\ At(2) = ps[1]
    <2>1. PICK l : l = Len(t)
        OBVIOUS
    <2>2. /\ b + 0 + 1 <= l /\ b + 1 + 1 <= l /\ b + 2 + 1 <= l
          /\ b + 0 + 1 = c + 2 /\ b + 1 + 1 = c + 3 /\ b + 2 + 1 = c + 3 + 1 /\ 1 \in 1 .. q
        BY <1>5, <1>6, <1>7, <1>8, <2>1
    <2>3. At(0) = t[b + 0 + 1] /\ At(1) = t[b + 1 + 1] /\ At(2) = t[b + 2 + 1]
        BY <1>1, <2>1, <2>2 DEF Sees
    <2> QED
        BY <1>5, <1>7, <2>2, <2>3
<1>10. IsName(0) /\ Is(1, "takes") /\ At(0).value = d.name
    BY <1>9 DEF IsName, Is, Name, Word
<1>11. SignatureHead
    BY <1>4, SignatureSteps
<1>12. func' = Signed(d, <<>>, None)
    <2>1. func' = [func EXCEPT !.name = d.name]
        BY <1>10, <1>11 DEF SignatureHead
    <2> QED
        BY <1>4, <2>1 DEF Signed, NoFunction
<1>13. UNCHANGED doc
    BY <1>11 DEF SignatureHead
<1>14. InFunction(p, n, d)' /\ LocalsRead(p, n)'
    BY <1>4, <1>13, ReadStays, Zenon DEF InFunction, doc
<1>15. CASE d.params = <<>>
    <2>1. Is(2, "nothing")
        BY <1>8, <1>9, <1>15 DEF Is, Word
    <2>2. NoError /\ pos' = pos + 3 /\ mode' = "returns"
        BY <1>10, <1>11, <2>1 DEF SignatureHead, Advance
    <2>3. ParamRecords(d, Len(d.params)) = <<>>
        BY <1>5, <1>8, <1>15, ParamRecordsType
    <2>4. pos' = Start(p, n) + Bodied(d) - 1
        BY SMTT(30), <1>1, <1>2, <1>4, <1>5, <1>8, <1>15, <2>2
    <2>5. InReturns(p, n, d)'
        BY <1>12, <1>14, <2>2, <2>3, <2>4, Zenon DEF InReturns
    <2>6. InDeclaration(p, n, d)'
        BY <2>5, Zenon DEF InDeclaration
    <2> QED
        BY <1>2, <2>2, <2>6, Enters
<1>16. CASE d.params # <<>>
    <2>1. ~Is(2, "nothing")
        BY <1>8, <1>9, <1>16, NamesTypes DEF Is, NoWord, Reserved, Keywords
    <2>2. NoError /\ pos' = pos + 2 /\ mode' = "params"
        BY <1>10, <1>11, <2>1 DEF SignatureHead, Advance
    <2>3. ParamRecords(d, 0) = <<>>
        BY <1>5, ParamRecordsType
    <2>4. pos' = Start(p, n) + One(d.constant) + 3 + Len(Upto(ParamTexts(d), 0)) + One(0 > 0) + 1
        <3>1. PICK u, o : u = Len(Upto(ParamTexts(d), 0)) /\ o = One(0 > 0)
            OBVIOUS
        <3>2. u = 0 /\ o = 0
            BY <1>8, <1>16, <3>1 DEF One
        <3>3. pos' = s + c + 3 + u + o + 1
            BY <1>1, <1>4, <1>5, <2>2, <3>2
        <3> QED
            BY <1>2, <1>3, <3>1, <3>3, Zenon
    <2>5. 0 \in Nat /\ 0 < Len(d.params)
        BY <1>8, <1>16
    <2>6. InParams(p, n, d, 0)'
        BY <1>12, <1>14, <2>2, <2>3, <2>4, <2>5, Zenon DEF InParams
    <2>7. InDeclaration(p, n, d)'
        BY <2>5, <2>6, Zenon DEF InDeclaration
    <2> QED
        BY <1>2, <2>2, <2>7, Enters
<1> QED
    BY <1>15, <1>16

\* The k-th parameter, and the comma or the word behind it.
ParamAt(d, c, q, ps, k, u, o, b) ==
    /\ IsHead(d, c, q, ps) /\ k \in Nat /\ k < Len(d.params)
    /\ u = Len(Upto(ParamTexts(d), k)) /\ o = One(k > 0)
    /\ b = c + 3 + u + o

LEMMA ParamsRow ==
    ASSUME NEW d \in Declaration, d.kind = "function", NEW t, t = Written(d), NEW c, NEW q, NEW ps, NEW k,
           NEW u, NEW o, NEW b, ParamAt(d, c, q, ps, k, u, o, b), Sees(t, b)
    PROVE  /\ u \in Nat /\ o \in {0, 1} /\ Len(d.params) \in Nat
           /\ At(0) = d.params[k + 1].type /\ d.params[k + 1].type \in TypeName
           /\ At(1) = Name(d.params[k + 1].name)
           /\ k + 1 < Len(d.params) => Is(2, Comma) /\ Len(Upto(ParamTexts(d), k + 1)) = u + o + 2
           /\ k + 1 = Len(d.params) => ~Is(2, Comma) /\ q = u + o + 2
<1>1. /\ IsHead(d, c, q, ps) /\ k \in Nat /\ k < Len(d.params) /\ q = Len(ps)
      /\ u = Len(Upto(ParamTexts(d), k)) /\ o = One(k > 0)
    BY Zenon DEF ParamAt, IsHead
<1>b. b = c + 3 + u + o
    BY Zenon DEF ParamAt
<1>2. /\ FunctionParts(d) /\ HeadPlaces(d, t, c, q) /\ ParamPlaces(d, ps)
      /\ c \in {0, 1} /\ q \in Nat /\ Len(t) \in Nat
      /\ \A j \in 1 .. q : t[c + 3 + j] = ps[j]
    BY <1>1, HeadAt
<1>3. PICK m, v, x : m = Len(d.params) /\ v = d.params[k + 1] /\ x = Len(Upto(ParamTexts(d), k + 1))
    OBVIOUS
<1>4. /\ v.type \in TypeName /\ u \in Nat /\ x = u + o + 2 /\ u + o + 2 <= q
      /\ ps[u + o + 1] = v.type /\ ps[u + o + 2] = Name(v.name)
    BY <1>1, <1>2, <1>3, Zenon DEF ParamPlaces
<1>5. o \in {0, 1} /\ m \in Nat /\ d.params # <<>>
    <2>1. d.params \in Seq(ParamSet)
        BY <1>2, Zenon DEF FunctionParts
    <2>2. m \in Nat /\ d.params # <<>>
        BY <1>1, <1>3, <2>1
    <2> QED
        BY <1>1, <2>2 DEF One
<1>6. Len(t) >= c + q + 5 /\ t[c + q + 4] = Word("returns")
    BY <1>2, Zenon DEF HeadPlaces
<1>7. ASSUME NEW i \in Nat, u + o + i + 1 <= q + 1
      PROVE  At(i) = t[c + 3 + (u + o + i + 1)]
    <2>1. PICK l : l = Len(t)
        OBVIOUS
    <2>2. b + i + 1 <= l /\ b + i + 1 = c + 3 + (u + o + i + 1)
        <3>1. l >= c + q + 5 /\ l \in Nat
            BY <1>2, <1>6, <2>1, Zenon
        <3> QED
            BY <1>b, <1>2, <1>4, <1>5, <1>7, <3>1
    <2>3. At(i) = t[b + i + 1]
        BY <2>1, <2>2 DEF Sees
    <2> QED
        BY <2>2, <2>3, Zenon
<1>8. At(0) = v.type /\ At(1) = Name(v.name)
    <2>1. /\ u + o + 0 + 1 <= q + 1 /\ u + o + 1 + 1 <= q + 1
          /\ u + o + 0 + 1 = u + o + 1 /\ u + o + 1 + 1 = u + o + 2
          /\ u + o + 1 \in 1 .. q /\ u + o + 2 \in 1 .. q
        BY <1>2, <1>4, <1>5
    <2>2. At(0) = t[c + 3 + (u + o + 0 + 1)] /\ At(1) = t[c + 3 + (u + o + 1 + 1)]
        BY <1>7, <2>1
    <2> QED
        BY <1>2, <1>4, <2>1, <2>2
<1>9. At(2) = t[c + 3 + (u + o + 2 + 1)]
    <2>1. u + o + 2 + 1 <= q + 1
        BY <1>2, <1>4, <1>5
    <2> QED
        BY <1>7, <2>1
<1>10. ASSUME k + 1 < m PROVE Is(2, Comma)
    <2>1. k + 1 \in Nat /\ k + 1 > 0
        BY <1>1
    <2>2. x + One(k + 1 > 0) + 2 <= q /\ ps[x + 1] = Mark(Comma)
        BY <1>1, <1>2, <1>3, <1>10, <2>1, Zenon DEF ParamPlaces
    <2>3. One(k + 1 > 0) = 1
        BY <2>1 DEF One
    <2>4. x + 1 \in 1 .. q /\ u + o + 2 + 1 = x + 1
        BY <1>2, <1>4, <1>5, <2>2, <2>3
    <2>5. At(2) = Mark(Comma)
        BY <1>2, <1>9, <2>2, <2>4
    <2> QED
        BY <2>5 DEF Is, Mark
<1>11. ASSUME k + 1 = m PROVE ~Is(2, Comma) /\ q = u + o + 2
    <2>1. q = x
        BY <1>1, <1>2, <1>3, <1>5, <1>11, Zenon DEF ParamPlaces
    <2>2. c + 3 + (u + o + 2 + 1) = c + q + 4
        BY <1>2, <1>4, <1>5, <2>1
    <2>3. At(2) = Word("returns")
        BY <1>6, <1>9, <2>2
    <2>4. ~Is(2, Comma)
        <3>1. At(2).value = "returns"
            BY <2>3 DEF Word
        <3>2. Comma # "returns"
            BY DEF Comma
        <3> QED
            BY <3>1, <3>2, Zenon DEF Is
    <2> QED
        BY <1>4, <2>1, <2>4, Zenon
<1> QED
    BY <1>3, <1>4, <1>5, <1>8, <1>10, <1>11, Zenon

LEMMA ParamRead ==
    ASSUME TypeOK, NEW p, Correct(p), NEW n, NEW d, NEW t, NEW s, NEW b, Placed(p, n, d, t, s, b),
           NEW k, InParams(p, n, d, k), Next
    PROVE  Reads(p)
<1>1. Sees(t, b) /\ p \in Seq(Declaration) /\ d \in Declaration /\ s \in Nat
    BY Ahead
<1>2. n \in Nat /\ n < Len(p) /\ d = p[n + 1] /\ t = Written(d) /\ pos = s + b + 1 /\ b \in Nat
      /\ s = Start(p, n)
    BY Zenon DEF Placed
<1>3. PICK c, q, ps, u, o, m :
         /\ IsHead(d, c, q, ps) /\ c = One(d.constant) /\ u = Len(Upto(ParamTexts(d), k)) /\ o = One(k > 0)
         /\ m = Len(d.params)
    BY DEF IsHead
<1>4. /\ mode = "params" /\ d.kind = "function" /\ pos = s + c + 3 + u + o + 1
      /\ InFunction(p, n, d) /\ LocalsRead(p, n) /\ k \in Nat /\ k < m
      /\ func = Signed(d, ParamRecords(d, k), None)
    BY <1>2, <1>3, Zenon DEF InParams, InFunction
<1>6. FunctionParts(d) /\ c \in {0, 1} /\ q \in Nat /\ Bodied(d) = c + q + 5
    BY SMTT(30), <1>1, <1>2, <1>3, <1>4, HeadAt
<1>7. b = c + 3 + u + o
    <2>1. u \in Nat
        <3>1. ParamPlaces(d, ps)
            BY <1>1, <1>2, <1>3, <1>4, HeadAt
        <3> QED
            BY <1>3, <1>4, <3>1, Zenon DEF ParamPlaces
    <2>2. o \in {0, 1}
        BY <1>3 DEF One
    <2>3. pos = s + b + 1 /\ pos = s + c + 3 + u + o + 1 /\ s \in Nat /\ b \in Nat /\ c \in {0, 1}
        BY <1>1, <1>2, <1>4, <1>6, Zenon
    <2> QED
        BY <2>1, <2>2, <2>3
<1>5. ParamAt(d, c, q, ps, k, u, o, b)
    BY <1>3, <1>4, <1>7, Zenon DEF ParamAt
<1>8. PICK v : v = d.params[k + 1]
    OBVIOUS
<1>9. /\ u \in Nat /\ o \in {0, 1} /\ m \in Nat
      /\ At(0) = v.type /\ v.type \in TypeName /\ At(1) = Name(v.name)
      /\ k + 1 < m => Is(2, Comma) /\ Len(Upto(ParamTexts(d), k + 1)) = u + o + 2
      /\ k + 1 = m => ~Is(2, Comma) /\ q = u + o + 2
    <2>1. /\ u \in Nat /\ o \in {0, 1} /\ Len(d.params) \in Nat
          /\ At(0) = d.params[k + 1].type /\ d.params[k + 1].type \in TypeName
          /\ At(1) = Name(d.params[k + 1].name)
          /\ k + 1 < Len(d.params) => Is(2, Comma) /\ Len(Upto(ParamTexts(d), k + 1)) = u + o + 2
          /\ k + 1 = Len(d.params) => ~Is(2, Comma) /\ q = u + o + 2
        <3>1. t = Written(d)
            BY <1>2, Zenon
        <3>2. d \in Declaration /\ d.kind = "function" /\ Sees(t, b)
            BY <1>1, <1>4, Zenon
        <3> QED
            BY <1>5, <3>1, <3>2, ParamsRow
    <2> QED
        BY <1>3, <1>8, <2>1, Zenon
<1>10. IsType(0) /\ IsName(1) /\ At(0).value = v.type.value /\ At(1).value = v.name
    <2>1. v.type.kind \in {"identifier", "type"}
        BY <1>9, NamesTypes
    <2> QED
        BY <1>9, <2>1 DEF IsType, IsName, Name
<1>11. Param
    BY <1>4, SignatureSteps
<1>12. /\ NoError /\ UNCHANGED doc
       /\ func' = [func EXCEPT !.params = Append(func.params, [type |-> At(0).value, name |-> At(1).value])]
       /\ Is(2, Comma) => pos' = pos + 3 /\ mode' = "params"
       /\ ~Is(2, Comma) => pos' = pos + 2 /\ mode' = "returns"
    BY <1>4, <1>10, <1>11 DEF Param, Advance
<1>13. func' = Signed(d, ParamRecords(d, k + 1), None)
    <2>1. PICK x, y, r : x = ParamRecords(d, k) /\ y = ParamRecords(d, k + 1) /\ r = ParamRecord(v)
        OBVIOUS
    <2>2. y = Append(x, r)
        <3>1. k < Len(d.params)
            BY <1>3, <1>4, Zenon
        <3> QED
            BY <1>4, <1>6, <1>8, <2>1, <3>1, ParamRecordsType
    <2>3. r = [type |-> At(0).value, name |-> At(1).value]
        BY <1>10, <2>1, Zenon DEF ParamRecord
    <2>4. func = Signed(d, x, None) /\ func' = [func EXCEPT !.params = Append(func.params, r)]
        BY <1>4, <1>12, <2>1, <2>3, Zenon
    <2>5. func' = Signed(d, Append(x, r), None)
        BY <2>4 DEF Signed
    <2> QED
        BY <2>1, <2>2, <2>5, Zenon
<1>14. InFunction(p, n, d)' /\ LocalsRead(p, n)'
    BY <1>4, <1>12, ReadStays, Zenon DEF InFunction, doc
<1>15. CASE k + 1 < m
    <2>1. pos' = pos + 3 /\ mode' = "params"
        BY <1>9, <1>12, <1>15
    <2>2. One(k + 1 > 0) = 1 /\ k + 1 \in Nat
        BY <1>4 DEF One
    <2>3. PICK x, y : x = Len(Upto(ParamTexts(d), k + 1)) /\ y = One(k + 1 > 0)
        OBVIOUS
    <2>4. x = u + o + 2 /\ y = 1
        BY <1>9, <1>15, <2>2, <2>3, Zenon
    <2>5. pos' = s + c + 3 + x + y + 1
        BY <1>1, <1>4, <1>6, <1>9, <2>1, <2>4
    <2>6. InParams(p, n, d, k + 1)'
        BY <1>2, <1>3, <1>13, <1>14, <1>15, <2>1, <2>2, <2>3, <2>5, Zenon DEF InParams
    <2>7. InDeclaration(p, n, d)'
        BY <2>2, <2>6, Zenon DEF InDeclaration
    <2> QED
        BY <1>2, <1>12, <2>7, Enters
<1>16. CASE k + 1 = m
    <2>1. pos' = pos + 2 /\ mode' = "returns"
        BY <1>9, <1>12, <1>16
    <2>2. q = u + o + 2
        BY <1>9, <1>16
    <2>3. pos' = s + Bodied(d) - 1
        BY <1>1, <1>4, <1>6, <1>9, <2>1, <2>2
    <2>4. func' = Signed(d, ParamRecords(d, Len(d.params)), None)
        BY <1>3, <1>13, <1>16, Zenon
    <2>5. InReturns(p, n, d)'
        BY <1>2, <1>14, <2>1, <2>3, <2>4, Zenon DEF InReturns
    <2>6. InDeclaration(p, n, d)'
        BY <2>5, Zenon DEF InDeclaration
    <2> QED
        BY <1>2, <1>12, <2>6, Enters
<1> QED
    BY <1>4, <1>9, <1>15, <1>16

LEMMA ReturnsRead ==
    ASSUME TypeOK, NEW p, Correct(p), NEW n, NEW d, NEW t, NEW s, NEW b, Placed(p, n, d, t, s, b),
           InReturns(p, n, d), Next
    PROVE  Reads(p)
<1>1. Sees(t, b) /\ p \in Seq(Declaration) /\ d \in Declaration /\ s \in Nat
    BY Ahead
<1>2. n \in Nat /\ n < Len(p) /\ d = p[n + 1] /\ t = Written(d) /\ pos = s + b + 1 /\ b \in Nat
      /\ s = Start(p, n)
    BY Zenon DEF Placed
<1>3. PICK c, q, ps, rs, h : IsHead(d, c, q, ps) /\ rs = ParamRecords(d, Len(d.params)) /\ h = Bodied(d)
    BY DEF IsHead
<1>4. /\ mode = "returns" /\ d.kind = "function" /\ pos = s + h - 1
      /\ InFunction(p, n, d) /\ LocalsRead(p, n) /\ func = Signed(d, rs, None)
    BY <1>2, <1>3, Zenon DEF InReturns, InFunction
<1>5. /\ FunctionParts(d) /\ HeadPlaces(d, t, c, q) /\ (~d.native => BodyPlaces(d, t, c + q + 5))
      /\ c \in {0, 1} /\ q \in Nat /\ h = c + q + 5 /\ Len(t) \in Nat
    BY <1>1, <1>2, <1>3, <1>4, HeadAt
<1>6. b = c + q + 3
    <2>1. pos = s + h - 1 /\ pos = s + b + 1 /\ s \in Nat /\ b \in Nat
          /\ h = c + q + 5 /\ c \in {0, 1} /\ q \in Nat
        BY <1>1, <1>2, <1>4, <1>5, Zenon
    <2> QED
        BY <2>1
<1>7. /\ Len(t) >= c + q + 5 /\ t[c + q + 4] = Word("returns") /\ t[c + q + 5] = d.returns
      /\ d.native => Len(t) = c + q + 5
    BY <1>5, Zenon DEF HeadPlaces
<1>8. At(0) = Word("returns") /\ At(1) = d.returns
    <2>1. PICK l : l = Len(t)
        OBVIOUS
    <2>2. /\ b + 0 + 1 <= l /\ b + 1 + 1 <= l
          /\ b + 0 + 1 = c + q + 4 /\ b + 1 + 1 = c + q + 5
        BY <1>5, <1>6, <1>7, <2>1
    <2>3. At(0) = t[b + 0 + 1] /\ At(1) = t[b + 1 + 1]
        BY <1>1, <2>1, <2>2 DEF Sees
    <2> QED
        BY <1>7, <2>2, <2>3
<1>9. Is(0, "returns") /\ (Is(1, "nothing") \/ IsType(1))
    <2>1. d.returns \in TypeName \cup {Word("nothing")}
        BY <1>5, Zenon DEF FunctionParts
    <2> QED
        BY <1>8, <2>1, NamesTypes DEF Is, IsType, Word
<1>10. Returns
    BY <1>4, SignatureSteps
<1>11. PICK f : f = [func EXCEPT !.returns = At(1).value]
    OBVIOUS
<1>12. /\ NoError /\ pos' = pos + 2 /\ func' = f /\ UNCHANGED <<types, globals, locals>>
       /\ \/ f.native /\ functions' = Append(functions, f) /\ mode' = "top"
          \/ ~f.native /\ mode' = "body" /\ UNCHANGED functions
    BY <1>9, <1>10, <1>11 DEF Returns, Advance
<1>13. f = Signed(d, rs, d.returns.value)
    BY <1>4, <1>8, <1>11 DEF Signed
<1>14. d.native \in BOOLEAN /\ f.native = d.native
    BY <1>5, <1>13, Zenon DEF FunctionParts, Signed
<1>15. TypesRead(p, n) /\ GlobalsRead(p, n) /\ FunctionsRead(p, n)
    BY <1>4, Zenon DEF InFunction
<1>16. CASE d.native
    <2>1. functions' = Append(functions, f) /\ mode' = "top"
        BY <1>12, <1>14, <1>16
    <2>2. FunctionsRead(p, n + 1)'
        <3>1. Functions(d) = <<f>>
            BY <1>1, <1>3, <1>4, <1>13, FunctionsType
        <3>2. Upto(FunctionLists(p), n + 1) = Upto(FunctionLists(p), n) \o Functions(d)
            BY <1>1, <1>2, ListsStep
        <3>3. functions' = functions \o <<f>>
            BY <2>1 DEF TypeOK
        <3> QED
            BY <1>15, <3>1, <3>2, <3>3, Zenon DEF FunctionsRead
    <2>3. LocalsRead(p, n + 1)
        <3>1. d.body = <<>>
            BY <1>5, <1>16, Zenon DEF FunctionParts
        <3>2. Len(d.body) = 0
            BY <3>1
        <3>3. Len(LocalParts(d)) \in Nat
            BY <1>5, LocalPartsType
        <3>4. Upto(LocalParts(d), 0) = <<>>
            BY <3>3, UptoStep
        <3>5. Locals(d) = <<>>
            BY <1>1, <1>4, <3>2, <3>4, LocalsType
        <3>6. Upto(LocalLists(p), n + 1) = Upto(LocalLists(p), n) \o Locals(d)
            BY <1>1, <1>2, ListsStep
        <3>7. locals \o <<>> = locals
            BY DEF TypeOK
        <3> QED
            BY <1>4, <3>5, <3>6, <3>7, Zenon DEF LocalsRead
    <2>4. TypesRead(p, n + 1) /\ GlobalsRead(p, n + 1)
        <3>1. d.kind # "type" /\ d.kind # "globals"
            BY <1>4
        <3> QED
            BY <1>1, <1>2, <1>15, <3>1, NothingAdded
    <2>5. AllRead(p, n + 1)'
        BY <1>12, <2>2, <2>3, <2>4, ReadStays, Zenon DEF AllRead
    <2>6. pos' = s + Len(t) + 1
        <3>1. PICK l : l = Len(t)
            OBVIOUS
        <3>2. l = c + q + 5 /\ pos' = s + b + 1 + 2
            BY <1>2, <1>7, <1>12, <1>16, <3>1, Zenon
        <3>3. pos' = s + l + 1
            BY <1>1, <1>5, <1>6, <3>2
        <3> QED
            BY <3>1, <3>3
    <2> QED
        BY <1>12, <2>1, <2>5, <2>6, Behinds
<1>17. CASE ~d.native
    <2>1. mode' = "body" /\ UNCHANGED functions
        BY <1>12, <1>14, <1>17
    <2>2. Upto(LocalParts(d), 0) = <<>> /\ Len(d.body) \in Nat /\ 0 \in 0 .. Len(d.body)
        BY <1>5, LocalPartsType, UptoStep
    <2>3. locals' = Upto(LocalLists(p), n) \o Upto(LocalParts(d), 0)
        <3>1. locals \o <<>> = locals
            BY DEF TypeOK
        <3> QED
            BY <1>4, <1>12, <2>2, <3>1, Zenon DEF LocalsRead
    <2>4. Len(Upto(StatementTexts(d), 0)) = 0 /\ Low(d, 0) = 0
        <3>1. d.body \in Seq(BodyPart)
            BY <1>5, Zenon DEF FunctionParts
        <3>2. Len(StatementTexts(d)) \in Nat
            BY <3>1, StatementTextsType
        <3>3. Upto(StatementTexts(d), 0) = <<>>
            BY <3>2, UptoStep
        <3> QED
            BY <3>3 DEF Low
    <2>5. pos' = s + h + 1
        <3>1. pos' = s + b + 1 + 2
            BY <1>2, <1>12, Zenon
        <3> QED
            BY <1>1, <1>5, <1>6, <3>1
    <2>6. pos' > Start(p, n) + Bodied(d) + Low(d, 0)
          /\ pos' <= Start(p, n) + Bodied(d) + Len(Upto(StatementTexts(d), 0)) + 1
        <3>1. PICK e, g : e = Low(d, 0) /\ g = Len(Upto(StatementTexts(d), 0))
            OBVIOUS
        <3>2. e = 0 /\ g = 0
            BY <2>4, <3>1, Zenon
        <3>3. pos' > s + h + e /\ pos' <= s + h + g + 1
            BY <1>1, <1>5, <2>5, <3>2
        <3> QED
            BY <1>2, <1>3, <3>1, <3>3, Zenon
    <2>7. InFunction(p, n, d)'
        BY <1>4, <1>12, <1>15, <2>1, ReadStays, Zenon DEF InFunction
    <2>8. func' = Signed(d, ParamRecords(d, Len(d.params)), d.returns.value)
        BY <1>3, <1>12, <1>13, Zenon
    <2>9. InBody(p, n, d, 0)'
        BY <1>17, <2>1, <2>2, <2>3, <2>6, <2>7, <2>8, Zenon DEF InBody
    <2>10. 0 \in Nat
        OBVIOUS
    <2>11. InDeclaration(p, n, d)'
        BY <2>9, <2>10, Zenon DEF InDeclaration
    <2> QED
        BY <1>2, <1>12, <2>11, Enters
<1> QED
    BY <1>14, <1>16, <1>17

\* The body of a function.
StatementAt(d, k, u, x, w) ==
    /\ k \in Nat /\ k < Len(d.body) /\ u = Len(Upto(StatementTexts(d), k))
    /\ x = d.body[k + 1] /\ w = WrittenStatement(x)

StatementIn(d, t, h, k, u, x, w) ==
    /\ u \in Nat /\ x \in BodyPart /\ StatementPlaces(x, w) /\ Len(w) \in Nat
    /\ Begun(x) \in 1 .. Len(w) /\ k + 1 \in 0 .. Len(d.body)
    /\ Len(Upto(StatementTexts(d), k + 1)) = u + Len(w)
    /\ Low(d, k + 1) = u + Begun(x)
    /\ \A j \in 1 .. Len(w) : t[h + u + j] = w[j]

LEMMA StatementRow ==
    ASSUME NEW d, NEW t, NEW h \in Nat, FunctionParts(d), BodyPlaces(d, t, h),
           NEW k, NEW u, NEW x, NEW w, StatementAt(d, k, u, x, w)
    PROVE  StatementIn(d, t, h, k, u, x, w)
<1>1. /\ k \in Nat /\ k < Len(d.body) /\ u = Len(Upto(StatementTexts(d), k))
      /\ x = d.body[k + 1] /\ w = WrittenStatement(x)
    BY Zenon DEF StatementAt
<1>2. /\ u \in Nat /\ Len(Upto(StatementTexts(d), k + 1)) = u + Len(w)
      /\ \A j \in 1 .. Len(w) : t[h + u + j] = w[j]
    BY <1>1, Zenon DEF BodyPlaces
<1>3. x \in BodyPart /\ k + 1 \in 0 .. Len(d.body)
    <2>1. d.body \in Seq(BodyPart)
        BY Zenon DEF FunctionParts
    <2> QED
        BY <1>1, <2>1
<1>4. StatementPlaces(x, w)
    BY <1>1, <1>3, StatementWritten
<1>5. Begun(x) \in 1 .. Len(w) /\ w \in Seq(Token)
    BY <1>4, Zenon DEF StatementPlaces
<1>6. Low(d, k + 1) = u + Begun(x)
    <2>1. PICK m : m = k + 1
        OBVIOUS
    <2>2. m # 0 /\ m - 1 = k
        BY <1>1, <2>1
    <2>3. Low(d, m) = Len(Upto(StatementTexts(d), k)) + Begun(d.body[m])
        BY <2>2, Zenon DEF Low
    <2> QED
        BY <1>1, <2>1, <2>3, Zenon
<1>7. Len(w) \in Nat
    BY <1>5
<1> QED
    BY <1>2, <1>3, <1>4, <1>5, <1>6, <1>7, Zenon DEF StatementIn

\* Behind k statements, u tokens long, the next one begins, or the body ends.
Filled(d, k, u) == u = Len(Upto(StatementTexts(d), k))
BodyNext(d, t, h, k, u) ==
    /\ u \in Nat /\ Len(d.body) \in Nat /\ h + u + 1 <= Len(t) /\ Len(t) \in Nat
    /\ k = Len(d.body) => t[h + u + 1] = Word("endfunction") /\ Len(t) = h + u + 1
    /\ t[h + u + 1].value # "="

LEMMA StatementBegins ==
    ASSUME NEW d, NEW t, NEW h \in Nat, FunctionParts(d), BodyPlaces(d, t, h),
           NEW k \in 0 .. Len(d.body), NEW u, Filled(d, k, u)
    PROVE  BodyNext(d, t, h, k, u)
<1>0. u = Len(Upto(StatementTexts(d), k))
    BY Zenon DEF Filled
<1>1. PICK m, e : m = Len(d.body) /\ e = Len(Upto(StatementTexts(d), m))
    OBVIOUS
<1>2. e \in Nat /\ Len(t) = h + e + 1 /\ t[Len(t)] = Word("endfunction")
    BY <1>1, Zenon DEF BodyPlaces
<1>3. d.body \in Seq(BodyPart)
    BY Zenon DEF FunctionParts
<1>4. m \in Nat /\ u \in Nat /\ u <= e
    <2>1. PICK seqs : seqs = StatementTexts(d)
        OBVIOUS
    <2>2. seqs \in Seq(Seq(Token)) /\ Len(seqs) = m /\ m \in Nat
        BY <1>1, <1>3, <2>1, StatementTextsType
    <2> QED
        BY <1>0, <1>1, <2>1, <2>2, UptoBounds
<1>5. h + u + 1 <= Len(t) /\ Len(t) \in Nat
    BY <1>2, <1>4
<1>6. ASSUME k = m PROVE t[h + u + 1] = Word("endfunction") /\ Len(t) = h + u + 1
    <2>1. u = e
        BY <1>0, <1>1, <1>6, Zenon
    <2> QED
        BY <1>2, <2>1
<1>7. ASSUME k < m PROVE t[h + u + 1].value # "="
    <2>1. PICK x, w : x = d.body[k + 1] /\ w = WrittenStatement(x)
        OBVIOUS
    <2>2. StatementAt(d, k, u, x, w)
        <3>1. k \in Nat
            OBVIOUS
        <3> QED
            BY <1>0, <1>1, <1>7, <2>1, <3>1, Zenon DEF StatementAt
    <2>3. x \in BodyPart /\ StatementPlaces(x, w) /\ Begun(x) \in 1 .. Len(w) /\ Len(w) \in Nat
          /\ \A j \in 1 .. Len(w) : t[h + u + j] = w[j]
        <3>1. StatementIn(d, t, h, k, u, x, w)
            BY <2>2, StatementRow
        <3> QED
            BY <3>1, Zenon DEF StatementIn
    <2>4. 1 \in 1 .. Len(w)
        BY <2>3
    <2>5. t[h + u + 1] = w[1]
        BY <2>3, <2>4
    <2>6. w[1].value # "="
        <3>1. CASE x.kind = "local"
            <4>1. PICK v, a : v = x.variable /\ a = One(v.array)
                OBVIOUS
            <4>2. LocalPlaces(v, a, w)
                BY <2>1, <2>3, <3>1, <4>1, LocalWritten DEF IsLocal
            <4>3. w[1] = Word("local")
                BY <4>2, Zenon DEF LocalPlaces
            <4> QED
                BY <4>3 DEF Word
        <3>2. CASE x.kind # "local"
            BY <2>3, <3>2, Zenon DEF StatementPlaces
        <3> QED
            BY <3>1, <3>2
    <2> QED
        BY <2>5, <2>6
<1>8. t[h + u + 1].value # "="
    <2>1. Word("endfunction").value # "="
        BY DEF Word
    <2>2. k = m \/ k < m
        BY <1>1, <1>4
    <2> QED
        BY <1>6, <1>7, <2>1, <2>2
<1> QED
    BY <1>1, <1>4, <1>5, <1>6, <1>8, Zenon DEF BodyNext

\* What the loop over the body reads over.
Ordinary(token) == token.kind # "eof" /\ token.value \notin {"local", "endfunction"}

LEMMA InsideOrdinary ==
    ASSUME TypeOK, NEW p, Correct(p), At(0) \in Inside
    PROVE  Ordinary(At(0))
<1>1. At(0).kind # "eof" /\ (At(0).kind # "literal" => At(0).value \notin {"local", "endfunction"})
    BY DEF Inside
<1>2. pos + 0 <= Len(text) /\ At(0) = text[pos + 0]
    BY <1>1 DEF At, Eof
<1>3. pos + 0 \in DOMAIN text
    BY <1>2 DEF TypeOK
<1>4. At(0).kind = "literal" => At(0).value \notin {"local", "endfunction"}
    BY <1>2, <1>3, Zenon DEF Correct, Plain
<1> QED
    BY <1>1, <1>4, Zenon DEF Ordinary

LEMMA BodySteps ==
    ASSUME Next
    PROVE  /\ mode = "body" => EndFunction \/ Statement \/ LocalVariable
           /\ mode = "skip" => SkipExpression
BY DEF Next, Finish, Unknown, TypeDecl, GlobalsBlock, FunctionDecl, EndGlobals, GlobalVariable,
       SignatureHead, Param, Returns, EndFunction, Statement, LocalVariable, SkipExpression

LEMMA ReadsOver ==
    ASSUME InBodyLoop, Ordinary(At(0)), Next
    PROVE  /\ InBodyLoop' /\ UNCHANGED <<func, doc>> /\ NoError
           /\ pos' = pos + 1 \/ pos' = pos + 0
<1>1. ~Ended /\ ~Is(0, "local") /\ ~Is(0, "endfunction")
    BY DEF Ordinary, Ended, Is
<1>2. CASE mode = "body"
    <2>1. Statement
        BY <1>1, <1>2, BodySteps DEF EndFunction, LocalVariable
    <2> QED
        BY <1>2, <2>1 DEF Statement, Advance, NoError, InBodyLoop
<1>3. CASE mode = "skip" /\ back = "body"
    <2>1. SkipExpression
        BY <1>3, BodySteps
    <2>2. UNCHANGED <<back, func, doc, diagnostics>> /\ (pos' = pos + 0 \/ pos' = pos + 1)
          /\ (mode' = back \/ mode' = mode)
        BY <2>1 DEF SkipExpression, Advance
    <2> QED
        BY <1>3, <2>2 DEF NoError, InBodyLoop
<1> QED
    BY <1>2, <1>3 DEF InBodyLoop

\* A local's beginning and the end of the function end an expression before they are read.
LEMMA StopsBefore ==
    ASSUME mode = "skip", back = "body", Next, At(0) = Word("local") \/ At(0) = Word("endfunction")
    PROVE  InBodyLoop' /\ UNCHANGED <<func, doc>> /\ NoError /\ pos' = pos + 0
<1>1. SkipExpression
    BY BodySteps
<1>2. Stops
    BY DEF Stops, Word, StatementWords
<1> QED
    BY <1>1, <1>2 DEF SkipExpression, Advance, NoError, InBodyLoop

LEMMA LocalsOn ==
    ASSUME NEW d, FunctionParts(d), NEW k \in Nat, k < Len(d.body), NEW x, x = d.body[k + 1]
    PROVE  /\ Upto(LocalParts(d), k) \in Seq(Local)
           /\ x.kind # "local" => Upto(LocalParts(d), k + 1) = Upto(LocalParts(d), k)
           /\ x.kind = "local" =>
                 /\ [function |-> d.name, name |-> x.variable.name, type |-> x.variable.type.value] \in Local
                 /\ IsAppend(Upto(LocalParts(d), k + 1), Upto(LocalParts(d), k),
                             [function |-> d.name, name |-> x.variable.name, type |-> x.variable.type.value])
<1>1. PICK seqs, y, z : seqs = LocalParts(d) /\ y = Upto(seqs, k) /\ z = Upto(seqs, k + 1)
    OBVIOUS
<1>2. /\ seqs \in Seq(Seq(Local)) /\ Len(seqs) = Len(d.body) /\ x \in BodyPart
      /\ seqs[k + 1] = LocalPart(d, x)
    BY <1>1, LocalPartsType
<1>3. y \in Seq(Local) /\ z = y \o LocalPart(d, x)
    <2>1. k < Len(seqs)
        BY <1>2, Zenon
    <2>2. Upto(seqs, k) \in Seq(Local) /\ Upto(seqs, k + 1) = Upto(seqs, k) \o seqs[k + 1]
        BY <1>2, <2>1, UptoNext
    <2> QED
        BY <1>1, <1>2, <2>2, Zenon
<1>4. d.name \in NoWord
    BY Zenon DEF FunctionParts
<1>5. CASE x.kind # "local"
    <2>1. LocalPart(d, x) = <<>> /\ y \o <<>> = y
        BY <1>2, <1>3, <1>4, <1>5, LocalPartType
    <2> QED
        BY <1>1, <1>3, <1>5, <2>1, Zenon
<1>6. CASE x.kind = "local"
    <2>1. PICK r : r = [function |-> d.name, name |-> x.variable.name, type |-> x.variable.type.value]
        OBVIOUS
    <2>2. LocalPart(d, x) = <<r>> /\ LocalPart(d, x) \in Seq(Local)
        BY <1>2, <1>4, <1>6, <2>1, LocalPartType, Zenon
    <2>3. r \in Local
        BY <2>2
    <2>4. IsAppend(z, y, r)
        BY <1>3, <2>2, <2>3 DEF IsAppend
    <2> QED
        BY <1>1, <1>3, <1>6, <2>1, <2>3, <2>4, Zenon
<1> QED
    BY <1>5, <1>6

\* The parser in the body of d, behind k statements or within the k-th.
BodyAt(p, n, d, t, s, b, k, h) ==
    /\ Placed(p, n, d, t, s, b) /\ InBody(p, n, d, k) /\ h = Bodied(d)

BodyIs(p, n, d, t, s, b, k, h) ==
    /\ Sees(t, b) /\ p \in Seq(Declaration) /\ d \in Declaration /\ s \in Nat /\ Len(t) \in Nat
    /\ n \in Nat /\ n < Len(p) /\ d = p[n + 1] /\ s = Start(p, n) /\ b \in Nat /\ pos = s + b + 1
    /\ FunctionParts(d) /\ BodyPlaces(d, t, h) /\ h \in Nat
    /\ InBodyLoop /\ InFunction(p, n, d) /\ d.kind = "function" /\ ~d.native
    /\ func = Signed(d, ParamRecords(d, Len(d.params)), d.returns.value)
    /\ k \in 0 .. Len(d.body) /\ Len(d.body) \in Nat
    /\ pos > s + h + Low(d, k) /\ pos <= s + h + Len(Upto(StatementTexts(d), k)) + 1
    /\ locals = Upto(LocalLists(p), n) \o Upto(LocalParts(d), k)

LEMMA BodyPlace ==
    ASSUME TypeOK, NEW p, Correct(p), NEW n, NEW d, NEW t, NEW s, NEW b, NEW k, NEW h,
           BodyAt(p, n, d, t, s, b, k, h)
    PROVE  BodyIs(p, n, d, t, s, b, k, h)
<1>1. Placed(p, n, d, t, s, b) /\ InBody(p, n, d, k) /\ h = Bodied(d)
    BY Zenon DEF BodyAt
<1>2. Sees(t, b) /\ p \in Seq(Declaration) /\ d \in Declaration /\ s \in Nat /\ Len(t) \in Nat
    BY <1>1, Ahead
<1>3. n \in Nat /\ n < Len(p) /\ d = p[n + 1] /\ t = Written(d) /\ pos = s + b + 1 /\ b \in Nat
      /\ s = Start(p, n)
    BY <1>1, Zenon DEF Placed
<1>4. /\ InBodyLoop /\ InFunction(p, n, d) /\ d.kind = "function" /\ ~d.native
      /\ func = Signed(d, ParamRecords(d, Len(d.params)), d.returns.value)
      /\ k \in 0 .. Len(d.body)
      /\ pos > s + h + Low(d, k) /\ pos <= s + h + Len(Upto(StatementTexts(d), k)) + 1
      /\ locals = Upto(LocalLists(p), n) \o Upto(LocalParts(d), k)
    BY <1>1, <1>3, Zenon DEF InBody, InFunction, InBodyLoop
<1>5. PICK c, q, ps : IsHead(d, c, q, ps)
    BY DEF IsHead
<1>6. /\ FunctionParts(d) /\ (~d.native => BodyPlaces(d, t, c + q + 5))
      /\ c \in {0, 1} /\ q \in Nat /\ Bodied(d) = c + q + 5
    BY <1>2, <1>3, <1>4, <1>5, HeadAt
<1>7. h \in Nat /\ BodyPlaces(d, t, h)
    BY <1>1, <1>4, <1>6
<1>8. Len(d.body) \in Nat
    BY <1>6, LocalPartsType
<1> QED
    BY <1>2, <1>3, <1>4, <1>6, <1>7, <1>8, Zenon DEF BodyIs

\* A step within the body.
LEMMA StaysInBody ==
    ASSUME NEW p, NEW n, NEW d, NEW t, NEW s, NEW b, NEW k, NEW h, BodyAt(p, n, d, t, s, b, k, h),
           NEW l \in Nat, l \in 0 .. Len(d.body), InBodyLoop', UNCHANGED <<func, types, globals, functions>>, NoError,
           pos' > s + h + Low(d, l), pos' <= s + h + Len(Upto(StatementTexts(d), l)) + 1,
           locals' = Upto(LocalLists(p), n) \o Upto(LocalParts(d), l)
    PROVE  Reads(p)
<1>1. Placed(p, n, d, t, s, b) /\ InBody(p, n, d, k) /\ h = Bodied(d)
    BY Zenon DEF BodyAt
<1>2. n \in Nat /\ n < Len(p) /\ d = p[n + 1] /\ s = Start(p, n)
    BY <1>1, Zenon DEF Placed
<1>3. InFunction(p, n, d) /\ ~d.native /\ func = Signed(d, ParamRecords(d, Len(d.params)), d.returns.value)
    BY <1>1, Zenon DEF InBody
<1>4. InFunction(p, n, d)'
    BY <1>3, ReadStays, Zenon DEF InFunction
<1>5. mode' = "body" \/ (mode' = "skip" /\ back' = "body")
    BY Zenon DEF InBodyLoop
<1>6. func' = Signed(d, ParamRecords(d, Len(d.params)), d.returns.value)
    BY <1>3, Zenon
<1>7. InBody(p, n, d, l)'
    BY <1>1, <1>2, <1>3, <1>4, <1>5, <1>6, Zenon DEF InBody
<1>8. InDeclaration(p, n, d)'
    BY <1>7, Zenon DEF InDeclaration
<1> QED
    BY <1>2, <1>8, Enters

\* Nothing but the place may change.
LEMMA MovesInBody ==
    ASSUME TypeOK, NEW p, Correct(p), NEW n, NEW d, NEW t, NEW s, NEW b, NEW k, NEW h,
           BodyAt(p, n, d, t, s, b, k, h), InBodyLoop', UNCHANGED <<func, doc>>, NoError,
           pos' > s + h + Low(d, k), pos' <= s + h + Len(Upto(StatementTexts(d), k)) + 1
    PROVE  Reads(p)
<1>0. BodyIs(p, n, d, t, s, b, k, h)
    BY BodyPlace
<1>1. k \in 0 .. Len(d.body) /\ Len(d.body) \in Nat
      /\ locals = Upto(LocalLists(p), n) \o Upto(LocalParts(d), k)
    BY <1>0, Zenon DEF BodyIs
<1>2. k \in Nat /\ UNCHANGED <<func, types, globals, functions>>
    BY <1>1 DEF doc
<1>3. locals' = Upto(LocalLists(p), n) \o Upto(LocalParts(d), k)
    BY <1>1, Zenon DEF doc
<1> QED
    BY <1>1, <1>2, <1>3, StaysInBody

\* Behind the last token of the k-th statement, and of the last one.
Between(d, b, k, h) == b = h + Len(Upto(StatementTexts(d), k))
AllBehind(d, k) == k = Len(d.body)

LEMMA FunctionEnds ==
    ASSUME TypeOK, NEW p, NEW n, NEW d, NEW t, NEW s, NEW b, NEW k, NEW h,
           BodyIs(p, n, d, t, s, b, k, h), AllBehind(d, k),
           functions' = Append(functions, func), UNCHANGED <<types, globals, locals>>
    PROVE  AllRead(p, n + 1)'
<1>1. /\ p \in Seq(Declaration) /\ n \in Nat /\ n < Len(p) /\ d = p[n + 1] /\ d.kind = "function"
      /\ InFunction(p, n, d) /\ d \in Declaration
    BY Zenon DEF BodyIs
<1>2. func = Signed(d, ParamRecords(d, Len(d.params)), d.returns.value)
    BY Zenon DEF BodyIs
<1>3. locals = Upto(LocalLists(p), n) \o Upto(LocalParts(d), k)
    BY Zenon DEF BodyIs
<1>4. TypesRead(p, n) /\ GlobalsRead(p, n) /\ FunctionsRead(p, n)
    BY <1>1, Zenon DEF InFunction
<1>5. FunctionsRead(p, n + 1)'
    <2>1. Functions(d) = <<Signed(d, ParamRecords(d, Len(d.params)), d.returns.value)>>
        BY <1>1, FunctionsType
    <2>2. Upto(FunctionLists(p), n + 1) = Upto(FunctionLists(p), n) \o Functions(d)
        BY <1>1, ListsStep
    <2>3. functions' = functions \o <<func>>
        BY DEF TypeOK
    <2>4. Functions(d) = <<func>>
        BY <1>2, <2>1, Zenon
    <2> QED
        BY <1>4, <2>2, <2>3, <2>4, Zenon DEF FunctionsRead
<1>6. LocalsRead(p, n + 1)
    <2>1. Locals(d) = Upto(LocalParts(d), Len(d.body))
        BY <1>1, LocalsType
    <2>2. Upto(LocalLists(p), n + 1) = Upto(LocalLists(p), n) \o Locals(d)
        BY <1>1, ListsStep
    <2>3. Locals(d) = Upto(LocalParts(d), k)
        BY <2>1, Zenon DEF AllBehind
    <2> QED
        BY <1>3, <2>2, <2>3, Zenon DEF LocalsRead
<1>7. TypesRead(p, n + 1) /\ GlobalsRead(p, n + 1)
    <2>1. d.kind # "type" /\ d.kind # "globals"
        BY <1>1
    <2> QED
        BY <1>1, <1>4, <2>1, NothingAdded
<1>8. TypesRead(p, n + 1)' /\ GlobalsRead(p, n + 1)' /\ LocalsRead(p, n + 1)'
    BY <1>6, <1>7, ReadStays
<1> QED
    BY <1>5, <1>8, Zenon DEF AllRead

LEMMA BodyEnds ==
    ASSUME TypeOK, NEW p, Correct(p), NEW n, NEW d, NEW t, NEW s, NEW b, NEW k, NEW h,
           BodyAt(p, n, d, t, s, b, k, h), AllBehind(d, k), Between(d, b, k, h), Next
    PROVE  Reads(p)
<1>1. BodyIs(p, n, d, t, s, b, k, h)
    BY BodyPlace
<1>2. PICK u, l : u = Len(Upto(StatementTexts(d), k)) /\ l = Len(t)
    OBVIOUS
<1>3. /\ s \in Nat /\ l \in Nat /\ b \in Nat /\ pos = s + b + 1 /\ h \in Nat /\ b = h + u
      /\ k \in 0 .. Len(d.body) /\ FunctionParts(d) /\ BodyPlaces(d, t, h) /\ Sees(t, b) /\ InBodyLoop
      /\ pos > s + h + Low(d, k) /\ pos <= s + h + Len(Upto(StatementTexts(d), k)) + 1
    BY <1>1, <1>2, Zenon DEF BodyIs, Between
<1>4. BodyNext(d, t, h, k, u)
    <2>1. Filled(d, k, u)
        BY <1>2, Zenon DEF Filled
    <2> QED
        BY <1>3, <2>1, StatementBegins
<1>5. u \in Nat /\ t[h + u + 1] = Word("endfunction") /\ l = h + u + 1
    BY <1>2, <1>4, Zenon DEF AllBehind, BodyNext
<1>6. b + 0 + 1 = h + u + 1 /\ b + 0 + 1 <= l
    BY <1>3, <1>5
<1>7. At(0) = Word("endfunction")
    <2>1. b + 0 + 1 <= Len(t) => At(0) = t[b + 0 + 1]
        BY <1>3 DEF Sees
    <2> QED
        BY <1>2, <1>5, <1>6, <2>1, Zenon
<1>8. CASE mode = "body"
    <2>1. ~Ended /\ Is(0, "endfunction") /\ ~Is(0, "local")
        BY <1>7 DEF Ended, Is, Word
    <2>2. EndFunction
        BY <1>8, <2>1, BodySteps DEF Statement, LocalVariable
    <2>3. /\ functions' = Append(functions, func) /\ mode' = "top" /\ pos' = pos + 1
          /\ UNCHANGED <<types, globals, locals>> /\ NoError
        BY <2>1, <2>2 DEF EndFunction, Advance, NoError
    <2>4. AllRead(p, n + 1)'
        BY <1>1, <2>3, FunctionEnds
    <2>5. pos' = s + l + 1
        BY <1>3, <1>5, <2>3
    <2>6. pos' = s + Len(t) + 1
        BY <1>2, <2>5, Zenon
    <2>7. Placed(p, n, d, t, s, b)
        BY Zenon DEF BodyAt
    <2> QED
        BY <2>3, <2>4, <2>6, <2>7, Behinds
<1>9. CASE mode = "skip" /\ back = "body"
    <2>1. InBodyLoop' /\ UNCHANGED <<func, doc>> /\ NoError /\ pos' = pos + 0
        BY <1>7, <1>9, StopsBefore
    <2>2. pos' = pos
        BY <2>1 DEF TypeOK
    <2>3. pos' > s + h + Low(d, k) /\ pos' <= s + h + Len(Upto(StatementTexts(d), k)) + 1
        BY <1>3, <2>2, Zenon
    <2> QED
        BY <2>1, <2>3, MovesInBody
<1> QED
    BY <1>3, <1>8, <1>9, Zenon DEF InBodyLoop

\* Before the last token of the k-th statement.
Amid(d, b, k, h) == b < h + Len(Upto(StatementTexts(d), k))

LEMMA BodyGoesOn ==
    ASSUME TypeOK, NEW p, Correct(p), NEW n, NEW d, NEW t, NEW s, NEW b, NEW k, NEW h,
           BodyAt(p, n, d, t, s, b, k, h), Amid(d, b, k, h), Next
    PROVE  Reads(p)
<1>1. BodyIs(p, n, d, t, s, b, k, h)
    BY BodyPlace
<1>2. PICK f, g, l, m : f = Len(Upto(StatementTexts(d), k)) /\ g = Low(d, k) /\ l = Len(t) /\ m = Len(d.body)
    OBVIOUS
<1>3. /\ s \in Nat /\ l \in Nat /\ b \in Nat /\ pos = s + b + 1 /\ h \in Nat /\ b < h + f
      /\ pos > s + h + g /\ pos <= s + h + f + 1 /\ k \in 0 .. m /\ m \in Nat
    BY <1>1, <1>2, Zenon DEF BodyIs, Amid
<1>4. k \in 0 .. Len(d.body) /\ FunctionParts(d) /\ BodyPlaces(d, t, h) /\ Sees(t, b) /\ InBodyLoop
    BY <1>1, Zenon DEF BodyIs
<1>5. f \in Nat /\ h + f + 1 <= l
    <2>1. Filled(d, k, f)
        BY <1>2, Zenon DEF Filled
    <2>2. BodyNext(d, t, h, k, f)
        BY <1>3, <1>4, <2>1, StatementBegins
    <2> QED
        BY <1>2, <2>2, Zenon DEF BodyNext
<1>6. k # 0
    <2>1. ASSUME k = 0 PROVE f = 0
        <3>1. d.body \in Seq(BodyPart)
            BY <1>4, Zenon DEF FunctionParts
        <3>2. Len(StatementTexts(d)) \in Nat
            BY <3>1, StatementTextsType
        <3>3. Upto(StatementTexts(d), 0) = <<>>
            BY <3>2, UptoStep
        <3>4. f = Len(<<>>)
            BY <1>2, <2>1, <3>3, Zenon
        <3> QED
            BY <3>4
    <2>2. ASSUME k = 0 PROVE g = 0
        BY <1>2, <2>2, Zenon DEF Low
    <2>3. ASSUME k = 0 PROVE FALSE
        BY <1>3, <2>1, <2>2, <2>3
    <2> QED
        BY <2>3
<1>7. PICK i, u, x, w : i = k - 1 /\ u = Len(Upto(StatementTexts(d), i)) /\ x = d.body[i + 1]
                        /\ w = WrittenStatement(x)
    OBVIOUS
<1>8. i \in Nat /\ i < m /\ i + 1 = k
    BY <1>3, <1>6, <1>7
<1>9. StatementIn(d, t, h, i, u, x, w)
    <2>1. StatementAt(d, i, u, x, w)
        BY <1>2, <1>7, <1>8, Zenon DEF StatementAt
    <2> QED
        BY <1>3, <1>4, <2>1, StatementRow
<1>10. PICK y, z : y = Len(w) /\ z = Begun(x)
    OBVIOUS
<1>11. u \in Nat /\ y \in Nat /\ z \in 1 .. y /\ f = u + y /\ g = u + z
    BY <1>2, <1>8, <1>9, <1>10, Zenon DEF StatementIn
<1>12. StatementPlaces(x, w) /\ \A j \in 1 .. y : t[h + u + j] = w[j]
    BY <1>9, <1>10, Zenon DEF StatementIn
<1>13. \A j \in z + 1 .. y : w[j] \in Inside
    BY <1>10, <1>12, Zenon DEF StatementPlaces
<1>14. PICK j : j = b + 1 - h - u
    OBVIOUS
<1>15. j \in z + 1 .. y /\ j \in 1 .. y /\ h + u + j = b + 0 + 1 /\ b + 0 + 1 <= l
    BY <1>3, <1>5, <1>11, <1>14
<1>16. At(0) \in Inside
    <2>1. b + 0 + 1 <= Len(t) => At(0) = t[b + 0 + 1]
        BY <1>4 DEF Sees
    <2>2. t[b + 0 + 1] = w[j]
        BY <1>12, <1>15, Zenon
    <2>3. w[j] \in Inside
        BY <1>13, <1>15
    <2> QED
        BY <1>2, <1>15, <2>1, <2>2, <2>3, Zenon
<1>17. Ordinary(At(0))
    BY <1>16, InsideOrdinary
<1>18. /\ InBodyLoop' /\ UNCHANGED <<func, doc>> /\ NoError
       /\ pos' = pos + 1 \/ pos' = pos + 0
    BY <1>4, <1>17, ReadsOver
<1>19. pos' > s + h + g /\ pos' <= s + h + f + 1
    BY <1>3, <1>5, <1>11, <1>18
<1>20. pos' > s + h + Low(d, k) /\ pos' <= s + h + Len(Upto(StatementTexts(d), k)) + 1
    BY <1>2, <1>19, Zenon
<1> QED
    BY <1>18, <1>20, MovesInBody

LEMMA LowType ==
    ASSUME NEW d, NEW t, NEW h \in Nat, FunctionParts(d), BodyPlaces(d, t, h), NEW k \in 0 .. Len(d.body)
    PROVE  Low(d, k) \in Nat
<1>1. PICK m, g : m = Len(d.body) /\ g = Low(d, k)
    OBVIOUS
<1>2. k \in 0 .. m /\ m \in Nat
    <2>1. d.body \in Seq(BodyPart)
        BY Zenon DEF FunctionParts
    <2> QED
        BY <1>1, <2>1
<1>3. CASE k = 0
    <2>1. Low(d, k) = 0
        BY <1>3, Zenon DEF Low
    <2> QED
        BY <2>1
<1>4. CASE k # 0
    <2>1. PICK i, v, y, z : i = k - 1 /\ v = Len(Upto(StatementTexts(d), i)) /\ y = d.body[i + 1]
                            /\ z = WrittenStatement(y)
        OBVIOUS
    <2>2. i \in Nat /\ i < m /\ i + 1 = k
        BY <1>2, <1>4, <2>1
    <2>3. StatementAt(d, i, v, y, z)
        BY <1>1, <2>1, <2>2, Zenon DEF StatementAt
    <2>4. StatementIn(d, t, h, i, v, y, z)
        BY <2>3, StatementRow
    <2>5. PICK e, o : e = Begun(y) /\ o = Len(z)
        OBVIOUS
    <2>6. g = v + e /\ v \in Nat /\ e \in 1 .. o /\ o \in Nat
        BY <1>1, <2>2, <2>4, <2>5, Zenon DEF StatementIn
    <2>7. g \in Nat
        BY <2>6
    <2> QED
        BY <1>1, <2>7, Zenon
<1> QED
    BY <1>3, <1>4

\* Before a statement, x, written w: the parser sees it and then no "=".
Unfinished(d, k) == k < Len(d.body)
SeesStatement(w) == (\A i \in Nat : i < Len(w) => At(i) = w[i + 1]) /\ At(Len(w)).value # "="
Before(d, t, b, k, h, u, x, w) ==
    /\ StatementAt(d, k, u, x, w) /\ StatementIn(d, t, h, k, u, x, w) /\ SeesStatement(w)
    /\ b = h + u /\ Low(d, k) <= u /\ Low(d, k) \in Nat

LEMMA StatementSeen ==
    ASSUME NEW d, NEW t, NEW h \in Nat, NEW b \in Nat, FunctionParts(d), BodyPlaces(d, t, h), Sees(t, b),
           NEW k, NEW u, NEW x, NEW w, StatementIn(d, t, h, k, u, x, w), b = h + u
    PROVE  SeesStatement(w)
<1>1. PICK l, m, v : l = Len(t) /\ m = Len(w) /\ v = Len(Upto(StatementTexts(d), k + 1))
    OBVIOUS
<1>2. u \in Nat /\ m \in Nat /\ v = u + m /\ \A j \in 1 .. m : t[h + u + j] = w[j]
    BY <1>1, Zenon DEF StatementIn
<1>3. h + v + 1 <= l /\ l \in Nat /\ t[h + v + 1].value # "="
    <2>1. k + 1 \in 0 .. Len(d.body)
        BY Zenon DEF StatementIn
    <2>2. Filled(d, k + 1, v)
        BY <1>1, Zenon DEF Filled
    <2>3. BodyNext(d, t, h, k + 1, v)
        BY <2>1, <2>2, StatementBegins
    <2> QED
        BY <1>1, <2>3, Zenon DEF BodyNext
<1>4. \A i \in Nat : b + i + 1 <= l => At(i) = t[b + i + 1]
    BY <1>1, Zenon DEF Sees
<1>5. ASSUME NEW i \in Nat, i < m PROVE At(i) = w[i + 1]
    <2>1. b + i + 1 <= l /\ b + i + 1 = h + u + (i + 1) /\ i + 1 \in 1 .. m
        BY <1>2, <1>3, <1>5
    <2>2. At(i) = t[b + i + 1]
        BY <1>4, <2>1
    <2>3. t[h + u + (i + 1)] = w[i + 1]
        BY <1>2, <2>1
    <2> QED
        BY <2>1, <2>2, <2>3, Zenon
<1>6. At(m).value # "="
    <2>1. b + m + 1 <= l /\ b + m + 1 = h + v + 1
        BY <1>2, <1>3
    <2>2. At(m) = t[b + m + 1]
        BY <1>2, <1>4, <2>1
    <2>3. At(m) = t[h + v + 1]
        BY <2>1, <2>2, Zenon
    <2> QED
        BY <1>3, <2>3, Zenon
<1> QED
    BY <1>1, <1>5, <1>6, Zenon DEF SeesStatement

LEMMA StatementBefore ==
    ASSUME NEW p, NEW n, NEW d, NEW t, NEW s, NEW b, NEW k, NEW h,
           BodyIs(p, n, d, t, s, b, k, h), Unfinished(d, k), Between(d, b, k, h)
    PROVE  \E u, x, w : Before(d, t, b, k, h, u, x, w)
<1>1. PICK u, x, w : u = Len(Upto(StatementTexts(d), k)) /\ x = d.body[k + 1] /\ w = WrittenStatement(x)
    OBVIOUS
<1>2. PICK g, m : g = Low(d, k) /\ m = Len(d.body)
    OBVIOUS
<1>3. /\ k \in 0 .. m /\ k < m /\ m \in Nat /\ h \in Nat /\ b \in Nat /\ b = h + u /\ s \in Nat
      /\ pos = s + b + 1 /\ pos > s + h + g
    BY <1>1, <1>2, Zenon DEF BodyIs, Unfinished, Between
<1>4. FunctionParts(d) /\ BodyPlaces(d, t, h) /\ Sees(t, b) /\ k \in 0 .. Len(d.body)
    BY Zenon DEF BodyIs
<1>5. StatementAt(d, k, u, x, w)
    <2>1. k \in Nat
        BY <1>3
    <2> QED
        BY <1>1, <1>2, <1>3, <2>1, Zenon DEF StatementAt
<1>6. StatementIn(d, t, h, k, u, x, w)
    BY <1>3, <1>4, <1>5, StatementRow
<1>7. SeesStatement(w)
    BY <1>3, <1>4, <1>6, StatementSeen
<1>8. u \in Nat
    BY <1>6, Zenon DEF StatementIn
<1>9. g \in Nat
    <2>1. Low(d, k) \in Nat
        BY <1>3, <1>4, LowType
    <2> QED
        BY <1>2, <2>1, Zenon
<1>10. g <= u
    BY <1>3, <1>8, <1>9
<1> QED
    BY <1>2, <1>3, <1>5, <1>6, <1>7, <1>9, <1>10, Zenon DEF Before

\* Behind the beginning of the next statement the parser is still in the body.
Added(d, k, x, y) ==
    IF x.kind = "local"
    THEN y = Append(locals, [function |-> d.name, name |-> x.variable.name, type |-> x.variable.type.value])
    ELSE y = locals

LEMMA LocalsAdded ==
    ASSUME NEW p, NEW n, NEW d, NEW t, NEW s, NEW b, NEW k, NEW h,
           BodyIs(p, n, d, t, s, b, k, h), NEW u, NEW x, NEW w, StatementAt(d, k, u, x, w),
           NEW y, Added(d, k, x, y)
    PROVE  y = Upto(LocalLists(p), n) \o Upto(LocalParts(d), k + 1)
<1>1. /\ p \in Seq(Declaration) /\ n \in Nat /\ n < Len(p) /\ FunctionParts(d)
      /\ locals = Upto(LocalLists(p), n) \o Upto(LocalParts(d), k)
    BY Zenon DEF BodyIs
<1>2. k \in Nat /\ k < Len(d.body) /\ x = d.body[k + 1]
    BY Zenon DEF StatementAt
<1>3. PICK e, f, g, r : /\ e = Upto(LocalLists(p), n) /\ f = Upto(LocalParts(d), k)
                        /\ g = Upto(LocalParts(d), k + 1)
                        /\ r = [function |-> d.name, name |-> x.variable.name, type |-> x.variable.type.value]
    OBVIOUS
<1>4. Joins(locals, e, f)
    BY <1>1, <1>3, Zenon DEF Joins
<1>5. f \in Seq(Local)
    <2>1. Upto(LocalParts(d), k) \in Seq(Local)
        BY <1>1, <1>2, LocalsOn
    <2> QED
        BY <1>3, <2>1, Zenon
<1>6. CASE x.kind # "local"
    <2>1. Upto(LocalParts(d), k + 1) = Upto(LocalParts(d), k)
        BY <1>1, <1>2, <1>6, LocalsOn
    <2> QED
        BY <1>1, <1>6, <2>1, Zenon DEF Added
<1>7. CASE x.kind = "local"
    <2>1. /\ [function |-> d.name, name |-> x.variable.name, type |-> x.variable.type.value] \in Local
          /\ IsAppend(Upto(LocalParts(d), k + 1), Upto(LocalParts(d), k),
                      [function |-> d.name, name |-> x.variable.name, type |-> x.variable.type.value])
        BY <1>1, <1>2, <1>7, LocalsOn
    <2>2. r \in Local /\ IsAppend(g, f, r) /\ IsAppend(y, locals, r)
        BY <1>3, <1>7, <2>1, Zenon DEF Added, IsAppend
    <2>3. e \in Seq(Local)
        <3>1. \A i \in 1 .. Len(p) : Locals(p[i]) \in Seq(Local)
            BY <1>1, LocalsType
        <3>2. LocalLists(p) = [i \in 1 .. Len(p) |-> Locals(p[i])] /\ Len(p) \in Nat
            BY <1>1 DEF LocalLists, Map
        <3>3. LocalLists(p) \in Seq(Seq(Local)) /\ Len(LocalLists(p)) = Len(p)
            BY <3>1, <3>2
        <3>4. n \in 0 .. Len(LocalLists(p))
            BY <1>1, <3>2, <3>3
        <3>5. Upto(LocalLists(p), n) \in Seq(Local)
            BY <3>3, <3>4, UptoType
        <3> QED
            BY <1>3, <3>5, Zenon
    <2>4. Joins(y, e, g)
        BY <1>4, <1>5, <2>2, <2>3, AppendBehind
    <2> QED
        BY <1>3, <2>4, Zenon DEF Joins
<1> QED
    BY <1>6, <1>7

LEMMA StatementBegun ==
    ASSUME NEW p, NEW n, NEW d, NEW t, NEW s, NEW b, NEW k, NEW h,
           BodyAt(p, n, d, t, s, b, k, h), BodyIs(p, n, d, t, s, b, k, h),
           NEW u, NEW x, NEW w, Before(d, t, b, k, h, u, x, w),
           InBodyLoop', UNCHANGED <<func, types, globals, functions>>, NoError,
           pos' = pos + Begun(x), Added(d, k, x, locals')
    PROVE  Reads(p)
<1>1. PICK f, g, y, z, m : /\ f = Len(Upto(StatementTexts(d), k + 1)) /\ g = Low(d, k + 1)
                           /\ y = Len(w) /\ z = Begun(x) /\ m = Len(d.body)
    OBVIOUS
<1>2. StatementAt(d, k, u, x, w) /\ StatementIn(d, t, h, k, u, x, w) /\ b = h + u
    BY Zenon DEF Before
<1>3. u \in Nat /\ y \in Nat /\ z \in 1 .. y /\ f = u + y /\ g = u + z /\ k \in Nat
    BY <1>1, <1>2, Zenon DEF StatementIn, StatementAt
<1>4. s \in Nat /\ b \in Nat /\ h \in Nat /\ pos = s + b + 1 /\ pos' = pos + z
    BY <1>1, Zenon DEF BodyIs
<1>5. pos' > s + h + g /\ pos' <= s + h + f + 1
    BY <1>2, <1>3, <1>4
<1>6. pos' > s + h + Low(d, k + 1) /\ pos' <= s + h + Len(Upto(StatementTexts(d), k + 1)) + 1
    BY <1>1, <1>5, Zenon
<1>7. k + 1 \in Nat /\ k + 1 \in 0 .. Len(d.body)
    <2>1. k + 1 \in 0 .. Len(d.body)
        BY <1>2, Zenon DEF StatementIn
    <2> QED
        BY <1>3, <2>1
<1>8. locals' = Upto(LocalLists(p), n) \o Upto(LocalParts(d), k + 1)
    BY <1>2, LocalsAdded
<1> QED
    BY <1>6, <1>7, <1>8, StaysInBody

\* What parseLocalVariable sees of a local, and what it does then.
LocalSeen(v, a) ==
    /\ At(0) = Word("local") /\ a \in {0, 1} /\ (Is(2, "array") <=> a = 1)
    /\ IsType(1) /\ At(1).value = v.type.value /\ IsName(a + 2) /\ At(a + 2).value = v.name
    /\ v.value = <<>> => ~Is(a + 3, "=")
    /\ v.value # <<>> => Is(a + 3, "=")

LEMMA LocalSees ==
    ASSUME NEW v, NEW a, NEW w, LocalPlaces(v, a, w), SeesStatement(w)
    PROVE  LocalSeen(v, a)
<1>1. PICK l, o : l = Len(w) /\ o = Len(v.value)
    OBVIOUS
<1>2. /\ a \in {0, 1} /\ o \in Nat /\ (v.value = <<>> => l = 3 + a) /\ (v.value # <<>> => l = 4 + a + o)
      /\ v.type \in TypeName /\ v.name \in NoWord /\ (a = 1 <=> v.array)
    BY <1>1, Zenon DEF LocalPlaces
<1>3. /\ w[1] = Word("local") /\ w[2] = v.type /\ (v.array => w[3] = Word("array")) /\ w[3 + a] = Name(v.name)
      /\ v.value # <<>> => w[4 + a] = Equals
    BY Zenon DEF LocalPlaces
<1>4. (\A i \in Nat : i < l => At(i) = w[i + 1]) /\ At(l).value # "="
    BY <1>1, Zenon DEF SeesStatement
<1>5. l \in Nat /\ l >= 3 + a /\ (l = 3 + a \/ l >= 4 + a)
    BY <1>2
<1>6. At(0) = w[1] /\ At(1) = w[2] /\ At(2) = w[3] /\ At(a + 2) = w[3 + a]
    <2>1. /\ 0 < l /\ 1 < l /\ 2 < l /\ a + 2 < l /\ a + 2 \in Nat
          /\ 0 + 1 = 1 /\ 1 + 1 = 2 /\ 2 + 1 = 3 /\ a + 2 + 1 = 3 + a
        BY <1>2, <1>5
    <2>2. At(0) = w[0 + 1] /\ At(1) = w[1 + 1] /\ At(2) = w[2 + 1] /\ At(a + 2) = w[a + 2 + 1]
        BY <1>4, <2>1
    <2> QED
        BY <2>1, <2>2
<1>7. v.type.value \in NoWord /\ v.type.kind \in {"identifier", "type"}
    BY <1>2, NamesTypes
<1>8. Is(2, "array") <=> a = 1
    <2>1. CASE a = 1
        BY <1>2, <1>3, <1>6, <2>1 DEF Is, Word
    <2>2. CASE a = 0
        <3>1. 3 + a = 3
            BY <2>2
        <3>2. At(2) = Name(v.name)
            BY <1>3, <1>6, <3>1
        <3> QED
            BY <1>2, <2>2, <3>2 DEF Is, Name, NoWord, Reserved, Keywords
    <2> QED
        BY <1>2, <2>1, <2>2
<1>9. IsType(1) /\ At(1).value = v.type.value
    BY <1>3, <1>6, <1>7 DEF IsType
<1>10. IsName(a + 2) /\ At(a + 2).value = v.name
    BY <1>3, <1>6 DEF IsName, Name
<1>11. ASSUME v.value = <<>> PROVE ~Is(a + 3, "=")
    <2>1. a + 3 = l
        BY <1>2, <1>11
    <2> QED
        BY <1>4, <2>1 DEF Is
<1>12. ASSUME v.value # <<>> PROVE Is(a + 3, "=")
    <2>1. a + 3 < l /\ a + 3 \in Nat /\ a + 3 + 1 = 4 + a
        BY <1>2, <1>12
    <2>2. At(a + 3) = w[a + 3 + 1]
        BY <1>4, <2>1
    <2>3. At(a + 3) = Equals
        BY <1>3, <1>12, <2>1, <2>2
    <2> QED
        BY <2>3 DEF Is, Equals
<1>13. At(0) = Word("local")
    BY <1>3, <1>6
<1> QED
    BY <1>2, <1>8, <1>9, <1>10, <1>11, <1>12, <1>13, Zenon DEF LocalSeen

LEMMA LocalVariableOf ==
    ASSUME LocalVariable, NEW v, NEW a, LocalSeen(v, a)
    PROVE  /\ locals' = Append(locals, [function |-> func.name, name |-> v.name, type |-> v.type.value])
           /\ Behind(a + 3) /\ UNCHANGED <<input, func, types, globals, functions, diagnostics>>
<1>1. a = IF Is(2, "array") THEN 1 ELSE 0
    BY DEF LocalSeen
<1>2. /\ locals' = Append(locals, [function |-> func.name, name |-> At(a + 2).value, type |-> At(1).value])
      /\ Behind(a + 3)
      /\ UNCHANGED <<input, func, types, globals, functions, diagnostics>>
    BY <1>1, Zenon DEF LocalVariable, LocalSeen
<1> QED
    BY <1>2, Zenon DEF LocalSeen

LEMMA LocalRead ==
    ASSUME NEW x, NEW v, NEW a, x.kind = "local", v = x.variable, a = One(v.array),
           LocalSeen(v, a), LocalVariable, pos \in Nat
    PROVE  /\ locals' = Append(locals, [function |-> func.name, name |-> v.name, type |-> v.type.value])
           /\ InBodyLoop' /\ UNCHANGED <<func, types, globals, functions>> /\ NoError
           /\ pos' = pos + Begun(x)
<1>1. /\ locals' = Append(locals, [function |-> func.name, name |-> v.name, type |-> v.type.value])
      /\ Behind(a + 3) /\ UNCHANGED <<input, func, types, globals, functions, diagnostics>>
    BY LocalVariableOf
<1>2. mode = "body" /\ a \in {0, 1}
    BY DEF LocalVariable, LocalSeen
<1>3. CASE v.value = <<>>
    <2>1. ~Is(a + 3, "=")
        BY <1>3, Zenon DEF LocalSeen
    <2>2. pos' = pos + (a + 3) /\ mode' = "body"
        BY <1>1, <1>2, <2>1 DEF Behind, Advance
    <2>3. Begun(x) = 3 + a + 0
        BY <1>3 DEF Begun, One
    <2>4. pos' = pos + Begun(x)
        BY <1>2, <2>2, <2>3
    <2> QED
        BY <1>1, <2>2, <2>4 DEF InBodyLoop, NoError
<1>4. CASE v.value # <<>>
    <2>1. Is(a + 3, "=")
        BY <1>4, Zenon DEF LocalSeen
    <2>2. pos' = pos + (a + 3 + 1) /\ mode' = "skip" /\ back' = "body"
        BY <1>1, <1>2, <2>1 DEF Behind, Advance
    <2>3. Begun(x) = 3 + a + 1
        BY <1>4 DEF Begun, One
    <2>4. pos' = pos + Begun(x)
        BY <1>2, <2>2, <2>3
    <2> QED
        BY <1>1, <2>2, <2>4 DEF InBodyLoop, NoError
<1> QED
    BY <1>3, <1>4

\* Between two statements.
LEMMA BodyBegins ==
    ASSUME TypeOK, NEW p, Correct(p), NEW n, NEW d, NEW t, NEW s, NEW b, NEW k, NEW h,
           BodyAt(p, n, d, t, s, b, k, h), Unfinished(d, k), Between(d, b, k, h), Next
    PROVE  Reads(p)
<1>1. BodyIs(p, n, d, t, s, b, k, h)
    BY BodyPlace
<1>2. PICK u, x, w : Before(d, t, b, k, h, u, x, w)
    BY <1>1, StatementBefore
<1>3. /\ x \in BodyPart /\ StatementPlaces(x, w) /\ SeesStatement(w) /\ w = WrittenStatement(x)
      /\ Begun(x) \in 1 .. Len(w) /\ Len(w) \in Nat
    BY <1>2, Zenon DEF Before, StatementIn, StatementAt
<1>4. At(0) = w[1]
    <2>1. PICK l : l = Len(w)
        OBVIOUS
    <2>2. Begun(x) \in 1 .. l /\ l \in Nat /\ \A i \in Nat : i < l => At(i) = w[i + 1]
        BY <1>3, <2>1, Zenon DEF SeesStatement
    <2>3. 0 < l /\ 0 + 1 = 1
        BY <2>2
    <2>4. At(0) = w[0 + 1]
        BY <2>2, <2>3
    <2> QED
        BY <2>3, <2>4
<1>5. PICK g, f : g = Low(d, k) /\ f = Len(Upto(StatementTexts(d), k))
    OBVIOUS
<1>6. /\ s \in Nat /\ b \in Nat /\ h \in Nat /\ pos = s + b + 1 /\ pos > s + h + g
      /\ pos <= s + h + f + 1 /\ InBodyLoop
    BY <1>1, <1>5, Zenon DEF BodyIs
<1>7. ASSUME pos' = pos + 0 PROVE pos' > s + h + Low(d, k) /\ pos' <= s + h + Len(Upto(StatementTexts(d), k)) + 1
    <2>1. pos' = pos
        BY <1>6, <1>7
    <2> QED
        BY <1>5, <1>6, <2>1, Zenon
<1>8. CASE x.kind # "local"
    <2>1. At(0) \in Inside /\ Begun(x) = 1
        BY <1>3, <1>4, <1>8, Zenon DEF StatementPlaces
    <2>2. Ordinary(At(0))
        BY <2>1, InsideOrdinary
    <2>3. /\ InBodyLoop' /\ UNCHANGED <<func, doc>> /\ NoError
          /\ pos' = pos + 1 \/ pos' = pos + 0
        BY <1>6, <2>2, ReadsOver
    <2>4. CASE pos' = pos + 0
        BY <1>7, <2>3, <2>4, MovesInBody
    <2>5. CASE pos' = pos + 1
        <3>1. pos' = pos + Begun(x)
            BY <2>1, <2>5, Zenon
        <3>2. UNCHANGED <<func, types, globals, functions>> /\ UNCHANGED locals
            BY <2>3, Zenon DEF doc
        <3>3. Added(d, k, x, locals')
            BY <1>8, <3>2, Zenon DEF Added
        <3> QED
            BY <1>1, <1>2, <2>3, <3>1, <3>2, <3>3, StatementBegun
    <2> QED
        BY <2>3, <2>4, <2>5
<1>9. CASE x.kind = "local"
    <2>1. PICK v, a : v = x.variable /\ a = One(v.array)
        OBVIOUS
    <2>2. LocalPlaces(v, a, w)
        <3>1. IsLocal(x, v, a, w)
            BY <1>3, <1>9, <2>1, Zenon DEF IsLocal
        <3> QED
            BY <1>3, <3>1, LocalWritten
    <2>3. LocalSeen(v, a)
        BY <1>3, <2>2, LocalSees
    <2>4. At(0) = Word("local")
        BY <2>3, Zenon DEF LocalSeen
    <2>5. CASE mode = "body"
        <3>1. ~Ended /\ Is(0, "local") /\ ~Is(0, "endfunction")
            BY <2>4 DEF Ended, Is, Word
        <3>2. LocalVariable
            BY <2>5, <3>1, BodySteps DEF EndFunction, Statement
        <3>3. /\ locals' = Append(locals, [function |-> func.name, name |-> v.name, type |-> v.type.value])
              /\ InBodyLoop' /\ UNCHANGED <<func, types, globals, functions>> /\ NoError
              /\ pos' = pos + Begun(x)
            <4>1. pos \in Nat
                BY <1>6
            <4> QED
                BY <1>9, <2>1, <2>3, <3>2, <4>1, LocalRead
        <3>4. func.name = d.name
            <4>1. func = Signed(d, ParamRecords(d, Len(d.params)), d.returns.value)
                BY <1>1, Zenon DEF BodyIs
            <4> QED
                BY <4>1 DEF Signed
        <3>5. Added(d, k, x, locals')
            BY <1>9, <2>1, <3>3, <3>4, Zenon DEF Added
        <3> QED
            BY <1>1, <1>2, <3>3, <3>5, StatementBegun
    <2>6. CASE mode = "skip" /\ back = "body"
        <3>1. InBodyLoop' /\ UNCHANGED <<func, doc>> /\ NoError /\ pos' = pos + 0
            BY <2>4, <2>6, StopsBefore
        <3>2. pos' > s + h + Low(d, k) /\ pos' <= s + h + Len(Upto(StatementTexts(d), k)) + 1
            BY <1>7, <3>1
        <3> QED
            BY <3>1, <3>2, MovesInBody
    <2> QED
        BY <1>6, <2>5, <2>6, Zenon DEF InBodyLoop
<1> QED
    BY <1>8, <1>9

\* All of the body.
LEMMA BodyRead ==
    ASSUME TypeOK, NEW p, Correct(p), NEW n, NEW d, NEW t, NEW s, NEW b, Placed(p, n, d, t, s, b),
           NEW k, InBody(p, n, d, k), Next
    PROVE  Reads(p)
<1>1. PICK h : h = Bodied(d)
    OBVIOUS
<1>2. BodyAt(p, n, d, t, s, b, k, h)
    BY <1>1, Zenon DEF BodyAt
<1>3. BodyIs(p, n, d, t, s, b, k, h)
    BY <1>2, BodyPlace
<1>4. PICK f, m : f = Len(Upto(StatementTexts(d), k)) /\ m = Len(d.body)
    OBVIOUS
<1>5. /\ k \in 0 .. m /\ m \in Nat /\ s \in Nat /\ b \in Nat /\ h \in Nat /\ pos = s + b + 1
      /\ pos <= s + h + f + 1 /\ FunctionParts(d) /\ BodyPlaces(d, t, h) /\ k \in 0 .. Len(d.body)
    BY <1>3, <1>4, Zenon DEF BodyIs
<1>6. f \in Nat
    <2>1. Filled(d, k, f)
        BY <1>4, Zenon DEF Filled
    <2>2. BodyNext(d, t, h, k, f)
        BY <1>5, <2>1, StatementBegins
    <2> QED
        BY <2>2, Zenon DEF BodyNext
<1>7. (b = h + f \/ b < h + f) /\ (k = m \/ k < m)
    BY <1>5, <1>6
<1>8. (Between(d, b, k, h) \/ Amid(d, b, k, h)) /\ (AllBehind(d, k) \/ Unfinished(d, k))
    BY <1>4, <1>7, Zenon DEF Between, Amid, AllBehind, Unfinished
<1> QED
    BY <1>2, <1>8, BodyEnds, BodyGoesOn, BodyBegins

-----------------------------------------------------------------------------
(***************************************************************************)
(* Every step of the parser reads what is written                          *)
(***************************************************************************)

LEMMA BlockRead ==
    ASSUME TypeOK, NEW p, Correct(p), NEW n, NEW d, NEW t, NEW s, NEW b, Placed(p, n, d, t, s, b),
           NEW k, InGlobals(p, n, d, k), Next
    PROVE  Reads(p)
<1>1. PICK m : m = Len(d.variables)
    OBVIOUS
<1>2. d \in Declaration
    BY Ahead
<1>3. k \in 0 .. m /\ d.kind = "globals"
    BY <1>1, Zenon DEF InGlobals
<1>4. m \in Nat
    BY <1>1, <1>2, <1>3, GlobalRecordsType
<1>5. k = m \/ k < m
    BY <1>3, <1>4
<1>6. CASE k = m
    <2>1. InGlobals(p, n, d, Len(d.variables))
        BY <1>1, <1>6, Zenon
    <2> QED
        BY <2>1, GlobalsEnd
<1>7. CASE k < m
    <2>1. k < Len(d.variables)
        BY <1>1, <1>7, Zenon
    <2> QED
        BY <2>1, GlobalsGoOn
<1> QED
    BY <1>5, <1>6, <1>7

\* Within a declaration the parser is behind its beginning.
Opened(p, n, d, s) == d \in Declaration /\ s = Start(p, n) /\ s \in Nat
BehindBeginning(s) == \E b \in Nat : pos = s + b + 1

LEMMA DeclarationBegun ==
    ASSUME TypeOK, NEW p, NEW n, NEW d, NEW s, Opened(p, n, d, s), InDeclaration(p, n, d)
    PROVE  BehindBeginning(s)
<1>0. d \in Declaration /\ s = Start(p, n) /\ s \in Nat
    BY Zenon DEF Opened
<1>1. ASSUME NEW k, InGlobals(p, n, d, k) PROVE \E b \in Nat : pos = s + b + 1
    <2>1. PICK u, t, m : u = Len(Upto(VariableTexts(d), k)) /\ t = Written(d) /\ m = Len(d.variables)
        OBVIOUS
    <2>2. pos = s + u + 2 /\ k \in 0 .. m /\ d.kind = "globals"
        BY <1>0, <1>1, <2>1, Zenon DEF InGlobals
    <2>3. GlobalsPlaces(d, t)
        BY <1>0, <2>1, <2>2, GlobalsWritten
    <2>4. m \in Nat
        BY <1>0, <2>1, <2>2, GlobalRecordsType
    <2>5. k \in Nat /\ (k = m \/ k < m)
        BY <2>2, <2>4
    <2>6. u \in Nat
        BY <2>1, <2>3, <2>5, Zenon DEF GlobalsPlaces
    <2>7. u + 1 \in Nat /\ pos = s + (u + 1) + 1
        BY <1>0, <2>2, <2>6
    <2> QED
        BY <2>7
<1>2. ASSUME NEW c, NEW q, NEW ps, IsHead(d, c, q, ps), d.kind = "function"
      PROVE  FunctionParts(d) /\ c = One(d.constant) /\ c \in {0, 1} /\ q \in Nat /\ Bodied(d) = c + q + 5
             /\ ParamPlaces(d, ps)
    <2>1. PICK t : t = Written(d)
        OBVIOUS
    <2>2. /\ FunctionParts(d) /\ HeadPlaces(d, t, c, q) /\ ParamPlaces(d, ps)
          /\ ~d.native => BodyPlaces(d, t, c + q + 5)
          /\ c \in {0, 1} /\ q \in Nat /\ ps \in Seq(Token) /\ Bodied(d) = c + q + 5 /\ Len(t) \in Nat
          /\ \A j \in 1 .. q : t[c + 3 + j] = ps[j]
        BY <1>0, <1>2, <2>1, HeadAt
    <2> QED
        BY <1>2, <2>2, Zenon DEF IsHead
<1>3. PICK c, q, ps : IsHead(d, c, q, ps)
    BY DEF IsHead
<1>4. CASE InSignature(p, n, d)
    <2>1. d.kind = "function" /\ pos = s + One(d.constant) + 2
        BY <1>0, <1>4, Zenon DEF InSignature, InFunction
    <2>2. c \in {0, 1} /\ pos = s + c + 2
        BY <1>2, <1>3, <2>1, Zenon
    <2>3. c + 1 \in Nat /\ pos = s + (c + 1) + 1
        BY <1>0, <2>2
    <2> QED
        BY <2>3 DEF BehindBeginning
<1>5. ASSUME NEW k, InParams(p, n, d, k) PROVE \E b \in Nat : pos = s + b + 1
    <2>1. PICK u, o : u = Len(Upto(ParamTexts(d), k)) /\ o = One(k > 0)
        OBVIOUS
    <2>2. /\ d.kind = "function" /\ pos = s + One(d.constant) + 3 + u + o + 1
          /\ k \in Nat /\ k < Len(d.params)
        BY <1>0, <1>5, <2>1, Zenon DEF InParams, InFunction
    <2>3. c \in {0, 1} /\ pos = s + c + 3 + u + o + 1 /\ ParamPlaces(d, ps)
        BY <1>2, <1>3, <2>2, Zenon
    <2>4. u \in Nat
        BY <2>1, <2>2, <2>3, Zenon DEF ParamPlaces
    <2>5. o \in {0, 1}
        BY <2>1 DEF One
    <2>6. c + 3 + u + o \in Nat /\ pos = s + (c + 3 + u + o) + 1
        BY <1>0, <2>3, <2>4, <2>5
    <2> QED
        BY <2>6
<1>6. CASE InReturns(p, n, d)
    <2>1. d.kind = "function" /\ pos = s + Bodied(d) - 1
        BY <1>0, <1>6, Zenon DEF InReturns, InFunction
    <2>2. c \in {0, 1} /\ q \in Nat /\ pos = s + (c + q + 5) - 1
        BY <1>2, <1>3, <2>1, Zenon
    <2>3. c + q + 3 \in Nat /\ pos = s + (c + q + 3) + 1
        BY <1>0, <2>2
    <2> QED
        BY <2>3 DEF BehindBeginning
<1>7. ASSUME NEW k, InBody(p, n, d, k) PROVE \E b \in Nat : pos = s + b + 1
    <2>1. PICK g, h, t : g = Low(d, k) /\ h = Bodied(d) /\ t = Written(d)
        OBVIOUS
    <2>2. /\ d.kind = "function" /\ ~d.native /\ pos > s + h + g /\ k \in 0 .. Len(d.body)
        BY <1>0, <1>7, <2>1, Zenon DEF InBody, InFunction
    <2>3. /\ FunctionParts(d) /\ HeadPlaces(d, t, c, q) /\ ParamPlaces(d, ps)
          /\ ~d.native => BodyPlaces(d, t, c + q + 5)
          /\ c \in {0, 1} /\ q \in Nat /\ ps \in Seq(Token) /\ Bodied(d) = c + q + 5 /\ Len(t) \in Nat
          /\ \A j \in 1 .. q : t[c + 3 + j] = ps[j]
        BY <1>0, <1>3, <2>1, <2>2, HeadAt
    <2>4. BodyPlaces(d, t, h) /\ c \in {0, 1} /\ q \in Nat /\ h = c + q + 5 /\ FunctionParts(d)
        BY <2>1, <2>2, <2>3, Zenon
    <2>5. h \in Nat
        BY <2>4
    <2>6. Low(d, k) \in Nat
        BY <2>2, <2>4, <2>5, LowType
    <2>7. g \in Nat
        BY <2>1, <2>6, Zenon
    <2>8. pos \in Nat
        BY DEF TypeOK
    <2>9. pos - s - 1 \in Nat /\ pos = s + (pos - s - 1) + 1
        BY <1>0, <2>2, <2>5, <2>7, <2>8
    <2> QED
        BY <2>9
<1> QED
    BY <1>1, <1>4, <1>5, <1>6, <1>7, Zenon DEF InDeclaration, BehindBeginning

LEMMA DeclarationRead ==
    ASSUME TypeOK, NEW p, Correct(p), NEW n \in Nat, n < Len(p), NEW d, d = p[n + 1],
           InDeclaration(p, n, d), Next
    PROVE  Reads(p)
<1>1. PICK s, t : s = Start(p, n) /\ t = Written(d)
    OBVIOUS
<1>2. d \in Declaration /\ s \in Nat
    BY <1>1, DeclaredAt
<1>3. PICK b \in Nat : pos = s + b + 1
    <2>1. Opened(p, n, d, s)
        BY <1>1, <1>2, Zenon DEF Opened
    <2>2. BehindBeginning(s)
        BY <2>1, DeclarationBegun
    <2> QED
        BY <2>2, Zenon DEF BehindBeginning
<1>4. Placed(p, n, d, t, s, b)
    BY <1>1, <1>3, Zenon DEF Placed
<1> QED
    BY <1>4, BlockRead, SignatureRead, ParamRead, ReturnsRead, BodyRead, Zenon DEF InDeclaration

LEMMA TopRead ==
    ASSUME TypeOK, NEW p, Correct(p), NEW n \in 0 .. Len(p), InTop(p, n), Next
    PROVE  Reads(p)
<1>1. p \in Seq(Declaration)
    BY ProgramText DEF Correct
<1>2. n \in Nat /\ (n = Len(p) \/ n < Len(p))
    BY <1>1
<1>3. CASE n = Len(p)
    <2>1. InTop(p, Len(p))
        BY <1>3, Zenon
    <2> QED
        BY <2>1, TopEnds
<1>4. CASE n < Len(p)
    <2>1. PICK d, t, s : d = p[n + 1] /\ t = Written(d) /\ s = Start(p, n)
        OBVIOUS
    <2>2. d \in Declaration /\ s \in Nat
        BY <1>2, <1>4, <2>1, DeclaredAt
    <2>3. pos = s + 0 + 1
        <3>1. pos = s + 1
            BY <2>1, Zenon DEF InTop
        <3> QED
            BY <2>2, <3>1
    <2>4. Placed(p, n, d, t, s, 0)
        <3>1. 0 \in Nat
            OBVIOUS
        <3> QED
            BY <1>2, <1>4, <2>1, <2>3, <3>1, Zenon DEF Placed
    <2>5. d.kind = "type" \/ d.kind = "globals" \/ d.kind = "function"
        BY <2>2, Kinds
    <2> QED
        BY <2>4, <2>5, TopTypes, TopGlobals, TopFunction
<1> QED
    BY <1>2, <1>3, <1>4

LEMMA NextReads ==
    ASSUME TypeOK, NEW p, Correct(p), Reading(p), Next
    PROVE  Reads(p)
<1>1. ASSUME NEW n \in 0 .. Len(p), InTop(p, n) PROVE Reads(p)
    BY <1>1, TopRead
<1>2. ASSUME mode = "done" PROVE FALSE
    BY <1>2 DEF Next, Finish, Unknown, TypeDecl, GlobalsBlock, FunctionDecl, EndGlobals, GlobalVariable,
                SignatureHead, Param, Returns, EndFunction, Statement, LocalVariable, SkipExpression
<1>3. ASSUME NEW n \in Nat, n < Len(p), InDeclaration(p, n, p[n + 1]) PROVE Reads(p)
    <2>1. PICK d : d = p[n + 1]
        OBVIOUS
    <2>2. InDeclaration(p, n, d)
        BY <1>3, <2>1, Zenon
    <2> QED
        BY <1>3, <2>1, <2>2, DeclarationRead
<1> QED
    BY <1>1, <1>2, <1>3, Zenon DEF Reading

-----------------------------------------------------------------------------
(***************************************************************************)
(* What the parser has of a correct program is what is declared up to      *)
(* where it is, at every place where it can be, and nothing is reported    *)
(***************************************************************************)

Given == program # Nil => program \in Program /\ text = WrittenProgram(program)
ReadInv ==
    /\ Given
    /\ program # Nil /\ Plain => Reading(program) /\ diagnostics = <<>>

LEMMA NextGiven ==
    ASSUME Next PROVE UNCHANGED input
BY DEF Next, Finish, Unknown, TypeDecl, GlobalsBlock, FunctionDecl, EndGlobals, GlobalVariable,
       SignatureHead, Param, Returns, EndFunction, Statement, LocalVariable, SkipExpression

LEMMA InitReads ==
    Init => ReadInv
<1> SUFFICES ASSUME Init PROVE ReadInv
    OBVIOUS
<1>1. Given
    BY ParserAssumption DEF Init, Given, ParserAssumption
<1>2. ASSUME program # Nil PROVE Reading(program)
    <2>1. PICK p : p = program
        OBVIOUS
    <2>2. p \in Program
        BY <1>1, <1>2, <2>1, Zenon DEF Given
    <2>3. p \in Seq(Declaration)
        BY <2>2, ProgramText
    <2>4. Len(p) \in Nat /\ DOMAIN p = 1 .. Len(p) /\ 0 \in 0 .. Len(p)
        BY <2>3
    <2>5. AllRead(p, 0)
        <3>1. types = <<>> /\ globals = <<>> /\ functions = <<>> /\ locals = <<>>
            BY DEF Init
        <3> QED
            BY <2>4, <3>1, ListsStart, Zenon DEF AllRead, TypesRead, GlobalsRead, FunctionsRead, LocalsRead
    <2>6. pos = Start(p, 0) + 1
        <3>1. Len(Texts(p)) \in Nat
            BY <2>3, TextsType
        <3>2. Upto(Texts(p), 0) = <<>>
            BY <3>1, UptoStep
        <3>3. Start(p, 0) = Len(<<>>)
            BY <3>2, Zenon DEF Start
        <3>4. pos = 1
            BY DEF Init
        <3> QED
            BY <3>3, <3>4
    <2>7. InTop(p, 0)
        <3>1. mode = "top"
            BY DEF Init
        <3> QED
            BY <2>5, <2>6, <3>1, Zenon DEF InTop
    <2>8. Reading(p)
        BY <2>4, <2>7, Zenon DEF Reading
    <2> QED
        BY <2>1, <2>8, Zenon
<1>3. diagnostics = <<>>
    BY DEF Init
<1> QED
    BY <1>1, <1>2, <1>3, Zenon DEF ReadInv

LEMMA ReadingStays ==
    ASSUME NEW p, Reading(p), UNCHANGED vars
    PROVE  Reading(p)'
BY ZenonT(30) DEF vars, input, skipping, doc, Reading, InTop, AllRead, TypesRead, GlobalsRead, FunctionsRead, LocalsRead,
          Done, InDeclaration, InGlobals, InFunction, InSignature, InParams, InReturns, InBody

LEMMA StepReads ==
    TypeOK /\ ReadInv /\ [Next]_vars => ReadInv'
<1> SUFFICES ASSUME TypeOK, ReadInv, [Next]_vars PROVE ReadInv'
    OBVIOUS
<1>1. UNCHANGED input
    BY NextGiven DEF vars
<1>2. program' = program /\ text' = text /\ Given'
    BY <1>1, Zenon DEF input, ReadInv, Given
<1>3. ASSUME program' # Nil, Plain' PROVE Reading(program)' /\ diagnostics' = <<>>
    <2>1. PICK p : p = program
        OBVIOUS
    <2>2. Plain
        BY <1>2, <1>3, Zenon DEF Plain
    <2>3. Correct(p)
        BY <1>2, <1>3, <2>1, <2>2, Zenon DEF ReadInv, Given, Correct
    <2>4. Reading(p) /\ diagnostics = <<>>
        BY <1>2, <1>3, <2>1, <2>2, Zenon DEF ReadInv
    <2>5. Reading(p)' /\ UNCHANGED diagnostics
        <3>1. CASE Next
            BY <2>3, <2>4, <3>1, NextReads DEF Reads, NoError
        <3>2. CASE UNCHANGED vars
            BY <2>4, <3>2, ReadingStays DEF vars
        <3> QED
            BY <3>1, <3>2
    <2> QED
        BY <1>2, <2>1, <2>4, <2>5, Zenon DEF Reading
<1> QED
    BY <1>2, <1>3, Zenon DEF ReadInv

LEMMA ReadFaithful ==
    ReadInv => Faithful
<1> SUFFICES ASSUME ReadInv, mode = "done", program # Nil, Plain
             PROVE  /\ types = All(Types) /\ globals = All(Globals)
                    /\ functions = All(Functions) /\ locals = All(Locals)
                    /\ diagnostics = <<>>
    BY Zenon DEF Faithful
<1>1. Reading(program) /\ diagnostics = <<>>
    BY Zenon DEF ReadInv
<1>2. Done(program)
    <2>1. ~\E n \in 0 .. Len(program) : InTop(program, n)
        BY DEF InTop
    <2>2. \A n : ~InDeclaration(program, n, program[n + 1])
        BY DEF InDeclaration, InGlobals, InSignature, InParams, InReturns, InBody
    <2> QED
        BY <1>1, <2>1, <2>2, Zenon DEF Reading
<1> QED
    BY <1>1, <1>2, Zenon DEF Done, All, TypeLists, GlobalLists, FunctionLists, LocalLists

\* A correct program without initialised globals parses to what it declares, and
\* gets no diagnostics (Parser::parse).
THEOREM ParsesFaithfully ==
    Spec => []Faithful
<1>1. Init => ReadInv
    BY InitReads
<1>2. TypeOK /\ ReadInv /\ [Next]_vars => ReadInv'
    BY StepReads
<1>3. ReadInv => Faithful
    BY ReadFaithful
<1>4. Spec => []TypeOK
    BY TypeCorrect
<1> QED
    BY <1>1, <1>2, <1>3, <1>4, PTL DEF Spec
=============================================================================
