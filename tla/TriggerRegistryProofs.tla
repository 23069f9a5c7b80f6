------------------------ MODULE TriggerRegistryProofs ------------------------
(***************************************************************************)
(* Whatever the heap a session starts with and whatever the calls, the     *)
(* trigger tree stays one: no pointer that leads nowhere, nothing with two *)
(* owners, no index of the cache without a trigger but for those the user  *)
(* has removed (TriggerRegistry).                                          *)
(*                                                                         *)
(* The invariant (Inv) has the tree in parts that hold even after a call   *)
(* has gone astray.  What an address points to has the right kind as long  *)
(* as it is there (Linked), parameters are never shared (OwnParams), and   *)
(* folders and triggers keep lists of their own (Whole, OwnKids); an ECA   *)
(* keeps its own only while no call copied one with its children, and a    *)
(* folder all its children only while no listed trigger was freed.  That   *)
(* the folders are a tree below the root (Folded) is what makes a          *)
(* traversal visit no node twice.                                          *)
(*                                                                         *)
(* A call is taken apart into cells that are added, a list that is linked  *)
(* and cells that are freed (Added, Relinked, Freed); each keeps the tree  *)
(* for a reason of its own.                                                *)
(*                                                                         *)
(* The recursive functions of the model are unfolded by induction on a     *)
(* set: a set of numbers that has 0 and, with each, the next, has all.     *)
(***************************************************************************)
EXTENDS TriggerRegistry, FiniteSetTheorems, SequenceTheorems, WellFoundedInduction, TLAPS

-----------------------------------------------------------------------------
(***************************************************************************)
(* Induction                                                               *)
(***************************************************************************)

\* A set of numbers has a least element.
LEMMA LeastElement ==
    ASSUME NEW T, T \subseteq Nat, T # {}
    PROVE  \E m \in T : \A k \in T : ~ (k < m)
<1> DEFINE R == {ss \in Nat \X Nat : ss[1] < ss[2]}
<1>1. IsWellFoundedOn(R, Nat)
    BY NatLessThanWellFounded, Zenon DEF OpToRel
<1> HIDE DEF R
<1>2. PICK m \in T : \A k \in T : ~ (<<k, m>> \in R)
    BY <1>1, WFMin
<1>3. \A k \in T : k < m => <<k, m>> \in R
    BY DEF R
<1> QED
    BY <1>2, <1>3

\* Induction on numbers, with the set of those that are good.
LEMMA NatInd ==
    ASSUME NEW G, 0 \in G, \A n \in Nat : n \in G => n + 1 \in G
    PROVE  Nat \subseteq G
<1> SUFFICES ASSUME Nat \ G # {} PROVE FALSE
    OBVIOUS
<1>1. PICK m \in Nat \ G : \A k \in Nat \ G : ~ (k < m)
    BY LeastElement
<1>2. m # 0 /\ m - 1 \in Nat /\ m - 1 < m
    BY <1>1
<1>3. m - 1 \in G
    BY <1>1, <1>2
<1> QED
    BY <1>1, <1>2, <1>3

\* What holds of the empty sequence and of a sequence with one more element
\* holds of each.
LEMMA SeqInd ==
    ASSUME NEW T, NEW G, <<>> \in G, \A s \in Seq(T), x \in T : s \in G => Append(s, x) \in G
    PROVE  Seq(T) \subseteq G
<1> DEFINE N == {n \in Nat : \A s \in Seq(T) : Len(s) = n => s \in G}
<1>1. 0 \in N
    <2>1. \A s \in Seq(T) : Len(s) = 0 => s = <<>>
        OBVIOUS
    <2> QED
        BY <2>1
<1>2. ASSUME NEW n \in Nat, n \in N PROVE n + 1 \in N
    <2> SUFFICES ASSUME NEW s \in Seq(T), Len(s) = n + 1 PROVE s \in G
        OBVIOUS
    <2> DEFINE r == SubSeq(s, 1, n)
    <2>1. r \in Seq(T) /\ Len(r) = n /\ s[n + 1] \in T /\ s = Append(r, s[n + 1])
        OBVIOUS
    <2>2. r \in G
        BY <1>2, <2>1
    <2> HIDE DEF r
    <2> QED
        BY <2>1, <2>2
<1> HIDE DEF N
<1>3. Nat \subseteq N
    BY <1>1, <1>2, NatInd
<1> QED
    BY <1>3 DEF N

-----------------------------------------------------------------------------
(***************************************************************************)
(* Sequences                                                               *)
(***************************************************************************)

\* Among as a function: what is kept of the first elements.
Kept(v, x, S) == IF x \in S THEN Append(v, x) ELSE v
IsAmong(f, s, S, n) == f = [i \in 0 .. n |-> IF i = 0 THEN <<>> ELSE Kept(f[i - 1], s[i], S)]

\* The function that Among chooses exists.
LEMMA AmongExists ==
    ASSUME NEW s, NEW S, NEW n \in Nat
    PROVE  \E f : IsAmong(f, s, S, n)
<1> DEFINE G == {k \in Nat : \E f : IsAmong(f, s, S, k)}
<1>1. 0 \in G
    <2> DEFINE f == [i \in 0 .. 0 |-> <<>>]
    <2>1. IsAmong(f, s, S, 0)
        BY DEF IsAmong
    <2> QED
        BY <2>1
<1>2. ASSUME NEW k \in Nat, k \in G PROVE k + 1 \in G
    <2>1. PICK f : IsAmong(f, s, S, k)
        BY <1>2
    <2> DEFINE g == [i \in 0 .. k + 1 |-> IF i <= k THEN f[i] ELSE Kept(f[k], s[i], S)]
    <2>2. \A i \in 0 .. k : g[i] = f[i] /\ f[i] = IF i = 0 THEN <<>> ELSE Kept(f[i - 1], s[i], S)
        BY <2>1 DEF IsAmong
    <2>3. \A i \in 0 .. k + 1 : g[i] = IF i = 0 THEN <<>> ELSE Kept(g[i - 1], s[i], S)
        <3> TAKE i \in 0 .. k + 1
        <3>1. CASE i = 0
            <4>1. i \in 0 .. k
                BY <3>1
            <4>2. g[i] = f[i] /\ f[i] = <<>>
                BY <2>2, <3>1, <4>1
            <4> QED
                BY <3>1, <4>2
        <3>2. CASE i \in 1 .. k
            <4>1. i - 1 \in 0 .. k /\ i \in 0 .. k
                BY <3>2
            <4> QED
                BY <2>2, <3>2, <4>1
        <3>3. CASE i = k + 1
            <4>1. g[i] = Kept(f[k], s[i], S) /\ k \in 0 .. k /\ i - 1 = k
                BY <3>3
            <4> QED
                BY <2>2, <3>3, <4>1
        <3> QED
            BY <3>1, <3>2, <3>3
    <2>4. IsAmong(g, s, S, k + 1)
        BY <2>3 DEF IsAmong
    <2> QED
        BY <2>4
<1> HIDE DEF G
<1>3. Nat \subseteq G
    BY <1>1, <1>2, NatInd
<1> QED
    BY <1>3 DEF G

\* Among is the last value of that function.
LEMMA AmongUnfold ==
    ASSUME NEW s, NEW S, Len(s) \in Nat
    PROVE  \E f : IsAmong(f, s, S, Len(s)) /\ Among(s, S) = f[Len(s)]
<1> DEFINE f == CHOOSE f : f = [i \in 0 .. Len(s) |->
                    IF i = 0 THEN <<>>
                    ELSE IF s[i] \in S THEN Append(f[i - 1], s[i]) ELSE f[i - 1]]
<1>1. Among(s, S) = f[Len(s)]
    BY DEF Among
<1>2. \E g : g = [i \in 0 .. Len(s) |->
                    IF i = 0 THEN <<>>
                    ELSE IF s[i] \in S THEN Append(g[i - 1], s[i]) ELSE g[i - 1]]
    <2>1. PICK g : IsAmong(g, s, S, Len(s))
        BY AmongExists
    <2>2. g = [i \in 0 .. Len(s) |->
                    IF i = 0 THEN <<>>
                    ELSE IF s[i] \in S THEN Append(g[i - 1], s[i]) ELSE g[i - 1]]
        BY <2>1 DEF IsAmong, Kept
    <2> QED
        BY <2>2
<1>3. f = [i \in 0 .. Len(s) |->
                    IF i = 0 THEN <<>>
                    ELSE IF s[i] \in S THEN Append(f[i - 1], s[i]) ELSE f[i - 1]]
    BY <1>2
<1> HIDE DEF f
<1>4. IsAmong(f, s, S, Len(s))
    BY <1>3 DEF IsAmong, Kept
<1> QED
    BY <1>1, <1>4

\* The elements of a sequence.
LEMMA ToSetOf ==
    ASSUME NEW T, NEW s \in Seq(T)
    PROVE  ToSet(s) \subseteq T /\ \A y : y \in ToSet(s) <=> \E i \in 1 .. Len(s) : y = s[i]
BY DEF ToSet

\* What an appended element adds.
LEMMA ToSetAppend ==
    ASSUME NEW T, NEW s \in Seq(T), NEW x \in T
    PROVE  ToSet(Append(s, x)) = ToSet(s) \cup {x}
<1> DEFINE r == Append(s, x)
<1>1. r \in Seq(T) /\ Len(r) = Len(s) + 1 /\ r[Len(s) + 1] = x /\ Len(s) \in Nat
      /\ \A i \in 1 .. Len(s) : r[i] = s[i]
    OBVIOUS
<1> HIDE DEF r
<1>2. \A y : y \in ToSet(r) <=> \E i \in 1 .. Len(r) : y = r[i]
    BY <1>1, ToSetOf
<1>3. \A y : y \in ToSet(s) <=> \E i \in 1 .. Len(s) : y = s[i]
    BY ToSetOf
<1>4. ASSUME NEW i \in 1 .. Len(r) PROVE r[i] \in ToSet(s) \cup {x}
    <2>1. i \in 1 .. Len(s) \/ i = Len(s) + 1
        BY <1>1
    <2> QED
        BY <1>1, <1>3, <2>1
<1>5. ASSUME NEW i \in 1 .. Len(s) PROVE i \in 1 .. Len(r) /\ s[i] = r[i]
    BY <1>1
<1>6. Len(s) + 1 \in 1 .. Len(r)
    BY <1>1
<1>7. \A y : y \in ToSet(r) <=> y \in ToSet(s) \cup {x}
    BY <1>1, <1>2, <1>3, <1>4, <1>5, <1>6
<1>8. ToSet(r) = ToSet(s) \cup {x}
    BY <1>7
<1> QED
    BY <1>8 DEF r

\* When no element is there twice after one was appended.
LEMMA InjectiveAppend ==
    ASSUME NEW T, NEW s \in Seq(T), NEW x \in T
    PROVE  IsInjective(Append(s, x)) <=> IsInjective(s) /\ x \notin ToSet(s)
<1> DEFINE r == Append(s, x)
           n == Len(s)
<1>1. /\ n \in Nat /\ DOMAIN r = 1 .. n + 1 /\ DOMAIN s = 1 .. n /\ r[n + 1] = x
      /\ \A i \in 1 .. n : r[i] = s[i]
    OBVIOUS
<1>2. \A y : y \in ToSet(s) <=> \E i \in 1 .. n : y = s[i]
    BY ToSetOf
<1> HIDE DEF r, n
<1>3. 1 .. n + 1 = (1 .. n) \cup {n + 1} /\ n + 1 \notin 1 .. n
    BY <1>1
<1>4. IsInjective(r) => IsInjective(s) /\ x \notin ToSet(s)
    BY <1>1, <1>2, <1>3 DEF IsInjective
<1>5. IsInjective(s) /\ x \notin ToSet(s) => IsInjective(r)
    BY <1>1, <1>2, <1>3 DEF IsInjective
<1> QED
    BY <1>4, <1>5 DEF r

\* The empty sequence has no elements.
LEMMA ToSetEmpty == ToSet(<<>>) = {}
BY DEF ToSet

\* Nothing is kept of nothing.
LEMMA AmongEmpty == ASSUME NEW S PROVE Among(<<>>, S) = <<>>
<1>1. Len(<<>>) = 0
    OBVIOUS
<1>2. PICK f : IsAmong(f, <<>>, S, 0) /\ Among(<<>>, S) = f[0]
    BY <1>1, AmongUnfold
<1> QED
    BY <1>2 DEF IsAmong

\* Among, one element at a time.
LEMMA AmongAppend ==
    ASSUME NEW T, NEW s \in Seq(T), NEW x \in T, NEW S
    PROVE  Among(Append(s, x), S) = Kept(Among(s, S), x, S)
<1> DEFINE n == Len(s)
           r == Append(s, x)
<1>1. n \in Nat /\ Len(r) = n + 1 /\ r[n + 1] = x /\ \A i \in 1 .. n : s[i] = r[i]
    OBVIOUS
<1>2. PICK f : IsAmong(f, s, S, n) /\ Among(s, S) = f[n]
    BY <1>1, AmongUnfold
<1> HIDE DEF n, r
<1>3. PICK g : IsAmong(g, r, S, n + 1) /\ Among(r, S) = g[n + 1]
    BY <1>1, AmongUnfold
<1>4. /\ f[0] = <<>> /\ g[0] = <<>>
      /\ \A i \in 1 .. n : f[i] = Kept(f[i - 1], s[i], S)
      /\ \A i \in 1 .. n + 1 : g[i] = Kept(g[i - 1], r[i], S)
    BY <1>1, <1>2, <1>3 DEF IsAmong
<1> DEFINE G == {k \in Nat : k <= n => f[k] = g[k]}
<1>5. 0 \in G
    BY <1>4
<1>6. ASSUME NEW k \in Nat, k \in G PROVE k + 1 \in G
    <2> SUFFICES ASSUME k + 1 <= n PROVE f[k + 1] = g[k + 1]
        OBVIOUS
    <2>1. k + 1 \in 1 .. n /\ k + 1 \in 1 .. n + 1 /\ k + 1 - 1 = k /\ k <= n
        BY <1>1
    <2>2. f[k + 1] = Kept(f[k], s[k + 1], S) /\ g[k + 1] = Kept(g[k], r[k + 1], S)
        BY <1>4, <2>1
    <2> QED
        BY <1>1, <1>6, <2>1, <2>2
<1> HIDE DEF G
<1>7. Nat \subseteq G
    BY <1>5, <1>6, NatInd
<1>8. f[n] = g[n]
    BY <1>1, <1>7 DEF G
<1>9. n + 1 \in 1 .. n + 1 /\ n + 1 - 1 = n
    BY <1>1
<1> QED
    BY <1>1, <1>2, <1>3, <1>4, <1>8, <1>9 DEF r

\* What is kept is in the set, and nothing of the set is left out.
LEMMA AmongElements ==
    ASSUME NEW T, NEW s \in Seq(T), NEW S
    PROVE  Among(s, S) \in Seq(T) /\ ToSet(Among(s, S)) = ToSet(s) \cap S
<1> DEFINE G == {r \in Seq(T) : Among(r, S) \in Seq(T) /\ ToSet(Among(r, S)) = ToSet(r) \cap S}
<1>1. <<>> \in G
    <2>1. Among(<<>>, S) = <<>> /\ ToSet(<<>>) = {} /\ <<>> \in Seq(T)
        BY AmongEmpty, ToSetEmpty
    <2> QED
        BY <2>1
<1>2. ASSUME NEW r \in Seq(T), NEW x \in T, r \in G PROVE Append(r, x) \in G
    <2>1. Among(Append(r, x), S) = Kept(Among(r, S), x, S)
        BY AmongAppend
    <2>2. Among(r, S) \in Seq(T) /\ ToSet(Among(r, S)) = ToSet(r) \cap S
        BY <1>2
    <2>3. ToSet(Append(r, x)) = ToSet(r) \cup {x}
        BY ToSetAppend
    <2>4. ToSet(Append(Among(r, S), x)) = ToSet(Among(r, S)) \cup {x}
        BY <2>2, ToSetAppend
    <2>5. Append(Among(r, S), x) \in Seq(T) /\ Append(r, x) \in Seq(T)
        BY <2>2
    <2>6. CASE x \in S
        <3>1. Among(Append(r, x), S) = Append(Among(r, S), x)
            BY <2>1, <2>6 DEF Kept
        <3> QED
            BY <2>2, <2>3, <2>4, <2>5, <2>6, <3>1
    <2>7. CASE x \notin S
        <3>1. Among(Append(r, x), S) = Among(r, S)
            BY <2>1, <2>7 DEF Kept
        <3> QED
            BY <2>2, <2>3, <2>5, <2>7, <3>1
    <2> QED
        BY <2>6, <2>7
<1> HIDE DEF G
<1>3. Seq(T) \subseteq G
    BY <1>1, <1>2, SeqInd
<1> QED
    BY <1>3 DEF G

\* What is kept is there once if it was there once.
LEMMA AmongInjective ==
    ASSUME NEW T, NEW s \in Seq(T), NEW S, IsInjective(s)
    PROVE  IsInjective(Among(s, S))
<1> DEFINE G == {r \in Seq(T) : IsInjective(r) => IsInjective(Among(r, S))}
<1>1. <<>> \in G
    BY AmongEmpty DEF IsInjective
<1>2. ASSUME NEW r \in Seq(T), NEW x \in T, r \in G PROVE Append(r, x) \in G
    <2> SUFFICES ASSUME IsInjective(Append(r, x)) PROVE IsInjective(Among(Append(r, x), S))
        OBVIOUS
    <2>1. Among(Append(r, x), S) = Kept(Among(r, S), x, S)
        BY AmongAppend
    <2>2. Among(r, S) \in Seq(T) /\ ToSet(Among(r, S)) = ToSet(r) \cap S
        BY AmongElements
    <2>3. IsInjective(r) /\ x \notin ToSet(r)
        BY InjectiveAppend
    <2>4. IsInjective(Among(r, S)) /\ x \notin ToSet(Among(r, S))
        BY <1>2, <2>2, <2>3
    <2>5. IsInjective(Append(Among(r, S), x))
        BY <2>2, <2>4, InjectiveAppend
    <2> QED
        BY <2>1, <2>2, <2>4, <2>5 DEF Kept
<1> HIDE DEF G
<1>3. Seq(T) \subseteq G
    BY <1>1, <1>2, SeqInd
<1> QED
    BY <1>3 DEF G

\* Two filters, one after the other, and filters that agree on a sequence.
LEMMA AmongTwice ==
    ASSUME NEW T, NEW s \in Seq(T), NEW S, NEW R
    PROVE  Among(Among(s, S), R) = Among(s, S \cap R)
<1> DEFINE G == {r \in Seq(T) : Among(Among(r, S), R) = Among(r, S \cap R)}
<1>1. <<>> \in G
    BY AmongEmpty
<1>2. ASSUME NEW r \in Seq(T), NEW x \in T, r \in G PROVE Append(r, x) \in G
    <2>1. Among(Append(r, x), S) = Kept(Among(r, S), x, S)
        BY AmongAppend
    <2>2. Among(Append(r, x), S \cap R) = Kept(Among(r, S \cap R), x, S \cap R)
        BY AmongAppend
    <2>3. Among(Append(Among(r, S), x), R) = Kept(Among(Among(r, S), R), x, R)
        BY AmongAppend, AmongElements
    <2>4. Among(Among(r, S), R) = Among(r, S \cap R) /\ Append(r, x) \in Seq(T)
        BY <1>2
    <2>5. CASE x \in S
        <3>1. Kept(Among(r, S), x, S) = Append(Among(r, S), x)
              /\ Kept(Among(Among(r, S), R), x, R) = Kept(Among(r, S \cap R), x, S \cap R)
            BY <2>4, <2>5 DEF Kept
        <3> QED
            BY <2>1, <2>2, <2>3, <2>4, <3>1
    <2>6. CASE x \notin S
        <3>1. Kept(Among(r, S), x, S) = Among(r, S)
              /\ Kept(Among(r, S \cap R), x, S \cap R) = Among(r, S \cap R)
            BY <2>6 DEF Kept
        <3> QED
            BY <2>1, <2>2, <2>4, <3>1
    <2> QED
        BY <2>5, <2>6
<1> HIDE DEF G
<1>3. Seq(T) \subseteq G
    BY <1>1, <1>2, SeqInd
<1> QED
    BY <1>3 DEF G

\* Only the elements of the sequence matter.
LEMMA AmongSame ==
    ASSUME NEW T, NEW s \in Seq(T), NEW S, NEW R, ToSet(s) \cap S = ToSet(s) \cap R
    PROVE  Among(s, S) = Among(s, R)
<1> DEFINE G == {r \in Seq(T) : ToSet(r) \cap S = ToSet(r) \cap R => Among(r, S) = Among(r, R)}
<1>1. <<>> \in G
    BY AmongEmpty
<1>2. ASSUME NEW r \in Seq(T), NEW x \in T, r \in G PROVE Append(r, x) \in G
    <2> SUFFICES ASSUME ToSet(Append(r, x)) \cap S = ToSet(Append(r, x)) \cap R
                 PROVE  Among(Append(r, x), S) = Among(Append(r, x), R)
        OBVIOUS
    <2>1. /\ Among(Append(r, x), S) = Kept(Among(r, S), x, S)
          /\ Among(Append(r, x), R) = Kept(Among(r, R), x, R)
        BY AmongAppend
    <2>2. ToSet(Append(r, x)) = ToSet(r) \cup {x}
        BY ToSetAppend
    <2>3. Among(r, S) = Among(r, R) /\ (x \in S <=> x \in R)
        BY <1>2, <2>2
    <2> QED
        BY <2>1, <2>3 DEF Kept
<1> HIDE DEF G
<1>3. Seq(T) \subseteq G
    BY <1>1, <1>2, SeqInd
<1> QED
    BY <1>3 DEF G

-----------------------------------------------------------------------------
(***************************************************************************)
(* Traversals                                                              *)
(***************************************************************************)

\* Visits as a function: what was visited after some steps.
Start(root) == [done |-> <<>>, todo |-> <<root>>]
IsVisits(f, root, Into, n) ==
    f = [k \in 0 .. n |-> IF k = 0 THEN Start(root) ELSE Visited(f[k - 1], Into)]

\* The function that Visits chooses exists.
LEMMA VisitsExists ==
    ASSUME NEW root, NEW Into, NEW n \in Nat
    PROVE  \E f : IsVisits(f, root, Into, n)
<1> DEFINE G == {k \in Nat : \E f : IsVisits(f, root, Into, k)}
<1>1. 0 \in G
    <2> DEFINE f == [i \in 0 .. 0 |-> Start(root)]
    <2>1. IsVisits(f, root, Into, 0)
        BY DEF IsVisits
    <2> QED
        BY <2>1
<1>2. ASSUME NEW k \in Nat, k \in G PROVE k + 1 \in G
    <2>1. PICK f : IsVisits(f, root, Into, k)
        BY <1>2
    <2> DEFINE g == [i \in 0 .. k + 1 |-> IF i <= k THEN f[i] ELSE Visited(f[k], Into)]
    <2>2. \A i \in 0 .. k : g[i] = f[i] /\ f[i] = IF i = 0 THEN Start(root) ELSE Visited(f[i - 1], Into)
        BY <2>1 DEF IsVisits
    <2>3. \A i \in 0 .. k + 1 : g[i] = IF i = 0 THEN Start(root) ELSE Visited(g[i - 1], Into)
        <3> TAKE i \in 0 .. k + 1
        <3>1. CASE i = 0
            <4>1. i \in 0 .. k
                BY <3>1
            <4>2. g[i] = f[i] /\ f[i] = Start(root)
                BY <2>2, <3>1, <4>1
            <4> QED
                BY <3>1, <4>2
        <3>2. CASE i \in 1 .. k
            <4>1. i - 1 \in 0 .. k /\ i \in 0 .. k
                BY <3>2
            <4> QED
                BY <2>2, <3>2, <4>1
        <3>3. CASE i = k + 1
            <4>1. g[i] = Visited(f[k], Into) /\ k \in 0 .. k /\ i - 1 = k
                BY <3>3
            <4> QED
                BY <2>2, <3>3, <4>1
        <3> QED
            BY <3>1, <3>2, <3>3
    <2>4. IsVisits(g, root, Into, k + 1)
        BY <2>3 DEF IsVisits
    <2> QED
        BY <2>4
<1> HIDE DEF G
<1>3. Nat \subseteq G
    BY <1>1, <1>2, NatInd
<1> QED
    BY <1>3 DEF G

\* Visits is what that function has done at the end.
LEMMA VisitsUnfold ==
    ASSUME NEW root, NEW Into, MaxCells \in Nat
    PROVE  \E f : IsVisits(f, root, Into, MaxCells) /\ Visits(root, Into) = f[MaxCells].done
<1> DEFINE f == CHOOSE f : f = [k \in 0 .. MaxCells |->
                    IF k = 0 THEN [done |-> <<>>, todo |-> <<root>>] ELSE Visited(f[k - 1], Into)]
<1>1. Visits(root, Into) = f[MaxCells].done
    BY DEF Visits
<1>2. \E g : g = [k \in 0 .. MaxCells |->
                    IF k = 0 THEN [done |-> <<>>, todo |-> <<root>>] ELSE Visited(g[k - 1], Into)]
    <2>1. PICK g : IsVisits(g, root, Into, MaxCells)
        BY VisitsExists
    <2>2. g = [k \in 0 .. MaxCells |->
                    IF k = 0 THEN [done |-> <<>>, todo |-> <<root>>] ELSE Visited(g[k - 1], Into)]
        BY <2>1 DEF IsVisits, Start
    <2> QED
        BY <2>2
<1>3. f = [k \in 0 .. MaxCells |->
                    IF k = 0 THEN [done |-> <<>>, todo |-> <<root>>] ELSE Visited(f[k - 1], Into)]
    BY <1>2
<1> HIDE DEF f
<1>4. IsVisits(f, root, Into, MaxCells)
    BY <1>3 DEF IsVisits, Start
<1> QED
    BY <1>1, <1>4

\* The first element of a sequence and the others.
LEMMA HeadTail ==
    ASSUME NEW T, NEW s \in Seq(T), s # <<>>
    PROVE  /\ Head(s) \in T /\ Tail(s) \in Seq(T)
           /\ ToSet(s) = {Head(s)} \cup ToSet(Tail(s))
           /\ IsInjective(s) => IsInjective(Tail(s)) /\ Head(s) \notin ToSet(Tail(s))
<1> DEFINE n == Len(s)
           r == Tail(s)
<1>1. /\ n \in Nat /\ n # 0 /\ DOMAIN s = 1 .. n /\ r \in Seq(T) /\ Len(r) = n - 1
      /\ DOMAIN r = 1 .. n - 1 /\ \A i \in 1 .. n - 1 : r[i] = s[i + 1]
      /\ Head(s) = s[1] /\ s[1] \in T /\ Len(s) = n
    OBVIOUS
<1> HIDE DEF n, r
<1>2. /\ \A y : y \in ToSet(s) <=> \E i \in 1 .. n : y = s[i]
      /\ \A y : y \in ToSet(r) <=> \E i \in 1 .. n - 1 : y = r[i]
    <2>1. \A y : y \in ToSet(s) <=> \E i \in 1 .. Len(s) : y = s[i]
        BY ToSetOf
    <2>2. \A y : y \in ToSet(r) <=> \E i \in 1 .. Len(r) : y = r[i]
        BY <1>1, ToSetOf
    <2> QED
        BY <1>1, <2>1, <2>2
<1>3. \A i \in 1 .. n : i = 1 \/ (i - 1 \in 1 .. n - 1 /\ i - 1 + 1 = i)
    BY <1>1
<1>4. 1 \in 1 .. n /\ \A i \in 1 .. n - 1 : i \in Int /\ i + 1 \in 1 .. n /\ i + 1 # 1
    BY <1>1
<1>5. \A y : y \in ToSet(s) <=> y = s[1] \/ y \in ToSet(r)
    BY SMTT(30), <1>1, <1>2, <1>3, <1>4
<1>6. ASSUME IsInjective(s) PROVE s[1] \notin ToSet(r)
    <2> SUFFICES ASSUME NEW i \in 1 .. n - 1, r[i] = s[1] PROVE FALSE
        BY <1>2
    <2>1. i + 1 \in 1 .. n /\ i + 1 # 1 /\ 1 \in 1 .. n /\ s[i + 1] = s[1]
        BY <1>1, <1>4
    <2> QED
        BY <1>1, <1>6, <2>1 DEF IsInjective
<1>7. ASSUME IsInjective(s) PROVE IsInjective(r)
    <2> SUFFICES ASSUME NEW i \in 1 .. n - 1, NEW j \in 1 .. n - 1, r[i] = r[j] PROVE i = j
        BY <1>1 DEF IsInjective
    <2>1. i + 1 \in 1 .. n /\ j + 1 \in 1 .. n /\ s[i + 1] = s[j + 1]
        BY <1>1, <1>4
    <2>2. i + 1 = j + 1
        BY <1>1, <1>7, <2>1 DEF IsInjective
    <2> QED
        BY <2>2
<1> QED
    BY <1>1, <1>5, <1>6, <1>7 DEF r

\* What a concatenation has in it.
LEMMA Joined ==
    ASSUME NEW T, NEW s \in Seq(T), NEW r \in Seq(T)
    PROVE  /\ s \o r \in Seq(T)
           /\ ToSet(s \o r) = ToSet(s) \cup ToSet(r)
           /\ IsInjective(s \o r) <=>
                 IsInjective(s) /\ IsInjective(r) /\ ToSet(s) \cap ToSet(r) = {}
<1> DEFINE m == Len(s)
           n == Len(r)
           t == s \o r
<1>1. /\ m \in Nat /\ n \in Nat /\ t \in Seq(T) /\ Len(t) = m + n
      /\ DOMAIN s = 1 .. m /\ DOMAIN r = 1 .. n /\ DOMAIN t = 1 .. m + n
      /\ \A i \in 1 .. m : t[i] = s[i]
      /\ \A i \in 1 .. n : t[m + i] = r[i]
      /\ Len(s) = m /\ Len(r) = n
    OBVIOUS
<1> HIDE DEF m, n, t
<1>2. /\ \A y : y \in ToSet(s) <=> \E i \in 1 .. m : y = s[i]
      /\ \A y : y \in ToSet(r) <=> \E i \in 1 .. n : y = r[i]
      /\ \A y : y \in ToSet(t) <=> \E i \in 1 .. m + n : y = t[i]
    <2>1. \A y : y \in ToSet(s) <=> \E i \in 1 .. Len(s) : y = s[i]
        BY ToSetOf
    <2>2. \A y : y \in ToSet(r) <=> \E i \in 1 .. Len(r) : y = r[i]
        BY ToSetOf
    <2>3. \A y : y \in ToSet(t) <=> \E i \in 1 .. Len(t) : y = t[i]
        BY <1>1, ToSetOf
    <2> QED
        BY <1>1, <2>1, <2>2, <2>3
<1>3. \A i \in 1 .. m + n : i \in 1 .. m \/ (i - m \in 1 .. n /\ m + (i - m) = i)
    BY <1>1
<1>4. /\ \A i \in 1 .. m : i \in 1 .. m + n /\ i \in Int
      /\ \A i \in 1 .. n : m + i \in 1 .. m + n /\ m + i \notin 1 .. m /\ i \in Int
    BY <1>1
<1>5. \A y : y \in ToSet(t) <=> y \in ToSet(s) \/ y \in ToSet(r)
    <2> TAKE y
    <2>1. ASSUME y \in ToSet(t) PROVE y \in ToSet(s) \/ y \in ToSet(r)
        <3>1. PICK i \in 1 .. m + n : y = t[i]
            BY <1>2, <2>1
        <3>2. CASE i \in 1 .. m
            BY <1>1, <1>2, <3>1, <3>2
        <3>3. CASE i - m \in 1 .. n /\ m + (i - m) = i
            <4>1. y = r[i - m]
                BY <1>1, <3>1, <3>3
            <4> QED
                BY <1>2, <3>3, <4>1
        <3> QED
            BY <1>3, <3>2, <3>3
    <2>2. ASSUME y \in ToSet(s) PROVE y \in ToSet(t)
        BY <1>1, <1>2, <1>4, <2>2
    <2>3. ASSUME y \in ToSet(r) PROVE y \in ToSet(t)
        <3>1. PICK i \in 1 .. n : y = r[i]
            BY <1>2, <2>3
        <3>2. m + i \in 1 .. m + n /\ y = t[m + i]
            BY <1>1, <1>4, <3>1
        <3> QED
            BY <1>2, <3>2
    <2> QED
        BY <2>1, <2>2, <2>3
<1>6. ASSUME IsInjective(t) PROVE IsInjective(s) /\ IsInjective(r) /\ ToSet(s) \cap ToSet(r) = {}
    <2>1. IsInjective(s)
        BY <1>1, <1>4, <1>6 DEF IsInjective
    <2>2. IsInjective(r)
        <3> SUFFICES ASSUME NEW i \in 1 .. n, NEW j \in 1 .. n, r[i] = r[j] PROVE i = j
            BY <1>1 DEF IsInjective
        <3>1. m + i \in 1 .. m + n /\ m + j \in 1 .. m + n /\ t[m + i] = t[m + j]
            BY <1>1, <1>4
        <3>2. m + i = m + j
            BY <1>1, <1>6, <3>1 DEF IsInjective
        <3> QED
            BY <1>1, <3>2
    <2>3. ASSUME NEW i \in 1 .. m, NEW j \in 1 .. n PROVE s[i] # r[j]
        <3>1. t[i] = s[i] /\ t[m + j] = r[j] /\ i # m + j /\ i \in DOMAIN t /\ m + j \in DOMAIN t
            BY <1>1, <1>4
        <3> QED
            BY <1>6, <3>1 DEF IsInjective
    <2>4. ToSet(s) \cap ToSet(r) = {}
        BY <1>2, <2>3
    <2> QED
        BY <2>1, <2>2, <2>4
<1>7. ASSUME IsInjective(s), IsInjective(r), ToSet(s) \cap ToSet(r) = {} PROVE IsInjective(t)
    <2> SUFFICES ASSUME NEW i \in 1 .. m + n, NEW j \in 1 .. m + n, t[i] = t[j] PROVE i = j
        BY <1>1 DEF IsInjective
    <2>1. CASE i \in 1 .. m /\ j \in 1 .. m
        BY <1>1, <1>7, <2>1 DEF IsInjective
    <2>2. CASE i \notin 1 .. m /\ j \notin 1 .. m
        <3>1. i - m \in 1 .. n /\ m + (i - m) = i /\ j - m \in 1 .. n /\ m + (j - m) = j
            BY <1>3, <2>2
        <3>2. r[i - m] = r[j - m]
            BY <1>1, <3>1
        <3>3. i - m = j - m
            BY <1>1, <1>7, <3>1, <3>2 DEF IsInjective
        <3> QED
            BY <1>1, <3>3
    <2>3. CASE i \in 1 .. m /\ j \notin 1 .. m
        <3>1. j - m \in 1 .. n /\ m + (j - m) = j
            BY <1>3, <2>3
        <3>2. t[i] = s[i] /\ t[j] = r[j - m]
            BY <1>1, <2>3, <3>1
        <3>3. s[i] \in ToSet(s) /\ r[j - m] \in ToSet(r)
            BY <1>2, <2>3, <3>1
        <3> QED
            BY <1>7, <3>2, <3>3
    <2>4. CASE i \notin 1 .. m /\ j \in 1 .. m
        <3>1. i - m \in 1 .. n /\ m + (i - m) = i
            BY <1>3, <2>4
        <3>2. t[j] = s[j] /\ t[i] = r[i - m]
            BY <1>1, <2>4, <3>1
        <3>3. s[j] \in ToSet(s) /\ r[i - m] \in ToSet(r)
            BY <1>2, <2>4, <3>1
        <3> QED
            BY <1>7, <3>2, <3>3
    <2> QED
        BY <2>1, <2>2, <2>3, <2>4
<1> QED
    BY <1>1, <1>5, <1>6, <1>7 DEF t

Pushed(n, Into) == IF n \in Into THEN Kids(n) ELSE <<>>

\* The stages of a traversal that stays in D.
LEMMA VisitsIn ==
    ASSUME NEW D, NEW root \in D, NEW Into, MaxCells \in Nat,
           \A n \in D : Pushed(n, Into) \in Seq(D),
           NEW f, IsVisits(f, root, Into, MaxCells)
    PROVE  \A k \in 0 .. MaxCells : f[k] \in [done : Seq(D), todo : Seq(D)]
<1> DEFINE G == {k \in Nat : k <= MaxCells => f[k] \in [done : Seq(D), todo : Seq(D)]}
<1>1. 0 \in G
    <2>1. f[0] = Start(root)
        BY DEF IsVisits
    <2>2. <<>> \in Seq(D) /\ <<root>> \in Seq(D)
        OBVIOUS
    <2>3. Start(root) \in [done : Seq(D), todo : Seq(D)]
        BY <2>2 DEF Start
    <2> QED
        BY <2>1, <2>3
<1>2. ASSUME NEW k \in Nat, k \in G PROVE k + 1 \in G
    <2> SUFFICES ASSUME k + 1 <= MaxCells PROVE f[k + 1] \in [done : Seq(D), todo : Seq(D)]
        OBVIOUS
    <2>1. k + 1 \in 0 .. MaxCells /\ k + 1 # 0 /\ k + 1 - 1 = k /\ k <= MaxCells
        OBVIOUS
    <2>2. f[k + 1] = Visited(f[k], Into)
        BY <2>1 DEF IsVisits
    <2>3. f[k] \in [done : Seq(D), todo : Seq(D)]
        BY <1>2, <2>1
    <2>4. CASE f[k].todo = <<>>
        BY <2>2, <2>3, <2>4 DEF Visited
    <2>5. CASE f[k].todo # <<>>
        <3>1. Head(f[k].todo) \in D /\ Tail(f[k].todo) \in Seq(D)
            BY <2>3, <2>5, HeadTail
        <3>2. Pushed(Head(f[k].todo), Into) \in Seq(D)
            BY <3>1
        <3>3. Pushed(Head(f[k].todo), Into) \o Tail(f[k].todo) \in Seq(D)
            BY <3>1, <3>2, Joined
        <3>4. Append(f[k].done, Head(f[k].todo)) \in Seq(D)
            BY <2>3, <3>1
        <3>5. f[k + 1] = [done |-> Append(f[k].done, Head(f[k].todo)),
                          todo |-> Pushed(Head(f[k].todo), Into) \o Tail(f[k].todo)]
            BY <2>2, <2>5 DEF Visited, Pushed
        <3> QED
            BY <3>3, <3>4, <3>5
    <2> QED
        BY <2>4, <2>5
<1> HIDE DEF G
<1>3. Nat \subseteq G
    BY <1>1, <1>2, NatInd
<1> QED
    BY <1>3 DEF G

\* A traversal stays where its steps stay.
LEMMA VisitsType ==
    ASSUME NEW D, NEW root \in D, NEW Into, MaxCells \in Nat,
           \A n \in D : Pushed(n, Into) \in Seq(D)
    PROVE  Visits(root, Into) \in Seq(D)
<1>1. PICK f : IsVisits(f, root, Into, MaxCells) /\ Visits(root, Into) = f[MaxCells].done
    BY VisitsUnfold
<1>2. \A k \in 0 .. MaxCells : f[k] \in [done : Seq(D), todo : Seq(D)]
    BY <1>1, VisitsIn
<1>3. f[MaxCells] \in [done : Seq(D), todo : Seq(D)]
    BY <1>2
<1> QED
    BY <1>1, <1>3

\* Traversals that go on alike in D are the same.
LEMMA VisitsSame ==
    ASSUME NEW D, NEW root \in D, NEW Into, NEW Into2, MaxCells \in Nat,
           \A n \in D : Pushed(n, Into) \in Seq(D) /\ Pushed(n, Into) = Pushed(n, Into2)
    PROVE  Visits(root, Into) = Visits(root, Into2)
<1>1. PICK f : IsVisits(f, root, Into, MaxCells) /\ Visits(root, Into) = f[MaxCells].done
    BY VisitsUnfold
<1>2. PICK g : IsVisits(g, root, Into2, MaxCells) /\ Visits(root, Into2) = g[MaxCells].done
    BY VisitsUnfold
<1>3. \A k \in 0 .. MaxCells : f[k] \in [done : Seq(D), todo : Seq(D)]
    BY <1>1, VisitsIn
<1> DEFINE G == {k \in Nat : k <= MaxCells => f[k] = g[k]}
<1>4. 0 \in G
    BY <1>1, <1>2 DEF IsVisits
<1>5. ASSUME NEW k \in Nat, k \in G PROVE k + 1 \in G
    <2> SUFFICES ASSUME k + 1 <= MaxCells PROVE f[k + 1] = g[k + 1]
        OBVIOUS
    <2>1. k + 1 \in 0 .. MaxCells /\ k + 1 # 0 /\ k + 1 - 1 = k /\ k <= MaxCells /\ k \in 0 .. MaxCells
        OBVIOUS
    <2>2. f[k + 1] = Visited(f[k], Into) /\ g[k + 1] = Visited(f[k], Into2)
        BY <1>1, <1>2, <1>5, <2>1 DEF IsVisits
    <2>3. f[k].todo # <<>> => Head(f[k].todo) \in D
        BY <1>3, <2>1, HeadTail
    <2> QED
        BY <2>2, <2>3 DEF Visited, Pushed
<1> HIDE DEF G
<1>6. Nat \subseteq G
    BY <1>4, <1>5, NatInd
<1>7. f[MaxCells] = g[MaxCells]
    BY <1>6 DEF G
<1> QED
    BY <1>1, <1>2, <1>7

\* A stage of a traversal that has visited nothing twice: what it has come to is
\* where it started or was listed in a node it went into.
Once(v, root, Into, F, rank) ==
    /\ IsInjective(v.done) /\ IsInjective(v.todo) /\ ToSet(v.done) \cap ToSet(v.todo) = {}
    /\ \A x \in ToSet(v.done) \cup ToSet(v.todo) :
          /\ x = root \/ \E g \in ToSet(v.done) : x \in ToSet(Pushed(g, Into))
          /\ x \in F => rank[x] <= rank[root]

\* One step of a traversal keeps Once.
LEMMA OnceStep ==
    ASSUME NEW D, NEW root \in D, NEW Into, NEW F, root \in F, NEW rank \in [F -> Nat],
           \A n \in D : /\ Pushed(n, Into) \in Seq(D) /\ IsInjective(Pushed(n, Into))
                        /\ n \notin F => Pushed(n, Into) = <<>>
                        /\ \A k \in ToSet(Pushed(n, Into)) \cap F : rank[k] < rank[n],
           \A m, n \in D : m # n => ToSet(Pushed(m, Into)) \cap ToSet(Pushed(n, Into)) = {},
           NEW v \in [done : Seq(D), todo : Seq(D)], v.todo # <<>>,
           Once(v, root, Into, F, rank)
    PROVE  Once(Visited(v, Into), root, Into, F, rank)
<1> DEFINE n == Head(v.todo)
           rest == Tail(v.todo)
           kids == Pushed(n, Into)
           w == Visited(v, Into)
<1>1. /\ n \in D /\ rest \in Seq(D) /\ ToSet(v.todo) = {n} \cup ToSet(rest)
      /\ IsInjective(rest) /\ n \notin ToSet(rest)
    BY HeadTail DEF Once
<1>2. /\ kids \in Seq(D) /\ IsInjective(kids)
      /\ n \notin F => kids = <<>>
      /\ \A k \in ToSet(kids) \cap F : rank[k] < rank[n]
    BY <1>1
<1>3. w = [done |-> Append(v.done, n), todo |-> kids \o rest]
    BY DEF Visited, Pushed
<1>4. n \notin ToSet(v.done)
    BY <1>1 DEF Once
<1> HIDE DEF n, rest, kids, w
<1>5. ToSet(w.done) = ToSet(v.done) \cup {n} /\ IsInjective(w.done)
    <2>1. ToSet(Append(v.done, n)) = ToSet(v.done) \cup {n}
        BY <1>1, ToSetAppend
    <2>2. IsInjective(Append(v.done, n))
        BY <1>1, <1>4, InjectiveAppend DEF Once
    <2> QED
        BY <1>3, <2>1, <2>2
<1>6. w.todo = kids \o rest /\ ToSet(kids \o rest) = ToSet(kids) \cup ToSet(rest)
    BY <1>1, <1>2, <1>3, Joined
<1>7. ToSet(v.done) \subseteq D /\ ToSet(kids) \subseteq D
    BY <1>2, ToSetOf
<1>8. ASSUME NEW x \in ToSet(kids) PROVE x \notin ToSet(v.done) \cup {n} \cup ToSet(rest)
    <2> SUFFICES ASSUME x \in ToSet(v.done) \cup ToSet(v.todo) PROVE FALSE
        BY <1>1
    <2>1. n \in F /\ rank[n] <= rank[root]
        <3>1. kids # <<>>
            BY <1>8, ToSetEmpty
        <3> QED
            BY <1>1, <1>2, <3>1 DEF Once
    <2>2. CASE x = root
        <3>1. rank[root] < rank[n]
            BY <1>2, <1>8, <2>2
        <3>2. rank[root] \in Nat /\ rank[n] \in Nat
            BY <2>1
        <3> QED
            BY <2>1, <3>1, <3>2
    <2>3. CASE \E g \in ToSet(v.done) : x \in ToSet(Pushed(g, Into))
        BY <1>1, <1>4, <1>7, <1>8, <2>3 DEF kids
    <2> QED
        BY <2>2, <2>3 DEF Once
<1>9. IsInjective(w.todo)
    BY <1>1, <1>2, <1>6, <1>8, Joined
<1>10. ToSet(w.done) \cap ToSet(w.todo) = {}
    BY <1>1, <1>5, <1>6, <1>8 DEF Once
<1>11. ASSUME NEW x \in ToSet(w.done) \cup ToSet(w.todo)
       PROVE  /\ x = root \/ \E g \in ToSet(w.done) : x \in ToSet(Pushed(g, Into))
              /\ x \in F => rank[x] <= rank[root]
    <2>1. CASE x \in ToSet(v.done) \cup ToSet(v.todo)
        BY <1>5, <2>1 DEF Once
    <2>2. CASE x \in ToSet(kids)
        <3>1. x \in ToSet(Pushed(n, Into)) /\ n \in ToSet(w.done)
            BY <1>5, <2>2 DEF kids
        <3>2. kids # <<>>
            BY <2>2, ToSetEmpty
        <3>3. n \in F /\ rank[n] <= rank[root]
            BY <1>1, <1>2, <3>2 DEF Once
        <3>4. ASSUME x \in F PROVE rank[x] <= rank[root]
            <4>1. rank[x] < rank[n]
                BY <1>2, <2>2, <3>4
            <4>2. rank[x] \in Nat /\ rank[n] \in Nat /\ rank[root] \in Nat
                BY <3>3, <3>4
            <4> QED
                BY <3>3, <4>1, <4>2
        <3> QED
            BY <3>1, <3>4
    <2> QED
        BY <1>1, <1>5, <1>6, <2>1, <2>2
<1> QED
    BY <1>5, <1>9, <1>10, <1>11 DEF Once, w

\* No node is visited twice in a tree.
LEMMA VisitsOnce ==
    ASSUME NEW D, NEW root \in D, NEW Into, NEW F, root \in F, NEW rank \in [F -> Nat],
           MaxCells \in Nat,
           \A n \in D : /\ Pushed(n, Into) \in Seq(D) /\ IsInjective(Pushed(n, Into))
                        /\ n \notin F => Pushed(n, Into) = <<>>
                        /\ \A k \in ToSet(Pushed(n, Into)) \cap F : rank[k] < rank[n],
           \A m, n \in D : m # n => ToSet(Pushed(m, Into)) \cap ToSet(Pushed(n, Into)) = {}
    PROVE  IsInjective(Visits(root, Into))
<1>1. PICK f : IsVisits(f, root, Into, MaxCells) /\ Visits(root, Into) = f[MaxCells].done
    BY VisitsUnfold
<1>2. \A k \in 0 .. MaxCells : f[k] \in [done : Seq(D), todo : Seq(D)]
    BY <1>1, VisitsIn
<1> DEFINE G == {k \in Nat : k <= MaxCells => Once(f[k], root, Into, F, rank)}
<1>3. 0 \in G
    <2>1. f[0] = Start(root)
        BY <1>1 DEF IsVisits
    <2>2. ToSet(<<>>) = {} /\ ToSet(<<root>>) = {root}
        BY DEF ToSet
    <2>3. IsInjective(<<>>) /\ IsInjective(<<root>>)
        BY DEF IsInjective
    <2>4. rank[root] <= rank[root]
        <3>1. rank[root] \in Nat
            OBVIOUS
        <3> QED
            BY <3>1
    <2> QED
        BY <2>1, <2>2, <2>3, <2>4 DEF Start, Once
<1>4. ASSUME NEW k \in Nat, k \in G PROVE k + 1 \in G
    <2> SUFFICES ASSUME k + 1 <= MaxCells PROVE Once(f[k + 1], root, Into, F, rank)
        OBVIOUS
    <2>1. k + 1 \in 0 .. MaxCells /\ k + 1 # 0 /\ k + 1 - 1 = k /\ k <= MaxCells /\ k \in 0 .. MaxCells
        OBVIOUS
    <2>2. f[k + 1] = Visited(f[k], Into) /\ Once(f[k], root, Into, F, rank)
        BY <1>1, <1>4, <2>1 DEF IsVisits
    <2>3. f[k] \in [done : Seq(D), todo : Seq(D)]
        BY <1>2, <2>1
    <2>4. CASE f[k].todo = <<>>
        BY <2>2, <2>4 DEF Visited
    <2>5. CASE f[k].todo # <<>>
        <3>1. Once(Visited(f[k], Into), root, Into, F, rank)
            BY <2>2, <2>3, <2>5, OnceStep
        <3> QED
            BY <2>2, <3>1
    <2> QED
        BY <2>4, <2>5
<1> HIDE DEF G
<1>5. Nat \subseteq G
    BY <1>3, <1>4, NatInd
<1>6. Once(f[MaxCells], root, Into, F, rank)
    BY <1>5 DEF G
<1> QED
    BY <1>1, <1>6 DEF Once

-----------------------------------------------------------------------------
(***************************************************************************)
(* Reachability                                                            *)
(***************************************************************************)

\* Reached as a function: the nodes some steps away.
IsReach(f, root, n) == f = [k \in 0 .. n |-> IF k = 0 THEN {root} ELSE Onward(f[k - 1])]

\* The function that Reached chooses exists.
LEMMA ReachExists ==
    ASSUME NEW root, NEW n \in Nat
    PROVE  \E f : IsReach(f, root, n)
<1> DEFINE G == {k \in Nat : \E f : IsReach(f, root, k)}
<1>1. 0 \in G
    <2> DEFINE f == [i \in 0 .. 0 |-> {root}]
    <2>1. IsReach(f, root, 0)
        BY DEF IsReach
    <2> QED
        BY <2>1
<1>2. ASSUME NEW k \in Nat, k \in G PROVE k + 1 \in G
    <2>1. PICK f : IsReach(f, root, k)
        BY <1>2
    <2> DEFINE g == [i \in 0 .. k + 1 |-> IF i <= k THEN f[i] ELSE Onward(f[k])]
    <2>2. \A i \in 0 .. k : g[i] = f[i] /\ f[i] = IF i = 0 THEN {root} ELSE Onward(f[i - 1])
        <3>1. f = [i \in 0 .. k |-> IF i = 0 THEN {root} ELSE Onward(f[i - 1])]
            BY <2>1 DEF IsReach
        <3>2. \A i \in 0 .. k : f[i] = IF i = 0 THEN {root} ELSE Onward(f[i - 1])
            BY <3>1
        <3>3. \A i \in 0 .. k : g[i] = f[i]
            OBVIOUS
        <3> QED
            BY <3>2, <3>3
    <2>3. \A i \in 0 .. k + 1 : g[i] = IF i = 0 THEN {root} ELSE Onward(g[i - 1])
        <3> TAKE i \in 0 .. k + 1
        <3>1. CASE i = 0
            <4>1. i \in 0 .. k
                BY <3>1
            <4>2. g[i] = f[i] /\ f[i] = {root}
                BY <2>2, <3>1, <4>1
            <4> QED
                BY <3>1, <4>2
        <3>2. CASE i \in 1 .. k
            <4>1. i - 1 \in 0 .. k /\ i \in 0 .. k
                BY <3>2
            <4> QED
                BY <2>2, <3>2, <4>1
        <3>3. CASE i = k + 1
            <4>1. g[i] = Onward(f[k]) /\ k \in 0 .. k /\ i - 1 = k
                BY <3>3
            <4> QED
                BY <2>2, <3>3, <4>1
        <3> QED
            BY <3>1, <3>2, <3>3
    <2>4. IsReach(g, root, k + 1)
        BY <2>3 DEF IsReach
    <2> QED
        BY <2>4
<1> HIDE DEF G
<1>3. Nat \subseteq G
    BY <1>1, <1>2, NatInd
<1> QED
    BY <1>3 DEF G

\* What contains a node and the children of its elements contains all.
LEMMA ReachedIn ==
    ASSUME NEW root, NEW D, root \in D, \A n \in D : ToSet(Kids(n)) \subseteq D, MaxCells \in Nat
    PROVE  Under(root) \subseteq D
<1> DEFINE f == CHOOSE f : f = [k \in 0 .. MaxCells |->
                                    IF k = 0 THEN {root} ELSE Onward(f[k - 1])]
<1>1. Under(root) = f[MaxCells]
    BY DEF Under
<1>2. \E g : g = [k \in 0 .. MaxCells |-> IF k = 0 THEN {root} ELSE Onward(g[k - 1])]
    BY ReachExists DEF IsReach
<1>3. f = [k \in 0 .. MaxCells |-> IF k = 0 THEN {root} ELSE Onward(f[k - 1])]
    BY <1>2
<1> HIDE DEF f
<1>7. \A i \in 0 .. MaxCells : f[i] = IF i = 0 THEN {root} ELSE Onward(f[i - 1])
    BY <1>3
<1> DEFINE G == {k \in Nat : k <= MaxCells => f[k] \subseteq D}
<1>4. 0 \in G
    BY <1>7
<1>5. ASSUME NEW k \in Nat, k \in G PROVE k + 1 \in G
    <2> SUFFICES ASSUME k + 1 <= MaxCells PROVE f[k + 1] \subseteq D
        OBVIOUS
    <2>1. k + 1 \in 0 .. MaxCells /\ k + 1 # 0 /\ k + 1 - 1 = k /\ k <= MaxCells
        OBVIOUS
    <2>2. f[k + 1] = IF k + 1 = 0 THEN {root} ELSE Onward(f[k + 1 - 1])
        BY <1>7, <2>1
    <2>3. f[k + 1] = Onward(f[k])
        BY <2>1, <2>2
    <2>4. f[k] \subseteq D
        BY <1>5, <2>1
    <2> QED
        BY <2>3, <2>4 DEF Onward
<1> HIDE DEF G
<1>6. Nat \subseteq G
    BY <1>4, <1>5, NatInd
<1> QED
    BY <1>1, <1>6 DEF G

-----------------------------------------------------------------------------
(***************************************************************************)
(* What the calls keep                                                     *)
(***************************************************************************)

\* The nodes of a heap, its cells of a kind, and the children of a node.
NodesOf(h) == {n \in DOMAIN h : h[n].kind \in NodeKind}
AllOf(h, kind) == {n \in DOMAIN h : h[n].kind = kind}
KidsOf(h, n) == ToSet(ListOf(h, n))

\* The nodes whose children nothing else frees: once a node was copied with its
\* children those of an ECA may be shared.
Guarded(h, as) == IF as THEN AllOf(h, "folder") \cup AllOf(h, "trigger") ELSE NodesOf(h)

\* Every cell is one, at an address that was given out.
Cells(h, nx) == \A n \in DOMAIN h : n \in Address /\ n < nx /\ h[n] \in Cell

\* What a node points to is what it should be, if it is still there.
Linked(h, nx) ==
    \A n \in NodesOf(h) :
        /\ h[n].kids < nx /\ (h[n].kids \in DOMAIN h => h[h[n].kids].kind = "array")
        /\ h[n].params # 0 => h[n].kind = "eca" /\ h[n].params \in AllOf(h, "params")
        /\ \A k \in KidsOf(h, n) : k < nx /\ (k \in DOMAIN h => h[k].kind \in Below[h[n].kind])

\* No two nodes have parameters in common.
OwnParams(h) ==
    \A m, n \in NodesOf(h) : m # n /\ h[m].params # 0 => h[m].params # h[n].params

\* A guarded node has its array, its children each once and, unless a listed
\* trigger was freed, all of them.
Whole(h, as) ==
    \A m \in Guarded(h, as) :
        /\ h[m].kids # 0 => h[m].kids \in DOMAIN h
        /\ IsInjective(ListOf(h, m))
        /\ ~as \/ h[m].kind = "trigger" => KidsOf(h, m) \subseteq DOMAIN h

\* No node has an array or a child in common with a guarded one.
OwnKids(h, as) ==
    \A m \in Guarded(h, as), n \in NodesOf(h) : m # n =>
        /\ h[m].kids # 0 => h[m].kids # h[n].kids
        /\ KidsOf(h, m) \cap KidsOf(h, n) = {}

\* The folders are a tree below the root.
Folded(h) ==
    /\ Root \in AllOf(h, "folder")
    /\ \A f \in AllOf(h, "folder") \ {Root} : \E g \in AllOf(h, "folder") : f \in KidsOf(h, g)
    /\ \E rank \in [AllOf(h, "folder") -> Address] :
          \A f, k \in AllOf(h, "folder") : k \in KidsOf(h, f) => rank[k] < rank[f]

\* What the calls keep of the heap.
TreeInv(h, nx, as) ==
    /\ Cells(h, nx) /\ Linked(h, nx) /\ OwnParams(h) /\ Whole(h, as) /\ OwnKids(h, as) /\ Folded(h)

\* A heap without some of its cells, none of which a node needs that is to stay
\* whole.
Freed(h, g, as2) ==
    /\ DOMAIN g \subseteq DOMAIN h /\ \A n \in DOMAIN g : g[n] = h[n]
    /\ AllOf(h, "folder") \subseteq DOMAIN g
    /\ \A n \in NodesOf(g) : h[n].params # 0 => h[n].params \in DOMAIN g
    /\ \A m \in Guarded(g, as2) :
          /\ h[m].kids # 0 => h[m].kids \in DOMAIN g
          /\ ~as2 \/ h[m].kind = "trigger" => KidsOf(h, m) \subseteq DOMAIN g

\* A heap in which a folder or trigger has another list of children: some it had
\* and some that nothing lists.
Relinked(h, g, t, a) ==
    /\ t \in AllOf(h, "folder") \cup AllOf(h, "trigger")
    /\ g = [h EXCEPT ![t].kids = a]
    /\ \/ a = 0
       \/ a \in AllOf(h, "array") /\ \A n \in NodesOf(h) : h[n].kids # a
    /\ IsInjective(ListOf(g, t))
    /\ \A k \in KidsOf(g, t) \ KidsOf(h, t) :
          /\ k \in DOMAIN h /\ h[k].kind \in Below[h[t].kind]
          /\ \A n \in NodesOf(h) : k \notin KidsOf(h, n)
    /\ KidsOf(g, t) \cap AllOf(h, "folder") = KidsOf(h, t) \cap AllOf(h, "folder")

\* A heap with cells at new addresses: arrays, parameters and at most one node,
\* which has no children or, once copies go astray, those of an ECA.
Added(h, g, nx, nx2, as2) ==
    /\ DOMAIN h \subseteq DOMAIN g /\ \A n \in DOMAIN h : g[n] = h[n]
    /\ \A n \in DOMAIN g \ DOMAIN h :
          /\ n \in Address /\ nx <= n /\ n < nx2 /\ g[n] \in Cell
          /\ \/ g[n].kind \in {"array", "params"}
             \/ /\ g[n].kind \in {"trigger", "eca"}
                /\ g[n].kids # 0 =>
                      as2 /\ g[n].kind = "eca" /\ \E e \in AllOf(h, "eca") : g[n].kids = h[e].kids
                /\ g[n].params # 0 =>
                      /\ g[n].kind = "eca" /\ g[n].params \in DOMAIN g \ DOMAIN h
                      /\ g[g[n].params].kind = "params"
    /\ \A m, n \in (DOMAIN g \ DOMAIN h) \cap NodesOf(g) : m = n

\* What Cells alone says of the children.
LEMMA BasicTree ==
    ASSUME NEW h, NEW nx \in Nat, Cells(h, nx)
    PROVE  /\ 0 \notin DOMAIN h
           /\ \A n : ListOf(h, n) \in Seq(Address)
           /\ \A n : h[n].kids \notin DOMAIN h => ListOf(h, n) = <<>>
           /\ \A n \in DOMAIN h : h[n].kids \in Pointer /\ h[n].params \in Pointer
           /\ \A n : KidsOf(h, n) \subseteq Address
<1>1. 0 \notin DOMAIN h
    BY DEF Cells, Address
<1>2. \A n \in DOMAIN h : h[n].list \in Seq(Address) /\ h[n].kids \in Pointer /\ h[n].params \in Pointer
    BY DEF Cells, Cell
<1>3. \A n : ListOf(h, n) \in Seq(Address)
    BY <1>2 DEF ListOf
<1>4. \A n : h[n].kids \notin DOMAIN h => ListOf(h, n) = <<>>
    BY DEF ListOf
<1>5. \A n : KidsOf(h, n) \subseteq Address
    BY <1>3, ToSetOf DEF KidsOf
<1> QED
    BY <1>1, <1>2, <1>3, <1>4, <1>5

\* Freed cells leave a sound tree.
LEMMA FreeCells ==
    ASSUME NEW h, NEW g, NEW nx \in Nat, NEW as, NEW as2, as => as2,
           TreeInv(h, nx, as), Freed(h, g, as2)
    PROVE  TreeInv(g, nx, as2)
<1> USE DEF Freed
<1>1. /\ NodesOf(g) \subseteq NodesOf(h) /\ NodesOf(g) \subseteq DOMAIN g
      /\ \A kind : AllOf(g, kind) = AllOf(h, kind) \cap DOMAIN g
      /\ AllOf(g, "folder") = AllOf(h, "folder")
    BY DEF NodesOf, AllOf
<1>2. Guarded(g, as2) \subseteq Guarded(h, as) /\ Guarded(g, as2) \subseteq NodesOf(g)
    BY <1>1 DEF Guarded, NodesOf, AllOf, NodeKind
<1>3. /\ Cells(h, nx) /\ Linked(h, nx) /\ OwnParams(h) /\ Whole(h, as)
      /\ OwnKids(h, as) /\ Folded(h)
    BY DEF TreeInv
<1>4. 0 \notin DOMAIN h
    BY <1>3, BasicTree
<1>5. \A n \in DOMAIN g : ListOf(g, n) = IF h[n].kids \in DOMAIN g THEN ListOf(h, n) ELSE <<>>
    BY DEF ListOf
<1>6. \A n \in DOMAIN g : KidsOf(g, n) \subseteq KidsOf(h, n)
    BY <1>5, ToSetEmpty DEF KidsOf
<1>7. \A m \in Guarded(g, as2) : ListOf(g, m) = ListOf(h, m) /\ KidsOf(g, m) = KidsOf(h, m)
    <2> TAKE m \in Guarded(g, as2)
    <2>1. m \in DOMAIN g
        BY <1>1, <1>2
    <2>2. h[m].kids = 0 => ListOf(h, m) = <<>> /\ ListOf(g, m) = <<>>
        BY <1>4, <1>5, <2>1 DEF ListOf
    <2>3. ListOf(g, m) = ListOf(h, m)
        BY <1>5, <2>1, <2>2
    <2> QED
        BY <2>3 DEF KidsOf
<1>8. Cells(g, nx)
    BY <1>3 DEF Cells
<1>9. Linked(g, nx)
    <2> SUFFICES ASSUME NEW n \in NodesOf(g)
                 PROVE  /\ g[n].kids < nx
                        /\ g[n].kids \in DOMAIN g => g[g[n].kids].kind = "array"
                        /\ g[n].params # 0 => g[n].kind = "eca" /\ g[n].params \in AllOf(g, "params")
                        /\ \A k \in KidsOf(g, n) :
                              k < nx /\ (k \in DOMAIN g => g[k].kind \in Below[g[n].kind])
        BY DEF Linked
    <2>1. n \in NodesOf(h) /\ n \in DOMAIN g /\ g[n] = h[n]
        BY <1>1
    <2>2. /\ h[n].kids < nx
          /\ h[n].kids \in DOMAIN h => h[h[n].kids].kind = "array"
          /\ h[n].params # 0 => h[n].kind = "eca" /\ h[n].params \in AllOf(h, "params")
          /\ \A k \in KidsOf(h, n) :
                k < nx /\ (k \in DOMAIN h => h[k].kind \in Below[h[n].kind])
        BY <1>3, <2>1 DEF Linked
    <2> QED
        BY <1>1, <1>6, <2>1, <2>2
<1>10. OwnParams(g)
    BY <1>1, <1>3 DEF OwnParams
<1>11. Whole(g, as2)
    <2> SUFFICES ASSUME NEW m \in Guarded(g, as2)
                 PROVE  /\ g[m].kids # 0 => g[m].kids \in DOMAIN g
                        /\ IsInjective(ListOf(g, m))
                        /\ ~as2 \/ g[m].kind = "trigger" => KidsOf(g, m) \subseteq DOMAIN g
        BY DEF Whole
    <2>1. m \in Guarded(h, as) /\ g[m] = h[m]
        BY <1>1, <1>2
    <2> QED
        BY <1>3, <1>7, <2>1 DEF Whole
<1>12. OwnKids(g, as2)
    <2> SUFFICES ASSUME NEW m \in Guarded(g, as2), NEW n \in NodesOf(g), m # n
                 PROVE  /\ g[m].kids # 0 => g[m].kids # g[n].kids
                        /\ KidsOf(g, m) \cap KidsOf(g, n) = {}
        BY DEF OwnKids
    <2>1. m \in Guarded(h, as) /\ g[m] = h[m] /\ g[n] = h[n] /\ n \in NodesOf(h) /\ n \in DOMAIN g
        BY <1>1, <1>2
    <2>2. /\ h[m].kids # 0 => h[m].kids # h[n].kids
          /\ KidsOf(h, m) \cap KidsOf(h, n) = {}
        BY <1>3, <2>1 DEF OwnKids
    <2> QED
        BY <1>6, <1>7, <2>1, <2>2
<1>13. Folded(g)
    <2>1. AllOf(g, "folder") \subseteq Guarded(g, as2)
        BY DEF Guarded, AllOf, NodesOf, NodeKind
    <2>2. \A f \in AllOf(g, "folder") : KidsOf(g, f) = KidsOf(h, f)
        BY <1>7, <2>1
    <2> QED
        BY <1>1, <1>3, <2>2 DEF Folded
<1> QED
    BY <1>8, <1>9, <1>10, <1>11, <1>12, <1>13 DEF TreeInv

\* A new list of children leaves a sound tree.
LEMMA RelinkCells ==
    ASSUME NEW h, NEW g, NEW nx \in Nat, NEW as, TreeInv(h, nx, as),
           NEW t, NEW a, Relinked(h, g, t, a)
    PROVE  TreeInv(g, nx, as)
<1> USE DEF Relinked
<1>1. /\ Cells(h, nx) /\ Linked(h, nx) /\ OwnParams(h) /\ Whole(h, as)
      /\ OwnKids(h, as) /\ Folded(h)
    BY DEF TreeInv
<1>2. /\ DOMAIN g = DOMAIN h /\ t \in DOMAIN h /\ \A n \in DOMAIN h : n # t => g[n] = h[n]
      /\ \A n \in DOMAIN h : h[n] \in Cell
    BY <1>1 DEF AllOf, Cells
<1>3. g[t].kids = a /\ g[t] = [h[t] EXCEPT !.kids = a]
    <2>1. g[t] = [h[t] EXCEPT !.kids = a] /\ h[t] \in Cell
        BY <1>2
    <2> QED
        BY <2>1 DEF Cell
<1>4. \A n \in DOMAIN h : /\ g[n].kind = h[n].kind /\ g[n].params = h[n].params
                          /\ g[n].list = h[n].list
    <2>1. /\ g[t].kind = h[t].kind /\ g[t].params = h[t].params
          /\ g[t].list = h[t].list
        BY <1>2, <1>3 DEF Cell
    <2> QED
        BY <1>2, <2>1
<1>5. NodesOf(g) = NodesOf(h) /\ (\A kind : AllOf(g, kind) = AllOf(h, kind)) /\ NodesOf(h) \subseteq DOMAIN h
    BY <1>2, <1>4 DEF NodesOf, AllOf
<1>6. Guarded(g, as) = Guarded(h, as) /\ t \in Guarded(h, as) /\ Guarded(h, as) \subseteq NodesOf(h)
    <2>1. AllOf(h, "folder") \cup AllOf(h, "trigger") \subseteq NodesOf(h)
        BY DEF NodesOf, AllOf, NodeKind
    <2>2. Guarded(g, as) = Guarded(h, as)
        BY <1>5 DEF Guarded
    <2>3. t \in Guarded(h, as) /\ Guarded(h, as) \subseteq NodesOf(h)
        BY <2>1 DEF Guarded
    <2> QED
        BY <2>2, <2>3
<1>7. \A n \in DOMAIN h : n # t => ListOf(g, n) = ListOf(h, n) /\ KidsOf(g, n) = KidsOf(h, n)
    <2> TAKE n \in DOMAIN h
    <2> SUFFICES ASSUME n # t PROVE ListOf(g, n) = ListOf(h, n)
        BY DEF KidsOf
    <2> QED
        BY <1>2, <1>4 DEF ListOf
<1>8. 0 \notin DOMAIN h /\ a # t /\ a \in Pointer
    <2>1. 0 \notin DOMAIN h
        BY <1>1, BasicTree
    <2>2. a \in AllOf(h, "array") => a \in Address /\ a # t
        BY <1>1 DEF Cells, AllOf
    <2>3. t \in Address /\ Address \subseteq Pointer /\ 0 \in Pointer /\ 0 \notin Address
        BY <1>1, <1>2, RegistryAssumption DEF Cells, Address, Pointer
    <2> QED
        BY <2>1, <2>2, <2>3
<1>9. t \in NodesOf(h) /\ KidsOf(h, t) \subseteq DOMAIN h \cup KidsOf(h, t)
    BY <1>6
<1>10. Cells(g, nx)
    <2>1. g[t] \in Cell
        BY <1>2, <1>3, <1>8 DEF Cell
    <2> QED
        BY <1>1, <1>2, <2>1 DEF Cells
<1>11. \A k \in KidsOf(g, t) : k < nx /\ (k \in DOMAIN h => h[k].kind \in Below[h[t].kind])
    <2> TAKE k \in KidsOf(g, t)
    <2>1. CASE k \in KidsOf(h, t)
        BY <1>1, <1>9, <2>1 DEF Linked
    <2>2. CASE k \notin KidsOf(h, t)
        BY <1>1, <2>2 DEF Cells
    <2> QED
        BY <2>1, <2>2
<1>12. Linked(g, nx)
    <2> SUFFICES ASSUME NEW n \in NodesOf(g)
                 PROVE  /\ g[n].kids < nx
                        /\ g[n].kids \in DOMAIN g => g[g[n].kids].kind = "array"
                        /\ g[n].params # 0 => g[n].kind = "eca" /\ g[n].params \in AllOf(g, "params")
                        /\ \A k \in KidsOf(g, n) :
                              k < nx /\ (k \in DOMAIN g => g[k].kind \in Below[g[n].kind])
        BY DEF Linked
    <2>1. /\ h[n].kids < nx
          /\ h[n].kids \in DOMAIN h => h[h[n].kids].kind = "array"
          /\ h[n].params # 0 => h[n].kind = "eca" /\ h[n].params \in AllOf(h, "params")
          /\ \A k \in KidsOf(h, n) :
                k < nx /\ (k \in DOMAIN h => h[k].kind \in Below[h[n].kind])
        BY <1>1, <1>5 DEF Linked
    <2>2. g[n].params # 0 => g[n].kind = "eca" /\ g[n].params \in AllOf(g, "params")
        BY <1>4, <1>5, <2>1
    <2>3. \A k \in DOMAIN h : g[k].kind = h[k].kind
        BY <1>4
    <2>4. CASE n = t
        <3>1. a < nx
            <4>1. nx > 0
                <5>1. t \in Nat /\ t < nx
                    BY <1>1, <1>2 DEF Cells, Address
                <5> QED
                    BY <5>1
            <4> QED
                BY <1>1, <4>1 DEF Cells, AllOf
        <3>2. a \in DOMAIN h => h[a].kind = "array"
            BY <1>8 DEF AllOf
        <3> QED
            BY <1>2, <1>3, <1>5, <1>11, <2>2, <2>3, <2>4, <3>1, <3>2
    <2>5. CASE n # t
        BY <1>2, <1>5, <1>7, <2>1, <2>2, <2>3, <2>5
    <2> QED
        BY <2>4, <2>5
<1>13. OwnParams(g)
    BY <1>1, <1>4, <1>5 DEF OwnParams
<1>14. Whole(g, as)
    <2> SUFFICES ASSUME NEW m \in Guarded(g, as)
                 PROVE  /\ g[m].kids # 0 => g[m].kids \in DOMAIN g
                        /\ IsInjective(ListOf(g, m))
                        /\ ~as \/ g[m].kind = "trigger" => KidsOf(g, m) \subseteq DOMAIN g
        BY DEF Whole
    <2>1. m \in Guarded(h, as) /\ m \in DOMAIN h
        BY <1>5, <1>6
    <2>2. /\ h[m].kids # 0 => h[m].kids \in DOMAIN h
          /\ IsInjective(ListOf(h, m))
          /\ ~as \/ h[m].kind = "trigger" => KidsOf(h, m) \subseteq DOMAIN h
        BY <1>1, <2>1 DEF Whole
    <2>3. CASE m = t
        <3>1. a # 0 => a \in DOMAIN h
            BY DEF AllOf
        <3>2. ASSUME KidsOf(h, t) \subseteq DOMAIN h PROVE KidsOf(g, t) \subseteq DOMAIN h
            BY <3>2
        <3> QED
            BY <1>2, <1>3, <1>4, <2>1, <2>2, <2>3, <3>1, <3>2
    <2>4. CASE m # t
        BY <1>2, <1>7, <2>1, <2>2, <2>4
    <2> QED
        BY <2>3, <2>4
<1>15. OwnKids(g, as)
    <2> SUFFICES ASSUME NEW m \in Guarded(g, as), NEW n \in NodesOf(g), m # n
                 PROVE  /\ g[m].kids # 0 => g[m].kids # g[n].kids
                        /\ KidsOf(g, m) \cap KidsOf(g, n) = {}
        BY DEF OwnKids
    <2>1. m \in Guarded(h, as) /\ m \in DOMAIN h /\ n \in NodesOf(h) /\ n \in DOMAIN h /\ m \in NodesOf(h)
        BY <1>5, <1>6
    <2>2. /\ h[m].kids # 0 => h[m].kids # h[n].kids
          /\ KidsOf(h, m) \cap KidsOf(h, n) = {}
        BY <1>1, <2>1 DEF OwnKids
    <2>3. CASE m = t
        <3>1. g[m].kids = a /\ g[n] = h[n] /\ KidsOf(g, n) = KidsOf(h, n)
            BY <1>2, <1>3, <1>7, <2>1, <2>3
        <3>2. a # 0 => a # h[n].kids
            BY <2>1
        <3> QED
            BY <2>1, <2>2, <2>3, <3>1, <3>2
    <2>4. CASE n = t
        <3>1. g[n].kids = a /\ g[m] = h[m] /\ KidsOf(g, m) = KidsOf(h, m)
            BY <1>2, <1>3, <1>7, <2>1, <2>4
        <3>2. h[m].kids # 0 => h[m].kids # a
            BY <2>1
        <3> QED
            BY <2>1, <2>2, <2>4, <3>1, <3>2
    <2>5. CASE m # t /\ n # t
        BY <1>2, <1>7, <2>1, <2>2, <2>5
    <2> QED
        BY <2>3, <2>4, <2>5
<1>16. Folded(g)
    <2>1. \A f \in AllOf(h, "folder") :
              KidsOf(g, f) \cap AllOf(h, "folder") = KidsOf(h, f) \cap AllOf(h, "folder")
        BY <1>5, <1>7 DEF AllOf
    <2>2. AllOf(g, "folder") = AllOf(h, "folder")
        BY <1>5
    <2>3. \A f, k \in AllOf(h, "folder") : k \in KidsOf(g, f) <=> k \in KidsOf(h, f)
        BY <2>1
    <2> QED
        BY <1>1, <2>2, <2>3 DEF Folded
<1> QED
    BY <1>10, <1>12, <1>13, <1>14, <1>15, <1>16 DEF TreeInv

\* New cells leave a sound tree.
LEMMA ExtendCells ==
    ASSUME NEW h, NEW g, NEW nx \in Nat, NEW nx2 \in Nat, nx <= nx2,
           NEW as, NEW as2, as => as2, TreeInv(h, nx, as),
           Added(h, g, nx, nx2, as2)
    PROVE  TreeInv(g, nx2, as2)
<1> USE DEF Added
<1> DEFINE New == DOMAIN g \ DOMAIN h
<1>1. /\ Cells(h, nx) /\ Linked(h, nx) /\ OwnParams(h) /\ Whole(h, as)
      /\ OwnKids(h, as) /\ Folded(h)
    BY DEF TreeInv
<1>2. \A n \in DOMAIN h : n \in Nat /\ n < nx /\ n # 0
    BY <1>1 DEF Cells, Address
<1>3. \A n \in New : n \in Nat /\ n >= nx /\ n < nx2 /\ n # 0
    BY DEF Address
<1>4. /\ NodesOf(h) = NodesOf(g) \cap DOMAIN h
      /\ \A kind : AllOf(h, kind) = AllOf(g, kind) \cap DOMAIN h
      /\ AllOf(g, "folder") = AllOf(h, "folder")
    BY DEF NodesOf, AllOf, NodeKind
<1>5. /\ Guarded(g, as2) \cap DOMAIN h \subseteq Guarded(h, as)
      /\ Guarded(g, as2) \subseteq NodesOf(g)
      /\ AllOf(g, "trigger") \subseteq NodesOf(g)
    BY <1>4 DEF Guarded, NodesOf, AllOf, NodeKind
\* What the old nodes point to are no new cells.
<1>6. ASSUME NEW n \in NodesOf(h)
      PROVE  /\ g[n] = h[n] /\ n \in DOMAIN h /\ n \in DOMAIN g
             /\ h[n].kids \in Pointer /\ h[n].kids \notin New
             /\ ListOf(g, n) = ListOf(h, n) /\ KidsOf(g, n) = KidsOf(h, n)
             /\ \A k \in KidsOf(h, n) : k \notin New
    <2>1. n \in DOMAIN h /\ g[n] = h[n]
        BY DEF NodesOf
    <2>2. h[n].kids \in Pointer /\ h[n].kids < nx
        BY <1>1, <2>1, BasicTree DEF Linked
    <2>3. h[n].kids \notin New
        BY <1>3, <2>2, RegistryAssumption DEF Pointer
    <2>4. ListOf(g, n) = ListOf(h, n)
        BY <2>1, <2>3 DEF ListOf
    <2>5. ASSUME NEW k \in KidsOf(h, n) PROVE k \notin New
        <3>1. k < nx /\ k \in Nat
            BY <1>1, <2>5, BasicTree, RegistryAssumption DEF Linked, Address
        <3> QED
            BY <1>3, <3>1
    <2> QED
        BY <2>1, <2>2, <2>3, <2>4, <2>5 DEF KidsOf
<1>7. ASSUME NEW n \in NodesOf(g), n \notin DOMAIN h
      PROVE  /\ n \in New /\ g[n] \in Cell /\ g[n].kind \in {"trigger", "eca"}
             /\ g[n].params # 0 => g[n].kind = "eca" /\ g[n].params \in New
             /\ \/ g[n].kids = 0 /\ ListOf(g, n) = <<>> /\ KidsOf(g, n) = {}
                \/ \E e \in AllOf(h, "eca") :
                      /\ as2 /\ g[n].kind = "eca" /\ g[n].kids = h[e].kids
                      /\ KidsOf(g, n) = KidsOf(h, e)
    <2>1. n \in New /\ n \in DOMAIN g /\ g[n].kind \in NodeKind
        BY <1>7 DEF NodesOf
    <2>2. g[n].kind \notin {"array", "params"}
        BY <2>1 DEF NodeKind
    <2>3. CASE g[n].kids = 0
        <3>1. 0 \notin DOMAIN g
            BY <1>2, <1>3
        <3>2. ListOf(g, n) = <<>>
            BY <2>3, <3>1 DEF ListOf
        <3> QED
            BY <2>1, <2>2, <2>3, <3>2, ToSetEmpty DEF KidsOf
    <2>4. CASE g[n].kids # 0
        <3>1. PICK e \in AllOf(h, "eca") : g[n].kids = h[e].kids
            BY <2>1, <2>2, <2>4
        <3>2. e \in NodesOf(h) /\ e \in DOMAIN h
            BY DEF AllOf, NodesOf, NodeKind
        <3>3. ListOf(g, n) = ListOf(g, e)
            BY <1>6, <2>1, <3>1, <3>2 DEF ListOf
        <3>4. KidsOf(g, n) = KidsOf(h, e)
            BY <1>6, <3>2, <3>3 DEF KidsOf
        <3> QED
            BY <2>1, <2>2, <2>4, <3>1, <3>4
    <2> QED
        BY <2>3, <2>4
<1> HIDE DEF New
<1>8. Cells(g, nx2)
    <2> SUFFICES ASSUME NEW n \in DOMAIN g PROVE n \in Address /\ n < nx2 /\ g[n] \in Cell
        BY DEF Cells
    <2>1. CASE n \in DOMAIN h
        BY <1>1, <1>2, <2>1 DEF Cells
    <2>2. CASE n \notin DOMAIN h
        BY <2>2
    <2> QED
        BY <2>1, <2>2
<1>9. Linked(g, nx2)
    <2> SUFFICES ASSUME NEW n \in NodesOf(g)
                 PROVE  /\ g[n].kids < nx2
                        /\ g[n].kids \in DOMAIN g => g[g[n].kids].kind = "array"
                        /\ g[n].params # 0 => g[n].kind = "eca" /\ g[n].params \in AllOf(g, "params")
                        /\ \A k \in KidsOf(g, n) :
                              k < nx2 /\ (k \in DOMAIN g => g[k].kind \in Below[g[n].kind])
        BY DEF Linked
    <2> DEFINE Below_(m) == \A k \in KidsOf(h, m) :
                   k < nx /\ k \in Nat /\ k \notin New /\ (k \in DOMAIN h => h[k].kind \in Below[h[m].kind])
    <2>1. ASSUME NEW m \in NodesOf(h)
          PROVE  /\ h[m].kids < nx /\ h[m].kids \in Nat /\ h[m].kids \notin New
                 /\ h[m].kids \in DOMAIN h => h[h[m].kids].kind = "array"
                 /\ h[m].params # 0 => h[m].kind = "eca" /\ h[m].params \in AllOf(h, "params")
                 /\ \A k \in KidsOf(h, m) :
                       /\ k < nx /\ k \in Nat /\ k \notin New
                       /\ k \in DOMAIN h => h[k].kind \in Below[h[m].kind]
        BY <1>1, <1>6, BasicTree, RegistryAssumption DEF Linked, Pointer, Address
    <2>2. \A k \in DOMAIN g : k \in New \/ (k \in DOMAIN h /\ g[k] = h[k])
        BY DEF New
    <2>3. CASE n \in DOMAIN h
        <3>1. n \in NodesOf(h) /\ g[n] = h[n] /\ KidsOf(g, n) = KidsOf(h, n)
            BY <1>4, <1>6, <2>3
        <3> QED
            BY <1>4, <2>1, <2>2, <3>1
    <2>4. CASE n \notin DOMAIN h
        <3>1. g[n].params # 0 => g[n].kind = "eca" /\ g[n].params \in AllOf(g, "params")
            <4>1. n \in New /\ g[n].kind \notin {"array", "params"}
                BY <1>7, <2>4
            <4> QED
                BY <4>1 DEF New, AllOf
        <3>2. CASE g[n].kids = 0 /\ KidsOf(g, n) = {}
            <4>1. 0 \notin DOMAIN g /\ 0 < nx2
                BY <1>2, <1>3, <1>7, <2>2, <2>4
            <4> QED
                BY <3>1, <3>2, <4>1
        <3>3. ASSUME NEW e \in AllOf(h, "eca"), g[n].kind = "eca", g[n].kids = h[e].kids,
                     KidsOf(g, n) = KidsOf(h, e)
              PROVE  /\ g[n].kids < nx2
                     /\ g[n].kids \in DOMAIN g => g[g[n].kids].kind = "array"
                     /\ \A k \in KidsOf(g, n) :
                           k < nx2 /\ (k \in DOMAIN g => g[k].kind \in Below[g[n].kind])
            <4>1. e \in NodesOf(h) /\ h[e].kind = "eca"
                BY DEF AllOf, NodesOf, NodeKind
            <4> QED
                BY <2>1, <2>2, <3>3, <4>1
        <3> QED
            BY <1>7, <2>4, <3>1, <3>2, <3>3
    <2> QED
        BY <2>3, <2>4
<1>10. OwnParams(g)
    <2> SUFFICES ASSUME NEW m \in NodesOf(g), NEW n \in NodesOf(g), m # n, g[m].params # 0
                 PROVE  g[m].params # g[n].params
        BY DEF OwnParams
    <2>1. \A k \in NodesOf(h) : h[k].params # 0 => h[k].params \in DOMAIN h
        BY <1>1 DEF Linked, AllOf
    <2>2. CASE m \in DOMAIN h /\ n \in DOMAIN h
        BY <1>1, <1>4, <1>6, <2>2 DEF OwnParams
    <2>3. CASE m \in DOMAIN h /\ n \notin DOMAIN h
        BY <1>4, <1>6, <1>7, <2>1, <2>3 DEF New
    <2>4. CASE m \notin DOMAIN h /\ n \in DOMAIN h
        BY <1>4, <1>6, <1>7, <2>1, <2>4 DEF New
    <2>5. CASE m \notin DOMAIN h /\ n \notin DOMAIN h
        BY <1>7, <2>5 DEF New
    <2> QED
        BY <2>2, <2>3, <2>4, <2>5
<1>11. Whole(g, as2)
    <2> SUFFICES ASSUME NEW m \in Guarded(g, as2)
                 PROVE  /\ g[m].kids # 0 => g[m].kids \in DOMAIN g
                        /\ IsInjective(ListOf(g, m))
                        /\ ~as2 \/ g[m].kind = "trigger" => KidsOf(g, m) \subseteq DOMAIN g
        BY DEF Whole
    <2>1. m \in NodesOf(g)
        BY <1>5
    <2>2. CASE m \in DOMAIN h
        <3>1. m \in Guarded(h, as) /\ m \in NodesOf(h)
            BY <1>4, <1>5, <2>1, <2>2
        <3>2. /\ h[m].kids # 0 => h[m].kids \in DOMAIN h
              /\ IsInjective(ListOf(h, m))
              /\ ~as \/ h[m].kind = "trigger" => KidsOf(h, m) \subseteq DOMAIN h
            BY <1>1, <3>1 DEF Whole
        <3>3. g[m] = h[m] /\ ListOf(g, m) = ListOf(h, m) /\ KidsOf(g, m) = KidsOf(h, m)
            BY <1>6, <3>1
        <3> QED
            BY <3>2, <3>3
    <2>3. CASE m \notin DOMAIN h
        <3>1. as2 => g[m].kind # "eca"
            BY DEF Guarded, AllOf
        <3>2. g[m].kids = 0 /\ ListOf(g, m) = <<>> /\ KidsOf(g, m) = {}
            BY <1>7, <2>1, <2>3, <3>1
        <3>3. IsInjective(<<>>)
            BY DEF IsInjective
        <3> QED
            BY <3>2, <3>3
    <2> QED
        BY <2>2, <2>3
<1>12. OwnKids(g, as2)
    <2> SUFFICES ASSUME NEW m \in Guarded(g, as2), NEW n \in NodesOf(g), m # n
                 PROVE  /\ g[m].kids # 0 => g[m].kids # g[n].kids
                        /\ KidsOf(g, m) \cap KidsOf(g, n) = {}
        BY DEF OwnKids
    <2>1. m \in NodesOf(g)
        BY <1>5
    <2>2. CASE m \in DOMAIN h
        <3>1. m \in Guarded(h, as) /\ m \in NodesOf(h) /\ g[m] = h[m] /\ KidsOf(g, m) = KidsOf(h, m)
            BY <1>4, <1>5, <1>6, <2>1, <2>2
        <3>2. CASE n \in DOMAIN h
            <4>1. n \in NodesOf(h) /\ g[n] = h[n] /\ KidsOf(g, n) = KidsOf(h, n)
                BY <1>4, <1>6, <3>2
            <4>2. /\ h[m].kids # 0 => h[m].kids # h[n].kids
                  /\ KidsOf(h, m) \cap KidsOf(h, n) = {}
                BY <1>1, <3>1, <4>1 DEF OwnKids
            <4> QED
                BY <3>1, <4>1, <4>2
        <3>3. CASE n \notin DOMAIN h
            <4>1. CASE g[n].kids = 0 /\ KidsOf(g, n) = {}
                BY <3>1, <4>1
            <4>2. ASSUME NEW e \in AllOf(h, "eca"), as2, g[n].kids = h[e].kids,
                         KidsOf(g, n) = KidsOf(h, e)
                  PROVE  /\ g[m].kids # 0 => g[m].kids # g[n].kids
                         /\ KidsOf(g, m) \cap KidsOf(g, n) = {}
                <5>1. e \in NodesOf(h) /\ h[e].kind = "eca"
                    BY DEF AllOf, NodesOf, NodeKind
                <5>2. g[m].kind # "eca"
                    BY <4>2 DEF Guarded, AllOf
                <5>3. m # e
                    BY <3>1, <5>1, <5>2
                <5>4. /\ h[m].kids # 0 => h[m].kids # h[e].kids
                      /\ KidsOf(h, m) \cap KidsOf(h, e) = {}
                    BY <1>1, <3>1, <5>1, <5>3 DEF OwnKids
                <5> QED
                    BY <3>1, <4>2, <5>4
            <4> QED
                BY <1>7, <3>3, <4>1, <4>2
        <3> QED
            BY <3>2, <3>3
    <2>3. CASE m \notin DOMAIN h
        <3>1. as2 => g[m].kind # "eca"
            BY DEF Guarded, AllOf
        <3>2. g[m].kids = 0 /\ KidsOf(g, m) = {}
            BY <1>7, <2>1, <2>3, <3>1
        <3> QED
            BY <3>2
    <2> QED
        BY <2>2, <2>3
<1>13. Folded(g)
    <2>1. \A f \in AllOf(h, "folder") : KidsOf(g, f) = KidsOf(h, f)
        BY <1>6 DEF AllOf, NodesOf, NodeKind
    <2> QED
        BY <1>1, <1>4, <2>1 DEF Folded
<1> QED
    BY <1>8, <1>9, <1>10, <1>11, <1>12, <1>13 DEF TreeInv

-----------------------------------------------------------------------------
(***************************************************************************)
(* The state                                                               *)
(***************************************************************************)

\* What the user has removed is not there again: no address is used twice.
Past(g, h, nx) == \A n \in g : n < nx /\ n \notin DOMAIN h

\* What the calls keep as long as none was misled: the tree, the cache, and that
\* only a call that went astray, or an index the user has made stale, lets one use
\* what was freed.
Inv ==
    /\ TypeOK /\ ~misled
    /\ TreeInv(heap, next, astray) /\ CacheSound /\ Past(gone, heap, next)
    /\ ~astray => (misuse => ToSet(cache) \cap gone # {})

\* Nothing happens after a call was misled.
Always == TypeOK /\ (misled \/ Inv)

\* The names of the module and those for any heap.
LEMMA Bridge ==
    /\ Nodes = NodesOf(heap) /\ \A kind : Of(kind) = AllOf(heap, kind)
    /\ \A n : Kids(n) = ListOf(heap, n) /\ ToSet(Kids(n)) = KidsOf(heap, n)
BY DEF Nodes, NodesOf, Of, AllOf, Live, Kids, KidsOf

\* What TreeInv says of the state.
LEMMA TreeFacts ==
    ASSUME Inv
    PROVE  /\ next \in Nat /\ astray \in BOOLEAN /\ misuse \in BOOLEAN /\ calls \in 0 .. MaxCalls
           /\ MaxCells \in Nat /\ Live \subseteq Address /\ 0 \notin Live
           /\ Root \in Of("folder")
           /\ Of("folder") \cup Of("trigger") \cup Of("eca") = Nodes /\ Nodes \subseteq Live
           /\ \A n : Kids(n) \in Seq(Address) /\ ToSet(Kids(n)) \subseteq Address
           /\ \A n : n \notin Live => Kids(n) = <<>>
           /\ \A n \in Nodes : \A k \in ToSet(Kids(n)) \cap Live : heap[k].kind \in Below[heap[n].kind]
           /\ \A n \in Nodes : heap[n].params # 0 => heap[n].params \in Of("params")
           /\ \A n \in Of("folder") \cup Of("trigger") :
                 IsInjective(Kids(n)) /\ heap[n].kids \in Live \cup {0}
           /\ \A n \in Of("trigger") : ToSet(Kids(n)) \subseteq Of("eca")
           /\ \A n \in Of("folder") :
                 ToSet(Kids(n)) \subseteq Of("folder") \cup Of("trigger") \cup (Address \ Live)
<1>1. /\ Cells(heap, next) /\ Linked(heap, next) /\ OwnParams(heap) /\ Whole(heap, astray)
      /\ OwnKids(heap, astray) /\ Folded(heap)
    BY DEF Inv, TreeInv
<1>2. next \in Nat /\ astray \in BOOLEAN /\ misuse \in BOOLEAN /\ calls \in 0 .. MaxCalls /\ MaxCells \in Nat
    BY RegistryAssumption DEF Inv, TypeOK
<1>3. Live \subseteq Address /\ 0 \notin Live
    BY <1>1, <1>2, BasicTree DEF Live, Cells
<1>4. Root \in Of("folder")
    BY <1>1, Bridge DEF Folded
<1>5. Of("folder") \cup Of("trigger") \cup Of("eca") = Nodes /\ Nodes \subseteq Live
    BY DEF Of, Nodes, NodeKind
<1>6. \A n : Kids(n) \in Seq(Address) /\ ToSet(Kids(n)) \subseteq Address
    BY <1>1, <1>2, BasicTree, Bridge
<1>7. \A n : n \notin Live => Kids(n) = <<>>
    BY DEF Kids, ListOf, Live
<1>8. \A n \in Nodes : \A k \in ToSet(Kids(n)) \cap Live : heap[k].kind \in Below[heap[n].kind]
    BY <1>1, Bridge DEF Linked, Live
<1>9. \A n \in Nodes : heap[n].params # 0 => heap[n].params \in Of("params")
    BY <1>1, Bridge DEF Linked
<1>10. Of("folder") \cup Of("trigger") \subseteq Guarded(heap, astray)
    BY <1>5, Bridge DEF Guarded
<1>11. ASSUME NEW n \in Of("folder") \cup Of("trigger")
       PROVE  IsInjective(Kids(n)) /\ heap[n].kids \in Live \cup {0}
    BY <1>1, <1>10, Bridge DEF Whole, Live
<1>12. ASSUME NEW n \in Of("trigger") PROVE ToSet(Kids(n)) \subseteq Of("eca")
    <2>1. n \in Nodes /\ heap[n].kind = "trigger"
        BY <1>5 DEF Of
    <2>2. ToSet(Kids(n)) \subseteq Live
        BY <1>1, <1>10, <2>1, Bridge DEF Whole, Live
    <2>3. \A k \in ToSet(Kids(n)) : heap[k].kind \in Below["trigger"]
        BY <1>8, <2>1, <2>2
    <2> QED
        BY <2>2, <2>3 DEF Of, Below
<1>13. ASSUME NEW n \in Of("folder")
       PROVE  ToSet(Kids(n)) \subseteq Of("folder") \cup Of("trigger") \cup (Address \ Live)
    <2>1. n \in Nodes /\ heap[n].kind = "folder"
        BY <1>5 DEF Of
    <2>2. \A k \in ToSet(Kids(n)) \cap Live : heap[k].kind \in Below["folder"]
        BY <1>8, <2>1
    <2> QED
        BY <1>6, <2>2 DEF Of, Below
<1> QED
    BY <1>2, <1>3, <1>4, <1>5, <1>6, <1>7, <1>8, <1>9, <1>11, <1>12, <1>13

\* As long as no call went astray every node the editor has is whole.
LEMMA WholeFacts ==
    ASSUME Inv, ~astray
    PROVE  /\ \A n \in Nodes : Readable(n) /\ ToSet(Kids(n)) \subseteq Nodes
           /\ \A n \in Of("folder") : ToSet(Kids(n)) \subseteq Of("folder") \cup Of("trigger")
           /\ \A n \in Of("eca") : ToSet(Kids(n)) \subseteq Of("eca")
<1>1. Guarded(heap, astray) = Nodes /\ Whole(heap, astray)
    BY Bridge DEF Guarded, Inv, TreeInv
<1>2. \A n \in Nodes : Readable(n) /\ ToSet(Kids(n)) \subseteq Live
    BY <1>1, Bridge DEF Whole, Readable, Live, Nodes
<1>3. ASSUME NEW n \in Of("folder")
      PROVE  ToSet(Kids(n)) \subseteq Of("folder") \cup Of("trigger")
    BY <1>2, TreeFacts
<1>4. ASSUME NEW n \in Of("eca") PROVE ToSet(Kids(n)) \subseteq Of("eca")
    <2>1. n \in Nodes /\ heap[n].kind = "eca"
        BY TreeFacts DEF Of
    <2>2. \A k \in ToSet(Kids(n)) : k \in Live /\ heap[k].kind \in Below["eca"]
        BY <1>2, <2>1, TreeFacts
    <2> QED
        BY <2>2 DEF Of, Below
<1>5. \A n \in Of("trigger") : ToSet(Kids(n)) \subseteq Of("eca")
    BY TreeFacts
<1>6. ASSUME NEW n \in Nodes PROVE ToSet(Kids(n)) \subseteq Nodes
    BY <1>3, <1>4, <1>5, TreeFacts
<1> QED
    BY <1>2, <1>3, <1>4, <1>6

\* No two folders or triggers have a child in common, and folders have ranks.
LEMMA ApartFacts ==
    ASSUME Inv
    PROVE  /\ \A m \in Of("folder") \cup Of("trigger"), n \in Nodes : m # n =>
                 /\ heap[m].kids # 0 => heap[m].kids # heap[n].kids
                 /\ ToSet(Kids(m)) \cap ToSet(Kids(n)) = {}
           /\ \A f \in Of("folder") \ {Root} : \E g \in Of("folder") : f \in ToSet(Kids(g))
           /\ \E rank \in [Of("folder") -> Nat] :
                 \A f, k \in Of("folder") : k \in ToSet(Kids(f)) => rank[k] < rank[f]
<1>1. OwnKids(heap, astray) /\ Folded(heap)
    BY DEF Inv, TreeInv
<1>2. Of("folder") \cup Of("trigger") \subseteq Guarded(heap, astray)
    BY Bridge, TreeFacts DEF Guarded
<1>3. ASSUME NEW m \in Of("folder") \cup Of("trigger"), NEW n \in Nodes, m # n
      PROVE  /\ heap[m].kids # 0 => heap[m].kids # heap[n].kids
             /\ ToSet(Kids(m)) \cap ToSet(Kids(n)) = {}
    <2>1. m \in Guarded(heap, astray) /\ n \in NodesOf(heap)
        BY <1>2, Bridge
    <2>2. /\ heap[m].kids # 0 => heap[m].kids # heap[n].kids
          /\ KidsOf(heap, m) \cap KidsOf(heap, n) = {}
        BY <1>1, <1>3, <2>1 DEF OwnKids
    <2> QED
        BY <2>2, Bridge
<1>4. \A f \in Of("folder") \ {Root} : \E g \in Of("folder") : f \in ToSet(Kids(g))
    BY <1>1, Bridge DEF Folded
<1>5. \E rank \in [Of("folder") -> Nat] :
          \A f, k \in Of("folder") : k \in ToSet(Kids(f)) => rank[k] < rank[f]
    <2>1. PICK rank \in [AllOf(heap, "folder") -> Address] :
              \A f, k \in AllOf(heap, "folder") : k \in KidsOf(heap, f) => rank[k] < rank[f]
        BY <1>1 DEF Folded
    <2>2. rank \in [Of("folder") -> Nat]
        BY <2>1, Bridge DEF Address
    <2>3. \A f, k \in Of("folder") : k \in ToSet(Kids(f)) => rank[k] < rank[f]
        BY <2>1, Bridge
    <2> QED
        BY <2>2, <2>3
<1> QED
    BY <1>3, <1>4, <1>5

-----------------------------------------------------------------------------
(***************************************************************************)
(* Traversals of the tree                                                  *)
(***************************************************************************)

\* Where a traversal from a folder may come: folders, triggers, and children that
\* were freed.
Spread == Of("folder") \cup Of("trigger") \cup (Address \ Live)

\* A traversal into nodes that exist, and into no trigger with children.
Entering(Into) == Into \subseteq Live /\ \A n \in Into \cap Of("trigger") : Kids(n) = <<>>

\* What a traversal has to visit after a node.
LEMMA PushedFacts ==
    ASSUME Inv, NEW Into, Entering(Into), NEW n \in Spread
    PROVE  /\ Pushed(n, Into) \in Seq(Spread) /\ IsInjective(Pushed(n, Into))
           /\ ToSet(Pushed(n, Into)) \subseteq ToSet(Kids(n))
           /\ n \notin Of("folder") => Pushed(n, Into) = <<>>
<1>1. <<>> \in Seq(Spread) /\ IsInjective(<<>>) /\ ToSet(<<>>) = {}
    BY ToSetEmpty DEF IsInjective
<1>2. n \notin Of("folder") => Pushed(n, Into) = <<>>
    BY TreeFacts DEF Pushed, Entering, Spread
<1>3. CASE Pushed(n, Into) = <<>>
    BY <1>1, <1>3
<1>4. CASE Pushed(n, Into) # <<>>
    <2>1. n \in Of("folder") /\ Pushed(n, Into) = Kids(n)
        BY <1>2, <1>4 DEF Pushed
    <2>2. Kids(n) \in Seq(Address) /\ ToSet(Kids(n)) \subseteq Spread /\ IsInjective(Kids(n))
        BY <2>1, TreeFacts DEF Spread
    <2>3. \A i \in 1 .. Len(Kids(n)) : Kids(n)[i] \in Spread
        BY <2>2, ToSetOf
    <2>4. Kids(n) \in Seq(Spread)
        BY <2>2, <2>3
    <2> QED
        BY <1>2, <2>1, <2>2, <2>4
<1> QED
    BY <1>3, <1>4

\* A traversal visits each folder and trigger once.
LEMMA Traversal ==
    ASSUME Inv, NEW root \in Of("folder"), NEW Into, Entering(Into)
    PROVE  Visits(root, Into) \in Seq(Spread) /\ IsInjective(Visits(root, Into))
<1> DEFINE D == Spread
           F == Of("folder")
<1>1. root \in D /\ root \in F /\ MaxCells \in Nat /\ D \cap Live \subseteq Nodes
    BY TreeFacts DEF Spread
<1>2. PICK rank \in [F -> Nat] : \A f, k \in F : k \in ToSet(Kids(f)) => rank[k] < rank[f]
    BY ApartFacts
<1>3. ASSUME NEW n \in D
      PROVE  /\ Pushed(n, Into) \in Seq(D) /\ IsInjective(Pushed(n, Into))
             /\ n \notin F => Pushed(n, Into) = <<>>
             /\ \A k \in ToSet(Pushed(n, Into)) \cap F : rank[k] < rank[n]
    <2>1. /\ Pushed(n, Into) \in Seq(D) /\ IsInjective(Pushed(n, Into))
          /\ ToSet(Pushed(n, Into)) \subseteq ToSet(Kids(n))
          /\ n \notin F => Pushed(n, Into) = <<>>
        BY PushedFacts
    <2>2. ASSUME NEW k \in ToSet(Pushed(n, Into)) \cap F PROVE rank[k] < rank[n]
        <3>1. n \in F
            BY <2>1, <2>2, ToSetEmpty
        <3> QED
            BY <1>2, <2>1, <2>2, <3>1
    <2> QED
        BY <2>1, <2>2
<1>4. ASSUME NEW m \in D, NEW n \in D, m # n
      PROVE  ToSet(Pushed(m, Into)) \cap ToSet(Pushed(n, Into)) = {}
    <2>1. /\ ToSet(Pushed(m, Into)) \subseteq ToSet(Kids(m))
          /\ ToSet(Pushed(n, Into)) \subseteq ToSet(Kids(n))
          /\ m \notin F => ToSet(Pushed(m, Into)) = {}
          /\ n \notin F => ToSet(Pushed(n, Into)) = {}
        BY PushedFacts, ToSetEmpty
    <2>2. m \in F /\ n \in F => ToSet(Kids(m)) \cap ToSet(Kids(n)) = {}
        BY <1>4, ApartFacts, TreeFacts
    <2> QED
        BY <2>1, <2>2
<1> HIDE DEF D, F
<1>5. Visits(root, Into) \in Seq(D)
    BY <1>1, <1>3, VisitsType
<1>6. IsInjective(Visits(root, Into))
    BY <1>1, <1>2, <1>3, <1>4, VisitsOnce
<1> QED
    BY <1>5, <1>6 DEF D

\* A trigger begins with an ECA unless it is empty, a folder never does.
LEMMA TriggersTold ==
    ASSUME Inv
    PROVE  /\ \A n \in Of("trigger") : IsTrigger(n) <=> Kids(n) # <<>>
           /\ \A n \in Of("folder") : ~IsTrigger(n)
<1>1. ASSUME NEW n, Kids(n) # <<>> PROVE Kids(n)[1] \in ToSet(Kids(n))
    <2>1. Kids(n) \in Seq(Address) /\ Len(Kids(n)) \in Nat /\ Len(Kids(n)) # 0
        BY <1>1, TreeFacts
    <2>2. 1 \in 1 .. Len(Kids(n))
        BY <2>1
    <2> QED
        BY <2>1, <2>2, ToSetOf
<1>2. ASSUME NEW n \in Of("trigger"), Kids(n) # <<>> PROVE IsTrigger(n)
    <2>1. Kids(n)[1] \in Of("eca")
        BY <1>1, <1>2, TreeFacts
    <2> QED
        BY <1>2, <2>1 DEF IsTrigger, Of
<1>3. ASSUME NEW n \in Of("folder"), IsTrigger(n) PROVE FALSE
    <2>1. Kids(n)[1] \in ToSet(Kids(n)) /\ Kids(n)[1] \in Of("eca")
        BY <1>1, <1>3 DEF IsTrigger, Of
    <2>2. Kids(n)[1] \in Of("folder") \cup Of("trigger") \cup (Address \ Live)
        BY <2>1, TreeFacts
    <2> QED
        BY <2>1, <2>2 DEF Of
<1> QED
    BY <1>2, <1>3 DEF IsTrigger

\* walk_tree and a compile are such traversals.
LEMMA EnteringWalk ==
    ASSUME Inv
    PROVE  /\ Entering({n \in Live : Valid(n) /\ ~IsTrigger(n)})
           /\ Entering(Of("folder"))
BY TriggersTold DEF Entering, Of

\* What a walk or a compile lists.
LEMMA Listing ==
    ASSUME Inv, NEW root \in Of("folder"), NEW Into, Entering(Into), NEW S,
           S \cap Spread \subseteq Of("trigger")
    PROVE  LET seen == Among(Visits(root, Into), S)
           IN  seen \in Seq(Address) /\ IsInjective(seen) /\ ToSet(seen) \subseteq Of("trigger")
<1> DEFINE V == Visits(root, Into)
           seen == Among(V, S)
<1>1. V \in Seq(Spread) /\ IsInjective(V)
    BY Traversal
<1> HIDE DEF V
<1>2. seen \in Seq(Spread) /\ ToSet(seen) = ToSet(V) \cap S /\ IsInjective(seen)
    BY <1>1, AmongElements, AmongInjective
<1>3. Spread \subseteq Address
    BY TreeFacts DEF Spread
<1> HIDE DEF seen
<1>4. seen \in Seq(Address)
    BY <1>2, <1>3
<1>5. ToSet(seen) \subseteq Of("trigger")
    BY <1>1, <1>2, ToSetOf
<1> QED
    BY <1>2, <1>4, <1>5 DEF V, seen

\* What walk_tree lists are triggers, each once.
LEMMA WalkSound ==
    ASSUME Inv, NEW root \in Of("folder")
    PROVE  /\ Walk(root) \in Seq(Address) /\ IsInjective(Walk(root))
           /\ ToSet(Walk(root)) \subseteq Of("trigger")
<1> DEFINE S == {n \in Live : Valid(n) /\ IsTrigger(n)}
<1>1. S \cap Spread \subseteq Of("trigger")
    BY TriggersTold DEF Spread
<1> HIDE DEF S
<1>2. LET seen == Among(Walked(root), S)
      IN  seen \in Seq(Address) /\ IsInjective(seen) /\ ToSet(seen) \subseteq Of("trigger")
    BY <1>1, EnteringWalk, Listing DEF Walked
<1> QED
    BY <1>2 DEF Walk, S

\* What a compile captures are triggers, each once.
LEMMA CompiledSound ==
    ASSUME Inv
    PROVE  /\ Compiled \in Seq(Address) /\ IsInjective(Compiled)
           /\ ToSet(Compiled) \subseteq Of("trigger")
<1>1. Of("trigger") \cap Spread \subseteq Of("trigger") /\ Root \in Of("folder")
    BY TreeFacts
<1>2. LET seen == Among(Visits(Root, Of("folder")), Of("trigger"))
      IN  seen \in Seq(Address) /\ IsInjective(seen) /\ ToSet(seen) \subseteq Of("trigger")
    BY <1>1, EnteringWalk, Listing
<1> QED
    BY <1>2 DEF Compiled

\* The root found is a folder, or none, unless the call was misled.
LEMMA RootsAre ==
    ASSUME NEW root, Found(root), ~misled'
    PROVE  root \in Of("folder") \cup {0}
BY DEF Found

\* No call finds what was freed as long as none went astray.
LEMMA AllReadable ==
    ASSUME Inv, ~astray
    PROVE  /\ TreeReadable
           /\ CacheReadable \/ ToSet(cache) \cap gone # {}
           /\ \A root \in Of("folder") \cup {0} : WalkReadable(root)
<1>1. \A n \in Nodes : Readable(n) /\ ToSet(Kids(n)) \subseteq Nodes
    BY WholeFacts
<1>2. TreeReadable
    <2>1. Under(Root) \subseteq Nodes
        BY <1>1, ReachedIn, TreeFacts
    <2> QED
        BY <1>1, <2>1 DEF TreeReadable
<1>3. CacheReadable \/ ToSet(cache) \cap gone # {}
    <2> SUFFICES ASSUME ToSet(cache) \cap gone = {} PROVE CacheReadable
        OBVIOUS
    <2>1. \A t \in ToSet(cache) : t \in Nodes
        BY TreeFacts DEF Inv, CacheSound
    <2> QED
        BY <1>1, <2>1 DEF CacheReadable, Searchable
<1>4. ASSUME NEW root \in Of("folder"), root # 0 PROVE WalkReadable(root)
    <2> DEFINE D == Of("folder") \cup Of("trigger")
               Into == {n \in Live : Valid(n) /\ ~IsTrigger(n)}
    <2>1. root \in D /\ root \in Of("folder") /\ D \subseteq Nodes /\ D \subseteq Spread /\ MaxCells \in Nat
        BY <1>4, TreeFacts DEF Spread
    <2>2. Entering(Into)
        BY EnteringWalk
    <2> HIDE DEF Into
    <2>3. ASSUME NEW n \in D PROVE Pushed(n, Into) \in Seq(D)
        <3>1. Pushed(n, Into) \in Seq(Spread) /\ ToSet(Pushed(n, Into)) \subseteq ToSet(Kids(n))
            BY <2>1, <2>2, PushedFacts
        <3>2. n \notin Of("folder") => Pushed(n, Into) = <<>>
            BY <2>1, <2>2, PushedFacts
        <3>3. n \in Of("folder") => ToSet(Pushed(n, Into)) \subseteq D
            BY <3>1, WholeFacts
        <3>4. ToSet(Pushed(n, Into)) \subseteq D
            BY <3>2, <3>3, ToSetEmpty
        <3>5. \A i \in 1 .. Len(Pushed(n, Into)) : Pushed(n, Into)[i] \in D
            BY <3>1, <3>4, ToSetOf
        <3> QED
            BY <3>1, <3>5
    <2> HIDE DEF D
    <2>4. Visits(root, Into) \in Seq(D)
        BY <2>1, <2>3, VisitsType
    <2>5. ToSet(Walked(root)) \subseteq Nodes
        BY <2>1, <2>4, ToSetOf DEF Walked, Into
    <2> QED
        BY <1>1, <2>5 DEF WalkReadable
<1> QED
    BY <1>2, <1>3, <1>4 DEF WalkReadable

\* The ECAs of a trigger of the cache that a call looks for.
LEMMA OfTypeIn ==
    ASSUME Inv, NEW t \in Of("trigger"), NEW type
    PROVE  /\ OfType(t, type) \in Seq(Of("eca")) /\ Comments(t) \in Seq(Of("eca"))
           /\ ToSet(OfType(t, type)) \subseteq ToSet(Kids(t))
<1>1. Kids(t) \in Seq(Address) /\ ToSet(Kids(t)) \subseteq Of("eca")
    BY TreeFacts
<1>2. \A i \in 1 .. Len(Kids(t)) : Kids(t)[i] \in Of("eca")
    BY <1>1, ToSetOf
<1>3. Kids(t) \in Seq(Of("eca"))
    BY <1>1, <1>2
<1> QED
    BY <1>3, AmongElements DEF OfType, Comments

\* The first element of sequences that are not all empty.
LEMMA FirstIn ==
    ASSUME NEW T, NEW n \in Nat, NEW seqs, DOMAIN seqs = 1 .. n,
           \A k \in 1 .. n : seqs[k] \in Seq(T),
           \E k \in 1 .. n : seqs[k] # <<>>
    PROVE  FirstOf(seqs) \in T
<1> DEFINE P(k) == k \in DOMAIN seqs /\ seqs[k] # <<>> /\ \A j \in 1 .. k - 1 : seqs[j] = <<>>
           S == {k \in 1 .. n : seqs[k] # <<>>}
           c == CHOOSE k \in DOMAIN seqs : seqs[k] # <<>> /\ \A j \in 1 .. k - 1 : seqs[j] = <<>>
<1>1. S \subseteq Nat /\ S # {}
    OBVIOUS
<1>2. PICK k \in S : \A j \in S : ~ (j < k)
    BY <1>1, LeastElement
<1>3. \A j \in 1 .. k - 1 : j \in 1 .. n /\ j < k
    BY <1>2
<1>4. k \in DOMAIN seqs /\ seqs[k] # <<>> /\ \A j \in 1 .. k - 1 : seqs[j] = <<>>
    BY <1>2, <1>3
<1>5. c \in DOMAIN seqs /\ seqs[c] # <<>>
    BY <1>4
<1> HIDE DEF c
<1>6. Head(seqs[c]) \in T
    BY <1>5, HeadTail
<1> QED
    BY <1>6 DEF FirstOf, c

\* A cache that can be searched has no index the user has made stale.
LEMMA ReadableCache ==
    ASSUME Inv, CacheReadable
    PROVE  ToSet(cache) \subseteq Of("trigger")
<1>1. ToSet(cache) \subseteq Live
    BY DEF CacheReadable, Searchable, Readable
<1>2. gone \cap Live = {}
    BY DEF Inv, Past, Live
<1> QED
    BY <1>1, <1>2 DEF Inv, CacheSound

\* What AddEca copies is an ECA there is.
LEMMA SourceIn ==
    ASSUME Inv, CacheReadable, NEW i \in DOMAIN cache, NEW type, \E k \in DOMAIN cache : OfType(cache[k], type) # <<>>
    PROVE  Source(i, type) \in Of("eca")
<1> DEFINE comments == [k \in DOMAIN cache |-> Comments(cache[k])]
           alike == [k \in DOMAIN cache |-> OfType(cache[k], type)]
           n == Len(cache)
<1>1. n \in Nat /\ DOMAIN cache = 1 .. n /\ \A k \in 1 .. n : cache[k] \in Of("trigger")
    <2>1. cache \in Seq(Address) /\ ToSet(cache) \subseteq Of("trigger")
        BY ReadableCache DEF Inv, TypeOK
    <2> QED
        BY <2>1, ToSetOf
<1> HIDE DEF n
<1>2. /\ DOMAIN comments = 1 .. n /\ \A k \in 1 .. n : comments[k] \in Seq(Of("eca"))
      /\ DOMAIN alike = 1 .. n /\ \A k \in 1 .. n : alike[k] \in Seq(Of("eca"))
    BY <1>1, OfTypeIn
<1>3. \E k \in 1 .. n : alike[k] # <<>>
    BY <1>1
<1>4. Source(i, type) =
          IF type = 2 /\ \E k \in DOMAIN cache : comments[k] # <<>> THEN FirstOf(comments)
          ELSE IF alike[i] # <<>> THEN Head(alike[i]) ELSE FirstOf(alike)
    BY DEF Source
<1> HIDE DEF comments, alike
<1>5. CASE type = 2 /\ \E k \in DOMAIN cache : comments[k] # <<>>
    <2>1. \E k \in 1 .. n : comments[k] # <<>>
        BY <1>1, <1>5
    <2>2. FirstOf(comments) \in Of("eca")
        BY <1>1, <1>2, <2>1, FirstIn
    <2> QED
        BY <1>4, <1>5, <2>2
<1>6. CASE ~ (type = 2 /\ \E k \in DOMAIN cache : comments[k] # <<>>) /\ alike[i] # <<>>
    BY <1>1, <1>2, <1>4, <1>6, HeadTail
<1>7. CASE ~ (type = 2 /\ \E k \in DOMAIN cache : comments[k] # <<>>) /\ alike[i] = <<>>
    <2>1. FirstOf(alike) \in Of("eca")
        BY <1>1, <1>2, <1>3, FirstIn
    <2> QED
        BY <1>4, <1>7, <2>1
<1> QED
    BY <1>5, <1>6, <1>7

-----------------------------------------------------------------------------
(***************************************************************************)
(* Nodes that get a child                                                  *)
(***************************************************************************)

\* The array of a list.
LEMMA ArrayIsCell ==
    ASSUME NEW l \in Seq(Address), NEW near \in BOOLEAN
    PROVE  Array(l, near) \in Cell /\ Array(l, near).kind = "array" /\ Array(l, near).list = l
BY RegistryAssumption DEF Array, Cell, Kind, Pointer, Type

\* A call that only takes addresses.
LEMMA TakeAddresses ==
    ASSUME NEW h, NEW nx \in Nat, NEW nx2 \in Nat, nx <= nx2, NEW as, NEW as2,
           as => as2, TreeInv(h, nx, as)
    PROVE  TreeInv(h, nx2, as2)
<1>1. Added(h, h, nx, nx2, as2)
    BY DEF Added
<1> QED
    BY <1>1, ExtendCells

\* Cells at new addresses, the first of them a node, the second a list with it for
\* another node, the third its parameters.
LEMMA Grow ==
    ASSUME Inv, NEW as2, astray => as2,
           NEW t \in Of("folder") \cup Of("trigger"), NEW near \in BOOLEAN,
           NEW cells \in Seq(Cell), Len(cells) \in {2, 3}, next + Len(cells) - 1 <= MaxCells,
           cells[1].kind \in Below[heap[t].kind] \cap {"trigger", "eca"},
           cells[1].kids # 0 =>
               as2 /\ cells[1].kind = "eca" /\ \E e \in Of("eca") : cells[1].kids = heap[e].kids,
           cells[1].params # 0 =>
               cells[1].kind = "eca" /\ cells[1].params = next + 2 /\ Len(cells) = 3,
           cells[2] = Array(Append(Kids(t), next), near),
           Len(cells) = 3 => cells[3].kind = "params"
    PROVE  LET g == Place([heap EXCEPT ![t].kids = next + 1], cells)
           IN  /\ TreeInv(g, next + Len(cells), as2)
               /\ \A kind : Of(kind) \subseteq AllOf(g, kind)
               /\ next \in AllOf(g, cells[1].kind)
<1> DEFINE h == Place(heap, cells)
           g == Place([heap EXCEPT ![t].kids = next + 1], cells)
           nx == next + Len(cells)
<1>1. /\ next \in Nat /\ nx \in Nat /\ next <= nx /\ MaxCells \in Nat /\ Len(cells) \in Nat
      /\ TreeInv(heap, next, astray) /\ astray \in BOOLEAN /\ Live \subseteq Address
      /\ Linked(heap, next) /\ Cells(heap, next)
    BY SMTT(30), TreeFacts DEF Inv, TreeInv
<1>2. \A n \in Live : n < next /\ n \in Nat /\ n # 0 /\ heap[n] \in Cell
    BY <1>1 DEF Cells, Live, Address
<1>3. next # 0
    BY <1>1, <1>2, TreeFacts
<1>4. /\ DOMAIN h = Live \cup (next .. nx - 1)
      /\ \A n \in Live : h[n] = heap[n]
      /\ \A n \in next .. nx - 1 : n \notin Live /\ h[n] = cells[n - next + 1]
    <2>1. next + Len(cells) - 1 = nx - 1
        BY <1>1
    <2>2. \A n \in next .. nx - 1 : n \notin Live
        BY <1>1, <1>2
    <2>3. next .. next + Len(cells) - 1 = next .. nx - 1
        BY <2>1
    <2>4. /\ DOMAIN h = DOMAIN heap \cup (next .. next + Len(cells) - 1)
          /\ \A n \in DOMAIN heap : h[n] = heap[n]
          /\ \A n \in next .. next + Len(cells) - 1 : n \notin DOMAIN heap => h[n] = cells[n - next + 1]
        BY <1>1 DEF Place
    <2> QED
        BY <2>2, <2>3, <2>4 DEF Live
<1>5. t \in Live /\ t \in Nodes
    BY TreeFacts
<1>6. /\ DOMAIN g = DOMAIN h /\ g[t] = [heap[t] EXCEPT !.kids = next + 1]
      /\ \A n \in DOMAIN h : n # t => g[n] = h[n]
    <2> DEFINE f == [heap EXCEPT ![t].kids = next + 1]
    <2>1. DOMAIN f = Live /\ f[t] = [heap[t] EXCEPT !.kids = next + 1]
          /\ \A n \in Live : n # t => f[n] = heap[n]
        BY <1>5 DEF Live
    <2> HIDE DEF f
    <2>2. /\ DOMAIN Place(f, cells) = Live \cup (next .. nx - 1)
          /\ \A n \in Live : Place(f, cells)[n] = f[n]
          /\ \A n \in next .. nx - 1 : n \notin Live => Place(f, cells)[n] = cells[n - next + 1]
        <3>1. next .. next + Len(cells) - 1 = next .. nx - 1
            BY <1>1
        <3>2. /\ DOMAIN Place(f, cells) = DOMAIN f \cup (next .. next + Len(cells) - 1)
              /\ \A n \in DOMAIN f : Place(f, cells)[n] = f[n]
              /\ \A n \in next .. next + Len(cells) - 1 :
                    n \notin DOMAIN f => Place(f, cells)[n] = cells[n - next + 1]
            BY <1>1 DEF Place
        <3> QED
            BY <2>1, <3>1, <3>2
    <2>3. g = Place(f, cells)
        BY DEF f
    <2> HIDE DEF g, h, nx
    <2> QED
        BY <1>4, <1>5, <2>1, <2>2, <2>3
<1>7. g = [h EXCEPT ![t].kids = next + 1]
    <2>1. t \in DOMAIN h /\ h[t] = heap[t]
        BY <1>4, <1>5
    <2>2. g = [n \in DOMAIN h |-> g[n]] /\ h = [n \in DOMAIN h |-> h[n]]
        BY <1>6 DEF Place
    <2>3. [h EXCEPT ![t].kids = next + 1] =
              [n \in DOMAIN h |-> IF n = t THEN [h[t] EXCEPT !.kids = next + 1] ELSE h[n]]
        BY <2>1, <2>2
    <2> QED
        BY <1>6, <2>1, <2>2, <2>3
<1> HIDE DEF h, g
<1>8. /\ next \in next .. nx - 1 /\ next + 1 \in next .. nx - 1
      /\ Len(cells) = 3 => next + 2 \in next .. nx - 1
      /\ \A n \in next .. nx - 1 : n = next \/ n = next + 1 \/ (n = next + 2 /\ Len(cells) = 3)
      /\ next - next + 1 = 1 /\ next + 1 - next + 1 = 2 /\ next + 2 - next + 1 = 3
      /\ next # next + 1 /\ next # next + 2
    <2>1. CASE Len(cells) = 2
        <3>1. nx - 1 = next + 1
            BY <1>1, <2>1
        <3> HIDE DEF nx
        <3>2. next \in next .. nx - 1 /\ next + 1 \in next .. nx - 1
              /\ \A n \in next .. nx - 1 : n = next \/ n = next + 1
            BY <1>1, <3>1
        <3>3. next - next + 1 = 1 /\ next + 1 - next + 1 = 2 /\ next + 2 - next + 1 = 3
              /\ next # next + 1 /\ next # next + 2
            BY <1>1
        <3>4. Len(cells) # 3
            BY <2>1
        <3> QED
            BY <3>2, <3>3, <3>4
    <2>2. CASE Len(cells) = 3
        <3>1. nx - 1 = next + 2
            BY <1>1, <2>2
        <3> HIDE DEF nx
        <3> QED
            BY <1>1, <2>2, <3>1
    <2> QED
        BY <2>1, <2>2
<1> HIDE DEF nx
<1>9. /\ h[next] = cells[1] /\ h[next + 1] = cells[2] /\ h[next + 1].kind = "array"
      /\ h[next + 1].list = Append(Kids(t), next)
      /\ Len(cells) = 3 => h[next + 2] = cells[3] /\ h[next + 2].kind = "params"
    <2>1. Append(Kids(t), next) \in Seq(Address)
        <3>1. Kids(t) \in Seq(Address)
            BY TreeFacts
        <3>2. next \in Address
            BY <1>1, <1>3 DEF Address
        <3> QED
            BY <3>1, <3>2
    <2>2. cells[2].kind = "array" /\ cells[2].list = Append(Kids(t), next)
        BY DEF Array
    <2>3. h[next] = cells[1] /\ h[next + 1] = cells[2]
        BY SMTT(30), <1>4, <1>8
    <2>4. Len(cells) = 3 => h[next + 2] = cells[3]
        BY <1>4, <1>8
    <2> QED
        BY <2>2, <2>3, <2>4
<1>10. TreeInv(h, nx, as2)
    <2>1. DOMAIN heap \subseteq DOMAIN h /\ \A n \in DOMAIN heap : h[n] = heap[n]
        BY <1>4 DEF Live
    <2>2. \A n \in DOMAIN h \ DOMAIN heap : n \in next .. nx - 1
        BY <1>4 DEF Live
    <2>3. ASSUME NEW n \in DOMAIN h \ DOMAIN heap
          PROVE  /\ n \in Address /\ next <= n /\ n < nx /\ h[n] \in Cell
                 /\ \/ h[n].kind \in {"array", "params"}
                    \/ /\ h[n].kind \in {"trigger", "eca"}
                       /\ h[n].kids # 0 =>
                             /\ as2 /\ h[n].kind = "eca"
                             /\ \E e \in AllOf(heap, "eca") : h[n].kids = heap[e].kids
                       /\ h[n].params # 0 =>
                             /\ h[n].kind = "eca" /\ h[n].params \in DOMAIN h \ DOMAIN heap
                             /\ h[h[n].params].kind = "params"
        <3>1. n \in next .. nx - 1
            BY <2>2
        <3>2. n \in Address /\ next <= n /\ n < nx
            BY <1>1, <1>3, <3>1 DEF Address, nx
        <3>3. h[n] \in Cell
            <4>1. n - next + 1 \in 1 .. Len(cells)
                BY <1>1, <3>1 DEF nx
            <4> QED
                BY <1>4, <3>1, <4>1
        <3>4. CASE n = next
            <4>1. next + 2 \in next .. nx - 1 => next + 2 \in DOMAIN h \ DOMAIN heap
                BY <1>4 DEF Live
            <4> QED
                BY <1>8, <1>9, <3>2, <3>3, <3>4, <4>1, Bridge
        <3>5. CASE n # next
            BY <1>8, <1>9, <3>1, <3>2, <3>3, <3>5
        <3> QED
            BY <3>4, <3>5
    <2>4. \A m, n \in (DOMAIN h \ DOMAIN heap) \cap NodesOf(h) : m = n
        <3>1. \A n \in (DOMAIN h \ DOMAIN heap) \cap NodesOf(h) : n = next
            BY <1>8, <1>9, <2>2 DEF NodesOf, NodeKind
        <3> QED
            BY <3>1
    <2>5. Added(heap, h, next, nx, as2)
        BY <2>1, <2>3, <2>4 DEF Added
    <2> QED
        BY <1>1, <2>5, ExtendCells
\* What the nodes there were point to.
<1>11. ASSUME NEW n \in Nodes
       PROVE  /\ n \in NodesOf(h) /\ heap[n].kids < next /\ heap[n].kids \in Pointer
              /\ ListOf(h, n) = Kids(n) /\ KidsOf(h, n) = ToSet(Kids(n))
              /\ \A k \in ToSet(Kids(n)) : k < next
    <2>1. n \in Live /\ h[n] = heap[n] /\ n \in NodesOf(h) /\ n \in NodesOf(heap)
        BY <1>4, TreeFacts, Bridge DEF NodesOf, Nodes
    <2>2. heap[n].kids < next /\ heap[n].kids \in Pointer /\ \A k \in KidsOf(heap, n) : k < next
        BY <1>1, <2>1, BasicTree DEF Linked, Live
    <2>3. heap[n].kids \notin next .. nx - 1
        BY <1>1, <2>2, RegistryAssumption DEF Pointer
    <2>4. ListOf(h, n) = Kids(n)
        BY <1>4, <2>1, <2>3 DEF ListOf, Kids, Live
    <2> QED
        BY <2>1, <2>2, <2>4, Bridge DEF KidsOf
<1>12. ASSUME NEW n \in NodesOf(h), n \notin Nodes
       PROVE  /\ n = next /\ h[n].kids # next + 1 /\ next \notin KidsOf(h, n)
    <2>1. n \in DOMAIN h /\ n \notin Live /\ h[n].kind \in NodeKind
        BY <1>4, <1>12 DEF NodesOf, Nodes
    <2>2. n = next
        BY <1>4, <1>8, <1>9, <2>1 DEF NodeKind
    <2>3. CASE h[n].kids = 0
        <3>1. 0 \notin DOMAIN h
            BY <1>1, <1>10, BasicTree DEF TreeInv
        <3>2. ListOf(h, n) = <<>>
            BY <2>3, <3>1 DEF ListOf
        <3> QED
            BY <1>1, <2>2, <2>3, <3>2, ToSetEmpty DEF KidsOf
    <2>4. CASE h[n].kids # 0
        <3>1. PICK e \in Of("eca") : h[n].kids = heap[e].kids
            BY <1>9, <2>2, <2>4
        <3>2. e \in Nodes /\ h[e] = heap[e] /\ e \in DOMAIN h
            BY <1>4, TreeFacts
        <3>3. ListOf(h, n) = ListOf(h, e)
            BY <2>1, <3>1, <3>2 DEF ListOf
        <3>4. heap[e].kids < next /\ heap[e].kids \in Pointer /\ \A k \in KidsOf(h, e) : k < next
            BY <1>11, <3>2
        <3>5. ~ (next + 1 < next) /\ ~ (next < next)
            BY <1>1
        <3> QED
            BY <2>2, <3>1, <3>3, <3>4, <3>5 DEF KidsOf
    <2> QED
        BY <2>2, <2>3, <2>4
<1>13. ListOf(g, t) = Append(Kids(t), next) /\ KidsOf(g, t) = ToSet(Kids(t)) \cup {next}
    <2>1. g[t].kids = next + 1
        BY <1>2, <1>5, <1>6 DEF Cell
    <2>2. t \in DOMAIN g /\ next + 1 \in DOMAIN g /\ g[next + 1] = h[next + 1]
        BY <1>4, <1>5, <1>6, <1>8
    <2>3. ListOf(g, t) = Append(Kids(t), next)
        BY <1>9, <2>1, <2>2 DEF ListOf
    <2>4. next \in Address /\ Kids(t) \in Seq(Address)
        BY <1>1, <1>3, TreeFacts DEF Address
    <2> QED
        BY <2>3, <2>4, ToSetAppend DEF KidsOf
<1>14. IsInjective(ListOf(g, t))
    <2>1. next \in Address /\ Kids(t) \in Seq(Address) /\ IsInjective(Kids(t))
        BY <1>1, <1>3, TreeFacts DEF Address
    <2>2. next \notin ToSet(Kids(t))
        BY <1>1, <1>5, <1>11
    <2> QED
        BY <1>13, <2>1, <2>2, InjectiveAppend
<1>15. t \in AllOf(h, "folder") \cup AllOf(h, "trigger") /\ h[t] = heap[t]
    BY <1>4, <1>5 DEF AllOf, Of
<1>16. next + 1 \in AllOf(h, "array") /\ \A n \in NodesOf(h) : h[n].kids # next + 1
    <2>1. next + 1 \in AllOf(h, "array")
        BY <1>4, <1>8, <1>9 DEF AllOf
    <2>2. ASSUME NEW n \in NodesOf(h) PROVE h[n].kids # next + 1
        <3>1. CASE n \in Nodes
            <4>1. h[n] = heap[n] /\ heap[n].kids < next
                BY <1>4, <1>11, <3>1, TreeFacts
            <4> QED
                BY <1>1, <4>1
        <3> QED
            BY <1>12, <3>1
    <2> QED
        BY <2>1, <2>2
<1>17. ASSUME NEW k \in KidsOf(g, t) \ KidsOf(h, t)
       PROVE  /\ k \in DOMAIN h /\ h[k].kind \in Below[h[t].kind]
              /\ \A n \in NodesOf(h) : k \notin KidsOf(h, n)
    <2>1. k = next
        BY <1>5, <1>11, <1>13
    <2>2. ASSUME NEW n \in NodesOf(h) PROVE next \notin KidsOf(h, n)
        <3>1. CASE n \in Nodes
            BY <1>1, <1>11, <3>1
        <3> QED
            BY <1>12, <3>1
    <2> QED
        BY <1>4, <1>8, <1>9, <1>15, <2>1, <2>2
<1>18. KidsOf(g, t) \cap AllOf(h, "folder") = KidsOf(h, t) \cap AllOf(h, "folder")
    BY <1>5, <1>9, <1>11, <1>13 DEF AllOf
<1>19. TreeInv(g, nx, as2)
    <2>1. Relinked(h, g, t, next + 1)
        BY <1>7, <1>14, <1>15, <1>16, <1>17, <1>18 DEF Relinked
    <2> QED
        BY <1>1, <1>10, <2>1, RelinkCells
<1>20. \A kind : Of(kind) \subseteq AllOf(g, kind)
    <2>1. heap[t] \in Cell /\ g[t].kind = heap[t].kind
        BY <1>2, <1>5, <1>6 DEF Cell
    <2>2. \A n \in Live : n \in DOMAIN g /\ g[n].kind = heap[n].kind
        BY <1>4, <1>6, <2>1
    <2> QED
        BY <2>2 DEF Of, AllOf
<1>21. next \in AllOf(g, cells[1].kind)
    <2>1. next \in DOMAIN g /\ g[next] = cells[1]
        BY <1>4, <1>5, <1>6, <1>8, <1>9
    <2> QED
        BY <2>1 DEF AllOf
<1> QED
    BY <1>19, <1>20, <1>21 DEF g, nx

-----------------------------------------------------------------------------
(***************************************************************************)
(* Nodes that lose children                                                *)
(***************************************************************************)

\* F can be freed once the children of t are those of l: nothing that is to stay
\* whole needs it.
Spare(F, t, l, as2) ==
    /\ t \in Of("folder") \cup Of("trigger") /\ t \notin F
    /\ l \in Seq(Address) /\ IsInjective(l) /\ ToSet(l) \subseteq ToSet(Kids(t))
    /\ ToSet(Kids(t)) \cap Of("folder") \subseteq ToSet(l)
    /\ F \cap Of("folder") = {}
    /\ \A n \in Nodes \ F : heap[n].params # 0 => heap[n].params \notin F
    /\ \A n \in Guarded(heap, as2) \ F : n # t =>
          /\ heap[n].kids # 0 => heap[n].kids \notin F
          /\ ~as2 \/ heap[n].kind = "trigger" => ToSet(Kids(n)) \cap F = {}
    /\ ~as2 \/ heap[t].kind = "trigger" => ToSet(l) \cap F = {}

\* g is a heap in which t has a for the array of its children, and without F.
\* It is made from h, which has the cells there are and perhaps that array.
Cut(F, t, l, h, a, g) ==
    /\ Live \subseteq DOMAIN h /\ \A n \in Live : h[n] = heap[n]
    /\ \A n \in DOMAIN h \ Live : h[n].kind = "array"
    /\ \A n \in Nodes : ListOf(h, n) = Kids(n)
    /\ \/ a = 0 /\ l = <<>>
       \/ /\ a \in AllOf(h, "array") /\ h[a].list = l /\ a \notin F
          /\ \A n \in Nodes : heap[n].kids # a
    /\ DOMAIN g = DOMAIN h \ F /\ g[t] = [h[t] EXCEPT !.kids = a]
    /\ \A n \in DOMAIN g : n # t => g[n] = h[n]

\* A node that loses children, and the cells of those freed.
LEMMA Shrunk ==
    ASSUME Inv, NEW as2, astray => as2, NEW t, NEW F, NEW l, Spare(F, t, l, as2),
           NEW h, NEW nx \in Nat, TreeInv(h, nx, astray), NEW a, NEW g, Cut(F, t, l, h, a, g)
    PROVE  TreeInv(g, nx, as2)
<1> USE DEF Cut
<1> DEFINE r == [h EXCEPT ![t].kids = a]
<1>1. /\ t \in Of("folder") \cup Of("trigger") /\ t \notin F /\ t \in Live /\ t \in Nodes
      /\ l \in Seq(Address) /\ IsInjective(l) /\ ToSet(l) \subseteq ToSet(Kids(t))
      /\ ToSet(Kids(t)) \cap Of("folder") \subseteq ToSet(l)
    BY TreeFacts DEF Spare
<1>2. Cells(h, nx) /\ 0 \notin DOMAIN h
    BY BasicTree DEF TreeInv
<1>3. /\ DOMAIN r = DOMAIN h /\ r[t].kids = a /\ r[t] = [h[t] EXCEPT !.kids = a]
      /\ \A n \in DOMAIN h : n # t => r[n] = h[n]
      /\ r[t].kind = h[t].kind /\ r[t].params = h[t].params /\ r[t].list = h[t].list
    <2>1. t \in DOMAIN h /\ h[t] \in Cell
        BY <1>1, <1>2 DEF Cells
    <2> QED
        BY <2>1 DEF Cell
<1> HIDE DEF r
<1>4. \A n \in DOMAIN h : r[n].kind = h[n].kind /\ r[n].params = h[n].params /\ r[n].list = h[n].list
    BY <1>3
<1>5. /\ NodesOf(h) = Nodes /\ \A kind : kind # "array" => AllOf(h, kind) = Of(kind)
      /\ NodesOf(r) = Nodes /\ \A kind : kind # "array" => AllOf(r, kind) = Of(kind)
    <2>1. NodesOf(h) = Nodes /\ \A kind : kind # "array" => AllOf(h, kind) = Of(kind)
        BY DEF NodesOf, Nodes, AllOf, Of, NodeKind
    <2>2. NodesOf(r) = NodesOf(h) /\ \A kind : AllOf(r, kind) = AllOf(h, kind)
        BY <1>3, <1>4 DEF NodesOf, AllOf
    <2> QED
        BY <2>1, <2>2
<1>6. ListOf(r, t) = l
    <2>1. CASE a = 0
        BY <1>2, <1>3, <2>1 DEF ListOf, AllOf
    <2>2. CASE a # 0
        <3>1. a \in DOMAIN h /\ h[a].list = l /\ t \in DOMAIN h
            BY <1>1, <2>2 DEF AllOf
        <3> QED
            BY <1>3, <1>4, <3>1 DEF ListOf
    <2> QED
        BY <2>1, <2>2
<1>7. \A n \in Nodes : n # t => ListOf(r, n) = Kids(n)
    <2> SUFFICES ASSUME NEW n \in Nodes, n # t PROVE ListOf(r, n) = ListOf(h, n)
        OBVIOUS
    <2>1. n \in DOMAIN h /\ r[n] = h[n]
        BY <1>3, TreeFacts
    <2> QED
        BY <1>3, <1>4, <2>1 DEF ListOf
<1>8. KidsOf(r, t) = ToSet(l) /\ KidsOf(h, t) = ToSet(Kids(t))
      /\ \A n \in Nodes : n # t => KidsOf(r, n) = ToSet(Kids(n))
    BY <1>1, <1>6, <1>7 DEF KidsOf
<1>9. Relinked(h, r, t, a)
    <2>1. \/ a = 0
          \/ a \in AllOf(h, "array") /\ \A n \in NodesOf(h) : h[n].kids # a
        <3>1. \A n \in Nodes : h[n] = heap[n]
            BY TreeFacts
        <3> QED
            BY <1>5, <3>1
    <2>2. IsInjective(ListOf(r, t)) /\ KidsOf(r, t) \subseteq KidsOf(h, t)
        BY <1>1, <1>6, <1>8
    <2>3. KidsOf(r, t) \cap AllOf(h, "folder") = KidsOf(h, t) \cap AllOf(h, "folder")
        BY <1>1, <1>5, <1>8
    <2>4. t \in AllOf(h, "folder") \cup AllOf(h, "trigger")
        BY <1>1, <1>5
    <2> QED
        BY <2>1, <2>2, <2>3, <2>4 DEF Relinked, r
<1>10. TreeInv(r, nx, astray)
    BY <1>9, RelinkCells
<1>11. Guarded(heap, as2) \subseteq Guarded(heap, astray) /\ Guarded(heap, astray) \subseteq Nodes
    BY TreeFacts, Bridge DEF Guarded
<1>12. \A n \in DOMAIN g : n \in DOMAIN r /\ n \notin F /\ g[n] = r[n]
    BY <1>3
<1>13. \A n \in Live : n \notin F => n \in DOMAIN g
    OBVIOUS
<1>14. NodesOf(g) = Nodes \ F /\ Guarded(g, as2) = Guarded(heap, as2) \ F
    <2>1. NodesOf(g) = NodesOf(r) \ F /\ \A kind : AllOf(g, kind) = AllOf(r, kind) \ F
        BY <1>3, <1>12 DEF NodesOf, AllOf
    <2>2. AllOf(g, "folder") = Of("folder") \ F /\ AllOf(g, "trigger") = Of("trigger") \ F
        BY <1>5, <2>1
    <2> QED
        BY <1>5, <2>1, <2>2, Bridge DEF Guarded
<1>15. ASSUME NEW n \in NodesOf(g), r[n].params # 0 PROVE r[n].params \in DOMAIN g
    <2>1. n \in Nodes \ F /\ r[n].params = heap[n].params
        BY <1>4, <1>14, TreeFacts
    <2>2. heap[n].params \notin F
        BY <1>15, <2>1 DEF Spare
    <2>3. heap[n].params \in Live
        BY <1>15, <2>1, TreeFacts DEF Of
    <2> QED
        BY <1>13, <2>1, <2>2, <2>3
<1>16. ASSUME NEW m \in Guarded(g, as2)
       PROVE  /\ r[m].kids # 0 => r[m].kids \in DOMAIN g
              /\ ~as2 \/ r[m].kind = "trigger" => KidsOf(r, m) \subseteq DOMAIN g
    <2>1. m \in Guarded(heap, as2) \ F /\ m \in Guarded(heap, astray) /\ m \in Nodes /\ m \in Live
        BY <1>11, <1>14, TreeFacts
    <2>2. /\ heap[m].kids # 0 => heap[m].kids \in Live
          /\ ~astray \/ heap[m].kind = "trigger" => ToSet(Kids(m)) \subseteq Live
        BY <2>1, Bridge DEF Inv, TreeInv, Whole, Live
    <2>3. r[m].kind = heap[m].kind
        BY <1>4, <2>1
    <2>4. CASE m = t
        <3>1. a # 0 => a \in DOMAIN g
            BY DEF AllOf
        <3>2. ASSUME ~as2 \/ heap[t].kind = "trigger" PROVE ToSet(l) \subseteq DOMAIN g
            <4>1. ToSet(l) \cap F = {}
                BY <3>2 DEF Spare
            <4>2. ToSet(l) \subseteq Live
                BY <1>1, <2>2, <2>4, <3>2
            <4> QED
                BY <1>13, <4>1, <4>2
        <3> QED
            BY <1>3, <1>8, <2>3, <2>4, <3>1, <3>2
    <2>5. CASE m # t
        <3>1. r[m].kids = heap[m].kids /\ KidsOf(r, m) = ToSet(Kids(m))
            BY <1>3, <1>8, <2>1, <2>5
        <3>2. /\ heap[m].kids # 0 => heap[m].kids \notin F
              /\ ~as2 \/ heap[m].kind = "trigger" => ToSet(Kids(m)) \cap F = {}
            BY <2>1, <2>5 DEF Spare
        <3>3. heap[m].kids # 0 => heap[m].kids \in DOMAIN g
            BY <1>13, <2>2, <3>2
        <3>4. ASSUME ~as2 \/ heap[m].kind = "trigger" PROVE ToSet(Kids(m)) \subseteq DOMAIN g
            BY <1>13, <2>2, <3>2, <3>4
        <3> QED
            BY <2>3, <3>1, <3>3, <3>4
    <2> QED
        BY <2>4, <2>5
<1>17. AllOf(r, "folder") \subseteq DOMAIN g
    <2>1. AllOf(r, "folder") = Of("folder") /\ F \cap Of("folder") = {}
        BY <1>5 DEF Spare
    <2> QED
        BY <1>13, <2>1 DEF Of
<1>18. Freed(r, g, as2)
    BY <1>12, <1>15, <1>16, <1>17 DEF Freed
<1> QED
    BY <1>10, <1>18, FreeCells

\* A node loses its last child.
LEMMA ShrinkToNothing ==
    ASSUME Inv, NEW as2, astray => as2, NEW t, NEW F, Spare(F, t, <<>>, as2)
    PROVE  LET g == [Without(F) EXCEPT ![t].kids = 0]
           IN  TreeInv(g, next, as2) /\ Of("trigger") \ F \subseteq AllOf(g, "trigger")
<1> DEFINE g == [Without(F) EXCEPT ![t].kids = 0]
<1>1. t \in Live /\ t \notin F
    BY TreeFacts DEF Spare
<1>2. /\ DOMAIN g = DOMAIN heap \ F /\ g[t] = [heap[t] EXCEPT !.kids = 0]
      /\ \A n \in DOMAIN g : n # t => g[n] = heap[n]
    BY <1>1 DEF Without, Live
<1> HIDE DEF g
<1>3. TreeInv(heap, next, astray) /\ next \in Nat /\ \A n \in Nodes : ListOf(heap, n) = Kids(n)
    BY TreeFacts, Bridge DEF Inv
<1>4. Cut(F, t, <<>>, heap, 0, g)
    BY <1>2, <1>3 DEF Cut, Live
<1>5. TreeInv(g, next, as2)
    BY <1>3, <1>4, Shrunk
<1>6. Of("trigger") \ F \subseteq AllOf(g, "trigger")
    <2>1. g[t].kind = heap[t].kind
        <3>1. heap[t] \in Cell
            BY <1>1, <1>3 DEF TreeInv, Cells, Live
        <3> QED
            BY <1>2, <3>1 DEF Cell
    <2> QED
        BY <1>2, <2>1 DEF Of, AllOf, Live
<1> QED
    BY <1>5, <1>6 DEF g

\* A node gets a new array, with fewer children.
LEMMA Shrink ==
    ASSUME Inv, next <= MaxCells, NEW as2, astray => as2, NEW t, NEW F, NEW l, NEW near \in BOOLEAN,
           Spare(F, t, l, as2), F \subseteq Live \cup {0}
    PROVE  LET g == Place([Without(F) EXCEPT ![t].kids = next], <<Array(l, near)>>)
           IN  TreeInv(g, next + 1, as2) /\ Of("trigger") \ F \subseteq AllOf(g, "trigger")
<1> DEFINE f == [Without(F) EXCEPT ![t].kids = next]
           cell == Array(l, near)
           g == Place(f, <<cell>>)
           h == Place(heap, <<cell>>)
<1>1. /\ t \in Live /\ t \notin F /\ l \in Seq(Address) /\ next \in Nat /\ next # 0
      /\ \A n \in Live : n \in Nat /\ n < next
      /\ TreeInv(heap, next, astray) /\ MaxCells \in Nat
    <2>1. TreeInv(heap, next, astray) /\ Cells(heap, next)
        BY DEF Inv, TreeInv
    <2>2. \A n \in Live : n \in Nat /\ n < next /\ n # 0
        BY <2>1 DEF Cells, Live, Address
    <2>3. t \in Live /\ t \notin F /\ l \in Seq(Address) /\ next \in Nat /\ MaxCells \in Nat
        BY TreeFacts DEF Spare
    <2> QED
        BY <2>1, <2>2, <2>3
<1>2. next \notin Live /\ next \notin F /\ next \in Address
    BY <1>1 DEF Address
<1>3. cell \in Cell /\ cell.kind = "array" /\ cell.list = l
    BY <1>1, ArrayIsCell
<1> HIDE DEF cell
<1>4. /\ DOMAIN f = Live \ F /\ f[t] = [heap[t] EXCEPT !.kids = next]
      /\ \A n \in Live \ F : n # t => f[n] = heap[n]
    BY <1>1 DEF Without
<1> HIDE DEF f
<1>5. next .. next + Len(<<cell>>) - 1 = {next} /\ next - next + 1 = 1 /\ <<cell>>[1] = cell
    <2>1. Len(<<cell>>) = 1
        OBVIOUS
    <2>2. next + 1 - 1 = next
        BY <1>1
    <2> QED
        BY <1>1, <2>1, <2>2
<1>6. /\ DOMAIN g = (Live \ F) \cup {next} /\ g[next] = cell
      /\ \A n \in Live \ F : g[n] = f[n]
    BY <1>2, <1>4, <1>5 DEF Place
<1>7. /\ DOMAIN h = Live \cup {next} /\ h[next] = cell
      /\ \A n \in Live : h[n] = heap[n]
    BY <1>2, <1>5 DEF Place, Live
<1> HIDE DEF g, h
<1>8. TreeInv(h, next + 1, astray)
    <2>1. Added(heap, h, next, next + 1, astray)
        <3>1. DOMAIN h \ DOMAIN heap = {next} /\ next \notin NodesOf(h)
            BY <1>2, <1>3, <1>7 DEF NodesOf, NodeKind, Live
        <3>2. next <= next /\ next < next + 1
            BY <1>1
        <3> QED
            BY <1>2, <1>3, <1>7, <3>1, <3>2 DEF Added, Live
    <2>2. next <= next + 1 /\ next + 1 \in Nat
        BY <1>1
    <2> QED
        BY <1>1, <2>1, <2>2, ExtendCells
<1>9. ASSUME NEW n \in Nodes PROVE ListOf(h, n) = Kids(n) /\ heap[n].kids # next
    <2>1. n \in Live /\ n \in NodesOf(heap)
        BY TreeFacts, Bridge
    <2>2. heap[n].kids < next /\ heap[n].kids \in Pointer
        BY <1>1, <2>1, BasicTree DEF TreeInv, Linked, Live
    <2>3. heap[n].kids # next
        BY <1>1, <2>2, RegistryAssumption DEF Pointer
    <2> QED
        BY <1>7, <2>1, <2>3 DEF ListOf, Kids, Live
<1>10. next \in AllOf(h, "array") /\ h[next].list = l
    BY <1>3, <1>7 DEF AllOf
<1>11. DOMAIN g = DOMAIN h \ F /\ g[t] = [h[t] EXCEPT !.kids = next]
       /\ \A n \in DOMAIN g : n # t => g[n] = h[n]
    BY <1>1, <1>2, <1>4, <1>6, <1>7
<1>12. next + 1 \in Nat /\ Live \subseteq DOMAIN h /\ \A n \in DOMAIN h \ Live : h[n].kind = "array"
    BY <1>1, <1>3, <1>7
<1>13. TreeInv(g, next + 1, as2)
    <2>1. Cut(F, t, l, h, next, g)
        BY <1>2, <1>7, <1>9, <1>10, <1>11, <1>12 DEF Cut
    <2> QED
        BY <1>8, <1>12, <2>1, Shrunk
<1>14. Of("trigger") \ F \subseteq AllOf(g, "trigger")
    <2>1. g[t].kind = heap[t].kind
        <3>1. heap[t] \in Cell /\ h[t] = heap[t]
            BY <1>1, <1>7 DEF TreeInv, Cells, Live
        <3> QED
            BY <1>11, <3>1 DEF Cell
    <2>2. \A n \in Live \ F : n \in DOMAIN g /\ g[n].kind = heap[n].kind
        BY <1>6, <1>7, <1>11, <2>1
    <2> QED
        BY <2>2 DEF Of, AllOf
<1> QED
    BY <1>13, <1>14 DEF g, f, cell

-----------------------------------------------------------------------------
(***************************************************************************)
(* The calls                                                               *)
(***************************************************************************)

\* What RemoveAt leaves.
LEMMA RemoveAtFacts ==
    ASSUME NEW T, NEW s \in Seq(T), IsInjective(s), NEW i \in DOMAIN s
    PROVE  /\ RemoveAt(s, i) \in Seq(T) /\ IsInjective(RemoveAt(s, i))
           /\ ToSet(RemoveAt(s, i)) \subseteq ToSet(s) \ {s[i]}
<1> DEFINE r == RemoveAt(s, i)
           n == Len(s)
           from(j) == IF j < i THEN j ELSE j + 1
<1>1. n \in Nat /\ i \in 1 .. n /\ DOMAIN s = 1 .. n
    OBVIOUS
<1>2. /\ r \in Seq(T) /\ Len(r) = n - 1
      /\ \A j \in 1 .. n - 1 : r[j] = s[from(j)]
    <2>1. SubSeq(s, 1, i - 1) \in Seq(T) /\ Len(SubSeq(s, 1, i - 1)) = i - 1
          /\ \A j \in 1 .. i - 1 : SubSeq(s, 1, i - 1)[j] = s[j]
        BY <1>1
    <2>2. SubSeq(s, i + 1, n) \in Seq(T) /\ Len(SubSeq(s, i + 1, n)) = n - i
          /\ \A j \in 1 .. n - i : SubSeq(s, i + 1, n)[j] = s[i + j]
        BY SMTT(30), <1>1
    <2> DEFINE a == SubSeq(s, 1, i - 1)
               b == SubSeq(s, i + 1, n)
    <2>3. r = a \o b
        BY DEF RemoveAt
    <2> HIDE DEF a, b, r
    <2>4. a \in Seq(T) /\ b \in Seq(T) /\ Len(a) = i - 1 /\ Len(b) = n - i
          /\ (\A j \in 1 .. i - 1 : a[j] = s[j]) /\ (\A j \in 1 .. n - i : b[j] = s[i + j])
        BY <2>1, <2>2 DEF a, b
    <2> HIDE DEF n
    <2>5. r \in Seq(T) /\ Len(r) = n - 1
        <3>1. r \in Seq(T) /\ Len(r) = Len(a) + Len(b)
            BY <2>3, <2>4, ConcatProperties
        <3>2. Len(a) + Len(b) = n - 1
            BY <1>1, <2>4
        <3> QED
            BY <3>1, <3>2
    <2>6. ASSUME NEW j \in 1 .. n - 1 PROVE r[j] = s[from(j)]
        <3>1. CASE j < i
            <4>1. j \in 1 .. i - 1 /\ r[j] = a[j]
                BY <1>1, <2>3, <2>4, <3>1
            <4> QED
                BY <2>4, <3>1, <4>1
        <3>2. CASE ~ (j < i)
            <4>1. j - (i - 1) \in 1 .. n - i /\ i + (j - (i - 1)) = j + 1
                BY <1>1, <3>2
            <4>2. r[j] = b[j - (i - 1)]
                BY SMTT(30), <1>1, <2>3, <2>4, <3>2, <4>1
            <4> QED
                BY <2>4, <3>2, <4>1, <4>2
        <3> QED
            BY <3>1, <3>2
    <2> QED
        BY <2>5, <2>6
<1> HIDE DEF r, n
<1>3. /\ DOMAIN r = 1 .. n - 1
      /\ \A j \in 1 .. n - 1 : from(j) \in 1 .. n /\ from(j) # i
      /\ \A j, k \in 1 .. n - 1 : from(j) = from(k) => j = k
    BY <1>1, <1>2
<1>4. IsInjective(r)
    <2> SUFFICES ASSUME NEW j \in 1 .. n - 1, NEW k \in 1 .. n - 1, r[j] = r[k] PROVE j = k
        BY <1>3 DEF IsInjective
    <2>1. s[from(j)] = s[from(k)] /\ from(j) \in DOMAIN s /\ from(k) \in DOMAIN s
        BY <1>1, <1>2, <1>3
    <2>2. from(j) = from(k)
        BY <2>1 DEF IsInjective
    <2> QED
        BY <1>3, <2>2
<1>5. ASSUME NEW y \in ToSet(r) PROVE y \in ToSet(s) \ {s[i]}
    <2>1. PICK j \in 1 .. n - 1 : y = r[j]
        BY <1>3 DEF ToSet
    <2>2. y = s[from(j)] /\ from(j) \in DOMAIN s /\ from(j) # i
        BY <1>1, <1>2, <1>3, <2>1
    <2>3. y # s[i]
        BY <2>2 DEF IsInjective
    <2> QED
        BY <2>2, <2>3 DEF ToSet
<1> QED
    BY <1>2, <1>4, <1>5 DEF r

\* A tree as the editor builds it is one.
LEMMA TreeIs ==
    ASSUME NEW h, Tree(h), NEW nx \in Nat, 0 < nx, \A n \in DOMAIN h : n < nx, NEW as
    PROVE  TreeInv(h, nx, as)
<1>1. /\ Cells(h, nx) /\ 0 \notin DOMAIN h
      /\ Root \in AllOf(h, "folder")
      /\ \A n \in NodesOf(h) :
            /\ h[n].kids # 0 => h[n].kids \in DOMAIN h /\ h[h[n].kids].kind = "array"
            /\ h[n].params # 0 =>
                  h[n].kind = "eca" /\ h[n].params \in DOMAIN h /\ h[h[n].params].kind = "params"
            /\ IsInjective(ListOf(h, n))
            /\ \A k \in KidsOf(h, n) : k \in DOMAIN h /\ h[k].kind \in Below[h[n].kind]
      /\ \A m, n \in NodesOf(h) : m # n =>
            /\ h[m].kids # 0 => h[m].kids # h[n].kids
            /\ h[m].params # 0 => h[m].params # h[n].params
            /\ KidsOf(h, m) \cap KidsOf(h, n) = {}
      /\ \A f \in AllOf(h, "folder") \ {Root} : \E g \in AllOf(h, "folder") : f \in KidsOf(h, g)
      /\ \E rank \in [AllOf(h, "folder") -> Address] :
            \A f \in AllOf(h, "folder") : \A k \in KidsOf(h, f) \cap AllOf(h, "folder") :
                rank[k] < rank[f]
    <2>1. {n \in NodesOf(h) : h[n].kind = "folder"} = AllOf(h, "folder")
        BY DEF NodesOf, AllOf, NodeKind
    <2>2. Cells(h, nx) /\ 0 \notin DOMAIN h
        BY DEF Tree, Cells, Address
    <2> QED
        BY <2>1, <2>2 DEF Tree, NodesOf, KidsOf
<1>2. Linked(h, nx)
    <2> SUFFICES ASSUME NEW n \in NodesOf(h)
                 PROVE  /\ h[n].kids < nx
                        /\ h[n].kids \in DOMAIN h => h[h[n].kids].kind = "array"
                        /\ h[n].params # 0 => h[n].kind = "eca" /\ h[n].params \in AllOf(h, "params")
                        /\ \A k \in KidsOf(h, n) :
                              k < nx /\ (k \in DOMAIN h => h[k].kind \in Below[h[n].kind])
        BY DEF Linked
    <2>1. h[n].kids = 0 \/ h[n].kids \in DOMAIN h
        BY <1>1
    <2>2. h[n].kids < nx /\ (h[n].kids \in DOMAIN h => h[h[n].kids].kind = "array")
        BY <1>1, <2>1
    <2> QED
        BY <1>1, <2>2 DEF AllOf
<1>3. Guarded(h, as) \subseteq NodesOf(h)
    BY DEF Guarded, AllOf, NodesOf, NodeKind
<1>4. OwnParams(h) /\ OwnKids(h, as)
    BY ZenonT(30), <1>1, <1>3 DEF OwnParams, OwnKids
<1>5. Whole(h, as)
    BY <1>1, <1>3 DEF Whole
<1>6. Folded(h)
    BY <1>1 DEF Folded
<1> QED
    BY <1>1, <1>2, <1>4, <1>5, <1>6 DEF TreeInv

\* The maps a session may start with, or a user open.
LEMMA MapIs ==
    ASSUME NEW map \in Heaps
    PROVE  /\ MaxCells \in Nat /\ MaxCalls \in Nat /\ Tree(map)
           /\ \E last \in Nat :
                 /\ DOMAIN map = 1 .. last /\ Cardinality(DOMAIN map) = last
                 /\ last # 0 /\ last <= MaxCells
<1>1. Tree(map) /\ MaxCells \in Nat /\ MaxCalls \in Nat
    BY RegistryAssumption
<1>2. PICK last \in Address : map \in [1 .. last -> Cell]
    BY RegistryAssumption
<1>3. last \in Nat /\ last >= 1 /\ last <= MaxCells /\ DOMAIN map = 1 .. last
    BY <1>1, <1>2 DEF Address
<1>4. Cardinality(1 .. last) = last
    BY <1>3, FS_Interval
<1> QED
    BY <1>1, <1>3, <1>4

\* A session starts with a map and nothing in the cache.
LEMMA InitInv == Init => Inv
<1> SUFFICES ASSUME Init PROVE Inv
    OBVIOUS
<1>1. heap \in Heaps /\ cache = <<>> /\ next = Cardinality(Live) + 1
      /\ misuse = FALSE /\ astray = FALSE /\ misled = FALSE /\ gone = {} /\ calls = 0
    BY DEF Init
<1>2. Tree(heap) /\ MaxCells \in Nat /\ MaxCalls \in Nat
    BY <1>1, MapIs
<1>3. PICK last \in Nat : DOMAIN heap = 1 .. last /\ Cardinality(DOMAIN heap) = last
                         /\ last # 0 /\ last <= MaxCells
    BY <1>1, MapIs
<1>4. next = last + 1 /\ next \in Nat /\ 0 < next /\ next \in 1 .. MaxCells + 2
      /\ \A n \in DOMAIN heap : n < next
    BY <1>1, <1>2, <1>3 DEF Live
<1>5. TreeInv(heap, next, astray)
    BY <1>2, <1>4, TreeIs
<1>6. IsInjective(<<>>) /\ ToSet(<<>>) = {} /\ <<>> \in Seq(Address)
    BY ToSetEmpty DEF IsInjective
<1>7. CacheSound /\ Past(gone, heap, next)
    BY <1>1, <1>6 DEF CacheSound, Past
<1>8. TypeOK
    <2>1. Live \subseteq Address /\ \A n \in Live : heap[n] \in Cell
        BY <1>5 DEF TreeInv, Cells, Live
    <2>2. calls \in 0 .. MaxCalls
        BY <1>1, <1>2
    <2> QED
        BY <1>1, <1>4, <1>6, <2>1, <2>2 DEF TypeOK
<1> QED
    BY <1>1, <1>5, <1>7, <1>8 DEF Inv

\* A heap that uses no address again.
Fresh(g) == \A n \in DOMAIN g : n \in Live \/ ~ (n < next)

\* New cells take new addresses.
LEMMA PlaceFresh ==
    ASSUME next \in Nat, NEW h, DOMAIN h \subseteq Live, NEW cells
    PROVE  Fresh(Place(h, cells))
<1> DEFINE last == next + Len(cells) - 1
           g == Place(h, cells)
<1>1. DOMAIN g = DOMAIN h \cup (next .. last)
    BY DEF Place
<1> HIDE DEF last, g
<1>2. \A n \in next .. last : ~ (n < next)
    OBVIOUS
<1> QED
    BY <1>1, <1>2 DEF Fresh, g

\* What a step has to show.
LEMMA NextInv ==
    ASSUME Inv, calls < MaxCalls, calls' = calls + 1,
           TreeInv(heap', next', astray'), next' \in 1 .. MaxCells + 2, next <= next', Fresh(heap'),
           cache' \in Seq(Address), IsInjective(cache'),
           gone' \in {gone, {}}, ToSet(cache') \ AllOf(heap', "trigger") \subseteq gone',
           misuse' \in BOOLEAN, astray' \in BOOLEAN, misled' = misled,
           ~astray' => (misuse' => ToSet(cache') \cap gone' # {})
    PROVE  Inv'
<1>1. Live' \subseteq Address /\ \A n \in Live' : heap'[n] \in Cell
    BY DEF TreeInv, Cells, Live
<1>2. calls' \in 0 .. MaxCalls
    BY RegistryAssumption DEF Inv, TypeOK
<1>3. gone' \subseteq Address /\ misled' = FALSE /\ misled' \in BOOLEAN
    BY DEF Inv, TypeOK
<1>4. TypeOK'
    BY <1>1, <1>2, <1>3 DEF TypeOK
<1>5. CacheSound'
    BY DEF CacheSound, Of, AllOf, Live
<1>6. Past(gone', heap', next')
    <2> SUFFICES ASSUME NEW n \in gone PROVE n < next' /\ n \notin DOMAIN heap'
        BY DEF Past
    <2>1. n < next /\ n \notin Live /\ n \in Nat /\ next \in Nat /\ next' \in Nat
        BY RegistryAssumption DEF Inv, Past, TypeOK, Address, Live
    <2> QED
        BY <2>1 DEF Fresh
<1> QED
    BY <1>3, <1>4, <1>5, <1>6 DEF Inv

\* What every call does.
LEMMA CallIs ==
    ASSUME NEW readable, Call(readable)
    PROVE  /\ calls < MaxCalls /\ calls' = calls + 1 /\ misuse' \in BOOLEAN
           /\ misuse' <=> ~readable
BY DEF Call, Goes

\* What CacheSound says of an index.
LEMMA CacheFacts ==
    ASSUME Inv
    PROVE  /\ cache \in Seq(Address) /\ IsInjective(cache) /\ ToSet(cache) \ Of("trigger") \subseteq gone
           /\ \A i \in DOMAIN cache :
                 /\ cache[i] \in ToSet(cache)
                 /\ IF cache[i] \in Live THEN cache[i] \in Of("trigger") ELSE cache[i] \in gone
           /\ TreeInv(heap, next, astray) /\ next \in 1 .. MaxCells + 2
<1>1. /\ cache \in Seq(Address) /\ IsInjective(cache) /\ ToSet(cache) \ Of("trigger") \subseteq gone
      /\ TreeInv(heap, next, astray) /\ next \in 1 .. MaxCells + 2
    BY DEF Inv, CacheSound, TypeOK
<1>2. gone \cap Live = {} /\ Of("trigger") \subseteq Live
    BY DEF Inv, Past, Live, Of
<1>3. \A i \in DOMAIN cache : cache[i] \in ToSet(cache)
    BY DEF ToSet
<1> QED
    BY <1>1, <1>2, <1>3

\* A call that leaves the cells alone.
LEMMA SameHeap ==
    ASSUME Inv, heap' = heap, next' = next
    PROVE  /\ \A kind : Of(kind) = AllOf(heap', kind)
           /\ Fresh(heap') /\ next <= next' /\ next' \in 1 .. MaxCells + 2
BY Bridge, TreeFacts, CacheFacts DEF Fresh, Live

\* A refresh keeps the invariant.
LEMMA RefreshInv == ASSUME Inv, Refresh PROVE Always'
<1>1. PICK root \in Roots :
          /\ Call(WalkReadable(root)) /\ Found(root)
          /\ cache' = IF root = 0 \/ Lost THEN <<>> ELSE Walk(root)
    BY DEF Refresh
<1>2. heap' = heap /\ next' = next /\ astray' = astray /\ gone' = {}
    BY DEF Refresh
<1>3. calls < MaxCalls /\ calls' = calls + 1 /\ misuse' \in BOOLEAN /\ (misuse' <=> ~WalkReadable(root))
    BY <1>1, CallIs
<1>4. <<>> \in Seq(Address) /\ IsInjective(<<>>) /\ ToSet(<<>>) = {}
    BY ToSetEmpty DEF IsInjective
<1>5. CASE misled'
    <2>1. cache' = <<>> /\ misled' \in BOOLEAN
        BY <1>1, <1>5 DEF Lost, Found
    <2>2. calls' \in 0 .. MaxCalls
        BY <1>3, RegistryAssumption, TreeFacts
    <2>3. TypeOK'
        BY <1>2, <1>3, <1>4, <2>1, <2>2 DEF Inv, TypeOK, Live
    <2> QED
        BY <1>5, <2>3 DEF Always
<1>6. CASE ~misled'
    <2>1. root \in Of("folder") \cup {0} /\ misled' = misled
        BY <1>1, <1>6, RootsAre DEF Found, Inv, TypeOK
    <2>2. ~astray' => ~misuse'
        BY <1>2, <1>3, <2>1, AllReadable
    <2>3. cache' \in Seq(Address) /\ IsInjective(cache') /\ ToSet(cache') \subseteq Of("trigger")
        <3>1. CASE root = 0 \/ Lost
            BY <1>1, <1>4, <3>1
        <3>2. CASE ~ (root = 0 \/ Lost)
            BY <1>1, <2>1, <3>2, WalkSound
        <3> QED
            BY <3>1, <3>2
    <2>4. ToSet(cache') \ AllOf(heap', "trigger") \subseteq gone' /\ gone' \in {gone, {}}
        BY <1>2, <2>3, SameHeap
    <2>5. Inv'
        BY <1>2, <1>3, <2>1, <2>2, <2>3, <2>4, SameHeap, CacheFacts, TreeFacts, NextInv
    <2> QED
        BY <2>5 DEF Always, Inv
<1> QED
    BY <1>5, <1>6

\* A compile keeps the invariant.
LEMMA CompileInv == ASSUME Inv, Compile PROVE Inv'
<1>1. Call(TreeReadable) /\ cache' = IF misuse' THEN <<>> ELSE Compiled
    BY DEF Compile
<1>2. heap' = heap /\ next' = next /\ astray' = astray /\ gone' = {} /\ misled' = misled
    BY DEF Compile
<1>3. calls < MaxCalls /\ calls' = calls + 1 /\ misuse' \in BOOLEAN /\ (misuse' <=> ~TreeReadable)
    BY <1>1, CallIs
<1>4. ~astray' => ~misuse'
    BY <1>2, <1>3, AllReadable
<1>5. cache' \in Seq(Address) /\ IsInjective(cache') /\ ToSet(cache') \subseteq Of("trigger")
    <2>1. CASE misuse'
        <3>1. cache' = <<>> /\ <<>> \in Seq(Address) /\ IsInjective(<<>>) /\ ToSet(<<>>) = {}
            BY <1>1, <2>1, ToSetEmpty DEF IsInjective
        <3> QED
            BY <3>1
    <2>2. CASE ~misuse'
        BY <1>1, <2>2, CompiledSound
    <2> QED
        BY <2>1, <2>2
<1>6. ToSet(cache') \ AllOf(heap', "trigger") \subseteq gone' /\ gone' \in {gone, {}}
    BY <1>2, <1>5, SameHeap
<1> QED
    BY <1>2, <1>3, <1>4, <1>5, <1>6, SameHeap, CacheFacts, TreeFacts, NextInv

\* What is added has its own parameters and its source's children: if it has any the
\* call went astray.
LEMMA AddEcaInv == ASSUME Inv, NEW i, NEW type, AddEca(i, type) PROVE Inv'
<1>1. i \in DOMAIN cache /\ Call(CacheReadable) /\ cache' = cache /\ misled' = misled /\ gone' = gone
    BY DEF AddEca
<1>2. calls < MaxCalls /\ calls' = calls + 1 /\ misuse' \in BOOLEAN /\ (misuse' <=> ~CacheReadable)
    BY <1>1, CallIs
<1>3. CASE misuse' \/ \A k \in DOMAIN cache : OfType(cache[k], type) = <<>>
    <2>1. heap' = heap /\ next' = next /\ astray' = astray
        BY <1>3 DEF AddEca
    <2>2. ~astray' => (misuse' => ToSet(cache') \cap gone' # {})
        BY <1>1, <1>2, <2>1, AllReadable
    <2> QED
        BY <1>1, <1>2, <2>1, <2>2, SameHeap, CacheFacts, TreeFacts, NextInv
<1>4. CASE ~ (misuse' \/ \A k \in DOMAIN cache : OfType(cache[k], type) = <<>>)
    <2> DEFINE trig == cache[i]
               node == heap[Source(i, type)]
               params(near) == IF node.params = 0 THEN <<>>
                               ELSE <<[heap[node.params] EXCEPT !.near = near]>>
               first(near) == [node EXCEPT !.params = IF params(near) = <<>> THEN 0 ELSE next + 2,
                                           !.near = near]
               second(near) == Array(Append(Kids(trig), next), near)
               made(near) == <<first(near), second(near)>> \o params(near)
    <2>1. PICK near \in BOOLEAN :
              /\ heap' = Place([heap EXCEPT ![trig].kids = next + 1], made(near))
              /\ next' = next + Len(made(near))
              /\ astray' = (astray \/ node.kids # 0)
        BY <1>4 DEF AddEca
    <2>2. next + 2 <= MaxCells
        BY <1>4 DEF AddEca
    <2>3. Source(i, type) \in Of("eca") /\ trig \in Of("trigger")
        <3>1. CacheReadable /\ ToSet(cache) \subseteq Of("trigger")
            BY <1>2, <1>4, ReadableCache
        <3> QED
            BY <1>1, <1>4, <3>1, SourceIn, CacheFacts
    <2>4. /\ node \in Cell /\ node.kind = "eca" /\ heap[trig].kind = "trigger"
          /\ node.params # 0 => heap[node.params] \in Cell /\ heap[node.params].kind = "params"
        <3>1. \A n \in Live : heap[n] \in Cell
            BY DEF Inv, TypeOK
        <3>2. Source(i, type) \in Nodes /\ Source(i, type) \in Live
            BY <2>3, TreeFacts
        <3>3. node.params # 0 => node.params \in Of("params")
            BY <3>2, TreeFacts
        <3> QED
            BY <2>3, <3>1, <3>2, <3>3 DEF Of
    <2>5. \E e \in Of("eca") : node.kids = heap[e].kids
        BY <2>3
    <2> HIDE DEF trig, node
    <2>6. MaxCells \in Nat /\ next \in Nat /\ next # 0 /\ Kids(trig) \in Seq(Address)
          /\ next \in Address /\ next + 2 \in Pointer
        <3>1. MaxCells \in Nat /\ next \in Nat /\ next # 0 /\ Kids(trig) \in Seq(Address)
            BY TreeFacts, CacheFacts
        <3> QED
            BY <2>2, <3>1 DEF Address, Pointer
    <2>7. /\ first(near) \in Cell /\ first(near).kind = "eca" /\ first(near).kids = node.kids
          /\ first(near).params = IF node.params = 0 THEN 0 ELSE next + 2
        <3>1. params(near) = <<>> <=> node.params = 0
            OBVIOUS
        <3>2. 0 \in Pointer
            BY <2>6 DEF Pointer
        <3> HIDE DEF params
        <3>3. first(near) = [node EXCEPT !.params = IF node.params = 0 THEN 0 ELSE next + 2, !.near = near]
            BY <3>1
        <3> QED
            BY <2>4, <2>6, <3>2, <3>3 DEF Cell
    <2>8. second(near) \in Cell
        <3>1. Append(Kids(trig), next) \in Seq(Address)
            BY <2>6
        <3> QED
            BY <3>1, ArrayIsCell
    <2> HIDE DEF first, second
    <2>9. /\ made(near) \in Seq(Cell) /\ made(near)[1] = first(near) /\ made(near)[2] = second(near)
          /\ Len(made(near)) \in {2, 3}
          /\ node.params # 0 => Len(made(near)) = 3
          /\ Len(made(near)) = 3 => made(near)[3].kind = "params"
        <3>1. CASE node.params = 0
            <4>1. made(near) = <<first(near), second(near)>>
                BY <3>1
            <4> QED
                BY <2>7, <2>8, <3>1, <4>1
        <3>2. CASE node.params # 0
            <4> DEFINE third == [heap[node.params] EXCEPT !.near = near]
            <4>1. third \in Cell /\ third.kind = "params"
                BY <2>4, <3>2 DEF Cell
            <4> HIDE DEF third
            <4>2. params(near) = <<third>>
                BY <3>2 DEF third
            <4> HIDE DEF params
            <4> DEFINE two == <<first(near), second(near)>>
                       one == <<third>>
            <4>3. /\ two \in Seq(Cell) /\ Len(two) = 2 /\ two[1] = first(near) /\ two[2] = second(near)
                  /\ one \in Seq(Cell) /\ Len(one) = 1 /\ one[1] = third
                BY <2>7, <2>8, <4>1
            <4>4. made(near) = two \o one
                BY <4>2
            <4> HIDE DEF made, two, one
            <4>5. /\ made(near) \in Seq(Cell) /\ Len(made(near)) = 3
                  /\ \A k \in 1 .. 3 : made(near)[k] = IF k <= 2 THEN two[k] ELSE one[k - 2]
                <5>1. Len(two) + Len(one) = 3
                    BY <4>3
                <5> QED
                    BY SMTT(30), <4>3, <4>4, <5>1, ConcatProperties
            <4>6. made(near)[1] = two[1] /\ made(near)[2] = two[2] /\ made(near)[3] = one[1]
                BY <4>5
            <4> QED
                BY <4>1, <4>3, <4>5, <4>6
        <3> QED
            BY <3>1, <3>2
    <2> DEFINE cells == made(near)
    <2>10. second(near) = Array(Append(Kids(trig), next), near)
        BY DEF second
    <2> HIDE DEF made, cells
    <2>11. /\ cells \in Seq(Cell) /\ Len(cells) \in {2, 3} /\ cells[1].kind = "eca"
           /\ next + Len(cells) - 1 <= MaxCells /\ Len(cells) \in Nat
           /\ cells[1].kind \in Below[heap[trig].kind] \cap {"trigger", "eca"}
           /\ cells[1].kids # 0 =>
                  astray' /\ cells[1].kind = "eca" /\ \E e \in Of("eca") : cells[1].kids = heap[e].kids
           /\ cells[1].params # 0 =>
                  cells[1].kind = "eca" /\ cells[1].params = next + 2 /\ Len(cells) = 3
           /\ cells[2] = Array(Append(Kids(trig), next), near)
           /\ Len(cells) = 3 => cells[3].kind = "params"
        <3>1. cells[1] = first(near) /\ cells[2] = second(near)
            BY <2>9 DEF cells
        <3>2. /\ cells \in Seq(Cell) /\ Len(cells) \in {2, 3}
              /\ node.params # 0 => Len(cells) = 3
              /\ Len(cells) = 3 => cells[3].kind = "params"
            BY <2>9 DEF cells
        <3>3. next + Len(cells) - 1 <= MaxCells /\ Len(cells) \in Nat
            <4>1. Len(cells) = 2 \/ Len(cells) = 3
                BY <3>2
            <4>2. next + 2 - 1 <= MaxCells /\ next + 3 - 1 <= MaxCells
                BY <2>2, <2>6
            <4>3. CASE Len(cells) = 2
                BY <4>2, <4>3
            <4>4. CASE Len(cells) = 3
                BY <4>2, <4>4
            <4> QED
                BY <4>1, <4>3, <4>4
        <3>4. "eca" \in Below[heap[trig].kind] \cap {"trigger", "eca"}
            BY <2>4 DEF Below
        <3>5. cells[1].kids # 0 =>
                  astray' /\ cells[1].kind = "eca" /\ \E e \in Of("eca") : cells[1].kids = heap[e].kids
            BY <2>1, <2>5, <2>7, <3>1
        <3>6. cells[1].params # 0 =>
                  cells[1].kind = "eca" /\ cells[1].params = next + 2 /\ Len(cells) = 3
            BY <2>7, <3>1, <3>2
        <3> QED
            BY <2>7, <2>10, <3>1, <3>2, <3>3, <3>4, <3>5, <3>6
    <2>12. heap' = Place([heap EXCEPT ![trig].kids = next + 1], cells) /\ next' = next + Len(cells)
        BY <2>1 DEF cells
    <2>13. astray => astray'
        BY <2>1
    <2>14. TreeInv(heap', next', astray') /\ \A kind : Of(kind) \subseteq AllOf(heap', kind)
        BY <2>3, <2>11, <2>12, <2>13, Grow
    <2>15. ~astray' => (misuse' => ToSet(cache') \cap gone' # {})
        BY <1>4
    <2>16. next' \in 1 .. MaxCells + 2 /\ astray' \in BOOLEAN /\ next <= next' /\ Fresh(heap')
        <3>1. next' \in 1 .. MaxCells + 2 /\ next <= next'
            BY <2>6, <2>11, <2>12
        <3>2. DOMAIN [heap EXCEPT ![trig].kids = next + 1] \subseteq Live
            BY DEF Live
        <3>3. Fresh(heap')
            BY <2>6, <2>12, <3>2, PlaceFresh
        <3> QED
            BY <2>1, <3>1, <3>3
    <2>17. ToSet(cache') \ AllOf(heap', "trigger") \subseteq gone' /\ gone' \in {gone, {}}
        BY <1>1, <2>14, CacheFacts
    <2> QED
        BY <1>1, <1>2, <2>14, <2>15, <2>16, <2>17, CacheFacts, NextInv
<1> QED
    BY <1>3, <1>4

\* The new trigger has no children and is listed in the root found, if any.
LEMMA CreateTriggerInv == ASSUME Inv, CreateTrigger, ~Lost PROVE Inv'
<1>1. cache # <<>> /\ Call(cache[1] \in Live) /\ astray' = astray /\ gone' = gone /\ ~misled'
    BY DEF CreateTrigger, Lost
<1>3. calls < MaxCalls /\ calls' = calls + 1 /\ misuse' \in BOOLEAN /\ ~misuse' /\ cache[1] \in Live
    BY <1>1, CallIs DEF Lost
<1>2. 1 \in DOMAIN cache /\ cache[1] \in Of("trigger")
    BY <1>1, <1>3, CacheFacts
<1> DEFINE trig(near) == [heap[cache[1]] EXCEPT !.kids = 0, !.near = near]
<1>4. PICK root \in Of("folder") \cup {0}, near \in BOOLEAN :
          /\ heap' = IF root = 0 THEN Place(heap, <<trig(near)>>)
                     ELSE Place([heap EXCEPT ![root].kids = next + 1],
                                <<trig(near), Array(Append(Kids(root), next), near)>>)
          /\ next + 1 <= MaxCells /\ next' = next + 2 /\ cache' = Append(cache, next)
          /\ Found(root)
    BY <1>1, RootsAre DEF CreateTrigger
<1>5. next + 1 <= MaxCells /\ next' = next + 2 /\ cache' = Append(cache, next)
    BY <1>4
<1>11. misled' = misled
    BY <1>4, <1>1 DEF Found, Inv, TypeOK
<1> DEFINE new == trig(near)
<1>6. /\ new \in Cell /\ new.kind = "trigger" /\ new.kids = 0 /\ new.params = 0
    <2>1. heap[cache[1]] \in Cell
        BY <1>2, <1>3 DEF Inv, TypeOK
    <2>2. heap[cache[1]].kind = "trigger" /\ cache[1] \in Nodes
        BY <1>2, TreeFacts DEF Of
    <2>3. heap[cache[1]].params = 0
        BY <1>2, <2>2, Bridge DEF Inv, TreeInv, Linked
    <2>4. 0 \in Pointer
        BY RegistryAssumption DEF Pointer
    <2> QED
        BY <2>1, <2>2, <2>3, <2>4 DEF Cell
<1> HIDE DEF trig, new
<1>7. /\ MaxCells \in Nat /\ next \in Nat /\ next # 0 /\ next \in Address /\ next \notin Live
      /\ TreeInv(heap, next, astray) /\ \A n \in Live : n \in Nat /\ n < next
    <2>1. MaxCells \in Nat /\ next \in Nat /\ next # 0 /\ TreeInv(heap, next, astray)
        BY TreeFacts, CacheFacts
    <2>2. \A n \in Live : n \in Nat /\ n < next
        BY <2>1 DEF TreeInv, Cells, Live, Address
    <2> QED
        BY <1>5, <2>1, <2>2 DEF Address
<1>8. /\ TreeInv(heap', next', astray') /\ next \in AllOf(heap', "trigger")
      /\ Of("trigger") \subseteq AllOf(heap', "trigger")
    <2>1. CASE root = 0
        <3> DEFINE h == Place(heap, <<new>>)
        <3>1. heap' = h
            BY <1>4, <2>1 DEF new
        <3>2. next .. next + Len(<<new>>) - 1 = {next} /\ next - next + 1 = 1 /\ <<new>>[1] = new
            <4>1. Len(<<new>>) = 1
                OBVIOUS
            <4>2. next + 1 - 1 = next
                BY <1>7
            <4> QED
                BY <1>7, <4>1, <4>2
        <3>3. DOMAIN h = Live \cup {next} /\ h[next] = new /\ \A n \in Live : h[n] = heap[n]
            BY <1>7, <3>2 DEF Place, Live
        <3> HIDE DEF h
        <3>4. Added(heap, h, next, next + 2, astray)
            <4>1. DOMAIN h \ DOMAIN heap = {next}
                BY <1>7, <3>3 DEF Live
            <4>2. next <= next /\ next < next + 2
                BY <1>7
            <4> QED
                BY <1>6, <1>7, <3>3, <4>1, <4>2 DEF Added, Live
        <3>5. TreeInv(h, next + 2, astray)
            <4>1. next <= next + 2 /\ next + 2 \in Nat
                BY <1>7
            <4> QED
                BY <1>7, <3>4, <4>1, ExtendCells
        <3>6. next \in AllOf(h, "trigger") /\ Of("trigger") \subseteq AllOf(h, "trigger")
            BY <1>6, <3>3 DEF AllOf, Of
        <3> QED
            BY <1>1, <1>5, <3>1, <3>5, <3>6
    <2>2. CASE root # 0
        <3> DEFINE second == Array(Append(Kids(root), next), near)
                   cells == <<new, second>>
        <3>1. root \in Of("folder") /\ heap[root].kind = "folder"
            BY <2>2 DEF Of
        <3>2. second \in Cell
            <4>1. Append(Kids(root), next) \in Seq(Address)
                BY <1>7, TreeFacts
            <4> QED
                BY <4>1, ArrayIsCell
        <3> HIDE DEF second
        <3>3. cells \in Seq(Cell) /\ Len(cells) = 2 /\ cells[1] = new /\ cells[2] = second
            BY <1>6, <3>2
        <3>4. heap' = Place([heap EXCEPT ![root].kids = next + 1], cells)
            BY <1>4, <2>2 DEF new, second
        <3> HIDE DEF cells
        <3>5. Len(cells) \in {2, 3} /\ Len(cells) # 3 /\ next + Len(cells) - 1 <= MaxCells
            <4>1. next + 2 - 1 <= MaxCells
                BY <1>5, <1>7
            <4> QED
                BY <3>3, <4>1
        <3>6. cells[1].kind \in Below[heap[root].kind] \cap {"trigger", "eca"}
            BY <1>6, <3>1, <3>3 DEF Below
        <3>7. cells[2] = Array(Append(Kids(root), next), near)
            BY <3>3 DEF second
        <3>8. cells[1].kids = 0 /\ cells[1].params = 0 /\ cells[1].kind = "trigger"
            BY <1>6, <3>3
        <3> DEFINE g == Place([heap EXCEPT ![root].kids = next + 1], cells)
        <3>9. /\ TreeInv(g, next + Len(cells), astray)
              /\ \A kind : Of(kind) \subseteq AllOf(g, kind)
              /\ next \in AllOf(g, cells[1].kind)
            BY <3>1, <3>3, <3>5, <3>6, <3>7, <3>8, Grow
        <3> QED
            BY <1>1, <1>5, <3>3, <3>4, <3>8, <3>9
    <2> QED
        BY <2>1, <2>2
<1>9. /\ cache' \in Seq(Address) /\ IsInjective(cache')
      /\ ToSet(cache') \ AllOf(heap', "trigger") \subseteq gone' /\ gone' \in {gone, {}}
    <2>1. cache' \in Seq(Address)
        BY <1>5, <1>7, CacheFacts
    <2>2. ToSet(cache') = ToSet(cache) \cup {next}
        BY <1>5, <1>7, CacheFacts, ToSetAppend
    <2>3. next \notin ToSet(cache)
        <3>1. \A n \in gone : n < next
            BY DEF Inv, Past
        <3>2. ~ (next < next)
            BY <1>7
        <3> QED
            BY <1>7, <3>1, <3>2, CacheFacts DEF Of
    <2>4. IsInjective(cache')
        BY <1>5, <1>7, <2>3, CacheFacts, InjectiveAppend
    <2> QED
        BY <1>1, <1>8, <2>1, <2>2, <2>4, CacheFacts
<1>10. next' \in 1 .. MaxCells + 2 /\ astray' \in BOOLEAN /\ next <= next' /\ Fresh(heap')
    <2>1. next' \in 1 .. MaxCells + 2 /\ astray' \in BOOLEAN /\ next <= next'
        BY <1>1, <1>5, <1>7, TreeFacts
    <2>2. DOMAIN heap \subseteq Live /\ DOMAIN [heap EXCEPT ![root].kids = next + 1] \subseteq Live
        BY DEF Live
    <2>3. \A cells : /\ Fresh(Place(heap, cells))
                     /\ Fresh(Place([heap EXCEPT ![root].kids = next + 1], cells))
        BY <1>7, <2>2, PlaceFresh
    <2>4. Fresh(heap')
        BY <1>4, <2>3, Zenon
    <2> QED
        BY <2>1, <2>4
<1> QED
    BY <1>1, <1>3, <1>8, <1>9, <1>10, <1>11, NextInv

\* A call that uses a stale index, or is misled, changes nothing more.
LEMMA CreateTriggerStops == ASSUME Inv, CreateTrigger, Lost PROVE Always'
<1>1. cache # <<>> /\ Call(cache[1] \in Live) /\ astray' = astray /\ gone' = gone
    BY DEF CreateTrigger
<1>2. calls < MaxCalls /\ calls' = calls + 1 /\ misuse' \in BOOLEAN /\ (misuse' <=> cache[1] \notin Live)
    BY <1>1, CallIs
<1>3. heap' = heap /\ next' = next /\ cache' = cache /\ misled' \in BOOLEAN
    BY DEF CreateTrigger, Found
<1>4. CASE misled'
    <2>1. calls' \in 0 .. MaxCalls
        BY <1>2, RegistryAssumption, TreeFacts
    <2>2. TypeOK'
        BY <1>1, <1>2, <1>3, <2>1 DEF Inv, TypeOK, Live
    <2> QED
        BY <1>4, <2>2 DEF Always
<1>5. CASE ~misled'
    <2>1. 1 \in DOMAIN cache /\ cache[1] \notin Live
        BY <1>1, <1>2, <1>5, CacheFacts DEF Lost
    <2>2. ToSet(cache') \cap gone' # {}
        BY <1>1, <1>3, <2>1, CacheFacts
    <2>3. misled' = misled /\ gone' \in {gone, {}}
        BY <1>1, <1>3, <1>5 DEF Inv, TypeOK
    <2>4. Inv'
        BY <1>1, <1>2, <1>3, <2>2, <2>3, SameHeap, CacheFacts, TreeFacts, NextInv
    <2> QED
        BY <2>4 DEF Always, Inv
<1> QED
    BY <1>4, <1>5

\* An ECA of a trigger, what is freed with it and who else points there.
LEMMA EcaParts ==
    ASSUME Inv, NEW t \in Of("trigger"), NEW e \in ToSet(Kids(t)), Removable(e)
    PROVE  LET F == Parts(e) \cup Nested(e) \cup {heap[t].kids}
           IN  /\ F \subseteq Live /\ F \cap Of("folder") = {} /\ F \cap Of("trigger") = {}
               /\ t \notin F
               /\ \A n \in Nodes \ F : heap[n].params # 0 => heap[n].params \notin F
               /\ \A n \in Guarded(heap, astray) \ F : n # t =>
                     (heap[n].kids # 0 => heap[n].kids \notin F) /\ ToSet(Kids(n)) \cap F = {}
               /\ ToSet(Kids(t)) \cap F = {e}
<1> DEFINE F == Parts(e) \cup Nested(e) \cup {heap[t].kids}
           inner == ToSet(Kids(e)) \cap Live
<1>1. /\ e \in Of("eca") /\ e \in Nodes /\ t \in Nodes /\ t \in Live /\ e # t /\ 0 \notin Live
      /\ Nodes \subseteq Live
    BY TreeFacts DEF Of
<1>2. inner \subseteq Of("eca")
    <2>1. \A k \in inner : heap[k].kind \in Below[heap[e].kind]
        BY <1>1, TreeFacts
    <2>2. heap[e].kind = "eca"
        BY <1>1 DEF Of
    <2> QED
        BY <2>1, <2>2 DEF Below, Of
<1>3. heap[t].kids \in Of("array")
    <2>1. Kids(t) # <<>>
        BY ToSetEmpty
    <2>2. heap[t].kids \in Live
        BY <2>1 DEF Kids, ListOf, Live
    <2> QED
        BY <1>1, <2>2, Bridge DEF Inv, TreeInv, Linked, Of, Live
<1>4. ASSUME NEW n \in {e} \cup inner
      PROVE  n \in Of("eca") /\ n \in F /\ Parts(n) \subseteq F
             /\ (heap[n].params # 0 => heap[n].params \in Of("params"))
    <2>1. n \in Of("eca") /\ n \in Nodes
        BY <1>1, <1>2, TreeFacts
    <2>2. n \in Parts(n) /\ Parts(n) \subseteq F
        BY DEF Parts, Nested
    <2> QED
        BY <2>1, <2>2, TreeFacts
<1>5. heap[e].kids # 0 => heap[e].kids \in Of("array")
    <2>1. heap[e].kids # 0 => heap[e].kids \in Live
        BY DEF Removable, Nested
    <2> QED
        BY <1>1, <2>1, Bridge DEF Inv, TreeInv, Linked, Of, Live
\* What F has in it.
<1>6. ASSUME NEW n \in F
      PROVE  \/ n \in {e} \cup inner
             \/ n \in Of("params") /\ \E k \in {e} \cup inner : n = heap[k].params
             \/ n \in Of("array") /\ (n = heap[t].kids \/ (n = heap[e].kids /\ n # 0))
    <2>1. CASE n = heap[t].kids
        BY <1>3, <2>1
    <2>2. CASE n \in {heap[e].kids} \ {0}
        BY <1>5, <2>2
    <2>3. CASE \E k \in {e} \cup inner : n \in Parts(k)
        <3>1. PICK k \in {e} \cup inner : n \in Parts(k)
            BY <2>3
        <3>2. n = k \/ (n = heap[k].params /\ n # 0)
            BY <3>1 DEF Parts
        <3> QED
            BY <1>4, <3>1, <3>2
    <2> QED
        BY <2>1, <2>2, <2>3 DEF Nested
<1>7. \A n \in F : n \in Of("eca") \cup Of("params") \cup Of("array")
    BY <1>4, <1>6
<1>8. F \subseteq Live /\ F \cap Of("folder") = {} /\ F \cap Of("trigger") = {} /\ t \notin F
    BY <1>7 DEF Of
<1>9. ASSUME NEW n \in Nodes \ F, heap[n].params # 0 PROVE heap[n].params \notin F
    <2> SUFFICES ASSUME heap[n].params \in F PROVE FALSE
        OBVIOUS
    <2>1. heap[n].params \in Of("params")
        BY <1>9, TreeFacts
    <2>2. PICK k \in {e} \cup inner : heap[n].params = heap[k].params
        BY <1>4, <1>6, <2>1 DEF Of
    <2>3. k \in Nodes /\ k # n
        BY <1>4, <2>2, TreeFacts
    <2> QED
        BY <1>9, <2>2, <2>3, Bridge DEF Inv, TreeInv, OwnParams
<1>10. t \in Guarded(heap, astray) /\ Guarded(heap, astray) \subseteq Nodes
    BY TreeFacts, Bridge DEF Guarded
<1>11. ASSUME NEW m \in Guarded(heap, astray), NEW n \in Nodes, m # n
       PROVE  /\ heap[m].kids # 0 => heap[m].kids # heap[n].kids
              /\ ToSet(Kids(m)) \cap ToSet(Kids(n)) = {}
    <2>1. /\ heap[m].kids # 0 => heap[m].kids # heap[n].kids
          /\ KidsOf(heap, m) \cap KidsOf(heap, n) = {}
        BY <1>11, Bridge DEF Inv, TreeInv, OwnKids
    <2> QED
        BY <2>1, Bridge
<1>12. \A n \in Nodes : \A k \in ToSet(Kids(n)) \cap Live : k \in Nodes
    <2>1. \A n \in Nodes : \A k \in ToSet(Kids(n)) \cap Live : heap[k].kind \in Below[heap[n].kind]
        BY TreeFacts
    <2>2. \A kind \in NodeKind : Below[kind] \subseteq NodeKind
        BY DEF Below, NodeKind
    <2> QED
        BY <2>1, <2>2 DEF Nodes
<1>13. ASSUME NEW n \in Guarded(heap, astray) \ F, n # t
       PROVE  (heap[n].kids # 0 => heap[n].kids \notin F) /\ ToSet(Kids(n)) \cap F = {}
    <2>1. n \in Nodes /\ n # e /\ n \in Guarded(heap, astray)
        BY <1>4, <1>10
    <2>2. ASSUME heap[n].kids # 0, heap[n].kids \in F PROVE FALSE
        <3>1. heap[n].kids \in Of("array")
            BY <1>8, <2>1, <2>2, Bridge DEF Inv, TreeInv, Linked, Of, Live
        <3>2. heap[n].kids = heap[t].kids \/ heap[n].kids = heap[e].kids
            BY <1>4, <1>6, <2>2, <3>1 DEF Of
        <3> QED
            BY <1>1, <1>11, <1>13, <2>1, <2>2, <3>2
    <2>3. ASSUME NEW k \in ToSet(Kids(n)), k \in F PROVE FALSE
        <3>1. k \in Nodes
            BY <1>8, <1>12, <2>1, <2>3
        <3>2. k = e \/ k \in ToSet(Kids(e))
            BY <1>6, <2>3, <3>1 DEF Nodes, Of, NodeKind
        <3> QED
            BY <1>1, <1>11, <1>13, <2>1, <3>2
    <2> QED
        BY <2>2, <2>3
<1>14. ToSet(Kids(t)) \cap F = {e}
    <2>1. ASSUME NEW k \in ToSet(Kids(t)), k \in F PROVE k = e
        <3>1. k \in Nodes
            BY <1>1, <1>8, <1>12, <2>1
        <3>2. k = e \/ k \in ToSet(Kids(e))
            BY <1>6, <2>1, <3>1 DEF Nodes, Of, NodeKind
        <3> QED
            BY <1>1, <1>10, <1>11, <3>2
    <2>2. e \in F
        BY <1>4
    <2> QED
        BY <2>1, <2>2
<1> QED
    BY <1>8, <1>9, <1>13, <1>14

\* An ECA leaves its trigger.
LEMMA RemoveEcaInv == ASSUME Inv, NEW i, NEW type, NEW k, k \in Nat, RemoveEca(i, type, k) PROVE Inv'
<1> DEFINE t == cache[i]
           ecas == OfType(t, type)
           e == ecas[k]
           readable == Searchable(t) /\ (k \in DOMAIN ecas => Removable(e))
<1>1. /\ i \in DOMAIN cache /\ Call(readable) /\ cache' = cache /\ astray' = astray
      /\ misled' = misled /\ gone' = gone
    BY DEF RemoveEca
<1>2. calls < MaxCalls /\ calls' = calls + 1 /\ misuse' \in BOOLEAN /\ (misuse' <=> ~readable)
    BY <1>1, CallIs
<1>9. CASE t \notin Live
    <2>1. ~readable
        BY <1>9 DEF Searchable, Readable
    <2>2. heap' = heap /\ next' = next /\ misuse'
        BY <1>2, <2>1 DEF RemoveEca
    <2>3. ToSet(cache') \cap gone' # {} /\ gone' \in {gone, {}}
        BY <1>1, <1>9, CacheFacts
    <2> QED
        BY <1>1, <1>2, <2>2, <2>3, SameHeap, CacheFacts, TreeFacts, NextInv
<1> SUFFICES ASSUME t \in Live PROVE Inv'
    BY <1>9
<1>3. t \in Of("trigger") /\ t \in Nodes
    BY <1>1, CacheFacts, TreeFacts
<1>4. ASSUME k \in DOMAIN ecas PROVE e \in ToSet(Kids(t)) /\ e \in Of("eca") /\ e \in Nodes
    <2>1. ecas \in Seq(Of("eca")) /\ ToSet(ecas) \subseteq ToSet(Kids(t))
        BY <1>3, OfTypeIn
    <2>2. e \in ToSet(ecas)
        BY <1>4 DEF ToSet
    <2>3. e \in ToSet(Kids(t))
        BY <2>1, <2>2
    <2> HIDE DEF e, ecas, t
    <2> QED
        BY <1>3, <2>3, TreeFacts
<1>5. ~astray => readable
    <2> SUFFICES ASSUME ~astray PROVE readable
        OBVIOUS
    <2>1. \A n \in Nodes : Readable(n) /\ ToSet(Kids(n)) \subseteq Nodes
        BY WholeFacts
    <2>2. Searchable(t)
        BY <1>3, <2>1 DEF Searchable
    <2>3. ASSUME k \in DOMAIN ecas PROVE Removable(e)
        <3>1. e \in Nodes /\ Nodes \subseteq Live
            BY <1>4, <2>3, TreeFacts
        <3> HIDE DEF e, ecas, t
        <3>2. \A n \in Nodes : Parts(n) \subseteq Live
            <4>1. \A n \in Nodes : heap[n].params # 0 => heap[n].params \in Live
                BY TreeFacts DEF Of
            <4> QED
                BY <3>1, <4>1 DEF Parts
        <3>3. {heap[e].kids} \ {0} \subseteq Live /\ ToSet(Kids(e)) \subseteq Nodes
            BY <2>1, <3>1 DEF Readable
        <3>4. UNION {Parts(n) : n \in ToSet(Kids(e)) \cap Live} \subseteq Live
            BY <3>2, <3>3
        <3> QED
            BY <3>1, <3>2, <3>3, <3>4 DEF Removable, Nested
    <2> QED
        BY <2>2, <2>3
<1> HIDE DEF readable
<1>6. ~astray' => ~misuse'
    BY <1>1, <1>2, <1>5
<1>7. CASE misuse' \/ k \notin DOMAIN ecas
    <2>1. heap' = heap /\ next' = next
        BY <1>7 DEF RemoveEca
    <2>2. gone' \in {gone, {}}
        BY <1>1
    <2> QED
        BY <1>1, <1>2, <1>6, <2>1, <2>2, SameHeap, CacheFacts, TreeFacts, NextInv
<1>8. CASE ~ (misuse' \/ k \notin DOMAIN ecas)
    <2> DEFINE F == Parts(e) \cup Nested(e) \cup {heap[t].kids}
               rest == Rest(t, e)
    <2>1. \/ rest = <<>> /\ heap' = [Without(F) EXCEPT ![t].kids = 0] /\ next' = next
          \/ /\ next <= MaxCells /\ next' = next + 1
             /\ \E near \in BOOLEAN :
                   heap' = Place([Without(F) EXCEPT ![t].kids = next], <<Array(rest, near)>>)
        BY <1>8 DEF RemoveEca
    <2>2. e \in ToSet(Kids(t)) /\ Removable(e)
        BY <1>2, <1>4, <1>8 DEF readable
    <2> HIDE DEF e, ecas, t
    <2>3. /\ F \subseteq Live /\ F \cap Of("folder") = {} /\ F \cap Of("trigger") = {}
          /\ t \notin F
          /\ \A n \in Nodes \ F : heap[n].params # 0 => heap[n].params \notin F
          /\ \A n \in Guarded(heap, astray) \ F : n # t =>
                (heap[n].kids # 0 => heap[n].kids \notin F) /\ ToSet(Kids(n)) \cap F = {}
          /\ ToSet(Kids(t)) \cap F = {e}
        BY <1>3, <2>2, EcaParts
    <2>4. /\ rest \in Seq(Address) /\ ToSet(rest) = ToSet(Kids(t)) \ {e} /\ IsInjective(rest)
        <3>1. Kids(t) \in Seq(Address) /\ IsInjective(Kids(t))
            BY <1>3, TreeFacts
        <3>2. rest \in Seq(Address) /\ ToSet(rest) = ToSet(Kids(t)) \cap (ToSet(Kids(t)) \ {e})
            BY <3>1, AmongElements DEF Rest
        <3>3. IsInjective(rest)
            BY <3>1, AmongInjective DEF Rest
        <3> QED
            BY <3>2, <3>3
    <2> HIDE DEF F, rest
    <2>5. Spare(F, t, rest, astray)
        <3>1. ToSet(Kids(t)) \cap Of("folder") = {}
            BY <1>3, TreeFacts DEF Of
        <3> QED
            BY <1>3, <2>3, <2>4, <3>1 DEF Spare
    <2>6. MaxCells \in Nat /\ next \in Nat /\ next \in 1 .. MaxCells + 2
        BY TreeFacts, CacheFacts
    <2>7. /\ TreeInv(heap', next', astray) /\ Of("trigger") \ F \subseteq AllOf(heap', "trigger")
          /\ next' \in 1 .. MaxCells + 2
        <3>1. CASE rest = <<>> /\ heap' = [Without(F) EXCEPT ![t].kids = 0] /\ next' = next
            <4>1. Spare(F, t, <<>>, astray)
                BY <2>5, <3>1
            <4>2. /\ TreeInv([Without(F) EXCEPT ![t].kids = 0], next, astray)
                  /\ Of("trigger") \ F \subseteq AllOf([Without(F) EXCEPT ![t].kids = 0], "trigger")
                BY <4>1, ShrinkToNothing
            <4> QED
                BY <2>6, <3>1, <4>2
        <3>2. CASE /\ next <= MaxCells /\ next' = next + 1
                   /\ \E near \in BOOLEAN :
                         heap' = Place([Without(F) EXCEPT ![t].kids = next], <<Array(rest, near)>>)
            <4>1. PICK near \in BOOLEAN :
                      heap' = Place([Without(F) EXCEPT ![t].kids = next], <<Array(rest, near)>>)
                BY <3>2
            <4> DEFINE g == Place([Without(F) EXCEPT ![t].kids = next], <<Array(rest, near)>>)
            <4>2. F \subseteq Live \cup {0}
                BY <2>3
            <4>3. TreeInv(g, next + 1, astray) /\ Of("trigger") \ F \subseteq AllOf(g, "trigger")
                BY <2>5, <3>2, <4>2, Shrink
            <4> HIDE DEF g
            <4>4. heap' = g
                BY <4>1 DEF g
            <4>5. next' \in 1 .. MaxCells + 2
                BY <2>6, <3>2
            <4> QED
                BY <3>2, <4>3, <4>4, <4>5
        <3> QED
            BY <2>1, <3>1, <3>2
    <2>8. ToSet(cache') \ AllOf(heap', "trigger") \subseteq gone' /\ gone' \in {gone, {}}
        BY <1>1, <2>3, <2>7, CacheFacts
    <2>9. next <= next' /\ Fresh(heap')
        <3>1. DOMAIN [Without(F) EXCEPT ![t].kids = 0] \subseteq Live
              /\ DOMAIN [Without(F) EXCEPT ![t].kids = next] \subseteq Live
            BY DEF Without
        <3>2. next <= next'
            BY <2>1, <2>6
        <3>3. Fresh([Without(F) EXCEPT ![t].kids = 0])
            BY <3>1 DEF Fresh
        <3>4. \A cells : Fresh(Place([Without(F) EXCEPT ![t].kids = next], cells))
            BY <2>6, <3>1, PlaceFresh
        <3>5. Fresh(heap')
            BY <2>1, <3>3, <3>4, Zenon
        <3> QED
            BY <3>2, <3>5
    <2> QED
        BY <1>1, <1>2, <1>6, <2>7, <2>8, <2>9, CacheFacts, TreeFacts, NextInv
<1> QED
    BY <1>7, <1>8

\* A trigger, what is freed with it and who else points there.
LEMMA TriggerParts ==
    ASSUME Inv, NEW t \in Of("trigger")
    PROVE  LET F == {t, heap[t].kids} \cup ToSet(Kids(t))
           IN  /\ F \subseteq Live \cup {0} /\ F \cap Of("folder") = {} /\ F \cap Of("trigger") = {t}
               /\ \A n \in Nodes \ F : heap[n].params # 0 => heap[n].params \notin F
               /\ \A n \in Guarded(heap, astray) \ F :
                     /\ heap[n].kids # 0 => heap[n].kids \notin F
                     /\ ToSet(Kids(n)) \cap F \subseteq {t}
                     /\ heap[n].kind = "trigger" => ToSet(Kids(n)) \cap F = {}
               /\ \A n \in Of("folder") : ToSet(Kids(n)) \cap F \subseteq {t}
<1> DEFINE F == {t, heap[t].kids} \cup ToSet(Kids(t))
<1>1. /\ t \in Live /\ t \in Nodes /\ 0 \notin Live /\ Nodes \subseteq Live
      /\ heap[t].kids \in Live \cup {0} /\ ToSet(Kids(t)) \subseteq Of("eca")
      /\ Of("folder") \cup Of("trigger") \subseteq Nodes
    BY TreeFacts
<1>2. heap[t].kids # 0 => heap[t].kids \in Of("array")
    BY <1>1, Bridge DEF Inv, TreeInv, Linked, Of, Live
<1>3. \A n \in F : n = t \/ n \in Of("eca") \/ n \in Of("array") \/ n = 0
    BY <1>1, <1>2
<1>4. F \subseteq Live \cup {0} /\ F \cap Of("folder") = {} /\ F \cap Of("trigger") = {t}
    BY <1>1, <1>3 DEF Of
<1>5. ASSUME NEW n \in Nodes \ F, heap[n].params # 0 PROVE heap[n].params \notin F
    <2>1. heap[n].params \in Of("params")
        BY <1>5, TreeFacts
    <2> QED
        BY <1>1, <1>3, <1>5, <2>1 DEF Of
<1>6. Of("folder") \cup Of("trigger") \subseteq Guarded(heap, astray) /\ Guarded(heap, astray) \subseteq Nodes
    BY TreeFacts, Bridge DEF Guarded
<1>7. ASSUME NEW m \in Guarded(heap, astray), NEW n \in Nodes, m # n
      PROVE  /\ heap[m].kids # 0 => heap[m].kids # heap[n].kids
             /\ ToSet(Kids(m)) \cap ToSet(Kids(n)) = {}
    <2>1. /\ heap[m].kids # 0 => heap[m].kids # heap[n].kids
          /\ KidsOf(heap, m) \cap KidsOf(heap, n) = {}
        BY <1>7, Bridge DEF Inv, TreeInv, OwnKids
    <2> QED
        BY <2>1, Bridge
<1>8. \A n \in Nodes : \A k \in ToSet(Kids(n)) \cap Live : k \in Nodes
    <2>1. \A n \in Nodes : \A k \in ToSet(Kids(n)) \cap Live : heap[k].kind \in Below[heap[n].kind]
        BY TreeFacts
    <2>2. \A kind \in NodeKind : Below[kind] \subseteq NodeKind
        BY DEF Below, NodeKind
    <2> QED
        BY <2>1, <2>2 DEF Nodes
<1>9. ASSUME NEW n \in Guarded(heap, astray), n # t PROVE ToSet(Kids(n)) \cap F \subseteq {t}
    <2> SUFFICES ASSUME NEW k \in ToSet(Kids(n)), k \in F, k # t PROVE FALSE
        OBVIOUS
    <2>1. k # 0
        BY TreeFacts DEF Address
    <2>2. k \in Live
        BY <1>4, <2>1
    <2>3. k \in Nodes
        BY <1>6, <1>8, <2>2
    <2>4. k \in ToSet(Kids(t))
        <3>1. k # heap[t].kids
            BY <1>2, <2>1, <2>3 DEF Of, Nodes, NodeKind
        <3> QED
            BY <3>1
    <2> QED
        BY <1>1, <1>7, <1>9, <2>4
<1>10. ASSUME NEW n \in Guarded(heap, astray) \ F
       PROVE  /\ heap[n].kids # 0 => heap[n].kids \notin F
              /\ ToSet(Kids(n)) \cap F \subseteq {t}
              /\ heap[n].kind = "trigger" => ToSet(Kids(n)) \cap F = {}
    <2>1. n \in Nodes /\ n # t
        BY <1>6
    <2>2. ASSUME heap[n].kids # 0, heap[n].kids \in F PROVE FALSE
        <3>1. heap[n].kids \in Live
            BY <1>4, <2>2
        <3>2. heap[n].kids \in Of("array")
            BY <2>1, <3>1, Bridge DEF Inv, TreeInv, Linked, Of, Live
        <3>3. heap[n].kids = heap[t].kids
            BY <1>1, <2>2, <3>2 DEF Of
        <3> QED
            BY <1>1, <1>7, <2>1, <2>2, <3>3
    <2>3. ToSet(Kids(n)) \cap F \subseteq {t}
        BY <1>9, <2>1
    <2>4. ASSUME heap[n].kind = "trigger" PROVE t \notin ToSet(Kids(n))
        <3>1. n \in Of("trigger")
            BY <1>1, <2>1, <2>4 DEF Of
        <3>2. ToSet(Kids(n)) \subseteq Of("eca")
            BY <3>1, TreeFacts
        <3> QED
            BY <3>2 DEF Of
    <2> QED
        BY <2>2, <2>3, <2>4
<1>11. ASSUME NEW n \in Of("folder") PROVE ToSet(Kids(n)) \cap F \subseteq {t}
    <2>1. n # t /\ n \in Guarded(heap, astray)
        BY <1>6 DEF Of
    <2> QED
        BY <1>9, <2>1
<1> QED
    BY <1>4, <1>5, <1>10, <1>11

\* A trigger that is still listed is freed only by a call that goes astray.
LEMMA DeleteTriggerInv == ASSUME Inv, NEW i, DeleteTrigger(i) PROVE Inv'
<1> DEFINE t == cache[i]
           readable == Readable(t) /\ ToSet(Kids(t)) \subseteq Live
<1>1. i \in DOMAIN cache /\ Call(readable) /\ misled' = misled /\ gone' = gone
    BY DEF DeleteTrigger
<1>16. CASE t \notin Live
    <2>1. ~readable
        BY <1>16 DEF Readable
    <2>2. calls < MaxCalls /\ calls' = calls + 1 /\ misuse' \in BOOLEAN /\ misuse'
        BY <1>1, <2>1, CallIs
    <2>3. heap' = heap /\ next' = next /\ cache' = cache /\ astray' = astray
        BY <2>2 DEF DeleteTrigger
    <2>4. ToSet(cache') \cap gone' # {} /\ gone' \in {gone, {}}
        BY <1>1, <1>16, <2>3, CacheFacts
    <2> QED
        BY <1>1, <2>2, <2>3, <2>4, SameHeap, CacheFacts, TreeFacts, NextInv
<1> SUFFICES ASSUME t \in Live PROVE Inv'
    BY <1>16
<1>2. t \in Of("trigger") /\ t \in ToSet(cache)
    BY <1>1, CacheFacts
<1>3. readable
    BY <1>2, TreeFacts DEF Readable, Of
<1>4. calls < MaxCalls /\ calls' = calls + 1 /\ misuse' \in BOOLEAN /\ ~misuse'
    BY <1>1, <1>3, CallIs
<1> DEFINE F == {t, heap[t].kids} \cup ToSet(Kids(t))
           rest(root) == Rest(root, t)
<1>5. /\ next <= MaxCells /\ next' = next + 1 /\ cache' = RemoveAt(cache, i)
      /\ \E root \in Roots, near \in BOOLEAN :
            /\ heap' = IF t \notin ToSet(Kids(root)) THEN Without(F)
                       ELSE IF rest(root) = <<>> THEN [Without(F) EXCEPT ![root].kids = 0]
                       ELSE Place([Without(F) EXCEPT ![root].kids = next], <<Array(rest(root), near)>>)
            /\ astray' = (astray \/ (Listed(t) /\ t \notin ToSet(Kids(root))))
    BY <1>4 DEF DeleteTrigger
<1> HIDE DEF t, readable
<1>6. /\ F \subseteq Live \cup {0} /\ F \cap Of("folder") = {} /\ F \cap Of("trigger") = {t}
      /\ \A n \in Nodes \ F : heap[n].params # 0 => heap[n].params \notin F
      /\ \A n \in Guarded(heap, astray) \ F :
            /\ heap[n].kids # 0 => heap[n].kids \notin F
            /\ ToSet(Kids(n)) \cap F \subseteq {t}
            /\ heap[n].kind = "trigger" => ToSet(Kids(n)) \cap F = {}
      /\ \A n \in Of("folder") : ToSet(Kids(n)) \cap F \subseteq {t}
    BY <1>2, TriggerParts
<1>7. t \in F
    OBVIOUS
<1> HIDE DEF F
<1>8. PICK root \in Roots, near \in BOOLEAN :
          /\ heap' = IF t \notin ToSet(Kids(root)) THEN Without(F)
                     ELSE IF rest(root) = <<>> THEN [Without(F) EXCEPT ![root].kids = 0]
                     ELSE Place([Without(F) EXCEPT ![root].kids = next], <<Array(rest(root), near)>>)
          /\ astray' = (astray \/ (Listed(t) /\ t \notin ToSet(Kids(root))))
    BY <1>5
<1>9. astray => astray'
    BY <1>8
<1>10. /\ MaxCells \in Nat /\ next \in Nat /\ next <= next + 1 /\ next + 1 \in Nat
       /\ next' \in 1 .. MaxCells + 2 /\ astray' \in BOOLEAN /\ TreeInv(heap, next, astray)
    <2>1. MaxCells \in Nat /\ next \in Nat /\ TreeInv(heap, next, astray)
        BY TreeFacts, CacheFacts
    <2>2. next' \in 1 .. MaxCells + 2 /\ next <= next + 1 /\ next + 1 \in Nat
        BY <1>5, <2>1
    <2>3. astray' \in BOOLEAN
        BY <1>8
    <2> QED
        BY <2>1, <2>2, <2>3
<1>11. /\ Guarded(heap, astray') \subseteq Guarded(heap, astray) /\ Guarded(heap, astray) \subseteq Nodes
       /\ Of("folder") \cup Of("trigger") \subseteq Guarded(heap, astray)
    BY <1>9, TreeFacts, Bridge DEF Guarded
<1>12. ASSUME t \in ToSet(Kids(root))
       PROVE  TreeInv(heap', next', astray') /\ Of("trigger") \ F \subseteq AllOf(heap', "trigger")
    <2>1. root \in Of("folder")
        <3>1. root \in Nodes
            <4>1. root # 0
                BY <1>12, ToSetEmpty, TreeFacts
            <4> QED
                BY <4>1, TreeFacts DEF Roots
        <3>2. heap[t].kind = "trigger" /\ heap[t].kind \in Below[heap[root].kind]
            BY <1>2, <1>12, <3>1, TreeFacts DEF Of
        <3>3. heap[root].kind = "folder"
            BY <3>1, <3>2 DEF Nodes, NodeKind, Below
        <3> QED
            BY <3>1, <3>3, TreeFacts DEF Of
    <2> DEFINE l == rest(root)
    <2>2. l \in Seq(Address) /\ ToSet(l) = ToSet(Kids(root)) \ {t} /\ IsInjective(l)
        <3>1. Kids(root) \in Seq(Address) /\ IsInjective(Kids(root))
            BY <2>1, TreeFacts
        <3>2. l \in Seq(Address) /\ ToSet(l) = ToSet(Kids(root)) \cap (ToSet(Kids(root)) \ {t})
            BY <3>1, AmongElements DEF Rest
        <3>3. IsInjective(l)
            BY <3>1, AmongInjective DEF Rest
        <3> QED
            BY <3>2, <3>3
    <2>3. heap' = IF l = <<>> THEN [Without(F) EXCEPT ![root].kids = 0]
                  ELSE Place([Without(F) EXCEPT ![root].kids = next], <<Array(l, near)>>)
        BY <1>8, <1>12
    <2> HIDE DEF l
    <2>4. \A n \in Guarded(heap, astray') : n # root /\ ~astray' => t \notin ToSet(Kids(n))
        <3> SUFFICES ASSUME NEW n \in Guarded(heap, astray), n # root PROVE t \notin ToSet(Kids(n))
            BY <1>11
        <3>1. n \in Nodes /\ root \in Of("folder") \cup Of("trigger")
            BY <1>11, <2>1
        <3>2. ToSet(Kids(root)) \cap ToSet(Kids(n)) = {}
            BY <3>1, ApartFacts
        <3> QED
            BY <1>12, <3>2
    <2>5. Spare(F, root, l, astray')
        <3>1. root \notin F /\ heap[root].kind = "folder"
            BY <1>6, <2>1 DEF Of
        <3>2. ToSet(Kids(root)) \cap Of("folder") \subseteq ToSet(l)
            BY <1>2, <2>2 DEF Of
        <3>3. ToSet(l) \cap F = {}
            BY <1>6, <2>1, <2>2
        <3>4. ASSUME NEW n \in Guarded(heap, astray') \ F, n # root
              PROVE  /\ heap[n].kids # 0 => heap[n].kids \notin F
                     /\ ~astray' \/ heap[n].kind = "trigger" => ToSet(Kids(n)) \cap F = {}
            BY <1>6, <1>11, <2>4, <3>4
        <3> QED
            BY <1>6, <2>1, <2>2, <3>1, <3>2, <3>3, <3>4 DEF Spare
    <2>6. CASE l = <<>>
        <3> DEFINE g == [Without(F) EXCEPT ![root].kids = 0]
        <3>1. Spare(F, root, <<>>, astray')
            BY <2>5, <2>6
        <3>2. TreeInv(g, next, astray') /\ Of("trigger") \ F \subseteq AllOf(g, "trigger")
            BY <1>9, <3>1, ShrinkToNothing
        <3> HIDE DEF g
        <3>3. heap' = g
            BY <2>3, <2>6 DEF g
        <3>4. TreeInv(g, next + 1, astray')
            BY <1>10, <3>2, TakeAddresses
        <3> QED
            BY <1>5, <3>2, <3>3, <3>4
    <2>7. CASE l # <<>>
        <3> DEFINE g == Place([Without(F) EXCEPT ![root].kids = next], <<Array(l, near)>>)
        <3>1. TreeInv(g, next + 1, astray') /\ Of("trigger") \ F \subseteq AllOf(g, "trigger")
            BY <1>5, <1>6, <1>9, <2>5, Shrink
        <3> HIDE DEF g
        <3>2. heap' = g
            BY <2>3, <2>7 DEF g
        <3> QED
            BY <1>5, <3>1, <3>2
    <2> QED
        BY <2>6, <2>7
<1>13. ASSUME t \notin ToSet(Kids(root))
       PROVE  TreeInv(heap', next', astray') /\ Of("trigger") \ F \subseteq AllOf(heap', "trigger")
    <2> DEFINE g == Without(F)
    <2>1. DOMAIN g = DOMAIN heap \ F /\ \A n \in DOMAIN g : g[n] = heap[n]
        BY DEF Without, Live
    <2> HIDE DEF g
    <2>2. /\ NodesOf(g) = Nodes \ F /\ \A kind : AllOf(g, kind) = Of(kind) \ F
          /\ Guarded(g, astray') = Guarded(heap, astray') \ F
        <3>1. NodesOf(g) = NodesOf(heap) \ F /\ \A kind : AllOf(g, kind) = AllOf(heap, kind) \ F
            BY <2>1 DEF NodesOf, AllOf
        <3> QED
            BY <3>1, Bridge DEF Guarded
    <2>3. \A n \in Nodes : ~astray' => t \notin ToSet(Kids(n))
        BY <1>8, <1>13 DEF Listed
    <2>4. ASSUME NEW n \in NodesOf(g), heap[n].params # 0 PROVE heap[n].params \in DOMAIN g
        <3>1. heap[n].params \in Live
            BY <2>2, <2>4, TreeFacts DEF Of
        <3> QED
            BY <1>6, <2>1, <2>2, <2>4, <3>1 DEF Live
    <2>5. ASSUME NEW m \in Guarded(g, astray')
          PROVE  /\ heap[m].kids # 0 => heap[m].kids \in DOMAIN g
                 /\ ~astray' \/ heap[m].kind = "trigger" => KidsOf(heap, m) \subseteq DOMAIN g
        <3>1. m \in Guarded(heap, astray) \ F /\ m \in Nodes
            BY <1>11, <2>2
        <3>2. /\ heap[m].kids # 0 => heap[m].kids \in Live
              /\ ~astray \/ heap[m].kind = "trigger" => ToSet(Kids(m)) \subseteq Live
            BY <3>1, Bridge DEF Inv, TreeInv, Whole, Live
        <3>3. heap[m].kids # 0 => heap[m].kids \in DOMAIN g
            BY <1>6, <2>1, <3>1, <3>2 DEF Live
        <3>4. ASSUME ~astray' \/ heap[m].kind = "trigger" PROVE ToSet(Kids(m)) \subseteq DOMAIN g
            <4>1. ToSet(Kids(m)) \cap F = {}
                BY <1>6, <2>3, <3>1, <3>4
            <4>2. ToSet(Kids(m)) \subseteq Live
                BY <1>9, <3>2, <3>4
            <4> QED
                BY <2>1, <4>1, <4>2 DEF Live
        <3> QED
            BY <3>3, <3>4, Bridge
    <2>6. Freed(heap, g, astray')
        <3>1. AllOf(heap, "folder") \subseteq DOMAIN g
            BY <1>6, <2>2, Bridge DEF AllOf
        <3> QED
            BY <2>1, <2>4, <2>5, <3>1 DEF Freed
    <2>7. TreeInv(g, next, astray')
        BY <1>9, <1>10, <2>6, FreeCells
    <2>8. TreeInv(g, next + 1, astray')
        BY <1>10, <2>7, TakeAddresses
    <2>9. heap' = g
        BY <1>8, <1>13 DEF g
    <2> QED
        BY <1>5, <2>2, <2>8, <2>9
<1>14. TreeInv(heap', next', astray') /\ Of("trigger") \ F \subseteq AllOf(heap', "trigger")
    <2> HIDE DEF rest
    <2> QED
        BY <1>12, <1>13
<1>15. /\ cache' \in Seq(Address) /\ IsInjective(cache')
       /\ ToSet(cache') \ AllOf(heap', "trigger") \subseteq gone' /\ gone' \in {gone, {}}
    <2>1. /\ cache' \in Seq(Address) /\ IsInjective(cache')
          /\ ToSet(cache') \subseteq ToSet(cache) \ {t}
        BY <1>1, <1>5, CacheFacts, RemoveAtFacts DEF t
    <2>2. ToSet(cache') \ (Of("trigger") \ F) \subseteq gone
        BY <1>6, <2>1, CacheFacts
    <2> QED
        BY <1>1, <1>14, <2>1, <2>2
<1>17. next <= next' /\ Fresh(heap')
    <2>1. DOMAIN Without(F) \subseteq Live /\ DOMAIN [Without(F) EXCEPT ![root].kids = 0] \subseteq Live
          /\ DOMAIN [Without(F) EXCEPT ![root].kids = next] \subseteq Live
        BY DEF Without
    <2>2. Fresh(Without(F)) /\ Fresh([Without(F) EXCEPT ![root].kids = 0])
        BY <2>1 DEF Fresh
    <2>3. \A cells : Fresh(Place([Without(F) EXCEPT ![root].kids = next], cells))
        BY <1>10, <2>1, PlaceFresh
    <2>4. Fresh(heap')
        BY <1>8, <2>2, <2>3, Zenon
    <2> QED
        BY <1>5, <1>10, <2>4
<1> QED
    BY <1>1, <1>4, <1>10, <1>14, <1>15, <1>17, NextInv

\* The user leaves a tree, and what the cache lists of what is freed is on record.
LEMMA EditedInv ==
    ASSUME Inv, Goes, NEW h, Edited(h), next <= next', next' \in 1 .. MaxCells + 2,
           \A n \in DOMAIN h :
               n < next' /\ IF n \in Live THEN h[n].kind = heap[n].kind ELSE ~ (n < next)
    PROVE  Inv'
<1>1. /\ Tree(h) /\ heap' = h /\ gone' = gone \cup (Of("trigger") \ DOMAIN h)
      /\ cache' = cache /\ misuse' = misuse /\ astray' = astray /\ misled' = misled
      /\ ~misuse /\ ~misled /\ calls < MaxCalls /\ calls' = calls + 1
    BY Zenon DEF Edited, Goes
<1>2. next' \in Nat /\ 0 < next' /\ MaxCells \in Nat /\ next \in Nat
    BY TreeFacts
<1>3. TreeInv(heap', next', astray')
    BY <1>1, <1>2, TreeIs
<1>4. Live' \subseteq Address /\ \A n \in Live' : heap'[n] \in Cell
    BY <1>3 DEF TreeInv, Cells, Live
<1>5. gone' \subseteq Address /\ calls' \in 0 .. MaxCalls
    BY <1>1, RegistryAssumption, TreeFacts DEF Inv, TypeOK, Of
<1>6. TypeOK'
    BY <1>1, <1>4, <1>5 DEF Inv, TypeOK
<1>7. CacheSound'
    <2>1. ASSUME NEW t \in Of("trigger"), t \in DOMAIN h PROVE t \in AllOf(heap', "trigger")
        <3>1. t \in Live /\ heap[t].kind = "trigger"
            BY DEF Of
        <3> QED
            BY <1>1, <2>1, <3>1 DEF AllOf
    <2>2. ToSet(cache') \ AllOf(heap', "trigger") \subseteq gone'
        BY <1>1, <2>1, CacheFacts
    <2> QED
        BY <1>1, <2>2, CacheFacts DEF CacheSound, Of, AllOf, Live
<1>8. Past(gone', heap', next')
    <2> SUFFICES ASSUME NEW n \in gone' PROVE n < next' /\ n \notin DOMAIN h
        BY <1>1 DEF Past
    <2>1. CASE n \in gone
        <3>1. n \in Nat /\ n < next /\ n \notin Live
            BY <2>1 DEF Inv, Past, TypeOK, Address, Live
        <3> QED
            BY <1>2, <3>1
    <2>2. CASE n \in Of("trigger") \ DOMAIN h
        <3>1. n \in Nat /\ n < next
            BY <2>2 DEF Inv, TreeInv, Cells, Of, Live, Address
        <3> QED
            BY <1>2, <2>2, <3>1
    <2> QED
        BY <1>1, <2>1, <2>2
<1> QED
    BY <1>1, <1>3, <1>6, <1>7, <1>8 DEF Inv

\* The user deletes a trigger.
LEMMA UserDeletesInv == ASSUME Inv, NEW f, NEW t, UserDeletes(f, t) PROVE Inv'
<1> DEFINE C == CellsOf(Under(t))
           a == heap[f].kids
           h == [Without(C) EXCEPT ![a].list = Rest(f, t)]
<1>1. Goes /\ Edited(h) /\ next' = next
    BY DEF UserDeletes
<1>2. DOMAIN h = Live \ C /\ \A n \in DOMAIN h : n # a => h[n] = heap[n]
    BY DEF Without
<1>3. ASSUME a \in DOMAIN h PROVE h[a].kind = heap[a].kind
    <2>1. h[a] = [heap[a] EXCEPT !.list = Rest(f, t)] /\ a \in Live
        BY <1>2, <1>3 DEF Without
    <2>2. heap[a] \in Cell
        BY <2>1 DEF Inv, TypeOK
    <2> HIDE DEF a, h
    <2> QED
        BY <2>1, <2>2 DEF Cell
<1> HIDE DEF C, a, h
<1>4. \A n \in Live : n < next
    BY DEF Inv, TreeInv, Cells, Live
<1>5. ASSUME NEW n \in DOMAIN h PROVE n \in Live /\ n < next' /\ h[n].kind = heap[n].kind
    BY <1>1, <1>2, <1>3, <1>4
<1>6. next <= next' /\ next' \in 1 .. MaxCells + 2
    BY <1>1, CacheFacts, TreeFacts
<1> QED
    BY <1>1, <1>5, <1>6, EditedInv

\* The user opens another map.
LEMMA UserOpensInv == ASSUME Inv, NEW map \in Heaps, UserOpens(map) PROVE Inv'
<1> DEFINE kept == Live \ CellsOf(Under(Root))
           new == {n \in DOMAIN map : n # Root}
           D == kept \cup {Root} \cup {Moved(m) : m \in new}
           from(n) == IF n = Root THEN Root ELSE n - (next - 1)
           h == [n \in D |-> IF n \in kept THEN heap[n] ELSE Copied(map[from(n)])]
<1>1. /\ Goes /\ next - 1 + Cardinality(DOMAIN map) <= MaxCells
      /\ Edited(h) /\ next' = next + Cardinality(DOMAIN map)
    BY DEF UserOpens
<1>2. PICK last \in Nat : DOMAIN map = 1 .. last /\ Cardinality(DOMAIN map) = last /\ last # 0
    BY MapIs
<1>3. next \in Nat /\ next # 0 /\ MaxCells \in Nat /\ Root \in Live /\ heap[Root].kind = "folder"
      /\ \A n \in Live : n < next
    BY TreeFacts, CacheFacts DEF Inv, TreeInv, Cells, Live, Of
<1>4. map[Root] \in Cell /\ map[Root].kind = "folder"
    BY MapIs DEF Tree
<1>5. DOMAIN h = D /\ \A n \in D : h[n] = IF n \in kept THEN heap[n] ELSE Copied(map[from(n)])
    OBVIOUS
<1>6. kept \subseteq Live
    OBVIOUS
<1>7. ASSUME NEW m \in new PROVE ~ (Moved(m) < next) /\ Moved(m) < next + last
    <2>1. m \in Nat /\ m # 0 /\ m # Root /\ m <= last
        BY <1>2, <1>7
    <2>2. Moved(m) = next - 1 + m
        BY <2>1 DEF Moved
    <2> QED
        BY <1>3, <2>1, <2>2
<1>8. Copied(map[Root]).kind = "folder"
    BY <1>4 DEF Copied, Cell
<1> HIDE DEF kept, new, h
<1>9. ASSUME NEW n \in DOMAIN h
      PROVE  n < next' /\ IF n \in Live THEN h[n].kind = heap[n].kind ELSE ~ (n < next)
    <2>1. \A k \in Live : k < next + last
        <3>1. Live \subseteq Nat
            BY TreeFacts DEF Address
        <3> QED
            BY <1>2, <1>3, <3>1
    <2>2. CASE n \in kept
        BY <1>1, <1>2, <1>5, <1>6, <2>1, <2>2
    <2>3. CASE n = Root /\ n \notin kept
        <3>1. from(n) = Root
            BY <2>3
        <3>2. h[n] = Copied(map[Root])
            BY <1>5, <1>9, <2>3, <3>1
        <3> QED
            BY <1>1, <1>2, <1>3, <1>8, <2>1, <2>3, <3>2
    <2>4. CASE n \in {Moved(m) : m \in new}
        BY <1>1, <1>2, <1>3, <1>7, <2>4
    <2> QED
        BY <1>5, <1>9, <2>2, <2>3, <2>4
<1>10. next <= next' /\ next' \in 1 .. MaxCells + 2
    BY <1>1, <1>2, <1>3
<1> QED
    BY <1>1, <1>9, <1>10, EditedInv

\* Every step keeps the invariant.
LEMMA StepInv == Inv /\ [Next]_vars => Always'
<1> SUFFICES ASSUME Inv, [Next]_vars PROVE Always'
    OBVIOUS
<1>0. Inv' => Always'
    BY DEF Always, Inv
<1>1. CASE Refresh
    BY <1>1, RefreshInv
<1>2. CASE Compile
    BY <1>0, <1>2, CompileInv
<1>3. CASE CreateTrigger
    BY <1>0, <1>3, CreateTriggerInv, CreateTriggerStops
<1>4. CASE \E i \in DOMAIN cache : DeleteTrigger(i)
    BY <1>0, <1>4, DeleteTriggerInv
<1>5. CASE \E i \in DOMAIN cache, type \in Type : AddEca(i, type)
    BY <1>0, <1>5, AddEcaInv
<1>6. CASE \E i \in DOMAIN cache, type \in Type :
               \E k \in 1 .. Len(Kids(cache[i])) + 1 : RemoveEca(i, type, k)
    <2>0. PICK i \in DOMAIN cache, type \in Type :
              \E k \in 1 .. Len(Kids(cache[i])) + 1 : RemoveEca(i, type, k)
        BY <1>6
    <2>1. PICK k \in 1 .. Len(Kids(cache[i])) + 1 : RemoveEca(i, type, k)
        BY <2>0
    <2>2. Len(Kids(cache[i])) \in Nat
        BY TreeFacts
    <2>3. k \in Nat
        BY <2>2
    <2> QED
        BY <1>0, <2>1, <2>3, RemoveEcaInv
<1>7. CASE \E f \in Of("folder"), t \in Of("trigger") : UserDeletes(f, t)
    BY <1>0, <1>7, UserDeletesInv
<1>8. CASE \E map \in Heaps : UserOpens(map)
    BY <1>0, <1>8, UserOpensInv
<1>9. CASE UNCHANGED vars
    <2>1. /\ heap' = heap /\ cache' = cache /\ next' = next /\ misuse' = misuse /\ astray' = astray
          /\ misled' = misled /\ gone' = gone /\ calls' = calls
        BY <1>9 DEF vars
    <2>2. Inv'
        BY <2>1 DEF Inv, TypeOK, CacheSound, Live, Of
    <2> QED
        BY <1>0, <2>2
<1> QED
    BY <1>1, <1>2, <1>3, <1>4, <1>5, <1>6, <1>7, <1>8, <1>9 DEF Next

\* Nothing happens after a call was misled.
LEMMA StopsInv == TypeOK /\ misled /\ [Next]_vars => Always'
<1> SUFFICES ASSUME TypeOK, misled, [Next]_vars PROVE Always'
    OBVIOUS
<1>1. ~Goes /\ \A readable : ~Call(readable)
    BY DEF Goes, Call
<1>2. ~Refresh /\ ~Compile /\ ~CreateTrigger
    BY <1>1 DEF Refresh, Compile, CreateTrigger
<1>3. \A i, type, k : ~DeleteTrigger(i) /\ ~AddEca(i, type) /\ ~RemoveEca(i, type, k)
    <2>1. \A i : ~DeleteTrigger(i)
        BY <1>1 DEF DeleteTrigger
    <2>2. \A i, type : ~AddEca(i, type)
        BY <1>1 DEF AddEca
    <2>3. \A i, type, k : ~RemoveEca(i, type, k)
        BY ZenonT(30), <1>1 DEF RemoveEca
    <2> QED
        BY <2>1, <2>2, <2>3
<1>4. \A f, t, map : ~UserDeletes(f, t) /\ ~UserOpens(map)
    BY <1>1 DEF UserDeletes, UserOpens
<1>5. UNCHANGED vars
    BY <1>2, <1>3, <1>4 DEF Next
<1> QED
    BY <1>5 DEF Always, TypeOK, Live, vars

\* The invariant holds in every state.
LEMMA AlwaysInv == Spec => []Always
<1>1. Init => Always
    BY InitInv DEF Always, Inv
<1>2. Always /\ [Next]_vars => Always'
    BY StepInv, StopsInv DEF Always
<1> QED
    BY <1>1, <1>2, PTL DEF Spec

-----------------------------------------------------------------------------
(***************************************************************************)
(* The results                                                             *)
(***************************************************************************)

\* Every cell and cached address keeps its type, and no array has an empty slot,
\* whatever the calls (Cell of AgentAPI.cpp).
THEOREM TypesHold == Spec => []TypeOK
<1>1. Always => TypeOK
    BY DEF Always
<1> QED
    BY <1>1, AlwaysInv, PTL

\* Unless a call has gone astray or was misled, nothing freed was read or freed again,
\* save through an index the user has made stale, and every pointer of every node can
\* be followed (add_eca_to_trigger, ydt_remove_eca, ydt_create_trigger,
\* delete_trigger_impl).
THEOREM TreeStaysSound == Spec => []TreeSound
<1>1. Always => TreeSound
    <2> SUFFICES ASSUME Inv, ~astray
                 PROVE  /\ misuse => ToSet(cache) \cap gone # {}
                        /\ \A n \in Nodes :
                              /\ heap[n].kids # 0 =>
                                    heap[n].kids \in Live /\ heap[heap[n].kids].kind = "array"
                              /\ ToSet(Kids(n)) \subseteq Nodes
                              /\ heap[n].params # 0 =>
                                    heap[n].params \in Live /\ heap[heap[n].params].kind = "params"
        BY DEF Always, TreeSound
    <2>1. misuse => ToSet(cache) \cap gone # {}
        BY DEF Inv
    <2>2. ASSUME NEW n \in Nodes
          PROVE  /\ heap[n].kids # 0 => heap[n].kids \in Live /\ heap[heap[n].kids].kind = "array"
                 /\ ToSet(Kids(n)) \subseteq Nodes
                 /\ heap[n].params # 0 =>
                       heap[n].params \in Live /\ heap[heap[n].params].kind = "params"
        <3>1. heap[n].kids \in Live \cup {0} /\ ToSet(Kids(n)) \subseteq Nodes
            BY WholeFacts DEF Readable
        <3>2. heap[n].kids \in Live => heap[heap[n].kids].kind = "array"
            BY Bridge DEF Inv, TreeInv, Linked, Live
        <3>3. heap[n].params # 0 => heap[n].params \in Of("params")
            BY TreeFacts
        <3> QED
            BY <3>1, <3>2, <3>3 DEF Of
    <2> QED
        BY <2>1, <2>2
<1> QED
    BY <1>1, AlwaysInv, PTL

\* Unless a call has gone astray or was misled, no two nodes have an array, a parameter
\* or a child in common (add_eca_to_trigger, ydt_create_trigger).
THEOREM NothingShared == Spec => []Unshared
<1>1. Always => Unshared
    <2> SUFFICES ASSUME Inv, ~astray, NEW m \in Nodes, NEW n \in Nodes, m # n
                 PROVE  /\ heap[m].kids # 0 => heap[m].kids # heap[n].kids
                        /\ heap[m].params # 0 => heap[m].params # heap[n].params
                        /\ ToSet(Kids(m)) \cap ToSet(Kids(n)) = {}
        BY DEF Always, Unshared
    <2>1. m \in Guarded(heap, astray) /\ m \in NodesOf(heap) /\ n \in NodesOf(heap)
        BY Bridge DEF Guarded
    <2>2. heap[m].params # 0 => heap[m].params # heap[n].params
        BY <2>1 DEF Inv, TreeInv, OwnParams
    <2>3. /\ heap[m].kids # 0 => heap[m].kids # heap[n].kids
          /\ KidsOf(heap, m) \cap KidsOf(heap, n) = {}
        BY <2>1 DEF Inv, TreeInv, OwnKids
    <2> QED
        BY <2>2, <2>3, Bridge
<1> QED
    BY <1>1, AlwaysInv, PTL

\* Only the user makes an index stale, until the next refresh or compile: every index
\* of the cache names a trigger that exists or one the user has removed since the cache
\* was filled, each its own, even after a call has gone astray (g_triggers).
THEOREM CacheStaysSound == Spec => []CacheSound
<1>1. Always => CacheSound
    BY DEF Always, Inv, CacheSound
<1> QED
    BY <1>1, AlwaysInv, PTL

\* If the root is empty there is no other folder.
LEMMA OnlyRoot ==
    ASSUME Inv, Kids(Root) = <<>>
    PROVE  Of("folder") = {Root}
<1> DEFINE Others == Of("folder") \ {Root}
<1>1. Root \in Of("folder") /\ MaxCells \in Nat
    BY TreeFacts
<1>2. PICK rank \in [Of("folder") -> Address] :
          \A f, k \in Of("folder") : k \in ToSet(Kids(f)) => rank[k] < rank[f]
    BY Bridge DEF Inv, TreeInv, Folded
<1>3. \A f \in Others : rank[f] \in Nat /\ rank[f] <= MaxCells
    BY <1>1, <1>2 DEF Address
<1>4. ASSUME NEW f \in Others PROVE \E g \in Others : rank[f] < rank[g]
    <2>1. PICK g \in Of("folder") : f \in ToSet(Kids(g))
        BY ApartFacts
    <2>2. g # Root
        BY <2>1, ToSetEmpty
    <2> QED
        BY <1>2, <2>1, <2>2
<1> DEFINE D == {MaxCells - rank[f] : f \in Others}
<1>5. D \subseteq Nat
    BY <1>1, <1>3
<1>6. D = {}
    <2> SUFFICES ASSUME D # {} PROVE FALSE
        OBVIOUS
    <2>1. PICK m \in D : \A k \in D : ~ (k < m)
        <3> HIDE DEF D
        <3> QED
            BY <1>5, LeastElement
    <2>2. PICK f \in Others : m = MaxCells - rank[f]
        BY <2>1
    <2>3. PICK g \in Others : rank[f] < rank[g]
        BY <1>4
    <2>4. MaxCells - rank[g] \in D /\ MaxCells - rank[g] < MaxCells - rank[f]
        BY <1>1, <1>3, <2>3
    <2> QED
        BY <2>1, <2>2, <2>4
<1>7. Others = {}
    BY <1>6
<1> QED
    BY <1>1, <1>7

\* The two traversals list the same triggers.
LEMMA RefreshSame ==
    ASSUME Inv, Refresh, ~Lost, \A n \in Live : heap[n].near
    PROVE  cache' = Among(Compiled, {t \in Live : Kids(t) # <<>>})
<1> DEFINE W == {n \in Live : Valid(n) /\ ~IsTrigger(n)}
           I == {n \in Live : Valid(n) /\ IsTrigger(n)}
           K == {t \in Live : Kids(t) # <<>>}
           down == Visits(Root, Of("folder"))
<1>1. PICK root \in Roots :
          cache' = (IF root = 0 THEN <<>> ELSE Walk(root)) /\ root \in Of("folder") \cup {0}
    BY RootsAre DEF Refresh, Lost
<1>2. \A n \in Live : Valid(n)
    BY DEF Valid
<1>3. /\ Root \in Of("folder") /\ Root \in Live /\ Root # 0 /\ MaxCells \in Nat
      /\ Of("folder") \subseteq Live /\ Of("trigger") \subseteq Live
    BY TreeFacts DEF Of
<1>4. CASE Kids(Root) = <<>>
    <2>1. root = 0
        <3>1. Of("folder") = {Root}
            BY <1>4, OnlyRoot
        <3>2. ~Likely(Root) /\ (root # 0 => Likely(root))
            BY <1>1, <1>4 DEF Roots, Likely
        <3> QED
            BY <1>1, <3>1, <3>2
    <2>2. down \in Seq({Root})
        <3>1. \A n \in {Root} : Pushed(n, Of("folder")) \in Seq({Root})
            BY <1>4 DEF Pushed
        <3> QED
            BY <1>3, <3>1, VisitsType
    <2>3. Compiled = <<>>
        <3> HIDE DEF down
        <3>1. Compiled \in Seq({Root}) /\ ToSet(Compiled) = ToSet(down) \cap Of("trigger")
            BY <2>2, AmongElements DEF Compiled, down
        <3>2. ToSet(Compiled) = {}
            BY <1>3, <2>2, <3>1, ToSetOf DEF Of
        <3>3. Len(Compiled) = 0
            <4>1. Len(Compiled) \in Nat /\ \A i \in 1 .. Len(Compiled) : Compiled[i] \in ToSet(Compiled)
                BY <3>1, ToSetOf
            <4>2. Len(Compiled) # 0 => 1 \in 1 .. Len(Compiled)
                BY <4>1
            <4> QED
                BY <3>2, <4>1, <4>2
        <3> QED
            BY <3>1, <3>3
    <2> QED
        BY <1>1, <2>1, <2>3, AmongEmpty
<1>5. CASE Kids(Root) # <<>>
    <2>1. root = Root
        BY <1>1, <1>2, <1>3, <1>5 DEF Roots, Likely
    <2>2. cache' = Among(Visits(Root, W), I)
        BY <1>1, <1>3, <2>1 DEF Walk, Walked
    <2>3. ASSUME NEW n \in Spread PROVE Pushed(n, Of("folder")) = Pushed(n, W)
        <3>1. CASE n \in Of("folder")
            BY <1>2, <1>3, <3>1, TriggersTold DEF Pushed
        <3>2. CASE n \notin Of("folder")
            <4>1. n \in W => Kids(n) = <<>>
                BY <2>3, <3>2, TriggersTold DEF Spread
            <4> QED
                BY <3>2, <4>1 DEF Pushed
        <3> QED
            BY <3>1, <3>2
    <2>4. \A n \in Spread : Pushed(n, Of("folder")) \in Seq(Spread)
        BY EnteringWalk, PushedFacts
    <2>5. Root \in Spread
        BY <1>3 DEF Spread
    <2>6. down = Visits(Root, W) /\ down \in Seq(Spread)
        <3> HIDE DEF W
        <3> QED
            BY <1>3, <2>3, <2>4, <2>5, VisitsSame, VisitsType
    <2>7. ToSet(down) \cap I = ToSet(down) \cap (Of("trigger") \cap K)
        <3>1. ToSet(down) \subseteq Spread
            BY <2>6, ToSetOf
        <3>2. \A n \in Spread : n \in I <=> n \in Of("trigger") \cap K
            BY <1>2, <1>3, TriggersTold DEF Spread
        <3> HIDE DEF I, K, down
        <3> QED
            BY <3>1, <3>2
    <2> HIDE DEF I, K, down, W
    <2>8. Among(down, I) = Among(down, Of("trigger") \cap K)
        BY <2>6, <2>7, AmongSame
    <2>9. Among(Compiled, K) = Among(down, Of("trigger") \cap K)
        BY <2>6, AmongTwice DEF Compiled, down
    <2>10. cache' = Among(Compiled, K)
        BY <2>2, <2>6, <2>8, <2>9
    <2> QED
        BY <2>10 DEF K
<1> QED
    BY <1>4, <1>5

\* While everything lies near the program, a refresh that finds the root lists the
\* triggers of the last compile in their order, without the empty ones (walk_tree, agent_api_add_trigger).
THEOREM RefreshAgreesAlways == Spec => RefreshAgrees
<1>1. Always /\ [Next]_vars =>
          [Refresh /\ ~Lost /\ (\A n \in Live : heap[n].near) =>
              cache' = Among(Compiled, {t \in Live : Kids(t) # <<>>})]_vars
    <2>1. Refresh => ~misled
        BY DEF Refresh, Call, Goes
    <2> QED
        BY <2>1, RefreshSame DEF Always
<1> QED
    BY <1>1, AlwaysInv, PTL DEF Spec, RefreshAgrees
=============================================================================
