-------------------------- MODULE LspSessionProofs --------------------------
(***************************************************************************)
(* Proofs about LspSession, for every set of documents and messages, every *)
(* pipe and any number of starts: the thread of the client exists exactly  *)
(* while the client says that it runs, the handles add up, every variable  *)
(* keeps its type, the server is wrong about no document but those it      *)
(* could not be told about, and Lua is handed the answers to what was      *)
(* sent, whole and in order, however the text between the two is cut.      *)
(***************************************************************************)
EXTENDS LspSession, FiniteSetTheorems, SequenceTheorems, WellFoundedInduction, TLAPS

\* Between a Stop and its Join there is a thread to wait for; at any other time
\* the flag tells whether there is one.
ThreadInv ==
    /\ running \in BOOLEAN
    /\ ui = "join" => ~running /\ thread # "none"
    /\ ui # "join" /\ running => thread # "none"
    /\ ui # "join" /\ ~running => thread = "none"
    /\ ui \in {"write", "flush"} => running

LEMMA ThreadStep ==
    ASSUME ThreadInv, [Next]_vars
    PROVE  ThreadInv'
<1>1. CASE Start
    BY <1>1 DEF ThreadInv, Start, StartOf
<1>2. CASE Stop
    BY <1>2 DEF ThreadInv, Stop
<1>3. CASE Join
    BY <1>3 DEF ThreadInv, Join
<1>4. CASE Write \/ Flush
    BY <1>4 DEF ThreadInv, Write, Flush, client
<1>5. CASE StartFails \/ Poll \/ HandOver \/ StopNothing
    BY <1>5 DEF ThreadInv, StartFails, Poll, HandOver, StopNothing, client
<1>6. ASSUME NEW m \in Message, Send(m) PROVE ThreadInv'
    BY <1>6 DEF ThreadInv, Send, StartOf, client
<1>7. CASE Reader
    BY <1>7 DEF ThreadInv, Reader, ReaderTop, ReaderRead, ReaderParse
<1>8. CASE Server \/ ServerCrash
    BY <1>8 DEF ThreadInv, Server, ServerRead, ServerWrite, ServerEnds, ServerCrash, client
<1>9. CASE UNCHANGED vars
    BY <1>9 DEF ThreadInv, vars, client
<1> QED
    BY <1>1, <1>2, <1>3, <1>4, <1>5, <1>6, <1>7, <1>8, <1>9 DEF Next, UiRun, Call

LEMMA ThreadAlways == Spec => []ThreadInv
<1>1. Init => ThreadInv
    BY DEF Init, ThreadInv
<1> QED
    BY <1>1, ThreadStep, PTL DEF Spec

\* No start throws away a thread that was not joined, and none is left behind by
\* a stop, however starts, sends, polls and stops follow each other and wherever
\* the server ends (startServer, stopServer).
THEOREM ThreadAccounted == Spec => []ThreadMatchesFlag
<1>1. ThreadInv => ThreadMatchesFlag
    <2> SUFFICES ASSUME ThreadInv, ui = "idle" PROVE (running <=> (thread # "none"))
        BY DEF ThreadMatchesFlag
    <2>1. ui # "join"
        OBVIOUS
    <2>2. CASE running
        BY <2>1, <2>2, Zenon DEF ThreadInv
    <2>3. CASE ~running
        BY <2>1, <2>3, Zenon DEF ThreadInv
    <2> QED
        BY <2>2, <2>3
<1> QED
    BY <1>1, ThreadAlways, PTL

-----------------------------------------------------------------------------
Own == {"inWrite", "outRead", "process"}

\* While the client runs or stops it holds its own three handles; otherwise those
\* it holds and those it has lost come from failed starts.
HandleInv ==
    /\ IsFiniteSet(open) /\ lost \in Nat /\ failures \in Nat
    /\ running \/ ui = "join" => open = Own /\ lost <= 4 * failures
    /\ ~running /\ ui # "join" => Cardinality(open) + lost <= 4 * failures

LEMMA OwnFinite == IsFiniteSet(Own)
<1> DEFINE one == {} \cup {"inWrite"}
           two == one \cup {"outRead"}
           three == two \cup {"process"}
<1>1. IsFiniteSet(one)
    BY FS_EmptySet, FS_AddElement
<1>2. IsFiniteSet(two)
    BY <1>1, FS_AddElement
<1>3. IsFiniteSet(three)
    BY <1>2, FS_AddElement
<1>4. three = Own
    BY DEF Own
<1> QED
    BY <1>3, <1>4

\* The pipes a failed start may have made.
LEMMA SlotCount ==
    /\ IsFiniteSet({"outRead", "outWrite"}) /\ Cardinality({"outRead", "outWrite"}) <= 4
    /\ IsFiniteSet({"outRead", "outWrite", "inRead", "inWrite"})
    /\ Cardinality({"outRead", "outWrite", "inRead", "inWrite"}) <= 4
<1> DEFINE one == {} \cup {"outRead"}
           two == one \cup {"outWrite"}
           three == two \cup {"inRead"}
           four == three \cup {"inWrite"}
<1>1. IsFiniteSet({}) /\ Cardinality({}) = 0
    BY FS_EmptySet
<1>2. IsFiniteSet(one) /\ Cardinality(one) = 1
    BY <1>1, FS_AddElement
<1>3. IsFiniteSet(two) /\ Cardinality(two) = 2
    BY <1>2, FS_AddElement
<1>4. IsFiniteSet(three) /\ Cardinality(three) = 3
    BY <1>3, FS_AddElement
<1>5. IsFiniteSet(four) /\ Cardinality(four) = 4
    BY <1>4, FS_AddElement
<1>6. two = {"outRead", "outWrite"} /\ four = {"outRead", "outWrite", "inRead", "inWrite"}
    OBVIOUS
<1> QED
    BY <1>3, <1>5, <1>6

\* A failed start adds no more handles than the slots it fills, lost ones included.
LEMMA CreatedCount ==
    ASSUME IsFiniteSet(open), lost \in Nat, NEW slots, IsFiniteSet(slots), Created(slots)
    PROVE  /\ IsFiniteSet(open') /\ lost' \in Nat
           /\ Cardinality(open') + lost' = Cardinality(open) + Cardinality(slots) + lost
<1>1. /\ IsFiniteSet(open \cup slots) /\ IsFiniteSet(open \cap slots)
      /\ Cardinality(open \cup slots) = Cardinality(open) + Cardinality(slots) - Cardinality(open \cap slots)
    BY FS_Union, FS_Intersection
<1>2. /\ Cardinality(open) \in Nat /\ Cardinality(slots) \in Nat
      /\ Cardinality(open \cap slots) \in Nat /\ Cardinality(open \cup slots) \in Nat
    BY <1>1, FS_CardinalityType
<1> QED
    BY <1>1, <1>2 DEF Created

LEMMA HandleStep ==
    ASSUME ThreadInv, HandleInv, [Next]_vars
    PROVE  HandleInv'
<1>0. Cardinality(open) \in Nat /\ IsFiniteSet(open) /\ lost \in Nat /\ failures \in Nat
    BY FS_CardinalityType DEF HandleInv
<1>1. CASE Start
    <2>1. open' = Own /\ lost' = lost + Cardinality(open) /\ failures' = failures /\ running'
        BY <1>1 DEF Start, Own
    <2>2. Cardinality(open) + lost <= 4 * failures
        BY <1>1 DEF HandleInv, Start
    <2> QED
        BY <1>0, <2>1, <2>2, OwnFinite DEF HandleInv
<1>2. CASE StartFails
    <2>1. PICK slots \in {{"outRead", "outWrite"}, {"outRead", "outWrite", "inRead", "inWrite"}} :
             Created(slots)
        BY <1>2 DEF StartFails
    <2>2. IsFiniteSet(slots) /\ Cardinality(slots) <= 4 /\ Cardinality(slots) \in Nat
        BY <2>1, SlotCount, FS_CardinalityType
    <2>3. /\ IsFiniteSet(open') /\ lost' \in Nat
          /\ Cardinality(open') + lost' = Cardinality(open) + Cardinality(slots) + lost
        BY <1>0, <2>1, <2>2, CreatedCount
    <2>4. /\ failures' = failures + 1 /\ ~running' /\ ui' = "idle"
          /\ Cardinality(open) + lost <= 4 * failures
        BY <1>2 DEF StartFails, HandleInv, client
    <2>5. Cardinality(open') + lost' <= 4 * failures'
        BY <1>0, <2>2, <2>3, <2>4
    <2> QED
        BY <1>0, <2>3, <2>4, <2>5 DEF HandleInv
<1>3. CASE Join
    <2>1. open' = {} /\ lost' = lost /\ failures' = failures /\ lost <= 4 * failures
        BY <1>3 DEF Join, HandleInv, Own, counters
    <2>2. ~running' /\ ui' = "idle"
        BY <1>3 DEF Join, ThreadInv
    <2>3. IsFiniteSet({}) /\ Cardinality({}) = 0
        BY FS_EmptySet
    <2> QED
        BY <1>0, <2>1, <2>2, <2>3 DEF HandleInv
<1>4. CASE StopNothing
    <2>1. /\ open' = {} /\ lost' = lost + Cardinality(open) /\ failures' = failures
          /\ ~running' /\ ui' = "idle" /\ Cardinality(open) + lost <= 4 * failures
        BY <1>4 DEF StopNothing, HandleInv, client, counters
    <2>2. IsFiniteSet({}) /\ Cardinality({}) = 0
        BY FS_EmptySet
    <2> QED
        BY <1>0, <2>1, <2>2 DEF HandleInv
<1>5. ASSUME UNCHANGED <<open, lost, failures>>, (running \/ ui = "join") <=> (running' \/ ui' = "join")
      PROVE  HandleInv'
    BY <1>5 DEF HandleInv
<1>6. CASE Stop
    BY <1>5, <1>6 DEF Stop, handles, counters
<1>7. CASE Write \/ Flush
    BY <1>5, <1>7 DEF Write, Flush, handles, counters, client
<1>8. CASE Poll \/ HandOver
    BY <1>5, <1>8 DEF Poll, HandOver, client, handles, counters
<1>9. ASSUME NEW m \in Message, Send(m) PROVE HandleInv'
    BY <1>5, <1>9 DEF Send, StartOf, handles, client
<1>10. CASE Reader
    BY <1>5, <1>10 DEF Reader, ReaderTop, ReaderRead, ReaderParse, handles, counters
<1>11. CASE Server \/ ServerCrash
    BY <1>5, <1>11 DEF Server, ServerRead, ServerWrite, ServerEnds, ServerCrash, handles, counters, client
<1>12. CASE UNCHANGED vars
    BY <1>5, <1>12 DEF vars, handles, counters, client
<1> QED
    BY <1>1, <1>2, <1>3, <1>4, <1>6, <1>7, <1>8, <1>9, <1>10, <1>11, <1>12 DEF Next, UiRun, Call

LEMMA HandleAlways == Spec => []HandleInv
<1>1. Init => HandleInv
    <2>1. IsFiniteSet({}) /\ Cardinality({}) = 0
        BY FS_EmptySet
    <2> QED
        BY <2>1 DEF Init, HandleInv
<1> QED
    BY <1>1, HandleStep, ThreadAlways, PTL DEF Spec

\* A client that does not run holds no more handles, lost ones included, than its
\* failed starts have left: four each at the most, and none without one
\* (createPipes, startProcess, stopServer).
THEOREM HandlesAccounted == Spec => []HandlesBalance
<1>1. HandleInv => HandlesBalance
    BY DEF HandleInv, HandlesBalance
<1> QED
    BY <1>1, HandleAlways, PTL

-----------------------------------------------------------------------------
(***************************************************************************)
(* Induction, with sets for the formulas it is about                       *)
(***************************************************************************)

LEMMA LeastElement ==
    ASSUME NEW T, T \subseteq Nat, T # {}
    PROVE  \E m \in T : \A k \in T : ~ (k < m)
<1> DEFINE R == {ss \in Nat \X Nat : ss[1] < ss[2]}
<1>1. IsWellFoundedOn(R, Nat)
    BY NatLessThanWellFounded, Zenon DEF OpToRel
<1> HIDE DEF R
<1>2. PICK m \in T : \A k \in T : ~ (<<k, m>> \in R)
    BY <1>1, WFMin
<1>3. \A k \in T : k < m => <<k, m>> \in R
    BY DEF R
<1> QED
    BY <1>2, <1>3

LEMMA NatInd ==
    ASSUME NEW G, 0 \in G, \A n \in Nat : n \in G => n + 1 \in G
    PROVE  Nat \subseteq G
<1> SUFFICES ASSUME Nat \ G # {} PROVE FALSE
    OBVIOUS
<1>1. PICK m \in Nat \ G : \A k \in Nat \ G : ~ (k < m)
    BY LeastElement
<1>2. m # 0 /\ m - 1 \in Nat /\ m - 1 < m
    BY <1>1
<1>3. m - 1 \in G
    BY <1>1, <1>2
<1> QED
    BY <1>1, <1>2, <1>3

Base == [docs |-> NoDocs, out |-> <<>>, over |-> FALSE]
IsSession(f, ms, n) == f = [i \in 0 .. n |-> IF i = 0 THEN Base ELSE Served(f[i - 1], ms[i])]

LEMMA SessionExists ==
    ASSUME NEW ms, NEW n \in Nat
    PROVE  \E f : IsSession(f, ms, n)
<1> DEFINE G == {k \in Nat : \E f : IsSession(f, ms, k)}
<1>1. 0 \in G
    <2> DEFINE f == [i \in 0 .. 0 |-> Base]
    <2>1. IsSession(f, ms, 0)
        BY DEF IsSession
    <2> QED
        BY <2>1
<1>2. ASSUME NEW k \in Nat, k \in G PROVE k + 1 \in G
    <2>1. PICK f : IsSession(f, ms, k)
        BY <1>2
    <2> DEFINE g == [i \in 0 .. k + 1 |-> IF i <= k THEN f[i] ELSE Served(f[k], ms[i])]
    <2>2. \A i \in 0 .. k : g[i] = f[i] /\ f[i] = IF i = 0 THEN Base ELSE Served(f[i - 1], ms[i])
        BY <2>1 DEF IsSession
    <2>3. \A i \in 0 .. k + 1 : g[i] = IF i = 0 THEN Base ELSE Served(g[i - 1], ms[i])
        <3> TAKE i \in 0 .. k + 1
        <3>1. CASE i = 0
            <4>1. i \in 0 .. k
                BY <3>1
            <4>2. g[i] = f[i] /\ f[i] = Base
                BY <2>2, <3>1, <4>1
            <4> QED
                BY <3>1, <4>2
        <3>2. CASE i \in 1 .. k
            <4>1. i - 1 \in 0 .. k /\ i \in 0 .. k
                BY <3>2
            <4> QED
                BY <2>2, <3>2, <4>1
        <3>3. CASE i = k + 1
            <4>1. g[i] = Served(f[k], ms[i]) /\ k \in 0 .. k /\ i - 1 = k
                BY <3>3
            <4> QED
                BY <2>2, <3>3, <4>1
        <3> QED
            BY <3>1, <3>2, <3>3
    <2>4. IsSession(g, ms, k + 1)
        BY <2>3 DEF IsSession
    <2> QED
        BY <2>4
<1> HIDE DEF G
<1>3. Nat \subseteq G
    BY <1>1, <1>2, NatInd
<1> QED
    BY <1>3 DEF G

LEMMA SessionUnfold ==
    ASSUME NEW ms, Len(ms) \in Nat
    PROVE  \E f : IsSession(f, ms, Len(ms)) /\ Session(ms) = f[Len(ms)]
<1> DEFINE f == CHOOSE f : f = [i \in 0 .. Len(ms) |-> IF i = 0 THEN Base ELSE Served(f[i - 1], ms[i])]
<1>1. Session(ms) = f[Len(ms)]
    BY DEF Session, Base
<1>2. IsSession(f, ms, Len(ms))
    BY SessionExists DEF IsSession
<1> QED
    BY <1>1, <1>2

LEMMA SessionEmpty == Session(<<>>) = Base
<1>1. Len(<<>>) = 0
    OBVIOUS
<1>2. PICK f : IsSession(f, <<>>, 0) /\ Session(<<>>) = f[0]
    BY <1>1, SessionUnfold
<1>3. f[0] = Base
    BY <1>2 DEF IsSession
<1> QED
    BY <1>2, <1>3

\* Two sessions go the same way while their messages are the same.
LEMMA SessionAgrees ==
    ASSUME NEW f, NEW g, NEW ms, NEW ns, NEW n \in Nat, NEW p \in Nat, n <= p,
           IsSession(f, ms, n), IsSession(g, ns, p), \A i \in 1 .. n : ms[i] = ns[i]
    PROVE  f[n] = g[n]
<1> DEFINE G == {k \in Nat : k <= n => f[k] = g[k]}
<1>1. 0 \in G
    <2>1. f[0] = Base /\ g[0] = Base
        BY DEF IsSession
    <2> QED
        BY <2>1
<1>2. ASSUME NEW k \in Nat, k \in G PROVE k + 1 \in G
    <2> SUFFICES ASSUME k + 1 <= n PROVE f[k + 1] = g[k + 1]
        OBVIOUS
    <2>1. k + 1 \in 0 .. n /\ k + 1 \in 0 .. p /\ k + 1 # 0 /\ k + 1 - 1 = k /\ k + 1 \in 1 .. n
        OBVIOUS
    <2>2. f[k + 1] = Served(f[k], ms[k + 1])
        BY <2>1 DEF IsSession
    <2>3. g[k + 1] = Served(g[k], ns[k + 1])
        BY <2>1 DEF IsSession
    <2>4. f[k] = g[k] /\ ms[k + 1] = ns[k + 1]
        BY <1>2, <2>1
    <2> QED
        BY <2>2, <2>3, <2>4
<1> HIDE DEF G
<1>3. Nat \subseteq G
    BY <1>1, <1>2, NatInd
<1> QED
    BY <1>3 DEF G

\* A session that goes on serves the next message.
LEMMA SessionAppend ==
    ASSUME NEW S, NEW ms \in Seq(S), NEW m \in S
    PROVE  Session(Append(ms, m)) = Served(Session(ms), m)
<1> DEFINE n == Len(ms)
           ns == Append(ms, m)
<1>1. n \in Nat /\ Len(ns) = n + 1 /\ ns[n + 1] = m /\ \A i \in 1 .. n : ms[i] = ns[i]
    OBVIOUS
<1>2. PICK f : IsSession(f, ms, n) /\ Session(ms) = f[n]
    BY <1>1, SessionUnfold
<1> HIDE DEF ns, n
<1>3. Len(ns) \in Nat
    BY <1>1
<1>4. PICK g : IsSession(g, ns, Len(ns)) /\ Session(ns) = g[Len(ns)]
    BY <1>3, SessionUnfold
<1>5. f[n] = g[n]
    <2>1. n \in Nat /\ Len(ns) \in Nat /\ n <= Len(ns)
        BY <1>1
    <2>2. IsSession(f, ms, n) /\ IsSession(g, ns, Len(ns))
        BY <1>2, <1>4
    <2>3. \A i \in 1 .. n : ms[i] = ns[i]
        BY <1>1
    <2> QED
        BY <2>1, <2>2, <2>3, SessionAgrees
<1>6. g[n + 1] = Served(g[n], ns[n + 1])
    BY <1>1, <1>4 DEF IsSession
<1> QED
    BY <1>1, <1>2, <1>4, <1>5, <1>6 DEF ns

Unseen == [docs |-> NoDocs, doubt |-> {}]
IsView(f, ms, n) == f = [i \in 0 .. n |-> IF i = 0 THEN Unseen ELSE Seen(f[i - 1], ms[i])]

LEMMA ViewExists ==
    ASSUME NEW ms, NEW n \in Nat
    PROVE  \E f : IsView(f, ms, n)
<1> DEFINE G == {k \in Nat : \E f : IsView(f, ms, k)}
<1>1. 0 \in G
    <2> DEFINE f == [i \in 0 .. 0 |-> Unseen]
    <2>1. IsView(f, ms, 0)
        BY DEF IsView
    <2> QED
        BY <2>1
<1>2. ASSUME NEW k \in Nat, k \in G PROVE k + 1 \in G
    <2>1. PICK f : IsView(f, ms, k)
        BY <1>2
    <2> DEFINE g == [i \in 0 .. k + 1 |-> IF i <= k THEN f[i] ELSE Seen(f[k], ms[i])]
    <2>2. \A i \in 0 .. k : g[i] = f[i] /\ f[i] = IF i = 0 THEN Unseen ELSE Seen(f[i - 1], ms[i])
        BY <2>1 DEF IsView
    <2>3. \A i \in 0 .. k + 1 : g[i] = IF i = 0 THEN Unseen ELSE Seen(g[i - 1], ms[i])
        <3> TAKE i \in 0 .. k + 1
        <3>1. CASE i = 0
            <4>1. i \in 0 .. k
                BY <3>1
            <4>2. g[i] = f[i] /\ f[i] = Unseen
                BY <2>2, <3>1, <4>1
            <4> QED
                BY <3>1, <4>2
        <3>2. CASE i \in 1 .. k
            <4>1. i - 1 \in 0 .. k /\ i \in 0 .. k
                BY <3>2
            <4> QED
                BY <2>2, <3>2, <4>1
        <3>3. CASE i = k + 1
            <4>1. g[i] = Seen(f[k], ms[i]) /\ k \in 0 .. k /\ i - 1 = k
                BY <3>3
            <4> QED
                BY <2>2, <3>3, <4>1
        <3> QED
            BY <3>1, <3>2, <3>3
    <2>4. IsView(g, ms, k + 1)
        BY <2>3 DEF IsView
    <2> QED
        BY <2>4
<1> HIDE DEF G
<1>3. Nat \subseteq G
    BY <1>1, <1>2, NatInd
<1> QED
    BY <1>3 DEF G

LEMMA ViewUnfold ==
    ASSUME NEW ms, Len(ms) \in Nat
    PROVE  \E f : IsView(f, ms, Len(ms)) /\ View(ms) = f[Len(ms)]
<1> DEFINE f == CHOOSE f : f = [i \in 0 .. Len(ms) |-> IF i = 0 THEN Unseen ELSE Seen(f[i - 1], ms[i])]
<1>1. View(ms) = f[Len(ms)]
    BY DEF View, Unseen
<1>2. IsView(f, ms, Len(ms))
    BY ViewExists DEF IsView
<1> QED
    BY <1>1, <1>2

LEMMA ViewEmpty == View(<<>>) = Unseen
<1>1. Len(<<>>) = 0
    OBVIOUS
<1>2. PICK f : IsView(f, <<>>, 0) /\ View(<<>>) = f[0]
    BY <1>1, ViewUnfold
<1>3. f[0] = Unseen
    BY <1>2 DEF IsView
<1> QED
    BY <1>2, <1>3

LEMMA ViewAgrees ==
    ASSUME NEW f, NEW g, NEW ms, NEW ns, NEW n \in Nat, NEW p \in Nat, n <= p,
           IsView(f, ms, n), IsView(g, ns, p), \A i \in 1 .. n : ms[i] = ns[i]
    PROVE  f[n] = g[n]
<1> DEFINE G == {k \in Nat : k <= n => f[k] = g[k]}
<1>1. 0 \in G
    <2>1. f[0] = Unseen /\ g[0] = Unseen
        BY DEF IsView
    <2> QED
        BY <2>1
<1>2. ASSUME NEW k \in Nat, k \in G PROVE k + 1 \in G
    <2> SUFFICES ASSUME k + 1 <= n PROVE f[k + 1] = g[k + 1]
        OBVIOUS
    <2>1. k + 1 \in 0 .. n /\ k + 1 \in 0 .. p /\ k + 1 # 0 /\ k + 1 - 1 = k /\ k + 1 \in 1 .. n
        OBVIOUS
    <2>2. f[k + 1] = Seen(f[k], ms[k + 1])
        BY <2>1 DEF IsView
    <2>3. g[k + 1] = Seen(g[k], ns[k + 1])
        BY <2>1 DEF IsView
    <2>4. f[k] = g[k] /\ ms[k + 1] = ns[k + 1]
        BY <1>2, <2>1
    <2> QED
        BY <2>2, <2>3, <2>4
<1> HIDE DEF G
<1>3. Nat \subseteq G
    BY <1>1, <1>2, NatInd
<1> QED
    BY <1>3 DEF G

LEMMA ViewAppend ==
    ASSUME NEW S, NEW ms \in Seq(S), NEW m \in S
    PROVE  View(Append(ms, m)) = Seen(View(ms), m)
<1> DEFINE n == Len(ms)
           ns == Append(ms, m)
<1>1. n \in Nat /\ Len(ns) = n + 1 /\ ns[n + 1] = m /\ \A i \in 1 .. n : ms[i] = ns[i]
    OBVIOUS
<1>2. PICK f : IsView(f, ms, n) /\ View(ms) = f[n]
    BY <1>1, ViewUnfold
<1> HIDE DEF ns, n
<1>3. Len(ns) \in Nat
    BY <1>1
<1>4. PICK g : IsView(g, ns, Len(ns)) /\ View(ns) = g[Len(ns)]
    BY <1>3, ViewUnfold
<1>5. f[n] = g[n]
    <2>1. n \in Nat /\ Len(ns) \in Nat /\ n <= Len(ns)
        BY <1>1
    <2>2. IsView(f, ms, n) /\ IsView(g, ns, Len(ns))
        BY <1>2, <1>4
    <2>3. \A i \in 1 .. n : ms[i] = ns[i]
        BY <1>1
    <2> QED
        BY <2>1, <2>2, <2>3, ViewAgrees
<1>6. g[n + 1] = Seen(g[n], ns[n + 1])
    BY <1>1, <1>4 DEF IsView
<1> QED
    BY <1>1, <1>2, <1>4, <1>5, <1>6 DEF ns

-----------------------------------------------------------------------------
(***************************************************************************)
(* Types                                                                   *)
(***************************************************************************)

Texts == Seq(Line) \cup {Nil}
Docs == [Uri -> Texts]

LEMMA SentIsMessages == Sent \subseteq Messages /\ Initialize \in Sent
<1>1. (CHOOSE u \in Uri : TRUE) \in Uri
    BY LspAssumption
<1>2. Initialize \in Messages
    BY <1>1 DEF Initialize, Messages, Requests
<1> QED
    BY <1>2, LspAssumption DEF Sent

LEMMA StoredType ==
    ASSUME NEW d \in Docs, NEW m \in Messages
    PROVE  Stored(d, m) \in Docs
<1>1. m.uri \in Uri /\ m.lines \in Texts /\ Nil \in Texts
    BY DEF Messages, Texts
<1>2. [d EXCEPT ![m.uri] = m.lines] \in Docs /\ [d EXCEPT ![m.uri] = Nil] \in Docs
    BY <1>1 DEF Docs
<1> HIDE DEF Docs
<1> QED
    BY <1>2 DEF Stored

LEMMA PrintedType ==
    ASSUME NEW d \in Docs, NEW m \in Messages
    PROVE  Printed(d, m) = <<>> \/ \E a \in Answers : Printed(d, m) = <<a>>
<1>1. m.uri \in Uri /\ m.lines \in Seq(Line) /\ d[m.uri] \in Texts /\ m.method \in Requests \cup Notices
    BY DEF Messages, Docs
<1>2. Published(d, m.uri) = <<>> \/ \E a \in Answers : Published(d, m.uri) = <<a>>
    BY <1>1 DEF Published, Diagnostics, Answers, Texts
<1>3. Diagnostics(m.uri, <<>>) \in Answers
    BY <1>1 DEF Diagnostics, Answers
<1>4. LookedUp(d, m) \in Texts
    BY <1>1 DEF LookedUp, Texts
<1>5. m.method \in Requests => Result(m, LookedUp(d, m)) \in Answers /\ Result(m, Nil) \in Answers
    BY <1>4 DEF Result, Answers, Texts
<1>6. m.method \in Requests => Error(m) \in Answers
    BY DEF Answers, Error
<1>7. "initialize" \in Requests /\ "shutdown" \in Requests /\ "unknown" \in Requests
    BY DEF Requests
<1> HIDE DEF Answers, Requests
<1> QED
    BY <1>2, <1>3, <1>5, <1>6, <1>7 DEF Printed

LEMMA AnswersSequence ==
    ASSUME NEW d \in Docs, NEW m \in Messages
    PROVE  Printed(d, m) \in Seq(Answers)
<1>1. <<>> \in Seq(Answers) /\ \A a \in Answers : <<a>> \in Seq(Answers)
    OBVIOUS
<1> QED
    BY <1>1, PrintedType

LEMMA SizeType ==
    ASSUME NEW m, m.lines \in Texts
    PROVE  Size(m) \in Nat
BY DEF Size, Texts

LEMMA FrameType ==
    ASSUME NEW S, NEW m \in S, Size(m) \in Nat
    PROVE  /\ Frame(m) \in Seq(Pieces(S)) /\ Frame(m) # <<>>
           /\ Len(Frame(m)) = Size(m) + 1
           /\ Frame(m)[1] = Piece("header", m)
           /\ \A k \in 2 .. Size(m) + 1 : Frame(m)[k] = Piece("body", m)
<1> DEFINE head == <<Piece("header", m)>>
           body == [i \in 1 .. Size(m) |-> Piece("body", m)]
<1>1. Piece("header", m) \in Pieces(S) /\ Piece("body", m) \in Pieces(S)
    BY DEF Piece, Pieces
<1>2. head \in Seq(Pieces(S)) /\ Len(head) = 1 /\ head[1] = Piece("header", m)
    BY <1>1
<1>3. body \in Seq(Pieces(S)) /\ Len(body) = Size(m) /\ \A i \in 1 .. Size(m) : body[i] = Piece("body", m)
    BY <1>1
<1>4. Frame(m) = head \o body
    BY DEF Frame
<1> HIDE DEF head, body
<1>5. /\ head \o body \in Seq(Pieces(S))
      /\ Len(head \o body) = Len(head) + Len(body)
      /\ \A i \in 1 .. Len(head) + Len(body) : (head \o body)[i] = IF i <= Len(head) THEN head[i] ELSE body[i - Len(head)]
    BY <1>2, <1>3, ConcatProperties
<1>6. Len(Frame(m)) = Size(m) + 1 /\ Frame(m) \in Seq(Pieces(S))
    BY <1>2, <1>3, <1>4, <1>5
<1>7. \A k \in 1 .. Size(m) + 1 : Frame(m)[k] = IF k <= 1 THEN head[k] ELSE body[k - 1]
    BY <1>2, <1>3, <1>4, <1>5
<1>8. Frame(m)[1] = Piece("header", m)
    BY <1>2, <1>7
<1>9. \A k \in 2 .. Size(m) + 1 : Frame(m)[k] = Piece("body", m)
    <2> TAKE k \in 2 .. Size(m) + 1
    <2>1. k \in 1 .. Size(m) + 1 /\ ~ (k <= 1) /\ k - 1 \in 1 .. Size(m)
        OBVIOUS
    <2> QED
        BY <1>3, <1>7, <2>1
<1>10. Frame(m) # <<>>
    BY <1>6
<1> QED
    BY <1>6, <1>8, <1>9, <1>10

LEMMA AnswerFrame ==
    ASSUME NEW a \in Answers
    PROVE  Size(a) \in Nat /\ Frame(a) \in Seq(Pieces(Answers)) /\ Frame(a) # <<>>
<1>1. Size(a) \in Nat
    BY SizeType DEF Answers, Texts
<1> QED
    BY <1>1, FrameType

LEMMA SentFrame ==
    ASSUME NEW m \in Sent
    PROVE  Size(m) \in Nat /\ Frame(m) \in Seq(Pieces(Sent)) /\ Frame(m) # <<>>
<1>1. Size(m) \in Nat
    BY SentIsMessages, SizeType DEF Messages, Texts
<1> QED
    BY <1>1, FrameType

LEMMA FramesType ==
    ASSUME NEW d \in Docs, NEW m \in Messages
    PROVE  Frames(Printed(d, m)) \in Seq(Pieces(Answers))
<1>1. CASE Printed(d, m) = <<>>
    BY <1>1 DEF Frames
<1>2. ASSUME NEW a \in Answers, Printed(d, m) = <<a>> PROVE Frames(Printed(d, m)) = Frame(a)
    BY <1>2 DEF Frames
<1> QED
    BY <1>1, <1>2, PrintedType, AnswerFrame

LEMMA SliceType ==
    ASSUME NEW S, NEW s \in Seq(S), NEW i \in Nat \ {0}, NEW j \in 0 .. Len(s)
    PROVE  /\ SubSeq(s, i, j) \in Seq(S)
           /\ Len(SubSeq(s, i, j)) = IF i <= j THEN j - i + 1 ELSE 0
           /\ \A k \in 1 .. j - i + 1 : SubSeq(s, i, j)[k] = s[i + k - 1]
<1>1. Len(s) \in Nat /\ \A k \in i .. j : s[k] \in S
    <2>1. Len(s) \in Nat
        OBVIOUS
    <2>2. \A k \in i .. j : k \in 1 .. Len(s)
        BY <2>1
    <2> QED
        BY <2>1, <2>2, ElementOfSeq
<1>2. SubSeq(s, i, j) \in Seq(S) /\ Len(SubSeq(s, i, j)) = IF i <= j THEN j - i + 1 ELSE 0
    BY <1>1, SubSeqProperties
<1>3. \A k \in 1 .. j - i + 1 : SubSeq(s, i, j)[k] = s[i + k - 1]
    OBVIOUS
<1> QED
    BY <1>2, <1>3

\* A sequence cut in two leaves two sequences of its elements.
LEMMA CutTypes ==
    ASSUME NEW S, NEW s \in Seq(S), NEW n \in 1 .. Len(s)
    PROVE  SubSeq(s, 1, n) \in Seq(S) /\ SubSeq(s, n + 1, Len(s)) \in Seq(S)
<1>1. Len(s) \in Nat
    OBVIOUS
<1>2. n \in 0 .. Len(s) /\ n + 1 \in Nat \ {0} /\ Len(s) \in 0 .. Len(s) /\ 1 \in Nat \ {0}
    BY <1>1
<1>3. SubSeq(s, 1, n) \in Seq(S)
    BY <1>2, SliceType
<1>4. SubSeq(s, n + 1, Len(s)) \in Seq(S)
    BY <1>2, SliceType
<1> QED
    BY <1>3, <1>4

\* What a type invariant says of the messages under way, and of the rest.
FlowTypes ==
    /\ todo \in Seq(Pieces(Sent)) /\ inPipe \in Seq(Pieces(Sent)) /\ part \in Seq(Pieces(Sent))
    /\ outPipe \in Seq(Pieces(Answers)) /\ buffer \in Seq(Pieces(Answers))
    /\ pending \in Seq(Pieces(Answers))
    /\ queue \in Seq(Answers) /\ batch \in Seq(Answers) /\ delivered \in Seq(Answers)
    /\ sent \in Seq(Sent)
    /\ docs \in Docs
    /\ ui = "write" <=> todo # <<>>

StateTypes ==
    /\ ui \in {"idle", "write", "flush", "join"}
    /\ thread \in {"none", "top", "read", "parse", "ended"} /\ running \in BOOLEAN
    /\ server \in {"none", "up", "ending", "dead"} /\ stream \in Streams
    /\ open \subseteq Slots
    /\ starts \in 0 .. MaxStarts /\ failures \in 0 .. starts
    /\ sends \in 0 .. MaxSends /\ crashes \in 0 .. MaxCrashes

TypeInv == FlowTypes /\ StateTypes

LEMMA NoDocsType == NoDocs \in Docs
BY DEF NoDocs, Docs, Texts

LEMMA InitTypes == Init => TypeInv
<1> SUFFICES ASSUME Init PROVE TypeInv
    OBVIOUS
<1>1. FlowTypes
    BY NoDocsType DEF Init, FlowTypes
<1>2. StateTypes
    <2>1. 0 \in 0 .. MaxStarts /\ 0 \in 0 .. 0 /\ 0 \in 0 .. MaxSends /\ 0 \in 0 .. MaxCrashes
        BY LspAssumption
    <2>2. open \subseteq Slots /\ running \in BOOLEAN /\ stream \in Streams
        BY DEF Init
    <2>3. starts = 0 /\ failures = 0 /\ sends = 0 /\ crashes = 0
        BY DEF Init
    <2>4. ui = "idle" /\ thread = "none" /\ server = "none"
        BY DEF Init
    <2> QED
        BY <2>1, <2>2, <2>3, <2>4 DEF StateTypes
<1> QED
    BY <1>1, <1>2 DEF TypeInv

LEMMA StateTypesStep ==
    ASSUME TypeInv, [Next]_vars
    PROVE  StateTypes'
<1> USE LspAssumption
<1> USE DEF TypeInv, StateTypes
<1>0. ASSUME UNCHANGED <<open, stream, counters>>, ui' \in {"idle", "write", "flush", "join"},
             thread' \in {"none", "top", "read", "parse", "ended"}, running' \in BOOLEAN,
             server' \in {"none", "up", "ending", "dead"}
      PROVE  StateTypes'
    BY <1>0 DEF counters
<1>1. CASE Start
    BY <1>1 DEF Start, StartOf, Slots
<1>2. CASE StartFails
    <2>1. open' \subseteq Slots
        BY <1>2 DEF StartFails, Created, Slots
    <2> QED
        BY <1>2, <2>1 DEF StartFails, client, process
<1>3. ASSUME NEW m \in Message, Send(m) PROVE StateTypes'
    BY <1>3 DEF Send, StartOf, client, handles, process
<1>4. CASE Poll \/ HandOver
    BY <1>0, <1>4 DEF Poll, HandOver, client, handles, process, counters
<1>5. CASE Stop
    BY <1>0, <1>5 DEF Stop, handles, process
<1>6. CASE StopNothing
    BY <1>6 DEF StopNothing, client, process, counters
<1>7. CASE Write \/ Flush
    <2>1. ui' \in {"idle", "write", "flush", "join"}
        BY <1>7 DEF Write, Flush
    <2> QED
        BY <1>0, <1>7, <2>1 DEF Write, Flush, client, handles, process
<1>8. CASE Join
    BY <1>8 DEF Join, counters
<1>9. CASE Reader
    <2>1. thread' \in {"none", "top", "read", "parse", "ended"}
        BY <1>9 DEF Reader, ReaderTop, ReaderRead, ReaderParse
    <2>2. UNCHANGED <<ui, running, server, open, stream, counters>>
        BY <1>9 DEF Reader, ReaderTop, ReaderRead, ReaderParse, handles, process
    <2> QED
        BY <1>0, <2>1, <2>2
<1>10. CASE Server
    <2>1. server' \in {"none", "up", "ending", "dead"}
        BY <1>10 DEF Server, ServerRead, Serve, ServerWrite, ServerEnds
    <2>2. UNCHANGED <<ui, thread, running, open, stream, counters>>
        BY <1>10 DEF Server, ServerRead, ServerWrite, ServerEnds, client, handles
    <2> QED
        BY <1>0, <2>1, <2>2
<1>11. CASE ServerCrash
    BY <1>11 DEF ServerCrash, client, handles
<1>12. CASE UNCHANGED vars
    BY <1>0, <1>12 DEF vars, client, handles, process
<1> QED
    BY <1>1, <1>2, <1>3, <1>4, <1>5, <1>6, <1>7, <1>8, <1>9, <1>10, <1>11, <1>12 DEF Next, UiRun, Call

\* The message a text that has come whole begins with.
LEMMA HeadMessage ==
    ASSUME NEW S, NEW pieces \in Seq(Pieces(S)), pieces # <<>>
    PROVE  pieces[1].msg \in S
<1>1. Len(pieces) \in Nat \ {0}
    BY EmptySeq
<1>2. pieces[1] \in Pieces(S)
    BY <1>1, ElementOfSeq
<1> QED
    BY <1>2 DEF Pieces

LEMMA FlowTypesStep ==
    ASSUME TypeInv, [Next]_vars
    PROVE  FlowTypes'
<1> USE DEF TypeInv, FlowTypes
<1>0. ASSUME UNCHANGED <<todo, ui>>,
             UNCHANGED <<inPipe, part, outPipe, buffer, pending, queue, batch, delivered, sent, docs>>
      PROVE  FlowTypes'
    BY <1>0
<1>1. CASE Start
    <2>1. todo' \in Seq(Pieces(Sent)) /\ todo' # <<>>
        BY <1>1, SentIsMessages, SentFrame DEF Start, StartOf
    <2>2. sent' \in Seq(Sent) /\ docs' \in Docs
        BY <1>1, SentIsMessages, NoDocsType DEF Start
    <2>3. ui' = "write" /\ inPipe' = <<>> /\ outPipe' = <<>> /\ buffer' = <<>>
          /\ part' = <<>> /\ pending' = <<>>
          /\ queue' = queue /\ batch' = batch /\ delivered' = <<>>
        BY <1>1 DEF Start, StartOf
    <2> QED
        BY <2>1, <2>2, <2>3
<1>2. CASE StartFails \/ StopNothing
    BY <1>0, <1>2 DEF StartFails, StopNothing, client, process, history, given
<1>3. ASSUME NEW m \in Message, Send(m) PROVE FlowTypes'
    <2>1. m \in Sent
        BY DEF Sent
    <2>2. todo' \in Seq(Pieces(Sent)) /\ todo' # <<>> /\ ui' = "write"
        BY <1>3, <2>1, SentFrame DEF Send, StartOf
    <2>3. sent' \in Seq(Sent)
        BY <1>3, <2>1 DEF Send
    <2> QED
        BY <1>3, <2>2, <2>3 DEF Send, client, process, given
<1>4. CASE Poll
    <2>1. /\ delivered' = Append(delivered, Head(queue)) /\ batch' = Tail(queue) /\ queue' = <<>>
          /\ queue # <<>>
        BY <1>4 DEF Poll
    <2>2. delivered' \in Seq(Answers) /\ batch' \in Seq(Answers) /\ queue' \in Seq(Answers)
        BY <2>1
    <2> QED
        BY <1>4, <2>2 DEF Poll, process
<1>17. CASE HandOver
    <2>1. delivered' = Append(delivered, Head(batch)) /\ batch' = Tail(batch) /\ batch # <<>>
        BY <1>17 DEF HandOver
    <2>2. delivered' \in Seq(Answers) /\ batch' \in Seq(Answers)
        BY <2>1
    <2> QED
        BY <1>17, <2>2 DEF HandOver, client, process
<1>5. CASE Stop
    BY <1>5 DEF Stop, process, history, given
<1>6. CASE Write
    <2>1. CASE ~Alive
        <3>1. ui' = "idle" /\ todo' = <<>> /\ inPipe' = inPipe
            BY <1>6, <2>1 DEF Write
        <3>2. <<>> \in Seq(Pieces(Sent))
            OBVIOUS
        <3> QED
            BY <1>6, <3>1, <3>2 DEF Write, client, process, history, given
    <2>2. CASE Alive
        <3>1. todo # <<>> /\ inPipe' = Append(inPipe, Head(todo)) /\ todo' = Tail(todo)
              /\ ui' = IF todo' = <<>> THEN "flush" ELSE "write"
            BY <1>6, <2>2 DEF Write
        <3>2. inPipe' \in Seq(Pieces(Sent)) /\ todo' \in Seq(Pieces(Sent))
            BY <3>1
        <3> QED
            BY <1>6, <3>1, <3>2 DEF Write, client, process, history, given
    <2> QED
        BY <2>1, <2>2
<1>7. CASE Flush
    BY <1>7 DEF Flush, client, process, history, given
<1>8. CASE Join
    BY <1>8 DEF Join, history, given
<1>9. CASE ReaderTop
    BY <1>0, <1>9 DEF ReaderTop, process, history, given
<1>10. CASE ReaderRead
    <2>1. CASE outPipe = <<>>
        <3>1. UNCHANGED <<buffer, outPipe>>
            BY <1>10, <2>1 DEF ReaderRead
        <3> QED
            BY <1>0, <1>10, <3>1 DEF ReaderRead, process, history, given
    <2>2. CASE outPipe # <<>>
        <3>1. PICK n \in 1 .. Len(outPipe) : /\ buffer' = buffer \o SubSeq(outPipe, 1, n)
                                             /\ outPipe' = SubSeq(outPipe, n + 1, Len(outPipe))
            BY <1>10, <2>2 DEF ReaderRead
        <3>2. outPipe \in Seq(Pieces(Answers))
            BY DEF FlowTypes
        <3>3. SubSeq(outPipe, 1, n) \in Seq(Pieces(Answers)) /\ outPipe' \in Seq(Pieces(Answers))
            BY <3>1, <3>2, CutTypes
        <3>4. buffer' \in Seq(Pieces(Answers))
            BY <3>1, <3>3
        <3> QED
            BY <1>10, <3>3, <3>4 DEF ReaderRead, process, history, given
    <2> QED
        BY <2>1, <2>2
<1>11. CASE ReaderParse
    <2>1. CASE Found
        <3>1. buffer # <<>> /\ Complete(buffer)
            BY <2>1 DEF Found, Complete
        <3>2. buffer[1].msg \in Answers
            BY <3>1, HeadMessage
        <3>3. Size(buffer[1].msg) \in Nat
            BY <3>2, AnswerFrame
        <3>4. After \in Seq(Pieces(Answers))
            <4>1. Size(buffer[1].msg) + 2 \in Nat \ {0} /\ Len(buffer) \in 0 .. Len(buffer)
                BY <3>3
            <4> QED
                BY <4>1, SliceType DEF After
        <3>5. queue' = Append(queue, buffer[1].msg) /\ buffer' = After
            BY <1>11, <2>1 DEF ReaderParse
        <3>6. queue' \in Seq(Answers)
            BY <3>2, <3>5
        <3> QED
            BY <1>11, <3>4, <3>5, <3>6 DEF ReaderParse, process, history, given
    <2>2. CASE ~Found
        BY <1>0, <1>11, <2>2 DEF ReaderParse, process, history, given
    <2> QED
        BY <2>1, <2>2
<1>12. CASE ServerRead
    <2> DEFINE text == Append(part, Head(inPipe))
    <2>1. inPipe # <<>> /\ inPipe' = Tail(inPipe)
        BY <1>12 DEF ServerRead
    <2>2. inPipe' \in Seq(Pieces(Sent)) /\ text \in Seq(Pieces(Sent))
        BY <2>1
    <2>3. CASE Complete(text)
        <3>1. text[1].msg \in Sent
            BY <2>2, <2>3, HeadMessage DEF Complete
        <3>2. Serve(text[1].msg)
            BY <1>12, <2>3 DEF ServerRead
        <3>3. text[1].msg \in Messages
            BY <3>1, SentIsMessages
        <3>4. docs' \in Docs
            BY <3>2, <3>3, StoredType DEF Serve
        <3>5. pending' \in Seq(Pieces(Answers))
            BY <3>2, <3>3, <3>4, FramesType DEF Serve
        <3>6. part' = <<>>
            BY <3>2 DEF Serve
        <3> QED
            BY <1>12, <2>2, <3>4, <3>5, <3>6 DEF ServerRead, client, history, given
    <2>4. CASE ~Complete(text)
        <3>1. part' = text /\ UNCHANGED <<server, docs, pending>>
            BY <1>12, <2>4 DEF ServerRead
        <3> QED
            BY <1>12, <2>2, <3>1 DEF ServerRead, client, history, given
    <2> QED
        BY <2>3, <2>4
<1>13. CASE ServerWrite
    <2>1. pending # <<>> /\ outPipe' = Append(outPipe, Head(pending)) /\ pending' = Tail(pending)
        BY <1>13 DEF ServerWrite
    <2>2. outPipe' \in Seq(Pieces(Answers)) /\ pending' \in Seq(Pieces(Answers))
        BY <2>1
    <2> QED
        BY <1>13, <2>2 DEF ServerWrite, client, history, given
<1>14. CASE ServerEnds
    BY <1>0, <1>14 DEF ServerEnds, client, history, given
<1>15. CASE ServerCrash
    BY <1>15 DEF ServerCrash, client, history, given
<1>16. CASE UNCHANGED vars
    BY <1>0, <1>16 DEF vars, client, process, history, given
<1> QED
    BY <1>1, <1>2, <1>3, <1>4, <1>5, <1>6, <1>7, <1>8, <1>9, <1>10, <1>11, <1>12, <1>13, <1>14, <1>15, <1>16, <1>17
       DEF Next, UiRun, Call, Reader, Server

LEMMA TypeInvAlways == Spec => []TypeInv
<1>1. TypeInv /\ [Next]_vars => TypeInv'
    BY StateTypesStep, FlowTypesStep DEF TypeInv
<1> QED
    BY <1>1, InitTypes, PTL DEF Spec

\* Every variable of a session keeps its type, and a message is being written
\* exactly inside the call that sends it (Init and every action).
THEOREM TypesHold == Spec => []TypeOK
<1>1. TypeInv /\ HandleInv => TypeOK
    <2> SUFFICES ASSUME TypeInv, HandleInv PROVE TypeOK
        OBVIOUS
    <2>1. docs \in [Uri -> Seq(Line) \cup {Nil}]
        BY DEF TypeInv, FlowTypes, Docs, Texts
    <2>2. lost \in Nat
        BY DEF HandleInv
    <2> QED
        BY <2>1, <2>2 DEF TypeInv, FlowTypes, StateTypes, TypeOK
<1> QED
    BY <1>1, TypeInvAlways, HandleAlways, PTL

-----------------------------------------------------------------------------
(***************************************************************************)
(* The way to the server                                                   *)
(***************************************************************************)

\* A piece that moves from the front of one sequence to the end of the one before
\* it leaves the text they make up as it was.
LEMMA MoveHead ==
    ASSUME NEW S, NEW a \in Seq(S), NEW b \in Seq(S), b # <<>>
    PROVE  /\ Append(a, Head(b)) \in Seq(S) /\ Tail(b) \in Seq(S)
           /\ Append(a, Head(b)) \o Tail(b) = a \o b
<1>1. Len(b) \in Nat \ {0} /\ Len(a) \in Nat
    BY EmptySeq
<1>2. /\ Head(b) \in S /\ Head(b) = b[1] /\ Tail(b) \in Seq(S) /\ Len(Tail(b)) = Len(b) - 1
      /\ \A i \in 1 .. Len(b) - 1 : Tail(b)[i] = b[i + 1]
    BY <1>1
<1>3. /\ Append(a, Head(b)) \in Seq(S) /\ Len(Append(a, Head(b))) = Len(a) + 1
      /\ \A i \in 1 .. Len(a) : Append(a, Head(b))[i] = a[i]
      /\ Append(a, Head(b))[Len(a) + 1] = Head(b)
    BY <1>1, <1>2
<1> DEFINE left == Append(a, Head(b)) \o Tail(b)
           right == a \o b
<1>4. /\ left \in Seq(S) /\ Len(left) = Len(a) + Len(b)
      /\ \A i \in 1 .. Len(a) + Len(b) :
            left[i] = IF i <= Len(a) + 1 THEN Append(a, Head(b))[i] ELSE Tail(b)[i - (Len(a) + 1)]
    BY <1>1, <1>2, <1>3, ConcatProperties
<1>5. /\ right \in Seq(S) /\ Len(right) = Len(a) + Len(b)
      /\ \A i \in 1 .. Len(a) + Len(b) : right[i] = IF i <= Len(a) THEN a[i] ELSE b[i - Len(a)]
    BY <1>1, ConcatProperties
<1> HIDE DEF left, right
<1>6. ASSUME NEW i \in 1 .. Len(left) PROVE left[i] = right[i]
    <2>1. CASE i <= Len(a)
        BY <1>1, <1>3, <1>4, <1>5, <2>1
    <2>2. CASE i = Len(a) + 1
        <3>1. i - Len(a) = 1 /\ i \in 1 .. Len(a) + Len(b) /\ ~ (i <= Len(a))
            BY <1>1, <2>2
        <3>2. left[i] = Head(b)
            BY <1>1, <1>3, <1>4, <2>2, <3>1
        <3>3. right[i] = b[1]
            BY <1>5, <3>1
        <3> QED
            BY <1>2, <3>2, <3>3
    <2>3. CASE i > Len(a) + 1
        <3> DEFINE j == i - (Len(a) + 1)
        <3>1. j \in 1 .. Len(b) - 1 /\ j + 1 = i - Len(a) /\ i \in 1 .. Len(a) + Len(b)
              /\ ~ (i <= Len(a)) /\ ~ (i <= Len(a) + 1)
            BY <1>1, <1>4, <2>3
        <3>2. left[i] = Tail(b)[j]
            BY <1>4, <3>1
        <3>3. right[i] = b[j + 1]
            BY <1>5, <3>1
        <3> QED
            BY <1>2, <3>1, <3>2, <3>3
    <2> QED
        BY <1>1, <1>4, <2>1, <2>2, <2>3
<1>7. left = right
    BY <1>4, <1>5, <1>6, SeqEqual
<1> QED
    BY <1>2, <1>3, <1>7 DEF left, right

\* The same with a sequence after the two, or before them.
LEMMA MoveHeadFirst ==
    ASSUME NEW S, NEW a \in Seq(S), NEW b \in Seq(S), NEW c \in Seq(S), b # <<>>
    PROVE  Append(a, Head(b)) \o (Tail(b) \o c) = a \o (b \o c)
<1>1. /\ Append(a, Head(b)) \in Seq(S) /\ Tail(b) \in Seq(S)
      /\ Append(a, Head(b)) \o Tail(b) = a \o b
    BY MoveHead
<1>2. Append(a, Head(b)) \o (Tail(b) \o c) = (Append(a, Head(b)) \o Tail(b)) \o c
    BY SMTT(30), <1>1, ConcatAssociative
<1>3. a \o (b \o c) = (a \o b) \o c
    BY SMTT(30), ConcatAssociative
<1> QED
    BY <1>1, <1>2, <1>3

LEMMA MoveHeadLast ==
    ASSUME NEW S, NEW a \in Seq(S), NEW b \in Seq(S), NEW c \in Seq(S), b # <<>>
    PROVE  c \o (Append(a, Head(b)) \o Tail(b)) = c \o (a \o b)
<1>1. Append(a, Head(b)) \o Tail(b) = a \o b
    BY MoveHead
<1> QED
    BY <1>1

LEMMA LastFront ==
    ASSUME NEW S, NEW s \in Seq(S), s # <<>>
    PROVE  /\ Last(s) \in S /\ Front(s) \in Seq(S) /\ Append(Front(s), Last(s)) = s
<1>1. Len(s) \in Nat \ {0}
    BY EmptySeq
<1>2. Last(s) \in S /\ Last(s) = s[Len(s)]
    BY <1>1, ElementOfSeq DEF Last
<1>3. Len(s) - 1 \in 0 .. Len(s) /\ 1 \in Nat \ {0}
    BY <1>1
<1>4. /\ Front(s) \in Seq(S) /\ Len(Front(s)) = Len(s) - 1
      /\ \A k \in 1 .. Len(s) - 1 : Front(s)[k] = s[k]
    <2>1. Front(s) = SubSeq(s, 1, Len(s) - 1)
        BY DEF Front
    <2>2. /\ SubSeq(s, 1, Len(s) - 1) \in Seq(S)
          /\ Len(SubSeq(s, 1, Len(s) - 1)) = IF 1 <= Len(s) - 1 THEN Len(s) - 1 - 1 + 1 ELSE 0
          /\ \A k \in 1 .. Len(s) - 1 - 1 + 1 : SubSeq(s, 1, Len(s) - 1)[k] = s[1 + k - 1]
        BY <1>3, SliceType
    <2> DEFINE front == SubSeq(s, 1, Len(s) - 1)
    <2>0. front \in Seq(S) /\ Len(front) = IF 1 <= Len(s) - 1 THEN Len(s) - 1 - 1 + 1 ELSE 0
        BY <2>2
    <2> HIDE DEF front
    <2>3. front \in Seq(S) /\ Len(front) = Len(s) - 1
        <3>1. CASE Len(s) = 1
            BY <2>0, <3>1
        <3>2. CASE Len(s) # 1
            <4> DEFINE n == Len(s)
            <4>0. n \in Nat /\ n # 0 /\ n # 1
                BY <1>1, <3>2
            <4> HIDE DEF n
            <4>2. 1 <= n - 1 /\ n - 1 - 1 + 1 = n - 1
                BY <4>0
            <4>1. 1 <= Len(s) - 1 /\ Len(s) - 1 - 1 + 1 = Len(s) - 1
                BY <4>2 DEF n
            <4> QED
                BY <2>0, <4>1
        <3> QED
            BY <3>1, <3>2
    <2>4. ASSUME NEW k \in 1 .. Len(s) - 1 PROVE front[k] = s[k]
        <3>1. k \in 1 .. Len(s) - 1 - 1 + 1 /\ 1 + k - 1 = k
            BY <1>1
        <3> QED
            BY <2>2, <3>1 DEF front
    <2> QED
        BY <2>1, <2>3, <2>4 DEF front
<1> DEFINE t == Append(Front(s), Last(s))
<1>5. /\ t \in Seq(S) /\ Len(t) = Len(Front(s)) + 1
      /\ \A i \in 1 .. Len(Front(s)) : t[i] = Front(s)[i]
      /\ t[Len(Front(s)) + 1] = Last(s)
    BY <1>2, <1>4, AppendProperties
<1> HIDE DEF t
<1>6. Len(t) = Len(s)
    BY <1>1, <1>4, <1>5
<1>7. ASSUME NEW i \in 1 .. Len(t) PROVE t[i] = s[i]
    <2>1. CASE i = Len(s)
        BY <1>1, <1>2, <1>4, <1>5, <2>1
    <2>2. CASE i # Len(s)
        <3>1. i \in 1 .. Len(s) - 1 /\ i \in 1 .. Len(Front(s))
            BY <1>1, <1>4, <1>6, <2>2
        <3> QED
            BY <1>4, <1>5, <3>1
    <2> QED
        BY <2>1, <2>2
<1>8. t = s
    BY <1>5, <1>6, <1>7, SeqEqual
<1> QED
    BY <1>2, <1>4, <1>8 DEF t

LEMMA FrontAppend ==
    ASSUME NEW S, NEW s \in Seq(S), NEW e \in S
    PROVE  Front(Append(s, e)) = s /\ Last(Append(s, e)) = e /\ Append(s, e) # <<>>
<1> DEFINE t == Append(s, e)
<1>1. t \in Seq(S) /\ Len(t) = Len(s) + 1 /\ t # <<>> /\ Len(s) \in Nat
      /\ (\A i \in 1 .. Len(s) : t[i] = s[i]) /\ t[Len(s) + 1] = e
    BY AppendProperties
<1> HIDE DEF t
<1>2. Last(t) = e
    BY <1>1 DEF Last
<1>3. /\ Front(t) \in Seq(S) /\ Last(t) \in S /\ Append(Front(t), Last(t)) = t
    BY <1>1, LastFront
<1>4. /\ Len(t) = Len(Front(t)) + 1
      /\ \A i \in 1 .. Len(Front(t)) : t[i] = Front(t)[i]
    BY <1>3, AppendProperties
<1>5. Len(Front(t)) = Len(s) /\ \A i \in 1 .. Len(Front(t)) : Front(t)[i] = s[i]
    <2>1. Len(Front(t)) \in Nat
        BY <1>3
    <2> QED
        BY <1>1, <1>4, <2>1
<1>6. Front(t) = s
    BY <1>3, <1>5, SeqEqual
<1> QED
    BY <1>1, <1>2, <1>6 DEF t

\* A frame is told by its first piece, and is whole when it is longer than its size.
LEMMA FrameBegins ==
    ASSUME NEW m \in Sent, NEW text \in Seq(Pieces(Sent)), NEW rest \in Seq(Pieces(Sent)),
           text # <<>>, text \o rest = Frame(m)
    PROVE  /\ text[1].msg = m
           /\ Complete(text) <=> Len(text) > Size(m)
           /\ Len(text) + Len(rest) = Size(m) + 1
<1>1. /\ Size(m) \in Nat /\ Len(Frame(m)) = Size(m) + 1 /\ Frame(m)[1] = Piece("header", m)
    BY SentFrame, FrameType
<1>2. Len(text) \in Nat \ {0} /\ Len(rest) \in Nat
    BY EmptySeq
<1>3. /\ Len(text \o rest) = Len(text) + Len(rest)
      /\ \A i \in 1 .. Len(text) + Len(rest) :
            (text \o rest)[i] = IF i <= Len(text) THEN text[i] ELSE rest[i - Len(text)]
    BY ConcatProperties
<1>4. 1 \in 1 .. Len(text) + Len(rest) /\ 1 <= Len(text)
    BY <1>2
<1>5. (text \o rest)[1] = text[1]
    BY <1>3, <1>4
<1>6. text[1] = Piece("header", m)
    BY <1>1, <1>5
<1>7. text[1].msg = m /\ text[1].piece = "header"
    BY <1>6 DEF Piece
<1> QED
    BY <1>1, <1>3, <1>7 DEF Complete

\* What the client has begun to write and the server has not served, and the
\* messages the server has served while it is up.
InFlight == part \o (inPipe \o todo)
Answered == IF server = "up" /\ InFlight # <<>> THEN Front(sent) ELSE sent

\* One message at the most is under way, the last one, never whole on the
\* server's side, and only inside the call that sends it; the server holds the
\* documents of a session with the others.
InInv ==
    /\ server = "up" =>
        /\ sent # <<>> /\ docs = Session(Answered).docs /\ ~Session(Answered).over
        /\ InFlight # <<>> =>
            /\ InFlight = Frame(Last(sent)) /\ Len(part) <= Size(Last(sent))
            /\ ui \in {"write", "flush"}
    /\ server = "ending" => Session(sent).over

\* A step of the server's loop that reads: the message is served when its last
\* piece has come.
LEMMA ReadStep ==
    ASSUME TypeInv, InInv, ServerRead
    PROVE  /\ Last(sent) \in Sent /\ Front(sent) \in Seq(Sent)
           /\ sent = Append(Front(sent), Last(sent))
           /\ Answered = Front(sent) /\ InFlight # <<>>
           /\ \/ Serve(Last(sent)) /\ InFlight' = <<>>
              \/ UNCHANGED <<server, docs, pending>> /\ InFlight' = InFlight /\ Len(part') <= Size(Last(sent))
<1> DEFINE text == Append(part, Head(inPipe))
           rest == Tail(inPipe) \o todo
<1>1. /\ server = "up" /\ inPipe # <<>> /\ inPipe' = Tail(inPipe) /\ todo' = todo
      /\ IF Complete(text) THEN Serve(text[1].msg)
         ELSE part' = text /\ UNCHANGED <<server, docs, pending>>
    BY DEF ServerRead
<1>2. /\ part \in Seq(Pieces(Sent)) /\ inPipe \in Seq(Pieces(Sent)) /\ todo \in Seq(Pieces(Sent))
      /\ sent \in Seq(Sent)
    BY DEF TypeInv, FlowTypes
<1>3. /\ text \in Seq(Pieces(Sent)) /\ Tail(inPipe) \in Seq(Pieces(Sent)) /\ Head(inPipe) \in Pieces(Sent)
    BY <1>1, <1>2, MoveHead, HeadTailProperties
<1>4. text \o rest = InFlight
    <2>1. Append(part, Head(inPipe)) \o (Tail(inPipe) \o todo) = part \o (inPipe \o todo)
        BY SMTT(30), <1>1, <1>2, MoveHeadFirst
    <2> QED
        BY <2>1 DEF InFlight
<1>5. rest \in Seq(Pieces(Sent)) /\ text # <<>> /\ Len(text) = Len(part) + 1
    BY <1>2, <1>3, AppendProperties, ConcatProperties
<1>6. InFlight # <<>>
    <2> HIDE DEF text, rest
    <2>1. Len(text \o rest) = Len(text) + Len(rest) /\ Len(text) \in Nat \ {0} /\ Len(rest) \in Nat
        <3>1. Len(text \o rest) = Len(text) + Len(rest)
            BY <1>3, <1>5, ConcatProperties
        <3>2. Len(text) \in Nat \ {0}
            BY <1>3, <1>5, EmptySeq
        <3>3. Len(rest) \in Nat
            BY <1>5
        <3> QED
            BY <3>1, <3>2, <3>3
    <2>2. Len(text \o rest) # 0
        BY <2>1
    <2> QED
        BY <1>4, <2>2
<1>7. sent # <<>> /\ InFlight = Frame(Last(sent)) /\ Len(part) <= Size(Last(sent))
    BY <1>1, <1>6 DEF InInv
<1>8. /\ Last(sent) \in Sent /\ Front(sent) \in Seq(Sent)
      /\ sent = Append(Front(sent), Last(sent))
    BY <1>2, <1>7, LastFront
<1>9. Answered = Front(sent)
    BY <1>1, <1>6 DEF Answered
<1> HIDE DEF text, rest
<1>10. /\ text[1].msg = Last(sent)
       /\ Complete(text) <=> Len(text) > Size(Last(sent))
       /\ Len(text) + Len(rest) = Size(Last(sent)) + 1
    <2>1. text \o rest = Frame(Last(sent)) /\ Last(sent) \in Sent
        BY <1>4, <1>7, <1>8
    <2>2. text \in Seq(Pieces(Sent)) /\ rest \in Seq(Pieces(Sent)) /\ text # <<>>
        BY <1>3, <1>5
    <2> QED
        BY <2>1, <2>2, FrameBegins, Zenon
<1>11. Size(Last(sent)) \in Nat /\ Len(part) \in Nat /\ Len(rest) \in Nat
    BY <1>2, <1>5, <1>8, SentFrame
<1>12. CASE Complete(text)
    <2>1. Serve(Last(sent))
        BY <1>1, <1>10, <1>12 DEF text
    <2>2. Len(rest) = 0
        BY <1>5, <1>7, <1>10, <1>11, <1>12
    <2>3. rest = <<>>
        BY <1>5, <2>2, EmptySeq
    <2>4. part' = <<>> /\ inPipe' \o todo' = rest
        BY <1>1, <2>1 DEF Serve, rest
    <2>5. InFlight' = <<>>
        BY <2>3, <2>4 DEF InFlight
    <2> QED
        BY <1>6, <1>8, <1>9, <2>1, <2>5
<1>13. CASE ~Complete(text)
    <2>1. part' = text /\ UNCHANGED <<server, docs, pending>> /\ inPipe' \o todo' = rest
        BY <1>1, <1>13 DEF text, rest
    <2>2. InFlight' = InFlight
        BY <1>4, <2>1 DEF InFlight
    <2>3. Len(text) <= Size(Last(sent))
        BY <1>5, <1>10, <1>11, <1>13
    <2> QED
        BY <1>6, <1>8, <1>9, <2>1, <2>2, <2>3
<1> QED
    BY <1>12, <1>13

\* Writing moves a piece from the call into the pipe.
LEMMA WriteStep ==
    ASSUME TypeInv, Write, Alive
    PROVE  InFlight' = InFlight /\ ui' \in {"write", "flush"} /\ UNCHANGED <<server, sent, part, docs>>
<1>1. /\ ui = "write" /\ inPipe' = Append(inPipe, Head(todo)) /\ todo' = Tail(todo)
      /\ ui' \in {"write", "flush"} /\ UNCHANGED <<server, sent, part, docs>>
    BY DEF Write, process, history, given
<1>2. /\ part \in Seq(Pieces(Sent)) /\ inPipe \in Seq(Pieces(Sent)) /\ todo \in Seq(Pieces(Sent))
      /\ todo # <<>>
    BY <1>1 DEF TypeInv, FlowTypes
<1>3. part \o (Append(inPipe, Head(todo)) \o Tail(todo)) = part \o (inPipe \o todo)
    BY <1>2, MoveHeadLast
<1> QED
    BY <1>1, <1>3 DEF InFlight

\* At rest nothing is under way.
LEMMA RestEmpty ==
    ASSUME TypeInv, InInv, server = "up", ui \notin {"write", "flush"}
    PROVE  InFlight = <<>> /\ part = <<>> /\ inPipe = <<>> /\ todo = <<>>
<1>1. InFlight = <<>>
    BY DEF InInv
<1>2. /\ part \in Seq(Pieces(Sent)) /\ inPipe \in Seq(Pieces(Sent)) /\ todo \in Seq(Pieces(Sent))
    BY DEF TypeInv, FlowTypes
<1>3. inPipe \o todo \in Seq(Pieces(Sent))
    BY <1>2, ConcatProperties
<1> QED
    BY <1>1, <1>2, <1>3, ConcatEqualIffEmpty DEF InFlight

\* A call that begins puts the frame of its message under way.
LEMMA BeginStep ==
    ASSUME NEW m \in Sent, part' = <<>>, inPipe' = <<>>, todo' = Frame(m)
    PROVE  InFlight' = Frame(m) /\ InFlight' # <<>> /\ Len(part') <= Size(m)
<1>1. Frame(m) \in Seq(Pieces(Sent)) /\ Frame(m) # <<>> /\ Size(m) \in Nat
    BY SentFrame
<1>2. <<>> \o Frame(m) = Frame(m) /\ <<>> \o (<<>> \o Frame(m)) = Frame(m)
    BY <1>1, ConcatEmptySeq
<1> QED
    BY <1>1, <1>2 DEF InFlight

LEMMA InInit == Init => InInv
BY DEF Init, InInv

LEMMA InStep ==
    ASSUME TypeInv, InInv, [Next]_vars
    PROVE  InInv'
<1>t. /\ part \in Seq(Pieces(Sent)) /\ inPipe \in Seq(Pieces(Sent)) /\ todo \in Seq(Pieces(Sent))
      /\ sent \in Seq(Sent)
    BY DEF TypeInv, FlowTypes
\* A step that leaves both ends and what is between them alone.
<1>0. ASSUME UNCHANGED <<server, docs, sent>>, InFlight' = InFlight,
             server = "up" /\ InFlight # <<>> => ui' \in {"write", "flush"} /\ Len(part') = Len(part)
      PROVE  InInv'
    <2>1. Answered' = Answered
        BY <1>0 DEF Answered
    <2> QED
        BY <1>0, <2>1 DEF InInv
\* A server that is gone.
<1>00. ASSUME server' \notin {"up", "ending"} PROVE InInv'
    BY <1>00 DEF InInv
<1>1. CASE Start
    <2>1. /\ server' = "up" /\ docs' = NoDocs /\ sent' = <<Initialize>> /\ ui' = "write"
          /\ part' = <<>> /\ inPipe' = <<>> /\ todo' = Frame(Initialize)
        BY <1>1 DEF Start, StartOf
    <2>2. InFlight' = Frame(Initialize) /\ InFlight' # <<>> /\ Len(part') <= Size(Initialize)
        BY <2>1, SentIsMessages, BeginStep
    <2>3. <<Initialize>> = Append(<<>>, Initialize) /\ <<>> \in Seq(Sent)
        OBVIOUS
    <2>4. Front(<<Initialize>>) = <<>> /\ Last(<<Initialize>>) = Initialize /\ <<Initialize>> # <<>>
        BY <2>3, SentIsMessages, FrontAppend
    <2>5. Answered' = <<>>
        BY <2>1, <2>2, <2>4 DEF Answered
    <2>6. Session(Answered').docs = NoDocs /\ ~Session(Answered').over
        BY <2>5, SessionEmpty DEF Base
    <2> QED
        BY <2>1, <2>2, <2>4, <2>6 DEF InInv
<1>2. ASSUME NEW m \in Message, Send(m) PROVE InInv'
    <2>1. /\ ui = "idle" /\ ui' = "write" /\ todo' = Frame(m) /\ sent' = Append(sent, m)
          /\ UNCHANGED <<server, docs, part, inPipe>> /\ m \in Sent
        BY <1>2 DEF Send, StartOf, process, Sent
    <2>2. CASE server = "up"
        <3>1. InFlight = <<>> /\ part = <<>> /\ inPipe = <<>> /\ todo = <<>>
            BY <2>1, <2>2, RestEmpty
        <3>2. InFlight' = Frame(m) /\ InFlight' # <<>> /\ Len(part') <= Size(m)
            BY <2>1, <3>1, BeginStep
        <3>3. Front(sent') = sent /\ Last(sent') = m /\ sent' # <<>>
            BY <1>t, <2>1, FrontAppend
        <3>4. Answered' = sent /\ Answered = sent
            BY <2>1, <2>2, <3>1, <3>2, <3>3 DEF Answered
        <3> QED
            BY <2>1, <2>2, <3>2, <3>3, <3>4 DEF InInv
    <2>3. CASE server = "ending"
        <3>1. Session(sent) .over
            BY <2>3 DEF InInv
        <3>2. Session(sent') = Served(Session(sent), m)
            BY <1>t, <2>1, SessionAppend
        <3>3. Session(sent') = Session(sent)
            BY <3>1, <3>2 DEF Served
        <3> QED
            BY <2>1, <2>3, <3>1, <3>3 DEF InInv
    <2>4. CASE server \notin {"up", "ending"}
        BY <1>00, <2>1, <2>4
    <2> QED
        BY <2>2, <2>3, <2>4
<1>3. CASE StartFails \/ StopNothing \/ Poll \/ HandOver \/ Reader
    <2>1. UNCHANGED <<server, docs, sent, part, inPipe, todo, ui>>
        BY <1>3 DEF StartFails, StopNothing, Poll, HandOver, Reader, ReaderTop, ReaderRead, ReaderParse,
                      process, history, given
    <2>2. InFlight' = InFlight
        BY <2>1 DEF InFlight
    <2> QED
        BY <1>0, <2>1, <2>2 DEF InInv
<1>4. CASE Stop
    <2>1. UNCHANGED <<server, docs, sent, part, inPipe, todo>> /\ ui = "idle"
        BY <1>4 DEF Stop, process, history, given
    <2>2. InFlight' = InFlight /\ (server = "up" => InFlight = <<>>)
        BY <2>1 DEF InFlight, InInv
    <2> QED
        BY <1>0, <2>1, <2>2
<1>5. CASE Write
    <2>1. CASE Alive
        BY <1>0, <1>5, <2>1, WriteStep DEF InInv
    <2>2. CASE ~Alive
        BY <1>00, <1>5, <2>2 DEF Write, Alive, process
    <2> QED
        BY <2>1, <2>2
<1>6. CASE Flush
    <2>1. UNCHANGED <<server, docs, sent, part, inPipe, todo>> /\ ui = "flush" /\ (inPipe = <<>> \/ ~Alive)
        BY <1>6 DEF Flush, process, history, given
    <2>2. InFlight' = InFlight
        BY <2>1 DEF InFlight
    <2>3. ASSUME server = "up", InFlight # <<>> PROVE FALSE
        <3>1. inPipe = <<>> /\ todo = <<>>
            BY <2>1, <2>3 DEF Alive, TypeInv, FlowTypes
        <3>2. InFlight = part
            BY <1>t, <3>1, ConcatEmptySeq DEF InFlight
        <3>3. part = Frame(Last(sent)) /\ Len(part) <= Size(Last(sent)) /\ Last(sent) \in Sent
            BY <1>t, <2>3, <3>2, LastFront DEF InInv
        <3>4. Size(Last(sent)) \in Nat /\ Len(Frame(Last(sent))) = Size(Last(sent)) + 1
            BY <3>3, SentFrame, FrameType
        <3> QED
            BY <3>3, <3>4
    <2> QED
        BY <1>0, <2>1, <2>2, <2>3
<1>7. CASE Join
    BY <1>00, <1>7 DEF Join
<1>8. CASE ServerRead
    <2>1. /\ Last(sent) \in Sent /\ Front(sent) \in Seq(Sent)
          /\ sent = Append(Front(sent), Last(sent))
          /\ Answered = Front(sent) /\ InFlight # <<>>
          /\ \/ Serve(Last(sent)) /\ InFlight' = <<>>
             \/ UNCHANGED <<server, docs, pending>> /\ InFlight' = InFlight /\ Len(part') <= Size(Last(sent))
        BY <1>8, ReadStep
    <2>2. server = "up" /\ UNCHANGED <<ui, sent>>
        BY <1>8 DEF ServerRead, history, given
    <2>3. sent # <<>> /\ docs = Session(Answered).docs /\ ~Session(Answered).over
        BY <2>2 DEF InInv
    <2>4. CASE Serve(Last(sent)) /\ InFlight' = <<>>
        <3>1. Session(sent) = Served(Session(Answered), Last(sent))
            BY <2>1, SessionAppend
        <3>2. Session(sent).docs = Stored(docs, Last(sent)) /\ Session(sent).over = Ending(Last(sent))
            BY <2>3, <3>1 DEF Served
        <3>3. docs' = Stored(docs, Last(sent)) /\ server' = IF Ending(Last(sent)) THEN "ending" ELSE "up"
            BY <2>2, <2>4 DEF Serve
        <3>4. Answered' = sent
            BY <2>2, <2>4 DEF Answered
        <3> QED
            BY <2>2, <2>3, <2>4, <3>2, <3>3, <3>4 DEF InInv
    <2>5. CASE UNCHANGED <<server, docs, pending>> /\ InFlight' = InFlight /\ Len(part') <= Size(Last(sent))
        <3>1. Answered' = Answered
            BY <2>2, <2>5 DEF Answered
        <3> QED
            BY <2>2, <2>3, <2>5, <3>1 DEF InInv
    <2> QED
        BY <2>1, <2>4, <2>5
<1>9. CASE ServerWrite \/ UNCHANGED vars
    <2>1. UNCHANGED <<server, docs, sent, part, inPipe, todo, ui>>
        BY <1>9 DEF ServerWrite, vars, process, history, given
    <2>2. InFlight' = InFlight
        BY <2>1 DEF InFlight
    <2> QED
        BY <1>0, <2>1, <2>2 DEF InInv
<1>10. CASE ServerEnds \/ ServerCrash
    BY <1>00, <1>10 DEF ServerEnds, ServerCrash
<1> QED
    BY <1>1, <1>2, <1>3, <1>4, <1>5, <1>6, <1>7, <1>8, <1>9, <1>10 DEF Next, UiRun, Call, Server

LEMMA InAlways == Spec => []InInv
BY InInit, InStep, TypeInvAlways, PTL DEF Spec

-----------------------------------------------------------------------------
(***************************************************************************)
(* The documents of both sides                                             *)
(***************************************************************************)

\* A value for every document, whatever it is.
Whole(d) == d = [u \in Uri |-> d[u]]

LEMMA WholeSet ==
    ASSUME NEW d, Whole(d), NEW u \in Uri, NEW e
    PROVE  /\ Whole([d EXCEPT ![u] = e]) /\ [d EXCEPT ![u] = e][u] = e
           /\ \A w \in Uri : w # u => [d EXCEPT ![u] = e][w] = d[w]
BY DEF Whole

LEMMA SeenWhole ==
    ASSUME NEW d, Whole(d), NEW m \in Messages
    PROVE  /\ Whole(Viewed(d, m))
           /\ \A w \in Uri : w # m.uri => Viewed(d, m)[w] = d[w]
<1>1. m.uri \in Uri
    BY DEF Messages
<1>2. Viewed(d, m) = d \/ \E e : Viewed(d, m) = [d EXCEPT ![m.uri] = e]
    BY DEF Viewed
<1> QED
    BY <1>1, <1>2, WholeSet

LEMMA ViewWhole ==
    ASSUME NEW ms \in Seq(Sent)
    PROVE  Whole(View(ms).docs)
<1> DEFINE G == {k \in Nat : \A s \in Seq(Sent) : Len(s) = k => Whole(View(s).docs)}
<1>1. 0 \in G
    <2> SUFFICES ASSUME NEW s \in Seq(Sent), Len(s) = 0 PROVE Whole(View(s).docs)
        OBVIOUS
    <2>1. s = <<>>
        BY EmptySeq
    <2> QED
        BY <2>1, ViewEmpty DEF Unseen, NoDocs, Whole
<1>2. ASSUME NEW k \in Nat, k \in G PROVE k + 1 \in G
    <2> SUFFICES ASSUME NEW s \in Seq(Sent), Len(s) = k + 1 PROVE Whole(View(s).docs)
        OBVIOUS
    <2> DEFINE front == Front(s)
               m == Last(s)
    <2>1. s # <<>>
        BY EmptySeq
    <2>2. m \in Sent /\ front \in Seq(Sent) /\ Append(front, m) = s
        BY <2>1, LastFront
    <2> HIDE DEF front, m
    <2>3. Len(front) = k
        <3>1. Len(s) = Len(front) + 1 /\ Len(front) \in Nat
            BY <2>2, AppendProperties
        <3> QED
            BY <3>1
    <2>4. Whole(View(front).docs)
        BY <1>2, <2>2, <2>3
    <2>5. View(s) = Seen(View(front), m)
        BY <2>2, ViewAppend
    <2>6. m \in Messages
        BY <2>2, SentIsMessages
    <2>7. Whole(Viewed(View(front).docs, m))
        BY <2>4, <2>6, SeenWhole
    <2> QED
        BY <2>5, <2>7 DEF Seen
<1> HIDE DEF G
<1>3. Nat \subseteq G
    BY <1>1, <1>2, NatInd
<1>4. Len(ms) \in Nat
    OBVIOUS
<1> QED
    BY <1>3, <1>4 DEF G

\* Where nothing is in doubt the two sides have the same text.
Agree(d, s) == \A u \in Uri \ s.doubt : d[u] = s.docs[u]

\* A message says nothing of any other document.
LEMMA OthersStay ==
    ASSUME NEW d \in Docs, NEW s, NEW m \in Messages
    PROVE  \A w \in Uri : w # m.uri => /\ Stored(d, m)[w] = d[w]
                                       /\ w \in Doubted(s, m) <=> w \in s.doubt
<1>1. m.uri \in Uri
    BY DEF Messages
<1>2. Stored(d, m) \in {d, [d EXCEPT ![m.uri] = m.lines], [d EXCEPT ![m.uri] = Nil]}
    BY DEF Stored
<1>3. Whole(d)
    BY DEF Docs, Whole
<1>4. \A w \in Uri : w # m.uri => Stored(d, m)[w] = d[w]
    BY <1>1, <1>2, <1>3, WholeSet
<1>5. \A w \in Uri : w # m.uri => (w \in Doubted(s, m) <=> w \in s.doubt)
    BY DEF Doubted
<1> QED
    BY <1>4, <1>5

\* A change that covers the whole document replaces it, which is all the server
\* ever does with a change.
LEMMA WholeChange ==
    ASSUME NEW lines \in Seq(Line), NEW m \in Messages, m.first = 1, m.last = Len(lines)
    PROVE  Edited(lines, m) = m.lines
<1>1. m.lines \in Seq(Line)
    BY DEF Messages
<1>2. Len(lines) \in Nat /\ 1 - 1 \in Int /\ Len(lines) + 1 \in Int
    OBVIOUS
<1>3. SubSeq(lines, 1, 1 - 1) = <<>> /\ SubSeq(lines, Len(lines) + 1, Len(lines)) = <<>>
    BY <1>2, SubSeqEmpty
<1>4. Edited(lines, m) = <<>> \o m.lines \o <<>>
    BY <1>3 DEF Edited
<1> QED
    BY <1>1, <1>4, ConcatEmptySeq

\* And of its own it leaves the two sides with the same text, or in doubt.
LEMMA OwnAgrees ==
    ASSUME NEW d \in Docs, NEW s, Whole(s.docs), Agree(d, s), NEW m \in Messages,
           m.uri \notin Doubted(s, m)
    PROVE  Stored(d, m)[m.uri] = Viewed(s.docs, m)[m.uri]
<1> DEFINE v == s.docs
           u == m.uri
<1>1. u \in Uri /\ Whole(d) /\ Whole(v) /\ ~Misses(v, m)
    BY DEF Messages, Docs, Whole, Doubted
<1>2. CASE m.method = "didOpen"
    <2>1. Handled(m)
        BY <1>1, <1>2 DEF Misses
    <2>2. Stored(d, m) = [d EXCEPT ![u] = m.lines] /\ Viewed(v, m) = [v EXCEPT ![u] = m.lines]
        BY <1>2, <2>1 DEF Stored, Viewed
    <2> QED
        BY <1>1, <2>2, WholeSet
<1>3. CASE m.method = "didClose"
    <2>1. Handled(m)
        BY <1>1, <1>3 DEF Misses
    <2>2. Stored(d, m) = [d EXCEPT ![u] = Nil] /\ Viewed(v, m) = [v EXCEPT ![u] = Nil]
        BY <1>3, <2>1 DEF Stored, Viewed
    <2> QED
        BY <1>1, <2>2, WholeSet
<1>4. ASSUME m.method \notin {"didOpen", "didClose"} PROVE d[u] = v[u]
    <2>1. u \notin s.doubt
        BY <1>1, <1>4 DEF Doubted
    <2> QED
        BY <1>1, <2>1 DEF Agree
<1>5. CASE m.method = "didChange" /\ v[u] # Nil
    <2>1. Handled(m) /\ m.first = 1 /\ m.last = Len(v[u])
        BY <1>1, <1>5 DEF Misses
    <2>2. d[u] = v[u] /\ v[u] \in Seq(Line)
        BY <1>1, <1>4, <1>5 DEF Docs, Texts
    <2>3. Edited(v[u], m) = m.lines
        BY <2>1, <2>2, WholeChange
    <2>4. Stored(d, m) = [d EXCEPT ![u] = m.lines]
        BY <1>5, <2>1, <2>2 DEF Stored
    <2>5. Viewed(v, m) = [v EXCEPT ![u] = Edited(v[u], m)]
        BY <1>5 DEF Viewed
    <2>6. Stored(d, m)[u] = m.lines
        BY <1>1, <2>4, WholeSet
    <2>7. Viewed(v, m) = [v EXCEPT ![u] = m.lines]
        BY <2>3, <2>5
    <2>8. Viewed(v, m)[u] = m.lines
        BY <1>1, <2>7, WholeSet
    <2> QED
        BY <2>6, <2>8
<1>6. CASE m.method = "didChange" /\ v[u] = Nil
    <2>1. d[u] = Nil
        BY <1>4, <1>6
    <2>2. Stored(d, m) = d
        BY <1>6, <2>1 DEF Stored
    <2>3. Viewed(v, m) = v
        BY <1>6 DEF Viewed
    <2> QED
        BY <1>4, <1>6, <2>2, <2>3
<1>7. CASE m.method \notin {"didOpen", "didClose", "didChange"}
    <2>1. Stored(d, m) = d
        BY <1>7 DEF Stored
    <2>2. Viewed(v, m) = v
        BY <1>7 DEF Viewed
    <2> QED
        BY <1>4, <1>7, <2>1, <2>2
<1> QED
    BY <1>2, <1>3, <1>5, <1>6, <1>7

LEMMA SeenAgrees ==
    ASSUME NEW d \in Docs, NEW s, Whole(s.docs), Agree(d, s), NEW m \in Messages
    PROVE  Agree(Stored(d, m), Seen(s, m))
<1>1. Seen(s, m).docs = Viewed(s.docs, m) /\ Seen(s, m).doubt = Doubted(s, m)
    BY DEF Seen
<1>2. ASSUME NEW w \in Uri, w \notin Doubted(s, m) PROVE Stored(d, m)[w] = Viewed(s.docs, m)[w]
    <2>1. CASE w = m.uri
        BY <1>2, <2>1, OwnAgrees
    <2>2. CASE w # m.uri
        <3>1. Stored(d, m)[w] = d[w] /\ w \notin s.doubt
            BY <1>2, <2>2, OthersStay
        <3>2. Viewed(s.docs, m)[w] = s.docs[w]
            BY <2>2, SeenWhole
        <3>3. d[w] = s.docs[w]
            BY <3>1 DEF Agree
        <3> QED
            BY <3>1, <3>2, <3>3
    <2> QED
        BY <2>1, <2>2
<1> QED
    BY <1>1, <1>2 DEF Agree

\* The server holds what the editor has, as far as it has been served.
DocsInv == server = "up" => Agree(docs, View(Answered))

LEMMA DocsInit == Init => DocsInv
BY DEF Init, DocsInv

LEMMA DocsStep ==
    ASSUME TypeInv, InInv, DocsInv, [Next]_vars
    PROVE  DocsInv'
<1>t. sent \in Seq(Sent) /\ docs \in Docs
    BY DEF TypeInv, FlowTypes
<1>0. ASSUME UNCHANGED <<server, docs, sent>>, InFlight' = InFlight PROVE DocsInv'
    <2>1. Answered' = Answered
        BY <1>0 DEF Answered
    <2> QED
        BY <1>0, <2>1 DEF DocsInv
<1>00. ASSUME server' # "up" PROVE DocsInv'
    BY <1>00 DEF DocsInv
<1>1. CASE Start
    <2>1. /\ server' = "up" /\ docs' = NoDocs /\ sent' = <<Initialize>>
          /\ part' = <<>> /\ inPipe' = <<>> /\ todo' = Frame(Initialize)
        BY <1>1 DEF Start, StartOf
    <2>2. InFlight' # <<>>
        BY <2>1, SentIsMessages, BeginStep
    <2>3. <<Initialize>> = Append(<<>>, Initialize) /\ <<>> \in Seq(Sent)
        OBVIOUS
    <2>4. Front(<<Initialize>>) = <<>>
        BY <2>3, SentIsMessages, FrontAppend
    <2>5. Answered' = <<>>
        BY <2>1, <2>2, <2>4 DEF Answered
    <2> QED
        BY <2>1, <2>5, ViewEmpty DEF DocsInv, Agree, Unseen
<1>2. ASSUME NEW m \in Message, Send(m) PROVE DocsInv'
    <2>1. /\ ui = "idle" /\ todo' = Frame(m) /\ sent' = Append(sent, m)
          /\ UNCHANGED <<server, docs, part, inPipe>> /\ m \in Sent
        BY <1>2 DEF Send, StartOf, process, Sent
    <2>2. CASE server = "up"
        <3>1. InFlight = <<>> /\ part = <<>> /\ inPipe = <<>> /\ todo = <<>>
            BY <2>1, <2>2, RestEmpty
        <3>2. InFlight' # <<>>
            BY <2>1, <3>1, BeginStep
        <3>3. Front(sent') = sent
            BY <1>t, <2>1, FrontAppend
        <3>4. Answered' = sent /\ Answered = sent
            BY <2>1, <2>2, <3>1, <3>2, <3>3 DEF Answered
        <3> QED
            BY <2>1, <3>4 DEF DocsInv
    <2> QED
        BY <1>00, <2>1, <2>2
<1>3. CASE StartFails \/ StopNothing \/ Poll \/ HandOver \/ Reader \/ Stop \/ Flush \/ ServerWrite \/ UNCHANGED vars
    <2>1. UNCHANGED <<server, docs, sent, part, inPipe, todo>>
        BY <1>3 DEF StartFails, StopNothing, Poll, HandOver, Reader, ReaderTop, ReaderRead, ReaderParse, Stop, Flush,
                    ServerWrite, vars, process, history, given
    <2>2. InFlight' = InFlight
        BY <2>1 DEF InFlight
    <2> QED
        BY <1>0, <2>1, <2>2
<1>4. CASE Write
    <2>1. CASE Alive
        BY <1>0, <1>4, <2>1, WriteStep
    <2>2. CASE ~Alive
        BY <1>00, <1>4, <2>2 DEF Write, Alive, process
    <2> QED
        BY <2>1, <2>2
<1>5. CASE Join \/ ServerEnds \/ ServerCrash
    BY <1>00, <1>5 DEF Join, ServerEnds, ServerCrash
<1>6. CASE ServerRead
    <2>1. /\ Last(sent) \in Sent /\ Front(sent) \in Seq(Sent)
          /\ sent = Append(Front(sent), Last(sent))
          /\ Answered = Front(sent) /\ InFlight # <<>>
          /\ \/ Serve(Last(sent)) /\ InFlight' = <<>>
             \/ UNCHANGED <<server, docs, pending>> /\ InFlight' = InFlight /\ Len(part') <= Size(Last(sent))
        BY <1>6, ReadStep
    <2>2. server = "up" /\ sent' = sent
        BY <1>6 DEF ServerRead, history, given
    <2>3. CASE Serve(Last(sent)) /\ InFlight' = <<>>
        <3> SUFFICES Agree(docs', View(sent))
            <4>1. Answered' = sent
                BY <2>2, <2>3 DEF Answered
            <4> QED
                BY <4>1 DEF DocsInv
        <3> DEFINE m == Last(sent)
                   before == Front(sent)
        <3> HIDE DEF m, before
        <3>1. m \in Sent /\ before \in Seq(Sent) /\ sent = Append(before, m) /\ Answered = before
              /\ docs' = Stored(docs, m)
            BY <2>1, <2>3 DEF Serve, m, before
        <3>2. Agree(docs, View(before))
            BY <2>2, <3>1 DEF DocsInv
        <3>3. m \in Messages /\ \A i \in 1 .. Len(before) : before[i].uri \in Uri
            <4>1. \A i \in 1 .. Len(before) : before[i] \in Messages
                BY <3>1, ElementOfSeq, SentIsMessages
            <4> QED
                BY <3>1, <4>1, SentIsMessages DEF Messages
        <3>4. Whole(View(before).docs)
            BY <3>1, ViewWhole
        <3>5. Agree(Stored(docs, m), Seen(View(before), m))
            BY <1>t, <3>2, <3>3, <3>4, SeenAgrees
        <3>6. View(sent) = Seen(View(before), m)
            BY <3>1, ViewAppend
        <3> QED
            BY <3>1, <3>5, <3>6
    <2>4. CASE UNCHANGED <<server, docs, pending>> /\ InFlight' = InFlight
        BY <1>0, <2>2, <2>4
    <2> QED
        BY <2>1, <2>3, <2>4
<1> QED
    BY <1>1, <1>2, <1>3, <1>4, <1>5, <1>6 DEF Next, UiRun, Call, Server

\* Whatever was sent, opened, changed and closed, and wherever the server's reads
\* cut the messages: a server that has read everything holds the editor's text of
\* every document but those that were opened, closed or changed by a message it
\* could not parse, did not handle or took for the whole document, and were not
\* opened or closed with success since (escapeJson, notifyDocumentOpen,
\* notifyDocumentChange, readMessage, processMessage, handleDidOpen,
\* handleDidChange, handleDidClose).
THEOREM DocumentsAgree == Spec => []DocsAgree
<1>1. DocsInv => DocsAgree
    <2> SUFFICES ASSUME DocsInv, server = "up", todo = <<>>, inPipe = <<>>, part = <<>>
                 PROVE  \A u \in Uri \ View(sent).doubt : docs[u] = View(sent).docs[u]
        BY DEF DocsAgree
    <2>1. <<>> \o (<<>> \o <<>>) = <<>>
        OBVIOUS
    <2>2. Answered = sent
        BY <2>1 DEF Answered, InFlight
    <2> QED
        BY <2>2 DEF DocsInv, Agree
<1> QED
    BY <1>1, DocsInit, DocsStep, InAlways, TypeInvAlways, PTL DEF Spec

-----------------------------------------------------------------------------
(***************************************************************************)
(* The way back                                                            *)
(***************************************************************************)

\* Where the frames of a sequence of answers begin in the text they make up, and
\* a text that agrees with them as far as it goes, to the end if "whole".
Offsets(ms, off) ==
    /\ off \in [1 .. Len(ms) + 1 -> Nat] /\ off[1] = 0
    /\ \A i \in 1 .. Len(ms) : off[i + 1] = off[i] + Size(ms[i]) + 1
    /\ \A i, j \in 1 .. Len(ms) + 1 : i <= j => off[i] <= off[j]
Covered(s, ms, off) ==
    \A i \in 1 .. Len(ms) : \A k \in 1 .. Size(ms[i]) + 1 :
        off[i] + k <= Len(s) => s[off[i] + k] = Frame(ms[i])[k]
Spells(s, ms, whole) ==
    \E off : /\ Offsets(ms, off) /\ Covered(s, ms, off)
             /\ Len(s) <= off[Len(ms) + 1] /\ (whole => Len(s) = off[Len(ms) + 1])

LEMMA SpellEmpty == Spells(<<>>, <<>>, TRUE)
<1> DEFINE off == [i \in 1 .. 1 |-> 0]
<1>1. Len(<<>>) = 0
    OBVIOUS
<1>2. Offsets(<<>>, off)
    BY <1>1 DEF Offsets
<1>3. Covered(<<>>, <<>>, off)
    BY <1>1 DEF Covered
<1> QED
    BY <1>1, <1>2, <1>3 DEF Spells

LEMMA SpellAppend ==
    ASSUME NEW s \in Seq(Pieces(Answers)), NEW ms \in Seq(Answers), NEW a \in Answers,
           Spells(s, ms, TRUE)
    PROVE  Spells(s \o Frame(a), Append(ms, a), TRUE)
<1> DEFINE n == Len(ms)
           ns == Append(ms, a)
           t == s \o Frame(a)
<1>1. PICK off : Offsets(ms, off) /\ Covered(s, ms, off) /\ Len(s) = off[n + 1]
    BY DEF Spells
<1>2. n \in Nat /\ Len(s) \in Nat /\ Size(a) \in Nat /\ Len(ns) = n + 1 /\ ns[n + 1] = a
      /\ \A i \in 1 .. n : ns[i] = ms[i]
    BY AnswerFrame, AppendProperties
<1>3. Frame(a) \in Seq(Pieces(Answers)) /\ Len(Frame(a)) = Size(a) + 1
    BY AnswerFrame, FrameType
<1>4. /\ Len(t) = Len(s) + Size(a) + 1
      /\ \A i \in 1 .. Len(s) + (Size(a) + 1) : t[i] = IF i <= Len(s) THEN s[i] ELSE Frame(a)[i - Len(s)]
    <2>1. /\ Len(t) = Len(s) + Len(Frame(a))
          /\ \A i \in 1 .. Len(s) + Len(Frame(a)) : t[i] = IF i <= Len(s) THEN s[i] ELSE Frame(a)[i - Len(s)]
        BY <1>3, ConcatProperties
    <2> HIDE DEF t
    <2> QED
        BY <1>2, <1>3, <2>1
<1>5. /\ off \in [1 .. n + 1 -> Nat] /\ off[1] = 0
      /\ \A i \in 1 .. n : off[i + 1] = off[i] + Size(ms[i]) + 1
      /\ \A i, j \in 1 .. n + 1 : i <= j => off[i] <= off[j]
    BY <1>1 DEF Offsets
<1> DEFINE new == [i \in 1 .. n + 2 |-> IF i <= n + 1 THEN off[i] ELSE Len(s) + Size(a) + 1]
<1> HIDE DEF n, ns, t
<1>6. \A i \in 1 .. n + 1 : new[i] = off[i] /\ off[i] \in Nat /\ off[i] <= Len(s)
    <2> TAKE i \in 1 .. n + 1
    <2>1. i \in 1 .. n + 2 /\ n + 1 \in 1 .. n + 1 /\ i <= n + 1
        BY <1>2
    <2>2. off[i] <= off[n + 1]
        BY <1>5, <2>1
    <2> QED
        BY <1>1, <1>5, <2>1, <2>2
<1>7. new[n + 2] = Len(s) + Size(a) + 1
    BY <1>2
<1>8. new \in [1 .. n + 2 -> Nat]
    BY <1>2, <1>5
<1> HIDE DEF new
<1>9. \A i \in 1 .. n + 1 : new[i + 1] = new[i] + Size(ns[i]) + 1
    <2> TAKE i \in 1 .. n + 1
    <2>1. CASE i <= n
        <3>1. i \in 1 .. n /\ i + 1 \in 1 .. n + 1
            BY <1>2, <2>1
        <3> QED
            BY <1>2, <1>5, <1>6, <3>1
    <2>2. CASE i = n + 1
        <3>1. i + 1 = n + 2 /\ new[i] = Len(s) /\ ns[i] = a
            BY <1>1, <1>2, <1>6, <2>2 DEF n
        <3> QED
            BY <1>7, <3>1
    <2> QED
        BY <1>2, <2>1, <2>2
<1>10. ASSUME NEW i \in 1 .. n + 2, NEW j \in 1 .. n + 2, i <= j PROVE new[i] <= new[j]
    <2>1. CASE j <= n + 1
        <3>1. i \in 1 .. n + 1 /\ j \in 1 .. n + 1
            BY <1>2, <1>10, <2>1
        <3> QED
            BY <1>5, <1>6, <1>10, <3>1
    <2>2. CASE j = n + 2 /\ i = n + 2
        BY <1>2, <1>7, <2>2
    <2>3. CASE j = n + 2 /\ i <= n + 1
        <3>1. i \in 1 .. n + 1
            BY <1>2, <2>3
        <3>2. new[i] \in Nat /\ new[i] <= Len(s) /\ new[j] = Len(s) + Size(a) + 1
            BY <1>6, <1>7, <2>3, <3>1
        <3> QED
            BY <1>2, <3>2
    <2> QED
        BY <1>2, <2>1, <2>2, <2>3
<1>11. Offsets(ns, new)
    <2>1. Len(ns) + 1 = n + 2 /\ 1 \in 1 .. n + 1
        BY <1>2
    <2>2. new[1] = 0
        BY <1>5, <1>6, <2>1
    <2> QED
        BY <1>2, <1>8, <1>9, <1>10, <2>1, <2>2 DEF Offsets
<1>12. ASSUME NEW i \in 1 .. n + 1, NEW k \in 1 .. Size(ns[i]) + 1, new[i] + k <= Len(t)
       PROVE  t[new[i] + k] = Frame(ns[i])[k]
    <2>1. CASE i <= n
        <3>1. i \in 1 .. n /\ i + 1 \in 1 .. n + 1 /\ i \in 1 .. n + 1
            BY <1>2, <2>1
        <3>2. ns[i] = ms[i] /\ new[i] = off[i] /\ off[i] \in Nat /\ off[i + 1] <= Len(s)
              /\ off[i + 1] = off[i] + Size(ms[i]) + 1
            BY <1>2, <1>5, <1>6, <3>1
        <3>3. Size(ms[i]) \in Nat
            BY <3>1, ElementOfSeq, AnswerFrame DEF n
        <3>4. k \in 1 .. Size(ms[i]) + 1 /\ off[i] + k <= Len(s) /\ off[i] + k \in 1 .. Len(s)
            <4>1. k \in 1 .. Size(ms[i]) + 1
                BY <3>2
            <4>2. k <= Size(ms[i]) + 1 /\ k \in Nat /\ k >= 1
                BY <3>3, <4>1
            <4>3. off[i] + k <= off[i] + Size(ms[i]) + 1 /\ off[i] + k \in Nat /\ off[i] + k >= 1
                BY <3>2, <3>3, <4>2
            <4>4. off[i] + Size(ms[i]) + 1 \in Nat /\ off[i] + Size(ms[i]) + 1 <= Len(s)
                BY <3>2, <3>3
            <4> QED
                BY <1>2, <4>1, <4>3, <4>4
        <3>5. s[off[i] + k] = Frame(ms[i])[k]
            BY <1>1, <3>1, <3>4 DEF Covered, n
        <3>6. off[i] + k \in 1 .. Len(s) + (Size(a) + 1)
            BY <1>2, <3>4
        <3>7. t[off[i] + k] = s[off[i] + k]
            BY <1>4, <3>4, <3>6
        <3> QED
            BY <3>2, <3>5, <3>7
    <2>2. CASE i = n + 1
        <3>1. ns[i] = a /\ new[i] = Len(s)
            BY <1>1, <1>2, <1>6, <2>2 DEF n
        <3>2. k \in 1 .. Size(a) + 1
            BY <3>1
        <3>3. Len(s) + k \in 1 .. Len(s) + (Size(a) + 1)
              /\ ~ (Len(s) + k <= Len(s)) /\ Len(s) + k - Len(s) = k
            BY <1>2, <3>2
        <3>4. t[Len(s) + k] = Frame(a)[k]
            BY <1>4, <3>3
        <3> QED
            BY <3>1, <3>4
    <2> QED
        BY <1>2, <2>1, <2>2
<1>13. Covered(t, ns, new)
    BY <1>2, <1>12 DEF Covered
<1>14. Len(t) = new[Len(ns) + 1] /\ Len(t) \in Nat
    <2>1. Len(ns) + 1 = n + 2
        BY <1>2
    <2> QED
        BY <1>2, <1>4, <1>7, <2>1
<1>15. Len(t) <= new[Len(ns) + 1]
    BY <1>14
<1> QED
    BY <1>11, <1>13, <1>14, <1>15 DEF Spells, ns, t

\* What is lost with a crash leaves the text a beginning of the answers.
LEMMA SpellCut ==
    ASSUME NEW s \in Seq(Pieces(Answers)), NEW t \in Seq(Pieces(Answers)), NEW ms \in Seq(Answers),
           NEW whole, Spells(s \o t, ms, whole)
    PROVE  Spells(s, ms, FALSE)
<1>1. PICK off : Offsets(ms, off) /\ Covered(s \o t, ms, off) /\ Len(s \o t) <= off[Len(ms) + 1]
    BY DEF Spells
<1>2. /\ Len(s) \in Nat /\ Len(t) \in Nat /\ Len(s \o t) = Len(s) + Len(t) /\ Len(ms) \in Nat
      /\ \A i \in 1 .. Len(s) + Len(t) : (s \o t)[i] = IF i <= Len(s) THEN s[i] ELSE t[i - Len(s)]
    BY ConcatProperties
<1>3. Len(ms) + 1 \in 1 .. Len(ms) + 1 /\ off \in [1 .. Len(ms) + 1 -> Nat]
    BY <1>1, <1>2 DEF Offsets
<1>4. off[Len(ms) + 1] \in Nat
    BY <1>3
<1>5. Len(s) <= off[Len(ms) + 1]
    BY <1>1, <1>2, <1>4
<1>6. ASSUME NEW i \in 1 .. Len(ms), NEW k \in 1 .. Size(ms[i]) + 1, off[i] + k <= Len(s)
      PROVE  s[off[i] + k] = Frame(ms[i])[k]
    <2>1. off[i] \in Nat /\ Size(ms[i]) \in Nat
        <3>1. i \in 1 .. Len(ms) + 1
            BY <1>2
        <3>2. ms[i] \in Answers
            BY ElementOfSeq
        <3> QED
            BY <1>3, <3>1, <3>2, AnswerFrame
    <2>2. off[i] + k \in 1 .. Len(s) + Len(t) /\ off[i] + k <= Len(s) + Len(t)
        BY <1>2, <1>6, <2>1
    <2>3. (s \o t)[off[i] + k] = s[off[i] + k]
        BY <1>2, <1>6, <2>2
    <2>4. (s \o t)[off[i] + k] = Frame(ms[i])[k]
        BY <1>1, <1>2, <2>2 DEF Covered
    <2> QED
        BY <2>3, <2>4
<1>7. Covered(s, ms, off)
    BY <1>6 DEF Covered
<1> QED
    BY <1>1, <1>5, <1>7 DEF Spells

\* A text that is not empty begins with the first answer.
LEMMA SpellBegins ==
    ASSUME NEW s \in Seq(Pieces(Answers)), s # <<>>, NEW ms \in Seq(Answers), NEW whole, Spells(s, ms, whole)
    PROVE  ms # <<>> /\ s[1] = Piece("header", Head(ms)) /\ Head(ms) = ms[1] /\ ms[1] \in Answers
<1>1. PICK off : Offsets(ms, off) /\ Covered(s, ms, off) /\ Len(s) <= off[Len(ms) + 1]
    BY DEF Spells
<1>2. Len(s) \in Nat \ {0} /\ Len(ms) \in Nat
    BY EmptySeq
<1>3. ms # <<>>
    <2> SUFFICES ASSUME ms = <<>> PROVE FALSE
        OBVIOUS
    <2>1. Len(ms) = 0 /\ Len(ms) + 1 = 1
        BY EmptySeq
    <2>2. off[1] = 0
        BY <1>1 DEF Offsets
    <2> QED
        BY <1>1, <1>2, <2>1, <2>2
<1>4. 1 \in 1 .. Len(ms)
    <2>1. Len(ms) \in Nat \ {0}
        BY <1>3, EmptySeq
    <2> QED
        BY <2>1
<1>5. ms[1] \in Answers /\ Head(ms) = ms[1]
    BY <1>3, <1>4, ElementOfSeq, HeadTailProperties
<1>6. Size(ms[1]) \in Nat /\ Frame(ms[1])[1] = Piece("header", ms[1])
    BY <1>5, AnswerFrame, FrameType
<1>7. off[1] = 0 /\ 1 \in 1 .. Size(ms[1]) + 1 /\ off[1] + 1 = 1 /\ 1 <= Len(s)
    BY <1>1, <1>2, <1>6 DEF Offsets
<1>8. s[off[1] + 1] = Frame(ms[1])[1]
    BY <1>1, <1>4, <1>7 DEF Covered
<1> QED
    BY <1>3, <1>5, <1>6, <1>7, <1>8

\* Without its first answer it is a text of the others.
LEMMA SpellTake ==
    ASSUME NEW s \in Seq(Pieces(Answers)), NEW ms \in Seq(Answers), ms # <<>>, NEW whole,
           Spells(s, ms, whole), Len(s) > Size(ms[1])
    PROVE  Spells(SubSeq(s, Size(ms[1]) + 2, Len(s)), Tail(ms), whole)
<1> DEFINE n == Len(ms)
           z == Size(ms[1]) + 1
           ns == Tail(ms)
           t == SubSeq(s, Size(ms[1]) + 2, Len(s))
<1>1. PICK off : /\ Offsets(ms, off) /\ Covered(s, ms, off)
                 /\ Len(s) <= off[n + 1] /\ (whole => Len(s) = off[n + 1])
    BY DEF Spells
<1>2. n \in Nat \ {0} /\ Len(s) \in Nat
    BY EmptySeq
<1>3. ms[1] \in Answers /\ Size(ms[1]) \in Nat
    <2>1. 1 \in 1 .. Len(ms)
        BY <1>2
    <2> QED
        BY <2>1, ElementOfSeq, AnswerFrame
<1>4. ns \in Seq(Answers) /\ Len(ns) = n - 1 /\ \A i \in 1 .. n - 1 : ns[i] = ms[i + 1]
    BY <1>2, HeadTailProperties
<1>5. z \in Nat /\ z <= Len(s) /\ Size(ms[1]) + 2 = z + 1
    BY <1>2, <1>3
<1>6. /\ Len(t) = Len(s) - z
      /\ \A k \in 1 .. Len(s) - z : t[k] = s[z + k]
    <2>1. Size(ms[1]) + 2 \in Nat \ {0} /\ Len(s) \in 0 .. Len(s)
        BY <1>2, <1>3
    <2>2. /\ Len(t) = IF Size(ms[1]) + 2 <= Len(s) THEN Len(s) - (Size(ms[1]) + 2) + 1 ELSE 0
          /\ \A k \in 1 .. Len(s) - (Size(ms[1]) + 2) + 1 : t[k] = s[Size(ms[1]) + 2 + k - 1]
        BY <2>1, SliceType
    <2> HIDE DEF t
    <2>3. Len(t) = Len(s) - z
        BY <1>2, <1>3, <2>2
    <2>4. ASSUME NEW k \in 1 .. Len(s) - z PROVE t[k] = s[z + k]
        <3>1. k \in 1 .. Len(s) - (Size(ms[1]) + 2) + 1 /\ Size(ms[1]) + 2 + k - 1 = z + k
            BY <1>2, <1>3
        <3> QED
            BY <2>2, <3>1
    <2> QED
        BY <2>3, <2>4
<1>7. /\ off \in [1 .. n + 1 -> Nat] /\ off[1] = 0
      /\ \A i \in 1 .. n : off[i + 1] = off[i] + Size(ms[i]) + 1
      /\ \A i, j \in 1 .. n + 1 : i <= j => off[i] <= off[j]
    BY <1>1 DEF Offsets
<1>8. \A i \in 1 .. n : ms[i] \in Answers /\ Size(ms[i]) \in Nat
    BY ElementOfSeq, AnswerFrame
<1>9. off[2] = z
    <2>1. 1 \in 1 .. n /\ 1 + 1 = 2
        BY <1>2
    <2>2. off[1 + 1] = off[1] + Size(ms[1]) + 1
        BY <1>7, <2>1
    <2> QED
        BY <1>3, <1>7, <2>1, <2>2
<1> DEFINE new == [i \in 1 .. n |-> off[i + 1] - z]
<1> HIDE DEF n, z, ns, t
<1>10. \A i \in 1 .. n : new[i] = off[i + 1] - z /\ off[i + 1] \in Nat /\ off[i + 1] >= z /\ new[i] \in Nat
    <2> TAKE i \in 1 .. n
    <2>1. i + 1 \in 1 .. n + 1 /\ 2 \in 1 .. n + 1 /\ 2 <= i + 1
        BY <1>2
    <2>2. off[2] <= off[i + 1] /\ off[i + 1] \in Nat
        BY <1>7, <2>1
    <2>3. new[i] = off[i + 1] - z
        OBVIOUS
    <2> QED
        BY <1>5, <1>9, <2>2, <2>3
<1>11. new \in [1 .. n -> Nat]
    BY <1>10
<1> HIDE DEF new
<1>12. \A i \in 1 .. n - 1 : new[i + 1] = new[i] + Size(ns[i]) + 1
    <2> TAKE i \in 1 .. n - 1
    <2>1. i \in 1 .. n /\ i + 1 \in 1 .. n
        BY <1>2
    <2>2. new[i] = off[i + 1] - z /\ new[i + 1] = off[i + 1 + 1] - z
          /\ off[i + 1] \in Nat /\ ns[i] = ms[i + 1]
        BY <1>4, <1>10, <2>1
    <2>3. off[i + 1 + 1] = off[i + 1] + Size(ms[i + 1]) + 1 /\ Size(ms[i + 1]) \in Nat
        BY <1>7, <1>8, <2>1
    <2> QED
        BY <1>5, <2>2, <2>3
<1>13. ASSUME NEW i \in 1 .. n, NEW j \in 1 .. n, i <= j PROVE new[i] <= new[j]
    <2>1. i + 1 \in 1 .. n + 1 /\ j + 1 \in 1 .. n + 1 /\ i + 1 <= j + 1
        BY <1>2, <1>13
    <2>2. off[i + 1] <= off[j + 1]
        BY <1>7, <2>1
    <2> QED
        BY <1>5, <1>10, <2>2
<1>14. Offsets(ns, new)
    <2>1. Len(ns) + 1 = n /\ 1 \in 1 .. n /\ 1 + 1 = 2
        BY <1>2, <1>4
    <2>2. new[1] = 0
        BY <1>5, <1>9, <1>10, <2>1
    <2> QED
        BY <1>4, <1>11, <1>12, <1>13, <2>1, <2>2 DEF Offsets
<1>15. ASSUME NEW i \in 1 .. n - 1, NEW k \in 1 .. Size(ns[i]) + 1, new[i] + k <= Len(t)
       PROVE  t[new[i] + k] = Frame(ns[i])[k]
    <2>1. i \in 1 .. n /\ i + 1 \in 1 .. n
        BY <1>2
    <2>2. new[i] = off[i + 1] - z /\ off[i + 1] \in Nat /\ new[i] \in Nat
          /\ ns[i] = ms[i + 1] /\ Size(ms[i + 1]) \in Nat
        BY <1>4, <1>8, <1>10, <2>1
    <2>3. new[i] + k \in 1 .. Len(s) - z /\ z + (new[i] + k) = off[i + 1] + k
          /\ off[i + 1] + k <= Len(s) /\ k \in 1 .. Size(ms[i + 1]) + 1
        <3>1. k \in 1 .. Size(ms[i + 1]) + 1
            BY <2>2
        <3>2. k \in Nat /\ k >= 1
            BY <2>2, <3>1
        <3>3. new[i] + k <= Len(s) - z /\ new[i] + k \in Nat /\ new[i] + k >= 1
            BY <1>6, <1>15, <2>2, <3>2
        <3>4. z + (new[i] + k) = off[i + 1] + k
            BY SMTT(30), <1>5, <2>2, <3>2
        <3>5. off[i + 1] + k <= Len(s)
            BY <1>2, <1>5, <3>3, <3>4
        <3> QED
            BY <1>2, <1>5, <3>1, <3>3, <3>4, <3>5
    <2>4. t[new[i] + k] = s[off[i + 1] + k]
        BY <1>6, <2>3
    <2>5. s[off[i + 1] + k] = Frame(ms[i + 1])[k]
        BY <1>1, <2>1, <2>3 DEF Covered, n
    <2> QED
        BY <2>2, <2>4, <2>5
<1>16. Covered(t, ns, new)
    BY <1>4, <1>15 DEF Covered
<1>17. Len(t) <= new[Len(ns) + 1] /\ (whole => Len(t) = new[Len(ns) + 1])
    <2>1. Len(ns) + 1 = n /\ n \in 1 .. n
        BY <1>2, <1>4
    <2>2. new[n] = off[n + 1] - z /\ off[n + 1] \in Nat
        BY <1>10, <2>1
    <2>3. Len(s) <= off[n + 1] /\ (whole => Len(s) = off[n + 1])
        BY <1>1 DEF n
    <2> QED
        BY SMTT(30), <1>2, <1>5, <1>6, <2>1, <2>2, <2>3
<1> QED
    BY <1>14, <1>16, <1>17 DEF Spells, ns, t

\* Dropping from the first of two sequences drops from the text of both.
LEMMA DropFirst ==
    ASSUME NEW S, NEW a \in Seq(S), NEW b \in Seq(S), NEW i \in 1 .. Len(a) + 1
    PROVE  SubSeq(a, i, Len(a)) \o b = SubSeq(a \o b, i, Len(a \o b))
<1> DEFINE left == SubSeq(a, i, Len(a))
           all == a \o b
           right == SubSeq(all, i, Len(all))
<1>1. Len(a) \in Nat /\ Len(b) \in Nat /\ i \in Nat \ {0} /\ Len(a) \in 0 .. Len(a)
    OBVIOUS
<1>2. /\ all \in Seq(S) /\ Len(all) = Len(a) + Len(b)
      /\ \A k \in 1 .. Len(a) + Len(b) : all[k] = IF k <= Len(a) THEN a[k] ELSE b[k - Len(a)]
    BY ConcatProperties
<1>3. /\ left \in Seq(S) /\ Len(left) = IF i <= Len(a) THEN Len(a) - i + 1 ELSE 0
      /\ \A k \in 1 .. Len(a) - i + 1 : left[k] = a[i + k - 1]
    BY <1>1, SliceType
<1> HIDE DEF all
<1>4. /\ right \in Seq(S) /\ Len(right) = IF i <= Len(all) THEN Len(all) - i + 1 ELSE 0
      /\ \A k \in 1 .. Len(all) - i + 1 : right[k] = all[i + k - 1]
    <2>1. Len(all) \in 0 .. Len(all)
        BY <1>1, <1>2
    <2> QED
        BY <1>1, <1>2, <2>1, SliceType
<1> HIDE DEF left, right
<1>5. Len(left) = Len(a) - i + 1 /\ Len(right) = Len(a) + Len(b) - i + 1
    BY <1>1, <1>2, <1>3, <1>4
<1> DEFINE both == left \o b
<1>6. /\ both \in Seq(S) /\ Len(both) = Len(left) + Len(b)
      /\ \A k \in 1 .. Len(left) + Len(b) : both[k] = IF k <= Len(left) THEN left[k] ELSE b[k - Len(left)]
    BY <1>3, ConcatProperties
<1> HIDE DEF both
<1>7. Len(both) = Len(right)
    BY <1>1, <1>5, <1>6
<1>8. ASSUME NEW k \in 1 .. Len(both) PROVE both[k] = right[k]
    <2>1. k \in 1 .. Len(left) + Len(b) /\ k \in 1 .. Len(all) - i + 1 /\ i + k - 1 \in 1 .. Len(a) + Len(b)
        BY <1>1, <1>2, <1>5, <1>6
    <2>2. right[k] = all[i + k - 1]
        BY <1>4, <2>1
    <2>3. CASE k <= Len(left)
        <3>1. k \in 1 .. Len(a) - i + 1 /\ i + k - 1 <= Len(a)
            BY <1>1, <1>5, <2>3
        <3> QED
            BY <1>2, <1>3, <1>6, <2>1, <2>2, <2>3, <3>1
    <2>4. CASE ~ (k <= Len(left))
        <3>1. ~ (i + k - 1 <= Len(a)) /\ i + k - 1 - Len(a) = k - Len(left)
            BY <1>1, <1>5, <2>1, <2>4
        <3>2. both[k] = b[k - Len(left)]
            BY <1>6, <2>1, <2>4
        <3>3. all[i + k - 1] = b[i + k - 1 - Len(a)]
            BY SMTT(30), <1>2, <2>1, <3>1
        <3> QED
            BY <2>2, <3>1, <3>2, <3>3
    <2> QED
        BY <2>3, <2>4
<1>9. both = right
    BY <1>3, <1>4, <1>6, <1>7, <1>8, SeqEqual
<1> QED
    BY <1>9 DEF both, left, right, all

\* A session keeps documents and answers, whatever it is told.
LEMMA SessionType ==
    ASSUME NEW ms \in Seq(Sent)
    PROVE  Session(ms).docs \in Docs /\ Session(ms).out \in Seq(Answers)
<1> DEFINE G == {k \in Nat : \A s \in Seq(Sent) :
                    Len(s) = k => Session(s).docs \in Docs /\ Session(s).out \in Seq(Answers)}
<1>1. 0 \in G
    <2> SUFFICES ASSUME NEW s \in Seq(Sent), Len(s) = 0
                 PROVE  Session(s).docs \in Docs /\ Session(s).out \in Seq(Answers)
        OBVIOUS
    <2>1. s = <<>>
        BY EmptySeq
    <2>2. Session(s) = [docs |-> NoDocs, out |-> <<>>, over |-> FALSE]
        BY <2>1, SessionEmpty DEF Base
    <2> QED
        BY <2>2, NoDocsType
<1>2. ASSUME NEW k \in Nat, k \in G PROVE k + 1 \in G
    <2> SUFFICES ASSUME NEW s \in Seq(Sent), Len(s) = k + 1
                 PROVE  Session(s).docs \in Docs /\ Session(s).out \in Seq(Answers)
        OBVIOUS
    <2> DEFINE front == Front(s)
               m == Last(s)
    <2>1. s # <<>>
        BY EmptySeq
    <2>2. m \in Sent /\ front \in Seq(Sent) /\ Append(front, m) = s
        BY <2>1, LastFront
    <2> HIDE DEF front, m
    <2>3. Len(front) = k
        <3>1. Len(s) = Len(front) + 1 /\ Len(front) \in Nat
            BY <2>2, AppendProperties
        <3> QED
            BY <3>1
    <2>4. Session(front).docs \in Docs /\ Session(front).out \in Seq(Answers)
        BY <1>2, <2>2, <2>3
    <2>5. Session(s) = Served(Session(front), m)
        BY <2>2, SessionAppend
    <2>6. m \in Messages
        BY <2>2, SentIsMessages
    <2>7. Stored(Session(front).docs, m) \in Docs
        BY <2>4, <2>6, StoredType
    <2>8. Printed(Stored(Session(front).docs, m), m) \in Seq(Answers)
        BY <2>6, <2>7, AnswersSequence
    <2>9. Session(front).out \o Printed(Stored(Session(front).docs, m), m) \in Seq(Answers)
        BY <2>4, <2>8, ConcatProperties
    <2> QED
        BY <2>4, <2>5, <2>7, <2>9 DEF Served
<1> HIDE DEF G
<1>3. Nat \subseteq G
    BY <1>1, <1>2, NatInd
<1>4. Len(ms) \in Nat
    OBVIOUS
<1> QED
    BY <1>3, <1>4 DEF G

\* Concatenation, as an operator the provers do not look into.
Cat(a, b) == a \o b

LEMMA CatAssociative ==
    ASSUME NEW S, NEW a \in Seq(S), NEW b \in Seq(S), NEW c \in Seq(S)
    PROVE  Cat(Cat(a, b), c) = Cat(a, Cat(b, c))
BY ConcatAssociative DEF Cat

LEMMA CatType ==
    ASSUME NEW S, NEW a \in Seq(S), NEW b \in Seq(S)
    PROVE  Cat(a, b) \in Seq(S)
BY ConcatProperties DEF Cat

\* A read moves pieces from one sequence to the end of the one before it.
LEMMA TextOfRead ==
    ASSUME NEW S, NEW a \in Seq(S), NEW b \in Seq(S), NEW c \in Seq(S), NEW n \in 1 .. Len(b)
    PROVE  Cat(Cat(a, SubSeq(b, 1, n)), Cat(SubSeq(b, n + 1, Len(b)), c)) = Cat(a, Cat(b, c))
<1> DEFINE taken == SubSeq(b, 1, n)
           left == SubSeq(b, n + 1, Len(b))
<1>1. /\ Len(b) \in Nat /\ n \in 0 .. Len(b) /\ n + 1 \in Nat \ {0} /\ Len(b) \in 0 .. Len(b)
      /\ 1 \in 1 .. Len(b) + 1 /\ n \in 1 - 1 .. Len(b) /\ Len(b) \in n .. Len(b)
    OBVIOUS
<1>2. taken \in Seq(S) /\ left \in Seq(S)
    BY <1>1, SliceType
<1>3. Cat(taken, left) = b
    <2>1. taken \o left = SubSeq(b, 1, Len(b))
        BY <1>1, ConcatAdjacentSubSeq
    <2> QED
        BY <2>1, SubSeqFull DEF Cat
<1> HIDE DEF taken, left
<1>5. Cat(Cat(a, taken), Cat(left, c)) = Cat(a, Cat(Cat(taken, left), c))
    BY <1>2, CatAssociative, CatType
<1> QED
    BY <1>3, <1>5 DEF taken, left

\* What a session has answered it does not take back.
LEMMA SessionGrows ==
    ASSUME NEW ms \in Seq(Sent), NEW m \in Sent
    PROVE  \E more \in Seq(Answers) : Session(Append(ms, m)).out = Session(ms).out \o more
<1>1. Session(ms).docs \in Docs /\ Session(ms).out \in Seq(Answers)
    BY SessionType
<1>2. Session(Append(ms, m)) = Served(Session(ms), m)
    BY SessionAppend
<1> DEFINE more == Printed(Stored(Session(ms).docs, m), m)
<1>3. CASE Session(ms).over
    <2>1. Session(Append(ms, m)).out = Session(ms).out
        BY <1>2, <1>3 DEF Served
    <2>2. Session(ms).out = Session(ms).out \o <<>> /\ <<>> \in Seq(Answers)
        BY <1>1, ConcatEmptySeq
    <2> QED
        BY <2>1, <2>2
<1>4. CASE ~Session(ms).over
    <2>1. m \in Messages
        BY SentIsMessages
    <2>2. more \in Seq(Answers)
        BY <1>1, <2>1, StoredType, AnswersSequence
    <2> DEFINE s == Session(ms)
               t == Session(Append(ms, m))
    <2> HIDE DEF s, t
    <2>3. t.out = s.out \o Printed(Stored(s.docs, m), m)
        <3>1. t = Served(s, m) /\ ~s.over
            BY <1>2, <1>4 DEF s, t
        <3> QED
            BY <3>1 DEF Served
    <2>4. Session(Append(ms, m)).out = Session(ms).out \o more
        BY <2>3 DEF s, t
    <2> QED
        BY <2>2, <2>4
<1> QED
    BY <1>3, <1>4

\* What the server has printed and the thread has not taken apart; what Lua has
\* been handed or can poll.
Text == buffer \o (outPipe \o pending)
Handed == delivered \o batch
Done == Handed \o queue

\* The answers on their way, and those of the session after them.
Way(ms) ==
    /\ Spells(Text, ms, server = "up")
    /\ server = "up" => Done \o ms = Session(Answered).out
    /\ \E rest \in Seq(Answers) : (Done \o ms) \o rest = Session(sent).out

BatchInv == batch # <<>> => running

LEMMA BatchStep ==
    ASSUME BatchInv, [Next]_vars
    PROVE  BatchInv'
<1>1. CASE Start \/ Poll
    BY <1>1 DEF BatchInv, Start, Poll
<1>8. CASE Stop
    <2>1. batch' = <<>>
        BY <1>8 DEF Stop, history, given
    <2> QED
        BY <2>1 DEF BatchInv
<1>9. CASE HandOver
    BY <1>9 DEF BatchInv, HandOver, client
<1>2. ASSUME UNCHANGED <<batch, running>> PROVE BatchInv'
    BY <1>2 DEF BatchInv
<1>3. ASSUME NEW m \in Message, Send(m) PROVE UNCHANGED <<batch, running>>
    BY <1>3 DEF Send, client, given
<1>4. CASE StartFails \/ StopNothing \/ Write \/ Flush \/ Join
    BY <1>2, <1>4 DEF StartFails, StopNothing, Write, Flush, Join, client, history, given
<1>5. CASE Reader
    BY <1>2, <1>5 DEF Reader, ReaderTop, ReaderRead, ReaderParse, history, given
<1>6. CASE Server \/ ServerCrash
    BY <1>2, <1>6 DEF Server, ServerRead, ServerWrite, ServerEnds, ServerCrash, client, history, given
<1>7. CASE UNCHANGED vars
    BY <1>2, <1>7 DEF vars, client, history, given
<1> QED
    BY <1>1, <1>2, <1>3, <1>4, <1>5, <1>6, <1>7, <1>8, <1>9 DEF Next, UiRun, Call

LEMMA BatchAlways == Spec => []BatchInv
<1>1. Init => BatchInv
    BY DEF Init, BatchInv
<1> QED
    BY <1>1, BatchStep, PTL DEF Spec

OutInv ==
    /\ thread = "none" => queue = <<>>
    /\ thread # "none" => \E ms \in Seq(Answers) : Way(ms)
    /\ \E rest \in Seq(Answers) : Done \o rest = Session(sent).out

LEMMA OutInit == Init => OutInv
<1> SUFFICES ASSUME Init PROVE OutInv
    OBVIOUS
<1>1. sent = <<>> /\ delivered = <<>> /\ batch = <<>> /\ queue = <<>> /\ thread = "none"
    BY DEF Init
<1>2. Session(sent).out = <<>>
    BY <1>1, SessionEmpty DEF Base
<1>3. Done = <<>> /\ <<>> \o <<>> = <<>> /\ <<>> \in Seq(Answers)
    BY <1>1 DEF Done, Handed
<1>4. \E rest \in Seq(Answers) : Done \o rest = Session(sent).out
    BY <1>2, <1>3
<1> QED
    BY <1>1, <1>4 DEF OutInv

\* The types these proofs need, by name.
LEMMA WayTypes ==
    ASSUME TypeInv
    PROVE  /\ buffer \in Seq(Pieces(Answers)) /\ outPipe \in Seq(Pieces(Answers))
           /\ pending \in Seq(Pieces(Answers)) /\ outPipe \o pending \in Seq(Pieces(Answers))
           /\ queue \in Seq(Answers) /\ batch \in Seq(Answers) /\ delivered \in Seq(Answers)
           /\ Handed \in Seq(Answers) /\ Done \in Seq(Answers) /\ Text \in Seq(Pieces(Answers)) /\ sent \in Seq(Sent)
<1>1. /\ buffer \in Seq(Pieces(Answers)) /\ outPipe \in Seq(Pieces(Answers))
      /\ pending \in Seq(Pieces(Answers))
      /\ queue \in Seq(Answers) /\ batch \in Seq(Answers) /\ delivered \in Seq(Answers)
      /\ sent \in Seq(Sent)
    BY DEF TypeInv, FlowTypes
<1>4. Handed \in Seq(Answers)
    BY <1>1, ConcatProperties DEF Handed
<1>2. outPipe \o pending \in Seq(Pieces(Answers)) /\ Done \in Seq(Answers)
    BY <1>1, <1>4, ConcatProperties DEF Done
<1>3. Text \in Seq(Pieces(Answers))
    BY <1>1, <1>2, ConcatProperties DEF Text
<1> QED
    BY <1>1, <1>2, <1>3, <1>4

\* Steps that leave the text, the messages and the session alone.
LEMMA OutSame ==
    ASSUME OutInv, Text' = Text, Done' = Done, sent' = sent, thread # "none" => thread' # "none",
           thread = "none" => thread' = "none" /\ queue' = queue,
           server' # "up" \/ (server = "up" /\ Answered' = Answered)
    PROVE  OutInv'
<1>1. \E rest \in Seq(Answers) : Done' \o rest = Session(sent').out
    BY DEF OutInv
<1>2. thread' = "none" => queue' = <<>>
    BY DEF OutInv
<1>3. ASSUME thread' # "none" PROVE \E ms \in Seq(Answers) : Way(ms)'
    <2>1. PICK ms \in Seq(Answers) : Way(ms)
        BY <1>3 DEF OutInv
    <2>2. Spells(Text', ms, server' = "up")
        <3>1. PICK off : /\ Offsets(ms, off) /\ Covered(Text, ms, off)
                         /\ Len(Text) <= off[Len(ms) + 1] /\ (server = "up" => Len(Text) = off[Len(ms) + 1])
            BY <2>1 DEF Way, Spells
        <3>2. server' = "up" => server = "up"
            OBVIOUS
        <3>3. /\ Offsets(ms, off) /\ Covered(Text', ms, off)
              /\ Len(Text') <= off[Len(ms) + 1] /\ (server' = "up" => Len(Text') = off[Len(ms) + 1])
            BY <3>1, <3>2
        <3> QED
            BY <3>3 DEF Spells
    <2>3. server' = "up" => Done' \o ms = Session(Answered').out
        BY <2>1 DEF Way
    <2>4. \E rest \in Seq(Answers) : (Done' \o ms) \o rest = Session(sent').out
        BY <2>1 DEF Way
    <2> QED
        BY <2>1, <2>2, <2>3, <2>4 DEF Way
<1> QED
    BY <1>1, <1>2, <1>3 DEF OutInv

\* A call that begins: one message more is expected to be answered.
LEMMA OutSend ==
    ASSUME TypeInv, InInv, OutInv, NEW m \in Message, Send(m)
    PROVE  OutInv'
<1>1. /\ ui = "idle" /\ todo' = Frame(m) /\ sent' = Append(sent, m)
      /\ UNCHANGED <<server, docs, part, pending, inPipe, outPipe, thread, buffer, queue, batch, delivered>>
       /\ m \in Sent
    BY DEF Send, StartOf, process, client, given, Sent
<1>2. Text' = Text /\ Done' = Done
    BY <1>1 DEF Text, Done, Handed
<1>3. PICK more \in Seq(Answers) : Session(sent').out = Session(sent).out \o more
    BY <1>1, WayTypes, SessionGrows
<1>4. Done \in Seq(Answers) /\ sent \in Seq(Sent)
    BY WayTypes
<1>5. \E rest \in Seq(Answers) : Done' \o rest = Session(sent').out
    <2>1. PICK rest \in Seq(Answers) : Done \o rest = Session(sent).out
        BY DEF OutInv
    <2>2. Done \o (rest \o more) = (Done \o rest) \o more /\ rest \o more \in Seq(Answers)
        BY SMTT(30), <1>4, ConcatAssociative, ConcatProperties
    <2> QED
        BY <1>2, <1>3, <2>1, <2>2
<1>6. server = "up" => Answered' = Answered
    <2> SUFFICES ASSUME server = "up" PROVE Answered' = Answered
        OBVIOUS
    <2>1. InFlight = <<>> /\ part = <<>> /\ inPipe = <<>> /\ todo = <<>>
        BY <1>1, RestEmpty
    <2>2. InFlight' # <<>>
        BY <1>1, <2>1, BeginStep
    <2>3. Front(sent') = sent
        BY <1>1, <1>4, FrontAppend
    <2> QED
        BY <1>1, <2>1, <2>2, <2>3 DEF Answered
<1>7. ASSUME thread # "none" PROVE \E ms \in Seq(Answers) : Way(ms)'
    <2>1. PICK ms \in Seq(Answers) : Way(ms)
        BY <1>7 DEF OutInv
    <2>2. PICK rest \in Seq(Answers) : (Done \o ms) \o rest = Session(sent).out
        BY <2>1 DEF Way
    <2>3. Done \o ms \in Seq(Answers)
        BY <1>4, ConcatProperties
    <2>4. (Done \o ms) \o (rest \o more) = ((Done \o ms) \o rest) \o more /\ rest \o more \in Seq(Answers)
        <3> DEFINE s == Done \o ms
        <3>1. s \in Seq(Answers)
            BY <2>3
        <3> HIDE DEF s
        <3>2. s \o (rest \o more) = (s \o rest) \o more
            BY <3>1, ConcatAssociative
        <3>3. rest \o more \in Seq(Answers)
            BY ConcatProperties
        <3> QED
            BY <3>2, <3>3 DEF s
    <2>5. \E r \in Seq(Answers) : (Done' \o ms) \o r = Session(sent').out
        BY <1>2, <1>3, <2>2, <2>4
    <2>6. server' = "up" => Done' \o ms = Session(Answered').out
        BY <1>1, <1>2, <1>6, <2>1 DEF Way
    <2>7. Spells(Text', ms, server' = "up")
        BY <1>1, <1>2, <2>1 DEF Way
    <2> QED
        BY <2>5, <2>6, <2>7 DEF Way
<1> QED
    BY <1>1, <1>5, <1>7 DEF OutInv

\* A start begins a session with nothing answered and nothing on its way.
LEMMA OutStart ==
    ASSUME TypeInv, OutInv, ThreadInv, BatchInv, Start
    PROVE  OutInv'
<1>1. /\ server' = "up" /\ sent' = <<Initialize>> /\ delivered' = <<>> /\ batch' = batch /\ queue' = queue
      /\ part' = <<>> /\ inPipe' = <<>> /\ todo' = Frame(Initialize) /\ thread' = "top"
      /\ buffer' = <<>> /\ outPipe' = <<>> /\ pending' = <<>>
    BY DEF Start, StartOf
<1>2. queue = <<>> /\ batch = <<>>
    <2>1. thread = "none" /\ ~running
        BY DEF ThreadInv, Start
    <2> QED
        BY <2>1 DEF OutInv, BatchInv
<1>3. Text' = <<>> /\ Done' = <<>>
    BY <1>1, <1>2 DEF Text, Done, Handed
<1>4. InFlight' # <<>>
    BY <1>1, SentIsMessages, BeginStep
<1>5. <<Initialize>> = Append(<<>>, Initialize) /\ <<>> \in Seq(Sent)
    OBVIOUS
<1>6. Front(<<Initialize>>) = <<>>
    BY <1>5, SentIsMessages, FrontAppend
<1>7. Answered' = <<>>
    BY <1>1, <1>4, <1>6 DEF Answered
<1>8. Session(Answered').out = <<>>
    BY <1>7, SessionEmpty DEF Base
<1>9. sent' \in Seq(Sent)
    BY <1>1, SentIsMessages
<1>10. Session(sent').out \in Seq(Answers)
    BY <1>9, SessionType
<1>11. <<>> \in Seq(Answers) /\ <<>> \o <<>> = <<>> /\ <<>> \o Session(sent').out = Session(sent').out
    BY <1>10, ConcatEmptySeq
<1>12. Spells(Text', <<>>, server' = "up")
    <2>1. (server' = "up") = TRUE
        BY <1>1
    <2> QED
        BY <1>3, <2>1, SpellEmpty
<1>13. Way(<<>>)'
    BY <1>3, <1>8, <1>10, <1>11, <1>12 DEF Way
<1> QED
    BY <1>1, <1>3, <1>10, <1>11, <1>13 DEF OutInv

\* A stop that is over leaves the messages nobody polled behind.
LEMMA OutJoin ==
    ASSUME TypeInv, OutInv, Join
    PROVE  OutInv'
<1>1. thread' = "none" /\ queue' = <<>> /\ UNCHANGED <<batch, delivered, sent>>
    BY DEF Join, history, given
<1>2. Handed \in Seq(Answers) /\ queue \in Seq(Answers) /\ Handed' = Handed
    BY <1>1, WayTypes DEF Handed
<1>3. PICK rest \in Seq(Answers) : Done \o rest = Session(sent).out
    BY DEF OutInv
<1> DEFINE h == Handed
<1> HIDE DEF h
<1>4. Cat(Cat(h, queue), rest) = Cat(h, Cat(queue, rest)) /\ Cat(queue, rest) \in Seq(Answers)
    BY <1>2, CatAssociative, CatType DEF h
<1>5. Done' = h
    <2>1. h \o <<>> = h
        BY <1>2, ConcatEmptySeq DEF h
    <2> QED
        BY <1>1, <1>2, <2>1 DEF Done, h
<1>6. Done' \o Cat(queue, rest) = Session(sent').out
    BY <1>1, <1>3, <1>4, <1>5 DEF Done, Cat, h
<1> QED
    BY <1>1, <1>4, <1>6 DEF OutInv

\* The thread takes what there is, and a message that is whole.
LEMMA OutRead ==
    ASSUME TypeInv, OutInv, ReaderRead
    PROVE  OutInv'
<1>1. UNCHANGED <<server, docs, part, pending, inPipe, todo, sent, queue, batch, delivered>>
      /\ thread = "read" /\ thread' # "none"
    BY DEF ReaderRead, process, history, given
<1>2. Text' = Text
    <2>1. CASE outPipe = <<>>
        <3>1. UNCHANGED <<buffer, outPipe>>
            BY <2>1 DEF ReaderRead
        <3> QED
            BY <1>1, <3>1 DEF Text
    <2>2. CASE outPipe # <<>>
        <3>1. PICK n \in 1 .. Len(outPipe) : /\ buffer' = buffer \o SubSeq(outPipe, 1, n)
                                             /\ outPipe' = SubSeq(outPipe, n + 1, Len(outPipe))
            BY <2>2 DEF ReaderRead
        <3>2. buffer \in Seq(Pieces(Answers)) /\ outPipe \in Seq(Pieces(Answers))
              /\ pending \in Seq(Pieces(Answers))
            BY WayTypes
        <3>3. Cat(Cat(buffer, SubSeq(outPipe, 1, n)), Cat(SubSeq(outPipe, n + 1, Len(outPipe)), pending))
                = Cat(buffer, Cat(outPipe, pending))
            BY <3>2, TextOfRead
        <3> QED
            BY <1>1, <3>1, <3>3 DEF Text, Cat
    <2> QED
        BY <2>1, <2>2
<1>3. Done' = Done /\ InFlight' = InFlight
    BY <1>1 DEF Done, Handed, InFlight
<1>4. Answered' = Answered
    BY <1>1, <1>3 DEF Answered
<1> QED
    BY <1>1, <1>2, <1>3, <1>4, OutSame

LEMMA AppendLater ==
    ASSUME NEW S, NEW a \in Seq(S), NEW b \in Seq(S), NEW e \in S
    PROVE  a \o Append(b, e) = Append(a \o b, e)
<1>1. <<e>> \in Seq(S)
    OBVIOUS
<1>2. Append(b, e) = Cat(b, <<e>>)
    BY AppendIsConcat DEF Cat
<1>3. Cat(a, b) \in Seq(S)
    BY CatType
<1>4. Append(Cat(a, b), e) = Cat(Cat(a, b), <<e>>)
    BY <1>3, AppendIsConcat DEF Cat
<1>5. Cat(Cat(a, b), <<e>>) = Cat(a, Cat(b, <<e>>))
    <2> DEFINE one == <<e>>
    <2>1. one \in Seq(S)
        BY <1>1
    <2> HIDE DEF one
    <2>2. Cat(Cat(a, b), one) = Cat(a, Cat(b, one))
        BY <2>1, CatAssociative
    <2> QED
        BY <2>2 DEF one
<1> QED
    BY <1>2, <1>4, <1>5 DEF Cat

\* A message that is whole goes to the queue, and is the next of the session.
LEMMA OutParse ==
    ASSUME TypeInv, OutInv, ReaderParse
    PROVE  OutInv'
<1>t. /\ buffer \in Seq(Pieces(Answers)) /\ outPipe \o pending \in Seq(Pieces(Answers))
      /\ queue \in Seq(Answers) /\ delivered \in Seq(Answers) /\ Done \in Seq(Answers)
      /\ Text \in Seq(Pieces(Answers))
    BY WayTypes
<1>1. /\ UNCHANGED <<server, docs, part, pending, inPipe, outPipe, todo, sent, batch, delivered>>
      /\ thread = "parse" /\ thread' # "none"
    BY DEF ReaderParse, process, history, given
<1>2. InFlight' = InFlight
    BY <1>1 DEF InFlight
<1>3. Answered' = Answered
    BY <1>1, <1>2 DEF Answered
<1>4. CASE ~Found
    <2>1. Text' = Text /\ Done' = Done
        BY <1>1, <1>4 DEF ReaderParse, Text, Done, Handed
    <2> QED
        BY <1>1, <1>3, <2>1, OutSame
<1>5. CASE Found
    <2> DEFINE msg == buffer[1].msg
               rest == outPipe \o pending
    <2>1. buffer # <<>> /\ Len(buffer) > Size(msg) /\ queue' = Append(queue, msg) /\ buffer' = After
        BY <1>5 DEF ReaderParse, Found, Complete
    <2>2. PICK ms \in Seq(Answers) : Way(ms)
        BY <1>1 DEF OutInv
    <2>3. Spells(Text, ms, server = "up")
        BY <2>2 DEF Way
    <2>4. /\ Len(Text) = Len(buffer) + Len(rest) /\ Len(buffer) \in Nat \ {0} /\ Len(rest) \in Nat
          /\ \A i \in 1 .. Len(buffer) + Len(rest) :
                Text[i] = IF i <= Len(buffer) THEN buffer[i] ELSE rest[i - Len(buffer)]
        BY <1>t, <2>1, ConcatProperties, EmptySeq DEF Text
    <2> HIDE DEF rest
    <2>5. Text # <<>> /\ Text[1] = buffer[1]
        <3>1. 1 \in 1 .. Len(buffer) + Len(rest) /\ 1 <= Len(buffer) /\ Len(Text) # 0
            BY <2>4
        <3> QED
            BY <2>4, <3>1
    <2>6. ms # <<>> /\ Text[1] = Piece("header", Head(ms)) /\ Head(ms) = ms[1] /\ ms[1] \in Answers
        BY <1>t, <2>3, <2>5, SpellBegins
    <2>7. msg = ms[1] /\ msg = Head(ms) /\ msg \in Answers
        BY <2>5, <2>6 DEF Piece
    <2>8. Size(ms[1]) \in Nat /\ Len(Text) > Size(ms[1]) /\ Size(ms[1]) + 2 \in 1 .. Len(buffer) + 1
        BY <2>1, <2>4, <2>6, <2>7, AnswerFrame
    <2>9. Spells(SubSeq(Text, Size(ms[1]) + 2, Len(Text)), Tail(ms), server = "up")
        BY <1>t, <2>3, <2>6, <2>8, SpellTake
    <2>10. Text' = SubSeq(Text, Size(ms[1]) + 2, Len(Text))
        <3>1. Text' = SubSeq(buffer, Size(ms[1]) + 2, Len(buffer)) \o rest
            BY <1>1, <2>1, <2>7 DEF Text, After, rest
        <3>2. Text = buffer \o rest
            BY DEF Text, rest
        <3>3. rest \in Seq(Pieces(Answers))
            BY <1>t DEF rest
        <3>4. SubSeq(buffer, Size(ms[1]) + 2, Len(buffer)) \o rest
                = SubSeq(buffer \o rest, Size(ms[1]) + 2, Len(buffer \o rest))
            BY <1>t, <2>8, <3>3, DropFirst
        <3> QED
            BY <3>1, <3>2, <3>4
    <2>11. Done' = Append(Done, Head(ms))
        <3>1. Handed' = Handed
            BY <1>1 DEF Handed
        <3>2. Handed \in Seq(Answers)
            BY WayTypes
        <3> DEFINE h == Handed
        <3> HIDE DEF h, msg
        <3>3. h \o Append(queue, msg) = Append(h \o queue, msg)
            BY SMTT(30), <1>t, <2>7, <3>2, AppendLater DEF h
        <3> QED
            BY <2>1, <2>7, <3>1, <3>3 DEF Done, h
    <2>12. Done' \in Seq(Answers) /\ Tail(ms) \in Seq(Answers) /\ Done' \o Tail(ms) = Done \o ms
        BY SMTT(30), <1>t, <2>6, <2>11, MoveHead
    <2>13. PICK more \in Seq(Answers) : (Done \o ms) \o more = Session(sent).out
        BY <2>2 DEF Way
    <2>14. Spells(Text', Tail(ms), server' = "up")
        BY <1>1, <2>9, <2>10
    <2>15. Way(Tail(ms))'
        <3>1. server' = "up" => Done' \o Tail(ms) = Session(Answered').out
            BY <1>1, <1>3, <2>2, <2>12 DEF Way
        <3>2. (Done' \o Tail(ms)) \o more = Session(sent').out
            BY <1>1, <2>12, <2>13
        <3> QED
            BY <2>14, <3>1, <3>2 DEF Way
    <2>16. Cat(Cat(Done', Tail(ms)), more) = Cat(Done', Cat(Tail(ms), more))
           /\ Cat(Tail(ms), more) \in Seq(Answers)
        <3> DEFINE tail == Tail(ms)
        <3>1. tail \in Seq(Answers) /\ Done' \in Seq(Answers)
            BY <2>12
        <3> HIDE DEF tail
        <3>2. Cat(Cat(Done', tail), more) = Cat(Done', Cat(tail, more)) /\ Cat(tail, more) \in Seq(Answers)
            BY <3>1, CatAssociative, CatType
        <3> QED
            BY <3>2 DEF tail
    <2>17. Cat(Cat(Done', Tail(ms)), more) = Session(sent').out
        BY <1>1, <2>12, <2>13 DEF Cat
    <2>18. \E r \in Seq(Answers) : Done' \o r = Session(sent').out
        BY <2>16, <2>17 DEF Cat
    <2> QED
        BY <1>1, <2>12, <2>15, <2>18 DEF OutInv
<1> QED
    BY <1>4, <1>5

\* The server prints only when it has written what it printed before.
LEMMA OutServe ==
    ASSUME TypeInv, InInv, OutInv, ServerRead
    PROVE  OutInv'
<1>t. /\ buffer \in Seq(Pieces(Answers)) /\ outPipe \in Seq(Pieces(Answers))
      /\ Done \in Seq(Answers) /\ Text \in Seq(Pieces(Answers)) /\ docs \in Docs
    BY WayTypes DEF TypeInv, FlowTypes
<1>1. /\ server = "up" /\ pending = <<>> /\ UNCHANGED <<sent, thread, buffer, queue, batch, delivered, outPipe>>
    BY DEF ServerRead, client, history, given
<1>2. Done' = Done
    BY <1>1 DEF Done, Handed
<1>3. /\ Last(sent) \in Sent /\ Front(sent) \in Seq(Sent)
      /\ sent = Append(Front(sent), Last(sent))
      /\ Answered = Front(sent) /\ InFlight # <<>>
      /\ \/ Serve(Last(sent)) /\ InFlight' = <<>>
         \/ UNCHANGED <<server, docs, pending>> /\ InFlight' = InFlight /\ Len(part') <= Size(Last(sent))
    BY ReadStep
<1>4. CASE UNCHANGED <<server, docs, pending>> /\ InFlight' = InFlight
    <2>1. Text' = Text /\ Answered' = Answered
        BY <1>1, <1>4 DEF Text, Answered
    <2> QED
        BY <1>1, <1>2, <2>1, OutSame
<1>5. CASE Serve(Last(sent)) /\ InFlight' = <<>>
    <2> DEFINE m == Last(sent)
    <2>0. /\ m \in Messages /\ docs' = Stored(docs, m) /\ docs' \in Docs
          /\ pending' = Frames(Printed(docs', m))
        BY <1>t, <1>3, <1>5, SentIsMessages, StoredType DEF Serve
    <2>7. PICK new \in Seq(Answers) : new = Printed(docs', m)
        BY <2>0, AnswersSequence
    <2>1. m \in Messages /\ docs' = Stored(docs, m) /\ pending' = Frames(new) /\ docs' \in Docs
        BY <2>0, <2>7
    <2>2. Answered' = sent
        BY <1>1, <1>5 DEF Answered
    <2>3. docs = Session(Answered).docs /\ ~Session(Answered).over
        BY <1>1 DEF InInv
    <2>4. Session(sent) = Served(Session(Answered), m)
        BY <1>3, SessionAppend
    <2>5. Session(sent).out = Session(Answered).out \o new
        <3> DEFINE s == Session(Answered)
                   t == Session(sent)
        <3>1. t = Served(s, m) /\ ~s.over /\ s.docs = docs
            BY <2>3, <2>4
        <3> HIDE DEF s, t, m
        <3>2. t.out = s.out \o Printed(Stored(docs, m), m)
            BY <3>1 DEF Served
        <3> QED
            BY <2>1, <2>7, <3>2 DEF s, t
    <2>6. new = <<>> \/ \E a \in Answers : new = <<a>>
        BY <2>1, <2>7, PrintedType
    <2> HIDE DEF m
    <2>8. ASSUME thread # "none" PROVE \E ms \in Seq(Answers) : Way(ms)'
        <3>1. PICK ms \in Seq(Answers) : Way(ms)
            BY <2>8 DEF OutInv
        <3>2. Spells(Text, ms, TRUE)
            <4>1. (server = "up") = TRUE
                BY <1>1
            <4> QED
                BY <3>1, <4>1 DEF Way
        <3>3. Done \o ms = Session(Answered).out
            BY <1>1, <3>1 DEF Way
        <3>4. Text = buffer \o outPipe
            BY <1>t, <1>1, ConcatEmptySeq DEF Text
        <3>5. Text' = buffer \o (outPipe \o Frames(new))
            BY <1>1, <2>1 DEF Text
        <3>6. ms \o new \in Seq(Answers) /\ Spells(Text', ms \o new, TRUE)
            <4>1. CASE new = <<>>
                <5>1. ms \o new = ms /\ Frames(new) = <<>>
                    BY <4>1, ConcatEmptySeq DEF Frames
                <5>2. Text' = Text
                    BY <1>t, <3>4, <3>5, <5>1, ConcatEmptySeq
                <5> QED
                    BY <3>2, <5>1, <5>2
            <4>2. ASSUME NEW a \in Answers, new = <<a>>
                  PROVE  ms \o new \in Seq(Answers) /\ Spells(Text', ms \o new, TRUE)
                <5>1. ms \o new = Append(ms, a) /\ Append(ms, a) \in Seq(Answers)
                    BY <4>2, AppendIsConcat, AppendProperties
                <5>2. Frames(new) = Frame(a) /\ Frame(a) \in Seq(Pieces(Answers))
                    BY <4>2, AnswerFrame DEF Frames
                <5>3. Cat(buffer, Cat(outPipe, Frame(a))) = Cat(Cat(buffer, outPipe), Frame(a))
                    BY <1>t, <5>2, CatAssociative
                <5>4. Text' = Text \o Frame(a)
                    BY <3>4, <3>5, <5>2, <5>3 DEF Cat
                <5>5. Spells(Text \o Frame(a), Append(ms, a), TRUE)
                    BY <1>t, <3>2, SpellAppend
                <5> QED
                    BY <5>1, <5>4, <5>5
            <4> QED
                BY <2>6, <4>1, <4>2
        <3>7. Cat(Cat(Done, ms), new) = Cat(Done, Cat(ms, new))
            BY <1>t, <2>7, CatAssociative
        <3>8. Done \o (ms \o new) = Session(sent).out
            BY <2>5, <3>3, <3>7 DEF Cat
        <3>9. Spells(Text', ms \o new, server' = "up")
            <4>1. PICK off : /\ Offsets(ms \o new, off) /\ Covered(Text', ms \o new, off)
                             /\ Len(Text') <= off[Len(ms \o new) + 1] /\ Len(Text') = off[Len(ms \o new) + 1]
                BY <3>6 DEF Spells
            <4> QED
                BY <4>1 DEF Spells
        <3>10. Session(sent).out \in Seq(Answers)
            BY SessionType, WayTypes
        <3>11. (Done' \o (ms \o new)) \o <<>> = Session(sent').out /\ <<>> \in Seq(Answers)
            BY <1>1, <1>2, <3>8, <3>10, ConcatEmptySeq
        <3>12. Done' \o (ms \o new) = Session(Answered').out
            BY <1>2, <2>2, <3>8
        <3>13. Way(ms \o new)'
            BY <3>9, <3>11, <3>12 DEF Way
        <3> QED
            BY <3>6, <3>13
    <2> QED
        BY <1>1, <1>2, <2>8 DEF OutInv
<1> QED
    BY <1>3, <1>4, <1>5

\* Writing moves a piece from the server into the pipe.
LEMMA OutWrite ==
    ASSUME TypeInv, OutInv, ServerWrite
    PROVE  OutInv'
<1>1. /\ UNCHANGED <<sent, thread, buffer, queue, batch, delivered, server, part, inPipe, todo>>
      /\ pending # <<>> /\ outPipe' = Append(outPipe, Head(pending)) /\ pending' = Tail(pending)
    BY DEF ServerWrite, client, history, given
<1>2. buffer \in Seq(Pieces(Answers)) /\ outPipe \in Seq(Pieces(Answers)) /\ pending \in Seq(Pieces(Answers))
    BY WayTypes
<1>3. outPipe' \o pending' = outPipe \o pending
    BY <1>1, <1>2, MoveHead
<1>4. Text' = Text /\ Done' = Done /\ InFlight' = InFlight
    BY <1>1, <1>3 DEF Text, Done, Handed, InFlight
<1>5. Answered' = Answered
    BY <1>1, <1>4 DEF Answered
<1> QED
    BY <1>1, <1>4, <1>5, OutSame

\* A crash loses what was not written.
LEMMA OutCrash ==
    ASSUME TypeInv, OutInv, ServerCrash
    PROVE  OutInv'
<1>1. /\ UNCHANGED <<sent, thread, buffer, queue, batch, delivered, outPipe>>
      /\ server' = "dead" /\ pending' = <<>>
    BY DEF ServerCrash, client, history, given
<1>2. buffer \in Seq(Pieces(Answers)) /\ outPipe \in Seq(Pieces(Answers)) /\ pending \in Seq(Pieces(Answers))
    BY WayTypes
<1>3. Done' = Done
    BY <1>1 DEF Done, Handed
<1>4. ASSUME thread # "none" PROVE \E ms \in Seq(Answers) : Way(ms)'
    <2>1. PICK ms \in Seq(Answers) : Way(ms)
        BY <1>4 DEF OutInv
    <2>2. Cat(Cat(buffer, outPipe), pending) = Cat(buffer, Cat(outPipe, pending))
          /\ Cat(buffer, outPipe) \in Seq(Pieces(Answers))
        BY <1>2, CatAssociative, CatType
    <2>3. Text = (buffer \o outPipe) \o pending /\ buffer \o outPipe \in Seq(Pieces(Answers))
        BY <2>2 DEF Text, Cat
    <2>4. Spells((buffer \o outPipe) \o pending, ms, server = "up")
        BY <2>1, <2>3 DEF Way
    <2>5. Spells(buffer \o outPipe, ms, FALSE)
        BY <1>2, <2>3, <2>4, SpellCut
    <2>6. Text' = buffer \o outPipe
        BY <1>1, <1>2, ConcatEmptySeq DEF Text
    <2>7. Spells(Text', ms, server' = "up")
        <3>1. (server' = "up") = FALSE
            BY <1>1
        <3> QED
            BY <2>5, <2>6, <3>1
    <2>8. \E rest \in Seq(Answers) : (Done' \o ms) \o rest = Session(sent').out
        BY <1>1, <1>3, <2>1 DEF Way
    <2> QED
        BY <1>1, <2>7, <2>8 DEF Way
<1> QED
    BY <1>1, <1>3, <1>4 DEF OutInv

\* Handing over moves a message on and loses none.
LEMMA OutHand ==
    ASSUME TypeInv, Poll \/ HandOver
    PROVE  Done' = Done
<1>t. queue \in Seq(Answers) /\ batch \in Seq(Answers) /\ delivered \in Seq(Answers)
    BY WayTypes
<1>1. CASE Poll
    <2>1. /\ delivered' = Append(delivered, Head(queue)) /\ batch' = Tail(queue) /\ queue' = <<>>
          /\ batch = <<>> /\ queue # <<>>
        BY <1>1 DEF Poll
    <2>2. Append(delivered, Head(queue)) \o Tail(queue) = delivered \o queue
        BY <1>t, <2>1, MoveHead
    <2>3. Handed' = delivered \o queue /\ delivered \o queue \in Seq(Answers)
        BY <1>t, <2>1, <2>2, ConcatProperties DEF Handed
    <2>4. Handed = delivered
        BY <1>t, <2>1, ConcatEmptySeq DEF Handed
    <2> DEFINE all == delivered \o queue
    <2>5. all \in Seq(Answers) /\ Handed' = all
        BY <2>3
    <2>6. Done = all
        BY <2>4 DEF Done
    <2> HIDE DEF all
    <2>7. all \o <<>> = all
        BY <2>5, ConcatEmptySeq
    <2> QED
        BY <2>1, <2>5, <2>6, <2>7 DEF Done
<1>2. CASE HandOver
    <2>1. delivered' = Append(delivered, Head(batch)) /\ batch' = Tail(batch) /\ batch # <<>>
          /\ queue' = queue
        BY <1>2 DEF HandOver, client
    <2>2. Append(delivered, Head(batch)) \o Tail(batch) = delivered \o batch
        BY <1>t, <2>1, MoveHead
    <2>3. Handed' = Handed
        BY <2>1, <2>2 DEF Handed
    <2> QED
        BY <2>1, <2>3 DEF Done
<1> QED
    BY <1>1, <1>2

LEMMA OutStep ==
    ASSUME TypeInv, ThreadInv, BatchInv, InInv, OutInv, [Next]_vars
    PROVE  OutInv'
<1>1. CASE Start
    BY <1>1, OutStart
<1>2. ASSUME NEW m \in Message, Send(m) PROVE OutInv'
    BY <1>2, OutSend
<1>3. CASE Join
    BY <1>3, OutJoin
<1>4. CASE ReaderRead
    BY <1>4, OutRead
<1>5. CASE ReaderParse
    BY <1>5, OutParse
<1>6. CASE ServerRead
    BY <1>6, OutServe
<1>7. CASE ServerWrite
    BY <1>7, OutWrite
<1>8. CASE ServerCrash
    BY <1>8, OutCrash
<1>9. CASE StartFails \/ StopNothing \/ Stop \/ Flush \/ ReaderTop \/ UNCHANGED vars
    <2>1. /\ UNCHANGED <<sent, buffer, queue, batch, delivered, outPipe, pending, server, part, inPipe, todo>>
          /\ thread # "none" => thread' # "none"
          /\ thread = "none" => thread' = "none"
        BY <1>9 DEF StartFails, StopNothing, Stop, Flush, ReaderTop, vars, client, process, history, given
    <2>2. Text' = Text /\ Done' = Done /\ InFlight' = InFlight
        BY <2>1 DEF Text, Done, Handed, InFlight
    <2>3. Answered' = Answered
        BY <2>1, <2>2 DEF Answered
    <2> QED
        BY <2>1, <2>2, <2>3, OutSame
<1>10. CASE Poll \/ HandOver
    <2>1. UNCHANGED <<sent, buffer, outPipe, pending, server, part, inPipe, todo, thread>>
        BY <1>10 DEF Poll, HandOver, client, process
    <2>2. Text' = Text /\ InFlight' = InFlight
        BY <2>1 DEF Text, InFlight
    <2>3. Done' = Done
        BY <1>10, OutHand
    <2>4. Answered' = Answered
        BY <2>1, <2>2 DEF Answered
    <2>5. CASE Poll
        <3>1. thread # "none"
            BY <2>5 DEF OutInv, Poll
        <3> QED
            BY <2>1, <2>2, <2>3, <2>4, <3>1, OutSame
    <2>6. CASE HandOver
        <3>1. queue' = queue
            BY <2>6 DEF HandOver, client
        <3> QED
            BY <2>1, <2>2, <2>3, <2>4, <3>1, OutSame
    <2> QED
        BY <1>10, <2>5, <2>6
<1>11. CASE Write
    <2>1. UNCHANGED <<sent, buffer, queue, batch, delivered, outPipe, pending, server, thread>>
        BY <1>11 DEF Write, client, process, history, given
    <2>2. Text' = Text /\ Done' = Done
        BY <2>1 DEF Text, Done, Handed
    <2>3. CASE Alive
        <3>1. InFlight' = InFlight
            BY <1>11, <2>3, WriteStep
        <3>2. Answered' = Answered
            BY <2>1, <3>1 DEF Answered
        <3> QED
            BY <2>1, <2>2, <3>2, OutSame
    <2>4. CASE ~Alive
        <3>1. server' # "up"
            BY <2>1, <2>4 DEF Alive
        <3> QED
            BY <2>1, <2>2, <3>1, OutSame
    <2> QED
        BY <2>3, <2>4
<1>12. CASE ServerEnds
    <2>1. UNCHANGED <<sent, buffer, queue, batch, delivered, outPipe, pending, thread>> /\ server' = "dead"
        BY <1>12 DEF ServerEnds, client, history, given
    <2>2. Text' = Text /\ Done' = Done
        BY <2>1 DEF Text, Done, Handed
    <2> QED
        BY <2>1, <2>2, OutSame
<1> QED
    BY <1>1, <1>2, <1>3, <1>4, <1>5, <1>6, <1>7, <1>8, <1>9, <1>10, <1>11, <1>12
       DEF Next, UiRun, Call, Reader, Server

LEMMA PrefixOfConcat ==
    ASSUME NEW S, NEW a \in Seq(S), NEW b \in Seq(S)
    PROVE  IsPrefix(a, a \o b)
<1> DEFINE c == a \o b
<1>1. /\ Len(a) \in Nat /\ Len(b) \in Nat /\ c \in Seq(S) /\ Len(c) = Len(a) + Len(b)
      /\ \A i \in 1 .. Len(a) + Len(b) : c[i] = IF i <= Len(a) THEN a[i] ELSE b[i - Len(a)]
    BY ConcatProperties
<1> HIDE DEF c
<1>2. Len(a) <= Len(c) /\ Len(a) \in 0 .. Len(c) /\ Len(a) \in 0 .. Len(a) /\ 1 \in Nat \ {0}
    BY <1>1
<1>3. SubSeq(a, 1, Len(a)) = a
    BY SubSeqFull
<1> DEFINE cut == SubSeq(c, 1, Len(a))
<1>4. /\ cut \in Seq(S) /\ Len(cut) = IF 1 <= Len(a) THEN Len(a) - 1 + 1 ELSE 0
      /\ \A k \in 1 .. Len(a) - 1 + 1 : cut[k] = c[1 + k - 1]
    BY <1>1, <1>2, SliceType
<1> HIDE DEF cut
<1>5. Len(cut) = Len(a)
    BY <1>1, <1>4
<1>6. ASSUME NEW k \in 1 .. Len(cut) PROVE cut[k] = a[k]
    <2>1. k \in 1 .. Len(a) - 1 + 1 /\ 1 + k - 1 = k /\ k \in 1 .. Len(a) + Len(b) /\ k <= Len(a)
        BY <1>1, <1>5
    <2> QED
        BY <1>1, <1>4, <2>1
<1>7. cut = a
    BY <1>4, <1>5, <1>6, SeqEqual
<1> QED
    BY <1>2, <1>3, <1>7 DEF IsPrefix, cut, c

\* Lua is handed a beginning of the answers to what was sent, whole, in order and
\* once each, whatever the size of the pipes, wherever the reads cut the text and
\* wherever the server ends (readLoop, pollMessages, run).
THEOREM AnswersInOrder == Spec => []InOrder
<1>1. TypeInv /\ OutInv => InOrder
    <2> SUFFICES ASSUME TypeInv, OutInv PROVE InOrder
        OBVIOUS
    <2>1. PICK rest \in Seq(Answers) : Done \o rest = Session(sent).out
        BY DEF OutInv
    <2>2. Done \in Seq(Answers)
        BY WayTypes
    <2>3. IsPrefix(Done, Done \o rest)
        BY <2>2, PrefixOfConcat
    <2> QED
        BY <2>1, <2>3 DEF InOrder, Expected, Done, Handed
<1> QED
    BY <1>1, OutInit, OutStep, InAlways, ThreadAlways, BatchAlways, TypeInvAlways, PTL DEF Spec
=============================================================================
