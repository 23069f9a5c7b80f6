-------------------------- MODULE AgentServerProofs --------------------------
(***************************************************************************)
(* Proofs about AgentServer for any clients, plans, list sizes and bounds: *)
(* client-requested saves exclude the worker, approvals are never lost or  *)
(* spent twice, and the review list is the newest part of what was         *)
(* published.                                                              *)
(***************************************************************************)
EXTENDS AgentServer, SequenceTheorems, TLAPS

\* A command is either on its way or being handled, never both: otherwise a
\* second save could outlast the call the first one belongs to.
SaveInv == SaveExclusive /\ ~(message /\ ui \in {"saving", "asking"})

\* What a call may be doing once the worker has started it.
LEMMA RunSteps ==
    ASSUME Run
    PROVE  /\ pc = "run" /\ UNCHANGED <<cur, backlog, stop, waiting, ui, panel, counters>>
           /\ \/ Publish /\ pc' = "reply" /\ UNCHANGED message
              \/ ApplyPlan /\ pc' = "reply" /\ UNCHANGED message
              \/ Unpublished /\ pc' \in {"provider", "reply"} /\ UNCHANGED message
              \/ Unpublished /\ pc' = "saving" /\ message' = TRUE /\ cur.kind = "save_map"
  BY DEF Run, Generate, SaveMap

LEMMA SaveInit == Init => SaveInv
  BY DEF Init, SaveInv, SaveExclusive

LEMMA SaveNext == SaveInv /\ [Next]_vars => SaveInv'
<1> SUFFICES ASSUME SaveInv, [Next]_vars PROVE SaveInv'
  OBVIOUS
<1> USE DEF SaveInv, SaveExclusive
<1>1. CASE Accept \/ ReadWhole \/ ReadTimeout
  BY <1>1 DEF Accept, ReadWhole, ReadTimeout
<1>2. CASE Stop
  BY <1>2 DEF Stop
<1>3. CASE Run
  <2>1. /\ pc = "run" /\ cur' = cur /\ ui' = ui
        /\ message' = message \/ (message' = TRUE /\ pc' = "saving" /\ cur.kind = "save_map")
    BY <1>3, RunSteps
  <2>2. ~message /\ ui \notin {"saving", "asking"}
    BY <2>1
  <2> QED
    BY <2>1, <2>2
<1>13. CASE ProviderEnds
  BY <1>13 DEF ProviderEnds
<1>14. CASE SaveAsks \/ UserAnswers
  <2>1. CASE SaveAsks
    BY <2>1 DEF SaveAsks, worker
  <2>2. CASE UserAnswers
    BY <2>2 DEF UserAnswers
  <2> QED
    BY <1>14, <2>1, <2>2
<1>4. CASE Reply
  BY <1>4 DEF Reply
<1>5. CASE \E a \in Client, kind \in Kind, plan \in Plan, text \in Part :
             ClientCall(a, kind, plan, text)
  BY <1>5 DEF ClientCall, Connect
<1>6. CASE \E a \in Client : Arrive(a)
  BY <1>6 DEF Arrive
<1>7. CASE \E a \in Client : GiveUp(a)
  BY <1>7 DEF GiveUp, worker
<1>8. CASE HandleMessage \/ Undelivered \/ Saved
  <2>1. CASE HandleMessage
    BY <2>1 DEF HandleMessage, worker
  <2>2. CASE Undelivered
    BY <2>2 DEF Undelivered
  <2>3. CASE Saved
    BY <2>3 DEF Saved
  <2> QED
    BY <1>8, <2>1, <2>2, <2>3
<1>9. CASE UiGiveUp \/ Approve \/ SaveByHand \/ Exit
  <2>1. \/ UNCHANGED <<pc, cur, message>> /\ ui' \notin {"saving", "asking"}
        \/ UNCHANGED <<pc, cur, message, ui>>
    <3>1. CASE UiGiveUp
      BY <3>1 DEF UiGiveUp, worker
    <3>2. CASE Approve
      BY <3>2 DEF Approve, worker
    <3>3. CASE SaveByHand
      BY <3>3 DEF SaveByHand, worker
    <3>4. CASE Exit
      BY <3>4 DEF Exit, worker
    <3> QED
      BY <1>9, <3>1, <3>2, <3>3, <3>4
  <2> QED
    BY <2>1
<1>10. CASE Refresh
  BY <1>10 DEF Refresh, Input, UiCall, Connect
<1>11. CASE \E plan \in Plan : ClickGenerate(plan)
  BY <1>11 DEF ClickGenerate, Input, UiCall, Connect
<1>12. CASE UNCHANGED vars
  BY <1>12 DEF vars, worker
<1> QED
  BY <1>1, <1>2, <1>3, <1>4, <1>5, <1>6, <1>7, <1>8, <1>9, <1>10, <1>11, <1>12, <1>13, <1>14
     DEF Next, Serve, Outside, UiLoop, User

\* A save that the worker commanded never runs beside it (editor.save_map).
THEOREM SaveExcludesWorker == Spec => []SaveExclusive
<1>1. SaveInv => SaveExclusive
  BY DEF SaveInv
<1> QED
  BY <1>1, SaveInit, SaveNext, PTL DEF Spec

-----------------------------------------------------------------------------
(***************************************************************************)
(* Types                                                                   *)
(***************************************************************************)

LEMMA TypeInit == Init => TypeOK
<1> SUFFICES ASSUME Init PROVE TypeOK
  OBVIOUS
<1>1. waiting \in [Actor -> Nat] /\ waiting[Ui] = 0
  BY DEF Init, Actor
<1>2. \A S : <<>> \in Seq(S)
  OBVIOUS
<1>3. calls \in 0 .. MaxCalls /\ grants \in 0 .. MaxGrants /\ saves \in 0 .. MaxSaves
  BY ServerAssumption DEF ServerAssumption, Init
<1> QED
  BY <1>1, <1>2, <1>3 DEF Init, TypeOK

\* What a new connection does to the types.
LEMMA TypeConnect ==
    ASSUME TypeOK, NEW a \in Actor, NEW kind \in Kind, NEW plan \in Plan, NEW text \in Part,
           Connect(a, kind, plan, text)
    PROVE  /\ calls' \in 0 .. MaxCalls /\ calls' # 0
           /\ backlog' \in Seq(Connection)
           /\ waiting' \in [Actor -> Nat] /\ waiting'[a] = calls'
           /\ \A b \in Actor : b # a => waiting'[b] = waiting[b]
<1> DEFINE conn == [id |-> calls + 1, from |-> a, kind |-> kind, plan |-> plan, text |-> text]
<1>1. calls \in Nat /\ calls + 1 \in 1 .. MaxCalls /\ calls' = calls + 1
  BY ServerAssumption DEF ServerAssumption, TypeOK, Connect
<1>2. conn \in Connection
  BY <1>1 DEF Connection
<1>3. backlog' = Append(backlog, conn)
  BY DEF Connect
<1>4. backlog' \in Seq(Connection)
  BY <1>2, <1>3 DEF TypeOK
<1>5. waiting' = [waiting EXCEPT ![a] = calls + 1]
  BY DEF Connect
<1> QED
  BY <1>1, <1>4, <1>5 DEF TypeOK

\* The actions that leave the connections and the UI thread's wait alone.
LEMMA TypeNext == TypeOK /\ SaveInv /\ [Next]_vars => TypeOK'
<1> SUFFICES ASSUME TypeOK, SaveInv, [Next]_vars PROVE TypeOK'
  OBVIOUS
<1> USE ServerAssumption DEF ServerAssumption
<1>1. CASE Accept
  <2>1. Head(backlog) \in Connection /\ Tail(backlog) \in Seq(Connection)
    BY <1>1 DEF Accept, TypeOK
  <2> QED
    BY <1>1, <2>1 DEF Accept, TypeOK, channels, panel, counters
<1>2. CASE Stop
  <2>1. waiting' \in [Actor -> Nat] /\ waiting'[Ui] = 0
    BY <1>2 DEF Stop, Actor
  <2>2. backlog' \in Seq(Connection)
    BY <1>2 DEF Stop
  <2> QED
    BY <1>2, <2>1, <2>2 DEF Stop, TypeOK, panel, counters
<1>3. CASE ReadWhole \/ ReadTimeout
  BY <1>3 DEF ReadWhole, ReadTimeout, TypeOK, channels, panel, counters
<1>4. CASE Run \/ ProviderEnds
  <2>1. cur \in Connection
    BY <1>4 DEF Run, ProviderEnds, TypeOK
  <2>2. cur.plan \in Plan
    BY <2>1 DEF Connection
  <2>3. Publish \/ ApplyPlan \/ Unpublished
    BY <1>4, RunSteps DEF ProviderEnds
  <2>4. /\ reviews' \in Seq(Plan) /\ published' \in Seq(Plan)
        /\ approvals' \in Nat /\ attempts' \in Seq(BOOLEAN)
    <3>1. CASE Publish
      BY <3>1, <2>2 DEF Publish, TypeOK
    <3>2. CASE ApplyPlan /\ ~Unpublished
      <4>1. PICK done \in BOOLEAN : attempts' = Append(attempts, done)
        BY <3>2 DEF ApplyPlan, Attempted
      <4>2. approvals > 0 /\ approvals' = approvals - 1 /\ UNCHANGED <<reviews, published>>
        BY <3>2 DEF ApplyPlan
      <4>3. approvals' \in Nat
        BY <4>2 DEF TypeOK
      <4>4. attempts' \in Seq(BOOLEAN)
        <5>1. attempts \in Seq(BOOLEAN)
          BY DEF TypeOK
        <5> QED
          BY <4>1, <5>1, AppendProperties
      <4> QED
        BY <4>2, <4>3, <4>4 DEF TypeOK
    <3>3. CASE Unpublished
      BY <3>3 DEF Unpublished, TypeOK
    <3> QED
      BY <2>3, <3>1, <3>2, <3>3
  <2>5. /\ pc \in {"run", "provider"} /\ pc' \in {"provider", "saving", "reply"}
        /\ message' \in BOOLEAN
        /\ UNCHANGED <<cur, backlog, stop, waiting, ui, panel, counters>>
    BY <1>4, RunSteps DEF ProviderEnds, TypeOK
  <2> QED
    BY <2>1, <2>4, <2>5 DEF TypeOK, panel, counters
<1>5. CASE Reply
  <2>1. waiting' \in [Actor -> Nat]
    BY <1>5 DEF Reply, Closed, TypeOK
  <2>2. cur \in Connection /\ cur.from \in Actor /\ cur.id # 0
    BY <1>5 DEF Reply, TypeOK, Connection
  <2>3. ui' = "waiting" <=> waiting'[Ui] # 0
    BY <1>5, <2>2 DEF Reply, Closed, TypeOK, Actor
  <2> QED
    BY <1>5, <2>1, <2>3 DEF Reply, TypeOK, channels, panel, counters
<1>6. ASSUME NEW a \in Client, NEW kind \in Kind, NEW plan \in Plan, NEW text \in Part,
             ClientCall(a, kind, plan, text)
      PROVE  TypeOK'
  <2>1. Connect(a, kind, plan, text) /\ a \in Actor /\ a # Ui /\ Ui \in Actor
    BY <1>6 DEF ClientCall, Actor
  <2>2. /\ calls' \in 0 .. MaxCalls /\ backlog' \in Seq(Connection)
        /\ waiting' \in [Actor -> Nat] /\ waiting'[Ui] = waiting[Ui]
    BY <2>1, TypeConnect
  <2> QED
    BY <1>6, <2>2 DEF ClientCall, TypeOK, channels, panel
<1>7. ASSUME NEW a \in Client, Arrive(a) PROVE TypeOK'
  <2>1. cur' \in Connection \cup {Nil} /\ (cur' = Nil <=> cur = Nil)
    BY <1>7 DEF Arrive, TypeOK, Connection, Part
  <2>2. backlog' \in Seq(Connection)
    <3>1. CASE UNCHANGED backlog
      BY <3>1 DEF TypeOK
    <3>2. ASSUME NEW i \in DOMAIN backlog,
                 backlog' = [backlog EXCEPT ![i].text = "whole"]
          PROVE  backlog' \in Seq(Connection)
      <4>1. backlog[i] \in Connection
        BY <3>2 DEF TypeOK
      <4>2. [backlog[i] EXCEPT !.text = "whole"] \in Connection
        BY <4>1 DEF Connection, Part
      <4> QED
        BY <3>2, <4>2 DEF TypeOK
    <3> QED
      BY <1>7, <3>1, <3>2 DEF Arrive
  <2> QED
    BY <1>7, <2>1, <2>2 DEF Arrive, TypeOK, channels, panel, counters
<1>8. ASSUME NEW a \in Client, GiveUp(a) PROVE TypeOK'
  <2>1. waiting' \in [Actor -> Nat] /\ waiting'[Ui] = waiting[Ui]
    BY <1>8 DEF GiveUp, TypeOK, Actor
  <2> QED
    BY <1>8, <2>1 DEF GiveUp, TypeOK, worker, channels, panel, counters
<1>9. ASSUME NEW plan \in Plan, ClickGenerate(plan) PROVE TypeOK'
  <2>1. Connect(Ui, "generate_plan", plan, "whole") /\ ui' = "waiting"
    BY <1>9 DEF ClickGenerate, UiCall
  <2>2. /\ calls' \in 0 .. MaxCalls /\ backlog' \in Seq(Connection)
        /\ waiting' \in [Actor -> Nat] /\ waiting'[Ui] # 0
    BY <2>1, TypeConnect DEF Actor, Kind, Part
  <2> QED
    BY <1>9, <2>1, <2>2 DEF ClickGenerate, TypeOK, channels, panel
<1>10. CASE Refresh
  <2>1. Drained \in Seq(Plan)
    BY DEF TypeOK, Drained, Newest
  <2>2. CASE Drained = <<>>
    BY <1>10, <2>1, <2>2 DEF Refresh, TypeOK, Input
  <2>3. CASE Drained # <<>>
    <3>1. shown' \in Plan
      BY <1>10, <2>1, <2>3 DEF Refresh
    <3>2. Connect(Ui, "status", shown', "whole") /\ ui' = "waiting"
      BY <1>10, <2>3 DEF Refresh, UiCall
    <3>3. /\ calls' \in 0 .. MaxCalls /\ backlog' \in Seq(Connection)
          /\ waiting' \in [Actor -> Nat] /\ waiting'[Ui] # 0
      BY <3>1, <3>2, TypeConnect DEF Actor, Kind, Part
    <3> QED
      BY <1>10, <2>1, <3>1, <3>2, <3>3 DEF Refresh, TypeOK
  <2> QED
    BY <2>2, <2>3
<1>11. CASE UiGiveUp
  BY <1>11 DEF UiGiveUp, TypeOK, Actor, worker, channels, panel, counters
<1>12. CASE Approve
  BY <1>12 DEF Approve, Input, TypeOK, worker, panel
<1>13. CASE SaveByHand \/ Exit
  <2>1. CASE SaveByHand
    BY <2>1 DEF SaveByHand, Input, TypeOK, worker, channels, panel
  <2>2. CASE Exit
    BY <2>2 DEF Exit, Input, TypeOK, worker, panel, counters
  <2> QED
    BY <1>13, <2>1, <2>2
<1>14. CASE HandleMessage \/ Undelivered \/ Saved
  <2>1. CASE HandleMessage
    BY <2>1 DEF HandleMessage, TypeOK, worker, channels, panel, counters
  <2>2. CASE Undelivered
    BY <2>2 DEF Undelivered, SaveInv, SaveExclusive, TypeOK, channels, panel, counters
  <2>3. CASE Saved
    BY <2>3 DEF Saved, SaveInv, SaveExclusive, TypeOK, channels, panel, counters
  <2> QED
    BY <1>14, <2>1, <2>2, <2>3
<1>15. CASE UNCHANGED vars
  BY <1>15 DEF vars, worker, channels, panel, counters, TypeOK
<1>16. CASE SaveAsks \/ UserAnswers
  <2>1. CASE SaveAsks
    BY <2>1 DEF SaveAsks, TypeOK, worker, channels, panel, counters
  <2>2. CASE UserAnswers
    BY <2>2 DEF UserAnswers, SaveInv, SaveExclusive, TypeOK, channels, panel, counters
  <2> QED
    BY <1>16, <2>1, <2>2
<1> QED
  BY <1>1, <1>2, <1>3, <1>4, <1>5, <1>6, <1>7, <1>8, <1>9, <1>10, <1>11, <1>12, <1>13, <1>14,
     <1>15, <1>16
     DEF Next, Serve, Outside, UiLoop, User

\* Every variable keeps its type, and waits and connections belong together, for
\* any clients and any number of calls (YDAgentServerWorker.lua, 2882-2946).
THEOREM TypeCorrect == Spec => []TypeOK
<1>1. TypeOK /\ SaveInv /\ [Next]_vars => TypeOK' /\ SaveInv'
  BY TypeNext, SaveNext
<1> QED
  BY <1>1, TypeInit, SaveInit, PTL DEF Spec

-----------------------------------------------------------------------------
\* Only Run, ProviderEnds and Approve touch the approvals, only the first two and
\* Refresh the reviews.
LEMMA ApprovalsKept ==
    [Next]_vars => Run \/ ProviderEnds \/ Approve \/ UNCHANGED <<approvals, attempts, grants>>
<1> SUFFICES ASSUME [Next]_vars, ~Run, ~ProviderEnds, ~Approve
             PROVE  UNCHANGED <<approvals, attempts, grants>>
  OBVIOUS
<1>1. CASE Serve
  BY <1>1 DEF Serve, Accept, Stop, ReadWhole, ReadTimeout, Reply, channels, counters
<1>2. CASE Outside
  <2>1. CASE \E a \in Client, kind \in Kind, plan \in Plan, text \in Part :
               ClientCall(a, kind, plan, text)
    BY <2>1 DEF ClientCall, channels
  <2>2. CASE \E a \in Client : Arrive(a) \/ GiveUp(a)
    BY <2>2 DEF Arrive, GiveUp, channels, counters
  <2> QED
    BY <1>2, <2>1, <2>2 DEF Outside
<1>3. CASE UiLoop
  BY <1>3 DEF UiLoop, HandleMessage, Undelivered, Saved, UiGiveUp, channels, counters
<1>4. CASE User
  BY <1>4 DEF User, Refresh, SaveByHand, SaveAsks, UserAnswers, Exit, ClickGenerate, channels,
              counters
<1>5. CASE UNCHANGED vars
  BY <1>5 DEF vars, channels, counters
<1> QED
  BY <1>1, <1>2, <1>3, <1>4, <1>5 DEF Next

LEMMA ReviewsKept ==
    [Next]_vars => Run \/ ProviderEnds \/ Refresh \/ UNCHANGED <<items, reviews, published>>
<1> SUFFICES ASSUME [Next]_vars, ~Run, ~ProviderEnds, ~Refresh
             PROVE  UNCHANGED <<items, reviews, published>>
  OBVIOUS
<1>1. CASE Serve
  BY <1>1 DEF Serve, Accept, Stop, ReadWhole, ReadTimeout, Reply, channels, panel
<1>2. CASE Outside
  <2>1. CASE \E a \in Client, kind \in Kind, plan \in Plan, text \in Part :
               ClientCall(a, kind, plan, text)
    BY <2>1 DEF ClientCall, channels, panel
  <2>2. CASE \E a \in Client : Arrive(a) \/ GiveUp(a)
    BY <2>2 DEF Arrive, GiveUp, channels, panel
  <2> QED
    BY <1>2, <2>1, <2>2 DEF Outside
<1>3. CASE UiLoop
  BY <1>3 DEF UiLoop, HandleMessage, Undelivered, Saved, UiGiveUp, channels, panel
<1>4. CASE User
  BY <1>4 DEF User, Approve, SaveByHand, SaveAsks, UserAnswers, Exit, ClickGenerate, channels, panel
<1>5. CASE UNCHANGED vars
  BY <1>5 DEF vars, channels, panel
<1> QED
  BY <1>1, <1>2, <1>3, <1>4, <1>5 DEF Next

-----------------------------------------------------------------------------
(***************************************************************************)
(* Approvals                                                               *)
(***************************************************************************)

LEMMA SpentNext == TypeOK /\ ApprovalsSpent /\ [Next]_vars => ApprovalsSpent'
<1> SUFFICES ASSUME TypeOK, ApprovalsSpent, [Next]_vars PROVE ApprovalsSpent'
  OBVIOUS
<1>1. CASE Run \/ ProviderEnds
  <2>1. UNCHANGED grants
    BY <1>1, RunSteps DEF ProviderEnds, counters
  <2>2. CASE UNCHANGED <<approvals, attempts>>
    BY <2>1, <2>2 DEF ApprovalsSpent
  <2>3. CASE approvals > 0 /\ approvals' = approvals - 1 /\ Attempted
    <3>1. attempts \in Seq(BOOLEAN) /\ approvals \in Nat
      BY DEF TypeOK
    <3>2. PICK done \in BOOLEAN : attempts' = Append(attempts, done)
      BY <2>3 DEF Attempted
    <3>3. Len(attempts') = Len(attempts) + 1 /\ Len(attempts) \in Nat
      BY <3>1, <3>2, AppendProperties
    <3> QED
      BY <2>1, <2>3, <3>1, <3>3 DEF ApprovalsSpent
  <2> QED
    BY <1>1, <2>2, <2>3, RunSteps DEF ProviderEnds, Publish, ApplyPlan, Unpublished
<1>2. CASE Approve
  <2>1. Len(attempts) \in Nat /\ approvals \in Nat /\ grants \in Nat
    BY ServerAssumption DEF ServerAssumption, TypeOK
  <2>2. UNCHANGED attempts /\ approvals' = approvals + 1 /\ grants' = grants + 1
    BY <1>2 DEF Approve
  <2> QED
    BY <2>1, <2>2 DEF ApprovalsSpent
<1>3. CASE UNCHANGED <<approvals, attempts, grants>>
  BY <1>3 DEF ApprovalsSpent
<1> QED
  BY <1>1, <1>2, <1>3, ApprovalsKept

\* No approval is lost and none spent by two calls, for any number of clients that
\* give up and send their plans again (consume_apply_approval).
THEOREM ApprovalsBalance == Spec => []ApprovalsSpent
<1>1. Init => ApprovalsSpent
  <2>1. Len(<<>>) = 0
    OBVIOUS
  <2> QED
    BY <2>1 DEF Init, ApprovalsSpent
<1> QED
  BY <1>1, TypeCorrect, SpentNext, PTL DEF Spec

-----------------------------------------------------------------------------
(***************************************************************************)
(* The review list                                                         *)
(***************************************************************************)

\* What the last n members of a sequence are.
LEMMA NewestOf ==
    ASSUME NEW S, NEW s \in Seq(S), NEW n \in 0 .. Len(s)
    PROVE  /\ Newest(s, n) \in Seq(S) /\ Len(Newest(s, n)) = n
           /\ \A i \in 1 .. n : Newest(s, n)[i] = s[Len(s) - n + i]
<1> DEFINE m == Len(s) - n + 1
           k == Len(s)
<1>1. m \in Int /\ k \in Int /\ k - m + 1 = n /\ Len(s) \in Nat
  OBVIOUS
<1>2. \A i \in m .. k : s[i] \in S
  OBVIOUS
<1>3. /\ SubSeq(s, m, k) \in Seq(S)
      /\ Len(SubSeq(s, m, k)) = IF m <= k THEN k - m + 1 ELSE 0
      /\ \A i \in 1 .. k - m + 1 : SubSeq(s, m, k)[i] = s[m + i - 1]
  <2> HIDE DEF m, k
  <2> QED
    BY <1>1, <1>2, SubSeqProperties
<1>4. Newest(s, n) = SubSeq(s, m, k)
  BY DEF Newest
<1> QED
  BY SMTT(30), <1>1, <1>3, <1>4

LEMMA NewestAppend ==
    ASSUME NEW S, NEW s \in Seq(S), NEW n \in 0 .. Len(s), NEW x \in S
    PROVE  Newest(Append(s, x), n + 1) = Append(Newest(s, n), x)
<1> DEFINE t == Append(s, x)
           u == Newest(t, n + 1)
           v == Append(Newest(s, n), x)
<1>1. /\ t \in Seq(S) /\ Len(t) = Len(s) + 1 /\ t[Len(s) + 1] = x
      /\ \A i \in 1 .. Len(s) : t[i] = s[i]
  BY AppendProperties
<1>2. n + 1 \in 0 .. Len(t)
  BY <1>1
<1>3. /\ u \in Seq(S) /\ Len(u) = n + 1
      /\ \A i \in 1 .. n + 1 : u[i] = t[Len(s) - n + i]
  <2> HIDE DEF t
  <2>1. /\ u \in Seq(S) /\ Len(u) = n + 1
        /\ \A i \in 1 .. n + 1 : u[i] = t[Len(t) - (n + 1) + i]
    BY <1>1, <1>2, NewestOf
  <2>2. \A i \in 1 .. n + 1 : Len(t) - (n + 1) + i = Len(s) - n + i
    BY <1>1
  <2> QED
    BY <2>1, <2>2
<1>4. /\ v \in Seq(S) /\ Len(v) = n + 1 /\ v[n + 1] = x
      /\ \A i \in 1 .. n : v[i] = s[Len(s) - n + i]
  <2>1. /\ Newest(s, n) \in Seq(S) /\ Len(Newest(s, n)) = n
        /\ \A i \in 1 .. n : Newest(s, n)[i] = s[Len(s) - n + i]
    BY NewestOf
  <2> QED
    BY <2>1, AppendProperties
<1>5. \A i \in 1 .. n + 1 : u[i] = v[i]
  <2> HIDE DEF t, u, v
  <2>1. u[n + 1] = v[n + 1]
    BY <1>1, <1>3, <1>4
  <2>2. ASSUME NEW i \in 1 .. n PROVE u[i] = v[i]
    <3>1. Len(s) - n + i \in 1 .. Len(s) /\ i \in 1 .. n + 1
      OBVIOUS
    <3> QED
      BY <1>1, <1>3, <1>4, <3>1
  <2> QED
    BY <2>1, <2>2
<1> HIDE DEF u, v
<1>6. u = v
  BY <1>3, <1>4, <1>5, SeqEqual
<1> QED
  BY <1>6 DEF u, v

LEMMA NewestNewest ==
    ASSUME NEW S, NEW s \in Seq(S), NEW n \in 0 .. Len(s), NEW k \in 0 .. n
    PROVE  Newest(Newest(s, n), k) = Newest(s, k)
<1> DEFINE t == Newest(s, n)
           u == Newest(t, k)
           v == Newest(s, k)
<1>1. t \in Seq(S) /\ Len(t) = n /\ \A i \in 1 .. n : t[i] = s[Len(s) - n + i]
  BY NewestOf
<1>2. u \in Seq(S) /\ Len(u) = k /\ \A i \in 1 .. k : u[i] = t[n - k + i]
  <2> HIDE DEF t
  <2> QED
    BY ZenonT(30), <1>1, NewestOf
<1>3. v \in Seq(S) /\ Len(v) = k /\ \A i \in 1 .. k : v[i] = s[Len(s) - k + i]
  <2>1. k \in 0 .. Len(s)
    OBVIOUS
  <2> QED
    BY <2>1, NewestOf
<1>4. \A i \in 1 .. k : u[i] = v[i]
  <2> HIDE DEF t, u, v
  <2> SUFFICES ASSUME NEW i \in 1 .. k PROVE u[i] = v[i]
    OBVIOUS
  <2>1. n - k + i \in 1 .. n /\ Len(s) - n + (n - k + i) = Len(s) - k + i
    OBVIOUS
  <2> QED
    BY <1>1, <1>2, <1>3, <2>1
<1> HIDE DEF u, v
<1>5. u = v
  BY <1>2, <1>3, <1>4, SeqEqual
<1> QED
  BY <1>5 DEF u, v

\* A published plan goes to the end of both.
LEMMA OrderPublish ==
    ASSUME TypeOK, ReviewOrder, UNCHANGED items, NEW plan \in Plan,
           reviews' = Append(reviews, plan), published' = Append(published, plan)
    PROVE  ReviewOrder'
<1> DEFINE q == items \o reviews
<1>1. /\ q \in Seq(Plan) /\ Len(q) \in 0 .. Len(published)
      /\ published \in Seq(Plan) /\ q = Newest(published, Len(q))
  BY SMTT(30) DEF TypeOK, ReviewOrder
<1>2. (items \o reviews)' = Append(q, plan)
  BY SMTT(30) DEF TypeOK
<1>3. Len(Append(q, plan)) = Len(q) + 1 /\ Len(published') = Len(published) + 1
  BY <1>1, AppendProperties
<1>4. Append(q, plan) = Newest(published', Len(q) + 1)
  <2> HIDE DEF q
  <2> QED
    BY <1>1, NewestAppend
<1>5. Len(items) < Cap => Append(q, plan) = published'
  BY DEF ReviewOrder
<1>6. Len(items) <= Cap
  BY DEF ReviewOrder
<1> HIDE DEF q
<1>7. Len(Append(q, plan)) <= Len(published')
  BY <1>1, <1>3
<1>8. Append(q, plan) = Newest(published', Len(Append(q, plan)))
  BY <1>3, <1>4
<1> QED
  BY <1>2, <1>5, <1>6, <1>7, <1>8 DEF ReviewOrder, Newest

\* What the panel keeps is the newest of what it had and what it found.
LEMMA OrderRefresh ==
    ASSUME TypeOK, ReviewOrder, Refresh PROVE ReviewOrder'
<1> DEFINE q == items \o reviews
<1>1. /\ q \in Seq(Plan) /\ Len(q) \in 0 .. Len(published)
      /\ published \in Seq(Plan) /\ q = Newest(published, Len(q))
  BY DEF TypeOK, ReviewOrder
<1>2. Len(q) = Len(items) + Len(reviews) /\ Len(items) \in Nat /\ Len(reviews) \in Nat
  BY ConcatProperties DEF TypeOK
<1>3. UNCHANGED published /\ items' = Drained /\ reviews' = <<>>
  BY DEF Refresh
<1>4. Drained \in Seq(Plan) /\ (items \o reviews)' = Drained
  <2>1. Drained \in Seq(Plan)
    BY ServerAssumption DEF ServerAssumption, TypeOK, Drained, Newest
  <2>2. Drained \o <<>> = Drained
    BY <2>1, ConcatEmptySeq
  <2> QED
    BY <1>3, <2>1, <2>2
<1>5. Len(items) < Cap => q = published
  BY DEF ReviewOrder
<1>6. Cap \in Nat
  BY ServerAssumption DEF ServerAssumption
<1>7. CASE Len(q) > Cap
  <2>1. Drained = Newest(q, Cap)
    BY <1>7 DEF Drained
  <2> HIDE DEF q
  <2>2. Len(Drained) = Cap
    BY <1>1, <1>6, <1>7, <2>1, NewestOf
  <2>3. Newest(q, Cap) = Newest(published, Cap)
    BY <1>1, <1>6, <1>7, NewestNewest
  <2>4. Len(Drained) <= Len(published) /\ Drained = Newest(published, Len(Drained))
    BY <1>1, <1>6, <1>7, <2>1, <2>2, <2>3
  <2>5. Len(Drained) <= Cap /\ ~(Len(Drained) < Cap)
    BY <1>6, <2>2
  <2> QED
    BY <1>3, <1>4, <2>2, <2>4, <2>5 DEF ReviewOrder, Newest
<1>8. CASE ~(Len(q) > Cap)
  <2>1. Drained = q
    BY <1>8 DEF Drained
  <2> HIDE DEF q
  <2>2. Len(Drained) <= Cap /\ Len(Drained) <= Len(published)
    BY <1>1, <1>6, <1>8, <2>1
  <2>3. Len(Drained) < Cap => Drained = published
    BY <1>2, <1>5, <1>6, <2>1
  <2>4. Drained = Newest(published, Len(Drained))
    BY <1>1, <2>1
  <2> QED
    BY <1>3, <1>4, <2>2, <2>3, <2>4 DEF ReviewOrder, Newest
<1> QED
  BY <1>7, <1>8

LEMMA OrderNext == TypeOK /\ ReviewOrder /\ [Next]_vars => ReviewOrder'
<1> SUFFICES ASSUME TypeOK, ReviewOrder, [Next]_vars PROVE ReviewOrder'
  OBVIOUS
<1>1. CASE Run \/ ProviderEnds
  <2>1. UNCHANGED items /\ cur.plan \in Plan
    BY <1>1, RunSteps DEF Run, ProviderEnds, panel, TypeOK, Connection
  <2>2. CASE Publish
    BY <2>1, <2>2, OrderPublish DEF Publish
  <2>3. CASE UNCHANGED <<reviews, published>>
    BY <2>1, <2>3 DEF ReviewOrder, Newest
  <2> QED
    BY <1>1, <2>2, <2>3, RunSteps DEF ProviderEnds, ApplyPlan, Unpublished
<1>2. CASE Refresh
  BY <1>2, OrderRefresh
<1>3. CASE UNCHANGED <<items, reviews, published>>
  BY <1>3 DEF ReviewOrder, Newest
<1> QED
  BY <1>1, <1>2, <1>3, ReviewsKept

\* The reviewer sees the newest plans, in their order, and misses none while his
\* list has room, for any size of the list (drain_review_queue).
THEOREM ReviewListOrdered == Spec => []ReviewOrder
<1>1. Init => ReviewOrder
  <2> SUFFICES ASSUME Init PROVE ReviewOrder
    OBVIOUS
  <2>1. items \o reviews = <<>> /\ published = <<>> /\ items = <<>>
    BY DEF Init
  <2>2. Len(<<>>) = 0 /\ Newest(<<>>, 0) = <<>>
    BY SubSeqEmpty DEF Newest
  <2> QED
    BY <2>1, <2>2, ServerAssumption DEF ServerAssumption, ReviewOrder
<1> QED
  BY <1>1, TypeCorrect, OrderNext, PTL DEF Spec

=============================================================================
