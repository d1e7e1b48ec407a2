------------------------ MODULE MessageRouterProofs ------------------------
(***************************************************************************)
(* Theorems about MessageRouter, for every choice of its constants.        *)
(***************************************************************************)
EXTENDS MessageRouter, QueueLemmas, FiniteSetTheorems

(***************************************************************************)
(* Type correctness                                                        *)
(***************************************************************************)

\* IdGenerator::GetNextId returns a usable ID, never kReservedId.
LEMMA NextIdType ==
  ASSUME NEW last \in Id \union {ReservedId}
  PROVE  GetNextId(last) \in Id
BY RouterAssumption DEF GetNextId, Id, ReservedId

\* A context has a usable ID once it needs one.
LEMMA ContextIdType ==
  ASSUME TypeOK, NEW c \in Context
  PROVE  ContextId(c) \in Id
<1>1. ctxId[c] \in Id \union {ReservedId}
  BY DEF TypeOK
<1>2. contextIdGen[ProcessOf[c]] \in Id \union {ReservedId}
  BY RouterAssumption DEF TypeOK
<1> QED
  BY <1>1, <1>2, NextIdType DEF ContextId

\* Sending a well-formed message keeps the pipes well formed.
LEMMA SendToBrowserType ==
  ASSUME TypeOK, NEW c \in Context, NEW m \in QueryMsg \union CancelMsg,
         SendToBrowser(c, m)
  PROVE  toBrowser' \in [Context -> Seq(QueryMsg \union CancelMsg)]
<1>1. toBrowser \in [Context -> Seq(QueryMsg \union CancelMsg)]
  BY DEF TypeOK
<1>2. Append(toBrowser[c], m) \in Seq(QueryMsg \union CancelMsg)
  BY <1>1
<1> QED
  BY <1>1, <1>2 DEF SendToBrowser

LEMMA AnswerType ==
  ASSUME TypeOK, NEW q, q.frame \in Context, q.context_id \in Id,
         q.request_id \in Id, q.uid \in Uid, NEW success \in BOOLEAN,
         Answer(q, success)
  PROVE  toRenderer' \in [Context -> Seq(AnswerMsg)]
<1> DEFINE m == [success |-> success, context_id |-> q.context_id,
                 request_id |-> q.request_id, uid |-> q.uid]
<1>1. toRenderer \in [Context -> Seq(AnswerMsg)]
  BY DEF TypeOK
<1>2. m \in AnswerMsg
  BY DEF AnswerMsg
<1>3. Append(toRenderer[q.frame], m) \in Seq(AnswerMsg)
  BY <1>1, <1>2
<1> QED
  BY <1>1, <1>3 DEF Answer

LEMMA StartSweepType ==
  ASSUME NEW s \in Sweep, StartSweep(s)
  PROVE  sweep' \subseteq Sweep
BY DEF StartSweep

LEMMA PendingForType ==
  ASSUME NEW bs \in SUBSET Browser, NEW hs \in SUBSET Handler,
         NEW notify \in BOOLEAN
  PROVE  PendingFor(bs, hs, notify) \in Sweep
BY DEF PendingFor, Sweep

\* CancelQuery touches the map, the callbacks, the pipe and the ghost record.
LEMMA CancelQueryType ==
  ASSUME TypeOK, NEW e \in queries, NEW notify \in BOOLEAN,
         CancelQuery(e, notify)
  PROVE  /\ toRenderer' \in [Context -> Seq(AnswerMsg)]
         /\ queries' \subseteq QueryInfo
         /\ attached' \subseteq Callback
         /\ endings' \in [QueryId -> Seq({"success", "failure", "canceled"})]
<1>1. e \in QueryInfo
  BY DEF TypeOK
<1>2. toRenderer' \in [Context -> Seq(AnswerMsg)]
  <2>1. CASE notify
    BY <1>1, <2>1, AnswerType DEF CancelQuery, QueryInfo
  <2>2. CASE ~notify
    BY <2>2 DEF CancelQuery, TypeOK
  <2> QED
    BY <2>1, <2>2
<1>3. queries' \subseteq QueryInfo /\ attached' \subseteq Callback
  BY DEF CancelQuery, TypeOK
<1>4. endings' \in [QueryId -> Seq({"success", "failure", "canceled"})]
  <2>1. e.query_id \in QueryId
    BY <1>1 DEF QueryInfo
  <2>2. Append(endings[e.query_id], "canceled")
          \in Seq({"success", "failure", "canceled"})
    BY <2>1 DEF TypeOK
  <2> QED
    BY <2>1, <2>2 DEF CancelQuery, TypeOK
<1> QED
  BY <1>2, <1>3, <1>4

LEMMA InitType == Init => TypeOK
<1> SUFFICES ASSUME Init PROVE TypeOK
  OBVIOUS
<1>1. \A S : <<>> \in Seq(S) /\ Len(<<>>) = 0
  BY EmptySeq
<1>2. 0 \in 0..MaxQueries /\ 0 \in 0..MaxCalls
  BY RouterAssumption
<1> QED
  BY <1>1, <1>2, RouterAssumption DEF Init, TypeOK

----------------------------------------------------------------------------
\* One lemma for each process's steps; one step of the proof per action.
LEMMA RendererStepType == TypeOK /\ RendererStep => TypeOK'
<1> SUFFICES ASSUME TypeOK, NEW c \in Context,
                    \/ OnContextCreated(c)
                    \/ \E persistent \in BOOLEAN : SendQuery(c, persistent)
                    \/ \E rid \in Id : SendCancel(c, rid)
                    \/ OnContextReleased(c)
                    \/ ReceiveAnswer(c)
             PROVE  TypeOK'
  BY DEF RendererStep
<1> USE DEF rendererVars, pipeVars, mapVars, envVars, ghostVars
<1>0. ProcessOf[c] \in Process /\ BrowserOf[c] \in Browser
  BY RouterAssumption
<1>id. ContextId(c) \in Id
  BY ContextIdType
<1>ens. ASSUME EnsureContextId(c)
        PROVE  /\ ctxId' \in [Context -> Id \union {ReservedId}]
               /\ contextIdGen' \in [Process -> Id \union {ReservedId}]
  <2>1. GetNextId(contextIdGen[ProcessOf[c]]) \in Id
    BY <1>0, NextIdType DEF TypeOK
  <2> QED
    BY <1>ens, <1>id, <2>1, <1>0 DEF EnsureContextId, TypeOK
<1>1. CASE OnContextCreated(c)
  BY <1>1 DEF OnContextCreated, TypeOK
<1>2. ASSUME NEW persistent \in BOOLEAN, SendQuery(c, persistent)
      PROVE  TypeOK'
  <2> DEFINE p == ProcessOf[c]
             rid == GetNextId(requestIdGen[p])
             info == [process |-> p, browser |-> BrowserOf[c],
                      context_id |-> ContextId(c), request_id |-> rid,
                      persistent |-> persistent, frame |-> c,
                      uid |-> Len(issued) + 1]
             m == [type |-> "query", context_id |-> ContextId(c),
                   request_id |-> rid, persistent |-> persistent,
                   uid |-> Len(issued) + 1]
  <2>1. rid \in Id
    BY <1>0, NextIdType DEF TypeOK
  <2>2. Len(issued) + 1 \in Uid /\ issued' \in Seq(BOOLEAN)
        /\ Len(issued') <= MaxQueries
    BY <1>2, RouterAssumption DEF SendQuery, TypeOK, Uid
  <2>3. info \in RequestInfo /\ m \in QueryMsg
    BY <1>0, <1>id, <2>1, <2>2 DEF RequestInfo, QueryMsg
  <2>4. requests' \subseteq RequestInfo
    BY <1>2, <2>3 DEF SendQuery, AddRequest, TypeOK
  <2>5. SendToBrowser(c, m)
    BY <1>2 DEF SendQuery
  <2>6. toBrowser' \in [Context -> Seq(QueryMsg \union CancelMsg)]
    BY <2>3, <2>5, SendToBrowserType
  <2>7. requestIdGen' \in [Process -> Id \union {ReservedId}]
    BY <1>2, <1>0, <2>1 DEF SendQuery, TypeOK
  <2>8. EnsureContextId(c)
    BY <1>2 DEF SendQuery
  <2> HIDE DEF info, m, rid
  <2> QED
    BY <1>2, <1>ens, <2>2, <2>4, <2>6, <2>7, <2>8 DEF SendQuery, TypeOK
<1>3. ASSUME NEW rid \in Id, SendCancel(c, rid)
      PROVE  TypeOK'
  <2> DEFINE m == [type |-> "cancel", context_id |-> ContextId(c),
                   request_id |-> rid]
  <2>1. m \in CancelMsg
    BY <1>id DEF CancelMsg
  <2>2. SendToBrowser(c, m) \/ UNCHANGED toBrowser
    BY <1>3 DEF SendCancel
  <2>3. toBrowser' \in [Context -> Seq(QueryMsg \union CancelMsg)]
    BY <2>1, <2>2, SendToBrowserType DEF TypeOK
  <2>4. EnsureContextId(c) /\ requests' \subseteq requests
    BY <1>3 DEF SendCancel
  <2> QED
    BY <1>3, <1>ens, <2>3, <2>4 DEF SendCancel, TypeOK
<1>4. CASE OnContextReleased(c)
  <2> DEFINE gone == {r \in requests : /\ r.process = ProcessOf[c]
                                       /\ r.browser = BrowserOf[c]
                                       /\ r.context_id = ctxId[c]}
             m == [type |-> "cancel", context_id |-> ctxId[c],
                   request_id |-> ReservedId]
  <2>1. ASSUME gone # {} PROVE m \in CancelMsg
    BY <2>1 DEF CancelMsg, TypeOK, RequestInfo
  <2>2. IF gone # {} THEN SendToBrowser(c, m) ELSE UNCHANGED toBrowser
    BY <1>4 DEF OnContextReleased
  <2>3. toBrowser' \in [Context -> Seq(QueryMsg \union CancelMsg)]
    BY <2>1, <2>2, SendToBrowserType DEF TypeOK
  <2>4. /\ ctxState' \in [Context -> {"none", "live", "released", "dead"}]
        /\ requests' \subseteq requests /\ leaving' \subseteq leaving
    BY <1>4 DEF OnContextReleased, TypeOK
  <2> QED
    BY <1>4, <2>3, <2>4 DEF OnContextReleased, TypeOK
<1>5. CASE ReceiveAnswer(c)
  <2>1. toRenderer' \in [Context -> Seq(AnswerMsg)]
    BY <1>5, HeadTailProperties DEF ReceiveAnswer, TypeOK
  <2>2. requests' \subseteq requests
    BY <1>5 DEF ReceiveAnswer
  <2>3. callbacks' \in [Uid -> Seq({"success", "failure"})]
    BY <1>5 DEF ReceiveAnswer, TypeOK
  <2> QED
    BY <1>5, <2>1, <2>2, <2>3 DEF ReceiveAnswer, TypeOK
<1> QED
  BY <1>1, <1>2, <1>3, <1>4, <1>5

\* What every received message leaves behind in the pipe.
LEMMA ConsumeType ==
  ASSUME TypeOK, NEW c \in Context, toBrowser[c] # <<>>, Consume(c)
  PROVE  /\ toBrowser' \in [Context -> Seq(QueryMsg \union CancelMsg)]
         /\ Head(toBrowser[c]) \in QueryMsg \union CancelMsg
<1>1. toBrowser[c] \in Seq(QueryMsg \union CancelMsg)
  BY DEF TypeOK
<1>2. /\ Head(toBrowser[c]) \in QueryMsg \union CancelMsg
      /\ Tail(toBrowser[c]) \in Seq(QueryMsg \union CancelMsg)
  BY <1>1, HeadTailProperties
<1> QED
  BY <1>2 DEF Consume, TypeOK

LEMMA ReceiveQueryType ==
  ASSUME TypeOK, NEW c \in Context, ReceiveQuery(c)
  PROVE  TypeOK'
<1> USE DEF rendererVars, envVars, ghostVars
<1> DEFINE m == Head(toBrowser[c])
           q == [frame |-> c, context_id |-> m.context_id,
                 request_id |-> m.request_id, uid |-> m.uid]
           d == [frame |-> c, context_id |-> m.context_id,
                 request_id |-> m.request_id, persistent |-> m.persistent,
                 uid |-> m.uid, query_id |-> queryIdGen + 1,
                 rest |-> handlers]
<1>1. toBrowser[c] # <<>> /\ m.type = "query" /\ Consume(c)
  BY DEF ReceiveQuery, NextMsg
<1>2. m \in QueryMsg
  BY <1>1, ConsumeType DEF CancelMsg
<1>3. toBrowser' \in [Context -> Seq(QueryMsg \union CancelMsg)]
  BY <1>1, ConsumeType
<1> HIDE DEF m
<1>4. CASE handlers = <<>>
  <2>1. Answer(q, FALSE)
    BY <1>4 DEF ReceiveQuery, m
  <2>2. toRenderer' \in [Context -> Seq(AnswerMsg)]
    BY <1>2, <2>1, AnswerType DEF QueryMsg
  <2> QED
    BY <1>3, <1>4, <2>2 DEF ReceiveQuery, TypeOK
<1>5. CASE handlers # <<>>
  <2>1. queryIdGen + 1 \in QueryId /\ queryIdGen' = queryIdGen + 1
        /\ queryIdGen' \in 0..MaxQueries
    BY <1>5, RouterAssumption DEF ReceiveQuery, TypeOK, QueryId
  <2>2. d \in Dispatch
    BY <1>2, <1>5, <2>1 DEF TypeOK, Dispatch, QueryMsg
  <2>3. [query_id |-> queryIdGen + 1, persistent |-> m.persistent] \in Callback
    BY <1>2, <2>1 DEF Callback, QueryMsg
  <2>4. /\ dispatch' = {d}
        /\ attached' = attached \union
             {[query_id |-> queryIdGen + 1, persistent |-> m.persistent]}
        /\ UNCHANGED toRenderer
    BY <1>5 DEF ReceiveQuery, m
  <2>5. dispatch' \subseteq Dispatch /\ attached' \subseteq Callback
    BY <2>2, <2>3, <2>4 DEF TypeOK
  <2> QED
    BY <1>3, <2>1, <2>4, <2>5 DEF ReceiveQuery, TypeOK
<1> QED
  BY <1>4, <1>5

LEMMA ReceiveCancelType ==
  ASSUME TypeOK, NEW c \in Context, ReceiveCancel(c)
  PROVE  TypeOK'
<1> USE DEF rendererVars, envVars, ghostVars, mapVars
<1> DEFINE m == Head(toBrowser[c])
           hit == {e \in queries : /\ e.browser = BrowserOf[c]
                                   /\ e.context_id = m.context_id
                                   /\ e.request_id = m.request_id}
           s == [browsers |-> {BrowserOf[c]}, handlers |-> Handler,
                 context_ids |-> {m.context_id}, notify |-> FALSE]
<1>1. toBrowser[c] # <<>> /\ m.type = "cancel" /\ Consume(c)
  BY DEF ReceiveCancel, NextMsg
<1>2. m \in CancelMsg
  BY <1>1, ConsumeType DEF QueryMsg
<1>3. toBrowser' \in [Context -> Seq(QueryMsg \union CancelMsg)]
  BY <1>1, ConsumeType
<1>4. CASE m.request_id = ReservedId
  <2>1. s \in Sweep
    <3>1. m.context_id \in Id /\ BrowserOf[c] \in Browser
      BY <1>2, RouterAssumption DEF CancelMsg
    <3> HIDE DEF m
    <3> QED
      BY <3>1 DEF Sweep
  <2>2. StartSweep(s) /\ UNCHANGED <<toRenderer, mapVars, endings>>
    BY <1>4 DEF ReceiveCancel
  <2>3. sweep' \subseteq Sweep
    BY <2>1, <2>2, StartSweepType
  <2> HIDE DEF s, m
  <2> QED
    BY <1>3, <2>2, <2>3 DEF ReceiveCancel, TypeOK
<1>5. CASE m.request_id # ReservedId
  <2>1. UNCHANGED sweep
    BY <1>5 DEF ReceiveCancel
  <2>2. \/ UNCHANGED <<toRenderer, mapVars, endings>>
        \/ \E e \in FirstOf(hit) : CancelQuery(e, FALSE)
    BY <1>5 DEF ReceiveCancel
  <2>3. FirstOf(hit) \subseteq queries
    BY DEF FirstOf
  <2>4. /\ toRenderer' \in [Context -> Seq(AnswerMsg)]
        /\ queries' \subseteq QueryInfo
        /\ attached' \subseteq Callback
        /\ endings' \in [QueryId -> Seq({"success", "failure", "canceled"})]
    BY <2>2, <2>3, CancelQueryType DEF TypeOK
  <2> HIDE DEF hit, m
  <2> QED
    BY <1>3, <2>1, <2>4 DEF ReceiveCancel, TypeOK
<1> QED
  BY <1>4, <1>5

\* While more than one element is left, the tail is not empty.
LEMMA TailNotEmpty ==
  ASSUME NEW S, NEW seq \in Seq(S), Len(seq) > 1
  PROVE  Tail(seq) \in Seq(S) \ {<<>>}
<1>1. seq # <<>> /\ Len(seq) \in Nat
  BY EmptySeq, LenProperties
<1>2. Tail(seq) \in Seq(S)
  BY <1>1, HeadTailProperties
<1>3. Tail(seq) = SubSeq(seq, 2, Len(seq))
  BY <1>1, TailIsSubSeq
<1>4. \A i \in 2..Len(seq) : seq[i] \in S
  BY <1>1, ElementOfSeq
<1>5. Len(SubSeq(seq, 2, Len(seq))) = Len(seq) - 1
  <2>1. Len(seq) \in Int /\ 2 \in Int
    BY <1>1
  <2>2. Len(SubSeq(seq, 2, Len(seq))) =
          IF 2 <= Len(seq) THEN Len(seq) - 2 + 1 ELSE 0
    BY <1>4, <2>1, SubSeqProperties
  <2> QED
    BY <1>1, <2>2
<1> DEFINE t == Tail(seq)
           u == SubSeq(seq, 2, Len(seq))
           n == Len(seq)
<1>6. t = u /\ Len(u) = n - 1 /\ n \in Nat /\ n > 1
  BY <1>1, <1>3, <1>5
<1> HIDE DEF t, u, n
<1>7. Len(t) # 0
  BY <1>6
<1>8. t # <<>>
  BY <1>7, EmptySeq
<1> QED
  BY <1>2, <1>8 DEF t

LEMMA DeclineQueryType == TypeOK /\ DeclineQuery => TypeOK'
<1> USE DEF rendererVars, envVars, ghostVars
<1> SUFFICES ASSUME TypeOK, DeclineQuery PROVE TypeOK'
  OBVIOUS
<1>1. PICK d \in dispatch :
        /\ IF Len(d.rest) > 1
             THEN /\ dispatch' = {[d EXCEPT !.rest = Tail(@)]}
                  /\ UNCHANGED <<attached, toRenderer>>
             ELSE /\ dispatch' = {}
                  /\ attached' = {a \in attached : a.query_id # d.query_id}
                  /\ Answer(d, FALSE)
        /\ UNCHANGED <<rendererVars, toBrowser, handlers, queryIdGen, queries,
                       tasks, sweep, envVars, ghostVars>>
  BY DEF DeclineQuery
<1>2. d \in Dispatch
  BY DEF TypeOK
<1>3. CASE Len(d.rest) > 1
  <2>1. d.rest \in Seq(Handler) /\ d.rest # <<>>
    BY <1>2, <1>3 DEF Dispatch
  <2>2. Tail(d.rest) \in Seq(Handler) \ {<<>>}
    BY <1>3, <2>1, TailNotEmpty
  <2>3. [d EXCEPT !.rest = Tail(@)] \in Dispatch
    BY <1>2, <2>2 DEF Dispatch
  <2> QED
    BY <1>1, <1>3, <2>3 DEF TypeOK
<1>4. CASE ~(Len(d.rest) > 1)
  <2>1. Answer(d, FALSE)
    BY <1>1, <1>4
  <2>2. toRenderer' \in [Context -> Seq(AnswerMsg)]
    BY <1>2, <2>1, AnswerType DEF Dispatch
  <2>3. dispatch' = {} /\ attached' \subseteq attached
    BY <1>1, <1>4
  <2> QED
    BY <1>1, <2>2, <2>3 DEF TypeOK
<1> QED
  BY <1>3, <1>4

\* There is always a handler left to ask while a query is being offered.
LEMMA AcceptQueryType == TypeOK /\ AcceptQuery => TypeOK'
<1> USE DEF rendererVars, pipeVars, envVars, ghostVars
<1> SUFFICES ASSUME TypeOK, NEW d \in dispatch, AcceptQuery,
                    dispatch' = {},
                    queries' = queries \union
                      {[browser |-> BrowserOf[d.frame], frame |-> d.frame,
                        context_id |-> d.context_id,
                        request_id |-> d.request_id,
                        persistent |-> d.persistent, query_id |-> d.query_id,
                        handler |-> Head(d.rest), uid |-> d.uid]},
                    accepted' = accepted \union {d.query_id}
             PROVE  TypeOK'
  BY DEF AcceptQuery
<1>1. d \in Dispatch
  BY DEF TypeOK
<1>2. Head(d.rest) \in Handler
  BY <1>1, HeadTailProperties DEF Dispatch
<1>3. BrowserOf[d.frame] \in Browser
  BY <1>1, RouterAssumption DEF Dispatch
<1>4. queries' \subseteq QueryInfo /\ accepted' \subseteq QueryId
  BY <1>1, <1>2, <1>3 DEF TypeOK, QueryInfo, Dispatch
<1> QED
  BY <1>4 DEF AcceptQuery, TypeOK

LEMMA SweepNextType == TypeOK /\ SweepNext => TypeOK'
<1> USE DEF rendererVars, envVars, ghostVars
<1> SUFFICES ASSUME TypeOK, SweepNext PROVE TypeOK'
  OBVIOUS
<1>1. PICK s \in sweep : \E e \in FirstOf({f \in queries : Matches(f, s)}) :
        /\ CancelQuery(e, s.notify)
        /\ sweep' = IF {f \in queries : Matches(f, s)} = {e} THEN {} ELSE {s}
  BY DEF SweepNext
<1>e. PICK e \in FirstOf({f \in queries : Matches(f, s)}) :
        /\ CancelQuery(e, s.notify)
        /\ sweep' = IF {f \in queries : Matches(f, s)} = {e} THEN {} ELSE {s}
  BY <1>1
<1>2. e \in queries /\ s.notify \in BOOLEAN
  BY DEF FirstOf, TypeOK, Sweep
<1>3. /\ toRenderer' \in [Context -> Seq(AnswerMsg)]
      /\ queries' \subseteq QueryInfo
      /\ attached' \subseteq Callback
      /\ endings' \in [QueryId -> Seq({"success", "failure", "canceled"})]
  BY <1>e, <1>2, CancelQueryType
<1>4. sweep' \subseteq sweep
  BY <1>e
<1> QED
  BY <1>3, <1>4 DEF SweepNext, TypeOK

LEMMA RunCallbackTaskType == TypeOK /\ RunCallbackTask => TypeOK'
<1> USE DEF rendererVars, envVars, ghostVars, mapVars
<1> SUFFICES ASSUME TypeOK, RunCallbackTask PROVE TypeOK'
  OBVIOUS
<1> DEFINE t == Head(tasks)
           hit == {a \in attached : a.query_id = t.query_id}
           info == {e \in queries : e.query_id = t.query_id}
           over == {e \in info : RemovesQuery(t.kind, e)}
<1>1. t \in CallTask /\ tasks' \in Seq(CallTask \union CancelTask)
  <2>1. tasks # <<>> /\ t.kind \in {"success", "failure"} /\ tasks' = Tail(tasks)
    BY DEF RunCallbackTask
  <2>2. t \in CallTask \union CancelTask /\ Tail(tasks) \in Seq(CallTask \union CancelTask)
    BY <2>1, HeadTailProperties DEF TypeOK
  <2> QED
    BY <2>1, <2>2 DEF CancelTask
<1>2. CASE hit = {}
  <2>1. UNCHANGED <<toRenderer, mapVars, endings>>
    BY <1>2 DEF RunCallbackTask
  <2> HIDE DEF t
  <2> QED
    BY <1>1, <2>1 DEF RunCallbackTask, TypeOK
<1>3. CASE hit # {}
  <2>1. /\ \/ UNCHANGED toRenderer
           \/ \E e \in info : Answer(e, t.kind = "success")
        /\ queries' = queries \ over
        /\ attached' \subseteq attached
        /\ endings' = IF over # {}
                        THEN [endings EXCEPT ![t.query_id] = Append(@, t.kind)]
                        ELSE endings
    BY <1>3 DEF RunCallbackTask, RemovesQuery
  <2>2. ASSUME NEW e \in info, Answer(e, t.kind = "success")
        PROVE  toRenderer' \in [Context -> Seq(AnswerMsg)]
    <3>1. e \in QueryInfo /\ (t.kind = "success") \in BOOLEAN
      BY DEF TypeOK
    <3> QED
      BY <2>2, <3>1, AnswerType DEF QueryInfo
  <2>3. toRenderer' \in [Context -> Seq(AnswerMsg)]
    BY <2>1, <2>2 DEF TypeOK
  <2>4. endings' \in [QueryId -> Seq({"success", "failure", "canceled"})]
    <3>1. t.query_id \in QueryId
          /\ t.kind \in {"success", "failure", "canceled"}
      BY <1>1 DEF CallTask
    <3> HIDE DEF t, over
    <3>2. Append(endings[t.query_id], t.kind)
            \in Seq({"success", "failure", "canceled"})
      BY <3>1 DEF TypeOK
    <3> QED
      BY <2>1, <3>1, <3>2 DEF TypeOK
  <2> HIDE DEF t, over
  <2> QED
    BY <1>1, <2>1, <2>3, <2>4 DEF RunCallbackTask, TypeOK
<1> QED
  BY <1>2, <1>3

\* A posted cancellation carries a well-formed selection.
LEMMA RunCancelTaskType == TypeOK /\ RunCancelTask => TypeOK'
<1> USE DEF rendererVars, pipeVars, envVars, ghostVars, mapVars
<1> SUFFICES ASSUME TypeOK, RunCancelTask PROVE TypeOK'
  OBVIOUS
<1>1. /\ tasks # <<>> /\ Head(tasks).kind = "cancel" /\ tasks' = Tail(tasks)
      /\ StartSweep(Head(tasks).which)
  BY DEF RunCancelTask
<1>2. /\ Head(tasks) \in CallTask \union CancelTask
      /\ Tail(tasks) \in Seq(CallTask \union CancelTask)
  BY <1>1, HeadTailProperties DEF TypeOK
<1>3. Head(tasks).which \in Sweep
  BY <1>1, <1>2 DEF CallTask, CancelTask
<1>4. sweep' \subseteq Sweep
  BY <1>1, <1>3, StartSweepType
<1> QED
  BY <1>1, <1>2, <1>4 DEF RunCancelTask, TypeOK

\* The calls that come from CEF, all of which end in CancelPendingFor.
LEMMA BrowserEventType ==
  ASSUME TypeOK, NEW b \in Browser,
         OnBeforeBrowse(b) \/ OnBeforeClose(b) \/ OnRenderProcessTerminated(b)
  PROVE  TypeOK'
<1> USE DEF rendererVars, pipeVars, envVars, ghostVars, mapVars
<1>1. StartSweep(PendingFor({b}, Handler, FALSE))
  BY DEF OnBeforeBrowse, OnBeforeClose, OnRenderProcessTerminated
<1>2. sweep' \subseteq Sweep
  BY <1>1, PendingForType, StartSweepType
<1>3. ASSUME NEW cs, DropPipes(cs)
      PROVE  /\ toBrowser' \in [Context -> Seq(QueryMsg \union CancelMsg)]
             /\ toRenderer' \in [Context -> Seq(AnswerMsg)]
  BY <1>3, EmptySeq DEF DropPipes, TypeOK
<1>4. CASE OnBeforeBrowse(b)
  BY <1>2, <1>4 DEF OnBeforeBrowse, ContextsOf, TypeOK
<1>5. CASE OnBeforeClose(b)
  BY <1>2, <1>3, <1>5 DEF OnBeforeClose, TypeOK
<1>6. CASE OnRenderProcessTerminated(b)
  BY <1>2, <1>3, <1>6 DEF OnRenderProcessTerminated, TypeOK
<1> QED
  BY <1>4, <1>5, <1>6

LEMMA BrowserStepType == TypeOK /\ BrowserStep => TypeOK'
BY ReceiveQueryType, ReceiveCancelType, DeclineQueryType, AcceptQueryType,
   SweepNextType, RunCallbackTaskType, RunCancelTaskType, BrowserEventType
   DEF BrowserStep

LEMMA ApplicationStepType == TypeOK /\ ApplicationStep => TypeOK'
<1> USE DEF rendererVars, pipeVars, envVars, ghostVars, mapVars
<1>1. ASSUME TypeOK, NEW q \in QueryId, NEW kind \in {"success", "failure"},
             ExecuteCallback(q, kind)
      PROVE  TypeOK'
  <2>1. [kind |-> kind, query_id |-> q] \in CallTask
    BY DEF CallTask
  <2>2. tasks' \in Seq(CallTask \union CancelTask)
    BY <1>1, <2>1 DEF ExecuteCallback, TypeOK
  <2>3. calls' \in [QueryId -> 0..MaxCalls]
    BY <1>1, RouterAssumption DEF ExecuteCallback, TypeOK
  <2> QED
    BY <1>1, <2>2, <2>3 DEF ExecuteCallback, TypeOK
<1>2. ASSUME TypeOK, NEW bs \in OneOrAll(Browser), NEW hs \in OneOrAll(Handler),
             CancelPending(bs, hs) \/ PostCancelPending(bs, hs)
      PROVE  TypeOK'
  <2>1. bs \in SUBSET Browser /\ hs \in SUBSET Handler
    BY DEF OneOrAll
  <2>2. PendingFor(bs, hs, TRUE) \in Sweep
    BY <2>1, PendingForType
  <2>3. CASE CancelPending(bs, hs)
    BY <1>2, <2>2, <2>3, StartSweepType DEF CancelPending, TypeOK
  <2>4. CASE PostCancelPending(bs, hs)
    <3>1. [kind |-> "cancel", which |-> PendingFor(bs, hs, TRUE)] \in CancelTask
      BY <2>2 DEF CancelTask
    <3>2. tasks' \in Seq(CallTask \union CancelTask)
      BY <1>2, <2>4, <3>1 DEF PostCancelPending, TypeOK
    <3> QED
      BY <1>2, <2>4, <3>2 DEF PostCancelPending, TypeOK
  <2> QED
    BY <1>2, <2>3, <2>4
<1>3. ASSUME TypeOK, NEW h \in Handler, NEW first \in BOOLEAN,
             AddHandler(h, first)
      PROVE  TypeOK'
  <2>1. handlers' \in Seq(Handler)
    BY <1>3, ConcatProperties DEF AddHandler, TypeOK
  <2> QED
    BY <1>3, <2>1 DEF AddHandler, TypeOK
<1>4. ASSUME TypeOK, NEW h \in Handler, RemoveHandler(h)
      PROVE  TypeOK'
  <2>1. PICK i \in DOMAIN handlers : handlers' = RemoveAt(handlers, i)
    BY <1>4 DEF RemoveHandler
  <2>2. /\ SubSeq(handlers, 1, i - 1) \in Seq(Handler)
        /\ SubSeq(handlers, i + 1, Len(handlers)) \in Seq(Handler)
    <3>1. handlers \in Seq(Handler) /\ i \in 1..Len(handlers)
          /\ Len(handlers) \in Nat
      BY <1>4, LenProperties DEF TypeOK
    <3>2. \A j \in 1..(i - 1) : handlers[j] \in Handler
      BY <3>1, ElementOfSeq
    <3>3. \A j \in (i + 1)..Len(handlers) : handlers[j] \in Handler
      BY <3>1, ElementOfSeq
    <3>4. SubSeq(handlers, 1, i - 1) \in Seq(Handler)
      BY <3>1, <3>2, SubSeqProperties
    <3>5. SubSeq(handlers, i + 1, Len(handlers)) \in Seq(Handler)
      BY <3>1, <3>3, SubSeqProperties
    <3> QED
      BY <3>4, <3>5
  <2>3. handlers' \in Seq(Handler)
    BY <2>1, <2>2, ConcatProperties DEF RemoveAt
  <2>4. PendingFor(Browser, {h}, TRUE) \in Sweep
    BY PendingForType
  <2>5. sweep' \subseteq Sweep
    BY <1>4, <2>4, StartSweepType DEF RemoveHandler
  <2> QED
    BY <1>4, <2>3, <2>5 DEF RemoveHandler, TypeOK
<1> QED
  BY <1>1, <1>2, <1>3, <1>4 DEF ApplicationStep

LEMMA EnvironmentStepType == TypeOK /\ EnvironmentStep => TypeOK'
<1> USE DEF rendererVars, pipeVars, envVars, ghostVars, mapVars
<1>1. ASSUME TypeOK, NEW b \in Browser, NavigationAborted(b)
      PROVE  TypeOK'
  BY <1>1 DEF NavigationAborted, TypeOK
<1>2. ASSUME TypeOK, NEW p \in Process, RenderProcessGone(p)
      PROVE  TypeOK'
  <2>1. /\ ctxState' \in [Context -> {"none", "live", "released", "dead"}]
        /\ requests' \subseteq requests /\ leaving' \subseteq leaving
        /\ crashed' \subseteq Process
        /\ terminated' \subseteq Browser
    BY <1>2 DEF RenderProcessGone, TypeOK
  <2> QED
    BY <1>2, <2>1 DEF RenderProcessGone, TypeOK
<1> QED
  BY <1>1, <1>2 DEF EnvironmentStep

LEMMA TypeOKInductive == TypeOK /\ [Next]_vars => TypeOK'
<1>1. TypeOK /\ UNCHANGED vars => TypeOK'
  BY DEF vars, rendererVars, pipeVars, mapVars, envVars, ghostVars, TypeOK
<1> QED
  BY <1>1, RendererStepType, BrowserStepType, ApplicationStepType,
     EnvironmentStepType DEF Next


(* Every reachable state of the composed routers is well formed: no message,
   map entry or task carries the reserved ID, a query is only offered while a
   handler is left to ask, and the generators stay in range. *)
THEOREM TypeCorrect == Spec => []TypeOK
BY InitType, TypeOKInductive, PTL DEF Spec

----------------------------------------------------------------------------
(***************************************************************************)
(* The browser-side books.  CallbackAttachedWhilePending and QueryEndsOnce *)
(* are not inductive: that a posted Success or Failure finds its entry     *)
(* needs unique query IDs, and that a new ID is fresh needs every ID in    *)
(* use to be below the generator.                                          *)
(***************************************************************************)
bookVars == <<queries, attached, dispatch, accepted, endings, queryIdGen>>

Dispatching ==
  /\ \A d, x \in dispatch : d = x
  /\ \A d \in dispatch : d.query_id <= queryIdGen /\ d.query_id \notin accepted

EntriesUnique ==
  /\ \A e, f \in queries : e.query_id = f.query_id => e = f
  /\ \A e \in queries : e.query_id \in accepted
  /\ \A q \in accepted : q <= queryIdGen

CallbackAgrees ==
  /\ \A a \in attached, e \in queries :
       a.query_id = e.query_id => a.persistent = e.persistent
  /\ \A a \in attached, d \in dispatch :
       a.query_id = d.query_id => a.persistent = d.persistent

Books ==
  /\ TypeOK /\ Dispatching /\ EntriesUnique /\ CallbackAgrees
  /\ CallbackAttachedWhilePending /\ QueryEndsOnce

LEMMA BooksUnchanged ==
  ASSUME Books, TypeOK', UNCHANGED bookVars
  PROVE  Books'
BY DEF Books, bookVars, Dispatching, EntriesUnique, CallbackAgrees,
       CallbackAttachedWhilePending, QueryEndsOnce

LEMMA BooksInit == Init => Books
<1> SUFFICES ASSUME Init PROVE Books
  OBVIOUS
<1>1. TypeOK
  BY InitType
<1>2. Len(<<>>) = 0
  BY EmptySeq
<1> QED
  BY <1>1, <1>2 DEF Init, Books, Dispatching, EntriesUnique, CallbackAgrees,
     CallbackAttachedWhilePending, QueryEndsOnce

\* A new query gets a new ID.
LEMMA BooksReceiveQuery ==
  ASSUME Books, TypeOK', NEW c \in Context, ReceiveQuery(c)
  PROVE  Books'
<1> USE DEF ghostVars
<1>1. CASE handlers = <<>>
  BY <1>1, BooksUnchanged DEF ReceiveQuery, bookVars
<1>2. CASE handlers # <<>>
  <2> DEFINE m == Head(toBrowser[c])
             d == [frame |-> c, context_id |-> m.context_id,
                   request_id |-> m.request_id, persistent |-> m.persistent,
                   uid |-> m.uid, query_id |-> queryIdGen + 1,
                   rest |-> handlers]
             a == [query_id |-> queryIdGen + 1, persistent |-> m.persistent]
  <2>1. /\ dispatch = {} /\ queryIdGen' = queryIdGen + 1
        /\ attached' = attached \union {a} /\ dispatch' = {d}
        /\ UNCHANGED <<queries, accepted, endings>>
    BY <1>2 DEF ReceiveQuery, UiIdle
  <2>2. /\ d.query_id = queryIdGen + 1 /\ a.query_id = queryIdGen + 1
        /\ d.persistent = a.persistent
    OBVIOUS
  <2> HIDE DEF d, a
  <2>3. queryIdGen \in Nat /\ \A q \in accepted : q \in Nat /\ q <= queryIdGen
    BY RouterAssumption DEF Books, TypeOK, EntriesUnique, QueryId
  <2>4. queryIdGen + 1 \notin accepted
        /\ \A e \in queries : e.query_id # queryIdGen + 1
    BY <2>3 DEF Books, EntriesUnique
  <2>5. Dispatching' /\ EntriesUnique'
    BY <2>1, <2>2, <2>3, <2>4 DEF Books, Dispatching, EntriesUnique
  <2>6. CallbackAttachedWhilePending'
    BY <2>1, <2>2 DEF Books, CallbackAttachedWhilePending
  <2>7. \A x \in attached : x.query_id # queryIdGen + 1
    BY <2>1, <2>4 DEF Books, CallbackAttachedWhilePending
  <2>8. CallbackAgrees'
    BY <2>1, <2>2, <2>4, <2>7 DEF Books, CallbackAgrees
  <2>9. QueryEndsOnce'
    BY <2>1 DEF Books, QueryEndsOnce
  <2> QED
    BY <2>5, <2>6, <2>8, <2>9 DEF Books
<1> QED
  BY <1>1, <1>2

\* Removing an entry, detaching its callback and recording one ending.
LEMMA BooksEntryEnds ==
  ASSUME Books, TypeOK', NEW e \in queries, NEW how,
         queries' = queries \ {e},
         attached' = {a \in attached : a.query_id # e.query_id},
         endings' = [endings EXCEPT ![e.query_id] = Append(@, how)],
         UNCHANGED <<dispatch, accepted, queryIdGen>>
  PROVE  Books'
<1>1. e.query_id \in QueryId /\ e.query_id \in accepted
  BY DEF Books, TypeOK, QueryInfo, EntriesUnique
<1>2. Dispatching' /\ EntriesUnique' /\ CallbackAgrees'
  BY DEF Books, Dispatching, EntriesUnique, CallbackAgrees
<1>3. CallbackAttachedWhilePending'
  <2>1. \A f \in queries : f.query_id = e.query_id => f = e
    BY DEF Books, EntriesUnique
  <2>2. \A d \in dispatch : d.query_id # e.query_id
    BY <1>1 DEF Books, Dispatching
  <2> QED
    BY <2>1, <2>2 DEF Books, CallbackAttachedWhilePending
<1>4. QueryEndsOnce'
  <2> SUFFICES ASSUME NEW q \in QueryId
               PROVE  Len(endings'[q]) =
                        IF q \in accepted /\ \A f \in queries' : f.query_id # q
                          THEN 1 ELSE 0
    BY DEF QueryEndsOnce
  <2>1. CASE q = e.query_id
    <3>1. Len(endings[q]) = 0 /\ endings[q] \in Seq({"success", "failure", "canceled"})
      BY <2>1 DEF Books, QueryEndsOnce, TypeOK
    <3>2. endings'[q] = Append(endings[q], how)
      BY <1>1, <2>1 DEF Books, TypeOK
    <3>3. Len(endings'[q]) = 1
      BY <3>1, <3>2
    <3>4. \A f \in queries' : f.query_id # q
      BY <2>1 DEF Books, EntriesUnique
    <3> QED
      BY <1>1, <2>1, <3>3, <3>4
  <2>2. CASE q # e.query_id
    <3>1. endings'[q] = endings[q]
      BY <2>2 DEF Books, TypeOK
    <3>2. (\A f \in queries' : f.query_id # q) <=> (\A f \in queries : f.query_id # q)
      BY <2>2
    <3> QED
      BY <3>1, <3>2 DEF Books, QueryEndsOnce
  <2> QED
    BY <2>1, <2>2
<1> QED
  BY <1>2, <1>3, <1>4 DEF Books

\* Handing the query to the next handler changes nothing the books mention;
\* the last refusal detaches the callback of a query no handler accepted.
LEMMA BooksDeclineQuery ==
  ASSUME Books, TypeOK', DeclineQuery
  PROVE  Books'
<1>1. PICK d \in dispatch :
        /\ UNCHANGED <<queries, accepted, endings, queryIdGen>>
        /\ IF Len(d.rest) > 1
             THEN dispatch' = {[d EXCEPT !.rest = Tail(@)]} /\ UNCHANGED attached
             ELSE /\ dispatch' = {}
                  /\ attached' = {a \in attached : a.query_id # d.query_id}
  BY DEF DeclineQuery, ghostVars
<1>2. /\ \A x \in dispatch : x = d
      /\ d.query_id <= queryIdGen /\ d.query_id \notin accepted
  BY DEF Books, Dispatching
<1>3. \A e \in queries : e.query_id # d.query_id
  BY <1>2 DEF Books, EntriesUnique
<1>4. EntriesUnique' /\ QueryEndsOnce'
  BY <1>1 DEF Books, EntriesUnique, QueryEndsOnce
<1>5. CASE Len(d.rest) > 1
  <2> DEFINE x == [d EXCEPT !.rest = Tail(@)]
  <2>1. d \in Dispatch
    BY DEF Books, TypeOK
  <2>2. x.query_id = d.query_id /\ x.persistent = d.persistent
    BY <2>1 DEF Dispatch
  <2>3. dispatch' = {x} /\ UNCHANGED attached
    BY <1>1, <1>5
  <2> HIDE DEF x
  <2>4. Dispatching'
    BY <1>1, <1>2, <2>2, <2>3 DEF Dispatching
  <2>5. CallbackAgrees'
    BY <1>1, <2>2, <2>3 DEF Books, CallbackAgrees
  <2>6. CallbackAttachedWhilePending'
    BY <1>1, <1>2, <2>2, <2>3 DEF Books, CallbackAttachedWhilePending
  <2> QED
    BY <1>4, <2>4, <2>5, <2>6 DEF Books
<1>6. CASE ~(Len(d.rest) > 1)
  <2>1. dispatch' = {} /\ attached' = {a \in attached : a.query_id # d.query_id}
    BY <1>1, <1>6
  <2>2. Dispatching' /\ CallbackAgrees'
    BY <1>1, <2>1 DEF Books, Dispatching, CallbackAgrees
  <2>3. CallbackAttachedWhilePending'
    BY <1>1, <1>2, <1>3, <2>1 DEF Books, CallbackAttachedWhilePending
  <2> QED
    BY <1>4, <2>2, <2>3 DEF Books
<1> QED
  BY <1>5, <1>6

\* The accepted query moves from the dispatch to the map under its own ID.
LEMMA BooksAcceptQuery ==
  ASSUME Books, TypeOK', AcceptQuery
  PROVE  Books'
<1>1. PICK d \in dispatch, e \in QueryInfo :
        /\ queries' = queries \union {e}
        /\ e.query_id = d.query_id /\ e.persistent = d.persistent
        /\ dispatch' = {} /\ accepted' = accepted \union {d.query_id}
        /\ UNCHANGED <<attached, endings, queryIdGen>>
  <2>1. PICK d \in dispatch :
          /\ dispatch' = {} /\ accepted' = accepted \union {d.query_id}
          /\ queries' = queries \union
               {[browser |-> BrowserOf[d.frame], frame |-> d.frame,
                 context_id |-> d.context_id, request_id |-> d.request_id,
                 persistent |-> d.persistent, query_id |-> d.query_id,
                 handler |-> Head(d.rest), uid |-> d.uid]}
          /\ UNCHANGED <<attached, endings, queryIdGen>>
    BY DEF AcceptQuery
  <2> DEFINE e == [browser |-> BrowserOf[d.frame], frame |-> d.frame,
                   context_id |-> d.context_id, request_id |-> d.request_id,
                   persistent |-> d.persistent, query_id |-> d.query_id,
                   handler |-> Head(d.rest), uid |-> d.uid]
  <2>2. e \in queries' /\ e.query_id = d.query_id /\ e.persistent = d.persistent
    BY <2>1
  <2>3. e \in QueryInfo
    BY <2>2 DEF TypeOK
  <2> QED
    BY <2>1, <2>2, <2>3
<1>2. /\ \A x \in dispatch : x = d
      /\ d.query_id <= queryIdGen /\ d.query_id \notin accepted
  BY DEF Books, Dispatching
<1>3. \A f \in queries : f.query_id # d.query_id
  BY <1>2 DEF Books, EntriesUnique
<1>4. Dispatching' /\ EntriesUnique' /\ CallbackAgrees'
  BY <1>1, <1>2, <1>3 DEF Books, Dispatching, EntriesUnique, CallbackAgrees
<1>5. CallbackAttachedWhilePending'
  BY <1>1, <1>2 DEF Books, CallbackAttachedWhilePending
<1>6. QueryEndsOnce'
  <2> SUFFICES ASSUME NEW q \in QueryId
               PROVE  Len(endings[q]) =
                        IF q \in accepted' /\ \A f \in queries' : f.query_id # q
                          THEN 1 ELSE 0
    BY <1>1 DEF QueryEndsOnce
  <2>1. CASE q = d.query_id
    BY <1>1, <1>2, <2>1 DEF Books, QueryEndsOnce
  <2>2. CASE q # d.query_id
    BY <1>1, <2>2 DEF Books, QueryEndsOnce
  <2> QED
    BY <2>1, <2>2
<1> QED
  BY <1>4, <1>5, <1>6 DEF Books

\* A cancel message removes one entry, or starts a pass that removes several.
LEMMA BooksReceiveCancel ==
  ASSUME Books, TypeOK', NEW c \in Context, ReceiveCancel(c)
  PROVE  Books'
<1>1. CASE UNCHANGED <<queries, attached, endings>>
  BY <1>1, BooksUnchanged DEF ReceiveCancel, bookVars
<1>2. CASE \E e \in queries : CancelQuery(e, FALSE)
  BY <1>2, BooksEntryEnds DEF ReceiveCancel, CancelQuery
<1> QED
  BY <1>1, <1>2 DEF ReceiveCancel, FirstOf, mapVars

LEMMA BooksSweepNext ==
  ASSUME Books, TypeOK', SweepNext
  PROVE  Books'
<1>1. /\ \E e \in queries, notify \in BOOLEAN : CancelQuery(e, notify)
      /\ UNCHANGED <<dispatch, accepted, queryIdGen>>
  BY DEF SweepNext, FirstOf, Books, TypeOK, Sweep
<1> QED
  BY <1>1, BooksEntryEnds DEF CancelQuery

\* A posted Success or Failure: a detached callback does nothing, a persistent
\* query survives a success, and otherwise its one entry ends.
LEMMA BooksRunCallbackTask ==
  ASSUME Books, TypeOK', RunCallbackTask
  PROVE  Books'
<1> DEFINE t    == Head(tasks)
           hit  == {a \in attached : a.query_id = t.query_id}
           info == {e \in queries : e.query_id = t.query_id}
           over == {e \in info : RemovesQuery(t.kind, e)}
<1>0. /\ dispatch = {} /\ t.kind \in {"success", "failure"}
      /\ UNCHANGED <<dispatch, accepted, queryIdGen>>
  BY DEF RunCallbackTask, UiIdle
<1>1. CASE hit = {}
  BY <1>1, BooksUnchanged DEF RunCallbackTask, bookVars, mapVars
<1>2. CASE hit # {}
  <2>1. /\ queries' = queries \ over
        /\ attached' = {a \in attached : a \in hit =>
                           (t.kind = "success" /\ a.persistent)}
        /\ endings' = IF over # {}
                        THEN [endings EXCEPT ![t.query_id] = Append(@, t.kind)]
                        ELSE endings
    BY <1>2 DEF RunCallbackTask
  <2>2. PICK e \in queries : e.query_id = t.query_id
    BY <1>0, <1>2 DEF Books, CallbackAttachedWhilePending
  <2>3. info = {e}
    BY <2>2 DEF Books, EntriesUnique
  <2>4. \A a \in hit : a.persistent = e.persistent
    BY <2>2 DEF Books, CallbackAgrees
  <2> HIDE DEF t
  <2>5. CASE t.kind = "success" /\ e.persistent
    <3>1. over = {}
      BY <2>3, <2>5 DEF RemovesQuery
    <3>2. attached' = attached
      BY <2>1, <2>4, <2>5
    <3> QED
      BY <1>0, <2>1, <3>1, <3>2, BooksUnchanged DEF bookVars
  <2>6. CASE ~(t.kind = "success" /\ e.persistent)
    <3>1. over = {e}
      BY <1>0, <2>3, <2>6 DEF RemovesQuery
    <3>2. attached' = {a \in attached : a.query_id # e.query_id}
      BY <2>1, <2>2, <2>4, <2>6
    <3> QED
      BY <1>0, <2>1, <2>2, <3>1, <3>2, BooksEntryEnds
  <2> QED
    BY <2>5, <2>6
<1> QED
  BY <1>1, <1>2

\* Everything else leaves the books alone.
LEMMA BooksBrowserStep ==
  ASSUME Books, TypeOK', BrowserStep
  PROVE  Books'
<1>1. CASE \E c \in Context : ReceiveQuery(c) \/ ReceiveCancel(c)
  BY <1>1, BooksReceiveQuery, BooksReceiveCancel
<1>2. CASE DeclineQuery \/ AcceptQuery \/ SweepNext \/ RunCallbackTask
  BY <1>2, BooksDeclineQuery, BooksAcceptQuery, BooksSweepNext,
     BooksRunCallbackTask
<1>3. CASE RunCancelTask
  BY <1>3, BooksUnchanged DEF RunCancelTask, bookVars, mapVars, ghostVars
<1>4. ASSUME NEW b \in Browser,
             OnBeforeBrowse(b) \/ OnBeforeClose(b) \/ OnRenderProcessTerminated(b)
      PROVE  Books'
  BY <1>4, BooksUnchanged DEF OnBeforeBrowse, OnBeforeClose,
     OnRenderProcessTerminated, bookVars, mapVars, ghostVars
<1> QED
  BY <1>1, <1>2, <1>3, <1>4 DEF BrowserStep

LEMMA BooksRendererStep ==
  ASSUME Books, TypeOK', RendererStep
  PROVE  Books'
<1>1. UNCHANGED bookVars
  BY DEF RendererStep, OnContextCreated, SendQuery, SendCancel,
     OnContextReleased, ReceiveAnswer, bookVars, mapVars, ghostVars
<1> QED
  BY <1>1, BooksUnchanged

LEMMA BooksApplicationStep ==
  ASSUME Books, TypeOK', ApplicationStep
  PROVE  Books'
<1>1. UNCHANGED bookVars
  BY DEF ApplicationStep, ExecuteCallback, CancelPending, PostCancelPending,
     AddHandler, RemoveHandler, bookVars, mapVars, ghostVars
<1> QED
  BY <1>1, BooksUnchanged

LEMMA BooksEnvironmentStep ==
  ASSUME Books, TypeOK', EnvironmentStep
  PROVE  Books'
<1>1. UNCHANGED bookVars
  BY DEF EnvironmentStep, NavigationAborted, RenderProcessGone, bookVars,
     mapVars, ghostVars
<1> QED
  BY <1>1, BooksUnchanged

LEMMA BooksInductive == Books /\ [Next]_vars => Books'
<1>1. Books /\ [Next]_vars => TypeOK'
  BY TypeOKInductive DEF Books
<1>2. Books /\ TypeOK' /\ UNCHANGED vars => Books'
  BY BooksUnchanged DEF vars, bookVars, mapVars, ghostVars
<1> QED
  BY <1>1, <1>2, BooksRendererStep, BooksBrowserStep, BooksApplicationStep,
     BooksEnvironmentStep DEF Next

(* The browser side's books are right in every reachable state, for any number
   of browsers, handlers, queries and posted tasks: a callback points at the
   router exactly while its query is offered or pending, and an accepted query
   ends exactly once, whatever was posted before a cancellation. *)
THEOREM BrowserBooksCorrect ==
  Spec => [](CallbackAttachedWhilePending /\ QueryEndsOnce)
<1>1. Books => CallbackAttachedWhilePending /\ QueryEndsOnce
  BY DEF Books
<1> QED
  BY <1>1, BooksInit, BooksInductive, PTL DEF Spec

----------------------------------------------------------------------------
(***************************************************************************)
(* Entries refer to registered handlers.  That holds while OnQuery does    *)
(* not call the router: then the copied handler list of a dispatch stays   *)
(* part of handlers_, and no cancellation pass runs beside a dispatch.     *)
(***************************************************************************)
registryVars == <<queries, dispatch, handlers, sweep>>

Registered ==
  /\ \A s, x \in sweep : s = x
  /\ dispatch # {} => sweep = {}
  /\ \A d \in dispatch : ToSet(d.rest) \subseteq ToSet(handlers)
  /\ PendingHandlersRegistered

LEMMA RegisteredUnchanged ==
  ASSUME Registered, UNCHANGED registryVars
  PROVE  Registered'
BY DEF Registered, registryVars, PendingHandlersRegistered, Matches

LEMMA RegisteredInit == Init => Registered
BY DEF Init, Registered, PendingHandlersRegistered

(* Entries go and no pass is in progress. *)
LEMMA RegisteredFewer ==
  ASSUME Registered, dispatch = {}, sweep = {}, queries' \subseteq queries,
         UNCHANGED <<dispatch, handlers, sweep>>
  PROVE  Registered'
BY DEF Registered, PendingHandlersRegistered

(* A pass begins: until then every entry had its handler. *)
LEMMA RegisteredStartSweep ==
  ASSUME Registered, dispatch = {}, sweep = {}, NEW s, StartSweep(s),
         UNCHANGED <<queries, dispatch, handlers>>
  PROVE  Registered'
BY DEF Registered, PendingHandlersRegistered, StartSweep

LEMMA RegisteredReceiveQuery ==
  ASSUME Registered, NEW c \in Context, ReceiveQuery(c)
  PROVE  Registered'
<1>1. CASE handlers = <<>>
  BY <1>1, RegisteredUnchanged DEF ReceiveQuery, registryVars
<1>2. CASE handlers # <<>>
  <2>1. /\ dispatch = {} /\ sweep = {} /\ UNCHANGED <<queries, handlers, sweep>>
        /\ \E d : dispatch' = {d} /\ d.rest = handlers
    <3>1. /\ dispatch = {} /\ sweep = {}
          /\ UNCHANGED <<queries, handlers, sweep>>
      BY DEF ReceiveQuery, UiIdle
    <3>2. PICK m, q : dispatch' =
            {[frame |-> c, context_id |-> m.context_id,
              request_id |-> m.request_id, persistent |-> m.persistent,
              uid |-> m.uid, query_id |-> q, rest |-> handlers]}
      BY <1>2 DEF ReceiveQuery
    <3> DEFINE d == [frame |-> c, context_id |-> m.context_id,
                     request_id |-> m.request_id, persistent |-> m.persistent,
                     uid |-> m.uid, query_id |-> q, rest |-> handlers]
    <3>3. dispatch' = {d} /\ d.rest = handlers
      BY <3>2
    <3> HIDE DEF d
    <3> QED
      BY <3>1, <3>3
  <2>2. PICK d : dispatch' = {d} /\ d.rest = handlers
    BY <2>1
  <2>3. \A x \in dispatch' : ToSet(x.rest) \subseteq ToSet(handlers)'
    <3>1. ToSet(handlers)' = ToSet(handlers)
      BY <2>1
    <3> QED
      BY <2>2, <3>1
  <2>4. PendingHandlersRegistered'
    BY <2>1 DEF Registered, PendingHandlersRegistered, Matches
  <2> QED
    BY <2>1, <2>3, <2>4 DEF Registered
<1> QED
  BY <1>1, <1>2

LEMMA RegisteredDeclineQuery ==
  ASSUME TypeOK, Registered, DeclineQuery
  PROVE  Registered'
<1>1. PICK d \in dispatch :
        /\ sweep = {} /\ UNCHANGED <<queries, handlers, sweep>>
        /\ \/ dispatch' = {}
           \/ dispatch' = {[d EXCEPT !.rest = Tail(@)]}
  BY DEF DeclineQuery
<1>2. d \in Dispatch
  BY DEF TypeOK
<1>3. ToSet(Tail(d.rest)) \subseteq ToSet(handlers)
  <2>1. d.rest \in Seq(Handler) /\ d.rest # <<>>
    BY <1>2 DEF Dispatch
  <2>2. ToSet(d.rest) = {Head(d.rest)} \union ToSet(Tail(d.rest))
    BY <2>1, TailSet
  <2> QED
    BY <2>2 DEF Registered
<1>4. \A x \in dispatch' : ToSet(x.rest) \subseteq ToSet(handlers)
  <2>1. [d EXCEPT !.rest = Tail(@)].rest = Tail(d.rest)
    BY <1>2 DEF Dispatch
  <2> QED
    BY <1>1, <1>3, <2>1
<1>5. ToSet(handlers)' = ToSet(handlers)
  BY <1>1
<1>6. PendingHandlersRegistered'
  BY <1>1, <1>5 DEF Registered, PendingHandlersRegistered, Matches
<1> QED
  BY <1>1, <1>4, <1>5, <1>6 DEF Registered

LEMMA RegisteredAcceptQuery ==
  ASSUME TypeOK, Registered, AcceptQuery
  PROVE  Registered'
<1>1. PICK d \in dispatch :
        /\ sweep = {} /\ UNCHANGED <<handlers, sweep>> /\ dispatch' = {}
        /\ queries' = queries \union
             {[browser |-> BrowserOf[d.frame], frame |-> d.frame,
               context_id |-> d.context_id, request_id |-> d.request_id,
               persistent |-> d.persistent, query_id |-> d.query_id,
               handler |-> Head(d.rest), uid |-> d.uid]}
  BY DEF AcceptQuery
<1>2. Head(d.rest) \in ToSet(handlers)
  <2>1. d.rest \in Seq(Handler) /\ d.rest # <<>>
    BY DEF TypeOK, Dispatch
  <2>2. ToSet(d.rest) = {Head(d.rest)} \union ToSet(Tail(d.rest))
    BY <2>1, TailSet
  <2> QED
    BY <2>2 DEF Registered
<1>3. ToSet(handlers)' = ToSet(handlers)
  BY <1>1
<1> DEFINE e == [browser |-> BrowserOf[d.frame], frame |-> d.frame,
                 context_id |-> d.context_id, request_id |-> d.request_id,
                 persistent |-> d.persistent, query_id |-> d.query_id,
                 handler |-> Head(d.rest), uid |-> d.uid]
<1>4. queries' = queries \union {e} /\ e.handler = Head(d.rest)
  BY <1>1
<1> HIDE DEF e
<1> QED
  BY <1>1, <1>2, <1>3, <1>4 DEF Registered, PendingHandlersRegistered

LEMMA RegisteredReceiveCancel ==
  ASSUME Registered, NEW c \in Context, ReceiveCancel(c)
  PROVE  Registered'
<1>1. dispatch = {} /\ sweep = {} /\ UNCHANGED <<dispatch, handlers>>
  BY DEF ReceiveCancel, UiIdle
<1>2. \/ /\ \E s : StartSweep(s)
         /\ UNCHANGED queries
      \/ UNCHANGED sweep /\ queries' \subseteq queries
  BY DEF ReceiveCancel, mapVars, CancelQuery
<1> QED
  BY <1>1, <1>2, RegisteredStartSweep, RegisteredFewer

(* An entry leaves with each visit, and the pass ends with the last. *)
LEMMA RegisteredSweepNext ==
  ASSUME Registered, SweepNext
  PROVE  Registered'
<1>1. PICK s \in sweep, e \in queries :
        /\ queries' = queries \ {e}
        /\ sweep' = IF {f \in queries : Matches(f, s)} = {e} THEN {} ELSE {s}
        /\ UNCHANGED <<dispatch, handlers>>
  BY DEF SweepNext, FirstOf, CancelQuery
<1>2. sweep = {s} /\ dispatch = {}
  BY DEF Registered
<1>3. ToSet(handlers)' = ToSet(handlers)
  BY <1>1
<1>4. ASSUME NEW f \in queries', f.handler \notin ToSet(handlers)
      PROVE  \E x \in sweep' : Matches(f, x)
  <2>1. Matches(f, s) /\ f # e
    BY <1>1, <1>2, <1>4 DEF Registered, PendingHandlersRegistered
  <2>2. {g \in queries : Matches(g, s)} # {e}
    BY <1>1, <2>1
  <2> QED
    BY <1>1, <2>1, <2>2
<1>5. PendingHandlersRegistered'
  BY <1>3, <1>4 DEF PendingHandlersRegistered, Matches
<1> QED
  BY <1>1, <1>2, <1>5 DEF Registered

(* RemoveHandler starts a pass over whatever the handler still has. *)
LEMMA RegisteredRemoveHandler ==
  ASSUME TypeOK, Registered, dispatch = {}, NEW h \in Handler, RemoveHandler(h)
  PROVE  Registered'
<1> DEFINE s == PendingFor(Browser, {h}, TRUE)
<1>1. PICK i \in DOMAIN handlers :
        handlers[i] = h /\ handlers' = RemoveAt(handlers, i)
  BY DEF RemoveHandler
<1>2. /\ sweep = {} /\ UNCHANGED <<queries, dispatch>>
      /\ StartSweep(s)
  BY DEF RemoveHandler, MayCallRouter, mapVars
<1>3. \A x \in ToSet(handlers) : x # h => x \in ToSet(RemoveAt(handlers, i))
  BY <1>1, RemoveAtSet DEF TypeOK
<1>4. ToSet(handlers)' = ToSet(RemoveAt(handlers, i))
  BY <1>1
<1>5. ASSUME NEW e \in queries, e.handler \notin ToSet(RemoveAt(handlers, i))
      PROVE  Matches(e, s)
  <2>1. e.handler = h
    BY <1>2, <1>3, <1>5 DEF Registered, PendingHandlersRegistered
  <2>2. e \in QueryInfo
    BY DEF TypeOK
  <2> QED
    BY <2>1, <2>2 DEF Matches, PendingFor, QueryInfo
<1>6. ASSUME NEW e \in queries', e.handler \notin ToSet(handlers)'
      PROVE  \E x \in sweep' : Matches(e, x)
  <2>1. e \in queries /\ Matches(e, s)
    BY <1>2, <1>4, <1>5, <1>6
  <2> HIDE DEF s
  <2> QED
    BY <1>2, <2>1 DEF StartSweep
<1>7. PendingHandlersRegistered'
  BY <1>6 DEF PendingHandlersRegistered, Matches
<1> HIDE DEF s
<1> QED
  BY <1>2, <1>7 DEF Registered, StartSweep

LEMMA RegisteredAddHandler ==
  ASSUME TypeOK, Registered, dispatch = {}, NEW h \in Handler,
         NEW first \in BOOLEAN, AddHandler(h, first)
  PROVE  Registered'
<1>1. /\ sweep = {} /\ UNCHANGED <<queries, dispatch, sweep>>
      /\ handlers' = <<h>> \o handlers \/ handlers' = Append(handlers, h)
  BY DEF AddHandler, MayCallRouter, mapVars
<1>2. handlers \in Seq(Handler) /\ <<h>> \in Seq(Handler)
  BY DEF TypeOK
<1>3. CASE handlers' = <<h>> \o handlers
  <2>1. ToSet(handlers)' = ToSet(<<h>> \o handlers)
    BY <1>3
  <2> DEFINE one == <<h>>
  <2>2. ToSet(<<h>> \o handlers) = ToSet(<<h>>) \union ToSet(handlers)
    <3>1. one \in Seq(Handler)
      BY <1>2
    <3> HIDE DEF one
    <3>2. ToSet(one \o handlers) = ToSet(one) \union ToSet(handlers)
      BY <1>2, <3>1, ConcatSet
    <3> QED
      BY <3>2 DEF one
  <2> HIDE DEF one
  <2> QED
    BY <1>1, <2>1, <2>2 DEF Registered, PendingHandlersRegistered
<1>4. CASE handlers' = Append(handlers, h)
  <2>1. ToSet(handlers)' = ToSet(Append(handlers, h))
    BY <1>4
  <2>2. ToSet(handlers) \subseteq ToSet(Append(handlers, h))
    BY <1>2, AppendSet
  <2> QED
    BY <1>1, <2>1, <2>2 DEF Registered, PendingHandlersRegistered
<1> QED
  BY <1>1, <1>3, <1>4

(* While a query is offered nothing calls the router: so it is if handlers
   may not, and so it is in an application that never does. *)
LEMMA RegisteredStep ==
  ASSUME TypeOK, Registered, [Next]_vars,
         dispatch # {} => UNCHANGED <<handlers, sweep>>
  PROVE  Registered'
<1> USE DEF mapVars, ghostVars
<1>1. CASE UNCHANGED vars
  BY <1>1, RegisteredUnchanged DEF vars, registryVars
<1>2. CASE RendererStep
  <2>1. UNCHANGED registryVars
    BY <1>2 DEF RendererStep, OnContextCreated, SendQuery, SendCancel,
       OnContextReleased, ReceiveAnswer, registryVars
  <2> QED
    BY <2>1, RegisteredUnchanged
<1>3. CASE EnvironmentStep
  <2>1. UNCHANGED registryVars
    BY <1>3 DEF EnvironmentStep, NavigationAborted, RenderProcessGone, registryVars
  <2> QED
    BY <2>1, RegisteredUnchanged
<1>4. CASE BrowserStep
  <2>1. CASE \E c \in Context : ReceiveQuery(c) \/ ReceiveCancel(c)
    BY <2>1, RegisteredReceiveQuery, RegisteredReceiveCancel
  <2>2. CASE DeclineQuery \/ AcceptQuery \/ SweepNext
    BY <2>2, RegisteredDeclineQuery, RegisteredAcceptQuery, RegisteredSweepNext
  <2>3. CASE RunCallbackTask
    <3>1. /\ dispatch = {} /\ sweep = {} /\ UNCHANGED <<dispatch, handlers, sweep>>
          /\ queries' \subseteq queries
      BY <2>3 DEF RunCallbackTask, UiIdle
    <3> QED
      BY <3>1, RegisteredFewer
  <2>4. CASE RunCancelTask
    <3>1. /\ dispatch = {} /\ sweep = {} /\ UNCHANGED <<queries, dispatch, handlers>>
          /\ \E s : StartSweep(s)
      BY <2>4 DEF RunCancelTask, UiIdle
    <3> QED
      BY <3>1, RegisteredStartSweep
  <2>5. ASSUME NEW b \in Browser,
               OnBeforeBrowse(b) \/ OnBeforeClose(b) \/ OnRenderProcessTerminated(b)
        PROVE  Registered'
    <3>1. /\ dispatch = {} /\ sweep = {} /\ UNCHANGED <<queries, dispatch, handlers>>
          /\ \E s : StartSweep(s)
      BY <2>5 DEF OnBeforeBrowse, OnBeforeClose, OnRenderProcessTerminated, UiIdle
    <3> QED
      BY <3>1, RegisteredStartSweep
  <2> QED
    BY <1>4, <2>1, <2>2, <2>3, <2>4, <2>5 DEF BrowserStep
<1>5. CASE ApplicationStep
  <2>1. CASE UNCHANGED registryVars
    BY <2>1, RegisteredUnchanged
  <2>2. CASE dispatch = {}
    <3>1. ASSUME NEW bs, NEW hs, CancelPending(bs, hs)
          PROVE  Registered'
      <4>1. /\ sweep = {} /\ UNCHANGED <<queries, dispatch, handlers>>
            /\ \E s : StartSweep(s)
        BY <3>1 DEF CancelPending, MayCallRouter
      <4> QED
        BY <2>2, <4>1, RegisteredStartSweep
    <3>2. ASSUME NEW bs, NEW hs, PostCancelPending(bs, hs)
          PROVE  UNCHANGED registryVars
      BY <3>2 DEF PostCancelPending, registryVars
    <3>3. ASSUME NEW q, NEW kind, ExecuteCallback(q, kind)
          PROVE  UNCHANGED registryVars
      BY <3>3 DEF ExecuteCallback, registryVars
    <3>4. ASSUME NEW h \in Handler,
                 RemoveHandler(h) \/ \E first \in BOOLEAN : AddHandler(h, first)
          PROVE  Registered'
      BY <2>2, <3>4, RegisteredAddHandler, RegisteredRemoveHandler
    <3> QED
      BY <1>5, <3>1, <3>2, <3>3, <3>4, RegisteredUnchanged DEF ApplicationStep
  <2>3. CASE dispatch # {}
    <3>1. UNCHANGED <<queries, dispatch>>
      BY <1>5 DEF ApplicationStep, ExecuteCallback, CancelPending,
         PostCancelPending, AddHandler, RemoveHandler
    <3> QED
      BY <2>3, <3>1, RegisteredUnchanged DEF registryVars
  <2> QED
    BY <2>2, <2>3
<1> QED
  BY <1>1, <1>2, <1>3, <1>4, <1>5 DEF Next

LEMMA NoReentryKeepsRegistry ==
  ASSUME ~Reentrant, dispatch # {}, Registered, [Next]_vars
  PROVE  UNCHANGED <<handlers, sweep>>
<1>1. sweep = {}
  BY DEF Registered
<1>2. ~UiIdle /\ ~MayCallRouter
  BY DEF UiIdle, MayCallRouter
<1>3. CASE UNCHANGED vars
  BY <1>3 DEF vars
<1>4. CASE RendererStep
  BY <1>4 DEF RendererStep, OnContextCreated, SendQuery, SendCancel,
     OnContextReleased, ReceiveAnswer
<1>5. CASE BrowserStep
  BY <1>1, <1>2, <1>5 DEF BrowserStep, ReceiveQuery, ReceiveCancel, DeclineQuery,
     AcceptQuery, SweepNext, RunCallbackTask, RunCancelTask, OnBeforeBrowse,
     OnBeforeClose, OnRenderProcessTerminated
<1>6. CASE ApplicationStep
  BY <1>2, <1>6 DEF ApplicationStep, ExecuteCallback, CancelPending,
     PostCancelPending, AddHandler, RemoveHandler
<1>7. CASE EnvironmentStep
  BY <1>7 DEF EnvironmentStep, NavigationAborted, RenderProcessGone
<1> QED
  BY <1>3, <1>4, <1>5, <1>6, <1>7 DEF Next

(* RemoveHandler leaves no query behind that refers to the handler, for any
   number of handlers, if handlers do not call the router from OnQuery.  With
   a handler that removes itself there the property fails. *)
THEOREM HandlersOutliveTheirQueries ==
  ASSUME ~Reentrant
  PROVE  Spec => []PendingHandlersRegistered
<1>1. Init => TypeOK /\ Registered
  BY InitType, RegisteredInit
<1>2. TypeOK /\ Registered /\ [Next]_vars => TypeOK' /\ Registered'
  <2> SUFFICES ASSUME TypeOK, Registered, [Next]_vars PROVE TypeOK' /\ Registered'
    OBVIOUS
  <2>1. TypeOK'
    BY TypeOKInductive
  <2>2. dispatch # {} => UNCHANGED <<handlers, sweep>>
    BY NoReentryKeepsRegistry
  <2> QED
    BY <2>1, <2>2, RegisteredStep
<1>3. Registered => PendingHandlersRegistered
  BY DEF Registered
<1> QED
  BY <1>1, <1>2, <1>3, PTL DEF Spec

----------------------------------------------------------------------------
(***************************************************************************)
(* The life cycle of a query.  An ID is unused until the generator starts  *)
(* over, so that the theorems below speak of the first MaxId queries of a  *)
(* render process; after that AddRequest may find the ID taken.            *)
(***************************************************************************)
Numbered ==
  /\ \A p \in Process : requestIdGen[p] <= Len(issued)
  /\ \A r \in requests : /\ r.request_id <= requestIdGen[r.process]
                         /\ r.uid <= Len(issued) /\ issued[r.uid] = r.persistent
  /\ \A r, s \in requests : r.uid = s.uid \/ SameRequest(r, s) => r = s

LEMMA NumberedInit == Init => Numbered
<1> SUFFICES ASSUME Init PROVE Numbered
  OBVIOUS
<1>1. Len(<<>>) = 0
  BY EmptySeq
<1> QED
  BY <1>1 DEF Init, Numbered, ReservedId

LEMMA NumberedFewer ==
  ASSUME Numbered, requests' \subseteq requests, UNCHANGED <<requestIdGen, issued>>
  PROVE  Numbered'
BY DEF Numbered, SameRequest

\* The request a call of cefQuery registers.
LEMMA NewRequest ==
  ASSUME MaxQueries <= MaxId, TypeOK, TypeOK', Numbered,
         NEW c \in Context, NEW persistent \in BOOLEAN, SendQuery(c, persistent)
  PROVE  \E info \in RequestInfo :
           /\ info.uid = Len(issued) + 1 /\ info.persistent = persistent
           /\ info.process = ProcessOf[c] /\ info.browser = BrowserOf[c]
           /\ info.frame = c /\ info.context_id = ContextId(c)
           /\ info.request_id = requestIdGen[ProcessOf[c]] + 1
           /\ requestIdGen' = [requestIdGen EXCEPT ![ProcessOf[c]] = info.request_id]
           /\ requests' = requests \union {info}
           /\ \A r \in requests : ~SameRequest(r, info) /\ ~SameRequest(info, r)
           /\ issued' = Append(issued, persistent) /\ Len(issued) \in Nat
           /\ Len(issued) + 1 \in Uid
<1> DEFINE p == ProcessOf[c]
           rid == GetNextId(requestIdGen[p])
           info == [process |-> p, browser |-> BrowserOf[c],
                    context_id |-> ContextId(c), request_id |-> rid,
                    persistent |-> persistent, frame |-> c,
                    uid |-> Len(issued) + 1]
<1>1. /\ Len(issued) < MaxQueries /\ requests' = AddRequest(requests, info)
      /\ requestIdGen' = [requestIdGen EXCEPT ![p] = rid]
      /\ issued' = Append(issued, persistent)
  BY DEF SendQuery
<1>2. /\ p \in Process /\ BrowserOf[c] \in Browser /\ ContextId(c) \in Id
      /\ requestIdGen[p] \in Id \union {ReservedId}
      /\ Len(issued) \in Nat
  <2>1. ContextId(c) \in Id
    BY ContextIdType
  <2> QED
    BY <2>1, RouterAssumption DEF TypeOK
<1>3. requestIdGen[p] < MaxId /\ requestIdGen[p] \in Nat
  BY <1>1, <1>2, RouterAssumption DEF Numbered, Id, ReservedId
<1>4. rid = requestIdGen[p] + 1 /\ rid \in Id
  BY <1>3, RouterAssumption DEF GetNextId, Id
<1>5. Len(issued) + 1 \in Uid
  BY <1>1, <1>2, RouterAssumption DEF Uid
<1>6. info \in RequestInfo
  BY <1>2, <1>4, <1>5 DEF RequestInfo
<1>7. /\ info.uid = Len(issued) + 1 /\ info.persistent = persistent
      /\ info.process = p /\ info.request_id = rid /\ info.browser = BrowserOf[c]
      /\ info.frame = c /\ info.context_id = ContextId(c)
  OBVIOUS
<1> HIDE DEF info, rid
<1>8. \A r \in requests : ~SameRequest(r, info) /\ ~SameRequest(info, r)
  <2> SUFFICES ASSUME NEW r \in requests, r.process = p, r.request_id = rid
               PROVE  FALSE
    BY <1>7 DEF SameRequest
  <2>1. r.request_id <= requestIdGen[p]
    BY DEF Numbered
  <2> QED
    BY <1>3, <1>4, <2>1
<1>9. requests' = requests \union {info}
  BY <1>1, <1>8 DEF AddRequest
<1> QED
  BY <1>1, <1>2, <1>4, <1>5, <1>6, <1>7, <1>8, <1>9

LEMMA NumberedSendQuery ==
  ASSUME MaxQueries <= MaxId, TypeOK, TypeOK', Numbered,
         NEW c \in Context, NEW persistent \in BOOLEAN, SendQuery(c, persistent)
  PROVE  Numbered'
<1>1. PICK info \in RequestInfo :
           /\ info.uid = Len(issued) + 1 /\ info.persistent = persistent
           /\ info.process = ProcessOf[c]
           /\ info.request_id = requestIdGen[ProcessOf[c]] + 1
           /\ requestIdGen' = [requestIdGen EXCEPT ![ProcessOf[c]] = info.request_id]
           /\ requests' = requests \union {info}
           /\ \A r \in requests : ~SameRequest(r, info) /\ ~SameRequest(info, r)
           /\ issued' = Append(issued, persistent) /\ Len(issued) \in Nat
           /\ Len(issued) + 1 \in Uid
  BY NewRequest
<1>2. issued \in Seq(BOOLEAN) /\ requests \subseteq RequestInfo
      /\ requestIdGen \in [Process -> Id \union {ReservedId}] /\ ProcessOf[c] \in Process
  BY RouterAssumption DEF TypeOK
<1>3. /\ Len(issued') = Len(issued) + 1 /\ issued'[Len(issued) + 1] = persistent
      /\ \A i \in 1..Len(issued) : issued'[i] = issued[i]
  BY <1>1, <1>2
<1>4. \A p \in Process : requestIdGen[p] \in Nat /\ requestIdGen[p] <= Len(issued)
  BY <1>2, RouterAssumption DEF Numbered, Id, ReservedId
<1>5. \A p \in Process : requestIdGen'[p] <= Len(issued') /\ requestIdGen[p] <= requestIdGen'[p]
  BY <1>1, <1>2, <1>3, <1>4
<1>6. \A r \in requests : /\ r.process \in Process /\ r.request_id \in Nat
                          /\ r.uid \in 1..Len(issued)
  BY <1>1, <1>2, RouterAssumption DEF Numbered, RequestInfo, Id, Uid
<1>7. ASSUME NEW r \in requests'
      PROVE  /\ r.request_id <= requestIdGen'[r.process]
             /\ r.uid <= Len(issued') /\ issued'[r.uid] = r.persistent
  <2>1. CASE r = info
    <3>1. requestIdGen'[r.process] = info.request_id
      BY <1>1, <1>2, <2>1
    <3>2. info.request_id <= info.request_id
      BY <1>1, <1>2, <1>4
    <3> QED
      BY <1>1, <1>3, <2>1, <3>1, <3>2
  <2>2. CASE r \in requests
    <3>1. r.request_id <= requestIdGen[r.process] /\ issued[r.uid] = r.persistent
      BY <2>2 DEF Numbered
    <3>2. requestIdGen'[r.process] \in Nat
      BY <1>6, <2>2, RouterAssumption DEF TypeOK, Id, ReservedId
    <3> QED
      BY <1>1, <1>3, <1>4, <1>5, <1>6, <2>2, <3>1, <3>2
  <2> QED
    BY <1>1, <2>1, <2>2
<1>8. \A r, s \in requests' : r.uid = s.uid \/ SameRequest(r, s) => r = s
  <2>1. \A r \in requests : r.uid # info.uid
    BY <1>1, <1>6
  <2> QED
    BY <1>1, <2>1 DEF Numbered
<1> QED
  BY <1>5, <1>7, <1>8 DEF Numbered, SameRequest

LEMMA NumberedStep ==
  ASSUME MaxQueries <= MaxId, TypeOK, TypeOK', Numbered, [Next]_vars
  PROVE  Numbered'
<1> USE DEF rendererVars, pipeVars, mapVars, envVars, ghostVars
<1>1. CASE UNCHANGED vars
  BY <1>1, NumberedFewer DEF vars
<1>2. CASE RendererStep
  <2>1. ASSUME NEW c \in Context, NEW persistent \in BOOLEAN, SendQuery(c, persistent)
        PROVE  Numbered'
    BY <2>1, NumberedSendQuery
  <2>2. ASSUME NEW c \in Context,
               \/ OnContextCreated(c) \/ OnContextReleased(c) \/ ReceiveAnswer(c)
               \/ \E rid \in Id : SendCancel(c, rid)
        PROVE  Numbered'
    <3>1. requests' \subseteq requests /\ UNCHANGED <<requestIdGen, issued>>
      BY <2>2 DEF OnContextCreated, OnContextReleased, ReceiveAnswer, SendCancel
    <3> QED
      BY <3>1, NumberedFewer
  <2> QED
    BY <1>2, <2>1, <2>2 DEF RendererStep
<1>3. CASE BrowserStep
  <2>1. UNCHANGED <<requests, requestIdGen, issued>>
    BY <1>3 DEF BrowserStep, ReceiveQuery, ReceiveCancel, DeclineQuery, AcceptQuery,
       SweepNext, RunCallbackTask, RunCancelTask, OnBeforeBrowse, OnBeforeClose,
       OnRenderProcessTerminated
  <2> QED
    BY <2>1, NumberedFewer
<1>4. CASE ApplicationStep
  <2>1. UNCHANGED <<requests, requestIdGen, issued>>
    BY <1>4 DEF ApplicationStep, ExecuteCallback, CancelPending, PostCancelPending,
       AddHandler, RemoveHandler
  <2> QED
    BY <2>1, NumberedFewer
<1>5. CASE EnvironmentStep
  <2>1. requests' \subseteq requests /\ UNCHANGED <<requestIdGen, issued>>
    BY <1>5 DEF EnvironmentStep, NavigationAborted, RenderProcessGone
  <2> QED
    BY <2>1, NumberedFewer
<1> QED
  BY <1>1, <1>2, <1>3, <1>4, <1>5 DEF Next

\* A step that registers nothing and runs no callback withdraws what it removes.
LEMMA SeenWithdrawn ==
  ASSUME TypeOK, Numbered, requests' \subseteq requests, UNCHANGED <<issued, callbacks>>
  PROVE  Lifecycle!Next
<1> DEFINE us == {u \in Uid : \E r \in requests : r.uid = u /\ r \notin requests'}
<1>1. \A r \in requests : r.uid \in Uid /\ r.uid \in DOMAIN issued
  <2>1. \A r \in requests : r.uid \in Uid /\ r.uid <= Len(issued)
    BY DEF TypeOK, Numbered, RequestInfo
  <2>2. DOMAIN issued = 1..Len(issued) /\ Len(issued) \in Nat
    BY DEF TypeOK
  <2> QED
    BY <2>1, <2>2, RouterAssumption DEF Uid
<1>2. ASSUME NEW u \in us
      PROVE  PhaseOf(u) \in {"oneshot", "persistent"} /\ PhaseOf(u)' = "over"
  <2>1. PICK r \in requests : r.uid = u /\ r \notin requests'
    BY DEF us
  <2>2. u \in DOMAIN issued /\ u \in DOMAIN issued'
    BY <1>1, <2>1
  <2>3. ~\E s \in requests' : s.uid = u
    BY <2>1 DEF Numbered
  <2> QED
    BY <2>1, <2>2, <2>3 DEF PhaseOf
<1>3. ASSUME NEW u \in Uid, u \notin us PROVE PhaseOf(u)' = PhaseOf(u)
  <2>1. (\E r \in requests : r.uid = u) <=> (\E r \in requests' : r.uid = u)
    BY <1>3 DEF us
  <2> QED
    BY <2>1 DEF PhaseOf
<1>4. us \in SUBSET Uid
  OBVIOUS
<1> HIDE DEF us
<1>5. [u \in Uid |-> PhaseOf(u)]' =
        [u \in Uid |-> IF u \in us THEN "over" ELSE [v \in Uid |-> PhaseOf(v)][u]]
  BY <1>2, <1>3, <1>4
<1>6. Lifecycle!Withdraw(us)
  BY <1>2, <1>4, <1>5 DEF Lifecycle!Withdraw, Lifecycle!Registered
<1> QED
  BY <1>4, <1>6 DEF Lifecycle!Next

LEMMA SeenIssued ==
  ASSUME MaxQueries <= MaxId, TypeOK, TypeOK', Numbered,
         NEW c \in Context, NEW persistent \in BOOLEAN, SendQuery(c, persistent)
  PROVE  Lifecycle!Next
<1>1. PICK info \in RequestInfo :
           /\ info.uid = Len(issued) + 1 /\ info.persistent = persistent
           /\ info.process = ProcessOf[c]
           /\ info.request_id = requestIdGen[ProcessOf[c]] + 1
           /\ requestIdGen' = [requestIdGen EXCEPT ![ProcessOf[c]] = info.request_id]
           /\ requests' = requests \union {info}
           /\ \A r \in requests : ~SameRequest(r, info) /\ ~SameRequest(info, r)
           /\ issued' = Append(issued, persistent) /\ Len(issued) \in Nat
           /\ Len(issued) + 1 \in Uid
  BY NewRequest
<1> DEFINE n == Len(issued) + 1
           kind == IF persistent THEN "persistent" ELSE "oneshot"
<1>2. /\ DOMAIN issued = 1..Len(issued) /\ DOMAIN issued' = 1..n
      /\ issued'[n] = persistent /\ n \in Nat /\ n > Len(issued)
      /\ \A i \in 1..Len(issued) : issued'[i] = issued[i]
  BY <1>1 DEF TypeOK
<1>3. n \in Uid /\ n \notin DOMAIN issued /\ n \in DOMAIN issued'
  BY <1>1, <1>2
<1>4. PhaseOf(n) = "unused"
  BY <1>3 DEF PhaseOf
<1>5. n \in DOMAIN issued' /\ issued'[n] = persistent /\ info \in requests' /\ info.uid = n
  BY <1>1, <1>2, <1>3
<1>6. ASSUME NEW u \in Uid, u # n PROVE PhaseOf(u)' = PhaseOf(u)
  <2>1. (\E r \in requests : r.uid = u) <=> (\E r \in requests' : r.uid = u)
    BY <1>1, <1>6
  <2>2. u \in DOMAIN issued <=> u \in DOMAIN issued'
    BY <1>2, <1>6, RouterAssumption DEF Uid
  <2>3. u \in DOMAIN issued => issued'[u] = issued[u]
    BY <1>2
  <2> QED
    BY <2>1, <2>2, <2>3 DEF PhaseOf
<1> HIDE DEF n
<1>7. ASSUME NEW u \in Uid, u = n PROVE PhaseOf(u)' = kind
  BY <1>5, <1>7 DEF PhaseOf
<1>8. [u \in Uid |-> PhaseOf(u)]' = [[u \in Uid |-> PhaseOf(u)] EXCEPT ![n] = kind]
  BY <1>3, <1>6, <1>7
<1>9. callbacks' = callbacks
  BY DEF SendQuery
<1>10. Lifecycle!Issue(n, kind)
  BY <1>3, <1>4, <1>8, <1>9 DEF Lifecycle!Issue
<1> QED
  BY <1>3, <1>10 DEF Lifecycle!Next

\* The registered phase of a call, and what the removal of its request makes of it.
LEMMA PhaseOfRequest ==
  ASSUME TypeOK, Numbered, NEW r \in requests
  PROVE  /\ r.uid \in Uid /\ r.uid \in DOMAIN issued
         /\ PhaseOf(r.uid) = IF r.persistent THEN "persistent" ELSE "oneshot"
<1>1. r.uid \in Uid /\ r.uid <= Len(issued) /\ issued[r.uid] = r.persistent
  BY DEF TypeOK, Numbered, RequestInfo
<1>2. DOMAIN issued = 1..Len(issued) /\ Len(issued) \in Nat
  BY DEF TypeOK
<1>3. r.uid \in DOMAIN issued
  BY <1>1, <1>2, RouterAssumption DEF Uid
<1> QED
  BY <1>1, <1>3 DEF PhaseOf

LEMMA SeenHeard ==
  ASSUME TypeOK, Numbered, NEW c \in Context, ReceiveAnswer(c)
  PROVE  Lifecycle!Next
<1> DEFINE m     == Head(toRenderer[c])
           found == FindRequest(c, m.context_id, m.request_id)
           heard == HasContext(ProcessOf[c], m.context_id)
           what  == IF m.success THEN "success" ELSE "failure"
<1>1. /\ toRenderer[c] # <<>> /\ issued' = issued
      /\ requests' = {r \in requests : r \in found => ~RemovesRequest(m.success, r)}
      /\ callbacks' = [u \in Uid |-> IF (\E r \in found : r.uid = u) /\ heard
                                       THEN Append(callbacks[u], what) ELSE callbacks[u]]
  BY DEF ReceiveAnswer
<1>2. m.success \in BOOLEAN
  <2>1. toRenderer[c] \in Seq(AnswerMsg)
    BY DEF TypeOK
  <2>2. m \in AnswerMsg
    BY <1>1, <2>1, HeadTailProperties
  <2> QED
    BY <2>2 DEF AnswerMsg
<1>3. found \subseteq requests /\ \A r, s \in found : r = s
  BY DEF FindRequest, Numbered, SameRequest
<1>4. callbacks \in [Uid -> Seq({"success", "failure"})]
  BY DEF TypeOK
<1> HIDE DEF found, heard, m
<1>5. CASE found = {} \/ ~heard
  <2>1. callbacks' = callbacks
    BY <1>1, <1>4, <1>5
  <2>2. requests' \subseteq requests
    BY <1>1
  <2> QED
    BY <1>1, <2>1, <2>2, SeenWithdrawn
<1>6. CASE found # {} /\ heard
  <2>1. PICK r \in requests : found = {r}
    BY <1>3, <1>6
  <2> DEFINE v == r.uid
  <2>2. /\ v \in Uid /\ v \in DOMAIN issued
        /\ PhaseOf(v) = IF r.persistent THEN "persistent" ELSE "oneshot"
    BY PhaseOfRequest
  <2>3. callbacks' = [callbacks EXCEPT ![v] = Append(@, what)]
    BY <1>1, <1>4, <1>6, <2>1, <2>2
  <2>4. requests' = IF RemovesRequest(m.success, r) THEN requests \ {r} ELSE requests
    BY <1>1, <2>1
  <2>5. \A s \in requests : s.uid = v => s = r
    BY DEF Numbered
  <2>6. r.persistent \in BOOLEAN
    BY DEF TypeOK, RequestInfo
  <2>7. ASSUME NEW u \in Uid, u # v PROVE PhaseOf(u)' = PhaseOf(u)
    <3>1. (\E s \in requests : s.uid = u) <=> (\E s \in requests' : s.uid = u)
      BY <2>4, <2>5, <2>7
    <3> QED
      BY <1>1, <3>1 DEF PhaseOf
  <2>8. ASSUME NEW u \in Uid, u = v
        PROVE  PhaseOf(u)' = IF RemovesRequest(m.success, r) THEN "over" ELSE PhaseOf(v)
    <3>1. (\E s \in requests' : s.uid = u) <=> ~RemovesRequest(m.success, r)
      BY <2>4, <2>5, <2>8
    <3> QED
      BY <1>1, <2>2, <2>8, <3>1 DEF PhaseOf
  <2> HIDE DEF v
  <2>9. [u \in Uid |-> PhaseOf(u)]' =
          [[u \in Uid |-> PhaseOf(u)] EXCEPT
             ![v] = IF RemovesRequest(m.success, r) THEN "over" ELSE PhaseOf(v)]
    BY <2>2, <2>7, <2>8
  <2>10. [u \in Uid |-> PhaseOf(u)][v] = PhaseOf(v)
    BY <2>2
  <2>11. CASE m.success
    <3>1. RemovesRequest(m.success, r) <=> PhaseOf(v) = "oneshot"
      BY <2>2, <2>6, <2>11 DEF RemovesRequest
    <3>2. Lifecycle!Succeed(v)
      BY <2>2, <2>3, <2>6, <2>9, <2>10, <2>11, <3>1
      DEF Lifecycle!Succeed, Lifecycle!Registered, Lifecycle!Hear
    <3> QED
      BY <2>2, <3>2 DEF Lifecycle!Next
  <2>12. CASE ~m.success
    <3>1. RemovesRequest(m.success, r)
      BY <2>12 DEF RemovesRequest
    <3>2. Lifecycle!Fail(v)
      BY <2>2, <2>3, <2>6, <2>9, <2>10, <2>12, <3>1
      DEF Lifecycle!Fail, Lifecycle!Registered, Lifecycle!Hear
    <3> QED
      BY <2>2, <3>2 DEF Lifecycle!Next
  <2> QED
    BY <1>2, <2>11, <2>12
<1> QED
  BY <1>5, <1>6

LEMMA LifecycleStep ==
  ASSUME MaxQueries <= MaxId, TypeOK, TypeOK', Numbered, [Next]_vars
  PROVE  Lifecycle!Next
<1> USE DEF rendererVars, pipeVars, mapVars, envVars, ghostVars
<1>1. CASE requests' \subseteq requests /\ UNCHANGED <<issued, callbacks>>
  BY <1>1, SeenWithdrawn
<1>2. CASE UNCHANGED vars
  BY <1>1, <1>2 DEF vars
<1>3. CASE RendererStep
  <2>1. ASSUME NEW c \in Context, NEW persistent \in BOOLEAN, SendQuery(c, persistent)
        PROVE  Lifecycle!Next
    BY <2>1, SeenIssued
  <2>2. ASSUME NEW c \in Context,
               OnContextCreated(c) \/ OnContextReleased(c) \/ \E rid \in Id : SendCancel(c, rid)
        PROVE  Lifecycle!Next
    <3>1. requests' \subseteq requests /\ UNCHANGED <<issued, callbacks>>
      BY <2>2 DEF OnContextCreated, OnContextReleased, SendCancel
    <3> QED
      BY <1>1, <3>1
  <2>3. ASSUME NEW c \in Context, ReceiveAnswer(c) PROVE Lifecycle!Next
    BY <2>3, SeenHeard
  <2> QED
    BY <1>3, <2>1, <2>2, <2>3 DEF RendererStep
<1>4. CASE BrowserStep
  <2>1. UNCHANGED <<requests, issued, callbacks>>
    BY <1>4 DEF BrowserStep, ReceiveQuery, ReceiveCancel, DeclineQuery, AcceptQuery,
       SweepNext, RunCallbackTask, RunCancelTask, OnBeforeBrowse, OnBeforeClose,
       OnRenderProcessTerminated
  <2> QED
    BY <1>1, <2>1
<1>5. CASE ApplicationStep
  <2>1. UNCHANGED <<requests, issued, callbacks>>
    BY <1>5 DEF ApplicationStep, ExecuteCallback, CancelPending, PostCancelPending,
       AddHandler, RemoveHandler
  <2> QED
    BY <1>1, <2>1
<1>6. CASE EnvironmentStep
  <2>1. requests' \subseteq requests /\ UNCHANGED <<issued, callbacks>>
    BY <1>6 DEF EnvironmentStep, NavigationAborted, RenderProcessGone
  <2> QED
    BY <1>1, <2>1
<1> QED
  BY <1>2, <1>3, <1>4, <1>5, <1>6 DEF Next

LEMMA LifecycleInit == Init => Lifecycle!Init
<1> SUFFICES ASSUME Init PROVE Lifecycle!Init
  OBVIOUS
<1>1. issued = <<>> /\ callbacks = [u \in Uid |-> <<>>] /\ DOMAIN <<>> = {}
  BY DEF Init
<1>2. \A u \in Uid : PhaseOf(u) = "unused"
  BY <1>1 DEF PhaseOf
<1> QED
  BY <1>1, <1>2 DEF Lifecycle!Init

(* The life cycle the header documents, for any number of pages, processes and
   handlers and whatever is in flight: a one-shot registration is ended by the
   single callback it runs, a persistent one by onFailure, and nothing is heard
   of a query after that.  It holds as long as no render process has used up
   its 2^31 - 1 IDs. *)
THEOREM QueriesFollowLifecycle ==
  ASSUME MaxQueries <= MaxId
  PROVE  Spec => ImplementsLifecycle
<1>1. Init => TypeOK /\ Numbered
  BY InitType, NumberedInit
<1>2. TypeOK /\ Numbered /\ [Next]_vars => TypeOK' /\ Numbered' /\ Lifecycle!Next
  BY TypeOKInductive, NumberedStep, LifecycleStep
<1>3. Lifecycle!Next => [Lifecycle!Next]_(Lifecycle!vars)
  OBVIOUS
<1> QED
  BY <1>1, <1>2, <1>3, LifecycleInit, PTL
     DEF Spec, ImplementsLifecycle, Lifecycle!Spec

----------------------------------------------------------------------------
(***************************************************************************)
(* Which call of cefQuery an ID stands for.  Requests, messages, offers    *)
(* and entries carry the ID of a request together with the call it was     *)
(* made for; in one process an ID never goes with two calls.               *)
(***************************************************************************)
Registers(p, id, u) == \E r \in requests : r.process = p /\ r.request_id = id /\ r.uid = u
Asks(p, id, u) ==
  \E c \in Context : /\ ProcessOf[c] = p
                     /\ \E m \in ToSet(toBrowser[c]) :
                          m.type = "query" /\ m.request_id = id /\ m.uid = u
Offers(p, id, u) == \E d \in dispatch : ProcessOf[d.frame] = p /\ d.request_id = id /\ d.uid = u
Keeps(p, id, u) == \E e \in queries : ProcessOf[e.frame] = p /\ e.request_id = id /\ e.uid = u
Answers(p, id, u) ==
  \E c \in Context : /\ ProcessOf[c] = p
                     /\ \E m \in ToSet(toRenderer[c]) : m.request_id = id /\ m.uid = u

Carried(p, id, u) == \/ Registers(p, id, u) \/ Asks(p, id, u) \/ Offers(p, id, u)
                     \/ Keeps(p, id, u) \/ Answers(p, id, u)

OneCallPerId ==
  /\ \A p \in Process, id \in Id, u \in Uid : Carried(p, id, u) => id <= requestIdGen[p]
  /\ \A p \in Process, id \in Id, u, v \in Uid :
       Carried(p, id, u) /\ Carried(p, id, v) => u = v

LEMMA OneCallInit == Init => OneCallPerId
<1> SUFFICES ASSUME Init PROVE OneCallPerId
  OBVIOUS
<1>1. ToSet(<<>>) = {}
  BY EmptySet
<1> QED
  BY <1>1 DEF Init, OneCallPerId, Carried, Registers, Asks, Offers, Keeps, Answers

LEMMA OneCallFewer ==
  ASSUME OneCallPerId, UNCHANGED requestIdGen,
         \A p \in Process, id \in Id, u \in Uid : Carried(p, id, u)' => Carried(p, id, u)
  PROVE  OneCallPerId'
BY DEF OneCallPerId

\* What the pipes hold after a message was sent or taken.
LEMMA SentToBrowser ==
  ASSUME TypeOK, NEW c \in Context, NEW m \in QueryMsg \union CancelMsg, SendToBrowser(c, m)
  PROVE  \A d \in Context : \A x \in ToSet(toBrowser'[d]) :
           x \in ToSet(toBrowser[d]) \/ (d = c /\ x = m)
<1> DEFINE q == toBrowser[c]
<1>1. /\ toBrowser \in [Context -> Seq(QueryMsg \union CancelMsg)]
      /\ q \in Seq(QueryMsg \union CancelMsg)
  BY DEF TypeOK
<1> HIDE DEF q
<1>2. ToSet(Append(q, m)) = ToSet(q) \union {m}
  BY <1>1, AppendSet
<1>3. toBrowser' = toBrowser \/ toBrowser' = [toBrowser EXCEPT ![c] = Append(q, m)]
  BY DEF SendToBrowser, q
<1> QED
  BY <1>1, <1>2, <1>3 DEF q

LEMMA Answered ==
  ASSUME TypeOK, NEW q, q.frame \in Context, q.context_id \in Id,
         q.request_id \in Id, q.uid \in Uid, NEW success \in BOOLEAN,
         Answer(q, success)
  PROVE  \A d \in Context : \A x \in ToSet(toRenderer'[d]) :
           \/ x \in ToSet(toRenderer[d])
           \/ d = q.frame /\ x.request_id = q.request_id /\ x.uid = q.uid
<1> DEFINE m == [success |-> success, context_id |-> q.context_id,
                 request_id |-> q.request_id, uid |-> q.uid]
           f == q.frame
           s == toRenderer[f]
<1>1. m \in AnswerMsg /\ m.request_id = q.request_id /\ m.uid = q.uid
  BY DEF AnswerMsg
<1>2. /\ toRenderer \in [Context -> Seq(AnswerMsg)] /\ f \in Context
      /\ s \in Seq(AnswerMsg)
  BY DEF TypeOK
<1>3. toRenderer' = toRenderer \/ toRenderer' = [toRenderer EXCEPT ![f] = Append(s, m)]
  BY DEF Answer
<1> HIDE DEF m, s
<1>4. ToSet(Append(s, m)) = ToSet(s) \union {m}
  BY <1>1, <1>2, AppendSet
<1>5. ASSUME NEW d \in Context, NEW x \in ToSet(toRenderer'[d]), x \notin ToSet(toRenderer[d])
      PROVE  d = f /\ x = m
  <2>1. toRenderer' = [toRenderer EXCEPT ![f] = Append(s, m)]
    BY <1>3, <1>5
  <2>2. d = f
    BY <1>2, <1>5, <2>1
  <2>3. x \in ToSet(Append(s, m)) /\ x \notin ToSet(s)
    BY <1>2, <1>5, <2>1, <2>2 DEF s
  <2> QED
    BY <1>4, <2>2, <2>3
<1> QED
  BY <1>1, <1>5

LEMMA Consumed ==
  ASSUME TypeOK, NEW c \in Context, toBrowser[c] # <<>>, Consume(c)
  PROVE  /\ \A d \in Context : ToSet(toBrowser'[d]) \subseteq ToSet(toBrowser[d])
         /\ Head(toBrowser[c]) \in ToSet(toBrowser[c])
<1> DEFINE q == toBrowser[c]
<1>1. /\ toBrowser \in [Context -> Seq(QueryMsg \union CancelMsg)]
      /\ q \in Seq(QueryMsg \union CancelMsg) /\ q # <<>>
  BY DEF TypeOK
<1>2. toBrowser' = [toBrowser EXCEPT ![c] = Tail(q)]
  BY DEF Consume
<1> HIDE DEF q
<1>3. ToSet(q) = {Head(q)} \union ToSet(Tail(q))
  BY <1>1, TailSet
<1> QED
  BY <1>1, <1>2, <1>3 DEF q

LEMMA CarriedNow ==
  /\ \A r \in requests : Carried(r.process, r.request_id, r.uid)
  /\ \A c \in Context : \A m \in ToSet(toBrowser[c]) :
       m.type = "query" => Carried(ProcessOf[c], m.request_id, m.uid)
  /\ \A d \in dispatch : Carried(ProcessOf[d.frame], d.request_id, d.uid)
  /\ \A e \in queries : Carried(ProcessOf[e.frame], e.request_id, e.uid)
  /\ \A c \in Context : \A m \in ToSet(toRenderer[c]) :
       Carried(ProcessOf[c], m.request_id, m.uid)
BY DEF Carried, Registers, Asks, Offers, Keeps, Answers

\* Steps that only pass an ID on.
LEMMA OneCallPassedOn ==
  ASSUME OneCallPerId, UNCHANGED requestIdGen,
         \A r \in requests' : Carried(r.process, r.request_id, r.uid),
         \A c \in Context : \A m \in ToSet(toBrowser'[c]) :
           m.type = "query" => Carried(ProcessOf[c], m.request_id, m.uid),
         \A d \in dispatch' : Carried(ProcessOf[d.frame], d.request_id, d.uid),
         \A e \in queries' : Carried(ProcessOf[e.frame], e.request_id, e.uid),
         \A c \in Context : \A m \in ToSet(toRenderer'[c]) :
           Carried(ProcessOf[c], m.request_id, m.uid)
  PROVE  OneCallPerId'
<1>1. ASSUME NEW p \in Process, NEW id \in Id, NEW u \in Uid, Carried(p, id, u)'
      PROVE  Carried(p, id, u)
  <2>1. CASE Registers(p, id, u)'
    BY <2>1 DEF Registers
  <2>2. CASE Asks(p, id, u)'
    BY <2>2 DEF Asks
  <2>3. CASE Offers(p, id, u)'
    BY <2>3 DEF Offers
  <2>4. CASE Keeps(p, id, u)'
    BY <2>4 DEF Keeps
  <2>5. CASE Answers(p, id, u)'
    BY <2>5 DEF Answers
  <2>6. \/ Registers(p, id, u)' \/ Asks(p, id, u)' \/ Offers(p, id, u)'
        \/ Keeps(p, id, u)' \/ Answers(p, id, u)'
    BY <1>1 DEF Carried
  <2> QED
    BY <2>1, <2>2, <2>3, <2>4, <2>5, <2>6
<1> QED
  BY <1>1, OneCallFewer

LEMMA OneCallSendQuery ==
  ASSUME MaxQueries <= MaxId, TypeOK, TypeOK', Numbered, OneCallPerId,
         NEW c \in Context, NEW persistent \in BOOLEAN, SendQuery(c, persistent)
  PROVE  OneCallPerId'
<1>1. PICK info \in RequestInfo :
           /\ info.uid = Len(issued) + 1 /\ info.persistent = persistent
           /\ info.process = ProcessOf[c] /\ info.browser = BrowserOf[c]
           /\ info.frame = c /\ info.context_id = ContextId(c)
           /\ info.request_id = requestIdGen[ProcessOf[c]] + 1
           /\ requestIdGen' = [requestIdGen EXCEPT ![ProcessOf[c]] = info.request_id]
           /\ requests' = requests \union {info}
           /\ \A r \in requests : ~SameRequest(r, info) /\ ~SameRequest(info, r)
           /\ issued' = Append(issued, persistent) /\ Len(issued) \in Nat
           /\ Len(issued) + 1 \in Uid
  BY NewRequest
<1> DEFINE p == ProcessOf[c]
           rid == info.request_id
           n == info.uid
           m == [type |-> "query", context_id |-> ContextId(c),
                 request_id |-> GetNextId(requestIdGen[p]), persistent |-> persistent,
                 uid |-> Len(issued) + 1]
<1>2. p \in Process /\ rid \in Id /\ n \in Uid
  BY RouterAssumption DEF RequestInfo
<1>3. requestIdGen[p] \in Nat /\ rid = requestIdGen[p] + 1 /\ requestIdGen \in [Process -> Nat]
  <2>1. requestIdGen \in [Process -> Id \union {ReservedId}]
    BY DEF TypeOK
  <2>2. Id \union {ReservedId} \subseteq Nat
    BY RouterAssumption DEF Id, ReservedId
  <2> QED
    BY <1>1, <1>2, <2>1, <2>2
<1>4. /\ SendToBrowser(c, m) /\ UNCHANGED <<dispatch, queries, toRenderer>>
      /\ requestIdGen' = [requestIdGen EXCEPT ![p] = GetNextId(requestIdGen[p])]
  BY DEF SendQuery, mapVars
<1>5. GetNextId(requestIdGen[p]) = rid
  BY <1>1, <1>2, <1>3, <1>4
<1>6. m \in QueryMsg /\ m.request_id = rid /\ m.uid = n
  <2>1. ContextId(c) \in Id
    BY ContextIdType
  <2> QED
    BY <1>1, <1>2, <1>5, <2>1 DEF QueryMsg
<1> HIDE DEF m
<1>7. \A d \in Context : \A x \in ToSet(toBrowser'[d]) :
        x \in ToSet(toBrowser[d]) \/ (d = c /\ x = m)
  BY <1>4, <1>6, SentToBrowser
<1>8. ASSUME NEW q \in Process, NEW id \in Id, NEW u \in Uid, Carried(q, id, u)'
      PROVE  Carried(q, id, u) \/ (q = p /\ id = rid /\ u = n)
  <2>1. CASE Registers(q, id, u)'
    BY <1>1, <2>1 DEF Registers, Carried
  <2>2. CASE Asks(q, id, u)'
    BY <1>6, <1>7, <2>2 DEF Asks, Carried
  <2>3. CASE Offers(q, id, u)'
    BY <1>4, <2>3 DEF Offers, Carried
  <2>4. CASE Keeps(q, id, u)'
    BY <1>4, <2>4 DEF Keeps, Carried
  <2>5. CASE Answers(q, id, u)'
    BY <1>4, <2>5 DEF Answers, Carried
  <2>6. \/ Registers(q, id, u)' \/ Asks(q, id, u)' \/ Offers(q, id, u)'
        \/ Keeps(q, id, u)' \/ Answers(q, id, u)'
    BY <1>8 DEF Carried
  <2> QED
    BY <2>1, <2>2, <2>3, <2>4, <2>5, <2>6
<1>9. \A u \in Uid : ~Carried(p, rid, u)
  BY <1>2, <1>3 DEF OneCallPerId
<1>10. ASSUME NEW q \in Process, NEW id \in Id, NEW u \in Uid, Carried(q, id, u)'
       PROVE  id <= requestIdGen'[q]
  <2>1. CASE Carried(q, id, u)
    <3>1. id <= requestIdGen[q] /\ id \in Nat
      BY <2>1, RouterAssumption DEF OneCallPerId, Id
    <3>2. requestIdGen[q] <= requestIdGen'[q] /\ requestIdGen'[q] \in Nat /\ requestIdGen[q] \in Nat
      BY <1>1, <1>3
    <3> QED
      BY <3>1, <3>2
  <2>2. CASE q = p /\ id = rid
    BY <1>1, <1>2, <1>3, <2>2
  <2> QED
    BY <1>8, <1>10, <2>1, <2>2
<1>11. ASSUME NEW q \in Process, NEW id \in Id, NEW u \in Uid, NEW v \in Uid,
              Carried(q, id, u)', Carried(q, id, v)'
       PROVE  u = v
  <2>1. Carried(q, id, u) \/ (q = p /\ id = rid /\ u = n)
    BY <1>8, <1>11
  <2>2. Carried(q, id, v) \/ (q = p /\ id = rid /\ v = n)
    BY <1>8, <1>11
  <2> QED
    BY <1>9, <2>1, <2>2 DEF OneCallPerId
<1> QED
  BY <1>10, <1>11 DEF OneCallPerId

\* The pipe to the page after a query was answered or canceled.
LEMMA AnswersCarried ==
  ASSUME TypeOK, NEW q, q.frame \in Context, q.context_id \in Id,
         q.request_id \in Id, q.uid \in Uid, NEW success \in BOOLEAN,
         Answer(q, success) \/ UNCHANGED toRenderer,
         Carried(ProcessOf[q.frame], q.request_id, q.uid)
  PROVE  \A c \in Context : \A m \in ToSet(toRenderer'[c]) :
           Carried(ProcessOf[c], m.request_id, m.uid)
<1>1. CASE UNCHANGED toRenderer
  BY <1>1, CarriedNow
<1>2. CASE Answer(q, success)
  <2>1. \A d \in Context : \A x \in ToSet(toRenderer'[d]) :
           \/ x \in ToSet(toRenderer[d])
           \/ d = q.frame /\ x.request_id = q.request_id /\ x.uid = q.uid
    BY <1>2, Answered
  <2> QED
    BY <2>1, CarriedNow
<1> QED
  BY <1>1, <1>2

LEMMA CancelCarried ==
  ASSUME TypeOK, NEW e \in queries, NEW notify \in BOOLEAN, CancelQuery(e, notify)
  PROVE  /\ queries' \subseteq queries
         /\ \A c \in Context : \A m \in ToSet(toRenderer'[c]) :
              Carried(ProcessOf[c], m.request_id, m.uid)
<1>1. /\ e.frame \in Context /\ e.context_id \in Id /\ e.request_id \in Id
      /\ e.uid \in Uid
  BY DEF TypeOK, QueryInfo
<1>2. queries' \subseteq queries /\ (Answer(e, FALSE) \/ UNCHANGED toRenderer)
  BY DEF CancelQuery
<1>3. Carried(ProcessOf[e.frame], e.request_id, e.uid)
  BY CarriedNow
<1> QED
  BY <1>1, <1>2, <1>3, AnswersCarried

LEMMA OneCallRendererStep ==
  ASSUME MaxQueries <= MaxId, TypeOK, TypeOK', Numbered, OneCallPerId, RendererStep
  PROVE  OneCallPerId'
<1> USE DEF rendererVars, pipeVars, mapVars, envVars, ghostVars
<1>1. ASSUME NEW c \in Context, NEW persistent \in BOOLEAN, SendQuery(c, persistent)
      PROVE  OneCallPerId'
  BY <1>1, OneCallSendQuery
<1>2. ASSUME NEW c \in Context, OnContextCreated(c)
      PROVE  OneCallPerId'
  <2>1. UNCHANGED <<requestIdGen, requests, toBrowser, dispatch, queries, toRenderer>>
    BY <1>2 DEF OnContextCreated
  <2> QED
    BY <2>1, CarriedNow, OneCallPassedOn
<1>3. ASSUME NEW c \in Context, NEW m \in CancelMsg,
             SendToBrowser(c, m) \/ UNCHANGED toBrowser,
             requests' \subseteq requests,
             UNCHANGED <<requestIdGen, dispatch, queries, toRenderer>>
      PROVE  OneCallPerId'
  <2>1. m.type = "cancel"
    BY DEF CancelMsg
  <2>2. \A d \in Context : \A x \in ToSet(toBrowser'[d]) :
          x \in ToSet(toBrowser[d]) \/ x.type # "query"
    <3>1. CASE UNCHANGED toBrowser
      BY <3>1
    <3>2. CASE SendToBrowser(c, m)
      <4>1. \A d \in Context : \A x \in ToSet(toBrowser'[d]) :
              x \in ToSet(toBrowser[d]) \/ (d = c /\ x = m)
        BY <3>2, SentToBrowser
      <4> QED
        BY <2>1, <4>1
    <3> QED
      BY <1>3, <3>1, <3>2
  <2> QED
    BY <1>3, <2>2, CarriedNow, OneCallPassedOn
<1>4. ASSUME NEW c \in Context, NEW rid \in Id, SendCancel(c, rid)
      PROVE  OneCallPerId'
  <2> DEFINE m == [type |-> "cancel", context_id |-> ContextId(c), request_id |-> rid]
  <2>1. m \in CancelMsg
    <3>1. ContextId(c) \in Id
      BY ContextIdType
    <3> QED
      BY <3>1 DEF CancelMsg
  <2>2. /\ SendToBrowser(c, m) \/ UNCHANGED toBrowser
        /\ requests' \subseteq requests
        /\ UNCHANGED <<requestIdGen, dispatch, queries, toRenderer>>
    BY <1>4 DEF SendCancel
  <2> HIDE DEF m
  <2> QED
    BY <1>3, <2>1, <2>2
<1>5. ASSUME NEW c \in Context, OnContextReleased(c)
      PROVE  OneCallPerId'
  <2> DEFINE gone == {r \in requests : /\ r.process = ProcessOf[c]
                                       /\ r.browser = BrowserOf[c]
                                       /\ r.context_id = ctxId[c]}
             m == [type |-> "cancel", context_id |-> ctxId[c],
                   request_id |-> ReservedId]
  <2>1. /\ IF gone # {} THEN SendToBrowser(c, m) ELSE UNCHANGED toBrowser
        /\ requests' \subseteq requests
        /\ UNCHANGED <<requestIdGen, dispatch, queries, toRenderer>>
    BY <1>5 DEF OnContextReleased
  <2>2. CASE gone # {}
    <3>1. m \in CancelMsg
      BY <2>2 DEF CancelMsg, TypeOK, RequestInfo
    <3> HIDE DEF m, gone
    <3> QED
      BY <1>3, <2>1, <2>2, <3>1
  <2>3. CASE gone = {}
    BY <2>1, <2>3, CarriedNow, OneCallPassedOn
  <2> QED
    BY <2>2, <2>3
<1>6. ASSUME NEW c \in Context, ReceiveAnswer(c)
      PROVE  OneCallPerId'
  <2> DEFINE q == toRenderer[c]
  <2>1. /\ q # <<>> /\ toRenderer' = [toRenderer EXCEPT ![c] = Tail(q)]
        /\ requests' \subseteq requests
        /\ UNCHANGED <<requestIdGen, dispatch, queries, toBrowser>>
    BY <1>6 DEF ReceiveAnswer
  <2>2. q \in Seq(AnswerMsg) /\ toRenderer \in [Context -> Seq(AnswerMsg)]
    BY DEF TypeOK
  <2> HIDE DEF q
  <2>3. ToSet(Tail(q)) \subseteq ToSet(q)
    BY <2>1, <2>2, TailSet
  <2>4. \A d \in Context : ToSet(toRenderer'[d]) \subseteq ToSet(toRenderer[d])
    BY <2>1, <2>2, <2>3 DEF q
  <2> QED
    BY <2>1, <2>4, CarriedNow, OneCallPassedOn
<1> QED
  BY <1>1, <1>2, <1>4, <1>5, <1>6 DEF RendererStep

LEMMA OneCallReceiveQuery ==
  ASSUME TypeOK, OneCallPerId, NEW c \in Context, ReceiveQuery(c)
  PROVE  OneCallPerId'
<1> DEFINE m == Head(toBrowser[c])
           q == [frame |-> c, context_id |-> m.context_id,
                 request_id |-> m.request_id, uid |-> m.uid]
           d == [frame |-> c, context_id |-> m.context_id,
                 request_id |-> m.request_id, persistent |-> m.persistent,
                 uid |-> m.uid, query_id |-> queryIdGen + 1, rest |-> handlers]
<1>1. /\ toBrowser[c] # <<>> /\ m.type = "query" /\ Consume(c)
      /\ UNCHANGED <<requestIdGen, requests, queries>>
  BY DEF ReceiveQuery, NextMsg, rendererVars
<1>2. m \in QueryMsg
  BY <1>1, ConsumeType DEF CancelMsg
<1>3. /\ \A x \in Context : ToSet(toBrowser'[x]) \subseteq ToSet(toBrowser[x])
      /\ m \in ToSet(toBrowser[c])
  BY <1>1, Consumed
<1>4. \/ Answer(q, FALSE) /\ UNCHANGED dispatch
      \/ UNCHANGED toRenderer /\ dispatch' = {d}
  BY DEF ReceiveQuery
<1> HIDE DEF m
<1>5. /\ q.frame = c /\ q.request_id = m.request_id /\ q.uid = m.uid /\ q.context_id = m.context_id
      /\ d.frame = c /\ d.request_id = m.request_id /\ d.uid = m.uid
  OBVIOUS
<1> HIDE DEF q, d
<1>6. Carried(ProcessOf[c], m.request_id, m.uid)
  BY <1>1, <1>3, CarriedNow
<1>7. /\ q.frame \in Context /\ q.context_id \in Id /\ q.request_id \in Id /\ q.uid \in Uid
      /\ Carried(ProcessOf[q.frame], q.request_id, q.uid)
  BY <1>2, <1>5, <1>6 DEF QueryMsg
<1>8. \A x \in Context : \A y \in ToSet(toRenderer'[x]) :
        Carried(ProcessOf[x], y.request_id, y.uid)
  BY <1>4, <1>7, AnswersCarried
<1>9. \A x \in dispatch' : Carried(ProcessOf[x.frame], x.request_id, x.uid)
  BY <1>4, <1>5, <1>6, CarriedNow
<1>10. \A x \in Context : \A y \in ToSet(toBrowser'[x]) :
        y.type = "query" => Carried(ProcessOf[x], y.request_id, y.uid)
  BY <1>3, CarriedNow
<1> QED
  BY <1>1, <1>8, <1>9, <1>10, CarriedNow, OneCallPassedOn

\* The pipes of some frames break.
LEMMA OneCallDropped ==
  ASSUME OneCallPerId, UNCHANGED <<requestIdGen, requests, dispatch, queries>>,
         NEW cs, DropPipes(cs)
  PROVE  OneCallPerId'
<1>1. ToSet(<<>>) = {}
  BY EmptySet
<1>2. \A x \in Context : /\ ToSet(toBrowser'[x]) \subseteq ToSet(toBrowser[x])
                         /\ ToSet(toRenderer'[x]) \subseteq ToSet(toRenderer[x])
  BY <1>1 DEF DropPipes
<1>3. \A x \in Context : \A y \in ToSet(toBrowser'[x]) :
        y.type = "query" => Carried(ProcessOf[x], y.request_id, y.uid)
  BY <1>2, CarriedNow
<1>4. \A x \in Context : \A y \in ToSet(toRenderer'[x]) :
        Carried(ProcessOf[x], y.request_id, y.uid)
  BY <1>2, CarriedNow
<1> QED
  BY <1>3, <1>4, CarriedNow, OneCallPassedOn

LEMMA OneCallBrowserStep ==
  ASSUME TypeOK, OneCallPerId, BrowserStep
  PROVE  OneCallPerId'
<1> USE DEF rendererVars, pipeVars, mapVars, envVars, ghostVars
<1>1. ASSUME NEW c \in Context, ReceiveQuery(c) PROVE OneCallPerId'
  BY <1>1, OneCallReceiveQuery
<1>2. ASSUME NEW c \in Context, ReceiveCancel(c) PROVE OneCallPerId'
  <2>1. /\ toBrowser[c] # <<>> /\ Consume(c)
        /\ UNCHANGED <<requestIdGen, requests, dispatch>>
        /\ \/ UNCHANGED <<toRenderer, queries>>
           \/ \E e \in queries : CancelQuery(e, FALSE)
    BY <1>2 DEF ReceiveCancel, NextMsg, FirstOf
  <2>2. \A x \in Context : ToSet(toBrowser'[x]) \subseteq ToSet(toBrowser[x])
    BY <2>1, Consumed
  <2>3. /\ queries' \subseteq queries
        /\ \A x \in Context : \A y \in ToSet(toRenderer'[x]) :
             Carried(ProcessOf[x], y.request_id, y.uid)
    BY <2>1, CancelCarried, CarriedNow
  <2>4. \A x \in Context : \A y \in ToSet(toBrowser'[x]) :
          y.type = "query" => Carried(ProcessOf[x], y.request_id, y.uid)
    BY <2>2, CarriedNow
  <2> QED
    BY <2>1, <2>3, <2>4, CarriedNow, OneCallPassedOn
<1>3. CASE DeclineQuery
  <2>1. PICK d \in dispatch :
          /\ \/ dispatch' = {[d EXCEPT !.rest = Tail(@)]} /\ UNCHANGED toRenderer
             \/ dispatch' = {} /\ Answer(d, FALSE)
          /\ UNCHANGED <<requestIdGen, requests, toBrowser, queries>>
    BY <1>3 DEF DeclineQuery
  <2>2. /\ d \in Dispatch /\ Carried(ProcessOf[d.frame], d.request_id, d.uid)
        /\ d.frame \in Context /\ d.context_id \in Id /\ d.request_id \in Id /\ d.uid \in Uid
    BY CarriedNow DEF TypeOK, Dispatch
  <2>3. \A x \in dispatch' : Carried(ProcessOf[x.frame], x.request_id, x.uid)
    <3>1. CASE dispatch' = {}
      BY <3>1
    <3>2. CASE dispatch' = {[d EXCEPT !.rest = Tail(@)]}
      <4> DEFINE x == [d EXCEPT !.rest = Tail(@)]
      <4>1. x.frame = d.frame /\ x.request_id = d.request_id /\ x.uid = d.uid
        BY <2>2 DEF Dispatch
      <4> HIDE DEF x
      <4>2. dispatch' = {x}
        BY <3>2 DEF x
      <4> QED
        BY <2>2, <4>1, <4>2
    <3> QED
      BY <2>1, <3>1, <3>2
  <2>4. \A x \in Context : \A y \in ToSet(toRenderer'[x]) :
          Carried(ProcessOf[x], y.request_id, y.uid)
    BY <2>1, <2>2, AnswersCarried
  <2> QED
    BY <2>1, <2>3, <2>4, CarriedNow, OneCallPassedOn
<1>4. CASE AcceptQuery
  <2>1. PICK d \in dispatch :
          /\ dispatch' = {}
          /\ queries' = queries \union
               {[browser |-> BrowserOf[d.frame], frame |-> d.frame,
                 context_id |-> d.context_id, request_id |-> d.request_id,
                 persistent |-> d.persistent, query_id |-> d.query_id,
                 handler |-> Head(d.rest), uid |-> d.uid]}
          /\ UNCHANGED <<requestIdGen, requests, toBrowser, toRenderer>>
    BY <1>4 DEF AcceptQuery
  <2>2. \A e \in queries' : Carried(ProcessOf[e.frame], e.request_id, e.uid)
    <3> DEFINE x == [browser |-> BrowserOf[d.frame], frame |-> d.frame,
                     context_id |-> d.context_id, request_id |-> d.request_id,
                     persistent |-> d.persistent, query_id |-> d.query_id,
                     handler |-> Head(d.rest), uid |-> d.uid]
    <3>1. x.frame = d.frame /\ x.request_id = d.request_id /\ x.uid = d.uid
      OBVIOUS
    <3> HIDE DEF x
    <3>2. queries' = queries \union {x}
      BY <2>1 DEF x
    <3> QED
      BY <3>1, <3>2, CarriedNow
  <2>3. \A x \in dispatch' : Carried(ProcessOf[x.frame], x.request_id, x.uid)
    BY <2>1
  <2> QED
    BY <2>1, <2>2, <2>3, CarriedNow, OneCallPassedOn
<1>5. CASE SweepNext
  <2>1. /\ \E e \in queries, s \in sweep : CancelQuery(e, s.notify)
        /\ UNCHANGED <<requestIdGen, requests, toBrowser, dispatch>>
    BY <1>5 DEF SweepNext, FirstOf
  <2>2. \A s \in sweep : s.notify \in BOOLEAN
    BY DEF TypeOK, Sweep
  <2>3. /\ queries' \subseteq queries
        /\ \A x \in Context : \A y \in ToSet(toRenderer'[x]) :
             Carried(ProcessOf[x], y.request_id, y.uid)
    BY <2>1, <2>2, CancelCarried
  <2> QED
    BY <2>1, <2>3, CarriedNow, OneCallPassedOn
<1>6. CASE RunCallbackTask
  <2>1. /\ queries' \subseteq queries
        /\ UNCHANGED <<requestIdGen, requests, toBrowser, dispatch>>
        /\ \/ UNCHANGED toRenderer
           \/ \E e \in queries, success \in BOOLEAN : Answer(e, success)
    BY <1>6 DEF RunCallbackTask
  <2>2. \A e \in queries :
          /\ e.frame \in Context /\ e.context_id \in Id /\ e.request_id \in Id /\ e.uid \in Uid
          /\ Carried(ProcessOf[e.frame], e.request_id, e.uid)
    BY CarriedNow DEF TypeOK, QueryInfo
  <2>3. \A x \in Context : \A y \in ToSet(toRenderer'[x]) :
          Carried(ProcessOf[x], y.request_id, y.uid)
    BY <2>1, <2>2, AnswersCarried, CarriedNow
  <2> QED
    BY <2>1, <2>3, CarriedNow, OneCallPassedOn
<1>7. CASE RunCancelTask \/ \E b \in Browser : OnBeforeBrowse(b)
  <2>1. UNCHANGED <<requestIdGen, requests, toBrowser, dispatch, queries, toRenderer>>
    BY <1>7 DEF RunCancelTask, OnBeforeBrowse
  <2> QED
    BY <2>1, CarriedNow, OneCallPassedOn
<1>8. ASSUME NEW b \in Browser, OnBeforeClose(b) \/ OnRenderProcessTerminated(b)
      PROVE  OneCallPerId'
  <2>1. /\ UNCHANGED <<requestIdGen, requests, dispatch, queries>>
        /\ \E cs : DropPipes(cs)
    BY <1>8 DEF OnBeforeClose, OnRenderProcessTerminated
  <2> QED
    BY <2>1, OneCallDropped
<1> QED
  BY <1>1, <1>2, <1>3, <1>4, <1>5, <1>6, <1>7, <1>8 DEF BrowserStep

LEMMA OneCallStep ==
  ASSUME MaxQueries <= MaxId, TypeOK, TypeOK', Numbered, OneCallPerId, [Next]_vars
  PROVE  OneCallPerId'
<1> USE DEF rendererVars, pipeVars, mapVars, envVars, ghostVars
<1>1. CASE UNCHANGED <<requestIdGen, requests, toBrowser, dispatch, queries, toRenderer>>
  BY <1>1, CarriedNow, OneCallPassedOn
<1>2. CASE UNCHANGED vars
  BY <1>1, <1>2 DEF vars
<1>3. CASE RendererStep
  BY <1>3, OneCallRendererStep
<1>4. CASE BrowserStep
  BY <1>4, OneCallBrowserStep
<1>5. CASE ApplicationStep
  BY <1>1, <1>5 DEF ApplicationStep, ExecuteCallback, CancelPending, PostCancelPending,
     AddHandler, RemoveHandler
<1>6. CASE EnvironmentStep
  <2>1. /\ requests' \subseteq requests
        /\ UNCHANGED <<requestIdGen, toBrowser, dispatch, queries, toRenderer>>
    BY <1>6 DEF EnvironmentStep, NavigationAborted, RenderProcessGone
  <2> QED
    BY <2>1, CarriedNow, OneCallPassedOn
<1> QED
  BY <1>2, <1>3, <1>4, <1>5, <1>6 DEF Next

LEMMA AnswersAgree == TypeOK /\ OneCallPerId => AnswerReachesItsRequest
<1> SUFFICES ASSUME TypeOK, OneCallPerId, NEW c \in Context,
                    NEW i \in DOMAIN toRenderer[c],
                    NEW r \in FindRequest(c, toRenderer[c][i].context_id,
                                             toRenderer[c][i].request_id)
             PROVE  r.uid = toRenderer[c][i].uid
  BY DEF AnswerReachesItsRequest
<1> DEFINE m == toRenderer[c][i]
<1>1. m \in ToSet(toRenderer[c]) /\ m \in AnswerMsg
  BY DEF TypeOK, ToSet
<1> HIDE DEF m
<1>2. r \in requests /\ r.process = ProcessOf[c] /\ r.request_id = m.request_id
  BY DEF FindRequest, m
<1>3. /\ Carried(ProcessOf[c], m.request_id, m.uid)
      /\ Carried(ProcessOf[c], m.request_id, r.uid)
  BY <1>1, <1>2, CarriedNow
<1>4. ProcessOf[c] \in Process /\ m.request_id \in Id /\ m.uid \in Uid /\ r.uid \in Uid
  BY <1>1, <1>2, RouterAssumption DEF AnswerMsg, TypeOK, RequestInfo
<1>5. r.uid = m.uid
  BY <1>3, <1>4 DEF OneCallPerId
<1> QED
  BY <1>5 DEF m

(* An answer finds the registration of the very call it was given to, in any
   number of frames, processes and browsers, whatever was canceled, asked again
   or navigated away meanwhile, while no process has used up its IDs. *)
THEOREM AnswersReachTheirRequests ==
  ASSUME MaxQueries <= MaxId
  PROVE  Spec => []AnswerReachesItsRequest
<1>1. Init => TypeOK /\ Numbered /\ OneCallPerId
  BY InitType, NumberedInit, OneCallInit
<1>2. TypeOK /\ Numbered /\ OneCallPerId /\ [Next]_vars =>
        TypeOK' /\ Numbered' /\ OneCallPerId'
  BY TypeOKInductive, NumberedStep, OneCallStep
<1> QED
  BY <1>1, <1>2, AnswersAgree, PTL DEF Spec

----------------------------------------------------------------------------
(***************************************************************************)
(* Where a call of cefQuery is on the browser side.  It is asked for by a  *)
(* message, offered to the handlers, pending in the map, or answered for   *)
(* the last time; the theorems say that it is in one of these places as    *)
(* long as the page waits, and in none when the page gave it up, unless    *)
(* what removes it is on its way.                                          *)
(***************************************************************************)

\* The contexts have not used up the context IDs, nor the queries theirs; and
\* the frames of a browser live in one process.
IdsSuffice ==
  /\ MaxQueries <= MaxId
  /\ IsFiniteSet(Context) /\ Cardinality(Context) <= MaxId
FramesShareProcess ==
  \A c, d \in Context : BrowserOf[c] = BrowserOf[d] => ProcessOf[c] = ProcessOf[d]

\* The answers after which a request is over.
Final == {m \in AnswerMsg : m.success => ~issued[m.uid]}

Stage == {"asked", "offered", "pending", "answered"}
At(k, c) ==
  CASE k = "asked"    -> ToSet(toBrowser[c]) \intersect QueryMsg
    [] k = "offered"  -> {d \in dispatch : d.frame = c}
    [] k = "pending"  -> {e \in queries : e.frame = c}
    [] k = "answered" -> ToSet(toRenderer[c]) \intersect Final

\* The cancel message m is meant for x.
Cancels(m, x) == /\ m.context_id = x.context_id
                 /\ m.request_id \in {ReservedId, x.request_id}

\* Nothing comes twice in a pipe, and no cancel message before its query.
PipeOrder == {<<x, x>> : x \in QueryMsg}
             \union {y \in QueryMsg \X CancelMsg : Cancels(y[2], y[1])}
AnswerOrder == {<<x, x>> : x \in Final}

\* In one process a context ID stands for one context.
Identified(p) == {c \in Context : ProcessOf[c] = p /\ ctxId[c] # ReservedId}
ContextsApart ==
  /\ \A p \in Process : contextIdGen[p] <= Cardinality(Identified(p))
  /\ \A c \in Context : ctxId[c] <= contextIdGen[ProcessOf[c]]
  /\ \A c, d \in Context :
       ProcessOf[c] = ProcessOf[d] /\ ctxId[c] = ctxId[d] /\ ctxId[c] # ReservedId => c = d

\* Only live pages have an ID and wait, and none in a process that is gone.
PagesLive ==
  /\ \A c \in Context : ctxState[c] = "none" => ctxId[c] = ReservedId
  /\ \A r \in requests :
       /\ ctxState[r.frame] = "live" /\ r.context_id = ctxId[r.frame]
       /\ r.process = ProcessOf[r.frame] /\ r.browser = BrowserOf[r.frame]
  /\ \A c \in Context : ctxState[c] = "live" => ProcessOf[c] \notin crashed
  /\ \A c \in Context : BrowserOf[c] \in terminated => ProcessOf[c] \in crashed

\* x stands for a call of cefQuery in frame c.
StandsFor(k, c, x) ==
  /\ x.uid \in 1..Len(issued) /\ x.context_id = ctxId[c]
  /\ k # "answered" => x.persistent = issued[x.uid]
  /\ \A r \in requests : r.uid = x.uid => r.frame = c /\ r.request_id = x.request_id
PlacesSound ==
  /\ \A k \in Stage, c \in Context : \A x \in At(k, c) : StandsFor(k, c, x)
  /\ \A c \in Context : \A m \in ToSet(toRenderer[c]) : m.uid \in 1..Len(issued)
  /\ \A e \in queries : e.browser = BrowserOf[e.frame]

OnePlace ==
  \A k, l \in Stage, c, d \in Context : \A x \in At(k, c), y \in At(l, d) :
    x.uid = y.uid => k = l /\ c = d /\ x = y
PipesOrdered ==
  \A c \in Context : InOrder(toBrowser[c], PipeOrder) /\ InOrder(toRenderer[c], AnswerOrder)

\* What is canceled is no longer waited for.
CancelsSound ==
  \A c \in Context : \A m \in ToSet(toBrowser[c]) : m \in CancelMsg =>
    /\ m.request_id <= requestIdGen[ProcessOf[c]]
    /\ m.request_id = ReservedId => ctxState[c] # "live"
    /\ m.context_id = ctxId[c]
    /\ \A r \in requests : r.frame = c => ~Cancels(m, r)

\* Nothing is left of a browser that closed, but what the pass at hand removes.
ClosedAreSwept ==
  /\ \A s, t \in sweep : s = t
  /\ \A c \in Context : BrowserOf[c] \notin open =>
       /\ toBrowser[c] = <<>> /\ At("offered", c) = {}
       /\ \A e \in At("pending", c) : \E s \in sweep : Matches(e, s)

\* Nothing is forgotten: whatever nobody waits for will be removed.
Waited(x) == \E r \in requests : r.uid = x.uid
Doomed(k, c, x) ==
  \/ BrowserOf[c] \in terminated
  \/ k = "pending" /\ \E s \in sweep : Matches(x, s)
  \/ \E m \in ToSet(toBrowser[c]) : m \in CancelMsg /\ Cancels(m, x)
NoneForgotten ==
  \A k \in Stage \ {"answered"}, c \in Context : \A x \in At(k, c) :
    Waited(x) \/ Doomed(k, c, x)

\* A pass that tells the page nothing removes what no page that stays waits for.
SilentForLeavers ==
  /\ \A s \in sweep : ~s.notify =>
       \A e \in queries, r \in requests :
         Matches(e, s) /\ r.uid = e.uid => r.browser \notin open \/ r.frame \in leaving
  /\ \A t \in ToSet(tasks) : t.kind = "cancel" => t.which.notify

\* What a page that stays waits for is in one of the places.
NoneLost ==
  \A r \in requests : r.browser \in open /\ r.frame \notin leaving =>
    \E k \in Stage : \E x \in At(k, r.frame) : x.uid = r.uid

----------------------------------------------------------------------------
LEMMA AtFacts ==
  ASSUME NEW c
  PROVE  /\ At("asked", c) = ToSet(toBrowser[c]) \intersect QueryMsg
         /\ At("offered", c) = {d \in dispatch : d.frame = c}
         /\ At("pending", c) = {e \in queries : e.frame = c}
         /\ At("answered", c) = ToSet(toRenderer[c]) \intersect Final
BY DEF At

LEMMA AtNext ==
  ASSUME NEW c
  PROVE  /\ At("asked", c)' = ToSet(toBrowser'[c]) \intersect QueryMsg
         /\ At("offered", c)' = {d \in dispatch' : d.frame = c}
         /\ At("pending", c)' = {e \in queries' : e.frame = c}
         /\ At("answered", c)' = ToSet(toRenderer'[c]) \intersect Final'
BY DEF At

LEMMA AtSame ==
  ASSUME NEW c
  PROVE  /\ toBrowser'[c] = toBrowser[c] => At("asked", c)' = At("asked", c)
         /\ dispatch' = dispatch => At("offered", c)' = At("offered", c)
         /\ queries' = queries => At("pending", c)' = At("pending", c)
         /\ toRenderer'[c] = toRenderer[c] /\ issued' = issued
              => At("answered", c)' = At("answered", c)
<1>1. toBrowser'[c] = toBrowser[c] => At("asked", c)' = At("asked", c)
  BY DEF At
<1>2. dispatch' = dispatch => At("offered", c)' = At("offered", c)
  BY DEF At
<1>3. queries' = queries => At("pending", c)' = At("pending", c)
  BY DEF At
<1>4. toRenderer'[c] = toRenderer[c] /\ issued' = issued => At("answered", c)' = At("answered", c)
  BY DEF At, Final
<1> QED
  BY <1>1, <1>2, <1>3, <1>4

LEMMA AtType ==
  ASSUME TypeOK, NEW k \in Stage, NEW c \in Context, NEW x \in At(k, c)
  PROVE  /\ x.uid \in Uid /\ x.request_id \in Id /\ x.context_id \in Id
         /\ k # "answered" => x.persistent \in BOOLEAN
<1>1. CASE k = "asked"
  BY <1>1, AtFacts DEF QueryMsg
<1>2. CASE k = "offered"
  <2>1. x \in Dispatch
    BY <1>2, AtFacts DEF TypeOK
  <2> QED
    BY <1>2, <2>1 DEF Dispatch
<1>3. CASE k = "pending"
  <2>1. x \in QueryInfo
    BY <1>3, AtFacts DEF TypeOK
  <2> QED
    BY <1>3, <2>1 DEF QueryInfo
<1>4. CASE k = "answered"
  BY <1>4, AtFacts DEF Final, AnswerMsg
<1> QED
  BY <1>1, <1>2, <1>3, <1>4 DEF Stage

\* Every entry of the map, and what is being offered, is at its frame.
LEMMA EntryPlace ==
  ASSUME TypeOK, NEW e \in queries
  PROVE  e.frame \in Context /\ e \in At("pending", e.frame)
<1>1. e \in QueryInfo
  BY DEF TypeOK
<1>2. e.frame \in Context
  BY <1>1 DEF QueryInfo
<1>3. e \in At("pending", e.frame)
  BY AtFacts
<1> QED
  BY <1>2, <1>3

LEMMA OfferPlace ==
  ASSUME TypeOK, NEW d \in dispatch
  PROVE  d.frame \in Context /\ d \in At("offered", d.frame)
<1>1. d \in Dispatch
  BY DEF TypeOK
<1>2. d.frame \in Context
  BY <1>1 DEF Dispatch
<1>3. d \in At("offered", d.frame)
  BY AtFacts
<1> QED
  BY <1>2, <1>3

\* The messages of a pipe.
LEMMA PipeTypes ==
  ASSUME TypeOK, NEW c \in Context
  PROVE  /\ toBrowser[c] \in Seq(QueryMsg \union CancelMsg)
         /\ toRenderer[c] \in Seq(AnswerMsg)
         /\ \A m \in ToSet(toBrowser[c]) : m \in QueryMsg \union CancelMsg
         /\ \A m \in ToSet(toRenderer[c]) : m \in AnswerMsg
         /\ \A m \in QueryMsg \union CancelMsg : (m.type = "query" <=> m \in QueryMsg)
                                                /\ (m.type = "cancel" <=> m \in CancelMsg)
<1>1. /\ toBrowser[c] \in Seq(QueryMsg \union CancelMsg)
      /\ toRenderer[c] \in Seq(AnswerMsg)
  BY DEF TypeOK
<1>2. /\ \A m \in ToSet(toBrowser[c]) : m \in QueryMsg \union CancelMsg
      /\ \A m \in ToSet(toRenderer[c]) : m \in AnswerMsg
  BY <1>1, ToSetType
<1>3. /\ \A m \in QueryMsg : m.type = "query"
      /\ \A m \in CancelMsg : m.type = "cancel"
  BY DEF QueryMsg, CancelMsg
<1> QED
  BY <1>1, <1>2, <1>3

PlacesInv ==
  /\ ContextsApart /\ PagesLive /\ PlacesSound /\ OnePlace /\ PipesOrdered
  /\ CancelsSound /\ ClosedAreSwept /\ NoneForgotten
LossInv == SilentForLeavers /\ NoneLost

----------------------------------------------------------------------------
(* A step takes one call y from k0 on to k1, where z stands for it; if not
   sent, it is nowhere then. *)
Moves(k0, c, y, k1, z, sent) ==
  /\ y \in At(k0, c)
  /\ z.uid = y.uid /\ z.request_id = y.request_id /\ z.context_id = y.context_id
  /\ k1 # "answered" => z.persistent = y.persistent
  /\ \A k \in Stage, d \in Context : \A x :
       x \in At(k, d)' <=> \/ x \in At(k, d) /\ x.uid # y.uid
                           \/ sent /\ k = k1 /\ d = c /\ x = z

LEMMA MovesOnePlace ==
  ASSUME OnePlace, NEW k0 \in Stage, NEW k1 \in Stage, NEW c \in Context,
         NEW y, NEW z, NEW sent, Moves(k0, c, y, k1, z, sent)
  PROVE  OnePlace'
<1> SUFFICES ASSUME NEW k \in Stage, NEW l \in Stage, NEW d \in Context, NEW e \in Context,
                    NEW x \in At(k, d)', NEW w \in At(l, e)', x.uid = w.uid
             PROVE  k = l /\ d = e /\ x = w
  BY DEF OnePlace
<1>1. \/ x \in At(k, d) /\ x.uid # y.uid
      \/ k = k1 /\ d = c /\ x = z
  BY DEF Moves
<1>2. \/ w \in At(l, e) /\ w.uid # y.uid
      \/ l = k1 /\ e = c /\ w = z
  BY DEF Moves
<1>3. z.uid = y.uid
  BY DEF Moves
<1> QED
  BY <1>1, <1>2, <1>3 DEF OnePlace

LEMMA MovesSound ==
  ASSUME PlacesSound, NEW k0 \in Stage \ {"answered"}, NEW k1 \in Stage, NEW c \in Context,
         NEW y, NEW z, NEW sent, Moves(k0, c, y, k1, z, sent),
         requests' \subseteq requests, UNCHANGED <<ctxId, issued>>,
         \A d \in Context : \A m \in ToSet(toRenderer'[d]) :
           m \in ToSet(toRenderer[d]) \/ m.uid = y.uid,
         \A e \in queries' : e \in queries \/ e.browser = BrowserOf[e.frame]
  PROVE  PlacesSound'
<1>1. StandsFor(k0, c, y)
  BY DEF PlacesSound, Moves
<1>2. ASSUME NEW k \in Stage, NEW d \in Context, NEW x \in At(k, d)'
      PROVE  StandsFor(k, d, x)'
  <2>1. CASE x \in At(k, d)
    <3>1. StandsFor(k, d, x)
      BY <2>1 DEF PlacesSound
    <3> QED
      BY <3>1 DEF StandsFor
  <2>2. CASE k = k1 /\ d = c /\ x = z
    BY <1>1, <2>2 DEF StandsFor, Moves
  <2> QED
    BY <1>2, <2>1, <2>2 DEF Moves
<1>3. \A d \in Context : \A m \in ToSet(toRenderer'[d]) : m.uid \in 1..Len(issued')
  BY <1>1 DEF PlacesSound, StandsFor
<1>4. \A e \in queries' : e.browser = BrowserOf[e.frame]
  BY DEF PlacesSound
<1> QED
  BY <1>2, <1>3, <1>4 DEF PlacesSound

\* A step of the browser process that takes one call y further.
LEMMA BrowserMove ==
  ASSUME PlacesInv,
         UNCHANGED <<requests, ctxState, ctxId, contextIdGen, requestIdGen, open, leaving,
                     crashed, terminated, issued>>,
         NEW k0 \in Stage \ {"answered"}, NEW k1 \in Stage, NEW c \in Context,
         NEW y, NEW z, NEW sent, Moves(k0, c, y, k1, z, sent), PipesOrdered',
         k1 # "answered" => k0 \in {"asked", "offered"} /\ k1 \in {"offered", "pending"},
         \A d \in Context : toBrowser[d] = <<>> => toBrowser'[d] = <<>>,
         \A d \in Context : \A m \in ToSet(toBrowser'[d]) :
           m \in CancelMsg => m \in ToSet(toBrowser[d]),
         \A d \in Context : \A m \in ToSet(toBrowser[d]) :
           \/ m \notin CancelMsg \/ m \in ToSet(toBrowser'[d])
           \/ /\ k1 = "answered"
              /\ \A k \in Stage : \A x \in At(k, d) : Cancels(m, x) => x.uid = y.uid,
         \A d \in Context : \A m \in ToSet(toRenderer'[d]) :
           m \in ToSet(toRenderer[d]) \/ m.uid = y.uid,
         \A e \in queries' : e \in queries \/ e.browser = BrowserOf[e.frame],
         \/ UNCHANGED sweep
         \/ sweep' = {} /\ \A s \in sweep, e \in queries' : ~Matches(e, s)
  PROVE  PlacesInv'
<1>1. ContextsApart' /\ PagesLive'
  BY DEF PlacesInv, ContextsApart, Identified, PagesLive
<1>2. PlacesSound'
  BY MovesSound DEF PlacesInv
<1>3. OnePlace'
  BY MovesOnePlace DEF PlacesInv
<1>4. CancelsSound'
  BY DEF PlacesInv, CancelsSound, Cancels
<1>5. ASSUME NEW d \in Context, BrowserOf[d] \notin open
      PROVE  /\ toBrowser[d] = <<>> /\ At("offered", d) = {} /\ At("asked", d) = {}
             /\ \A e \in At("pending", d) : \E s \in sweep : Matches(e, s)
  <2>1. /\ toBrowser[d] = <<>> /\ At("offered", d) = {}
        /\ \A e \in At("pending", d) : \E s \in sweep : Matches(e, s)
    BY <1>5 DEF PlacesInv, ClosedAreSwept
  <2>2. At("asked", d) = {}
    BY <2>1, AtFacts, EmptySet
  <2> QED
    BY <2>1, <2>2
<1>6. k1 # "answered" => BrowserOf[c] \in open
  BY <1>5 DEF Moves
<1>7. ASSUME NEW d \in Context, NEW x \in At("pending", d)', x \in At("pending", d),
             NEW s \in sweep, Matches(x, s)
      PROVE  s \in sweep'
  BY <1>7, AtNext
<1>8. ClosedAreSwept'
  <2>1. ASSUME NEW d \in Context, BrowserOf[d] \notin open
        PROVE  /\ toBrowser'[d] = <<>> /\ At("offered", d)' = {}
               /\ \A e \in At("pending", d)' : \E s \in sweep' : Matches(e, s)
    <3>1. toBrowser'[d] = <<>>
      BY <1>5, <2>1
    <3>2. \A x : x \in At("offered", d)' => FALSE
      BY <1>5, <1>6, <2>1 DEF Moves, Stage
    <3>3. ASSUME NEW e \in At("pending", d)' PROVE \E s \in sweep' : Matches(e, s)
      <4>1. e \in At("pending", d)
        BY <1>6, <2>1, <3>3 DEF Moves, Stage
      <4> QED
        BY <1>5, <1>7, <2>1, <3>3, <4>1
    <3> QED
      BY <3>1, <3>2, <3>3
  <2>2. \A s, t \in sweep' : s = t
    BY DEF PlacesInv, ClosedAreSwept
  <2>3. ASSUME NEW d \in Context, BrowserOf[d] \notin open'
        PROVE  /\ toBrowser'[d] = <<>> /\ At("offered", d)' = {}
               /\ \A e \in At("pending", d)' : \E s \in sweep' : Matches(e, s)'
    BY <2>1, <2>3 DEF Matches
  <2> QED
    BY <2>2, <2>3 DEF ClosedAreSwept
<1>9. ASSUME NEW k \in Stage \ {"answered"}, NEW d \in Context, NEW x \in At(k, d)'
      PROVE  Waited(x)' \/ Doomed(k, d, x)'
  <2>1. CASE x \in At(k, d) /\ x.uid # y.uid
    <3>1. Waited(x) \/ Doomed(k, d, x)
      BY <2>1 DEF PlacesInv, NoneForgotten
    <3>2. CASE Waited(x)
      BY <3>2 DEF Waited
    <3>3. CASE BrowserOf[d] \in terminated
      BY <3>3 DEF Doomed
    <3>4. CASE k = "pending" /\ \E s \in sweep : Matches(x, s)
      <4>1. \E s \in sweep' : Matches(x, s)
        BY <1>7, <1>9, <2>1, <3>4
      <4> QED
        BY <3>4, <4>1 DEF Doomed, Matches
    <3>5. ASSUME NEW m \in ToSet(toBrowser[d]), m \in CancelMsg, Cancels(m, x)
          PROVE  Doomed(k, d, x)'
      <4>1. m \in ToSet(toBrowser'[d])
        BY <2>1, <3>5
      <4> QED
        BY <3>5, <4>1 DEF Doomed, Cancels
    <3> QED
      BY <3>1, <3>2, <3>3, <3>4, <3>5 DEF Doomed
  <2>2. CASE k = k1 /\ d = c /\ x = z
    <3>1. k0 \in {"asked", "offered"} /\ y \in At(k0, c) /\ z.uid = y.uid
          /\ z.request_id = y.request_id /\ z.context_id = y.context_id
      BY <2>2 DEF Moves
    <3>2. Waited(y) \/ Doomed(k0, c, y)
      BY <3>1 DEF PlacesInv, NoneForgotten
    <3>3. CASE Waited(y)
      BY <2>2, <3>1, <3>3 DEF Waited
    <3>4. CASE BrowserOf[c] \in terminated
      BY <2>2, <3>4 DEF Doomed
    <3>5. ASSUME NEW m \in ToSet(toBrowser[c]), m \in CancelMsg, Cancels(m, y)
          PROVE  Doomed(k, d, x)'
      <4>1. m \in ToSet(toBrowser'[c])
        BY <2>2, <3>5
      <4> QED
        BY <2>2, <3>1, <3>5, <4>1 DEF Doomed, Cancels
    <3> QED
      BY <3>1, <3>2, <3>3, <3>4, <3>5 DEF Doomed
  <2> QED
    BY <1>9, <2>1, <2>2 DEF Moves
<1>10. NoneForgotten'
  BY <1>9 DEF NoneForgotten
<1> QED
  BY <1>1, <1>2, <1>3, <1>4, <1>8, <1>10 DEF PlacesInv

LEMMA BrowserMoveLoses ==
  ASSUME TypeOK, LossInv, UNCHANGED <<requests, open, leaving>>,
         NEW k0 \in Stage \ {"answered"}, NEW k1 \in Stage, NEW c \in Context,
         NEW y, NEW z, NEW sent, Moves(k0, c, y, k1, z, sent), PlacesSound,
         ToSet(tasks') \subseteq ToSet(tasks),
         sweep' \subseteq sweep, \A e \in queries' : e \in queries \/ sweep = {},
         sent \/ \A r \in requests : r.uid = y.uid => r.browser \notin open \/ r.frame \in leaving
  PROVE  LossInv'
<1>1. SilentForLeavers'
  BY DEF LossInv, SilentForLeavers, Matches
<1>2. ASSUME NEW r \in requests, r.browser \in open, r.frame \notin leaving
      PROVE  \E k \in Stage : \E x \in At(k, r.frame)' : x.uid = r.uid
  <2>1. PICK k \in Stage : \E x \in At(k, r.frame) : x.uid = r.uid
    BY <1>2 DEF LossInv, NoneLost
  <2>2. PICK x \in At(k, r.frame) : x.uid = r.uid
    BY <2>1
  <2>0. r.frame \in Context
    BY DEF TypeOK, RequestInfo
  <2>3. CASE r.uid # y.uid
    BY <2>0, <2>2, <2>3 DEF Moves
  <2>4. CASE r.uid = y.uid
    <3>1. sent
      BY <1>2, <2>4
    <3>2. r.frame = c
      BY <2>4 DEF PlacesSound, StandsFor, Moves
    <3>3. z \in At(k1, c)'
      BY <3>1 DEF Moves
    <3> QED
      BY <2>4, <3>2, <3>3 DEF Moves
  <2> QED
    BY <2>3, <2>4
<1> QED
  BY <1>1, <1>2 DEF LossInv, NoneLost

----------------------------------------------------------------------------
(* The pipes. *)
LEMMA SendFacts ==
  ASSUME TypeOK, NEW c \in Context, NEW m \in QueryMsg \union CancelMsg, SendToBrowser(c, m),
         InOrder(toBrowser[c], PipeOrder),
         BrowserOf[c] \in open => \A s \in ToSet(toBrowser[c]) : <<m, s>> \notin PipeOrder
  PROVE  /\ \A d \in Context \ {c} : toBrowser'[d] = toBrowser[d]
         /\ ToSet(toBrowser'[c]) =
              ToSet(toBrowser[c]) \union (IF BrowserOf[c] \in open THEN {m} ELSE {})
         /\ InOrder(toBrowser'[c], PipeOrder)
         /\ BrowserOf[c] \notin open => toBrowser' = toBrowser
<1> DEFINE S == QueryMsg \union CancelMsg
           q == toBrowser[c]
<1>1. q \in Seq(S) /\ toBrowser \in [Context -> Seq(S)]
  BY DEF TypeOK
<1>2. toBrowser' = IF BrowserOf[c] \in open THEN [toBrowser EXCEPT ![c] = Append(q, m)]
                                            ELSE toBrowser
  BY DEF SendToBrowser
<1> HIDE DEF S, q
<1>3. ToSet(Append(q, m)) = ToSet(q) \union {m}
  BY <1>1, AppendSet DEF S
<1>4. BrowserOf[c] \in open => InOrder(Append(q, m), PipeOrder)
  BY <1>1, AppendOrder DEF S, q
<1> QED
  BY <1>1, <1>2, <1>3, <1>4 DEF q

LEMMA TakeFacts ==
  ASSUME NEW S, NEW q \in Seq(S), q # <<>>, NEW R, InOrder(q, R)
  PROVE  /\ InOrder(Tail(q), R)
         /\ ToSet(q) = {Head(q)} \union ToSet(Tail(q))
         /\ \A x \in ToSet(Tail(q)) : <<x, Head(q)>> \notin R
         /\ <<Head(q), Head(q)>> \in R => ToSet(Tail(q)) = ToSet(q) \ {Head(q)}
<1>1. ToSet(q) = {Head(q)} \union ToSet(Tail(q))
  BY TailSet
<1>2. InOrder(Tail(q), R) /\ \A x \in ToSet(Tail(q)) : <<x, Head(q)>> \notin R
  BY TailOrder
<1>3. <<Head(q), Head(q)>> \in R => Head(q) \notin ToSet(Tail(q))
  BY <1>2
<1> QED
  BY <1>1, <1>2, <1>3

LEMMA ConsumeFacts ==
  ASSUME TypeOK, NEW c \in Context, toBrowser[c] # <<>>, Consume(c),
         InOrder(toBrowser[c], PipeOrder)
  PROVE  LET m == Head(toBrowser[c])
         IN  /\ \A d \in Context \ {c} : toBrowser'[d] = toBrowser[d]
             /\ InOrder(toBrowser'[c], PipeOrder)
             /\ m \in QueryMsg \union CancelMsg
             /\ ToSet(toBrowser[c]) = {m} \union ToSet(toBrowser'[c])
             /\ \A x \in ToSet(toBrowser'[c]) : <<x, m>> \notin PipeOrder
<1> DEFINE S == QueryMsg \union CancelMsg
           q == toBrowser[c]
<1>1. q \in Seq(S) /\ toBrowser \in [Context -> Seq(S)] /\ q # <<>>
  BY DEF TypeOK
<1>2. toBrowser' = [toBrowser EXCEPT ![c] = Tail(q)]
  BY DEF Consume
<1> HIDE DEF S, q
<1>3. /\ InOrder(Tail(q), PipeOrder)
      /\ ToSet(q) = {Head(q)} \union ToSet(Tail(q))
      /\ \A x \in ToSet(Tail(q)) : <<x, Head(q)>> \notin PipeOrder
  BY <1>1, TakeFacts DEF q
<1>4. Head(q) \in S
  BY <1>1
<1> QED
  BY <1>1, <1>2, <1>3, <1>4 DEF S, q

\* The answer to q, if it is sent.
AnswerTo(q, success) == [success |-> success, context_id |-> q.context_id,
                         request_id |-> q.request_id, uid |-> q.uid]
Reached(c) == BrowserOf[c] \in open /\ ctxState[c] # "dead"

LEMMA AnswerFacts ==
  ASSUME TypeOK, NEW q, q.frame \in Context, q.context_id \in Id, q.request_id \in Id,
         q.uid \in Uid, NEW success \in BOOLEAN, Answer(q, success),
         InOrder(toRenderer[q.frame], AnswerOrder), UNCHANGED issued,
         AnswerTo(q, success) \in Final => AnswerTo(q, success) \notin ToSet(toRenderer[q.frame])
  PROVE  /\ AnswerTo(q, success) \in AnswerMsg
         /\ \A d \in Context \ {q.frame} : toRenderer'[d] = toRenderer[d]
         /\ ToSet(toRenderer'[q.frame]) =
              ToSet(toRenderer[q.frame])
                \union (IF Reached(q.frame) THEN {AnswerTo(q, success)} ELSE {})
         /\ InOrder(toRenderer'[q.frame], AnswerOrder')
<1> DEFINE m == AnswerTo(q, success)
           f == q.frame
           s == toRenderer[f]
<1>1. m \in AnswerMsg
  BY DEF AnswerMsg, AnswerTo
<1>2. s \in Seq(AnswerMsg) /\ toRenderer \in [Context -> Seq(AnswerMsg)] /\ f \in Context
  BY DEF TypeOK
<1>3. toRenderer' = IF Reached(f) THEN [toRenderer EXCEPT ![f] = Append(s, m)] ELSE toRenderer
  BY DEF Answer, AnswerTo, Reached
<1>4. AnswerOrder' = AnswerOrder
  BY DEF AnswerOrder, Final
<1>5. ASSUME NEW x \in ToSet(s), <<m, x>> \in AnswerOrder PROVE FALSE
  <2>1. PICK w \in Final : <<m, x>> = <<w, w>>
    BY <1>5 DEF AnswerOrder
  <2>2. m = w /\ x = w
    BY <2>1
  <2> QED
    BY <1>5, <2>2
<1>6. InOrder(s, AnswerOrder)
  OBVIOUS
<1> HIDE DEF m, f, s
<1>7. ToSet(Append(s, m)) = ToSet(s) \union {m}
  BY <1>1, <1>2, AppendSet
<1>8. InOrder(Append(s, m), AnswerOrder)
  BY <1>1, <1>2, <1>5, <1>6, AppendOrder
<1>9. InOrder(toRenderer'[f], AnswerOrder)
  BY <1>2, <1>3, <1>6, <1>8 DEF s
<1>10. InOrder(toRenderer'[f], AnswerOrder')
  BY <1>4, <1>9
<1>11. /\ \A d \in Context \ {f} : toRenderer'[d] = toRenderer[d]
       /\ ToSet(toRenderer'[f]) = ToSet(s) \union (IF Reached(f) THEN {m} ELSE {})
  BY <1>2, <1>3, <1>7 DEF s
<1> QED
  BY <1>1, <1>10, <1>11 DEF m, f, s

----------------------------------------------------------------------------
(* The calls that go on. *)
LEMMA MovesIntro ==
  ASSUME OnePlace, NEW k0 \in Stage, NEW k1 \in Stage, NEW c \in Context,
         NEW y \in At(k0, c), NEW z, NEW sent,
         z.uid = y.uid, z.request_id = y.request_id, z.context_id = y.context_id,
         k1 # "answered" => z.persistent = y.persistent,
         \A k \in Stage, d \in Context : (k # k0 /\ k # k1) \/ d # c => At(k, d)' = At(k, d),
         k0 # k1 => At(k0, c)' = At(k0, c) \ {y},
         At(k1, c)' = (At(k1, c) \ {y}) \union (IF sent THEN {z} ELSE {})
  PROVE  Moves(k0, c, y, k1, z, sent)
<1>1. ASSUME NEW k \in Stage, NEW d \in Context, NEW x
      PROVE  x \in At(k, d)' <=> \/ x \in At(k, d) /\ x.uid # y.uid
                                 \/ sent /\ k = k1 /\ d = c /\ x = z
  <2>1. ASSUME x \in At(k, d), x.uid = y.uid PROVE k = k0 /\ d = c /\ x = y
    BY <2>1 DEF OnePlace
  <2>2. CASE (k # k0 /\ k # k1) \/ d # c
    BY <2>1, <2>2
  <2>3. CASE k = k0 /\ k # k1 /\ d = c
    BY <2>1, <2>3
  <2>4. CASE k = k1 /\ d = c
    BY <2>1, <2>4
  <2> QED
    BY <2>2, <2>3, <2>4
<1> QED
  BY <1>1 DEF Moves

\* The parts of the state that the steps of the UI thread leave alone.
LEMMA FinalSame ==
  ASSUME UNCHANGED issued PROVE Final' = Final /\ AnswerOrder' = AnswerOrder
BY DEF Final, AnswerOrder

LEMMA AnswerMoves ==
  ASSUME TypeOK, PlacesInv, UNCHANGED issued,
         NEW k0 \in Stage \ {"answered"}, NEW c \in Context, NEW y \in At(k0, c),
         NEW q, q.frame = c, q.context_id = y.context_id, q.request_id = y.request_id,
         q.uid = y.uid, NEW success \in BOOLEAN, AnswerTo(q, success) \in Final,
         NEW sent \in BOOLEAN,
         \/ Answer(q, success) /\ (sent <=> Reached(c))
         \/ UNCHANGED toRenderer /\ ~sent,
         \A k \in Stage \ {"answered"}, d \in Context : k # k0 \/ d # c => At(k, d)' = At(k, d),
         At(k0, c)' = At(k0, c) \ {y}
  PROVE  /\ Moves(k0, c, y, "answered", AnswerTo(q, success), sent)
         /\ \A d \in Context : InOrder(toRenderer'[d], AnswerOrder')
         /\ \A d \in Context : \A x \in ToSet(toRenderer'[d]) :
              x \in ToSet(toRenderer[d]) \/ x.uid = y.uid
<1> DEFINE a == AnswerTo(q, success)
<1>1. /\ a \in Final /\ a.uid = y.uid /\ a.context_id = y.context_id
      /\ a.request_id = y.request_id
  BY DEF AnswerTo
<1>2. y.uid \in Uid /\ y.context_id \in Id /\ y.request_id \in Id
  BY AtType
<1>3. OnePlace /\ \A d \in Context : InOrder(toRenderer[d], AnswerOrder)
  BY DEF PlacesInv, PipesOrdered
<1> HIDE DEF a
<1>4. a \notin ToSet(toRenderer[c]) /\ y \notin At("answered", c)
  <2>1. a \notin At("answered", c) /\ y \notin At("answered", c)
    BY <1>1, <1>3 DEF OnePlace, Stage
  <2> QED
    BY <1>1, <2>1, AtFacts
<1>5. Final' = Final /\ AnswerOrder' = AnswerOrder
  BY FinalSame
<1>6. /\ \A d \in Context \ {c} : toRenderer'[d] = toRenderer[d]
      /\ ToSet(toRenderer'[c]) =
           ToSet(toRenderer[c]) \union (IF sent THEN {a} ELSE {})
      /\ InOrder(toRenderer'[c], AnswerOrder')
  <2>1. CASE Answer(q, success) /\ (sent <=> Reached(c))
    BY <1>2, <1>3, <1>4, <2>1, AnswerFacts DEF a
  <2>2. CASE UNCHANGED toRenderer /\ ~sent
    BY <1>3, <1>5, <2>2
  <2> QED
    BY <2>1, <2>2
<1>7. ASSUME NEW d \in Context \ {c} PROVE At("answered", d)' = At("answered", d)
  <2>1. toRenderer'[d] = toRenderer[d]
    BY <1>6
  <2> QED
    BY <2>1, AtSame
<1>8. At("answered", c)' =
        (At("answered", c) \ {y}) \union (IF sent THEN {a} ELSE {})
  <2>1. At("answered", c)' =
          At("answered", c) \union (IF sent THEN {a} ELSE {})
    BY <1>1, <1>5, <1>6, AtFacts, AtNext
  <2> QED
    BY <1>4, <2>1
<1>9. Moves(k0, c, y, "answered", a, sent)
  BY <1>1, <1>3, <1>7, <1>8, MovesIntro DEF Stage
<1>10. \A d \in Context : InOrder(toRenderer'[d], AnswerOrder')
  BY <1>3, <1>5, <1>6
<1>11. \A d \in Context : \A x \in ToSet(toRenderer'[d]) :
         x \in ToSet(toRenderer[d]) \/ x.uid = y.uid
  BY <1>1, <1>6
<1> QED
  BY <1>9, <1>10, <1>11 DEF a

LEMMA ReceiveQueryMoves ==
  ASSUME TypeOK, PlacesInv, NEW c \in Context, ReceiveQuery(c)
  PROVE  /\ PlacesInv'
         /\ LossInv => LossInv'
<1> DEFINE m == Head(toBrowser[c])
           q == [frame |-> c, context_id |-> m.context_id,
                 request_id |-> m.request_id, uid |-> m.uid]
           a == AnswerTo(q, FALSE)
           e == [frame |-> c, context_id |-> m.context_id,
                 request_id |-> m.request_id, persistent |-> m.persistent,
                 uid |-> m.uid, query_id |-> queryIdGen + 1, rest |-> handlers]
<1>1. /\ dispatch = {} /\ sweep = {} /\ toBrowser[c] # <<>> /\ m.type = "query" /\ Consume(c)
      /\ BrowserOf[c] \in open
      /\ UNCHANGED <<rendererVars, queries, tasks, sweep, envVars, issued>>
      /\ \/ Answer(q, FALSE) /\ UNCHANGED dispatch
         \/ UNCHANGED toRenderer /\ dispatch' = {e}
  BY DEF ReceiveQuery, UiIdle, NextMsg, ghostVars
<1>2. InOrder(toBrowser[c], PipeOrder) /\ \A d \in Context : InOrder(toRenderer[d], AnswerOrder)
  BY DEF PlacesInv, PipesOrdered
<1>3. /\ \A d \in Context \ {c} : toBrowser'[d] = toBrowser[d]
      /\ InOrder(toBrowser'[c], PipeOrder)
      /\ m \in QueryMsg \union CancelMsg
      /\ ToSet(toBrowser[c]) = {m} \union ToSet(toBrowser'[c])
      /\ \A x \in ToSet(toBrowser'[c]) : <<x, m>> \notin PipeOrder
  BY <1>1, <1>2, ConsumeFacts
<1>4. /\ a = [success |-> FALSE, context_id |-> m.context_id, request_id |-> m.request_id,
              uid |-> m.uid]
      /\ q.frame = c /\ q.context_id = m.context_id /\ q.request_id = m.request_id
      /\ q.uid = m.uid
      /\ e.frame = c /\ e.context_id = m.context_id /\ e.request_id = m.request_id
      /\ e.uid = m.uid /\ e.persistent = m.persistent
  BY DEF AnswerTo
<1> HIDE DEF m, q, e, a
<1>5. m \in QueryMsg /\ m \notin CancelMsg
  BY <1>1, <1>3, PipeTypes
<1>6. /\ m.uid \in Uid /\ m.context_id \in Id /\ m.request_id \in Id
      /\ a.uid = m.uid /\ a.context_id = m.context_id /\ a.request_id = m.request_id
      /\ a \in Final
  <2>1. m.uid \in Uid /\ m.context_id \in Id /\ m.request_id \in Id
    BY <1>5 DEF QueryMsg
  <2>2. a \in AnswerMsg /\ a.success = FALSE
    BY <1>4, <2>1 DEF AnswerMsg
  <2> QED
    BY <1>4, <2>1, <2>2 DEF Final
<1>7. m \in At("asked", c)
  BY <1>3, <1>5, AtFacts
<1>8. <<m, m>> \in PipeOrder
  BY <1>5 DEF PipeOrder
<1>9. ToSet(toBrowser'[c]) = ToSet(toBrowser[c]) \ {m}
  BY <1>3, <1>8
<1>10. OnePlace /\ PlacesSound
  BY DEF PlacesInv
<1>11. a \notin ToSet(toRenderer[c])
  <2>1. a \notin At("answered", c)
    BY <1>6, <1>7, <1>10 DEF OnePlace, Stage
  <2> QED
    BY <1>6, <2>1, AtFacts
<1>12. /\ UNCHANGED <<requests, ctxState, ctxId, contextIdGen, requestIdGen, open, leaving,
                      crashed, terminated, issued, queries, sweep, tasks>>
  BY <1>1 DEF rendererVars, envVars
<1>13. /\ \A k \in Stage \ {"offered", "answered"}, d \in Context :
            k # "asked" \/ d # c => At(k, d)' = At(k, d)
       /\ At("asked", c)' = At("asked", c) \ {m}
  <2>1. \A d \in Context : At("pending", d)' = At("pending", d)
    BY <1>12, AtFacts, AtNext
  <2>2. ASSUME NEW d \in Context \ {c} PROVE At("asked", d)' = At("asked", d)
    <3>1. toBrowser'[d] = toBrowser[d]
      BY <1>3
    <3> QED
      BY <3>1, AtSame
  <2>3. At("asked", c)' = At("asked", c) \ {m}
    BY <1>9, AtFacts, AtNext
  <2> QED
    BY <2>1, <2>2, <2>3 DEF Stage
<1>14. /\ \A d \in Context : toBrowser[d] = <<>> => toBrowser'[d] = <<>>
       /\ \A d \in Context : \A x \in ToSet(toBrowser'[d]) :
            x \in CancelMsg => x \in ToSet(toBrowser[d])
       /\ \A d \in Context : \A x \in ToSet(toBrowser[d]) :
            x \notin CancelMsg \/ x \in ToSet(toBrowser'[d])
       /\ \A d \in Context : InOrder(toBrowser'[d], PipeOrder)
  BY <1>1, <1>3, <1>5, <1>9 DEF PlacesInv, PipesOrdered
<1>15. CASE Answer(q, FALSE) /\ UNCHANGED dispatch
  <2>0. PICK sent \in BOOLEAN : sent <=> Reached(c)
    BY DEF Reached
  <2>1. AnswerTo(q, FALSE) = a
    BY DEF a
  <2>2. ASSUME NEW d \in Context PROVE At("offered", d)' = At("offered", d)
    BY <1>15, AtSame
  <2>3. /\ Moves("asked", c, m, "answered", a, sent)
        /\ \A d \in Context : InOrder(toRenderer'[d], AnswerOrder')
        /\ \A d \in Context : \A x \in ToSet(toRenderer'[d]) :
             x \in ToSet(toRenderer[d]) \/ x.uid = m.uid
    <3>1. \A k \in Stage \ {"answered"}, d \in Context :
            k # "asked" \/ d # c => At(k, d)' = At(k, d)
      BY <1>13, <2>2 DEF Stage
    <3>2. PICK success \in BOOLEAN : success = FALSE
      OBVIOUS
    <3>3. Answer(q, success) /\ AnswerTo(q, success) = a
      BY <1>15, <2>1, <3>2
    <3>4. /\ q.frame = c /\ q.context_id = m.context_id /\ q.request_id = m.request_id
          /\ q.uid = m.uid /\ "asked" \in Stage \ {"answered"} /\ UNCHANGED issued
          /\ At("asked", c)' = At("asked", c) \ {m} /\ Answer(q, success)
          /\ AnswerTo(q, success) \in Final
      BY <1>4, <1>6, <1>12, <1>13, <3>3 DEF Stage
    <3>5. /\ Moves("asked", c, m, "answered", AnswerTo(q, success), sent)
          /\ \A d \in Context : InOrder(toRenderer'[d], AnswerOrder')
          /\ \A d \in Context : \A x \in ToSet(toRenderer'[d]) :
               x \in ToSet(toRenderer[d]) \/ x.uid = m.uid
      BY <1>7, <2>0, <3>1, <3>4, AnswerMoves
    <3> QED
      BY <3>3, <3>5
  <2>5. PipesOrdered'
    BY <1>14, <2>3 DEF PipesOrdered, PipeOrder, Cancels
  <2>7. PlacesInv'
    BY <1>12, <1>14, <2>3, <2>5, BrowserMove DEF Stage
  <2>8. sent \/ \A r \in requests :
          r.uid = m.uid => r.browser \notin open \/ r.frame \in leaving
    <3>1. ASSUME NEW r \in requests, r.uid = m.uid PROVE ctxState[c] = "live"
      BY <1>7, <1>10, <3>1 DEF PlacesSound, StandsFor, PlacesInv, PagesLive, Stage
    <3> QED
      BY <1>1, <2>0, <3>1 DEF Reached
  <2>9. ASSUME LossInv PROVE LossInv'
    BY <1>10, <1>12, <2>3, <2>8, <2>9, BrowserMoveLoses DEF Stage
  <2> QED
    BY <2>7, <2>9
<1>16. CASE UNCHANGED toRenderer /\ dispatch' = {e}
  <2>1. Final' = Final /\ AnswerOrder' = AnswerOrder
    BY <1>12, FinalSame
  <2>2. /\ \A d \in Context : At("answered", d)' = At("answered", d)
        /\ \A d \in Context \ {c} : At("offered", d)' = At("offered", d)
        /\ At("offered", c)' = (At("offered", c) \ {m}) \union {e}
    <3>1. \A d \in Context : At("answered", d)' = At("answered", d)
      BY <1>16, <2>1, AtFacts, AtNext
    <3>2. \A d \in Context \ {c} : At("offered", d)' = At("offered", d)
      BY <1>1, <1>4, <1>16, AtFacts, AtNext
    <3>3. At("offered", c)' = {e} /\ At("offered", c) = {}
      BY <1>1, <1>4, <1>16, AtFacts, AtNext
    <3> QED
      BY <3>1, <3>2, <3>3
  <2>3. Moves("asked", c, m, "offered", e, TRUE)
    BY <1>4, <1>7, <1>10, <1>13, <2>2, MovesIntro DEF Stage
  <2>4. PipesOrdered'
    BY <1>2, <1>14, <1>16, <2>1 DEF PipesOrdered, PipeOrder, Cancels
  <2>5. PlacesInv'
    BY <1>12, <1>14, <1>16, <2>3, <2>4, BrowserMove DEF Stage
  <2>6. ASSUME LossInv PROVE LossInv'
    BY <1>10, <1>12, <2>3, <2>6, BrowserMoveLoses DEF Stage
  <2> QED
    BY <2>5, <2>6
<1> QED
  BY <1>1, <1>15, <1>16

LEMMA OfferFacts ==
  ASSUME Books, PlacesInv, NEW d \in dispatch
  PROVE  /\ d \in Dispatch /\ d.frame \in Context /\ dispatch = {d}
         /\ d \in At("offered", d.frame)
         /\ \A c \in Context \ {d.frame} : At("offered", c) = {}
         /\ At("offered", d.frame) = {d}
BY AtFacts DEF Books, TypeOK, Dispatch, Dispatching

LEMMA DeclineQueryMoves ==
  ASSUME Books, PlacesInv, DeclineQuery
  PROVE  /\ PlacesInv'
         /\ LossInv => LossInv'
<1>1. PICK d \in dispatch :
        /\ sweep = {}
        /\ IF Len(d.rest) > 1
             THEN /\ dispatch' = {[d EXCEPT !.rest = Tail(@)]}
                  /\ UNCHANGED toRenderer
             ELSE /\ dispatch' = {}
                  /\ Answer(d, FALSE)
        /\ UNCHANGED <<rendererVars, toBrowser, queries, tasks, sweep, envVars, issued>>
  BY DEF DeclineQuery, ghostVars
<1>2. /\ d \in Dispatch /\ d.frame \in Context /\ dispatch = {d}
      /\ d \in At("offered", d.frame)
      /\ \A x \in Context \ {d.frame} : At("offered", x) = {}
      /\ At("offered", d.frame) = {d}
  BY OfferFacts
<1>3. PICK c \in Context : c = d.frame
  BY <1>2
<1>4. /\ UNCHANGED <<requests, ctxState, ctxId, contextIdGen, requestIdGen, open, leaving,
                      crashed, terminated, issued, queries, sweep, tasks>>
      /\ UNCHANGED toBrowser
  BY <1>1 DEF rendererVars, envVars
<1>5. OnePlace /\ PlacesSound /\ PipesOrdered /\ TypeOK
  BY DEF PlacesInv, Books
<1>6. \A x \in Context : At("asked", x)' = At("asked", x) /\ At("pending", x)' = At("pending", x)
  <2> SUFFICES ASSUME NEW x \in Context
               PROVE  At("asked", x)' = At("asked", x) /\ At("pending", x)' = At("pending", x)
    OBVIOUS
  <2> QED
    BY <1>4, AtSame
<1>7. CASE Len(d.rest) > 1
  <2> DEFINE z == [d EXCEPT !.rest = Tail(@)]
  <2>1. /\ z.frame = c /\ z.uid = d.uid /\ z.request_id = d.request_id
        /\ z.context_id = d.context_id /\ z.persistent = d.persistent
    BY <1>2, <1>3 DEF Dispatch
  <2>2. dispatch' = {z} /\ UNCHANGED toRenderer
    BY <1>1, <1>7
  <2> HIDE DEF z
  <2>3. \A x \in Context : At("answered", x)' = At("answered", x)
    <3> SUFFICES ASSUME NEW x \in Context PROVE At("answered", x)' = At("answered", x)
      OBVIOUS
    <3> QED
      BY <1>4, <2>2, AtSame
  <2>4. ASSUME NEW x \in Context \ {c} PROVE At("offered", x)' = At("offered", x)
    <3>1. At("offered", x)' = {}
      BY <2>1, <2>2, AtNext
    <3> QED
      BY <1>2, <1>3, <3>1
  <2>5. At("offered", c)' = (At("offered", c) \ {d}) \union (IF TRUE THEN {z} ELSE {})
    <3>1. At("offered", c)' = {z}
      BY <2>1, <2>2, AtNext
    <3> QED
      BY <1>2, <1>3, <3>1
  <2>6. Moves("offered", c, d, "offered", z, TRUE)
    BY <1>2, <1>3, <1>5, <1>6, <2>1, <2>3, <2>4, <2>5, MovesIntro DEF Stage
  <2>7. Final' = Final /\ AnswerOrder' = AnswerOrder
    BY <1>4, FinalSame
  <2>8. PipesOrdered'
    BY <1>4, <1>5, <2>2, <2>7 DEF PipesOrdered, PipeOrder, Cancels
  <2>9. PlacesInv'
    BY <1>4, <2>2, <2>6, <2>8, BrowserMove DEF Stage
  <2>10. ASSUME LossInv PROVE LossInv'
    BY <1>4, <1>5, <2>6, <2>10, BrowserMoveLoses DEF Stage
  <2> QED
    BY <2>9, <2>10
<1>8. CASE ~(Len(d.rest) > 1)
  <2>1. PICK sent \in BOOLEAN : sent <=> Reached(c)
    BY DEF Reached
  <2>2. PICK success \in BOOLEAN : success = FALSE
    OBVIOUS
  <2>3. dispatch' = {} /\ Answer(d, success)
    BY <1>1, <1>8, <2>2
  <2>4. AnswerTo(d, success) \in Final
    BY <1>2, <2>2 DEF AnswerTo, Final, AnswerMsg, Dispatch
  <2>5. PICK a : a = AnswerTo(d, success)
    OBVIOUS
  <2>6. At("offered", c)' = At("offered", c) \ {d}
    BY <1>2, <1>3, <2>3, AtNext
  <2>7. ASSUME NEW k \in Stage \ {"answered"}, NEW x \in Context, k # "offered" \/ x # c
        PROVE  At(k, x)' = At(k, x)
    <3>1. CASE k = "asked" \/ k = "pending"
      BY <1>6, <3>1
    <3>2. CASE k = "offered"
      <4>1. At("offered", x)' = {}
        BY <2>3, AtNext
      <4> QED
        BY <1>2, <1>3, <2>7, <3>2, <4>1
    <3> QED
      BY <3>1, <3>2 DEF Stage
  <2>8. /\ Moves("offered", c, d, "answered", AnswerTo(d, success), sent)
        /\ \A x \in Context : InOrder(toRenderer'[x], AnswerOrder')
        /\ \A x \in Context : \A m \in ToSet(toRenderer'[x]) :
             m \in ToSet(toRenderer[x]) \/ m.uid = d.uid
    <3>1. "offered" \in Stage \ {"answered"} /\ UNCHANGED issued /\ d.frame = c /\ TypeOK
          /\ d \in At("offered", c)
      BY <1>2, <1>3, <1>4, <1>5 DEF Stage
    <3> QED
      BY <2>1, <2>3, <2>4, <2>6, <2>7, <3>1, AnswerMoves
  <2>9. PipesOrdered'
    BY <1>4, <1>5, <2>8 DEF PipesOrdered, PipeOrder, Cancels
  <2>10. PlacesInv'
    BY <1>4, <2>8, <2>9, BrowserMove DEF Stage
  <2>11. sent \/ \A r \in requests :
           r.uid = d.uid => r.browser \notin open \/ r.frame \in leaving
    <3>1. ASSUME NEW r \in requests, r.uid = d.uid, BrowserOf[c] \in open PROVE sent
      <4>1. r.frame = c /\ ctxState[c] = "live"
        BY <1>2, <1>3, <1>5, <3>1 DEF PlacesSound, StandsFor, PlacesInv, PagesLive, Stage
      <4> QED
        BY <2>1, <3>1, <4>1 DEF Reached
    <3>2. ASSUME NEW r \in requests, r.uid = d.uid PROVE r.browser = BrowserOf[c]
      BY <1>2, <1>3, <1>5, <3>2 DEF PlacesSound, StandsFor, PlacesInv, PagesLive, Stage
    <3> QED
      BY <3>1, <3>2
  <2>12. ASSUME LossInv PROVE LossInv'
    BY <1>4, <1>5, <2>8, <2>11, <2>12, BrowserMoveLoses DEF Stage
  <2> QED
    BY <2>10, <2>12
<1> QED
  BY <1>7, <1>8

LEMMA AcceptQueryMoves ==
  ASSUME Books, PlacesInv, AcceptQuery
  PROVE  /\ PlacesInv'
         /\ LossInv => LossInv'
<1>1. PICK d \in dispatch :
        /\ sweep = {} /\ dispatch' = {}
        /\ queries' = queries \union
             {[browser |-> BrowserOf[d.frame], frame |-> d.frame,
               context_id |-> d.context_id, request_id |-> d.request_id,
               persistent |-> d.persistent, query_id |-> d.query_id,
               handler |-> Head(d.rest), uid |-> d.uid]}
        /\ UNCHANGED <<rendererVars, toBrowser, toRenderer, tasks, sweep, envVars, issued>>
  BY DEF AcceptQuery, pipeVars
<1>2. /\ d \in Dispatch /\ d.frame \in Context /\ dispatch = {d}
      /\ d \in At("offered", d.frame)
      /\ \A x \in Context \ {d.frame} : At("offered", x) = {}
      /\ At("offered", d.frame) = {d}
  BY OfferFacts
<1>3. PICK c \in Context : c = d.frame
  BY <1>2
<1>4. PICK z : /\ queries' = queries \union {z}
               /\ z.frame = c /\ z.browser = BrowserOf[c] /\ z.uid = d.uid
               /\ z.request_id = d.request_id
               /\ z.context_id = d.context_id /\ z.persistent = d.persistent
  <2> DEFINE e == [browser |-> BrowserOf[d.frame], frame |-> d.frame,
                   context_id |-> d.context_id, request_id |-> d.request_id,
                   persistent |-> d.persistent, query_id |-> d.query_id,
                   handler |-> Head(d.rest), uid |-> d.uid]
  <2>1. /\ e.frame = c /\ e.browser = BrowserOf[c] /\ e.uid = d.uid
        /\ e.request_id = d.request_id
        /\ e.context_id = d.context_id /\ e.persistent = d.persistent
    BY <1>3
  <2>2. queries' = queries \union {e}
    BY <1>1
  <2> HIDE DEF e
  <2> QED
    BY <2>1, <2>2
<1>5. /\ UNCHANGED <<requests, ctxState, ctxId, contextIdGen, requestIdGen, open, leaving,
                      crashed, terminated, issued, sweep, tasks>>
      /\ UNCHANGED <<toBrowser, toRenderer>> /\ sweep = {} /\ dispatch' = {}
  BY <1>1 DEF rendererVars, envVars
<1>6. OnePlace /\ PlacesSound /\ PipesOrdered /\ TypeOK
  BY DEF PlacesInv, Books
<1>7. \A x \in Context : At("asked", x)' = At("asked", x) /\ At("answered", x)' = At("answered", x)
  <2> SUFFICES ASSUME NEW x \in Context
               PROVE  At("asked", x)' = At("asked", x) /\ At("answered", x)' = At("answered", x)
    OBVIOUS
  <2> QED
    BY <1>5, AtSame
<1>8. ASSUME NEW x \in Context \ {c}
      PROVE  At("offered", x)' = At("offered", x) /\ At("pending", x)' = At("pending", x)
  <2>1. At("offered", x)' = {}
    BY <1>5, AtNext
  <2>2. At("pending", x)' = At("pending", x)
    BY <1>4 DEF At
  <2> QED
    BY <1>2, <1>3, <2>1, <2>2
<1>9. At("offered", c)' = At("offered", c) \ {d}
  BY <1>2, <1>3, <1>5, AtNext
<1>10. At("pending", c)' = (At("pending", c) \ {d}) \union (IF TRUE THEN {z} ELSE {})
  <2>1. At("pending", c)' = At("pending", c) \union {z}
    BY <1>4, AtFacts, AtNext
  <2>2. d \notin At("pending", c)
    BY <1>2, <1>3, <1>6 DEF OnePlace, Stage
  <2> QED
    BY <2>1, <2>2
<1>11. Moves("offered", c, d, "pending", z, TRUE)
  <2>1. "offered" \in Stage /\ "pending" \in Stage /\ d \in At("offered", c)
    BY <1>2, <1>3 DEF Stage
  <2>2. \A k \in Stage, x \in Context :
          (k # "offered" /\ k # "pending") \/ x # c => At(k, x)' = At(k, x)
    BY <1>7, <1>8 DEF Stage
  <2>3. /\ z.uid = d.uid /\ z.request_id = d.request_id /\ z.context_id = d.context_id
        /\ z.persistent = d.persistent
    BY <1>4
  <2> QED
    BY <1>6, <1>9, <1>10, <2>1, <2>2, <2>3, MovesIntro
<1>12. PipesOrdered'
  <2>1. Final' = Final /\ AnswerOrder' = AnswerOrder
    BY <1>5, FinalSame
  <2> QED
    BY <1>5, <1>6, <2>1 DEF PipesOrdered, PipeOrder, Cancels
<1>13. \A e \in queries' : e \in queries \/ e.browser = BrowserOf[e.frame]
  BY <1>4
<1>14. PlacesInv'
  BY <1>5, <1>11, <1>12, <1>13, BrowserMove DEF Stage
<1>15. ASSUME LossInv PROVE LossInv'
  BY <1>5, <1>6, <1>11, <1>15, BrowserMoveLoses DEF Stage
<1> QED
  BY <1>14, <1>15

----------------------------------------------------------------------------
(* The entries that end. *)
LEMMA EntryEnds ==
  ASSUME TypeOK, PlacesInv, NEW e \in queries, queries' = queries \ {e},
         UNCHANGED <<issued, dispatch>>,
         \A d \in Context : At("asked", d)' = At("asked", d),
         NEW success \in BOOLEAN, success => ~issued[e.uid], NEW sent \in BOOLEAN,
         \/ Answer(e, success) /\ (sent <=> Reached(e.frame))
         \/ UNCHANGED toRenderer /\ ~sent
  PROVE  /\ e.frame \in Context /\ e \in At("pending", e.frame)
         /\ Moves("pending", e.frame, e, "answered", AnswerTo(e, success), sent)
         /\ \A d \in Context : InOrder(toRenderer'[d], AnswerOrder')
         /\ \A d \in Context : \A x \in ToSet(toRenderer'[d]) :
              x \in ToSet(toRenderer[d]) \/ x.uid = e.uid
<1>1. e \in QueryInfo
  BY DEF TypeOK
<1>2. PICK c \in Context : c = e.frame
  BY <1>1 DEF QueryInfo
<1>3. e \in At("pending", c) /\ "pending" \in Stage \ {"answered"} /\ UNCHANGED issued
  BY <1>2, AtFacts DEF Stage
<1>4. AnswerTo(e, success) \in Final
  <2>1. /\ AnswerTo(e, success).success = success /\ AnswerTo(e, success).uid = e.uid
        /\ AnswerTo(e, success) \in AnswerMsg
    BY <1>1 DEF AnswerTo, AnswerMsg, QueryInfo
  <2> QED
    BY <2>1 DEF Final
<1>5. At("pending", c)' = At("pending", c) \ {e}
  BY DEF At
<1>6. ASSUME NEW k \in Stage \ {"answered"}, NEW d \in Context, k # "pending" \/ d # c
      PROVE  At(k, d)' = At(k, d)
  <2>1. CASE k = "pending"
    <3>1. At("pending", d)' = At("pending", d)
      BY <1>2, <1>6, <2>1 DEF At
    <3> QED
      BY <2>1, <3>1
  <2>2. CASE k = "offered"
    BY <2>2, AtSame
  <2>3. CASE k = "asked"
    BY <2>3
  <2> QED
    BY <2>1, <2>2, <2>3 DEF Stage
<1>7. /\ Moves("pending", c, e, "answered", AnswerTo(e, success), sent)
      /\ \A d \in Context : InOrder(toRenderer'[d], AnswerOrder')
      /\ \A d \in Context : \A x \in ToSet(toRenderer'[d]) :
           x \in ToSet(toRenderer[d]) \/ x.uid = e.uid
  BY <1>2, <1>3, <1>4, <1>5, <1>6, AnswerMoves
<1> QED
  BY <1>2, <1>3, <1>7

\* Whoever waits for an entry lives.
LEMMA EntryWaits ==
  ASSUME TypeOK, PlacesInv, NEW k \in Stage, NEW c \in Context, NEW y \in At(k, c),
         NEW r \in requests, r.uid = y.uid
  PROVE  /\ r.frame = c /\ ctxState[c] = "live" /\ r.browser = BrowserOf[c]
         /\ r.request_id = y.request_id /\ r.context_id = y.context_id
         /\ BrowserOf[c] \in open => Reached(c)
BY DEF PlacesInv, PlacesSound, StandsFor, PagesLive, Reached

LEMMA SweepNextMoves ==
  ASSUME TypeOK, PlacesInv, SweepNext
  PROVE  /\ PlacesInv'
         /\ LossInv => LossInv'
<1>1. PICK s \in sweep, e \in queries :
        /\ Matches(e, s) /\ queries' = queries \ {e}
        /\ IF s.notify THEN Answer(e, FALSE) ELSE UNCHANGED toRenderer
        /\ sweep' = IF {f \in queries : Matches(f, s)} = {e} THEN {} ELSE {s}
        /\ UNCHANGED <<rendererVars, toBrowser, tasks, dispatch, envVars, issued>>
  BY DEF SweepNext, FirstOf, CancelQuery
<1>2. /\ sweep = {s} /\ s.notify \in BOOLEAN
  BY DEF PlacesInv, ClosedAreSwept, TypeOK, Sweep
<1>3. PICK success \in BOOLEAN : success = FALSE
  OBVIOUS
<1>4. PICK sent \in BOOLEAN : sent <=> s.notify /\ Reached(e.frame)
  BY DEF Reached
<1>5. \A d \in Context : At("asked", d)' = At("asked", d)
  BY <1>1 DEF At
<1>6. \/ Answer(e, success) /\ (sent <=> Reached(e.frame))
      \/ UNCHANGED toRenderer /\ ~sent
  BY <1>1, <1>2, <1>3, <1>4
<1>7. /\ e.frame \in Context /\ e \in At("pending", e.frame)
      /\ Moves("pending", e.frame, e, "answered", AnswerTo(e, success), sent)
      /\ \A d \in Context : InOrder(toRenderer'[d], AnswerOrder')
      /\ \A d \in Context : \A x \in ToSet(toRenderer'[d]) :
           x \in ToSet(toRenderer[d]) \/ x.uid = e.uid
  <2>1. UNCHANGED <<issued, dispatch>>
    BY <1>1
  <2> QED
    BY <1>1, <1>3, <1>5, <1>6, <2>1, EntryEnds
<1>8. UNCHANGED <<requests, ctxState, ctxId, contextIdGen, requestIdGen, open, leaving,
                  crashed, terminated, issued, toBrowser, tasks>>
  BY <1>1 DEF rendererVars, envVars
<1>9. PipesOrdered'
  BY <1>7, <1>8 DEF PlacesInv, PipesOrdered, PipeOrder, Cancels
<1>10. UNCHANGED sweep \/ (sweep' = {} /\ \A x \in sweep, f \in queries' : ~Matches(f, x))
  BY <1>1, <1>2
<1>11. PlacesInv'
  BY <1>1, <1>7, <1>8, <1>9, <1>10, BrowserMove DEF Stage
<1>12. ASSUME LossInv PROVE LossInv'
  <2>1. sent \/ \A r \in requests :
          r.uid = e.uid => r.browser \notin open \/ r.frame \in leaving
    <3>1. CASE s.notify
      BY <1>4, <1>7, <3>1, EntryWaits DEF Stage
    <3>2. CASE ~s.notify
      BY <1>1, <1>12, <3>2 DEF LossInv, SilentForLeavers
    <3> QED
      BY <1>2, <3>1, <3>2
  <2>2. sweep' \subseteq sweep /\ PlacesSound
    BY <1>1, <1>2 DEF PlacesInv
  <2> QED
    BY <1>1, <1>7, <1>8, <1>12, <2>1, <2>2, BrowserMoveLoses DEF Stage
<1> QED
  BY <1>11, <1>12

(* Steps after which no call is at a new place. *)
LEMMA PlacesFewer ==
  ASSUME TypeOK, PlacesInv, ContextsApart', PagesLive', PipesOrdered', CancelsSound', ClosedAreSwept',
         \A k \in Stage, c \in Context : At(k, c)' \subseteq At(k, c),
         requests' \subseteq requests, queries' \subseteq queries, UNCHANGED issued,
         \A c \in Context : ctxId[c] # ReservedId => ctxId'[c] = ctxId[c],
         \A c \in Context : \A m \in ToSet(toRenderer'[c]) :
           m \in ToSet(toRenderer[c]) \/ m.uid \in 1..Len(issued),
         \A k \in Stage \ {"answered"}, c \in Context : \A x \in At(k, c)' :
           Waited(x) \/ Doomed(k, c, x) => Waited(x)' \/ Doomed(k, c, x)'
  PROVE  PlacesInv'
<1>1. OnePlace'
  BY DEF PlacesInv, OnePlace
<1>2. ASSUME NEW k \in Stage, NEW c \in Context, NEW x \in At(k, c)'
      PROVE  StandsFor(k, c, x)'
  <2>1. x \in At(k, c) /\ StandsFor(k, c, x)
    BY <1>2 DEF PlacesInv, PlacesSound
  <2>2. x.context_id # ReservedId
    BY <2>1, AtType DEF Id, ReservedId
  <2> QED
    BY <2>1, <2>2 DEF StandsFor
<1>3. PlacesSound'
  <2>1. \A c \in Context : \A m \in ToSet(toRenderer'[c]) : m.uid \in 1..Len(issued')
    BY DEF PlacesInv, PlacesSound
  <2>2. \A e \in queries' : e.browser = BrowserOf[e.frame]
    BY DEF PlacesInv, PlacesSound
  <2> QED
    BY <1>2, <2>1, <2>2 DEF PlacesSound
<1>4. NoneForgotten'
  BY DEF PlacesInv, NoneForgotten
<1> QED
  BY <1>1, <1>3, <1>4 DEF PlacesInv

\* A step of the browser process that leaves every call where it is.
LEMMA BrowserStays ==
  ASSUME TypeOK, PlacesInv,
         UNCHANGED <<requests, ctxState, ctxId, contextIdGen, requestIdGen, open, crashed,
                     terminated, issued, queries, dispatch>>,
         \A c \in Context : At("asked", c)' = At("asked", c),
         \A c \in Context : At("answered", c)' = At("answered", c),
         PipesOrdered',
         \A c \in Context : toBrowser[c] = <<>> => toBrowser'[c] = <<>>,
         \A c \in Context : \A m \in ToSet(toBrowser'[c]) :
           m \in CancelMsg => m \in ToSet(toBrowser[c]),
         \A c \in Context : \A m \in ToSet(toBrowser[c]) :
           \/ m \notin CancelMsg \/ m \in ToSet(toBrowser'[c])
           \/ \A k \in Stage \ {"answered"} : \A x \in At(k, c) :
                Cancels(m, x) => k = "pending" /\ \E s \in sweep' : Matches(x, s),
         \A c \in Context : \A m \in ToSet(toRenderer'[c]) :
           m \in ToSet(toRenderer[c]) \/ m.uid \in 1..Len(issued),
         \/ UNCHANGED sweep
         \/ sweep = {} /\ \A s, t \in sweep' : s = t
  PROVE  PlacesInv'
<1>1. /\ \A k \in Stage, c \in Context : At(k, c)' = At(k, c)
  <2> SUFFICES ASSUME NEW c \in Context
               PROVE  At("offered", c)' = At("offered", c) /\ At("pending", c)' = At("pending", c)
    BY DEF Stage
  <2> QED
    BY AtSame
<1>2. ContextsApart' /\ PagesLive' /\ CancelsSound'
  BY DEF PlacesInv, ContextsApart, Identified, PagesLive, CancelsSound, Cancels
<1>3. ClosedAreSwept'
  <2>1. ASSUME NEW c \in Context, BrowserOf[c] \notin open'
        PROVE  /\ toBrowser'[c] = <<>> /\ At("offered", c)' = {}
               /\ \A e \in At("pending", c)' : \E s \in sweep' : Matches(e, s)
    <3>1. /\ toBrowser[c] = <<>> /\ At("offered", c) = {}
          /\ \A e \in At("pending", c) : \E s \in sweep : Matches(e, s)
      BY <2>1 DEF PlacesInv, ClosedAreSwept
    <3> QED
      BY <1>1, <3>1 DEF Stage
  <2>2. \A s, t \in sweep' : s = t
    BY DEF PlacesInv, ClosedAreSwept
  <2> QED
    BY <2>1, <2>2 DEF ClosedAreSwept, Matches
<1>4. ASSUME NEW k \in Stage \ {"answered"}, NEW c \in Context, NEW x \in At(k, c)',
             Waited(x) \/ Doomed(k, c, x)
      PROVE  Waited(x)' \/ Doomed(k, c, x)'
  <2>1. CASE Waited(x)
    BY <2>1 DEF Waited
  <2>2. CASE BrowserOf[c] \in terminated
    BY <2>2 DEF Doomed
  <2>3. CASE k = "pending" /\ \E s \in sweep : Matches(x, s)
    <3>1. \E s \in sweep' : Matches(x, s)
      BY <2>3
    <3> QED
      BY <2>3, <3>1 DEF Doomed, Matches
  <2>4. ASSUME NEW m \in ToSet(toBrowser[c]), m \in CancelMsg, Cancels(m, x)
        PROVE  Doomed(k, c, x)'
    <3>1. \/ m \in ToSet(toBrowser'[c])
          \/ k = "pending" /\ \E s \in sweep' : Matches(x, s)
      BY <1>1, <1>4, <2>4
    <3> QED
      BY <2>4, <3>1 DEF Doomed, Cancels, Matches
  <2> QED
    BY <1>4, <2>1, <2>2, <2>3, <2>4 DEF Doomed
<1> QED
  BY <1>1, <1>2, <1>3, <1>4, PlacesFewer

\* A pass is started, and nothing else happens to the queries.
LEMMA PassStarts ==
  ASSUME TypeOK, PlacesInv,
         UNCHANGED <<rendererVars, pipeVars, open, crashed, terminated, issued, queries, dispatch>>,
         UNCHANGED sweep \/ (sweep = {} /\ \E s : StartSweep(s))
  PROVE  PlacesInv'
<1>1. UNCHANGED <<requests, ctxState, ctxId, contextIdGen, requestIdGen, open, crashed,
                     terminated, issued, queries, dispatch, toBrowser, toRenderer>>
  BY DEF rendererVars, pipeVars
<1>2. /\ \A c \in Context : At("asked", c)' = At("asked", c)
      /\ \A c \in Context : At("answered", c)' = At("answered", c)
  BY <1>1 DEF At, Final
<1>3. PipesOrdered'
  BY <1>1 DEF PlacesInv, PipesOrdered, PipeOrder, AnswerOrder, Final, Cancels
<1>4. UNCHANGED sweep \/ (sweep = {} /\ \A s, t \in sweep' : s = t)
  BY DEF StartSweep
<1> QED
  BY <1>1, <1>2, <1>3, <1>4, BrowserStays

LEMMA StaysLoses ==
  ASSUME TypeOK, LossInv,
         UNCHANGED <<requests, open, queries>>, leaving \subseteq leaving',
         \A k \in Stage, c \in Context : At(k, c)' = At(k, c),
         \A t \in ToSet(tasks') : t \in ToSet(tasks) \/ (t.kind = "cancel" => t.which.notify),
         \A s \in sweep' :
           \/ s \in sweep \/ s.notify
           \/ \A e \in queries, r \in requests :
                Matches(e, s) /\ r.uid = e.uid => r.browser \notin open \/ r.frame \in leaving'
  PROVE  LossInv'
<1>1. SilentForLeavers'
  BY DEF LossInv, SilentForLeavers, Matches
<1>2. ASSUME NEW r \in requests, r.browser \in open, r.frame \notin leaving'
      PROVE  \E k \in Stage : \E x \in At(k, r.frame)' : x.uid = r.uid
  <2>1. PICK k \in Stage : \E x \in At(k, r.frame) : x.uid = r.uid
    BY <1>2 DEF LossInv, NoneLost
  <2>2. r.frame \in Context
    BY DEF TypeOK, RequestInfo
  <2> QED
    BY <2>1, <2>2
<1> QED
  BY <1>1, <1>2 DEF LossInv, NoneLost

LEMMA ReceiveCancelMoves ==
  ASSUME TypeOK, FramesShareProcess, PlacesInv, OneCallPerId, NEW c \in Context, ReceiveCancel(c)
  PROVE  /\ PlacesInv'
         /\ LossInv => LossInv'
<1> DEFINE m == Head(toBrowser[c])
           hit == {e \in queries : /\ e.browser = BrowserOf[c]
                                   /\ e.context_id = m.context_id
                                   /\ e.request_id = m.request_id}
           s == [browsers |-> {BrowserOf[c]}, handlers |-> Handler,
                 context_ids |-> {m.context_id}, notify |-> FALSE]
<1>1. /\ dispatch = {} /\ sweep = {} /\ toBrowser[c] # <<>> /\ m.type = "cancel" /\ Consume(c)
      /\ BrowserOf[c] \in open
      /\ UNCHANGED <<rendererVars, tasks, dispatch, envVars, issued>>
      /\ \/ m.request_id = ReservedId /\ StartSweep(s) /\ UNCHANGED <<toRenderer, queries>>
         \/ m.request_id # ReservedId /\ hit = {} /\ UNCHANGED <<toRenderer, queries, sweep>>
         \/ /\ m.request_id # ReservedId /\ UNCHANGED <<toRenderer, sweep>>
            /\ \E e \in hit : queries' = queries \ {e}
  BY DEF ReceiveCancel, UiIdle, NextMsg, mapVars, FirstOf, CancelQuery
<1> HIDE DEF m
<1>2. /\ \A d \in Context \ {c} : toBrowser'[d] = toBrowser[d]
      /\ InOrder(toBrowser'[c], PipeOrder)
      /\ m \in QueryMsg \union CancelMsg
      /\ ToSet(toBrowser[c]) = {m} \union ToSet(toBrowser'[c])
      /\ \A x \in ToSet(toBrowser'[c]) : <<x, m>> \notin PipeOrder
  <2>1. InOrder(toBrowser[c], PipeOrder)
    BY DEF PlacesInv, PipesOrdered
  <2> QED
    BY <1>1, <2>1, ConsumeFacts DEF m
<1>3. m \in CancelMsg /\ m \notin QueryMsg /\ m \in ToSet(toBrowser[c])
  BY <1>1, <1>2, PipeTypes
<1>4. /\ UNCHANGED <<requests, ctxState, ctxId, contextIdGen, requestIdGen, open, leaving,
                     crashed, terminated, issued, dispatch, tasks, toRenderer>>
  BY <1>1 DEF rendererVars, envVars
<1>5. /\ \A d \in Context : At("asked", d)' = At("asked", d)
      /\ \A d \in Context : At("answered", d)' = At("answered", d)
  <2>1. ASSUME NEW d \in Context PROVE At("asked", d)' = At("asked", d)
    <3>1. CASE d = c
      <4>1. At("asked", c)' = ToSet(toBrowser'[c]) \intersect QueryMsg
        BY AtNext
      <4>2. At("asked", c) = ToSet(toBrowser[c]) \intersect QueryMsg
        BY AtFacts
      <4> QED
        BY <1>2, <1>3, <3>1, <4>1, <4>2
    <3>2. CASE d # c
      BY <1>2, <3>2, AtSame
    <3> QED
      BY <3>1, <3>2
  <2>2. ASSUME NEW d \in Context PROVE At("answered", d)' = At("answered", d)
    BY <1>4, AtSame
  <2> QED
    BY <2>1, <2>2
<1>6. PipesOrdered'
  BY <1>2, <1>4 DEF PlacesInv, PipesOrdered, PipeOrder, AnswerOrder, Final, Cancels
<1>7. /\ \A d \in Context : toBrowser[d] = <<>> => toBrowser'[d] = <<>>
      /\ \A d \in Context : \A x \in ToSet(toBrowser'[d]) : x \in ToSet(toBrowser[d])
      /\ \A d \in Context : \A x \in ToSet(toBrowser[d]) :
           x \in ToSet(toBrowser'[d]) \/ (d = c /\ x = m)
  <2>1. \A d \in Context : d # c => toBrowser'[d] = toBrowser[d]
    BY <1>2
  <2>2. \A d \in Context : toBrowser[d] = <<>> => toBrowser'[d] = <<>>
    BY <1>1, <2>1
  <2>3. ASSUME NEW d \in Context, NEW x
        PROVE  /\ x \in ToSet(toBrowser'[d]) => x \in ToSet(toBrowser[d])
               /\ x \in ToSet(toBrowser[d]) => x \in ToSet(toBrowser'[d]) \/ (d = c /\ x = m)
    <3>1. CASE d = c
      BY <1>2, <3>1
    <3>2. CASE d # c
      BY <2>1, <3>2
    <3> QED
      BY <3>1, <3>2
  <2> QED
    BY <2>2, <2>3
<1>8. /\ m.context_id = ctxId[c] /\ m.context_id \in Id
      /\ \A r \in requests : r.frame = c => ~Cancels(m, r)
  BY <1>3 DEF PlacesInv, CancelsSound, CancelMsg
<1>9. ASSUME NEW k \in Stage \ {"answered"}, NEW x \in At(k, c), Cancels(m, x)
      PROVE  k = "pending" /\ x \in queries /\ x.browser = BrowserOf[c]
  <2>1. CASE k = "asked"
    <3>1. x \in QueryMsg /\ x \in ToSet(toBrowser'[c])
      BY <1>2, <1>3, <2>1, AtFacts
    <3>2. <<x, m>> \in QueryMsg \X CancelMsg
      BY <1>3, <3>1
    <3>3. <<x, m>> \in PipeOrder
      BY <1>9, <3>2 DEF PipeOrder
    <3> QED
      BY <1>2, <3>1, <3>3
  <2>2. CASE k = "offered"
    BY <1>1, <2>2, AtFacts
  <2>3. CASE k = "pending"
    BY <2>3, AtFacts DEF PlacesInv, PlacesSound
  <2> QED
    BY <2>1, <2>2, <2>3 DEF Stage
<1>10. CASE m.request_id = ReservedId /\ StartSweep(s) /\ UNCHANGED <<toRenderer, queries>>
  <2>1. ASSUME NEW x \in queries, x.browser = BrowserOf[c], Cancels(m, x)
        PROVE  \E t \in sweep' : Matches(x, t)
    <3>1. Matches(x, s)
      BY <2>1 DEF Matches, Cancels, TypeOK, QueryInfo
    <3> HIDE DEF s
    <3> QED
      BY <1>10, <3>1 DEF StartSweep
  <2>2. \A t \in sweep' : t = s
    <3> HIDE DEF s
    <3> QED
      BY <1>10 DEF StartSweep
  <2>3. s.notify = FALSE /\ s.browsers = {BrowserOf[c]} /\ s.context_ids = {m.context_id}
    OBVIOUS
  <2> HIDE DEF s
  <2>4. PlacesInv'
    <3>1. \A d \in Context : \A x \in ToSet(toBrowser[d]) :
            \/ x \notin CancelMsg \/ x \in ToSet(toBrowser'[d])
            \/ \A k \in Stage \ {"answered"} : \A y \in At(k, d) :
                 Cancels(x, y) => k = "pending" /\ \E t \in sweep' : Matches(y, t)
      BY <1>7, <1>9, <2>1
    <3>2. sweep = {} /\ \A t, u \in sweep' : t = u
      BY <1>1, <2>2
    <3>3. queries' = queries
      BY <1>10
    <3> QED
      BY <1>4, <1>5, <1>6, <1>7, <3>1, <3>2, <3>3, BrowserStays
  <2>5. ASSUME NEW e \in queries, NEW r \in requests, Matches(e, s), r.uid = e.uid PROVE FALSE
    <3>1. e.frame \in Context /\ e \in At("pending", e.frame)
      BY EntryPlace
    <3>2. /\ r.frame = e.frame /\ r.context_id = e.context_id
          /\ e.context_id = ctxId[e.frame] /\ e.browser = BrowserOf[e.frame]
      BY <2>5, <3>1, EntryWaits DEF Stage, PlacesInv, PlacesSound, StandsFor
    <3>3. e.browser = BrowserOf[c] /\ e.context_id = m.context_id
      BY <2>3, <2>5 DEF Matches
    <3>4. e.frame = c
      <4>1. ProcessOf[e.frame] = ProcessOf[c]
        BY <3>1, <3>2, <3>3 DEF FramesShareProcess
      <4>2. ctxId[c] # ReservedId /\ ctxId[e.frame] = ctxId[c]
        BY <1>8, <3>2, <3>3 DEF Id, ReservedId
      <4> QED
        BY <3>1, <4>1, <4>2 DEF PlacesInv, ContextsApart
    <3> QED
      BY <1>8, <1>10, <3>2, <3>3, <3>4 DEF Cancels
  <2>6. ASSUME LossInv PROVE LossInv'
    <3>1. \A k \in Stage, d \in Context : At(k, d)' = At(k, d)
      <4>1. \A d \in Context : At("offered", d)' = At("offered", d)
                               /\ At("pending", d)' = At("pending", d)
        BY <1>4, <1>10 DEF At
      <4> QED
        BY <1>5, <4>1 DEF Stage
    <3>2. UNCHANGED <<requests, open, queries>> /\ leaving \subseteq leaving' /\ tasks' = tasks
      BY <1>4, <1>10
    <3> QED
      BY <2>2, <2>5, <2>6, <3>1, <3>2, StaysLoses
  <2> QED
    BY <2>4, <2>6
<1>11. CASE m.request_id # ReservedId /\ hit = {} /\ UNCHANGED <<toRenderer, queries, sweep>>
  <2>1. PlacesInv'
    <3>1. \A k \in Stage \ {"answered"} : \A x \in At(k, c) : ~Cancels(m, x)
      BY <1>9, <1>11 DEF Cancels
    <3>2. \A d \in Context : \A x \in ToSet(toBrowser[d]) :
            \/ x \notin CancelMsg \/ x \in ToSet(toBrowser'[d])
            \/ \A k \in Stage \ {"answered"} : \A y \in At(k, d) :
                 Cancels(x, y) => k = "pending" /\ \E t \in sweep' : Matches(y, t)
      BY <1>7, <3>1
    <3> QED
      BY <1>4, <1>5, <1>6, <1>7, <1>11, <3>2, BrowserStays
  <2>2. ASSUME LossInv PROVE LossInv'
    <3>1. \A k \in Stage, d \in Context : At(k, d)' = At(k, d)
      <4>1. \A d \in Context : At("offered", d)' = At("offered", d)
                               /\ At("pending", d)' = At("pending", d)
        BY <1>4, <1>11 DEF At
      <4> QED
        BY <1>5, <4>1 DEF Stage
    <3>2. UNCHANGED <<requests, open, queries, sweep>> /\ leaving \subseteq leaving' /\ tasks' = tasks
      BY <1>4, <1>11
    <3> QED
      BY <2>2, <3>1, <3>2, StaysLoses
  <2> QED
    BY <2>1, <2>2
<1>12. CASE /\ m.request_id # ReservedId /\ UNCHANGED <<toRenderer, sweep>>
            /\ \E e \in hit : queries' = queries \ {e}
  <2>1. PICK e \in queries : /\ e.browser = BrowserOf[c] /\ e.context_id = m.context_id
                             /\ e.request_id = m.request_id /\ queries' = queries \ {e}
    BY <1>12
  <2>2. PICK success \in BOOLEAN : success = FALSE
    OBVIOUS
  <2>3. PICK sent \in BOOLEAN : sent = FALSE
    OBVIOUS
  <2>4. /\ e.frame \in Context /\ e \in At("pending", e.frame)
        /\ Moves("pending", e.frame, e, "answered", AnswerTo(e, success), sent)
    <3>1. /\ UNCHANGED <<issued, dispatch>> /\ (success => ~issued[e.uid])
          /\ \/ Answer(e, success) /\ (sent <=> Reached(e.frame))
             \/ UNCHANGED toRenderer /\ ~sent
      BY <1>4, <2>2, <2>3
    <3> QED
      BY <1>5, <2>1, <3>1, EntryEnds
  <2>5. e.frame = c
    <3>1. e.context_id = ctxId[e.frame] /\ e.browser = BrowserOf[e.frame]
      BY <2>4 DEF Stage, PlacesInv, PlacesSound, StandsFor
    <3>2. ProcessOf[e.frame] = ProcessOf[c]
      BY <2>1, <2>4, <3>1 DEF FramesShareProcess
    <3>3. ctxId[c] # ReservedId /\ ctxId[e.frame] = ctxId[c]
      BY <1>8, <2>1, <3>1 DEF Id, ReservedId
    <3> QED
      BY <2>4, <3>2, <3>3 DEF PlacesInv, ContextsApart
  <2>6. \A r \in requests : r.uid # e.uid
    <3>1. \A r \in requests : r.uid = e.uid => Cancels(m, r) /\ r.frame = c
      BY <2>1, <2>4, <2>5, EntryWaits DEF Cancels, Stage
    <3> QED
      BY <1>8, <3>1
  <2>7. ASSUME NEW k \in Stage, NEW x \in At(k, c), Cancels(m, x) PROVE x.uid = e.uid
    <3>1. x.request_id = e.request_id /\ x.uid \in Uid /\ x.request_id \in Id
      BY <1>12, <2>1, <2>7, AtType DEF Cancels
    <3>2. e.uid \in Uid /\ e.request_id \in Id /\ ProcessOf[c] \in Process
      BY RouterAssumption DEF TypeOK, QueryInfo
    <3>3. Carried(ProcessOf[c], e.request_id, e.uid)
      BY <2>5, CarriedNow
    <3>4. Carried(ProcessOf[c], x.request_id, x.uid)
      <4>1. CASE k = "asked"
        <5>1. x \in ToSet(toBrowser[c]) /\ x.type = "query"
          BY <2>7, <4>1, AtFacts DEF QueryMsg
        <5> QED
          BY <5>1, CarriedNow
      <4>2. CASE k = "offered"
        BY <2>7, <4>2, AtFacts, CarriedNow
      <4>3. CASE k = "pending"
        BY <2>7, <4>3, AtFacts, CarriedNow
      <4>4. CASE k = "answered"
        BY <2>7, <4>4, AtFacts, CarriedNow
      <4> QED
        BY <4>1, <4>2, <4>3, <4>4 DEF Stage
    <3> QED
      BY <3>1, <3>2, <3>3, <3>4 DEF OneCallPerId
  <2>8. \A d \in Context : \A x \in ToSet(toBrowser[d]) :
          \/ x \notin CancelMsg \/ x \in ToSet(toBrowser'[d])
          \/ \A k \in Stage : \A y \in At(k, d) : Cancels(x, y) => y.uid = e.uid
    BY <1>7, <2>7
  <2>9. UNCHANGED <<toRenderer, sweep>> /\ \A f \in queries' : f \in queries
    BY <1>12, <2>1
  <2>10. PlacesInv'
    BY <1>4, <1>6, <1>7, <2>4, <2>5, <2>8, <2>9, BrowserMove DEF Stage
  <2>11. ASSUME LossInv PROVE LossInv'
    <3>1. PlacesSound /\ sent \in BOOLEAN
      BY DEF PlacesInv
    <3> QED
      BY <1>4, <2>4, <2>6, <2>9, <2>11, <3>1, BrowserMoveLoses DEF Stage
  <2> QED
    BY <2>10, <2>11
<1> QED
  BY <1>1, <1>10, <1>11, <1>12

LEMMA RunCallbackTaskMoves ==
  ASSUME Books, PlacesInv, RunCallbackTask
  PROVE  /\ PlacesInv'
         /\ LossInv => LossInv'
<1> DEFINE t == Head(tasks)
           hit == {a \in attached : a.query_id = t.query_id}
           info == {e \in queries : e.query_id = t.query_id}
           over == {e \in info : RemovesQuery(t.kind, e)}
<1>1. /\ dispatch = {} /\ tasks # <<>> /\ t.kind \in {"success", "failure"}
      /\ tasks' = Tail(tasks)
      /\ UNCHANGED <<rendererVars, toBrowser, dispatch, sweep, envVars, issued>>
      /\ \/ UNCHANGED <<toRenderer, queries>>
         \/ /\ hit # {} /\ queries' = queries \ over
            /\ \/ info = {}
               \/ \E e \in info : Answer(e, t.kind = "success")
  BY DEF RunCallbackTask, UiIdle, mapVars
<1>2. UNCHANGED <<requests, ctxState, ctxId, contextIdGen, requestIdGen, open, leaving,
                  crashed, terminated, issued, dispatch, sweep, toBrowser>>
  BY <1>1 DEF rendererVars, envVars
<1>3. ToSet(tasks') \subseteq ToSet(tasks)
  <2>1. tasks \in Seq(CallTask \union CancelTask) /\ tasks # <<>>
    BY <1>1 DEF Books, TypeOK
  <2> QED
    BY <1>1, <2>1, TailSet
<1>4. /\ TypeOK /\ PlacesSound
      /\ \A d \in Context : At("asked", d)' = At("asked", d) /\ At("offered", d)' = At("offered", d)
  BY <1>2 DEF At, Books, PlacesInv
<1>5. CASE UNCHANGED <<toRenderer, queries>>
  <2>1. PlacesInv'
    <3>1. UNCHANGED <<rendererVars, pipeVars, open, crashed, terminated, issued, queries, dispatch>>
          /\ UNCHANGED sweep
      BY <1>1, <1>5 DEF envVars, pipeVars
    <3> QED
      BY <1>4, <3>1, PassStarts
  <2>2. ASSUME LossInv PROVE LossInv'
    <3>1. \A k \in Stage, d \in Context : At(k, d)' = At(k, d)
      BY <1>2, <1>5 DEF At, Final, Stage
    <3> QED
      BY <1>2, <1>3, <1>4, <1>5, <2>2, <3>1, StaysLoses
  <2> QED
    BY <2>1, <2>2
<1>6. CASE hit # {} /\ queries' = queries \ over /\ (info = {} \/ \E e \in info : Answer(e, t.kind = "success"))
  <2>1. PICK e \in queries : e.query_id = t.query_id
    BY <1>1, <1>6 DEF Books, CallbackAttachedWhilePending
  <2>2. info = {e}
    BY <2>1 DEF Books, EntriesUnique
  <2>3. e \in QueryInfo
    BY DEF Books, TypeOK
  <2>4. PICK c \in Context : c = e.frame
    BY <2>3 DEF QueryInfo
  <2>5. PICK success \in BOOLEAN : success = (t.kind = "success")
    OBVIOUS
  <2>6. Answer(e, success)
    BY <1>6, <2>2, <2>5
  <2>7. PICK sent \in BOOLEAN : sent <=> Reached(e.frame)
    BY DEF Reached
  <2>8. e \in At("pending", c) /\ e.uid \in 1..Len(issued) /\ e.persistent = issued[e.uid]
    BY <2>4, AtFacts DEF PlacesInv, PlacesSound, StandsFor, Stage
  <2>9. CASE success => ~e.persistent
    <3>1. over = {e}
      BY <1>1, <2>2, <2>5, <2>9 DEF RemovesQuery
    <3>2. queries' = queries \ {e}
      BY <1>6, <3>1
    <3>3. /\ Moves("pending", e.frame, e, "answered", AnswerTo(e, success), sent)
          /\ \A d \in Context : InOrder(toRenderer'[d], AnswerOrder')
          /\ \A d \in Context : \A x \in ToSet(toRenderer'[d]) :
               x \in ToSet(toRenderer[d]) \/ x.uid = e.uid
      <4>1. /\ UNCHANGED <<issued, dispatch>> /\ (success => ~issued[e.uid])
            /\ \/ Answer(e, success) /\ (sent <=> Reached(e.frame))
               \/ UNCHANGED toRenderer /\ ~sent
        BY <1>2, <2>6, <2>7, <2>8, <2>9
      <4> QED
        BY <1>4, <3>2, <4>1, EntryEnds
    <3>4. PipesOrdered'
      BY <1>2, <3>3 DEF PlacesInv, PipesOrdered, PipeOrder, Cancels
    <3>5. PlacesInv'
      BY <1>2, <2>4, <3>2, <3>3, <3>4, BrowserMove DEF Stage
    <3>6. ASSUME LossInv PROVE LossInv'
      <4>1. sent \/ \A r \in requests :
              r.uid = e.uid => r.browser \notin open \/ r.frame \in leaving
        BY <1>4, <2>4, <2>7, <2>8, EntryWaits DEF Stage
      <4>2. sweep' \subseteq sweep /\ \A f \in queries' : f \in queries
        BY <1>2, <3>2
      <4> QED
        BY <1>2, <1>3, <1>4, <2>4, <3>3, <3>6, <4>1, <4>2, BrowserMoveLoses DEF Stage
    <3> QED
      BY <3>5, <3>6
  <2>10. CASE success /\ e.persistent
    <3>1. over = {}
      BY <2>2, <2>5, <2>10 DEF RemovesQuery
    <3>2. queries' = queries
      BY <1>6, <3>1
    <3>3. PICK a : a = AnswerTo(e, success)
      OBVIOUS
    <3>4. a.uid = e.uid /\ a \notin Final /\ a \in AnswerMsg
      BY <2>3, <2>8, <2>10, <3>3 DEF AnswerTo, Final, AnswerMsg, QueryInfo
    <3>5. /\ \A d \in Context \ {c} : toRenderer'[d] = toRenderer[d]
          /\ ToSet(toRenderer'[c]) =
               ToSet(toRenderer[c]) \union (IF Reached(c) THEN {a} ELSE {})
          /\ InOrder(toRenderer'[c], AnswerOrder')
      <4>1. /\ e.frame \in Context /\ e.context_id \in Id /\ e.request_id \in Id /\ e.uid \in Uid
            /\ InOrder(toRenderer[e.frame], AnswerOrder) /\ UNCHANGED issued
            /\ AnswerTo(e, success) \notin Final
        BY <1>2, <2>3, <3>3, <3>4 DEF QueryInfo, PlacesInv, PipesOrdered
      <4> QED
        BY <1>4, <2>4, <2>6, <3>3, <4>1, AnswerFacts
    <3>6. Final' = Final /\ AnswerOrder' = AnswerOrder
      BY <1>2, FinalSame
    <3>7. \A d \in Context : At("answered", d)' = At("answered", d)
      <4> SUFFICES ASSUME NEW d \in Context PROVE At("answered", d)' = At("answered", d)
        OBVIOUS
      <4>1. CASE d = c
        <5>1. At("answered", c)' = ToSet(toRenderer'[c]) \intersect Final'
          BY AtNext
        <5>2. At("answered", c) = ToSet(toRenderer[c]) \intersect Final
          BY AtFacts
        <5> QED
          BY <3>4, <3>5, <3>6, <4>1, <5>1, <5>2
      <4>2. CASE d # c
        BY <1>2, <3>5, <4>2, AtSame
      <4> QED
        BY <4>1, <4>2
    <3>8. PipesOrdered'
      BY <1>2, <3>5, <3>6 DEF PlacesInv, PipesOrdered, PipeOrder, Cancels
    <3>9. \A d \in Context : \A x \in ToSet(toRenderer'[d]) :
            x \in ToSet(toRenderer[d]) \/ x.uid \in 1..Len(issued)
      BY <2>8, <3>4, <3>5
    <3>10. PlacesInv'
      BY <1>2, <1>4, <3>2, <3>7, <3>8, <3>9, BrowserStays
    <3>11. ASSUME LossInv PROVE LossInv'
      <4>1. \A k \in Stage, d \in Context : At(k, d)' = At(k, d)
        <5>1. \A d \in Context : At("pending", d)' = At("pending", d)
          BY <3>2 DEF At
        <5> QED
          BY <1>4, <3>7, <5>1 DEF Stage
      <4> QED
        BY <1>2, <1>3, <1>4, <3>2, <3>11, <4>1, StaysLoses
    <3> QED
      BY <3>10, <3>11
  <2> QED
    BY <2>9, <2>10
<1> QED
  BY <1>1, <1>5, <1>6

(* The passes that start, and the steps that only post a task. *)
LEMMA QuietMoves ==
  ASSUME TypeOK, PlacesInv,
         \/ ApplicationStep \/ RunCancelTask
         \/ \E b \in Browser : OnBeforeBrowse(b) \/ NavigationAborted(b)
  PROVE  PlacesInv'
<1> USE DEF envVars, ghostVars, mapVars, MayCallRouter, UiIdle
<1>1. /\ UNCHANGED <<rendererVars, pipeVars, open, crashed, terminated, issued, queries, dispatch>>
      /\ \/ UNCHANGED sweep
         \/ sweep = {} /\ \E s : StartSweep(s)
  <2>1. CASE ApplicationStep
    BY <2>1 DEF ApplicationStep, ExecuteCallback, CancelPending, PostCancelPending,
       AddHandler, RemoveHandler
  <2>2. CASE RunCancelTask
    BY <2>2 DEF RunCancelTask
  <2>3. ASSUME NEW b \in Browser, OnBeforeBrowse(b) \/ NavigationAborted(b)
        PROVE  <1>1!:
    BY <2>3 DEF OnBeforeBrowse, NavigationAborted
  <2> QED
    BY <2>1, <2>2, <2>3
<1> QED
  BY <1>1, PassStarts

LEMMA QuietLoses ==
  ASSUME TypeOK, PlacesInv, LossInv,
         ApplicationStep \/ RunCancelTask \/ \E b \in Browser : OnBeforeBrowse(b)
  PROVE  LossInv'
<1> USE DEF envVars, ghostVars, mapVars, MayCallRouter, UiIdle
<1>1. /\ UNCHANGED <<rendererVars, pipeVars, open, issued, queries, dispatch>>
      /\ leaving \subseteq leaving'
  BY DEF ApplicationStep, ExecuteCallback, CancelPending, PostCancelPending,
     AddHandler, RemoveHandler, RunCancelTask, OnBeforeBrowse
<1>2. \A k \in Stage, c \in Context : At(k, c)' = At(k, c)
  BY <1>1 DEF At, Final, Stage, pipeVars
<1>3. UNCHANGED <<requests, open, queries>>
  BY <1>1 DEF rendererVars
<1>4. tasks \in Seq(CallTask \union CancelTask)
  BY DEF TypeOK
<1>5. \A bs, hs : PendingFor(bs, hs, TRUE).notify = TRUE
  BY DEF PendingFor
<1>6. CASE ApplicationStep
  <2>1. \A t \in ToSet(tasks') : t \in ToSet(tasks) \/ (t.kind = "cancel" => t.which.notify)
    <3>1. ASSUME NEW q \in QueryId, NEW kind \in {"success", "failure"}, ExecuteCallback(q, kind)
          PROVE  <2>1!:
      <4> DEFINE t == [kind |-> kind, query_id |-> q]
      <4>1. t \in CallTask \union CancelTask /\ t.kind # "cancel"
        BY DEF CallTask
      <4>2. tasks' = Append(tasks, t)
        BY <3>1 DEF ExecuteCallback
      <4> HIDE DEF t
      <4>3. ToSet(tasks') = ToSet(tasks) \union {t}
        BY <1>4, <4>1, <4>2, AppendSet
      <4> QED
        BY <4>1, <4>3
    <3>2. ASSUME NEW bs \in OneOrAll(Browser), NEW hs \in OneOrAll(Handler),
                 PostCancelPending(bs, hs)
          PROVE  <2>1!:
      <4> DEFINE t == [kind |-> "cancel", which |-> PendingFor(bs, hs, TRUE)]
      <4>0. bs \in SUBSET Browser /\ hs \in SUBSET Handler
        BY DEF OneOrAll
      <4>1. t \in CallTask \union CancelTask /\ t.which.notify
        BY <1>5, <4>0, PendingForType DEF CancelTask
      <4>2. tasks' = Append(tasks, t)
        BY <3>2 DEF PostCancelPending
      <4> HIDE DEF t
      <4>3. ToSet(tasks') = ToSet(tasks) \union {t}
        BY <1>4, <4>1, <4>2, AppendSet
      <4> QED
        BY <4>1, <4>3
    <3>3. CASE UNCHANGED tasks
      BY <3>3
    <3> QED
      BY <1>6, <3>1, <3>2, <3>3 DEF ApplicationStep, CancelPending, AddHandler, RemoveHandler
  <2>2. \A s \in sweep' : s \in sweep \/ s.notify
    <3>1. UNCHANGED sweep \/ \E bs, hs : StartSweep(PendingFor(bs, hs, TRUE))
      BY <1>6 DEF ApplicationStep, ExecuteCallback, CancelPending, PostCancelPending,
         AddHandler, RemoveHandler
    <3>2. ASSUME NEW bs, NEW hs, StartSweep(PendingFor(bs, hs, TRUE)), NEW s \in sweep'
          PROVE  s.notify
      <4>1. s = PendingFor(bs, hs, TRUE)
        BY <3>2 DEF StartSweep
      <4> QED
        BY <1>5, <4>1
    <3> QED
      BY <3>1, <3>2
  <2> QED
    BY <1>1, <1>2, <1>3, <2>1, <2>2, StaysLoses
<1>7. CASE RunCancelTask
  <2>1. /\ tasks # <<>> /\ Head(tasks).kind = "cancel" /\ tasks' = Tail(tasks)
        /\ \A s \in sweep' : s = Head(tasks).which
    BY <1>7 DEF RunCancelTask, StartSweep
  <2>2. ToSet(tasks) = {Head(tasks)} \union ToSet(tasks')
    BY <1>4, <2>1, TailSet
  <2>3. \A s \in sweep' : s.notify
    BY <2>1, <2>2 DEF LossInv, SilentForLeavers
  <2> QED
    BY <1>1, <1>2, <1>3, <2>2, <2>3, StaysLoses
<1>8. ASSUME NEW b \in Browser, OnBeforeBrowse(b) PROVE LossInv'
  <2> DEFINE s == PendingFor({b}, Handler, FALSE)
  <2>1. /\ leaving' = leaving \union {c \in ContextsOf(b) : ctxState[c] = "live"}
        /\ UNCHANGED tasks /\ \A t \in sweep' : t = s
    BY <1>8 DEF OnBeforeBrowse, StartSweep
  <2>2. ASSUME NEW e \in queries, NEW r \in requests, Matches(e, s), r.uid = e.uid
        PROVE  r.frame \in leaving'
    <3>1. e.browser = b
      BY <2>2 DEF Matches, PendingFor
    <3>2. e.frame \in Context /\ e \in At("pending", e.frame)
      BY EntryPlace
    <3>3. /\ r.frame = e.frame /\ ctxState[e.frame] = "live" /\ BrowserOf[e.frame] = e.browser
      BY <2>2, <3>2, EntryWaits DEF Stage, PlacesInv, PlacesSound
    <3> QED
      BY <2>1, <3>1, <3>2, <3>3 DEF ContextsOf
  <2> HIDE DEF s
  <2> QED
    BY <1>1, <1>2, <1>3, <2>1, <2>2, StaysLoses
<1> QED
  BY <1>6, <1>7, <1>8

----------------------------------------------------------------------------
(* The pages. *)

\* A context that needs an ID gets one that no other of its process has.
LEMMA NamesContext ==
  ASSUME IdsSuffice, TypeOK, ContextsApart, NEW c \in Context, EnsureContextId(c)
  PROVE  /\ ContextsApart'
         /\ ctxId'[c] = ContextId(c)
         /\ \A d \in Context : ctxId[d] # ReservedId \/ d # c => ctxId'[d] = ctxId[d]
<1> DEFINE p == ProcessOf[c]
           named == Identified(p)
<1>1. p \in Process /\ ctxId \in [Context -> Id \union {ReservedId}]
      /\ contextIdGen \in [Process -> Id \union {ReservedId}]
      /\ ctxId' = [ctxId EXCEPT ![c] = ContextId(c)]
  BY RouterAssumption DEF TypeOK, EnsureContextId
<1>2. CASE ctxId[c] # ReservedId
  <2>1. ContextId(c) = ctxId[c] /\ UNCHANGED contextIdGen
    BY <1>2 DEF ContextId, EnsureContextId
  <2>2. ctxId' = ctxId
    BY <1>1, <2>1
  <2> QED
    BY <2>1, <2>2 DEF ContextsApart, Identified
<1>3. CASE ctxId[c] = ReservedId
  <2>1. named \subseteq Context /\ c \in Context \ named
    BY <1>3 DEF Identified
  <2>2. IsFiniteSet(named) /\ Cardinality(named) \in Nat
        /\ Cardinality(named \union {c}) = Cardinality(named) + 1
        /\ Cardinality(named \union {c}) <= Cardinality(Context) /\ Cardinality(Context) \in Nat
    <3> HIDE DEF named
    <3>1. IsFiniteSet(Context) /\ named \in SUBSET Context /\ named \union {c} \in SUBSET Context
      BY <2>1 DEF IdsSuffice
    <3>2. IsFiniteSet(named)
      BY <3>1, FS_Subset
    <3>3. Cardinality(named) \in Nat /\ Cardinality(Context) \in Nat
      BY <3>1, <3>2, FS_CardinalityType
    <3>4. Cardinality(named \union {c}) <= Cardinality(Context)
      BY <3>1, FS_Subset
    <3>5. Cardinality(named \union {c}) = Cardinality(named) + 1
      BY <2>1, <3>2, FS_AddElement
    <3> QED
      BY <3>2, <3>3, <3>4, <3>5
  <2>3. PICK n \in Nat : n = contextIdGen[p] /\ n <= Cardinality(named)
    BY <1>1, RouterAssumption DEF ContextsApart, Id, ReservedId
  <2>4. n < MaxId
    BY <2>2, <2>3, RouterAssumption DEF IdsSuffice
  <2>5. ContextId(c) = n + 1 /\ contextIdGen' = [contextIdGen EXCEPT ![p] = n + 1]
    <3>1. GetNextId(contextIdGen[p]) = n + 1
      BY <2>3, <2>4, RouterAssumption DEF GetNextId
    <3>2. contextIdGen' = [contextIdGen EXCEPT ![p] = GetNextId(contextIdGen[p])]
      BY <1>3 DEF EnsureContextId
    <3> QED
      BY <1>3, <3>1, <3>2 DEF ContextId
  <2>6. n + 1 # ReservedId
    BY <2>3 DEF ReservedId
  <2>7. Identified(p)' = named \union {c}
    BY <1>1, <2>5, <2>6 DEF Identified
  <2>8. \A q \in Process : q # p => Identified(q)' = Identified(q)
    BY <1>1, <2>5 DEF Identified
  <2>9. \A q \in Process : contextIdGen'[q] <= Cardinality(Identified(q)')
    <3> SUFFICES ASSUME NEW q \in Process PROVE contextIdGen'[q] <= Cardinality(Identified(q)')
      OBVIOUS
    <3>1. CASE q = p
      <4>1. contextIdGen'[q] = n + 1
        BY <1>1, <2>5, <3>1
      <4>2. Identified(q)' = named \union {c}
        BY <2>7, <3>1
      <4> HIDE DEF named
      <4> QED
        BY <2>2, <2>3, <4>1, <4>2
    <3>2. CASE q # p
      <4>1. contextIdGen'[q] = contextIdGen[q]
        BY <1>1, <2>5, <3>2
      <4> QED
        BY <2>8, <3>2, <4>1 DEF ContextsApart
    <3> QED
      BY <3>1, <3>2
  <2>10. \A d \in Context : ctxId'[d] = IF d = c THEN n + 1 ELSE ctxId[d]
    BY <1>1, <2>5
  <2>11. \A q \in Process : contextIdGen'[q] = IF q = p THEN n + 1 ELSE contextIdGen[q]
    BY <1>1, <2>5
  <2>12. \A d \in Context : ProcessOf[d] \in Process /\ ctxId[d] \in Nat
                            /\ ctxId[d] <= contextIdGen[ProcessOf[d]]
    <3> SUFFICES ASSUME NEW d \in Context
                 PROVE  /\ ProcessOf[d] \in Process /\ ctxId[d] \in Nat
                        /\ ctxId[d] <= contextIdGen[ProcessOf[d]]
      OBVIOUS
    <3>1. ProcessOf[d] \in Process
      BY RouterAssumption
    <3>2. ctxId[d] \in Nat
      BY <1>1, RouterAssumption DEF Id, ReservedId
    <3>3. ctxId[d] <= contextIdGen[ProcessOf[d]]
      BY DEF ContextsApart
    <3> QED
      BY <3>1, <3>2, <3>3
  <2>13. \A d \in Context : ctxId'[d] <= contextIdGen'[ProcessOf[d]]
    BY <2>3, <2>10, <2>11, <2>12
  <2>14. \A d, e \in Context :
           ProcessOf[d] = ProcessOf[e] /\ ctxId'[d] = ctxId'[e] /\ ctxId'[d] # ReservedId => d = e
    <3> SUFFICES ASSUME NEW d \in Context, NEW e \in Context, ProcessOf[d] = ProcessOf[e],
                        ctxId'[d] = ctxId'[e], ctxId'[d] # ReservedId
                 PROVE  d = e
      OBVIOUS
    <3>1. CASE d # c /\ e # c
      BY <2>10, <3>1 DEF ContextsApart
    <3>2. CASE d = c \/ e = c
      BY <2>3, <2>10, <2>12, <3>2
    <3> QED
      BY <3>1, <3>2
  <2>15. ContextsApart'
    BY <2>9, <2>13, <2>14 DEF ContextsApart
  <2> QED
    BY <1>1, <1>3, <2>15
<1> QED
  BY <1>2, <1>3

\* What a page asked before its browser closed is gone or about to go.
LEMMA ClosedDoomed ==
  ASSUME PlacesInv, NEW k \in Stage \ {"answered"}, NEW c \in Context, NEW x \in At(k, c),
         BrowserOf[c] \notin open
  PROVE  k = "pending" /\ \E s \in sweep : Matches(x, s)
<1>1. /\ toBrowser[c] = <<>> /\ At("offered", c) = {}
      /\ \A e \in At("pending", c) : \E s \in sweep : Matches(e, s)
  BY DEF PlacesInv, ClosedAreSwept
<1>2. At("asked", c) = {}
  BY <1>1, AtFacts, EmptySet
<1> QED
  BY <1>1, <1>2 DEF Stage

\* A step that at most withdraws requests, with a message for what they asked.
LEMMA Withdraw ==
  ASSUME TypeOK, PlacesInv, ContextsApart', PagesLive', CancelsSound',
         UNCHANGED <<issued, queries, dispatch, open, sweep, toRenderer, tasks>>,
         requests' \subseteq requests, terminated \subseteq terminated',
         \A c \in Context : ctxId[c] # ReservedId => ctxId'[c] = ctxId[c],
         \A c \in Context :
           /\ InOrder(toBrowser'[c], PipeOrder) /\ At("asked", c)' = At("asked", c)
           /\ \A m \in ToSet(toBrowser[c]) : m \in ToSet(toBrowser'[c])
           /\ BrowserOf[c] \notin open => toBrowser'[c] = toBrowser[c],
         \A k \in Stage \ {"answered"}, c \in Context : \A x \in At(k, c) :
           \A r \in requests \ requests' :
             r.uid = x.uid /\ BrowserOf[c] \in open =>
               \/ BrowserOf[c] \in terminated'
               \/ \E m \in ToSet(toBrowser'[c]) : m \in CancelMsg /\ Cancels(m, x),
         \A r \in requests' : r.frame \in leaving => r.frame \in leaving'
  PROVE  /\ PlacesInv'
         /\ LossInv => LossInv'
<1>1. \A k \in Stage, c \in Context : At(k, c)' = At(k, c)
  <2>1. \A c \in Context : /\ At("offered", c)' = At("offered", c)
                           /\ At("pending", c)' = At("pending", c)
                           /\ At("answered", c)' = At("answered", c)
    BY DEF At, Final
  <2> QED
    BY <2>1 DEF Stage
<1>2. PipesOrdered'
  BY FinalSame DEF PlacesInv, PipesOrdered, PipeOrder, Cancels
<1>3. ClosedAreSwept'
  <2>1. ASSUME NEW c \in Context, BrowserOf[c] \notin open'
        PROVE  /\ toBrowser'[c] = <<>> /\ At("offered", c)' = {}
               /\ \A e \in At("pending", c)' : \E s \in sweep' : Matches(e, s)
    <3>1. /\ toBrowser[c] = <<>> /\ At("offered", c) = {}
          /\ \A e \in At("pending", c) : \E s \in sweep : Matches(e, s)
      BY <2>1 DEF PlacesInv, ClosedAreSwept
    <3> QED
      BY <1>1, <2>1, <3>1 DEF Stage
  <2>2. \A s, t \in sweep' : s = t
    BY DEF PlacesInv, ClosedAreSwept
  <2> QED
    BY <2>1, <2>2 DEF ClosedAreSwept, Matches
<1>4. ASSUME NEW k \in Stage \ {"answered"}, NEW c \in Context, NEW x \in At(k, c)',
             Waited(x) \/ Doomed(k, c, x)
      PROVE  Waited(x)' \/ Doomed(k, c, x)'
  <2>0. x \in At(k, c)
    BY <1>1, <1>4
  <2>1. CASE Doomed(k, c, x)
    BY <2>1 DEF Doomed, Matches, Cancels
  <2>2. CASE Waited(x)
    <3>1. PICK r \in requests : r.uid = x.uid
      BY <2>2 DEF Waited
    <3>2. CASE r \in requests'
      BY <3>1, <3>2 DEF Waited
    <3>3. CASE r \notin requests' /\ BrowserOf[c] \in open
      <4>1. \/ BrowserOf[c] \in terminated'
            \/ \E m \in ToSet(toBrowser'[c]) : m \in CancelMsg /\ Cancels(m, x)
        BY <2>0, <3>1, <3>3
      <4> QED
        BY <4>1 DEF Doomed, Cancels
    <3>4. CASE BrowserOf[c] \notin open
      BY <2>0, <3>4, ClosedDoomed DEF Doomed, Matches
    <3> QED
      BY <3>2, <3>3, <3>4
  <2> QED
    BY <1>4, <2>1, <2>2
<1>5. PlacesInv'
  <2>1. \A c \in Context : \A m \in ToSet(toRenderer'[c]) :
           m \in ToSet(toRenderer[c]) \/ m.uid \in 1..Len(issued)
    OBVIOUS
  <2>2. \A k \in Stage, c \in Context : At(k, c)' \subseteq At(k, c)
    BY <1>1
  <2> QED
    BY <1>2, <1>3, <1>4, <2>1, <2>2, PlacesFewer
<1>6. ASSUME LossInv PROVE LossInv'
  <2>1. SilentForLeavers'
    BY <1>6 DEF LossInv, SilentForLeavers, Matches
  <2>2. ASSUME NEW r \in requests', r.browser \in open', r.frame \notin leaving'
        PROVE  \E k \in Stage : \E x \in At(k, r.frame)' : x.uid = r.uid
    <3>1. \E k \in Stage : \E x \in At(k, r.frame) : x.uid = r.uid
      BY <1>6, <2>2 DEF LossInv, NoneLost
    <3>2. r.frame \in Context
      BY DEF TypeOK, RequestInfo
    <3> QED
      BY <1>1, <3>1, <3>2
  <2> QED
    BY <2>1, <2>2 DEF LossInv, NoneLost
<1> QED
  BY <1>5, <1>6

LEMMA OnContextCreatedMoves ==
  ASSUME TypeOK, PlacesInv, NEW c \in Context, OnContextCreated(c)
  PROVE  /\ PlacesInv'
         /\ LossInv => LossInv'
<1>1. /\ ctxState[c] = "none" /\ ProcessOf[c] \notin crashed
      /\ ctxState' = [ctxState EXCEPT ![c] = "live"]
      /\ UNCHANGED <<ctxId, contextIdGen, requestIdGen, requests, toBrowser, toRenderer, queries,
                     tasks, dispatch, sweep, open, leaving, crashed, terminated, issued>>
  BY DEF OnContextCreated, pipeVars, mapVars, envVars, ghostVars
<1>2. ContextsApart'
  BY <1>1 DEF PlacesInv, ContextsApart, Identified
<1>3. \A d \in Context : ctxState'[d] = IF d = c THEN "live" ELSE ctxState[d]
  BY <1>1 DEF TypeOK
<1>4. PagesLive'
  <2>1. \A r \in requests : r.frame \in Context
    BY DEF TypeOK, RequestInfo
  <2> QED
    BY <1>1, <1>3, <2>1 DEF PlacesInv, PagesLive
<1>5. CancelsSound'
  <2>1. ASSUME NEW m \in ToSet(toBrowser[c]), m \in CancelMsg PROVE FALSE
    BY <1>1, <2>1 DEF PlacesInv, CancelsSound, PagesLive, CancelMsg, Id, ReservedId
  <2>2. ASSUME NEW d \in Context, NEW m \in ToSet(toBrowser[d]), m \in CancelMsg
        PROVE  /\ m.request_id <= requestIdGen[ProcessOf[d]]
               /\ m.request_id = ReservedId => ctxState'[d] # "live"
               /\ m.context_id = ctxId[d]
               /\ \A r \in requests : r.frame = d => ~Cancels(m, r)
    BY <1>3, <2>1, <2>2 DEF PlacesInv, CancelsSound
  <2> QED
    BY <1>1, <2>2 DEF CancelsSound, Cancels
<1>6. \A d \in Context : /\ InOrder(toBrowser'[d], PipeOrder) /\ At("asked", d)' = At("asked", d)
                         /\ toBrowser'[d] = toBrowser[d]
  BY <1>1 DEF At, PlacesInv, PipesOrdered
<1> QED
  BY <1>1, <1>2, <1>4, <1>5, <1>6, Withdraw

\* What a cancel message that was just sent does to the pipe.
LEMMA CancelSent ==
  ASSUME TypeOK, PlacesInv, NEW c \in Context, NEW m \in CancelMsg,
         SendToBrowser(c, m) \/ UNCHANGED toBrowser
  PROVE  /\ \A d \in Context :
              /\ InOrder(toBrowser'[d], PipeOrder) /\ At("asked", d)' = At("asked", d)
              /\ \A x \in ToSet(toBrowser[d]) : x \in ToSet(toBrowser'[d])
              /\ \A x \in ToSet(toBrowser'[d]) : x \in ToSet(toBrowser[d]) \/ (d = c /\ x = m)
              /\ BrowserOf[d] \notin open => toBrowser'[d] = toBrowser[d]
         /\ SendToBrowser(c, m) /\ BrowserOf[c] \in open => m \in ToSet(toBrowser'[c])
<1>0. m \notin QueryMsg /\ \A d \in Context : InOrder(toBrowser[d], PipeOrder)
  BY PipeTypes DEF QueryMsg, CancelMsg, PlacesInv, PipesOrdered
<1>1. CASE UNCHANGED toBrowser /\ ~SendToBrowser(c, m)
  BY <1>0, <1>1 DEF At
<1>2. CASE SendToBrowser(c, m)
  <2>1. ASSUME NEW x, <<m, x>> \in PipeOrder PROVE FALSE
    <3>1. CASE <<m, x>> \in {<<w, w>> : w \in QueryMsg}
      <4>1. PICK w \in QueryMsg : <<m, x>> = <<w, w>>
        BY <3>1
      <4>2. m = w
        BY <4>1
      <4> QED
        BY <1>0, <4>2
    <3>2. CASE <<m, x>> \in QueryMsg \X CancelMsg
      <4>1. m \in QueryMsg
        BY <3>2
      <4> QED
        BY <1>0, <4>1
    <3> QED
      BY <2>1, <3>1, <3>2 DEF PipeOrder
  <2>2. /\ \A d \in Context \ {c} : toBrowser'[d] = toBrowser[d]
        /\ ToSet(toBrowser'[c]) =
              ToSet(toBrowser[c]) \union (IF BrowserOf[c] \in open THEN {m} ELSE {})
        /\ InOrder(toBrowser'[c], PipeOrder)
        /\ BrowserOf[c] \notin open => toBrowser' = toBrowser
    BY <1>0, <1>2, <2>1, SendFacts
  <2>3. ASSUME NEW d \in Context
        PROVE  /\ InOrder(toBrowser'[d], PipeOrder) /\ At("asked", d)' = At("asked", d)
               /\ \A x \in ToSet(toBrowser[d]) : x \in ToSet(toBrowser'[d])
               /\ \A x \in ToSet(toBrowser'[d]) : x \in ToSet(toBrowser[d]) \/ (d = c /\ x = m)
               /\ BrowserOf[d] \notin open => toBrowser'[d] = toBrowser[d]
    <3>1. CASE d # c
      <4>1. toBrowser'[d] = toBrowser[d]
        BY <2>2, <3>1
      <4> QED
        BY <1>0, <4>1, AtSame
    <3>2. CASE d = c
      <4>1. At("asked", c)' = ToSet(toBrowser'[c]) \intersect QueryMsg
        BY AtNext
      <4>2. At("asked", c) = ToSet(toBrowser[c]) \intersect QueryMsg
        BY AtFacts
      <4>3. At("asked", c)' = At("asked", c)
        BY <1>0, <2>2, <4>1, <4>2
      <4> QED
        BY <2>2, <3>2, <4>3
    <3> QED
      BY <3>1, <3>2
  <2> QED
    BY <2>2, <2>3
<1> QED
  BY <1>1, <1>2

LEMMA SendCancelMoves ==
  ASSUME IdsSuffice, TypeOK, Numbered, PlacesInv, NEW c \in Context, NEW rid \in Id,
         SendCancel(c, rid)
  PROVE  /\ PlacesInv'
         /\ LossInv => LossInv'
<1> DEFINE found == FindRequest(c, ContextId(c), rid)
           m == [type |-> "cancel", context_id |-> ContextId(c), request_id |-> rid]
<1>1. /\ ctxState[c] = "live" /\ EnsureContextId(c) /\ requests' = requests \ found
      /\ IF found # {} THEN SendToBrowser(c, m) ELSE UNCHANGED toBrowser
      /\ UNCHANGED <<ctxState, requestIdGen, toRenderer, queries, tasks, dispatch, sweep,
                     open, leaving, crashed, terminated, issued>>
  BY DEF SendCancel, mapVars, envVars, ghostVars
<1>2. /\ m \in CancelMsg /\ m.context_id = ContextId(c) /\ m.request_id = rid
      /\ m.request_id # ReservedId
  BY ContextIdType DEF CancelMsg, Id, ReservedId
<1>3. found = {r \in requests : /\ r.process = ProcessOf[c] /\ r.browser = BrowserOf[c]
                                /\ r.context_id = ContextId(c) /\ r.request_id = rid}
  BY DEF FindRequest
<1> HIDE DEF m, found
<1>4. /\ ContextsApart' /\ ctxId'[c] = ContextId(c)
      /\ \A d \in Context : ctxId[d] # ReservedId \/ d # c => ctxId'[d] = ctxId[d]
  BY <1>1, NamesContext DEF PlacesInv
<1>5. /\ \A d \in Context :
           /\ InOrder(toBrowser'[d], PipeOrder) /\ At("asked", d)' = At("asked", d)
           /\ \A x \in ToSet(toBrowser[d]) : x \in ToSet(toBrowser'[d])
           /\ \A x \in ToSet(toBrowser'[d]) : x \in ToSet(toBrowser[d]) \/ (d = c /\ x = m)
           /\ BrowserOf[d] \notin open => toBrowser'[d] = toBrowser[d]
      /\ SendToBrowser(c, m) /\ BrowserOf[c] \in open => m \in ToSet(toBrowser'[c])
  BY <1>1, <1>2, CancelSent
<1>6. \A r \in requests : /\ r.frame \in Context /\ r.context_id = ctxId[r.frame]
                          /\ ctxId'[r.frame] = ctxId[r.frame]
  BY <1>4 DEF PlacesInv, PagesLive, TypeOK, RequestInfo, Id, ReservedId
<1>7. PagesLive'
  <2>1. \A d \in Context : ctxState[d] = "none" => ctxId'[d] = ReservedId
    BY <1>1, <1>4 DEF PlacesInv, PagesLive
  <2>2. \A r \in requests' : /\ ctxState[r.frame] = "live" /\ r.context_id = ctxId'[r.frame]
                             /\ r.process = ProcessOf[r.frame] /\ r.browser = BrowserOf[r.frame]
    BY <1>1, <1>6 DEF PlacesInv, PagesLive
  <2> QED
    BY <1>1, <2>1, <2>2 DEF PlacesInv, PagesLive
<1>8. ASSUME NEW r \in found PROVE r \in requests /\ r.frame = c
  <2>1. /\ r \in requests /\ r.process = ProcessOf[c] /\ r.context_id = ContextId(c)
    BY <1>3, <1>8
  <2>2. ctxId'[r.frame] = ctxId'[c] /\ ctxId'[c] # ReservedId /\ ProcessOf[r.frame] = ProcessOf[c]
    BY <1>4, <1>6, <2>1, ContextIdType DEF PlacesInv, PagesLive, Id, ReservedId
  <2> QED
    BY <1>4, <1>6, <2>1, <2>2 DEF ContextsApart
<1>9. CancelsSound'
  <2>1. ASSUME NEW d \in Context, NEW x \in ToSet(toBrowser'[d]), x \in CancelMsg
        PROVE  /\ x.request_id <= requestIdGen[ProcessOf[d]]
               /\ x.request_id = ReservedId => ctxState[d] # "live"
               /\ x.context_id = ctxId'[d]
               /\ \A r \in requests' : r.frame = d => ~Cancels(x, r)
    <3>1. CASE x \in ToSet(toBrowser[d])
      <4>1. /\ x.request_id <= requestIdGen[ProcessOf[d]]
            /\ x.request_id = ReservedId => ctxState[d] # "live"
            /\ x.context_id = ctxId[d]
            /\ \A r \in requests : r.frame = d => ~Cancels(x, r)
        BY <2>1, <3>1 DEF PlacesInv, CancelsSound
      <4>2. ctxId[d] # ReservedId
        BY <2>1, <4>1 DEF CancelMsg, Id, ReservedId
      <4> QED
        BY <1>1, <1>4, <4>1, <4>2
    <3>2. CASE x \notin ToSet(toBrowser[d])
      <4>1. d = c /\ x = m /\ found # {}
        BY <1>1, <1>5, <2>1, <3>2
      <4>2. PICK r \in found : r \in requests /\ r.request_id = rid /\ r.process = ProcessOf[c]
        BY <1>3, <4>1
      <4>3. rid <= requestIdGen[ProcessOf[c]]
        BY <4>2 DEF Numbered
      <4>4. \A s \in requests' : s.frame = c => ~Cancels(m, s)
        BY <1>1, <1>2, <1>3 DEF PlacesInv, PagesLive, Cancels
      <4> QED
        BY <1>2, <1>4, <4>1, <4>3, <4>4
    <3> QED
      BY <3>1, <3>2
  <2> QED
    BY <1>1, <2>1 DEF CancelsSound, Cancels
<1>10. ASSUME NEW k \in Stage \ {"answered"}, NEW d \in Context, NEW x \in At(k, d),
              NEW r \in requests \ requests', r.uid = x.uid, BrowserOf[d] \in open
       PROVE  \E n \in ToSet(toBrowser'[d]) : n \in CancelMsg /\ Cancels(n, x)
  <2>1. r \in found /\ r.request_id = rid /\ r.context_id = ContextId(c)
    BY <1>1, <1>3, <1>10
  <2>2. r.frame = d /\ r.request_id = x.request_id /\ r.context_id = x.context_id
    BY <1>10, EntryWaits
  <2>3. d = c /\ m \in ToSet(toBrowser'[c])
    BY <1>1, <1>5, <1>8, <1>10, <2>1, <2>2
  <2> QED
    BY <1>2, <2>1, <2>2, <2>3 DEF Cancels
<1> QED
  BY <1>1, <1>4, <1>5, <1>7, <1>9, <1>10, Withdraw

LEMMA OnContextReleasedMoves ==
  ASSUME TypeOK, Numbered, PlacesInv, NEW c \in Context, OnContextReleased(c)
  PROVE  /\ PlacesInv'
         /\ LossInv => LossInv'
<1> DEFINE gone == {r \in requests : /\ r.process = ProcessOf[c]
                                     /\ r.browser = BrowserOf[c]
                                     /\ r.context_id = ctxId[c]}
           m == [type |-> "cancel", context_id |-> ctxId[c], request_id |-> ReservedId]
<1>1. /\ ctxState[c] = "live" /\ ctxState' = [ctxState EXCEPT ![c] = "released"]
      /\ requests' = requests \ gone /\ leaving' = leaving \ {c}
      /\ IF gone # {} THEN SendToBrowser(c, m) ELSE UNCHANGED toBrowser
      /\ UNCHANGED <<ctxId, contextIdGen, requestIdGen, toRenderer, queries, tasks, dispatch,
                     sweep, open, crashed, terminated, issued>>
  BY DEF OnContextReleased, mapVars, ghostVars
<1>2. /\ m.context_id = ctxId[c] /\ m.request_id = ReservedId
      /\ ctxId[c] # ReservedId => m \in CancelMsg
  BY DEF CancelMsg, TypeOK
<1>3. \A r \in requests : r.frame \in Context /\ r.context_id = ctxId[r.frame] /\ r.context_id # ReservedId
  BY DEF PlacesInv, PagesLive, TypeOK, RequestInfo, Id, ReservedId
<1>4. \A r \in requests : r \in gone <=> r.frame = c
  BY <1>3 DEF PlacesInv, PagesLive, ContextsApart
<1>5. gone # {} => ctxId[c] # ReservedId
  BY <1>3, <1>4
<1>g. gone \subseteq requests
  OBVIOUS
<1> HIDE DEF m, gone
<1>6. /\ \A d \in Context :
           /\ InOrder(toBrowser'[d], PipeOrder) /\ At("asked", d)' = At("asked", d)
           /\ \A x \in ToSet(toBrowser[d]) : x \in ToSet(toBrowser'[d])
           /\ \A x \in ToSet(toBrowser'[d]) :
                x \in ToSet(toBrowser[d]) \/ (d = c /\ x = m /\ gone # {})
           /\ BrowserOf[d] \notin open => toBrowser'[d] = toBrowser[d]
      /\ gone # {} /\ BrowserOf[c] \in open => m \in ToSet(toBrowser'[c])
  <2>1. CASE gone = {}
    BY <1>1, <2>1 DEF At, PlacesInv, PipesOrdered
  <2>2. CASE gone # {}
    BY <1>1, <1>2, <1>5, <2>2, CancelSent
  <2> QED
    BY <2>1, <2>2
<1>7. \A d \in Context : ctxState'[d] = IF d = c THEN "released" ELSE ctxState[d]
  BY <1>1 DEF TypeOK
<1>8. ContextsApart'
  BY <1>1 DEF PlacesInv, ContextsApart, Identified
<1>9. PagesLive'
  <2>1. \A r \in requests' : r \in requests /\ r.frame # c /\ r.frame \in Context
    BY <1>1, <1>3, <1>4
  <2>2. \A r \in requests' : /\ ctxState'[r.frame] = "live" /\ r.context_id = ctxId[r.frame]
                             /\ r.process = ProcessOf[r.frame] /\ r.browser = BrowserOf[r.frame]
    BY <1>7, <2>1 DEF PlacesInv, PagesLive
  <2>3. \A d \in Context : /\ ctxState'[d] = "none" => ctxId[d] = ReservedId
                           /\ ctxState'[d] = "live" => ProcessOf[d] \notin crashed
    BY <1>7 DEF PlacesInv, PagesLive
  <2> QED
    BY <1>1, <2>2, <2>3 DEF PlacesInv, PagesLive
<1>10. CancelsSound'
  <2>1. ASSUME NEW d \in Context, NEW x \in ToSet(toBrowser'[d]), x \in CancelMsg
        PROVE  /\ x.request_id <= requestIdGen[ProcessOf[d]]
               /\ x.request_id = ReservedId => ctxState'[d] # "live"
               /\ x.context_id = ctxId[d]
               /\ \A r \in requests' : r.frame = d => ~Cancels(x, r)
    <3>1. CASE x \in ToSet(toBrowser[d])
      <4>1. /\ x.request_id <= requestIdGen[ProcessOf[d]]
            /\ x.request_id = ReservedId => ctxState[d] # "live"
            /\ x.context_id = ctxId[d]
            /\ \A r \in requests : r.frame = d => ~Cancels(x, r)
        BY <2>1, <3>1 DEF PlacesInv, CancelsSound
      <4> QED
        BY <1>1, <1>7, <4>1
    <3>2. CASE x \notin ToSet(toBrowser[d])
      <4>1. d = c /\ x = m
        BY <1>6, <2>1, <3>2
      <4>2. ReservedId <= requestIdGen[ProcessOf[c]]
        <5>1. requestIdGen[ProcessOf[c]] \in Id \union {ReservedId}
          BY RouterAssumption DEF TypeOK
        <5> QED
          BY <5>1, RouterAssumption DEF Id, ReservedId
      <4>3. \A r \in requests' : r.frame # c
        BY <1>1, <1>4
      <4> QED
        BY <1>2, <1>7, <4>1, <4>2, <4>3
    <3> QED
      BY <3>1, <3>2
  <2> QED
    BY <1>1, <2>1 DEF CancelsSound, Cancels
<1>11. ASSUME NEW k \in Stage \ {"answered"}, NEW d \in Context, NEW x \in At(k, d),
              NEW r \in requests \ requests', r.uid = x.uid, BrowserOf[d] \in open
       PROVE  \E n \in ToSet(toBrowser'[d]) : n \in CancelMsg /\ Cancels(n, x)
  <2>1. r \in gone /\ r.frame = c
    BY <1>1, <1>4, <1>11
  <2>2. r.frame = d /\ r.context_id = x.context_id
    BY <1>11, EntryWaits
  <2>3. m \in ToSet(toBrowser'[c]) /\ m \in CancelMsg
    BY <1>2, <1>5, <1>6, <1>11, <2>1, <2>2
  <2> QED
    BY <1>2, <1>3, <2>1, <2>2, <2>3 DEF Cancels
<1>12. \A r \in requests' : r.frame \in leaving => r.frame \in leaving'
  BY <1>1, <1>4
<1> QED
  BY <1>1, <1>6, <1>8, <1>9, <1>10, <1>11, <1>12, Withdraw

LEMMA RenderProcessGoneMoves ==
  ASSUME TypeOK, FramesShareProcess, PlacesInv, NEW p \in Process, RenderProcessGone(p)
  PROVE  /\ PlacesInv'
         /\ LossInv => LossInv'
<1> DEFINE cs == {c \in Context : ProcessOf[c] = p /\ ctxState[c] = "live"}
<1>1. /\ crashed' = crashed \union {p}
      /\ ctxState' = [c \in Context |-> IF c \in cs THEN "dead" ELSE ctxState[c]]
      /\ requests' = {r \in requests : r.process # p}
      /\ leaving' = leaving \ cs
      /\ terminated' = terminated \union {b \in open : \E c \in cs : BrowserOf[c] = b}
      /\ UNCHANGED <<ctxId, contextIdGen, requestIdGen, toBrowser, toRenderer, queries, tasks,
                     dispatch, sweep, open, issued>>
  BY DEF RenderProcessGone, pipeVars, mapVars, ghostVars
<1>2. ContextsApart'
  BY <1>1 DEF PlacesInv, ContextsApart, Identified
<1>3. \A r \in requests : /\ r.frame \in Context /\ r.process = ProcessOf[r.frame]
                          /\ ctxState[r.frame] = "live"
  BY DEF PlacesInv, PagesLive, TypeOK, RequestInfo
<1>4. PagesLive'
  <2>1. \A d \in Context : /\ ctxState'[d] = "none" => ctxId[d] = ReservedId
                           /\ ctxState'[d] = "live" => ProcessOf[d] \notin crashed'
    BY <1>1 DEF PlacesInv, PagesLive
  <2>2. \A r \in requests' : /\ ctxState'[r.frame] = "live" /\ r.context_id = ctxId[r.frame]
                             /\ r.process = ProcessOf[r.frame] /\ r.browser = BrowserOf[r.frame]
    BY <1>1, <1>3 DEF PlacesInv, PagesLive
  <2>3. \A d \in Context : BrowserOf[d] \in terminated' => ProcessOf[d] \in crashed'
    BY <1>1 DEF PlacesInv, PagesLive, FramesShareProcess
  <2> QED
    BY <1>1, <2>1, <2>2, <2>3 DEF PagesLive
<1>5. CancelsSound'
  BY <1>1 DEF PlacesInv, CancelsSound, Cancels
<1>6. \A d \in Context : /\ InOrder(toBrowser'[d], PipeOrder) /\ At("asked", d)' = At("asked", d)
                         /\ toBrowser'[d] = toBrowser[d]
  BY <1>1 DEF At, PlacesInv, PipesOrdered
<1>7. ASSUME NEW k \in Stage \ {"answered"}, NEW d \in Context, NEW x \in At(k, d),
             NEW r \in requests \ requests', r.uid = x.uid, BrowserOf[d] \in open
      PROVE  BrowserOf[d] \in terminated'
  <2>1. r.frame = d /\ r.process = p
    BY <1>1, <1>7, EntryWaits
  <2> QED
    BY <1>1, <1>3, <1>7, <2>1
<1>8. \A r \in requests' : r.frame \in leaving => r.frame \in leaving'
  BY <1>1, <1>3
<1> QED
  BY <1>1, <1>2, <1>4, <1>5, <1>6, <1>7, <1>8, Withdraw

LEMMA ReceiveAnswerMoves ==
  ASSUME TypeOK, Numbered, OneCallPerId, PlacesInv, NEW c \in Context, ReceiveAnswer(c)
  PROVE  /\ PlacesInv'
         /\ LossInv => LossInv'
<1> DEFINE m == Head(toRenderer[c])
           q == toRenderer[c]
           found == FindRequest(c, m.context_id, m.request_id)
<1>1. /\ q # <<>> /\ toRenderer' = [toRenderer EXCEPT ![c] = Tail(q)]
      /\ requests' = {r \in requests : r \in found => ~RemovesRequest(m.success, r)}
      /\ UNCHANGED <<ctxState, ctxId, contextIdGen, requestIdGen, toBrowser, queries, tasks,
                     dispatch, sweep, open, leaving, crashed, terminated, issued>>
  BY DEF ReceiveAnswer, mapVars, envVars
<1>2. /\ q \in Seq(AnswerMsg) /\ toRenderer \in [Context -> Seq(AnswerMsg)]
      /\ InOrder(q, AnswerOrder)
  BY DEF TypeOK, PlacesInv, PipesOrdered
<1>3. found = {r \in requests : /\ r.process = ProcessOf[c] /\ r.browser = BrowserOf[c]
                                /\ r.context_id = m.context_id /\ r.request_id = m.request_id}
  BY DEF FindRequest
<1> HIDE DEF found
<1>4. /\ InOrder(Tail(q), AnswerOrder)
      /\ ToSet(q) = {m} \union ToSet(Tail(q))
      /\ \A x \in ToSet(Tail(q)) : <<x, m>> \notin AnswerOrder
  <2> HIDE DEF q
  <2> QED
    BY <1>1, <1>2, TakeFacts DEF q
<1>5. toRenderer'[c] = Tail(q) /\ \A d \in Context \ {c} : toRenderer'[d] = toRenderer[d]
  BY <1>1, <1>2
<1>6. m \in ToSet(toRenderer[c]) /\ m \in AnswerMsg
  <2>1. m \in ToSet(toRenderer[c])
    BY <1>4
  <2> QED
    BY <2>1, PipeTypes
<1>7. PICK t : t = Tail(q)
  OBVIOUS
<1>8. /\ InOrder(t, AnswerOrder) /\ ToSet(toRenderer[c]) = {m} \union ToSet(t)
      /\ \A x \in ToSet(t) : <<x, m>> \notin AnswerOrder
      /\ toRenderer'[c] = t
  BY <1>4, <1>5, <1>7
<1> HIDE DEF m, q
<1>9. Final' = Final /\ AnswerOrder' = AnswerOrder
  BY <1>1, FinalSame
<1>10. /\ \A d \in Context : /\ At("asked", d)' = At("asked", d)
                             /\ At("offered", d)' = At("offered", d)
                             /\ At("pending", d)' = At("pending", d)
       /\ \A d \in Context \ {c} : At("answered", d)' = At("answered", d)
       /\ At("answered", c)' \subseteq At("answered", c)
       /\ \A x \in At("answered", c) : x # m => x \in At("answered", c)'
  <2>1. \A d \in Context : /\ At("asked", d)' = At("asked", d)
                           /\ At("offered", d)' = At("offered", d)
                           /\ At("pending", d)' = At("pending", d)
    BY <1>1 DEF At
  <2>2. ASSUME NEW d \in Context \ {c} PROVE At("answered", d)' = At("answered", d)
    <3>1. toRenderer'[d] = toRenderer[d]
      BY <1>5
    <3> QED
      BY <1>1, <3>1, AtSame
  <2>3. At("answered", c)' = ToSet(t) \intersect Final
    BY <1>8, <1>9, AtNext
  <2>4. At("answered", c) = ({m} \union ToSet(t)) \intersect Final
    BY <1>8, AtFacts
  <2> QED
    BY <2>1, <2>2, <2>3, <2>4
<1>11. \A k \in Stage, d \in Context : At(k, d)' \subseteq At(k, d)
  BY <1>10 DEF Stage
<1>12. requests' \subseteq requests
  BY <1>1
<1>13. ContextsApart' /\ PagesLive' /\ CancelsSound'
  BY <1>1, <1>12 DEF PlacesInv, ContextsApart, Identified, PagesLive, CancelsSound, Cancels
<1>14. PipesOrdered'
  <2>1. \A d \in Context : InOrder(toRenderer'[d], AnswerOrder')
    BY <1>5, <1>8, <1>9 DEF PlacesInv, PipesOrdered
  <2> QED
    BY <1>1, <2>1 DEF PlacesInv, PipesOrdered, PipeOrder, Cancels
<1>15. ClosedAreSwept'
  <2>1. ASSUME NEW d \in Context, BrowserOf[d] \notin open'
        PROVE  /\ toBrowser'[d] = <<>> /\ At("offered", d)' = {}
               /\ \A e \in At("pending", d)' : \E s \in sweep' : Matches(e, s)
    <3>1. /\ toBrowser[d] = <<>> /\ At("offered", d) = {}
          /\ \A e \in At("pending", d) : \E s \in sweep : Matches(e, s)
      BY <1>1, <2>1 DEF PlacesInv, ClosedAreSwept
    <3> QED
      BY <1>1, <1>10, <3>1
  <2>2. \A s, t2 \in sweep' : s = t2
    BY <1>1 DEF PlacesInv, ClosedAreSwept
  <2> QED
    BY <2>1, <2>2 DEF ClosedAreSwept, Matches
<1>16. ASSUME NEW r \in found PROVE r \in requests /\ r.uid = m.uid /\ r.persistent = issued[m.uid]
  <2>1. r \in requests /\ r.process = ProcessOf[c] /\ r.request_id = m.request_id
    BY <1>3, <1>16
  <2>2. /\ Carried(ProcessOf[c], m.request_id, r.uid)
        /\ Carried(ProcessOf[c], m.request_id, m.uid)
    BY <1>6, <2>1, CarriedNow
  <2>3. ProcessOf[c] \in Process /\ m.request_id \in Id /\ r.uid \in Uid /\ m.uid \in Uid
    BY <1>6, <2>1, RouterAssumption DEF AnswerMsg, TypeOK, RequestInfo
  <2>4. r.uid = m.uid
    BY <2>2, <2>3 DEF OneCallPerId
  <2> QED
    BY <2>1, <2>4 DEF Numbered
<1>17. ASSUME NEW r \in requests, r \notin requests'
       PROVE  r.uid = m.uid /\ m \in At("answered", c)
  <2>1. r \in found /\ RemovesRequest(m.success, r)
    BY <1>1, <1>17
  <2>2. m.success => ~issued[m.uid]
    BY <1>16, <2>1 DEF RemovesRequest
  <2>3. m \in Final
    BY <1>6, <2>2 DEF Final
  <2> QED
    BY <1>6, <1>16, <2>1, <2>3, AtFacts
<1>18. ASSUME NEW k \in Stage \ {"answered"}, NEW d \in Context, NEW x \in At(k, d)',
              Waited(x) \/ Doomed(k, d, x)
       PROVE  Waited(x)' \/ Doomed(k, d, x)'
  <2>1. CASE Doomed(k, d, x)
    BY <1>1, <2>1 DEF Doomed, Matches, Cancels
  <2>2. CASE Waited(x)
    <3>1. PICK r \in requests : r.uid = x.uid
      BY <2>2 DEF Waited
    <3>2. CASE r \in requests'
      BY <3>1, <3>2 DEF Waited
    <3>3. CASE r \notin requests'
      <4>1. m.uid = x.uid /\ m \in At("answered", c)
        BY <1>17, <3>1, <3>3
      <4>2. x \in At(k, d)
        BY <1>11
      <4> QED
        BY <4>1, <4>2 DEF PlacesInv, OnePlace, Stage
    <3> QED
      BY <3>2, <3>3
  <2> QED
    BY <1>18, <2>1, <2>2
<1>19. PlacesInv'
  <2>1. \A d \in Context : \A x \in ToSet(toRenderer'[d]) :
          x \in ToSet(toRenderer[d]) \/ x.uid \in 1..Len(issued)
    <3> SUFFICES ASSUME NEW d \in Context, NEW x \in ToSet(toRenderer'[d])
                 PROVE  x \in ToSet(toRenderer[d])
      OBVIOUS
    <3>1. CASE d = c
      BY <1>8, <3>1
    <3>2. CASE d # c
      <4>1. toRenderer'[d] = toRenderer[d]
        BY <1>5, <3>2
      <4> QED
        BY <4>1
    <3> QED
      BY <3>1, <3>2
  <2>2. queries' \subseteq queries /\ UNCHANGED issued
        /\ \A d \in Context : ctxId[d] # ReservedId => ctxId'[d] = ctxId[d]
    BY <1>1
  <2> QED
    BY <1>11, <1>12, <1>13, <1>14, <1>15, <1>18, <2>1, <2>2, PlacesFewer
<1>20. ASSUME LossInv PROVE LossInv'
  <2>1. SilentForLeavers'
    BY <1>1, <1>12, <1>20 DEF LossInv, SilentForLeavers, Matches
  <2>2. ASSUME NEW r \in requests', r.browser \in open', r.frame \notin leaving'
        PROVE  \E k \in Stage : \E x \in At(k, r.frame)' : x.uid = r.uid
    <3>0. r \in requests /\ r.frame \in Context
      BY <1>12 DEF TypeOK, RequestInfo
    <3>1. \E k \in Stage : \E x \in At(k, r.frame) : x.uid = r.uid
      BY <1>1, <1>20, <2>2, <3>0 DEF LossInv, NoneLost
    <3>p. PICK k \in Stage : \E x \in At(k, r.frame) : x.uid = r.uid
      BY <3>1
    <3>2. PICK x \in At(k, r.frame) : x.uid = r.uid
      BY <3>p
    <3>3. CASE k # "answered" \/ r.frame # c \/ x # m
      <4>1. x \in At(k, r.frame)'
        BY <1>10, <3>0, <3>2, <3>3 DEF Stage
      <4> QED
        BY <3>2, <4>1
    <3>4. CASE k = "answered" /\ r.frame = c /\ x = m
      <4>1. /\ r.request_id = m.request_id /\ r.context_id = m.context_id
            /\ r.process = ProcessOf[c] /\ r.browser = BrowserOf[c]
        BY <3>0, <3>2, <3>4, EntryWaits DEF PlacesInv, PagesLive
      <4>2. r \in found
        BY <1>3, <3>0, <4>1
      <4>3. m \in Final
        BY <3>2, <3>4, AtFacts
      <4>4. RemovesRequest(m.success, r)
        BY <1>16, <4>2, <4>3 DEF RemovesRequest, Final
      <4> QED
        BY <1>1, <2>2, <4>2, <4>4
    <3> QED
      BY <3>3, <3>4
  <2> QED
    BY <2>1, <2>2 DEF LossInv, NoneLost
<1> QED
  BY <1>19, <1>20

\* A call of cefQuery is asked for by a message, if its browser is open.
LEMMA QuerySent ==
  ASSUME IdsSuffice, TypeOK, TypeOK', Numbered, PlacesInv, NEW c \in Context,
         NEW persistent \in BOOLEAN, SendQuery(c, persistent)
  PROVE  \E m \in QueryMsg, info \in RequestInfo :
    /\ m.uid = Len(issued) + 1 /\ m.persistent = persistent
    /\ m.context_id = ContextId(c) /\ m.request_id = requestIdGen[ProcessOf[c]] + 1
    /\ info.uid = m.uid /\ info.frame = c /\ info.context_id = m.context_id
    /\ info.request_id = m.request_id
    /\ info.process = ProcessOf[c] /\ info.browser = BrowserOf[c]
    /\ requests' = requests \union {info}
    /\ requestIdGen' = [requestIdGen EXCEPT ![ProcessOf[c]] = m.request_id]
    /\ issued' = Append(issued, persistent) /\ Len(issued) \in Nat
    /\ SendToBrowser(c, m) /\ EnsureContextId(c) /\ ctxState[c] = "live"
<1>1. MaxQueries <= MaxId
  BY DEF IdsSuffice
<1>2. PICK info \in RequestInfo :
        /\ info.uid = Len(issued) + 1 /\ info.persistent = persistent
        /\ info.process = ProcessOf[c] /\ info.browser = BrowserOf[c]
        /\ info.frame = c /\ info.context_id = ContextId(c)
        /\ info.request_id = requestIdGen[ProcessOf[c]] + 1
        /\ requestIdGen' = [requestIdGen EXCEPT ![ProcessOf[c]] = info.request_id]
        /\ requests' = requests \union {info}
        /\ issued' = Append(issued, persistent) /\ Len(issued) \in Nat
  BY <1>1, NewRequest
<1> DEFINE rid == GetNextId(requestIdGen[ProcessOf[c]])
           m == [type |-> "query", context_id |-> ContextId(c), request_id |-> rid,
                 persistent |-> persistent, uid |-> Len(issued) + 1]
<1>3. /\ requestIdGen' = [requestIdGen EXCEPT ![ProcessOf[c]] = rid]
      /\ SendToBrowser(c, m) /\ EnsureContextId(c) /\ ctxState[c] = "live"
  BY DEF SendQuery
<1>4. rid = info.request_id
  <2>1. ProcessOf[c] \in Process /\ requestIdGen \in [Process -> Id \union {ReservedId}]
    BY RouterAssumption DEF TypeOK
  <2> HIDE DEF rid
  <2> QED
    BY <1>2, <1>3, <2>1
<1>5. m \in QueryMsg
  <2>1. info.context_id \in Id /\ info.request_id \in Id /\ info.uid \in Uid
    BY <1>2 DEF RequestInfo
  <2> QED
    BY <1>2, <1>4, <2>1 DEF QueryMsg
<1>6. /\ m.uid = Len(issued) + 1 /\ m.persistent = persistent
      /\ m.context_id = ContextId(c) /\ m.request_id = rid
  OBVIOUS
<1> HIDE DEF m, rid
<1> QED
  BY <1>2, <1>3, <1>4, <1>5, <1>6

LEMMA SendQueryMoves ==
  ASSUME IdsSuffice, TypeOK, TypeOK', Numbered, PlacesInv, NEW c \in Context,
         NEW persistent \in BOOLEAN, SendQuery(c, persistent)
  PROVE  /\ PlacesInv'
         /\ LossInv => LossInv'
<1>1. PICK m \in QueryMsg, info \in RequestInfo :
    /\ m.uid = Len(issued) + 1 /\ m.persistent = persistent
    /\ m.context_id = ContextId(c) /\ m.request_id = requestIdGen[ProcessOf[c]] + 1
    /\ info.uid = m.uid /\ info.frame = c /\ info.context_id = m.context_id
    /\ info.request_id = m.request_id
    /\ info.process = ProcessOf[c] /\ info.browser = BrowserOf[c]
    /\ requests' = requests \union {info}
    /\ requestIdGen' = [requestIdGen EXCEPT ![ProcessOf[c]] = m.request_id]
    /\ issued' = Append(issued, persistent) /\ Len(issued) \in Nat
    /\ SendToBrowser(c, m) /\ EnsureContextId(c) /\ ctxState[c] = "live"
  BY QuerySent
<1>2. UNCHANGED <<ctxState, toRenderer, queries, tasks, dispatch, sweep,
                  open, leaving, crashed, terminated>>
  BY DEF SendQuery, mapVars, envVars
<1>3. PICK n \in Nat : n = Len(issued)
  BY <1>1
<1>4. /\ m.uid = n + 1 /\ Len(issued') = n + 1 /\ issued'[n + 1] = persistent
      /\ \A u \in 1..n : issued'[u] = issued[u]
  <2>1. issued \in Seq(BOOLEAN)
    BY DEF TypeOK
  <2> QED
    BY <1>1, <1>3, <2>1
<1>5. /\ \A k \in Stage, d \in Context : \A x \in At(k, d) :
           x.uid \in 1..n /\ x.uid # m.uid /\ x.context_id = ctxId[d] /\ ctxId[d] # ReservedId
      /\ \A d \in Context : \A x \in ToSet(toRenderer[d]) : x.uid \in 1..n
  <2>1. \A k \in Stage, d \in Context : \A x \in At(k, d) : StandsFor(k, d, x) /\ x.context_id # ReservedId
    BY AtType DEF PlacesInv, PlacesSound, Id, ReservedId
  <2>2. \A d \in Context : \A x \in ToSet(toRenderer[d]) : x.uid \in 1..n
    BY <1>3 DEF PlacesInv, PlacesSound
  <2> QED
    BY <1>3, <1>4, <2>1, <2>2 DEF StandsFor
<1>6. /\ ContextsApart' /\ ctxId'[c] = m.context_id
      /\ \A d \in Context : ctxId[d] # ReservedId \/ d # c => ctxId'[d] = ctxId[d]
  BY <1>1, NamesContext DEF PlacesInv
<1>7. requestIdGen[ProcessOf[c]] \in Nat
  <2>1. requestIdGen[ProcessOf[c]] \in Id \union {ReservedId}
    BY RouterAssumption DEF TypeOK
  <2> QED
    BY <2>1, RouterAssumption DEF Id, ReservedId
<1>8. ASSUME NEW x \in ToSet(toBrowser[c]), x \in CancelMsg PROVE ~Cancels(x, m) /\ ~Cancels(x, info)
  <2>1. /\ x.request_id <= requestIdGen[ProcessOf[c]]
        /\ x.request_id # ReservedId
    BY <1>1, <1>8 DEF PlacesInv, CancelsSound
  <2>2. x.request_id # m.request_id
    BY <1>1, <1>7, <2>1
  <2> QED
    BY <1>1, <2>1, <2>2 DEF Cancels
<1>9. m \notin CancelMsg
  BY DEF QueryMsg, CancelMsg
<1>10. \A x \in ToSet(toBrowser[c]) : <<m, x>> \notin PipeOrder
  <2> SUFFICES ASSUME NEW x \in ToSet(toBrowser[c]), <<m, x>> \in PipeOrder PROVE FALSE
    OBVIOUS
  <2>1. CASE <<m, x>> \in {<<w, w>> : w \in QueryMsg}
    <3>1. PICK w \in QueryMsg : <<m, x>> = <<w, w>>
      BY <2>1
    <3>2. m = w /\ x = w
      BY <3>1
    <3>3. m \in At("asked", c)
      BY <3>2, AtFacts
    <3> QED
      BY <1>5, <3>3 DEF Stage
  <2>2. CASE <<m, x>> \in {y \in QueryMsg \X CancelMsg : Cancels(y[2], y[1])}
    <3>1. x \in CancelMsg /\ Cancels(x, m)
      BY <2>2
    <3> QED
      BY <1>8, <3>1
  <2> QED
    BY <2>1, <2>2 DEF PipeOrder
<1>11. /\ \A d \in Context \ {c} : toBrowser'[d] = toBrowser[d]
       /\ ToSet(toBrowser'[c]) = ToSet(toBrowser[c]) \union (IF BrowserOf[c] \in open THEN {m} ELSE {})
       /\ InOrder(toBrowser'[c], PipeOrder)
       /\ BrowserOf[c] \notin open => toBrowser' = toBrowser
  <2>1. InOrder(toBrowser[c], PipeOrder)
    BY DEF PlacesInv, PipesOrdered
  <2> QED
    BY <1>1, <1>10, <2>1, SendFacts
<1>12. ASSUME NEW d \in Context
       PROVE  /\ \A x \in ToSet(toBrowser[d]) : x \in ToSet(toBrowser'[d])
              /\ \A x \in ToSet(toBrowser'[d]) :
                   x \in ToSet(toBrowser[d]) \/ (d = c /\ x = m /\ BrowserOf[c] \in open)
              /\ \A x : x \in At("asked", d)' <=>
                   x \in At("asked", d) \/ (d = c /\ x = m /\ BrowserOf[c] \in open)
  <2>1. CASE d # c
    <3>1. toBrowser'[d] = toBrowser[d]
      BY <1>11, <2>1
    <3> QED
      BY <2>1, <3>1, AtSame
  <2>2. CASE d = c
    <3>1. At("asked", c)' = ToSet(toBrowser'[c]) \intersect QueryMsg
      BY AtNext
    <3>2. At("asked", c) = ToSet(toBrowser[c]) \intersect QueryMsg
      BY AtFacts
    <3> QED
      BY <1>11, <2>2, <3>1, <3>2
  <2> QED
    BY <2>1, <2>2
<1>13. ASSUME NEW d \in Context, NEW x \in ToSet(toRenderer[d]) PROVE x \in Final' <=> x \in Final
  <2>1. issued'[x.uid] = issued[x.uid]
    BY <1>4, <1>5
  <2> QED
    BY <2>1 DEF Final
<1>14. \A d \in Context : At("answered", d)' = At("answered", d)
  <2> SUFFICES ASSUME NEW d \in Context PROVE At("answered", d)' = At("answered", d)
    OBVIOUS
  <2>1. At("answered", d)' = ToSet(toRenderer[d]) \intersect Final'
    BY <1>2, AtNext
  <2>2. At("answered", d) = ToSet(toRenderer[d]) \intersect Final
    BY AtFacts
  <2> QED
    BY <1>13, <2>1, <2>2
<1>15. \A d \in Context : At("offered", d)' = At("offered", d) /\ At("pending", d)' = At("pending", d)
  BY <1>2, AtSame
<1>16. \A k \in Stage, d \in Context : \A x :
         x \in At(k, d)' <=> x \in At(k, d) \/ (k = "asked" /\ d = c /\ x = m /\ BrowserOf[c] \in open)
  BY <1>12, <1>14, <1>15 DEF Stage
<1>17. PagesLive'
  <2>1. \A d \in Context : ctxState[d] = "none" => ctxId'[d] = ReservedId
    BY <1>1, <1>6 DEF PlacesInv, PagesLive
  <2>2. ASSUME NEW r \in requests'
        PROVE  /\ ctxState[r.frame] = "live" /\ r.context_id = ctxId'[r.frame]
               /\ r.process = ProcessOf[r.frame] /\ r.browser = BrowserOf[r.frame]
    <3>1. CASE r = info
      BY <1>1, <1>6, <3>1
    <3>2. CASE r \in requests
      <4>1. r.frame \in Context /\ r.context_id \in Id
        BY <3>2 DEF TypeOK, RequestInfo
      <4>2. /\ ctxState[r.frame] = "live" /\ r.context_id = ctxId[r.frame]
            /\ r.process = ProcessOf[r.frame] /\ r.browser = BrowserOf[r.frame]
        BY <3>2 DEF PlacesInv, PagesLive
      <4>3. ctxId[r.frame] # ReservedId
        BY <4>1, <4>2 DEF Id, ReservedId
      <4> QED
        BY <1>6, <4>1, <4>2, <4>3
    <3> QED
      BY <1>1, <2>2, <3>1, <3>2
  <2> QED
    BY <1>2, <2>1, <2>2 DEF PlacesInv, PagesLive
<1>18. \A r \in requests' : (r \in requests /\ r.uid # m.uid) \/ r = info
  BY <1>1, <1>3, <1>4 DEF Numbered, TypeOK, RequestInfo, Uid
<1>19. PlacesSound'
  <2>1. ASSUME NEW k \in Stage, NEW d \in Context, NEW x \in At(k, d)'
        PROVE  StandsFor(k, d, x)'
    <3>1. CASE x \in At(k, d)
      <4>1. StandsFor(k, d, x)
        BY <3>1 DEF PlacesInv, PlacesSound
      <4>2. x.uid \in 1..n /\ x.uid # m.uid /\ ctxId'[d] = ctxId[d]
        BY <1>5, <1>6, <3>1
      <4>3. x.uid \in 1..Len(issued') /\ issued'[x.uid] = issued[x.uid]
        BY <1>4, <4>2
      <4>4. \A r \in requests' : r.uid = x.uid => r \in requests
        BY <1>1, <4>2
      <4> QED
        BY <4>1, <4>2, <4>3, <4>4 DEF StandsFor
    <3>2. CASE k = "asked" /\ d = c /\ x = m
      <4>1. m.uid \in 1..Len(issued') /\ m.persistent = issued'[m.uid]
        BY <1>1, <1>4
      <4>2. \A r \in requests' : r.uid = m.uid => r = info
        BY <1>18
      <4> QED
        BY <1>1, <1>6, <3>2, <4>1, <4>2 DEF StandsFor
    <3> QED
      BY <1>16, <2>1, <3>1, <3>2
  <2>2. \A d \in Context : \A x \in ToSet(toRenderer'[d]) : x.uid \in 1..Len(issued')
    BY <1>2, <1>4, <1>5
  <2> QED
    BY <1>2, <2>1, <2>2 DEF PlacesInv, PlacesSound
<1>20. OnePlace'
  <2> SUFFICES ASSUME NEW k \in Stage, NEW l \in Stage, NEW d \in Context, NEW e \in Context,
                      NEW x \in At(k, d)', NEW y \in At(l, e)', x.uid = y.uid
               PROVE  k = l /\ d = e /\ x = y
    BY DEF OnePlace
  <2>1. (x \in At(k, d) /\ x.uid # m.uid) \/ (k = "asked" /\ d = c /\ x = m)
    BY <1>5, <1>16
  <2>2. (y \in At(l, e) /\ y.uid # m.uid) \/ (l = "asked" /\ e = c /\ y = m)
    BY <1>5, <1>16
  <2> QED
    BY <2>1, <2>2 DEF PlacesInv, OnePlace
<1>21. PipesOrdered'
  <2>1. \A d \in Context : InOrder(toBrowser'[d], PipeOrder)
    BY <1>11 DEF PlacesInv, PipesOrdered
  <2>2. ASSUME NEW d \in Context PROVE InOrder(toRenderer[d], AnswerOrder')
    <3>1. toRenderer[d] \in Seq(AnswerMsg) /\ InOrder(toRenderer[d], AnswerOrder)
      BY DEF TypeOK, PlacesInv, PipesOrdered
    <3>2. ASSUME NEW x \in ToSet(toRenderer[d]), NEW y, <<y, x>> \in AnswerOrder'
          PROVE  <<y, x>> \in AnswerOrder
      <4>1. PICK w \in Final' : <<y, x>> = <<w, w>>
        BY <3>2 DEF AnswerOrder
      <4>2. y = w /\ x = w
        BY <4>1
      <4>3. x \in Final
        BY <1>13, <3>2, <4>1, <4>2
      <4> QED
        BY <4>2, <4>3 DEF AnswerOrder
    <3> QED
      BY <3>1, <3>2 DEF InOrder, ToSet
  <2> QED
    BY <1>2, <2>1, <2>2 DEF PipesOrdered, PipeOrder, Cancels
<1>22. CancelsSound'
  <2>1. ASSUME NEW d \in Context, NEW x \in ToSet(toBrowser'[d]), x \in CancelMsg
        PROVE  /\ x.request_id <= requestIdGen'[ProcessOf[d]]
               /\ x.request_id = ReservedId => ctxState[d] # "live"
               /\ x.context_id = ctxId'[d]
               /\ \A r \in requests' : r.frame = d => ~Cancels(x, r)
    <3>1. x \in ToSet(toBrowser[d])
      BY <1>9, <1>12, <2>1
    <3>2. /\ x.request_id <= requestIdGen[ProcessOf[d]]
          /\ x.request_id = ReservedId => ctxState[d] # "live"
          /\ x.context_id = ctxId[d]
          /\ \A r \in requests : r.frame = d => ~Cancels(x, r)
      BY <2>1, <3>1 DEF PlacesInv, CancelsSound
    <3>3. ctxId'[d] = ctxId[d]
      BY <1>6, <2>1, <3>2 DEF CancelMsg, Id, ReservedId
    <3>4. x.request_id <= requestIdGen'[ProcessOf[d]]
      <4>1. ProcessOf[c] \in Process /\ ProcessOf[d] \in Process
            /\ requestIdGen \in [Process -> Id \union {ReservedId}]
        BY RouterAssumption DEF TypeOK
      <4>2. CASE ProcessOf[d] = ProcessOf[c]
        <5>1. requestIdGen'[ProcessOf[d]] = requestIdGen[ProcessOf[c]] + 1
          BY <1>1, <4>1, <4>2
        <5>2. x.request_id \in Nat
          BY <2>1, RouterAssumption DEF CancelMsg, Id, ReservedId
        <5> QED
          BY <1>7, <3>2, <4>2, <5>1, <5>2
      <4>3. CASE ProcessOf[d] # ProcessOf[c]
        BY <1>1, <3>2, <4>1, <4>3
      <4> QED
        BY <4>2, <4>3
    <3>5. \A r \in requests' : r.frame = d => ~Cancels(x, r)
      BY <1>1, <1>8, <2>1, <3>1, <3>2
    <3> QED
      BY <3>2, <3>3, <3>4, <3>5
  <2> QED
    BY <1>2, <2>1 DEF CancelsSound, Cancels
<1>23. ClosedAreSwept'
  <2>1. ASSUME NEW d \in Context, BrowserOf[d] \notin open'
        PROVE  /\ toBrowser'[d] = <<>> /\ At("offered", d)' = {}
               /\ \A e \in At("pending", d)' : \E s \in sweep' : Matches(e, s)
    <3>1. /\ toBrowser[d] = <<>> /\ At("offered", d) = {}
          /\ \A e \in At("pending", d) : \E s \in sweep : Matches(e, s)
      BY <1>2, <2>1 DEF PlacesInv, ClosedAreSwept
    <3>2. toBrowser'[d] = toBrowser[d]
      BY <1>2, <1>11, <2>1
    <3> QED
      BY <1>2, <1>15, <3>1, <3>2
  <2>2. \A s, t \in sweep' : s = t
    BY <1>2 DEF PlacesInv, ClosedAreSwept
  <2> QED
    BY <2>1, <2>2 DEF ClosedAreSwept, Matches
<1>24. NoneForgotten'
  <2>1. ASSUME NEW k \in Stage \ {"answered"}, NEW d \in Context, NEW x \in At(k, d)'
        PROVE  Waited(x)' \/ Doomed(k, d, x)'
    <3>1. CASE x = m
      BY <1>1, <3>1 DEF Waited
    <3>2. CASE x \in At(k, d)
      <4>1. Waited(x) \/ Doomed(k, d, x)
        BY <2>1, <3>2 DEF PlacesInv, NoneForgotten
      <4>2. CASE Waited(x)
        BY <1>1, <4>2 DEF Waited
      <4>3. CASE Doomed(k, d, x)
        BY <1>2, <1>12, <4>3 DEF Doomed, Matches, Cancels
      <4> QED
        BY <4>1, <4>2, <4>3
    <3> QED
      BY <1>16, <2>1, <3>1, <3>2
  <2> QED
    BY <2>1 DEF NoneForgotten
<1>25. ASSUME LossInv PROVE LossInv'
  <2>1. ASSUME NEW e \in queries PROVE e.uid # m.uid
    <3>1. e.frame \in Context /\ e \in At("pending", e.frame)
      BY EntryPlace
    <3> QED
      BY <1>5, <3>1 DEF Stage
  <2>2. SilentForLeavers'
    BY <1>1, <1>2, <1>25, <2>1 DEF LossInv, SilentForLeavers, Matches
  <2>3. ASSUME NEW r \in requests', r.browser \in open, r.frame \notin leaving
        PROVE  \E k \in Stage : \E x \in At(k, r.frame)' : x.uid = r.uid
    <3>1. CASE r = info
      <4>1. m \in At("asked", c)' /\ r.frame = c /\ m.uid = r.uid
        BY <1>1, <1>12, <2>3, <3>1
      <4> QED
        BY <4>1 DEF Stage
    <3>2. CASE r \in requests
      <4>1. r.frame \in Context
        BY <3>2 DEF TypeOK, RequestInfo
      <4>2. \E k \in Stage : \E x \in At(k, r.frame) : x.uid = r.uid
        BY <1>25, <2>3, <3>2 DEF LossInv, NoneLost
      <4> QED
        BY <1>16, <4>1, <4>2
    <3> QED
      BY <1>1, <2>3, <3>1, <3>2
  <2> QED
    BY <1>2, <2>2, <2>3 DEF LossInv, NoneLost
<1> QED
  BY <1>6, <1>17, <1>19, <1>20, <1>21, <1>22, <1>23, <1>24, <1>25 DEF PlacesInv

\* The pipes of a browser are dropped and all its queries canceled; nobody in
\* the browser waits for them, or the browser closes.
LEMMA BrowserDropped ==
  ASSUME TypeOK, PlacesInv, NEW b \in Browser, UiIdle, DropPipes(ContextsOf(b)),
         StartSweep(PendingFor({b}, Handler, FALSE)),
         UNCHANGED <<rendererVars, queries, tasks, dispatch, leaving, crashed, issued>>,
         open \ {b} \subseteq open', open' \subseteq open,
         terminated \ {b} \subseteq terminated', terminated' \subseteq terminated,
         b \in open' => \A r \in requests : r.browser # b
  PROVE  /\ PlacesInv'
         /\ LossInv => LossInv'
<1> DEFINE s == PendingFor({b}, Handler, FALSE)
<1>1. /\ UNCHANGED <<ctxState, ctxId, contextIdGen, requestIdGen, requests>>
      /\ dispatch = {} /\ sweep = {}
  BY DEF rendererVars, UiIdle
<1>2. /\ \A c \in Context : toBrowser'[c] = IF c \in ContextsOf(b) THEN <<>> ELSE toBrowser[c]
      /\ \A c \in Context : toRenderer'[c] = IF c \in ContextsOf(b) THEN <<>> ELSE toRenderer[c]
  BY DEF DropPipes
<1>3. \A c \in Context : c \in ContextsOf(b) <=> BrowserOf[c] = b
  BY DEF ContextsOf
<1>4. /\ \A c \in Context : \A x \in ToSet(toBrowser'[c]) : x \in ToSet(toBrowser[c])
      /\ \A c \in Context : \A x \in ToSet(toRenderer'[c]) : x \in ToSet(toRenderer[c])
  BY <1>2, EmptySet
<1>5. \A e \in queries : e.browser = b => Matches(e, s)
  BY DEF Matches, PendingFor, TypeOK, QueryInfo
<1>6. \A e \in queries : Matches(e, s) => e.browser = b
  BY DEF Matches, PendingFor
<1>7. sweep' = IF \E e \in queries : Matches(e, s) THEN {s} ELSE {}
  BY DEF StartSweep
<1> HIDE DEF s
<1>8. Final' = Final
  BY DEF Final
<1>9. /\ \A c \in Context : At("asked", c)' \subseteq At("asked", c)
      /\ \A c \in Context : At("answered", c)' \subseteq At("answered", c)
      /\ \A c \in Context : At("offered", c)' = At("offered", c) /\ At("pending", c)' = At("pending", c)
  <2> SUFFICES ASSUME NEW c \in Context
               PROVE  /\ At("asked", c)' \subseteq At("asked", c)
                      /\ At("answered", c)' \subseteq At("answered", c)
                      /\ At("offered", c)' = At("offered", c) /\ At("pending", c)' = At("pending", c)
    OBVIOUS
  <2>1. At("asked", c)' = ToSet(toBrowser'[c]) \intersect QueryMsg
        /\ At("answered", c)' = ToSet(toRenderer'[c]) \intersect Final'
    BY AtNext
  <2>2. At("asked", c) = ToSet(toBrowser[c]) \intersect QueryMsg
        /\ At("answered", c) = ToSet(toRenderer[c]) \intersect Final
    BY AtFacts
  <2>3. At("offered", c)' = At("offered", c) /\ At("pending", c)' = At("pending", c)
    BY AtSame
  <2> QED
    BY <1>4, <1>8, <2>1, <2>2, <2>3
<1>10. \A k \in Stage, c \in Context : At(k, c)' \subseteq At(k, c)
  BY <1>9 DEF Stage
<1>11. ContextsApart' /\ PagesLive' /\ CancelsSound'
  BY <1>1, <1>4 DEF PlacesInv, ContextsApart, Identified, PagesLive, CancelsSound, Cancels
<1>12. PipesOrdered'
  <2>1. \A c \in Context : /\ InOrder(toBrowser'[c], PipeOrder)
                           /\ InOrder(toRenderer'[c], AnswerOrder)
    BY <1>2, EmptyOrder DEF PlacesInv, PipesOrdered
  <2> QED
    BY <1>8, <2>1 DEF PipesOrdered, PipeOrder, AnswerOrder, Cancels
<1>13. ASSUME NEW c \in ContextsOf(b)
       PROVE  /\ toBrowser'[c] = <<>> /\ At("asked", c)' = {} /\ At("offered", c)' = {}
              /\ \A e \in At("pending", c)' : \E t \in sweep' : Matches(e, t)
  <2>1. c \in Context /\ BrowserOf[c] = b
    BY DEF ContextsOf
  <2>2. toBrowser'[c] = <<>>
    BY <1>2, <2>1
  <2>3. At("asked", c)' = {} /\ At("offered", c)' = {}
    BY <1>1, <2>2, AtNext, EmptySet
  <2>4. ASSUME NEW e \in At("pending", c)' PROVE \E t \in sweep' : Matches(e, t)
    <3>1. e \in queries /\ e.frame = c
      BY AtNext
    <3>2. Matches(e, s)
      BY <1>5, <2>1, <3>1 DEF PlacesInv, PlacesSound
    <3> QED
      BY <1>7, <3>1, <3>2
  <2> QED
    BY <2>2, <2>3, <2>4
<1>14. ClosedAreSwept'
  <2>1. ASSUME NEW c \in Context, BrowserOf[c] \notin open'
        PROVE  /\ toBrowser'[c] = <<>> /\ At("offered", c)' = {}
               /\ \A e \in At("pending", c)' : \E t \in sweep' : Matches(e, t)
    <3>1. CASE BrowserOf[c] = b
      BY <1>3, <1>13, <3>1
    <3>2. CASE BrowserOf[c] # b
      <4>1. BrowserOf[c] \notin open
        BY <2>1, <3>2
      <4>2. /\ toBrowser[c] = <<>> /\ At("offered", c) = {}
            /\ \A e \in At("pending", c) : \E t \in sweep : Matches(e, t)
        BY <4>1 DEF PlacesInv, ClosedAreSwept
      <4> QED
        BY <1>1, <1>2, <1>3, <1>9, <3>2, <4>2
    <3> QED
      BY <3>1, <3>2
  <2>2. \A t, w \in sweep' : t = w
    BY <1>7
  <2> QED
    BY <2>1, <2>2 DEF ClosedAreSwept, Matches
<1>15. ASSUME NEW k \in Stage \ {"answered"}, NEW c \in Context, NEW x \in At(k, c)',
              Waited(x) \/ Doomed(k, c, x)
       PROVE  Waited(x)' \/ Doomed(k, c, x)'
  <2>1. CASE BrowserOf[c] = b
    <3>1. k = "pending" /\ \E t \in sweep' : Matches(x, t)
      BY <1>3, <1>13, <1>15, <2>1 DEF Stage
    <3> QED
      BY <3>1 DEF Doomed, Matches
  <2>2. CASE BrowserOf[c] # b
    <3>1. toBrowser'[c] = toBrowser[c]
      BY <1>2, <1>3, <2>2
    <3>2. CASE Waited(x)
      BY <1>1, <3>2 DEF Waited
    <3>3. CASE Doomed(k, c, x)
      BY <1>1, <2>2, <3>1, <3>3 DEF Doomed, Cancels
    <3> QED
      BY <1>15, <3>2, <3>3
  <2> QED
    BY <2>1, <2>2
<1>16. PlacesInv'
  <2>1. requests' \subseteq requests /\ queries' \subseteq queries
        /\ \A c \in Context : ctxId[c] # ReservedId => ctxId'[c] = ctxId[c]
    BY <1>1
  <2> QED
    BY <1>4, <1>10, <1>11, <1>12, <1>14, <1>15, <2>1, PlacesFewer
<1>17. ASSUME LossInv PROVE LossInv'
  <2>1. ASSUME NEW e \in queries, NEW r \in requests, Matches(e, s), r.uid = e.uid
        PROVE  r.browser \notin open'
    <3>1. e.frame \in Context /\ e \in At("pending", e.frame)
      BY EntryPlace
    <3>2. r.browser = BrowserOf[e.frame] /\ e.browser = BrowserOf[e.frame]
      BY <2>1, <3>1, EntryWaits DEF Stage, PlacesInv, PlacesSound
    <3> QED
      BY <1>6, <2>1, <3>2
  <2>2. SilentForLeavers'
    BY <1>1, <1>7, <1>17, <2>1 DEF LossInv, SilentForLeavers, Matches
  <2>3. ASSUME NEW r \in requests, r.browser \in open', r.frame \notin leaving
        PROVE  \E k \in Stage : \E x \in At(k, r.frame)' : x.uid = r.uid
    <3>1. r.frame \in Context /\ r.browser = BrowserOf[r.frame] /\ r.browser # b
      BY <2>3 DEF TypeOK, RequestInfo, PlacesInv, PagesLive
    <3>2. \E k \in Stage : \E x \in At(k, r.frame) : x.uid = r.uid
      BY <1>17, <2>3 DEF LossInv, NoneLost
    <3>3. toBrowser'[r.frame] = toBrowser[r.frame] /\ toRenderer'[r.frame] = toRenderer[r.frame]
      BY <1>2, <1>3, <3>1
    <3>4. At("asked", r.frame)' = At("asked", r.frame)
          /\ At("answered", r.frame)' = At("answered", r.frame)
      BY <3>1, <3>3, AtSame
    <3>5. \A k \in Stage : At(k, r.frame)' = At(k, r.frame)
      BY <1>9, <3>1, <3>4 DEF Stage
    <3> QED
      BY <3>2, <3>5
  <2> QED
    BY <1>1, <2>2, <2>3 DEF LossInv, NoneLost
<1> QED
  BY <1>16, <1>17

LEMMA BrowserLostMoves ==
  ASSUME TypeOK, PlacesInv, NEW b \in Browser, OnBeforeClose(b) \/ OnRenderProcessTerminated(b)
  PROVE  /\ PlacesInv'
         /\ LossInv => LossInv'
<1>1. CASE OnBeforeClose(b)
  <2>1. /\ UiIdle /\ open' = open \ {b} /\ DropPipes(ContextsOf(b))
        /\ StartSweep(PendingFor({b}, Handler, FALSE))
        /\ UNCHANGED <<rendererVars, queries, tasks, dispatch, leaving, crashed, terminated, issued>>
    BY <1>1 DEF OnBeforeClose, mapVars, ghostVars
  <2> QED
    BY <2>1, BrowserDropped
<1>2. CASE OnRenderProcessTerminated(b)
  <2>1. /\ UiIdle /\ b \in terminated /\ terminated' = terminated \ {b}
        /\ DropPipes({c \in ContextsOf(b) : ProcessOf[c] \in crashed})
        /\ StartSweep(PendingFor({b}, Handler, FALSE))
        /\ UNCHANGED <<rendererVars, queries, tasks, dispatch, open, leaving, crashed, issued>>
    BY <1>2 DEF OnRenderProcessTerminated, mapVars, ghostVars
  <2>2. \A c \in ContextsOf(b) : ProcessOf[c] \in crashed
    BY <2>1 DEF PlacesInv, PagesLive, ContextsOf
  <2>3. {c \in ContextsOf(b) : ProcessOf[c] \in crashed} = ContextsOf(b)
    BY <2>2
  <2>4. \A r \in requests : r.browser # b
    <3> SUFFICES ASSUME NEW r \in requests, r.browser = b PROVE FALSE
      OBVIOUS
    <3>1. r.frame \in Context /\ ctxState[r.frame] = "live" /\ BrowserOf[r.frame] = b
      BY DEF TypeOK, RequestInfo, PlacesInv, PagesLive
    <3> QED
      BY <2>2, <3>1 DEF PlacesInv, PagesLive, ContextsOf
  <2> QED
    BY <2>1, <2>3, <2>4, BrowserDropped
<1> QED
  BY <1>1, <1>2

----------------------------------------------------------------------------
(* The invariants hold initially and every step preserves them. *)
LEMMA PlacesInit == Init => PlacesInv /\ LossInv
<1> SUFFICES ASSUME Init PROVE PlacesInv /\ LossInv
  OBVIOUS
<1>1. /\ requests = {} /\ queries = {} /\ dispatch = {} /\ sweep = {} /\ open = Browser
      /\ terminated = {} /\ crashed = {} /\ tasks = <<>>
      /\ \A c \in Context : /\ toBrowser[c] = <<>> /\ toRenderer[c] = <<>>
                            /\ ctxState[c] = "none" /\ ctxId[c] = ReservedId
      /\ \A p \in Process : contextIdGen[p] = ReservedId
  BY DEF Init
<1>2. ToSet(<<>>) = {}
  BY EmptySet
<1>3. ASSUME NEW k \in Stage, NEW c \in Context PROVE At(k, c) = {}
  <2>1. /\ At("asked", c) = {} /\ At("offered", c) = {}
        /\ At("pending", c) = {} /\ At("answered", c) = {}
    BY <1>1, <1>2, AtFacts
  <2> QED
    BY <2>1 DEF Stage
<1>4. ContextsApart
  <2>1. ASSUME NEW p \in Process PROVE contextIdGen[p] <= Cardinality(Identified(p))
    <3>1. Identified(p) = {}
      BY <1>1 DEF Identified
    <3>2. Cardinality({}) = 0
      BY FS_EmptySet
    <3> QED
      BY <1>1, <3>1, <3>2 DEF ReservedId
  <2>2. \A c \in Context : ctxId[c] <= contextIdGen[ProcessOf[c]]
    BY <1>1, RouterAssumption DEF ReservedId
  <2>3. \A c, d \in Context :
          ProcessOf[c] = ProcessOf[d] /\ ctxId[c] = ctxId[d] /\ ctxId[c] # ReservedId => c = d
    BY <1>1
  <2> QED
    BY <2>1, <2>2, <2>3 DEF ContextsApart
<1>5. PagesLive
  BY <1>1 DEF PagesLive
<1>6. PlacesSound /\ OnePlace
  BY <1>1, <1>2, <1>3 DEF PlacesSound, OnePlace
<1>7. PipesOrdered
  BY <1>1, EmptyOrder DEF PipesOrdered
<1>8. CancelsSound /\ ClosedAreSwept
  BY <1>1, <1>2, RouterAssumption DEF CancelsSound, ClosedAreSwept
<1>9. NoneForgotten /\ LossInv
  BY <1>1, <1>2, <1>3 DEF NoneForgotten, LossInv, SilentForLeavers, NoneLost
<1> QED
  BY <1>4, <1>5, <1>6, <1>7, <1>8, <1>9 DEF PlacesInv

LEMMA PlacesStep ==
  ASSUME IdsSuffice, FramesShareProcess, Books, Books', Numbered, OneCallPerId, PlacesInv,
         [Next]_vars
  PROVE  /\ PlacesInv'
         /\ "abort" \notin Fault /\ LossInv => LossInv'
<1>0. TypeOK /\ TypeOK'
  BY DEF Books
<1>1. CASE UNCHANGED vars
  <2>1. UNCHANGED <<rendererVars, pipeVars, open, crashed, terminated, issued, queries, dispatch,
                    requests, leaving, tasks, sweep, toBrowser, toRenderer>>
    BY <1>1 DEF vars, mapVars, envVars, ghostVars, rendererVars, pipeVars
  <2>2. PlacesInv'
    BY <1>0, <2>1, PassStarts
  <2>3. \A k \in Stage, c \in Context : At(k, c)' = At(k, c)
    BY <2>1 DEF At, Final, Stage
  <2>4. LossInv => LossInv'
    BY <1>0, <2>1, <2>3, StaysLoses
  <2> QED
    BY <2>2, <2>4
<1>2. CASE RendererStep
  <2>1. ASSUME NEW c \in Context, OnContextCreated(c) PROVE PlacesInv' /\ (LossInv => LossInv')
    BY <1>0, <2>1, OnContextCreatedMoves
  <2>2. ASSUME NEW c \in Context, NEW persistent \in BOOLEAN, SendQuery(c, persistent)
        PROVE  PlacesInv' /\ (LossInv => LossInv')
    BY <1>0, <2>2, SendQueryMoves
  <2>3. ASSUME NEW c \in Context, NEW rid \in Id, SendCancel(c, rid)
        PROVE  PlacesInv' /\ (LossInv => LossInv')
    BY <1>0, <2>3, SendCancelMoves
  <2>4. ASSUME NEW c \in Context, OnContextReleased(c) PROVE PlacesInv' /\ (LossInv => LossInv')
    BY <1>0, <2>4, OnContextReleasedMoves
  <2>5. ASSUME NEW c \in Context, ReceiveAnswer(c) PROVE PlacesInv' /\ (LossInv => LossInv')
    BY <1>0, <2>5, ReceiveAnswerMoves
  <2> QED
    BY <1>2, <2>1, <2>2, <2>3, <2>4, <2>5 DEF RendererStep
<1>3. CASE BrowserStep
  <2>1. ASSUME NEW c \in Context, ReceiveQuery(c) PROVE PlacesInv' /\ (LossInv => LossInv')
    BY <1>0, <2>1, ReceiveQueryMoves
  <2>2. ASSUME NEW c \in Context, ReceiveCancel(c) PROVE PlacesInv' /\ (LossInv => LossInv')
    BY <1>0, <2>2, ReceiveCancelMoves
  <2>3. DeclineQuery => PlacesInv' /\ (LossInv => LossInv')
    BY DeclineQueryMoves
  <2>4. AcceptQuery => PlacesInv' /\ (LossInv => LossInv')
    BY AcceptQueryMoves
  <2>5. SweepNext => PlacesInv' /\ (LossInv => LossInv')
    BY <1>0, SweepNextMoves
  <2>6. RunCallbackTask => PlacesInv' /\ (LossInv => LossInv')
    BY RunCallbackTaskMoves
  <2>7. RunCancelTask => PlacesInv' /\ (LossInv => LossInv')
    BY <1>0, QuietMoves, QuietLoses
  <2>8. ASSUME NEW b \in Browser, OnBeforeBrowse(b) PROVE PlacesInv' /\ (LossInv => LossInv')
    BY <1>0, <2>8, QuietMoves, QuietLoses
  <2>9. ASSUME NEW b \in Browser, OnBeforeClose(b) \/ OnRenderProcessTerminated(b)
        PROVE  PlacesInv' /\ (LossInv => LossInv')
    BY <1>0, <2>9, BrowserLostMoves
  <2> QED
    BY <1>3, <2>1, <2>2, <2>3, <2>4, <2>5, <2>6, <2>7, <2>8, <2>9 DEF BrowserStep
<1>4. CASE ApplicationStep
  BY <1>0, <1>4, QuietMoves, QuietLoses
<1>5. CASE EnvironmentStep
  <2>1. ASSUME NEW b \in Browser, NavigationAborted(b)
        PROVE  PlacesInv' /\ "abort" \in Fault
    BY <1>0, <2>1, QuietMoves DEF NavigationAborted
  <2>2. ASSUME NEW p \in Process, RenderProcessGone(p) PROVE PlacesInv' /\ (LossInv => LossInv')
    BY <1>0, <2>2, RenderProcessGoneMoves
  <2> QED
    BY <1>5, <2>1, <2>2 DEF EnvironmentStep
<1> QED
  BY <1>1, <1>2, <1>3, <1>4, <1>5 DEF Next

LEMMA CarriedOnce ==
  ASSUME TypeOK, Numbered, PlacesInv, LossInv, NEW r \in requests,
         r.browser \in open, r.frame \notin leaving
  PROVE  \E z : Carriers(r) = {z}
<1>1. PICK c \in Context : c = r.frame
  BY DEF TypeOK, RequestInfo
<1> DEFINE q == toBrowser[c]
           a == toRenderer[c]
           asked == {j \in DOMAIN q : q[j].type = "query" /\ q[j].uid = r.uid}
           answered == {j \in DOMAIN a : a[j].uid = r.uid /\ (a[j].success => ~r.persistent)}
           offered == {x \in dispatch : x.uid = r.uid}
           pending == {x \in queries : x.uid = r.uid}
<1>2. Carriers(r) = {<<"asked", i>> : i \in asked}
                    \union {<<"offered", d.query_id>> : d \in offered}
                    \union {<<"pending", e.query_id>> : e \in pending}
                    \union {<<"answered", i>> : i \in answered}
  BY <1>1 DEF Carriers
<1>3. r.persistent = issued[r.uid]
  BY DEF Numbered
<1>4. \A i \in DOMAIN q : q[i] \in ToSet(q)
  BY DEF ToSet
<1>5. \A i \in DOMAIN a : a[i] \in ToSet(a)
  BY DEF ToSet
<1>6. /\ \A x : x \in At("asked", c) <=> x \in ToSet(q) /\ x.type = "query"
      /\ \A x : x \in At("answered", c) <=> x \in ToSet(a) /\ (x.success => ~issued[x.uid])
  <2>1. At("asked", c) = ToSet(q) \intersect QueryMsg /\ At("answered", c) = ToSet(a) \intersect Final
    BY AtFacts
  <2>2. \A x \in ToSet(q) : x \in QueryMsg <=> x.type = "query"
    BY PipeTypes
  <2>3. \A x \in ToSet(a) : x \in AnswerMsg
    BY PipeTypes
  <2>4. \A x \in ToSet(a) : x \in Final <=> (x.success => ~issued[x.uid])
    BY <2>3 DEF Final
  <2> HIDE DEF q, a
  <2> QED
    BY <2>1, <2>2, <2>4
<1>7. /\ \A i \in DOMAIN q : i \in asked <=> q[i] \in At("asked", c) /\ q[i].uid = r.uid
      /\ \A i \in DOMAIN a : i \in answered <=> a[i] \in At("answered", c) /\ a[i].uid = r.uid
  BY <1>3, <1>4, <1>5, <1>6
<1>8. /\ \A x \in offered : x.frame \in Context /\ x \in At("offered", x.frame)
      /\ \A x \in pending : x.frame \in Context /\ x \in At("pending", x.frame)
  BY OfferPlace, EntryPlace
<1>9. /\ \A i, j \in asked : q[i] = q[j] => i = j
      /\ \A i, j \in answered : a[i] = a[j] => i = j
  <2>1. InOrder(q, PipeOrder) /\ InOrder(a, AnswerOrder) /\ DOMAIN q \subseteq Nat /\ DOMAIN a \subseteq Nat
    <3>1. q \in Seq(QueryMsg \union CancelMsg) /\ a \in Seq(AnswerMsg)
      BY DEF TypeOK
    <3>2. InOrder(q, PipeOrder) /\ InOrder(a, AnswerOrder)
      BY DEF PlacesInv, PipesOrdered
    <3> HIDE DEF q, a
    <3> QED
      BY <3>1, <3>2
  <2>2. /\ \A x \in QueryMsg : <<x, x>> \in PipeOrder
        /\ \A x \in Final : <<x, x>> \in AnswerOrder
    BY DEF PipeOrder, AnswerOrder
  <2>3. /\ \A i \in asked : i \in DOMAIN q /\ q[i] \in QueryMsg
        /\ \A i \in answered : i \in DOMAIN a /\ a[i] \in Final
    BY <1>7, AtFacts
  <2> HIDE DEF q, a, asked, answered
  <2>4. ASSUME NEW i \in asked, NEW j \in asked, q[i] = q[j] PROVE i = j
    <3>1. <<q[i], q[j]>> \in PipeOrder /\ <<q[j], q[i]>> \in PipeOrder
      BY <2>2, <2>3, <2>4
    <3>2. i \in Nat /\ j \in Nat /\ ~(i < j) /\ ~(j < i)
      BY <2>1, <2>3, <3>1 DEF InOrder
    <3> QED
      BY <3>2
  <2>5. ASSUME NEW i \in answered, NEW j \in answered, a[i] = a[j] PROVE i = j
    <3>1. <<a[i], a[j]>> \in AnswerOrder /\ <<a[j], a[i]>> \in AnswerOrder
      BY <2>2, <2>3, <2>5
    <3>2. i \in Nat /\ j \in Nat /\ ~(i < j) /\ ~(j < i)
      BY <2>1, <2>3, <3>1 DEF InOrder
    <3> QED
      BY <3>2
  <2> QED
    BY <2>4, <2>5
<1>10. PICK k \in Stage : \E x \in At(k, c) : x.uid = r.uid
  BY <1>1 DEF LossInv, NoneLost
<1>11. PICK x \in At(k, c) : x.uid = r.uid
  BY <1>10
<1>12. \A l \in Stage, d \in Context : \A y \in At(l, d) : y.uid = r.uid => l = k /\ y = x
  BY <1>11 DEF PlacesInv, OnePlace
<1>13. /\ k # "asked" => asked = {}
       /\ k # "offered" => offered = {}
       /\ k # "pending" => pending = {}
       /\ k # "answered" => answered = {}
  BY <1>7, <1>8, <1>12 DEF Stage
<1>14. CASE k = "asked"
  <2>1. PICK i \in DOMAIN q : q[i] = x
    BY <1>6, <1>11, <1>14 DEF ToSet
  <2>2. i \in asked
    BY <1>7, <1>11, <1>14, <2>1
  <2>3. \A j \in asked : j = i
    BY <1>7, <1>9, <1>12, <2>1, <2>2 DEF Stage
  <2> HIDE DEF asked, answered, offered, pending
  <2>4. asked = {i} /\ offered = {} /\ pending = {} /\ answered = {}
    BY <1>13, <1>14, <2>2, <2>3
  <2>5. Carriers(r) = {<<"asked", i>>}
    BY <1>2, <2>4
  <2> QED
    BY <2>5
<1>15. CASE k = "offered"
  <2>1. x \in offered
    BY <1>11, <1>15, AtFacts
  <2>2. \A y \in offered : y = x
    BY <1>8, <1>12 DEF Stage
  <2> HIDE DEF asked, answered, offered, pending
  <2>3. offered = {x} /\ asked = {} /\ pending = {} /\ answered = {}
    BY <1>13, <1>15, <2>1, <2>2
  <2>4. Carriers(r) = {<<"offered", x.query_id>>}
    BY <1>2, <2>3
  <2> QED
    BY <2>4
<1>16. CASE k = "pending"
  <2>1. x \in pending
    BY <1>11, <1>16, AtFacts
  <2>2. \A y \in pending : y = x
    BY <1>8, <1>12 DEF Stage
  <2> HIDE DEF asked, answered, offered, pending
  <2>3. pending = {x} /\ asked = {} /\ offered = {} /\ answered = {}
    BY <1>13, <1>16, <2>1, <2>2
  <2>4. Carriers(r) = {<<"pending", x.query_id>>}
    BY <1>2, <2>3
  <2> QED
    BY <2>4
<1>17. CASE k = "answered"
  <2>1. PICK i \in DOMAIN a : a[i] = x
    BY <1>6, <1>11, <1>17 DEF ToSet
  <2>2. i \in answered
    BY <1>7, <1>11, <1>17, <2>1
  <2>3. \A j \in answered : j = i
    BY <1>7, <1>9, <1>12, <2>1, <2>2 DEF Stage
  <2> HIDE DEF asked, answered, offered, pending
  <2>4. answered = {i} /\ offered = {} /\ pending = {} /\ asked = {}
    BY <1>13, <1>17, <2>2, <2>3
  <2>5. Carriers(r) = {<<"answered", i>>}
    BY <1>2, <2>4
  <2> QED
    BY <2>5
<1> QED
  BY <1>14, <1>15, <1>16, <1>17 DEF Stage

(* The browser side keeps no query the page gave up, however cancellations,
   crashes, navigations and closing browsers cross the queries on their way,
   while the frames of a browser share a process and no ID is used up. *)
THEOREM NothingIsForgotten ==
  ASSUME IdsSuffice, FramesShareProcess
  PROVE  Spec => []NoForgottenQuery
<1> DEFINE Inv == Books /\ Numbered /\ OneCallPerId /\ PlacesInv
<1>1. Init => Inv
  BY BooksInit, NumberedInit, OneCallInit, PlacesInit
<1>2. Inv /\ [Next]_vars => Inv'
  <2> SUFFICES ASSUME Inv, [Next]_vars PROVE Inv'
    OBVIOUS
  <2>1. Books' /\ TypeOK /\ TypeOK' /\ MaxQueries <= MaxId
    BY BooksInductive DEF Books, IdsSuffice
  <2>2. Numbered' /\ OneCallPerId'
    BY <2>1, NumberedStep, OneCallStep
  <2>3. PlacesInv'
    BY <2>1, PlacesStep
  <2> QED
    BY <2>1, <2>2, <2>3
<1>3. Inv => NoForgottenQuery
  <2> SUFFICES ASSUME Inv, NEW e \in queries
               PROVE  \/ \E r \in requests : r.uid = e.uid
                      \/ \E s \in sweep : Matches(e, s)
                      \/ e.browser \in terminated
                      \/ \E i \in DOMAIN toBrowser[e.frame] :
                           LET m == toBrowser[e.frame][i]
                           IN  /\ m.type = "cancel" /\ m.context_id = e.context_id
                               /\ m.request_id \in {ReservedId, e.request_id}
    BY DEF NoForgottenQuery
  <2>1. TypeOK /\ e.browser = BrowserOf[e.frame]
    BY DEF Books, PlacesInv, PlacesSound
  <2>2. e.frame \in Context /\ e \in At("pending", e.frame)
    BY <2>1, EntryPlace
  <2>3. Waited(e) \/ Doomed("pending", e.frame, e)
    BY <2>2 DEF PlacesInv, NoneForgotten, Stage
  <2>4. ASSUME NEW m \in ToSet(toBrowser[e.frame]), m \in CancelMsg, Cancels(m, e)
        PROVE  \E i \in DOMAIN toBrowser[e.frame] :
                 /\ toBrowser[e.frame][i].type = "cancel"
                 /\ toBrowser[e.frame][i].context_id = e.context_id
                 /\ toBrowser[e.frame][i].request_id \in {ReservedId, e.request_id}
    <3>1. PICK i \in DOMAIN toBrowser[e.frame] : toBrowser[e.frame][i] = m
      BY DEF ToSet
    <3> QED
      BY <2>4, <3>1 DEF CancelMsg, Cancels
  <2> QED
    BY <2>1, <2>3, <2>4 DEF Waited, Doomed
<1> QED
  BY <1>1, <1>2, <1>3, PTL DEF Spec

(* A request of a page that stays is carried by exactly one message, offer,
   entry or last answer: the routers neither lose it nor settle it twice,
   unless a navigation the browser side already acted on is taken back. *)
THEOREM RequestsAreCarriedOnce ==
  ASSUME IdsSuffice, FramesShareProcess, "abort" \notin Fault
  PROVE  Spec => []EveryRequestIsCarriedOnce
<1> DEFINE Inv == Books /\ Numbered /\ OneCallPerId /\ PlacesInv /\ LossInv
<1>1. Init => Inv
  BY BooksInit, NumberedInit, OneCallInit, PlacesInit
<1>2. Inv /\ [Next]_vars => Inv'
  <2> SUFFICES ASSUME Inv, [Next]_vars PROVE Inv'
    OBVIOUS
  <2>1. Books' /\ TypeOK /\ TypeOK' /\ MaxQueries <= MaxId
    BY BooksInductive DEF Books, IdsSuffice
  <2>2. Numbered' /\ OneCallPerId'
    BY <2>1, NumberedStep, OneCallStep
  <2>3. PlacesInv' /\ LossInv'
    BY <2>1, PlacesStep
  <2> QED
    BY <2>1, <2>2, <2>3
<1>3. Inv => EveryRequestIsCarriedOnce
  <2> SUFFICES ASSUME Inv, NEW r \in requests, r.browser \in open, r.frame \notin leaving
               PROVE  Cardinality(Carriers(r)) = 1
    BY DEF EveryRequestIsCarriedOnce
  <2>1. PICK z : Carriers(r) = {z}
    BY CarriedOnce DEF Books
  <2> QED
    BY <2>1, FS_Singleton
<1> QED
  BY <1>1, <1>2, <1>3, PTL DEF Spec

=============================================================================
