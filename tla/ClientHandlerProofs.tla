------------------------ MODULE ClientHandlerProofs ------------------------
(***************************************************************************)
(* Proofs about ClientHandler.  A step of the client handler is a step of  *)
(* the router, or one of three that create the router, close a browser and *)
(* drop the router: the router's invariants carry over, and what the       *)
(* handler adds is the count of its open browsers.                         *)
(***************************************************************************)
EXTENDS ClientHandler, MessageRouterProofs, FiniteSetTheorems

Served == born \intersect open

(* Every browser that closed was born before, and the count is exact: so it
   reaches zero, and the router goes, with the last open browser only. *)
BrowsersCounted ==
  /\ born \subseteq Browser
  /\ Browser \ open \subseteq born
  /\ browserCount = Cardinality(Served)

RouterFollows ==
  /\ router \in BOOLEAN /\ closing \in BOOLEAN
  /\ closing => Served = {} /\ router /\ dispatch = {}
  /\ ~closing => (router <=> Served # {})
  /\ router /\ ~closing => ToSet(handlers) = Handler
  /\ ~router => handlers = <<>> /\ queries = {} /\ dispatch = {}

ClientInv == Books /\ Registered /\ BrowsersCounted /\ RouterFollows

----------------------------------------------------------------------------
(* The walk of message_handler_set_ visits every handler. *)
LEMMA HandlerSetOrder ==
  /\ MessageHandlerSet \in Seq(Handler)
  /\ ToSet(MessageHandlerSet) = Handler
<1> DEFINE n == Cardinality(Handler)
<1>1. n \in Nat /\ ExistsBijection(1..n, Handler)
  BY ClientAssumption, FS_CardinalityType
<1>2. \E f \in [1..n -> Handler] : IsInjective(f)
  BY <1>1 DEF ExistsBijection, Bijection, Injection
<1>3. MessageHandlerSet \in [1..n -> Handler] /\ IsInjective(MessageHandlerSet)
  BY <1>2 DEF MessageHandlerSet, SetToSeq
<1>4. MessageHandlerSet \in Injection(1..n, Handler)
  BY <1>3 DEF Injection
<1>5. Cardinality(1..n) = n
  <2>1. Cardinality(1..n) = IF 1 > n THEN 0 ELSE n - 1 + 1
    BY <1>1, FS_Interval
  <2> QED
    BY <1>1, <2>1
<1>6. MessageHandlerSet \in Surjection(1..n, Handler)
  BY <1>4, <1>5, ClientAssumption, FS_Injection
<1>7. MessageHandlerSet \in Seq(Handler)
  BY <1>1, <1>3
<1>8. DOMAIN MessageHandlerSet = 1..n
  BY <1>3
<1>9. ToSet(MessageHandlerSet) = Handler
  BY <1>3, <1>6, <1>8 DEF ToSet, Surjection
<1> QED
  BY <1>7, <1>9

LEMMA ClientInitInv == ClientInit => ClientInv
<1> SUFFICES ASSUME ClientInit PROVE ClientInv
  OBVIOUS
<1>1. Books /\ Registered
  BY BooksInit, RegisteredInit DEF ClientInit
<1>2. Served = {}
  BY DEF ClientInit, Served
<1>3. BrowsersCounted
  BY <1>2, FS_EmptySet DEF ClientInit, Init, BrowsersCounted
<1>4. RouterFollows
  BY <1>2 DEF ClientInit, Init, RouterFollows
<1> QED
  BY <1>1, <1>3, <1>4 DEF ClientInv

----------------------------------------------------------------------------
(* OnAfterCreated finds no entry to disturb: the first browser creates the
   router, a later one leaves its handlers alone. *)
LEMMA AfterCreatedInv ==
  ASSUME ClientInv, NEW b \in Browser, ClientOnAfterCreated(b)
  PROVE  ClientInv'
<1>1. /\ UiFree /\ b \notin born
      /\ born' = born \union {b} /\ browserCount' = browserCount + 1
      /\ router' = TRUE /\ handlers' = IF router THEN handlers ELSE MessageHandlerSet
      /\ UNCHANGED <<closing, rendererVars, pipeVars, queryIdGen, mapVars,
                     tasks, dispatch, sweep, envVars, ghostVars>>
  BY DEF ClientOnAfterCreated
<1>2. dispatch = {} /\ sweep = {} /\ ~closing
  BY <1>1 DEF UiFree, UiIdle
<1>3. TypeOK'
  BY <1>1, HandlerSetOrder DEF ClientInv, Books, TypeOK, rendererVars, pipeVars,
     mapVars, envVars, ghostVars
<1>4. Books'
  BY <1>1, <1>3, BooksUnchanged DEF ClientInv, bookVars, mapVars, ghostVars
<1>5. Registered'
  <2>1. CASE router
    BY <1>1, <2>1, RegisteredUnchanged DEF ClientInv, registryVars, mapVars
  <2>2. CASE ~router
    BY <1>1, <1>2, <2>2 DEF ClientInv, RouterFollows, Registered,
       PendingHandlersRegistered, mapVars
  <2> QED
    BY <2>1, <2>2
<1>6. b \in open /\ open' = open
  BY <1>1 DEF ClientInv, BrowsersCounted, envVars
<1>7. Served' = Served \union {b} /\ b \notin Served
  BY <1>1, <1>6 DEF Served
<1>8. BrowsersCounted'
  <2>1. IsFiniteSet(Served)
    BY ClientAssumption, FS_Subset DEF ClientInv, BrowsersCounted, Served
  <2>2. Cardinality(Served') = Cardinality(Served) + 1
    BY <1>7, <2>1, FS_AddElement
  <2> QED
    BY <1>1, <1>6, <2>2 DEF ClientInv, BrowsersCounted
<1>9. RouterFollows'
  <2>1. ToSet(handlers)' = Handler
    BY <1>1, <1>2, HandlerSetOrder DEF ClientInv, RouterFollows
  <2>2. router' \in BOOLEAN /\ closing' \in BOOLEAN /\ ~closing'
    BY <1>1, <1>2 DEF ClientInv, RouterFollows
  <2>3. Served' # {} /\ router'
    BY <1>1, <1>7
  <2> QED
    BY <2>1, <2>2, <2>3 DEF RouterFollows
<1> QED
  BY <1>4, <1>5, <1>8, <1>9 DEF ClientInv

LEMMA BeforeCloseInv ==
  ASSUME ClientInv, NEW b \in Browser, ClientOnBeforeClose(b)
  PROVE  ClientInv'
<1>1. /\ UiFree /\ b \in born /\ b \in open
      /\ open' = open \ {b} /\ DropPipes(ContextsOf(b))
      /\ browserCount' = browserCount - 1 /\ closing' = (browserCount = 1)
      /\ UNCHANGED <<born, router, rendererVars, handlers, queryIdGen, mapVars,
                     tasks, dispatch, sweep, leaving, crashed, terminated,
                     ghostVars>>
  BY DEF ClientOnBeforeClose
<1>2. dispatch = {} /\ ~closing
  BY <1>1 DEF UiFree, UiIdle
<1>3. TypeOK'
  <2>1. /\ toBrowser' \in [Context -> Seq(QueryMsg \union CancelMsg)]
        /\ toRenderer' \in [Context -> Seq(AnswerMsg)]
    BY <1>1, EmptySeq DEF DropPipes, ClientInv, Books, TypeOK
  <2> QED
    BY <1>1, <2>1 DEF ClientInv, Books, TypeOK, rendererVars, mapVars, ghostVars
<1>4. Books'
  BY <1>1, <1>3, BooksUnchanged DEF ClientInv, bookVars, mapVars, ghostVars
<1>5. Registered'
  BY <1>1, RegisteredUnchanged DEF ClientInv, registryVars, mapVars
<1>6. Served' = Served \ {b} /\ b \in Served
  BY <1>1 DEF Served
<1>7. IsFiniteSet(Served) /\ Cardinality(Served) \in Nat
  BY ClientAssumption, FS_Subset, FS_CardinalityType
     DEF ClientInv, BrowsersCounted, Served
<1>8. IsFiniteSet(Served') /\ Cardinality(Served') = Cardinality(Served) - 1
  BY <1>6, <1>7, FS_RemoveElement
<1>9. BrowsersCounted'
  BY <1>1, <1>8 DEF ClientInv, BrowsersCounted
<1>10. closing' = (Served' = {})
  <2>1. Cardinality(Served') = 0 <=> Served' = {}
    BY <1>8, FS_EmptySet
  <2> QED
    BY <1>1, <1>7, <1>8, <2>1 DEF ClientInv, BrowsersCounted
<1>11. RouterFollows'
  <2>1. router /\ router' /\ handlers' = handlers /\ dispatch' = dispatch
    BY <1>1, <1>2, <1>6 DEF ClientInv, RouterFollows
  <2>2. ToSet(handlers)' = Handler
    BY <1>2, <2>1 DEF ClientInv, RouterFollows
  <2> QED
    BY <1>2, <1>10, <2>1, <2>2 DEF ClientInv, RouterFollows
<1> QED
  BY <1>4, <1>5, <1>9, <1>11 DEF ClientInv

(* What is left of OnBeforeClose and every other step is a step of the router
   that keeps the browsers. *)
LEMMA RouterStepBooks ==
  ASSUME ClientInv, [Next]_vars, dispatch # {} => UNCHANGED <<handlers, sweep>>
  PROVE  Books' /\ Registered'
BY BooksInductive, RegisteredStep DEF ClientInv, Books

LEMMA BrowsersKept ==
  ASSUME BrowsersCounted, UNCHANGED <<born, browserCount, open>>
  PROVE  BrowsersCounted' /\ Served' = Served
BY DEF BrowsersCounted, Served

LEMMA DeleteNextHandlerInv ==
  ASSUME ClientInv, DeleteNextHandler
  PROVE  ClientInv'
<1> DEFINE h == Head(handlers)
<1>1. closing /\ RemoveHandler(h) /\ UNCHANGED clientVars /\ handlers # <<>>
  BY DEF DeleteNextHandler
<1>2. h \in Handler
  BY <1>1 DEF ClientInv, Books, TypeOK
<1>3. ApplicationStep
  BY <1>1, <1>2 DEF ApplicationStep
<1>4. dispatch = {}
  BY <1>1 DEF ClientInv, RouterFollows
<1> HIDE DEF h
<1>5. Books' /\ Registered'
  BY <1>3, <1>4, RouterStepBooks DEF Next
<1>6. UNCHANGED <<open, dispatch>>
  BY <1>1 DEF RemoveHandler, envVars
<1>7. BrowsersCounted' /\ Served' = Served
  BY <1>1, <1>6, BrowsersKept DEF ClientInv, clientVars
<1>8. RouterFollows'
  BY <1>1, <1>6, <1>7 DEF ClientInv, RouterFollows, clientVars
<1> QED
  BY <1>5, <1>7, <1>8 DEF ClientInv

(* By the time the router goes its handlers are gone, and with them every
   entry: no pass is in progress that could still have one to remove. *)
LEMMA DropRouterInv ==
  ASSUME ClientInv, DropRouter
  PROVE  ClientInv'
<1>1. /\ closing /\ sweep = {} /\ handlers = <<>>
      /\ router' = FALSE /\ closing' = FALSE /\ UNCHANGED <<vars, born, browserCount>>
  BY DEF DropRouter
<1>2. Books' /\ Registered'
  BY <1>1, RouterStepBooks DEF vars
<1>3. UNCHANGED <<open, handlers, queries, dispatch>>
  BY <1>1 DEF vars, envVars, mapVars
<1>4. BrowsersCounted' /\ Served' = Served
  BY <1>1, <1>3, BrowsersKept DEF ClientInv
<1>5. queries = {}
  <2>1. ToSet(handlers) = {}
    BY <1>1 DEF ToSet
  <2> QED
    BY <1>1, <2>1 DEF ClientInv, Registered, PendingHandlersRegistered
<1>6. RouterFollows'
  BY <1>1, <1>3, <1>4, <1>5 DEF ClientInv, RouterFollows
<1> QED
  BY <1>2, <1>4, <1>6 DEF ClientInv

----------------------------------------------------------------------------
(* The steps that leave the client handler's own variables alone neither
   register handlers nor, without any, make entries. *)
RouterOnly ==
  /\ UNCHANGED <<clientVars, open, handlers>>
  /\ closing => dispatch' = dispatch
  /\ handlers = <<>> /\ queries = {} /\ dispatch = {}
       => queries' = {} /\ dispatch' = {}
  /\ dispatch # {} => UNCHANGED sweep

LEMMA RouterOnlyInv ==
  ASSUME ClientInv, [Next]_vars, RouterOnly
  PROVE  ClientInv'
<1>1. Books' /\ Registered'
  BY RouterStepBooks DEF RouterOnly
<1>2. BrowsersCounted' /\ Served' = Served
  BY BrowsersKept DEF ClientInv, RouterOnly, clientVars
<1>3. RouterFollows'
  BY <1>2 DEF ClientInv, RouterFollows, RouterOnly, clientVars
<1> QED
  BY <1>1, <1>2, <1>3 DEF ClientInv

LEMMA PageStepInv ==
  ASSUME ClientInv, PageStep
  PROVE  ClientInv'
<1>1. RendererStep /\ UNCHANGED clientVars
  BY DEF PageStep
<1>2. UNCHANGED <<open, handlers, queries, dispatch, sweep>>
  BY <1>1 DEF RendererStep, OnContextCreated, SendQuery, SendCancel,
     OnContextReleased, ReceiveAnswer, envVars, mapVars
<1> QED
  BY <1>1, <1>2, RouterOnlyInv DEF Next, RouterOnly

LEMMA ForwardedStepInv ==
  ASSUME ClientInv, ForwardedStep
  PROVE  ClientInv'
<1> USE DEF envVars, mapVars
<1>1. BrowserStep /\ UNCHANGED clientVars /\ ~closing
  BY DEF ForwardedStep, BrowserStep, ClientInv, BrowsersCounted
<1>2. CASE \E c \in Context : ReceiveQuery(c) \/ ReceiveCancel(c)
  <2>1. dispatch = {} /\ UNCHANGED <<open, handlers>>
    BY <1>2 DEF ReceiveQuery, ReceiveCancel, UiIdle
  <2>2. handlers = <<>> /\ queries = {} /\ dispatch = {}
          => queries' = {} /\ dispatch' = {}
    BY <1>2 DEF ReceiveQuery, ReceiveCancel, CancelQuery
  <2> QED
    BY <1>1, <2>1, <2>2, RouterOnlyInv DEF Next, RouterOnly
<1>3. CASE DeclineQuery \/ AcceptQuery
  <2>1. dispatch # {} /\ UNCHANGED <<open, handlers, sweep>>
    BY <1>3 DEF DeclineQuery, AcceptQuery
  <2> QED
    BY <1>1, <2>1, RouterOnlyInv DEF Next, RouterOnly
<1>4. CASE RunCallbackTask
  <2>1. queries' \subseteq queries /\ UNCHANGED <<open, handlers, dispatch, sweep>>
    BY <1>4 DEF RunCallbackTask
  <2> QED
    BY <1>1, <2>1, RouterOnlyInv DEF Next, RouterOnly
<1>5. CASE \E b \in born : OnBeforeBrowse(b) \/ OnRenderProcessTerminated(b)
  <2>1. dispatch = {} /\ UNCHANGED <<open, handlers, queries, dispatch>>
    BY <1>5 DEF OnBeforeBrowse, OnRenderProcessTerminated, UiIdle
  <2> QED
    BY <1>1, <2>1, RouterOnlyInv DEF Next, RouterOnly
<1> QED
  BY <1>2, <1>3, <1>4, <1>5 DEF ForwardedStep

LEMMA OtherStepInv ==
  ASSUME ClientInv, UNCHANGED clientVars,
         \/ SweepNext
         \/ \E q \in QueryId : \/ ExecuteCallback(q, "success")
                               \/ ExecuteCallback(q, "failure")
         \/ \E p \in Process : RenderProcessGone(p)
  PROVE  ClientInv'
<1> USE DEF envVars, mapVars
<1>1. CASE SweepNext
  <2>1. sweep # {} /\ UNCHANGED <<open, handlers, dispatch>>
        /\ queries' \subseteq queries
    BY <1>1 DEF SweepNext, CancelQuery
  <2>2. dispatch = {}
    BY <2>1 DEF ClientInv, Registered
  <2> QED
    BY <1>1, <2>1, <2>2, RouterOnlyInv DEF Next, BrowserStep, RouterOnly
<1>2. CASE \E q \in QueryId : \/ ExecuteCallback(q, "success")
                              \/ ExecuteCallback(q, "failure")
  <2>1. UNCHANGED <<open, handlers, queries, dispatch, sweep>>
    BY <1>2 DEF ExecuteCallback
  <2> QED
    BY <1>2, <2>1, RouterOnlyInv DEF Next, ApplicationStep, RouterOnly
<1>3. CASE \E p \in Process : RenderProcessGone(p)
  <2>1. UNCHANGED <<open, handlers, queries, dispatch, sweep>>
    BY <1>3 DEF RenderProcessGone
  <2> QED
    BY <1>3, <2>1, RouterOnlyInv DEF Next, EnvironmentStep, RouterOnly
<1> QED
  BY <1>1, <1>2, <1>3

LEMMA ClientStutterInv ==
  ASSUME ClientInv, UNCHANGED allVars
  PROVE  ClientInv'
<1>1. UNCHANGED vars /\ UNCHANGED clientVars
  BY DEF allVars
<1>2. UNCHANGED <<open, handlers, queries, dispatch, sweep>>
  BY <1>1 DEF vars, envVars, mapVars
<1> QED
  BY <1>1, <1>2, RouterOnlyInv DEF RouterOnly

LEMMA ClientInductive == ClientInv /\ [ClientNext]_allVars => ClientInv'
<1>1. ASSUME ClientInv, NEW b \in Browser,
             ClientOnAfterCreated(b) \/ ClientOnBeforeClose(b)
      PROVE  ClientInv'
  BY <1>1, AfterCreatedInv, BeforeCloseInv
<1> QED
  BY <1>1, DeleteNextHandlerInv, DropRouterInv, PageStepInv, ForwardedStepInv,
     OtherStepInv, ClientStutterInv DEF ClientNext

----------------------------------------------------------------------------
LEMMA ClientInvTypes == ClientInv => ClientTypeOK
<1> SUFFICES ASSUME ClientInv PROVE ClientTypeOK
  OBVIOUS
<1>1. Served \in SUBSET Browser
  BY DEF ClientInv, BrowsersCounted, Served
<1>2. /\ Cardinality(Served) \in Nat /\ Cardinality(Browser) \in Nat
      /\ Cardinality(Served) <= Cardinality(Browser)
  BY <1>1, ClientAssumption, FS_Subset, FS_CardinalityType
<1> QED
  BY <1>2 DEF ClientInv, Books, BrowsersCounted, RouterFollows, ClientTypeOK

(* In whatever order any number of browsers come and go on one client handler,
   an open one finds the router with every query handler registered, and once
   the last is closed and the router dropped nothing is left that refers to
   it or to a deleted handler. *)
THEOREM RouterLivesWithBrowsers ==
  ClientSpec => [](ClientTypeOK /\ RouterServesOpenBrowsers /\ NothingOutlivesRouter)
<1>1. ClientInv => RouterServesOpenBrowsers
  BY DEF ClientInv, RouterFollows, Served, RouterServesOpenBrowsers
<1>2. ClientInv => NothingOutlivesRouter
  <2> SUFFICES ASSUME ClientInv, ~router
               PROVE  queries = {} /\ attached = {} /\ dispatch = {}
    BY DEF NothingOutlivesRouter
  <2>1. queries = {} /\ dispatch = {}
    BY DEF ClientInv, RouterFollows
  <2>2. {a.query_id : a \in attached} = {}
    BY <2>1 DEF ClientInv, Books, CallbackAttachedWhilePending
  <2> QED
    BY <2>1, <2>2
<1> QED
  BY <1>1, <1>2, ClientInitInv, ClientInductive, ClientInvTypes, PTL DEF ClientSpec

(* The router under this composition keeps its promises: every query ends
   once although OnBeforeClose never tells the router. *)
THEOREM QueriesEndOnceUnderClient ==
  ClientSpec => [](QueryEndsOnce /\ PendingHandlersRegistered)
<1>1. ClientInv => QueryEndsOnce /\ PendingHandlersRegistered
  BY DEF ClientInv, Books, Registered
<1> QED
  BY <1>1, ClientInitInv, ClientInductive, PTL DEF ClientSpec

----------------------------------------------------------------------------
(***************************************************************************)
(* What a page sees.  Of the client handler's own steps, OnAfterCreated    *)
(* touches nothing a call of cefQuery depends on, and OnBeforeClose only   *)
(* breaks the pipes of the closed browser; all others are the router's.    *)
(***************************************************************************)
LEMMA ClientStepKinds ==
  ASSUME ClientInv, [ClientNext]_allVars
  PROVE  \/ [Next]_vars
         \/ \E b \in Browser : ClientOnAfterCreated(b) \/ ClientOnBeforeClose(b)
<1>1. CASE DeleteNextHandler
  <2>1. handlers # <<>> /\ RemoveHandler(Head(handlers))
    BY <1>1 DEF DeleteNextHandler
  <2>2. Head(handlers) \in Handler
    BY <2>1 DEF ClientInv, Books, TypeOK
  <2> QED
    BY <2>1, <2>2 DEF Next, ApplicationStep
<1>2. CASE PageStep \/ ForwardedStep
  BY <1>2 DEF PageStep, ForwardedStep, Next, BrowserStep, ClientInv, BrowsersCounted
<1>3. CASE \/ DropRouter \/ UNCHANGED allVars
  BY <1>3 DEF DropRouter, allVars
<1>4. CASE \/ SweepNext
           \/ \E q \in QueryId : \/ ExecuteCallback(q, "success")
                                 \/ ExecuteCallback(q, "failure")
           \/ \E p \in Process : RenderProcessGone(p)
  BY <1>4 DEF Next, BrowserStep, ApplicationStep, EnvironmentStep
<1> QED
  BY <1>1, <1>2, <1>3, <1>4 DEF ClientNext

(* The IDs and the calls they stand for, under the client handler. *)
ClientCalls == ClientInv /\ Numbered /\ OneCallPerId

LEMMA ClientCallsInit == ClientInit => ClientCalls
BY ClientInitInv, NumberedInit, OneCallInit DEF ClientInit, ClientCalls

LEMMA ClientCallsStep ==
  ASSUME MaxQueries <= MaxId, ClientCalls, [ClientNext]_allVars
  PROVE  ClientCalls' /\ Lifecycle!Next
<1>1. ClientInv' /\ TypeOK /\ TypeOK' /\ Numbered /\ OneCallPerId
  BY ClientInductive DEF ClientCalls, ClientInv, Books
<1>2. CASE [Next]_vars
  BY <1>1, <1>2, NumberedStep, OneCallStep, LifecycleStep DEF ClientCalls
<1>3. ASSUME NEW b \in Browser, ClientOnAfterCreated(b) \/ ClientOnBeforeClose(b)
      PROVE  ClientCalls' /\ Lifecycle!Next
  <2>1. UNCHANGED <<requestIdGen, requests, issued, callbacks, dispatch, queries>>
    BY <1>3 DEF ClientOnAfterCreated, ClientOnBeforeClose, rendererVars, mapVars,
       ghostVars
  <2>2. Numbered' /\ Lifecycle!Next
    BY <1>1, <2>1, NumberedFewer, SeenWithdrawn
  <2>3. OneCallPerId'
    <3>1. CASE ClientOnAfterCreated(b)
      <4>1. UNCHANGED <<toBrowser, toRenderer>>
        BY <3>1 DEF ClientOnAfterCreated, pipeVars
      <4> QED
        BY <1>1, <2>1, <4>1, CarriedNow, OneCallPassedOn
    <3>2. CASE ClientOnBeforeClose(b)
      <4>1. DropPipes(ContextsOf(b))
        BY <3>2 DEF ClientOnBeforeClose
      <4> QED
        BY <1>1, <2>1, <4>1, OneCallDropped
    <3> QED
      BY <1>3, <3>1, <3>2
  <2> QED
    BY <1>1, <2>2, <2>3 DEF ClientCalls
<1> QED
  BY <1>2, <1>3, ClientStepKinds DEF ClientCalls

(* The life cycle of a query holds for the pages of any number of browsers on
   one client handler: whichever closes first, and although the router is not
   told before the last, a call of cefQuery ends at most once and what its page
   hears is for the call that was asked. *)
THEOREM PagesAreServedUnderClient ==
  ASSUME MaxQueries <= MaxId
  PROVE  ClientSpec => ImplementsLifecycle /\ []AnswerReachesItsRequest
<1>1. ClientCalls /\ [ClientNext]_allVars => ClientCalls' /\ Lifecycle!Next
  BY ClientCallsStep
<1>2. ClientInit => ClientCalls /\ Lifecycle!Init
  BY ClientCallsInit, LifecycleInit DEF ClientInit
<1>3. ClientCalls => AnswerReachesItsRequest
  BY AnswersAgree DEF ClientCalls, ClientInv, Books
<1>4. Lifecycle!Next => [Lifecycle!Next]_(Lifecycle!vars)
  OBVIOUS
<1> QED
  BY <1>1, <1>2, <1>3, <1>4, PTL DEF ClientSpec, ImplementsLifecycle, Lifecycle!Spec

============================================================================
