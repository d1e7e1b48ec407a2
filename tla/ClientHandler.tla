--------------------------- MODULE ClientHandler ---------------------------
(***************************************************************************)
(* One client handler of cefclient and the message router it owns.  The    *)
(* handler may serve several browsers (popups, Chrome-style windows): it   *)
(* creates the router with the first of them and deletes the router and    *)
(* its query handlers with the last.                                       *)
(*                                                                         *)
(* Source: tests/cefclient/browser/base_client_handler.cc, which decides   *)
(* which of the router's methods are called and when; the router is        *)
(* MessageRouter.  The resource manager it also owns is modelled apart.    *)
(***************************************************************************)
EXTENDS MessageRouter

\* message_handler_set_ is finite, and so is what one handler ever serves.
ASSUME ClientAssumption == IsFiniteSet(Browser) /\ IsFiniteSet(Handler)

VARIABLES
  born,          \* browsers OnAfterCreated has been called for
  browserCount,  \* browser_count_
  router,        \* is message_router_ not null?
  closing        \* OnBeforeClose is deleting the router and its handlers

clientVars == <<born, browserCount, router, closing>>
allVars    == <<vars, clientVars>>

ClientTypeOK ==
  /\ TypeOK
  /\ born \subseteq Browser
  /\ browserCount \in 0..Cardinality(Browser)
  /\ router \in BOOLEAN /\ closing \in BOOLEAN

ClientInit ==
  /\ Init
  /\ born = {} /\ browserCount = 0 /\ router = FALSE /\ closing = FALSE

\* The UI thread is in no callback of this handler.
UiFree == UiIdle /\ ~closing

----------------------------------------------------------------------------
\* message_handler_set_ is a std::set: one order, the same at every walk.
MessageHandlerSet == SetToSeq(Handler)

\* Mutated form: the count moves only where the router is created.
ClientOnAfterCreatedCountsOnce(b) ==
  /\ UiFree /\ b \notin born
  /\ born' = born \union {b}
  /\ router' = TRUE
  /\ IF router THEN UNCHANGED <<browserCount, handlers>>
               ELSE /\ browserCount' = browserCount + 1
                    /\ handlers' = MessageHandlerSet
  /\ UNCHANGED <<closing, rendererVars, pipeVars, queryIdGen, mapVars, tasks,
                 dispatch, sweep, envVars, ghostVars>>

\* BaseClientHandler::OnAfterCreated.  A later router goes on counting its
\* queries where the one before stopped: the histories need distinct IDs.
ClientOnAfterCreated(b) ==
  /\ UiFree /\ b \notin born
  /\ born' = born \union {b}
  /\ browserCount' = browserCount + 1
  /\ router' = TRUE
  /\ handlers' = IF router THEN handlers ELSE MessageHandlerSet
  /\ UNCHANGED <<closing, rendererVars, pipeVars, queryIdGen, mapVars, tasks,
                 dispatch, sweep, envVars, ghostVars>>

\* BaseClientHandler::OnBeforeClose up to its loop.  The router's own
\* OnBeforeClose is not called.
ClientOnBeforeClose(b) ==
  /\ "close" \in Fault
  /\ UiFree /\ b \in born /\ b \in open
  /\ open' = open \ {b}
  /\ DropPipes(ContextsOf(b))
  /\ browserCount' = browserCount - 1
  /\ closing' = (browserCount = 1)
  /\ UNCHANGED <<born, router, rendererVars, handlers, queryIdGen, mapVars,
                 tasks, dispatch, sweep, leaving, crashed, terminated,
                 ghostVars>>

\* Mutated form: the handlers are deleted without RemoveHandler.
DeleteNextHandlerOnly ==
  /\ closing /\ sweep = {} /\ handlers # <<>>
  /\ handlers' = Tail(handlers)
  /\ UNCHANGED <<clientVars, rendererVars, pipeVars, queryIdGen, mapVars,
                 tasks, dispatch, sweep, envVars, ghostVars>>

\* Mutated form: a handler is kept until its queries have been answered.
DeleteNextHandlerWaits ==
  /\ closing /\ sweep = {} /\ handlers # <<>>
  /\ \A e \in queries : e.handler # Head(handlers)
  /\ RemoveHandler(Head(handlers))
  /\ UNCHANGED clientVars

\* The loop over message_handler_set_: the next one is removed from the router
\* (whose cancellation pass calls its OnQueryCanceled) and deleted.
DeleteNextHandler ==
  /\ closing /\ sweep = {} /\ handlers # <<>>
  /\ RemoveHandler(Head(handlers))
  /\ UNCHANGED clientVars

\* message_router_ = nullptr after the loop.
DropRouter ==
  /\ closing /\ sweep = {} /\ handlers = <<>>
  /\ router' = FALSE /\ closing' = FALSE
  /\ UNCHANGED <<vars, born, browserCount>>

\* The router methods OnBeforeBrowse, OnProcessMessageReceived and
\* OnRenderProcessTerminated forward to, and the handlers' part of them.
ForwardedStep ==
  /\ ~closing
  /\ \/ \E c \in Context : ReceiveQuery(c) \/ ReceiveCancel(c)
     \/ DeclineQuery \/ AcceptQuery
     \/ RunCallbackTask
     \/ \E b \in born : OnBeforeBrowse(b) \/ OnRenderProcessTerminated(b)
  /\ UNCHANGED clientVars

\* A page of a browser exists after OnAfterCreated.
PageStep ==
  /\ RendererStep
  /\ \A c \in Context : ctxState'[c] # "none" => BrowserOf[c] \in born
  /\ UNCHANGED clientVars

ClientNext ==
  \/ \E b \in Browser : ClientOnAfterCreated(b) \/ ClientOnBeforeClose(b)
  \/ DeleteNextHandler \/ DropRouter
  \/ PageStep \/ ForwardedStep
  \/ SweepNext /\ UNCHANGED clientVars
  \/ /\ \E q \in QueryId : ExecuteCallback(q, "success") \/ ExecuteCallback(q, "failure")
     /\ UNCHANGED clientVars
  \/ /\ \E p \in Process : RenderProcessGone(p)
     /\ UNCHANGED clientVars

\* The fairness of MessageRouter for the steps that are left of it, and of
\* the UI thread in OnBeforeClose.
ClientFairness ==
  /\ \A c \in Context :
       /\ WF_allVars(ReceiveAnswer(c) /\ UNCHANGED clientVars)
       /\ WF_allVars(~closing /\ ReceiveQuery(c) /\ UNCHANGED clientVars)
       /\ WF_allVars(~closing /\ ReceiveCancel(c) /\ UNCHANGED clientVars)
       /\ WF_allVars(/\ c \in leaving \/ BrowserOf[c] \notin open
                     /\ OnContextReleased(c) /\ UNCHANGED clientVars)
  /\ WF_allVars((DeclineQuery \/ AcceptQuery) /\ UNCHANGED clientVars)
  /\ WF_allVars(SweepNext /\ UNCHANGED clientVars)
  /\ WF_allVars(~closing /\ RunCallbackTask /\ UNCHANGED clientVars)
  /\ WF_allVars(DeleteNextHandler) /\ WF_allVars(DropRouter)
  /\ \A b \in Browser :
       WF_allVars(~closing /\ OnRenderProcessTerminated(b) /\ UNCHANGED clientVars)
  /\ \A q \in QueryId :
       WF_allVars(/\ calls[q] = 0 /\ \E e \in queries : e.query_id = q
                  /\ \/ ExecuteCallback(q, "success")
                     \/ ExecuteCallback(q, "failure")
                  /\ UNCHANGED clientVars)

ClientSpec     == ClientInit /\ [][ClientNext]_allVars
ClientFairSpec == ClientSpec /\ ClientFairness

----------------------------------------------------------------------------
(* OnBeforeBrowse, OnProcessMessageReceived and OnRenderProcessTerminated use
   message_router_ without a test: while a browser of this handler is open the
   router exists, with every query handler registered, in whatever order
   browsers come and go. *)
RouterServesOpenBrowsers ==
  born \intersect open # {} => router /\ ToSet(handlers) = Handler

(* Once the last browser is closed and the router released, no query refers to
   a deleted handler and no callback to the router: not even one of a browser
   that closed earlier, whose queries OnBeforeClose left pending.
   ~CefMessageRouterBrowserSideImpl and ~CallbackImpl check as much. *)
NothingOutlivesRouter ==
  ~router => queries = {} /\ attached = {} /\ dispatch = {}

(* Closing the last browser always gets to the end: the router is released
   although every removal runs application code for each pending query. *)
RouterIsReleased == closing ~> ~router

============================================================================
