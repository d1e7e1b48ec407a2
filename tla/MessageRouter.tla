--------------------------- MODULE MessageRouter ---------------------------
(***************************************************************************)
(* The CEF message router: window.cefQuery in a page, the renderer-side    *)
(* router of each render process, the per-frame message pipes, and the     *)
(* browser-side router with its handlers, callbacks and posted UI tasks.   *)
(*                                                                         *)
(* Source: libcef_dll/wrapper/cef_message_router.cc and the map it stores  *)
(* its pending queries in, cef_browser_info_map.h.  Payloads are left out: *)
(* no routing decision reads them.  What Chromium does around the router   *)
(* (contexts come and go, pipes deliver in order per frame, processes die) *)
(* is the environment and appears as actions of its own.                   *)
(***************************************************************************)
EXTENDS Naturals, Sequences, FiniteSets, SequencesExt

CONSTANTS Browser,      \* CefBrowser instances
          Process,      \* render processes
          Context,      \* V8 contexts; each lives once, in one frame
          MainFrame,    \* the contexts of main frames
          Handler,      \* Handler objects the application may register
          BrowserOf,    \* the browser a context belongs to
          ProcessOf,    \* the render process a context lives in
          MaxId,        \* numeric_limits<int>::max() of the ID generators
          Fault,        \* environment events this instance includes
          Reentrant,    \* may OnQuery call back into the router?
          MaxQueries,   \* bound: cefQuery calls in a behaviour
          MaxCalls,     \* bound: Success and Failure calls per callback
          MaxTasks      \* bound: CancelPending calls waiting on the UI thread

ASSUME RouterAssumption ==
  /\ BrowserOf \in [Context -> Browser]
  /\ ProcessOf \in [Context -> Process]
  /\ MainFrame \subseteq Context
  /\ MaxId \in Nat \ {0}
  /\ MaxQueries \in Nat
  /\ MaxCalls \in Nat
  /\ MaxTasks \in Nat
  /\ Reentrant \in BOOLEAN
  /\ Fault \subseteq {"navigate", "abort", "close", "crash"}

\* kReservedId: "no ID yet" and, in a cancel message, "every request".
ReservedId == 0

Id      == 1..MaxId
Uid     == 1..MaxQueries   \* ghost identity of one call of cefQuery
QueryId == 1..MaxQueries   \* IDs of the browser-side int64 generator

VARIABLES
  ctxState,      \* "none", "live", "released" or "dead" (process gone)
  ctxId,         \* V8HandlerImpl::context_id_
  contextIdGen,  \* context_id_generator_ of each renderer-side router
  requestIdGen,  \* request_id_generator_ of each renderer-side router
  requests,      \* browser_request_info_map_ of all renderer-side routers
  toBrowser,     \* messages in flight from a frame to the browser process
  toRenderer,    \* messages in flight to a frame
  handlers,      \* handlers_, in calling order
  queryIdGen,    \* query_id_generator_
  queries,       \* browser_query_info_map_
  attached,      \* CallbackImpl objects whose router_ is not null
  tasks,         \* tasks the router posted to the UI thread
  dispatch,      \* the query OnProcessMessageReceived is offering, if any
  sweep,         \* the FindAll cancellation pass in progress, if any
  open,          \* browsers that have not been closed
  leaving,       \* contexts a main-frame navigation is about to replace
  crashed,       \* render processes that are gone
  terminated,    \* browsers owed an OnRenderProcessTerminated call
  issued,        \* ghost: the persistent flag of each cefQuery call so far
  calls,         \* ghost: Callback methods executed, per query_id
  accepted,      \* ghost: query_ids a handler returned true for
  callbacks,     \* ghost: JavaScript callbacks run, per uid
  endings        \* ghost: how a query left the browser map, per query_id

rendererVars == <<ctxState, ctxId, contextIdGen, requestIdGen, requests>>
pipeVars     == <<toBrowser, toRenderer>>
mapVars      == <<queries, attached>>
envVars      == <<open, leaving, crashed, terminated>>
ghostVars    == <<issued, calls, accepted, callbacks, endings>>
vars == <<rendererVars, pipeVars, handlers, queryIdGen, mapVars, tasks,
          dispatch, sweep, envVars, ghostVars>>

(***************************************************************************)
(* Types                                                                   *)
(***************************************************************************)
QueryMsg   == [type: {"query"}, context_id: Id, request_id: Id,
               persistent: BOOLEAN, uid: Uid]
CancelMsg  == [type: {"cancel"}, context_id: Id,
               request_id: Id \union {ReservedId}]
AnswerMsg  == [success: BOOLEAN, context_id: Id, request_id: Id, uid: Uid]

\* RequestInfo with its key; frame and uid are ghosts.
RequestInfo == [process: Process, browser: Browser, context_id: Id,
                request_id: Id, persistent: BOOLEAN, frame: Context,
                uid: Uid]
\* QueryInfo with its key (browser, query_id); uid is a ghost.
QueryInfo == [browser: Browser, frame: Context, context_id: Id,
              request_id: Id, persistent: BOOLEAN, query_id: QueryId,
              handler: Handler, uid: Uid]
Callback  == [query_id: QueryId, persistent: BOOLEAN]
Dispatch  == [frame: Context, context_id: Id, request_id: Id,
              persistent: BOOLEAN, uid: Uid, query_id: QueryId,
              rest: Seq(Handler) \ {<<>>}]
\* Which entries a CancelPendingFor or CancelPendingRequest visitor removes.
Sweep == [browsers: SUBSET Browser, handlers: SUBSET Handler,
          context_ids: SUBSET Id, notify: BOOLEAN]
CallTask   == [kind: {"success", "failure"}, query_id: QueryId]
CancelTask == [kind: {"cancel"}, which: Sweep]

TypeOK ==
  /\ ctxState \in [Context -> {"none", "live", "released", "dead"}]
  /\ ctxId \in [Context -> Id \union {ReservedId}]
  /\ contextIdGen \in [Process -> Id \union {ReservedId}]
  /\ requestIdGen \in [Process -> Id \union {ReservedId}]
  /\ requests \subseteq RequestInfo
  /\ toBrowser \in [Context -> Seq(QueryMsg \union CancelMsg)]
  /\ toRenderer \in [Context -> Seq(AnswerMsg)]
  /\ handlers \in Seq(Handler)
  /\ queryIdGen \in 0..MaxQueries
  /\ queries \subseteq QueryInfo
  /\ attached \subseteq Callback
  /\ tasks \in Seq(CallTask \union CancelTask)
  /\ dispatch \subseteq Dispatch
  /\ sweep \subseteq Sweep
  /\ open \subseteq Browser
  /\ leaving \subseteq Context
  /\ crashed \subseteq Process
  /\ terminated \subseteq Browser
  /\ issued \in Seq(BOOLEAN) /\ Len(issued) <= MaxQueries
  /\ calls \in [QueryId -> 0..MaxCalls]
  /\ accepted \subseteq QueryId
  /\ callbacks \in [Uid -> Seq({"success", "failure"})]
  /\ endings \in [QueryId -> Seq({"success", "failure", "canceled"})]

----------------------------------------------------------------------------
(***************************************************************************)
(* Helpers                                                                 *)
(***************************************************************************)

\* Mutated forms: post-increment, and a counter that is never stored.
GetNextIdPostIncrement(last) == last
GetNextIdStuck(last) == ReservedId + 1

\* IdGenerator::GetNextId, which starts over after the largest value.
GetNextId(last) == IF last = MaxId THEN ReservedId + 1 ELSE last + 1

\* A callback into the application runs inside a UI-thread handler; nothing
\* else runs on that thread until the handler returns.
UiIdle == dispatch = {} /\ sweep = {}

\* Where the application may call a router method on the UI thread.
MayCallRouter == sweep = {} /\ (dispatch = {} \/ Reentrant)

ContextsOf(b) == {c \in Context : BrowserOf[c] = b}

\* frame->SendProcessMessage: lost once the browser is gone or, towards the
\* page, once the render process is gone.
SendToBrowser(c, m) ==
  toBrowser' = IF BrowserOf[c] \in open
                 THEN [toBrowser EXCEPT ![c] = Append(@, m)] ELSE toBrowser

\* The answer to a query, described by a record with the renderer-side IDs.
Answer(q, success) ==
  toRenderer' =
    IF BrowserOf[q.frame] \in open /\ ctxState[q.frame] # "dead"
      THEN [toRenderer EXCEPT ![q.frame] =
              Append(@, [success |-> success, context_id |-> q.context_id,
                         request_id |-> q.request_id, uid |-> q.uid])]
      ELSE toRenderer

\* CefBrowserInfoMap::Add with a (process, browser, context, request) key:
\* std::map::insert keeps the entry that is already there.
SameRequest(r, s) ==
  /\ r.process = s.process /\ r.browser = s.browser
  /\ r.context_id = s.context_id /\ r.request_id = s.request_id
AddRequest(map, info) ==
  IF \E r \in map : SameRequest(r, info) THEN map ELSE map \union {info}

\* CefBrowserInfoMap::Find in the renderer-side map, as a set of at most one.
FindRequest(c, context_id, request_id) ==
  {r \in requests : /\ r.process = ProcessOf[c] /\ r.browser = BrowserOf[c]
                    /\ r.context_id = context_id
                    /\ r.request_id = request_id}

\* Mutated forms: the handler test inverted, and the FindAll of all browsers
\* where the one of a single browser is meant.
MatchesOtherHandlers(e, s) ==
  /\ e.browser \in s.browsers /\ e.handler \notin s.handlers
  /\ e.context_id \in s.context_ids
MatchesAnyBrowser(e, s) ==
  e.handler \in s.handlers /\ e.context_id \in s.context_ids

Matches(e, s) == /\ e.browser \in s.browsers /\ e.handler \in s.handlers
                 /\ e.context_id \in s.context_ids

\* FindAll visits the entries of a browser in query_id order.
FirstOf(E) == {e \in E : \A f \in E : f.browser = e.browser
                                        => e.query_id <= f.query_id}

\* The cancellation pass over the entries selected by s.  It holds the UI
\* thread until the last of them has been visited.
StartSweep(s) == sweep' = IF \E e \in queries : Matches(e, s) THEN {s} ELSE {}

\* Mutated forms: without Callback::Detach, and without *remove = true.
CancelQueryNoDetach(e, notify) ==
  /\ IF notify THEN Answer(e, FALSE) ELSE UNCHANGED toRenderer
  /\ queries' = queries \ {e}
  /\ endings' = [endings EXCEPT ![e.query_id] = Append(@, "canceled")]
  /\ UNCHANGED attached
CancelQueryKeepsEntry(e, notify) ==
  /\ IF notify THEN Answer(e, FALSE) ELSE UNCHANGED toRenderer
  /\ attached' = {a \in attached : a.query_id # e.query_id}
  /\ endings' = [endings EXCEPT ![e.query_id] = Append(@, "canceled")]
  /\ UNCHANGED queries

\* CancelQuery and the removal by the visitor that called it.
CancelQuery(e, notify) ==
  /\ IF notify THEN Answer(e, FALSE) ELSE UNCHANGED toRenderer
  /\ queries' = queries \ {e}
  /\ attached' = {a \in attached : a.query_id # e.query_id}
  /\ endings' = [endings EXCEPT ![e.query_id] = Append(@, "canceled")]

\* Mutated form: notify_renderer is ignored.
PendingForSilent(bs, hs, notify) ==
  [browsers |-> bs, handlers |-> hs, context_ids |-> Id, notify |-> FALSE]

\* The selection CancelPendingFor(browser, handler, notify_renderer) builds;
\* NULL arguments are the full sets.
PendingFor(bs, hs, notify) ==
  [browsers |-> bs, handlers |-> hs, context_ids |-> Id, notify |-> notify]

----------------------------------------------------------------------------
(***************************************************************************)
(* Renderer side                                                           *)
(***************************************************************************)

Init ==
  /\ ctxState = [c \in Context |-> "none"]
  /\ ctxId = [c \in Context |-> ReservedId]
  /\ contextIdGen = [p \in Process |-> ReservedId]
  /\ requestIdGen = [p \in Process |-> ReservedId]
  /\ requests = {}
  /\ toBrowser = [c \in Context |-> <<>>]
  /\ toRenderer = [c \in Context |-> <<>>]
  /\ handlers = <<>>
  /\ queryIdGen = 0
  /\ queries = {} /\ attached = {} /\ tasks = <<>>
  /\ dispatch = {} /\ sweep = {}
  /\ open = Browser /\ leaving = {} /\ crashed = {} /\ terminated = {}
  /\ issued = <<>>
  /\ calls = [q \in QueryId |-> 0]
  /\ accepted = {}
  /\ callbacks = [u \in Uid |-> <<>>]
  /\ endings = [q \in QueryId |-> <<>>]

\* OnContextCreated binds the two functions to the window object.  Main-frame
\* contexts of one browser follow each other.
OnContextCreated(c) ==
  /\ ctxState[c] = "none"
  /\ BrowserOf[c] \in open /\ ProcessOf[c] \notin crashed
  /\ c \in MainFrame =>
       \A d \in MainFrame \intersect ContextsOf(BrowserOf[c]) :
         ctxState[d] # "live"
  /\ ctxState' = [ctxState EXCEPT ![c] = "live"]
  /\ UNCHANGED <<ctxId, contextIdGen, requestIdGen, requests, pipeVars,
                 handlers, queryIdGen, mapVars, tasks, dispatch, sweep,
                 envVars, ghostVars>>

\* V8HandlerImpl::GetIDForContext: the context ID is created on first use.
ContextId(c) == IF ctxId[c] = ReservedId
                  THEN GetNextId(contextIdGen[ProcessOf[c]]) ELSE ctxId[c]
EnsureContextId(c) ==
  /\ ctxId' = [ctxId EXCEPT ![c] = ContextId(c)]
  /\ contextIdGen' =
       IF ctxId[c] = ReservedId
         THEN [contextIdGen EXCEPT ![ProcessOf[c]] = GetNextId(@)]
         ELSE contextIdGen

\* window.cefQuery({...}) in context c.
SendQuery(c, persistent) ==
  LET p    == ProcessOf[c]
      rid  == GetNextId(requestIdGen[p])
      info == [process |-> p, browser |-> BrowserOf[c],
               context_id |-> ContextId(c), request_id |-> rid,
               persistent |-> persistent, frame |-> c, uid |-> Len(issued) + 1]
  IN  /\ ctxState[c] = "live"
      /\ Len(issued) < MaxQueries
      /\ EnsureContextId(c)
      /\ requestIdGen' = [requestIdGen EXCEPT ![p] = rid]
      /\ requests' = AddRequest(requests, info)
      /\ SendToBrowser(c, [type |-> "query", context_id |-> ContextId(c),
                           request_id |-> rid, persistent |-> persistent,
                           uid |-> Len(issued) + 1])
      /\ issued' = Append(issued, persistent)
      /\ UNCHANGED <<ctxState, toRenderer, handlers, queryIdGen, mapVars,
                     tasks, dispatch, sweep, envVars, calls, accepted,
                     callbacks, endings>>

\* window.cefQueryCancel(rid) in context c, with any number the page likes.
SendCancel(c, rid) ==
  LET found == FindRequest(c, ContextId(c), rid)
  IN  /\ ctxState[c] = "live"
      /\ EnsureContextId(c)
      /\ requests' = requests \ found
      /\ IF found # {}
           THEN SendToBrowser(c, [type |-> "cancel",
                                  context_id |-> ContextId(c),
                                  request_id |-> rid])
           ELSE UNCHANGED toBrowser
      /\ UNCHANGED <<ctxState, requestIdGen, toRenderer, handlers, queryIdGen,
                     mapVars, tasks, dispatch, sweep, envVars, ghostVars>>

\* OnContextReleased: the context leaves context_map_ and everything it still
\* waits for is canceled with one message, sent only if there was something.
OnContextReleased(c) ==
  LET gone == {r \in requests : /\ r.process = ProcessOf[c]
                                /\ r.browser = BrowserOf[c]
                                /\ r.context_id = ctxId[c]}
  IN  /\ ctxState[c] = "live"
      /\ ctxState' = [ctxState EXCEPT ![c] = "released"]
      /\ requests' = requests \ gone
      /\ leaving' = leaving \ {c}
      /\ IF gone # {}
           THEN SendToBrowser(c, [type |-> "cancel", context_id |-> ctxId[c],
                                  request_id |-> ReservedId])
           ELSE UNCHANGED toBrowser
      /\ UNCHANGED <<ctxId, contextIdGen, requestIdGen, toRenderer, handlers,
                     queryIdGen, mapVars, tasks, dispatch, sweep, open,
                     crashed, terminated, ghostVars>>

\* GetContextByID finds the context of this process with that ID, if live.
HasContext(p, context_id) ==
  \E d \in Context : /\ ProcessOf[d] = p /\ ctxState[d] = "live"
                     /\ ctxId[d] = context_id

\* Mutated form: always_remove is ignored.
RemovesRequestIfOneShot(success, r) == ~r.persistent

\* The decision of GetRequestInfo's visitor: always_remove is set for failures.
RemovesRequest(success, r) == ~success \/ ~r.persistent

\* The renderer-side OnProcessMessageReceived: ExecuteSuccessCallback and
\* ExecuteFailureCallback.  The page registered both functions.
ReceiveAnswer(c) ==
  LET m     == Head(toRenderer[c])
      found == FindRequest(c, m.context_id, m.request_id)
  IN  /\ toRenderer[c] # <<>>
      /\ ProcessOf[c] \notin crashed
      /\ toRenderer' = [toRenderer EXCEPT ![c] = Tail(@)]
      /\ requests' =
           {r \in requests : r \in found => ~RemovesRequest(m.success, r)}
      /\ callbacks' =
           [u \in Uid |->
              IF /\ \E r \in found : r.uid = u
                 /\ HasContext(ProcessOf[c], m.context_id)
                THEN Append(callbacks[u],
                            IF m.success THEN "success" ELSE "failure")
                ELSE callbacks[u]]
      /\ UNCHANGED <<ctxState, ctxId, contextIdGen, requestIdGen, toBrowser,
                     handlers, queryIdGen, mapVars, tasks, dispatch, sweep,
                     envVars, issued, calls, accepted, endings>>

----------------------------------------------------------------------------
(***************************************************************************)
(* Browser side, UI thread                                                 *)
(***************************************************************************)

NextMsg(c, type) == /\ BrowserOf[c] \in open
                    /\ toBrowser[c] # <<>>
                    /\ Head(toBrowser[c]).type = type
Consume(c) == toBrowser' = [toBrowser EXCEPT ![c] = Tail(@)]

\* OnProcessMessageReceived, a query, up to the copy of the handler list: with
\* no handler the query is canceled at once.
ReceiveQuery(c) ==
  LET m   == Head(toBrowser[c])
      qid == queryIdGen + 1
  IN  /\ UiIdle /\ NextMsg(c, "query")
      /\ queryIdGen < MaxQueries   \* bound; every query arrives once
      /\ Consume(c)
      /\ IF handlers = <<>>
           THEN /\ Answer([frame |-> c, context_id |-> m.context_id,
                           request_id |-> m.request_id, uid |-> m.uid], FALSE)
                /\ UNCHANGED <<queryIdGen, attached, dispatch>>
           ELSE /\ queryIdGen' = qid
                /\ attached' = attached \union
                     {[query_id |-> qid, persistent |-> m.persistent]}
                /\ dispatch' = {[frame |-> c, context_id |-> m.context_id,
                                 request_id |-> m.request_id,
                                 persistent |-> m.persistent, uid |-> m.uid,
                                 query_id |-> qid, rest |-> handlers]}
                /\ UNCHANGED toRenderer
      /\ UNCHANGED <<rendererVars, handlers, queries, tasks, sweep, envVars,
                     ghostVars>>

\* OnQuery returns false.  After the last handler the callback is detached and
\* the query canceled.  A handler that kept the callback may not decline
\* (DCHECK on HasOneRef).
DeclineQuery ==
  \E d \in dispatch :
    /\ sweep = {}
    /\ calls[d.query_id] = 0
    /\ IF Len(d.rest) > 1
         THEN /\ dispatch' = {[d EXCEPT !.rest = Tail(@)]}
              /\ UNCHANGED <<attached, toRenderer>>
         ELSE /\ dispatch' = {}
              /\ attached' = {a \in attached : a.query_id # d.query_id}
              /\ Answer(d, FALSE)
    /\ UNCHANGED <<rendererVars, toBrowser, handlers, queryIdGen, queries,
                   tasks, sweep, envVars, ghostVars>>

\* OnQuery returns true: the query is stored until its callback executes.
AcceptQuery ==
  \E d \in dispatch :
    /\ sweep = {}
    /\ dispatch' = {}
    /\ queries' = queries \union
         {[browser |-> BrowserOf[d.frame], frame |-> d.frame,
           context_id |-> d.context_id, request_id |-> d.request_id,
           persistent |-> d.persistent, query_id |-> d.query_id,
           handler |-> Head(d.rest), uid |-> d.uid]}
    /\ accepted' = accepted \union {d.query_id}
    /\ UNCHANGED <<rendererVars, pipeVars, handlers, queryIdGen, attached,
                   tasks, sweep, envVars, issued, calls, callbacks, endings>>

\* OnProcessMessageReceived, a cancellation: CancelPendingRequest removes the
\* first entry with these renderer-side IDs, or all of the context.
ReceiveCancel(c) ==
  LET m   == Head(toBrowser[c])
      hit == {e \in queries : /\ e.browser = BrowserOf[c]
                              /\ e.context_id = m.context_id
                              /\ e.request_id = m.request_id}
  IN  /\ UiIdle /\ NextMsg(c, "cancel")
      /\ Consume(c)
      /\ IF m.request_id = ReservedId
           THEN /\ StartSweep([browsers |-> {BrowserOf[c]},
                               handlers |-> Handler,
                               context_ids |-> {m.context_id},
                               notify |-> FALSE])
                /\ UNCHANGED <<toRenderer, mapVars, endings>>
           ELSE /\ \/ hit = {} /\ UNCHANGED <<toRenderer, mapVars, endings>>
                   \/ \E e \in FirstOf(hit) : CancelQuery(e, FALSE)
                /\ UNCHANGED sweep
      /\ UNCHANGED <<rendererVars, handlers, queryIdGen, tasks, dispatch,
                     envVars, issued, calls, accepted, callbacks>>

\* Mutated form: the visitor returns false and the pass stops at one entry.
SweepNextStops ==
  \E s \in sweep :
    /\ \E e \in FirstOf({f \in queries : Matches(f, s)}) : CancelQuery(e, s.notify)
    /\ sweep' = {}
    /\ UNCHANGED <<rendererVars, toBrowser, handlers, queryIdGen, tasks,
                   dispatch, envVars, issued, calls, accepted, callbacks>>

\* One visit of the FindAll pass: CancelQuery, the removal, the next entry.
SweepNext ==
  \E s \in sweep :
    LET hit == {e \in queries : Matches(e, s)}
    IN  /\ \E e \in FirstOf(hit) :
             /\ CancelQuery(e, s.notify)
             /\ sweep' = IF hit = {e} THEN {} ELSE {s}
        /\ UNCHANGED <<rendererVars, toBrowser, handlers, queryIdGen, tasks,
                       dispatch, envVars, issued, calls, accepted, callbacks>>

\* Callback::Success and Callback::Failure, on any thread, by the handler that
\* was given the callback.  They only post a task, so they may come during
\* OnQuery, twice, or after the query was canceled.
ExecuteCallback(q, kind) ==
  /\ q \in accepted \/ \E d \in dispatch : d.query_id = q /\ sweep = {}
  /\ calls[q] < MaxCalls
  /\ calls' = [calls EXCEPT ![q] = @ + 1]
  /\ tasks' = Append(tasks, [kind |-> kind, query_id |-> q])
  /\ UNCHANGED <<rendererVars, pipeVars, handlers, queryIdGen, mapVars,
                 dispatch, sweep, envVars, issued, accepted, callbacks, endings>>

\* The decision of GetQueryInfo's visitor: always_remove is set for failures.
RemovesQuery(kind, e) == kind = "failure" \/ ~e.persistent

\* SuccessImpl and FailureImpl with OnCallbackSuccess and OnCallbackFailure:
\* nothing once the callback is detached; a persistent query stays after a
\* success.
RunCallbackTask ==
  LET t    == Head(tasks)
      hit  == {a \in attached : a.query_id = t.query_id}
      info == {e \in queries : e.query_id = t.query_id}
      over == {e \in info : RemovesQuery(t.kind, e)}
  IN  /\ UiIdle /\ tasks # <<>> /\ t.kind \in {"success", "failure"}
      /\ tasks' = Tail(tasks)
      /\ IF hit = {}
           THEN UNCHANGED <<toRenderer, mapVars, endings>>
           ELSE /\ \/ info = {} /\ UNCHANGED toRenderer
                   \/ \E e \in info : Answer(e, t.kind = "success")
                /\ queries' = queries \ over
                /\ attached' = {a \in attached : a \in hit =>
                                  (t.kind = "success" /\ a.persistent)}
                /\ endings' = IF over # {}
                                THEN [endings EXCEPT ![t.query_id] =
                                        Append(@, t.kind)]
                                ELSE endings
      /\ UNCHANGED <<rendererVars, toBrowser, handlers, queryIdGen, dispatch,
                     sweep, envVars, issued, calls, accepted, callbacks>>

\* CancelPending on the UI thread, and on another thread, where it posts
\* itself.  The NULL arguments are the full sets.
CancelPending(bs, hs) ==
  /\ MayCallRouter
  /\ StartSweep(PendingFor(bs, hs, TRUE))
  /\ UNCHANGED <<rendererVars, pipeVars, handlers, queryIdGen, mapVars, tasks,
                 dispatch, envVars, ghostVars>>

PostCancelPending(bs, hs) ==
  /\ Len(SelectSeq(tasks, LAMBDA t : t.kind = "cancel")) < MaxTasks
  /\ tasks' = Append(tasks, [kind |-> "cancel",
                             which |-> PendingFor(bs, hs, TRUE)])
  /\ UNCHANGED <<rendererVars, pipeVars, handlers, queryIdGen, mapVars,
                 dispatch, sweep, envVars, ghostVars>>

RunCancelTask ==
  /\ UiIdle /\ tasks # <<>> /\ Head(tasks).kind = "cancel"
  /\ tasks' = Tail(tasks)
  /\ StartSweep(Head(tasks).which)
  /\ UNCHANGED <<rendererVars, pipeVars, handlers, queryIdGen, mapVars,
                 dispatch, envVars, ghostVars>>

\* AddHandler and RemoveHandler; a handler is registered at most once, and
\* removing it cancels what it still has pending.
AddHandler(h, first) ==
  /\ MayCallRouter
  /\ h \notin ToSet(handlers)
  /\ handlers' = IF first THEN <<h>> \o handlers ELSE Append(handlers, h)
  /\ UNCHANGED <<rendererVars, pipeVars, queryIdGen, mapVars, tasks, dispatch,
                 sweep, envVars, ghostVars>>

RemoveHandler(h) ==
  /\ MayCallRouter
  /\ \E i \in DOMAIN handlers : handlers[i] = h /\ handlers' = RemoveAt(handlers, i)
  /\ StartSweep(PendingFor(Browser, {h}, TRUE))
  /\ UNCHANGED <<rendererVars, pipeVars, queryIdGen, mapVars, tasks, dispatch,
                 envVars, ghostVars>>

----------------------------------------------------------------------------
(***************************************************************************)
(* Browser events and the environment                                      *)
(***************************************************************************)

\* OnBeforeBrowse for a main frame: everything pending for the browser is
\* dropped without telling the page, whose contexts are about to go.
OnBeforeBrowse(b) ==
  /\ "navigate" \in Fault
  /\ UiIdle /\ b \in open
  /\ \E c \in ContextsOf(b) : ctxState[c] = "live" /\ c \notin leaving
  /\ leaving' = leaving \union {c \in ContextsOf(b) : ctxState[c] = "live"}
  /\ StartSweep(PendingFor({b}, Handler, FALSE))
  /\ UNCHANGED <<rendererVars, pipeVars, handlers, queryIdGen, mapVars, tasks,
                 dispatch, open, crashed, terminated, ghostVars>>

\* The navigation turns out not to replace the document (a download, a 204).
NavigationAborted(b) ==
  /\ "abort" \in Fault
  /\ leaving \intersect ContextsOf(b) # {}
  /\ leaving' = leaving \ ContextsOf(b)
  /\ UNCHANGED <<rendererVars, pipeVars, handlers, queryIdGen, mapVars, tasks,
                 dispatch, sweep, open, crashed, terminated, ghostVars>>

DropPipes(cs) ==
  /\ toBrowser' = [c \in Context |-> IF c \in cs THEN <<>> ELSE toBrowser[c]]
  /\ toRenderer' = [c \in Context |-> IF c \in cs THEN <<>> ELSE toRenderer[c]]

\* OnBeforeClose: the last call for this browser; its frames are gone.
OnBeforeClose(b) ==
  /\ "close" \in Fault
  /\ UiIdle /\ b \in open
  /\ open' = open \ {b}
  /\ DropPipes(ContextsOf(b))
  /\ StartSweep(PendingFor({b}, Handler, FALSE))
  /\ UNCHANGED <<rendererVars, handlers, queryIdGen, mapVars, tasks, dispatch,
                 leaving, crashed, terminated, ghostVars>>

\* A render process dies: no OnContextReleased, no further message; what it
\* had already sent may still arrive until the browser learns of it.
RenderProcessGone(p) ==
  LET cs == {c \in Context : ProcessOf[c] = p /\ ctxState[c] = "live"}
  IN  /\ "crash" \in Fault
      /\ p \notin crashed
      /\ cs # {}
      /\ crashed' = crashed \union {p}
      /\ ctxState' = [c \in Context |-> IF c \in cs THEN "dead" ELSE ctxState[c]]
      /\ requests' = {r \in requests : r.process # p}
      /\ leaving' = leaving \ cs
      /\ terminated' = terminated \union
                         {b \in open : \E c \in cs : BrowserOf[c] = b}
      /\ UNCHANGED <<ctxId, contextIdGen, requestIdGen, pipeVars, handlers,
                     queryIdGen, mapVars, tasks, dispatch, sweep, open,
                     ghostVars>>

OnRenderProcessTerminated(b) ==
  /\ UiIdle /\ b \in terminated /\ b \in open
  /\ terminated' = terminated \ {b}
  /\ DropPipes({c \in ContextsOf(b) : ProcessOf[c] \in crashed})
  /\ StartSweep(PendingFor({b}, Handler, FALSE))
  /\ UNCHANGED <<rendererVars, handlers, queryIdGen, mapVars, tasks, dispatch,
                 open, leaving, crashed, ghostVars>>

----------------------------------------------------------------------------
\* The arguments of CancelPending: one browser or all, one handler or all.
OneOrAll(S) == {{x} : x \in S} \union {S}

RendererStep ==
  \E c \in Context :
    \/ OnContextCreated(c)
    \/ \E persistent \in BOOLEAN : SendQuery(c, persistent)
    \/ \E rid \in Id : SendCancel(c, rid)
    \/ OnContextReleased(c)
    \/ ReceiveAnswer(c)

BrowserStep ==
  \/ \E c \in Context : ReceiveQuery(c) \/ ReceiveCancel(c)
  \/ DeclineQuery \/ AcceptQuery \/ SweepNext
  \/ RunCallbackTask \/ RunCancelTask
  \/ \E b \in Browser : \/ OnBeforeBrowse(b) \/ OnBeforeClose(b)
                        \/ OnRenderProcessTerminated(b)

ApplicationStep ==
  \/ \E q \in QueryId : ExecuteCallback(q, "success") \/ ExecuteCallback(q, "failure")
  \/ \E bs \in OneOrAll(Browser), hs \in OneOrAll(Handler) :
       CancelPending(bs, hs) \/ PostCancelPending(bs, hs)
  \/ \E h \in Handler : \/ \E first \in BOOLEAN : AddHandler(h, first)
                        \/ RemoveHandler(h)

EnvironmentStep ==
  \/ \E b \in Browser : NavigationAborted(b)
  \/ \E p \in Process : RenderProcessGone(p)

Next == RendererStep \/ BrowserStep \/ ApplicationStep \/ EnvironmentStep

Spec == Init /\ [][Next]_vars

(***************************************************************************)
(* Fairness.  Both processes keep serving their task queues and pipes; a   *)
(* page that is being replaced or whose browser is gone is torn down; and, *)
(* as Handler::OnQuery demands, a handler that returned true executes the  *)
(* callback at some point.                                                 *)
(***************************************************************************)
Fairness ==
  /\ \A c \in Context :
       /\ WF_vars(ReceiveAnswer(c))
       /\ WF_vars(ReceiveQuery(c)) /\ WF_vars(ReceiveCancel(c))
       /\ WF_vars(/\ c \in leaving \/ BrowserOf[c] \notin open
                  /\ OnContextReleased(c))
  /\ WF_vars(DeclineQuery \/ AcceptQuery)
  /\ WF_vars(SweepNext)
  /\ WF_vars(RunCallbackTask) /\ WF_vars(RunCancelTask)
  /\ \A b \in Browser : WF_vars(OnRenderProcessTerminated(b))
  /\ \A q \in QueryId :
       WF_vars(/\ calls[q] = 0 /\ \E e \in queries : e.query_id = q
               /\ \/ ExecuteCallback(q, "success")
                  \/ ExecuteCallback(q, "failure"))

FairSpec == Spec /\ Fairness

----------------------------------------------------------------------------
(***************************************************************************)
(* Properties                                                              *)
(***************************************************************************)

(* A callback still points at the router exactly while its query is being
   offered or is in browser_query_info_map_.  ~CallbackImpl and
   ~CefMessageRouterBrowserSideImpl check the two halves at destruction; every
   path that removes an entry must also detach, and none may detach earlier. *)
CallbackAttachedWhilePending ==
  {a.query_id : a \in attached}
    = {e.query_id : e \in queries} \union {d.query_id : d \in dispatch}

(* A query a handler accepted leaves the map once and in one way: its callback
   completed it, or it was canceled and OnQueryCanceled was called.  Tasks
   posted before a cancellation, double calls and crossing cancel messages
   must not end it again. *)
QueryEndsOnce ==
  \A q \in QueryId :
    Len(endings[q]) =
      IF q \in accepted /\ \A e \in queries : e.query_id # q THEN 1 ELSE 0

(* What carries the outcome of request r: the message that asks for it, the
   dispatch of it, its entry in the browser's map, or its last answer. *)
Carriers(r) ==
  LET c == r.frame
  IN  {<<"asked", i>> : i \in {j \in DOMAIN toBrowser[c] :
         toBrowser[c][j].type = "query" /\ toBrowser[c][j].uid = r.uid}}
      \union {<<"offered", d.query_id>> : d \in {x \in dispatch : x.uid = r.uid}}
      \union {<<"pending", e.query_id>> : e \in {x \in queries : x.uid = r.uid}}
      \union {<<"answered", i>> : i \in {j \in DOMAIN toRenderer[c] :
         /\ toRenderer[c][j].uid = r.uid
         /\ toRenderer[c][j].success => ~r.persistent}}

(* A request of a page that stays has exactly one of them: it is neither
   forgotten on the browser side while the page waits, nor answered twice. *)
EveryRequestIsCarriedOnce ==
  \A r \in requests :
    (/\ r.browser \in open /\ r.frame \notin leaving)
      => Cardinality(Carriers(r)) = 1

(* The browser side keeps no query the page gave up: its request is still
   registered, or what removes the entry is on its way. *)
NoForgottenQuery ==
  \A e \in queries :
    \/ \E r \in requests : r.uid = e.uid
    \/ \E s \in sweep : Matches(e, s)
    \/ e.browser \in terminated
    \/ \E i \in DOMAIN toBrowser[e.frame] :
         LET m == toBrowser[e.frame][i]
         IN  /\ m.type = "cancel" /\ m.context_id = e.context_id
             /\ m.request_id \in {ReservedId, e.request_id}

(* An answer that finds a registered request was given to that very call of
   cefQuery: IDs in the message never select another one. *)
AnswerReachesItsRequest ==
  \A c \in Context : \A i \in DOMAIN toRenderer[c] :
    \A r \in FindRequest(c, toRenderer[c][i].context_id,
                         toRenderer[c][i].request_id) :
      r.uid = toRenderer[c][i].uid

(* RemoveHandler cancels the handler's pending queries, so no entry refers to
   a handler that is no longer registered (it may have been deleted). *)
PendingHandlersRegistered ==
  \A e \in queries : \/ e.handler \in ToSet(handlers)
                     \/ \E s \in sweep : Matches(e, s)

\* A call of cefQuery as the page sees it: in the renderer-side map or not.
PhaseOf(u) ==
  IF u \notin DOMAIN issued THEN "unused"
  ELSE IF \E r \in requests : r.uid = u
         THEN IF issued[u] THEN "persistent" ELSE "oneshot"
         ELSE "over"

Lifecycle == INSTANCE QueryLifecycle
  WITH Call <- Uid, phase <- [u \in Uid |-> PhaseOf(u)], heard <- callbacks

(* The two routers and the pipes between them implement the life cycle the
   header documents: a one-shot registration runs a single callback, a
   persistent one none after onFailure, and none of them any after it was
   canceled or its context went, whatever is still in flight. *)
ImplementsLifecycle == Lifecycle!Spec

(* A non-persistent request does not stay registered for ever: it is answered,
   canceled, or its context goes. *)
EveryOneShotRequestSettles ==
  \A u \in Uid :
    (\E r \in requests : r.uid = u /\ ~r.persistent)
      ~> (\A r \in requests : r.uid # u)

============================================================================
