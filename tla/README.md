# TLA+ models of the edura wrapper library

edura is a kiosk browser built on the binary distribution of CEF: Chromium
itself is a closed library, and what the repository holds is the C++ wrapper
around it (`libcef_dll/`), the sample applications the kiosk grew out of
(`tests/cefclient`, `tests/cefsimple`) and their shared code. Within that, the
logic with real protocols in it is the **message router**, which lets JavaScript
query the browser process, the **resource manager**, which answers network
requests from a list of providers, and the **root window manager** with its
windows, which decides when the program ends. They are modelled here, together
with the client handler that owns a router, the callback list, the external
message pump and the image cache. All are model-checked with TLC, and their safety
properties are proved with TLAPS for every value of the constants (section 5).

## 1. Inventory

| Component | State | Operations | Hard behaviour | Correct when |
|---|---|---|---|---|
| Message router (`cef_message_router.cc`, `cef_browser_info_map.h`) | per render process: context and request IDs, map of pending requests; browser process: handlers, query IDs, map of pending queries, attached callbacks | `cefQuery`, `cefQueryCancel`, `OnContextCreated/Released`, `OnProcessMessageReceived` on both sides, `Success`, `Failure`, `CancelPending`, `Add/RemoveHandler`, `OnBeforeBrowse`, `OnBeforeClose`, `OnRenderProcessTerminated` | two processes, messages that cross, callbacks posted from any thread, handlers that call back, navigation, crash, close, IDs that wrap | every query ends once, on both sides, and no call of `cefQuery` waits for ever or is answered twice |
| Resource manager (`cef_resource_manager.cc`) | provider list, pending requests per provider, who holds each request's state, stored handlers, archive loads | `OnBeforeResourceLoad`, `GetResourceHandler`, `Continue`, `Stop`, `AddProvider`, `RemoveProviders`, `RemoveAllProviders`, destructor, the `OnRequest` of three providers | IO and FILE threads, late and double answers, list changes under requests that keep iterators into it, manager destroyed with tasks in flight | every held request is resumed once, on a valid entry, having met the providers in order |
| Client handlers (`base_client_handler.cc`, `client_handler*.cc`) | browser count, the router and its handlers | the CEF callbacks forwarded to the router; notifications posted to the window | browsers opening and closing while messages arrive; the router goes with the last browser | no query outlives the router, no call meets a missing router |
| Root window manager (`root_window_manager.cc`) | root windows, other browsers and their openers, active window | created/destroyed/activated, abort or close popup, close all, cleanup | every call may come on either of two threads and is posted to the other | the program ends when, and only when, everything is closed |
| Root and browser windows (`root_window_*.cc`, `browser_window*.cc`) | window and browser created/destroyed flags | create, close handshake, destroy | two destruction events in either order, close vetoed by the page | a window is freed once, after both |
| Kiosk application (`tests/cefsimple`) | browser list, closing flag | create, popup, close, key events, `CloseAllBrowsers` | close sequence that may be cancelled | quits when the last browser goes |
| External pump (`main_message_loop_external_pump*.cc`) | active and re-entered flags, timer, posted work | schedule work, timer, do work | re-entrant `CefDoMessageLoopWork`, timer against posted requests | requested work is always followed by a run |
| Message loops, main context | posted tasks, message window, shutdown flags | run, quit, post | tasks posted before the window exists or after it is gone | tasks run in order, none is lost |
| Image cache (`image_cache.cc`) | map of images | load, get | overlapping loads over two threads, forced reload | every load is answered once, with images made for it, and what the windows share does not change |
| Callback list (`cef_callback_list.h`) | list of callbacks, null callbacks, iterators on the stack | add, cancel, notify | callbacks that add, cancel and notify from inside a notification | every iterator stays valid and no callback is skipped |
| Base library (`include/base`, `libcef_dll/base`) | counts, flags | references, weak pointers, locks | threads | no use after invalidation |
| Streams, archive, XML wrappers | cursors over buffers | read, seek, parse | bounds | conversions are exact |
| Views UI, OSR, bindings, samples, tests, packaging | layout, device state, generated code | | pure I/O or no protocol | |

How they interact: the client handlers receive CEF's callbacks and call the
router and the resource manager; the router and its twin in the render process
exchange messages through the frame's pipe; the router calls handlers, and
handlers call the router and their callbacks; the resource manager calls
providers, and providers answer through `Request`, from the IO thread, the FILE
thread or any other; the client handlers and windows report to the root window
manager, which ends the message loop.

## 2. Plan

In this order: `QueryLifecycle` and `MessageRouter`; `ResourceLoad` and
`ResourceManager`; `ClientHandler`, composed with the router; `RootWindowManager`
with the message loop of the main thread; `CallbackList`, `ExternalPump` and
`ImageCache`, composed in `MCParts`; proofs about the router, the client handler,
the pump and the image cache; proofs about the resource manager, the callback
list and the windows; the two refinements; where the calls of cefQuery are.

Two things would go further than this. `BrowserInfoMap` on its own: `FindAll` with
its live iterators and visitors whose `OnQueryCanceled` calls the router again,
against the atomic removal used in `MessageRouter`. And `WeakPtr` of the base
library, which the models take as given.

## 3. Modules

### MessageRouter, QueryLifecycle

`MessageRouter` is both sides of the router with the pipes between them.

* Render process: `ctxState`, `ctxId` and the two generators are
  `context_map_`, `V8HandlerImpl::context_id_` and the `IdGenerator` members of
  each process; `requests` is the union of the `browser_request_info_map_` of
  all processes. Actions: `OnContextCreated`, `SendQuery`, `SendCancel`,
  `OnContextReleased`, `ReceiveAnswer` (`ExecuteSuccessCallback` and
  `ExecuteFailureCallback`).
* Pipes: `toBrowser` and `toRenderer`, one FIFO per frame and direction.
* Browser process: `handlers`, `queryIdGen`, `queries`
  (`browser_query_info_map_`), `attached` (callbacks whose `router_` is set) and
  `tasks` (what `CefPostTask(TID_UI, ...)` holds). `OnProcessMessageReceived`
  calls the application, so it is split where control leaves the router:
  `ReceiveQuery` copies the handler list into `dispatch`, and each `OnQuery`
  returns by `DeclineQuery` or `AcceptQuery`. The cancellation pass of
  `CancelPendingFor` and `CancelPendingRequest` calls `OnQueryCanceled` for each
  entry, so it is `StartSweep` and one `SweepNext` per entry. While `dispatch` or
  `sweep` is not empty the UI thread runs nothing else; other threads and the
  render processes go on.
* Environment: `NavigationAborted`, `RenderProcessGone` and the loss of pipes
  stand for Chromium; the constant `Fault` says which events an instance has.

Assumed of the environment: a frame's messages arrive in order; nothing arrives
for a browser after `OnBeforeClose`, nor from a dead process after
`OnRenderProcessTerminated`; the main-frame contexts of one browser do not
overlap; pages register both JavaScript functions; a handler that declines a
query has dropped its callback (the code's `DCHECK(HasOneRef)`); handlers do not
call the router from `OnQueryCanceled`. Payloads, frame objects and message
encodings are left out: no decision of the router depends on them.

`QueryLifecycle` is the promise of the header to the page, one call of `cefQuery`
at a time. `MessageRouter` implements it (`ImplementsLifecycle`): the phase of a
call is read off `issued` and `requests`, what it has heard is `callbacks`.

### ResourceManager, ResourceLoad

The provider list is `providers`, an entry is its provider, and
`deletion_pending_` and `pending_requests_` are `deleting` and `pending`. The
unique `RequestState` of a network request is wherever `holder` says: in a
`Request` object, in a posted task, or destroyed, and then its callback has run.
`current` is `current_entry_pos_`. `ioTasks` and `fileTasks` are the two task
queues; a task names the `Request` object by network request and provider.

`SendRequest` calls a provider, so each `OnRequest` is an action of its own, with
`dispatch` naming the request being offered: `ContentOnRequest`,
`DirectoryOnRequest`, `ArchiveOnRequest` and, for providers of the application,
`CustomOnRequest`, before which the provider may call `Continue` or `Stop` and the
manager's own methods. `Forward` is `IncrementProvider` with the next offer, or
`StopRequest` at the end of the list. The loops of `RemoveProviders`,
`RemoveAllProviders` and the destructor are `removing`, one entry per step:
`RemovalSkips`, `RemovalMarks`, `RemovalDeletes` and `RemovalEnds`; where
`DeleteProvider` returns without moving the iterator, no step is possible, which
is how the model shows a loop that never ends.

Strings are abstracted to `HasResource`: the requests a provider has content or a
file for; whether a URL below a directory's or archive's path exists is left
open. Assumed: each provider object is added once; `OnRequestCanceled` does not
call back; the network stack asks `GetResourceHandler` once, after the request
went on.

`ResourceLoad` is what a network request sees: it goes through, or it is held and
resumed by one run of its callback, and its handler is delivered once.

### ClientHandler

`BaseClientHandler` between Chromium and the router. It EXTENDS `MessageRouter`
and replaces that module's environment by its own: which methods of the router
are called, and when, is what base_client_handler.cc does. `born`,
`browserCount` and `router` are the browsers `OnAfterCreated` was called for,
`browser_count_` and whether `message_router_` is set. `ClientOnBeforeClose`
does not call the router's own `OnBeforeClose`, because the code does not; when
the last browser closes, the loop over `message_handler_set_` is one
`DeleteNextHandler` per handler (with the cancellation pass that `RemoveHandler`
starts) and `DropRouter`. Left out: the resource manager the same class owns.

### RootWindowManager

Two threads, the UI thread and the main thread, and their queues: `uiQueue`, and
`mainQueue`, which holds what `MAIN_POST_CLOSURE` posted and the `WM_CLOSE`
messages of the windows. `queuedTasks` is `queued_tasks_` of
`MainMessageLoopMultithreadedWin`, where `PostTask` leaves what it gets before
the message window exists and after it is gone. Per window: `hwnd`,
`windowCreated`, `windowDestroyed`, `browserDestroyed` (flags of
`RootWindowWin`), `attached` and `isClosing` (of its `BrowserWindow`). A window
and its browser have one name; `browser` is how far Chromium has brought that
browser. The manager is `rootWindows`, `otherCt` and `otherOwners`.

Closing takes six messages: `WM_CLOSE` (`UserCloses`, `ReceiveClose`), answered by
`CloseBrowser` on the UI thread; `DoClose`, which posts `OnBrowserClosing` and
lets Chromium send the second `WM_CLOSE`; `DestroyWindow`; `OnBeforeClose`, which
posts `OnBrowserClosed`; and the notification of the manager once window and
browser are both gone, in either order. `OnAbortOrClosePopup` is the manager's
answer to a popup that was aborted or lost its opener.

Assumed: native windows only (`RootWindowViews` and its `CefWindow` callbacks are
left out); a popup that is aborted never gets a browser, and Chromium reports the
pending popups of a browser as aborted in the same breath as its `OnBeforeClose`;
a browser whose parent window is destroyed while it is being created is still
created, and then destroyed; a page closes its own window once that window
exists; the program creates its first window before it runs the loop, so its
`Init` is already posted; every browser without a window has an opener; the user
does not ask for a second close while the first request waits
(`NoCloseWaiting`). `active_root_window_`, the temporary window, preferences and
layout decide nothing here. A second start of the program (`Relaunch`) is in
`RelaunchSpec` only.

### Lists, QueueLemmas

`Lists` is `std::list` as the resource manager and the callback list use it:
`Erase` and `Filter`, by the positions that are kept. The libraries' `SelectSeq`
and `Remove` are recursive, and nothing could be proved about a module that uses
them; the counts of tasks in `RootWindowManager` are `Cardinality`s of sets of
positions for the same reason. `QueueLemmas` says what these, `Append`, `Tail`,
`\o` and `RemoveAt` do to the elements of a sequence and to their order.

### CallbackList

The list is `callbacks`, whose callbacks may be null (`callbacks \ bound`); the
subscriptions hold iterators (`subscribed`), and each call of `Notify` on the stack
is a frame with the iterator it has already moved on. A callback runs between
two actions, so that everything a callback may do (`Add`, `CancelCallback`,
`Notify`) happens there. `owed`, a history, is what a call found when it began
and has not run. The constant `Once` chooses `OnceCallbackList`, whose
`RunCallback` splices the node to `null_callbacks_`. The destructor of the list is
left out: its `CHECK` demands that no call is on the stack.

### ExternalPump

`messages` is the Windows queue of the main thread with the delays of the
`kMsgHaveWork` messages and `WM_QUIT`; `timer`, `is_active` and `reentrancy` are
`timer_pending_`, `is_active_` and `reentrancy_detected_`. `CefDoMessageLoopWork`
is the time between `DoWork` and `WorkDone`: a modal loop in it may dispatch
requests and the timer, which call `DoWork` again. `Drain` is a round of the
calls `Run` makes after the loop. `work` is what Chromium has asked for and not
got. Assumed: no message is dispatched inside a drain round. The header says of
this class that it "does not handle all cases (for example, nested message loops
on Windows will not function correctly)" (main_message_loop_external_pump.h:16-18).
`AlwaysWakes` does not contradict it: an outer call of `DoWork` that has yet to
return counts as awake, whatever the loop nested in it is waiting for, and what
`PumpServesRequests` promises comes after that call has returned.

### ImageCache

`image_map` and the tasks of the two threads. A load is `LoadOnUI` (at once or by
a posted task), `LoadMissing` on the FILE thread and `UpdateCache` back on the UI
thread; loads overlap and files change in between (`FileChanges`). The infos, the
images and the contents of a load are sequences, as in the code, and what belongs
together is in one position: `Contents` walks the infos and the images side by
side, `Images` the infos and the contents, each to the end of the shorter. An
image carries the ID whose files were read for it, the load that made it and the
number of representations it has, so that a shifted vector shows. `Insert` is
`std::map::insert`, which leaves an entry that exists alone. The IDs of one load
are distinct, save for `kEmptyId`, which may come repeatedly and is never
reloaded, as `ImageInfo::Empty` makes it. A file that is read but cannot be
decoded counts as one that cannot be read at its first representation:
`CreateImage` gives no image for either.

### MCParts

The callback list (repeating with nested calls, and once), the pump and the
image cache do not touch each other; they share one run to keep it one
question. `part` chooses which of them moves in a behaviour.

## 4. Runs

All runs check the specification as written; the bounds are constants that
appear in guards, or state constraints named in the configuration. Deadlock is
not checked: a component with nothing left to do stops, and all counters are
bounded.

| Run | Instance | Shows |
|---|---|---|
| `router_core` | 1 page, 2 handlers that call the router inside `OnQuery`, 2 queries, navigations that commit or are abandoned, a posted cancellation | types; callbacks attached exactly while offered or pending; every accepted query ends once; refinement of `QueryLifecycle` |
| `router_faults` | 2 successive pages, 2 queries, navigation, crash, close | no request of a page that stays is lost or answered twice; no query of a page that is gone is kept; answers reach the call they belong to; entries name registered handlers |
| `client_router` | 2 browsers on one client handler, 2 query handlers, 1 query, navigation, crash, close, fairness | the router is there while a browser is; nothing outlives it; one-shot requests settle; the router is released |
| `resource_core` | 2 requests, any two of a directory, an archive and an application provider, 1 removal, manager released | types; states on live entries; marked entries in use; no request on a removed provider; a held request is in some queue or with its provider; providers met in order, once, never after removal; refinement of `ResourceLoad` |
| `resource_liveness` | 1 request, 4 providers, 1 removal, fairness | held requests resume; a removal returns |
| `windows` | a window, its DevTools, a popup and a browser opened from there, fairness | the program quits when and only when everything is gone, and rests only while a browser lives; notifications find their windows; the counts are right; the close handshake ends |
| `parts` | 3 callbacks, 2 nested calls; 3 messages, 10 drain rounds; 2 loads of up to 2 images or empty ones, 2 representations each | iterators stay valid and nobody is skipped; the pump wakes and serves requests; loads are answered once, with the image of each ID in its position, and cached images stay |
| `router_split_frame` | a sub-frame in a process of its own | counterexample, below |
| `client_router_closed` | a browser closes while another one of its handler stays | counterexample, below |
| `resource_archive_hang` | an archive without the file | counterexample, below |
| `resource_removal_hang` | two removals of one identifier | counterexample, below |
| `windows_quit_open` | the program is started again while it is about to quit | counterexample, below |

Bounds. Two queries suffice for two entries in a map, two messages in a pipe and
a crossing pair; `MaxId = 2` lets both exist with distinct IDs. The generators start
over after the largest value; with `MaxQueries > MaxId` a request can outlive a
full round, and then `AnswerReachesItsRequest` fails, which takes 2^31 queries of
one process in the program. Two calls per callback give a double answer and one
that follows a cancellation (`MaxCalls`; one call in `router_faults`); in
`router_core` the second call comes only while the page has made one call of
`cefQuery` (`DoubleAnswerBound`). Two handlers show which one owns a query. In
`router_core` the handlers are interchangeable (`HandlerSymmetry`: no action or property tells
them apart, and the run has no liveness property), and a posted cancellation waits
only while the page has made one call (`PostedCancelBound`): the second query
meets every other order of tasks. In the resource manager two requests share an
entry, so that one leaves it while the other stays. In `resource_core` the
application calls each of its `Request` objects up to twice (`MaxCalls`), the
second time while one network request has been offered and nothing removed
(`AgainAlone`, `DoubleCallBound`); with the calls of removal that gives the double
and the late `Continue`. `TwoProviders` keeps the list at two of the three kinds, each pair
in turn. `router_faults` uses the view `WithoutHistories`: it drops `callbacks` and
`endings`, which no guard and none of the properties of this run read, so every
reachable value of what the properties do read is visited. In `windows` the tree
of openers has depth three, and popup and DevTools both close before, after or
with their opener. Three callbacks give one before, at and behind the iterator of
each of two nested calls; three messages are one of each delay. Two infos in a load put a found
or empty image before one that has to be read, and after it; two representations
let an image be half read.

Fairness. Task queues and pipes are served (weak fairness of each kind of task
and message), `OnQuery` returns, a page that is replaced is torn down, a handler
that accepted a query calls its callback at some time, and a provider that
returned true calls `Continue` or `Stop` at some time; the last two are demands of
the headers on the application. In `RootWindowManager` both threads serve their
queues, a browser that was asked for is created or its creation fails, and one
that agreed to close is destroyed. In `ExternalPump` the main loop takes its
messages and its timer and `CefDoMessageLoopWork` returns; a timer that is set
is taken to expire although requests go on arriving, as it does when each new
request sets it anew at a shorter delay. Nothing is assumed of pages,
of users, of cancellations or of removals.

### Disagreements between the code and its documents

Five runs end in a counterexample that is the code's own behaviour.

* `router_split_frame`: context IDs are counted per render process, but the
  browser side selects by browser and context ID: with a cross-process
  subframe, canceling in one frame silently removes the query of another.
* `client_router_closed`: `BaseClientHandler::OnBeforeClose` does not call the
  router's `OnBeforeClose`, which its header asks for: a query of a browser that
  closes stays pending, and its handler is not told, until the last browser of
  that client handler closes.
* `resource_archive_hang`: a request that waits for an archive which then has no
  such file, or fails to load, is dropped and its callback is not run until the
  provider is removed.
* `resource_removal_hang`: a removal that meets an entry pending deletion never
  returns, because `DeleteProvider` leaves the iterator where it is. That is why
  `resource_liveness` has a single removal and no destruction.
* `windows_quit_open`: `MaybeCleanup` counts what has reached the main thread's
  set. A window whose creation is already posted when the last one goes is
  created, and the program quits with it open.

Five more were met and have no run of their own:

* `~RootWindowWin` asserts that "the window and browser should already have been
  destroyed", with `DCHECK(window_destroyed_)` and `DCHECK(browser_destroyed_)`
  (root_window_win.cc:224-226). A popup whose creation is aborted, or whose
  opener closes before it has a window, is dropped by `OnAbortOrClosePopup`
  (root_window_manager.cc:308-311), which releases the last reference while both
  flags have their initial false: both assertions fail in a debug build.
  `ForgetsOnlyClosedWindows` names that case as its second one and fails in the run
  `windows` without it; every other window is dropped after both destructions;
* a handler that removes itself in `OnQuery` and returns true stays the owner of
  a pending query, although `RemoveHandler` promises that its queries are
  canceled (`PendingHandlersRegistered` fails when `Reentrant` is true);
* a navigation that is allowed but does not commit leaves a live page whose
  pending queries were dropped without `onFailure` (`EveryRequestIsCarriedOnce`
  fails with `Fault = {"abort"}`);
* a `OnceCallbackList` notified from one of its own callbacks splices the node an
  outer loop points at into the other list, against the comment at
  cef_callback_list.h:236 (`IteratorsAreValid` fails for `Once = TRUE`,
  `MaxDepth = 2`; nobody in the repository does so, and the run takes
  `MaxDepth = 1` there);
* simple_handler.cc:311 tests plain F11 inside the test of the control key, so
  that the key is not blocked; a unit test shows it better than a model.

The positive runs avoid the first two: one process per browser,
`MaxQueries <= MaxId`, no abandoned navigation where `EveryRequestIsCarriedOnce`
is checked, and `PendingHandlersRegistered` only without re-entrant handlers.

## 5. Proofs

`MessageRouterProofs` proves, for any finite or infinite sets of browsers,
contexts, processes and handlers and any bounds that satisfy `RouterAssumption`
(the last two theorems take finitely many contexts):

* `TypeCorrect`: `Spec => []TypeOK`, one lemma per action.
* `BrowserBooksCorrect`: `Spec => [](CallbackAttachedWhilePending /\
  QueryEndsOnce)`. Neither conjunct is inductive. That a posted `Success` finds
  the one entry of its callback needs that query IDs in the map are unique and
  that callback and entry agree on `persistent`; that a new query gets a fresh ID
  needs that every accepted or dispatched ID is at most `queryIdGen`; and that
  accepting a query does not end another one needs that the dispatched query has
  not been accepted yet. `Books` is their conjunction. Every way out of the map
  (an answer, a visit of a cancellation pass, a cancel message) goes through the
  lemma `BooksEntryEnds`.
* `HandlersOutliveTheirQueries`: if `OnQuery` does not call the router
  (`~Reentrant`), `Spec => []PendingHandlersRegistered`. The invariant
  `Registered` adds that at most one cancellation pass is in progress and none
  beside a dispatch, and that the handlers a dispatch has left to ask are still
  registered; both fail when a handler may remove itself in `OnQuery`.

* `QueriesFollowLifecycle`: if `MaxQueries <= MaxId`, `Spec =>
  ImplementsLifecycle`. A step of the router sends a call, ends it, answers a
  persistent one or is nothing to `QueryLifecycle`. That a message ends or
  answers the one call it finds needs `Numbered`: each process has handed out no
  more IDs than there were calls, so none came round, and two registrations
  differ in their process or their request ID.
* `AnswersReachTheirRequests`: under the same hypothesis,
  `Spec => []AnswerReachesItsRequest`. `OneCallPerId` follows a call through all
  the places where its IDs are: the registration, the query on its way, the
  offers to the handlers, the entry, and the answers on their way back. In all
  of them together the IDs of a process belong to one call.

The hypothesis says that no process has used up its 2^31 - 1 IDs in the behaviour
under consideration. Without it the theorems are false of the code, whose
`IdGenerator` starts again at `kReservedId + 1`.

Two more theorems follow a call through the places where the browser side keeps
it: *asked* (a message on its way), *offered* (to the handlers), *pending* (in
the map) and *answered* (by a last answer on its way back). They take that IDs
suffice, for contexts too (`IdsSuffice`, the hypothesis above and finitely many
contexts), and that the frames of a browser share a process
(`FramesShareProcess`); without the latter context IDs of two processes can
coincide in one browser, and the run `router_split_frame` shows what happens.

* `NothingIsForgotten`: `Spec => []NoForgottenQuery`.
* `RequestsAreCarriedOnce`: if no navigation is taken back (`"abort" \notin
  Fault`), `Spec => []EveryRequestIsCarriedOnce`. With such navigations it is
  false of the code: `OnBeforeBrowse` has dropped the queries, and the page that
  stays still waits.

The invariant is `PlacesInv`, on top of `Books` and `OneCallPerId`. A call is at
one place only (`OnePlace`), and what stands for it there has its IDs
(`PlacesSound`). A context ID stands for one context of its process
(`ContextsApart`), because `contextIdGen` is at most the number of contexts that
have an ID. No cancel message is ahead of the query it cancels (`PipesOrdered`:
the pipe of a frame keeps order), and none is on its way for a request that is
still registered (`CancelsSound`). What remains at a closed browser is what the
pass in progress removes (`ClosedAreSwept`). `NoneForgotten` is the property
itself, said of all places but the last and not of the map alone: a query that
nobody waits for may still be on its way when its page goes. For the second theorem
`LossInv` adds that what a page waits for is at some place (`NoneLost`), and that
a pass that tells the page nothing removes only what no page that stays waits for
(`SilentForLeavers`). Every step of the browser process moves one call on
(`Moves`, `BrowserMove`), leaves all where they are (`BrowserStays`) or drops the
pipes of a browser (`BrowserDropped`); every step of a page but `SendQuery` and
`ReceiveAnswer` at most withdraws requests, with a message for them (`Withdraw`).

`ClientHandlerProofs` proves for finitely many browsers and handlers
(`ClientAssumption`), in whatever order the browsers come and go:

* `RouterLivesWithBrowsers`: `ClientSpec => [](ClientTypeOK /\
  RouterServesOpenBrowsers /\ NothingOutlivesRouter)`. Every step of the client
  handler is a step of the router or one of three of its own, so the lemmas
  about `Books` and `Registered` are used again. What is added is that
  `browserCount` is the number of browsers born and open (`BrowsersCounted`) and
  that the router follows it (`RouterFollows`). When the loop of `OnBeforeClose`
  is through, no handler is registered and no pass is in progress, so by
  `Registered` no entry is left, and by `Books` no callback.
* `QueriesEndOnceUnderClient`: `ClientSpec => [](QueryEndsOnce /\
  PendingHandlersRegistered)`, although the router is never told that a browser
  closes.
* `PagesAreServedUnderClient`: if `MaxQueries <= MaxId`, `ClientSpec =>
  ImplementsLifecycle /\ []AnswerReachesItsRequest`: the refinement holds for the
  pages too. `ClientCalls` adds `Numbered` and `OneCallPerId` of the router to
  the invariant; the three steps that are the client handler's own drop entries
  and messages and make none (`OneCallDropped`).

`ExternalPumpProofs` proves, for any bound of the queue and any number of drain
rounds, `PumpKeepsWorking`: `PumpSpec => [](AlwaysWakes /\
UrgentWorkIsNotDelayed)`. `AlwaysWakes` is kept by every step as it stands. Urgent
work needs `UrgentWorkIsRemembered`: while a call is in progress, urgent work is
in the queue or `reentrancy_detected_` is set, so that `WorkDone` asks again.

`ImageCacheProofs` proves, for any images, any loads, vectors of any length and any
number of representations:

* `LoadsAreAnsweredOnce`: `CacheSpec => []CallbackRunsOnce`. The queues hold at
  most one task of each load (`TasksAreDistinct`), a load with a task has not
  been answered (`TasksAreSound`), and a load without one has been answered or
  not made (`LoadsAreSound`).
* `AnswersAreSoundAndCached`: `CacheSpec => [](AnsweredImagesAreCached /\
  AnswersComeFromLoads)`. A task carries, in the position of each info, an image
  made of the files of that ID and not to be reloaded, or else none
  (`FoundImages`), and later the contents of those files (`FoundContents`);
  `ContentsAreFound` and `ImagesAreMade` show that walking two vectors side by
  side keeps them so. Everything in the map was made for its ID (`MapIsSound`),
  and what a task or an answer relies on is in the map or is being reloaded
  (`Covered`), which a forced reload cannot break because its own task covers
  what it removes.
* `CachedImagesNeverChange`: `CacheSpec => CachedImageStays`.

`ResourceManagerProofs` proves, for any providers, requests and sizes of the
queues, in whatever order providers are removed and answers come:

* `ManagerTypeCorrect`, `MarkedEntriesAreInUse`, `RemovalFreesRequests` and
  `StatesStayOnLiveEntries`: `Spec => []TypeOK`, `[]MarkedEntryIsInUse`,
  `[]RemovedProviderHoldsNoRequest` and `[]StateOnLiveEntry`. The invariant
  `ManagerInv` adds that an IO task that carries the state of a request is the
  only one to do so (`TasksOwnStates`), which a second answer of a provider does
  not change because the first took the state out of the `Request`; that a posted
  provider is not in the list yet (`AddedOnce`); that the list ascends
  (`Ascending`); that a pending list holds the requests whose entry it belongs to
  and no others (`ListsAgree`); whose offer is in progress (`Dispatching`); and
  that the destructor has left nothing behind its position but entries that are
  marked (`Destruction`).
* `HeldRequestsKeepCarriers`: `Spec => []HeldRequestsAreCarried`, the safety half of
  `EveryRequestResumes`: a held request is never left between the two threads.
  Who waits for an answer is remembered in four places (the list of the archive,
  the two queues, the calls that a provider has left), so `CarriedInv` says for
  each what it promises: `Carried`, that the request is in one of them;
  `ArchivesLoad`, that an archive with waiting requests has its load on one of the
  queues; `CallsVisited`, that only a `Request` which a provider was given is called. The case that
  is left out, `DroppedByArchive`, is the one that `resource_archive_hang` shows.
* `RequestsMeetProvidersInOrder`: `Spec => OffersInOrder`. A request has met
  nothing that is ordered behind its entry (`NothingAhead`), so that the next
  entry is new to it, also when entries were inserted or erased meanwhile.
* `ManagerImplementsLoad`: `Spec => ImplementsResourceLoad`, action by action.
  `Phases` ties the history of a request to the place of its state: whoever runs
  the callback owned the state, and owns it no more.

`CallbackListProofs` proves for any callbacks, under the hypothesis
`~Once \/ MaxDepth = 1`, from the invariant `ListInv`:

* `IteratorsStayValid`: `ListSpec => [](ListTypeOK /\ IteratorsAreValid)`;
* `NullCallbacksAreErased`: `ListSpec => []NoNullIsLeft`;
* `NotifyRunsAll`: `ListSpec => NoCallbackIsSkipped`. A call that is in progress
  holds a valid iterator, and none of the callbacks that it found and that are
  neither run nor canceled is before that iterator (`FrameSound`). While a call
  is in progress canceled callbacks stay in the list as null, which is why other
  calls of the stack may go on.

The hypothesis leaves out a `OnceCallbackList` that is notified from one of its
own callbacks: there the theorems are false, because `RunCallback` splices away
the node an outer call points at (cef_callback_list.h:344).

`RootWindowManagerProofs` proves, for any number of windows, popups and browsers
without a window, whoever opens whom:

* `WindowsTypeCorrect` (`TypeOK`), `QuitsAfterTheLast` (`QuitOnlyWhenAllClosed`),
  `LoopEndsWithAllDone` (`NothingPostedAfterLoop`),
  `NotificationsFindTheirWindows` (`NotificationFindsWindow`) and
  `OthersAreCounted` (`OtherBrowsersAreCounted`), each an invariant of `Spec`;
* `WindowsAreForgottenLast`: `Spec => ForgetsOnlyClosedWindows`. A dropped window
  was noted as destroyed, and so was its browser, which is closed; the other case
  is a popup that was aborted and has no window;
* `RestsOnlyWhileAlive`: `Spec => []IdleOnlyWhileAlive`, the safety half of
  `ClosingTakesWindow` and `EndsWhenAllClosed`: no window is kept, and the end is not
  held up, for want of a message.

None of the properties says anything of a queue with unknown contents, so `WindowsInv` says
what the queues hold. `QueueInv`: the tasks of the main thread keep the order
`Before` (a window or browser is introduced to the manager once, before it is
taken away, and before any notification to it), and one of its two queues is
empty. `BookInv`: who has a browser, or will, is known to the manager or is
introduced by a task on its way; and whoever is still to be introduced was opened
by somebody who has a browser. `WindowInv`: what the flags of a window, its
browser and the tasks on their way say of each other. `QuitInv`: once
`MaybeCleanup` has found nothing the manager knows nobody, until the end.

That the program does not end too early is the argument of `NobodyUnknown`: if
`MaybeCleanup` finds nothing, then whoever is unknown was opened by somebody who
is alive and unknown as well, and is introduced behind that opener; the first
introduction in the queue can have no such opener, so there is none, and by
`BookInv` no browser is left on the UI thread. `WindowsAssumption` says for that
that windows and browsers are finitely many; that is all the proofs need of the
constants beside what the runs evaluate.

That the program does not stop short of its end is `LifeInv`, which adds to
`WindowsInv` what is on its way to everything that is over. `AbortsCome`: while an
aborted popup is in the manager's set, or is about to be, the task that drops it
waits. `ClosesCome`: of a closed browser the main thread will hear or has heard, and
then a `destroy` task waits for a window that is still kept. `ClosingComes`: for a browser that
agreed to close a WM_CLOSE waits; as long as `is_closing_` is not set, the
`closing` task that sets it stands before one, which is the order that
`DoCloseLate` turns round. `WindowsBegin`: a window that is kept had a browser, or
its `init` is on its way. `LastAsks`: when nothing is kept, `CleanupOnUIThread` or
`Quit` waits, or `PostQuitMessage` was called. Two more orders of the queue are
needed (`Ends`): a popup is stored before it is dropped for being aborted, and its
`created` comes before any WM_CLOSE. When both queues are empty all these tasks are
missing, so whatever is kept has a browser that is not gone.

`QueueLemmas` holds what they share: what `Append`, `Tail`, `\o`,
`RemoveAt`, `Erase` and `Filter` do to the elements of a sequence and their order.

Every invariant and every action property of the runs is stated by a theorem.
Only model-checked is liveness (`EveryOneShotRequestSettles`, `RouterIsReleased`,
`EveryRequestResumes`, `RemovalReturns`, `ClosingTakesWindow`,
`EndsWhenAllClosed`, `PumpServesRequests`), which needs fairness and is out of the
prover's reach. The type invariants of the client handler, the pump, the image cache
and the callback list are in no run; they are theorems, or part of the inductive
invariants of theorems. The properties of the runs that expect a violation are not
theorems, of course.

Two definitions were changed because a proof about them could not go through.
`PhaseOf` of `ResourceManager` had a `CASE` whose guards overlap, which leaves
open what it is where they do. `NextValid` of `CallbackList` filtered the list with
`SelectSeq`, which is recursive; it is now the least of the positions left.

## 6. Not modelled

Payload encoding of router messages; URL filters and mime types; the kiosk
application, whose close sequence is that of Chromium with a list around it, and
whose keys are a function of one event; the Views variant of the root windows;
off-screen rendering, layout, generated bindings, samples, tests and packaging,
which are layout, device I/O or generated code without a protocol of their own.
Reference counts, locks and the callback templates of the base library are taken
as given.

By lines the models cover little of the repository: most of it is the headers of
the CEF API, tables of constants and the bindings generated from them, where a
function converts its arguments and forwards the call. The protocols are in the
few thousand lines of the components above.
