------------------------- MODULE RootWindowManager -------------------------
(***************************************************************************)
(* The native windows of cefclient on Windows, from creation to the end of *)
(* the program: the manager that decides when to quit, one RootWindowWin   *)
(* with its BrowserWindow per top-level window, browsers without a root    *)
(* window (DevTools, default popups), and the message loop of the main     *)
(* thread, which is not the UI thread.  The two threads talk through two   *)
(* FIFO queues; a window closes in a conversation of six messages.         *)
(*                                                                         *)
(* Source, under tests/cefclient/browser: root_window_manager.cc,          *)
(* root_window_win.cc, browser_window.cc, client_handler.cc,               *)
(* base_client_handler.cc, main_message_loop_multithreaded_win.cc.         *)
(* Layout, drawing, focus and preferences are left out.  What Chromium     *)
(* does with a browser, and the user with a window, is the environment.    *)
(***************************************************************************)
EXTENDS Naturals, Sequences, FiniteSets, SequencesExt

CONSTANTS Window,      \* RootWindowWin objects
          Popup,       \* those of popups
          Other,       \* browsers without a root window
          First,       \* the window the program starts with
          Alloy,       \* the windows with Alloy style browsers
          OpenerOf     \* the browser that opens a popup or another browser

\* A window and its browser have one name.
Browser == Window \union Other

\* popup_id -1: every popup of the opener.
AllPopups == "all"

ASSUME WindowsAssumption ==
  /\ IsFiniteSet(Window) /\ IsFiniteSet(Other) /\ Window \intersect Other = {}
  /\ AllPopups \notin Popup
  /\ Popup \subseteq Window /\ Alloy \subseteq Window
  /\ First \in Window \ Popup
  /\ OpenerOf \in [Popup \union Other -> Browser]

VARIABLES
  phase,             \* the main loop: "starting", "running" or "ended"
  quit,              \* PostQuitMessage was called
  mainQueue,         \* messages of the main thread: tasks and WM_CLOSE
  queuedTasks,       \* queued_tasks_: posted without a message window
  uiQueue,           \* tasks posted to the UI thread
  rootWindows,       \* root_windows_
  otherCt,           \* other_browser_ct_
  otherOwners,       \* other_browser_owners_, as pairs <<opener, browser>>
  hwnd,              \* windows whose hwnd_ is not null
  windowCreated,     \* window_created_
  windowDestroyed,   \* window_destroyed_
  browserDestroyed,  \* browser_destroyed_ (and browser_window_ is null)
  attached,          \* windows whose BrowserWindow::browser_ is set
  isClosing,         \* BrowserWindow::is_closing_
  browser            \* "none", "pending", "live", "closing", "closed", "aborted"

loopVars    == <<phase, quit, mainQueue, queuedTasks, uiQueue>>
managerVars == <<rootWindows, otherCt, otherOwners>>
windowVars  == <<hwnd, windowCreated, windowDestroyed, browserDestroyed,
                 attached, isClosing>>
vars == <<loopVars, managerVars, windowVars, browser>>

MainTask ==
  [do: {"init", "rootCreated", "created", "closing", "closed", "wmClose",
        "destroy"}, w: Window]
  \union [do: {"otherCreated", "otherClosed"}, o: Other]
  \union [do: {"abort"}, opener: Browser, p: Popup \union {AllPopups}]
  \union [do: {"quit"}]
UiTask == [do: {"init"}, w: Window] \union [do: {"close"}, x: Browser]
            \union [do: {"cleanup"}]

TypeOK ==
  /\ phase \in {"starting", "running", "ended"}
  /\ quit \in BOOLEAN
  /\ mainQueue \in Seq(MainTask) /\ queuedTasks \in Seq(MainTask)
  /\ uiQueue \in Seq(UiTask)
  /\ rootWindows \subseteq Window
  /\ otherCt \in 0..Cardinality(Other)
  /\ otherOwners \subseteq Browser \X Other
  /\ \A S \in {hwnd, windowCreated, windowDestroyed, browserDestroyed,
               attached, isClosing} : S \subseteq Window
  /\ browser \in [Browser -> {"none", "pending", "live", "closing", "closed",
                              "aborted"}]

----------------------------------------------------------------------------
(***************************************************************************)
(* Posting                                                                 *)
(***************************************************************************)

\* MainMessageLoopMultithreadedWin::PostTask.  q is what is left of the
\* message queue once the current message is taken.
PostTo(q, tasks) ==
  IF phase = "running"
    THEN mainQueue' = q \o tasks /\ UNCHANGED queuedTasks
    ELSE mainQueue' = q /\ queuedTasks' = queuedTasks \o tasks

\* MAIN_POST_CLOSURE from the UI thread.
Post(tasks) == PostTo(mainQueue, tasks)

Task(do, w) == [do |-> do, w |-> w]

\* Mutated forms: browsers without a window are not asked about; the program
\* never quits by itself.
MaybeCleanupIgnoresOthers(windows, others, q) ==
  IF windows = {} THEN Append(q, [do |-> "cleanup"]) ELSE q
MaybeCleanupNever(windows, others, q) == q

\* RootWindowManager::MaybeCleanup, as what it adds to the UI thread's queue.
MaybeCleanup(windows, others, q) ==
  IF windows = {} /\ others = 0 THEN Append(q, [do |-> "cleanup"]) ELSE q

\* RootWindowManager::OnRootWindowDestroyed, for the windows of S in turn.
OnRootWindowDestroyed(S) ==
  /\ rootWindows' = rootWindows \ S
  /\ uiQueue' = IF S = {} THEN uiQueue
                ELSE MaybeCleanup(rootWindows \ S, otherCt, uiQueue)

\* Mutated form: either of the two is enough.
NotifyDestroyedIfEither(w, windows, browsers) ==
  OnRootWindowDestroyed({w} \intersect (windows \union browsers))

\* RootWindowWin::NotifyDestroyedIfDone with the new values of the two flags.
NotifyDestroyedIfDone(w, windows, browsers) ==
  OnRootWindowDestroyed({w} \intersect windows \intersect browsers)

\* DestroyWindow: WM_NCDESTROY and RootWindowWin::OnDestroyed.
DestroyWindow(w) ==
  /\ hwnd' = hwnd \ {w}
  /\ windowDestroyed' = windowDestroyed \union {w}
  /\ NotifyDestroyedIfDone(w, windowDestroyed \union {w}, browserDestroyed)

\* RootWindowWin::CreateRootWindow: WM_NCCREATE and OnCreate, which asks for
\* the browser unless a popup has one already.
CreateWindow(w) ==
  /\ hwnd' = hwnd \union {w}
  /\ windowCreated' = windowCreated \union {w}
  /\ browser' = IF w \in Popup THEN browser ELSE [browser EXCEPT ![w] = "pending"]

----------------------------------------------------------------------------
(***************************************************************************)
(* The start and the end                                                   *)
(***************************************************************************)

\* RunMain creates the first window before it runs the loop: it is in the
\* manager's set, and its Init goes on on the UI thread.
Init ==
  /\ phase = "starting" /\ quit = FALSE
  /\ mainQueue = <<>> /\ queuedTasks = <<>>
  /\ uiQueue = <<Task("init", First)>>
  /\ rootWindows = {First} /\ otherCt = 0 /\ otherOwners = {}
  /\ hwnd = {} /\ windowCreated = {} /\ windowDestroyed = {}
  /\ browserDestroyed = {} /\ attached = {} /\ isClosing = {}
  /\ browser = [x \in Browser |-> "none"]

\* Run, up to its loop: the message window takes over what was queued.
Run ==
  /\ phase = "starting" /\ phase' = "running"
  /\ mainQueue' = queuedTasks /\ queuedTasks' = <<>>
  /\ UNCHANGED <<quit, uiQueue, managerVars, windowVars, browser>>

\* GetMessage returns WM_QUIT when no other message is left.
LoopEnds ==
  /\ phase = "running" /\ quit /\ mainQueue = <<>>
  /\ phase' = "ended"
  /\ UNCHANGED <<quit, mainQueue, queuedTasks, uiQueue, managerVars,
                 windowVars, browser>>

\* OnAlreadyRunningAppRelaunch, on the UI thread: both halves of the new
\* window's Init and OnRootWindowCreated go to the main thread.
Relaunch(w) ==
  /\ w \notin Popup /\ w # First /\ browser[w] = "none"
  /\ \A t \in ToSet(mainQueue \o queuedTasks) : t # Task("init", w)
  /\ w \notin rootWindows
  /\ Post(<<Task("init", w), Task("rootCreated", w)>>)
  /\ UNCHANGED <<phase, quit, uiQueue, managerVars, windowVars, browser>>

----------------------------------------------------------------------------
(***************************************************************************)
(* The main thread                                                         *)
(***************************************************************************)

NextTask(do) == phase = "running" /\ mainQueue # <<>> /\ Head(mainQueue).do = do
Done == mainQueue' = Tail(mainQueue) /\ UNCHANGED queuedTasks

\* RootWindowWin::ContinueInitOnMainThread.
ContinueInitOnMainThread ==
  /\ NextTask("init") /\ Done
  /\ CreateWindow(Head(mainQueue).w)
  /\ UNCHANGED <<phase, quit, uiQueue, managerVars, windowDestroyed,
                 browserDestroyed, attached, isClosing>>

\* RootWindowManager::OnRootWindowCreated.
OnRootWindowCreated ==
  /\ NextTask("rootCreated") /\ Done
  /\ rootWindows' = rootWindows \union {Head(mainQueue).w}
  /\ UNCHANGED <<phase, quit, uiQueue, otherCt, otherOwners, windowVars, browser>>

\* BrowserWindow::OnBrowserCreated and RootWindowWin::OnBrowserCreated, which
\* creates the window of a popup.
OnBrowserCreated ==
  LET w == Head(mainQueue).w
  IN  /\ NextTask("created") /\ Done
      /\ attached' = attached \union {w}
      /\ IF w \in Popup THEN CreateWindow(w)
                        ELSE UNCHANGED <<hwnd, windowCreated, browser>>
      /\ UNCHANGED <<phase, quit, uiQueue, managerVars, windowDestroyed,
                     browserDestroyed, isClosing>>

\* BrowserWindow::OnBrowserClosing.
OnBrowserClosing ==
  /\ NextTask("closing") /\ Done
  /\ isClosing' = isClosing \union {Head(mainQueue).w}
  /\ UNCHANGED <<phase, quit, uiQueue, managerVars, hwnd, windowCreated,
                 windowDestroyed, browserDestroyed, attached, browser>>

\* BrowserWindow::OnBrowserClosed and RootWindowWin::OnBrowserWindowDestroyed:
\* if the browser went first, the window is closed by a task of its own.
OnBrowserClosed ==
  LET w == Head(mainQueue).w
  IN  /\ NextTask("closed")
      /\ PostTo(Tail(mainQueue),
                IF w \in windowDestroyed THEN <<>> ELSE <<Task("destroy", w)>>)
      /\ attached' = attached \ {w}
      /\ browserDestroyed' = browserDestroyed \union {w}
      /\ NotifyDestroyedIfDone(w, windowDestroyed, browserDestroyed \union {w})
      /\ UNCHANGED <<phase, quit, otherCt, otherOwners, hwnd, windowCreated,
                     windowDestroyed, isClosing, browser>>

\* RootWindowWin::Close(true), bound in OnBrowserWindowDestroyed.
CloseByForce ==
  LET w == Head(mainQueue).w
  IN  /\ NextTask("destroy") /\ Done
      /\ IF w \in hwnd THEN DestroyWindow(w)
         ELSE UNCHANGED <<hwnd, windowDestroyed, rootWindows, uiQueue>>
      /\ UNCHANGED <<phase, quit, otherCt, otherOwners, windowCreated,
                     browserDestroyed, attached, isClosing, browser>>

\* RootWindowWin::OnClose: CloseBrowser(false) cancels the close, unless the
\* browser said that it is closing, or there is none.
OnClose(w) ==
  IF w \in attached /\ w \notin isClosing
    THEN /\ uiQueue' = Append(uiQueue, [do |-> "close", x |-> w])
         /\ UNCHANGED <<hwnd, windowDestroyed, rootWindows>>
    ELSE DestroyWindow(w)

\* WM_CLOSE; messages of a window that is gone are discarded.
ReceiveClose ==
  LET w == Head(mainQueue).w
  IN  /\ NextTask("wmClose") /\ Done
      /\ IF w \in hwnd THEN OnClose(w)
         ELSE UNCHANGED <<hwnd, windowDestroyed, rootWindows, uiQueue>>
      /\ UNCHANGED <<phase, quit, otherCt, otherOwners, windowCreated,
                     browserDestroyed, attached, isClosing, browser>>

\* RootWindowWin::Close(false) for the windows of S.
CloseMessages(S) == SetToSeq({Task("wmClose", w) : w \in S \intersect hwnd})

\* RootWindow::IsPopupIdMatch.
PopupsMatching(opener, p) ==
  {w \in Popup \intersect rootWindows : OpenerOf[w] = opener /\ p \in {w, AllPopups}}

\* Mutated form: a popup that has a window is dropped like one without.
AbortOrClosePopups(S) == [close |-> {}, destroy |-> S]

\* The two ways OnAbortOrClosePopup ends a popup.
CloseOrDestroy(S) == [close |-> S \intersect windowCreated,
                      destroy |-> S \ windowCreated]

\* RootWindowManager::OnAbortOrClosePopup.
OnAbortOrClosePopup ==
  LET t      == Head(mainQueue)
      ends   == CloseOrDestroy(PopupsMatching(t.opener, t.p))
      others == {o \in Other : /\ t.p = AllPopups
                               /\ <<t.opener, o>> \in otherOwners
                               /\ browser[o] \in {"live", "closing"}}
  IN  /\ NextTask("abort")
      /\ mainQueue' = Tail(mainQueue) \o CloseMessages(ends.close)
      /\ rootWindows' = rootWindows \ ends.destroy
      /\ uiQueue' =
           (IF ends.destroy = {} THEN uiQueue
            ELSE MaybeCleanup(rootWindows \ ends.destroy, otherCt, uiQueue))
             \o SetToSeq({[do |-> "close", x |-> o] : o \in others})
      /\ UNCHANGED <<phase, quit, queuedTasks, otherCt, otherOwners,
                     windowVars, browser>>

\* RootWindowManager::OtherBrowserCreated and OtherBrowserClosed.
OtherBrowserCreated ==
  LET o == Head(mainQueue).o
  IN  /\ NextTask("otherCreated") /\ Done
      /\ otherCt' = otherCt + 1
      /\ otherOwners' = otherOwners \union {<<OpenerOf[o], o>>}
      /\ UNCHANGED <<phase, quit, uiQueue, rootWindows, windowVars, browser>>

\* Mutated form: only the owner forgets the browser.
OtherBrowserClosedKeepsCount ==
  LET o == Head(mainQueue).o
  IN  /\ NextTask("otherClosed") /\ Done
      /\ otherOwners' = otherOwners \ {<<OpenerOf[o], o>>}
      /\ uiQueue' = MaybeCleanup(rootWindows, otherCt, uiQueue)
      /\ UNCHANGED <<phase, quit, otherCt, rootWindows, windowVars, browser>>

OtherBrowserClosed ==
  LET o == Head(mainQueue).o
  IN  /\ NextTask("otherClosed") /\ Done
      /\ otherCt' = otherCt - 1
      /\ otherOwners' = otherOwners \ {<<OpenerOf[o], o>>}
      /\ uiQueue' = MaybeCleanup(rootWindows, otherCt - 1, uiQueue)
      /\ UNCHANGED <<phase, quit, rootWindows, windowVars, browser>>

\* The closure of MainMessageLoop::Quit.
PostQuitMessage ==
  /\ NextTask("quit") /\ Done
  /\ quit' = TRUE
  /\ UNCHANGED <<phase, uiQueue, managerVars, windowVars, browser>>

\* The user closes window w, or OnExit calls CloseAllWindows(false).  Bound:
\* not while the answer to an earlier request is waiting.
NoCloseWaiting(S) ==
  \A w \in S : /\ Task("wmClose", w) \notin ToSet(mainQueue)
               /\ [do |-> "close", x |-> w] \notin ToSet(uiQueue)
UserCloses(S) ==
  /\ phase = "running" /\ S \intersect hwnd # {} /\ NoCloseWaiting(S)
  /\ mainQueue' = mainQueue \o CloseMessages(S)
  /\ UNCHANGED <<phase, quit, queuedTasks, uiQueue, managerVars, windowVars,
                 browser>>

----------------------------------------------------------------------------
(***************************************************************************)
(* The UI thread                                                           *)
(***************************************************************************)

NextUi(do) == uiQueue # <<>> /\ Head(uiQueue).do = do

\* RootWindowWin::ContinueInitOnUIThread.
ContinueInitOnUIThread ==
  /\ NextUi("init")
  /\ uiQueue' = Tail(uiQueue)
  /\ Post(<<Task("init", Head(uiQueue).w)>>)
  /\ UNCHANGED <<phase, quit, managerVars, windowVars, browser>>

\* RootWindowManager::CleanupOnUIThread.
CleanupOnUIThread ==
  /\ NextUi("cleanup")
  /\ uiQueue' = Tail(uiQueue)
  /\ Post(<<[do |-> "quit"]>>)
  /\ UNCHANGED <<phase, quit, managerVars, windowVars, browser>>

\* Mutated form: the close message is sent before the handler is told.
DoCloseLate(w) == <<Task("wmClose", w), Task("closing", w)>>

\* ClientHandler::DoClose notifies the window; because it returns false
\* Chromium then sends WM_CLOSE to the window.
DoClose(w) == <<Task("closing", w), Task("wmClose", w)>>

\* A browser begins to close; only the Alloy style asks DoClose.
BeginClose(x) ==
  /\ browser[x] = "live"
  /\ browser' = [browser EXCEPT ![x] = "closing"]
  /\ Post(IF x \in Alloy THEN DoClose(x) ELSE <<>>)
  /\ UNCHANGED <<phase, quit, managerVars, windowVars>>

\* CloseBrowser(false), posted by the main thread.  The page's onbeforeunload
\* may refuse.
CloseBrowser ==
  LET x == Head(uiQueue).x
  IN  /\ NextUi("close")
      /\ uiQueue' = Tail(uiQueue)
      /\ \/ BeginClose(x)
         \/ UNCHANGED <<phase, quit, mainQueue, queuedTasks, managerVars,
                        windowVars, browser>>

\* window.close() in the page, or the user closes a window Chromium owns.
ScriptCloses(x) ==
  /\ x \in hwnd \union Other
  /\ BeginClose(x) /\ UNCHANGED uiQueue

\* OnAfterCreated of a browser with a window: NotifyBrowserCreated.  A popup
\* comes to life only while its opener does.
OnAfterCreated(w) ==
  /\ browser[w] = "pending"
  /\ w \in Popup => browser[OpenerOf[w]] \in {"live", "closing"}
  /\ browser' = [browser EXCEPT ![w] = "live"]
  /\ Post(<<Task("created", w)>>)
  /\ UNCHANGED <<phase, quit, uiQueue, managerVars, windowVars>>

\* OnAfterCreated of another browser, opened by one that is alive.
OnOtherAfterCreated(o) ==
  /\ browser[o] = "none" /\ browser[OpenerOf[o]] = "live"
  /\ browser' = [browser EXCEPT ![o] = "live"]
  /\ Post(<<[do |-> "otherCreated", o |-> o]>>)
  /\ UNCHANGED <<phase, quit, uiQueue, managerVars, windowVars>>

\* DefaultClientHandler::OnBeforePopup: CreateRootWindowAsPopup.
OnBeforePopup(w) ==
  /\ w \in Popup /\ browser[w] = "none" /\ browser[OpenerOf[w]] = "live"
  /\ browser' = [browser EXCEPT ![w] = "pending"]
  /\ Post(<<Task("rootCreated", w)>>)
  /\ UNCHANGED <<phase, quit, uiQueue, managerVars, windowVars>>

Abort(opener, p) == [do |-> "abort", opener |-> opener, p |-> p]

\* OnBeforePopupAborted: the creation of an allowed popup fails.
OnBeforePopupAborted(w) ==
  /\ w \in Popup /\ browser[w] = "pending"
  /\ browser' = [browser EXCEPT ![w] = "aborted"]
  /\ Post(<<Abort(OpenerOf[w], w)>>)
  /\ UNCHANGED <<phase, quit, uiQueue, managerVars, windowVars>>

\* Mutated form: every browser is reported as one without a window.
BeforeCloseTasksAsOther(x) == <<Abort(x, AllPopups), [do |-> "otherClosed", o |-> x]>>

\* What OnBeforeClose posts: the popups go, then the window or the manager
\* hears of the browser.
BeforeCloseTasks(x) ==
  <<Abort(x, AllPopups),
    IF x \in Window THEN Task("closed", x) ELSE [do |-> "otherClosed", o |-> x]>>

\* OnBeforeClose.  Chromium destroys the browser once it has agreed to close
\* and, if its window is a child of ours, that one is destroyed; it aborts the
\* pending popups in the same breath.
OnBeforeClose(x) ==
  LET pending == {p \in Popup : OpenerOf[p] = x /\ browser[p] = "pending"}
  IN  /\ \/ browser[x] = "closing" /\ x \notin Alloy
         \/ browser[x] \in {"live", "closing"} /\ x \in windowDestroyed
      /\ browser' = [y \in Browser |-> IF y = x THEN "closed"
                                       ELSE IF y \in pending THEN "aborted"
                                       ELSE browser[y]]
      /\ Post(BeforeCloseTasks(x) \o SetToSeq({Abort(x, p) : p \in pending}))
      /\ UNCHANGED <<phase, quit, uiQueue, managerVars, windowVars>>

----------------------------------------------------------------------------
MainStep ==
  \/ ContinueInitOnMainThread \/ OnRootWindowCreated
  \/ OnBrowserCreated \/ OnBrowserClosing \/ OnBrowserClosed
  \/ CloseByForce \/ ReceiveClose \/ OnAbortOrClosePopup
  \/ OtherBrowserCreated \/ OtherBrowserClosed \/ PostQuitMessage

UiStep == ContinueInitOnUIThread \/ CleanupOnUIThread \/ CloseBrowser

BrowserStep ==
  \/ \E w \in Window : OnAfterCreated(w) \/ OnBeforePopup(w) \/ OnBeforePopupAborted(w)
  \/ \E o \in Other : OnOtherAfterCreated(o)
  \/ \E x \in Browser : ScriptCloses(x) \/ OnBeforeClose(x)

Next ==
  \/ Run \/ MainStep \/ LoopEnds
  \/ UiStep \/ BrowserStep
  \/ UserCloses(rootWindows) \/ \E w \in Window : UserCloses({w})

Spec == Init /\ [][Next]_vars

\* The program may also be started again.
RelaunchSpec == Init /\ [][Next \/ \E w \in Window : Relaunch(w)]_vars

\* Both threads serve their queues, a browser that was asked for is created
\* or fails, and one that agreed to close is destroyed.
Fairness ==
  /\ WF_vars(Run) /\ WF_vars(MainStep) /\ WF_vars(LoopEnds) /\ WF_vars(UiStep)
  /\ \A w \in Window : WF_vars(OnAfterCreated(w) \/ OnBeforePopupAborted(w))
  /\ \A x \in Browser : WF_vars(OnBeforeClose(x))

FairSpec == Spec /\ Fairness

----------------------------------------------------------------------------
Gone(x) == browser[x] \in {"none", "closed", "aborted"}

(* The program quits after its last window and browser: MaybeCleanup counts
   root windows and other browsers on the main thread, while browsers come and
   go on the UI thread and what the main thread knows of them is in flight. *)
QuitOnlyWhenAllClosed ==
  quit => rootWindows = {} /\ \A x \in Browser : Gone(x)

(* Nothing is posted to the loop after it ended, where it would stay in
   queued_tasks_: ~MainMessageLoopMultithreadedWin checks that it is empty. *)
NothingPostedAfterLoop == phase = "ended" => queuedTasks = <<>>

CountTasks(do) == Cardinality({i \in DOMAIN mainQueue : mainQueue[i].do = do})
                    + Cardinality({i \in DOMAIN queuedTasks : queuedTasks[i].do = do})

(* other_browser_ct_ is the number of browsers without a window, up to the
   notifications that are in flight, and each is known to its opener: the
   DCHECKs of OtherBrowserClosed. *)
OtherBrowsersAreCounted ==
  /\ otherCt + CountTasks("otherCreated")
       = Cardinality({o \in Other : browser[o] \in {"live", "closing"}})
           + CountTasks("otherClosed")
  /\ otherCt = Cardinality(otherOwners)

(* A notification bound to a ClientHandler calls its delegate by a raw pointer
   into the RootWindow: until it ran the manager keeps the window, or has the
   task that stores it earlier in the queue. *)
NotificationFindsWindow ==
  \A i \in DOMAIN mainQueue :
    LET t == mainQueue[i]
    IN  t.do \in {"created", "closing", "closed"} =>
          \/ t.w \in rootWindows
          \/ \E j \in 1..(i - 1) : mainQueue[j] = Task("rootCreated", t.w)

(* The manager drops its reference to a window only once both destructions were
   noted, as ~RootWindowWin asserts, and the native window and the browser are
   gone in fact, whatever closes and destructions cross on the two threads.
   The second case is against that assertion: OnAbortOrClosePopup drops a popup
   that was aborted before it had a window, with neither noted. *)
ForgetsOnlyClosedWindows ==
  [][\A w \in rootWindows \ rootWindows' :
       \/ /\ w \in windowDestroyed' \intersect browserDestroyed'
          /\ w \notin hwnd' /\ browser[w] = "closed"
       \/ w \notin windowCreated /\ browser[w] = "aborted"]_vars

(* The main thread comes to rest only while a browser lives: with nothing left
   to do it was told to quit, or one is being created, is open, or has agreed
   to close and Chromium is about to destroy it.  No window that is over is
   kept for want of a message. *)
IdleOnlyWhileAlive ==
  phase = "running" /\ mainQueue = <<>> /\ uiQueue = <<>> =>
    \/ quit
    \/ \E x \in Browser :
         \/ browser[x] \in {"pending", "live"}
         \/ browser[x] = "closing" /\ x \in (Browser \ Alloy) \union windowDestroyed

(* A browser that agreed to close takes its window with it: the WM_CLOSE that
   DoClose leads to is not answered with another CloseBrowser. *)
ClosingTakesWindow ==
  \A w \in Window : browser[w] = "closing" ~> w \notin rootWindows

(* When everything is closed the program ends. *)
EndsWhenAllClosed ==
  (browser[First] = "closed" /\ \A x \in Browser : Gone(x))
    ~> (phase = "ended" \/ \E x \in Browser : ~Gone(x))

============================================================================
