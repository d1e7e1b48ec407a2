----------------------- MODULE RootWindowManagerProofs -----------------------
(***************************************************************************)
(* Proofs about RootWindowManager, for any number of windows, popups and   *)
(* browsers without a window, whoever opens whom, and every interleaving   *)
(* of the two threads.                                                     *)
(***************************************************************************)
EXTENDS RootWindowManager, QueueLemmas, FiniteSetTheorems

----------------------------------------------------------------------------
(* The tasks of the main thread, the order they keep, and what they say. *)

OtherTask(do, o) == [do |-> do, o |-> o]
QuitTask         == [do |-> "quit"]
CleanupTask      == [do |-> "cleanup"]

\* What tells the main thread of a browser, and of its end.
Intro(x) == IF x \in Window THEN Task("rootCreated", x) ELSE OtherTask("otherCreated", x)
Outro(x) == IF x \in Window THEN Task("closed", x) ELSE OtherTask("otherClosed", x)

\* Tasks that are posted only once.
PostedOnce == [do: {"init", "created"}, w: Window]
                \union {Intro(x) : x \in Browser} \union {Outro(x) : x \in Browser}

\* <<a, b>> is in it if a is never behind b in the queue.
Before ==
  {<<a, a>> : a \in PostedOnce}
  \union {<<Intro(x), Outro(x)>> : x \in Browser}
  \union {<<Intro(w), Task(do, w)>> : w \in Window, do \in {"created", "closing"}}
  \union {<<Task(do, w), Outro(w)>> : w \in Window, do \in {"created", "closing"}}
  \union {<<Task("created", p), Abort(OpenerOf[p], AllPopups)>> : p \in Popup}
  \union {<<Intro(OpenerOf[x]), Intro(x)>> : x \in Popup \union Other}
  \union {<<Intro(x), Outro(OpenerOf[x])>> : x \in Popup \union Other}

\* The same of the UI thread.
UiBefore == {<<a, a>> : a \in UiTask \ [do: {"close"}, x: Browser]}

\* What the tasks of P are about.
Intros(P)      == {x \in Browser : Intro(x) \in P}
Outros(P)      == {x \in Browser : Outro(x) \in P}
Named(do, P)   == {w \in Window : Task(do, w) \in P}
Orphaned(P)    == {x \in Browser : Abort(x, AllPopups) \in P}
AbortedOf(P)   == {p \in Popup : \E x \in Browser : Abort(x, p) \in P}

----------------------------------------------------------------------------
(* The inductive invariant. *)

\* The tasks that the main thread has before it.
Waiting == ToSet(mainQueue) \union ToSet(queuedTasks)

\* The browsers without a window that the manager knows, and all it knows.
Known == {o \in Other : <<OpenerOf[o], o>> \in otherOwners}
Kept  == rootWindows \union Known

In(S) == {x \in Browser : browser[x] \in S}

\* The browsers whose end the main thread has not heard of.
Active == In({"live", "closing"}) \union Outros(Waiting)

\* MaybeCleanup found nothing.
Finishing == CleanupTask \in ToSet(uiQueue) \/ QuitTask \in Waiting \/ quit

\* The types; otherCt counts the known browsers.
Types ==
  /\ phase \in {"starting", "running", "ended"} /\ quit \in BOOLEAN
  /\ mainQueue \in Seq(MainTask) /\ queuedTasks \in Seq(MainTask)
  /\ uiQueue \in Seq(UiTask)
  /\ rootWindows \subseteq Window
  /\ otherOwners \subseteq {<<OpenerOf[o], o>> : o \in Other}
  /\ otherCt = Cardinality(Known)
  /\ hwnd \subseteq Window /\ windowCreated \subseteq Window
  /\ windowDestroyed \subseteq Window /\ browserDestroyed \subseteq Window
  /\ attached \subseteq Window /\ isClosing \subseteq Window
  /\ browser \in [Browser -> {"none", "pending", "live", "closing", "closed", "aborted"}]

\* Where the tasks are, and in which order.
QueueInv ==
  /\ phase = "starting" => mainQueue = <<>>
  /\ phase = "running" => queuedTasks = <<>>
  /\ phase = "ended" => mainQueue = <<>> /\ queuedTasks = <<>> /\ quit
  /\ InOrder(mainQueue, Before) /\ InOrder(queuedTasks, Before)
  /\ InOrder(uiQueue, UiBefore)

\* What the manager knows, or will hear of, about every browser.
BookInv ==
  /\ Kept \intersect Intros(Waiting) = {}
  /\ Active \union In({"pending"}) \subseteq Kept \union Intros(Waiting)
  /\ Outros(Waiting) \subseteq In({"closed"})
  /\ (Intros(Waiting) \union (Popup \intersect rootWindows)) \intersect In({"none"}) = {}
  /\ Named("created", Waiting) \union Named("closing", Waiting) \subseteq Active
  /\ \A x \in Intros(Waiting) :
       x \in Popup \union Other /\ OpenerOf[x] # x /\ OpenerOf[x] \in Active
  /\ Known \union (Other \intersect Intros(Waiting)) \subseteq Active

\* What the windows are in, and what is on its way to them.
WindowInv ==
  /\ browserDestroyed \subseteq In({"closed"}) \ Outros(Waiting)
  /\ Popup \intersect In({"live", "closing", "closed"})
       = Popup \intersect (Named("created", Waiting) \union windowCreated)
  /\ Popup \intersect Named("created", Waiting) \intersect windowCreated = {}
  /\ windowDestroyed \subseteq windowCreated /\ hwnd \subseteq windowCreated
  /\ hwnd \intersect windowDestroyed = {} /\ hwnd \subseteq rootWindows
  /\ \A p \in Popup : browser[p] = "pending" => browser[OpenerOf[p]] \in {"live", "closing"}
  /\ Orphaned(Waiting) \subseteq In({"closed"})
  /\ AbortedOf(Waiting) \subseteq In({"aborted"})
  /\ Named("init", Waiting) \union Named("init", ToSet(uiQueue))
       \subseteq ({First} \intersect In({"none"}) \intersect rootWindows) \ windowCreated
  /\ Named("init", Waiting) \intersect Named("init", ToSet(uiQueue)) = {}

\* The program comes to its end once.
QuitInv ==
  /\ Finishing => Kept = {}
  /\ CleanupTask \in ToSet(uiQueue) => QuitTask \notin Waiting /\ ~quit

WindowsInv == Types /\ QueueInv /\ BookInv /\ WindowInv /\ QuitInv

----------------------------------------------------------------------------
(* The order of a queue. *)

(* Tasks none of which must be before another one are in order. *)
LEMMA IdleOrder ==
  ASSUME NEW S, NEW r \in Seq(S), NEW R,
         \A s \in ToSet(r), t \in ToSet(r) : <<t, s>> \notin R
  PROVE  InOrder(r, R)
BY DEF InOrder, ToSet

(* One task is in order, and so are two that may stand like that. *)
LEMMA FewSet ==
  ASSUME NEW S, NEW a \in S, NEW b \in S
  PROVE  /\ <<a>> \in Seq(S) /\ ToSet(<<a>>) = {a}
         /\ <<a, b>> \in Seq(S) /\ ToSet(<<a, b>>) = {a, b}
<1>1. <<a>> \in Seq(S) /\ DOMAIN <<a>> = {1} /\ <<a>>[1] = a
  OBVIOUS
<1>2. <<a, b>> \in Seq(S) /\ DOMAIN <<a, b>> = {1, 2} /\ <<a, b>>[1] = a /\ <<a, b>>[2] = b
  OBVIOUS
<1>3. ToSet(<<a>>) = {a}
  BY <1>1 DEF ToSet
<1>4. ToSet(<<a, b>>) = {a, b}
  BY <1>2 DEF ToSet
<1> QED
  BY <1>1, <1>2, <1>3, <1>4

LEMMA OneOrder ==
  ASSUME NEW a, NEW R
  PROVE  InOrder(<<a>>, R)
<1>1. DOMAIN <<a>> = {1}
  OBVIOUS
<1> QED
  BY <1>1 DEF InOrder

LEMMA FewOrder ==
  ASSUME NEW a, NEW b, NEW R, <<b, a>> \notin R
  PROVE  InOrder(<<a>>, R) /\ InOrder(<<a, b>>, R)
<1>1. DOMAIN <<a>> = {1} /\ DOMAIN <<a, b>> = {1, 2} /\ <<a, b>>[1] = a /\ <<a, b>>[2] = b
  OBVIOUS
<1>2. InOrder(<<a>>, R)
  BY <1>1 DEF InOrder
<1>3. InOrder(<<a, b>>, R)
  BY <1>1 DEF InOrder
<1> QED
  BY <1>2, <1>3

(* The elements of a finite set in a sequence. *)
LEMMA SetToSeqFacts ==
  ASSUME NEW S, IsFiniteSet(S)
  PROVE  SetToSeq(S) \in Seq(S) /\ ToSet(SetToSeq(S)) = S
<1> DEFINE n == Cardinality(S)
<1>1. n \in Nat /\ ExistsBijection(1..n, S)
  BY FS_CardinalityType
<1>2. PICK f \in Bijection(1..n, S) : TRUE
  BY <1>1 DEF ExistsBijection
<1>3. f \in [1..n -> S] /\ IsInjective(f)
  BY <1>2 DEF Bijection, Injection, IsInjective
<1>4. SetToSeq(S) \in [1..n -> S] /\ IsInjective(SetToSeq(S))
  BY <1>3, Zenon DEF SetToSeq
<1> DEFINE g == SetToSeq(S)
<1>5. g \in Injection(1..n, S)
  BY <1>4 DEF Injection, IsInjective
<1>6. Cardinality(1..n) = n
  BY <1>1, FS_Interval
<1>7. g \in Surjection(1..n, S)
  BY <1>5, <1>6, FS_Injection
<1>8. ToSet(g) = S
  <2> HIDE DEF g
  <2> QED
    BY <1>4, <1>7 DEF ToSet, Surjection, g
<1>9. g \in Seq(S)
  BY <1>1, <1>4
<1> QED
  BY <1>8, <1>9

----------------------------------------------------------------------------
(* Tasks. *)

(* The fields of a task, which tell it from every other one. *)
LEMMA TaskFields ==
  /\ \A do, w : Task(do, w).do = do /\ Task(do, w).w = w
  /\ \A do, o : OtherTask(do, o).do = do /\ OtherTask(do, o).o = o
  /\ \A x, p : Abort(x, p).do = "abort" /\ Abort(x, p).opener = x /\ Abort(x, p).p = p
  /\ QuitTask.do = "quit" /\ CleanupTask.do = "cleanup"
BY DEF Task, OtherTask, Abort, QuitTask, CleanupTask

(* Intro and Outro of windows and of others. *)
LEMMA IntroOutro ==
  /\ \A w \in Window : Intro(w) = Task("rootCreated", w) /\ Outro(w) = Task("closed", w)
  /\ \A o \in Other : /\ Intro(o) = OtherTask("otherCreated", o)
                      /\ Outro(o) = OtherTask("otherClosed", o)
  /\ \A x \in Browser : /\ Intro(x).do \in {"rootCreated", "otherCreated"}
                        /\ Outro(x).do \in {"closed", "otherClosed"}
  /\ \A x, y \in Browser : (Intro(x) = Intro(y) => x = y) /\ (Outro(x) = Outro(y) => x = y)
  /\ Browser = Window \union Other /\ Window \intersect Other = {}
  /\ Popup \subseteq Window /\ First \in Window /\ First \notin Popup
  /\ \A x \in Popup \union Other : OpenerOf[x] \in Browser
<1>1. /\ Browser = Window \union Other /\ Window \intersect Other = {}
      /\ Popup \subseteq Window /\ First \in Window /\ First \notin Popup
      /\ \A x \in Popup \union Other : OpenerOf[x] \in Browser
  BY WindowsAssumption DEF Browser
<1>2. \A w \in Window : Intro(w) = Task("rootCreated", w) /\ Outro(w) = Task("closed", w)
  BY DEF Intro, Outro
<1>3. \A o \in Other : /\ Intro(o) = OtherTask("otherCreated", o)
                       /\ Outro(o) = OtherTask("otherClosed", o)
  BY <1>1 DEF Intro, Outro
<1>4. \A x \in Browser : /\ Intro(x).do \in {"rootCreated", "otherCreated"}
                         /\ Outro(x).do \in {"closed", "otherClosed"}
  BY <1>1, <1>2, <1>3, TaskFields
<1>5. \A x, y \in Browser : (Intro(x) = Intro(y) => x = y) /\ (Outro(x) = Outro(y) => x = y)
  BY <1>1, <1>2, <1>3, TaskFields
<1> QED
  BY <1>1, <1>2, <1>3, <1>4, <1>5

\* What P tells: of whom it is the Intro, the Outro, and so on.
Says(P, intro, outro, created, closing, init, orphaned, aborted) ==
  /\ Intros(P) = intro /\ Outros(P) = outro
  /\ Named("created", P) = created /\ Named("closing", P) = closing
  /\ Named("init", P) = init
  /\ Orphaned(P) = orphaned /\ AbortedOf(P) = aborted

(* Two sets say what each of them says. *)
LEMMA SaysBoth ==
  ASSUME NEW P, NEW R
  PROVE  Says(P \union R, Intros(P) \union Intros(R), Outros(P) \union Outros(R),
              Named("created", P) \union Named("created", R),
              Named("closing", P) \union Named("closing", R),
              Named("init", P) \union Named("init", R),
              Orphaned(P) \union Orphaned(R), AbortedOf(P) \union AbortedOf(R))
<1>1. /\ Intros(P \union R) = Intros(P) \union Intros(R)
      /\ Outros(P \union R) = Outros(P) \union Outros(R)
      /\ \A do : Named(do, P \union R) = Named(do, P) \union Named(do, R)
  BY DEF Intros, Outros, Named
<1>2. /\ Orphaned(P \union R) = Orphaned(P) \union Orphaned(R)
      /\ AbortedOf(P \union R) = AbortedOf(P) \union AbortedOf(R)
  BY DEF Orphaned, AbortedOf
<1> QED
  BY <1>1, <1>2 DEF Says

LEMMA SaysMore ==
  ASSUME NEW P, NEW Q, NEW R, Q = P \union R,
         NEW intro, NEW outro, NEW created, NEW closing, NEW init, NEW orphaned, NEW aborted,
         Says(R, intro, outro, created, closing, init, orphaned, aborted)
  PROVE  /\ Says(Q, Intros(P) \union intro, Outros(P) \union outro,
                 Named("created", P) \union created, Named("closing", P) \union closing,
                 Named("init", P) \union init,
                 Orphaned(P) \union orphaned, AbortedOf(P) \union aborted)
         /\ \A S : S \union {} = S /\ {} \union S = S
<1>1. \A S : S \union {} = S /\ {} \union S = S
  OBVIOUS
<1>2. Says(P \union R, Intros(P) \union Intros(R), Outros(P) \union Outros(R),
              Named("created", P) \union Named("created", R),
              Named("closing", P) \union Named("closing", R),
              Named("init", P) \union Named("init", R),
              Orphaned(P) \union Orphaned(R), AbortedOf(P) \union AbortedOf(R))
  BY SaysBoth
<1> QED
  BY <1>1, <1>2, Zenon DEF Says

LEMMA SaysNothing == Says({}, {}, {}, {}, {}, {}, {}, {})
BY DEF Says, Intros, Outros, Named, Orphaned, AbortedOf

(* One task. *)
LEMMA SaysWindowTask ==
  ASSUME NEW w \in Window, NEW do
  PROVE  Says({Task(do, w)},
              IF do = "rootCreated" THEN {w} ELSE {}, IF do = "closed" THEN {w} ELSE {},
              IF do = "created" THEN {w} ELSE {}, IF do = "closing" THEN {w} ELSE {},
              IF do = "init" THEN {w} ELSE {},
              IF do = "abort" THEN Orphaned({Task(do, w)}) ELSE {},
              IF do = "abort" THEN AbortedOf({Task(do, w)}) ELSE {})
<1> DEFINE P == {Task(do, w)}
<1>1. \A d : Named(d, P) = IF d = do THEN {w} ELSE {}
  BY TaskFields DEF Named
<1>2. Intros(P) = IF do = "rootCreated" THEN {w} ELSE {}
  <2>1. ASSUME NEW x \in Browser PROVE Intro(x) \in P <=> x = w /\ do = "rootCreated"
    <3>1. CASE x \in Window
      BY <3>1, IntroOutro, TaskFields
    <3>2. CASE x \in Other
      <4>1. Intro(x) = OtherTask("otherCreated", x) /\ x # w
        BY <3>2, IntroOutro
      <4>2. Intro(x) # Task(do, w)
        BY <4>1 DEF Task, OtherTask
      <4> QED
        BY <4>1, <4>2
    <3> QED
      BY <3>1, <3>2, IntroOutro
  <2>2. w \in Browser
    BY IntroOutro
  <2> HIDE DEF P
  <2> QED
    BY <2>1, <2>2 DEF Intros
<1>3. Outros(P) = IF do = "closed" THEN {w} ELSE {}
  <2>1. ASSUME NEW x \in Browser PROVE Outro(x) \in P <=> x = w /\ do = "closed"
    <3>1. CASE x \in Window
      BY <3>1, IntroOutro, TaskFields
    <3>2. CASE x \in Other
      <4>1. Outro(x) = OtherTask("otherClosed", x) /\ x # w
        BY <3>2, IntroOutro
      <4>2. Outro(x) # Task(do, w)
        BY <4>1 DEF Task, OtherTask
      <4> QED
        BY <4>1, <4>2
    <3> QED
      BY <3>1, <3>2, IntroOutro
  <2>2. w \in Browser
    BY IntroOutro
  <2> HIDE DEF P
  <2> QED
    BY <2>1, <2>2 DEF Outros
<1>4. do # "abort" => Orphaned(P) = {} /\ AbortedOf(P) = {}
  BY TaskFields DEF Orphaned, AbortedOf
<1> HIDE DEF P
<1> QED
  BY <1>1, <1>2, <1>3, <1>4, Zenon DEF Says, P

LEMMA SaysOtherTask ==
  ASSUME NEW o \in Other, NEW do \in {"otherCreated", "otherClosed"}
  PROVE  Says({OtherTask(do, o)}, IF do = "otherCreated" THEN {o} ELSE {},
              IF do = "otherClosed" THEN {o} ELSE {}, {}, {}, {}, {}, {})
<1> DEFINE P == {OtherTask(do, o)}
<1>0. OtherTask(do, o).do \notin {"rootCreated", "closed", "created", "closing", "init", "abort"}
  BY TaskFields
<1>1. Named("created", P) = {} /\ Named("closing", P) = {} /\ Named("init", P) = {}
  BY <1>0, TaskFields DEF Named
<1>2. Orphaned(P) = {} /\ AbortedOf(P) = {}
  BY <1>0, TaskFields DEF Orphaned, AbortedOf
<1>3. ASSUME NEW x \in Browser
      PROVE  /\ Intro(x) \in P <=> x = o /\ do = "otherCreated"
             /\ Outro(x) \in P <=> x = o /\ do = "otherClosed"
  <2>1. CASE x \in Window
    <3>1. Intro(x).do = "rootCreated" /\ Outro(x).do = "closed" /\ x # o
      BY <2>1, IntroOutro, TaskFields
    <3> QED
      BY <1>0, <3>1
  <2>2. CASE x \in Other
    BY <2>2, IntroOutro, TaskFields
  <2> QED
    BY <2>1, <2>2, IntroOutro
<1>4. o \in Browser
  BY IntroOutro
<1> HIDE DEF P
<1>5. Intros(P) = IF do = "otherCreated" THEN {o} ELSE {}
  BY <1>3, <1>4 DEF Intros
<1>6. Outros(P) = IF do = "otherClosed" THEN {o} ELSE {}
  BY <1>3, <1>4 DEF Outros
<1> QED
  BY <1>1, <1>2, <1>5, <1>6, Zenon DEF Says, P

LEMMA SaysAbort ==
  ASSUME NEW x \in Browser, NEW p \in Popup \union {AllPopups}
  PROVE  Says({Abort(x, p)}, {}, {}, {}, {}, {},
              IF p = AllPopups THEN {x} ELSE {}, IF p = AllPopups THEN {} ELSE {p})
<1> DEFINE P == {Abort(x, p)}
<1>0. Abort(x, p).do \notin {"rootCreated", "closed", "created", "closing", "init",
                             "otherCreated", "otherClosed"}
  BY TaskFields
<1>1. Named("created", P) = {} /\ Named("closing", P) = {} /\ Named("init", P) = {}
  BY <1>0, TaskFields DEF Named
<1>2. Intros(P) = {} /\ Outros(P) = {}
  BY <1>0, IntroOutro DEF Intros, Outros
<1>3. AllPopups \notin Popup
  BY WindowsAssumption
<1>4. Orphaned(P) = IF p = AllPopups THEN {x} ELSE {}
  BY TaskFields DEF Orphaned
<1>5. AbortedOf(P) = IF p = AllPopups THEN {} ELSE {p}
  BY <1>3, TaskFields DEF AbortedOf
<1> HIDE DEF P
<1> QED
  BY <1>1, <1>2, <1>4, <1>5, Zenon DEF Says, P

LEMMA SaysQuit ==
  Says({QuitTask}, {}, {}, {}, {}, {}, {}, {})
<1>1. QuitTask.do = "quit"
  BY TaskFields
<1>2. \A do : do \in {"created", "closing", "init"} => Named(do, {QuitTask}) = {}
  BY <1>1, TaskFields DEF Named
<1>3. Intros({QuitTask}) = {} /\ Outros({QuitTask}) = {}
  BY <1>1, IntroOutro DEF Intros, Outros
<1>4. Orphaned({QuitTask}) = {} /\ AbortedOf({QuitTask}) = {}
  BY <1>1, TaskFields DEF Orphaned, AbortedOf
<1> QED
  BY <1>2, <1>3, <1>4 DEF Says

(* Which tasks there are. *)
LEMMA TaskTypes ==
  /\ \A w \in Window :
       /\ \A do \in {"init", "rootCreated", "created", "closing", "closed", "wmClose",
                     "destroy"} : Task(do, w) \in MainTask
       /\ Task("init", w) \in UiTask
  /\ \A o \in Other : OtherTask("otherCreated", o) \in MainTask
                      /\ OtherTask("otherClosed", o) \in MainTask
  /\ \A x \in Browser : /\ \A p \in Popup \union {AllPopups} : Abort(x, p) \in MainTask
                        /\ [do |-> "close", x |-> x] \in UiTask
                        /\ Intro(x) \in MainTask /\ Outro(x) \in MainTask
  /\ QuitTask \in MainTask /\ CleanupTask \in UiTask
<1>1. \A w \in Window :
       /\ \A do \in {"init", "rootCreated", "created", "closing", "closed", "wmClose",
                     "destroy"} : Task(do, w) \in MainTask
       /\ Task("init", w) \in UiTask
  BY DEF MainTask, UiTask, Task
<1>2. \A o \in Other : OtherTask("otherCreated", o) \in MainTask
                       /\ OtherTask("otherClosed", o) \in MainTask
  BY DEF MainTask, OtherTask
<1>3. \A x \in Browser : \A p \in Popup \union {AllPopups} : Abort(x, p) \in MainTask
  BY DEF MainTask, Abort
<1>4. \A x \in Browser : [do |-> "close", x |-> x] \in UiTask
  BY DEF UiTask
<1>5. QuitTask \in MainTask /\ CleanupTask \in UiTask
  BY DEF MainTask, UiTask, QuitTask, CleanupTask
<1>6. \A x \in Browser : Intro(x) \in MainTask /\ Outro(x) \in MainTask
  BY <1>1, <1>2, IntroOutro
<1> QED
  BY <1>1, <1>2, <1>3, <1>4, <1>5, <1>6

(* What a task is, by what it does. *)
LEMMA TaskShape ==
  ASSUME NEW t \in MainTask
  PROVE  /\ t.do \in {"init", "rootCreated", "created", "closing", "closed", "wmClose",
                      "destroy"} => t.w \in Window /\ t = Task(t.do, t.w)
         /\ t.do \in {"otherCreated", "otherClosed"} =>
              t.o \in Other /\ t = OtherTask(t.do, t.o)
         /\ t.do = "abort" => /\ t.opener \in Browser /\ t.p \in Popup \union {AllPopups}
                              /\ t = Abort(t.opener, t.p)
         /\ t.do = "quit" => t = QuitTask
<1>1. CASE t \in [do: {"init", "rootCreated", "created", "closing", "closed", "wmClose",
                       "destroy"}, w: Window]
  BY <1>1 DEF Task
<1>2. CASE t \in [do: {"otherCreated", "otherClosed"}, o: Other]
  BY <1>2 DEF OtherTask
<1>3. CASE t \in [do: {"abort"}, opener: Browser, p: Popup \union {AllPopups}]
  BY <1>3 DEF Abort
<1>4. CASE t \in [do: {"quit"}]
  BY <1>4 DEF QuitTask
<1> QED
  BY <1>1, <1>2, <1>3, <1>4 DEF MainTask

LEMMA UiShape ==
  ASSUME NEW t \in UiTask
  PROVE  /\ t.do = "init" => t.w \in Window /\ t = Task("init", t.w)
         /\ t.do = "close" => t.x \in Browser /\ t = [do |-> "close", x |-> t.x]
         /\ t.do = "cleanup" => t = CleanupTask
<1>1. CASE t \in [do: {"init"}, w: Window]
  BY <1>1 DEF Task
<1>2. CASE t \in [do: {"close"}, x: Browser]
  BY <1>2
<1>3. CASE t \in [do: {"cleanup"}]
  BY <1>3 DEF CleanupTask
<1> QED
  BY <1>1, <1>2, <1>3 DEF UiTask

----------------------------------------------------------------------------
(* What stands behind a task that is at the head. *)
LEMMA BehindHead ==
  ASSUME NEW P, NEW h, \A t \in P : <<t, h>> \notin Before
  PROVE  /\ \A x \in Browser : h = Intro(x) => x \notin Intros(P)
         /\ \A x \in Browser : h = Outro(x) =>
              /\ x \notin Outros(P) /\ x \notin Intros(P)
              /\ x \notin Named("created", P) /\ x \notin Named("closing", P)
              /\ \A y \in Popup \union Other : OpenerOf[y] = x => y \notin Intros(P)
         /\ \A w \in Window : h = Task("created", w) =>
              w \notin Named("created", P) /\ w \notin Intros(P)
         /\ \A w \in Window : h = Task("closing", w) => w \notin Intros(P)
         /\ \A w \in Window : h = Task("init", w) => w \notin Named("init", P)
         /\ \A x \in Browser : h = Abort(x, AllPopups) =>
              \A p \in Popup : OpenerOf[p] = x => p \notin Named("created", P)
<1>0. \A t \in {<<Intro(x), Intro(x)>> : x \in Browser} \union
               {<<Outro(x), Outro(x)>> : x \in Browser} \union
               {<<Task(do, w), Task(do, w)>> : w \in Window, do \in {"init", "created"}} :
        t \in Before
  BY DEF Before, PostedOnce, Task
<1>1. ASSUME NEW x \in Browser, h = Intro(x) PROVE x \notin Intros(P)
  <2>1. <<Intro(x), Intro(x)>> \in Before
    BY <1>0
  <2> QED
    BY <1>1, <2>1 DEF Intros
<1>2. ASSUME NEW x \in Browser, h = Outro(x)
      PROVE  /\ x \notin Outros(P) /\ x \notin Intros(P)
             /\ x \notin Named("created", P) /\ x \notin Named("closing", P)
             /\ \A y \in Popup \union Other : OpenerOf[y] = x => y \notin Intros(P)
  <2>1. x \notin Outros(P)
    <3>1. <<Outro(x), Outro(x)>> \in Before
      BY <1>0
    <3> QED
      BY <1>2, <3>1 DEF Outros
  <2>2. x \notin Intros(P)
    <3>1. <<Intro(x), Outro(x)>> \in Before
      BY DEF Before
    <3> QED
      BY <1>2, <3>1 DEF Intros
  <2>3. x \notin Named("created", P) /\ x \notin Named("closing", P)
    <3>1. x \in Window => /\ <<Task("created", x), Outro(x)>> \in Before
                          /\ <<Task("closing", x), Outro(x)>> \in Before
      BY DEF Before
    <3> QED
      BY <1>2, <3>1 DEF Named
  <2>4. ASSUME NEW y \in Popup \union Other, OpenerOf[y] = x PROVE y \notin Intros(P)
    <3>1. <<Intro(y), Outro(x)>> \in Before
      BY <2>4 DEF Before
    <3> QED
      BY <1>2, <3>1 DEF Intros
  <2> QED
    BY <2>1, <2>2, <2>3, <2>4
<1>3. ASSUME NEW w \in Window, h = Task("created", w)
      PROVE  w \notin Named("created", P) /\ w \notin Intros(P)
  <2>1. <<Task("created", w), Task("created", w)>> \in Before
    BY <1>0
  <2>2. <<Intro(w), Task("created", w)>> \in Before
    BY DEF Before
  <2> QED
    BY <1>3, <2>1, <2>2 DEF Named, Intros
<1>4. ASSUME NEW w \in Window, h = Task("closing", w) PROVE w \notin Intros(P)
  <2>1. <<Intro(w), Task("closing", w)>> \in Before
    BY DEF Before
  <2> QED
    BY <1>4, <2>1 DEF Intros
<1>5. ASSUME NEW w \in Window, h = Task("init", w) PROVE w \notin Named("init", P)
  <2>1. <<Task("init", w), Task("init", w)>> \in Before
    BY <1>0
  <2> QED
    BY <1>5, <2>1 DEF Named
<1>6. ASSUME NEW x \in Browser, h = Abort(x, AllPopups),
             NEW p \in Popup, OpenerOf[p] = x
      PROVE  p \notin Named("created", P)
  <2>1. <<Task("created", p), Abort(x, AllPopups)>> \in Before
    BY <1>6 DEF Before
  <2> QED
    BY <1>6, <2>1 DEF Named
<1> QED
  BY <1>1, <1>2, <1>3, <1>4, <1>5, <1>6

(* The pairs of Before. *)
LEMMA BeforeForms ==
  ASSUME NEW a, NEW b, <<a, b>> \in Before
  PROVE  \/ a = b /\ a \in PostedOnce
         \/ \E x \in Browser : a = Intro(x) /\ b = Outro(x)
         \/ \E w \in Window, do \in {"created", "closing"} : a = Intro(w) /\ b = Task(do, w)
         \/ \E w \in Window, do \in {"created", "closing"} : a = Task(do, w) /\ b = Outro(w)
         \/ \E p \in Popup : a = Task("created", p) /\ b = Abort(OpenerOf[p], AllPopups)
         \/ \E x \in Popup \union Other : a = Intro(OpenerOf[x]) /\ b = Intro(x)
         \/ \E x \in Popup \union Other : a = Intro(x) /\ b = Outro(OpenerOf[x])
<1>1. CASE <<a, b>> \in {<<c, c>> : c \in PostedOnce}
  BY <1>1
<1>2. CASE <<a, b>> \in {<<Intro(x), Outro(x)>> : x \in Browser}
  BY <1>2
<1>3. CASE <<a, b>> \in {<<Intro(w), Task(do, w)>> : w \in Window, do \in {"created", "closing"}}
  BY <1>3
<1>4. CASE <<a, b>> \in {<<Task(do, w), Outro(w)>> : w \in Window, do \in {"created", "closing"}}
  BY <1>4
<1>5. CASE <<a, b>> \in {<<Task("created", p), Abort(OpenerOf[p], AllPopups)>> : p \in Popup}
  BY <1>5
<1>6. CASE <<a, b>> \in {<<Intro(OpenerOf[x]), Intro(x)>> : x \in Popup \union Other}
  BY <1>6
<1>7. CASE <<a, b>> \in {<<Intro(x), Outro(OpenerOf[x])>> : x \in Popup \union Other}
  BY <1>7
<1> QED
  BY <1>1, <1>2, <1>3, <1>4, <1>5, <1>6, <1>7 DEF Before

(* What must not be in the queue when a task is posted. *)
LEMMA BeforeIntro ==
  ASSUME NEW P, NEW x \in Browser, x \notin Intros(P), x \notin Outros(P),
         x \notin Named("created", P), x \notin Named("closing", P),
         \A y \in Popup \union Other : y \in Intros(P) => OpenerOf[y] # x,
         x \in Popup \union Other => OpenerOf[x] \notin Outros(P),
         NEW s \in P
  PROVE  <<Intro(x), s>> \notin Before
<1> SUFFICES ASSUME <<Intro(x), s>> \in Before PROVE FALSE
  OBVIOUS
<1>0. \A y \in Browser : \A w :
        /\ Intro(x) # Outro(y) /\ Intro(x) # Task("created", w)
        /\ Intro(x) # Task("closing", w) /\ Intro(x) # Task("init", w)
  BY IntroOutro, TaskFields
<1>1. CASE s = Intro(x)
  BY <1>1 DEF Intros
<1>2. CASE \E y \in Browser : Intro(x) = Intro(y) /\ s = Outro(y)
  BY <1>2, IntroOutro DEF Outros
<1>3. CASE \E w \in Window, do \in {"created", "closing"} : Intro(x) = Intro(w) /\ s = Task(do, w)
  BY <1>3, IntroOutro DEF Named
<1>4. CASE \E y \in Popup \union Other : Intro(x) = Intro(OpenerOf[y]) /\ s = Intro(y)
  BY <1>4, IntroOutro DEF Intros
<1>5. CASE \E y \in Popup \union Other : Intro(x) = Intro(y) /\ s = Outro(OpenerOf[y])
  BY <1>5, IntroOutro DEF Outros
<1> QED
  <2>1. ~ \E w \in Window, do \in {"created", "closing"} : Intro(x) = Task(do, w) /\ s = Outro(w)
    BY <1>0
  <2>2. ~ \E p \in Popup : Intro(x) = Task("created", p) /\ s = Abort(OpenerOf[p], AllPopups)
    BY <1>0
  <2> QED
    BY <1>1, <1>2, <1>3, <1>4, <1>5, <2>1, <2>2, BeforeForms, Zenon

LEMMA BeforeOthers ==
  ASSUME NEW P, NEW s \in P
  PROVE  /\ \A x \in Browser : x \notin Outros(P) => <<Outro(x), s>> \notin Before
         /\ \A w \in Window : w \notin Named("init", P) => <<Task("init", w), s>> \notin Before
         /\ \A w \in Window :
              /\ w \notin Named("created", P) /\ w \notin Outros(P)
              /\ w \in Popup => OpenerOf[w] \notin Orphaned(P)
              => <<Task("created", w), s>> \notin Before
         /\ \A w \in Window : w \notin Outros(P) => <<Task("closing", w), s>> \notin Before
         /\ \A t : t.do \in {"wmClose", "destroy", "abort", "quit"} => <<t, s>> \notin Before
<1>1. \A a, b : <<a, b>> \in Before =>
        \/ a = b /\ a \in PostedOnce
        \/ \E x \in Browser : a = Intro(x)
        \/ \E w \in Window : a = Task("created", w) /\ b = Outro(w)
        \/ \E w \in Window : a = Task("closing", w) /\ b = Outro(w)
        \/ \E p \in Popup : a = Task("created", p) /\ b = Abort(OpenerOf[p], AllPopups)
  <2>1. \A x \in Popup \union Other : OpenerOf[x] \in Browser /\ x \in Browser
    BY IntroOutro
  <2>2. Window \subseteq Browser
    BY IntroOutro
  <2>3. SUFFICES ASSUME NEW a, NEW b, <<a, b>> \in Before
                 PROVE  \/ a = b /\ a \in PostedOnce
                        \/ \E x \in Browser : a = Intro(x)
                        \/ \E w \in Window : a = Task("created", w) /\ b = Outro(w)
                        \/ \E w \in Window : a = Task("closing", w) /\ b = Outro(w)
                        \/ \E p \in Popup : a = Task("created", p)
                                            /\ b = Abort(OpenerOf[p], AllPopups)
    OBVIOUS
  <2>4. (\E w \in Window, do \in {"created", "closing"} : a = Task(do, w) /\ b = Outro(w)) =>
          \/ \E w \in Window : a = Task("created", w) /\ b = Outro(w)
          \/ \E w \in Window : a = Task("closing", w) /\ b = Outro(w)
    OBVIOUS
  <2> QED
    BY <2>1, <2>2, <2>3, <2>4, BeforeForms
<1>2. \A x \in Browser : Intro(x).do \in {"rootCreated", "otherCreated"}
  BY IntroOutro
<1>3. \A a \in PostedOnce : a.do \in {"init", "created", "rootCreated", "otherCreated",
                                       "closed", "otherClosed"}
  BY IntroOutro DEF PostedOnce
<1>4. ASSUME NEW x \in Browser, x \notin Outros(P) PROVE <<Outro(x), s>> \notin Before
  <2>1. Outro(x).do \in {"closed", "otherClosed"} /\ Outro(x) \notin P
    BY <1>4, IntroOutro DEF Outros
  <2> QED
    BY <1>1, <1>2, <2>1, TaskFields
<1>5. ASSUME NEW w \in Window, w \notin Named("init", P) PROVE <<Task("init", w), s>> \notin Before
  <2>1. Task("init", w) \notin P /\ Task("init", w).do = "init"
    BY <1>5, TaskFields DEF Named
  <2> QED
    BY <1>1, <1>2, <2>1, TaskFields
<1>6. ASSUME NEW w \in Window, w \notin Named("created", P), w \notin Outros(P),
             w \in Popup => OpenerOf[w] \notin Orphaned(P)
      PROVE  <<Task("created", w), s>> \notin Before
  <2>1. /\ Task("created", w) \notin P /\ Task("created", w).do = "created" /\ Outro(w) \notin P
        /\ w \in Popup => Abort(OpenerOf[w], AllPopups) \notin P
    BY <1>6, IntroOutro, TaskFields DEF Named, Outros, Orphaned
  <2> QED
    BY <1>1, <1>2, <2>1, TaskFields
<1>7. ASSUME NEW w \in Window, w \notin Outros(P) PROVE <<Task("closing", w), s>> \notin Before
  <2>1. Task("closing", w).do = "closing" /\ Outro(w) \notin P
    BY <1>7, IntroOutro, TaskFields DEF Outros
  <2> QED
    BY <1>1, <1>2, <1>3, <2>1, TaskFields
<1>8. ASSUME NEW t, t.do \in {"wmClose", "destroy", "abort", "quit"} PROVE <<t, s>> \notin Before
  BY <1>1, <1>2, <1>3, <1>8, TaskFields
<1> QED
  BY <1>4, <1>5, <1>6, <1>7, <1>8

(* Tasks that may stand behind anything. *)
LEMMA BeforeNothing ==
  ASSUME NEW t, t.do \in {"wmClose", "destroy", "abort", "quit"}, NEW s
  PROVE  <<t, s>> \notin Before
<1> DEFINE P == {s}
<1>1. s \in P
  OBVIOUS
<1> HIDE DEF P
<1> QED
  BY <1>1, BeforeOthers

----------------------------------------------------------------------------
(* What the invariant says. *)

(* One of the two queues of the main thread is empty. *)
LEMMA OneQueue ==
  ASSUME Types, QueueInv
  PROVE  \E q \in Seq(MainTask) : ToSet(q) = Waiting /\ InOrder(q, Before)
<1>1. mainQueue \in Seq(MainTask) /\ queuedTasks \in Seq(MainTask)
  BY DEF Types
<1>2. CASE mainQueue = <<>>
  <2>1. ToSet(queuedTasks) = Waiting
    BY <1>2, EmptySet DEF Waiting
  <2> QED
    BY <1>1, <2>1 DEF QueueInv
<1>3. CASE queuedTasks = <<>>
  <2>1. ToSet(mainQueue) = Waiting
    BY <1>3, EmptySet DEF Waiting
  <2> QED
    BY <1>1, <2>1 DEF QueueInv
<1> QED
  BY <1>2, <1>3 DEF Types, QueueInv

(* Somebody whom the manager does not know yet was opened by somebody it
   knows, or will hear of before: when it knows nobody, there is nobody. *)
LEMMA NobodyUnknown ==
  ASSUME Types, QueueInv, BookInv, Kept = {}
  PROVE  Intros(Waiting) = {} /\ Active = {} /\ In({"pending"}) = {}
<1>1. SUFFICES Intros(Waiting) = {}
  BY <1>1 DEF BookInv
<1>2. PICK q \in Seq(MainTask) : ToSet(q) = Waiting /\ InOrder(q, Before)
  BY OneQueue
<1> DEFINE at == {i \in DOMAIN q : \E x \in Browser : q[i] = Intro(x)}
<1>3. SUFFICES ASSUME at # {} PROVE FALSE
  <2>1. ASSUME NEW x \in Intros(Waiting) PROVE FALSE
    <3>1. x \in Browser /\ Intro(x) \in ToSet(q)
      BY <1>2, <2>1 DEF Intros
    <3>2. PICK i \in DOMAIN q : q[i] = Intro(x)
      BY <3>1, Zenon DEF ToSet
    <3>3. i \in at
      BY <3>1, <3>2
    <3> QED
      BY <1>3, <3>3
  <2> QED
    BY <2>1
<1>4. at \in SUBSET Nat
  BY <1>2
<1>5. PICK i \in at : \A j \in at : i <= j
  <2> HIDE DEF at
  <2> QED
    BY <1>3, <1>4, Least
<1>6. PICK y \in Browser : q[i] = Intro(y)
  BY <1>5
<1>7. y \in Intros(Waiting)
  <2>1. Intro(y) \in Waiting
    BY <1>2, <1>5, <1>6 DEF ToSet
  <2> QED
    BY <2>1 DEF Intros
<1>8. y \in Popup \union Other /\ OpenerOf[y] # y /\ OpenerOf[y] \in Active
  BY <1>7 DEF BookInv
<1>9. OpenerOf[y] \in Intros(Waiting)
  BY <1>8 DEF BookInv
<1>10. OpenerOf[y] \in Browser /\ Intro(OpenerOf[y]) \in ToSet(q)
  BY <1>2, <1>9 DEF Intros
<1>11. PICK j \in DOMAIN q : q[j] = Intro(OpenerOf[y])
  BY <1>10, Zenon DEF ToSet
<1>12. j \in at /\ i \in DOMAIN q
  BY <1>5, <1>10, <1>11
<1>13. i <= j /\ i # j
  BY <1>5, <1>6, <1>8, <1>10, <1>11, <1>12, IntroOutro
<1>14. <<q[j], q[i]>> \in Before
  <2>1. <<Intro(OpenerOf[y]), Intro(y)>> \in Before
    BY <1>8 DEF Before
  <2> QED
    BY <1>6, <1>11, <2>1
<1> QED
  <2>1. i < j
    BY <1>4, <1>12, <1>13
  <2> QED
    BY <1>2, <1>12, <1>14, <2>1 DEF InOrder

(* When the manager keeps nothing, everything is gone. *)
LEMMA Quiet ==
  ASSUME WindowsInv, Kept = {}
  PROVE  /\ Intros(Waiting) = {} /\ Outros(Waiting) = {} /\ Active = {}
         /\ Named("created", Waiting) = {} /\ Named("closing", Waiting) = {}
         /\ Named("init", Waiting) = {} /\ Named("init", ToSet(uiQueue)) = {}
         /\ hwnd = {} /\ rootWindows = {} /\ Known = {}
         /\ \A x \in Browser : Gone(x)
<1>1. Intros(Waiting) = {} /\ Active = {} /\ In({"pending"}) = {}
  BY NobodyUnknown DEF WindowsInv
<1>2. rootWindows = {} /\ Known = {}
  BY DEF Kept
<1>3. ASSUME NEW x \in Browser PROVE Gone(x)
  <2>1. browser[x] \notin {"live", "closing", "pending"}
    BY <1>1 DEF Active, In
  <2> QED
    BY <2>1 DEF WindowsInv, Types, Gone
<1> QED
  BY <1>1, <1>2, <1>3 DEF WindowsInv, BookInv, WindowInv, Active

(* While there is a browser, or one is on its way, the program does not end. *)
LEMMA NotFinishing ==
  ASSUME WindowsInv, Active \union In({"pending"}) \union Kept # {}
  PROVE  ~Finishing /\ phase # "ended" /\ ~quit
<1>1. Kept # {}
  BY NobodyUnknown DEF WindowsInv
<1>2. ~Finishing
  BY <1>1 DEF WindowsInv, QuitInv
<1> QED
  BY <1>2 DEF Finishing, WindowsInv, QueueInv

----------------------------------------------------------------------------
(* Posting and taking. *)

LEMMA ConcatEmpty == ASSUME NEW S, NEW q \in Seq(S) PROVE q \o <<>> = q
OBVIOUS

(* Tasks are posted behind those that wait. *)
LEMMA PostFacts ==
  ASSUME Types, QueueInv, phase' = phase, NEW R \in Seq(MainTask), Post(R),
         InOrder(R, Before), \A s \in Waiting, t \in ToSet(R) : <<t, s>> \notin Before
  PROVE  /\ mainQueue' \in Seq(MainTask) /\ queuedTasks' \in Seq(MainTask)
         /\ phase = "starting" => mainQueue' = <<>>
         /\ phase = "running" => queuedTasks' = <<>>
         /\ InOrder(mainQueue', Before) /\ InOrder(queuedTasks', Before)
         /\ Waiting' = Waiting \union ToSet(R)
<1>1. mainQueue \in Seq(MainTask) /\ queuedTasks \in Seq(MainTask)
  BY DEF Types
<1> DEFINE longer == mainQueue \o R
           later  == queuedTasks \o R
<1>2. /\ longer \in Seq(MainTask) /\ ToSet(longer) = ToSet(mainQueue) \union ToSet(R)
      /\ later \in Seq(MainTask) /\ ToSet(later) = ToSet(queuedTasks) \union ToSet(R)
  BY <1>1, ConcatSet
<1>3. InOrder(longer, Before) /\ InOrder(later, Before)
  <2>1. \A s \in ToSet(mainQueue) \union ToSet(queuedTasks), t \in ToSet(R) :
          <<t, s>> \notin Before
    BY DEF Waiting
  <2>2. InOrder(mainQueue, Before) /\ InOrder(queuedTasks, Before)
    BY DEF QueueInv
  <2> QED
    BY <1>1, <2>1, <2>2, ConcatOrder
<1>4. IF phase = "running" THEN mainQueue' = longer /\ queuedTasks' = queuedTasks
                           ELSE mainQueue' = mainQueue /\ queuedTasks' = later
  BY DEF Post, PostTo
<1> HIDE DEF longer, later
<1>5. Waiting' = ToSet(mainQueue') \union ToSet(queuedTasks')
  BY DEF Waiting
<1> QED
  BY <1>1, <1>2, <1>3, <1>4, <1>5 DEF QueueInv, Waiting

(* The main thread takes a task and posts others. *)
LEMMA TakeFacts ==
  ASSUME Types, QueueInv, phase = "running", mainQueue # <<>>,
         NEW R \in Seq(MainTask), mainQueue' = Tail(mainQueue) \o R,
         queuedTasks' = queuedTasks,
         InOrder(R, Before),
         \A s \in ToSet(Tail(mainQueue)), t \in ToSet(R) : <<t, s>> \notin Before
  PROVE  /\ mainQueue' \in Seq(MainTask) /\ queuedTasks' = <<>>
         /\ queuedTasks' \in Seq(MainTask)
         /\ InOrder(mainQueue', Before) /\ InOrder(queuedTasks', Before)
         /\ Waiting' = ToSet(Tail(mainQueue)) \union ToSet(R)
<1>1. mainQueue \in Seq(MainTask) /\ queuedTasks = <<>> /\ InOrder(mainQueue, Before)
  BY DEF Types, QueueInv
<1> DEFINE rest == Tail(mainQueue)
           longer == rest \o R
<1>2. rest \in Seq(MainTask) /\ InOrder(rest, Before)
  BY <1>1, TailSet, TailOrder
<1>3. longer \in Seq(MainTask) /\ ToSet(longer) = ToSet(rest) \union ToSet(R)
  <2> HIDE DEF rest
  <2> QED
    BY <1>2, ConcatSet
<1>4. InOrder(longer, Before)
  <2>1. \A s \in ToSet(rest), t \in ToSet(R) : <<t, s>> \notin Before
    OBVIOUS
  <2> HIDE DEF rest
  <2> QED
    BY <1>2, <2>1, ConcatOrder
<1>5. mainQueue' = longer
  OBVIOUS
<1> HIDE DEF longer
<1>6. ToSet(queuedTasks') = {} /\ queuedTasks' \in Seq(MainTask) /\ queuedTasks' = <<>>
  BY <1>1, EmptySet
<1>7. InOrder(queuedTasks', Before)
  BY <1>6, EmptyOrder
<1>8. Waiting' = ToSet(mainQueue') \union ToSet(queuedTasks')
  BY DEF Waiting
<1> QED
  BY <1>3, <1>4, <1>5, <1>6, <1>7, <1>8

(* The task that the main thread takes, and those that are behind it. *)
LEMMA HeadFacts ==
  ASSUME Types, QueueInv, phase = "running", mainQueue # <<>>
  PROVE  /\ Head(mainQueue) \in MainTask
         /\ Waiting = {Head(mainQueue)} \union ToSet(Tail(mainQueue))
         /\ ToSet(Tail(mainQueue)) \subseteq MainTask
         /\ \A t \in ToSet(Tail(mainQueue)) : <<t, Head(mainQueue)>> \notin Before
<1>1. mainQueue \in Seq(MainTask) /\ queuedTasks = <<>> /\ InOrder(mainQueue, Before)
  BY DEF Types, QueueInv
<1>2. ToSet(queuedTasks) = {}
  BY <1>1, EmptySet
<1>3. /\ Head(mainQueue) \in MainTask /\ Tail(mainQueue) \in Seq(MainTask)
      /\ ToSet(mainQueue) = {Head(mainQueue)} \union ToSet(Tail(mainQueue))
  BY <1>1, TailSet
<1>4. \A t \in ToSet(Tail(mainQueue)) : <<t, Head(mainQueue)>> \notin Before
  BY <1>1, TailOrder
<1>5. ToSet(Tail(mainQueue)) \subseteq MainTask
  BY <1>3, ToSetType
<1> QED
  BY <1>2, <1>3, <1>4, <1>5 DEF Waiting

(* The tasks of the UI thread are taken in their order. *)
LEMMA UiTakeFacts ==
  ASSUME Types, QueueInv, uiQueue # <<>>
  PROVE  /\ Tail(uiQueue) \in Seq(UiTask) /\ InOrder(Tail(uiQueue), UiBefore)
         /\ Head(uiQueue) \in UiTask
         /\ ToSet(uiQueue) = {Head(uiQueue)} \union ToSet(Tail(uiQueue))
         /\ Head(uiQueue).do # "close" => Head(uiQueue) \notin ToSet(Tail(uiQueue))
<1>1. uiQueue \in Seq(UiTask) /\ InOrder(uiQueue, UiBefore)
  BY DEF Types, QueueInv
<1>2. /\ Tail(uiQueue) \in Seq(UiTask) /\ Head(uiQueue) \in UiTask
      /\ ToSet(uiQueue) = {Head(uiQueue)} \union ToSet(Tail(uiQueue))
  BY <1>1, TailSet
<1>3. /\ InOrder(Tail(uiQueue), UiBefore)
      /\ \A t \in ToSet(Tail(uiQueue)) : <<t, Head(uiQueue)>> \notin UiBefore
  BY <1>1, TailOrder
<1>4. ASSUME Head(uiQueue).do # "close" PROVE Head(uiQueue) \notin ToSet(Tail(uiQueue))
  <2>1. Head(uiQueue) \notin [do: {"close"}, x: Browser]
    BY <1>4
  <2>2. <<Head(uiQueue), Head(uiQueue)>> \in UiBefore
    BY <1>2, <2>1 DEF UiBefore
  <2> QED
    BY <1>3, <2>2
<1> QED
  BY <1>2, <1>3, <1>4

(* What MaybeCleanup does to the UI thread's queue q. *)
LEMMA CleanupFacts ==
  ASSUME NEW q \in Seq(UiTask), InOrder(q, UiBefore), NEW S, NEW n,
         S = {} /\ n = 0 => CleanupTask \notin ToSet(q)
  PROVE  /\ MaybeCleanup(S, n, q) \in Seq(UiTask)
         /\ InOrder(MaybeCleanup(S, n, q), UiBefore)
         /\ ToSet(MaybeCleanup(S, n, q)) =
              IF S = {} /\ n = 0 THEN ToSet(q) \union {CleanupTask} ELSE ToSet(q)
<1>1. CASE S = {} /\ n = 0
  <2> DEFINE longer == q \o <<CleanupTask>>
  <2>1. MaybeCleanup(S, n, q) = Append(q, CleanupTask)
    BY <1>1 DEF MaybeCleanup, CleanupTask
  <2>2. CleanupTask \in UiTask /\ <<CleanupTask>> \in Seq(UiTask)
        /\ ToSet(<<CleanupTask>>) = {CleanupTask}
    BY TaskTypes, FewSet
  <2>3. Append(q, CleanupTask) \in Seq(UiTask)
        /\ ToSet(Append(q, CleanupTask)) = ToSet(q) \union {CleanupTask}
    BY <2>2, AppendSet
  <2>4. Append(q, CleanupTask) = longer
    OBVIOUS
  <2>5. \A a, b : <<a, b>> \in UiBefore => a = b
    BY DEF UiBefore
  <2>6. DOMAIN <<CleanupTask>> = {1}
    OBVIOUS
  <2>7. InOrder(<<CleanupTask>>, UiBefore)
    BY <2>6 DEF InOrder
  <2>8. InOrder(longer, UiBefore)
    <3>1. \A s \in ToSet(q), t \in ToSet(<<CleanupTask>>) : <<t, s>> \notin UiBefore
      BY <1>1, <2>2, <2>5
    <3> QED
      BY <2>2, <2>7, <3>1, ConcatOrder
  <2> HIDE DEF longer
  <2> QED
    BY <1>1, <2>1, <2>3, <2>4, <2>8
<1>2. CASE ~ (S = {} /\ n = 0)
  BY <1>2 DEF MaybeCleanup
<1> QED
  BY <1>1, <1>2

(* What a post of R does, when P are its tasks. *)
LEMMA Posted ==
  ASSUME Types, QueueInv, phase # "ended", UNCHANGED <<phase, quit>>,
         NEW R \in Seq(MainTask), Post(R), NEW P, ToSet(R) = P,
         InOrder(R, Before), \A s \in Waiting, t \in P : <<t, s>> \notin Before,
         NEW intro, NEW outro, NEW created, NEW closing, NEW init, NEW orphaned, NEW aborted,
         Says(P, intro, outro, created, closing, init, orphaned, aborted)
  PROVE  /\ mainQueue' \in Seq(MainTask) /\ queuedTasks' \in Seq(MainTask)
         /\ InOrder(uiQueue', UiBefore) => QueueInv'
         /\ \A t : t \in Waiting' <=> t \in Waiting \/ t \in P
         /\ Says(Waiting', Intros(Waiting) \union intro, Outros(Waiting) \union outro,
                 Named("created", Waiting) \union created,
                 Named("closing", Waiting) \union closing,
                 Named("init", Waiting) \union init,
                 Orphaned(Waiting) \union orphaned, AbortedOf(Waiting) \union aborted)
<1>1. /\ mainQueue' \in Seq(MainTask) /\ queuedTasks' \in Seq(MainTask)
      /\ phase = "starting" => mainQueue' = <<>>
      /\ phase = "running" => queuedTasks' = <<>>
      /\ InOrder(mainQueue', Before) /\ InOrder(queuedTasks', Before)
      /\ Waiting' = Waiting \union P
  BY PostFacts
<1>2. InOrder(uiQueue', UiBefore) => QueueInv'
  BY <1>1 DEF QueueInv
<1>3. Waiting' = Waiting \union P
  BY <1>1
<1> QED
  BY <1>1, <1>2, <1>3, SaysMore

----------------------------------------------------------------------------
(* The browsers come. *)

(* A popup is allowed. *)
LEMMA BeforePopupKeepsInv ==
  ASSUME WindowsInv, NEW w \in Window, OnBeforePopup(w)
  PROVE  WindowsInv'
<1>1. /\ w \in Popup /\ browser[w] = "none" /\ browser[OpenerOf[w]] = "live"
      /\ browser' = [browser EXCEPT ![w] = "pending"] /\ Post(<<Task("rootCreated", w)>>)
      /\ UNCHANGED <<phase, quit, uiQueue, rootWindows, otherCt, otherOwners, hwnd,
                     windowCreated, windowDestroyed, browserDestroyed, attached, isClosing>>
  BY DEF OnBeforePopup, managerVars, windowVars
<1>2. Types /\ QueueInv /\ BookInv /\ WindowInv
  BY DEF WindowsInv
<1>3. /\ w \in Browser /\ w \notin Other /\ OpenerOf[w] \in Browser
      /\ Intro(w) = Task("rootCreated", w) /\ w # First
  BY <1>1, IntroOutro
<1>4. \A x \in Browser : browser'[x] = IF x = w THEN "pending" ELSE browser[x]
  BY <1>1, <1>2, <1>3 DEF Types
<1>5. OpenerOf[w] \in Active
  BY <1>1, <1>3 DEF Active, In
<1>6. ~Finishing /\ phase # "ended" /\ ~quit
  BY <1>5, NotFinishing
<1>7. w \notin Active /\ w \notin Intros(Waiting) /\ w \notin Outros(Waiting)
  BY <1>1, <1>2, <1>3 DEF BookInv, Active, In
<1>8. ToSet(<<Intro(w)>>) = {Intro(w)} /\ <<Intro(w)>> \in Seq(MainTask)
      /\ InOrder(<<Intro(w)>>, Before)
  BY <1>3, FewSet, TaskTypes, OneOrder
<1>9. \A s \in Waiting : <<Intro(w), s>> \notin Before
  <2>1. /\ w \notin Named("created", Waiting) /\ w \notin Named("closing", Waiting)
        /\ \A y \in Popup \union Other : y \in Intros(Waiting) => OpenerOf[y] # w
        /\ OpenerOf[w] \notin Outros(Waiting)
    BY <1>1, <1>2, <1>7 DEF BookInv, In
  <2> QED
    BY <1>3, <1>7, <2>1, BeforeIntro
<1>10. Says({Intro(w)}, {w}, {}, {}, {}, {}, {}, {}) /\ QuitTask \notin {Intro(w)}
  <2>1. Says({Intro(w)}, {w}, {}, {}, {}, {}, {}, {})
    BY <1>3, SaysWindowTask
  <2>2. QuitTask \notin {Intro(w)}
    BY <1>3, TaskFields
  <2> QED
    BY <2>1, <2>2
<1>11. /\ mainQueue' \in Seq(MainTask) /\ queuedTasks' \in Seq(MainTask)
       /\ InOrder(uiQueue', UiBefore) => QueueInv'
       /\ \A t : t \in Waiting' <=> t \in Waiting \/ t \in {Intro(w)}
       /\ Says(Waiting', Intros(Waiting) \union {w}, Outros(Waiting) \union {},
               Named("created", Waiting) \union {}, Named("closing", Waiting) \union {},
               Named("init", Waiting) \union {}, Orphaned(Waiting) \union {},
               AbortedOf(Waiting) \union {})
  BY <1>1, <1>2, <1>3, <1>6, <1>8, <1>9, <1>10, Posted
<1>12. Known' = Known /\ Kept' = Kept
  BY <1>1 DEF Known, Kept
<1>13. /\ In({"pending"})' = In({"pending"}) \union {w}
       /\ In({"closed"})' = In({"closed"}) /\ In({"none"})' = In({"none"}) \ {w}
       /\ In({"live", "closing"})' = In({"live", "closing"})
       /\ In({"live", "closing", "closed"})' = In({"live", "closing", "closed"})
       /\ In({"aborted"})' = In({"aborted"})
  BY <1>1, <1>3, <1>4 DEF In
<1>14. Active' = Active
  BY <1>11, <1>13 DEF Active, Says
<1>15. Types'
  BY <1>1, <1>2, <1>11, <1>12 DEF Types
<1>16. QueueInv'
  BY <1>1, <1>2, <1>11 DEF QueueInv
<1>17. BookInv'
  <2>1. w \notin Kept
    BY <1>1, <1>2, <1>3, <1>7 DEF BookInv, Kept, In
  <2> QED
    BY <1>1, <1>2, <1>3, <1>5, <1>7, <1>11, <1>12, <1>13, <1>14, <2>1 DEF BookInv, Says
<1>18. WindowInv'
  <2>1. \A p \in Popup : browser'[p] = "pending" => browser'[OpenerOf[p]] \in {"live", "closing"}
    BY <1>1, <1>2, <1>3, <1>4, IntroOutro DEF WindowInv
  <2> QED
    BY <1>1, <1>2, <1>3, <1>11, <1>13, <2>1 DEF WindowInv, Says
<1>19. QuitInv'
  BY <1>1, <1>6, <1>10, <1>11 DEF QuitInv, Finishing
<1> QED
  BY <1>15, <1>16, <1>17, <1>18, <1>19 DEF WindowsInv

(* A browser with a window is created. *)
LEMMA AfterCreatedKeepsInv ==
  ASSUME WindowsInv, NEW w \in Window, OnAfterCreated(w)
  PROVE  WindowsInv'
<1> DEFINE t1 == Task("created", w)
<1>1. /\ browser[w] = "pending"
      /\ w \in Popup => browser[OpenerOf[w]] \in {"live", "closing"}
      /\ browser' = [browser EXCEPT ![w] = "live"] /\ Post(<<t1>>)
      /\ UNCHANGED <<phase, quit, uiQueue, rootWindows, otherCt, otherOwners, hwnd,
                     windowCreated, windowDestroyed, browserDestroyed, attached, isClosing>>
  BY DEF OnAfterCreated, managerVars, windowVars
<1>2. Types /\ QueueInv /\ BookInv /\ WindowInv
  BY DEF WindowsInv
<1>3. w \in Browser /\ w \notin Other /\ (w \in Popup => OpenerOf[w] \in Browser)
  BY IntroOutro
<1>4. \A x \in Browser : browser'[x] = IF x = w THEN "live" ELSE browser[x]
  BY <1>1, <1>2, <1>3 DEF Types
<1>5. w \in In({"pending"})
  BY <1>1, <1>3 DEF In
<1>6. ~Finishing /\ phase # "ended" /\ ~quit
  BY <1>5, NotFinishing
<1>7. w \notin Active /\ w \notin Outros(Waiting)
  BY <1>1, <1>2, <1>3 DEF BookInv, Active, In
<1>8. ToSet(<<t1>>) = {t1} /\ <<t1>> \in Seq(MainTask) /\ InOrder(<<t1>>, Before)
  BY FewSet, TaskTypes, OneOrder
<1>9. \A s \in Waiting : <<t1, s>> \notin Before
  <2>1. /\ w \notin Named("created", Waiting)
        /\ w \in Popup => OpenerOf[w] \notin Orphaned(Waiting)
    BY <1>1, <1>2, <1>7 DEF BookInv, WindowInv, In
  <2> QED
    BY <1>7, <2>1, BeforeOthers
<1>10. Says({t1}, {}, {}, {w}, {}, {}, {}, {}) /\ QuitTask \notin {t1}
  <2>1. Says({t1}, {}, {}, {w}, {}, {}, {}, {})
    BY SaysWindowTask
  <2>2. QuitTask \notin {t1}
    BY TaskFields
  <2> QED
    BY <2>1, <2>2
<1> HIDE DEF t1
<1>11. /\ mainQueue' \in Seq(MainTask) /\ queuedTasks' \in Seq(MainTask)
       /\ InOrder(uiQueue', UiBefore) => QueueInv'
       /\ \A t : t \in Waiting' <=> t \in Waiting \/ t \in {t1}
       /\ Says(Waiting', Intros(Waiting) \union {}, Outros(Waiting) \union {},
               Named("created", Waiting) \union {w}, Named("closing", Waiting) \union {},
               Named("init", Waiting) \union {}, Orphaned(Waiting) \union {},
               AbortedOf(Waiting) \union {})
  BY <1>1, <1>2, <1>6, <1>8, <1>9, <1>10, Posted
<1>12. Known' = Known /\ Kept' = Kept
  BY <1>1 DEF Known, Kept
<1>13. /\ In({"pending"})' = In({"pending"}) \ {w}
       /\ In({"closed"})' = In({"closed"}) /\ In({"none"})' = In({"none"})
       /\ In({"live", "closing"})' = In({"live", "closing"}) \union {w}
       /\ In({"live", "closing", "closed"})' = In({"live", "closing", "closed"}) \union {w}
       /\ In({"aborted"})' = In({"aborted"})
  BY <1>1, <1>3, <1>4 DEF In
<1>14. Active' = Active \union {w}
  BY <1>11, <1>13 DEF Active, Says
<1>15. Types'
  BY <1>1, <1>2, <1>11, <1>12 DEF Types
<1>16. QueueInv'
  BY <1>1, <1>2, <1>11 DEF QueueInv
<1>17. BookInv'
  BY <1>1, <1>2, <1>3, <1>5, <1>7, <1>11, <1>12, <1>13, <1>14 DEF BookInv, Says
<1>18. WindowInv'
  <2>1. \A p \in Popup : browser'[p] = "pending" => browser'[OpenerOf[p]] \in {"live", "closing"}
    BY <1>1, <1>2, <1>3, <1>4, IntroOutro DEF WindowInv
  <2>2. w \in Popup => w \notin windowCreated
    BY <1>1, <1>2 DEF WindowInv, In
  <2> QED
    BY <1>1, <1>2, <1>11, <1>13, <2>1, <2>2 DEF WindowInv, Says
<1>19. QuitInv'
  BY <1>1, <1>6, <1>10, <1>11 DEF QuitInv, Finishing
<1> QED
  BY <1>15, <1>16, <1>17, <1>18, <1>19 DEF WindowsInv

(* The creation of a popup fails. *)
LEMMA BeforePopupAbortedKeepsInv ==
  ASSUME WindowsInv, NEW w \in Window, OnBeforePopupAborted(w)
  PROVE  WindowsInv'
<1> DEFINE t1 == Abort(OpenerOf[w], w)
<1>1. /\ w \in Popup /\ browser[w] = "pending"
      /\ browser' = [browser EXCEPT ![w] = "aborted"] /\ Post(<<t1>>)
      /\ UNCHANGED <<phase, quit, uiQueue, rootWindows, otherCt, otherOwners, hwnd,
                     windowCreated, windowDestroyed, browserDestroyed, attached, isClosing>>
  BY DEF OnBeforePopupAborted, managerVars, windowVars
<1>2. Types /\ QueueInv /\ BookInv /\ WindowInv
  BY DEF WindowsInv
<1>3. w \in Browser /\ w \notin Other /\ OpenerOf[w] \in Browser /\ w # AllPopups
  BY <1>1, IntroOutro, WindowsAssumption
<1>4. \A x \in Browser : browser'[x] = IF x = w THEN "aborted" ELSE browser[x]
  BY <1>1, <1>2, <1>3 DEF Types
<1>5. w \in In({"pending"})
  BY <1>1, <1>3 DEF In
<1>6. ~Finishing /\ phase # "ended" /\ ~quit
  BY <1>5, NotFinishing
<1>7. w \notin Active
  BY <1>1, <1>2, <1>3 DEF BookInv, Active, In
<1>8. ToSet(<<t1>>) = {t1} /\ <<t1>> \in Seq(MainTask) /\ InOrder(<<t1>>, Before)
  BY <1>1, <1>3, FewSet, TaskTypes, OneOrder
<1>9. \A s \in Waiting : <<t1, s>> \notin Before
  BY BeforeOthers, TaskFields
<1>10. Says({t1}, {}, {}, {}, {}, {}, {}, {w}) /\ QuitTask \notin {t1}
  <2>1. Says({t1}, {}, {}, {}, {}, {}, {}, {w})
    BY <1>1, <1>3, SaysAbort
  <2>2. QuitTask \notin {t1}
    BY <1>1, <1>3, TaskFields
  <2> QED
    BY <2>1, <2>2
<1> HIDE DEF t1
<1>11. /\ mainQueue' \in Seq(MainTask) /\ queuedTasks' \in Seq(MainTask)
       /\ InOrder(uiQueue', UiBefore) => QueueInv'
       /\ \A t : t \in Waiting' <=> t \in Waiting \/ t \in {t1}
       /\ Says(Waiting', Intros(Waiting) \union {}, Outros(Waiting) \union {},
               Named("created", Waiting) \union {}, Named("closing", Waiting) \union {},
               Named("init", Waiting) \union {}, Orphaned(Waiting) \union {},
               AbortedOf(Waiting) \union {w})
  BY <1>1, <1>2, <1>6, <1>8, <1>9, <1>10, Posted
<1>12. Known' = Known /\ Kept' = Kept
  BY <1>1 DEF Known, Kept
<1>13. /\ In({"pending"})' = In({"pending"}) \ {w}
       /\ In({"closed"})' = In({"closed"}) /\ In({"none"})' = In({"none"})
       /\ In({"live", "closing"})' = In({"live", "closing"})
       /\ In({"live", "closing", "closed"})' = In({"live", "closing", "closed"})
       /\ In({"aborted"})' = In({"aborted"}) \union {w}
  BY <1>1, <1>3, <1>4 DEF In
<1>14. Active' = Active
  BY <1>11, <1>13 DEF Active, Says
<1>15. Types'
  BY <1>1, <1>2, <1>11, <1>12 DEF Types
<1>16. QueueInv'
  BY <1>1, <1>2, <1>11 DEF QueueInv
<1>17. BookInv'
  BY <1>1, <1>2, <1>3, <1>5, <1>7, <1>11, <1>12, <1>13, <1>14 DEF BookInv, Says
<1>18. WindowInv'
  <2>1. \A p \in Popup : browser'[p] = "pending" => browser'[OpenerOf[p]] \in {"live", "closing"}
    BY <1>1, <1>2, <1>3, <1>4, IntroOutro DEF WindowInv
  <2> QED
    BY <1>1, <1>2, <1>11, <1>13, <2>1 DEF WindowInv, Says
<1>19. QuitInv'
  BY <1>1, <1>6, <1>10, <1>11 DEF QuitInv, Finishing
<1> QED
  BY <1>15, <1>16, <1>17, <1>18, <1>19 DEF WindowsInv

(* A browser without a window is created. *)
LEMMA OtherAfterCreatedKeepsInv ==
  ASSUME WindowsInv, NEW o \in Other, OnOtherAfterCreated(o)
  PROVE  WindowsInv'
<1>1. /\ browser[o] = "none" /\ browser[OpenerOf[o]] = "live"
      /\ browser' = [browser EXCEPT ![o] = "live"]
      /\ Post(<<OtherTask("otherCreated", o)>>)
      /\ UNCHANGED <<phase, quit, uiQueue, rootWindows, otherCt, otherOwners, hwnd,
                     windowCreated, windowDestroyed, browserDestroyed, attached, isClosing>>
  BY DEF OnOtherAfterCreated, managerVars, windowVars, OtherTask
<1>2. Types /\ QueueInv /\ BookInv /\ WindowInv
  BY DEF WindowsInv
<1>3. /\ o \in Browser /\ o \notin Window /\ o \notin Popup /\ OpenerOf[o] \in Browser
      /\ Intro(o) = OtherTask("otherCreated", o) /\ o # First
  BY IntroOutro
<1>4. \A x \in Browser : browser'[x] = IF x = o THEN "live" ELSE browser[x]
  BY <1>1, <1>2, <1>3 DEF Types
<1>5. OpenerOf[o] \in Active
  BY <1>1, <1>3 DEF Active, In
<1>6. ~Finishing /\ phase # "ended" /\ ~quit
  BY <1>5, NotFinishing
<1>7. o \notin Active /\ o \notin Intros(Waiting) /\ o \notin Outros(Waiting)
  BY <1>1, <1>2, <1>3 DEF BookInv, Active, In
<1>8. ToSet(<<Intro(o)>>) = {Intro(o)} /\ <<Intro(o)>> \in Seq(MainTask)
      /\ InOrder(<<Intro(o)>>, Before)
  BY <1>3, FewSet, TaskTypes, OneOrder
<1>9. \A s \in Waiting : <<Intro(o), s>> \notin Before
  <2>1. /\ o \notin Named("created", Waiting) /\ o \notin Named("closing", Waiting)
        /\ \A y \in Popup \union Other : y \in Intros(Waiting) => OpenerOf[y] # o
        /\ OpenerOf[o] \notin Outros(Waiting)
    BY <1>1, <1>2, <1>7 DEF BookInv, In
  <2> QED
    BY <1>3, <1>7, <2>1, BeforeIntro
<1>10. Says({Intro(o)}, {o}, {}, {}, {}, {}, {}, {}) /\ QuitTask \notin {Intro(o)}
  <2>1. Says({Intro(o)}, {o}, {}, {}, {}, {}, {}, {})
    BY <1>3, SaysOtherTask
  <2>2. QuitTask \notin {Intro(o)}
    BY <1>3, TaskFields
  <2> QED
    BY <2>1, <2>2
<1>11. /\ mainQueue' \in Seq(MainTask) /\ queuedTasks' \in Seq(MainTask)
       /\ InOrder(uiQueue', UiBefore) => QueueInv'
       /\ \A t : t \in Waiting' <=> t \in Waiting \/ t \in {Intro(o)}
       /\ Says(Waiting', Intros(Waiting) \union {o}, Outros(Waiting) \union {},
               Named("created", Waiting) \union {}, Named("closing", Waiting) \union {},
               Named("init", Waiting) \union {}, Orphaned(Waiting) \union {},
               AbortedOf(Waiting) \union {})
  BY <1>1, <1>2, <1>3, <1>6, <1>8, <1>9, <1>10, Posted
<1>12. Known' = Known /\ Kept' = Kept
  BY <1>1 DEF Known, Kept
<1>13. /\ In({"pending"})' = In({"pending"})
       /\ In({"closed"})' = In({"closed"}) /\ In({"none"})' = In({"none"}) \ {o}
       /\ In({"live", "closing"})' = In({"live", "closing"}) \union {o}
       /\ In({"live", "closing", "closed"})' = In({"live", "closing", "closed"}) \union {o}
       /\ In({"aborted"})' = In({"aborted"})
  BY <1>1, <1>3, <1>4 DEF In
<1>14. Active' = Active \union {o}
  BY <1>11, <1>13 DEF Active, Says
<1>15. Types'
  BY <1>1, <1>2, <1>11, <1>12 DEF Types
<1>16. QueueInv'
  BY <1>1, <1>2, <1>11 DEF QueueInv
<1>17. BookInv'
  <2>1. o \notin Kept
    BY <1>2, <1>3, <1>7 DEF BookInv, Kept, Types
  <2> QED
    BY <1>1, <1>2, <1>3, <1>5, <1>7, <1>11, <1>12, <1>13, <1>14, <2>1 DEF BookInv, Says
<1>18. WindowInv'
  <2>1. \A p \in Popup : browser'[p] = "pending" => browser'[OpenerOf[p]] \in {"live", "closing"}
    BY <1>1, <1>2, <1>3, <1>4, IntroOutro DEF WindowInv
  <2> QED
    BY <1>1, <1>2, <1>3, <1>11, <1>13, <2>1 DEF WindowInv, Says
<1>19. QuitInv'
  BY <1>1, <1>6, <1>10, <1>11 DEF QuitInv, Finishing
<1> QED
  BY <1>15, <1>16, <1>17, <1>18, <1>19 DEF WindowsInv

----------------------------------------------------------------------------
(* The browsers go. *)

(* What DoClose posts. *)
LEMMA DoCloseFacts ==
  ASSUME NEW w \in Window
  PROVE  /\ DoClose(w) \in Seq(MainTask)
         /\ ToSet(DoClose(w)) = {Task("closing", w), Task("wmClose", w)}
         /\ InOrder(DoClose(w), Before)
         /\ Says({Task("closing", w), Task("wmClose", w)}, {}, {}, {}, {w}, {}, {}, {})
         /\ QuitTask \notin {Task("closing", w), Task("wmClose", w)}
<1> DEFINE a == Task("closing", w)
           b == Task("wmClose", w)
<1>1. a \in MainTask /\ b \in MainTask /\ DoClose(w) = <<a, b>>
  BY TaskTypes DEF DoClose
<1>2. b.do = "wmClose" /\ a.do = "closing"
  BY TaskFields
<1>3. Says({a}, {}, {}, {}, {w}, {}, {}, {})
  BY SaysWindowTask
<1>4. Says({b}, {}, {}, {}, {}, {}, {}, {})
  BY SaysWindowTask
<1> HIDE DEF a, b
<1>5. /\ <<a, b>> \in Seq(MainTask) /\ ToSet(<<a, b>>) = {a, b}
  BY <1>1, FewSet
<1>6. <<b, a>> \notin Before
  BY <1>2, BeforeNothing
<1>7. InOrder(<<a, b>>, Before)
  BY <1>6, FewOrder
<1>8. Says({a, b}, Intros({a}) \union {}, Outros({a}) \union {},
           Named("created", {a}) \union {}, Named("closing", {a}) \union {},
           Named("init", {a}) \union {}, Orphaned({a}) \union {}, AbortedOf({a}) \union {})
  <2>1. {a, b} = {a} \union {b}
    OBVIOUS
  <2> QED
    BY <1>4, <2>1, SaysMore
<1>9. Says({a, b}, {}, {}, {}, {w}, {}, {}, {})
  BY <1>3, <1>8 DEF Says
<1>10. QuitTask \notin {a, b}
  BY <1>2, TaskFields
<1> QED
  BY <1>1, <1>5, <1>7, <1>9, <1>10 DEF a, b

(* A browser begins to close. *)
LEMMA BeginCloseKeepsInv ==
  ASSUME WindowsInv, NEW x \in Browser, BeginClose(x),
         uiQueue' \in Seq(UiTask), InOrder(uiQueue', UiBefore),
         ToSet(uiQueue') \subseteq ToSet(uiQueue)
  PROVE  WindowsInv'
<1> DEFINE R == IF x \in Alloy THEN DoClose(x) ELSE <<>>
           P == IF x \in Alloy THEN {Task("closing", x), Task("wmClose", x)} ELSE {}
           L == IF x \in Alloy THEN {x} ELSE {}
<1>1. /\ browser[x] = "live" /\ browser' = [browser EXCEPT ![x] = "closing"] /\ Post(R)
      /\ UNCHANGED <<phase, quit, rootWindows, otherCt, otherOwners, hwnd,
                     windowCreated, windowDestroyed, browserDestroyed, attached, isClosing>>
  BY DEF BeginClose, managerVars, windowVars
<1>2. Types /\ QueueInv /\ BookInv /\ WindowInv
  BY DEF WindowsInv
<1>3. x \in Alloy => x \in Window
  BY WindowsAssumption
<1>4. \A y \in Browser : browser'[y] = IF y = x THEN "closing" ELSE browser[y]
  BY <1>1, <1>2 DEF Types
<1>5. x \in Active /\ L \subseteq {x}
  BY <1>1 DEF Active, In
<1>6. ~Finishing /\ phase # "ended" /\ ~quit
  BY <1>5, NotFinishing
<1>7. x \notin Outros(Waiting)
  BY <1>1, <1>2 DEF BookInv, In
<1>8. /\ R \in Seq(MainTask) /\ ToSet(R) = P /\ InOrder(R, Before)
      /\ QuitTask \notin P /\ Says(P, {}, {}, {}, L, {}, {}, {})
  <2>1. CASE x \in Alloy
    BY <1>3, <2>1, DoCloseFacts
  <2>2. CASE x \notin Alloy
    BY <2>2, EmptySet, EmptyOrder, SaysNothing
  <2> QED
    BY <2>1, <2>2
<1>9. \A s \in Waiting, t \in P : <<t, s>> \notin Before
  <2>1. ASSUME x \in Alloy, NEW s \in Waiting
        PROVE  <<Task("closing", x), s>> \notin Before /\ <<Task("wmClose", x), s>> \notin Before
    BY <1>3, <1>7, <2>1, BeforeOthers, TaskFields
  <2> QED
    BY <2>1
<1> HIDE DEF R, P, L
<1>11. /\ mainQueue' \in Seq(MainTask) /\ queuedTasks' \in Seq(MainTask)
       /\ InOrder(uiQueue', UiBefore) => QueueInv'
       /\ \A t : t \in Waiting' <=> t \in Waiting \/ t \in P
       /\ Says(Waiting', Intros(Waiting) \union {}, Outros(Waiting) \union {},
               Named("created", Waiting) \union {}, Named("closing", Waiting) \union L,
               Named("init", Waiting) \union {}, Orphaned(Waiting) \union {},
               AbortedOf(Waiting) \union {})
  BY <1>1, <1>2, <1>6, <1>8, <1>9, Posted
<1>12. Known' = Known /\ Kept' = Kept
  BY <1>1 DEF Known, Kept
<1>13. /\ In({"pending"})' = In({"pending"})
       /\ In({"closed"})' = In({"closed"}) /\ In({"none"})' = In({"none"})
       /\ In({"live", "closing"})' = In({"live", "closing"})
       /\ In({"live", "closing", "closed"})' = In({"live", "closing", "closed"})
       /\ In({"aborted"})' = In({"aborted"})
  BY <1>1, <1>4 DEF In
<1>14. Active' = Active
  BY <1>11, <1>13 DEF Active, Says
<1>15. Types'
  BY <1>1, <1>2, <1>11, <1>12 DEF Types
<1>16. QueueInv'
  BY <1>11
<1>17. BookInv'
  BY <1>1, <1>2, <1>5, <1>11, <1>12, <1>13, <1>14 DEF BookInv, Says
<1>18. WindowInv'
  <2>1. \A p \in Popup : browser'[p] = "pending" => browser'[OpenerOf[p]] \in {"live", "closing"}
    BY <1>1, <1>2, <1>4, IntroOutro DEF WindowInv
  <2>2. Named("init", ToSet(uiQueue')) \subseteq Named("init", ToSet(uiQueue))
    BY DEF Named
  <2> QED
    BY <1>1, <1>2, <1>11, <1>13, <2>1, <2>2 DEF WindowInv, Says
<1>19. QuitInv'
  BY <1>1, <1>6, <1>8, <1>11 DEF QuitInv, Finishing
<1> QED
  BY <1>15, <1>16, <1>17, <1>18, <1>19 DEF WindowsInv

(* The UI thread takes a task without doing anything else. *)
LEMMA UiTakeKeepsInv ==
  ASSUME WindowsInv, uiQueue' \in Seq(UiTask), InOrder(uiQueue', UiBefore),
         ToSet(uiQueue') \subseteq ToSet(uiQueue),
         UNCHANGED <<phase, quit, mainQueue, queuedTasks, managerVars, windowVars, browser>>
  PROVE  WindowsInv'
<1>1. UNCHANGED <<phase, quit, mainQueue, queuedTasks, rootWindows, otherCt, otherOwners, hwnd,
                  windowCreated, windowDestroyed, browserDestroyed, attached, isClosing, browser>>
  BY DEF managerVars, windowVars
<1>2. Types /\ QueueInv /\ BookInv /\ WindowInv /\ QuitInv
  BY DEF WindowsInv
<1>3. Known' = Known /\ Kept' = Kept /\ Waiting' = Waiting
  BY <1>1 DEF Known, Kept, Waiting
<1>4. \A S : In(S)' = In(S)
  BY <1>1 DEF In
<1>5. Active' = Active
  BY <1>1, <1>3 DEF Active, In
<1>6. Types'
  BY <1>1, <1>2, <1>3 DEF Types
<1>7. QueueInv'
  BY <1>1, <1>2 DEF QueueInv
<1>8. BookInv'
  BY <1>1, <1>2, <1>3, <1>5 DEF BookInv, In
<1>9. WindowInv'
  <2>1. Named("init", ToSet(uiQueue')) \subseteq Named("init", ToSet(uiQueue))
    BY DEF Named
  <2> QED
    BY <1>1, <1>2, <1>3, <2>1 DEF WindowInv, In
<1>10. QuitInv'
  BY <1>1, <1>2, <1>3 DEF QuitInv, Finishing
<1> QED
  BY <1>6, <1>7, <1>8, <1>9, <1>10 DEF WindowsInv

(* Two steps that begin to close a browser. *)
LEMMA ScriptClosesKeepsInv ==
  ASSUME WindowsInv, NEW x \in Browser, ScriptCloses(x)
  PROVE  WindowsInv'
<1>1. uiQueue' = uiQueue /\ BeginClose(x)
  BY DEF ScriptCloses
<1>2. uiQueue \in Seq(UiTask) /\ InOrder(uiQueue, UiBefore)
  BY DEF WindowsInv, Types, QueueInv
<1> QED
  BY <1>1, <1>2, BeginCloseKeepsInv

LEMMA CloseBrowserKeepsInv ==
  ASSUME WindowsInv, CloseBrowser
  PROVE  WindowsInv'
<1> DEFINE x == Head(uiQueue).x
<1>1. uiQueue # <<>> /\ Head(uiQueue).do = "close" /\ uiQueue' = Tail(uiQueue)
  BY DEF CloseBrowser, NextUi
<1>2. /\ Tail(uiQueue) \in Seq(UiTask) /\ InOrder(Tail(uiQueue), UiBefore)
      /\ Head(uiQueue) \in UiTask
      /\ ToSet(uiQueue) = {Head(uiQueue)} \union ToSet(Tail(uiQueue))
  BY <1>1, UiTakeFacts DEF WindowsInv
<1>3. x \in Browser
  BY <1>1, <1>2, UiShape
<1>4. CASE BeginClose(x)
  <2> HIDE DEF x
  <2> QED
    BY <1>1, <1>2, <1>3, <1>4, BeginCloseKeepsInv
<1>5. CASE UNCHANGED <<phase, quit, mainQueue, queuedTasks, managerVars, windowVars, browser>>
  BY <1>1, <1>2, <1>5, UiTakeKeepsInv
<1> QED
  BY <1>4, <1>5 DEF CloseBrowser

(* What OnBeforeClose posts. *)
LEMMA BeforeCloseFacts ==
  ASSUME NEW x \in Browser, NEW S \in SUBSET Popup,
         NEW R, R = BeforeCloseTasks(x) \o SetToSeq({Abort(x, p) : p \in S})
  PROVE  /\ R \in Seq(MainTask) /\ InOrder(R, Before) /\ QuitTask \notin ToSet(R)
         /\ Says(ToSet(R), {}, {x}, {}, {}, {}, {x}, S)
         /\ \A t \in ToSet(R) : t = Outro(x) \/ t.do = "abort"
         /\ \A p \in S : Abort(x, p) \in ToSet(R)
<1> DEFINE a == Abort(x, AllPopups)
           b == Outro(x)
           A == {Abort(x, p) : p \in S}
           f == <<a, b>>
           g == SetToSeq(A)
<1>1. a \in MainTask /\ b \in MainTask /\ A \subseteq MainTask
  BY TaskTypes
<1>2. BeforeCloseTasks(x) = f
  BY DEF BeforeCloseTasks, Outro, OtherTask
<1>3. a.do = "abort" /\ b.do \in {"closed", "otherClosed"} /\ \A t \in A : t.do = "abort"
  BY TaskFields, IntroOutro
<1>4. \A p \in S : Abort(x, p) \in A
  OBVIOUS
<1>5. IsFiniteSet(A)
  <2>1. IsFiniteSet(Popup)
    BY WindowsAssumption, FS_Subset
  <2>2. IsFiniteSet(S)
    BY <2>1, FS_Subset
  <2> DEFINE h == [p \in S |-> Abort(x, p)]
  <2>3. h \in Surjection(S, A)
    BY DEF Surjection
  <2> HIDE DEF h, A
  <2> QED
    BY <2>2, <2>3, FS_Surjection
<1>6. Says({a}, {}, {}, {}, {}, {}, {x}, {})
  BY SaysAbort
<1>7. Says({b}, {}, {x}, {}, {}, {}, {}, {})
  <2>1. CASE x \in Window
    BY <2>1, IntroOutro, SaysWindowTask
  <2>2. CASE x \in Other
    BY <2>2, IntroOutro, SaysOtherTask
  <2> QED
    BY <2>1, <2>2, IntroOutro
<1>8. Says(A, {}, {}, {}, {}, {}, {}, S)
  <2>1. Intros(A) = {} /\ Outros(A) = {}
    BY <1>3, IntroOutro DEF Intros, Outros
  <2>2. Named("created", A) = {} /\ Named("closing", A) = {} /\ Named("init", A) = {}
    BY <1>3, TaskFields DEF Named
  <2>3. Orphaned(A) = {}
    BY WindowsAssumption, TaskFields DEF Orphaned
  <2>4. AbortedOf(A) = S
    BY TaskFields DEF AbortedOf
  <2> QED
    BY <2>1, <2>2, <2>3, <2>4 DEF Says
<1>9. f \in Seq(MainTask) /\ ToSet(f) = {a} \union {b} /\ InOrder(f, Before)
  <2>1. <<b, a>> \notin Before
    <3>1. x \notin Outros({a}) /\ a \in {a}
      BY <1>6 DEF Says
    <3> QED
      BY <3>1, BeforeOthers
  <2> HIDE DEF a, b
  <2>2. f \in Seq(MainTask) /\ ToSet(f) = {a, b}
    BY <1>1, FewSet
  <2> QED
    BY <2>1, <2>2, FewOrder
<1>10. g \in Seq(MainTask) /\ ToSet(g) = A /\ InOrder(g, Before)
  <2> HIDE DEF A
  <2>1. g \in Seq(A) /\ ToSet(g) = A
    BY <1>5, SetToSeqFacts
  <2>2. g \in Seq(MainTask)
    BY <1>1, <2>1
  <2> HIDE DEF g
  <2>3. InOrder(g, Before)
    BY <1>3, <2>1, <2>2, IdleOrder, BeforeNothing
  <2> QED
    BY <2>1, <2>2, <2>3
<1>11. \A s \in ToSet(f), t \in ToSet(g) : <<t, s>> \notin Before
  BY <1>3, <1>10, BeforeNothing
<1> HIDE DEF f, g
<1>12. R \in Seq(MainTask) /\ ToSet(R) = ToSet(f) \union ToSet(g) /\ InOrder(R, Before)
  <2>1. R = f \o g
    BY <1>2 DEF g
  <2> DEFINE r == f \o g
  <2>2. r \in Seq(MainTask) /\ ToSet(r) = ToSet(f) \union ToSet(g)
    BY <1>9, <1>10, ConcatSet
  <2>3. InOrder(r, Before)
    BY <1>9, <1>10, <1>11, ConcatOrder
  <2> HIDE DEF r
  <2> QED
    BY <2>1, <2>2, <2>3 DEF r
<1> HIDE DEF a, b, A
<1>13. Says({a} \union {b}, {}, {x}, {}, {}, {}, {x}, {})
  <2>1. Says({a} \union {b}, Intros({a}) \union {}, Outros({a}) \union {x},
             Named("created", {a}) \union {}, Named("closing", {a}) \union {},
             Named("init", {a}) \union {}, Orphaned({a}) \union {}, AbortedOf({a}) \union {})
    BY <1>7, SaysMore
  <2> QED
    BY <1>6, <2>1 DEF Says
<1>14. Says(ToSet(R), {}, {x}, {}, {}, {}, {x}, S)
  <2> DEFINE P == {a} \union {b}
  <2>1. ToSet(R) = P \union A
    BY <1>9, <1>10, <1>12
  <2>2. Says(P, {}, {x}, {}, {}, {}, {x}, {})
    BY <1>13
  <2> HIDE DEF P
  <2>3. Says(ToSet(R), Intros(P) \union {}, Outros(P) \union {},
             Named("created", P) \union {}, Named("closing", P) \union {},
             Named("init", P) \union {}, Orphaned(P) \union {}, AbortedOf(P) \union S)
    BY <1>8, <2>1, SaysMore
  <2> QED
    BY <2>2, <2>3 DEF Says
<1>15. \A t \in ToSet(R) : t = Outro(x) \/ t.do = "abort"
  BY <1>3, <1>9, <1>10, <1>12 DEF b
<1>16. QuitTask \notin ToSet(R)
  BY <1>3, <1>9, <1>10, <1>12, TaskFields
<1>17. \A p \in S : Abort(x, p) \in ToSet(R)
  BY <1>10, <1>12, <1>4
<1> QED
  BY <1>12, <1>14, <1>15, <1>16, <1>17

(* A browser is destroyed, and the popups that it has asked for are aborted. *)
LEMMA BeforeCloseKeepsInv ==
  ASSUME WindowsInv, NEW x \in Browser, OnBeforeClose(x)
  PROVE  WindowsInv'
<1>0. PICK S : S = {p \in Popup : OpenerOf[p] = x /\ browser[p] = "pending"}
  OBVIOUS
<1>a. PICK R : R = BeforeCloseTasks(x) \o SetToSeq({Abort(x, p) : p \in S})
  OBVIOUS
<1>1. /\ browser[x] \in {"live", "closing"} /\ Post(R)
      /\ browser' = [y \in Browser |-> IF y = x THEN "closed"
                                       ELSE IF y \in S THEN "aborted" ELSE browser[y]]
      /\ UNCHANGED <<phase, quit, uiQueue, rootWindows, otherCt, otherOwners, hwnd,
                     windowCreated, windowDestroyed, browserDestroyed, attached, isClosing>>
  BY <1>0, <1>a DEF OnBeforeClose, managerVars, windowVars
<1>2. Types /\ QueueInv /\ BookInv /\ WindowInv
  BY DEF WindowsInv
<1>3. S \subseteq Popup /\ S \subseteq Browser /\ x \notin S /\ S \subseteq In({"pending"})
  BY <1>0, <1>1, IntroOutro DEF In
<1>4. \A y \in Browser : browser'[y] = IF y = x THEN "closed"
                                       ELSE IF y \in S THEN "aborted" ELSE browser[y]
  BY <1>1
<1>5. x \in Active
  BY <1>1 DEF Active, In
<1>6. ~Finishing /\ phase # "ended" /\ ~quit
  BY <1>5, NotFinishing
<1>7. x \notin Outros(Waiting) /\ x \notin browserDestroyed
  BY <1>1, <1>2 DEF BookInv, WindowInv, In
<1>8. /\ R \in Seq(MainTask) /\ InOrder(R, Before) /\ QuitTask \notin ToSet(R)
      /\ Says(ToSet(R), {}, {x}, {}, {}, {}, {x}, S)
      /\ \A t \in ToSet(R) : t = Outro(x) \/ t.do = "abort"
  BY <1>3, <1>a, BeforeCloseFacts
<1>9. ASSUME NEW s \in Waiting, NEW t \in ToSet(R) PROVE <<t, s>> \notin Before
  <2>1. CASE t = Outro(x)
    BY <1>7, <2>1, BeforeOthers
  <2>2. CASE t.do = "abort"
    BY <2>2, BeforeNothing
  <2> QED
    BY <1>8, <2>1, <2>2
<1>11. /\ mainQueue' \in Seq(MainTask) /\ queuedTasks' \in Seq(MainTask)
       /\ InOrder(uiQueue', UiBefore) => QueueInv'
       /\ \A t : t \in Waiting' <=> t \in Waiting \/ t \in ToSet(R)
       /\ Says(Waiting', Intros(Waiting) \union {}, Outros(Waiting) \union {x},
               Named("created", Waiting) \union {}, Named("closing", Waiting) \union {},
               Named("init", Waiting) \union {}, Orphaned(Waiting) \union {x},
               AbortedOf(Waiting) \union S)
  BY <1>1, <1>2, <1>6, <1>8, <1>9, Posted
<1>12. Known' = Known /\ Kept' = Kept
  BY <1>1 DEF Known, Kept
<1>13. /\ In({"pending"})' = In({"pending"}) \ S
       /\ In({"closed"})' = In({"closed"}) \union {x} /\ In({"none"})' = In({"none"})
       /\ In({"live", "closing"})' = In({"live", "closing"}) \ {x}
       /\ In({"live", "closing", "closed"})' = In({"live", "closing", "closed"})
       /\ In({"aborted"})' = In({"aborted"}) \union S
  BY <1>1, <1>3, <1>4 DEF In
<1>14. Active' = Active
  BY <1>1, <1>11, <1>13 DEF Active, Says, In
<1>15. Types'
  BY <1>1, <1>2, <1>11, <1>12 DEF Types
<1>16. QueueInv'
  BY <1>1, <1>2, <1>11 DEF QueueInv
<1>17. BookInv'
  BY <1>1, <1>2, <1>11, <1>12, <1>13, <1>14 DEF BookInv, Says
<1>18. WindowInv'
  <2>1. ASSUME NEW p \in Popup, browser'[p] = "pending"
        PROVE  browser'[OpenerOf[p]] \in {"live", "closing"}
    <3>1. p \in Browser /\ OpenerOf[p] \in Browser
      BY IntroOutro
    <3>2. browser[p] = "pending" /\ p \notin S
      BY <1>4, <2>1, <3>1
    <3>3. browser[OpenerOf[p]] \in {"live", "closing"} /\ OpenerOf[p] # x
      BY <1>0, <1>2, <3>2 DEF WindowInv
    <3>4. OpenerOf[p] \notin S
      BY <1>0, <3>3
    <3> QED
      BY <1>4, <3>1, <3>3, <3>4
  <2> QED
    BY <1>1, <1>2, <1>7, <1>11, <1>13, <2>1 DEF WindowInv, Says
<1>19. QuitInv'
  BY <1>1, <1>6, <1>8, <1>11 DEF QuitInv, Finishing
<1> QED
  BY <1>15, <1>16, <1>17, <1>18, <1>19 DEF WindowsInv

----------------------------------------------------------------------------
(* The UI thread. *)

(* Init goes on on the main thread. *)
LEMMA InitOnUIKeepsInv ==
  ASSUME WindowsInv, ContinueInitOnUIThread
  PROVE  WindowsInv'
<1>0. PICK w : w = Head(uiQueue).w
  OBVIOUS
<1> DEFINE t1 == Task("init", w)
<1>1. /\ uiQueue # <<>> /\ Head(uiQueue).do = "init" /\ uiQueue' = Tail(uiQueue)
      /\ Post(<<t1>>)
      /\ UNCHANGED <<phase, quit, rootWindows, otherCt, otherOwners, hwnd, windowCreated,
                     windowDestroyed, browserDestroyed, attached, isClosing, browser>>
  BY <1>0 DEF ContinueInitOnUIThread, NextUi, managerVars, windowVars
<1>2. Types /\ QueueInv /\ BookInv /\ WindowInv
  BY DEF WindowsInv
<1>3. /\ uiQueue' \in Seq(UiTask) /\ InOrder(uiQueue', UiBefore) /\ Head(uiQueue) \in UiTask
      /\ ToSet(uiQueue) = {Head(uiQueue)} \union ToSet(uiQueue')
      /\ Head(uiQueue) \notin ToSet(uiQueue')
  BY <1>1, <1>2, UiTakeFacts
<1>4. w \in Window /\ Head(uiQueue) = t1
  BY <1>0, <1>1, <1>3, UiShape
<1>5. /\ w \in Named("init", ToSet(uiQueue)) /\ w \notin Named("init", ToSet(uiQueue'))
      /\ Named("init", ToSet(uiQueue')) \subseteq Named("init", ToSet(uiQueue))
  BY <1>3, <1>4 DEF Named
<1>6. w \in rootWindows /\ w \notin Named("init", Waiting)
  BY <1>2, <1>5 DEF WindowInv
<1>7. ~Finishing /\ phase # "ended" /\ ~quit
  BY <1>6, NotFinishing DEF Kept
<1>8. ToSet(<<t1>>) = {t1} /\ <<t1>> \in Seq(MainTask) /\ InOrder(<<t1>>, Before)
  BY <1>4, FewSet, TaskTypes, OneOrder
<1>9. \A s \in Waiting : <<t1, s>> \notin Before
  BY <1>4, <1>6, BeforeOthers
<1>10. Says({t1}, {}, {}, {}, {}, {w}, {}, {}) /\ QuitTask \notin {t1}
  <2>1. Says({t1}, {}, {}, {}, {}, {w}, {}, {})
    BY <1>4, SaysWindowTask
  <2>2. QuitTask \notin {t1}
    BY TaskFields
  <2> QED
    BY <2>1, <2>2
<1> HIDE DEF t1
<1>11. /\ mainQueue' \in Seq(MainTask) /\ queuedTasks' \in Seq(MainTask)
       /\ InOrder(uiQueue', UiBefore) => QueueInv'
       /\ \A t : t \in Waiting' <=> t \in Waiting \/ t \in {t1}
       /\ Says(Waiting', Intros(Waiting) \union {}, Outros(Waiting) \union {},
               Named("created", Waiting) \union {}, Named("closing", Waiting) \union {},
               Named("init", Waiting) \union {w}, Orphaned(Waiting) \union {},
               AbortedOf(Waiting) \union {})
  BY <1>1, <1>2, <1>7, <1>8, <1>9, <1>10, Posted
<1>12. Known' = Known /\ Kept' = Kept /\ \A S : In(S)' = In(S)
  BY <1>1 DEF Known, Kept, In
<1>14. Active' = Active
  BY <1>11, <1>12 DEF Active, Says
<1>15. Types'
  BY <1>1, <1>2, <1>3, <1>11, <1>12 DEF Types
<1>16. QueueInv'
  BY <1>3, <1>11
<1>17. BookInv'
  BY <1>1, <1>2, <1>11, <1>12, <1>14 DEF BookInv, Says, In
<1>18. WindowInv'
  BY <1>1, <1>2, <1>5, <1>11, <1>12 DEF WindowInv, Says, In
<1>19. QuitInv'
  BY <1>1, <1>3, <1>7, <1>10, <1>11 DEF QuitInv, Finishing
<1> QED
  BY <1>15, <1>16, <1>17, <1>18, <1>19 DEF WindowsInv

(* The end is decided: the main thread is told to quit. *)
LEMMA CleanupKeepsInv ==
  ASSUME WindowsInv, CleanupOnUIThread
  PROVE  WindowsInv'
<1>1. /\ uiQueue # <<>> /\ Head(uiQueue).do = "cleanup" /\ uiQueue' = Tail(uiQueue)
      /\ Post(<<QuitTask>>)
      /\ UNCHANGED <<phase, quit, rootWindows, otherCt, otherOwners, hwnd, windowCreated,
                     windowDestroyed, browserDestroyed, attached, isClosing, browser>>
  BY DEF CleanupOnUIThread, NextUi, managerVars, windowVars, QuitTask
<1>2. Types /\ QueueInv /\ BookInv /\ WindowInv /\ QuitInv
  BY DEF WindowsInv
<1>3. /\ uiQueue' \in Seq(UiTask) /\ InOrder(uiQueue', UiBefore) /\ Head(uiQueue) \in UiTask
      /\ ToSet(uiQueue) = {Head(uiQueue)} \union ToSet(uiQueue')
      /\ Head(uiQueue) \notin ToSet(uiQueue')
  BY <1>1, <1>2, UiTakeFacts
<1>4. Head(uiQueue) = CleanupTask
  BY <1>1, <1>3, UiShape
<1>5. CleanupTask \in ToSet(uiQueue) /\ CleanupTask \notin ToSet(uiQueue')
  BY <1>3, <1>4
<1>6. Kept = {} /\ ~quit /\ phase # "ended"
  BY <1>2, <1>5 DEF QuitInv, Finishing, QueueInv
<1>8. ToSet(<<QuitTask>>) = {QuitTask} /\ <<QuitTask>> \in Seq(MainTask)
      /\ InOrder(<<QuitTask>>, Before)
  BY FewSet, TaskTypes, OneOrder
<1>9. \A s \in Waiting : <<QuitTask, s>> \notin Before
  BY BeforeNothing, TaskFields
<1>11. /\ mainQueue' \in Seq(MainTask) /\ queuedTasks' \in Seq(MainTask)
       /\ InOrder(uiQueue', UiBefore) => QueueInv'
       /\ \A t : t \in Waiting' <=> t \in Waiting \/ t \in {QuitTask}
       /\ Says(Waiting', Intros(Waiting) \union {}, Outros(Waiting) \union {},
               Named("created", Waiting) \union {}, Named("closing", Waiting) \union {},
               Named("init", Waiting) \union {}, Orphaned(Waiting) \union {},
               AbortedOf(Waiting) \union {})
  BY <1>1, <1>2, <1>6, <1>8, <1>9, SaysQuit, Posted
<1>12. Known' = Known /\ Kept' = Kept /\ \A S : In(S)' = In(S)
  BY <1>1 DEF Known, Kept, In
<1>14. Active' = Active
  BY <1>11, <1>12 DEF Active, Says
<1>15. Types'
  BY <1>1, <1>2, <1>3, <1>11, <1>12 DEF Types
<1>16. QueueInv'
  BY <1>3, <1>11
<1>17. BookInv'
  BY <1>1, <1>2, <1>11, <1>12, <1>14 DEF BookInv, Says, In
<1>18. WindowInv'
  <2>1. Named("init", ToSet(uiQueue')) \subseteq Named("init", ToSet(uiQueue))
    BY <1>3 DEF Named
  <2> QED
    BY <1>1, <1>2, <1>11, <1>12, <2>1 DEF WindowInv, Says, In
<1>19. QuitInv'
  BY <1>1, <1>5, <1>6, <1>12 DEF QuitInv, Finishing
<1> QED
  BY <1>15, <1>16, <1>17, <1>18, <1>19 DEF WindowsInv

----------------------------------------------------------------------------
(* The loop. *)

(* The loop starts: it takes over what was queued. *)
LEMMA RunKeepsInv ==
  ASSUME WindowsInv, Run
  PROVE  WindowsInv'
<1>1. /\ phase = "starting" /\ phase' = "running"
      /\ mainQueue' = queuedTasks /\ queuedTasks' = <<>>
      /\ UNCHANGED <<quit, uiQueue, rootWindows, otherCt, otherOwners, hwnd, windowCreated,
                     windowDestroyed, browserDestroyed, attached, isClosing, browser>>
  BY DEF Run, managerVars, windowVars
<1>2. Types /\ QueueInv /\ BookInv /\ WindowInv /\ QuitInv
  BY DEF WindowsInv
<1>3. mainQueue = <<>> /\ ToSet(mainQueue) = {} /\ ToSet(queuedTasks') = {}
      /\ queuedTasks' \in Seq(MainTask)
  BY <1>1, <1>2, EmptySet DEF QueueInv
<1>4. Waiting' = Waiting
  BY <1>1, <1>3 DEF Waiting
<1>5. Known' = Known /\ Kept' = Kept /\ \A S : In(S)' = In(S)
  BY <1>1 DEF Known, Kept, In
<1>6. Active' = Active
  BY <1>4, <1>5 DEF Active
<1>7. Types'
  BY <1>1, <1>2, <1>3, <1>5 DEF Types
<1>8. QueueInv'
  BY <1>1, <1>2, EmptyOrder DEF QueueInv
<1>9. BookInv'
  BY <1>1, <1>2, <1>4, <1>5, <1>6 DEF BookInv
<1>10. WindowInv'
  BY <1>1, <1>2, <1>4, <1>5 DEF WindowInv
<1>11. QuitInv'
  BY <1>1, <1>2, <1>4, <1>5 DEF QuitInv, Finishing
<1> QED
  BY <1>7, <1>8, <1>9, <1>10, <1>11 DEF WindowsInv

(* The loop ends with nothing before it. *)
LEMMA LoopEndsKeepsInv ==
  ASSUME WindowsInv, LoopEnds
  PROVE  WindowsInv'
<1>1. /\ phase = "running" /\ quit /\ mainQueue = <<>> /\ phase' = "ended"
      /\ UNCHANGED <<quit, mainQueue, queuedTasks, uiQueue, rootWindows, otherCt, otherOwners,
                     hwnd, windowCreated, windowDestroyed, browserDestroyed, attached,
                     isClosing, browser>>
  BY DEF LoopEnds, managerVars, windowVars
<1>2. Types /\ QueueInv /\ BookInv /\ WindowInv /\ QuitInv
  BY DEF WindowsInv
<1>3. Known' = Known /\ Kept' = Kept /\ Waiting' = Waiting /\ \A S : In(S)' = In(S)
  BY <1>1 DEF Known, Kept, Waiting, In
<1>4. Active' = Active
  BY <1>3 DEF Active
<1>5. Types'
  BY <1>1, <1>2, <1>3 DEF Types
<1>6. QueueInv'
  BY <1>1, <1>2 DEF QueueInv
<1>7. BookInv'
  BY <1>1, <1>2, <1>3, <1>4 DEF BookInv
<1>8. WindowInv'
  BY <1>1, <1>2, <1>3 DEF WindowInv
<1>9. QuitInv'
  BY <1>1, <1>2, <1>3 DEF QuitInv, Finishing
<1> QED
  BY <1>5, <1>6, <1>7, <1>8, <1>9 DEF WindowsInv

(* Tasks that say nothing. *)
LEMMA SaysIdle ==
  ASSUME NEW P, \A t \in P : t.do \in {"wmClose", "destroy"}
  PROVE  Says(P, {}, {}, {}, {}, {}, {}, {}) /\ QuitTask \notin P
<1>1. Intros(P) = {} /\ Outros(P) = {}
  BY IntroOutro DEF Intros, Outros
<1>2. Named("created", P) = {} /\ Named("closing", P) = {} /\ Named("init", P) = {}
  BY TaskFields DEF Named
<1>3. Orphaned(P) = {} /\ AbortedOf(P) = {} /\ QuitTask \notin P
  BY TaskFields DEF Orphaned, AbortedOf
<1> QED
  BY <1>1, <1>2, <1>3 DEF Says

(* The messages that close windows. *)
LEMMA CloseMessagesFacts ==
  ASSUME hwnd \subseteq Window, NEW S
  PROVE  /\ CloseMessages(S) \in Seq(MainTask) /\ InOrder(CloseMessages(S), Before)
         /\ \A t \in ToSet(CloseMessages(S)) : t.do \in {"wmClose", "destroy"}
         /\ ToSet(CloseMessages(S)) = {Task("wmClose", w) : w \in S \intersect hwnd}
<1> DEFINE W == S \intersect hwnd
           A == {Task("wmClose", w) : w \in W}
           r == SetToSeq(A)
<1>1. IsFiniteSet(W)
  BY WindowsAssumption, FS_Subset
<1>2. IsFiniteSet(A)
  <2> DEFINE h == [w \in W |-> Task("wmClose", w)]
  <2>1. h \in Surjection(W, A)
    BY DEF Surjection
  <2> HIDE DEF h, A, W
  <2> QED
    BY <1>1, <2>1, FS_Surjection
<1>3. A \subseteq MainTask
  BY TaskTypes
<1>4. \A t \in A : t.do \in {"wmClose", "destroy"}
  BY TaskFields
<1>5. CloseMessages(S) = r
  BY DEF CloseMessages
<1> HIDE DEF A
<1>6. r \in Seq(A) /\ ToSet(r) = A
  BY <1>2, SetToSeqFacts
<1>7. r \in Seq(MainTask)
  BY <1>3, <1>6
<1> HIDE DEF r
<1>8. InOrder(r, Before)
  BY <1>4, <1>6, <1>7, IdleOrder, BeforeNothing
<1>9. ToSet(r) = {Task("wmClose", w) : w \in S \intersect hwnd}
  BY <1>6 DEF A
<1> QED
  BY <1>4, <1>5, <1>6, <1>7, <1>8, <1>9

(* The user, or the end of the session, closes windows. *)
LEMMA UserClosesKeepsInv ==
  ASSUME WindowsInv, NEW S, UserCloses(S)
  PROVE  WindowsInv'
<1>0. PICK R : R = CloseMessages(S)
  OBVIOUS
<1>1. /\ phase = "running" /\ mainQueue' = mainQueue \o R /\ S \intersect hwnd # {}
      /\ UNCHANGED <<phase, quit, queuedTasks, uiQueue, rootWindows, otherCt, otherOwners,
                     hwnd, windowCreated, windowDestroyed, browserDestroyed, attached,
                     isClosing, browser>>
  BY <1>0 DEF UserCloses, managerVars, windowVars
<1>2. Types /\ QueueInv /\ BookInv /\ WindowInv /\ QuitInv
  BY DEF WindowsInv
<1>3. /\ R \in Seq(MainTask) /\ InOrder(R, Before)
      /\ \A t \in ToSet(R) : t.do \in {"wmClose", "destroy"}
  BY <1>0, <1>2, CloseMessagesFacts DEF Types
<1>4. Says(ToSet(R), {}, {}, {}, {}, {}, {}, {}) /\ QuitTask \notin ToSet(R)
  BY <1>3, SaysIdle
<1>5. \A s \in Waiting, t \in ToSet(R) : <<t, s>> \notin Before
  BY <1>3, BeforeNothing
<1>6. Post(R)
  BY <1>1 DEF Post, PostTo
<1>7. /\ mainQueue' \in Seq(MainTask) /\ queuedTasks' \in Seq(MainTask)
      /\ InOrder(uiQueue', UiBefore) => QueueInv'
      /\ \A t : t \in Waiting' <=> t \in Waiting \/ t \in ToSet(R)
      /\ Says(Waiting', Intros(Waiting) \union {}, Outros(Waiting) \union {},
              Named("created", Waiting) \union {}, Named("closing", Waiting) \union {},
              Named("init", Waiting) \union {}, Orphaned(Waiting) \union {},
              AbortedOf(Waiting) \union {})
  BY <1>1, <1>2, <1>3, <1>4, <1>5, <1>6, Posted
<1>8. Known' = Known /\ Kept' = Kept /\ \A T : In(T)' = In(T)
  BY <1>1 DEF Known, Kept, In
<1>9. Active' = Active
  BY <1>7, <1>8 DEF Active, Says
<1>10. Types'
  BY <1>1, <1>2, <1>7, <1>8 DEF Types
<1>11. QueueInv'
  BY <1>1, <1>2, <1>7 DEF QueueInv
<1>12. BookInv'
  BY <1>1, <1>2, <1>7, <1>8, <1>9 DEF BookInv, Says, In
<1>13. WindowInv'
  BY <1>1, <1>2, <1>7, <1>8 DEF WindowInv, Says, In
<1>14. QuitInv'
  BY <1>1, <1>2, <1>4, <1>7, <1>8 DEF QuitInv, Finishing
<1> QED
  BY <1>10, <1>11, <1>12, <1>13, <1>14 DEF WindowsInv

----------------------------------------------------------------------------
(* The main thread takes a task. *)

\* h is the task, P what is behind it; idle tasks may have been posted.
Takes(h, P) ==
  /\ h \in MainTask /\ Waiting = {h} \union P
  /\ \A t \in P : <<t, h>> \notin Before
  /\ mainQueue' \in Seq(MainTask) /\ queuedTasks' \in Seq(MainTask)
  /\ InOrder(uiQueue', UiBefore) => QueueInv'
  /\ QuitTask \in Waiting' <=> QuitTask \in P
  /\ Says(Waiting', Intros(P), Outros(P), Named("created", P), Named("closing", P),
          Named("init", P), Orphaned(P), AbortedOf(P))

LEMMA Taken ==
  ASSUME Types, QueueInv, phase = "running", mainQueue # <<>>, phase' = phase,
         NEW R \in Seq(MainTask), mainQueue' = Tail(mainQueue) \o R, queuedTasks' = queuedTasks,
         \A t \in ToSet(R) : t.do \in {"wmClose", "destroy"}
  PROVE  \E P : Takes(Head(mainQueue), P)
<1>0. PICK P : P = ToSet(Tail(mainQueue))
  OBVIOUS
<1>1. /\ Head(mainQueue) \in MainTask
      /\ Waiting = {Head(mainQueue)} \union P
      /\ \A t \in P : <<t, Head(mainQueue)>> \notin Before
  BY <1>0, HeadFacts
<1>2. Says(ToSet(R), {}, {}, {}, {}, {}, {}, {}) /\ QuitTask \notin ToSet(R)
  BY SaysIdle
<1>3. \A s \in P, t \in ToSet(R) : <<t, s>> \notin Before
  BY BeforeNothing
<1>4. InOrder(R, Before)
  BY BeforeNothing, IdleOrder
<1>5. /\ mainQueue' \in Seq(MainTask) /\ queuedTasks' = <<>>
      /\ queuedTasks' \in Seq(MainTask)
      /\ InOrder(mainQueue', Before) /\ InOrder(queuedTasks', Before)
      /\ Waiting' = P \union ToSet(R)
  BY <1>0, <1>3, <1>4, TakeFacts
<1>6. InOrder(uiQueue', UiBefore) => QueueInv'
  BY <1>5 DEF QueueInv
<1>7. Says(Waiting', Intros(P) \union {}, Outros(P) \union {},
           Named("created", P) \union {}, Named("closing", P) \union {},
           Named("init", P) \union {}, Orphaned(P) \union {}, AbortedOf(P) \union {})
  BY <1>2, <1>5, SaysMore
<1>8. Says(Waiting', Intros(P), Outros(P), Named("created", P), Named("closing", P),
           Named("init", P), Orphaned(P), AbortedOf(P))
  BY <1>7 DEF Says
<1> QED
  BY <1>1, <1>2, <1>5, <1>6, <1>8 DEF Takes

(* The common case: nothing is posted. *)
LEMMA JustTaken ==
  ASSUME Types, QueueInv, NEW do, NextTask(do), Done, phase' = phase
  PROVE  Head(mainQueue).do = do /\ \E P : Takes(Head(mainQueue), P)
<1>1. /\ phase = "running" /\ mainQueue # <<>> /\ Head(mainQueue).do = do
      /\ mainQueue' = Tail(mainQueue) /\ queuedTasks' = queuedTasks
  BY DEF NextTask, Done
<1>2. Tail(mainQueue) \in Seq(MainTask)
  BY <1>1 DEF Types
<1>3. PICK R : R = Tail(mainQueue)
  OBVIOUS
<1>4. mainQueue' = R \o <<>>
  BY <1>1, <1>2, <1>3, ConcatEmpty
<1>5. ToSet(<<>>) = {} /\ <<>> \in Seq(MainTask)
  BY EmptySet
<1> QED
  BY <1>1, <1>3, <1>4, <1>5, Taken

(* What waited, from the task and what is behind it. *)
LEMMA WaitedFor ==
  ASSUME NEW h, NEW P, Waiting = {h} \union P,
         NEW intro, NEW outro, NEW created, NEW closing, NEW init, NEW orphaned, NEW aborted,
         Says({h}, intro, outro, created, closing, init, orphaned, aborted)
  PROVE  Says(Waiting, intro \union Intros(P), outro \union Outros(P),
              created \union Named("created", P), closing \union Named("closing", P),
              init \union Named("init", P), orphaned \union Orphaned(P),
              aborted \union AbortedOf(P))
<1>1. Says({h} \union P, Intros({h}) \union Intros(P), Outros({h}) \union Outros(P),
           Named("created", {h}) \union Named("created", P),
           Named("closing", {h}) \union Named("closing", P),
           Named("init", {h}) \union Named("init", P),
           Orphaned({h}) \union Orphaned(P), AbortedOf({h}) \union AbortedOf(P))
  BY SaysBoth
<1> QED
  BY <1>1, Zenon DEF Says

(* The native window of the first browser is created. *)
LEMMA InitOnMainKeepsInv ==
  ASSUME WindowsInv, ContinueInitOnMainThread
  PROVE  WindowsInv'
<1>0. PICK w : w = Head(mainQueue).w
  OBVIOUS
<1>1. /\ NextTask("init") /\ Done /\ CreateWindow(w)
      /\ UNCHANGED <<phase, quit, uiQueue, rootWindows, otherCt, otherOwners,
                     windowDestroyed, browserDestroyed, attached, isClosing>>
  BY <1>0 DEF ContinueInitOnMainThread, managerVars
<1>2. Types /\ QueueInv /\ BookInv /\ WindowInv /\ QuitInv
  BY DEF WindowsInv
<1>3. Head(mainQueue).do = "init" /\ \E P : Takes(Head(mainQueue), P)
  BY <1>1, <1>2, JustTaken
<1>4. PICK P : Takes(Head(mainQueue), P)
  BY <1>3
<1>4a. Says(Waiting', Intros(P), Outros(P), Named("created", P), Named("closing", P),
            Named("init", P), Orphaned(P), AbortedOf(P))
  BY <1>4 DEF Takes
<1>5. w \in Window /\ Head(mainQueue) = Task("init", w)
  BY <1>0, <1>3, <1>4, TaskShape DEF Takes
<1>6. Says({Task("init", w)}, {}, {}, {}, {}, {w}, {}, {})
  BY <1>5, SaysWindowTask
<1>7. Says(Waiting, {} \union Intros(P), {} \union Outros(P), {} \union Named("created", P),
           {} \union Named("closing", P), {w} \union Named("init", P),
           {} \union Orphaned(P), {} \union AbortedOf(P))
  BY <1>4, <1>5, <1>6, WaitedFor DEF Takes
<1>8. w \notin Named("init", P)
  BY <1>4, <1>5, BehindHead DEF Takes
<1>9. /\ w = First /\ browser[w] = "none" /\ w \in rootWindows /\ w \notin windowCreated
      /\ Named("init", P) = {} /\ Named("init", ToSet(uiQueue)) = {}
  BY <1>2, <1>7, <1>8 DEF WindowInv, Says, In
<1>10. /\ w \notin Popup /\ w \in Browser /\ browser' = [browser EXCEPT ![w] = "pending"]
       /\ hwnd' = hwnd \union {w} /\ windowCreated' = windowCreated \union {w}
  BY <1>1, <1>9, IntroOutro DEF CreateWindow
<1>11. \A x \in Browser : browser'[x] = IF x = w THEN "pending" ELSE browser[x]
  BY <1>2, <1>10 DEF Types
<1>12. Known' = Known /\ Kept' = Kept /\ w \in Kept
  BY <1>1, <1>9 DEF Known, Kept
<1>13. /\ In({"pending"})' = In({"pending"}) \union {w}
       /\ In({"closed"})' = In({"closed"}) /\ In({"none"})' = In({"none"}) \ {w}
       /\ In({"live", "closing"})' = In({"live", "closing"})
       /\ In({"live", "closing", "closed"})' = In({"live", "closing", "closed"})
       /\ In({"aborted"})' = In({"aborted"})
  BY <1>9, <1>10, <1>11 DEF In
<1>14. Active' = Active
  BY <1>4, <1>7, <1>13 DEF Active, Says, Takes
<1>15. Types'
  BY <1>1, <1>2, <1>4, <1>5, <1>10, <1>12 DEF Types, Takes
<1>16. QueueInv'
  BY <1>1, <1>2, <1>4 DEF QueueInv, Takes
<1>17. BookInv'
  BY <1>1, <1>2, <1>4a, <1>7, <1>12, <1>13, <1>14 DEF BookInv, Says
<1>18. WindowInv'
  <2>1. \A p \in Popup : browser'[p] = "pending" => browser'[OpenerOf[p]] \in {"live", "closing"}
    BY <1>2, <1>9, <1>10, <1>11, IntroOutro DEF WindowInv
  <2> QED
    BY <1>1, <1>2, <1>4a, <1>7, <1>9, <1>10, <1>13, <2>1 DEF WindowInv, Says
<1>19. QuitInv'
  BY <1>1, <1>2, <1>4, <1>12 DEF QuitInv, Finishing, Takes
<1> QED
  BY <1>15, <1>16, <1>17, <1>18, <1>19 DEF WindowsInv

(* The manager stores a window. *)
LEMMA RootCreatedKeepsInv ==
  ASSUME WindowsInv, OnRootWindowCreated
  PROVE  WindowsInv'
<1>0. PICK w : w = Head(mainQueue).w
  OBVIOUS
<1>1. /\ NextTask("rootCreated") /\ Done /\ rootWindows' = rootWindows \union {w}
      /\ UNCHANGED <<phase, quit, uiQueue, otherCt, otherOwners, hwnd, windowCreated,
                     windowDestroyed, browserDestroyed, attached, isClosing, browser>>
  BY <1>0 DEF OnRootWindowCreated, windowVars
<1>2. Types /\ QueueInv /\ BookInv /\ WindowInv /\ QuitInv
  BY DEF WindowsInv
<1>3. Head(mainQueue).do = "rootCreated" /\ \E P : Takes(Head(mainQueue), P)
  BY <1>1, <1>2, JustTaken
<1>4. PICK P : Takes(Head(mainQueue), P)
  BY <1>3
<1>5. w \in Window /\ Head(mainQueue) = Task("rootCreated", w)
  BY <1>0, <1>3, <1>4, TaskShape DEF Takes
<1>6. Says({Task("rootCreated", w)}, {w}, {}, {}, {}, {}, {}, {})
  BY <1>5, SaysWindowTask
<1>7. Says(Waiting, {w} \union Intros(P), {} \union Outros(P), {} \union Named("created", P),
           {} \union Named("closing", P), {} \union Named("init", P),
           {} \union Orphaned(P), {} \union AbortedOf(P))
  BY <1>4, <1>5, <1>6, WaitedFor DEF Takes
<1>8. w \notin Intros(P) /\ w \in Browser
  <2>1. w \in Browser /\ Intro(w) = Task("rootCreated", w)
    BY <1>5, IntroOutro
  <2> QED
    BY <1>4, <1>5, <2>1, BehindHead DEF Takes
<1>9. ~Finishing
  <2>1. OpenerOf[w] \in Active
    BY <1>2, <1>7 DEF BookInv, Says
  <2> QED
    BY <2>1, NotFinishing
<1>10. Known' = Known /\ Kept' = Kept \union {w}
  BY <1>1 DEF Known, Kept
<1>11. \A S : In(S)' = In(S)
  BY <1>1 DEF In
<1>12. Active' = Active
  BY <1>4, <1>7, <1>11 DEF Active, Says, Takes
<1>13. Types'
  BY <1>1, <1>2, <1>4, <1>5, <1>10 DEF Types, Takes
<1>14. QueueInv'
  BY <1>1, <1>2, <1>4 DEF QueueInv, Takes
<1>15. BookInv'
  BY <1>1, <1>2, <1>4, <1>7, <1>8, <1>10, <1>11, <1>12 DEF BookInv, Says, Takes
<1>16. WindowInv'
  BY <1>1, <1>2, <1>4, <1>7, <1>11 DEF WindowInv, Says, Takes
<1>17. QuitInv'
  BY <1>1, <1>4, <1>9 DEF QuitInv, Finishing, Takes
<1> QED
  BY <1>13, <1>14, <1>15, <1>16, <1>17 DEF WindowsInv

(* A window hears of its browser, and a popup becomes one. *)
LEMMA BrowserCreatedKeepsInv ==
  ASSUME WindowsInv, OnBrowserCreated
  PROVE  WindowsInv'
<1>0. PICK w : w = Head(mainQueue).w
  OBVIOUS
<1>1. /\ NextTask("created") /\ Done /\ attached' = attached \union {w}
      /\ IF w \in Popup THEN CreateWindow(w) ELSE UNCHANGED <<hwnd, windowCreated, browser>>
      /\ UNCHANGED <<phase, quit, uiQueue, rootWindows, otherCt, otherOwners,
                     windowDestroyed, browserDestroyed, isClosing>>
  BY <1>0 DEF OnBrowserCreated, managerVars
<1>2. Types /\ QueueInv /\ BookInv /\ WindowInv /\ QuitInv
  BY DEF WindowsInv
<1>3. Head(mainQueue).do = "created" /\ \E P : Takes(Head(mainQueue), P)
  BY <1>1, <1>2, JustTaken
<1>4. PICK P : Takes(Head(mainQueue), P)
  BY <1>3
<1>4a. Says(Waiting', Intros(P), Outros(P), Named("created", P), Named("closing", P),
            Named("init", P), Orphaned(P), AbortedOf(P))
  BY <1>4 DEF Takes
<1>5. w \in Window /\ Head(mainQueue) = Task("created", w)
  BY <1>0, <1>3, <1>4, TaskShape DEF Takes
<1>6. Says({Task("created", w)}, {}, {}, {w}, {}, {}, {}, {})
  BY <1>5, SaysWindowTask
<1>7. Says(Waiting, {} \union Intros(P), {} \union Outros(P), {w} \union Named("created", P),
           {} \union Named("closing", P), {} \union Named("init", P),
           {} \union Orphaned(P), {} \union AbortedOf(P))
  BY <1>4, <1>5, <1>6, WaitedFor DEF Takes
<1>8. w \notin Intros(P) /\ w \notin Named("created", P) /\ w \in Browser /\ w \notin Other
  BY <1>4, <1>5, BehindHead, IntroOutro DEF Takes
<1>9. w \in rootWindows
  <2>1. w \in Kept
    BY <1>2, <1>7, <1>8 DEF BookInv, Says
  <2> QED
    BY <1>8, <2>1 DEF Kept, Known
<1>10. browser' = browser
  BY <1>1 DEF CreateWindow
<1>11. \A S : In(S)' = In(S)
  BY <1>10 DEF In
<1>12. Known' = Known /\ Kept' = Kept
  BY <1>1 DEF Known, Kept
<1>13. Active' = Active
  BY <1>4, <1>7, <1>11 DEF Active, Says, Takes
<1>14. Types'
  BY <1>1, <1>2, <1>4, <1>5, <1>10, <1>12 DEF Types, Takes, CreateWindow
<1>15. QueueInv'
  BY <1>1, <1>2, <1>4 DEF QueueInv, Takes
<1>16. BookInv'
  BY <1>1, <1>2, <1>4, <1>7, <1>11, <1>12, <1>13 DEF BookInv, Says, Takes
<1>17. WindowInv'
  <2>0. \A p \in Popup : browser'[p] = "pending" => browser'[OpenerOf[p]] \in {"live", "closing"}
    BY <1>2, <1>10 DEF WindowInv
  <2>1. CASE w \in Popup
    <3>1. hwnd' = hwnd \union {w} /\ windowCreated' = windowCreated \union {w}
      BY <1>1, <2>1 DEF CreateWindow
    <3>2. w \notin windowCreated /\ w # First
      BY <1>2, <1>7, <2>1, IntroOutro DEF WindowInv, Says
    <3> QED
      BY <1>1, <1>2, <1>4a, <1>7, <1>8, <1>9, <1>11, <2>0, <2>1, <3>1, <3>2
         DEF WindowInv, Says
  <2>2. CASE w \notin Popup
    <3>1. hwnd' = hwnd /\ windowCreated' = windowCreated
      BY <1>1, <2>2
    <3> QED
      BY <1>1, <1>2, <1>4a, <1>7, <1>11, <2>0, <2>2, <3>1 DEF WindowInv, Says
  <2> QED
    BY <2>1, <2>2
<1>18. QuitInv'
  BY <1>1, <1>2, <1>4, <1>12 DEF QuitInv, Finishing, Takes
<1> QED
  BY <1>14, <1>15, <1>16, <1>17, <1>18 DEF WindowsInv

(* A window hears that its browser agreed to close. *)
LEMMA BrowserClosingKeepsInv ==
  ASSUME WindowsInv, OnBrowserClosing
  PROVE  WindowsInv'
<1>0. PICK w : w = Head(mainQueue).w
  OBVIOUS
<1>1. /\ NextTask("closing") /\ Done /\ isClosing' = isClosing \union {w}
      /\ UNCHANGED <<phase, quit, uiQueue, rootWindows, otherCt, otherOwners, hwnd,
                     windowCreated, windowDestroyed, browserDestroyed, attached, browser>>
  BY <1>0 DEF OnBrowserClosing, managerVars
<1>2. Types /\ QueueInv /\ BookInv /\ WindowInv /\ QuitInv
  BY DEF WindowsInv
<1>3. Head(mainQueue).do = "closing" /\ \E P : Takes(Head(mainQueue), P)
  BY <1>1, <1>2, JustTaken
<1>4. PICK P : Takes(Head(mainQueue), P)
  BY <1>3
<1>5. w \in Window /\ Head(mainQueue) = Task("closing", w)
  BY <1>0, <1>3, <1>4, TaskShape DEF Takes
<1>6. Says({Task("closing", w)}, {}, {}, {}, {w}, {}, {}, {})
  BY <1>5, SaysWindowTask
<1>7. Says(Waiting, {} \union Intros(P), {} \union Outros(P), {} \union Named("created", P),
           {w} \union Named("closing", P), {} \union Named("init", P),
           {} \union Orphaned(P), {} \union AbortedOf(P))
  BY <1>4, <1>5, <1>6, WaitedFor DEF Takes
<1>8. Known' = Known /\ Kept' = Kept /\ \A S : In(S)' = In(S)
  BY <1>1 DEF Known, Kept, In
<1>9. Active' = Active
  BY <1>4, <1>7, <1>8 DEF Active, Says, Takes
<1>10. Types'
  BY <1>1, <1>2, <1>4, <1>5, <1>8 DEF Types, Takes
<1>11. QueueInv'
  BY <1>1, <1>2, <1>4 DEF QueueInv, Takes
<1>12. BookInv'
  BY <1>1, <1>2, <1>4, <1>7, <1>8, <1>9 DEF BookInv, Says, Takes
<1>13. WindowInv'
  BY <1>1, <1>2, <1>4, <1>7, <1>8 DEF WindowInv, Says, Takes
<1>14. QuitInv'
  BY <1>1, <1>2, <1>4, <1>8 DEF QuitInv, Finishing, Takes
<1> QED
  BY <1>10, <1>11, <1>12, <1>13, <1>14 DEF WindowsInv

(* The loop is told to quit. *)
LEMMA PostQuitKeepsInv ==
  ASSUME WindowsInv, PostQuitMessage
  PROVE  WindowsInv'
<1>1. /\ NextTask("quit") /\ Done /\ quit' = TRUE
      /\ UNCHANGED <<phase, uiQueue, rootWindows, otherCt, otherOwners, hwnd, windowCreated,
                     windowDestroyed, browserDestroyed, attached, isClosing, browser>>
  BY DEF PostQuitMessage, managerVars, windowVars
<1>2. Types /\ QueueInv /\ BookInv /\ WindowInv /\ QuitInv
  BY DEF WindowsInv
<1>3. Head(mainQueue).do = "quit" /\ \E P : Takes(Head(mainQueue), P)
  BY <1>1, <1>2, JustTaken
<1>4. PICK P : Takes(Head(mainQueue), P)
  BY <1>3
<1>5. Head(mainQueue) = QuitTask /\ QuitTask \in Waiting
  BY <1>3, <1>4, TaskShape DEF Takes
<1>7. Says(Waiting, {} \union Intros(P), {} \union Outros(P), {} \union Named("created", P),
           {} \union Named("closing", P), {} \union Named("init", P),
           {} \union Orphaned(P), {} \union AbortedOf(P))
  BY <1>4, <1>5, SaysQuit, WaitedFor DEF Takes
<1>8. Known' = Known /\ Kept' = Kept /\ \A S : In(S)' = In(S)
  BY <1>1 DEF Known, Kept, In
<1>9. Active' = Active
  BY <1>4, <1>7, <1>8 DEF Active, Says, Takes
<1>10. Types'
  BY <1>1, <1>2, <1>4, <1>8 DEF Types, Takes
<1>11. QueueInv'
  BY <1>1, <1>2, <1>4 DEF QueueInv, Takes
<1>12. BookInv'
  BY <1>1, <1>2, <1>4, <1>7, <1>8, <1>9 DEF BookInv, Says, Takes
<1>13. WindowInv'
  BY <1>1, <1>2, <1>4, <1>7, <1>8 DEF WindowInv, Says, Takes
<1>14. QuitInv'
  BY <1>1, <1>2, <1>5, <1>8 DEF QuitInv, Finishing
<1> QED
  BY <1>10, <1>11, <1>12, <1>13, <1>14 DEF WindowsInv

(* The count of the browsers without a window. *)
LEMMA KnownFacts ==
  ASSUME Types
  PROVE  /\ IsFiniteSet(Known) /\ otherCt \in Nat /\ (otherCt = 0 <=> Known = {})
         /\ \A o : /\ o \notin Known => Cardinality(Known \union {o}) = otherCt + 1
                   /\ o \in Known => Cardinality(Known \ {o}) = otherCt - 1
<1>1. Known \subseteq Other /\ IsFiniteSet(Other)
  BY WindowsAssumption DEF Known
<1>2. IsFiniteSet(Known)
  BY <1>1, FS_Subset
<1>3. otherCt = Cardinality(Known) /\ otherCt \in Nat
  BY <1>2, FS_CardinalityType DEF Types
<1>4. otherCt = 0 <=> Known = {}
  BY <1>2, <1>3, FS_EmptySet
<1>5. ASSUME NEW o, o \notin Known PROVE Cardinality(Known \union {o}) = otherCt + 1
  BY <1>2, <1>3, <1>5, FS_AddElement
<1>6. ASSUME NEW o, o \in Known PROVE Cardinality(Known \ {o}) = otherCt - 1
  BY <1>2, <1>3, <1>6, FS_RemoveElement
<1> QED
  BY <1>2, <1>3, <1>4, <1>5, <1>6

(* What MaybeCleanup adds does not begin anything. *)
LEMMA CleanupInit ==
  ASSUME NEW A, NEW B, B = A \/ B = A \union {CleanupTask}
  PROVE  Named("init", B) = Named("init", A)
BY TaskFields DEF Named

(* The manager forgets windows before anybody asked for the end. *)
LEMMA DestroyedFacts ==
  ASSUME Types, QueueInv, ~Finishing, NEW S, OnRootWindowDestroyed(S)
  PROVE  /\ rootWindows' = rootWindows \ S
         /\ uiQueue' \in Seq(UiTask) /\ InOrder(uiQueue', UiBefore)
         /\ Named("init", ToSet(uiQueue')) = Named("init", ToSet(uiQueue))
         /\ CleanupTask \in ToSet(uiQueue') => rootWindows' = {} /\ Known = {}
<1>1. /\ uiQueue \in Seq(UiTask) /\ InOrder(uiQueue, UiBefore)
      /\ CleanupTask \notin ToSet(uiQueue)
  BY DEF Types, QueueInv, Finishing
<1>2. rootWindows' = rootWindows \ S
  BY DEF OnRootWindowDestroyed
<1>3. CASE S = {}
  <2>1. uiQueue' = uiQueue
    BY <1>3 DEF OnRootWindowDestroyed
  <2> QED
    BY <1>1, <1>2, <2>1
<1>4. CASE S # {}
  <2>1. uiQueue' = MaybeCleanup(rootWindows \ S, otherCt, uiQueue)
    BY <1>4 DEF OnRootWindowDestroyed
  <2>2. /\ uiQueue' \in Seq(UiTask) /\ InOrder(uiQueue', UiBefore)
        /\ ToSet(uiQueue') = IF rootWindows \ S = {} /\ otherCt = 0
                               THEN ToSet(uiQueue) \union {CleanupTask} ELSE ToSet(uiQueue)
    BY <1>1, <2>1, CleanupFacts
  <2>3. CleanupTask \in ToSet(uiQueue') => rootWindows' = {} /\ Known = {}
    BY <1>1, <1>2, <2>2, KnownFacts
  <2>4. Named("init", ToSet(uiQueue')) = Named("init", ToSet(uiQueue))
    BY <2>2, CleanupInit
  <2> QED
    BY <1>2, <2>2, <2>3, <2>4
<1> QED
  BY <1>3, <1>4

(* A window hears of the end of its browser. *)
LEMMA BrowserClosedKeepsInv ==
  ASSUME WindowsInv, OnBrowserClosed
  PROVE  WindowsInv'
<1>0. PICK w : w = Head(mainQueue).w
  OBVIOUS
<1>a. PICK R : R = IF w \in windowDestroyed THEN <<>> ELSE <<Task("destroy", w)>>
  OBVIOUS
<1>b. PICK S : S = {w} \intersect windowDestroyed \intersect (browserDestroyed \union {w})
  OBVIOUS
<1>1. /\ phase = "running" /\ mainQueue # <<>> /\ Head(mainQueue).do = "closed"
      /\ PostTo(Tail(mainQueue), R)
      /\ attached' = attached \ {w} /\ browserDestroyed' = browserDestroyed \union {w}
      /\ OnRootWindowDestroyed(S)
      /\ UNCHANGED <<phase, quit, otherCt, otherOwners, hwnd, windowCreated,
                     windowDestroyed, isClosing, browser>>
  BY <1>0, <1>a, <1>b DEF OnBrowserClosed, NextTask, NotifyDestroyedIfDone
<1>2. Types /\ QueueInv /\ BookInv /\ WindowInv /\ QuitInv
  BY DEF WindowsInv
<1>3. Head(mainQueue) \in MainTask
  BY <1>1, <1>2, HeadFacts
<1>4. w \in Window /\ Head(mainQueue) = Task("closed", w)
  BY <1>0, <1>1, <1>3, TaskShape
<1>5. R \in Seq(MainTask) /\ \A t \in ToSet(R) : t.do \in {"wmClose", "destroy"}
  <2>1. PICK t : t = Task("destroy", w)
    OBVIOUS
  <2>2. t \in MainTask /\ t.do = "destroy"
    BY <1>4, <2>1, TaskTypes, TaskFields
  <2>3. <<t>> \in Seq(MainTask) /\ ToSet(<<t>>) = {t}
    BY <2>2, FewSet
  <2>4. <<>> \in Seq(MainTask) /\ ToSet(<<>>) = {}
    BY EmptySet
  <2>5. R = <<>> \/ R = <<t>>
    BY <1>a, <2>1
  <2> QED
    BY <2>2, <2>3, <2>4, <2>5
<1>6. \E P : Takes(Head(mainQueue), P)
  <2>1. mainQueue' = Tail(mainQueue) \o R /\ queuedTasks' = queuedTasks
    BY <1>1 DEF PostTo
  <2> QED
    BY <1>1, <1>2, <1>5, <2>1, Taken
<1>7. PICK P : Takes(Head(mainQueue), P)
  BY <1>6
<1>8. Says(Waiting', Intros(P), Outros(P), Named("created", P), Named("closing", P),
           Named("init", P), Orphaned(P), AbortedOf(P))
  BY <1>7 DEF Takes
<1>9. Says({Task("closed", w)}, {}, {w}, {}, {}, {}, {}, {})
  BY <1>4, SaysWindowTask
<1>10. Says(Waiting, {} \union Intros(P), {w} \union Outros(P), {} \union Named("created", P),
            {} \union Named("closing", P), {} \union Named("init", P),
            {} \union Orphaned(P), {} \union AbortedOf(P))
  BY <1>4, <1>7, <1>9, WaitedFor DEF Takes
<1>11. /\ w \notin Outros(P) /\ w \notin Intros(P)
       /\ w \notin Named("created", P) /\ w \notin Named("closing", P)
       /\ \A y \in Popup \union Other : OpenerOf[y] = w => y \notin Intros(P)
  <2>1. w \in Browser /\ Head(mainQueue) = Outro(w)
    BY <1>4, IntroOutro
  <2> QED
    BY <1>7, <2>1, BehindHead DEF Takes
<1>12. w \in Active /\ w \in In({"closed"}) /\ w \notin Other
  BY <1>2, <1>4, <1>10, IntroOutro DEF BookInv, Says, Active
<1>13. ~Finishing
  BY <1>12, NotFinishing
<1>14. /\ rootWindows' = rootWindows \ S
       /\ uiQueue' \in Seq(UiTask) /\ InOrder(uiQueue', UiBefore)
       /\ Named("init", ToSet(uiQueue')) = Named("init", ToSet(uiQueue))
       /\ CleanupTask \in ToSet(uiQueue') => rootWindows' = {} /\ Known = {}
  BY <1>1, <1>2, <1>13, DestroyedFacts
<1>15. S \subseteq {w} /\ S \subseteq windowDestroyed
  BY <1>b
<1>16. Known' = Known /\ Known \subseteq Other /\ rootWindows' \subseteq rootWindows
       /\ Kept' \subseteq Kept /\ Kept \ {w} \subseteq Kept'
  BY <1>1, <1>14, <1>15 DEF Known, Kept
<1>17. \A T : In(T)' = In(T)
  BY <1>1 DEF In
<1>18. Active' = Active \ {w}
  <2>1. w \notin In({"live", "closing"})
    BY <1>12 DEF In
  <2> QED
    BY <1>8, <1>10, <1>11, <1>17, <2>1 DEF Active, Says
<1>19. w \notin In({"pending"}) /\ w \notin In({"none"})
  BY <1>12 DEF In
<1>20. Types'
  BY <1>1, <1>2, <1>4, <1>7, <1>14, <1>16 DEF Types, Takes
<1>21. QueueInv'
  BY <1>7, <1>14 DEF Takes
<1>22. BookInv'
  BY <1>2, <1>8, <1>10, <1>11, <1>12, <1>16, <1>17, <1>18, <1>19 DEF BookInv, Says
<1>23. WindowInv'
  <2>1. \A p \in Popup : browser'[p] = "pending" => browser'[OpenerOf[p]] \in {"live", "closing"}
    BY <1>1, <1>2 DEF WindowInv
  <2>2. hwnd' \subseteq rootWindows'
    BY <1>1, <1>2, <1>14, <1>15 DEF WindowInv
  <2>3. browserDestroyed' \subseteq In({"closed"})' \ Outros(Waiting')
    BY <1>1, <1>2, <1>8, <1>10, <1>11, <1>12, <1>17 DEF WindowInv, Says
  <2>4. Named("init", Waiting') \union Named("init", ToSet(uiQueue'))
          \subseteq ({First} \intersect In({"none"})' \intersect rootWindows') \ windowCreated'
    BY <1>1, <1>2, <1>8, <1>10, <1>14, <1>15, <1>17, <1>19 DEF WindowInv, Says
  <2> QED
    BY <1>1, <1>2, <1>8, <1>10, <1>14, <1>17, <2>1, <2>2, <2>3, <2>4 DEF WindowInv, Says
<1>24. QuitInv'
  BY <1>1, <1>7, <1>13, <1>14, <1>16 DEF QuitInv, Finishing, Takes, Kept
<1> QED
  BY <1>20, <1>21, <1>22, <1>23, <1>24 DEF WindowsInv

(* A native window is destroyed. *)
LEMMA DestroyKeepsInv ==
  ASSUME WindowsInv, NEW w \in hwnd, DestroyWindow(w),
         NEW P, Takes(Head(mainQueue), P), Head(mainQueue).do \in {"wmClose", "destroy"},
         UNCHANGED <<phase, quit, otherCt, otherOwners, windowCreated, browserDestroyed,
                     attached, isClosing, browser>>
  PROVE  WindowsInv'
<1>b. PICK S : S = {w} \intersect (windowDestroyed \union {w}) \intersect browserDestroyed
  OBVIOUS
<1>1. /\ hwnd' = hwnd \ {w} /\ windowDestroyed' = windowDestroyed \union {w}
      /\ OnRootWindowDestroyed(S)
  BY <1>b DEF DestroyWindow, NotifyDestroyedIfDone
<1>2. Types /\ QueueInv /\ BookInv /\ WindowInv /\ QuitInv
  BY DEF WindowsInv
<1>8. Says(Waiting', Intros(P), Outros(P), Named("created", P), Named("closing", P),
           Named("init", P), Orphaned(P), AbortedOf(P))
  BY DEF Takes
<1>9. Says({Head(mainQueue)}, {}, {}, {}, {}, {}, {}, {})
  BY SaysIdle
<1>10. Says(Waiting, {} \union Intros(P), {} \union Outros(P), {} \union Named("created", P),
            {} \union Named("closing", P), {} \union Named("init", P),
            {} \union Orphaned(P), {} \union AbortedOf(P))
  BY <1>9, WaitedFor DEF Takes
<1>13. w \in rootWindows /\ w \in Window /\ w \in windowCreated /\ ~Finishing
  <2>1. w \in rootWindows /\ w \in Window /\ w \in windowCreated
    BY <1>2 DEF WindowInv, Types
  <2>2. ~Finishing
    BY <2>1, NotFinishing DEF Kept
  <2> QED
    BY <2>1, <2>2
<1>14. /\ rootWindows' = rootWindows \ S
       /\ uiQueue' \in Seq(UiTask) /\ InOrder(uiQueue', UiBefore)
       /\ Named("init", ToSet(uiQueue')) = Named("init", ToSet(uiQueue))
       /\ CleanupTask \in ToSet(uiQueue') => rootWindows' = {} /\ Known = {}
  BY <1>1, <1>2, <1>13, DestroyedFacts
<1>15. S \subseteq {w} /\ S \subseteq browserDestroyed
  BY <1>b
<1>16. Known' = Known /\ rootWindows' \subseteq rootWindows /\ Kept' \subseteq Kept
       /\ Kept \ S \subseteq Kept'
  BY <1>1, <1>14 DEF Known, Kept
<1>17. \A T : In(T)' = In(T)
  BY DEF In
<1>18. Active' = Active
  BY <1>8, <1>10, <1>17 DEF Active, Says
<1>19. S \intersect (Active \union In({"pending"}) \union In({"none"})) = {}
  <2>1. S \subseteq In({"closed"}) \ Outros(Waiting)
    BY <1>2, <1>15 DEF WindowInv
  <2> QED
    BY <2>1 DEF Active, In
<1>20. Types'
  BY <1>1, <1>2, <1>13, <1>14, <1>16 DEF Types, Takes
<1>21. QueueInv'
  BY <1>14 DEF Takes
<1>22. BookInv'
  BY <1>2, <1>8, <1>10, <1>16, <1>17, <1>18, <1>19 DEF BookInv, Says
<1>23. WindowInv'
  <2>1. \A p \in Popup : browser'[p] = "pending" => browser'[OpenerOf[p]] \in {"live", "closing"}
    BY <1>2 DEF WindowInv
  <2>2. hwnd' \subseteq rootWindows'
    BY <1>1, <1>2, <1>14, <1>15 DEF WindowInv
  <2>4. Named("init", Waiting') \union Named("init", ToSet(uiQueue'))
          \subseteq ({First} \intersect In({"none"})' \intersect rootWindows') \ windowCreated'
    BY <1>1, <1>2, <1>8, <1>10, <1>13, <1>14, <1>15, <1>17, <1>19 DEF WindowInv, Says
  <2> QED
    BY <1>1, <1>2, <1>8, <1>10, <1>13, <1>14, <1>17, <2>1, <2>2, <2>4 DEF WindowInv, Says
<1>24. QuitInv'
  BY <1>1, <1>13, <1>14, <1>16 DEF QuitInv, Finishing, Takes, Kept
<1> QED
  BY <1>20, <1>21, <1>22, <1>23, <1>24 DEF WindowsInv

(* The main thread takes a task without consequences. *)
LEMMA MainTakeKeepsInv ==
  ASSUME WindowsInv,
         NEW P, Takes(Head(mainQueue), P), Head(mainQueue).do \in {"wmClose", "destroy"},
         uiQueue' \in Seq(UiTask), InOrder(uiQueue', UiBefore),
         Named("init", ToSet(uiQueue')) = Named("init", ToSet(uiQueue)),
         CleanupTask \in ToSet(uiQueue') => CleanupTask \in ToSet(uiQueue),
         UNCHANGED <<phase, quit, rootWindows, otherCt, otherOwners, hwnd, windowCreated,
                     windowDestroyed, browserDestroyed, attached, isClosing, browser>>
  PROVE  WindowsInv'
<1>2. Types /\ QueueInv /\ BookInv /\ WindowInv /\ QuitInv
  BY DEF WindowsInv
<1>8. Says(Waiting', Intros(P), Outros(P), Named("created", P), Named("closing", P),
           Named("init", P), Orphaned(P), AbortedOf(P))
  BY DEF Takes
<1>9. Says({Head(mainQueue)}, {}, {}, {}, {}, {}, {}, {})
  BY SaysIdle
<1>10. Says(Waiting, {} \union Intros(P), {} \union Outros(P), {} \union Named("created", P),
            {} \union Named("closing", P), {} \union Named("init", P),
            {} \union Orphaned(P), {} \union AbortedOf(P))
  BY <1>9, WaitedFor DEF Takes
<1>11. Known' = Known /\ Kept' = Kept /\ \A T : In(T)' = In(T)
  BY DEF Known, Kept, In
<1>12. Active' = Active
  BY <1>8, <1>10, <1>11 DEF Active, Says
<1>13. Types'
  BY <1>2, <1>11 DEF Types, Takes
<1>14. QueueInv'
  BY DEF Takes
<1>15. BookInv'
  BY <1>2, <1>8, <1>10, <1>11, <1>12 DEF BookInv, Says
<1>16. WindowInv'
  BY <1>2, <1>8, <1>10, <1>11 DEF WindowInv, Says
<1>17. QuitInv'
  BY <1>2, <1>11 DEF QuitInv, Finishing, Takes
<1> QED
  BY <1>13, <1>14, <1>15, <1>16, <1>17 DEF WindowsInv

(* The window goes after its browser. *)
LEMMA CloseByForceKeepsInv ==
  ASSUME WindowsInv, CloseByForce
  PROVE  WindowsInv'
<1>0. PICK w : w = Head(mainQueue).w
  OBVIOUS
<1>1. /\ NextTask("destroy") /\ Done
      /\ IF w \in hwnd THEN DestroyWindow(w)
         ELSE UNCHANGED <<hwnd, windowDestroyed, rootWindows, uiQueue>>
      /\ UNCHANGED <<phase, quit, otherCt, otherOwners, windowCreated,
                     browserDestroyed, attached, isClosing, browser>>
  BY <1>0 DEF CloseByForce
<1>2. Types /\ QueueInv
  BY DEF WindowsInv
<1>3. Head(mainQueue).do = "destroy" /\ \E P : Takes(Head(mainQueue), P)
  BY <1>1, <1>2, JustTaken
<1>4. PICK P : Takes(Head(mainQueue), P)
  BY <1>3
<1>5. CASE w \in hwnd
  BY <1>1, <1>3, <1>4, <1>5, DestroyKeepsInv
<1>6. CASE w \notin hwnd
  BY <1>1, <1>2, <1>3, <1>4, <1>6, MainTakeKeepsInv DEF Types, QueueInv
<1> QED
  BY <1>5, <1>6

(* A window is told to close: it asks its browser first. *)
LEMMA ReceiveCloseKeepsInv ==
  ASSUME WindowsInv, ReceiveClose
  PROVE  WindowsInv'
<1>0. PICK w : w = Head(mainQueue).w
  OBVIOUS
<1>1. /\ NextTask("wmClose") /\ Done
      /\ IF w \in hwnd THEN OnClose(w)
         ELSE UNCHANGED <<hwnd, windowDestroyed, rootWindows, uiQueue>>
      /\ UNCHANGED <<phase, quit, otherCt, otherOwners, windowCreated,
                     browserDestroyed, attached, isClosing, browser>>
  BY <1>0 DEF ReceiveClose
<1>2. Types /\ QueueInv /\ uiQueue \in Seq(UiTask) /\ InOrder(uiQueue, UiBefore)
  BY DEF WindowsInv, Types, QueueInv
<1>3. Head(mainQueue).do = "wmClose" /\ \E P : Takes(Head(mainQueue), P)
  BY <1>1, <1>2, JustTaken
<1>4. PICK P : Takes(Head(mainQueue), P)
  BY <1>3
<1>5. CASE w \in hwnd /\ w \in attached /\ w \notin isClosing
  <2> DEFINE c == [do |-> "close", x |-> w]
             longer == uiQueue \o <<c>>
  <2>1. /\ uiQueue' = Append(uiQueue, c)
        /\ UNCHANGED <<hwnd, windowDestroyed, rootWindows>>
    BY <1>1, <1>5 DEF OnClose
  <2>2. c \in UiTask
    BY <1>2, <1>5, TaskTypes, IntroOutro DEF Types
  <2>3. <<c>> \in Seq(UiTask) /\ ToSet(<<c>>) = {c}
    BY <2>2, FewSet
  <2>4. Append(uiQueue, c) \in Seq(UiTask)
        /\ ToSet(Append(uiQueue, c)) = ToSet(uiQueue) \union {c}
    BY <1>2, <2>2, AppendSet
  <2>5. Append(uiQueue, c) = longer
    BY <1>2
  <2>6. \A s : <<c, s>> \notin UiBefore
    BY <2>2 DEF UiBefore, UiTask
  <2>7. InOrder(longer, UiBefore)
    <3>1. InOrder(<<c>>, UiBefore)
      BY OneOrder
    <3>2. \A s \in ToSet(uiQueue), t \in ToSet(<<c>>) : <<t, s>> \notin UiBefore
      BY <2>3, <2>6
    <3> HIDE DEF c
    <3> QED
      BY <1>2, <2>3, <3>1, <3>2, ConcatOrder
  <2>8. c.do = "close"
    OBVIOUS
  <2> HIDE DEF c, longer
  <2>9. Named("init", ToSet(uiQueue')) = Named("init", ToSet(uiQueue))
    BY <2>1, <2>4, <2>8, TaskFields DEF Named
  <2>10. CleanupTask \in ToSet(uiQueue') => CleanupTask \in ToSet(uiQueue)
    BY <2>1, <2>4, <2>8, TaskFields
  <2>11. uiQueue' \in Seq(UiTask) /\ InOrder(uiQueue', UiBefore)
    BY <2>1, <2>4, <2>5, <2>7
  <2> QED
    BY <1>1, <1>3, <1>4, <2>1, <2>9, <2>10, <2>11, MainTakeKeepsInv
<1>6. CASE w \in hwnd /\ ~ (w \in attached /\ w \notin isClosing)
  <2>1. DestroyWindow(w)
    BY <1>1, <1>6 DEF OnClose
  <2> QED
    BY <1>1, <1>3, <1>4, <1>6, <2>1, DestroyKeepsInv
<1>7. CASE w \notin hwnd
  BY <1>1, <1>2, <1>3, <1>4, <1>7, MainTakeKeepsInv
<1> QED
  BY <1>5, <1>6, <1>7

(* The manager counts a browser without a window. *)
LEMMA OtherCreatedKeepsInv ==
  ASSUME WindowsInv, OtherBrowserCreated
  PROVE  WindowsInv'
<1>0. PICK o : o = Head(mainQueue).o
  OBVIOUS
<1>1. /\ NextTask("otherCreated") /\ Done /\ otherCt' = otherCt + 1
      /\ otherOwners' = otherOwners \union {<<OpenerOf[o], o>>}
      /\ UNCHANGED <<phase, quit, uiQueue, rootWindows, hwnd, windowCreated,
                     windowDestroyed, browserDestroyed, attached, isClosing, browser>>
  BY <1>0 DEF OtherBrowserCreated, windowVars
<1>2. Types /\ QueueInv /\ BookInv /\ WindowInv /\ QuitInv
  BY DEF WindowsInv
<1>3. Head(mainQueue).do = "otherCreated" /\ \E P : Takes(Head(mainQueue), P)
  BY <1>1, <1>2, JustTaken
<1>4. PICK P : Takes(Head(mainQueue), P)
  BY <1>3
<1>5. o \in Other /\ Head(mainQueue) = OtherTask("otherCreated", o)
  BY <1>0, <1>3, <1>4, TaskShape DEF Takes
<1>6. Says({OtherTask("otherCreated", o)}, {o}, {}, {}, {}, {}, {}, {})
  BY <1>5, SaysOtherTask
<1>7. Says(Waiting, {o} \union Intros(P), {} \union Outros(P), {} \union Named("created", P),
           {} \union Named("closing", P), {} \union Named("init", P),
           {} \union Orphaned(P), {} \union AbortedOf(P))
  BY <1>4, <1>5, <1>6, WaitedFor DEF Takes
<1>8. Says(Waiting', Intros(P), Outros(P), Named("created", P), Named("closing", P),
           Named("init", P), Orphaned(P), AbortedOf(P))
  BY <1>4 DEF Takes
<1>9. o \notin Intros(P) /\ o \in Browser
  <2>1. o \in Browser /\ Intro(o) = OtherTask("otherCreated", o)
    BY <1>5, IntroOutro
  <2> QED
    BY <1>4, <1>5, <2>1, BehindHead DEF Takes
<1>10. ~Finishing /\ o \in Active
  <2>1. OpenerOf[o] \in Active /\ o \in Active
    BY <1>2, <1>5, <1>7 DEF BookInv, Says
  <2> QED
    BY <2>1, NotFinishing
<1>11. o \notin Known
  BY <1>2, <1>7 DEF BookInv, Says, Kept
<1>12. Known' = Known \union {o} /\ Kept' = Kept \union {o}
  <2>1. Known' = Known \union {o}
    BY <1>1, <1>2, <1>5 DEF Known, Types
  <2> QED
    BY <1>1, <2>1 DEF Kept
<1>13. otherCt' = Cardinality(Known')
  BY <1>1, <1>2, <1>11, <1>12, KnownFacts
<1>14. \A S : In(S)' = In(S)
  BY <1>1 DEF In
<1>15. Active' = Active
  BY <1>7, <1>8, <1>14 DEF Active, Says
<1>16. Types'
  BY <1>1, <1>2, <1>4, <1>5, <1>13 DEF Types, Takes
<1>17. QueueInv'
  BY <1>1, <1>2, <1>4 DEF QueueInv, Takes
<1>18. BookInv'
  BY <1>1, <1>2, <1>5, <1>7, <1>8, <1>9, <1>10, <1>12, <1>14, <1>15 DEF BookInv, Says
<1>19. WindowInv'
  BY <1>1, <1>2, <1>7, <1>8, <1>14 DEF WindowInv, Says
<1>20. QuitInv'
  BY <1>1, <1>4, <1>10 DEF QuitInv, Finishing, Takes
<1> QED
  BY <1>16, <1>17, <1>18, <1>19, <1>20 DEF WindowsInv

(* It forgets one, and sees whether that was the last. *)
LEMMA OtherClosedKeepsInv ==
  ASSUME WindowsInv, OtherBrowserClosed
  PROVE  WindowsInv'
<1>0. PICK o : o = Head(mainQueue).o
  OBVIOUS
<1>1. /\ NextTask("otherClosed") /\ Done /\ otherCt' = otherCt - 1
      /\ otherOwners' = otherOwners \ {<<OpenerOf[o], o>>}
      /\ uiQueue' = MaybeCleanup(rootWindows, otherCt - 1, uiQueue)
      /\ UNCHANGED <<phase, quit, rootWindows, hwnd, windowCreated,
                     windowDestroyed, browserDestroyed, attached, isClosing, browser>>
  BY <1>0 DEF OtherBrowserClosed, windowVars
<1>2. Types /\ QueueInv /\ BookInv /\ WindowInv /\ QuitInv
  BY DEF WindowsInv
<1>3. Head(mainQueue).do = "otherClosed" /\ \E P : Takes(Head(mainQueue), P)
  BY <1>1, <1>2, JustTaken
<1>4. PICK P : Takes(Head(mainQueue), P)
  BY <1>3
<1>5. o \in Other /\ Head(mainQueue) = OtherTask("otherClosed", o)
  BY <1>0, <1>3, <1>4, TaskShape DEF Takes
<1>6. Says({OtherTask("otherClosed", o)}, {}, {o}, {}, {}, {}, {}, {})
  BY <1>5, SaysOtherTask
<1>7. Says(Waiting, {} \union Intros(P), {o} \union Outros(P), {} \union Named("created", P),
           {} \union Named("closing", P), {} \union Named("init", P),
           {} \union Orphaned(P), {} \union AbortedOf(P))
  BY <1>4, <1>5, <1>6, WaitedFor DEF Takes
<1>8. Says(Waiting', Intros(P), Outros(P), Named("created", P), Named("closing", P),
           Named("init", P), Orphaned(P), AbortedOf(P))
  BY <1>4 DEF Takes
<1>9. /\ o \in Browser /\ o \notin Window
      /\ o \notin Outros(P) /\ o \notin Intros(P)
      /\ o \notin Named("created", P) /\ o \notin Named("closing", P)
      /\ \A y \in Popup \union Other : OpenerOf[y] = o => y \notin Intros(P)
  <2>1. o \in Browser /\ o \notin Window /\ Outro(o) = OtherTask("otherClosed", o)
    BY <1>5, IntroOutro
  <2> QED
    BY <1>4, <1>5, <2>1, BehindHead DEF Takes
<1>10. o \in Active /\ o \in In({"closed"})
  BY <1>2, <1>7 DEF BookInv, Says, Active
<1>11. ~Finishing
  BY <1>10, NotFinishing
<1>12. o \in Known
  BY <1>2, <1>7, <1>9, <1>10 DEF BookInv, Says, Kept, Types
<1>13. Known' = Known \ {o} /\ Kept' = Kept \ {o}
  <2>1. Known' = Known \ {o}
    BY <1>1, <1>5 DEF Known
  <2>2. rootWindows' = rootWindows /\ o \notin rootWindows
    BY <1>1, <1>2, <1>9 DEF Types
  <2> QED
    BY <2>1, <2>2 DEF Kept
<1>14. otherCt - 1 = Cardinality(Known') /\ otherCt' = Cardinality(Known')
  BY <1>1, <1>2, <1>12, <1>13, KnownFacts
<1>15. \A S : In(S)' = In(S)
  BY <1>1 DEF In
<1>16. Active' = Active \ {o} /\ o \notin In({"pending"}) \union In({"none"})
  <2>1. o \notin In({"live", "closing"}) /\ o \notin In({"pending"}) \union In({"none"})
    BY <1>10 DEF In
  <2> QED
    BY <1>7, <1>8, <1>9, <1>15, <2>1 DEF Active, Says
<1>17. /\ uiQueue' \in Seq(UiTask) /\ InOrder(uiQueue', UiBefore)
       /\ Named("init", ToSet(uiQueue')) = Named("init", ToSet(uiQueue))
       /\ CleanupTask \in ToSet(uiQueue') => rootWindows' = {} /\ otherCt' = 0
  <2>1. /\ uiQueue \in Seq(UiTask) /\ InOrder(uiQueue, UiBefore)
        /\ CleanupTask \notin ToSet(uiQueue)
    BY <1>2, <1>11 DEF Types, QueueInv, Finishing
  <2>2. PICK n : n = otherCt - 1
    OBVIOUS
  <2>3. /\ uiQueue' \in Seq(UiTask) /\ InOrder(uiQueue', UiBefore)
        /\ ToSet(uiQueue') = IF rootWindows = {} /\ n = 0
                               THEN ToSet(uiQueue) \union {CleanupTask} ELSE ToSet(uiQueue)
    BY <1>1, <2>1, <2>2, CleanupFacts
  <2>4. Named("init", ToSet(uiQueue')) = Named("init", ToSet(uiQueue))
    BY <2>3, CleanupInit
  <2> QED
    BY <1>1, <2>1, <2>2, <2>3, <2>4
<1>18. Types'
  BY <1>1, <1>2, <1>4, <1>14, <1>17 DEF Types, Takes
<1>19. QueueInv'
  BY <1>4, <1>17 DEF Takes
<1>20. BookInv'
  BY <1>1, <1>2, <1>7, <1>8, <1>9, <1>10, <1>13, <1>15, <1>16 DEF BookInv, Says
<1>21. WindowInv'
  <2>1. browserDestroyed' \subseteq In({"closed"})' \ Outros(Waiting')
    BY <1>1, <1>2, <1>7, <1>8, <1>15 DEF WindowInv, Says
  <2> QED
    BY <1>1, <1>2, <1>7, <1>8, <1>15, <1>17, <2>1 DEF WindowInv, Says
<1>22. QuitInv'
  <2>1. otherCt' = 0 => Known' = {}
    <3>1. IsFiniteSet(Known')
      BY <1>2, <1>13, KnownFacts, FS_Subset
    <3> QED
      BY <1>14, <3>1, FS_EmptySet
  <2> QED
    BY <1>1, <1>4, <1>11, <1>17, <2>1 DEF QuitInv, Finishing, Takes, Kept
<1> QED
  BY <1>18, <1>19, <1>20, <1>21, <1>22 DEF WindowsInv

(* Requests to close browsers. *)
LEMMA ClosesSet ==
  ASSUME NEW O \in SUBSET Other,
         NEW c, c = SetToSeq({[do |-> "close", x |-> o] : o \in O})
  PROVE  c \in Seq(UiTask) /\ ToSet(c) = {[do |-> "close", x |-> o] : o \in O}
<1> DEFINE A == {[do |-> "close", x |-> o] : o \in O}
<1>1. IsFiniteSet(A)
  <2>1. IsFiniteSet(O)
    BY WindowsAssumption, FS_Subset
  <2> DEFINE h == [o \in O |-> [do |-> "close", x |-> o]]
  <2>2. h \in Surjection(O, A)
    BY DEF Surjection
  <2> HIDE DEF h, A
  <2> QED
    BY <2>1, <2>2, FS_Surjection
<1>2. A \subseteq UiTask
  BY TaskTypes, IntroOutro
<1>3. c = SetToSeq(A)
  OBVIOUS
<1> HIDE DEF A
<1>4. c \in Seq(A) /\ ToSet(c) = A
  BY <1>1, <1>3, SetToSeqFacts
<1>5. c \in Seq(UiTask)
  BY <1>2, <1>4
<1> QED
  BY <1>4, <1>5 DEF A

(* They are posted behind what the UI thread has to do. *)
LEMMA ClosesFacts ==
  ASSUME NEW q \in Seq(UiTask), InOrder(q, UiBefore), NEW O \in SUBSET Other,
         NEW r, r = q \o SetToSeq({[do |-> "close", x |-> o] : o \in O})
  PROVE  /\ r \in Seq(UiTask) /\ InOrder(r, UiBefore)
         /\ Named("init", ToSet(r)) = Named("init", ToSet(q))
         /\ CleanupTask \in ToSet(r) => CleanupTask \in ToSet(q)
<1> DEFINE A == {[do |-> "close", x |-> o] : o \in O}
           c == SetToSeq(A)
<1>1. \A t \in A : t.do = "close" /\ \A s : <<t, s>> \notin UiBefore
  BY IntroOutro DEF UiBefore
<1>2. r = q \o c
  OBVIOUS
<1>3. c \in Seq(UiTask) /\ ToSet(c) = A
  BY ClosesSet
<1> HIDE DEF A, c
<1>4. InOrder(c, UiBefore)
  BY <1>1, <1>3, IdleOrder
<1>5. InOrder(r, UiBefore)
  BY <1>1, <1>2, <1>3, <1>4, ConcatOrder
<1>6. r \in Seq(UiTask) /\ ToSet(r) = ToSet(q) \union A
  <2> DEFINE longer == q \o c
  <2>1. longer \in Seq(UiTask) /\ ToSet(longer) = ToSet(q) \union ToSet(c)
    BY <1>3, ConcatSet
  <2> HIDE DEF longer
  <2> QED
    BY <1>2, <1>3, <2>1 DEF longer
<1>7. Named("init", ToSet(r)) = Named("init", ToSet(q))
  BY <1>1, <1>6, TaskFields DEF Named
<1>8. CleanupTask \in ToSet(r) => CleanupTask \in ToSet(q)
  BY <1>1, <1>6, TaskFields
<1> QED
  BY <1>5, <1>6, <1>7, <1>8

(* The popups that are dropped without a window were never created. *)
LEMMA DroppedAreAborted ==
  ASSUME WindowsInv, NEW x \in Browser, NEW p \in Popup \union {AllPopups},
         NEW P, Waiting = {Abort(x, p)} \union P,
         \A t \in P : <<t, Abort(x, p)>> \notin Before,
         NEW d \in PopupsMatching(x, p) \ windowCreated
  PROVE  d \in In({"aborted"}) /\ d \in Popup
<1>1. Types /\ BookInv /\ WindowInv
  BY DEF WindowsInv
<1>2. /\ d \in Popup /\ d \in rootWindows /\ OpenerOf[d] = x /\ p \in {d, AllPopups}
      /\ d \notin windowCreated /\ d \in Browser
  BY IntroOutro DEF PopupsMatching
<1>3. Says({Abort(x, p)}, {}, {}, {}, {}, {},
           IF p = AllPopups THEN {x} ELSE {}, IF p = AllPopups THEN {} ELSE {p})
  BY SaysAbort
<1>4. Says(Waiting, {} \union Intros(P), {} \union Outros(P), {} \union Named("created", P),
           {} \union Named("closing", P), {} \union Named("init", P),
           (IF p = AllPopups THEN {x} ELSE {}) \union Orphaned(P),
           (IF p = AllPopups THEN {} ELSE {p}) \union AbortedOf(P))
  BY <1>3, WaitedFor
<1>5. d \notin In({"none"})
  BY <1>1, <1>2 DEF BookInv
<1>6. CASE p # AllPopups
  <2>1. d \in AbortedOf(Waiting)
    BY <1>2, <1>4, <1>6 DEF Says
  <2> QED
    BY <1>1, <1>2, <2>1 DEF WindowInv
<1>7. CASE p = AllPopups
  <2>1. x \in In({"closed"})
    BY <1>1, <1>4, <1>7 DEF WindowInv, Says
  <2>2. browser[d] # "pending"
    BY <1>1, <1>2, <2>1 DEF WindowInv, In
  <2>3. d \notin Named("created", P)
    BY <1>2, <1>7, BehindHead
  <2>4. d \notin Named("created", Waiting)
    BY <1>4, <2>3 DEF Says
  <2>5. d \notin In({"live", "closing", "closed"})
    BY <1>1, <1>2, <2>4 DEF WindowInv
  <2> QED
    BY <1>1, <1>2, <1>5, <2>2, <2>5 DEF In, Types
<1> QED
  BY <1>2, <1>6, <1>7

(* The popups of a browser end with it, or one of them alone. *)
LEMMA AbortKeepsInv ==
  ASSUME WindowsInv, OnAbortOrClosePopup
  PROVE  WindowsInv'
<1>0. PICK h : h = Head(mainQueue)
  OBVIOUS
<1>a. PICK D : D = PopupsMatching(h.opener, h.p) \ windowCreated
  OBVIOUS
<1>b. PICK R : R = CloseMessages(PopupsMatching(h.opener, h.p) \intersect windowCreated)
  OBVIOUS
<1>c. PICK u : u = IF D = {} THEN uiQueue ELSE MaybeCleanup(rootWindows \ D, otherCt, uiQueue)
  OBVIOUS
<1>d. PICK O : O = {o \in Other : /\ h.p = AllPopups
                                  /\ <<h.opener, o>> \in otherOwners
                                  /\ browser[o] \in {"live", "closing"}}
  OBVIOUS
<1>1. /\ phase = "running" /\ mainQueue # <<>> /\ h.do = "abort"
      /\ mainQueue' = Tail(mainQueue) \o R /\ queuedTasks' = queuedTasks
      /\ rootWindows' = rootWindows \ D
      /\ uiQueue' = u \o SetToSeq({[do |-> "close", x |-> o] : o \in O})
      /\ UNCHANGED <<phase, quit, otherCt, otherOwners, hwnd, windowCreated,
                     windowDestroyed, browserDestroyed, attached, isClosing, browser>>
  BY <1>0, <1>a, <1>b, <1>c, <1>d DEF OnAbortOrClosePopup, NextTask, CloseOrDestroy, windowVars
<1>2. Types /\ QueueInv /\ BookInv /\ WindowInv /\ QuitInv
  BY DEF WindowsInv
<1>3. R \in Seq(MainTask) /\ \A t \in ToSet(R) : t.do \in {"wmClose", "destroy"}
  BY <1>2, <1>b, CloseMessagesFacts DEF Types
<1>4. \E P : Takes(h, P)
  BY <1>0, <1>1, <1>2, <1>3, Taken
<1>5. PICK P : Takes(h, P)
  BY <1>4
<1>6. /\ h.opener \in Browser /\ h.p \in Popup \union {AllPopups}
      /\ h = Abort(h.opener, h.p)
  BY <1>1, <1>5, TaskShape DEF Takes
<1>7. D \subseteq In({"aborted"}) \intersect Popup
  <2>1. PICK x \in Browser : x = h.opener
    BY <1>6
  <2>2. PICK p \in Popup \union {AllPopups} : p = h.p
    BY <1>6
  <2>3. Waiting = {Abort(x, p)} \union P /\ \A t \in P : <<t, Abort(x, p)>> \notin Before
    BY <1>5, <1>6, <2>1, <2>2 DEF Takes
  <2>4. \A d \in PopupsMatching(x, p) \ windowCreated : d \in In({"aborted"}) /\ d \in Popup
    BY <2>3, DroppedAreAborted
  <2> QED
    BY <1>a, <2>1, <2>2, <2>4
<1>8. D \subseteq rootWindows /\ D \intersect windowCreated = {}
  BY <1>a DEF PopupsMatching
<1>9. PICK orphaned, aborted : Says({h}, {}, {}, {}, {}, {}, orphaned, aborted)
  BY <1>6, SaysAbort
<1>10. Says(Waiting, {} \union Intros(P), {} \union Outros(P), {} \union Named("created", P),
            {} \union Named("closing", P), {} \union Named("init", P),
            orphaned \union Orphaned(P), aborted \union AbortedOf(P))
  BY <1>5, <1>9, WaitedFor DEF Takes
<1>11. Says(Waiting', Intros(P), Outros(P), Named("created", P), Named("closing", P),
            Named("init", P), Orphaned(P), AbortedOf(P))
  BY <1>5 DEF Takes
<1>12. D # {} => ~Finishing
  <2>1. D # {} => Kept # {}
    BY <1>8 DEF Kept
  <2> QED
    BY <1>2, <2>1 DEF QuitInv
<1>13. /\ u \in Seq(UiTask) /\ InOrder(u, UiBefore)
       /\ Named("init", ToSet(u)) = Named("init", ToSet(uiQueue))
       /\ CleanupTask \in ToSet(u) =>
            CleanupTask \in ToSet(uiQueue) \/ (D # {} /\ rootWindows' = {} /\ Known = {})
  <2>0. uiQueue \in Seq(UiTask) /\ InOrder(uiQueue, UiBefore)
    BY <1>2 DEF Types, QueueInv
  <2>1. CASE D = {}
    BY <1>c, <2>0, <2>1
  <2>2. CASE D # {}
    <3>1. CleanupTask \notin ToSet(uiQueue)
      BY <1>12, <2>2 DEF Finishing
    <3>2. u = MaybeCleanup(rootWindows \ D, otherCt, uiQueue)
      BY <1>c, <2>2
    <3>3. /\ u \in Seq(UiTask) /\ InOrder(u, UiBefore)
          /\ ToSet(u) = IF rootWindows \ D = {} /\ otherCt = 0
                          THEN ToSet(uiQueue) \union {CleanupTask} ELSE ToSet(uiQueue)
      BY <2>0, <3>1, <3>2, CleanupFacts
    <3>4. Named("init", ToSet(u)) = Named("init", ToSet(uiQueue))
      BY <3>3, CleanupInit
    <3>5. CleanupTask \in ToSet(u) => rootWindows' = {} /\ Known = {}
      BY <1>1, <1>2, <3>1, <3>3, KnownFacts
    <3> QED
      BY <2>2, <3>3, <3>4, <3>5
  <2> QED
    BY <2>1, <2>2
<1>14. /\ uiQueue' \in Seq(UiTask) /\ InOrder(uiQueue', UiBefore)
       /\ Named("init", ToSet(uiQueue')) = Named("init", ToSet(uiQueue))
       /\ CleanupTask \in ToSet(uiQueue') =>
            CleanupTask \in ToSet(uiQueue) \/ (D # {} /\ rootWindows' = {} /\ Known = {})
  <2>1. O \in SUBSET Other
    BY <1>d
  <2>2. /\ uiQueue' \in Seq(UiTask) /\ InOrder(uiQueue', UiBefore)
        /\ Named("init", ToSet(uiQueue')) = Named("init", ToSet(u))
        /\ CleanupTask \in ToSet(uiQueue') => CleanupTask \in ToSet(u)
    BY <1>1, <1>13, <2>1, ClosesFacts
  <2> QED
    BY <1>13, <2>2
<1>15. Known' = Known /\ Kept' \subseteq Kept /\ Kept \ D \subseteq Kept'
       /\ rootWindows' \subseteq rootWindows
  BY <1>1 DEF Known, Kept
<1>16. \A S : In(S)' = In(S)
  BY <1>1 DEF In
<1>17. Active' = Active
  BY <1>10, <1>11, <1>16 DEF Active, Says
<1>18. D \intersect (Active \union In({"pending"}) \union In({"none"})) = {}
  <2>1. Outros(Waiting) \subseteq In({"closed"})
    BY <1>2 DEF BookInv
  <2> QED
    BY <1>7, <2>1 DEF Active, In
<1>19. Types'
  BY <1>1, <1>2, <1>5, <1>14, <1>15 DEF Types, Takes
<1>20. QueueInv'
  BY <1>5, <1>14 DEF Takes
<1>21. BookInv'
  BY <1>2, <1>10, <1>11, <1>15, <1>16, <1>17, <1>18 DEF BookInv, Says
<1>22. WindowInv'
  <2>1. \A p \in Popup : browser'[p] = "pending" => browser'[OpenerOf[p]] \in {"live", "closing"}
    BY <1>1, <1>2 DEF WindowInv
  <2>2. hwnd' \subseteq rootWindows'
    BY <1>1, <1>2, <1>8 DEF WindowInv
  <2>3. Named("init", Waiting') \union Named("init", ToSet(uiQueue'))
          \subseteq ({First} \intersect In({"none"})' \intersect rootWindows') \ windowCreated'
    BY <1>1, <1>2, <1>10, <1>11, <1>14, <1>16, <1>18 DEF WindowInv, Says
  <2> QED
    BY <1>1, <1>2, <1>10, <1>11, <1>14, <1>16, <2>1, <2>2, <2>3 DEF WindowInv, Says
<1>23. QuitInv'
  <2>1. QuitTask \in Waiting' => QuitTask \in Waiting
    BY <1>5 DEF Takes
  <2>2. CASE Finishing
    <3>1. Kept = {} /\ D = {}
      BY <1>2, <1>12, <2>2 DEF QuitInv
    <3>2. Kept' = {} /\ (CleanupTask \in ToSet(uiQueue') => CleanupTask \in ToSet(uiQueue))
      BY <1>14, <1>15, <3>1
    <3> QED
      BY <1>1, <1>2, <2>1, <3>2 DEF QuitInv
  <2>3. CASE ~Finishing
    BY <1>1, <1>14, <1>15, <2>1, <2>3 DEF QuitInv, Finishing, Kept
  <2> QED
    BY <2>2, <2>3
<1> QED
  BY <1>19, <1>20, <1>21, <1>22, <1>23 DEF WindowsInv

----------------------------------------------------------------------------
(* The invariant holds. *)

LEMMA WindowsInvInit == Init => WindowsInv
<1> SUFFICES ASSUME Init PROVE WindowsInv
  OBVIOUS
<1> DEFINE t == Task("init", First)
<1>1. First \in Window /\ First \notin Popup /\ First \in Browser
  BY IntroOutro
<1>2. t \in UiTask /\ uiQueue = <<t>>
  BY <1>1, TaskTypes DEF Init
<1> HIDE DEF t
<1>3. uiQueue \in Seq(UiTask) /\ ToSet(uiQueue) = {t} /\ InOrder(uiQueue, UiBefore)
  BY <1>2, FewSet, OneOrder
<1>4. ToSet(<<>>) = {} /\ <<>> \in Seq(MainTask)
  BY EmptySet
<1>5. Waiting = {}
  BY <1>4 DEF Init, Waiting
<1>6. Says(Waiting, {}, {}, {}, {}, {}, {}, {})
  BY <1>5, SaysNothing
<1>7. Named("init", ToSet(uiQueue)) = {First} /\ CleanupTask \notin ToSet(uiQueue)
  BY <1>1, <1>3, TaskFields DEF Named, t
<1>8. Known = {} /\ Kept = {First}
  BY DEF Init, Known, Kept
<1>9. Cardinality(Known) = 0
  BY <1>8, FS_EmptySet
<1>10. \A x \in Browser : browser[x] = "none"
  BY DEF Init
<1>11. In({"none"}) = Browser /\ \A S : "none" \notin S => In(S) = {}
  BY <1>10 DEF In
<1>12. Active = {}
  BY <1>6, <1>11 DEF Active, Says
<1>13. Types
  BY <1>1, <1>3, <1>4, <1>9 DEF Init, Types
<1>14. QueueInv
  BY <1>3, EmptyOrder DEF Init, QueueInv
<1>15. BookInv
  <2>1. In({"pending"}) = {}
    BY <1>11
  <2>2. Popup \intersect rootWindows = {}
    BY <1>1 DEF Init
  <2> QED
    BY <1>6, <1>8, <1>12, <2>1, <2>2 DEF BookInv, Says
<1>16. WindowInv
  <2>1. In({"live", "closing", "closed"}) = {}
    BY <1>11
  <2>2. \A p \in Popup : browser[p] # "pending"
    BY <1>10, IntroOutro
  <2> QED
    BY <1>1, <1>6, <1>7, <1>11, <2>1, <2>2 DEF Init, WindowInv, Says
<1>17. QuitInv
  BY <1>5, <1>7 DEF Init, QuitInv, Finishing
<1> QED
  BY <1>13, <1>14, <1>15, <1>16, <1>17 DEF WindowsInv

LEMMA WindowsInvNext == WindowsInv /\ [Next]_vars => WindowsInv'
<1> SUFFICES ASSUME WindowsInv, [Next]_vars PROVE WindowsInv'
  OBVIOUS
<1>1. CASE Run
  BY <1>1, RunKeepsInv
<1>2. CASE LoopEnds
  BY <1>2, LoopEndsKeepsInv
<1>3. CASE UserCloses(rootWindows)
  BY <1>3, UserClosesKeepsInv
<1>4. CASE \E w \in Window : UserCloses({w})
  BY <1>4, UserClosesKeepsInv
<1>5. CASE MainStep
  BY <1>5, InitOnMainKeepsInv, RootCreatedKeepsInv, BrowserCreatedKeepsInv,
     BrowserClosingKeepsInv, BrowserClosedKeepsInv, CloseByForceKeepsInv,
     ReceiveCloseKeepsInv, AbortKeepsInv, OtherCreatedKeepsInv, OtherClosedKeepsInv,
     PostQuitKeepsInv DEF MainStep
<1>6. CASE UiStep
  BY <1>6, InitOnUIKeepsInv, CleanupKeepsInv, CloseBrowserKeepsInv DEF UiStep
<1>7. CASE BrowserStep
  <2>1. CASE \E w \in Window : OnAfterCreated(w) \/ OnBeforePopup(w) \/ OnBeforePopupAborted(w)
    BY <2>1, AfterCreatedKeepsInv, BeforePopupKeepsInv, BeforePopupAbortedKeepsInv
  <2>2. CASE \E o \in Other : OnOtherAfterCreated(o)
    BY <2>2, OtherAfterCreatedKeepsInv
  <2>3. CASE \E x \in Browser : ScriptCloses(x) \/ OnBeforeClose(x)
    BY <2>3, ScriptClosesKeepsInv, BeforeCloseKeepsInv
  <2> QED
    BY <1>7, <2>1, <2>2, <2>3 DEF BrowserStep
<1>8. CASE UNCHANGED vars
  <2>1. uiQueue' \in Seq(UiTask) /\ InOrder(uiQueue', UiBefore)
        /\ ToSet(uiQueue') \subseteq ToSet(uiQueue)
    BY <1>8 DEF vars, loopVars, WindowsInv, Types, QueueInv
  <2> QED
    BY <1>8, <2>1, UiTakeKeepsInv DEF vars, loopVars
<1> QED
  BY <1>1, <1>2, <1>3, <1>4, <1>5, <1>6, <1>7, <1>8 DEF Next

LEMMA WindowsInvHolds == Spec => []WindowsInv
BY WindowsInvInit, WindowsInvNext, PTL DEF Spec

----------------------------------------------------------------------------
(* What follows from it. *)

(* The variables of the two threads keep their types; the manager never
   counts more browsers than there are, nor fewer than none. *)
THEOREM WindowsTypeCorrect == Spec => []TypeOK
<1>1. ASSUME WindowsInv PROVE TypeOK
  <2>1. Types
    BY <1>1 DEF WindowsInv
  <2>2. Known \subseteq Other /\ IsFiniteSet(Other)
    BY WindowsAssumption DEF Known
  <2>3. Cardinality(Known) <= Cardinality(Other) /\ Cardinality(Other) \in Nat
    BY <2>2, FS_Subset, FS_CardinalityType
  <2>4. otherCt \in 0..Cardinality(Other)
    BY <2>1, <2>3, KnownFacts DEF Types
  <2>5. otherOwners \subseteq Browser \X Other
    BY <2>1, IntroOutro DEF Types
  <2> QED
    BY <2>1, <2>4, <2>5 DEF TypeOK, Types
<1> QED
  BY <1>1, WindowsInvHolds, PTL

(* The program quits when the last window and browser are gone: what
   MaybeCleanup reads on the main thread is then true of the UI thread as
   well, because whoever it does not know yet was opened by somebody it
   knows. *)
THEOREM QuitsAfterTheLast == Spec => []QuitOnlyWhenAllClosed
<1>1. ASSUME WindowsInv PROVE QuitOnlyWhenAllClosed
  <2>1. quit => Kept = {}
    BY <1>1 DEF WindowsInv, QuitInv, Finishing
  <2> QED
    BY <1>1, <2>1, Quiet DEF QuitOnlyWhenAllClosed
<1> QED
  BY <1>1, WindowsInvHolds, PTL

(* Nothing is posted to the loop after it ended. *)
THEOREM LoopEndsWithAllDone == Spec => []NothingPostedAfterLoop
<1>1. WindowsInv => NothingPostedAfterLoop
  BY DEF WindowsInv, QueueInv, NothingPostedAfterLoop
<1> QED
  BY <1>1, WindowsInvHolds, PTL

(* A notification that waits for the main thread finds its window in the
   manager, or behind the task that puts it there. *)
THEOREM NotificationsFindTheirWindows == Spec => []NotificationFindsWindow
<1>1. ASSUME WindowsInv, NEW i \in DOMAIN mainQueue,
             mainQueue[i].do \in {"created", "closing", "closed"},
             mainQueue[i].w \notin rootWindows
      PROVE  \E j \in 1..(i - 1) : mainQueue[j] = Task("rootCreated", mainQueue[i].w)
  <2>0. PICK w : w = mainQueue[i].w
    OBVIOUS
  <2>1. Types /\ QueueInv /\ BookInv
    BY <1>1 DEF WindowsInv
  <2>2. mainQueue \in Seq(MainTask) /\ DOMAIN mainQueue = 1..Len(mainQueue)
        /\ Len(mainQueue) \in Nat /\ mainQueue # <<>>
    BY <1>1, <2>1 DEF Types
  <2>3. queuedTasks = <<>> /\ InOrder(mainQueue, Before)
    BY <2>1, <2>2 DEF QueueInv, Types
  <2>4. Waiting = ToSet(mainQueue)
    BY <2>3, EmptySet DEF Waiting
  <2>5. mainQueue[i] \in MainTask /\ mainQueue[i] \in Waiting
    BY <2>2, <2>4 DEF ToSet
  <2>6. w \in Window /\ mainQueue[i] = Task(mainQueue[i].do, w)
    BY <1>1, <2>0, <2>5, TaskShape
  <2>7. /\ w \in Browser /\ w \notin Other
        /\ Intro(w) = Task("rootCreated", w) /\ Outro(w) = Task("closed", w)
    BY <2>6, IntroOutro
  <2>8. w \in Active
    <3>1. CASE mainQueue[i].do = "closed"
      BY <2>5, <2>6, <2>7, <3>1 DEF Active, Outros
    <3>2. CASE mainQueue[i].do \in {"created", "closing"}
      <4>1. w \in Named("created", Waiting) \union Named("closing", Waiting)
        BY <2>5, <2>6, <3>2 DEF Named
      <4> QED
        BY <2>1, <4>1 DEF BookInv
    <3> QED
      BY <1>1, <3>1, <3>2
  <2>9. w \in Intros(Waiting)
    <3>1. w \notin Kept
      BY <1>1, <2>0, <2>7 DEF Kept, Known
    <3> QED
      BY <2>1, <2>8, <3>1 DEF BookInv
  <2>10. PICK j \in DOMAIN mainQueue : mainQueue[j] = Task("rootCreated", w)
    <3>1. Task("rootCreated", w) \in ToSet(mainQueue)
      BY <2>4, <2>7, <2>9 DEF Intros
    <3> QED
      BY <3>1, Zenon DEF ToSet
  <2>11. <<Task("rootCreated", w), mainQueue[i]>> \in Before
    <3>1. CASE mainQueue[i].do = "closed"
      <4>1. <<Intro(w), Outro(w)>> \in Before
        BY <2>7 DEF Before
      <4> QED
        BY <2>6, <2>7, <3>1, <4>1
    <3>2. CASE mainQueue[i].do \in {"created", "closing"}
      <4>1. \A do \in {"created", "closing"} : <<Intro(w), Task(do, w)>> \in Before
        BY <2>6 DEF Before
      <4> QED
        BY <2>6, <2>7, <3>2, <4>1
    <3> QED
      BY <1>1, <3>1, <3>2
  <2>12. ~ (i < j)
    BY <2>3, <2>10, <2>11 DEF InOrder
  <2>13. i # j
    BY <1>1, <2>10, TaskFields
  <2> QED
    BY <2>0, <2>2, <2>10, <2>12, <2>13
<1>2. WindowsInv => NotificationFindsWindow
  BY <1>1 DEF NotificationFindsWindow
<1> QED
  BY <1>2, WindowsInvHolds, PTL

(* NotifyDestroyedIfDone drops a window after its native window and its browser,
   OnAbortOrClosePopup one that was aborted and never had a window. *)
THEOREM WindowsAreForgottenLast == Spec => ForgetsOnlyClosedWindows
<1> DEFINE Over(w) == /\ w \in windowDestroyed' \intersect browserDestroyed'
                      /\ w \notin hwnd' /\ browser[w] = "closed"
           Aborted(w) == w \notin windowCreated /\ browser[w] = "aborted"
           Forgets == \A w \in rootWindows \ rootWindows' :
                        \/ /\ w \in windowDestroyed' \intersect browserDestroyed'
                           /\ w \notin hwnd' /\ browser[w] = "closed"
                        \/ w \notin windowCreated /\ browser[w] = "aborted"
<1>1. ASSUME WindowsInv, [Next]_vars, NEW w \in rootWindows, w \notin rootWindows'
      PROVE  Over(w) \/ Aborted(w)
  <2>1. Types /\ BookInv /\ WindowInv /\ QueueInv /\ w \in Window /\ w \in Browser
    BY <1>1, IntroOutro DEF WindowsInv, Types
  <2>2. CASE OnBrowserClosed
    <3>1. Head(mainQueue).w = w /\ w \in windowDestroyed /\ hwnd' = hwnd
      BY <1>1, <2>2 DEF OnBrowserClosed, NotifyDestroyedIfDone, OnRootWindowDestroyed
    <3>2. w \in windowDestroyed' /\ w \in browserDestroyed'
      BY <2>2, <3>1 DEF OnBrowserClosed
    <3>3. Head(mainQueue) \in Waiting /\ Head(mainQueue) = Task("closed", w)
      <4>1. phase = "running" /\ mainQueue # <<>> /\ Head(mainQueue).do = "closed"
        BY <2>2 DEF OnBrowserClosed, NextTask
      <4> QED
        BY <2>1, <3>1, <4>1, HeadFacts, TaskShape
    <3>4. w \in Outros(Waiting)
      BY <2>1, <3>3, IntroOutro DEF Outros
    <3> QED
      BY <2>1, <3>1, <3>2, <3>4 DEF BookInv, WindowInv, In
  <2>3. CASE CloseByForce \/ ReceiveClose
    <3>1. DestroyWindow(Head(mainQueue).w)
      BY <1>1, <2>3 DEF CloseByForce, ReceiveClose, OnClose
    <3>2. /\ w = Head(mainQueue).w /\ w \in browserDestroyed /\ w \notin hwnd'
          /\ w \in windowDestroyed' /\ UNCHANGED browserDestroyed
      BY <1>1, <2>3, <3>1 DEF CloseByForce, ReceiveClose, DestroyWindow, NotifyDestroyedIfDone,
         OnRootWindowDestroyed
    <3> QED
      BY <2>1, <3>2 DEF WindowInv, In
  <2>4. CASE OnAbortOrClosePopup
    <3>1. PICK h : h = Head(mainQueue)
      OBVIOUS
    <3>2. /\ phase = "running" /\ mainQueue # <<>> /\ h.do = "abort"
          /\ w \in PopupsMatching(h.opener, h.p) \ windowCreated /\ hwnd' = hwnd
      BY <1>1, <2>4, <3>1 DEF OnAbortOrClosePopup, NextTask, CloseOrDestroy, windowVars
    <3>3. PICK P : h \in MainTask /\ Waiting = {h} \union P /\ \A t \in P : <<t, h>> \notin Before
      BY <2>1, <3>1, <3>2, HeadFacts
    <3>4. PICK x \in Browser : x = h.opener
      BY <3>2, <3>3, TaskShape
    <3>5. PICK p \in Popup \union {AllPopups} : p = h.p
      BY <3>2, <3>3, TaskShape
    <3>6. Waiting = {Abort(x, p)} \union P /\ \A t \in P : <<t, Abort(x, p)>> \notin Before
      BY <3>2, <3>3, <3>4, <3>5, TaskShape
    <3>7. w \in In({"aborted"})
      BY <1>1, <3>2, <3>4, <3>5, <3>6, DroppedAreAborted
    <3> QED
      BY <2>1, <3>2, <3>7 DEF WindowInv, In
  <2> QED
    BY <1>1, <2>2, <2>3, <2>4
       DEF Next, MainStep, UiStep, BrowserStep, Run, LoopEnds, UserCloses, vars, managerVars,
           ContinueInitOnMainThread, OnRootWindowCreated, OnBrowserCreated, OnBrowserClosing,
           OtherBrowserCreated, OtherBrowserClosed, PostQuitMessage, ContinueInitOnUIThread,
           CleanupOnUIThread, CloseBrowser, BeginClose, ScriptCloses, OnAfterCreated,
           OnBeforePopup, OnBeforePopupAborted, OnOtherAfterCreated, OnBeforeClose
<1>2. WindowsInv /\ [Next]_vars =>
        [Forgets]_vars
  BY <1>1
<1> QED
  BY <1>2, WindowsInvHolds, PTL DEF Spec, ForgetsOnlyClosedWindows

(* A task about one browser without a window is in a queue once. *)
LEMMA TasksAreCounted ==
  ASSUME NEW q \in Seq(MainTask), InOrder(q, Before),
         NEW do \in {"otherCreated", "otherClosed"}
  PROVE  Cardinality({i \in DOMAIN q : q[i].do = do})
           = Cardinality({o \in Other : OtherTask(do, o) \in ToSet(q)})
<1> DEFINE at   == {i \in DOMAIN q : q[i].do = do}
           told == {o \in Other : OtherTask(do, o) \in ToSet(q)}
           h    == [i \in at |-> q[i].o]
<1>1. DOMAIN q = 1..Len(q) /\ Len(q) \in Nat /\ \A i \in DOMAIN q : q[i] \in MainTask
  OBVIOUS
<1>2. \A i \in at : q[i].o \in Other /\ q[i] = OtherTask(do, q[i].o)
  BY <1>1, TaskShape
<1>3. h \in [at -> told]
  BY <1>2 DEF ToSet
<1>4. ASSUME NEW i \in at, NEW j \in at, h[i] = h[j] PROVE i = j
  <2>1. q[i] = q[j] /\ <<q[i], q[i]>> \in Before
    <3>1. q[i] = q[j]
      BY <1>2, <1>4
    <3>2. PICK o \in Other : q[i] = OtherTask(do, o)
      BY <1>2
    <3>3. o \in Browser /\ (q[i] = Intro(o) \/ q[i] = Outro(o))
      BY <3>2, IntroOutro
    <3>4. q[i] \in PostedOnce
      BY <3>3 DEF PostedOnce
    <3>5. <<q[i], q[i]>> \in Before
      BY <3>4 DEF Before
    <3> QED
      BY <3>1, <3>5
  <2>2. ~ (i < j) /\ ~ (j < i)
    BY <2>1 DEF InOrder
  <2> QED
    BY <1>1, <2>2
<1>5. ASSUME NEW o \in told PROVE \E i \in at : h[i] = o
  <2>1. PICK i \in DOMAIN q : q[i] = OtherTask(do, o)
    <3>1. OtherTask(do, o) \in ToSet(q)
      OBVIOUS
    <3> QED
      BY <3>1, Zenon DEF ToSet
  <2>2. i \in at /\ q[i].o = o
    BY <2>1, TaskFields
  <2> QED
    BY <2>2
<1>6. ExistsBijection(at, told)
  <2> HIDE DEF at, told, h
  <2>1. h \in Injection(at, told) /\ h \in Surjection(at, told)
    BY <1>3, <1>4, <1>5, Zenon DEF Injection, Surjection, IsInjective
  <2> QED
    BY <2>1 DEF ExistsBijection, Bijection
<1>7. IsFiniteSet(at)
  <2>1. IsFiniteSet(1..Len(q))
    BY <1>1, FS_Interval
  <2>2. at \subseteq 1..Len(q)
    BY <1>1
  <2> QED
    BY <2>1, <2>2, FS_Subset
<1> HIDE DEF at, told, h
<1>8. Cardinality(told) = Cardinality(at)
  BY <1>6, <1>7, FS_Bijection
<1> QED
  BY <1>8 DEF at, told

(* So CountTasks counts the browsers that the main thread has yet to hear of. *)
LEMMA CountTasksCounts ==
  ASSUME Types, QueueInv
  PROVE  /\ CountTasks("otherCreated") = Cardinality(Other \intersect Intros(Waiting))
         /\ CountTasks("otherClosed") = Cardinality(Other \intersect Outros(Waiting))
<1>1. /\ mainQueue \in Seq(MainTask) /\ queuedTasks \in Seq(MainTask)
      /\ InOrder(mainQueue, Before) /\ InOrder(queuedTasks, Before)
      /\ mainQueue = <<>> \/ queuedTasks = <<>>
  BY DEF Types, QueueInv
<1>2. ASSUME NEW do \in {"otherCreated", "otherClosed"}
      PROVE  CountTasks(do) = Cardinality({o \in Other : OtherTask(do, o) \in Waiting})
  <2>1. PICK A : A = {o \in Other : OtherTask(do, o) \in ToSet(mainQueue)}
    OBVIOUS
  <2>2. PICK B : B = {o \in Other : OtherTask(do, o) \in ToSet(queuedTasks)}
    OBVIOUS
  <2>3. PICK C : C = {o \in Other : OtherTask(do, o) \in Waiting}
    OBVIOUS
  <2>4. CountTasks(do) = Cardinality(A) + Cardinality(B)
    BY <1>1, <2>1, <2>2, TasksAreCounted DEF CountTasks
  <2>5. ToSet(<<>>) = {}
    BY EmptySet
  <2>6. (A = {} /\ C = B) \/ (B = {} /\ C = A)
    BY <1>1, <2>1, <2>2, <2>3, <2>5 DEF Waiting
  <2>7. Cardinality({}) = 0
    BY FS_EmptySet
  <2>8. Cardinality(A) \in Nat /\ Cardinality(B) \in Nat
    <3>1. IsFiniteSet(A) /\ IsFiniteSet(B)
      BY <2>1, <2>2, WindowsAssumption, FS_Subset
    <3> QED
      BY <3>1, FS_CardinalityType
  <2>9. CountTasks(do) = Cardinality(C)
    BY <2>4, <2>6, <2>7, <2>8
  <2> QED
    BY <2>3, <2>9
<1>3. /\ {o \in Other : OtherTask("otherCreated", o) \in Waiting}
           = Other \intersect Intros(Waiting)
      /\ {o \in Other : OtherTask("otherClosed", o) \in Waiting}
           = Other \intersect Outros(Waiting)
  BY IntroOutro DEF Intros, Outros
<1> QED
  BY <1>2, <1>3

(* The count of browsers without a window is the number of those that are
   alive, up to the notifications that wait; each is known to its opener. *)
THEOREM OthersAreCounted == Spec => []OtherBrowsersAreCounted
<1>1. ASSUME WindowsInv PROVE OtherBrowsersAreCounted
  <2> DEFINE new   == Other \intersect Intros(Waiting)
             gone  == Other \intersect Outros(Waiting)
             alive == {o \in Other : browser[o] \in {"live", "closing"}}
  <2>1. Types /\ QueueInv /\ BookInv
    BY <1>1 DEF WindowsInv
  <2>2. /\ Known \subseteq Other /\ Known \intersect new = {} /\ alive \intersect gone = {}
        /\ Known \union new = alive \union gone
    <3>1. Known \subseteq Other
      BY DEF Known
    <3>2. Known \intersect new = {}
      BY <2>1 DEF BookInv, Kept
    <3>3. alive \intersect gone = {}
      BY <2>1 DEF BookInv, In
    <3>4. alive \union gone = Other \intersect Active
      BY IntroOutro DEF Active, In
    <3>5. Known \union new \subseteq Active
      BY <2>1 DEF BookInv
    <3>6. Other \intersect Active \subseteq Known \union new
      BY <2>1, IntroOutro DEF BookInv, Kept, Types
    <3> QED
      BY <3>1, <3>2, <3>3, <3>4, <3>5, <3>6
  <2>3. IsFiniteSet(Known) /\ IsFiniteSet(new) /\ IsFiniteSet(alive) /\ IsFiniteSet(gone)
    <3>1. IsFiniteSet(Other) /\ new \subseteq Other /\ alive \subseteq Other /\ gone \subseteq Other
      BY WindowsAssumption
    <3> QED
      BY <2>2, <3>1, FS_Subset
  <2>4. CountTasks("otherCreated") = Cardinality(new)
        /\ CountTasks("otherClosed") = Cardinality(gone)
    BY <2>1, CountTasksCounts
  <2>5. alive = {o \in Other : browser[o] \in {"live", "closing"}}
    OBVIOUS
  <2> HIDE DEF new, gone, alive
  <2>6. Cardinality(Known) + Cardinality(new) = Cardinality(alive) + Cardinality(gone)
    <3>1. \A S, T : /\ IsFiniteSet(S) /\ IsFiniteSet(T) /\ S \intersect T = {} =>
                         Cardinality(S \union T) = Cardinality(S) + Cardinality(T)
      <4>1. SUFFICES ASSUME NEW S, NEW T, IsFiniteSet(S), IsFiniteSet(T), S \intersect T = {}
                     PROVE  Cardinality(S \union T) = Cardinality(S) + Cardinality(T)
        OBVIOUS
      <4>2. Cardinality(S \union T) = Cardinality(S) + Cardinality(T) - Cardinality(S \cap T)
        BY <4>1, FS_Union
      <4>3. Cardinality(S \cap T) = 0 /\ Cardinality(S) \in Nat /\ Cardinality(T) \in Nat
        BY <4>1, FS_EmptySet, FS_CardinalityType
      <4> QED
        BY <4>2, <4>3
    <3> QED
      BY <2>2, <2>3, <3>1
  <2>7. otherCt = Cardinality(otherOwners)
    <3> DEFINE h == [o \in Known |-> <<OpenerOf[o], o>>]
    <3>1. h \in [Known -> otherOwners]
      BY DEF Known
    <3>2. \A o, x \in Known : h[o] = h[x] => o = x
      OBVIOUS
    <3>3. \A e \in otherOwners : \E o \in Known : h[o] = e
      BY <2>1 DEF Types, Known
    <3>4. ExistsBijection(Known, otherOwners)
      <4> HIDE DEF h
      <4>1. h \in Injection(Known, otherOwners) /\ h \in Surjection(Known, otherOwners)
        BY <3>1, <3>2, <3>3, Zenon DEF Injection, Surjection, IsInjective
      <4> QED
        BY <4>1 DEF ExistsBijection, Bijection
    <3>5. Cardinality(otherOwners) = Cardinality(Known)
      BY <2>3, <3>4, FS_Bijection
    <3> QED
      BY <2>1, <3>5 DEF Types
  <2>8. otherCt + Cardinality(new) = Cardinality(alive) + Cardinality(gone)
    BY <2>1, <2>6 DEF Types
  <2> QED
    BY <2>4, <2>5, <2>7, <2>8 DEF OtherBrowsersAreCounted
<1> QED
  BY <1>1, WindowsInvHolds, PTL

----------------------------------------------------------------------------
(***************************************************************************)
(* Nothing is left behind.  LifeInv says of everything that is on its way  *)
(* to an end which task will take it there, and that this task is waiting: *)
(* a popup that was aborted is dropped, a closed browser is reported and   *)
(* then its window destroyed, a browser that agreed to close loses its     *)
(* window, and whoever forgets the last one asks for the end.              *)
(***************************************************************************)

\* The tasks before the main thread, in their order.
Line == IF phase = "running" THEN mainQueue ELSE queuedTasks

\* b stands behind a.
Follows(q, a, b) == \E i, j \in DOMAIN q : j < i /\ q[j] = a /\ q[i] = b

\* <<a, b>> is in it if a is never behind b, beside Before.
Ends == {<<Intro(p), Abort(OpenerOf[p], p)>> : p \in Popup}
          \union {<<Task("created", p), Task("wmClose", p)>> : p \in Popup}

\* Whoever found that nothing is kept has said so.
LastAsks == Kept = {} => Finishing

\* Only the first window and popups come about, and the window of a browser
\* was created or its creation is on its way.
WindowsBegin ==
  /\ rootWindows \union (Window \ In({"none"})) \subseteq Popup \union {First}
  /\ In({"aborted"}) \subseteq Popup
  /\ First \in In({"none"}) => Task("init", First) \in Waiting \union ToSet(uiQueue)
  /\ First \notin In({"none"}) => First \in windowCreated
  /\ windowCreated \subseteq hwnd \union windowDestroyed

\* A popup that was aborted is dropped, or will be.
AbortsCome ==
  \A p \in In({"aborted"}) : p \in rootWindows \union Intros(Waiting) =>
    Abort(OpenerOf[p], p) \in Waiting

\* The main thread hears of a closed browser, and then closes its window.
ClosesCome ==
  /\ Window \intersect In({"closed"}) \subseteq Outros(Waiting) \union browserDestroyed
  /\ browserDestroyed \intersect Intros(Waiting) = {}
  /\ browserDestroyed \intersect rootWindows
       \subseteq Named("destroy", Waiting) \ windowDestroyed

\* The WM_CLOSE that ends window w is on its way.
Closes(w) == IF w \in isClosing THEN Task("wmClose", w) \in Waiting
             ELSE Follows(Line, Task("closing", w), Task("wmClose", w))

\* A window is asked to close after it was created, and a browser that agreed
\* loses its window.
ClosingComes ==
  /\ Popup \intersect Named("wmClose", Waiting) \subseteq In({"live", "closing", "closed"})
  /\ \A w \in Alloy \intersect In({"closing"}) : w \in windowDestroyed \/ Closes(w)

LifeInv == /\ WindowsInv /\ InOrder(Line, Ends)
           /\ LastAsks /\ WindowsBegin /\ AbortsCome /\ ClosesCome /\ ClosingComes

----------------------------------------------------------------------------
(* What follows what in a queue. *)

LEMMA FollowsConcat ==
  ASSUME NEW S, NEW q \in Seq(S), NEW r \in Seq(S), NEW a, NEW b, Follows(q, a, b)
  PROVE  Follows(q \o r, a, b) /\ b \in ToSet(q \o r)
<1>1. /\ Len(q) \in Nat /\ Len(r) \in Nat
      /\ DOMAIN (q \o r) = 1..(Len(q) + Len(r)) /\ DOMAIN q = 1..Len(q)
      /\ \A i \in 1..Len(q) : (q \o r)[i] = q[i]
  OBVIOUS
<1>2. PICK i \in DOMAIN q, j \in DOMAIN q : j < i /\ q[j] = a /\ q[i] = b
  BY DEF Follows
<1>3. i \in DOMAIN (q \o r) /\ j \in DOMAIN (q \o r) /\ (q \o r)[j] = a /\ (q \o r)[i] = b
  BY <1>1, <1>2
<1>4. b \in ToSet(q \o r)
  BY <1>3, Zenon DEF ToSet
<1> QED
  BY <1>2, <1>3, <1>4 DEF Follows

LEMMA FollowsTail ==
  ASSUME NEW S, NEW q \in Seq(S), q # <<>>, NEW a, NEW b, Follows(q, a, b)
  PROVE  /\ b \in ToSet(Tail(q))
         /\ a # Head(q) => Follows(Tail(q), a, b)
<1>1. /\ Tail(q) \in Seq(S) /\ Len(q) \in Nat \ {0} /\ Head(q) = q[1]
      /\ DOMAIN Tail(q) = 1..(Len(q) - 1) /\ DOMAIN q = 1..Len(q)
      /\ \A i \in 1..(Len(q) - 1) : Tail(q)[i] = q[i + 1]
  OBVIOUS
<1>2. PICK i \in DOMAIN q, j \in DOMAIN q : j < i /\ q[j] = a /\ q[i] = b
  BY DEF Follows
<1>3. i - 1 \in DOMAIN Tail(q) /\ Tail(q)[i - 1] = b
  BY <1>1, <1>2
<1>4. b \in ToSet(Tail(q))
  BY <1>3, Zenon DEF ToSet
<1>5. ASSUME a # Head(q) PROVE Follows(Tail(q), a, b)
  <2>1. j # 1
    BY <1>1, <1>2, <1>5
  <2>2. j - 1 \in DOMAIN Tail(q) /\ Tail(q)[j - 1] = a /\ j - 1 < i - 1
    BY <1>1, <1>2, <2>1
  <2> QED
    BY <1>3, <2>2 DEF Follows
<1> QED
  BY <1>4, <1>5

LEMMA ConcatAt ==
  ASSUME NEW S, NEW q \in Seq(S), NEW r \in Seq(S)
  PROVE  /\ DOMAIN (q \o r) = 1..(Len(q) + Len(r)) /\ Len(q) \in Nat /\ Len(r) \in Nat
         /\ \A i \in (Len(q) + 1)..(Len(q) + Len(r)) : (q \o r)[i] = r[i - Len(q)]
<1>1. /\ q \o r \in Seq(S) /\ Len(q) \in Nat /\ Len(r) \in Nat
      /\ DOMAIN (q \o r) = 1..(Len(q) + Len(r))
      /\ DOMAIN q = 1..Len(q) /\ DOMAIN r = 1..Len(r)
      /\ \A i \in (Len(q) + 1)..(Len(q) + Len(r)) : (q \o r)[i] = r[i - Len(q)]
  OBVIOUS
<1> QED
  BY <1>1

LEMMA FollowsLast ==
  ASSUME NEW S, NEW q \in Seq(S), NEW a \in S, NEW b \in S
  PROVE  Follows(q \o <<a, b>>, a, b)
<1>1. PICK r \in Seq(S) : r = <<a, b>>
  BY FewSet
<1>2. Len(q) \in Nat /\ Len(r) = 2 /\ r[1] = a /\ r[2] = b
  BY <1>1
<1>3. /\ DOMAIN (q \o r) = 1..(Len(q) + Len(r))
      /\ \A i \in (Len(q) + 1)..(Len(q) + Len(r)) : (q \o r)[i] = r[i - Len(q)]
  BY <1>1, ConcatAt
<1>4. /\ Len(q) + 1 \in (Len(q) + 1)..(Len(q) + Len(r)) /\ (Len(q) + 1) - Len(q) = 1
      /\ Len(q) + 2 \in (Len(q) + 1)..(Len(q) + Len(r)) /\ (Len(q) + 2) - Len(q) = 2
      /\ Len(q) + 1 < Len(q) + 2
  BY <1>2
<1>5. /\ Len(q) + 1 \in DOMAIN (q \o r) /\ (q \o r)[Len(q) + 1] = a
      /\ Len(q) + 2 \in DOMAIN (q \o r) /\ (q \o r)[Len(q) + 2] = b
  BY <1>2, <1>3, <1>4
<1>6. Follows(q \o r, a, b)
  BY <1>4, <1>5 DEF Follows
<1> QED
  BY <1>1, <1>6

(* The pairs of Ends. *)
LEMMA EndsForms ==
  /\ \A t, s : <<t, s>> \in Ends =>
       \/ \E p \in Popup : t = Intro(p) /\ s = Abort(OpenerOf[p], p)
       \/ \E p \in Popup : t = Task("created", p) /\ s = Task("wmClose", p)
  /\ \A t, s : t.do \notin {"rootCreated", "created"} => <<t, s>> \notin Ends
  /\ \A p \in Popup : /\ <<Intro(p), Abort(OpenerOf[p], p)>> \in Ends
                      /\ <<Task("created", p), Task("wmClose", p)>> \in Ends
<1>1. ASSUME NEW t, NEW s, <<t, s>> \in Ends
      PROVE  \/ \E p \in Popup : t = Intro(p) /\ s = Abort(OpenerOf[p], p)
             \/ \E p \in Popup : t = Task("created", p) /\ s = Task("wmClose", p)
  BY <1>1 DEF Ends
<1>2. \A p \in Popup : Intro(p).do = "rootCreated" /\ Task("created", p).do = "created"
  BY IntroOutro, TaskFields
<1>3. \A p \in Popup : /\ <<Intro(p), Abort(OpenerOf[p], p)>> \in Ends
                       /\ <<Task("created", p), Task("wmClose", p)>> \in Ends
  BY DEF Ends
<1>4. ASSUME NEW t, NEW s, t.do \notin {"rootCreated", "created"} PROVE <<t, s>> \notin Ends
  <2> SUFFICES ASSUME <<t, s>> \in Ends PROVE FALSE
    OBVIOUS
  <2>1. CASE \E p \in Popup : t = Intro(p) /\ s = Abort(OpenerOf[p], p)
    BY <1>2, <1>4, <2>1
  <2>2. CASE \E p \in Popup : t = Task("created", p) /\ s = Task("wmClose", p)
    BY <1>2, <1>4, <2>2
  <2> QED
    BY <1>1, <2>1, <2>2
<1> QED
  BY <1>1, <1>3, <1>4

----------------------------------------------------------------------------
(* The main thread's tasks in one step. *)

(* The line holds what waits. *)
LEMMA LineFacts ==
  ASSUME Types, QueueInv
  PROVE  Line \in Seq(MainTask) /\ ToSet(Line) = Waiting
<1>1. mainQueue \in Seq(MainTask) /\ queuedTasks \in Seq(MainTask) /\ ToSet(<<>>) = {}
  BY EmptySet DEF Types
<1>2. phase = "running" => queuedTasks = <<>>
  BY DEF QueueInv
<1>3. phase # "running" => mainQueue = <<>>
  BY DEF QueueInv, Types
<1>4. ToSet(Line) = Waiting
  <2>1. CASE phase = "running"
    <3>1. ToSet(queuedTasks) = {} /\ Line = mainQueue
      BY <1>1, <1>2, <2>1 DEF Line
    <3> QED
      BY <3>1 DEF Waiting
  <2>2. CASE phase # "running"
    <3>1. ToSet(mainQueue) = {} /\ Line = queuedTasks
      BY <1>1, <1>3, <2>2 DEF Line
    <3> QED
      BY <3>1 DEF Waiting
  <2> QED
    BY <2>1, <2>2
<1> QED
  BY <1>1, <1>4 DEF Line

\* At most the tasks of G leave, those of N come, and the order stays.
Goes(G, N) ==
  /\ Waiting \ G \subseteq Waiting' /\ N \subseteq Waiting'
  /\ Waiting' \subseteq Waiting \union N
  /\ InOrder(Line', Ends)
  /\ \A a, b : Follows(Line, a, b) =>
       b \in Waiting' /\ (a \notin G => Follows(Line', a, b))

LEMMA PostGoes ==
  ASSUME LifeInv, phase' = phase, NEW R \in Seq(MainTask), Post(R),
         InOrder(R, Ends), \A s \in Waiting, t \in ToSet(R) : <<t, s>> \notin Ends
  PROVE  Goes({}, ToSet(R)) /\ Line' = Line \o R /\ Line \in Seq(MainTask)
<1>1. Types /\ QueueInv /\ InOrder(Line, Ends)
  BY DEF LifeInv, WindowsInv
<1>2. Line \in Seq(MainTask) /\ ToSet(Line) = Waiting
  BY <1>1, LineFacts
<1>3. Line' = Line \o R
  BY DEF Post, PostTo, Line
<1>4. Waiting' = Waiting \union ToSet(R)
  <2>1. mainQueue \in Seq(MainTask) /\ queuedTasks \in Seq(MainTask)
    BY <1>1 DEF Types
  <2>2. /\ ToSet(mainQueue \o R) = ToSet(mainQueue) \union ToSet(R)
        /\ ToSet(queuedTasks \o R) = ToSet(queuedTasks) \union ToSet(R)
    BY <2>1, ConcatSet
  <2>3. \/ mainQueue' = mainQueue \o R /\ queuedTasks' = queuedTasks
        \/ mainQueue' = mainQueue /\ queuedTasks' = queuedTasks \o R
    BY DEF Post, PostTo
  <2> QED
    BY <2>2, <2>3 DEF Waiting
<1>5. InOrder(Line \o R, Ends)
  BY <1>1, <1>2, ConcatOrder
<1>6. ASSUME NEW a, NEW b, Follows(Line, a, b)
      PROVE  b \in Waiting' /\ Follows(Line', a, b)
  <2>1. Follows(Line \o R, a, b) /\ b \in ToSet(Line \o R)
    BY <1>2, <1>6, FollowsConcat
  <2>2. ToSet(Line \o R) = ToSet(Line) \union ToSet(R)
    BY <1>2, ConcatSet
  <2> QED
    BY <1>2, <1>3, <1>4, <2>1, <2>2
<1> QED
  BY <1>2, <1>3, <1>4, <1>5, <1>6 DEF Goes

(* Nothing that begins anything is posted. *)
LEMMA PostsEnds ==
  ASSUME LifeInv, phase' = phase, NEW R \in Seq(MainTask), Post(R),
         \A t \in ToSet(R) : t.do \notin {"rootCreated", "created"}
  PROVE  Goes({}, ToSet(R)) /\ Line' = Line \o R /\ Line \in Seq(MainTask)
<1>1. \A s, t \in ToSet(R) : <<t, s>> \notin Ends
  BY EndsForms
<1>2. InOrder(R, Ends)
  BY <1>1, IdleOrder
<1>3. \A s \in Waiting, t \in ToSet(R) : <<t, s>> \notin Ends
  BY EndsForms
<1> QED
  BY <1>2, <1>3, PostGoes

LEMMA TakeGoes ==
  ASSUME LifeInv, phase = "running", mainQueue # <<>>, phase' = phase,
         NEW R \in Seq(MainTask), mainQueue' = Tail(mainQueue) \o R, queuedTasks' = queuedTasks,
         \A t \in ToSet(R) : t.do \in {"wmClose", "destroy"}
  PROVE  /\ Goes({Head(mainQueue)}, ToSet(R))
         /\ Head(mainQueue) \in MainTask /\ Head(mainQueue) \in Waiting
         /\ \A t \in Waiting' : t \in ToSet(R) \/ ( /\ <<t, Head(mainQueue)>> \notin Before
                                                    /\ <<t, Head(mainQueue)>> \notin Ends )
<1> DEFINE h == Head(mainQueue)
           P == ToSet(Tail(mainQueue))
<1>1. Types /\ QueueInv /\ InOrder(Line, Ends) /\ Line = mainQueue
  BY DEF LifeInv, WindowsInv, Line
<1>2. mainQueue \in Seq(MainTask) /\ ToSet(mainQueue) = Waiting /\ InOrder(mainQueue, Ends)
  BY <1>1, LineFacts
<1>3. /\ h \in MainTask /\ Tail(mainQueue) \in Seq(MainTask)
      /\ Waiting = {h} \union P
  BY <1>2, TailSet
<1>4. InOrder(Tail(mainQueue), Ends) /\ \A t \in P : <<t, h>> \notin Ends
  BY <1>2, TailOrder
<1>5. \A t \in P : <<t, h>> \notin Before
  BY <1>1, HeadFacts
<1>6. Tail(mainQueue) \o R \in Seq(MainTask) /\ ToSet(Tail(mainQueue) \o R) = P \union ToSet(R)
  BY <1>3, ConcatSet
<1>7. Line' = Tail(mainQueue) \o R
  BY DEF Line
<1>8. Waiting' = P \union ToSet(R)
  <2>1. ToSet(queuedTasks') = {}
    BY <1>1, EmptySet DEF QueueInv
  <2> QED
    BY <1>6, <2>1 DEF Waiting
<1>9. InOrder(Tail(mainQueue) \o R, Ends)
  <2>1. \A s, t \in ToSet(R) : <<t, s>> \notin Ends
    BY EndsForms
  <2>2. InOrder(R, Ends)
    BY <2>1, IdleOrder
  <2>3. \A s \in ToSet(Tail(mainQueue)), t \in ToSet(R) : <<t, s>> \notin Ends
    BY EndsForms
  <2> QED
    BY <1>3, <1>4, <2>2, <2>3, ConcatOrder
<1>10. ASSUME NEW a, NEW b, Follows(mainQueue, a, b)
       PROVE  b \in Waiting' /\ (a # h => Follows(Line', a, b))
  <2>1. b \in P /\ (a # h => Follows(Tail(mainQueue), a, b))
    BY <1>2, <1>10, FollowsTail
  <2>2. a # h => Follows(Tail(mainQueue) \o R, a, b)
    BY <1>3, <2>1, FollowsConcat
  <2> QED
    BY <1>7, <1>8, <2>1, <2>2
<1> HIDE DEF h, P
<1>11. Goes({h}, ToSet(R))
  BY <1>1, <1>3, <1>7, <1>8, <1>9, <1>10 DEF Goes
<1>12. \A t \in Waiting' : t \in ToSet(R) \/ (<<t, h>> \notin Before /\ <<t, h>> \notin Ends)
  BY <1>4, <1>5, <1>8
<1> QED
  BY <1>3, <1>11, <1>12 DEF h

(* The usual case: nothing is posted. *)
LEMMA DoneGoes ==
  ASSUME LifeInv, NEW do, NextTask(do), Done, phase' = phase
  PROVE  /\ Goes({Head(mainQueue)}, {})
         /\ Head(mainQueue) \in MainTask /\ Head(mainQueue) \in Waiting
         /\ Head(mainQueue).do = do
         /\ \A t \in Waiting' : /\ <<t, Head(mainQueue)>> \notin Before
                                /\ <<t, Head(mainQueue)>> \notin Ends
<1>1. phase = "running" /\ mainQueue # <<>> /\ Head(mainQueue).do = do
  BY DEF NextTask
<1>2. <<>> \in Seq(MainTask) /\ ToSet(<<>>) = {}
  BY EmptySet
<1>3. mainQueue \in Seq(MainTask)
  BY DEF LifeInv, WindowsInv, Types
<1>4. Tail(mainQueue) \in Seq(MainTask)
  BY <1>1, <1>3, TailSet
<1>5. Tail(mainQueue) \o <<>> = Tail(mainQueue)
  BY <1>4, ConcatEmpty
<1>6. mainQueue' = Tail(mainQueue) \o <<>> /\ queuedTasks' = queuedTasks
  BY <1>5 DEF Done
<1> QED
  BY <1>1, <1>2, <1>6, TakeGoes

----------------------------------------------------------------------------
(* Whoever forgets the last one asks for the end. *)

LEMMA MaybeAsks ==
  ASSUME NEW q \in Seq(UiTask), NEW S, NEW n
  PROVE  /\ MaybeCleanup(S, n, q) \in Seq(UiTask)
         /\ ToSet(q) \subseteq ToSet(MaybeCleanup(S, n, q))
         /\ S = {} /\ n = 0 => CleanupTask \in ToSet(MaybeCleanup(S, n, q))
<1>1. CleanupTask \in UiTask
  BY TaskTypes
<1>2. Append(q, CleanupTask) \in Seq(UiTask)
      /\ ToSet(Append(q, CleanupTask)) = ToSet(q) \union {CleanupTask}
  BY <1>1, AppendSet
<1>3. MaybeCleanup(S, n, q) = IF S = {} /\ n = 0 THEN Append(q, CleanupTask) ELSE q
  BY DEF MaybeCleanup, CleanupTask
<1> QED
  BY <1>2, <1>3

(* The end stays asked for. *)
LEMMA FinishingStays ==
  ASSUME Finishing, NEW G, NEW N, Goes(G, N), QuitTask \notin G, quit => quit',
         CleanupTask \in ToSet(uiQueue) => CleanupTask \in ToSet(uiQueue')
  PROVE  Finishing'
BY DEF Finishing, Goes

LEMMA DestroyedAsks ==
  ASSUME LifeInv, NEW G, NEW N, Goes(G, N), QuitTask \notin G,
         NEW S, OnRootWindowDestroyed(S), UNCHANGED <<otherCt, otherOwners, quit>>
  PROVE  /\ LastAsks' /\ rootWindows' = rootWindows \ S
         /\ ToSet(uiQueue) \subseteq ToSet(uiQueue')
<1>1. Types /\ LastAsks
  BY DEF LifeInv, WindowsInv
<1>2. uiQueue \in Seq(UiTask)
  BY <1>1 DEF Types
<1>3. rootWindows' = rootWindows \ S
      /\ uiQueue' = IF S = {} THEN uiQueue ELSE MaybeCleanup(rootWindows \ S, otherCt, uiQueue)
  BY DEF OnRootWindowDestroyed
<1>4. /\ ToSet(uiQueue) \subseteq ToSet(uiQueue')
      /\ S # {} /\ rootWindows \ S = {} /\ otherCt = 0 => CleanupTask \in ToSet(uiQueue')
  BY <1>2, <1>3, MaybeAsks
<1>5. otherCt = 0 <=> Known = {}
  BY <1>1, KnownFacts
<1>6. Known' = Known
  BY DEF Known
<1>7. LastAsks'
  <2>1. CASE S = {}
    <3>1. Kept' = Kept
      BY <1>3, <1>6, <2>1 DEF Kept
    <3>2. Finishing => Finishing'
      BY <1>4, FinishingStays
    <3> QED
      BY <1>1, <3>1, <3>2 DEF LastAsks
  <2>2. CASE S # {}
    BY <1>3, <1>4, <1>5, <1>6, <2>2 DEF LastAsks, Kept, Finishing
  <2> QED
    BY <2>1, <2>2
<1> QED
  BY <1>3, <1>4, <1>7

----------------------------------------------------------------------------
(* Steps that bring no browser on. *)

LEMMA ClosesStays ==
  ASSUME NEW w \in Window, Closes(w), NEW G, NEW N, Goes(G, N),
         w \in isClosing' <=> w \in isClosing, Task("closing", w) \notin G,
         Task("wmClose", w) \in G => w \notin isClosing
  PROVE  Closes(w)'
<1> DEFINE a == Task("closing", w)
           b == Task("wmClose", w)
<1>1. CASE w \in isClosing
  BY <1>1 DEF Closes, Goes
<1>2. CASE w \notin isClosing
  <2>1. Follows(Line, a, b) /\ a \notin G
    BY <1>2 DEF Closes
  <2> HIDE DEF a, b
  <2>2. Follows(Line', a, b)
    BY <2>1 DEF Goes
  <2> QED
    BY <1>2, <2>2 DEF Closes, a, b
<1> QED
  BY <1>1, <1>2

LEMMA BrowsersStay ==
  ASSUME LifeInv, WindowsInv', LastAsks', NEW G, NEW N, Goes(G, N),
         UNCHANGED <<browser, isClosing, windowCreated, browserDestroyed>>,
         rootWindows' \subseteq rootWindows, windowDestroyed \subseteq windowDestroyed',
         hwnd \union windowDestroyed \subseteq hwnd' \union windowDestroyed',
         browserDestroyed \intersect rootWindows' \intersect windowDestroyed' = {},
         \A t \in G : t.do \notin {"init", "closing", "closed"},
         \A t \in N : t.do \in {"wmClose", "destroy", "init", "quit"},
         Task("init", First) \in ToSet(uiQueue) =>
           Task("init", First) \in ToSet(uiQueue') \union N,
         Popup \intersect Named("wmClose", N) \subseteq In({"live", "closing", "closed"}),
         \A w \in Alloy \intersect In({"closing"}) \intersect isClosing :
           Task("wmClose", w) \in G => w \in windowDestroyed',
         \A w \in browserDestroyed \intersect rootWindows' : Task("destroy", w) \notin G,
         \A p \in In({"aborted"}) : Abort(OpenerOf[p], p) \in G =>
           p \notin rootWindows' \union Intros(Waiting')
  PROVE  LifeInv'
<1>1. WindowsBegin /\ AbortsCome /\ ClosesCome /\ ClosingComes
  BY DEF LifeInv
<1>2. Waiting \ G \subseteq Waiting' /\ N \subseteq Waiting' /\ Waiting' \subseteq Waiting \union N
  BY DEF Goes
<1>3. \A T : In(T)' = In(T)
  BY DEF In
<1>4. \A w \in Window : /\ Task("init", w).do = "init" /\ Task("closing", w).do = "closing"
                        /\ Outro(w).do = "closed"
  BY IntroOutro, TaskFields
<1>5. Intros(Waiting') \subseteq Intros(Waiting)
  BY <1>2, IntroOutro DEF Intros
<1>6. WindowsBegin'
  <2>1. Task("init", First) \notin G
    BY <1>4, IntroOutro
  <2>2. First \in In({"none"})' => Task("init", First) \in Waiting' \union ToSet(uiQueue')
    BY <1>1, <1>2, <1>3, <2>1 DEF WindowsBegin
  <2>3. (rootWindows \union (Window \ In({"none"})) \subseteq Popup \union {First})'
    BY <1>1, <1>3 DEF WindowsBegin
  <2>4. (In({"aborted"}) \subseteq Popup)' /\ (windowCreated \subseteq hwnd \union windowDestroyed)'
        /\ (First \notin In({"none"}) => First \in windowCreated)'
    BY <1>1, <1>3 DEF WindowsBegin
  <2> QED
    BY <2>2, <2>3, <2>4 DEF WindowsBegin
<1>7. AbortsCome'
  <2> SUFFICES ASSUME NEW p \in In({"aborted"}), p \in rootWindows' \union Intros(Waiting')
               PROVE  Abort(OpenerOf[p], p) \in Waiting'
    BY <1>3 DEF AbortsCome
  <2>1. Abort(OpenerOf[p], p) \in Waiting
    BY <1>1, <1>5 DEF AbortsCome
  <2> QED
    BY <1>2, <2>1
<1>8. ClosesCome'
  <2>1. Window \intersect In({"closed"})' \subseteq Outros(Waiting') \union browserDestroyed'
    BY <1>1, <1>2, <1>3, <1>4 DEF ClosesCome, Outros
  <2>2. browserDestroyed' \intersect Intros(Waiting') = {}
    BY <1>1, <1>5 DEF ClosesCome
  <2>3. browserDestroyed' \intersect rootWindows'
          \subseteq Named("destroy", Waiting') \ windowDestroyed'
    BY <1>1, <1>2 DEF ClosesCome, Named
  <2> QED
    BY <2>1, <2>2, <2>3 DEF ClosesCome
<1>9. ClosingComes'
  <2>1. Popup \intersect Named("wmClose", Waiting') \subseteq In({"live", "closing", "closed"})'
    BY <1>1, <1>2, <1>3 DEF ClosingComes, Named
  <2>2. ASSUME NEW w \in Alloy \intersect In({"closing"})
        PROVE  w \in windowDestroyed' \/ Closes(w)'
    <3>1. CASE w \in windowDestroyed
      BY <3>1
    <3>2. CASE Task("wmClose", w) \in G /\ w \in isClosing
      BY <3>2
    <3>3. CASE w \notin windowDestroyed /\ ~ (Task("wmClose", w) \in G /\ w \in isClosing)
      <4>1. Closes(w) /\ w \in Window
        BY <1>1, <3>3, WindowsAssumption DEF ClosingComes
      <4>2. Task("closing", w) \notin G
        BY <1>4, <4>1
      <4> QED
        BY <3>3, <4>1, <4>2, ClosesStays
    <3> QED
      BY <3>1, <3>2, <3>3
  <2> QED
    BY <1>3, <2>1, <2>2 DEF ClosingComes
<1>10. InOrder(Line, Ends)'
  BY DEF Goes
<1> QED
  BY <1>6, <1>7, <1>8, <1>9, <1>10 DEF LifeInv

(* Steps that leave the windows alone. *)
LEMMA WindowsStay ==
  ASSUME LifeInv, WindowsInv', LastAsks', NEW G, NEW N, Goes(G, N),
         UNCHANGED <<rootWindows, windowVars, browser>>,
         \A t \in G : t.do \in {"otherCreated", "otherClosed", "quit"},
         \A t \in N : t.do \in {"init", "quit"},
         Task("init", First) \in ToSet(uiQueue) =>
           Task("init", First) \in ToSet(uiQueue') \union N
  PROVE  LifeInv'
<1>1. UNCHANGED <<hwnd, windowCreated, windowDestroyed, browserDestroyed, isClosing>>
  BY DEF windowVars
<1>2. browserDestroyed \intersect rootWindows' \intersect windowDestroyed' = {}
  BY <1>1 DEF LifeInv, ClosesCome
<1>3. /\ \A w : Task("wmClose", w) \notin G /\ Task("destroy", w) \notin G
                /\ Task("wmClose", w) \notin N
      /\ \A p \in Popup : Abort(OpenerOf[p], p) \notin G
  BY TaskFields
<1>4. Popup \intersect Named("wmClose", N) = {}
  BY <1>3 DEF Named
<1>5. In({"aborted"}) \subseteq Popup
  BY DEF LifeInv, WindowsBegin
<1> QED
  BY <1>1, <1>2, <1>3, <1>4, <1>5, BrowsersStay

(* The queue as it was. *)
LEMMA StandsGoes ==
  ASSUME LifeInv, Line' = Line, Waiting' = Waiting
  PROVE  Goes({}, {})
<1>1. InOrder(Line, Ends) /\ Line \in Seq(MainTask) /\ ToSet(Line) = Waiting
  BY LineFacts DEF LifeInv, WindowsInv
<1>2. \A a, b : Follows(Line, a, b) => b \in Waiting'
  <2> SUFFICES ASSUME NEW a, NEW b, Follows(Line, a, b) PROVE b \in ToSet(Line)
    BY <1>1
  <2>1. PICK i \in DOMAIN Line : Line[i] = b
    BY DEF Follows
  <2> QED
    BY <2>1, Zenon DEF ToSet
<1> QED
  BY <1>1, <1>2 DEF Goes

LEMMA RunKeepsLife ==
  ASSUME LifeInv, WindowsInv', Run
  PROVE  LifeInv'
<1>1. /\ phase = "starting" /\ phase' = "running" /\ mainQueue' = queuedTasks
      /\ queuedTasks' = <<>> /\ UNCHANGED <<quit, uiQueue, managerVars, windowVars, browser>>
  BY DEF Run
<1>2. mainQueue = <<>> /\ LastAsks
  BY <1>1 DEF LifeInv, WindowsInv, QueueInv
<1>3. Line' = Line
  BY <1>1 DEF Line
<1>4. Waiting' = Waiting
  BY <1>1, <1>2 DEF Waiting
<1>5. Goes({}, {})
  BY <1>3, <1>4, StandsGoes
<1>6. LastAsks'
  BY <1>1, <1>2, <1>4 DEF LastAsks, Kept, Known, Finishing, managerVars
<1> QED
  BY <1>1, <1>5, <1>6, WindowsStay DEF managerVars

(* The tasks of the main thread stay, or one that ends nothing is posted. *)
LEMMA StandsKeepsLife ==
  ASSUME LifeInv, WindowsInv', Line' = Line, Waiting' = Waiting,
         CleanupTask \in ToSet(uiQueue) => CleanupTask \in ToSet(uiQueue'),
         Task("init", First) \in ToSet(uiQueue) => Task("init", First) \in ToSet(uiQueue'),
         UNCHANGED <<quit, managerVars, windowVars, browser>>
  PROVE  LifeInv'
<1>1. Goes({}, {})
  BY StandsGoes
<1>2. LastAsks'
  BY DEF LifeInv, LastAsks, Kept, Known, Finishing, managerVars
<1> QED
  BY <1>1, <1>2, WindowsStay DEF managerVars

LEMMA LoopEndsKeepsLife ==
  ASSUME LifeInv, WindowsInv', LoopEnds
  PROVE  LifeInv'
<1>1. /\ phase = "running" /\ mainQueue = <<>> /\ phase' = "ended"
      /\ UNCHANGED <<quit, mainQueue, queuedTasks, uiQueue, managerVars, windowVars, browser>>
  BY DEF LoopEnds
<1>2. queuedTasks = <<>>
  BY <1>1 DEF LifeInv, WindowsInv, QueueInv
<1>3. Line' = Line /\ Waiting' = Waiting
  BY <1>1, <1>2 DEF Line, Waiting
<1> QED
  BY <1>1, <1>3, StandsKeepsLife

LEMMA OtherCreatedKeepsLife ==
  ASSUME LifeInv, WindowsInv', OtherBrowserCreated
  PROVE  LifeInv'
<1>1. PICK o : o = Head(mainQueue).o
  OBVIOUS
<1>2. /\ NextTask("otherCreated") /\ Done /\ phase' = phase
      /\ otherOwners' = otherOwners \union {<<OpenerOf[o], o>>}
      /\ UNCHANGED <<quit, uiQueue, rootWindows, windowVars, browser>>
  BY <1>1 DEF OtherBrowserCreated
<1>3. /\ Goes({Head(mainQueue)}, {}) /\ Head(mainQueue) \in MainTask
      /\ Head(mainQueue).do = "otherCreated"
  BY <1>2, DoneGoes
<1>4. o \in Other
  BY <1>1, <1>3, TaskShape
<1>5. LastAsks'
  BY <1>2, <1>4 DEF LastAsks, Kept, Known
<1> QED
  BY <1>2, <1>3, <1>5, WindowsStay

LEMMA OtherClosedKeepsLife ==
  ASSUME LifeInv, WindowsInv', OtherBrowserClosed
  PROVE  LifeInv'
<1>1. /\ NextTask("otherClosed") /\ Done /\ phase' = phase /\ otherCt' = otherCt - 1
      /\ uiQueue' = MaybeCleanup(rootWindows, otherCt - 1, uiQueue)
      /\ UNCHANGED <<quit, rootWindows, windowVars, browser>>
  BY DEF OtherBrowserClosed
<1>2. Goes({Head(mainQueue)}, {}) /\ Head(mainQueue).do = "otherClosed"
  BY <1>1, DoneGoes
<1>3. uiQueue \in Seq(UiTask)
  BY DEF LifeInv, WindowsInv, Types
<1>4. /\ ToSet(uiQueue) \subseteq ToSet(uiQueue')
      /\ rootWindows = {} /\ otherCt' = 0 => CleanupTask \in ToSet(uiQueue')
  BY <1>1, <1>3, MaybeAsks
<1>5. Known' = {} => otherCt' = 0
  <2>1. otherCt' = Cardinality(Known')
    BY DEF WindowsInv, Types
  <2>2. Cardinality({}) = 0
    BY FS_EmptySet
  <2> QED
    BY <2>1, <2>2
<1>6. LastAsks'
  BY <1>1, <1>4, <1>5 DEF LastAsks, Kept, Finishing
<1> QED
  BY <1>1, <1>2, <1>4, <1>6, WindowsStay

LEMMA PostQuitKeepsLife ==
  ASSUME LifeInv, WindowsInv', PostQuitMessage
  PROVE  LifeInv'
<1>1. /\ NextTask("quit") /\ Done /\ phase' = phase /\ quit' = TRUE
      /\ UNCHANGED <<uiQueue, managerVars, windowVars, browser>>
  BY DEF PostQuitMessage
<1>2. Goes({Head(mainQueue)}, {}) /\ Head(mainQueue).do = "quit"
  BY <1>1, DoneGoes
<1>3. LastAsks'
  BY <1>1 DEF LastAsks, Finishing
<1> QED
  BY <1>1, <1>2, <1>3, WindowsStay DEF managerVars

(* The UI thread takes its task, and posts one or none. *)
LEMMA InitOnUIKeepsLife ==
  ASSUME LifeInv, WindowsInv', ContinueInitOnUIThread
  PROVE  LifeInv'
<1>1. PICK t : t = Head(uiQueue)
  OBVIOUS
<1>2. /\ uiQueue # <<>> /\ t.do = "init" /\ uiQueue' = Tail(uiQueue)
      /\ Post(<<Task("init", t.w)>>)
      /\ UNCHANGED <<phase, quit, managerVars, windowVars, browser>>
  BY <1>1 DEF ContinueInitOnUIThread, NextUi
<1>3. t \in UiTask /\ ToSet(uiQueue) = {t} \union ToSet(uiQueue')
  BY <1>1, <1>2, UiTakeFacts DEF LifeInv, WindowsInv
<1>4. t.w \in Window /\ t = Task("init", t.w)
  BY <1>2, <1>3, UiShape
<1>5. Task("init", t.w) \in MainTask /\ Task("init", t.w).do = "init"
  BY <1>4, TaskTypes, TaskFields
<1>6. <<Task("init", t.w)>> \in Seq(MainTask)
      /\ ToSet(<<Task("init", t.w)>>) = {Task("init", t.w)}
  BY <1>5, FewSet
<1>7. Goes({}, {Task("init", t.w)})
  <2> DEFINE R == <<Task("init", t.w)>>
  <2>1. R \in Seq(MainTask) /\ Post(R) /\ \A s \in ToSet(R) : s.do \notin {"rootCreated", "created"}
    BY <1>2, <1>5, <1>6
  <2> HIDE DEF R
  <2>2. Goes({}, ToSet(R))
    BY <1>2, <2>1, PostsEnds
  <2> QED
    BY <1>6, <2>2 DEF R
<1>8. LastAsks'
  <2>1. Kept' = Kept /\ LastAsks
    BY <1>2 DEF Kept, Known, managerVars, LifeInv
  <2>2. CleanupTask \in ToSet(uiQueue) => CleanupTask \in ToSet(uiQueue')
    BY <1>2, <1>3, TaskFields
  <2>3. Finishing => Finishing'
    BY <1>2, <1>7, <2>2, FinishingStays
  <2> QED
    BY <2>1, <2>3 DEF LastAsks
<1> QED
  BY <1>2, <1>3, <1>4, <1>5, <1>7, <1>8, WindowsStay DEF managerVars

LEMMA CleanupKeepsLife ==
  ASSUME LifeInv, WindowsInv', CleanupOnUIThread
  PROVE  LifeInv'
<1>1. PICK t : t = Head(uiQueue)
  OBVIOUS
<1>2. /\ uiQueue # <<>> /\ t.do = "cleanup" /\ uiQueue' = Tail(uiQueue)
      /\ Post(<<QuitTask>>)
      /\ UNCHANGED <<phase, quit, managerVars, windowVars, browser>>
  BY <1>1 DEF CleanupOnUIThread, NextUi, QuitTask
<1>3. t \in UiTask /\ ToSet(uiQueue) = {t} \union ToSet(uiQueue')
  BY <1>1, <1>2, UiTakeFacts DEF LifeInv, WindowsInv
<1>4. QuitTask \in MainTask /\ QuitTask.do = "quit"
  BY TaskTypes, TaskFields
<1>5. <<QuitTask>> \in Seq(MainTask) /\ ToSet(<<QuitTask>>) = {QuitTask}
  BY <1>4, FewSet
<1>6. Goes({}, {QuitTask})
  <2> DEFINE R == <<QuitTask>>
  <2>1. R \in Seq(MainTask) /\ Post(R) /\ \A s \in ToSet(R) : s.do \notin {"rootCreated", "created"}
    BY <1>2, <1>4, <1>5
  <2> HIDE DEF R
  <2>2. Goes({}, ToSet(R))
    BY <1>2, <2>1, PostsEnds
  <2> QED
    BY <1>5, <2>2 DEF R
<1>7. LastAsks'
  BY <1>6 DEF LastAsks, Finishing, Goes
<1>8. Task("init", First) \in ToSet(uiQueue) => Task("init", First) \in ToSet(uiQueue')
  BY <1>2, <1>3, TaskFields
<1> QED
  BY <1>2, <1>4, <1>6, <1>7, <1>8, WindowsStay DEF managerVars

LEMMA UserClosesKeepsLife ==
  ASSUME LifeInv, WindowsInv', NEW S, UserCloses(S)
  PROVE  LifeInv'
<1>1. PICK R : R = CloseMessages(S)
  OBVIOUS
<1>2. /\ phase = "running" /\ mainQueue' = mainQueue \o R /\ queuedTasks' = queuedTasks
      /\ UNCHANGED <<phase, quit, uiQueue, managerVars, windowVars, browser>>
  BY <1>1 DEF UserCloses
<1>3. Types /\ WindowInv /\ LastAsks /\ ClosesCome
  BY DEF LifeInv, WindowsInv
<1>4. /\ R \in Seq(MainTask) /\ ToSet(R) = {Task("wmClose", w) : w \in S \intersect hwnd}
      /\ \A t \in ToSet(R) : t.do = "wmClose"
  BY <1>1, <1>3, CloseMessagesFacts, TaskFields DEF Types
<1>5. Goes({}, ToSet(R))
  <2>1. Post(R)
    BY <1>2 DEF Post, PostTo
  <2> QED
    BY <1>2, <1>4, <2>1, PostsEnds
<1>6. Popup \intersect Named("wmClose", ToSet(R)) \subseteq In({"live", "closing", "closed"})
  <2>1. Named("wmClose", ToSet(R)) \subseteq hwnd
    BY <1>4, TaskFields DEF Named
  <2> QED
    BY <1>3, <2>1 DEF WindowInv
<1>7. LastAsks'
  <2>1. Kept' = Kept
    BY <1>2 DEF Kept, Known, managerVars
  <2>2. Finishing => Finishing'
    BY <1>2, <1>5, FinishingStays
  <2> QED
    BY <1>3, <2>1, <2>2 DEF LastAsks
<1>8. UNCHANGED <<rootWindows, hwnd, windowCreated, windowDestroyed, browserDestroyed, isClosing>>
  BY <1>2 DEF managerVars, windowVars
<1>9. browserDestroyed \intersect rootWindows' \intersect windowDestroyed' = {}
  BY <1>3, <1>8 DEF ClosesCome
<1> QED
  BY <1>2, <1>4, <1>5, <1>6, <1>7, <1>8, <1>9, BrowsersStay

(* A window that has no native window any more has been destroyed, unless its
   browser is still to be created. *)
LEMMA WindowsEnd ==
  ASSUME LifeInv, NEW w \in Window \ hwnd, browser[w] # "none",
         w \notin Popup \/ ( /\ w \in In({"live", "closing", "closed"})
                             /\ w \notin Named("created", Waiting) )
  PROVE  w \in windowDestroyed
<1>1. WindowsBegin /\ WindowInv
  BY DEF LifeInv, WindowsInv
<1>2. CASE w \in Popup
  <2>1. w \in windowCreated
    BY <1>1, <1>2 DEF WindowInv
  <2> QED
    BY <1>1, <2>1 DEF WindowsBegin
<1>3. CASE w \notin Popup
  <2>1. w \in Window \ In({"none"})
    BY IntroOutro DEF In
  <2>2. w = First /\ First \in windowCreated
    BY <1>1, <1>3, <2>1 DEF WindowsBegin
  <2> QED
    BY <1>1, <2>2 DEF WindowsBegin
<1> QED
  BY <1>2, <1>3

(* A native window is destroyed. *)
LEMMA DestroyKeepsLife ==
  ASSUME LifeInv, WindowsInv', NEW w \in hwnd, DestroyWindow(w),
         Goes({Head(mainQueue)}, {}), NEW do \in {"wmClose", "destroy"},
         Head(mainQueue) = Task(do, w),
         UNCHANGED <<quit, otherCt, otherOwners, windowCreated, browserDestroyed,
                     isClosing, browser>>
  PROVE  LifeInv'
<1> DEFINE h == Head(mainQueue)
           S == {w} \intersect (windowDestroyed \union {w}) \intersect browserDestroyed
<1>1. /\ hwnd' = hwnd \ {w} /\ windowDestroyed' = windowDestroyed \union {w}
      /\ OnRootWindowDestroyed(S)
  BY DEF DestroyWindow, NotifyDestroyedIfDone
<1>2. h.do = do /\ h # QuitTask /\ h # Task("init", First)
  BY TaskFields
<1>3. LastAsks' /\ rootWindows' = rootWindows \ S /\ ToSet(uiQueue) \subseteq ToSet(uiQueue')
  <2> HIDE DEF S
  <2> QED
    BY <1>1, <1>2, DestroyedAsks
<1>4. ClosesCome /\ WindowInv
  BY DEF LifeInv, WindowsInv
<1>5. /\ rootWindows' \subseteq rootWindows /\ windowDestroyed \subseteq windowDestroyed'
      /\ hwnd \union windowDestroyed \subseteq hwnd' \union windowDestroyed'
  BY <1>1, <1>3
<1>6. browserDestroyed \intersect rootWindows' \intersect windowDestroyed' = {}
  BY <1>1, <1>3, <1>4 DEF ClosesCome
<1>7. \A t \in {h} : t.do \notin {"init", "closing", "closed"}
  BY <1>2
<1>8. Named("wmClose", {}) = {}
  BY DEF Named
<1>9. \A v \in Window : Task("wmClose", v) = h => v \in windowDestroyed'
  BY <1>1, TaskFields
<1>10. \A v \in browserDestroyed \intersect rootWindows' : Task("destroy", v) # h
  <2> SUFFICES ASSUME NEW v \in browserDestroyed \intersect rootWindows', Task("destroy", v) = h
               PROVE  FALSE
    OBVIOUS
  <2>1. v = w
    BY TaskFields
  <2> QED
    BY <1>3, <2>1
<1>11. \A p \in Popup : Abort(OpenerOf[p], p) # h
  BY <1>2, TaskFields
<1>12. In({"aborted"}) \subseteq Popup /\ Alloy \subseteq Window
  BY WindowsAssumption DEF LifeInv, WindowsBegin
<1>13. \A v \in Alloy \intersect In({"closing"}) \intersect isClosing :
         Task("wmClose", v) \in {h} => v \in windowDestroyed'
  BY <1>9, <1>12
<1>14. \A p \in In({"aborted"}) : Abort(OpenerOf[p], p) \notin {h}
  BY <1>11, <1>12
<1> HIDE DEF h, S
<1> QED
  BY <1>3, <1>5, <1>6, <1>7, <1>8, <1>10, <1>13, <1>14, BrowsersStay DEF h

(* A task about a window that does not destroy it. *)
LEMMA WindowTaskKeepsLife ==
  ASSUME LifeInv, WindowsInv', Goes({Head(mainQueue)}, {}),
         NEW w \in Window, NEW do \in {"wmClose", "destroy"}, Head(mainQueue) = Task(do, w),
         ToSet(uiQueue) \subseteq ToSet(uiQueue'),
         UNCHANGED <<quit, rootWindows, otherOwners, hwnd, windowCreated, windowDestroyed,
                     browserDestroyed, isClosing, browser>>,
         do = "wmClose" /\ w \in isClosing \intersect In({"closing"}) => w \in windowDestroyed,
         do = "destroy" => w \notin browserDestroyed \intersect rootWindows
  PROVE  LifeInv'
<1> DEFINE h == Head(mainQueue)
<1>1. h.do = do /\ h # QuitTask
  BY TaskFields
<1>2. ClosesCome /\ LastAsks
  BY DEF LifeInv
<1>3. LastAsks'
  <2>1. Kept' = Kept
    BY DEF Kept, Known
  <2>2. Finishing => Finishing'
    BY <1>1, FinishingStays
  <2> QED
    BY <1>2, <2>1, <2>2 DEF LastAsks
<1>4. browserDestroyed \intersect rootWindows' \intersect windowDestroyed' = {}
  BY <1>2 DEF ClosesCome
<1>5. \A t \in {h} : t.do \notin {"init", "closing", "closed"}
  BY <1>1
<1>6. Named("wmClose", {}) = {}
  BY DEF Named
<1>7. In({"aborted"}) \subseteq Popup /\ Alloy \subseteq Window
  BY WindowsAssumption DEF LifeInv, WindowsBegin
<1>8. \A v \in Alloy \intersect In({"closing"}) \intersect isClosing :
         Task("wmClose", v) \in {h} => v \in windowDestroyed'
  BY <1>7, TaskFields
<1>9. \A v \in browserDestroyed \intersect rootWindows' : Task("destroy", v) \notin {h}
  <2> SUFFICES ASSUME NEW v \in browserDestroyed \intersect rootWindows', Task("destroy", v) = h
               PROVE  FALSE
    OBVIOUS
  <2>1. v = w /\ do = "destroy"
    BY TaskFields
  <2> QED
    BY <2>1
<1>10. \A p \in In({"aborted"}) : Abort(OpenerOf[p], p) \notin {h}
  BY <1>1, <1>7, TaskFields
<1> HIDE DEF h
<1> QED
  BY <1>3, <1>4, <1>5, <1>6, <1>8, <1>9, <1>10, BrowsersStay DEF h

LEMMA CloseByForceKeepsLife ==
  ASSUME LifeInv, WindowsInv', CloseByForce
  PROVE  LifeInv'
<1>1. PICK w : w = Head(mainQueue).w
  OBVIOUS
<1>2. /\ NextTask("destroy") /\ Done /\ phase' = phase
      /\ IF w \in hwnd THEN DestroyWindow(w)
         ELSE UNCHANGED <<hwnd, windowDestroyed, rootWindows, uiQueue>>
      /\ UNCHANGED <<quit, otherCt, otherOwners, windowCreated, browserDestroyed,
                     isClosing, browser>>
  BY <1>1 DEF CloseByForce
<1>3. Goes({Head(mainQueue)}, {}) /\ Head(mainQueue) \in MainTask
      /\ Head(mainQueue).do = "destroy"
  BY <1>2, DoneGoes
<1>4. w \in Window /\ Head(mainQueue) = Task("destroy", w)
  BY <1>1, <1>3, TaskShape
<1>5. CASE w \in hwnd
  BY <1>2, <1>3, <1>4, <1>5, DestroyKeepsLife
<1>6. CASE w \notin hwnd
  <2>1. w \notin browserDestroyed \intersect rootWindows
    <3> SUFFICES ASSUME w \in browserDestroyed \intersect rootWindows PROVE FALSE
      OBVIOUS
    <3>1. WindowInv /\ BookInv /\ ClosesCome
      BY DEF LifeInv, WindowsInv
    <3>2. w \in In({"closed"}) \ Outros(Waiting) /\ w \notin windowDestroyed
      BY <3>1 DEF WindowInv, ClosesCome
    <3>3. browser[w] = "closed" /\ w \in In({"live", "closing", "closed"})
      BY <3>2 DEF In
    <3>4. w \notin Named("created", Waiting)
      BY <3>1, <3>2, <3>3 DEF BookInv, Active, In
    <3> QED
      BY <1>4, <1>6, <3>2, <3>3, <3>4, WindowsEnd
  <2> QED
    BY <1>2, <1>3, <1>4, <1>6, <2>1, WindowTaskKeepsLife
<1> QED
  BY <1>5, <1>6

LEMMA ReceiveCloseKeepsLife ==
  ASSUME LifeInv, WindowsInv', ReceiveClose
  PROVE  LifeInv'
<1>1. PICK w : w = Head(mainQueue).w
  OBVIOUS
<1>2. /\ NextTask("wmClose") /\ Done /\ phase' = phase
      /\ IF w \in hwnd THEN OnClose(w)
         ELSE UNCHANGED <<hwnd, windowDestroyed, rootWindows, uiQueue>>
      /\ UNCHANGED <<quit, otherCt, otherOwners, windowCreated, browserDestroyed,
                     isClosing, browser>>
  BY <1>1 DEF ReceiveClose
<1>3. Goes({Head(mainQueue)}, {}) /\ Head(mainQueue) \in MainTask
      /\ Head(mainQueue).do = "wmClose"
      /\ \A t \in Waiting' : <<t, Head(mainQueue)>> \notin Ends
  BY <1>2, DoneGoes
<1>4. w \in Window /\ Head(mainQueue) = Task("wmClose", w)
  BY <1>1, <1>3, TaskShape
<1>5. CASE w \in hwnd /\ w \in attached /\ w \notin isClosing
  <2>1. /\ uiQueue' = Append(uiQueue, [do |-> "close", x |-> w])
        /\ UNCHANGED <<hwnd, windowDestroyed, rootWindows>>
    BY <1>2, <1>5 DEF OnClose
  <2>2. [do |-> "close", x |-> w] \in UiTask /\ uiQueue \in Seq(UiTask)
    BY <1>4, TaskTypes, IntroOutro DEF LifeInv, WindowsInv, Types
  <2>3. ToSet(uiQueue) \subseteq ToSet(uiQueue')
    BY <2>1, <2>2, AppendSet
  <2> QED
    BY <1>2, <1>3, <1>4, <1>5, <2>1, <2>3, WindowTaskKeepsLife
<1>6. CASE w \in hwnd /\ ~ (w \in attached /\ w \notin isClosing)
  <2>1. DestroyWindow(w)
    BY <1>2, <1>6 DEF OnClose
  <2> QED
    BY <1>2, <1>3, <1>4, <1>6, <2>1, DestroyKeepsLife
<1>7. CASE w \notin hwnd
  <2>1. ASSUME w \in In({"closing"}) PROVE w \in windowDestroyed
    <3>1. browser[w] = "closing" /\ w \in In({"live", "closing", "closed"})
      BY <2>1 DEF In
    <3>2. w \in Popup => w \notin Named("created", Waiting)
      <4> SUFFICES ASSUME w \in Popup, Task("created", w) \in Waiting PROVE FALSE
        BY DEF Named
      <4>1. Task("created", w) # Head(mainQueue)
        BY <1>3, TaskFields
      <4>2. Task("created", w) \in Waiting'
        BY <1>3, <4>1 DEF Goes
      <4>3. <<Task("created", w), Head(mainQueue)>> \in Ends
        BY <1>4, EndsForms
      <4> QED
        BY <1>3, <4>2, <4>3
    <3> QED
      BY <1>4, <1>7, <3>1, <3>2, WindowsEnd
  <2> QED
    BY <1>2, <1>3, <1>4, <1>7, <2>1, WindowTaskKeepsLife
<1> QED
  BY <1>5, <1>6, <1>7

(* The popups of a browser end with it, or one of them alone. *)
LEMMA AbortKeepsLife ==
  ASSUME LifeInv, WindowsInv', OnAbortOrClosePopup
  PROVE  LifeInv'
<1>0. PICK h : h = Head(mainQueue)
  OBVIOUS
<1>a. PICK M : M = PopupsMatching(h.opener, h.p)
  OBVIOUS
<1>b. PICK R : R = CloseMessages(M \intersect windowCreated)
  OBVIOUS
<1>c. PICK D : D = M \ windowCreated
  OBVIOUS
<1>d. PICK u : u = IF D = {} THEN uiQueue ELSE MaybeCleanup(rootWindows \ D, otherCt, uiQueue)
  OBVIOUS
<1>e. PICK O : O = {o \in Other : /\ h.p = AllPopups
                                  /\ <<h.opener, o>> \in otherOwners
                                  /\ browser[o] \in {"live", "closing"}}
  OBVIOUS
<1>1. /\ phase = "running" /\ mainQueue # <<>> /\ h.do = "abort"
      /\ mainQueue' = Tail(mainQueue) \o R /\ queuedTasks' = queuedTasks
      /\ rootWindows' = rootWindows \ D
      /\ uiQueue' = u \o SetToSeq({[do |-> "close", x |-> o] : o \in O})
      /\ UNCHANGED <<phase, quit, otherCt, otherOwners, hwnd, windowCreated,
                     windowDestroyed, browserDestroyed, isClosing, browser>>
  BY <1>0, <1>a, <1>b, <1>c, <1>d, <1>e DEF OnAbortOrClosePopup, NextTask, CloseOrDestroy,
     windowVars
<1>2. Types /\ QueueInv /\ WindowInv /\ LastAsks /\ ClosesCome /\ WindowsBegin
  BY DEF LifeInv, WindowsInv
<1>3. /\ R \in Seq(MainTask)
      /\ ToSet(R) = {Task("wmClose", w) : w \in (M \intersect windowCreated) \intersect hwnd}
      /\ \A t \in ToSet(R) : t.do = "wmClose"
  BY <1>2, <1>b, CloseMessagesFacts, TaskFields DEF Types
<1>4. /\ Goes({h}, ToSet(R)) /\ h \in MainTask
      /\ \A t \in Waiting' : t \in ToSet(R) \/ <<t, h>> \notin Ends
  BY <1>0, <1>1, <1>3, TakeGoes
<1>5. uiQueue \in Seq(UiTask) /\ InOrder(uiQueue, UiBefore)
  BY <1>2 DEF Types, QueueInv
<1>6. /\ ToSet(uiQueue) \subseteq ToSet(uiQueue')
      /\ D # {} /\ rootWindows \ D = {} /\ otherCt = 0 => CleanupTask \in ToSet(uiQueue')
  <2>1. /\ u \in Seq(UiTask) /\ ToSet(uiQueue) \subseteq ToSet(u)
        /\ D # {} /\ rootWindows \ D = {} /\ otherCt = 0 => CleanupTask \in ToSet(u)
    BY <1>d, <1>5, MaybeAsks
  <2>2. PICK c : c = SetToSeq({[do |-> "close", x |-> o] : o \in O})
    OBVIOUS
  <2>3. c \in Seq(UiTask)
    BY <1>e, <2>2, ClosesSet
  <2>4. uiQueue' = u \o c
    BY <1>1, <2>2
  <2>5. ToSet(u \o c) = ToSet(u) \union ToSet(c)
    BY <2>1, <2>3, ConcatSet
  <2> QED
    BY <2>1, <2>4, <2>5
<1>7. h # QuitTask
  BY <1>1, TaskFields
<1>8. LastAsks'
  <2>1. Known' = Known /\ (otherCt = 0 <=> Known = {})
    BY <1>1, <1>2, KnownFacts DEF Known
  <2>2. CASE D = {}
    <3>1. Kept' = Kept
      BY <1>1, <2>1, <2>2 DEF Kept
    <3>2. Finishing => Finishing'
      BY <1>1, <1>4, <1>6, <1>7, FinishingStays
    <3> QED
      BY <1>2, <3>1, <3>2 DEF LastAsks
  <2>3. CASE D # {}
    BY <1>1, <1>6, <2>1, <2>3 DEF LastAsks, Kept, Finishing
  <2> QED
    BY <2>2, <2>3
<1>9. Popup \intersect Named("wmClose", ToSet(R)) \subseteq In({"live", "closing", "closed"})
  <2>1. Named("wmClose", ToSet(R)) \subseteq windowCreated
    BY <1>3, TaskFields DEF Named
  <2> QED
    BY <1>2, <2>1 DEF WindowInv
<1>10. ASSUME NEW p \in In({"aborted"}), Abort(OpenerOf[p], p) \in {h}
       PROVE  p \notin rootWindows' \union Intros(Waiting')
  <2>1. p \in Popup /\ h.opener = OpenerOf[p] /\ h.p = p
    BY <1>2, <1>10, TaskFields DEF WindowsBegin
  <2>2. p \notin windowCreated
    BY <1>2, <1>10, <2>1 DEF WindowInv, In
  <2>3. p \in rootWindows => p \in D
    BY <1>a, <1>c, <2>1, <2>2 DEF PopupsMatching
  <2>4. Intro(p) \notin Waiting'
    <3>1. Intro(p).do # "wmClose"
      BY <2>1, IntroOutro
    <3>2. <<Intro(p), h>> \in Ends
      BY <1>10, <2>1, EndsForms
    <3> QED
      BY <1>3, <1>4, <3>1, <3>2
  <2> QED
    BY <1>1, <2>3, <2>4 DEF Intros
<1>11. browserDestroyed \intersect rootWindows' \intersect windowDestroyed' = {}
  BY <1>1, <1>2 DEF ClosesCome
<1>12. \A w : Task("wmClose", w) \notin {h} /\ Task("destroy", w) \notin {h}
  BY <1>1, TaskFields
<1> QED
  BY <1>1, <1>3, <1>4, <1>6, <1>8, <1>9, <1>10, <1>11, <1>12, BrowsersStay

----------------------------------------------------------------------------
(* Steps that bring a window or a browser on: what stays, part by part. *)

LEMMA AsksStay ==
  ASSUME LifeInv, NEW G, NEW N, Goes(G, N), QuitTask \notin G, quit' = quit,
         Kept \subseteq Kept',
         CleanupTask \in ToSet(uiQueue) => CleanupTask \in ToSet(uiQueue')
  PROVE  LastAsks'
<1>1. Finishing => Finishing'
  BY FinishingStays
<1> QED
  BY <1>1 DEF LifeInv, LastAsks

LEMMA AbortsStay ==
  ASSUME LifeInv, NEW G, NEW N, Goes(G, N), \A t \in G : t.do # "abort",
         In({"aborted"})' \subseteq In({"aborted"}),
         \A p \in In({"aborted"}) : p \in rootWindows' \union Intros(Waiting') =>
           p \in rootWindows \union Intros(Waiting)
  PROVE  AbortsCome'
<1> SUFFICES ASSUME NEW p \in In({"aborted"})', p \in rootWindows' \union Intros(Waiting')
             PROVE  Abort(OpenerOf[p], p) \in Waiting'
  BY DEF AbortsCome
<1>1. Abort(OpenerOf[p], p) \in Waiting
  BY DEF LifeInv, AbortsCome
<1>2. Abort(OpenerOf[p], p) \notin G
  BY TaskFields
<1> QED
  BY <1>1, <1>2 DEF Goes

LEMMA ClosesStay ==
  ASSUME LifeInv, NEW G, NEW N, Goes(G, N), \A t \in G : t.do \notin {"closed", "destroy"},
         UNCHANGED <<browserDestroyed, windowDestroyed>>,
         Window \intersect In({"closed"})' \subseteq In({"closed"}),
         browserDestroyed \intersect rootWindows' \subseteq rootWindows,
         browserDestroyed \intersect Intros(Waiting') = {}
  PROVE  ClosesCome'
<1>1. ClosesCome
  BY DEF LifeInv
<1>2. \A w \in Window : Outro(w) \notin G /\ Task("destroy", w) \notin G
  BY IntroOutro, TaskFields
<1>3. Window \intersect Outros(Waiting) \subseteq Outros(Waiting')
      /\ Named("destroy", Waiting) \subseteq Named("destroy", Waiting')
  BY <1>2 DEF Goes, Outros, Named
<1> QED
  BY <1>1, <1>3 DEF ClosesCome

LEMMA ClosingStays ==
  ASSUME LifeInv, NEW G, NEW N, Goes(G, N), \A t \in G : t.do \notin {"closing", "wmClose"},
         \A t \in N : t.do # "wmClose", UNCHANGED <<isClosing, windowDestroyed>>,
         Window \intersect In({"closing"})' \subseteq In({"closing"}),
         Popup \intersect In({"live", "closing", "closed"})
           \subseteq In({"live", "closing", "closed"})'
  PROVE  ClosingComes'
<1>1. ClosingComes /\ Alloy \subseteq Window
  BY WindowsAssumption DEF LifeInv
<1>2. Named("wmClose", Waiting') \subseteq Named("wmClose", Waiting)
  BY TaskFields DEF Goes, Named
<1>3. ASSUME NEW w \in Alloy \intersect In({"closing"})'
      PROVE  w \in windowDestroyed' \/ Closes(w)'
  <2>1. w \in Window /\ (w \in windowDestroyed \/ Closes(w))
    BY <1>1 DEF ClosingComes
  <2>2. Task("closing", w) \notin G /\ Task("wmClose", w) \notin G
    BY TaskFields
  <2> QED
    BY <2>1, <2>2, ClosesStays
<1> QED
  BY <1>1, <1>2, <1>3 DEF ClosingComes

(* The state of one browser changes. *)
LEMMA InExcept ==
  ASSUME Types, NEW x \in Browser, NEW v, browser' = [browser EXCEPT ![x] = v]
  PROVE  \A T : In(T)' = IF v \in T THEN In(T) \union {x} ELSE In(T) \ {x}
<1>1. \A y \in Browser : browser'[y] = IF y = x THEN v ELSE browser[y]
  BY DEF Types
<1> QED
  BY <1>1 DEF In

----------------------------------------------------------------------------
(* The native window of the first browser is created. *)
LEMMA InitOnMainKeepsLife ==
  ASSUME LifeInv, WindowsInv', ContinueInitOnMainThread
  PROVE  LifeInv'
<1>1. PICK w : w = Head(mainQueue).w
  OBVIOUS
<1>2. /\ NextTask("init") /\ Done /\ phase' = phase /\ CreateWindow(w)
      /\ UNCHANGED <<quit, uiQueue, managerVars, windowDestroyed, browserDestroyed, isClosing>>
  BY <1>1 DEF ContinueInitOnMainThread
<1>3. /\ Goes({Head(mainQueue)}, {}) /\ Head(mainQueue) \in MainTask
      /\ Head(mainQueue) \in Waiting /\ Head(mainQueue).do = "init"
  BY <1>2, DoneGoes
<1>4. w \in Window /\ Head(mainQueue) = Task("init", w)
  BY <1>1, <1>3, TaskShape
<1>5. Types /\ WindowInv /\ BookInv /\ WindowsBegin /\ ClosesCome
  BY DEF LifeInv, WindowsInv
<1>6. w = First /\ w \in In({"none"}) /\ w \in rootWindows
  <2>1. w \in Named("init", Waiting)
    BY <1>3, <1>4 DEF Named
  <2> QED
    BY <1>5, <2>1 DEF WindowInv
<1>7. /\ hwnd' = hwnd \union {w} /\ windowCreated' = windowCreated \union {w}
      /\ browser' = [browser EXCEPT ![w] = "pending"]
  BY <1>2, <1>6, IntroOutro DEF CreateWindow
<1>8. \A T : In(T)' = IF "pending" \in T THEN In(T) \union {w} ELSE In(T) \ {w}
  BY <1>4, <1>5, <1>7, InExcept, IntroOutro
<1>9. /\ In({"none"})' = In({"none"}) \ {w} /\ In({"aborted"})' \subseteq In({"aborted"})
      /\ In({"closed"})' \subseteq In({"closed"}) /\ In({"closing"})' \subseteq In({"closing"})
      /\ Popup \intersect In({"live", "closing", "closed"})
           \subseteq In({"live", "closing", "closed"})'
  BY <1>6, <1>8, IntroOutro
<1>10. Intros(Waiting') \subseteq Intros(Waiting) /\ Kept' = Kept
  BY <1>2, <1>3 DEF Goes, Intros, Kept, Known, managerVars
<1>11. Head(mainQueue) # QuitTask
  BY <1>3, TaskFields
<1>12. LastAsks'
  BY <1>2, <1>3, <1>10, <1>11, AsksStay
<1>13. AbortsCome'
  BY <1>2, <1>3, <1>9, <1>10, AbortsStay DEF managerVars
<1>14. browserDestroyed \intersect Intros(Waiting') = {}
  BY <1>5, <1>10 DEF ClosesCome
<1>15. ClosesCome'
  BY <1>2, <1>3, <1>9, <1>14, ClosesStay DEF managerVars
<1>16. ClosingComes'
  BY <1>2, <1>3, <1>9, ClosingStays
<1>17. WindowsBegin'
  BY <1>2, <1>5, <1>6, <1>7, <1>9 DEF WindowsBegin, managerVars
<1>18. InOrder(Line, Ends)'
  BY <1>3 DEF Goes
<1> QED
  BY <1>12, <1>13, <1>15, <1>16, <1>17, <1>18 DEF LifeInv

(* The manager stores a window. *)
LEMMA RootCreatedKeepsLife ==
  ASSUME LifeInv, WindowsInv', OnRootWindowCreated
  PROVE  LifeInv'
<1>1. PICK w : w = Head(mainQueue).w
  OBVIOUS
<1>2. /\ NextTask("rootCreated") /\ Done /\ phase' = phase
      /\ rootWindows' = rootWindows \union {w}
      /\ UNCHANGED <<quit, uiQueue, otherCt, otherOwners, hwnd, windowCreated,
                     windowDestroyed, browserDestroyed, isClosing, browser>>
  BY <1>1 DEF OnRootWindowCreated, windowVars
<1>3. /\ Goes({Head(mainQueue)}, {}) /\ Head(mainQueue) \in MainTask
      /\ Head(mainQueue) \in Waiting /\ Head(mainQueue).do = "rootCreated"
  BY <1>2, DoneGoes
<1>4. w \in Window /\ Head(mainQueue) = Task("rootCreated", w)
  BY <1>1, <1>3, TaskShape
<1>5. BookInv /\ WindowsBegin /\ ClosesCome
  BY DEF LifeInv, WindowsInv
<1>6. w \in Intros(Waiting) /\ w \in Popup
  <2>1. w \in Intros(Waiting)
    BY <1>3, <1>4, IntroOutro DEF Intros
  <2> QED
    BY <1>4, <1>5, <2>1, IntroOutro DEF BookInv
<1>7. \A T : In(T)' = In(T)
  BY <1>2 DEF In
<1>8. Intros(Waiting') \subseteq Intros(Waiting) /\ Kept \subseteq Kept'
  BY <1>2, <1>3 DEF Goes, Intros, Kept, Known
<1>9. Head(mainQueue) # QuitTask /\ Head(mainQueue) # Task("init", First)
  BY <1>3, TaskFields
<1>10. LastAsks'
  BY <1>2, <1>3, <1>8, <1>9, AsksStay
<1>11. AbortsCome'
  <2>1. \A p \in In({"aborted"}) : p \in rootWindows' \union Intros(Waiting') =>
          p \in rootWindows \union Intros(Waiting)
    BY <1>2, <1>6, <1>8
  <2> QED
    BY <1>3, <1>7, <2>1, AbortsStay
<1>12. browserDestroyed \intersect Intros(Waiting') = {} /\ w \notin browserDestroyed
  BY <1>5, <1>6, <1>8 DEF ClosesCome
<1>13. ClosesCome'
  BY <1>2, <1>3, <1>7, <1>12, ClosesStay
<1>14. ClosingComes'
  BY <1>2, <1>3, <1>7, ClosingStays
<1>15. WindowsBegin'
  <2>1. Task("init", First) \in Waiting => Task("init", First) \in Waiting'
    BY <1>3, <1>9 DEF Goes
  <2> QED
    BY <1>2, <1>5, <1>6, <1>7, <2>1 DEF WindowsBegin
<1>16. InOrder(Line, Ends)'
  BY <1>3 DEF Goes
<1> QED
  BY <1>10, <1>11, <1>13, <1>14, <1>15, <1>16 DEF LifeInv

(* A window hears of its browser, and a popup becomes one. *)
LEMMA BrowserCreatedKeepsLife ==
  ASSUME LifeInv, WindowsInv', OnBrowserCreated
  PROVE  LifeInv'
<1>1. PICK w : w = Head(mainQueue).w
  OBVIOUS
<1>2. /\ NextTask("created") /\ Done /\ phase' = phase
      /\ hwnd' \ hwnd = windowCreated' \ windowCreated \/ hwnd' = hwnd \union {w}
      /\ windowCreated \subseteq windowCreated' /\ windowCreated' \subseteq windowCreated \union {w}
      /\ hwnd \subseteq hwnd' /\ (windowCreated' # windowCreated => w \in hwnd')
      /\ UNCHANGED <<quit, uiQueue, managerVars, windowDestroyed, browserDestroyed,
                     isClosing, browser>>
  BY <1>1 DEF OnBrowserCreated, CreateWindow
<1>3. /\ Goes({Head(mainQueue)}, {}) /\ Head(mainQueue) \in MainTask
      /\ Head(mainQueue).do = "created"
  BY <1>2, DoneGoes
<1>4. WindowsBegin /\ ClosesCome
  BY DEF LifeInv
<1>5. \A T : In(T)' = In(T)
  BY <1>2 DEF In
<1>6. Intros(Waiting') \subseteq Intros(Waiting) /\ Kept' = Kept
  BY <1>2, <1>3 DEF Goes, Intros, Kept, Known, managerVars
<1>7. Head(mainQueue) # QuitTask /\ Head(mainQueue) # Task("init", First)
  BY <1>3, TaskFields
<1>8. LastAsks'
  BY <1>2, <1>3, <1>6, <1>7, AsksStay
<1>9. AbortsCome'
  BY <1>2, <1>3, <1>5, <1>6, AbortsStay DEF managerVars
<1>10. browserDestroyed \intersect Intros(Waiting') = {}
  BY <1>4, <1>6 DEF ClosesCome
<1>11. ClosesCome'
  BY <1>2, <1>3, <1>5, <1>10, ClosesStay DEF managerVars
<1>12. ClosingComes'
  BY <1>2, <1>3, <1>5, ClosingStays
<1>13. WindowsBegin'
  <2>1. Task("init", First) \in Waiting => Task("init", First) \in Waiting'
    BY <1>3, <1>7 DEF Goes
  <2>2. windowCreated' \subseteq hwnd' \union windowDestroyed'
    BY <1>2, <1>4 DEF WindowsBegin
  <2> QED
    BY <1>2, <1>4, <1>5, <2>1, <2>2 DEF WindowsBegin, managerVars
<1>14. InOrder(Line, Ends)'
  BY <1>3 DEF Goes
<1> QED
  BY <1>8, <1>9, <1>11, <1>12, <1>13, <1>14 DEF LifeInv

(* A window hears that its browser agreed to close: the WM_CLOSE is behind. *)
LEMMA BrowserClosingKeepsLife ==
  ASSUME LifeInv, WindowsInv', OnBrowserClosing
  PROVE  LifeInv'
<1>1. PICK w : w = Head(mainQueue).w
  OBVIOUS
<1>2. /\ NextTask("closing") /\ Done /\ phase' = phase /\ isClosing' = isClosing \union {w}
      /\ UNCHANGED <<quit, uiQueue, managerVars, hwnd, windowCreated, windowDestroyed,
                     browserDestroyed, browser>>
  BY <1>1 DEF OnBrowserClosing
<1>3. /\ Goes({Head(mainQueue)}, {}) /\ Head(mainQueue) \in MainTask
      /\ Head(mainQueue).do = "closing"
  BY <1>2, DoneGoes
<1>4. WindowsBegin /\ ClosesCome /\ ClosingComes
  BY DEF LifeInv
<1>5. \A T : In(T)' = In(T)
  BY <1>2 DEF In
<1>6. Intros(Waiting') \subseteq Intros(Waiting) /\ Kept' = Kept
  BY <1>2, <1>3 DEF Goes, Intros, Kept, Known, managerVars
<1>7. Head(mainQueue) # QuitTask /\ Head(mainQueue) # Task("init", First)
      /\ \A v : Task("wmClose", v) # Head(mainQueue)
  BY <1>3, TaskFields
<1>8. LastAsks'
  BY <1>2, <1>3, <1>6, <1>7, AsksStay
<1>9. AbortsCome'
  BY <1>2, <1>3, <1>5, <1>6, AbortsStay DEF managerVars
<1>10. browserDestroyed \intersect Intros(Waiting') = {}
  BY <1>4, <1>6 DEF ClosesCome
<1>11. ClosesCome'
  BY <1>2, <1>3, <1>5, <1>10, ClosesStay DEF managerVars
<1>12. ClosingComes'
  <2>1. ASSUME NEW v \in Alloy \intersect In({"closing"})
        PROVE  v \in windowDestroyed' \/ Closes(v)'
    <3>1. v \in Window /\ (v \in windowDestroyed \/ Closes(v))
      BY <1>4, WindowsAssumption DEF ClosingComes
    <3>2. CASE Closes(v) /\ v = w
      <4>1. Task("wmClose", v) \in Waiting'
        BY <1>3, <1>7, <3>2 DEF Closes, Goes
      <4> QED
        BY <1>2, <3>2, <4>1 DEF Closes
    <3>3. CASE Closes(v) /\ v # w
      <4>1. Task("closing", v) # Head(mainQueue)
        BY <1>1, <3>3, TaskFields
      <4>2. v \in isClosing' <=> v \in isClosing
        BY <1>2, <3>3
      <4> QED
        BY <1>3, <1>7, <3>1, <3>3, <4>1, <4>2, ClosesStays
    <3> QED
      BY <1>2, <3>1, <3>2, <3>3
  <2>2. Named("wmClose", Waiting') \subseteq Named("wmClose", Waiting)
    BY <1>3 DEF Goes, Named
  <2> QED
    BY <1>4, <1>5, <2>1, <2>2 DEF ClosingComes
<1>13. WindowsBegin'
  <2>1. Task("init", First) \in Waiting => Task("init", First) \in Waiting'
    BY <1>3, <1>7 DEF Goes
  <2> QED
    BY <1>2, <1>4, <1>5, <2>1 DEF WindowsBegin, managerVars
<1>14. InOrder(Line, Ends)'
  BY <1>3 DEF Goes
<1> QED
  BY <1>8, <1>9, <1>11, <1>12, <1>13, <1>14 DEF LifeInv

(* A window hears of the end of its browser, and is destroyed next. *)
LEMMA BrowserClosedKeepsLife ==
  ASSUME LifeInv, WindowsInv', OnBrowserClosed
  PROVE  LifeInv'
<1>0. PICK h : h = Head(mainQueue)
  OBVIOUS
<1>a. PICK w : w = h.w
  OBVIOUS
<1>b. PICK R : R = IF w \in windowDestroyed THEN <<>> ELSE <<Task("destroy", w)>>
  OBVIOUS
<1>c. PICK S : S = {w} \intersect windowDestroyed \intersect (browserDestroyed \union {w})
  OBVIOUS
<1>1. /\ phase = "running" /\ mainQueue # <<>> /\ phase' = phase /\ h.do = "closed"
      /\ mainQueue' = Tail(mainQueue) \o R /\ queuedTasks' = queuedTasks
      /\ browserDestroyed' = browserDestroyed \union {w} /\ OnRootWindowDestroyed(S)
      /\ UNCHANGED <<quit, otherCt, otherOwners, hwnd, windowCreated, windowDestroyed,
                     isClosing, browser>>
  BY <1>0, <1>a, <1>b, <1>c DEF OnBrowserClosed, NextTask, NotifyDestroyedIfDone, PostTo
<1>2. Types /\ QueueInv /\ WindowsBegin /\ ClosesCome
  BY DEF LifeInv, WindowsInv
<1>3. h \in MainTask
  BY <1>0, <1>1, <1>2, HeadFacts
<1>4. w \in Window /\ h = Task("closed", w) /\ h = Outro(w) /\ w \in Browser
  BY <1>a, <1>1, <1>3, TaskShape, IntroOutro
<1>5. /\ R \in Seq(MainTask) /\ \A t \in ToSet(R) : t.do = "destroy"
      /\ w \notin windowDestroyed => Task("destroy", w) \in ToSet(R)
  <2>1. PICK t : t = Task("destroy", w)
    OBVIOUS
  <2>2. t \in MainTask /\ t.do = "destroy"
    BY <1>4, <2>1, TaskTypes, TaskFields
  <2>3. <<t>> \in Seq(MainTask) /\ ToSet(<<t>>) = {t}
    BY <2>2, FewSet
  <2>4. <<>> \in Seq(MainTask) /\ ToSet(<<>>) = {}
    BY EmptySet
  <2>5. R = IF w \in windowDestroyed THEN <<>> ELSE <<t>>
    BY <1>b, <2>1
  <2> QED
    BY <2>1, <2>2, <2>3, <2>4, <2>5
<1>6. /\ Goes({h}, ToSet(R))
      /\ \A t \in Waiting' : t \in ToSet(R) \/ <<t, h>> \notin Before
  BY <1>0, <1>1, <1>5, TakeGoes
<1>7. h # QuitTask /\ h # Task("init", First)
  BY <1>1, TaskFields
<1>8. LastAsks' /\ rootWindows' = rootWindows \ S /\ ToSet(uiQueue) \subseteq ToSet(uiQueue')
  BY <1>1, <1>6, <1>7, DestroyedAsks
<1>9. \A T : In(T)' = In(T)
  BY <1>1 DEF In
<1>10. \A x \in Browser : Intro(x) \notin ToSet(R)
  BY <1>5, IntroOutro
<1>11. Intros(Waiting') \subseteq Intros(Waiting) /\ w \notin Intros(Waiting')
  <2>1. Intros(Waiting') \subseteq Intros(Waiting)
    BY <1>6, <1>10 DEF Goes, Intros
  <2>2. <<Intro(w), h>> \in Before
    BY <1>4 DEF Before
  <2>3. Intro(w) \notin Waiting'
    BY <1>4, <1>6, <1>10, <2>2
  <2> QED
    BY <2>1, <2>3 DEF Intros
<1>12. AbortsCome'
  BY <1>1, <1>6, <1>8, <1>9, <1>11, AbortsStay
<1>13. ClosesCome'
  <2>1. Window \intersect In({"closed"})' \subseteq Outros(Waiting') \union browserDestroyed'
    <3> SUFFICES ASSUME NEW v \in Window \intersect In({"closed"}), v # w,
                        v \notin browserDestroyed
                 PROVE  v \in Outros(Waiting')
      BY <1>1, <1>9
    <3>1. Outro(v) \in Waiting /\ v \in Browser
      BY <1>2 DEF ClosesCome, Outros
    <3>2. Outro(v) # h
      BY <1>4, <3>1, IntroOutro
    <3> QED
      BY <1>6, <3>1, <3>2 DEF Goes, Outros
  <2>2. browserDestroyed' \intersect Intros(Waiting') = {}
    BY <1>1, <1>2, <1>11 DEF ClosesCome
  <2>3. ASSUME NEW v \in browserDestroyed' \intersect rootWindows'
        PROVE  v \in Named("destroy", Waiting') \ windowDestroyed'
    <3>1. CASE v = w
      <4>1. w \notin windowDestroyed
        BY <1>c, <1>8, <2>3, <3>1
      <4>2. Task("destroy", w) \in Waiting'
        BY <1>5, <1>6, <4>1 DEF Goes
      <4> QED
        BY <1>1, <1>4, <3>1, <4>1, <4>2 DEF Named
    <3>2. CASE v # w
      <4>1. v \in Named("destroy", Waiting) /\ v \notin windowDestroyed
        BY <1>1, <1>2, <1>8, <2>3, <3>2 DEF ClosesCome
      <4>2. Task("destroy", v) # h
        BY <1>1, TaskFields
      <4> QED
        BY <1>1, <1>6, <4>1, <4>2 DEF Goes, Named
    <3> QED
      BY <3>1, <3>2
  <2> QED
    BY <2>1, <2>2, <2>3 DEF ClosesCome
<1>14. ClosingComes'
  BY <1>1, <1>5, <1>6, <1>9, ClosingStays
<1>15. WindowsBegin'
  <2>1. Task("init", First) \in Waiting => Task("init", First) \in Waiting'
    BY <1>6, <1>7 DEF Goes
  <2> QED
    BY <1>1, <1>2, <1>8, <1>9, <2>1 DEF WindowsBegin
<1>16. InOrder(Line, Ends)'
  BY <1>6 DEF Goes
<1> QED
  BY <1>8, <1>12, <1>13, <1>14, <1>15, <1>16 DEF LifeInv


----------------------------------------------------------------------------
(* Steps of the browsers: the main thread hears of them later. *)

LEMMA BrowserStepStays ==
  ASSUME LifeInv, NEW N, Goes({}, N), UNCHANGED <<quit, managerVars, windowVars>>,
         CleanupTask \in ToSet(uiQueue) => CleanupTask \in ToSet(uiQueue'),
         Task("init", First) \in ToSet(uiQueue) => Task("init", First) \in ToSet(uiQueue'),
         In({"none"})' \subseteq In({"none"}), In({"none"}) \ In({"none"})' \subseteq Popup \union Other,
         In({"aborted"})' \ In({"aborted"}) \subseteq Popup
  PROVE  LastAsks' /\ WindowsBegin' /\ InOrder(Line, Ends)'
<1>1. Kept' = Kept
  BY DEF Kept, Known, managerVars
<1>2. LastAsks'
  BY <1>1, AsksStay
<1>3. First \in Window /\ First \notin Popup \union Other /\ Window \intersect Other = {}
  BY IntroOutro
<1>4. WindowsBegin
  BY DEF LifeInv
<1>5. rootWindows' \union (Window \ In({"none"})') \subseteq Popup \union {First}
  BY <1>3, <1>4 DEF WindowsBegin, managerVars
<1>6. WindowsBegin'
  BY <1>3, <1>4, <1>5 DEF WindowsBegin, Goes, managerVars, windowVars
<1> QED
  BY <1>2, <1>6 DEF Goes

(* A browser agrees to close. *)
LEMMA BeginCloseKeepsLife ==
  ASSUME LifeInv, WindowsInv', NEW x \in Browser, BeginClose(x),
         CleanupTask \in ToSet(uiQueue) => CleanupTask \in ToSet(uiQueue'),
         Task("init", First) \in ToSet(uiQueue) => Task("init", First) \in ToSet(uiQueue')
  PROVE  LifeInv'
<1>0. PICK R : R = IF x \in Alloy THEN DoClose(x) ELSE <<>>
  OBVIOUS
<1>1. /\ browser[x] = "live" /\ browser' = [browser EXCEPT ![x] = "closing"]
      /\ Post(R) /\ phase' = phase /\ UNCHANGED <<quit, managerVars, windowVars>>
  BY <1>0 DEF BeginClose
<1>2. Types /\ ClosesCome /\ ClosingComes /\ Alloy \subseteq Window
  BY WindowsAssumption DEF LifeInv, WindowsInv
<1>3. /\ R \in Seq(MainTask)
      /\ \A t \in ToSet(R) : x \in Alloy /\ t \in {Task("closing", x), Task("wmClose", x)}
  <2>1. <<>> \in Seq(MainTask) /\ ToSet(<<>>) = {}
    BY EmptySet
  <2>2. CASE x \in Alloy
    BY <1>0, <1>2, <2>2, DoCloseFacts
  <2>3. CASE x \notin Alloy
    BY <1>0, <2>1, <2>3
  <2> QED
    BY <2>2, <2>3
<1>4. \A t \in ToSet(R) : t.do \in {"closing", "wmClose"}
  BY <1>3, TaskFields
<1>5. Goes({}, ToSet(R)) /\ Line' = Line \o R /\ Line \in Seq(MainTask)
  BY <1>1, <1>3, <1>4, PostsEnds
<1>6. x \in In({"live"}) /\ \A T : In(T)' = IF "closing" \in T THEN In(T) \union {x} ELSE In(T) \ {x}
  <2>1. x \in In({"live"})
    BY <1>1 DEF In
  <2> QED
    BY <1>1, <1>2, <2>1, InExcept
<1>7. /\ In({"none"})' = In({"none"}) /\ In({"aborted"})' \subseteq In({"aborted"})
      /\ In({"closed"})' \subseteq In({"closed"})
      /\ In({"live", "closing", "closed"})' = In({"live", "closing", "closed"}) \union {x}
      /\ In({"closing"})' = In({"closing"}) \union {x}
  <2>1. x \notin In({"none"})
    BY <1>1 DEF In
  <2> QED
    BY <1>6, <2>1
<1>8. Intros(Waiting') \subseteq Intros(Waiting)
  BY <1>4, <1>5, IntroOutro DEF Goes, Intros
<1>9. LastAsks' /\ WindowsBegin' /\ InOrder(Line, Ends)'
  BY <1>1, <1>5, <1>7, BrowserStepStays
<1>10. AbortsCome'
  BY <1>1, <1>5, <1>7, <1>8, AbortsStay DEF managerVars
<1>11. ClosesCome'
  <2>1. browserDestroyed \intersect Intros(Waiting') = {}
    BY <1>2, <1>8 DEF ClosesCome
  <2> QED
    BY <1>1, <1>5, <1>7, <2>1, ClosesStay DEF managerVars, windowVars
<1>12. ClosingComes'
  <2>1. Popup \intersect Named("wmClose", Waiting') \subseteq In({"live", "closing", "closed"})'
    <3>1. ASSUME NEW w \in Window, Task("wmClose", w) \in ToSet(R) PROVE w = x
      BY <1>3, <3>1, TaskFields
    <3>2. Named("wmClose", Waiting') \subseteq Named("wmClose", Waiting) \union {x}
      BY <1>5, <3>1 DEF Goes, Named
    <3> QED
      BY <1>2, <1>7, <3>2 DEF ClosingComes
  <2>2. ASSUME NEW w \in Alloy \intersect In({"closing"})'
        PROVE  w \in windowDestroyed' \/ Closes(w)'
    <3>1. CASE w = x
      <4>1. R = DoClose(x) /\ x \in Window
        BY <1>0, <1>2, <2>2, <3>1
      <4>2. PICK a, b : a = Task("closing", x) /\ b = Task("wmClose", x)
        OBVIOUS
      <4>3. a \in MainTask /\ b \in MainTask /\ R = <<a, b>>
        BY <4>1, <4>2, TaskTypes DEF DoClose
      <4>4. Follows(Line', a, b)
        BY <1>5, <4>3, FollowsLast
      <4>5. b \in ToSet(R)
        BY <4>1, <4>2, DoCloseFacts
      <4>6. b \in Waiting'
        BY <1>5, <4>5 DEF Goes
      <4> QED
        BY <3>1, <4>2, <4>4, <4>6 DEF Closes
    <3>2. CASE w # x
      <4>1. w \in Window /\ (w \in windowDestroyed \/ Closes(w))
        BY <1>2, <1>7, <2>2, <3>2 DEF ClosingComes
      <4> QED
        BY <1>1, <1>5, <4>1, ClosesStays DEF windowVars
    <3> QED
      BY <3>1, <3>2
  <2> QED
    BY <2>1, <2>2 DEF ClosingComes
<1> QED
  BY <1>9, <1>10, <1>11, <1>12 DEF LifeInv

LEMMA ScriptClosesKeepsLife ==
  ASSUME LifeInv, WindowsInv', NEW x \in Browser, ScriptCloses(x)
  PROVE  LifeInv'
<1>1. BeginClose(x) /\ uiQueue' = uiQueue
  BY DEF ScriptCloses
<1> QED
  BY <1>1, BeginCloseKeepsLife

LEMMA CloseBrowserKeepsLife ==
  ASSUME LifeInv, WindowsInv', CloseBrowser
  PROVE  LifeInv'
<1>1. PICK x : x = Head(uiQueue).x
  OBVIOUS
<1>2. /\ uiQueue # <<>> /\ Head(uiQueue).do = "close" /\ uiQueue' = Tail(uiQueue)
      /\ \/ BeginClose(x)
         \/ UNCHANGED <<phase, quit, mainQueue, queuedTasks, managerVars, windowVars, browser>>
  BY <1>1 DEF CloseBrowser, NextUi
<1>3. Types /\ QueueInv
  BY DEF LifeInv, WindowsInv
<1>4. /\ Head(uiQueue) \in UiTask
      /\ ToSet(uiQueue) = {Head(uiQueue)} \union ToSet(Tail(uiQueue))
  BY <1>2, <1>3, UiTakeFacts
<1>5. x \in Browser
  BY <1>1, <1>2, <1>4, UiShape
<1>6. CleanupTask # Head(uiQueue) /\ Task("init", First) # Head(uiQueue)
  BY <1>2, TaskFields
<1>7. /\ CleanupTask \in ToSet(uiQueue) => CleanupTask \in ToSet(uiQueue')
      /\ Task("init", First) \in ToSet(uiQueue) => Task("init", First) \in ToSet(uiQueue')
  BY <1>2, <1>4, <1>6
<1>8. CASE BeginClose(x)
  BY <1>5, <1>7, <1>8, BeginCloseKeepsLife
<1>9. CASE UNCHANGED <<phase, quit, mainQueue, queuedTasks, managerVars, windowVars, browser>>
  <2>1. Line' = Line /\ Waiting' = Waiting
    BY <1>9 DEF Line, Waiting
  <2> QED
    BY <1>7, <1>9, <2>1, StandsKeepsLife
<1> QED
  BY <1>2, <1>8, <1>9

(* A browser with a window is created: if it is a popup, none of its windows
   can have been told to close. *)
LEMMA AfterCreatedKeepsLife ==
  ASSUME LifeInv, WindowsInv', NEW w \in Window, OnAfterCreated(w)
  PROVE  LifeInv'
<1>0. PICK t : t = Task("created", w)
  OBVIOUS
<1>1. /\ browser[w] = "pending" /\ browser' = [browser EXCEPT ![w] = "live"]
      /\ Post(<<t>>) /\ phase' = phase /\ UNCHANGED <<quit, uiQueue, managerVars, windowVars>>
  BY <1>0 DEF OnAfterCreated
<1>2. Types /\ ClosesCome /\ ClosingComes /\ w \in Browser
  BY IntroOutro DEF LifeInv, WindowsInv
<1>3. t \in MainTask /\ t.do = "created" /\ t.w = w
  BY <1>0, TaskTypes, TaskFields
<1>4. <<t>> \in Seq(MainTask) /\ ToSet(<<t>>) = {t} /\ InOrder(<<t>>, Ends)
  BY <1>3, FewSet, OneOrder
<1>5. w \in In({"pending"}) /\ w \notin In({"none"}) /\ w \notin In({"live", "closing", "closed"})
  BY <1>1, <1>2 DEF In
<1>6. ASSUME NEW s \in Waiting, <<t, s>> \in Ends PROVE FALSE
  <2>1. \A p \in Popup : Intro(p).do = "rootCreated" /\ Task("created", p).w = p
    BY IntroOutro, TaskFields
  <2>2. PICK p \in Popup : t = Task("created", p) /\ s = Task("wmClose", p)
    BY <1>3, <1>6, <2>1, EndsForms
  <2>3. p = w
    BY <1>3, <2>1, <2>2
  <2>4. w \in Popup \intersect Named("wmClose", Waiting)
    BY <1>6, <2>2, <2>3 DEF Named
  <2> QED
    BY <1>2, <1>5, <2>4 DEF ClosingComes
<1>7. Goes({}, {t})
  <2>1. \A s \in Waiting, u \in ToSet(<<t>>) : <<u, s>> \notin Ends
    BY <1>4, <1>6
  <2>2. Goes({}, ToSet(<<t>>))
    BY <1>1, <1>4, <2>1, PostGoes
  <2> QED
    BY <1>4, <2>2
<1>8. \A T : In(T)' = IF "live" \in T THEN In(T) \union {w} ELSE In(T) \ {w}
  BY <1>1, <1>2, InExcept
<1>9. /\ In({"none"})' = In({"none"}) /\ In({"aborted"})' \subseteq In({"aborted"})
      /\ In({"closed"})' \subseteq In({"closed"}) /\ In({"closing"})' \subseteq In({"closing"})
      /\ In({"live", "closing", "closed"}) \subseteq In({"live", "closing", "closed"})'
  BY <1>5, <1>8
<1>10. Intros(Waiting') \subseteq Intros(Waiting)
  BY <1>3, <1>7, IntroOutro DEF Goes, Intros
<1>11. LastAsks' /\ WindowsBegin' /\ InOrder(Line, Ends)'
  BY <1>1, <1>7, <1>9, BrowserStepStays
<1>12. AbortsCome'
  BY <1>1, <1>7, <1>9, <1>10, AbortsStay DEF managerVars
<1>13. ClosesCome'
  <2>1. browserDestroyed \intersect Intros(Waiting') = {}
    BY <1>2, <1>10 DEF ClosesCome
  <2> QED
    BY <1>1, <1>7, <1>9, <2>1, ClosesStay DEF managerVars, windowVars
<1>14. ClosingComes'
  BY <1>1, <1>3, <1>7, <1>9, ClosingStays DEF windowVars
<1> QED
  BY <1>11, <1>12, <1>13, <1>14 DEF LifeInv

(* A browser without a window is created. *)
LEMMA OtherAfterCreatedKeepsLife ==
  ASSUME LifeInv, WindowsInv', NEW o \in Other, OnOtherAfterCreated(o)
  PROVE  LifeInv'
<1>0. PICK t : t = OtherTask("otherCreated", o)
  OBVIOUS
<1>1. /\ browser[o] = "none" /\ browser' = [browser EXCEPT ![o] = "live"]
      /\ Post(<<t>>) /\ phase' = phase /\ UNCHANGED <<quit, uiQueue, managerVars, windowVars>>
  BY <1>0 DEF OnOtherAfterCreated, OtherTask
<1>2. Types /\ ClosesCome /\ o \in Browser /\ o \notin Window /\ browserDestroyed \subseteq Window
  BY IntroOutro DEF LifeInv, WindowsInv, Types
<1>3. t \in MainTask /\ t.do = "otherCreated" /\ t = Intro(o)
  BY <1>0, TaskTypes, TaskFields, IntroOutro
<1>4. <<t>> \in Seq(MainTask) /\ ToSet(<<t>>) = {t}
  BY <1>3, FewSet
<1>5. Goes({}, {t})
  <2>1. \A u \in ToSet(<<t>>) : u.do \notin {"rootCreated", "created"}
    BY <1>3, <1>4
  <2>2. Goes({}, ToSet(<<t>>))
    BY <1>1, <1>4, <2>1, PostsEnds
  <2> QED
    BY <1>4, <2>2
<1>6. o \in In({"none"}) /\ \A T : In(T)' = IF "live" \in T THEN In(T) \union {o} ELSE In(T) \ {o}
  <2>1. o \in In({"none"})
    BY <1>1, <1>2 DEF In
  <2> QED
    BY <1>1, <1>2, <2>1, InExcept
<1>7. /\ In({"none"})' = In({"none"}) \ {o} /\ In({"aborted"})' \subseteq In({"aborted"})
      /\ In({"closed"})' \subseteq In({"closed"}) /\ In({"closing"})' \subseteq In({"closing"})
      /\ In({"live", "closing", "closed"}) \subseteq In({"live", "closing", "closed"})'
  BY <1>6
<1>8. Intros(Waiting') \subseteq Intros(Waiting) \union {o}
  BY <1>3, <1>5, IntroOutro DEF Goes, Intros
<1>9. LastAsks' /\ WindowsBegin' /\ InOrder(Line, Ends)'
  BY <1>1, <1>5, <1>7, BrowserStepStays
<1>10. AbortsCome'
  <2>1. \A p \in In({"aborted"}) : p \in Window
    BY IntroOutro DEF LifeInv, WindowsBegin
  <2>2. \A p \in In({"aborted"}) : p \in rootWindows' \union Intros(Waiting') =>
          p \in rootWindows \union Intros(Waiting)
    BY <1>1, <1>2, <1>8, <2>1 DEF managerVars
  <2> QED
    BY <1>5, <1>7, <2>2, AbortsStay
<1>11. ClosesCome'
  <2>1. browserDestroyed \intersect Intros(Waiting') = {}
    BY <1>2, <1>8 DEF ClosesCome
  <2> QED
    BY <1>1, <1>5, <1>7, <2>1, ClosesStay DEF managerVars, windowVars
<1>12. ClosingComes'
  BY <1>1, <1>3, <1>5, <1>7, ClosingStays DEF windowVars
<1> QED
  BY <1>9, <1>10, <1>11, <1>12 DEF LifeInv

(* A popup is allowed: nobody has said yet that it failed. *)
LEMMA BeforePopupKeepsLife ==
  ASSUME LifeInv, WindowsInv', NEW w \in Window, OnBeforePopup(w)
  PROVE  LifeInv'
<1>0. PICK t : t = Task("rootCreated", w)
  OBVIOUS
<1>1. /\ w \in Popup /\ browser[w] = "none" /\ browser' = [browser EXCEPT ![w] = "pending"]
      /\ Post(<<t>>) /\ phase' = phase /\ UNCHANGED <<quit, uiQueue, managerVars, windowVars>>
  BY <1>0 DEF OnBeforePopup
<1>2. Types /\ WindowInv /\ ClosesCome /\ w \in Browser
  BY IntroOutro DEF LifeInv, WindowsInv
<1>3. t \in MainTask /\ t.do = "rootCreated" /\ t.w = w /\ t = Intro(w)
  BY <1>0, TaskTypes, TaskFields, IntroOutro
<1>4. <<t>> \in Seq(MainTask) /\ ToSet(<<t>>) = {t} /\ InOrder(<<t>>, Ends)
  BY <1>3, FewSet, OneOrder
<1>5. w \in In({"none"}) /\ w \notin In({"aborted"}) /\ w \notin In({"closed"})
  BY <1>1, <1>2 DEF In
<1>6. ASSUME NEW s \in Waiting, <<t, s>> \in Ends PROVE FALSE
  <2>1. /\ \A p \in Popup : p \in Browser /\ Task("created", p).do = "created"
        /\ \A p \in Popup : OpenerOf[p] \in Browser
    BY IntroOutro, TaskFields
  <2>2. PICK p \in Popup : t = Intro(p) /\ s = Abort(OpenerOf[p], p)
    BY <1>3, <1>6, <2>1, EndsForms
  <2>3. p = w
    BY <1>2, <1>3, <2>1, <2>2, IntroOutro
  <2>4. w \in AbortedOf(Waiting)
    BY <1>6, <2>1, <2>2, <2>3 DEF AbortedOf
  <2> QED
    BY <1>2, <1>5, <2>4 DEF WindowInv
<1>7. Goes({}, {t})
  <2>1. \A s \in Waiting, u \in ToSet(<<t>>) : <<u, s>> \notin Ends
    BY <1>4, <1>6
  <2>2. Goes({}, ToSet(<<t>>))
    BY <1>1, <1>4, <2>1, PostGoes
  <2> QED
    BY <1>4, <2>2
<1>8. \A T : In(T)' = IF "pending" \in T THEN In(T) \union {w} ELSE In(T) \ {w}
  BY <1>1, <1>2, InExcept
<1>9. /\ In({"none"})' = In({"none"}) \ {w} /\ In({"aborted"})' \subseteq In({"aborted"})
      /\ In({"closed"})' \subseteq In({"closed"}) /\ In({"closing"})' \subseteq In({"closing"})
      /\ In({"live", "closing", "closed"}) \subseteq In({"live", "closing", "closed"})'
  <2>1. w \notin In({"live", "closing", "closed"})
    BY <1>1 DEF In
  <2> QED
    BY <1>8, <2>1
<1>10. Intros(Waiting') \subseteq Intros(Waiting) \union {w}
  BY <1>2, <1>3, <1>7, IntroOutro DEF Goes, Intros
<1>11. LastAsks' /\ WindowsBegin' /\ InOrder(Line, Ends)'
  BY <1>1, <1>7, <1>9, BrowserStepStays
<1>12. AbortsCome'
  <2>1. \A p \in In({"aborted"}) : p \in rootWindows' \union Intros(Waiting') =>
          p \in rootWindows \union Intros(Waiting)
    BY <1>1, <1>5, <1>10 DEF managerVars
  <2> QED
    BY <1>7, <1>9, <2>1, AbortsStay
<1>13. ClosesCome'
  <2>1. w \notin browserDestroyed
    BY <1>2, <1>5 DEF WindowInv
  <2>2. browserDestroyed \intersect Intros(Waiting') = {}
    BY <1>2, <1>10, <2>1 DEF ClosesCome
  <2> QED
    BY <1>1, <1>7, <1>9, <2>2, ClosesStay DEF managerVars, windowVars
<1>14. ClosingComes'
  BY <1>1, <1>3, <1>7, <1>9, ClosingStays DEF windowVars
<1> QED
  BY <1>11, <1>12, <1>13, <1>14 DEF LifeInv

(* The creation of a popup fails. *)
LEMMA BeforePopupAbortedKeepsLife ==
  ASSUME LifeInv, WindowsInv', NEW w \in Window, OnBeforePopupAborted(w)
  PROVE  LifeInv'
<1>0. PICK t : t = Abort(OpenerOf[w], w)
  OBVIOUS
<1>1. /\ w \in Popup /\ browser[w] = "pending" /\ browser' = [browser EXCEPT ![w] = "aborted"]
      /\ Post(<<t>>) /\ phase' = phase /\ UNCHANGED <<quit, uiQueue, managerVars, windowVars>>
  BY <1>0 DEF OnBeforePopupAborted
<1>2. Types /\ ClosesCome /\ AbortsCome /\ w \in Browser /\ OpenerOf[w] \in Browser
  BY <1>1, IntroOutro DEF LifeInv, WindowsInv
<1>3. t \in MainTask /\ t.do = "abort"
  <2>1. t \in MainTask
    BY <1>0, <1>1, <1>2, TaskTypes
  <2>2. t.do = "abort"
    BY <1>0, TaskFields
  <2> QED
    BY <2>1, <2>2
<1>4. <<t>> \in Seq(MainTask) /\ ToSet(<<t>>) = {t}
  BY <1>3, FewSet
<1>5. Goes({}, {t})
  <2>1. \A u \in ToSet(<<t>>) : u.do \notin {"rootCreated", "created"}
    BY <1>3, <1>4
  <2>2. Goes({}, ToSet(<<t>>))
    BY <1>1, <1>4, <2>1, PostsEnds
  <2> QED
    BY <1>4, <2>2
<1>6. \A T : In(T)' = IF "aborted" \in T THEN In(T) \union {w} ELSE In(T) \ {w}
  BY <1>1, <1>2, InExcept
<1>7. /\ In({"none"})' = In({"none"}) /\ In({"aborted"})' = In({"aborted"}) \union {w}
      /\ In({"closed"})' \subseteq In({"closed"}) /\ In({"closing"})' \subseteq In({"closing"})
      /\ In({"live", "closing", "closed"}) \subseteq In({"live", "closing", "closed"})'
  <2>1. w \notin In({"none"}) /\ w \notin In({"live", "closing", "closed"})
    BY <1>1 DEF In
  <2> QED
    BY <1>6, <2>1
<1>8. Intros(Waiting') \subseteq Intros(Waiting)
  BY <1>3, <1>5, IntroOutro DEF Goes, Intros
<1>9. LastAsks' /\ WindowsBegin' /\ InOrder(Line, Ends)'
  BY <1>1, <1>5, <1>7, BrowserStepStays
<1>10. AbortsCome'
  BY <1>0, <1>1, <1>2, <1>5, <1>7, <1>8 DEF AbortsCome, Goes, managerVars
<1>11. ClosesCome'
  <2>1. browserDestroyed \intersect Intros(Waiting') = {}
    BY <1>2, <1>8 DEF ClosesCome
  <2> QED
    BY <1>1, <1>5, <1>7, <2>1, ClosesStay DEF managerVars, windowVars
<1>12. ClosingComes'
  BY <1>1, <1>3, <1>5, <1>7, ClosingStays DEF windowVars
<1> QED
  BY <1>9, <1>10, <1>11, <1>12 DEF LifeInv

(* A browser is destroyed, and the popups that it has asked for are aborted. *)
LEMMA BeforeCloseKeepsLife ==
  ASSUME LifeInv, WindowsInv', NEW x \in Browser, OnBeforeClose(x)
  PROVE  LifeInv'
<1>0. PICK S : S = {p \in Popup : OpenerOf[p] = x /\ browser[p] = "pending"}
  OBVIOUS
<1>a. PICK R : R = BeforeCloseTasks(x) \o SetToSeq({Abort(x, p) : p \in S})
  OBVIOUS
<1>1. /\ browser[x] \in {"live", "closing"} /\ Post(R) /\ phase' = phase
      /\ browser' = [y \in Browser |-> IF y = x THEN "closed"
                                       ELSE IF y \in S THEN "aborted" ELSE browser[y]]
      /\ UNCHANGED <<quit, uiQueue, managerVars, windowVars>>
  BY <1>0, <1>a DEF OnBeforeClose
<1>2. ClosesCome /\ AbortsCome
  BY DEF LifeInv
<1>3. S \subseteq Popup /\ S \subseteq Browser /\ x \notin S /\ S \subseteq In({"pending"})
  BY <1>0, <1>1, IntroOutro DEF In
<1>4. /\ R \in Seq(MainTask) /\ Outros(ToSet(R)) = {x}
      /\ \A t \in ToSet(R) : t = Outro(x) \/ t.do = "abort"
      /\ \A p \in S : Abort(x, p) \in ToSet(R)
  BY <1>3, <1>a, BeforeCloseFacts DEF Says
<1>5. \A t \in ToSet(R) : t.do \in {"closed", "otherClosed", "abort"}
  BY <1>4, IntroOutro
<1>6. Goes({}, ToSet(R))
  BY <1>1, <1>4, <1>5, PostsEnds
<1>7. /\ In({"none"})' = In({"none"}) /\ In({"aborted"})' = In({"aborted"}) \union S
      /\ In({"closed"})' = In({"closed"}) \union {x} /\ In({"closing"})' \subseteq In({"closing"})
      /\ In({"live", "closing", "closed"})' = In({"live", "closing", "closed"})
  BY <1>1, <1>3 DEF In
<1>8. Intros(Waiting') \subseteq Intros(Waiting)
  BY <1>5, <1>6, IntroOutro DEF Goes, Intros
<1>9. LastAsks' /\ WindowsBegin' /\ InOrder(Line, Ends)'
  BY <1>1, <1>3, <1>6, <1>7, BrowserStepStays
<1>10. AbortsCome'
  <2> SUFFICES ASSUME NEW p \in In({"aborted"})', p \in rootWindows' \union Intros(Waiting')
               PROVE  Abort(OpenerOf[p], p) \in Waiting'
    BY DEF AbortsCome
  <2>1. CASE p \in S
    BY <1>0, <1>4, <1>6, <2>1 DEF Goes
  <2>2. CASE p \in In({"aborted"})
    BY <1>1, <1>2, <1>6, <1>8, <2>2 DEF AbortsCome, Goes, managerVars
  <2> QED
    BY <1>7, <2>1, <2>2
<1>11. ClosesCome'
  <2>1. Outros(Waiting) \union {x} \subseteq Outros(Waiting')
    BY <1>4, <1>6 DEF Goes, Outros
  <2>2. Named("destroy", Waiting) \subseteq Named("destroy", Waiting')
    BY <1>6 DEF Goes, Named
  <2> QED
    BY <1>1, <1>2, <1>7, <1>8, <2>1, <2>2 DEF ClosesCome, managerVars, windowVars
<1>12. ClosingComes'
  BY <1>1, <1>5, <1>6, <1>7, ClosingStays DEF windowVars
<1> QED
  BY <1>9, <1>10, <1>11, <1>12 DEF LifeInv

----------------------------------------------------------------------------
(* The whole of it. *)

LEMMA LifeInvInit == Init => LifeInv
<1> SUFFICES ASSUME Init PROVE LifeInv
  OBVIOUS
<1> DEFINE t == Task("init", First)
<1>1. WindowsInv
  BY WindowsInvInit
<1>2. First \in Window /\ First \in Browser
  BY IntroOutro
<1>3. t \in ToSet(uiQueue)
  <2>1. t \in UiTask /\ uiQueue = <<t>>
    BY <1>2, TaskTypes DEF Init
  <2> HIDE DEF t
  <2> QED
    BY <2>1, FewSet
<1>4. Line = <<>> /\ Waiting = {} /\ InOrder(<<>>, Ends)
  BY EmptySet, EmptyOrder DEF Init, Line, Waiting
<1>5. In({"none"}) = Browser /\ \A T : "none" \notin T => In(T) = {}
  BY DEF Init, In
<1>6. Kept # {}
  BY DEF Init, Kept
<1>7. WindowsBegin
  BY <1>2, <1>3, <1>5, IntroOutro DEF Init, WindowsBegin
<1>8. AbortsCome
  BY <1>5 DEF AbortsCome
<1>9. ClosesCome
  BY <1>5 DEF Init, ClosesCome
<1>10. ClosingComes
  BY <1>4, <1>5 DEF ClosingComes, Named
<1> QED
  BY <1>1, <1>4, <1>6, <1>7, <1>8, <1>9, <1>10 DEF LifeInv, LastAsks

LEMMA LifeInvNext == LifeInv /\ [Next]_vars => LifeInv'
<1> SUFFICES ASSUME LifeInv, [Next]_vars PROVE LifeInv'
  OBVIOUS
<1>0. WindowsInv'
  BY WindowsInvNext DEF LifeInv
<1>1. CASE Run
  BY <1>0, <1>1, RunKeepsLife
<1>2. CASE LoopEnds
  BY <1>0, <1>2, LoopEndsKeepsLife
<1>3. CASE UserCloses(rootWindows)
  BY <1>0, <1>3, UserClosesKeepsLife
<1>4. CASE \E w \in Window : UserCloses({w})
  BY <1>0, <1>4, UserClosesKeepsLife
<1>5. CASE MainStep
  BY <1>0, <1>5, InitOnMainKeepsLife, RootCreatedKeepsLife, BrowserCreatedKeepsLife,
     BrowserClosingKeepsLife, BrowserClosedKeepsLife, CloseByForceKeepsLife,
     ReceiveCloseKeepsLife, AbortKeepsLife, OtherCreatedKeepsLife, OtherClosedKeepsLife,
     PostQuitKeepsLife DEF MainStep
<1>6. CASE UiStep
  BY <1>0, <1>6, InitOnUIKeepsLife, CleanupKeepsLife, CloseBrowserKeepsLife DEF UiStep
<1>7. CASE BrowserStep
  <2>1. CASE \E w \in Window : OnAfterCreated(w) \/ OnBeforePopup(w) \/ OnBeforePopupAborted(w)
    BY <1>0, <2>1, AfterCreatedKeepsLife, BeforePopupKeepsLife, BeforePopupAbortedKeepsLife
  <2>2. CASE \E o \in Other : OnOtherAfterCreated(o)
    BY <1>0, <2>2, OtherAfterCreatedKeepsLife
  <2>3. CASE \E x \in Browser : ScriptCloses(x) \/ OnBeforeClose(x)
    BY <1>0, <2>3, ScriptClosesKeepsLife, BeforeCloseKeepsLife
  <2> QED
    BY <1>7, <2>1, <2>2, <2>3 DEF BrowserStep
<1>8. CASE UNCHANGED vars
  <2>1. Line' = Line /\ Waiting' = Waiting
    BY <1>8 DEF vars, loopVars, Line, Waiting
  <2> QED
    BY <1>0, <1>8, <2>1, StandsKeepsLife DEF vars, loopVars
<1> QED
  BY <1>1, <1>2, <1>3, <1>4, <1>5, <1>6, <1>7, <1>8 DEF Next

(* The main thread comes to rest only while a browser lives.  A window or a
   browser that the manager keeps has one that is not gone, or a task that is
   about to end it; when the queues are empty there is no such task, and when
   nothing is kept the end has been asked for. *)
THEOREM RestsOnlyWhileAlive == Spec => []IdleOnlyWhileAlive
<1>1. ASSUME LifeInv PROVE IdleOnlyWhileAlive
  <2> SUFFICES ASSUME phase = "running", mainQueue = <<>>, uiQueue = <<>>, ~quit
               PROVE  \E x \in Browser :
                        \/ browser[x] \in {"pending", "live"}
                        \/ /\ browser[x] = "closing"
                           /\ x \in (Browser \ Alloy) \union windowDestroyed
    BY DEF IdleOnlyWhileAlive
  <2>1. /\ Types /\ QueueInv /\ BookInv /\ WindowInv
        /\ LastAsks /\ WindowsBegin /\ AbortsCome /\ ClosesCome /\ ClosingComes
    BY <1>1 DEF LifeInv, WindowsInv
  <2>2. Waiting = {} /\ ToSet(uiQueue) = {} /\ ToSet(Line) = {}
    <3>1. queuedTasks = <<>>
      BY <2>1 DEF QueueInv
    <3> QED
      BY <3>1, EmptySet DEF Waiting, Line
  <2>3. /\ Outros(Waiting) = {} /\ \A do : Named(do, Waiting) = {}
        /\ \A a, b : ~Follows(Line, a, b)
    <3>1. Outros(Waiting) = {} /\ \A do : Named(do, Waiting) = {}
      BY <2>2 DEF Outros, Named
    <3>2. ASSUME NEW a, NEW b, Follows(Line, a, b) PROVE FALSE
      <4>1. PICK i \in DOMAIN Line : Line[i] = b
        BY <3>2 DEF Follows
      <4>2. b \in ToSet(Line)
        BY <4>1, Zenon DEF ToSet
      <4> QED
        BY <2>2, <4>2
    <3> QED
      BY <3>1, <3>2
  <2>4. \A x \in Alloy \intersect In({"closing"}) : x \in windowDestroyed
    BY <2>1, <2>2, <2>3 DEF ClosingComes, Closes
  <2>5. PICK x : x \in Kept
    BY <2>1, <2>2 DEF LastAsks, Finishing
  <2>6. CASE x \in Known
    <3>1. x \in Browser /\ browser[x] \in {"live", "closing"}
      BY <2>1, <2>3, <2>6 DEF BookInv, Active, In
    <3> QED
      BY <2>4, <3>1 DEF In
  <2>7. CASE x \in rootWindows
    <3>1. x \in Window /\ x \in Browser
      BY <2>1, <2>7, IntroOutro DEF Types
    <3>2. browser[x] # "none"
      <4> SUFFICES ASSUME x \in In({"none"}) PROVE FALSE
        BY <3>1 DEF In
      <4>1. x = First
        BY <2>1, <2>7 DEF BookInv, WindowsBegin
      <4> QED
        BY <2>1, <2>2, <4>1 DEF WindowsBegin
    <3>3. browser[x] # "closed"
      <4> SUFFICES ASSUME x \in In({"closed"}) PROVE FALSE
        BY <3>1 DEF In
      <4>1. x \in browserDestroyed
        BY <2>1, <2>3, <3>1 DEF ClosesCome
      <4> QED
        BY <2>1, <2>3, <2>7, <4>1 DEF ClosesCome
    <3>4. browser[x] # "aborted"
      <4> SUFFICES ASSUME x \in In({"aborted"}) PROVE FALSE
        BY <3>1 DEF In
      <4> QED
        BY <2>1, <2>2, <2>7 DEF AbortsCome
    <3>5. browser[x] \in {"pending", "live", "closing"}
      BY <2>1, <3>1, <3>2, <3>3, <3>4 DEF Types
    <3> QED
      BY <2>4, <3>1, <3>5 DEF In
  <2> QED
    BY <2>5, <2>6, <2>7 DEF Kept
<1>2. Spec => []LifeInv
  BY LifeInvInit, LifeInvNext, PTL DEF Spec
<1> QED
  BY <1>1, <1>2, PTL

=============================================================================
