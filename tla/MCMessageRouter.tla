-------------------------- MODULE MCMessageRouter --------------------------
(***************************************************************************)
(* Instances of MessageRouter for TLC.                                     *)
(***************************************************************************)
EXTENDS MessageRouter

CONSTANTS b1, b2, p1, p2, main, next, frame, h1, h2

\* Every context in one process, or the sub-frame in a process of its own.
SameProcess == [c \in Context |-> p1]
SplitFrame  == [c \in Context |-> IF c = frame THEN p2 ELSE p1]

\* Every context in one browser, or one browser per context.
SameBrowser == [c \in Context |-> b1]
TwoBrowsers == [c \in Context |-> IF c = main THEN b1 ELSE b2]

\* No action and no property tells one handler from another.
HandlerSymmetry == Permutations(Handler)

\* Bound of router_core: a posted cancellation waits only as long as the page
\* has made one call; the second call comes without one.
PostedCancelBound ==
  (\E i \in DOMAIN tasks : tasks[i].kind = "cancel") => Len(issued) <= 1

\* Bound of router_core: a callback is called a second time only while the
\* page has made one call.
DoubleAnswerBound == (\E q \in QueryId : calls[q] > 1) => Len(issued) <= 1

\* The state without the two histories that no guard reads: the view of the
\* runs whose properties do not mention them either.
WithoutHistories == <<rendererVars, pipeVars, handlers, queryIdGen, mapVars,
                      tasks, dispatch, sweep, envVars, issued, calls, accepted>>

============================================================================
