---------------------------- MODULE ExternalPump ----------------------------
(***************************************************************************)
(* The message loop that an application drives itself: Chromium asks for   *)
(* calls of CefDoMessageLoopWork, requests and a timer bring them about,   *)
(* and a call that happens inside another one is discarded and repeated.   *)
(*                                                                         *)
(* Source: tests/shared/browser/main_message_loop_external_pump.cc and     *)
(* main_message_loop_external_pump_win.cc.  Chromium's work, and the modal *)
(* loops that dispatch messages inside CefDoMessageLoopWork, are the       *)
(* environment.  Delays are "now" (at most 0), "later" and "placeholder".  *)
(***************************************************************************)
EXTENDS Naturals, Sequences, SequencesExt

CONSTANTS MaxMessages,  \* bound: messages in the queue when one is asked for
          DrainRounds   \* calls of CefDoMessageLoopWork after the loop

ASSUME PumpAssumption == MaxMessages \in Nat \ {0} /\ DrainRounds \in Nat

VARIABLES
  messages,    \* queue of the main thread: delays of kMsgHaveWork and WM_QUIT
  timer,       \* timer_pending_
  is_active,   \* is_active_
  reentrancy,  \* reentrancy_detected_
  rounds,      \* calls left after the loop, DrainRounds while it runs
  work         \* what Chromium asked for and has not got: "none", "later", "now"

pumpVars == <<messages, timer, is_active, reentrancy, rounds, work>>

Delay == {"now", "later", "placeholder"}

PumpTypeOK ==
  /\ messages \in Seq(Delay \union {"quit"})
  /\ timer \in BOOLEAN /\ is_active \in BOOLEAN /\ reentrancy \in BOOLEAN
  /\ rounds \in 0..DrainRounds
  /\ work \in {"none", "later", "now"}

\* CefInitialize asks for the first call.
PumpInit ==
  /\ messages = <<"now">> /\ work = "now"
  /\ timer = FALSE /\ is_active = FALSE /\ reentrancy = FALSE
  /\ rounds = DrainRounds

running == rounds = DrainRounds

----------------------------------------------------------------------------
\* OnScheduleMessagePumpWork for Chromium, on any thread.
OnScheduleMessagePumpWork(delay) ==
  /\ running /\ Len(messages) < MaxMessages
  /\ messages' = Append(messages, delay)
  /\ work' = IF "now" \in {delay, work} THEN "now" ELSE "later"
  /\ UNCHANGED <<timer, is_active, reentrancy, rounds>>

\* DoWork up to CefDoMessageLoopWork; inside another call, all of it: the call
\* is discarded and, without a timer, asked for at the maximum delay.
DoWork(rest) ==
  /\ timer' = FALSE
  /\ is_active' = TRUE
  /\ IF is_active
       THEN /\ reentrancy' = TRUE
            /\ messages' = Append(rest, "placeholder")
            /\ UNCHANGED work
       ELSE /\ reentrancy' = FALSE
            /\ messages' = rest
            /\ work' = "none"

\* Mutated form: the timer is killed and not set again.
OnScheduleWorkKillsTimer(delay, rest) ==
  IF delay = "now" THEN DoWork(rest)
  ELSE /\ messages' = rest /\ timer' = FALSE
       /\ UNCHANGED <<is_active, reentrancy, work>>

\* OnScheduleWork: a request now does the work, another one sets the timer,
\* and the pump's own placeholder does not replace a timer.
OnScheduleWork(delay, rest) ==
  IF delay = "now" THEN DoWork(rest)
  ELSE /\ messages' = rest /\ timer' = TRUE
       /\ UNCHANGED <<is_active, reentrancy, work>>

\* The loop, or a modal loop inside CefDoMessageLoopWork, dispatches a request.
DispatchHaveWork ==
  /\ running /\ messages # <<>> /\ Head(messages) # "quit"
  /\ OnScheduleWork(Head(messages), Tail(messages))
  /\ UNCHANGED rounds

\* OnTimerTimeout, from either loop.
OnTimerTimeout ==
  /\ running /\ timer
  /\ DoWork(messages)
  /\ UNCHANGED rounds

\* Mutated forms: a call that was discarded is not repeated; the next call is
\* left to Chromium.
WorkDoneForgets ==
  /\ is_active /\ is_active' = FALSE
  /\ messages' = IF ~timer THEN Append(messages, "placeholder") ELSE messages
  /\ UNCHANGED <<timer, reentrancy, rounds, work>>
WorkDoneWaits ==
  /\ is_active /\ is_active' = FALSE
  /\ messages' = IF reentrancy THEN Append(messages, "now") ELSE messages
  /\ UNCHANGED <<timer, reentrancy, rounds, work>>

\* CefDoMessageLoopWork returns: the rest of PerformMessageLoopWork and DoWork.
WorkDone ==
  /\ is_active /\ is_active' = FALSE
  /\ messages' = IF reentrancy THEN Append(messages, "now")
                 ELSE IF ~timer THEN Append(messages, "placeholder")
                 ELSE messages
  /\ UNCHANGED <<timer, reentrancy, rounds, work>>

\* Quit posts WM_QUIT behind the requests that are there.
Quit ==
  /\ running /\ "quit" \notin ToSet(messages)
  /\ messages' = Append(messages, "quit")
  /\ UNCHANGED <<timer, is_active, reentrancy, rounds, work>>

\* A call of CefDoMessageLoopWork after the loop, which GetMessage ends with
\* WM_QUIT; KillTimer comes before the first.
Drain ==
  /\ rounds > 0 /\ ~is_active
  /\ running => messages # <<>> /\ Head(messages) = "quit"
  /\ rounds' = rounds - 1
  /\ messages' = IF running THEN Tail(messages) ELSE messages
  /\ timer' = FALSE /\ work' = "none"
  /\ UNCHANGED <<is_active, reentrancy>>

PumpNext ==
  \/ \E delay \in {"now", "later"} : OnScheduleMessagePumpWork(delay)
  \/ DispatchHaveWork \/ OnTimerTimeout \/ WorkDone
  \/ Quit \/ Drain

PumpSpec == PumpInit /\ [][PumpNext]_pumpVars

----------------------------------------------------------------------------
(* The pump never falls asleep: while the loop runs a call is in progress, a
   request is queued, or the timer is set, in every order of requests, timer
   events and calls inside calls. *)
AlwaysWakes == running => is_active \/ timer \/ messages # <<>>

(* Work that Chromium wants done at once never waits for the timer: also when
   the call made for it was discarded inside another one, a request without
   delay is in the queue once that one has returned. *)
UrgentWorkIsNotDelayed ==
  running /\ work = "now" /\ ~is_active => "now" \in ToSet(messages)

(* Whatever was asked for is done, or the loop is told to end. *)
EveryRequestIsServed == work # "none" ~> (work = "none" \/ "quit" \in ToSet(messages))

=============================================================================
