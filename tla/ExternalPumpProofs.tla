------------------------- MODULE ExternalPumpProofs -------------------------
(***************************************************************************)
(* Proofs about ExternalPump, for every bound of its queue and every       *)
(* number of calls after the loop.                                         *)
(***************************************************************************)
EXTENDS ExternalPump, QueueLemmas

(* A message that is taken from the queue leaves a queue. *)
LEMMA TailOfMessages ==
  ASSUME PumpTypeOK, messages # <<>>
  PROVE  /\ Head(messages) \in Delay \union {"quit"}
         /\ Tail(messages) \in Seq(Delay \union {"quit"})
BY DEF PumpTypeOK

(* Whoever waits in the queue still waits when another one has been taken. *)
LEMMA OthersStay ==
  ASSUME NEW q \in Seq(Delay \union {"quit"}), q # <<>>, NEW m \in ToSet(q),
         m # Head(q)
  PROVE  m \in ToSet(Tail(q))
<1>1. PICK i \in 1..Len(q) : q[i] = m
  BY DEF ToSet
<1>2. i # 1 /\ Len(q) \in Nat
  BY <1>1
<1>3. i - 1 \in 1..Len(Tail(q)) /\ Tail(q)[i - 1] = m
  BY <1>1, <1>2
<1>4. Tail(q) \in Seq(Delay \union {"quit"})
  OBVIOUS
<1>5. DOMAIN Tail(q) = 1..Len(Tail(q))
  BY <1>4
<1> QED
  BY <1>3, <1>5 DEF ToSet

----------------------------------------------------------------------------
(* While a call is in progress, work wanted at once is in the queue, unless the
   request for it was discarded inside that call: then reentrancy_detected_
   says so. *)
UrgentWorkIsRemembered ==
  running /\ work = "now" /\ is_active => reentrancy \/ "now" \in ToSet(messages)

PumpInvariant ==
  /\ PumpTypeOK
  /\ AlwaysWakes
  /\ UrgentWorkIsNotDelayed
  /\ UrgentWorkIsRemembered

LEMMA PumpInitInvariant == PumpInit => PumpInvariant
<1> SUFFICES ASSUME PumpInit PROVE PumpInvariant
  OBVIOUS
<1>1. messages = <<"now">> /\ "now" \in ToSet(messages)
  BY DEF PumpInit, ToSet
<1>2. PumpTypeOK
  <2>1. <<"now">> \in Seq(Delay \union {"quit"})
    BY DEF Delay
  <2>2. DrainRounds \in 0..DrainRounds
    BY PumpAssumption
  <2> QED
    BY <2>1, <2>2 DEF PumpInit, PumpTypeOK
<1> QED
  BY <1>1, <1>2 DEF PumpInit, PumpInvariant, AlwaysWakes,
                    UrgentWorkIsNotDelayed, UrgentWorkIsRemembered

LEMMA ScheduleKeepsInvariant ==
  ASSUME PumpInvariant, NEW delay \in {"now", "later"},
         OnScheduleMessagePumpWork(delay)
  PROVE  PumpInvariant'
<1>1. /\ messages \in Seq(Delay \union {"quit"}) /\ delay \in Delay \union {"quit"}
      /\ messages' = Append(messages, delay)
      /\ UNCHANGED <<timer, is_active, reentrancy, rounds>>
  BY DEF PumpInvariant, PumpTypeOK, OnScheduleMessagePumpWork, Delay
<1>2. /\ messages' \in Seq(Delay \union {"quit"}) /\ messages' # <<>>
      /\ ToSet(messages') = ToSet(messages) \union {delay}
  BY <1>1, AppendSet
<1>3. work' \in {"now", "later"} /\ (work' = "now" => work = "now" \/ delay = "now")
  BY DEF OnScheduleMessagePumpWork, PumpInvariant, PumpTypeOK
<1> QED
  BY <1>1, <1>2, <1>3 DEF PumpInvariant, PumpTypeOK, AlwaysWakes,
     UrgentWorkIsNotDelayed, UrgentWorkIsRemembered, running

(* A call of DoWork, whose request has left the queue or came from the timer. *)
LEMMA DoWorkKeepsInvariant ==
  ASSUME PumpInvariant, NEW rest \in Seq(Delay \union {"quit"}), DoWork(rest),
         UNCHANGED rounds
  PROVE  PumpInvariant'
<1>1. /\ timer' = FALSE /\ is_active' = TRUE /\ reentrancy' \in BOOLEAN
      /\ work' \in {work, "none"}
      /\ work' = "now" => reentrancy'
      /\ messages' \in {rest, Append(rest, "placeholder")}
  BY DEF DoWork, PumpInvariant, PumpTypeOK
<1>2. messages' \in Seq(Delay \union {"quit"})
  BY <1>1, AppendSet DEF Delay
<1> QED
  BY <1>1, <1>2 DEF PumpInvariant, PumpTypeOK, AlwaysWakes,
     UrgentWorkIsNotDelayed, UrgentWorkIsRemembered, running

LEMMA DispatchKeepsInvariant ==
  ASSUME PumpInvariant, DispatchHaveWork
  PROVE  PumpInvariant'
<1>1. /\ messages # <<>> /\ messages \in Seq(Delay \union {"quit"})
      /\ Tail(messages) \in Seq(Delay \union {"quit"})
      /\ OnScheduleWork(Head(messages), Tail(messages)) /\ UNCHANGED rounds
  BY TailOfMessages DEF PumpInvariant, PumpTypeOK, DispatchHaveWork
<1>2. CASE Head(messages) = "now"
  BY <1>1, <1>2, DoWorkKeepsInvariant DEF OnScheduleWork
<1>3. CASE Head(messages) # "now"
  <2>1. messages' = Tail(messages) /\ timer' = TRUE
        /\ UNCHANGED <<is_active, reentrancy, work, rounds>>
    BY <1>1, <1>3 DEF OnScheduleWork
  <2>2. "now" \in ToSet(messages) => "now" \in ToSet(messages')
    BY <1>1, <1>3, <2>1, OthersStay
  <2> QED
    BY <1>1, <2>1, <2>2 DEF PumpInvariant, PumpTypeOK, AlwaysWakes,
       UrgentWorkIsNotDelayed, UrgentWorkIsRemembered, running
<1> QED
  BY <1>2, <1>3

LEMMA TimerKeepsInvariant ==
  ASSUME PumpInvariant, OnTimerTimeout
  PROVE  PumpInvariant'
BY DoWorkKeepsInvariant DEF OnTimerTimeout, PumpInvariant, PumpTypeOK

LEMMA WorkDoneKeepsInvariant ==
  ASSUME PumpInvariant, WorkDone
  PROVE  PumpInvariant'
<1>1. /\ messages \in Seq(Delay \union {"quit"}) /\ is_active /\ is_active' = FALSE
      /\ UNCHANGED <<timer, reentrancy, rounds, work>>
  BY DEF PumpInvariant, PumpTypeOK, WorkDone
<1>2. CASE reentrancy
  <2>1. messages' = Append(messages, "now")
    BY <1>2 DEF WorkDone
  <2>2. "now" \in Delay \union {"quit"}
    BY DEF Delay
  <2>3. /\ messages' \in Seq(Delay \union {"quit"}) /\ messages' # <<>>
        /\ ToSet(messages') = ToSet(messages) \union {"now"}
    BY <1>1, <2>1, <2>2, AppendSet
  <2> QED
    BY <1>1, <2>3 DEF PumpInvariant, PumpTypeOK, AlwaysWakes,
       UrgentWorkIsNotDelayed, UrgentWorkIsRemembered, running
<1>3. CASE ~reentrancy /\ ~timer
  <2>1. messages' = Append(messages, "placeholder")
    BY <1>3 DEF WorkDone
  <2>2. "placeholder" \in Delay \union {"quit"}
    BY DEF Delay
  <2>3. /\ messages' \in Seq(Delay \union {"quit"}) /\ messages' # <<>>
        /\ ToSet(messages') = ToSet(messages) \union {"placeholder"}
    BY <1>1, <2>1, <2>2, AppendSet
  <2>4. running /\ work = "now" => "now" \in ToSet(messages')
    BY <1>1, <1>3, <2>3 DEF PumpInvariant, UrgentWorkIsRemembered
  <2>5. PumpTypeOK'
    BY <1>1, <2>3 DEF PumpInvariant, PumpTypeOK
  <2>6. AlwaysWakes'
    BY <2>3 DEF AlwaysWakes
  <2>7. UrgentWorkIsNotDelayed' /\ UrgentWorkIsRemembered'
    BY <1>1, <2>4 DEF UrgentWorkIsNotDelayed, UrgentWorkIsRemembered, running
  <2> QED
    BY <2>5, <2>6, <2>7 DEF PumpInvariant
<1>4. CASE ~reentrancy /\ timer
  <2>1. messages' = messages
    BY <1>4 DEF WorkDone
  <2>2. running /\ work = "now" => "now" \in ToSet(messages')
    BY <1>1, <1>4, <2>1 DEF PumpInvariant, UrgentWorkIsRemembered
  <2>3. PumpTypeOK' /\ AlwaysWakes'
    BY <1>1, <1>4, <2>1 DEF PumpInvariant, PumpTypeOK, AlwaysWakes
  <2>4. UrgentWorkIsNotDelayed' /\ UrgentWorkIsRemembered'
    BY <1>1, <2>2 DEF UrgentWorkIsNotDelayed, UrgentWorkIsRemembered, running
  <2> QED
    BY <2>3, <2>4 DEF PumpInvariant
<1> QED
  BY <1>2, <1>3, <1>4

LEMMA QuitKeepsInvariant ==
  ASSUME PumpInvariant, Quit
  PROVE  PumpInvariant'
<1>1. /\ messages \in Seq(Delay \union {"quit"})
      /\ messages' = Append(messages, "quit")
      /\ UNCHANGED <<timer, is_active, reentrancy, rounds, work>>
  BY DEF PumpInvariant, PumpTypeOK, Quit
<1>2. /\ messages' \in Seq(Delay \union {"quit"}) /\ messages' # <<>>
      /\ ToSet(messages) \subseteq ToSet(messages')
  BY <1>1, AppendSet
<1> QED
  BY <1>1, <1>2 DEF PumpInvariant, PumpTypeOK, AlwaysWakes,
     UrgentWorkIsNotDelayed, UrgentWorkIsRemembered, running

LEMMA DrainKeepsInvariant ==
  ASSUME PumpInvariant, Drain
  PROVE  PumpInvariant'
<1>1. /\ rounds \in 0..DrainRounds /\ rounds > 0 /\ rounds' = rounds - 1
      /\ timer' = FALSE /\ work' = "none" /\ UNCHANGED <<is_active, reentrancy>>
  BY DEF PumpInvariant, PumpTypeOK, Drain
<1>2. rounds' \in 0..DrainRounds /\ ~running'
  BY <1>1, PumpAssumption DEF running
<1>3. messages' \in Seq(Delay \union {"quit"})
  BY TailOfMessages DEF PumpInvariant, PumpTypeOK, Drain
<1> QED
  BY <1>1, <1>2, <1>3 DEF PumpInvariant, PumpTypeOK, AlwaysWakes,
     UrgentWorkIsNotDelayed, UrgentWorkIsRemembered

LEMMA PumpStepKeepsInvariant ==
  ASSUME PumpInvariant, [PumpNext]_pumpVars
  PROVE  PumpInvariant'
<1>1. CASE \E delay \in {"now", "later"} : OnScheduleMessagePumpWork(delay)
  BY <1>1, ScheduleKeepsInvariant
<1>2. CASE UNCHANGED pumpVars
  BY <1>2 DEF pumpVars, PumpInvariant, PumpTypeOK, AlwaysWakes,
     UrgentWorkIsNotDelayed, UrgentWorkIsRemembered, running
<1> QED
  BY <1>1, <1>2, DispatchKeepsInvariant, TimerKeepsInvariant,
     WorkDoneKeepsInvariant, QuitKeepsInvariant, DrainKeepsInvariant
  DEF PumpNext

(* DoWork and OnScheduleWork: whatever order requests, timer events and calls
   inside calls take, the pump does not fall asleep while the loop runs, and
   work wanted at once is never left to the timer. *)
THEOREM PumpKeepsWorking ==
  PumpSpec => [](AlwaysWakes /\ UrgentWorkIsNotDelayed)
<1>1. PumpInvariant => AlwaysWakes /\ UrgentWorkIsNotDelayed
  BY DEF PumpInvariant
<1> QED
  BY <1>1, PumpInitInvariant, PumpStepKeepsInvariant, PTL DEF PumpSpec

============================================================================
