------------------------- MODULE CallbackListProofs -------------------------
(***************************************************************************)
(* Proofs about CallbackList, for any callbacks: a RepeatingCallbackList   *)
(* with any number of calls of Notify on the stack, and a OnceCallbackList *)
(* that is not notified from inside one of its callbacks.                  *)
(***************************************************************************)
EXTENDS CallbackList, QueueLemmas

----------------------------------------------------------------------------
\* c is not behind d in the list.
NotBehind(c, d) ==
  \A i, j \in DOMAIN callbacks : callbacks[i] = c /\ callbacks[j] = d => i <= j

\* The iterator of call f is valid, and what f has still to run is not behind it.
FrameSound(f) ==
  /\ Valid(f.it) /\ f.owed \subseteq added
  /\ \A d \in f.owed \intersect bound : f.it # End /\ NotBehind(f.it, d)

\* The inductive invariant.
ListInv ==
  /\ ListTypeOK
  /\ IsInjective(callbacks)
  /\ ToSet(callbacks) \union nullCallbacks \subseteq added
  /\ ToSet(callbacks) \intersect nullCallbacks = {}
  /\ bound \subseteq ToSet(callbacks)
  /\ subscribed \subseteq ToSet(callbacks) \union nullCallbacks
  /\ subscribed \intersect ToSet(callbacks) \subseteq bound
  /\ ~iterating => ToSet(callbacks) \subseteq bound
  /\ Len(frames) <= MaxDepth
  /\ \A f \in ToSet(frames) : FrameSound(f)

----------------------------------------------------------------------------
(* Where a callback of the list is. *)
LEMMA PositionFacts ==
  ASSUME ListInv, NEW c \in ToSet(callbacks)
  PROVE  /\ Position(c) \in 1..Len(callbacks) /\ callbacks[Position(c)] = c
         /\ \A i \in 1..Len(callbacks) : callbacks[i] = c => i = Position(c)
         /\ DOMAIN callbacks = 1..Len(callbacks) /\ Len(callbacks) \in Nat
<1>1. callbacks \in Seq(Callback) /\ IsInjective(callbacks)
  BY DEF ListInv, ListTypeOK
<1>2. DOMAIN callbacks = 1..Len(callbacks) /\ Len(callbacks) \in Nat
  BY <1>1
<1>3. \E i \in DOMAIN callbacks : callbacks[i] = c
  BY Zenon DEF ToSet
<1>4. Position(c) \in DOMAIN callbacks /\ callbacks[Position(c)] = c
  BY <1>3, Zenon DEF Position
<1>5. \A i \in DOMAIN callbacks : callbacks[i] = c => i = Position(c)
  BY <1>1, <1>4, Zenon DEF IsInjective
<1> QED
  BY <1>2, <1>4, <1>5

(* Of two callbacks the order is that of their positions. *)
LEMMA OrderFacts ==
  ASSUME ListInv, NEW c \in ToSet(callbacks), NEW d \in ToSet(callbacks)
  PROVE  NotBehind(c, d) <=> Position(c) <= Position(d)
BY PositionFacts, SMT DEF NotBehind

(* next_valid finds the first callback from the iterator on that is bound;
   when it finds none, nothing that is bound is from the iterator on. *)
LEMMA NextValidFacts ==
  ASSUME ListInv, NEW it, Valid(it)
  PROVE  /\ NextValid(it) = End =>
              \A d \in bound : ~ (it # End /\ NotBehind(it, d))
         /\ NextValid(it) # End =>
              /\ NextValid(it) \in bound /\ NextValid(it) \in ToSet(callbacks)
              /\ it # End
              /\ \A d \in bound : NotBehind(it, d) => NotBehind(NextValid(it), d)
<1> DEFINE valid == {i \in From(it) : callbacks[i] \in bound}
<1>1. /\ bound \subseteq ToSet(callbacks) /\ ToSet(callbacks) \subseteq Callback
      /\ End \notin Callback /\ Valid(it)
  <2>1. callbacks \in Seq(Callback)
    BY DEF ListInv, ListTypeOK
  <2> QED
    BY <2>1, ToSetType, CallbackListAssumption DEF ListInv
<1>2. CASE it = End
  <2>1. valid = {}
    BY <1>2 DEF From
  <2>2. NextValid(it) = End
    BY <2>1 DEF NextValid
  <2> QED
    BY <1>2, <2>2
<1>3. CASE it # End
  <2>1. it \in ToSet(callbacks)
    BY <1>1, <1>3 DEF Valid
  <2>2. valid = {i \in Position(it)..Len(callbacks) : callbacks[i] \in bound}
    BY <1>3 DEF From
  <2>3. /\ Position(it) \in 1..Len(callbacks) /\ Len(callbacks) \in Nat
        /\ DOMAIN callbacks = 1..Len(callbacks)
    BY <2>1, PositionFacts
  <2>4. ASSUME NEW d \in bound, NotBehind(it, d)
        PROVE  Position(d) \in valid
    <3>1. d \in ToSet(callbacks)
      BY <1>1
    <3>2. Position(it) <= Position(d)
      BY <2>1, <2>4, <3>1, OrderFacts
    <3>3. Position(d) \in 1..Len(callbacks) /\ callbacks[Position(d)] = d
      BY <3>1, PositionFacts
    <3> QED
      BY <2>2, <2>3, <3>2, <3>3
  <2>5. CASE valid = {}
    <3>1. NextValid(it) = End
      BY <2>5 DEF NextValid
    <3> QED
      BY <2>4, <2>5, <3>1
  <2>6. CASE valid # {}
    <3> DEFINE k == Min(valid)
    <3>1. valid \in SUBSET Nat
      BY <2>2, <2>3
    <3>2. \E x \in valid : \A y \in valid : x <= y
      <4> HIDE DEF valid
      <4> QED
        BY <2>6, <3>1, Least
    <3>3. k \in valid /\ \A y \in valid : k <= y
      <4> HIDE DEF valid
      <4> QED
        BY <3>2, Zenon DEF Min
    <3>4. NextValid(it) = callbacks[k]
      BY <2>6 DEF NextValid
    <3> HIDE DEF k
    <3>5. k \in DOMAIN callbacks /\ callbacks[k] \in bound
      BY <2>2, <2>3, <3>3
    <3>6. callbacks[k] \in ToSet(callbacks) /\ callbacks[k] # End
      BY <1>1, <3>5
    <3>7. k = Position(callbacks[k])
      BY <2>3, <3>5, <3>6, PositionFacts
    <3>8. ASSUME NEW d \in bound, NotBehind(it, d)
          PROVE  NotBehind(callbacks[k], d)
      <4>1. k <= Position(d)
        BY <2>4, <3>3, <3>8
      <4>2. d \in ToSet(callbacks)
        BY <1>1
      <4> QED
        BY <3>6, <3>7, <4>1, <4>2, OrderFacts
    <3> QED
      BY <1>3, <3>4, <3>5, <3>6, <3>8
  <2> QED
    BY <2>5, <2>6
<1> QED
  BY <1>2, <1>3

(* The calls below the innermost one. *)
LEMMA FrontFacts ==
  ASSUME NEW S, NEW s \in Seq(S), s # <<>>
  PROVE  /\ Front(s) \in Seq(S) /\ Len(Front(s)) = Len(s) - 1
         /\ ToSet(Front(s)) \subseteq ToSet(s)
         /\ Last(s) \in S /\ Last(s) \in ToSet(s)
<1>1. Len(s) \in Nat \ {0} /\ DOMAIN s = 1..Len(s)
  OBVIOUS
<1>2. \A j \in 1..Len(s) : s[j] \in S
  OBVIOUS
<1>3. Front(s) = SubSeq(s, 1, Len(s) - 1)
  BY DEF Front
<1>4. /\ Front(s) \in Seq(S) /\ Len(Front(s)) = Len(s) - 1
      /\ DOMAIN Front(s) = 1..(Len(s) - 1)
      /\ \A i \in 1..(Len(s) - 1) : Front(s)[i] = s[i]
  BY <1>1, <1>2, <1>3
<1>5. ToSet(Front(s)) \subseteq ToSet(s)
  BY <1>1, <1>4 DEF ToSet
<1>6. Last(s) \in S /\ Last(s) \in ToSet(s)
  BY <1>1, <1>2 DEF Last, ToSet
<1> QED
  BY <1>4, <1>5, <1>6

----------------------------------------------------------------------------
(* Initially. *)
LEMMA ListInvInit == ListInit => ListInv
<1> SUFFICES ASSUME ListInit PROVE ListInv
  OBVIOUS
<1>1. ToSet(callbacks) = {} /\ callbacks \in Seq(Callback)
  BY EmptySet DEF ListInit
<1>2. ToSet(frames) = {} /\ frames \in Seq(Frame) /\ Len(frames) = 0
  BY EmptySet DEF ListInit
<1>3. IsInjective(callbacks)
  BY DEF ListInit, IsInjective
<1>4. Len(frames) <= MaxDepth
  BY <1>2, CallbackListAssumption
<1>5. /\ bound = {} /\ subscribed = {} /\ nullCallbacks = {} /\ added = {}
      /\ callbacks \in Seq(Callback) /\ frames \in Seq(Frame)
  BY <1>1, <1>2 DEF ListInit
<1>6. ListTypeOK
  BY <1>5, Zenon DEF ListTypeOK
<1> HIDE DEF ListInit
<1> QED
  BY <1>1, <1>2, <1>3, <1>4, <1>5, <1>6 DEF ListInv

(* A callback that is added is behind every other one. *)
LEMMA AddKeepsInv ==
  ASSUME ListInv, NEW c \in Callback, NEW unsafe, Add(c, unsafe)
  PROVE  ListInv'
<1>1. /\ callbacks \in Seq(Callback) /\ IsInjective(callbacks)
      /\ nullCallbacks \subseteq Callback /\ added \subseteq Callback
      /\ bound \subseteq added /\ subscribed \subseteq added /\ frames \in Seq(Frame)
  BY DEF ListInv, ListTypeOK
<1>2. /\ callbacks' = Append(callbacks, c) /\ added' = added \union {c}
      /\ bound' = bound \union {c} /\ nullCallbacks' = nullCallbacks
      /\ subscribed' \subseteq subscribed \union {c} /\ frames' = frames
      /\ c \notin added
  BY DEF Add
<1>3. c \notin ToSet(callbacks) /\ c \notin nullCallbacks
  BY <1>2 DEF ListInv
<1>4. /\ callbacks' \in Seq(Callback) /\ ToSet(callbacks') = ToSet(callbacks) \union {c}
      /\ IsInjective(callbacks')
  <2> DEFINE longer == Append(callbacks, c)
  <2>1. longer \in Seq(Callback) /\ ToSet(longer) = ToSet(callbacks) \union {c}
    BY <1>1, AppendSet
  <2>2. IsInjective(longer)
    BY <1>1, <1>3, AppendDistinct
  <2>3. callbacks' = longer
    BY <1>2
  <2> HIDE DEF longer
  <2> QED
    BY <2>1, <2>2, <2>3
<1>5. ASSUME NEW f \in ToSet(frames) PROVE FrameSound(f)'
  <2>1. FrameSound(f)
    BY <1>5 DEF ListInv
  <2>2. (/\ Valid(f.it) /\ f.owed \subseteq added)'
    BY <1>2, <1>4, <2>1 DEF FrameSound, Valid
  <2>3. ASSUME NEW d \in f.owed \intersect bound'
        PROVE  f.it # End /\ NotBehind(f.it, d)'
    <3>1. d \in bound /\ f.it # End /\ NotBehind(f.it, d) /\ d # c
      BY <1>2, <2>1 DEF FrameSound
    <3>2. d \in ToSet(callbacks) /\ f.it \in ToSet(callbacks)
      BY <2>1, <3>1 DEF ListInv, FrameSound, Valid
    <3>3. /\ DOMAIN callbacks' = 1..(Len(callbacks) + 1) /\ Len(callbacks) \in Nat
          /\ DOMAIN callbacks = 1..Len(callbacks)
          /\ \A i \in 1..Len(callbacks) : callbacks'[i] = callbacks[i]
          /\ callbacks'[Len(callbacks) + 1] = c
      BY <1>1, <1>2
    <3>4. f.it # c
      BY <1>3, <3>2
    <3> QED
      BY <3>1, <3>3, <3>4 DEF NotBehind
  <2> QED
    BY <2>2, <2>3 DEF FrameSound
<1>6. ListTypeOK'
  BY <1>1, <1>2, <1>4 DEF ListTypeOK
<1>7. (\A f \in ToSet(frames) : FrameSound(f))'
  BY <1>2, <1>5
<1>8. (~iterating => ToSet(callbacks) \subseteq bound)'
  BY <1>2, <1>4 DEF ListInv, iterating
<1>9. (Len(frames) <= MaxDepth)'
  BY <1>2 DEF ListInv
<1> QED
  BY <1>2, <1>3, <1>4, <1>6, <1>7, <1>8, <1>9 DEF ListInv

(* Nothing that is run from is erased while a call is running. *)
LEMMA CancelKeepsInv ==
  ASSUME ListInv, NEW c \in Callback, CancelCallback(c)
  PROVE  ListInv'
<1>1. /\ callbacks \in Seq(Callback) /\ IsInjective(callbacks)
      /\ nullCallbacks \subseteq Callback /\ added \subseteq Callback
      /\ bound \subseteq added /\ subscribed \subseteq added /\ frames \in Seq(Frame)
  BY DEF ListInv, ListTypeOK
<1>2. /\ bound' = bound \ {c} /\ subscribed' = subscribed \ {c} /\ c \in subscribed
      /\ added' = added /\ frames' = frames
      /\ nullCallbacks' = IF c \in bound THEN nullCallbacks ELSE nullCallbacks \ {c}
      /\ callbacks' = IF c \in bound /\ ~iterating THEN Erase(callbacks, c) ELSE callbacks
  BY DEF CancelCallback
<1>3. /\ Erase(callbacks, c) \in Seq(Callback)
      /\ ToSet(Erase(callbacks, c)) = ToSet(callbacks) \ {c}
      /\ IsInjective(Erase(callbacks, c))
  BY <1>1, EraseFacts
<1>4. /\ callbacks' \in Seq(Callback) /\ IsInjective(callbacks')
      /\ ToSet(callbacks') \subseteq ToSet(callbacks)
      /\ ToSet(callbacks) \subseteq ToSet(callbacks') \union {c}
      /\ c \notin bound \/ iterating => ToSet(callbacks') = ToSet(callbacks)
      /\ iterating => callbacks' = callbacks
      /\ c \in bound /\ ~iterating => c \notin ToSet(callbacks')
  BY <1>1, <1>2, <1>3
<1>5. ListTypeOK'
  BY <1>1, <1>2, <1>4 DEF ListTypeOK
<1>6. (/\ ToSet(callbacks) \union nullCallbacks \subseteq added
       /\ ToSet(callbacks) \intersect nullCallbacks = {}
       /\ bound \subseteq ToSet(callbacks)
       /\ subscribed \subseteq ToSet(callbacks) \union nullCallbacks
       /\ subscribed \intersect ToSet(callbacks) \subseteq bound)'
  BY <1>2, <1>4 DEF ListInv
<1>7. (~iterating => ToSet(callbacks) \subseteq bound)'
  BY <1>2, <1>4 DEF ListInv, iterating
<1>8. (Len(frames) <= MaxDepth)'
  BY <1>2 DEF ListInv
<1>9. (\A f \in ToSet(frames) : FrameSound(f))'
  <2>1. CASE iterating
    BY <1>2, <1>4, <2>1 DEF ListInv, FrameSound, Valid, NotBehind
  <2>2. CASE ~iterating
    <3>1. ToSet(frames) = {}
      BY <2>2, EmptySet DEF iterating
    <3> QED
      BY <1>2, <3>1
  <2> QED
    BY <2>1, <2>2
<1> QED
  BY <1>4, <1>5, <1>6, <1>7, <1>8, <1>9 DEF ListInv

(* One callback runs: the iterator is moved past it first, so what the
   callback does to its own node does not matter to the call. *)
LEMMA RunKeepsInv ==
  ASSUME ListInv, ~Once \/ MaxDepth = 1,
         NEW c \in bound, NEW lower \in Seq(Frame), NEW owed,
         Len(lower) < MaxDepth,
         \A f \in ToSet(lower) : FrameSound(f),
         owed \subseteq added,
         \A d \in owed \intersect bound : NotBehind(c, d),
         RunCallback(c, lower, owed), UNCHANGED <<added, subscribed>>
  PROVE  ListInv'
<1>1. /\ callbacks \in Seq(Callback) /\ IsInjective(callbacks)
      /\ nullCallbacks \subseteq Callback /\ added \subseteq Callback
      /\ bound \subseteq added /\ subscribed \subseteq added
      /\ bound \subseteq ToSet(callbacks) /\ ToSet(callbacks) \subseteq added
  BY DEF ListInv, ListTypeOK
<1>2. /\ Position(c) \in 1..Len(callbacks) /\ callbacks[Position(c)] = c
      /\ \A i \in 1..Len(callbacks) : callbacks[i] = c => i = Position(c)
      /\ DOMAIN callbacks = 1..Len(callbacks) /\ Len(callbacks) \in Nat
  BY <1>1, PositionFacts
<1>0. PICK next : next = IF Position(c) = Len(callbacks) THEN End
                         ELSE callbacks[Position(c) + 1]
  OBVIOUS
<1>a. PICK f : f = [it |-> next, owed |-> owed \ {c}]
  OBVIOUS
<1>3. /\ frames' = Append(lower, f)
      /\ callbacks' = IF Once THEN Erase(callbacks, c) ELSE callbacks
      /\ nullCallbacks' = IF Once THEN nullCallbacks \union {c} ELSE nullCallbacks
      /\ bound' = IF Once THEN bound \ {c} ELSE bound
      /\ added' = added /\ subscribed' = subscribed
  BY <1>0, <1>a DEF RunCallback
<1>4. next # End => next \in ToSet(callbacks) /\ next # c
  <2>1. CASE Position(c) = Len(callbacks)
    BY <1>0, <2>1
  <2>2. CASE Position(c) # Len(callbacks)
    <3>1. Position(c) + 1 \in 1..Len(callbacks)
      BY <1>2, <2>2
    <3>2. next = callbacks[Position(c) + 1]
      BY <1>0, <2>2
    <3>3. next \in ToSet(callbacks)
      BY <1>2, <3>1, <3>2 DEF ToSet
    <3>4. next # c
      BY <1>2, <3>1, <3>2
    <3> QED
      BY <3>3, <3>4
  <2> QED
    BY <2>1, <2>2
<1>5. ASSUME NEW d \in owed \intersect bound, d # c
      PROVE  next # End /\ NotBehind(next, d)
  <2>1. d \in ToSet(callbacks) /\ c \in ToSet(callbacks)
    BY <1>1
  <2>2. Position(c) <= Position(d)
    BY <2>1, OrderFacts
  <2>3. Position(d) \in 1..Len(callbacks) /\ callbacks[Position(d)] = d
    BY <2>1, PositionFacts
  <2>4. Position(c) # Position(d)
    BY <1>2, <1>5, <2>3
  <2>5. Position(c) + 1 \in 1..Len(callbacks) /\ Position(c) + 1 <= Position(d)
    BY <1>2, <2>2, <2>3, <2>4
  <2>6. Position(c) # Len(callbacks)
    BY <1>2, <2>5
  <2>7. next = callbacks[Position(c) + 1]
    BY <1>0, <2>6
  <2>8. next \in ToSet(callbacks)
    BY <1>2, <2>5, <2>7 DEF ToSet
  <2>9. Position(next) = Position(c) + 1
    BY <2>5, <2>7, <2>8, PositionFacts
  <2>10. next # End
    <3>1. ToSet(callbacks) \subseteq Callback
      BY <1>1
    <3> QED
      BY <2>8, <3>1, CallbackListAssumption
  <2>11. NotBehind(next, d)
    BY <2>1, <2>5, <2>8, <2>9, OrderFacts
  <2> QED
    BY <2>10, <2>11
<1>6. next \in Callback \union {End}
  <2>1. ToSet(callbacks) \subseteq Callback
    BY <1>1
  <2> QED
    BY <1>4, <2>1
<1>7. f \in Frame
  BY <1>1, <1>6, <1>a DEF Frame
<1>8. /\ callbacks' \in Seq(Callback) /\ IsInjective(callbacks')
      /\ ToSet(callbacks') = IF Once THEN ToSet(callbacks) \ {c} ELSE ToSet(callbacks)
  BY <1>1, <1>3, EraseFacts
<1>9. /\ frames' \in Seq(Frame) /\ frames' # <<>> /\ Len(frames') = Len(lower) + 1
      /\ ToSet(frames') = ToSet(lower) \union {f}
  <2> DEFINE longer == Append(lower, f)
  <2>1. /\ longer \in Seq(Frame) /\ longer # <<>> /\ Len(longer) = Len(lower) + 1
        /\ ToSet(longer) = ToSet(lower) \union {f}
    BY <1>7, AppendSet
  <2>2. frames' = longer
    BY <1>3
  <2> HIDE DEF longer
  <2> QED
    BY <2>1, <2>2
<1>10. ASSUME NEW d, NotBehind(next, d) PROVE NotBehind(next, d)'
  <2>1. CASE Once
    <3>1. callbacks' = Filter(callbacks, ToSet(callbacks) \ {c})
      BY <1>3, <2>1 DEF Erase
    <3> DEFINE shorter == Filter(callbacks, ToSet(callbacks) \ {c})
    <3>2. \A i, j \in DOMAIN shorter : shorter[i] = next /\ shorter[j] = d => i <= j
      BY <1>1, <1>10, FilterOrder DEF NotBehind
    <3> HIDE DEF shorter
    <3> QED
      BY <3>1, <3>2 DEF NotBehind, shorter
  <2>2. CASE ~Once
    BY <1>3, <1>10, <2>2 DEF NotBehind
  <2> QED
    BY <2>1, <2>2
<1>11. FrameSound(f)'
  <2>1. Valid(next)'
    BY <1>4, <1>8 DEF Valid
  <2>2. ASSUME NEW d \in (owed \ {c}) \intersect bound'
        PROVE  next # End /\ NotBehind(next, d)'
    BY <1>3, <1>5, <1>10
  <2>3. f.it = next /\ f.owed = owed \ {c}
    BY <1>a
  <2> QED
    BY <1>3, <2>1, <2>2, <2>3 DEF FrameSound
<1>12. ASSUME NEW g \in ToSet(lower) PROVE FrameSound(g)'
  <2>1. CASE Once
    <3>1. Len(lower) = 0
      BY <2>1, CallbackListAssumption
    <3>2. lower = <<>>
      BY <3>1
    <3> QED
      BY <3>2, EmptySet
  <2>2. CASE ~Once
    <3>1. callbacks' = callbacks /\ bound' = bound /\ added' = added
      BY <1>3, <2>2
    <3> QED
      BY <3>1 DEF FrameSound, Valid, NotBehind
  <2> QED
    BY <2>1, <2>2
<1>13. (\A g \in ToSet(frames) : FrameSound(g))'
  BY <1>9, <1>11, <1>12
<1>14. ListTypeOK'
  BY <1>1, <1>3, <1>8, <1>9 DEF ListTypeOK
<1>15. (/\ ToSet(callbacks) \union nullCallbacks \subseteq added
        /\ ToSet(callbacks) \intersect nullCallbacks = {}
        /\ bound \subseteq ToSet(callbacks)
        /\ subscribed \subseteq ToSet(callbacks) \union nullCallbacks
        /\ subscribed \intersect ToSet(callbacks) \subseteq bound)'
  BY <1>1, <1>3, <1>8 DEF ListInv
<1>16. (~iterating => ToSet(callbacks) \subseteq bound)'
  BY <1>9 DEF iterating
<1>17. (Len(frames) <= MaxDepth)'
  <2>1. Len(lower) \in Nat
    OBVIOUS
  <2> QED
    BY <1>9, <2>1, CallbackListAssumption
<1> QED
  BY <1>8, <1>13, <1>14, <1>15, <1>16, <1>17 DEF ListInv

(* A call of Notify begins at the first callback of the list. *)
LEMMA NotifyKeepsInv ==
  ASSUME ListInv, ~Once \/ MaxDepth = 1, Notify
  PROVE  ListInv'
<1> DEFINE start == IF callbacks = <<>> THEN End ELSE Head(callbacks)
           first == NextValid(start)
           owed  == ToSet(callbacks) \intersect bound
<1>1. /\ callbacks \in Seq(Callback) /\ IsInjective(callbacks)
      /\ bound \subseteq added /\ frames \in Seq(Frame)
      /\ bound \subseteq ToSet(callbacks)
      /\ \A f \in ToSet(frames) : FrameSound(f)
  BY DEF ListInv, ListTypeOK
<1>2. /\ first # End /\ Len(frames) < MaxDepth
      /\ RunCallback(first, frames, owed) /\ UNCHANGED <<added, subscribed>>
  BY DEF Notify
<1>3. Valid(start)
  <2>1. CASE callbacks = <<>>
    BY <2>1 DEF Valid
  <2>2. CASE callbacks # <<>>
    BY <1>1, <2>2, TailSet DEF Valid
  <2> QED
    BY <2>1, <2>2
<1>4. /\ first \in bound /\ start # End
      /\ \A d \in bound : NotBehind(start, d) => NotBehind(first, d)
  <2> HIDE DEF start
  <2> QED
    BY <1>2, <1>3, NextValidFacts
<1>5. \A d \in bound : NotBehind(start, d)
  <2>1. callbacks # <<>> /\ start = callbacks[1]
    BY <1>1, <1>4
  <2>2. DOMAIN callbacks = 1..Len(callbacks) /\ Len(callbacks) \in Nat \ {0}
    BY <1>1, <2>1
  <2>3. \A i \in DOMAIN callbacks : callbacks[i] = start => i = 1
    BY <1>1, <2>1, <2>2 DEF IsInjective
  <2> HIDE DEF start
  <2> QED
    BY <2>2, <2>3 DEF NotBehind
<1>6. owed \subseteq added
  BY <1>1
<1>7. \A d \in owed \intersect bound : NotBehind(first, d)
  BY <1>4, <1>5
<1> HIDE DEF first, owed
<1> QED
  BY <1>1, <1>2, <1>4, <1>6, <1>7, RunKeepsInv

(* A call goes on. *)
LEMMA NotifyNextKeepsInv ==
  ASSUME ListInv, ~Once \/ MaxDepth = 1, NotifyNext
  PROVE  ListInv'
<1> DEFINE top   == Last(frames)
           next  == NextValid(top.it)
           lower == Front(frames)
<1>1. /\ frames \in Seq(Frame) /\ frames # <<>> /\ Len(frames) <= MaxDepth
      /\ \A f \in ToSet(frames) : FrameSound(f)
  BY DEF ListInv, ListTypeOK, NotifyNext, iterating
<1>2. /\ Valid(top.it) /\ next # End
      /\ RunCallback(next, lower, top.owed) /\ UNCHANGED <<added, subscribed>>
  BY DEF NotifyNext
<1>3. /\ lower \in Seq(Frame) /\ Len(lower) = Len(frames) - 1
      /\ ToSet(lower) \subseteq ToSet(frames) /\ top \in ToSet(frames)
  BY <1>1, FrontFacts
<1>4. Len(lower) < MaxDepth
  <2>1. Len(frames) \in Nat
    BY <1>1
  <2> QED
    BY <1>1, <1>3, <2>1, CallbackListAssumption
<1>5. /\ next \in bound
      /\ \A d \in bound : NotBehind(top.it, d) => NotBehind(next, d)
  BY <1>2, NextValidFacts
<1>6. FrameSound(top)
  BY <1>1, <1>3
<1>7. top.owed \subseteq added /\ \A d \in top.owed \intersect bound : NotBehind(next, d)
  BY <1>5, <1>6 DEF FrameSound
<1>8. \A f \in ToSet(lower) : FrameSound(f)
  BY <1>1, <1>3
<1> HIDE DEF top, next, lower
<1> QED
  BY <1>2, <1>3, <1>4, <1>5, <1>7, <1>8, RunKeepsInv

(* When a call ends nothing that it owed is bound, and the outermost one
   leaves no null callback. *)
LEMMA NotifyDoneOwesNothing ==
  ASSUME ListInv, NotifyDone
  PROVE  Last(frames).owed \intersect bound = {}
<1> DEFINE top == Last(frames)
<1>1. /\ frames \in Seq(Frame) /\ frames # <<>>
      /\ \A f \in ToSet(frames) : FrameSound(f)
      /\ Valid(top.it) /\ NextValid(top.it) = End
  BY DEF ListInv, ListTypeOK, NotifyDone, iterating
<1>2. top \in ToSet(frames)
  BY <1>1, FrontFacts
<1>3. FrameSound(top)
  BY <1>1, <1>2
<1>4. \A d \in bound : ~ (top.it # End /\ NotBehind(top.it, d))
  BY <1>1, NextValidFacts
<1> HIDE DEF top
<1>5. top.owed \intersect bound = {}
  BY <1>3, <1>4 DEF FrameSound
<1> QED
  BY <1>5 DEF top

LEMMA NotifyDoneKeepsInv ==
  ASSUME ListInv, NotifyDone
  PROVE  ListInv'
<1>1. /\ callbacks \in Seq(Callback) /\ IsInjective(callbacks)
      /\ frames \in Seq(Frame) /\ frames # <<>> /\ Len(frames) <= MaxDepth
      /\ \A f \in ToSet(frames) : FrameSound(f)
  BY DEF ListInv, ListTypeOK, NotifyDone, iterating
<1>2. /\ frames' = Front(frames)
      /\ callbacks' = IF Len(frames) > 1 THEN callbacks ELSE Filter(callbacks, bound)
      /\ nullCallbacks' = nullCallbacks /\ added' = added
      /\ bound' = bound /\ subscribed' = subscribed
  BY DEF NotifyDone
<1>3. /\ Filter(callbacks, bound) \in Seq(Callback)
      /\ ToSet(Filter(callbacks, bound)) = ToSet(callbacks) \intersect bound
      /\ IsInjective(Filter(callbacks, bound))
  BY <1>1, FilterFacts
<1>4. /\ frames' \in Seq(Frame) /\ Len(frames') = Len(frames) - 1
      /\ ToSet(frames') \subseteq ToSet(frames)
  BY <1>1, <1>2, FrontFacts
<1>5. Len(frames) \in Nat
  BY <1>1
<1>6. (Len(frames) <= MaxDepth)'
  BY <1>1, <1>4, <1>5, CallbackListAssumption
<1>7. CASE Len(frames) > 1
  <2>1. callbacks' = callbacks /\ frames' # <<>>
    BY <1>2, <1>4, <1>5, <1>7
  <2>2. (\A f \in ToSet(frames) : FrameSound(f))'
    BY <1>1, <1>2, <1>4, <2>1 DEF FrameSound, Valid, NotBehind
  <2>3. ListTypeOK'
    BY <1>1, <1>2, <1>4, <2>1 DEF ListInv, ListTypeOK
  <2> QED
    BY <1>2, <1>6, <2>1, <2>2, <2>3 DEF ListInv, iterating
<1>8. CASE ~ (Len(frames) > 1)
  <2>1. callbacks' = Filter(callbacks, bound)
    BY <1>2, <1>8
  <2>2. /\ callbacks' \in Seq(Callback) /\ IsInjective(callbacks')
        /\ ToSet(callbacks') = ToSet(callbacks) \intersect bound
    BY <1>3, <2>1
  <2>3. Len(frames') = 0
    BY <1>1, <1>4, <1>5, <1>8
  <2>4. frames' = <<>>
    BY <1>4, <2>3
  <2>5. ToSet(frames') = {}
    BY <2>4, EmptySet
  <2>6. ListTypeOK'
    BY <1>2, <1>4, <2>2 DEF ListInv, ListTypeOK
  <2>7. (/\ ToSet(callbacks) \union nullCallbacks \subseteq added
         /\ ToSet(callbacks) \intersect nullCallbacks = {}
         /\ bound \subseteq ToSet(callbacks)
         /\ subscribed \subseteq ToSet(callbacks) \union nullCallbacks
         /\ subscribed \intersect ToSet(callbacks) \subseteq bound
         /\ ToSet(callbacks) \subseteq bound)'
    BY <1>2, <2>2 DEF ListInv
  <2> QED
    BY <1>6, <2>2, <2>5, <2>6, <2>7 DEF ListInv
<1> QED
  BY <1>7, <1>8

(* The invariant is inductive. *)
LEMMA ListInvNext ==
  ASSUME ~Once \/ MaxDepth = 1, ListInv, [ListNext]_listVars
  PROVE  ListInv'
<1>1. ASSUME NEW c \in Callback, CancelCallback(c) PROVE ListInv'
  BY <1>1, CancelKeepsInv
<1>2. ASSUME NEW c \in Callback, NEW unsafe \in BOOLEAN, Add(c, unsafe) PROVE ListInv'
  BY <1>2, AddKeepsInv
<1>3. CASE Notify
  BY <1>3, NotifyKeepsInv
<1>4. CASE NotifyNext
  BY <1>4, NotifyNextKeepsInv
<1>5. CASE NotifyDone
  BY <1>5, NotifyDoneKeepsInv
<1>6. CASE UNCHANGED listVars
  BY <1>6 DEF listVars, ListInv, ListTypeOK, iterating, FrameSound, Valid, NotBehind
<1> QED
  BY <1>1, <1>2, <1>3, <1>4, <1>5, <1>6, Zenon DEF ListNext

LEMMA ListInvAlways ==
  ASSUME ~Once \/ MaxDepth = 1
  PROVE  ListSpec => []ListInv
<1>1. ListInv /\ [ListNext]_listVars => ListInv'
  BY ListInvNext
<1> QED
  BY <1>1, ListInvInit, PTL DEF ListSpec

----------------------------------------------------------------------------
(* The variables of CallbackList have their types, and the iterators that
   calls of Notify and subscriptions hold stay valid, in a list whose once
   callbacks are not notified from inside a callback. *)
THEOREM IteratorsStayValid ==
  ASSUME ~Once \/ MaxDepth = 1
  PROVE  ListSpec => [](ListTypeOK /\ IteratorsAreValid)
<1>1. ASSUME ListInv PROVE ListTypeOK /\ IteratorsAreValid
  <2>1. ASSUME NEW i \in DOMAIN frames PROVE Valid(frames[i].it)
    <3>1. frames[i] \in ToSet(frames)
      BY DEF ToSet
    <3> QED
      BY <1>1, <3>1 DEF ListInv, FrameSound
  <2> QED
    BY <1>1, <2>1 DEF ListInv, IteratorsAreValid
<1> QED
  BY <1>1, ListInvAlways, PTL

(* Null callbacks are erased by the time no call is running, and no callback
   is twice in a list or in both. *)
THEOREM NullCallbacksAreErased ==
  ASSUME ~Once \/ MaxDepth = 1
  PROVE  ListSpec => []NoNullIsLeft
<1>1. ListInv => NoNullIsLeft
  BY DEF ListInv, NoNullIsLeft
<1> QED
  BY <1>1, ListInvAlways, PTL

(* A call of Notify runs everything that it found, unless it is canceled. *)
THEOREM NotifyRunsAll ==
  ASSUME ~Once \/ MaxDepth = 1
  PROVE  ListSpec => NoCallbackIsSkipped
<1> DEFINE Step == Len(frames') < Len(frames) => Last(frames).owed \intersect bound = {}
<1>1. ASSUME ListInv, [ListNext]_listVars PROVE [Step]_listVars
  <2>1. frames \in Seq(Frame) /\ Len(frames) \in Nat
    BY <1>1 DEF ListInv, ListTypeOK
  <2>2. ASSUME frames' = frames PROVE Step
    BY <2>1, <2>2
  <2>3. ASSUME NEW c, NEW lower \in Seq(Frame), NEW owed, RunCallback(c, lower, owed),
               Len(lower) >= Len(frames) - 1
        PROVE  Step
    <3>1. PICK f : frames' = Append(lower, f)
      BY <2>3 DEF RunCallback
    <3>2. Len(frames') = Len(lower) + 1 /\ Len(lower) \in Nat
      BY <3>1
    <3> QED
      BY <2>1, <2>3, <3>2
  <2>4. CASE NotifyDone
    BY <1>1, <2>4, NotifyDoneOwesNothing
  <2>5. CASE Notify
    BY <2>1, <2>3, <2>5 DEF Notify
  <2>6. CASE NotifyNext
    <3>1. Front(frames) \in Seq(Frame) /\ Len(Front(frames)) = Len(frames) - 1
      BY <2>1, <2>6, FrontFacts DEF NotifyNext, iterating
    <3> QED
      BY <2>1, <2>3, <2>6, <3>1 DEF NotifyNext
  <2>7. ASSUME NEW c \in Callback, CancelCallback(c) PROVE Step
    BY <2>2, <2>7 DEF CancelCallback
  <2>8. ASSUME NEW c \in Callback, NEW unsafe \in BOOLEAN, Add(c, unsafe) PROVE Step
    BY <2>2, <2>8 DEF Add
  <2> HIDE DEF Step
  <2> QED
    BY <1>1, <2>4, <2>5, <2>6, <2>7, <2>8, Zenon DEF ListNext
<1>2. [][Step]_listVars => NoCallbackIsSkipped
  BY PTL DEF NoCallbackIsSkipped
<1> HIDE DEF Step
<1> QED
  BY <1>1, <1>2, ListInvAlways, PTL DEF ListSpec

=============================================================================
