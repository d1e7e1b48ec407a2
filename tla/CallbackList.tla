---------------------------- MODULE CallbackList ----------------------------
(***************************************************************************)
(* A list of callbacks that may add, cancel and notify from inside the     *)
(* callbacks it runs.  A subscription holds an iterator into the list; so  *)
(* does every Notify on the stack.                                         *)
(*                                                                         *)
(* Source: include/base/cef_callback_list.h.  A callback stands for its    *)
(* list node.  The removal callback is application code that may do what   *)
(* any other caller may.                                                   *)
(***************************************************************************)
EXTENDS Naturals, Sequences, SequencesExt, Lists

CONSTANTS Callback,   \* every callback that is ever added
          Once,       \* OnceCallbackList, or else RepeatingCallbackList
          MaxDepth    \* bound: calls of Notify on the stack

\* callbacks_.end(), which stays what it is when callbacks are added.
End == "end"

ASSUME CallbackListAssumption ==
  Once \in BOOLEAN /\ MaxDepth \in Nat \ {0} /\ End \notin Callback

VARIABLES
  callbacks,      \* callbacks_
  nullCallbacks,  \* null_callbacks_ of a OnceCallbackList
  added,          \* callbacks that were ever added
  bound,          \* callbacks that are not null
  subscribed,     \* callbacks whose subscription is alive
  frames          \* the calls of Notify, the innermost last, each in a callback

listVars == <<callbacks, nullCallbacks, added, bound, subscribed, frames>>

\* it is the iterator after it++; the history owed are the callbacks that were there when
\* the call began and that it has not run.
Frame == [it: Callback \union {End}, owed: SUBSET Callback]

ListTypeOK ==
  /\ callbacks \in Seq(Callback)
  /\ nullCallbacks \subseteq Callback /\ added \subseteq Callback
  /\ bound \subseteq added /\ subscribed \subseteq added
  /\ frames \in Seq(Frame)

ListInit ==
  /\ callbacks = <<>> /\ nullCallbacks = {} /\ added = {}
  /\ bound = {} /\ subscribed = {} /\ frames = <<>>

iterating == frames # <<>>

Position(c) == CHOOSE i \in DOMAIN callbacks : callbacks[i] = c

\* The positions from iterator it to the end.
From(it) == IF it = End THEN {} ELSE Position(it)..Len(callbacks)

\* it is one of the nodes of callbacks_, or its end.
Valid(it) == it \in ToSet(callbacks) \union {End}

----------------------------------------------------------------------------
\* Add and AddUnsafe, which gives no subscription.
Add(c, unsafe) ==
  /\ c \notin added
  /\ callbacks' = Append(callbacks, c)
  /\ added' = added \union {c}
  /\ bound' = bound \union {c}
  /\ subscribed' = IF unsafe THEN subscribed ELSE subscribed \union {c}
  /\ UNCHANGED <<nullCallbacks, frames>>

\* CancelCallback, when the subscription is destroyed.
CancelCallback(c) ==
  /\ c \in subscribed
  /\ subscribed' = subscribed \ {c}
  /\ bound' = bound \ {c}
  /\ callbacks' = IF c \in bound /\ ~iterating THEN Erase(callbacks, c) ELSE callbacks
  /\ nullCallbacks' = IF c \in bound THEN nullCallbacks ELSE nullCallbacks \ {c}
  /\ UNCHANGED <<added, frames>>

\* Mutated form: a callback that was canceled ends the search.
NextValidStopsAtNull(it) == IF it \in bound THEN it ELSE End

\* next_valid: the first callback from it on that is not null.
NextValid(it) ==
  LET valid == {i \in From(it) : callbacks[i] \in bound}
  IN  IF valid = {} THEN End ELSE callbacks[Min(valid)]

\* RunCallback(it++): the frame's iterator moves on, then the callback runs; a
\* once callback is spliced to null_callbacks_ and becomes null first.
RunCallback(c, lower, owed) ==
  LET i == Position(c)
  IN  /\ frames' = Append(lower,
                     [it |-> IF i = Len(callbacks) THEN End ELSE callbacks[i + 1],
                      owed |-> owed \ {c}])
      /\ callbacks' = IF Once THEN Erase(callbacks, c) ELSE callbacks
      /\ nullCallbacks' = IF Once THEN nullCallbacks \union {c} ELSE nullCallbacks
      /\ bound' = IF Once THEN bound \ {c} ELSE bound

\* Notify up to the first callback; without any, the list is left alone.
Notify ==
  LET first == NextValid(IF callbacks = <<>> THEN End ELSE Head(callbacks))
  IN  /\ Len(frames) < MaxDepth
      /\ first # End
      /\ RunCallback(first, frames, ToSet(callbacks) \intersect bound)
      /\ UNCHANGED <<added, subscribed>>

\* A callback returns and the innermost Notify runs the next one.
NotifyNext ==
  LET top == Last(frames)
  IN  /\ iterating /\ Valid(top.it) /\ NextValid(top.it) # End
      /\ RunCallback(NextValid(top.it), Front(frames), top.owed)
      /\ UNCHANGED <<added, subscribed>>

\* Mutated form: every Notify erases the null callbacks when it ends.
NotifyDonePrunes ==
  LET top == Last(frames)
  IN  /\ iterating /\ Valid(top.it) /\ NextValid(top.it) = End
      /\ frames' = Front(frames)
      /\ callbacks' = Filter(callbacks, bound)
      /\ UNCHANGED <<nullCallbacks, added, bound, subscribed>>

\* Mutated form: no Notify erases the null callbacks.
NotifyDoneKeeps ==
  LET top == Last(frames)
  IN  /\ iterating /\ Valid(top.it) /\ NextValid(top.it) = End
      /\ frames' = Front(frames)
      /\ UNCHANGED <<callbacks, nullCallbacks, added, bound, subscribed>>

\* The last callback returns: the outermost Notify erases the null callbacks.
NotifyDone ==
  LET top == Last(frames)
  IN  /\ iterating /\ Valid(top.it) /\ NextValid(top.it) = End
      /\ frames' = Front(frames)
      /\ callbacks' = IF Len(frames) > 1 THEN callbacks
                      ELSE Filter(callbacks, bound)
      /\ UNCHANGED <<nullCallbacks, added, bound, subscribed>>

ListNext ==
  \/ \E c \in Callback : CancelCallback(c) \/ \E unsafe \in BOOLEAN : Add(c, unsafe)
  \/ Notify \/ NotifyNext \/ NotifyDone

ListSpec == ListInit /\ [][ListNext]_listVars

----------------------------------------------------------------------------
(* Every iterator that is held points into its list: that of each Notify on
   the stack, whatever the callbacks it runs cancel, add or notify, and that
   of each subscription, which CancelCallback dereferences. *)
IteratorsAreValid ==
  /\ \A i \in DOMAIN frames : Valid(frames[i].it)
  /\ subscribed \subseteq ToSet(callbacks) \union nullCallbacks

(* Notify skips no callback: when it returns, everything that was registered
   when it began has run or was canceled meanwhile, also by a callback of a
   call inside it. *)
NoCallbackIsSkipped ==
  [][Len(frames') < Len(frames) => Last(frames).owed \intersect bound = {}]_listVars

(* Callbacks canceled during an iteration do not stay behind in the list, and
   none is twice in it or in both lists. *)
NoNullIsLeft ==
  /\ ~iterating => ToSet(callbacks) \subseteq bound
  /\ IsInjective(callbacks) /\ ToSet(callbacks) \intersect nullCallbacks = {}

=============================================================================
