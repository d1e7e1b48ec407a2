--------------------------- MODULE QueryLifecycle ---------------------------
(***************************************************************************)
(* What cef_message_router.h promises a page about one call of cefQuery:   *)
(* a non-persistent registration is removed by the single callback it      *)
(* runs, a persistent one by onFailure only, and either may be withdrawn   *)
(* without a callback (canceled by the page, or its context goes).         *)
(* Nothing is heard of a query after that.                                 *)
(***************************************************************************)
EXTENDS Naturals, Sequences

CONSTANTS Call            \* the calls of cefQuery

VARIABLES phase,          \* "unused", "oneshot", "persistent" or "over"
          heard           \* the JavaScript callbacks run for each call

vars == <<phase, heard>>

Registered(u) == phase[u] \in {"oneshot", "persistent"}

Init == /\ phase = [u \in Call |-> "unused"]
        /\ heard = [u \in Call |-> <<>>]

Issue(u, kind) ==
  /\ phase[u] = "unused"
  /\ phase' = [phase EXCEPT ![u] = kind]
  /\ UNCHANGED heard

Hear(u, outcome) == heard' = [heard EXCEPT ![u] = Append(@, outcome)]

Succeed(u) ==
  /\ Registered(u)
  /\ Hear(u, "success")
  /\ phase' = [phase EXCEPT ![u] = IF @ = "oneshot" THEN "over" ELSE @]

Fail(u) ==
  /\ Registered(u)
  /\ Hear(u, "failure")
  /\ phase' = [phase EXCEPT ![u] = "over"]

\* Cancellation by the page and the end of a context or a process; the latter
\* withdraw several queries together.
Withdraw(us) ==
  /\ \A u \in us : Registered(u)
  /\ phase' = [u \in Call |-> IF u \in us THEN "over" ELSE phase[u]]
  /\ UNCHANGED heard

Next ==
  \/ \E u \in Call : \/ \E kind \in {"oneshot", "persistent"} : Issue(u, kind)
                     \/ Succeed(u) \/ Fail(u)
  \/ \E us \in SUBSET Call : Withdraw(us)

Spec == Init /\ [][Next]_vars

============================================================================
