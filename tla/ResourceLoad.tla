---------------------------- MODULE ResourceLoad ----------------------------
(***************************************************************************)
(* What cef_resource_manager.h promises a network request that passes      *)
(* through the manager: it goes through at once, or it is held and then    *)
(* resumed by one run of its callback; after that GetResourceHandler       *)
(* returns the handler a provider supplied, if any, a single time.         *)
(***************************************************************************)
EXTENDS Naturals

CONSTANTS Req             \* the network requests

VARIABLES phase,          \* "idle", "held", "resumed" or "fetched"
          resumes,        \* runs of the callback
          stored,         \* requests a resource handler is waiting for
          delivered       \* requests that were given their handler

vars == <<phase, resumes, stored, delivered>>

Init == /\ phase = [r \in Req |-> "idle"]
        /\ resumes = [r \in Req |-> 0]
        /\ stored = {} /\ delivered = {}

PassThrough(r) ==
  /\ phase[r] = "idle"
  /\ phase' = [phase EXCEPT ![r] = "resumed"]
  /\ UNCHANGED <<resumes, stored, delivered>>

Hold(r) ==
  /\ phase[r] = "idle"
  /\ phase' = [phase EXCEPT ![r] = "held"]
  /\ UNCHANGED <<resumes, stored, delivered>>

Resume(r, handler) ==
  /\ phase[r] = "held"
  /\ phase' = [phase EXCEPT ![r] = "resumed"]
  /\ resumes' = [resumes EXCEPT ![r] = @ + 1]
  /\ stored' = IF handler THEN stored \union {r} ELSE stored
  /\ UNCHANGED delivered

Fetch(r) ==
  /\ phase[r] = "resumed"
  /\ phase' = [phase EXCEPT ![r] = "fetched"]
  /\ stored' = stored \ {r}
  /\ delivered' = delivered \union ({r} \intersect stored)
  /\ UNCHANGED resumes

Next == \E r \in Req : \/ PassThrough(r) \/ Hold(r) \/ Fetch(r)
                       \/ \E handler \in BOOLEAN : Resume(r, handler)

Spec == Init /\ [][Next]_vars

=============================================================================
