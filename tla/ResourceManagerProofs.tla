----------------------- MODULE ResourceManagerProofs -----------------------
(***************************************************************************)
(* Proofs about ResourceManager.                                           *)
(*                                                                         *)
(* The inductive invariant says, beside the invariants of the runs, whose  *)
(* turn it is: which task owns the state of a request, which entries a     *)
(* request has been offered to, what the destructor has left behind.       *)
(***************************************************************************)
EXTENDS ResourceManager, QueueLemmas

\* The tasks that own the state of a request, and those that carry a provider.
Owns(t) == t.kind \in {"continue", "stop"}
Adds(t) == t.kind = "add"

\* Two tasks for the same request, or for the same provider.
Clash(t, u) == \/ Owns(t) /\ Owns(u) /\ t.req = u.req
               \/ Adds(t) /\ Adds(u) /\ t.to = u.to

NoClash(q) == \A i, j \in DOMAIN q : Clash(q[i], q[j]) => i = j

\* A task that owns a state is the only one that does, and the Request object
\* has let go of it.
TasksOwnStates ==
  /\ NoClash(ioTasks)
  /\ \A t \in ToSet(ioTasks) : Owns(t) => holder[t.req] = "task"

\* A posted provider is in no list yet, and the task keeps the manager alive;
\* nothing is listed that was not added.
AddedOnce ==
  /\ \A t \in ToSet(ioTasks) : Adds(t) =>
       /\ manager = "alive" /\ t.to \in added /\ t.to \notin ToSet(providers)
       /\ \A r \in Req : t.to \notin visited[r]
  /\ ToSet(providers) \subseteq added
  /\ \A r \in Req : visited[r] \subseteq added

\* The list is in ascending order and has no provider twice.
Ascending ==
  /\ IsInjective(providers)
  /\ \A i, j \in DOMAIN providers :
       i <= j => OrderOf[providers[i]] <= OrderOf[providers[j]]

\* A request has been offered to nothing behind its present entry.
NothingAhead ==
  /\ \A r \in Req : holder[r] = "none" => visited[r] = {}
  /\ \A r \in Req : holder[r] \in {"request", "task"} =>
       /\ current[r] \in visited[r]
       /\ \A p \in visited[r] : OrderOf[p] <= OrderOf[current[r]]
       /\ \A i, j \in DOMAIN providers :
            providers[i] \in visited[r] /\ providers[j] = current[r] => i <= j

\* What the pending lists hold, with the lists of the archives.
ListsAgree ==
  /\ manager # "gone" =>
       /\ \A r \in Req : holder[r] \in {"request", "task"} =>
            current[r] \in ToSet(providers) /\ r \in ToSet(pending[current[r]])
       /\ \A p \in Provider, r \in Req : r \in ToSet(pending[p]) =>
            current[r] = p /\ holder[r] \in {"request", "task"}
       /\ \A p \in Provider : IsInjective(pending[p])
  /\ \A p \in Provider : IsInjective(waiting[p])
  /\ \A p \in Provider, r \in Req : r \in ToSet(waiting[p]) =>
       p \in visited[r] /\ (r \in dispatch => current[r] # p)

\* The request that is being offered.
Dispatching ==
  /\ \A r, s \in dispatch : r = s
  /\ \A r \in dispatch :
       /\ holder[r] \in {"request", "task"}
       /\ KindOf[current[r]] # "custom" => holder[r] = "request"

\* What the destructor leaves behind.
Destruction ==
  /\ \A x, y \in removing : x = y
  /\ \A x \in removing : x.last => manager = "dying"
  /\ \A x \in removing :
      x.last => /\ x.which = Provider
                /\ \A i \in DOMAIN providers : i < x.pos => providers[i] \in deleting
  /\ removing # {} => manager # "gone" /\ \A r \in dispatch : KindOf[current[r]] = "custom"
  /\ manager # "alive" => dispatch = {}
  /\ manager = "dying" => \E x \in removing : x.last
  /\ manager = "gone" => providers = <<>> /\ deleting = {} /\ removing = {}

\* The ghosts follow the request.
Phases ==
  \A r \in Req :
    /\ callbacks[r] > 0 => holder[r] = "done"
    /\ verdict[r] = "continue" => holder[r] = "done"
    /\ fetched[r] # "no" => holder[r] = "done"

ManagerInv ==
  /\ TypeOK /\ MarkedEntryIsInUse /\ RemovedProviderHoldsNoRequest
  /\ TasksOwnStates /\ AddedOnce /\ Ascending /\ NothingAhead /\ ListsAgree
  /\ Dispatching /\ Destruction /\ Phases

\* The action of OffersInOrder.
OffersAscend ==
  \A r \in Req : visited'[r] # visited[r] =>
    /\ current'[r] \notin visited[r] /\ current'[r] \notin deleting'
    /\ \A p \in visited[r] : OrderOf[p] <= OrderOf[current'[r]]

----------------------------------------------------------------------------
(* What a task carries. *)
LEMMA TaskFields ==
  /\ \A t \in IoTask :
       /\ t.kind = "continue" => t.req \in Req /\ t.handler \in BOOLEAN
       /\ t.kind = "stop" => t.req \in Req
       /\ t.kind = "call" => t.req \in Req /\ t.to \in Provider /\ t.outcome \in Outcome
       /\ t.kind = "archive" => t.to \in Provider
       /\ t.kind = "add" => t.to \in Provider
       /\ t.kind = "remove" => t.which \in SUBSET Provider /\ t.stop \in BOOLEAN
       /\ Owns(t) => t.req \in Req
       /\ Adds(t) => t.to \in Provider
  /\ \A r \in Req, outcome \in Outcome :
       /\ Handover(r, outcome) \in IoTask
       /\ Owns(Handover(r, outcome)) /\ ~Adds(Handover(r, outcome))
       /\ Handover(r, outcome).req = r
<1>1. ASSUME NEW t \in IoTask
      PROVE  /\ t.kind = "continue" => t.req \in Req /\ t.handler \in BOOLEAN
             /\ t.kind = "stop" => t.req \in Req
             /\ t.kind = "call" => t.req \in Req /\ t.to \in Provider /\ t.outcome \in Outcome
             /\ t.kind = "archive" => t.to \in Provider
             /\ t.kind = "add" => t.to \in Provider
             /\ t.kind = "remove" => t.which \in SUBSET Provider /\ t.stop \in BOOLEAN
  BY DEF IoTask, ContinueTask, StopTask, CallTask, ArchiveTask, AddTask, RemoveTask
<1>2. ASSUME NEW r \in Req, NEW outcome \in Outcome
      PROVE  /\ Handover(r, outcome) \in IoTask
             /\ Handover(r, outcome).kind \in {"continue", "stop"}
             /\ Handover(r, outcome).req = r
  BY DEF Handover, IoTask, ContinueTask, StopTask
<1> QED
  BY <1>1, <1>2 DEF Owns, Adds

(* A queue without clashes stays so when a task that clashes with none is
   added and when the first one is taken. *)
LEMMA NoClashAppend ==
  ASSUME NEW S, NEW q \in Seq(S), NoClash(q), NEW m \in S,
         \A t \in ToSet(q) : ~Clash(t, m) /\ ~Clash(m, t)
  PROVE  NoClash(Append(q, m))
<1>1. /\ DOMAIN Append(q, m) = 1..(Len(q) + 1) /\ DOMAIN q = 1..Len(q) /\ Len(q) \in Nat
      /\ \A i \in 1..Len(q) : Append(q, m)[i] = q[i]
      /\ Append(q, m)[Len(q) + 1] = m
  OBVIOUS
<1>2. \A i \in 1..Len(q) : q[i] \in ToSet(q)
  BY <1>1 DEF ToSet
<1> SUFFICES ASSUME NEW i \in 1..(Len(q) + 1), NEW j \in 1..(Len(q) + 1),
                    Clash(Append(q, m)[i], Append(q, m)[j])
             PROVE  i = j
  BY <1>1 DEF NoClash
<1>3. CASE i \in 1..Len(q) /\ j \in 1..Len(q)
  BY <1>1, <1>3 DEF NoClash
<1>4. CASE i = Len(q) + 1 /\ j \in 1..Len(q)
  BY <1>1, <1>2, <1>4
<1>5. CASE j = Len(q) + 1 /\ i \in 1..Len(q)
  BY <1>1, <1>2, <1>5
<1>6. CASE i = Len(q) + 1 /\ j = Len(q) + 1
  BY <1>6
<1> QED
  BY <1>1, <1>3, <1>4, <1>5, <1>6

LEMMA NoClashTail ==
  ASSUME NEW S, NEW q \in Seq(S), q # <<>>, NoClash(q)
  PROVE  /\ NoClash(Tail(q))
         /\ \A t \in ToSet(Tail(q)) : ~Clash(Head(q), t)
<1>1. /\ DOMAIN Tail(q) = 1..(Len(q) - 1) /\ DOMAIN q = 1..Len(q)
      /\ Len(q) \in Nat \ {0} /\ Head(q) = q[1]
      /\ \A i \in 1..(Len(q) - 1) : Tail(q)[i] = q[i + 1]
  OBVIOUS
<1>2. ASSUME NEW i \in 1..(Len(q) - 1), NEW j \in 1..(Len(q) - 1),
             Clash(Tail(q)[i], Tail(q)[j])
      PROVE  i = j
  <2>1. i + 1 \in 1..Len(q) /\ j + 1 \in 1..Len(q)
    BY <1>1
  <2>2. Clash(q[i + 1], q[j + 1])
    BY <1>1, <1>2
  <2>3. i + 1 = j + 1
    BY <1>1, <2>1, <2>2 DEF NoClash
  <2> QED
    BY <1>1, <2>3
<1>3. ASSUME NEW i \in 1..(Len(q) - 1)
      PROVE  ~Clash(q[1], q[i + 1])
  BY <1>1 DEF NoClash
<1>4. NoClash(Tail(q))
  BY <1>1, <1>2 DEF NoClash
<1>5. \A t \in ToSet(Tail(q)) : ~Clash(Head(q), t)
  BY <1>1, <1>3 DEF ToSet
<1> QED
  BY <1>4, <1>5

----------------------------------------------------------------------------
(* What the entry of a request that is under way looks like. *)
LEMMA LiveEntry ==
  ASSUME ManagerInv, manager # "gone", NEW r \in Req, holder[r] \in {"request", "task"}
  PROVE  /\ current[r] \in Provider /\ current[r] \in ToSet(providers)
         /\ pending[current[r]] \in Seq(Req) /\ r \in ToSet(pending[current[r]])
<1>1. /\ current[r] \in ToSet(providers) /\ r \in ToSet(pending[current[r]])
      /\ providers \in Seq(Provider) /\ pending \in [Provider -> Seq(Req)]
  BY DEF ManagerInv, ListsAgree, TypeOK
<1>2. ToSet(providers) \subseteq Provider
  BY <1>1 DEF ToSet
<1> QED
  BY <1>1, <1>2

(* GetNextValidProvider from an entry p of the list. *)
LEMMA NextValidFacts ==
  ASSUME ManagerInv, NEW i \in Nat, NEW q \in NextValid(i)
  PROVE  /\ q \in Provider /\ q \in ToSet(providers) /\ q \notin deleting
         /\ \E j \in DOMAIN providers : j > i /\ providers[j] = q
<1>1. providers \in Seq(Provider)
  BY DEF ManagerInv, TypeOK
<1>2. PICK j \in DOMAIN providers : j > i /\ providers[j] = q /\ q \notin deleting
  BY DEF NextValid
<1> QED
  BY <1>1, <1>2 DEF ToSet

LEMMA NextValidDeleting ==
  ASSUME NEW i, NEW q \in NextValid(i)
  PROVE  q \notin deleting
BY DEF NextValid

LEMMA PosFacts ==
  ASSUME ManagerInv, NEW p \in ToSet(providers)
  PROVE  /\ PosOf(p) \in DOMAIN providers /\ PosOf(p) \in Nat
         /\ providers[PosOf(p)] = p
         /\ \A i \in DOMAIN providers : providers[i] = p => i = PosOf(p)
<1>1. providers \in Seq(Provider) /\ IsInjective(providers)
  BY DEF ManagerInv, TypeOK, Ascending
<1>2. \E i \in DOMAIN providers : providers[i] = p
  BY DEF ToSet
<1>3. PosOf(p) \in DOMAIN providers /\ providers[PosOf(p)] = p
  BY <1>2 DEF PosOf
<1>4. DOMAIN providers \subseteq Nat
  BY <1>1
<1> QED
  BY <1>1, <1>3, <1>4 DEF IsInjective

LEMMA NextOffer ==
  ASSUME ManagerInv, NEW p \in ToSet(providers), NEW q \in NextValid(PosOf(p))
  PROVE  /\ q \in Provider /\ q \in ToSet(providers) /\ q \notin deleting /\ q # p
         /\ OrderOf[p] <= OrderOf[q]
         /\ \A i, j \in DOMAIN providers :
              providers[i] = p /\ providers[j] = q => i < j
<1>1. /\ providers \in Seq(Provider) /\ IsInjective(providers)
      /\ \A i, j \in DOMAIN providers : i <= j => OrderOf[providers[i]] <= OrderOf[providers[j]]
  BY DEF ManagerInv, TypeOK, Ascending
<1>2. DOMAIN providers \subseteq Nat
  BY <1>1
<1>3. /\ q \in Provider /\ q \in ToSet(providers) /\ q \notin deleting
      /\ \E j \in DOMAIN providers : j > PosOf(p) /\ providers[j] = q
  BY PosFacts, NextValidFacts
<1>4. PICK j \in DOMAIN providers : j > PosOf(p) /\ providers[j] = q
  BY <1>3
<1>5. /\ PosOf(p) \in DOMAIN providers /\ providers[PosOf(p)] = p /\ PosOf(p) \in Nat
      /\ \A i \in DOMAIN providers : providers[i] = p => i = PosOf(p)
  BY PosFacts
<1>6. OrderOf[p] <= OrderOf[q] /\ q # p
  BY <1>1, <1>2, <1>4, <1>5
<1>7. \A k \in DOMAIN providers : providers[k] = q => k = j
  BY <1>1, <1>4 DEF IsInjective
<1> QED
  BY <1>3, <1>4, <1>5, <1>6, <1>7

----------------------------------------------------------------------------
(* Which of two elements comes first, if both are in the list. *)
NotBehind(s, x, y) == \A i, j \in DOMAIN s : s[i] = x /\ s[j] = y => i <= j

(* DetachRequestFromProvider erases no other entry, and this one only when
   nothing else is pending on it. *)
LEMMA DetachFacts ==
  ASSUME ManagerInv, manager # "gone",
         NEW r \in Req, holder[r] \in {"request", "task"}, Detach(r)
  PROVE  /\ providers' \in Seq(Provider)
         /\ \E T : providers' = Filter(providers, T) \/ providers' = providers
         /\ ToSet(providers') \subseteq ToSet(providers)
         /\ ToSet(providers) \ {current[r]} \subseteq ToSet(providers')
         /\ deleting' \subseteq deleting /\ deleting \ {current[r]} \subseteq deleting'
         /\ ToSet(pending[current[r]]) \ {r} # {} => current[r] \in ToSet(providers')
         /\ current[r] \in deleting' => ToSet(pending[current[r]]) \ {r} # {}
<1> DEFINE p == current[r]
           rest == Erase(pending[p], r)
<1>1. p \in Provider /\ p \in ToSet(providers) /\ pending[p] \in Seq(Req)
  BY LiveEntry
<1>2. providers \in Seq(Provider)
  BY DEF ManagerInv, TypeOK
<1>3. rest \in Seq(Req) /\ ToSet(rest) = ToSet(pending[p]) \ {r}
  BY <1>1, EraseFacts
<1>4. rest = <<>> <=> ToSet(pending[p]) \ {r} = {}
  BY <1>3, EmptySet
<1>5. /\ Erase(providers, p) \in Seq(Provider)
      /\ ToSet(Erase(providers, p)) = ToSet(providers) \ {p}
  BY <1>2, EraseFacts
<1>6. Erase(providers, p) = Filter(providers, ToSet(providers) \ {p})
  BY DEF Erase
<1>7. CASE p \in deleting /\ rest = <<>>
  <2>1. providers' = Erase(providers, p) /\ deleting' = deleting \ {p}
    BY <1>7 DEF Detach
  <2> QED
    BY <1>4, <1>5, <1>6, <1>7, <2>1
<1>8. CASE ~(p \in deleting /\ rest = <<>>)
  <2>1. providers' = providers /\ deleting' = deleting
    BY <1>8 DEF Detach
  <2> QED
    BY <1>1, <1>2, <1>4, <1>8, <2>1
<1> QED
  BY <1>7, <1>8

(* Erasing keeps the order of what is left. *)
LEMMA OrderKept ==
  ASSUME NEW s \in Seq(Provider), NEW t, NEW T, t = Filter(s, T) \/ t = s
  PROVE  /\ IsInjective(s) => IsInjective(t)
         /\ \A x, y : NotBehind(s, x, y) => NotBehind(t, x, y)
         /\ (\A i, j \in DOMAIN s : i <= j => OrderOf[s[i]] <= OrderOf[s[j]]) =>
            (\A i, j \in DOMAIN t : i <= j => OrderOf[t[i]] <= OrderOf[t[j]])
<1>1. CASE t = s
  BY <1>1
<1>2. CASE t = Filter(s, T)
  <2>1. IsInjective(s) => IsInjective(t)
    BY <1>2, FilterFacts
  <2>2. ASSUME NEW x, NEW y, NotBehind(s, x, y) PROVE NotBehind(t, x, y)
    BY <1>2, <2>2, FilterOrder DEF NotBehind
  <2>3. (\A i, j \in DOMAIN s : i <= j => OrderOf[s[i]] <= OrderOf[s[j]]) =>
        (\A i, j \in DOMAIN t : i <= j => OrderOf[t[i]] <= OrderOf[t[j]])
    BY <1>2, FilterSorted
  <2> QED
    BY <2>1, <2>2, <2>3
<1> QED
  BY <1>1, <1>2

----------------------------------------------------------------------------
(* The pending list a request leaves. *)
LEMMA ErasedList ==
  ASSUME ManagerInv, NEW p \in Provider, NEW r \in Req
  PROVE  /\ Erase(pending[p], r) \in Seq(Req)
         /\ ToSet(Erase(pending[p], r)) = ToSet(pending[p]) \ {r}
         /\ manager # "gone" => IsInjective(Erase(pending[p], r))
         /\ ToSet(pending[p]) \ {r} # {} => Erase(pending[p], r) # <<>>
<1>1. pending[p] \in Seq(Req) /\ (manager # "gone" => IsInjective(pending[p]))
  BY DEF ManagerInv, TypeOK, ListsAgree
<1>2. /\ Erase(pending[p], r) \in Seq(Req)
      /\ ToSet(Erase(pending[p], r)) = ToSet(pending[p]) \ {r}
      /\ manager # "gone" => IsInjective(Erase(pending[p], r))
  BY <1>1, EraseFacts
<1> QED
  BY <1>2, EmptySet

(* A request leaves its entry for good. *)
LEMMA LeaveKeeps ==
  ASSUME ManagerInv, manager # "gone", removing = {},
         NEW r \in Req, holder[r] \in {"request", "task"},
         Detach(r),
         pending' = [pending EXCEPT ![current[r]] = Erase(@, r)],
         Finish(r),
         dispatch' \subseteq dispatch \ {r},
         ready' \subseteq Req, fileTasks' \in Seq(FileTask),
         verdict' \in [Req -> {"none", "continue", "async"}],
         \A s \in Req : s # r => verdict'[s] = verdict[s],
         ioTasks' \in Seq(IoTask), NoClash(ioTasks)',
         ToSet(ioTasks') \subseteq ToSet(ioTasks),
         \A t \in ToSet(ioTasks') : Owns(t) => t.req # r,
         UNCHANGED <<manager, removing, archVars, fetched, added, visited,
                     calls, removals>>
  PROVE  ManagerInv'
<1> DEFINE p == current[r]
<1>1. /\ p \in Provider /\ p \in ToSet(providers)
      /\ pending[p] \in Seq(Req) /\ r \in ToSet(pending[p])
  BY LiveEntry
<1>2. PICK T : providers' = Filter(providers, T) \/ providers' = providers
  BY DetachFacts
<1>3. /\ providers' \in Seq(Provider)
      /\ ToSet(providers') \subseteq ToSet(providers)
      /\ ToSet(providers) \ {p} \subseteq ToSet(providers')
      /\ deleting' \subseteq deleting /\ deleting \ {p} \subseteq deleting'
      /\ ToSet(pending[p]) \ {r} # {} => p \in ToSet(providers')
      /\ p \in deleting' => ToSet(pending[p]) \ {r} # {}
  BY DetachFacts
<1>4. /\ TypeOK /\ MarkedEntryIsInUse /\ RemovedProviderHoldsNoRequest
      /\ TasksOwnStates /\ AddedOnce /\ Ascending /\ NothingAhead /\ ListsAgree
      /\ Dispatching /\ Destruction /\ Phases
  BY DEF ManagerInv
<1>5. providers \in Seq(Provider) /\ pending \in [Provider -> Seq(Req)]
  BY <1>4 DEF TypeOK
<1>6. /\ Erase(pending[p], r) \in Seq(Req)
      /\ ToSet(Erase(pending[p], r)) = ToSet(pending[p]) \ {r}
      /\ IsInjective(Erase(pending[p], r))
      /\ ToSet(pending[p]) \ {r} # {} => Erase(pending[p], r) # <<>>
  BY <1>1, ErasedList
<1>7. /\ pending' \in [Provider -> Seq(Req)]
      /\ pending'[p] = Erase(pending[p], r)
      /\ \A q \in Provider : q # p => pending'[q] = pending[q]
  BY <1>1, <1>5, <1>6
<1>8. /\ holder' \in [Req -> {"none", "request", "task", "done"}]
      /\ holder'[r] = "done" /\ \A s \in Req : s # r => holder'[s] = holder[s]
      /\ current' \in [Req -> Provider \union {NoProvider}]
      /\ \A s \in Req : s # r => current'[s] = current[s]
      /\ callbacks' \in [Req -> Nat]
      /\ \A s \in Req : s # r => callbacks'[s] = callbacks[s]
  BY <1>4 DEF Finish, TypeOK
<1>9. /\ IsInjective(providers')
      /\ \A x, y : NotBehind(providers, x, y) => NotBehind(providers', x, y)
      /\ \A i, j \in DOMAIN providers' :
           i <= j => OrderOf[providers'[i]] <= OrderOf[providers'[j]]
  <2>1. /\ IsInjective(providers)
        /\ \A i, j \in DOMAIN providers :
             i <= j => OrderOf[providers[i]] <= OrderOf[providers[j]]
    BY <1>4 DEF Ascending
  <2> QED
    BY <1>2, <1>5, <2>1, OrderKept
<1>10. TypeOK'
  BY <1>3, <1>4, <1>7, <1>8 DEF TypeOK, archVars
<1>11. MarkedEntryIsInUse'
  <2>1. SUFFICES ASSUME NEW q \in deleting'
                 PROVE  q \in ToSet(providers') /\ pending'[q] # <<>>
    BY DEF MarkedEntryIsInUse
  <2>2. CASE q = p
    BY <1>3, <1>6, <1>7, <2>1, <2>2
  <2>3. CASE q # p
    <3>1. q \in deleting /\ q \in Provider
      BY <1>3, <1>4, <2>1 DEF TypeOK
    <3>2. q \in ToSet(providers) /\ pending[q] # <<>>
      BY <1>4, <3>1 DEF MarkedEntryIsInUse
    <3> QED
      BY <1>3, <1>7, <2>3, <3>1, <3>2
  <2> QED
    BY <2>2, <2>3
<1>12. RemovedProviderHoldsNoRequest'
  BY <1>3, <1>4, <1>8 DEF RemovedProviderHoldsNoRequest
<1>13. TasksOwnStates'
  <2>1. ASSUME NEW t \in ToSet(ioTasks'), Owns(t) PROVE holder'[t.req] = "task"
    <3>1. t \in IoTask /\ t \in ToSet(ioTasks)
      BY <2>1, ToSetType
    <3>2. t.req \in Req /\ t.req # r
      BY <2>1, <3>1, TaskFields
    <3>3. holder[t.req] = "task"
      BY <1>4, <2>1, <3>1 DEF TasksOwnStates
    <3> QED
      BY <1>8, <3>2, <3>3
  <2> QED
    BY <2>1 DEF TasksOwnStates
<1>14. AddedOnce'
  BY <1>3, <1>4 DEF AddedOnce
<1>15. Ascending'
  BY <1>9 DEF Ascending
<1>16. NothingAhead'
  <2>1. \A s \in Req : holder'[s] = "none" => visited'[s] = {}
    BY <1>4, <1>8 DEF NothingAhead
  <2>2. ASSUME NEW s \in Req, holder'[s] \in {"request", "task"}
        PROVE  /\ current'[s] \in visited'[s]
               /\ \A q \in visited'[s] : OrderOf[q] <= OrderOf[current'[s]]
               /\ \A q \in visited'[s] : NotBehind(providers', q, current'[s])
    <3>1. s # r /\ current'[s] = current[s] /\ holder'[s] = holder[s]
      BY <1>8, <2>2
    <3>2. \A q \in visited[s] : NotBehind(providers, q, current[s])
      BY <1>4, <2>2, <3>1 DEF NothingAhead, NotBehind
    <3> QED
      BY <1>4, <1>9, <2>2, <3>1, <3>2 DEF NothingAhead
  <2> QED
    BY <2>1, <2>2 DEF NothingAhead, NotBehind
<1>17. ListsAgree'
  <2>1. ASSUME NEW s \in Req, holder'[s] \in {"request", "task"}
        PROVE  current'[s] \in ToSet(providers') /\ s \in ToSet(pending'[current'[s]])
    <3>1. s # r /\ current'[s] = current[s] /\ holder'[s] = holder[s]
      BY <1>8, <2>1
    <3>2. /\ current[s] \in Provider /\ current[s] \in ToSet(providers)
          /\ s \in ToSet(pending[current[s]])
      BY <2>1, <3>1, LiveEntry
    <3>3. CASE current[s] = p
      BY <1>3, <1>6, <1>7, <3>1, <3>2, <3>3
    <3>4. CASE current[s] # p
      BY <1>3, <1>7, <3>1, <3>2, <3>4
    <3> QED
      BY <3>3, <3>4
  <2>2. ASSUME NEW q \in Provider, NEW s \in Req, s \in ToSet(pending'[q])
        PROVE  current'[s] = q /\ holder'[s] \in {"request", "task"}
    <3>1. s \in ToSet(pending[q]) /\ (q = p => s # r)
      BY <1>6, <1>7, <2>2
    <3>2. current[s] = q /\ holder[s] \in {"request", "task"}
      BY <1>4, <3>1 DEF ListsAgree
    <3> QED
      BY <1>8, <3>1, <3>2
  <2>3. \A q \in Provider : IsInjective(pending'[q])
    BY <1>4, <1>6, <1>7 DEF ListsAgree
  <2>4. ASSUME NEW q \in Provider, NEW s \in Req, s \in ToSet(waiting'[q])
        PROVE  q \in visited'[s] /\ (s \in dispatch' => current'[s] # q)
    <3>1. waiting' = waiting /\ visited' = visited
      BY DEF archVars
    <3>2. q \in visited[s] /\ (s \in dispatch => current[s] # q)
      BY <1>4, <2>4, <3>1 DEF ListsAgree
    <3> QED
      BY <1>8, <3>1, <3>2
  <2>5. \A q \in Provider : IsInjective(waiting'[q])
    BY <1>4 DEF ListsAgree, archVars
  <2> QED
    BY <2>1, <2>2, <2>3, <2>4, <2>5 DEF ListsAgree
<1>18. Dispatching'
  BY <1>4, <1>8 DEF Dispatching, TypeOK
<1>19. Destruction'
  BY <1>4 DEF Destruction
<1>20. Phases'
  BY <1>4, <1>8 DEF Phases
<1> QED
  BY <1>10, <1>11, <1>12, <1>13, <1>14, <1>15, <1>16, <1>17, <1>18, <1>19, <1>20
     DEF ManagerInv

(* A request moves on to the next entry. *)
LEMMA OfferKeeps ==
  ASSUME ManagerInv, manager # "gone", removing = {},
         NEW r \in Req, holder[r] \in {"request", "task"}, dispatch \subseteq {r},
         NEW q \in NextValid(PosOf(current[r])),
         Detach(r),
         pending' = [pending EXCEPT ![current[r]] = Erase(@, r), ![q] = Append(@, r)],
         MakeRequest(r, q),
         ready' \subseteq Req, fileTasks' \in Seq(FileTask),
         ioTasks' \in Seq(IoTask), NoClash(ioTasks)',
         ToSet(ioTasks') \subseteq ToSet(ioTasks),
         \A t \in ToSet(ioTasks') : Owns(t) => t.req # r,
         UNCHANGED <<manager, removing, archVars, fetched, callbacks, verdict,
                     added, calls, removals>>
  PROVE  ManagerInv' /\ q \notin visited[r] /\ \A x \in visited[r] : OrderOf[x] <= OrderOf[q]
<1> DEFINE p == current[r]
<1>1. /\ p \in Provider /\ p \in ToSet(providers)
      /\ pending[p] \in Seq(Req) /\ r \in ToSet(pending[p])
  BY LiveEntry
<1>2. PICK T : providers' = Filter(providers, T) \/ providers' = providers
  BY DetachFacts
<1>3. /\ providers' \in Seq(Provider)
      /\ ToSet(providers') \subseteq ToSet(providers)
      /\ ToSet(providers) \ {p} \subseteq ToSet(providers')
      /\ deleting' \subseteq deleting /\ deleting \ {p} \subseteq deleting'
      /\ ToSet(pending[p]) \ {r} # {} => p \in ToSet(providers')
      /\ p \in deleting' => ToSet(pending[p]) \ {r} # {}
  BY DetachFacts
<1>4. /\ TypeOK /\ MarkedEntryIsInUse /\ RemovedProviderHoldsNoRequest
      /\ TasksOwnStates /\ AddedOnce /\ Ascending /\ NothingAhead /\ ListsAgree
      /\ Dispatching /\ Destruction /\ Phases
  BY DEF ManagerInv
<1>5. /\ q \in Provider /\ q \in ToSet(providers) /\ q \notin deleting /\ q # p
      /\ OrderOf[p] <= OrderOf[q]
      /\ \A i, j \in DOMAIN providers : providers[i] = p /\ providers[j] = q => i < j
  BY <1>1, NextOffer
<1>6. /\ Erase(pending[p], r) \in Seq(Req)
      /\ ToSet(Erase(pending[p], r)) = ToSet(pending[p]) \ {r}
      /\ IsInjective(Erase(pending[p], r))
      /\ ToSet(pending[p]) \ {r} # {} => Erase(pending[p], r) # <<>>
  BY <1>1, ErasedList
<1>7. /\ pending[q] \in Seq(Req) /\ r \notin ToSet(pending[q]) /\ IsInjective(pending[q])
  BY <1>4, <1>5 DEF TypeOK, ListsAgree
<1>8. /\ Append(pending[q], r) \in Seq(Req)
      /\ ToSet(Append(pending[q], r)) = ToSet(pending[q]) \union {r}
      /\ Append(pending[q], r) # <<>>
  <2> DEFINE l == pending[q]
  <2>1. l \in Seq(Req) /\ r \in Req
    BY <1>7
  <2> HIDE DEF l
  <2>2. /\ Append(l, r) \in Seq(Req) /\ ToSet(Append(l, r)) = ToSet(l) \union {r}
        /\ Append(l, r) # <<>>
    BY <2>1, AppendSet
  <2> QED
    BY <2>2 DEF l
<1>9. IsInjective(Append(pending[q], r))
  <2> DEFINE l == pending[q]
  <2>1. l \in Seq(Req) /\ r \in Req /\ IsInjective(l) /\ r \notin ToSet(l)
    BY <1>7
  <2> HIDE DEF l
  <2>2. IsInjective(Append(l, r))
    BY <2>1, AppendDistinct
  <2> QED
    BY <2>2 DEF l
<1>10. /\ pending' \in [Provider -> Seq(Req)]
       /\ pending'[p] = Erase(pending[p], r)
       /\ pending'[q] = Append(pending[q], r)
       /\ \A x \in Provider : x # p /\ x # q => pending'[x] = pending[x]
  BY <1>1, <1>4, <1>5, <1>6, <1>8 DEF TypeOK
<1>11. /\ holder' \in [Req -> {"none", "request", "task", "done"}]
       /\ holder'[r] = "request" /\ \A s \in Req : s # r => holder'[s] = holder[s]
       /\ current' \in [Req -> Provider \union {NoProvider}]
       /\ current'[r] = q /\ \A s \in Req : s # r => current'[s] = current[s]
       /\ visited' \in [Req -> SUBSET Provider]
       /\ visited'[r] = visited[r] \union {q}
       /\ \A s \in Req : s # r => visited'[s] = visited[s]
       /\ dispatch' = {r}
  BY <1>4, <1>5 DEF MakeRequest, TypeOK
<1>12. /\ IsInjective(providers')
       /\ \A x, y : NotBehind(providers, x, y) => NotBehind(providers', x, y)
       /\ \A i, j \in DOMAIN providers' :
            i <= j => OrderOf[providers'[i]] <= OrderOf[providers'[j]]
  <2>1. /\ IsInjective(providers)
        /\ \A i, j \in DOMAIN providers :
             i <= j => OrderOf[providers[i]] <= OrderOf[providers[j]]
    BY <1>4 DEF Ascending
  <2>2. providers \in Seq(Provider)
    BY <1>4 DEF TypeOK
  <2> QED
    BY <1>2, <2>1, <2>2, OrderKept
<1>13. /\ \A x \in visited[r] : x \in Provider /\ OrderOf[x] <= OrderOf[p]
       /\ \A x \in visited[r] : NotBehind(providers, x, p)
       /\ p \in visited[r]
  BY <1>4 DEF NothingAhead, NotBehind, TypeOK
<1>14. \A x \in visited[r] : OrderOf[x] <= OrderOf[q]
  <2>1. TAKE x \in visited[r]
  <2>2. OrderOf[x] \in Nat /\ OrderOf[p] \in Nat /\ OrderOf[q] \in Nat
    BY <1>1, <1>5, <1>13, ManagerAssumption
  <2> QED
    BY <1>5, <1>13, <2>2
<1>15. PICK k \in DOMAIN providers : providers[k] = p
  BY <1>1 DEF ToSet
<1>16. DOMAIN providers \subseteq Nat
  <2>1. providers \in Seq(Provider)
    BY <1>4 DEF TypeOK
  <2> QED
    BY <2>1
<1>17. q \notin visited[r]
  <2>1. SUFFICES ASSUME q \in visited[r] PROVE FALSE
    OBVIOUS
  <2>2. PICK j \in DOMAIN providers : providers[j] = q
    BY <1>5 DEF ToSet
  <2>3. j <= k
    BY <1>13, <1>15, <2>1, <2>2 DEF NotBehind
  <2>4. k < j
    BY <1>5, <1>15, <2>2
  <2> QED
    BY <1>16, <2>3, <2>4
<1>18. \A x \in visited[r] \union {q} : NotBehind(providers, x, q)
  <2>1. ASSUME NEW x \in visited[r] PROVE NotBehind(providers, x, q)
    <3>1. SUFFICES ASSUME NEW i \in DOMAIN providers, NEW j \in DOMAIN providers,
                          providers[i] = x, providers[j] = q
                   PROVE  i <= j
      BY DEF NotBehind
    <3>2. i <= k
      BY <1>13, <1>15, <2>1, <3>1 DEF NotBehind
    <3>3. k < j
      BY <1>5, <1>15, <3>1
    <3> QED
      BY <1>16, <3>2, <3>3
  <2>2. NotBehind(providers, q, q)
    BY <1>4, <1>16 DEF NotBehind, Ascending, IsInjective
  <2> QED
    BY <2>1, <2>2
<1>19. TypeOK'
  BY <1>3, <1>4, <1>10, <1>11 DEF TypeOK, archVars
<1>20. MarkedEntryIsInUse'
  <2>1. SUFFICES ASSUME NEW x \in deleting'
                 PROVE  x \in ToSet(providers') /\ pending'[x] # <<>>
    BY DEF MarkedEntryIsInUse
  <2>2. CASE x = p
    BY <1>3, <1>6, <1>10, <2>1, <2>2
  <2>3. CASE x # p
    <3>1. x \in deleting /\ x \in Provider /\ x # q
      BY <1>3, <1>4, <1>5, <2>1 DEF TypeOK
    <3>2. x \in ToSet(providers) /\ pending[x] # <<>>
      BY <1>4, <3>1 DEF MarkedEntryIsInUse
    <3> QED
      BY <1>3, <1>10, <2>3, <3>1, <3>2
  <2> QED
    BY <2>2, <2>3
<1>21. RemovedProviderHoldsNoRequest'
  BY <1>3, <1>4, <1>5, <1>11 DEF RemovedProviderHoldsNoRequest
<1>22. TasksOwnStates'
  <2>1. ASSUME NEW t \in ToSet(ioTasks'), Owns(t) PROVE holder'[t.req] = "task"
    <3>1. t \in IoTask /\ t \in ToSet(ioTasks)
      BY <2>1, ToSetType
    <3>2. t.req \in Req /\ t.req # r
      BY <2>1, <3>1, TaskFields
    <3>3. holder[t.req] = "task"
      BY <1>4, <2>1, <3>1 DEF TasksOwnStates
    <3> QED
      BY <1>11, <3>2, <3>3
  <2> QED
    BY <2>1 DEF TasksOwnStates
<1>23. AddedOnce'
  <2>1. ASSUME NEW t \in ToSet(ioTasks'), Adds(t)
        PROVE  /\ manager' = "alive" /\ t.to \in added' /\ t.to \notin ToSet(providers')
               /\ \A s \in Req : t.to \notin visited'[s]
    <3>1. /\ manager = "alive" /\ t.to \in added /\ t.to \notin ToSet(providers)
          /\ \A s \in Req : t.to \notin visited[s]
      BY <1>4, <2>1 DEF AddedOnce
    <3>2. t.to # q
      BY <1>5, <3>1
    <3>3. ASSUME NEW s \in Req PROVE t.to \notin visited'[s]
      BY <1>11, <3>1, <3>2
    <3> QED
      BY <1>3, <3>1, <3>3
  <2>2. \A s \in Req : visited'[s] \subseteq added
    BY <1>4, <1>5, <1>11 DEF AddedOnce
  <2>3. ToSet(providers') \subseteq added
    BY <1>3, <1>4 DEF AddedOnce
  <2> QED
    BY <2>1, <2>2, <2>3 DEF AddedOnce
<1>24. Ascending'
  BY <1>12 DEF Ascending
<1>25. NothingAhead'
  <2>1. \A s \in Req : holder'[s] = "none" => visited'[s] = {}
    BY <1>4, <1>11 DEF NothingAhead
  <2>2. ASSUME NEW s \in Req, holder'[s] \in {"request", "task"}
        PROVE  /\ current'[s] \in visited'[s]
               /\ \A x \in visited'[s] : OrderOf[x] <= OrderOf[current'[s]]
               /\ \A x \in visited'[s] : NotBehind(providers', x, current'[s])
    <3>1. CASE s = r
      <4>1. OrderOf[q] <= OrderOf[q]
        BY <1>5, ManagerAssumption
      <4> QED
        BY <1>11, <1>12, <1>14, <1>18, <3>1, <4>1
    <3>2. CASE s # r
      <4>1. \A x \in visited[s] : NotBehind(providers, x, current[s])
        BY <1>4, <1>11, <2>2, <3>2 DEF NothingAhead, NotBehind
      <4> QED
        BY <1>4, <1>11, <1>12, <2>2, <3>2, <4>1 DEF NothingAhead
    <3> QED
      BY <3>1, <3>2
  <2> QED
    BY <2>1, <2>2 DEF NothingAhead, NotBehind
<1>26. ListsAgree'
  <2>1. ASSUME NEW s \in Req, holder'[s] \in {"request", "task"}
        PROVE  current'[s] \in ToSet(providers') /\ s \in ToSet(pending'[current'[s]])
    <3>1. CASE s = r
      BY <1>3, <1>5, <1>8, <1>10, <1>11, <3>1
    <3>2. CASE s # r
      <4>1. current'[s] = current[s] /\ holder'[s] = holder[s]
        BY <1>11, <3>2
      <4>2. /\ current[s] \in Provider /\ current[s] \in ToSet(providers)
            /\ s \in ToSet(pending[current[s]])
        BY <2>1, <4>1, LiveEntry
      <4>3. s \in ToSet(pending'[current[s]])
        BY <1>6, <1>8, <1>10, <3>2, <4>2
      <4>4. current[s] \in ToSet(providers')
        BY <1>3, <3>2, <4>2
      <4> QED
        BY <4>1, <4>3, <4>4
    <3> QED
      BY <3>1, <3>2
  <2>2. ASSUME NEW x \in Provider, NEW s \in Req, s \in ToSet(pending'[x])
        PROVE  current'[s] = x /\ holder'[s] \in {"request", "task"}
    <3>1. CASE s = r
      <4>1. r \in ToSet(pending[x]) => x = p
        BY <1>4 DEF ListsAgree
      <4>2. x = q
        BY <1>6, <1>10, <2>2, <3>1, <4>1
      <4> QED
        BY <1>11, <3>1, <4>2
    <3>2. CASE s # r
      <4>1. s \in ToSet(pending[x])
        BY <1>6, <1>8, <1>10, <2>2, <3>2
      <4>2. current[s] = x /\ holder[s] \in {"request", "task"}
        BY <1>4, <4>1 DEF ListsAgree
      <4> QED
        BY <1>11, <3>2, <4>2
    <3> QED
      BY <3>1, <3>2
  <2>3. ASSUME NEW x \in Provider PROVE IsInjective(pending'[x])
    BY <1>4, <1>6, <1>9, <1>10 DEF ListsAgree
  <2>4. ASSUME NEW x \in Provider, NEW s \in Req, s \in ToSet(waiting'[x])
        PROVE  x \in visited'[s] /\ (s \in dispatch' => current'[s] # x)
    <3>1. waiting' = waiting
      BY DEF archVars
    <3>2. x \in visited[s]
      BY <1>4, <2>4, <3>1 DEF ListsAgree
    <3> QED
      BY <1>11, <1>17, <3>2
  <2>5. \A x \in Provider : IsInjective(waiting'[x])
    BY <1>4 DEF ListsAgree, archVars
  <2> QED
    BY <2>1, <2>2, <2>3, <2>4, <2>5 DEF ListsAgree
<1>27. Dispatching'
  BY <1>11 DEF Dispatching
<1>28. Destruction'
  BY <1>4, <1>11 DEF Destruction, TypeOK
<1>29. Phases'
  BY <1>4, <1>11 DEF Phases
<1> QED
  BY <1>14, <1>17, <1>19, <1>20, <1>21, <1>22, <1>23, <1>24, <1>25, <1>26,
     <1>27, <1>28, <1>29 DEF ManagerInv

(* IncrementProvider, or StopRequest behind the last entry. *)
LEMMA ForwardKeeps ==
  ASSUME ManagerInv, manager # "gone", removing = {},
         NEW r \in Req, holder[r] \in {"request", "task"}, dispatch \subseteq {r},
         Forward(r),
         ready' \subseteq Req, fileTasks' \in Seq(FileTask),
         ioTasks' \in Seq(IoTask), NoClash(ioTasks)',
         ToSet(ioTasks') \subseteq ToSet(ioTasks),
         \A t \in ToSet(ioTasks') : Owns(t) => t.req # r,
         UNCHANGED <<manager, removing, archVars, fetched, added, calls, removals>>
  PROVE  ManagerInv' /\ OffersAscend
<1>1. Detach(r)
  BY DEF Forward
<1>2. CASE /\ pending' = [pending EXCEPT ![current[r]] = Erase(@, r)]
           /\ Finish(r) /\ Return(r, "continue")
           /\ dispatch' = {} /\ UNCHANGED visited
  <2>1. /\ verdict' \in [Req -> {"none", "continue", "async"}]
        /\ \A s \in Req : s # r => verdict'[s] = verdict[s]
    BY <1>2 DEF Return, ManagerInv, TypeOK
  <2>2. ManagerInv'
    BY <1>1, <1>2, <2>1, LeaveKeeps
  <2> QED
    BY <1>2, <2>2 DEF OffersAscend
<1>3. ASSUME NEW q \in NextValid(PosOf(current[r])),
             pending' = [pending EXCEPT ![current[r]] = Erase(@, r), ![q] = Append(@, r)],
             MakeRequest(r, q), UNCHANGED <<callbacks, verdict>>
      PROVE  ManagerInv' /\ OffersAscend
  <2>1. ManagerInv' /\ q \notin visited[r] /\ \A x \in visited[r] : OrderOf[x] <= OrderOf[q]
    BY <1>1, <1>3, OfferKeeps
  <2>2. q \notin deleting'
    BY <1>1, <1>3, DetachFacts, NextValidDeleting
  <2>3. current'[r] = q /\ \A s \in Req : s # r => visited'[s] = visited[s]
    BY <1>3 DEF MakeRequest, ManagerInv, TypeOK
  <2> QED
    BY <2>1, <2>2, <2>3 DEF OffersAscend
<1> QED
  BY <1>2, <1>3 DEF Forward

(* Steps that leave the entries and the states alone. *)
LEMMA QuietKeeps ==
  ASSUME ManagerInv,
         UNCHANGED <<manager, entryVars, stateVars, removing, waiting, visited,
                     callbacks, added>>,
         dispatch' \subseteq dispatch,
         ready' \subseteq Req, archive' \in [Provider -> {"idle", "loading", "loaded"}],
         fileTasks' \in Seq(FileTask),
         calls' \in [Provider \X Req -> 0..MaxCalls], removals' \in 0..MaxRemovals,
         verdict' \in [Req -> {"none", "continue", "async"}],
         \A s \in Req : verdict'[s] = "continue" => verdict[s] = "continue",
         fetched' \in [Req -> {"no", "nothing", "handler"}],
         \A s \in Req : fetched'[s] # "no" => holder[s] = "done",
         ioTasks' \in Seq(IoTask), NoClash(ioTasks)',
         \A t \in ToSet(ioTasks') : t \in ToSet(ioTasks) \/ (~Owns(t) /\ ~Adds(t))
  PROVE  ManagerInv' /\ OffersAscend
<1>1. /\ TypeOK /\ MarkedEntryIsInUse /\ RemovedProviderHoldsNoRequest
      /\ TasksOwnStates /\ AddedOnce /\ Ascending /\ NothingAhead /\ ListsAgree
      /\ Dispatching /\ Destruction /\ Phases
  BY DEF ManagerInv
<1>2. /\ manager' = manager /\ providers' = providers /\ deleting' = deleting
      /\ pending' = pending /\ current' = current /\ holder' = holder
      /\ removing' = removing /\ waiting' = waiting /\ visited' = visited
      /\ callbacks' = callbacks /\ added' = added
  BY DEF entryVars, stateVars
<1>3. TypeOK'
  BY <1>1, <1>2 DEF TypeOK
<1>4. MarkedEntryIsInUse' /\ RemovedProviderHoldsNoRequest'
  BY <1>1, <1>2 DEF MarkedEntryIsInUse, RemovedProviderHoldsNoRequest
<1>5. TasksOwnStates'
  BY <1>1, <1>2 DEF TasksOwnStates
<1>6. AddedOnce'
  BY <1>1, <1>2 DEF AddedOnce
<1>7. Ascending' /\ NothingAhead'
  BY <1>1, <1>2 DEF Ascending, NothingAhead
<1>8. ListsAgree'
  BY <1>1, <1>2 DEF ListsAgree
<1>9. Dispatching' /\ Destruction'
  BY <1>1, <1>2 DEF Dispatching, Destruction
<1>10. Phases'
  BY <1>1, <1>2 DEF Phases
<1>11. OffersAscend
  BY <1>2 DEF OffersAscend
<1> QED
  BY <1>3, <1>4, <1>5, <1>6, <1>7, <1>8, <1>9, <1>10, <1>11 DEF ManagerInv

(* Request::Continue and Request::Stop. *)
LEMMA CallKeeps ==
  ASSUME ManagerInv,
         NEW r \in Req, NEW p \in Provider, NEW outcome \in Outcome,
         NEW rest \in Seq(IoTask), NoClash(rest), ToSet(rest) \subseteq ToSet(ioTasks),
         Call(r, p, outcome, rest),
         UNCHANGED <<manager, entryVars, current, removing, archVars, visited,
                     callbacks, added, fetched, ready, fileTasks, removals>>,
         dispatch' \subseteq dispatch,
         \A s \in dispatch' : KindOf[current[s]] = "custom",
         calls' \in [Provider \X Req -> 0..MaxCalls],
         verdict' \in [Req -> {"none", "continue", "async"}],
         \A s \in Req : verdict'[s] = "continue" => verdict[s] = "continue"
  PROVE  ManagerInv' /\ OffersAscend
<1>1. /\ TypeOK /\ MarkedEntryIsInUse /\ RemovedProviderHoldsNoRequest
      /\ TasksOwnStates /\ AddedOnce /\ Ascending /\ NothingAhead /\ ListsAgree
      /\ Dispatching /\ Destruction /\ Phases
  BY DEF ManagerInv
<1>2. /\ manager' = manager /\ providers' = providers /\ deleting' = deleting
      /\ pending' = pending /\ current' = current
      /\ removing' = removing /\ waiting' = waiting /\ visited' = visited
      /\ archive' = archive /\ callbacks' = callbacks /\ added' = added
      /\ fetched' = fetched
  BY DEF entryVars, archVars
<1>3. CASE ~HasState(r, p)
  <2>1. ioTasks' = rest /\ holder' = holder
    BY <1>3 DEF Call
  <2>2. \A t \in ToSet(ioTasks') : t \in ToSet(ioTasks)
    BY <2>1
  <2>3. NoClash(ioTasks)'
    BY <2>1 DEF NoClash
  <2> QED
    BY <1>1, <1>2, <2>1, <2>2, <2>3, QuietKeeps DEF TypeOK, Phases, stateVars, entryVars
<1>4. CASE HasState(r, p)
  <2> DEFINE m == Handover(r, outcome)
  <2>1. /\ holder[r] = "request" /\ current[r] = p
        /\ holder' = [holder EXCEPT ![r] = "task"] /\ ioTasks' = Append(rest, m)
    BY <1>4 DEF Call, HasState
  <2>2. m \in IoTask /\ Owns(m) /\ ~Adds(m) /\ m.req = r
    BY TaskFields
  <2>3. /\ holder' \in [Req -> {"none", "request", "task", "done"}]
        /\ holder'[r] = "task" /\ \A s \in Req : s # r => holder'[s] = holder[s]
    BY <1>1, <2>1 DEF TypeOK
  <2> HIDE DEF m
  <2>4. /\ ioTasks' \in Seq(IoTask) /\ ToSet(ioTasks') = ToSet(rest) \union {m}
    BY <2>1, <2>2, AppendSet
  <2>5. \A t \in ToSet(ioTasks) : t \in IoTask /\ (Owns(t) => holder[t.req] = "task")
    BY <1>1, ToSetType DEF TypeOK, TasksOwnStates
  <2>6. \A t \in ToSet(rest) : ~Clash(t, m) /\ ~Clash(m, t)
    BY <2>1, <2>2, <2>5 DEF Clash
  <2>7. NoClash(Append(rest, m))
    BY <2>2, <2>6, NoClashAppend
  <2>8. TypeOK'
    BY <1>1, <1>2, <2>3, <2>4 DEF TypeOK
  <2>9. MarkedEntryIsInUse' /\ RemovedProviderHoldsNoRequest'
    BY <1>1, <1>2, <2>3 DEF MarkedEntryIsInUse, RemovedProviderHoldsNoRequest
  <2>10. TasksOwnStates'
    <3>1. ASSUME NEW t \in ToSet(ioTasks'), Owns(t) PROVE holder'[t.req] = "task"
      <4>1. CASE t = m
        BY <2>2, <2>3, <4>1
      <4>2. CASE t # m
        <5>1. t \in ToSet(ioTasks) /\ t \in IoTask /\ holder[t.req] = "task"
          BY <2>4, <2>5, <3>1, <4>2
        <5>2. t.req \in Req
          BY <3>1, <5>1, TaskFields
        <5> QED
          BY <2>3, <5>1, <5>2
      <4> QED
        BY <4>1, <4>2
    <3>2. NoClash(ioTasks)'
      BY <2>1, <2>7 DEF NoClash
    <3> QED
      BY <3>1, <3>2 DEF TasksOwnStates
  <2>11. AddedOnce'
    BY <1>1, <1>2, <2>2, <2>4 DEF AddedOnce
  <2>12. Ascending' /\ NothingAhead'
    BY <1>1, <1>2, <2>1, <2>3 DEF Ascending, NothingAhead
  <2>13. ListsAgree'
    <3>1. \A s \in Req : holder'[s] \in {"request", "task"} <=> holder[s] \in {"request", "task"}
      BY <2>1, <2>3
    <3> QED
      BY <1>1, <1>2, <3>1 DEF ListsAgree
  <2>14. Dispatching' /\ Destruction'
    <3>1. \A s \in Req : holder[s] \in {"request", "task"} => holder'[s] \in {"request", "task"}
      BY <2>1, <2>3
    <3>2. dispatch' \subseteq Req
      BY <1>1 DEF TypeOK
    <3> QED
      BY <1>1, <1>2, <3>1, <3>2 DEF Dispatching, Destruction
  <2>15. Phases'
    BY <1>1, <1>2, <2>1, <2>3 DEF Phases
  <2> QED
    BY <1>2, <2>8, <2>9, <2>10, <2>11, <2>12, <2>13, <2>14, <2>15 DEF ManagerInv, OffersAscend
<1> QED
  BY <1>3, <1>4

----------------------------------------------------------------------------
(* The steps of a network request. *)
LEMMA OfferedFacts ==
  ASSUME ManagerInv, NEW r \in Req, NEW kind, Offered(r, kind)
  PROVE  /\ dispatch = {r} /\ manager # "gone" /\ removing = {}
         /\ holder[r] \in {"request", "task"} /\ current[r] \in Provider
         /\ KindOf[current[r]] = kind
         /\ kind # "custom" => holder[r] = "request"
         /\ holder[r] = "request" => \A t \in ToSet(ioTasks) : Owns(t) => t.req # r
         /\ HasState(r, current[r]) <=> holder[r] = "request"
<1>1. /\ r \in dispatch /\ removing = {} /\ KindOf[current[r]] = kind
  BY DEF Offered
<1>2. /\ \A s \in dispatch : s = r
      /\ holder[r] \in {"request", "task"}
      /\ kind # "custom" => holder[r] = "request"
      /\ manager # "gone"
  BY <1>1 DEF ManagerInv, Dispatching, Destruction
<1>3. current[r] \in Provider
  BY <1>2, LiveEntry
<1>4. \A t \in ToSet(ioTasks) : Owns(t) => holder[t.req] = "task"
  BY DEF ManagerInv, TasksOwnStates
<1> QED
  BY <1>1, <1>2, <1>3, <1>4 DEF HasState

LEMMA HandledFacts ==
  ASSUME ManagerInv, NEW r \in Req, Handled(r)
  PROVE  /\ dispatch' = {}
         /\ verdict' \in [Req -> {"none", "continue", "async"}]
         /\ \A s \in Req : verdict'[s] = "continue" => verdict[s] = "continue"
BY DEF Handled, Return, ManagerInv, TypeOK

LEMMA GetResourceHandlerKeeps ==
  ASSUME ManagerInv, NEW r \in Req, GetResourceHandler(r)
  PROVE  ManagerInv' /\ OffersAscend
<1>1. TypeOK /\ TasksOwnStates /\ Phases
  BY DEF ManagerInv
<1>2. holder[r] = "done"
  BY <1>1 DEF GetResourceHandler, Phases
<1>3. /\ fetched' \in [Req -> {"no", "nothing", "handler"}]
      /\ \A s \in Req : s # r => fetched'[s] = fetched[s]
      /\ ready' \subseteq Req
  BY <1>1 DEF GetResourceHandler, TypeOK
<1>4. /\ UNCHANGED <<manager, entryVars, stateVars, removing, waiting, visited,
                     callbacks, added, dispatch, archive, fileTasks, calls,
                     removals, verdict, ioTasks>>
  BY DEF GetResourceHandler, archVars, taskVars, usedVars
<1>5. \A s \in Req : fetched'[s] # "no" => holder[s] = "done"
  BY <1>1, <1>2, <1>3 DEF Phases
<1>6. NoClash(ioTasks)' /\ \A t \in ToSet(ioTasks') : t \in ToSet(ioTasks)
  BY <1>1, <1>4 DEF TasksOwnStates
<1> QED
  BY <1>1, <1>3, <1>4, <1>5, <1>6, QuietKeeps DEF TypeOK

LEMMA ContentOnRequestKeeps ==
  ASSUME ManagerInv, NEW r \in Req, ContentOnRequest(r)
  PROVE  ManagerInv' /\ OffersAscend
<1>1. TypeOK /\ TasksOwnStates
  BY DEF ManagerInv
<1>2. Offered(r, "content")
  BY DEF ContentOnRequest
<1>3. /\ dispatch = {r} /\ manager # "gone" /\ removing = {}
      /\ holder[r] \in {"request", "task"} /\ current[r] \in Provider
      /\ \A t \in ToSet(ioTasks) : Owns(t) => t.req # r
  BY <1>2, OfferedFacts
<1>4. UNCHANGED <<manager, removing, ready, archVars, fileTasks, fetched, added,
                  calls, removals>>
  BY DEF ContentOnRequest
<1>5. CASE r \in HasResource[current[r]]
  <2>1. /\ Call(r, current[r], "serve", ioTasks) /\ Handled(r)
        /\ UNCHANGED <<entryVars, current, callbacks, visited>>
    BY <1>5 DEF ContentOnRequest
  <2>2. /\ dispatch' = {} /\ verdict' \in [Req -> {"none", "continue", "async"}]
        /\ \A s \in Req : verdict'[s] = "continue" => verdict[s] = "continue"
    BY <2>1, HandledFacts
  <2>3. "serve" \in Outcome /\ ioTasks \in Seq(IoTask) /\ NoClash(ioTasks)
    BY <1>1 DEF Outcome, TypeOK, TasksOwnStates
  <2> QED
    BY <1>1, <1>3, <1>4, <2>1, <2>2, <2>3, CallKeeps DEF TypeOK
<1>6. CASE r \notin HasResource[current[r]]
  <2>1. Forward(r) /\ UNCHANGED ioTasks
    BY <1>6 DEF ContentOnRequest
  <2>2. /\ ioTasks' \in Seq(IoTask) /\ NoClash(ioTasks)'
        /\ ToSet(ioTasks') \subseteq ToSet(ioTasks)
        /\ \A t \in ToSet(ioTasks') : Owns(t) => t.req # r
    BY <1>1, <1>3, <2>1 DEF TypeOK, TasksOwnStates
  <2>3. ready' \subseteq Req /\ fileTasks' \in Seq(FileTask)
    BY <1>1, <1>4 DEF TypeOK
  <2> QED
    BY <1>3, <1>4, <2>1, <2>2, <2>3, ForwardKeeps
<1> QED
  BY <1>5, <1>6

LEMMA FileTaskAppend ==
  ASSUME ManagerInv, NEW m \in FileTask
  PROVE  Append(fileTasks, m) \in Seq(FileTask)
BY AppendSet DEF ManagerInv, TypeOK

LEMMA DirectoryOnRequestKeeps ==
  ASSUME ManagerInv, NEW r \in Req, DirectoryOnRequest(r)
  PROVE  ManagerInv' /\ OffersAscend
<1>1. TypeOK /\ TasksOwnStates /\ Phases
  BY DEF ManagerInv
<1>2. Offered(r, "directory")
  BY DEF DirectoryOnRequest
<1>3. /\ dispatch = {r} /\ manager # "gone" /\ removing = {}
      /\ holder[r] \in {"request", "task"} /\ current[r] \in Provider
      /\ \A t \in ToSet(ioTasks) : Owns(t) => t.req # r
  BY <1>2, OfferedFacts
<1>4. UNCHANGED <<manager, removing, ready, archVars, ioTasks, fetched, added,
                  calls, removals>>
  BY DEF DirectoryOnRequest
<1>5. /\ ioTasks' \in Seq(IoTask) /\ NoClash(ioTasks)'
      /\ ToSet(ioTasks') \subseteq ToSet(ioTasks)
      /\ \A t \in ToSet(ioTasks') : Owns(t) => t.req # r
  BY <1>1, <1>3, <1>4 DEF TypeOK, TasksOwnStates
<1>6. CASE /\ fileTasks' = Append(fileTasks, [kind |-> "open", req |-> r,
                                              to |-> current[r]])
           /\ Handled(r)
           /\ UNCHANGED <<entryVars, stateVars, callbacks, visited>>
  <2>1. [kind |-> "open", req |-> r, to |-> current[r]] \in FileTask
    BY <1>3 DEF FileTask
  <2>2. fileTasks' \in Seq(FileTask)
    BY <1>6, <2>1, FileTaskAppend
  <2>3. /\ dispatch' = {} /\ verdict' \in [Req -> {"none", "continue", "async"}]
        /\ \A s \in Req : verdict'[s] = "continue" => verdict[s] = "continue"
    BY <1>6, HandledFacts
  <2>4. /\ ready' \subseteq Req /\ archive' \in [Provider -> {"idle", "loading", "loaded"}]
        /\ calls' \in [Provider \X Req -> 0..MaxCalls] /\ removals' \in 0..MaxRemovals
        /\ fetched' \in [Req -> {"no", "nothing", "handler"}]
        /\ waiting' = waiting
    BY <1>1, <1>4 DEF TypeOK, archVars
  <2>5. \A s \in Req : fetched'[s] # "no" => holder[s] = "done"
    BY <1>1, <1>4 DEF Phases
  <2> QED
    BY <1>4, <1>5, <1>6, <2>2, <2>3, <2>4, <2>5, QuietKeeps
<1>7. CASE Forward(r) /\ UNCHANGED fileTasks
  <2>1. ready' \subseteq Req /\ fileTasks' \in Seq(FileTask)
    BY <1>1, <1>4, <1>7 DEF TypeOK
  <2> QED
    BY <1>3, <1>4, <1>5, <1>7, <2>1, ForwardKeeps
<1> QED
  BY <1>6, <1>7 DEF DirectoryOnRequest

LEMMA CustomOnRequestKeeps ==
  ASSUME ManagerInv, NEW r \in Req, CustomOnRequest(r)
  PROVE  ManagerInv' /\ OffersAscend
<1>1. TypeOK /\ TasksOwnStates /\ Phases
  BY DEF ManagerInv
<1>2. Offered(r, "custom")
  BY DEF CustomOnRequest
<1>3. /\ dispatch = {r} /\ manager # "gone" /\ removing = {}
      /\ holder[r] \in {"request", "task"} /\ current[r] \in Provider
      /\ HasState(r, current[r]) => \A t \in ToSet(ioTasks) : Owns(t) => t.req # r
  BY <1>2, OfferedFacts
<1>4. UNCHANGED <<manager, removing, ready, archVars, taskVars, fetched, added,
                  calls, removals>>
  BY DEF CustomOnRequest
<1>5. /\ ioTasks' \in Seq(IoTask) /\ NoClash(ioTasks)'
      /\ ToSet(ioTasks') \subseteq ToSet(ioTasks)
      /\ HasState(r, current[r]) => \A t \in ToSet(ioTasks') : Owns(t) => t.req # r
      /\ ready' \subseteq Req /\ fileTasks' \in Seq(FileTask)
  BY <1>1, <1>3, <1>4 DEF TypeOK, TasksOwnStates, taskVars
<1>6. CASE Handled(r) /\ UNCHANGED <<entryVars, stateVars, callbacks, visited>>
  <2>1. /\ dispatch' = {} /\ verdict' \in [Req -> {"none", "continue", "async"}]
        /\ \A s \in Req : verdict'[s] = "continue" => verdict[s] = "continue"
    BY <1>6, HandledFacts
  <2>2. /\ archive' \in [Provider -> {"idle", "loading", "loaded"}]
        /\ calls' \in [Provider \X Req -> 0..MaxCalls] /\ removals' \in 0..MaxRemovals
        /\ fetched' \in [Req -> {"no", "nothing", "handler"}]
        /\ waiting' = waiting
    BY <1>1, <1>4 DEF TypeOK, archVars
  <2>3. \A s \in Req : fetched'[s] # "no" => holder[s] = "done"
    BY <1>1, <1>4 DEF Phases
  <2> QED
    BY <1>4, <1>5, <1>6, <2>1, <2>2, <2>3, QuietKeeps
<1>7. CASE HasState(r, current[r]) /\ Forward(r)
  BY <1>3, <1>4, <1>5, <1>7, ForwardKeeps
<1> QED
  BY <1>6, <1>7 DEF CustomOnRequest

LEMMA ArchiveOnRequestKeeps ==
  ASSUME ManagerInv, NEW r \in Req, ArchiveOnRequest(r)
  PROVE  ManagerInv' /\ OffersAscend
<1> DEFINE p == current[r]
<1>1. /\ TypeOK /\ MarkedEntryIsInUse /\ RemovedProviderHoldsNoRequest
      /\ TasksOwnStates /\ AddedOnce /\ Ascending /\ NothingAhead /\ ListsAgree
      /\ Dispatching /\ Destruction /\ Phases
  BY DEF ManagerInv
<1>2. Offered(r, "archive")
  BY DEF ArchiveOnRequest
<1>3. /\ dispatch = {r} /\ manager # "gone" /\ removing = {}
      /\ holder[r] \in {"request", "task"} /\ p \in Provider
      /\ \A t \in ToSet(ioTasks) : Owns(t) => t.req # r
  BY <1>2, OfferedFacts
<1>4. UNCHANGED <<manager, removing, ready, fetched, added, calls, removals>>
  BY DEF ArchiveOnRequest
<1>5. CASE /\ archive' = [archive EXCEPT ![p] = "loading"]
           /\ waiting' = [waiting EXCEPT ![p] = Append(@, r)]
           /\ fileTasks' = IF archive[p] = "idle"
                             THEN Append(fileTasks, [kind |-> "load", to |-> p])
                             ELSE fileTasks
           /\ Handled(r)
           /\ UNCHANGED <<entryVars, stateVars, ioTasks, callbacks, visited>>
  <2>1. [kind |-> "load", to |-> p] \in FileTask
    BY <1>3 DEF FileTask
  <2>2. fileTasks' \in Seq(FileTask)
    BY <1>1, <1>5, <2>1, FileTaskAppend DEF TypeOK
  <2>3. /\ dispatch' = {} /\ verdict' \in [Req -> {"none", "continue", "async"}]
        /\ \A s \in Req : verdict'[s] = "continue" => verdict[s] = "continue"
    BY <1>5, HandledFacts
  <2> DEFINE l == waiting[p]
  <2>4. /\ l \in Seq(Req) /\ IsInjective(l) /\ r \in Req
        /\ p \in visited[r] /\ r \notin ToSet(l)
    BY <1>1, <1>3 DEF TypeOK, ListsAgree, NothingAhead
  <2> HIDE DEF l
  <2>5. /\ Append(l, r) \in Seq(Req) /\ ToSet(Append(l, r)) = ToSet(l) \union {r}
    BY <2>4, AppendSet
  <2>6. IsInjective(Append(l, r))
    BY <2>4, AppendDistinct
  <2>7. /\ waiting' \in [Provider -> Seq(Req)] /\ waiting'[p] = Append(l, r)
        /\ \A x \in Provider : x # p => waiting'[x] = waiting[x]
    BY <1>1, <1>3, <1>5, <2>5 DEF TypeOK, l
  <2>8. /\ providers' = providers /\ deleting' = deleting /\ pending' = pending
        /\ current' = current /\ holder' = holder
    BY <1>5 DEF entryVars, stateVars
  <2>9. TypeOK'
    BY <1>1, <1>4, <1>5, <2>2, <2>3, <2>7, <2>8 DEF TypeOK
  <2>10. MarkedEntryIsInUse' /\ RemovedProviderHoldsNoRequest'
    BY <1>1, <1>4, <2>8 DEF MarkedEntryIsInUse, RemovedProviderHoldsNoRequest
  <2>11. TasksOwnStates' /\ AddedOnce' /\ Ascending' /\ NothingAhead'
    BY <1>1, <1>4, <1>5, <2>8
       DEF TasksOwnStates, NoClash, AddedOnce, Ascending, NothingAhead
  <2>12. ListsAgree'
    <3>1. ASSUME NEW x \in Provider, NEW s \in Req, s \in ToSet(waiting'[x])
          PROVE  x \in visited'[s] /\ (s \in dispatch' => current'[s] # x)
      <4>1. x \in visited[s]
        <5>1. CASE x = p /\ s = r
          BY <2>4, <5>1
        <5>2. CASE ~(x = p /\ s = r)
          <6>1. s \in ToSet(waiting[x])
            BY <2>5, <2>7, <3>1, <5>2 DEF l
          <6> QED
            BY <1>1, <6>1 DEF ListsAgree
        <5> QED
          BY <5>1, <5>2
      <4> QED
        BY <1>5, <2>3, <4>1
    <3>2. \A x \in Provider : IsInjective(waiting'[x])
      BY <1>1, <2>6, <2>7 DEF ListsAgree
    <3> QED
      BY <1>1, <1>4, <2>8, <3>1, <3>2 DEF ListsAgree
  <2>13. Dispatching' /\ Destruction'
    BY <1>1, <1>4, <2>3, <2>8 DEF Dispatching, Destruction
  <2>14. Phases'
    BY <1>1, <1>4, <1>5, <2>3, <2>8 DEF Phases
  <2> QED
    BY <1>5, <2>9, <2>10, <2>11, <2>12, <2>13, <2>14 DEF ManagerInv, OffersAscend
<1>6. CASE /\ Call(r, p, "serve", ioTasks) /\ Handled(r)
           /\ UNCHANGED <<entryVars, current, archVars, fileTasks, callbacks, visited>>
  <2>1. /\ dispatch' = {} /\ verdict' \in [Req -> {"none", "continue", "async"}]
        /\ \A s \in Req : verdict'[s] = "continue" => verdict[s] = "continue"
    BY <1>6, HandledFacts
  <2>2. "serve" \in Outcome /\ ioTasks \in Seq(IoTask) /\ NoClash(ioTasks)
    BY <1>1 DEF Outcome, TypeOK, TasksOwnStates
  <2> QED
    BY <1>1, <1>3, <1>4, <1>6, <2>1, <2>2, CallKeeps DEF TypeOK
<1>7. CASE Forward(r) /\ UNCHANGED <<archVars, taskVars>>
  <2>1. /\ ioTasks' \in Seq(IoTask) /\ NoClash(ioTasks)'
        /\ ToSet(ioTasks') \subseteq ToSet(ioTasks)
        /\ \A t \in ToSet(ioTasks') : Owns(t) => t.req # r
        /\ ready' \subseteq Req /\ fileTasks' \in Seq(FileTask)
    BY <1>1, <1>3, <1>4, <1>7 DEF TypeOK, TasksOwnStates, taskVars
  <2> QED
    BY <1>3, <1>4, <1>7, <2>1, ForwardKeeps
<1> QED
  BY <1>5, <1>6, <1>7 DEF ArchiveOnRequest

(* The first offer, or none. *)
LEMMA OnBeforeResourceLoadKeeps ==
  ASSUME ManagerInv, NEW r \in Req, OnBeforeResourceLoad(r)
  PROVE  ManagerInv' /\ OffersAscend
<1>1. /\ TypeOK /\ MarkedEntryIsInUse /\ RemovedProviderHoldsNoRequest
      /\ TasksOwnStates /\ AddedOnce /\ Ascending /\ NothingAhead /\ ListsAgree
      /\ Dispatching /\ Destruction /\ Phases
  BY DEF ManagerInv
<1>2. manager = "alive" /\ dispatch = {} /\ removing = {} /\ holder[r] = "none"
  BY DEF OnBeforeResourceLoad, IoIdle
<1>3. UNCHANGED <<manager, providers, deleting, removing, ready, archive, waiting,
                  ioTasks, fileTasks, callbacks, fetched, added, calls, removals>>
  BY DEF OnBeforeResourceLoad, archVars, taskVars
<1>4. /\ visited[r] = {}
      /\ \A p \in Provider : r \notin ToSet(pending[p]) /\ r \notin ToSet(waiting[p])
  BY <1>1, <1>2 DEF NothingAhead, ListsAgree
<1>5. \A t \in ToSet(ioTasks) :
        t \in IoTask /\ (Owns(t) => holder[t.req] = "task" /\ t.req \in Req)
  BY <1>1, ToSetType, TaskFields DEF TypeOK, TasksOwnStates
<1>6. CASE /\ holder' = [holder EXCEPT ![r] = "done"]
           /\ Return(r, "continue")
           /\ UNCHANGED <<pending, current, visited, dispatch>>
  <2>1. /\ holder' \in [Req -> {"none", "request", "task", "done"}]
        /\ holder'[r] = "done" /\ \A s \in Req : s # r => holder'[s] = holder[s]
        /\ verdict' \in [Req -> {"none", "continue", "async"}]
        /\ \A s \in Req : s # r => verdict'[s] = verdict[s]
    BY <1>1, <1>6 DEF Return, TypeOK
  <2>2. TypeOK'
    BY <1>1, <1>3, <1>6, <2>1 DEF TypeOK
  <2>3. MarkedEntryIsInUse' /\ RemovedProviderHoldsNoRequest'
    BY <1>1, <1>3, <1>6, <2>1 DEF MarkedEntryIsInUse, RemovedProviderHoldsNoRequest
  <2>4. TasksOwnStates'
    <3>1. ASSUME NEW t \in ToSet(ioTasks), Owns(t) PROVE holder'[t.req] = "task"
      <4>1. holder[t.req] = "task" /\ t.req \in Req /\ t.req # r
        BY <1>2, <1>5, <3>1
      <4> QED
        BY <2>1, <4>1
    <3> QED
      BY <1>1, <1>3, <3>1 DEF TasksOwnStates, NoClash
  <2>5. AddedOnce' /\ Ascending' /\ NothingAhead'
    BY <1>1, <1>3, <1>6, <2>1 DEF AddedOnce, Ascending, NothingAhead
  <2>6. ListsAgree'
    <3>1. \A s \in Req : holder'[s] \in {"request", "task"} <=> holder[s] \in {"request", "task"}
      BY <1>2, <2>1
    <3> QED
      BY <1>1, <1>3, <1>6, <3>1 DEF ListsAgree
  <2>7. Dispatching' /\ Destruction'
    BY <1>1, <1>2, <1>3, <1>6 DEF Dispatching, Destruction
  <2>8. Phases'
    BY <1>1, <1>3, <2>1 DEF Phases
  <2> QED
    BY <1>6, <2>2, <2>3, <2>4, <2>5, <2>6, <2>7, <2>8 DEF ManagerInv, OffersAscend
<1>7. ASSUME NEW p \in NextValid(0),
             pending' = [pending EXCEPT ![p] = Append(@, r)],
             MakeRequest(r, p), UNCHANGED verdict
      PROVE  ManagerInv' /\ OffersAscend
  <2>1. p \in Provider /\ p \in ToSet(providers) /\ p \notin deleting
    BY NextValidFacts
  <2> DEFINE l == pending[p]
  <2>2. /\ l \in Seq(Req) /\ IsInjective(l) /\ r \in Req /\ r \notin ToSet(l)
    BY <1>1, <1>2, <1>4, <2>1 DEF TypeOK, ListsAgree
  <2> HIDE DEF l
  <2>3. /\ Append(l, r) \in Seq(Req) /\ ToSet(Append(l, r)) = ToSet(l) \union {r}
        /\ Append(l, r) # <<>>
    BY <2>2, AppendSet
  <2>4. IsInjective(Append(l, r))
    BY <2>2, AppendDistinct
  <2>5. /\ pending' \in [Provider -> Seq(Req)] /\ pending'[p] = Append(l, r)
        /\ \A x \in Provider : x # p => pending'[x] = pending[x]
    BY <1>1, <1>7, <2>1, <2>3 DEF TypeOK, l
  <2>6. /\ holder' \in [Req -> {"none", "request", "task", "done"}]
        /\ holder'[r] = "request" /\ \A s \in Req : s # r => holder'[s] = holder[s]
        /\ current' \in [Req -> Provider \union {NoProvider}]
        /\ current'[r] = p /\ \A s \in Req : s # r => current'[s] = current[s]
        /\ visited' \in [Req -> SUBSET Provider]
        /\ visited'[r] = {p} /\ \A s \in Req : s # r => visited'[s] = visited[s]
        /\ dispatch' = {r}
    BY <1>1, <1>4, <1>7, <2>1 DEF MakeRequest, TypeOK
  <2>7. TypeOK'
    BY <1>1, <1>3, <1>7, <2>5, <2>6 DEF TypeOK
  <2>8. MarkedEntryIsInUse'
    <3>1. ASSUME NEW x \in deleting PROVE x \in ToSet(providers) /\ pending'[x] # <<>>
      BY <1>1, <2>1, <2>5, <3>1 DEF MarkedEntryIsInUse, TypeOK
    <3> QED
      BY <1>3, <3>1 DEF MarkedEntryIsInUse
  <2>9. RemovedProviderHoldsNoRequest'
    BY <1>1, <1>2, <1>3, <2>1, <2>6 DEF RemovedProviderHoldsNoRequest
  <2>10. TasksOwnStates'
    <3>1. ASSUME NEW t \in ToSet(ioTasks), Owns(t) PROVE holder'[t.req] = "task"
      <4>1. holder[t.req] = "task" /\ t.req \in Req /\ t.req # r
        BY <1>2, <1>5, <3>1
      <4> QED
        BY <2>6, <4>1
    <3> QED
      BY <1>1, <1>3, <3>1 DEF TasksOwnStates, NoClash
  <2>11. AddedOnce'
    BY <1>1, <1>3, <2>1, <2>6 DEF AddedOnce
  <2>12. Ascending'
    BY <1>1, <1>3 DEF Ascending
  <2>13. NothingAhead'
    <3>1. ASSUME NEW s \in Req, holder'[s] \in {"request", "task"}
          PROVE  /\ current'[s] \in visited'[s]
                 /\ \A x \in visited'[s] : OrderOf[x] <= OrderOf[current'[s]]
                 /\ \A i, j \in DOMAIN providers :
                      providers[i] \in visited'[s] /\ providers[j] = current'[s] => i <= j
      <4>1. CASE s = r
        <5>1. OrderOf[p] <= OrderOf[p]
          BY <2>1, ManagerAssumption
        <5>2. \A i, j \in DOMAIN providers : providers[i] = p /\ providers[j] = p => i <= j
          BY <1>1 DEF Ascending, IsInjective, TypeOK
        <5> QED
          BY <2>6, <4>1, <5>1, <5>2
      <4>2. CASE s # r
        BY <1>1, <2>6, <3>1, <4>2 DEF NothingAhead
      <4> QED
        BY <4>1, <4>2
    <3>2. \A s \in Req : holder'[s] = "none" => visited'[s] = {}
      BY <1>1, <2>6 DEF NothingAhead
    <3> QED
      BY <1>3, <3>1, <3>2 DEF NothingAhead
  <2>14. ListsAgree'
    <3>1. ASSUME NEW s \in Req, holder'[s] \in {"request", "task"}
          PROVE  current'[s] \in ToSet(providers) /\ s \in ToSet(pending'[current'[s]])
      <4>1. CASE s = r
        BY <2>1, <2>3, <2>5, <2>6, <4>1
      <4>2. CASE s # r
        <5>1. /\ current[s] \in Provider /\ current[s] \in ToSet(providers)
              /\ s \in ToSet(pending[current[s]])
          BY <1>2, <2>6, <3>1, <4>2, LiveEntry
        <5>2. s \in ToSet(pending'[current[s]])
          BY <2>3, <2>5, <5>1 DEF l
        <5> QED
          BY <2>6, <4>2, <5>1, <5>2
      <4> QED
        BY <4>1, <4>2
    <3>2. ASSUME NEW x \in Provider, NEW s \in Req, s \in ToSet(pending'[x])
          PROVE  current'[s] = x /\ holder'[s] \in {"request", "task"}
      <4>1. CASE s = r
        <5>1. x = p
          BY <1>4, <2>5, <3>2, <4>1
        <5> QED
          BY <2>6, <4>1, <5>1
      <4>2. CASE s # r
        <5>1. s \in ToSet(pending[x])
          BY <2>3, <2>5, <3>2, <4>2 DEF l
        <5> QED
          BY <1>1, <1>2, <2>6, <4>2, <5>1 DEF ListsAgree
      <4> QED
        BY <4>1, <4>2
    <3>3. \A x \in Provider : IsInjective(pending'[x])
      BY <1>1, <1>2, <2>4, <2>5 DEF ListsAgree
    <3>4. ASSUME NEW x \in Provider, NEW s \in Req, s \in ToSet(waiting[x])
          PROVE  x \in visited'[s] /\ (s \in dispatch' => current'[s] # x)
      BY <1>1, <1>4, <2>6, <3>4 DEF ListsAgree
    <3> QED
      BY <1>1, <1>3, <3>1, <3>2, <3>3, <3>4 DEF ListsAgree
  <2>15. Dispatching' /\ Destruction'
    BY <1>1, <1>2, <1>3, <2>6 DEF Dispatching, Destruction
  <2>16. Phases'
    BY <1>1, <1>2, <1>3, <1>7, <2>6 DEF Phases
  <2>17. OffersAscend
    BY <1>3, <1>4, <2>1, <2>6 DEF OffersAscend
  <2> QED
    BY <2>7, <2>8, <2>9, <2>10, <2>11, <2>12, <2>13, <2>14, <2>15, <2>16, <2>17
       DEF ManagerInv
<1> QED
  BY <1>6, <1>7 DEF OnBeforeResourceLoad

----------------------------------------------------------------------------
(* Tasks. *)
LEMMA TakenFacts ==
  ASSUME ManagerInv, ioTasks # <<>>
  PROVE  /\ Head(ioTasks) \in IoTask /\ Head(ioTasks) \in ToSet(ioTasks)
         /\ Tail(ioTasks) \in Seq(IoTask) /\ NoClash(Tail(ioTasks))
         /\ ToSet(Tail(ioTasks)) \subseteq ToSet(ioTasks)
         /\ \A t \in ToSet(Tail(ioTasks)) : ~Clash(Head(ioTasks), t)
         /\ Owns(Head(ioTasks)) => holder[Head(ioTasks).req] = "task"
<1>1. ioTasks \in Seq(IoTask) /\ NoClash(ioTasks)
  BY DEF ManagerInv, TypeOK, TasksOwnStates
<1>2. /\ Head(ioTasks) \in IoTask /\ Tail(ioTasks) \in Seq(IoTask)
      /\ ToSet(ioTasks) = {Head(ioTasks)} \union ToSet(Tail(ioTasks))
  BY <1>1, TailSet
<1>3. /\ NoClash(Tail(ioTasks))
      /\ \A t \in ToSet(Tail(ioTasks)) : ~Clash(Head(ioTasks), t)
  BY <1>1, NoClashTail
<1> QED
  BY <1>2, <1>3 DEF ManagerInv, TasksOwnStates

(* A task that owns the state of a request, taken from the queue. *)
LEMMA OwnerTaken ==
  ASSUME ManagerInv, IoIdle, ioTasks # <<>>, Owns(Head(ioTasks)),
         ioTasks' = Tail(ioTasks)
  PROVE  /\ Head(ioTasks).req \in Req /\ holder[Head(ioTasks).req] = "task"
         /\ removing = {} /\ dispatch = {}
         /\ ioTasks' \in Seq(IoTask) /\ NoClash(ioTasks)'
         /\ ToSet(ioTasks') \subseteq ToSet(ioTasks)
         /\ \A t \in ToSet(ioTasks') : Owns(t) => t.req # Head(ioTasks).req
<1>1. /\ Head(ioTasks) \in IoTask
      /\ Tail(ioTasks) \in Seq(IoTask) /\ NoClash(Tail(ioTasks))
      /\ ToSet(Tail(ioTasks)) \subseteq ToSet(ioTasks)
      /\ \A t \in ToSet(Tail(ioTasks)) : ~Clash(Head(ioTasks), t)
      /\ holder[Head(ioTasks).req] = "task"
  BY TakenFacts
<1>2. NoClash(ioTasks)'
  BY <1>1 DEF NoClash
<1> QED
  BY <1>1, <1>2, TaskFields DEF IoIdle, Clash

(* Without a manager only the state is destroyed. *)
LEMMA GoneFinishKeeps ==
  ASSUME ManagerInv, manager = "gone",
         NEW r \in Req, holder[r] = "task", Finish(r),
         ioTasks' \in Seq(IoTask), NoClash(ioTasks)',
         ToSet(ioTasks') \subseteq ToSet(ioTasks),
         \A t \in ToSet(ioTasks') : Owns(t) => t.req # r,
         UNCHANGED <<manager, entryVars, dispatch, removing, ready, archVars,
                     fileTasks, verdict, fetched, usedVars>>
  PROVE  ManagerInv' /\ OffersAscend
<1>1. /\ TypeOK /\ MarkedEntryIsInUse /\ RemovedProviderHoldsNoRequest
      /\ TasksOwnStates /\ AddedOnce /\ Ascending /\ NothingAhead /\ ListsAgree
      /\ Dispatching /\ Destruction /\ Phases
  BY DEF ManagerInv
<1>2. /\ manager' = manager /\ providers' = providers /\ deleting' = deleting
      /\ pending' = pending /\ dispatch' = dispatch /\ removing' = removing
      /\ ready' = ready /\ archive' = archive /\ waiting' = waiting
      /\ fileTasks' = fileTasks /\ verdict' = verdict /\ fetched' = fetched
      /\ added' = added /\ visited' = visited /\ calls' = calls /\ removals' = removals
  BY DEF entryVars, archVars, usedVars
<1>3. /\ holder' \in [Req -> {"none", "request", "task", "done"}]
      /\ holder'[r] = "done" /\ \A s \in Req : s # r => holder'[s] = holder[s]
      /\ current' \in [Req -> Provider \union {NoProvider}]
      /\ \A s \in Req : s # r => current'[s] = current[s]
      /\ callbacks' \in [Req -> Nat]
      /\ \A s \in Req : s # r => callbacks'[s] = callbacks[s]
  BY <1>1 DEF Finish, TypeOK
<1>4. dispatch = {}
  BY <1>1 DEF Destruction
<1>5. TypeOK'
  BY <1>1, <1>2, <1>3 DEF TypeOK
<1>6. MarkedEntryIsInUse' /\ RemovedProviderHoldsNoRequest'
  BY <1>1, <1>2, <1>3 DEF MarkedEntryIsInUse, RemovedProviderHoldsNoRequest
<1>7. TasksOwnStates'
  <2>1. ASSUME NEW t \in ToSet(ioTasks'), Owns(t) PROVE holder'[t.req] = "task"
    <3>1. t \in IoTask /\ t \in ToSet(ioTasks)
      BY <2>1, ToSetType
    <3>2. t.req \in Req /\ t.req # r
      BY <2>1, <3>1, TaskFields
    <3>3. holder[t.req] = "task"
      BY <1>1, <2>1, <3>1 DEF TasksOwnStates
    <3> QED
      BY <1>3, <3>2, <3>3
  <2> QED
    BY <2>1 DEF TasksOwnStates
<1>8. AddedOnce' /\ Ascending'
  BY <1>1, <1>2 DEF AddedOnce, Ascending
<1>9. NothingAhead'
  <2>1. ASSUME NEW s \in Req, holder'[s] # "done"
        PROVE  holder[s] = holder'[s] /\ current[s] = current'[s]
    BY <1>3, <2>1
  <2>2. \A s \in Req : holder'[s] = "none" => visited[s] = {}
    BY <1>1, <2>1 DEF NothingAhead
  <2>3. ASSUME NEW s \in Req, holder'[s] \in {"request", "task"}
        PROVE  /\ current'[s] \in visited[s]
               /\ \A p \in visited[s] : OrderOf[p] <= OrderOf[current'[s]]
               /\ \A i, j \in DOMAIN providers :
                    providers[i] \in visited[s] /\ providers[j] = current'[s] => i <= j
    <3>1. holder[s] \in {"request", "task"} /\ current[s] = current'[s]
      BY <2>1, <2>3
    <3> QED
      BY <1>1, <3>1 DEF NothingAhead
  <2> QED
    BY <1>2, <2>2, <2>3 DEF NothingAhead
<1>10. ListsAgree'
  BY <1>1, <1>2, <1>4 DEF ListsAgree
<1>11. Dispatching' /\ Destruction'
  BY <1>1, <1>2, <1>4 DEF Dispatching, Destruction
<1>12. Phases'
  BY <1>1, <1>2, <1>3 DEF Phases
<1> QED
  BY <1>2, <1>5, <1>6, <1>7, <1>8, <1>9, <1>10, <1>11, <1>12 DEF ManagerInv, OffersAscend

(* StopRequest, of which Forward may be a part. *)
LEMMA StopKeeps ==
  ASSUME ManagerInv, manager # "gone", removing = {}, dispatch = {},
         NEW r \in Req, holder[r] = "task", StopRequest(r),
         ready' \subseteq Req,
         ioTasks' \in Seq(IoTask), NoClash(ioTasks)',
         ToSet(ioTasks') \subseteq ToSet(ioTasks),
         \A t \in ToSet(ioTasks') : Owns(t) => t.req # r,
         UNCHANGED <<manager, dispatch, removing, archVars, fileTasks, verdict,
                     fetched, usedVars>>
  PROVE  ManagerInv' /\ OffersAscend
<1>1. /\ Detach(r) /\ Finish(r)
      /\ pending' = [pending EXCEPT ![current[r]] = Erase(@, r)]
  BY DEF StopRequest
<1>2. /\ fileTasks' \in Seq(FileTask)
      /\ verdict' \in [Req -> {"none", "continue", "async"}]
      /\ \A s \in Req : s # r => verdict'[s] = verdict[s]
      /\ UNCHANGED <<manager, removing, archVars, fetched, added, visited,
                     calls, removals>>
      /\ dispatch' \subseteq dispatch \ {r}
  BY DEF ManagerInv, TypeOK, usedVars
<1>3. ManagerInv'
  BY <1>1, <1>2, LeaveKeeps
<1> QED
  BY <1>2, <1>3 DEF OffersAscend

LEMMA RunContinueTaskKeeps ==
  ASSUME ManagerInv, RunContinueTask
  PROVE  ManagerInv' /\ OffersAscend
<1> DEFINE r == Head(ioTasks).req
<1>1. /\ IoIdle /\ ioTasks # <<>> /\ Owns(Head(ioTasks)) /\ ioTasks' = Tail(ioTasks)
      /\ UNCHANGED <<manager, removing, archVars, fileTasks, fetched, added,
                     calls, removals>>
  BY DEF RunContinueTask, NextTask, Owns
<1>2. /\ r \in Req /\ holder[r] = "task" /\ removing = {} /\ dispatch = {}
      /\ ioTasks' \in Seq(IoTask) /\ NoClash(ioTasks)'
      /\ ToSet(ioTasks') \subseteq ToSet(ioTasks)
      /\ \A t \in ToSet(ioTasks') : Owns(t) => t.req # r
  BY <1>1, OwnerTaken
<1>3. fileTasks' \in Seq(FileTask) /\ ready \subseteq Req
  BY <1>1 DEF ManagerInv, TypeOK
<1>4. CASE /\ manager = "gone" /\ Finish(r)
           /\ UNCHANGED <<entryVars, ready, dispatch, visited, verdict>>
  <2>1. UNCHANGED usedVars
    BY <1>1, <1>4 DEF usedVars
  <2> QED
    BY <1>1, <1>2, <1>4, <2>1, GoneFinishKeeps
<1>5. CASE /\ manager # "gone" /\ ready' = ready \union {r}
           /\ StopRequest(r) /\ UNCHANGED <<dispatch, visited, verdict>>
  <2>1. UNCHANGED usedVars /\ ready' \subseteq Req
    BY <1>1, <1>2, <1>3, <1>5 DEF usedVars
  <2> QED
    BY <1>1, <1>2, <1>5, <2>1, StopKeeps
<1>6. CASE manager # "gone" /\ Forward(r) /\ UNCHANGED ready
  <2>1. dispatch \subseteq {r} /\ holder[r] \in {"request", "task"} /\ ready' \subseteq Req
    BY <1>2, <1>3, <1>6
  <2> QED
    BY <1>1, <1>2, <1>3, <1>6, <2>1, ForwardKeeps
<1> HIDE DEF r
<1> QED
  BY <1>4, <1>5, <1>6 DEF RunContinueTask, r

LEMMA RunStopTaskKeeps ==
  ASSUME ManagerInv, RunStopTask
  PROVE  ManagerInv' /\ OffersAscend
<1> DEFINE r == Head(ioTasks).req
<1>1. /\ IoIdle /\ ioTasks # <<>> /\ Owns(Head(ioTasks)) /\ ioTasks' = Tail(ioTasks)
      /\ UNCHANGED <<manager, dispatch, removing, ready, archVars, fileTasks,
                     verdict, fetched, usedVars>>
  BY DEF RunStopTask, NextTask, Owns
<1>2. /\ r \in Req /\ holder[r] = "task" /\ removing = {} /\ dispatch = {}
      /\ ioTasks' \in Seq(IoTask) /\ NoClash(ioTasks)'
      /\ ToSet(ioTasks') \subseteq ToSet(ioTasks)
      /\ \A t \in ToSet(ioTasks') : Owns(t) => t.req # r
  BY <1>1, OwnerTaken
<1>3. ready' \subseteq Req
  BY <1>1 DEF ManagerInv, TypeOK
<1>4. CASE manager = "gone" /\ Finish(r) /\ UNCHANGED entryVars
  BY <1>1, <1>2, <1>4, GoneFinishKeeps
<1>5. CASE manager # "gone" /\ StopRequest(r)
  BY <1>1, <1>2, <1>3, <1>5, StopKeeps
<1> HIDE DEF r
<1> QED
  BY <1>4, <1>5 DEF RunStopTask, r

LEMMA RunCallTaskKeeps ==
  ASSUME ManagerInv, RunCallTask
  PROVE  ManagerInv' /\ OffersAscend
<1> DEFINE t == Head(ioTasks)
<1>1. /\ IoIdle /\ ioTasks # <<>> /\ t.kind = "call"
      /\ Call(t.req, t.to, t.outcome, Tail(ioTasks))
      /\ UNCHANGED <<manager, entryVars, current, dispatch, removing, ready,
                     archVars, fileTasks, seenVars, usedVars>>
  BY DEF RunCallTask, NextTask
<1>2. /\ t \in IoTask /\ Tail(ioTasks) \in Seq(IoTask) /\ NoClash(Tail(ioTasks))
      /\ ToSet(Tail(ioTasks)) \subseteq ToSet(ioTasks)
  BY <1>1, TakenFacts
<1>3. t.req \in Req /\ t.to \in Provider /\ t.outcome \in Outcome
  BY <1>1, <1>2, TaskFields
<1>4. /\ UNCHANGED <<visited, callbacks, added, fetched, removals>>
      /\ dispatch' \subseteq dispatch /\ dispatch' = {}
      /\ calls' \in [Provider \X Req -> 0..MaxCalls]
      /\ verdict' \in [Req -> {"none", "continue", "async"}]
      /\ \A s \in Req : verdict'[s] = "continue" => verdict[s] = "continue"
  BY <1>1 DEF IoIdle, seenVars, usedVars, ManagerInv, TypeOK
<1> HIDE DEF t
<1> QED
  BY <1>1, <1>2, <1>3, <1>4, CallKeeps

LEMMA NoClashConcat ==
  ASSUME NEW S, NEW q \in Seq(S), NEW u \in Seq(S), NoClash(q), NoClash(u),
         \A s \in ToSet(q), t \in ToSet(u) : ~Clash(s, t) /\ ~Clash(t, s)
  PROVE  NoClash(q \o u)
<1>1. /\ DOMAIN (q \o u) = 1..(Len(q) + Len(u)) /\ Len(q) \in Nat /\ Len(u) \in Nat
      /\ DOMAIN q = 1..Len(q) /\ DOMAIN u = 1..Len(u)
      /\ \A i \in 1..Len(q) : (q \o u)[i] = q[i]
      /\ \A i \in (Len(q) + 1)..(Len(q) + Len(u)) : (q \o u)[i] = u[i - Len(q)]
  OBVIOUS
<1>2. \A i \in 1..Len(q) : q[i] \in ToSet(q)
  BY <1>1 DEF ToSet
<1>3. \A i \in (Len(q) + 1)..(Len(q) + Len(u)) :
        i - Len(q) \in 1..Len(u) /\ u[i - Len(q)] \in ToSet(u)
  BY <1>1 DEF ToSet
<1>4. ASSUME NEW i \in 1..(Len(q) + Len(u)), NEW j \in 1..(Len(q) + Len(u)),
             Clash((q \o u)[i], (q \o u)[j])
      PROVE  i = j
  <2>1. CASE i \in 1..Len(q) /\ j \in 1..Len(q)
    BY <1>1, <1>4, <2>1 DEF NoClash
  <2>2. CASE i > Len(q) /\ j > Len(q)
    <3>1. /\ i - Len(q) \in 1..Len(u) /\ j - Len(q) \in 1..Len(u)
          /\ Clash(u[i - Len(q)], u[j - Len(q)])
      BY <1>1, <1>3, <1>4, <2>2
    <3>2. i - Len(q) = j - Len(q)
      BY <1>1, <3>1 DEF NoClash
    <3> QED
      BY <1>1, <3>2
  <2>3. CASE i \in 1..Len(q) /\ j > Len(q)
    BY <1>1, <1>2, <1>3, <1>4, <2>3
  <2>4. CASE i > Len(q) /\ j \in 1..Len(q)
    BY <1>1, <1>2, <1>3, <1>4, <2>4
  <2> QED
    BY <1>1, <2>1, <2>2, <2>3, <2>4
<1> QED
  BY <1>1, <1>4 DEF NoClash

(* Several requests lose their state to a task each. *)
LEMMA HandoverAll ==
  ASSUME ManagerInv, NEW p \in Provider,
         NEW held \in Seq(Req), IsInjective(held),
         \A r \in ToSet(held) : HasState(r, p),
         NEW outcome \in Outcome,
         NEW rest \in Seq(IoTask), NoClash(rest), ToSet(rest) \subseteq ToSet(ioTasks),
         ioTasks' = rest \o [i \in DOMAIN held |-> Handover(held[i], outcome)],
         holder' = [r \in Req |-> IF r \in ToSet(held) THEN "task" ELSE holder[r]]
  PROVE  /\ ioTasks' \in Seq(IoTask) /\ TasksOwnStates'
         /\ \A t \in ToSet(ioTasks') : Adds(t) => t \in ToSet(ioTasks)
         /\ holder' \in [Req -> {"none", "request", "task", "done"}]
         /\ \A r \in Req : r \in ToSet(held) => holder[r] = "request" /\ holder'[r] = "task"
         /\ \A r \in Req : r \notin ToSet(held) => holder'[r] = holder[r]
<1> DEFINE new == [i \in DOMAIN held |-> Handover(held[i], outcome)]
<1>1. TypeOK /\ TasksOwnStates
  BY DEF ManagerInv
<1>2. /\ holder' \in [Req -> {"none", "request", "task", "done"}]
      /\ \A r \in Req : r \in ToSet(held) => holder[r] = "request" /\ holder'[r] = "task"
      /\ \A r \in Req : r \notin ToSet(held) => holder'[r] = holder[r]
  BY <1>1 DEF TypeOK, HasState
<1>3. /\ Len(held) \in Nat /\ DOMAIN held = 1..Len(held)
      /\ \A i \in DOMAIN held : held[i] \in Req /\ held[i] \in ToSet(held)
  BY DEF ToSet
<1>4. \A i \in DOMAIN held :
        /\ Handover(held[i], outcome) \in IoTask
        /\ Owns(Handover(held[i], outcome)) /\ ~Adds(Handover(held[i], outcome))
        /\ Handover(held[i], outcome).req = held[i]
  BY <1>3, TaskFields
<1>5. new \in Seq(IoTask) /\ DOMAIN new = DOMAIN held
      /\ \A i \in DOMAIN held : new[i] = Handover(held[i], outcome)
  <2>1. DOMAIN new = DOMAIN held
        /\ \A i \in DOMAIN held : new[i] = Handover(held[i], outcome)
    OBVIOUS
  <2>2. new \in [1..Len(held) -> IoTask]
    BY <1>3, <1>4
  <2> QED
    BY <1>3, <2>1, <2>2
<1> HIDE DEF new
<1>6. \A t \in ToSet(new) : Owns(t) /\ ~Adds(t) /\ t.req \in ToSet(held) /\ t.req \in Req
  <2>1. TAKE t \in ToSet(new)
  <2>2. PICK i \in DOMAIN held : t = Handover(held[i], outcome)
    BY <1>5 DEF ToSet
  <2> QED
    BY <1>3, <1>4, <2>2
<1>7. NoClash(new)
  <2>1. ASSUME NEW i \in DOMAIN new, NEW j \in DOMAIN new, Clash(new[i], new[j])
        PROVE  i = j
    <3>1. held[i] = held[j]
      BY <1>4, <1>5, <2>1 DEF Clash
    <3> QED
      BY <1>5, <3>1 DEF IsInjective
  <2> QED
    BY <2>1 DEF NoClash
<1>8. \A t \in ToSet(rest) : t \in IoTask /\ (Owns(t) => holder[t.req] = "task")
  BY <1>1, ToSetType DEF TasksOwnStates
<1>9. \A t \in ToSet(rest), u \in ToSet(new) : ~Clash(t, u) /\ ~Clash(u, t)
  BY <1>2, <1>6, <1>8 DEF Clash
<1>10. NoClash(rest \o new)
  BY <1>5, <1>7, <1>9, NoClashConcat
<1>11. ioTasks' = rest \o new
  BY DEF new
<1>12. ioTasks' \in Seq(IoTask) /\ ToSet(ioTasks') = ToSet(rest) \union ToSet(new)
  <2>1. /\ rest \o new \in Seq(IoTask)
        /\ ToSet(rest \o new) = ToSet(rest) \union ToSet(new)
    <3>1. rest \in Seq(IoTask) /\ new \in Seq(IoTask)
      BY <1>5
    <3>2. \A q, u \in Seq(IoTask) :
            q \o u \in Seq(IoTask) /\ ToSet(q \o u) = ToSet(q) \union ToSet(u)
      BY ConcatSet, Zenon
    <3> QED
      BY <3>1, <3>2, Zenon
  <2> QED
    BY <1>11, <2>1
<1>13. ASSUME NEW t \in ToSet(ioTasks'), Owns(t) PROVE holder'[t.req] = "task"
  <2>1. CASE t \in ToSet(new)
    BY <1>2, <1>6, <2>1
  <2>2. CASE t \in ToSet(rest)
    <3>1. t.req \in Req /\ holder[t.req] = "task"
      BY <1>8, <1>13, <2>2, TaskFields
    <3> QED
      BY <1>2, <3>1
  <2> QED
    BY <1>12, <1>13, <2>1, <2>2
<1>14. NoClash(ioTasks)'
  BY <1>10, <1>11 DEF NoClash
<1> QED
  BY <1>2, <1>6, <1>12, <1>13, <1>14 DEF TasksOwnStates

LEMMA RunArchiveTaskKeeps ==
  ASSUME ManagerInv, RunArchiveTask
  PROVE  ManagerInv' /\ OffersAscend
<1> DEFINE p    == Head(ioTasks).to
           held == Filter(waiting[p], {r \in HasResource[p] : HasState(r, p)})
<1>1. /\ IoIdle /\ ioTasks # <<>> /\ Head(ioTasks).kind = "archive"
      /\ UNCHANGED <<manager, entryVars, current, dispatch, removing, ready,
                     fileTasks, seenVars, usedVars>>
  BY DEF RunArchiveTask, NextTask
<1>2. /\ Head(ioTasks) \in IoTask /\ Tail(ioTasks) \in Seq(IoTask)
      /\ NoClash(Tail(ioTasks)) /\ ToSet(Tail(ioTasks)) \subseteq ToSet(ioTasks)
  BY <1>1, TakenFacts
<1>3. p \in Provider
  BY <1>1, <1>2, TaskFields
<1>4. /\ TypeOK /\ MarkedEntryIsInUse /\ RemovedProviderHoldsNoRequest
      /\ TasksOwnStates /\ AddedOnce /\ Ascending /\ NothingAhead /\ ListsAgree
      /\ Dispatching /\ Destruction /\ Phases
  BY DEF ManagerInv
<1>5. /\ manager' = manager /\ providers' = providers /\ deleting' = deleting
      /\ pending' = pending /\ current' = current /\ dispatch' = dispatch
      /\ dispatch = {} /\ removing' = removing /\ ready' = ready
      /\ fileTasks' = fileTasks /\ verdict' = verdict /\ callbacks' = callbacks
      /\ fetched' = fetched /\ added' = added /\ visited' = visited
      /\ calls' = calls /\ removals' = removals
  BY <1>1 DEF entryVars, seenVars, usedVars, IoIdle
<1>6. CASE /\ p \notin ToSet(providers)
           /\ ioTasks' = Tail(ioTasks) /\ UNCHANGED <<archVars, holder>>
  <2>1. /\ NoClash(ioTasks)' /\ ioTasks' \in Seq(IoTask)
        /\ \A t \in ToSet(ioTasks') : t \in ToSet(ioTasks)
    BY <1>2, <1>6 DEF NoClash
  <2>2. /\ archive' = archive /\ waiting' = waiting
        /\ UNCHANGED <<entryVars, stateVars>>
    BY <1>1, <1>6 DEF archVars, stateVars
  <2> QED
    BY <1>4, <1>5, <2>1, <2>2, QuietKeeps DEF TypeOK, Phases
<1>7. CASE /\ archive' = [archive EXCEPT ![p] = "loaded"]
           /\ waiting' = [waiting EXCEPT ![p] = <<>>]
           /\ ioTasks' = Tail(ioTasks) \o
                [i \in DOMAIN held |-> Handover(held[i], "serve")]
           /\ holder' = [r \in Req |-> IF r \in ToSet(held) THEN "task" ELSE holder[r]]
  <2>1. waiting[p] \in Seq(Req) /\ IsInjective(waiting[p])
    BY <1>3, <1>4 DEF TypeOK, ListsAgree
  <2>2. /\ held \in Seq(Req) /\ IsInjective(held)
        /\ \A r \in ToSet(held) : HasState(r, p)
    BY <2>1, FilterFacts
  <2> HIDE DEF held
  <2>3. "serve" \in Outcome
    BY DEF Outcome
  <2>4. /\ ioTasks' \in Seq(IoTask) /\ TasksOwnStates'
        /\ \A t \in ToSet(ioTasks') : Adds(t) => t \in ToSet(ioTasks)
        /\ holder' \in [Req -> {"none", "request", "task", "done"}]
        /\ \A r \in Req : r \in ToSet(held) => holder[r] = "request" /\ holder'[r] = "task"
        /\ \A r \in Req : r \notin ToSet(held) => holder'[r] = holder[r]
    BY <1>2, <1>3, <1>7, <2>2, <2>3, HandoverAll
  <2>5. /\ <<>> \in Seq(Req) /\ ToSet(<<>>) = {} /\ IsInjective(<<>>)
    <3>1. <<>> \in Seq(Req) /\ ToSet(<<>>) = {}
      BY EmptySet
    <3>2. DOMAIN <<>> = {}
      OBVIOUS
    <3> QED
      BY <3>1, <3>2 DEF IsInjective
  <2>6. /\ waiting' \in [Provider -> Seq(Req)] /\ waiting'[p] = <<>>
        /\ \A x \in Provider : x # p => waiting'[x] = waiting[x]
        /\ archive' \in [Provider -> {"idle", "loading", "loaded"}]
    BY <1>3, <1>4, <1>7, <2>5 DEF TypeOK
  <2>7. \A r \in Req :
          /\ holder'[r] \in {"request", "task"} <=> holder[r] \in {"request", "task"}
          /\ holder'[r] = "none" <=> holder[r] = "none"
          /\ holder'[r] = "done" <=> holder[r] = "done"
          /\ holder'[r] = "request" => holder[r] = "request"
    BY <2>4
  <2>8. TypeOK'
    BY <1>4, <1>5, <2>4, <2>6 DEF TypeOK
  <2>9. MarkedEntryIsInUse' /\ RemovedProviderHoldsNoRequest'
    BY <1>4, <1>5, <2>7 DEF MarkedEntryIsInUse, RemovedProviderHoldsNoRequest
  <2>10. AddedOnce' /\ Ascending'
    BY <1>4, <1>5, <2>4 DEF AddedOnce, Ascending
  <2>11. NothingAhead'
    BY <1>4, <1>5, <2>7 DEF NothingAhead
  <2>12. ListsAgree'
    <3>1. ASSUME NEW x \in Provider, NEW s \in Req, s \in ToSet(waiting'[x])
          PROVE  x \in visited[s]
      BY <1>4, <2>5, <2>6, <3>1 DEF ListsAgree
    <3>2. \A x \in Provider : IsInjective(waiting'[x])
      BY <1>4, <2>5, <2>6 DEF ListsAgree
    <3> QED
      BY <1>4, <1>5, <2>7, <3>1, <3>2 DEF ListsAgree
  <2>13. Dispatching' /\ Destruction'
    BY <1>4, <1>5 DEF Dispatching, Destruction
  <2>14. Phases'
    BY <1>4, <1>5, <2>7 DEF Phases
  <2> QED
    BY <1>5, <2>4, <2>8, <2>9, <2>10, <2>11, <2>12, <2>13, <2>14 DEF ManagerInv, OffersAscend
<1> QED
  BY <1>6, <1>7 DEF RunArchiveTask

(* AddProvider keeps the ascending order. *)
LEMMA InsertFactsHere ==
  ASSUME ManagerInv, NEW p \in Provider, p \notin ToSet(providers), Insert(p)
  PROVE  /\ providers' \in Seq(Provider)
         /\ ToSet(providers') = ToSet(providers) \union {p}
         /\ IsInjective(providers')
         /\ \A i, j \in DOMAIN providers' :
              i <= j => OrderOf[providers'[i]] <= OrderOf[providers'[j]]
         /\ \A x, y : x # p /\ y # p /\ NotBehind(providers, x, y) =>
              NotBehind(providers', x, y)
<1> DEFINE later == {i \in DOMAIN providers : OrderOf[providers[i]] > OrderOf[p]}
           at == IF later = {} THEN Len(providers) + 1
                 ELSE CHOOSE i \in later : \A j \in later : i <= j
           new == InsertAt(providers, at, p)
<1>1. /\ providers \in Seq(Provider) /\ IsInjective(providers)
      /\ \A i, j \in DOMAIN providers :
           i <= j => OrderOf[providers[i]] <= OrderOf[providers[j]]
  BY DEF ManagerInv, TypeOK, Ascending
<1>2. /\ Len(providers) \in Nat /\ DOMAIN providers = 1..Len(providers)
      /\ \A i \in DOMAIN providers : providers[i] \in Provider
  BY <1>1
<1>3. /\ at \in 1..(Len(providers) + 1)
      /\ \A i \in later : at <= i
      /\ at \in later \/ at = Len(providers) + 1
  <2>1. CASE later = {}
    BY <1>2, <2>1
  <2>2. CASE later # {}
    <3>1. later \in SUBSET Nat
      BY <1>2
    <3>2. \E i \in later : \A j \in later : i <= j
      BY <2>2, <3>1, Least
    <3>3. at \in later /\ \A j \in later : at <= j
      BY <2>2, <3>2
    <3> QED
      BY <1>2, <3>3
  <2> QED
    BY <2>1, <2>2
<1>4. \A i \in DOMAIN providers : OrderOf[providers[i]] \in Nat /\ OrderOf[p] \in Nat
  BY <1>2, ManagerAssumption
<1>5. \A i \in DOMAIN providers : i < at => OrderOf[providers[i]] <= OrderOf[p]
  <2>1. TAKE i \in DOMAIN providers
  <2>2. i < at => i \notin later
    BY <1>2, <1>3
  <2> QED
    BY <1>4, <2>2
<1>6. \A i \in DOMAIN providers : i >= at => OrderOf[p] <= OrderOf[providers[i]]
  <2>1. TAKE i \in DOMAIN providers
  <2>2. CASE i >= at
    <3>1. at \in DOMAIN providers /\ at \in later
      BY <1>2, <1>3, <2>2
    <3>2. OrderOf[providers[at]] <= OrderOf[providers[i]]
      BY <1>1, <2>2, <3>1
    <3> QED
      BY <1>4, <3>1, <3>2
  <2> QED
    BY <2>2
<1>7. providers' = new
  BY DEF Insert
<1> HIDE DEF at, later
<1>8. /\ new \in Seq(Provider) /\ Len(new) = Len(providers) + 1
      /\ \A i \in DOMAIN providers : i < at => new[i] = providers[i]
      /\ new[at] = p
      /\ \A i \in DOMAIN providers : i >= at => new[i + 1] = providers[i]
      /\ ToSet(new) = ToSet(providers) \union {p}
  BY <1>1, <1>3, InsertFacts
<1> HIDE DEF new
<1>9. DOMAIN new = 1..(Len(providers) + 1)
  BY <1>8
<1> DEFINE was(i) == IF i < at THEN i ELSE i - 1
<1>10. ASSUME NEW i \in DOMAIN new, i # at
       PROVE  was(i) \in DOMAIN providers /\ new[i] = providers[was(i)]
  <2>1. CASE i < at
    BY <1>2, <1>3, <1>8, <1>9, <2>1
  <2>2. CASE i > at
    <3>1. i - 1 \in DOMAIN providers /\ i - 1 >= at /\ (i - 1) + 1 = i
      BY <1>2, <1>3, <1>9, <2>2
    <3>2. new[i] = providers[i - 1]
      BY <1>8, <3>1
    <3>3. was(i) = i - 1
      BY <1>3, <1>9, <2>2
    <3> QED
      BY <3>1, <3>2, <3>3
  <2> QED
    BY <1>3, <1>9, <1>10, <2>1, <2>2
<1>11. \A i, j \in DOMAIN new : i # at /\ j # at =>
         /\ i <= j <=> was(i) <= was(j)
         /\ was(i) = was(j) => i = j
  BY <1>3, <1>9
<1>12. \A i \in DOMAIN new : (i < at => was(i) < at) /\ (i > at => was(i) >= at)
  BY <1>3, <1>9
<1> HIDE DEF was
<1>13. \A i \in DOMAIN providers : providers[i] # p
  BY DEF ToSet
<1>14. IsInjective(new)
  <2>1. SUFFICES ASSUME NEW i \in DOMAIN new, NEW j \in DOMAIN new, new[i] = new[j]
                 PROVE  i = j
    BY DEF IsInjective
  <2>2. CASE i # at /\ j # at
    BY <1>1, <1>10, <1>11, <2>1, <2>2 DEF IsInjective
  <2>3. CASE i = at \/ j = at
    BY <1>8, <1>10, <1>13, <2>1, <2>3
  <2> QED
    BY <2>2, <2>3
<1>15. ASSUME NEW i \in DOMAIN new, NEW j \in DOMAIN new, i <= j
       PROVE  OrderOf[new[i]] <= OrderOf[new[j]]
  <2>1. CASE i # at /\ j # at
    BY <1>1, <1>10, <1>11, <1>15, <2>1
  <2>2. CASE i = at /\ j # at
    <3>1. j > at
      BY <1>3, <1>9, <1>15, <2>2
    <3>2. was(j) \in DOMAIN providers /\ new[j] = providers[was(j)] /\ was(j) >= at
      BY <1>10, <1>12, <2>2, <3>1
    <3> QED
      BY <1>6, <1>8, <2>2, <3>2
  <2>3. CASE i # at /\ j = at
    <3>1. i < at
      BY <1>3, <1>9, <1>15, <2>3
    <3>2. was(i) \in DOMAIN providers /\ new[i] = providers[was(i)] /\ was(i) < at
      BY <1>10, <1>12, <2>3, <3>1
    <3> QED
      BY <1>5, <1>8, <2>3, <3>2
  <2>4. CASE i = at /\ j = at
    <3>1. OrderOf[p] \in Nat
      BY ManagerAssumption
    <3> QED
      BY <1>8, <2>4, <3>1
  <2> QED
    BY <2>1, <2>2, <2>3, <2>4
<1>16. ASSUME NEW x, NEW y, x # p, y # p, NotBehind(providers, x, y)
       PROVE  NotBehind(new, x, y)
  <2>1. SUFFICES ASSUME NEW i \in DOMAIN new, NEW j \in DOMAIN new, new[i] = x, new[j] = y
                 PROVE  i <= j
    BY DEF NotBehind
  <2>2. i # at /\ j # at
    BY <1>8, <1>16, <2>1
  <2>3. was(i) <= was(j)
    BY <1>10, <1>16, <2>1, <2>2 DEF NotBehind
  <2> QED
    BY <1>11, <2>2, <2>3
<1> QED
  BY <1>7, <1>8, <1>14, <1>15, <1>16

(* The provider takes its place in the list. *)
LEMMA InsertKeeps ==
  ASSUME ManagerInv, manager = "alive", removing = {},
         NEW p \in Provider, p \notin ToSet(providers),
         \A r \in Req : p \notin visited[r],
         Insert(p),
         added' \in SUBSET Provider, added \union {p} \subseteq added',
         ioTasks' \in Seq(IoTask), NoClash(ioTasks)',
         ToSet(ioTasks') \subseteq ToSet(ioTasks),
         \A t \in ToSet(ioTasks') : Adds(t) => t.to # p,
         UNCHANGED <<manager, deleting, pending, stateVars, dispatch, removing,
                     ready, archVars, fileTasks, seenVars, visited, calls, removals>>
  PROVE  ManagerInv' /\ OffersAscend
<1>1. /\ TypeOK /\ MarkedEntryIsInUse /\ RemovedProviderHoldsNoRequest
      /\ TasksOwnStates /\ AddedOnce /\ Ascending /\ NothingAhead /\ ListsAgree
      /\ Dispatching /\ Destruction /\ Phases
  BY DEF ManagerInv
<1>2. /\ providers' \in Seq(Provider)
      /\ ToSet(providers') = ToSet(providers) \union {p}
      /\ IsInjective(providers')
      /\ \A i, j \in DOMAIN providers' :
           i <= j => OrderOf[providers'[i]] <= OrderOf[providers'[j]]
      /\ \A x, y : x # p /\ y # p /\ NotBehind(providers, x, y) =>
           NotBehind(providers', x, y)
  BY InsertFactsHere
<1>3. /\ manager' = manager /\ deleting' = deleting /\ pending' = pending
      /\ current' = current /\ holder' = holder /\ dispatch' = dispatch
      /\ removing' = removing /\ ready' = ready /\ archive' = archive
      /\ waiting' = waiting /\ fileTasks' = fileTasks /\ verdict' = verdict
      /\ callbacks' = callbacks /\ fetched' = fetched /\ visited' = visited
      /\ calls' = calls /\ removals' = removals
  BY DEF stateVars, archVars, seenVars
<1>4. TypeOK'
  BY <1>1, <1>2, <1>3 DEF TypeOK
<1>5. MarkedEntryIsInUse' /\ RemovedProviderHoldsNoRequest'
  BY <1>1, <1>2, <1>3 DEF MarkedEntryIsInUse, RemovedProviderHoldsNoRequest
<1>6. TasksOwnStates'
  BY <1>1, <1>3 DEF TasksOwnStates
<1>7. AddedOnce'
  BY <1>1, <1>2, <1>3 DEF AddedOnce
<1>8. Ascending'
  BY <1>2 DEF Ascending
<1>9. NothingAhead'
  <2>1. ASSUME NEW s \in Req, holder[s] \in {"request", "task"}
        PROVE  \A x \in visited[s] : NotBehind(providers', x, current[s])
    <3>1. /\ current[s] \in visited[s]
          /\ \A x \in visited[s] : NotBehind(providers, x, current[s])
      BY <1>1, <2>1 DEF NothingAhead, NotBehind
    <3>2. \A x \in visited[s] : x # p
      OBVIOUS
    <3> QED
      BY <1>2, <3>1, <3>2
  <2>2. ASSUME NEW s \in Req, holder[s] \in {"request", "task"}
        PROVE  \A i, j \in DOMAIN providers' :
                 providers'[i] \in visited[s] /\ providers'[j] = current[s] => i <= j
    BY <2>1, <2>2 DEF NotBehind
  <2> QED
    BY <1>1, <1>3, <2>2 DEF NothingAhead
<1>10. ListsAgree'
  BY <1>1, <1>2, <1>3 DEF ListsAgree
<1>11. Dispatching' /\ Destruction'
  BY <1>1, <1>3 DEF Dispatching, Destruction
<1>12. Phases'
  BY <1>1, <1>3 DEF Phases
<1> QED
  BY <1>3, <1>4, <1>5, <1>6, <1>7, <1>8, <1>9, <1>10, <1>11, <1>12
     DEF ManagerInv, OffersAscend

LEMMA AddProviderKeeps ==
  ASSUME ManagerInv, NEW p \in Provider, AddProvider(p)
  PROVE  ManagerInv' /\ OffersAscend
<1>1. /\ manager = "alive" /\ removing = {} /\ p \notin added
      /\ added' = added \union {p} /\ Insert(p)
      /\ UNCHANGED <<manager, deleting, pending, stateVars, dispatch, removing, ready,
                     archVars, taskVars, seenVars, visited, calls, removals>>
  BY DEF AddProvider, MayCallManager
<1>2. /\ p \notin ToSet(providers) /\ \A r \in Req : p \notin visited[r]
      /\ added \subseteq Provider /\ ioTasks \in Seq(IoTask) /\ NoClash(ioTasks)
      /\ \A t \in ToSet(ioTasks) : Adds(t) => t.to # p
  BY <1>1 DEF ManagerInv, AddedOnce, TasksOwnStates, TypeOK
<1>3. ioTasks' = ioTasks /\ fileTasks' = fileTasks
  BY <1>1 DEF taskVars
<1>4. /\ ioTasks' \in Seq(IoTask) /\ NoClash(ioTasks)'
      /\ ToSet(ioTasks') \subseteq ToSet(ioTasks)
      /\ \A t \in ToSet(ioTasks') : Adds(t) => t.to # p
  BY <1>2, <1>3
<1> QED
  BY <1>1, <1>2, <1>3, <1>4, InsertKeeps

LEMMA RunAddTaskKeeps ==
  ASSUME ManagerInv, RunAddTask
  PROVE  ManagerInv' /\ OffersAscend
<1> DEFINE t == Head(ioTasks)
<1>1. /\ removing = {} /\ ioTasks # <<>> /\ Adds(t) /\ t.kind = "add"
      /\ ioTasks' = Tail(ioTasks) /\ Insert(t.to)
      /\ UNCHANGED <<manager, deleting, pending, stateVars, dispatch, removing,
                     ready, archVars, fileTasks, seenVars, usedVars>>
  BY DEF RunAddTask, NextTask, IoIdle, Adds
<1>2. /\ t \in IoTask /\ t \in ToSet(ioTasks) /\ Tail(ioTasks) \in Seq(IoTask)
      /\ NoClash(Tail(ioTasks)) /\ ToSet(Tail(ioTasks)) \subseteq ToSet(ioTasks)
      /\ \A u \in ToSet(Tail(ioTasks)) : ~Clash(t, u)
  BY <1>1, TakenFacts
<1>3. /\ t.to \in Provider /\ manager = "alive" /\ t.to \in added
      /\ t.to \notin ToSet(providers) /\ \A r \in Req : t.to \notin visited[r]
      /\ added \in SUBSET Provider
  BY <1>1, <1>2, TaskFields DEF ManagerInv, AddedOnce, TypeOK
<1>4. /\ ioTasks' \in Seq(IoTask) /\ NoClash(ioTasks)'
      /\ ToSet(ioTasks') \subseteq ToSet(ioTasks)
      /\ \A u \in ToSet(ioTasks') : Adds(u) => u.to # t.to
  BY <1>1, <1>2 DEF Clash, NoClash
<1>5. /\ added' \in SUBSET Provider /\ added \union {t.to} \subseteq added'
      /\ UNCHANGED <<visited, calls, removals>>
  BY <1>1, <1>3 DEF usedVars
<1> HIDE DEF t
<1> QED
  BY <1>1, <1>3, <1>4, <1>5, InsertKeeps

LEMMA IoTaskAppend ==
  ASSUME ManagerInv, NEW m \in IoTask, ~Owns(m), ~Adds(m)
  PROVE  /\ Append(ioTasks, m) \in Seq(IoTask) /\ NoClash(Append(ioTasks, m))
         /\ \A t \in ToSet(Append(ioTasks, m)) :
              t \in ToSet(ioTasks) \/ (~Owns(t) /\ ~Adds(t))
<1>1. ioTasks \in Seq(IoTask) /\ NoClash(ioTasks)
  BY DEF ManagerInv, TypeOK, TasksOwnStates
<1>2. /\ Append(ioTasks, m) \in Seq(IoTask)
      /\ ToSet(Append(ioTasks, m)) = ToSet(ioTasks) \union {m}
  BY <1>1, AppendSet
<1>3. \A t \in ToSet(ioTasks) : ~Clash(t, m) /\ ~Clash(m, t)
  BY DEF Clash
<1>4. NoClash(Append(ioTasks, m))
  BY <1>1, <1>3, NoClashAppend
<1> QED
  BY <1>2, <1>4

LEMMA RunFileTaskKeeps ==
  ASSUME ManagerInv, RunFileTask
  PROVE  ManagerInv' /\ OffersAscend
<1> DEFINE t == Head(fileTasks)
           m == IF t.kind = "load" THEN LoadOnFileThread(t) ELSE OpenOnFileThread(t)
<1>1. /\ fileTasks # <<>> /\ fileTasks' = Tail(fileTasks) /\ ioTasks' = Append(ioTasks, m)
      /\ UNCHANGED <<manager, entryVars, stateVars, dispatch, removing, ready,
                     archVars, seenVars, usedVars>>
  BY DEF RunFileTask
<1>2. t \in FileTask /\ fileTasks' \in Seq(FileTask)
  BY <1>1, TailSet DEF ManagerInv, TypeOK
<1>3. \/ t.kind = "load" /\ t.to \in Provider
      \/ t.kind = "open" /\ t.to \in Provider /\ t.req \in Req
  BY <1>2 DEF FileTask
<1>4. m \in IoTask /\ ~Owns(m) /\ ~Adds(m)
  BY <1>3 DEF LoadOnFileThread, OpenOnFileThread, IoTask, ArchiveTask, CallTask,
              Outcome, Owns, Adds
<1> HIDE DEF m, t
<1>5. /\ ioTasks' \in Seq(IoTask) /\ NoClash(ioTasks')
      /\ \A u \in ToSet(ioTasks') : u \in ToSet(ioTasks) \/ (~Owns(u) /\ ~Adds(u))
  BY <1>1, <1>4, IoTaskAppend
<1>6. /\ NoClash(ioTasks)' /\ dispatch' \subseteq dispatch
      /\ UNCHANGED <<waiting, visited, callbacks, added>>
  BY <1>1, <1>5 DEF NoClash, archVars, usedVars, seenVars
<1>7. /\ ready' \subseteq Req /\ archive' \in [Provider -> {"idle", "loading", "loaded"}]
      /\ calls' \in [Provider \X Req -> 0..MaxCalls] /\ removals' \in 0..MaxRemovals
      /\ verdict' \in [Req -> {"none", "continue", "async"}]
      /\ \A s \in Req : verdict'[s] = "continue" => verdict[s] = "continue"
      /\ fetched' \in [Req -> {"no", "nothing", "handler"}]
      /\ \A s \in Req : fetched'[s] # "no" => holder[s] = "done"
  BY <1>1 DEF ManagerInv, TypeOK, Phases, archVars, usedVars, seenVars
<1> QED
  BY <1>1, <1>2, <1>5, <1>6, <1>7, QuietKeeps

----------------------------------------------------------------------------
(* The application. *)
LEMMA CallCounted ==
  ASSUME NEW M \in Nat, NEW f \in [Provider \X Req -> 0..M], NEW x \in Provider \X Req,
         f[x] < M
  PROVE  [f EXCEPT ![x] = @ + 1] \in [Provider \X Req -> 0..M]
<1>1. f[x] + 1 \in 0..M
  OBVIOUS
<1> QED
  BY <1>1

LEMMA CallsTyped ==
  ASSUME ManagerInv, NEW p \in Provider, NEW r \in Req, MayUse(p, r),
         calls' = [calls EXCEPT ![<<p, r>>] = @ + 1]
  PROVE  calls' \in [Provider \X Req -> 0..MaxCalls] /\ KindOf[p] = "custom"
<1>1. /\ calls \in [Provider \X Req -> 0..MaxCalls] /\ MaxCalls \in Nat
      /\ <<p, r>> \in Provider \X Req
      /\ calls[<<p, r>>] < MaxCalls /\ KindOf[p] = "custom"
  BY ManagerAssumption DEF ManagerInv, TypeOK, MayUse
<1>2. [calls EXCEPT ![<<p, r>>] = @ + 1] \in [Provider \X Req -> 0..MaxCalls]
  BY <1>1, CallCounted
<1> QED
  BY <1>1, <1>2

LEMMA CallRequestKeeps ==
  ASSUME ManagerInv, NEW p \in Provider, NEW r \in Req, NEW outcome \in Outcome,
         CallRequest(p, r, outcome)
  PROVE  ManagerInv' /\ OffersAscend
<1>1. /\ MayUse(p, r) /\ calls' = [calls EXCEPT ![<<p, r>>] = @ + 1]
      /\ \A s \in dispatch : current[s] = p
      /\ Call(r, p, outcome, ioTasks)
      /\ UNCHANGED <<manager, entryVars, current, dispatch, removing, ready,
                     archVars, fileTasks, seenVars, added, visited, removals>>
  BY DEF CallRequest
<1>2. calls' \in [Provider \X Req -> 0..MaxCalls] /\ KindOf[p] = "custom"
  BY <1>1, CallsTyped
<1>3. /\ ioTasks \in Seq(IoTask) /\ NoClash(ioTasks)
      /\ dispatch' \subseteq dispatch
      /\ \A s \in dispatch' : KindOf[current[s]] = "custom"
      /\ UNCHANGED <<callbacks, fetched>>
      /\ verdict' \in [Req -> {"none", "continue", "async"}]
      /\ \A s \in Req : verdict'[s] = "continue" => verdict[s] = "continue"
  BY <1>1, <1>2 DEF ManagerInv, TypeOK, TasksOwnStates, seenVars
<1> QED
  BY <1>1, <1>2, <1>3, CallKeeps

LEMMA PostCallRequestKeeps ==
  ASSUME ManagerInv, NEW p \in Provider, NEW r \in Req, NEW outcome \in Outcome,
         PostCallRequest(p, r, outcome)
  PROVE  ManagerInv' /\ OffersAscend
<1> DEFINE m == [kind |-> "call", req |-> r, to |-> p, outcome |-> outcome]
<1>1. /\ MayUse(p, r) /\ calls' = [calls EXCEPT ![<<p, r>>] = @ + 1]
      /\ ioTasks' = Append(ioTasks, m)
      /\ UNCHANGED <<manager, entryVars, stateVars, dispatch, removing, ready,
                     archVars, fileTasks, seenVars, added, visited, removals>>
  BY DEF PostCallRequest
<1>2. calls' \in [Provider \X Req -> 0..MaxCalls]
  BY <1>1, CallsTyped
<1>3. m \in IoTask /\ ~Owns(m) /\ ~Adds(m)
  BY DEF IoTask, CallTask, Owns, Adds
<1> HIDE DEF m
<1>4. /\ ioTasks' \in Seq(IoTask) /\ NoClash(ioTasks')
      /\ \A u \in ToSet(ioTasks') : u \in ToSet(ioTasks) \/ (~Owns(u) /\ ~Adds(u))
  BY <1>1, <1>3, IoTaskAppend
<1>5. /\ NoClash(ioTasks)' /\ dispatch' \subseteq dispatch
      /\ UNCHANGED <<waiting, callbacks>>
      /\ ready' \subseteq Req /\ archive' \in [Provider -> {"idle", "loading", "loaded"}]
      /\ removals' \in 0..MaxRemovals /\ fileTasks' \in Seq(FileTask)
      /\ verdict' \in [Req -> {"none", "continue", "async"}]
      /\ \A s \in Req : verdict'[s] = "continue" => verdict[s] = "continue"
      /\ fetched' \in [Req -> {"no", "nothing", "handler"}]
      /\ \A s \in Req : fetched'[s] # "no" => holder[s] = "done"
  BY <1>1, <1>4 DEF NoClash, ManagerInv, TypeOK, Phases, archVars, seenVars
<1> QED
  BY <1>1, <1>2, <1>4, <1>5, QuietKeeps

LEMMA PostAddProviderKeeps ==
  ASSUME ManagerInv, NEW p \in Provider, PostAddProvider(p)
  PROVE  ManagerInv' /\ OffersAscend
<1> DEFINE m == [kind |-> "add", to |-> p]
<1>1. /\ manager = "alive" /\ p \notin added /\ added' = added \union {p}
      /\ ioTasks' = Append(ioTasks, m)
  BY DEF PostAddProvider
<1>2. /\ TypeOK /\ MarkedEntryIsInUse /\ RemovedProviderHoldsNoRequest
      /\ TasksOwnStates /\ AddedOnce /\ Ascending /\ NothingAhead /\ ListsAgree
      /\ Dispatching /\ Destruction /\ Phases
  BY DEF ManagerInv
<1>3. /\ manager' = manager /\ providers' = providers /\ deleting' = deleting
      /\ pending' = pending /\ current' = current /\ holder' = holder
      /\ dispatch' = dispatch /\ removing' = removing /\ ready' = ready
      /\ archive' = archive /\ waiting' = waiting /\ fileTasks' = fileTasks
      /\ verdict' = verdict /\ callbacks' = callbacks /\ fetched' = fetched
      /\ visited' = visited /\ calls' = calls /\ removals' = removals
  BY DEF PostAddProvider, entryVars, stateVars, archVars, seenVars
<1>4. m \in IoTask /\ Adds(m) /\ ~Owns(m) /\ m.to = p
  BY DEF IoTask, AddTask, Adds, Owns
<1> HIDE DEF m
<1>5. /\ ioTasks \in Seq(IoTask) /\ NoClash(ioTasks)
      /\ \A t \in ToSet(ioTasks) : Adds(t) => t.to # p
  BY <1>1, <1>2 DEF TypeOK, TasksOwnStates, AddedOnce
<1>6. ioTasks' \in Seq(IoTask) /\ ToSet(ioTasks') = ToSet(ioTasks) \union {m}
  BY <1>1, <1>4, <1>5, AppendSet
<1>7. NoClash(ioTasks')
  <2>1. \A t \in ToSet(ioTasks) : ~Clash(t, m) /\ ~Clash(m, t)
    BY <1>4, <1>5 DEF Clash
  <2> QED
    BY <1>1, <1>4, <1>5, <2>1, NoClashAppend
<1>8. TypeOK'
  BY <1>1, <1>2, <1>3, <1>6 DEF TypeOK
<1>9. MarkedEntryIsInUse' /\ RemovedProviderHoldsNoRequest'
  BY <1>2, <1>3 DEF MarkedEntryIsInUse, RemovedProviderHoldsNoRequest
<1>10. TasksOwnStates'
  BY <1>2, <1>3, <1>4, <1>6, <1>7 DEF TasksOwnStates, NoClash
<1>11. AddedOnce'
  <2>1. /\ \A t \in ToSet(ioTasks) : Adds(t) =>
             /\ t.to \in added' /\ t.to \notin ToSet(providers)
             /\ \A r \in Req : t.to \notin visited[r]
        /\ p \notin ToSet(providers) /\ \A r \in Req : p \notin visited[r]
        /\ ToSet(providers) \subseteq added' /\ \A r \in Req : visited[r] \subseteq added'
    BY <1>1, <1>2 DEF AddedOnce
  <2> QED
    BY <1>1, <1>3, <1>4, <1>6, <2>1 DEF AddedOnce
<1>12. Ascending' /\ NothingAhead'
  BY <1>2, <1>3 DEF Ascending, NothingAhead
<1>13. ListsAgree'
  BY <1>2, <1>3 DEF ListsAgree
<1>14. Dispatching' /\ Destruction' /\ Phases'
  BY <1>2, <1>3 DEF Dispatching, Destruction, Phases
<1> QED
  BY <1>3, <1>8, <1>9, <1>10, <1>11, <1>12, <1>13, <1>14 DEF ManagerInv, OffersAscend

(* Steps of the removal loop that only move it. *)
LEMMA RemovingKeeps ==
  ASSUME ManagerInv, Destruction',
         removing' \subseteq Removal, manager' \in {"alive", "dying", "gone"},
         manager' = "gone" <=> manager = "gone",
         manager' = manager \/ \A t \in ToSet(ioTasks') : ~Adds(t),
         removals' \in 0..MaxRemovals,
         ioTasks' \in Seq(IoTask), NoClash(ioTasks)',
         \A t \in ToSet(ioTasks') : t \in ToSet(ioTasks) \/ (~Owns(t) /\ ~Adds(t)),
         UNCHANGED <<entryVars, stateVars, dispatch, ready, archVars, fileTasks,
                     seenVars, added, visited, calls>>
  PROVE  ManagerInv' /\ OffersAscend
<1>1. /\ TypeOK /\ MarkedEntryIsInUse /\ RemovedProviderHoldsNoRequest
      /\ TasksOwnStates /\ AddedOnce /\ Ascending /\ NothingAhead /\ ListsAgree
      /\ Dispatching /\ Phases
  BY DEF ManagerInv
<1>2. /\ providers' = providers /\ deleting' = deleting
      /\ pending' = pending /\ current' = current /\ holder' = holder
      /\ dispatch' = dispatch /\ ready' = ready
      /\ archive' = archive /\ waiting' = waiting /\ fileTasks' = fileTasks
      /\ verdict' = verdict /\ callbacks' = callbacks /\ fetched' = fetched
      /\ visited' = visited /\ calls' = calls /\ added' = added
  BY DEF entryVars, stateVars, archVars, seenVars
<1>3. TypeOK'
  BY <1>1, <1>2 DEF TypeOK
<1>4. MarkedEntryIsInUse' /\ RemovedProviderHoldsNoRequest'
  BY <1>1, <1>2 DEF MarkedEntryIsInUse, RemovedProviderHoldsNoRequest
<1>5. TasksOwnStates'
  BY <1>1, <1>2 DEF TasksOwnStates
<1>6. AddedOnce'
  BY <1>1, <1>2 DEF AddedOnce
<1>7. Ascending' /\ NothingAhead'
  BY <1>1, <1>2 DEF Ascending, NothingAhead
<1>8. ListsAgree'
  BY <1>1, <1>2 DEF ListsAgree
<1>9. Dispatching' /\ Phases'
  BY <1>1, <1>2 DEF Dispatching, Phases
<1> QED
  BY <1>2, <1>3, <1>4, <1>5, <1>6, <1>7, <1>8, <1>9 DEF ManagerInv, OffersAscend

LEMMA StartRemovalKeeps ==
  ASSUME ManagerInv, NEW which \in SUBSET Provider, NEW stop \in BOOLEAN,
         manager = "alive", StartRemoval(which, stop), UNCHANGED <<manager, dispatch, current>>,
         \A r \in dispatch : KindOf[current[r]] = "custom"
  PROVE  removing' \subseteq Removal /\ Destruction'
<1> DEFINE x == [which |-> which, stop |-> stop, last |-> FALSE, pos |-> 1]
<1>1. x \in Removal /\ ~x.last
  BY DEF Removal
<1>2. removing' = {} \/ removing' = {x}
  BY DEF StartRemoval
<1> HIDE DEF x
<1>3. manager' = "alive" /\ dispatch' = dispatch /\ current' = current
  OBVIOUS
<1>4. removing' \subseteq Removal /\ \A y \in removing' : ~y.last
  BY <1>1, <1>2
<1>5. \A y, z \in removing' : y = z
  BY <1>2
<1> QED
  BY <1>3, <1>4, <1>5 DEF Destruction

LEMMA RemovalArgsTyped ==
  ASSUME NEW args \in RemovalArgs
  PROVE  args[1] \in SUBSET Provider /\ args[2] \in BOOLEAN
<1>1. CASE args = <<Provider, TRUE>>
  BY <1>1
<1>2. CASE \E q \in Provider : args = <<{p \in Provider : NameOf[p] = NameOf[q]}, FALSE>>
  <2>1. PICK q \in Provider : args = <<{p \in Provider : NameOf[p] = NameOf[q]}, FALSE>>
    BY <1>2
  <2> QED
    BY <2>1
<1> QED
  BY <1>1, <1>2 DEF RemovalArgs

LEMMA RemoveProvidersKeeps ==
  ASSUME ManagerInv, NEW which \in SUBSET Provider, NEW stop \in BOOLEAN,
         RemoveProviders(which, stop)
  PROVE  ManagerInv' /\ OffersAscend
<1>1. /\ manager = "alive" /\ \A r \in dispatch : KindOf[current[r]] = "custom"
      /\ removals < MaxRemovals /\ removals' = removals + 1
      /\ StartRemoval(which, stop)
      /\ UNCHANGED <<manager, entryVars, stateVars, dispatch, ready, archVars,
                     taskVars, seenVars, added, visited, calls>>
  BY DEF RemoveProviders, MayCallManager
<1>2. /\ manager' = "alive" /\ dispatch' = dispatch /\ current' = current
      /\ ioTasks' = ioTasks /\ fileTasks' = fileTasks
  BY <1>1 DEF stateVars, taskVars
<1>3. removing' \subseteq Removal /\ Destruction'
  BY <1>1, <1>2, StartRemovalKeeps
<1>4. ioTasks \in Seq(IoTask) /\ NoClash(ioTasks) /\ removals \in 0..MaxRemovals
  BY DEF ManagerInv, TypeOK, TasksOwnStates
<1>5. removals' \in 0..MaxRemovals
  BY <1>1, <1>4, ManagerAssumption
<1>6. NoClash(ioTasks)'
  BY <1>2, <1>4 DEF NoClash
<1> QED
  BY <1>1, <1>2, <1>3, <1>4, <1>5, <1>6, RemovingKeeps

LEMMA PostRemoveProvidersKeeps ==
  ASSUME ManagerInv, NEW which \in SUBSET Provider, NEW stop \in BOOLEAN,
         PostRemoveProviders(which, stop)
  PROVE  ManagerInv' /\ OffersAscend
<1> DEFINE m == [kind |-> "remove", which |-> which, stop |-> stop]
<1>1. /\ removals < MaxRemovals /\ removals' = removals + 1
      /\ ioTasks' = Append(ioTasks, m)
      /\ UNCHANGED <<manager, entryVars, stateVars, dispatch, removing, ready,
                     archVars, fileTasks, seenVars, added, visited, calls>>
  BY DEF PostRemoveProviders
<1>2. removals \in 0..MaxRemovals
  BY DEF ManagerInv, TypeOK
<1>3. m \in IoTask /\ ~Owns(m) /\ ~Adds(m)
  BY DEF IoTask, RemoveTask, Owns, Adds
<1> HIDE DEF m
<1>4. /\ ioTasks' \in Seq(IoTask) /\ NoClash(ioTasks')
      /\ \A u \in ToSet(ioTasks') : u \in ToSet(ioTasks) \/ (~Owns(u) /\ ~Adds(u))
  BY <1>1, <1>3, IoTaskAppend
<1>5. removals' \in 0..MaxRemovals
  BY <1>1, <1>2, ManagerAssumption
<1>6. /\ NoClash(ioTasks)' /\ dispatch' \subseteq dispatch
      /\ UNCHANGED <<waiting, callbacks>>
      /\ ready' \subseteq Req /\ archive' \in [Provider -> {"idle", "loading", "loaded"}]
      /\ calls' \in [Provider \X Req -> 0..MaxCalls] /\ fileTasks' \in Seq(FileTask)
      /\ verdict' \in [Req -> {"none", "continue", "async"}]
      /\ \A s \in Req : verdict'[s] = "continue" => verdict[s] = "continue"
      /\ fetched' \in [Req -> {"no", "nothing", "handler"}]
      /\ \A s \in Req : fetched'[s] # "no" => holder[s] = "done"
  BY <1>1, <1>4 DEF NoClash, ManagerInv, TypeOK, Phases, archVars, seenVars
<1> QED
  BY <1>1, <1>4, <1>5, <1>6, QuietKeeps

LEMMA RunRemoveTaskKeeps ==
  ASSUME ManagerInv, RunRemoveTask
  PROVE  ManagerInv' /\ OffersAscend
<1> DEFINE t == Head(ioTasks)
<1>1. /\ IoIdle /\ ioTasks # <<>> /\ t.kind = "remove" /\ ioTasks' = Tail(ioTasks)
      /\ StartRemoval(t.which, t.stop)
      /\ UNCHANGED <<manager, entryVars, stateVars, dispatch, ready, archVars,
                     fileTasks, seenVars, usedVars>>
  BY DEF RunRemoveTask, NextTask
<1>2. /\ t \in IoTask /\ Tail(ioTasks) \in Seq(IoTask)
      /\ NoClash(Tail(ioTasks)) /\ ToSet(Tail(ioTasks)) \subseteq ToSet(ioTasks)
  BY <1>1, TakenFacts
<1>3. t.which \in SUBSET Provider /\ t.stop \in BOOLEAN
  BY <1>1, <1>2, TaskFields
<1> HIDE DEF t
<1>4. /\ manager' = manager /\ dispatch' = {} /\ dispatch = {} /\ current' = current
      /\ UNCHANGED <<added, visited, calls, removals>>
  BY <1>1 DEF IoIdle, stateVars, usedVars
<1>5. removing' \subseteq Removal /\ Destruction'
  <2>1. CASE manager = "alive"
    BY <1>1, <1>3, <1>4, <2>1, StartRemovalKeeps
  <2>2. CASE manager # "alive"
    <3>1. manager = "gone" /\ providers = <<>> /\ deleting = {}
      BY <1>1, <2>2 DEF ManagerInv, TypeOK, Destruction, IoIdle
    <3>2. removing' = {} /\ providers' = <<>> /\ deleting' = {}
      BY <1>1, <3>1 DEF StartRemoval, entryVars
    <3> QED
      BY <1>4, <3>1, <3>2 DEF Destruction
  <2> QED
    BY <2>1, <2>2
<1>6. NoClash(ioTasks)' /\ ioTasks' \in Seq(IoTask) /\ removals' \in 0..MaxRemovals
  BY <1>1, <1>2, <1>4 DEF NoClash, ManagerInv, TypeOK
<1>7. manager' \in {"alive", "dying", "gone"}
  BY <1>4 DEF ManagerInv, TypeOK
<1>8. \A u \in ToSet(ioTasks') : u \in ToSet(ioTasks) \/ (~Owns(u) /\ ~Adds(u))
  BY <1>1, <1>2
<1> QED
  BY <1>1, <1>4, <1>5, <1>6, <1>7, <1>8, RemovingKeeps

LEMMA ReleaseManagerKeeps ==
  ASSUME ManagerInv, ReleaseManager
  PROVE  ManagerInv' /\ OffersAscend
<1> DEFINE x == [which |-> Provider, stop |-> TRUE, last |-> TRUE, pos |-> 1]
<1>1. /\ manager = "alive" /\ IoIdle /\ manager' = "dying" /\ removing' = {x}
      /\ \A i \in DOMAIN ioTasks : ioTasks[i].kind \notin {"add", "remove"}
      /\ UNCHANGED <<entryVars, stateVars, dispatch, ready, archVars, taskVars,
                     seenVars, usedVars>>
  BY DEF ReleaseManager
<1>2. x \in Removal /\ x.last /\ x.which = Provider /\ x.pos = 1
  BY DEF Removal
<1> HIDE DEF x
<1>3. /\ dispatch' = {} /\ ioTasks' = ioTasks /\ fileTasks' = fileTasks
      /\ UNCHANGED <<added, visited, calls, removals>> /\ providers' = providers
  BY <1>1 DEF IoIdle, taskVars, usedVars, entryVars
<1>4. \A t \in ToSet(ioTasks') : ~Adds(t)
  BY <1>1, <1>3 DEF ToSet, Adds
<1>5. /\ ioTasks \in Seq(IoTask) /\ NoClash(ioTasks) /\ removals \in 0..MaxRemovals
      /\ providers \in Seq(Provider)
  BY DEF ManagerInv, TypeOK, TasksOwnStates
<1>6. Destruction'
  <2>1. \A i \in DOMAIN providers' : ~(i < x.pos)
    BY <1>2, <1>3, <1>5
  <2> QED
    BY <1>1, <1>2, <1>3, <2>1 DEF Destruction
<1>7. NoClash(ioTasks)' /\ removing' \subseteq Removal
  BY <1>1, <1>2, <1>3, <1>5 DEF NoClash
<1> QED
  BY <1>1, <1>3, <1>4, <1>5, <1>6, <1>7, RemovingKeeps

----------------------------------------------------------------------------
(* The removal loop. *)
LEMMA AtEntryFacts ==
  ASSUME ManagerInv, NEW x \in removing, NEW p \in Provider, AtEntry(x, p)
  PROVE  /\ x \in Removal /\ x.pos \in Nat \ {0} /\ x.last \in BOOLEAN
         /\ x.stop \in BOOLEAN /\ removing = {x}
         /\ x.pos \in DOMAIN providers /\ providers[x.pos] = p /\ p \in ToSet(providers)
         /\ manager # "gone" /\ \A r \in dispatch : KindOf[current[r]] = "custom"
<1>1. /\ providers \in Seq(Provider) /\ removing \subseteq Removal
      /\ \A y, z \in removing : y = z
      /\ manager # "gone" /\ \A r \in dispatch : KindOf[current[r]] = "custom"
  BY DEF ManagerInv, TypeOK, Destruction
<1>2. x \in Removal /\ x.pos \in Nat \ {0} /\ x.last \in BOOLEAN /\ x.stop \in BOOLEAN
  BY <1>1 DEF Removal
<1>3. x.pos \in DOMAIN providers /\ providers[x.pos] = p
  BY <1>1, <1>2 DEF AtEntry
<1> QED
  BY <1>1, <1>2, <1>3 DEF ToSet

LEMMA MovedOn ==
  ASSUME ManagerInv, NEW x \in removing, NEW p \in Provider, AtEntry(x, p),
         removing' = {[x EXCEPT !.pos = @ + 1]},
         UNCHANGED <<manager, providers, dispatch, current>>,
         deleting \subseteq deleting', x.last => p \in deleting'
  PROVE  removing' \subseteq Removal /\ Destruction'
<1> DEFINE y == [x EXCEPT !.pos = @ + 1]
<1>1. /\ x \in Removal /\ x.pos \in Nat \ {0} /\ removing = {x}
      /\ x.pos \in DOMAIN providers /\ providers[x.pos] = p
      /\ manager # "gone" /\ \A r \in dispatch : KindOf[current[r]] = "custom"
  BY AtEntryFacts
<1>2. y \in Removal /\ y.which = x.which /\ y.last = x.last /\ y.pos = x.pos + 1
  BY <1>1 DEF Removal
<1>3. removing' = {y}
  OBVIOUS
<1> HIDE DEF y
<1>4. /\ manager' = manager /\ providers' = providers /\ dispatch' = dispatch
      /\ current' = current /\ providers \in Seq(Provider)
  BY DEF ManagerInv, TypeOK
<1>5. /\ x.last => manager = "dying"
      /\ x.last => x.which = Provider
      /\ x.last => \A i \in DOMAIN providers : i < x.pos => providers[i] \in deleting
      /\ manager # "alive" => dispatch = {}
      /\ manager = "dying" => x.last
  BY <1>1 DEF ManagerInv, Destruction
<1>6. ASSUME y.last, NEW i \in DOMAIN providers, i < y.pos
      PROVE  providers[i] \in deleting'
  <2>1. i \in Nat /\ (i < x.pos \/ i = x.pos)
    BY <1>1, <1>2, <1>4, <1>6
  <2> QED
    BY <1>1, <1>2, <1>5, <1>6, <2>1
<1> QED
  BY <1>1, <1>2, <1>3, <1>4, <1>5, <1>6 DEF Destruction

LEMMA RemovalSkipsKeeps ==
  ASSUME ManagerInv, RemovalSkips
  PROVE  ManagerInv' /\ OffersAscend
<1>1. PICK x \in removing :
        \E p \in Provider :
          /\ AtEntry(x, p) /\ p \notin x.which
          /\ removing' = {[x EXCEPT !.pos = @ + 1]}
          /\ UNCHANGED <<manager, entryVars, stateVars, dispatch, ready, archVars,
                         taskVars, seenVars, usedVars>>
  BY DEF RemovalSkips
<1>2. PICK p \in Provider :
        /\ AtEntry(x, p) /\ p \notin x.which
        /\ removing' = {[x EXCEPT !.pos = @ + 1]}
        /\ UNCHANGED <<manager, entryVars, stateVars, dispatch, ready, archVars,
                       taskVars, seenVars, usedVars>>
  BY <1>1
<1>3. /\ manager' = manager /\ providers' = providers /\ dispatch' = dispatch
      /\ current' = current /\ deleting' = deleting /\ ioTasks' = ioTasks
      /\ fileTasks' = fileTasks
      /\ UNCHANGED <<added, visited, calls, removals>>
  BY <1>2 DEF entryVars, stateVars, taskVars, usedVars
<1>4. ~x.last
  BY <1>2 DEF ManagerInv, Destruction
<1>5. removing' \subseteq Removal /\ Destruction'
  BY <1>2, <1>3, <1>4, MovedOn
<1>6. /\ NoClash(ioTasks)' /\ ioTasks' \in Seq(IoTask) /\ removals' \in 0..MaxRemovals
      /\ manager' \in {"alive", "dying", "gone"}
  BY <1>3 DEF NoClash, ManagerInv, TypeOK, TasksOwnStates
<1> QED
  BY <1>2, <1>3, <1>5, <1>6, RemovingKeeps

LEMMA RemovalMarksKeeps ==
  ASSUME ManagerInv, RemovalMarks
  PROVE  ManagerInv' /\ OffersAscend
<1>1. PICK x \in removing :
        \E p \in Provider :
          LET held == Filter(pending[p], {r \in Req : HasState(r, p)})
          IN  /\ AtEntry(x, p) /\ p \in x.which
              /\ p \notin deleting /\ pending[p] # <<>>
              /\ deleting' = deleting \union {p}
              /\ holder' = [r \in Req |-> IF r \in ToSet(held) THEN "task" ELSE holder[r]]
              /\ ioTasks' = ioTasks \o
                   [i \in DOMAIN held |-> Handover(held[i], IF x.stop THEN "stop"
                                                                       ELSE "pass")]
              /\ removing' = {[x EXCEPT !.pos = @ + 1]}
              /\ UNCHANGED <<manager, providers, pending, current, dispatch, ready,
                             archVars, fileTasks, seenVars, usedVars>>
  BY DEF RemovalMarks
<1>2. PICK p \in Provider :
        LET held == Filter(pending[p], {r \in Req : HasState(r, p)})
        IN  /\ AtEntry(x, p) /\ p \in x.which
            /\ p \notin deleting /\ pending[p] # <<>>
            /\ deleting' = deleting \union {p}
            /\ holder' = [r \in Req |-> IF r \in ToSet(held) THEN "task" ELSE holder[r]]
            /\ ioTasks' = ioTasks \o
                 [i \in DOMAIN held |-> Handover(held[i], IF x.stop THEN "stop"
                                                                     ELSE "pass")]
            /\ removing' = {[x EXCEPT !.pos = @ + 1]}
            /\ UNCHANGED <<manager, providers, pending, current, dispatch, ready,
                           archVars, fileTasks, seenVars, usedVars>>
  BY <1>1
<1> DEFINE held == Filter(pending[p], {r \in Req : HasState(r, p)})
           outcome == IF x.stop THEN "stop" ELSE "pass"
<1>3. /\ AtEntry(x, p) /\ p \notin deleting /\ pending[p] # <<>>
      /\ deleting' = deleting \union {p}
      /\ holder' = [r \in Req |-> IF r \in ToSet(held) THEN "task" ELSE holder[r]]
      /\ ioTasks' = ioTasks \o [i \in DOMAIN held |-> Handover(held[i], outcome)]
      /\ removing' = {[x EXCEPT !.pos = @ + 1]}
      /\ UNCHANGED <<manager, providers, pending, current, dispatch, ready,
                     archVars, fileTasks, seenVars, usedVars>>
  BY <1>2
<1>4. /\ TypeOK /\ MarkedEntryIsInUse /\ RemovedProviderHoldsNoRequest
      /\ TasksOwnStates /\ AddedOnce /\ Ascending /\ NothingAhead /\ ListsAgree
      /\ Dispatching /\ Destruction /\ Phases
  BY DEF ManagerInv
<1>5. /\ manager' = manager /\ providers' = providers
      /\ pending' = pending /\ current' = current /\ dispatch' = dispatch
      /\ ready' = ready /\ archive' = archive /\ waiting' = waiting
      /\ fileTasks' = fileTasks /\ verdict' = verdict /\ callbacks' = callbacks
      /\ fetched' = fetched /\ added' = added /\ visited' = visited
      /\ calls' = calls /\ removals' = removals
  BY <1>3 DEF archVars, seenVars, usedVars
<1>6. /\ x.stop \in BOOLEAN /\ p \in ToSet(providers) /\ manager # "gone"
      /\ \A r \in dispatch : KindOf[current[r]] = "custom"
  BY <1>3, AtEntryFacts
<1>7. outcome \in Outcome
  BY DEF Outcome
<1>8. pending[p] \in Seq(Req) /\ IsInjective(pending[p])
  BY <1>4, <1>6 DEF TypeOK, ListsAgree
<1>9. /\ held \in Seq(Req) /\ IsInjective(held)
      /\ ToSet(held) = ToSet(pending[p]) \intersect {r \in Req : HasState(r, p)}
  BY <1>8, FilterFacts
<1> HIDE DEF held, outcome
<1>10. \A r \in ToSet(held) : HasState(r, p)
  BY <1>9
<1>11. ioTasks \in Seq(IoTask) /\ NoClash(ioTasks)
  BY <1>4 DEF TypeOK, TasksOwnStates
<1>12. /\ ioTasks' \in Seq(IoTask) /\ TasksOwnStates'
       /\ \A t \in ToSet(ioTasks') : Adds(t) => t \in ToSet(ioTasks)
       /\ holder' \in [Req -> {"none", "request", "task", "done"}]
       /\ \A r \in Req : r \in ToSet(held) => holder[r] = "request" /\ holder'[r] = "task"
       /\ \A r \in Req : r \notin ToSet(held) => holder'[r] = holder[r]
  BY <1>3, <1>7, <1>9, <1>10, <1>11, HandoverAll
<1>13. \A r \in Req :
         /\ holder'[r] \in {"request", "task"} <=> holder[r] \in {"request", "task"}
         /\ holder'[r] = "none" <=> holder[r] = "none"
         /\ holder'[r] = "done" <=> holder[r] = "done"
         /\ holder'[r] = "request" => holder[r] = "request"
  BY <1>12
<1>14. removing' \subseteq Removal /\ Destruction'
  BY <1>3, <1>5, MovedOn
<1>15. TypeOK'
  BY <1>3, <1>4, <1>5, <1>12, <1>14 DEF TypeOK
<1>16. MarkedEntryIsInUse'
  BY <1>3, <1>4, <1>5, <1>6 DEF MarkedEntryIsInUse
<1>17. RemovedProviderHoldsNoRequest'
  <2>1. ASSUME NEW r \in Req, holder'[r] = "request" PROVE current[r] # p
    <3>1. holder[r] = "request" /\ r \notin ToSet(held)
      BY <1>12, <2>1
    <3>2. r \in ToSet(pending[current[r]])
      BY <1>4, <1>6, <3>1 DEF ListsAgree
    <3> QED
      BY <1>9, <3>1, <3>2 DEF HasState
  <2> QED
    BY <1>3, <1>4, <1>5, <1>6, <1>13, <2>1 DEF RemovedProviderHoldsNoRequest
<1>18. AddedOnce' /\ Ascending'
  BY <1>4, <1>5, <1>12 DEF AddedOnce, Ascending
<1>19. NothingAhead'
  BY <1>4, <1>5, <1>13 DEF NothingAhead
<1>20. ListsAgree'
  BY <1>4, <1>5, <1>13 DEF ListsAgree
<1>21. Dispatching'
  BY <1>4, <1>5, <1>6, <1>13 DEF Dispatching, TypeOK
<1>22. Phases'
  BY <1>4, <1>5, <1>13 DEF Phases
<1> QED
  BY <1>5, <1>12, <1>14, <1>15, <1>16, <1>17, <1>18, <1>19, <1>20, <1>21, <1>22
  DEF ManagerInv, OffersAscend

LEMMA RemovalDeletesKeeps ==
  ASSUME ManagerInv, RemovalDeletes
  PROVE  ManagerInv' /\ OffersAscend
<1>1. PICK x \in removing :
        \E p \in Provider :
          /\ AtEntry(x, p) /\ p \in x.which
          /\ p \notin deleting /\ pending[p] = <<>>
          /\ providers' = Erase(providers, p)
          /\ UNCHANGED <<manager, deleting, pending, stateVars, dispatch, removing,
                         ready, archVars, taskVars, seenVars, usedVars>>
  BY DEF RemovalDeletes
<1>2. PICK p \in Provider :
        /\ AtEntry(x, p) /\ p \in x.which
        /\ p \notin deleting /\ pending[p] = <<>>
        /\ providers' = Erase(providers, p)
        /\ UNCHANGED <<manager, deleting, pending, stateVars, dispatch, removing,
                       ready, archVars, taskVars, seenVars, usedVars>>
  BY <1>1
<1>3. /\ TypeOK /\ MarkedEntryIsInUse /\ RemovedProviderHoldsNoRequest
      /\ TasksOwnStates /\ AddedOnce /\ Ascending /\ NothingAhead /\ ListsAgree
      /\ Dispatching /\ Destruction /\ Phases
  BY DEF ManagerInv
<1>4. /\ manager' = manager /\ deleting' = deleting /\ holder' = holder
      /\ pending' = pending /\ current' = current /\ dispatch' = dispatch
      /\ removing' = removing /\ ioTasks' = ioTasks
      /\ ready' = ready /\ archive' = archive /\ waiting' = waiting
      /\ fileTasks' = fileTasks /\ verdict' = verdict /\ callbacks' = callbacks
      /\ fetched' = fetched /\ added' = added /\ visited' = visited
      /\ calls' = calls /\ removals' = removals
  BY <1>2 DEF stateVars, archVars, taskVars, seenVars, usedVars
<1>5. /\ x.pos \in Nat \ {0} /\ removing = {x} /\ manager # "gone"
      /\ x.pos \in DOMAIN providers /\ providers[x.pos] = p
  BY <1>2, AtEntryFacts
<1> DEFINE T == ToSet(providers) \ {p}
<1>6. providers \in Seq(Provider) /\ providers' = Filter(providers, T)
  BY <1>2, <1>3 DEF TypeOK, Erase
<1>7. providers' \in Seq(Provider) /\ ToSet(providers') = ToSet(providers) \ {p}
  <2>1. /\ Erase(providers, p) \in Seq(Provider)
        /\ ToSet(Erase(providers, p)) = ToSet(providers) \ {p}
    BY <1>6, EraseFacts
  <2> QED
    BY <1>2, <2>1
<1>8. TypeOK'
  BY <1>3, <1>4, <1>7 DEF TypeOK
<1>9. MarkedEntryIsInUse' /\ RemovedProviderHoldsNoRequest'
  BY <1>2, <1>3, <1>4, <1>7 DEF MarkedEntryIsInUse, RemovedProviderHoldsNoRequest
<1>10. TasksOwnStates'
  BY <1>3, <1>4 DEF TasksOwnStates, NoClash
<1>11. AddedOnce'
  BY <1>3, <1>4, <1>7 DEF AddedOnce
<1>12. /\ IsInjective(providers') 
       /\ \A y, z : NotBehind(providers, y, z) => NotBehind(providers', y, z)
       /\ \A i, j \in DOMAIN providers' :
            i <= j => OrderOf[providers'[i]] <= OrderOf[providers'[j]]
  BY <1>3, <1>6, OrderKept DEF Ascending
<1>13. Ascending'
  <2> DEFINE l == providers'
  <2>1. IsInjective(l)
    BY <1>12
  <2>2. IsInjective(providers)'
    BY <2>1 DEF IsInjective
  <2> QED
    BY <1>12, <2>2 DEF Ascending
<1>14. NothingAhead'
  <2>1. ASSUME NEW r \in Req, holder[r] \in {"request", "task"},
               NEW i \in DOMAIN providers', NEW j \in DOMAIN providers',
               providers'[i] \in visited[r], providers'[j] = current[r]
        PROVE  i <= j
    <3>1. NotBehind(providers, providers'[i], current[r])
      BY <1>3, <2>1 DEF NothingAhead, NotBehind
    <3>2. NotBehind(providers', providers'[i], current[r])
      BY <1>12, <3>1
    <3> QED
      BY <2>1, <3>2 DEF NotBehind
  <2> QED
    BY <1>3, <1>4, <2>1 DEF NothingAhead
<1>15. ListsAgree'
  <2>1. ASSUME NEW r \in Req, holder[r] \in {"request", "task"}
        PROVE  current[r] \in ToSet(providers')
    <3>1. current[r] \in ToSet(providers) /\ r \in ToSet(pending[current[r]])
      BY <1>3, <1>5, <2>1 DEF ListsAgree
    <3>2. r \notin ToSet(pending[p])
      BY <1>2, EmptySet
    <3> QED
      BY <1>7, <3>1, <3>2
  <2> QED
    BY <1>3, <1>4, <1>5, <2>1 DEF ListsAgree
<1>16. Destruction'
  <2>1. ASSUME x.last, NEW i \in DOMAIN providers', i < x.pos
        PROVE  providers'[i] \in deleting
    <3>1. \A k \in DOMAIN providers : k < x.pos => providers[k] \in deleting
      BY <1>3, <2>1 DEF Destruction
    <3>2. \A k \in DOMAIN providers : k < x.pos => providers[k] \in T
      BY <1>2, <3>1 DEF ToSet
    <3>3. x.pos \in Nat
      BY <1>5
    <3> HIDE DEF T
    <3>4. \A k \in DOMAIN Filter(providers, T) : k < x.pos =>
            k \in DOMAIN providers /\ Filter(providers, T)[k] = providers[k]
      BY <1>6, <3>2, <3>3, FilterPrefix
    <3>5. i \in DOMAIN providers /\ providers'[i] = providers[i]
      BY <1>6, <2>1, <3>4
    <3> QED
      BY <2>1, <3>1, <3>5
  <2> QED
    BY <1>3, <1>4, <1>5, <2>1 DEF Destruction
<1>17. Dispatching' /\ Phases'
  BY <1>3, <1>4 DEF Dispatching, Phases
<1> QED
  BY <1>4, <1>8, <1>9, <1>10, <1>11, <1>13, <1>14, <1>15, <1>16, <1>17
  DEF ManagerInv, OffersAscend

(* What the destructor finds: every entry that is left is marked. *)
LEMMA RemovalEndsKeeps ==
  ASSUME ManagerInv, RemovalEnds
  PROVE  ManagerInv' /\ OffersAscend
<1>1. PICK x \in removing :
        /\ x.pos > Len(providers) /\ removing' = {}
        /\ IF x.last
             THEN /\ manager' = "gone"
                  /\ providers' = <<>> /\ deleting' = {}
                  /\ pending' = [p \in Provider |-> <<>>]
             ELSE UNCHANGED <<manager, entryVars>>
        /\ UNCHANGED <<stateVars, dispatch, ready, archVars, taskVars, seenVars,
                       usedVars>>
  BY DEF RemovalEnds
<1>2. /\ TypeOK /\ MarkedEntryIsInUse /\ RemovedProviderHoldsNoRequest
      /\ TasksOwnStates /\ AddedOnce /\ Ascending /\ NothingAhead /\ ListsAgree
      /\ Dispatching /\ Destruction /\ Phases
  BY DEF ManagerInv
<1>3. /\ holder' = holder /\ current' = current /\ dispatch' = dispatch
      /\ ioTasks' = ioTasks
      /\ ready' = ready /\ archive' = archive /\ waiting' = waiting
      /\ fileTasks' = fileTasks /\ verdict' = verdict /\ callbacks' = callbacks
      /\ fetched' = fetched /\ added' = added /\ visited' = visited
      /\ calls' = calls /\ removals' = removals
  BY <1>1 DEF stateVars, archVars, taskVars, seenVars, usedVars
<1>4. /\ x \in Removal /\ x.pos \in Nat /\ \A y \in removing : y = x
      /\ providers \in Seq(Provider)
  BY <1>2 DEF Destruction, TypeOK, Removal
<1>5. CASE ~x.last
  <2>1. manager' = manager /\ providers' = providers /\ deleting' = deleting /\ pending' = pending
    BY <1>1, <1>5 DEF entryVars
  <2>2. manager # "dying" /\ manager # "gone"
    BY <1>2, <1>4, <1>5 DEF Destruction
  <2>3. Destruction'
    BY <1>1, <1>2, <1>3, <2>1, <2>2 DEF Destruction
  <2>4. /\ NoClash(ioTasks)' /\ ioTasks' \in Seq(IoTask) /\ removals' \in 0..MaxRemovals
        /\ manager' \in {"alive", "dying", "gone"} /\ removing' \subseteq Removal
    BY <1>1, <1>2, <1>3, <2>1 DEF NoClash, TypeOK, TasksOwnStates
  <2>5. UNCHANGED <<entryVars, stateVars, dispatch, ready, archVars, fileTasks,
                    seenVars, added, visited, calls>>
    BY <1>1, <1>3, <2>1 DEF entryVars
  <2> QED
    BY <1>3, <2>1, <2>3, <2>4, <2>5, RemovingKeeps
<1>6. CASE x.last
  <2>1. /\ manager' = "gone" /\ providers' = <<>> /\ deleting' = {}
        /\ pending' = [p \in Provider |-> <<>>]
    BY <1>1, <1>6
  <2>2. <<>> \in Seq(Provider) /\ <<>> \in Seq(Req) /\ ToSet(<<>>) = {} /\ DOMAIN <<>> = {}
    BY EmptySet
  <2>3. manager = "dying" /\ dispatch = {}
    BY <1>2, <1>6 DEF Destruction
  <2>4. TypeOK'
    BY <1>1, <1>2, <1>3, <2>1, <2>2 DEF TypeOK
  <2>5. MarkedEntryIsInUse'
    BY <2>1 DEF MarkedEntryIsInUse
  <2>6. \A r \in Req : holder[r] # "request"
    <3>1. SUFFICES ASSUME NEW r \in Req, holder[r] = "request" PROVE FALSE
      OBVIOUS
    <3>2. current[r] \in ToSet(providers) /\ current[r] \notin deleting
      BY <1>2, <2>3, <3>1 DEF ListsAgree, RemovedProviderHoldsNoRequest
    <3>3. PICK i \in DOMAIN providers : providers[i] = current[r]
      BY <3>2 DEF ToSet
    <3>4. i < x.pos
      BY <1>1, <1>4, <3>3
    <3>5. providers[i] \in deleting
      BY <1>2, <1>6, <3>4 DEF Destruction
    <3> QED
      BY <3>2, <3>3, <3>5
  <2>7. RemovedProviderHoldsNoRequest'
    BY <1>3, <2>6 DEF RemovedProviderHoldsNoRequest
  <2>8. TasksOwnStates'
    BY <1>2, <1>3 DEF TasksOwnStates, NoClash
  <2>9. AddedOnce'
    BY <1>2, <1>3, <2>1, <2>2, <2>3 DEF AddedOnce
  <2>10. Ascending'
    BY <2>1, <2>2 DEF Ascending, IsInjective
  <2>11. NothingAhead'
    BY <1>2, <1>3, <2>1, <2>2 DEF NothingAhead
  <2>12. ListsAgree'
    BY <1>2, <1>3, <2>1 DEF ListsAgree
  <2>13. Dispatching' /\ Phases'
    BY <1>2, <1>3 DEF Dispatching, Phases
  <2>14. Destruction'
    BY <1>1, <1>3, <2>1, <2>3 DEF Destruction
  <2> QED
    BY <1>3, <2>4, <2>5, <2>7, <2>8, <2>9, <2>10, <2>11, <2>12, <2>13, <2>14
    DEF ManagerInv, OffersAscend
<1> QED
  BY <1>5, <1>6

----------------------------------------------------------------------------
LEMMA InitInv == Init => ManagerInv
<1> SUFFICES ASSUME Init PROVE ManagerInv
  OBVIOUS
<1>1. /\ <<>> \in Seq(Provider) /\ <<>> \in Seq(Req) /\ <<>> \in Seq(IoTask)
      /\ <<>> \in Seq(FileTask) /\ ToSet(<<>>) = {} /\ DOMAIN <<>> = {}
  BY EmptySet
<1>2. /\ manager = "alive" /\ providers = <<>> /\ deleting = {}
      /\ pending = [p \in Provider |-> <<>>]
      /\ current = [r \in Req |-> NoProvider]
      /\ holder = [r \in Req |-> "none"]
      /\ dispatch = {} /\ removing = {} /\ ready = {}
      /\ archive = [p \in Provider |-> "idle"]
      /\ waiting = [p \in Provider |-> <<>>]
      /\ ioTasks = <<>> /\ fileTasks = <<>>
      /\ verdict = [r \in Req |-> "none"]
      /\ callbacks = [r \in Req |-> 0]
      /\ fetched = [r \in Req |-> "no"]
      /\ added = {} /\ visited = [r \in Req |-> {}]
      /\ calls = [x \in Provider \X Req |-> 0] /\ removals = 0
  BY DEF Init
<1>3. 0 \in 0..MaxCalls /\ 0 \in 0..MaxRemovals
  BY ManagerAssumption
<1>4. TypeOK
  BY <1>1, <1>2, <1>3 DEF TypeOK
<1>5. MarkedEntryIsInUse /\ RemovedProviderHoldsNoRequest
  BY <1>2 DEF MarkedEntryIsInUse, RemovedProviderHoldsNoRequest
<1>6. TasksOwnStates /\ AddedOnce
  BY <1>1, <1>2 DEF TasksOwnStates, NoClash, AddedOnce
<1>7. Ascending
  BY <1>1, <1>2 DEF Ascending, IsInjective
<1>8. NothingAhead
  BY <1>1, <1>2 DEF NothingAhead
<1>9. ListsAgree
  <2>1. IsInjective(<<>>)
    BY <1>1 DEF IsInjective
  <2> QED
    BY <1>1, <1>2, <2>1 DEF ListsAgree
<1>10. Dispatching /\ Destruction /\ Phases
  BY <1>2 DEF Dispatching, Destruction, Phases
<1> QED
  BY <1>4, <1>5, <1>6, <1>7, <1>8, <1>9, <1>10 DEF ManagerInv

LEMMA NextInv == ManagerInv /\ [Next]_vars => ManagerInv' /\ [OffersAscend]_vars
<1> SUFFICES ASSUME ManagerInv, [Next]_vars PROVE ManagerInv' /\ [OffersAscend]_vars
  OBVIOUS
<1>1. CASE RequestStep
  <2>1. PICK r \in Req : \/ OnBeforeResourceLoad(r) \/ GetResourceHandler(r)
                         \/ ContentOnRequest(r) \/ DirectoryOnRequest(r)
                         \/ ArchiveOnRequest(r) \/ CustomOnRequest(r)
    BY <1>1 DEF RequestStep
  <2> QED
    BY <2>1, OnBeforeResourceLoadKeeps, GetResourceHandlerKeeps, ContentOnRequestKeeps,
       DirectoryOnRequestKeeps, ArchiveOnRequestKeeps, CustomOnRequestKeeps
<1>2. CASE TaskStep
  BY <1>2, RunContinueTaskKeeps, RunStopTaskKeeps, RunCallTaskKeeps, RunArchiveTaskKeeps,
     RunAddTaskKeeps, RunRemoveTaskKeeps, RunFileTaskKeeps DEF TaskStep, IoTaskStep
<1>3. CASE ApplicationStep
  <2>1. ASSUME NEW p \in Provider, AddProvider(p) \/ PostAddProvider(p)
        PROVE  ManagerInv' /\ OffersAscend
    BY <2>1, AddProviderKeeps, PostAddProviderKeeps
  <2>2. ASSUME NEW p \in Provider, NEW r \in Req, NEW outcome \in Outcome,
               CallRequest(p, r, outcome) \/ PostCallRequest(p, r, outcome)
        PROVE  ManagerInv' /\ OffersAscend
    BY <2>2, CallRequestKeeps, PostCallRequestKeeps
  <2>3. ASSUME NEW args \in RemovalArgs,
               \/ RemoveProviders(args[1], args[2])
               \/ PostRemoveProviders(args[1], args[2])
        PROVE  ManagerInv' /\ OffersAscend
    BY <2>3, RemovalArgsTyped, RemoveProvidersKeeps, PostRemoveProvidersKeeps
  <2> QED
    BY <1>3, <2>1, <2>2, <2>3, ReleaseManagerKeeps DEF ApplicationStep
<1>4. CASE RemovalStep
  BY <1>4, RemovalSkipsKeeps, RemovalMarksKeeps, RemovalDeletesKeeps, RemovalEndsKeeps
  DEF RemovalStep
<1>5. CASE UNCHANGED vars
  <2>1. /\ UNCHANGED <<manager, entryVars, stateVars, dispatch, removing, ready,
                       archVars, taskVars, seenVars, added, visited, calls, removals>>
        /\ ioTasks' = ioTasks /\ fileTasks' = fileTasks
    BY <1>5 DEF vars, usedVars, taskVars
  <2>2. /\ NoClash(ioTasks)' /\ ioTasks' \in Seq(IoTask) /\ removals' \in 0..MaxRemovals
        /\ manager' \in {"alive", "dying", "gone"} /\ removing' \subseteq Removal
    BY <2>1 DEF NoClash, ManagerInv, TypeOK, TasksOwnStates
  <2>3. Destruction'
    BY <2>1 DEF ManagerInv, Destruction, entryVars, stateVars
  <2> QED
    BY <2>1, <2>2, <2>3, RemovingKeeps
<1> QED
  BY <1>1, <1>2, <1>3, <1>4, <1>5 DEF Next

LEMMA Invariance == Spec => []ManagerInv
<1> QED
  BY InitInv, NextInv, PTL DEF Spec

(* The variables keep their types in every execution. *)
THEOREM ManagerTypeCorrect == Spec => []TypeOK
<1>1. ManagerInv => TypeOK
  BY DEF ManagerInv
<1> QED
  BY <1>1, Invariance, PTL

(* The iterators of a RequestState stay valid until it is destroyed: the entry
   it refers to is in providers_ and lists the request once, however many
   providers are added, marked and erased meanwhile. *)
THEOREM StatesStayOnLiveEntries == Spec => []StateOnLiveEntry
<1>1. ManagerInv => StateOnLiveEntry
  <2> SUFFICES ASSUME ManagerInv, manager # "gone"
               PROVE  /\ \A r \in Req : holder[r] \in {"request", "task"} =>
                           /\ current[r] \in ToSet(providers)
                           /\ r \in ToSet(pending[current[r]])
                      /\ \A p \in Provider : \A i, j \in DOMAIN pending[p] :
                           /\ current[pending[p][i]] = p
                           /\ holder[pending[p][i]] \in {"request", "task"}
                           /\ pending[p][i] = pending[p][j] => i = j
    BY DEF StateOnLiveEntry
  <2>1. ListsAgree /\ TypeOK
    BY DEF ManagerInv
  <2>2. ASSUME NEW p \in Provider, NEW i \in DOMAIN pending[p]
        PROVE  pending[p][i] \in ToSet(pending[p]) /\ pending[p][i] \in Req
    BY <2>1, <2>2 DEF TypeOK, ToSet
  <2>3. \A p \in Provider : \A i, j \in DOMAIN pending[p] :
          /\ current[pending[p][i]] = p
          /\ holder[pending[p][i]] \in {"request", "task"}
          /\ pending[p][i] = pending[p][j] => i = j
    BY <2>1, <2>2 DEF ListsAgree, IsInjective
  <2> QED
    BY <2>1, <2>3 DEF ListsAgree
<1> QED
  BY <1>1, Invariance, PTL

(* An entry that DeleteProvider has marked still lists a request, whose
   departure erases it. *)
THEOREM MarkedEntriesAreInUse == Spec => []MarkedEntryIsInUse
<1>1. ManagerInv => MarkedEntryIsInUse
  BY DEF ManagerInv
<1> QED
  BY <1>1, Invariance, PTL

(* DeleteProvider takes the state of every request that waits for the provider,
   and none waits once the manager is gone. *)
THEOREM RemovalFreesRequests == Spec => []RemovedProviderHoldsNoRequest
<1>1. ManagerInv => RemovedProviderHoldsNoRequest
  BY DEF ManagerInv
<1> QED
  BY <1>1, Invariance, PTL

(* A request meets the providers in ascending order, none twice and none that
   was removed, whatever the application adds and removes on the way. *)
THEOREM RequestsMeetProvidersInOrder == Spec => OffersInOrder
<1>1. Spec => [][OffersAscend]_vars
  BY InitInv, NextInv, PTL DEF Spec
<1>2. OffersAscend <=> \A r \in Req : visited'[r] # visited[r] =>
        /\ current'[r] \notin visited[r] /\ current'[r] \notin deleting'
        /\ \A p \in visited[r] : OrderOf[p] <= OrderOf[current'[r]]
  BY DEF OffersAscend
<1> QED
  BY <1>1, <1>2, PTL DEF OffersInOrder

----------------------------------------------------------------------------
(***************************************************************************)
(* The manager implements ResourceLoad: what the steps do to a request, as *)
(* the network stack sees it.                                              *)
(***************************************************************************)
LEMMA SeenStutters ==
  ASSUME UNCHANGED <<callbacks, ready, fetched>>,
         \A r \in Req : /\ holder'[r] = "none" <=> holder[r] = "none"
                        /\ holder'[r] = "done" <=> holder[r] = "done"
  PROVE  UNCHANGED Load!vars
<1>1. ASSUME NEW r \in Req PROVE PhaseOf(r)' = PhaseOf(r)
  BY DEF PhaseOf
<1>2. [r \in Req |-> PhaseOf(r)]' = [r \in Req |-> PhaseOf(r)]
  BY <1>1
<1>3. {r \in Req : fetched[r] = "handler"}' = {r \in Req : fetched[r] = "handler"}
  OBVIOUS
<1> QED
  BY <1>2, <1>3 DEF Load!vars

LEMMA SeenResumes ==
  ASSUME ManagerInv, NEW r \in Req, holder[r] \in {"request", "task"},
         NEW handler \in BOOLEAN,
         holder' = [holder EXCEPT ![r] = "done"],
         callbacks' = [callbacks EXCEPT ![r] = @ + 1],
         ready' = IF handler THEN ready \union {r} ELSE ready,
         UNCHANGED fetched
  PROVE  Load!Resume(r, handler)
<1>1. holder \in [Req -> {"none", "request", "task", "done"}] /\ fetched[r] = "no"
  BY DEF ManagerInv, TypeOK, Phases
<1>2. PhaseOf(r) = "held" /\ PhaseOf(r)' = "resumed"
  BY <1>1 DEF PhaseOf
<1>3. ASSUME NEW s \in Req, s # r PROVE PhaseOf(s)' = PhaseOf(s)
  BY <1>1, <1>3 DEF PhaseOf
<1>4. [s \in Req |-> PhaseOf(s)]' = [[s \in Req |-> PhaseOf(s)] EXCEPT ![r] = "resumed"]
  BY <1>2, <1>3
<1>5. {s \in Req : fetched[s] = "handler"}' = {s \in Req : fetched[s] = "handler"}
  OBVIOUS
<1> QED
  BY <1>2, <1>4, <1>5 DEF Load!Resume

LEMMA SeenLeavesIdle ==
  ASSUME ManagerInv, NEW r \in Req, holder[r] = "none",
         NEW h \in {"done", "request"}, holder' = [holder EXCEPT ![r] = h],
         UNCHANGED <<callbacks, ready, fetched>>
  PROVE  Load!PassThrough(r) \/ Load!Hold(r)
<1>1. holder \in [Req -> {"none", "request", "task", "done"}] /\ fetched[r] = "no"
  BY DEF ManagerInv, TypeOK, Phases
<1>2. PhaseOf(r) = "idle" /\ PhaseOf(r)' = IF h = "done" THEN "resumed" ELSE "held"
  <2>1. holder'[r] = h
    BY <1>1
  <2> QED
    BY <1>1, <2>1 DEF PhaseOf
<1>3. ASSUME NEW s \in Req, s # r PROVE PhaseOf(s)' = PhaseOf(s)
  BY <1>1, <1>3 DEF PhaseOf
<1>4. [s \in Req |-> PhaseOf(s)]' =
        [[s \in Req |-> PhaseOf(s)] EXCEPT ![r] = IF h = "done" THEN "resumed" ELSE "held"]
  BY <1>2, <1>3
<1>5. {s \in Req : fetched[s] = "handler"}' = {s \in Req : fetched[s] = "handler"}
  OBVIOUS
<1>6. CASE h = "done"
  BY <1>2, <1>4, <1>5, <1>6 DEF Load!PassThrough
<1>7. CASE h = "request"
  BY <1>2, <1>4, <1>5, <1>7 DEF Load!Hold
<1> QED
  BY <1>6, <1>7

LEMMA SeenFetched ==
  ASSUME ManagerInv, NEW r \in Req, GetResourceHandler(r)
  PROVE  Load!Fetch(r)
<1>1. /\ verdict[r] = "continue" \/ callbacks[r] > 0
      /\ fetched[r] = "no"
      /\ fetched' = [fetched EXCEPT ![r] = IF r \in ready THEN "handler" ELSE "nothing"]
      /\ ready' = ready \ {r} /\ UNCHANGED stateVars /\ callbacks' = callbacks
  BY DEF GetResourceHandler, usedVars, stateVars, seenVars, ManagerInv, TypeOK
<1>2. holder' = holder /\ holder[r] = "done" /\ fetched \in [Req -> {"no", "nothing", "handler"}]
  BY <1>1 DEF stateVars, ManagerInv, Phases, TypeOK
<1>3. PhaseOf(r) = "resumed" /\ PhaseOf(r)' = "fetched"
  <2>1. fetched'[r] # "no"
    BY <1>1, <1>2
  <2> QED
    BY <1>1, <1>2, <2>1 DEF PhaseOf
<1>4. ASSUME NEW s \in Req, s # r PROVE PhaseOf(s)' = PhaseOf(s)
  BY <1>1, <1>2, <1>4 DEF PhaseOf
<1>5. [s \in Req |-> PhaseOf(s)]' = [[s \in Req |-> PhaseOf(s)] EXCEPT ![r] = "fetched"]
  BY <1>3, <1>4
<1>6. {s \in Req : fetched[s] = "handler"}' =
        {s \in Req : fetched[s] = "handler"} \union ({r} \intersect ready)
  BY <1>1, <1>2
<1> QED
  BY <1>1, <1>3, <1>5, <1>6 DEF Load!Fetch

(* Forward, which ends with StopRequest or with the next offer. *)
LEMMA SeenForward ==
  ASSUME ManagerInv, NEW r \in Req, holder[r] \in {"request", "task"}, Forward(r),
         UNCHANGED <<ready, fetched>>
  PROVE  Load!Resume(r, FALSE) \/ UNCHANGED Load!vars
<1>1. holder \in [Req -> {"none", "request", "task", "done"}]
  BY DEF ManagerInv, TypeOK
<1>2. \/ Finish(r)
      \/ holder' = [holder EXCEPT ![r] = "request"] /\ callbacks' = callbacks
  BY DEF Forward, MakeRequest
<1>3. CASE Finish(r)
  <2>1. /\ holder' = [holder EXCEPT ![r] = "done"]
        /\ callbacks' = [callbacks EXCEPT ![r] = @ + 1]
    BY <1>3 DEF Finish
  <2>2. ready' = IF FALSE THEN ready \union {r} ELSE ready
    OBVIOUS
  <2> QED
    BY <2>1, <2>2, SeenResumes
<1>4. CASE holder' = [holder EXCEPT ![r] = "request"] /\ callbacks' = callbacks
  <2>1. \A s \in Req : /\ holder'[s] = "none" <=> holder[s] = "none"
                       /\ holder'[s] = "done" <=> holder[s] = "done"
    BY <1>1, <1>4
  <2> QED
    BY <1>4, <2>1, SeenStutters
<1> QED
  BY <1>2, <1>3, <1>4

(* Call takes the state from a Request object, which nobody sees. *)
LEMMA SeenCall ==
  ASSUME ManagerInv, NEW r \in Req, NEW p, NEW outcome, NEW rest, Call(r, p, outcome, rest),
         UNCHANGED <<callbacks, ready, fetched>>
  PROVE  UNCHANGED Load!vars
<1>1. holder \in [Req -> {"none", "request", "task", "done"}]
  BY DEF ManagerInv, TypeOK
<1>2. \/ holder' = holder
      \/ holder[r] = "request" /\ holder' = [holder EXCEPT ![r] = "task"]
  BY DEF Call, HasState
<1>3. \A s \in Req : /\ holder'[s] = "none" <=> holder[s] = "none"
                     /\ holder'[s] = "done" <=> holder[s] = "done"
  BY <1>1, <1>2
<1> QED
  BY <1>3, SeenStutters

LEMMA SeenQuiet ==
  ASSUME UNCHANGED <<stateVars, callbacks, ready, fetched>>
  PROVE  UNCHANGED Load!vars
BY SeenStutters DEF stateVars

SeenStep == Load!Next \/ UNCHANGED Load!vars

LEMMA SeenRequestStep ==
  ASSUME ManagerInv, RequestStep
  PROVE  SeenStep
<1>1. PICK r \in Req : \/ OnBeforeResourceLoad(r) \/ GetResourceHandler(r)
                       \/ ContentOnRequest(r) \/ DirectoryOnRequest(r)
                       \/ ArchiveOnRequest(r) \/ CustomOnRequest(r)
  BY DEF RequestStep
<1>2. CASE OnBeforeResourceLoad(r)
  <2>1. /\ holder[r] = "none" /\ UNCHANGED <<callbacks, ready, fetched>>
        /\ \/ holder' = [holder EXCEPT ![r] = "done"]
           \/ holder' = [holder EXCEPT ![r] = "request"]
    BY <1>2 DEF OnBeforeResourceLoad, MakeRequest
  <2>2. Load!PassThrough(r) \/ Load!Hold(r)
    BY <2>1, SeenLeavesIdle
  <2> QED
    BY <2>2 DEF SeenStep, Load!Next
<1>3. CASE GetResourceHandler(r)
  BY <1>3, SeenFetched DEF SeenStep, Load!Next
<1>4. ASSUME r \in dispatch, Forward(r), UNCHANGED <<ready, fetched>>
      PROVE  SeenStep
  <2>1. holder[r] \in {"request", "task"}
    BY <1>4 DEF ManagerInv, Dispatching
  <2>2. Load!Resume(r, FALSE) \/ UNCHANGED Load!vars
    BY <1>4, <2>1, SeenForward
  <2> QED
    BY <2>2 DEF SeenStep, Load!Next
<1>5. CASE ContentOnRequest(r)
  <2>1. /\ r \in dispatch /\ UNCHANGED <<ready, fetched>>
        /\ \/ Call(r, current[r], "serve", ioTasks) /\ UNCHANGED callbacks
           \/ Forward(r)
    BY <1>5 DEF ContentOnRequest, Offered
  <2> QED
    BY <1>4, <2>1, SeenCall DEF SeenStep
<1>6. CASE DirectoryOnRequest(r)
  <2>1. /\ r \in dispatch /\ UNCHANGED <<ready, fetched>>
        /\ UNCHANGED <<stateVars, callbacks>> \/ Forward(r)
    BY <1>6 DEF DirectoryOnRequest, Offered
  <2> QED
    BY <1>4, <2>1, SeenQuiet DEF SeenStep
<1>7. CASE ArchiveOnRequest(r)
  <2>1. /\ r \in dispatch /\ UNCHANGED <<ready, fetched>>
        /\ \/ UNCHANGED <<stateVars, callbacks>>
           \/ Call(r, current[r], "serve", ioTasks) /\ UNCHANGED callbacks
           \/ Forward(r)
    BY <1>7 DEF ArchiveOnRequest, Offered
  <2> QED
    BY <1>4, <2>1, SeenQuiet, SeenCall DEF SeenStep
<1>8. CASE CustomOnRequest(r)
  <2>1. /\ r \in dispatch /\ UNCHANGED <<ready, fetched>>
        /\ UNCHANGED <<stateVars, callbacks>> \/ Forward(r)
    BY <1>8 DEF CustomOnRequest, Offered
  <2> QED
    BY <1>4, <2>1, SeenQuiet DEF SeenStep
<1> QED
  BY <1>1, <1>2, <1>3, <1>5, <1>6, <1>7, <1>8

(* The task that owns the state of a request ends it, or offers it again. *)
LEMMA SeenOwnerTask ==
  ASSUME ManagerInv, RunContinueTask \/ RunStopTask
  PROVE  SeenStep
<1> DEFINE t == Head(ioTasks)
           r == t.req
<1>1. ioTasks # <<>> /\ t.kind \in {"continue", "stop"} /\ UNCHANGED fetched
  BY DEF RunContinueTask, RunStopTask, NextTask
<1>2. t \in IoTask /\ Owns(t) /\ r \in Req
  BY <1>1, TakenFacts, TaskFields DEF Owns
<1>3. holder[r] = "task"
  <2>1. t \in ToSet(ioTasks)
    <3>1. ioTasks \in Seq(IoTask)
      BY DEF ManagerInv, TypeOK
    <3>2. 1 \in DOMAIN ioTasks /\ t = ioTasks[1]
      BY <1>1, <3>1
    <3> QED
      BY <3>2 DEF ToSet
  <2> QED
    BY <1>2, <2>1 DEF ManagerInv, TasksOwnStates
<1>4. \/ Finish(r) /\ ready' = ready
      \/ Finish(r) /\ ready' = ready \union {r}
      \/ Forward(r) /\ ready' = ready
  BY DEF RunContinueTask, RunStopTask, StopRequest
<1> HIDE DEF t
<1>5. ASSUME NEW handler \in BOOLEAN, Finish(r),
             ready' = IF handler THEN ready \union {r} ELSE ready
      PROVE  SeenStep
  <2>1. /\ holder' = [holder EXCEPT ![r] = "done"]
        /\ callbacks' = [callbacks EXCEPT ![r] = @ + 1]
    BY <1>5 DEF Finish
  <2>2. Load!Resume(r, handler)
    BY <1>1, <1>2, <1>3, <1>5, <2>1, SeenResumes
  <2> QED
    BY <1>2, <2>2 DEF SeenStep, Load!Next
<1>6. CASE Finish(r) /\ ready' = ready
  <2>1. ready' = IF FALSE THEN ready \union {r} ELSE ready
    BY <1>6
  <2> QED
    BY <1>5, <1>6, <2>1
<1>7. CASE Finish(r) /\ ready' = ready \union {r}
  <2>1. ready' = IF TRUE THEN ready \union {r} ELSE ready
    BY <1>7
  <2> QED
    BY <1>5, <1>7, <2>1
<1>8. CASE Forward(r) /\ ready' = ready
  <2>1. Load!Resume(r, FALSE) \/ UNCHANGED Load!vars
    BY <1>1, <1>2, <1>3, <1>8, SeenForward
  <2> QED
    BY <1>2, <2>1 DEF SeenStep, Load!Next
<1> QED
  BY <1>4, <1>6, <1>7, <1>8

(* Handing several requests to tasks is not seen either. *)
LEMMA SeenHandover ==
  ASSUME ManagerInv, NEW held \in Seq(Req), NEW p,
         \A r \in ToSet(held) : HasState(r, p),
         holder' = [r \in Req |-> IF r \in ToSet(held) THEN "task" ELSE holder[r]],
         UNCHANGED <<callbacks, ready, fetched>>
  PROVE  UNCHANGED Load!vars
<1>1. \A r \in ToSet(held) : holder[r] = "request"
  BY DEF HasState
<1>2. \A r \in Req : /\ holder'[r] = "none" <=> holder[r] = "none"
                     /\ holder'[r] = "done" <=> holder[r] = "done"
  BY <1>1
<1> QED
  BY <1>2, SeenStutters

LEMMA SeenArchiveTask ==
  ASSUME ManagerInv, RunArchiveTask
  PROVE  UNCHANGED Load!vars
<1> DEFINE p    == Head(ioTasks).to
           held == Filter(waiting[p], {r \in HasResource[p] : HasState(r, p)})
<1>1. /\ ioTasks # <<>> /\ Head(ioTasks).kind = "archive"
      /\ UNCHANGED <<current, callbacks, ready, fetched>>
      /\ \/ UNCHANGED holder
         \/ holder' = [r \in Req |-> IF r \in ToSet(held) THEN "task" ELSE holder[r]]
  BY DEF RunArchiveTask, NextTask, seenVars
<1>2. p \in Provider
  BY <1>1, TakenFacts, TaskFields
<1>3. waiting[p] \in Seq(Req)
  BY <1>2 DEF ManagerInv, TypeOK
<1>4. held \in Seq(Req) /\ \A r \in ToSet(held) : HasState(r, p)
  BY <1>3, FilterFacts
<1> HIDE DEF held
<1>5. CASE UNCHANGED holder
  BY <1>1, <1>5, SeenQuiet DEF stateVars
<1>6. CASE holder' = [r \in Req |-> IF r \in ToSet(held) THEN "task" ELSE holder[r]]
  BY <1>1, <1>4, <1>6, SeenHandover
<1> QED
  BY <1>1, <1>5, <1>6

LEMMA SeenTaskStep ==
  ASSUME ManagerInv, TaskStep
  PROVE  SeenStep
<1>1. CASE RunContinueTask \/ RunStopTask
  BY <1>1, SeenOwnerTask
<1>2. CASE RunCallTask
  <2>1. /\ ioTasks # <<>> /\ Head(ioTasks).kind = "call"
        /\ UNCHANGED <<callbacks, ready, fetched>>
        /\ Call(Head(ioTasks).req, Head(ioTasks).to, Head(ioTasks).outcome, Tail(ioTasks))
    BY <1>2 DEF RunCallTask, NextTask, seenVars
  <2>2. Head(ioTasks).req \in Req
    BY <2>1, TakenFacts, TaskFields
  <2> QED
    BY <2>1, <2>2, SeenCall DEF SeenStep
<1>3. CASE RunArchiveTask
  BY <1>3, SeenArchiveTask DEF SeenStep
<1>4. CASE RunAddTask \/ RunRemoveTask \/ RunFileTask
  <2>1. UNCHANGED <<stateVars, callbacks, ready, fetched>>
    BY <1>4 DEF RunAddTask, RunRemoveTask, RunFileTask, seenVars
  <2> QED
    BY <2>1, SeenQuiet DEF SeenStep
<1> QED
  BY <1>1, <1>2, <1>3, <1>4 DEF TaskStep, IoTaskStep

LEMMA SeenApplicationStep ==
  ASSUME ManagerInv, ApplicationStep
  PROVE  SeenStep
<1>1. ASSUME NEW p \in Provider, NEW r \in Req, NEW outcome \in Outcome,
             CallRequest(p, r, outcome)
      PROVE  SeenStep
  <2>1. Call(r, p, outcome, ioTasks) /\ UNCHANGED <<callbacks, ready, fetched>>
    BY <1>1 DEF CallRequest, seenVars
  <2> QED
    BY <2>1, SeenCall DEF SeenStep
<1>2. ASSUME UNCHANGED <<stateVars, callbacks, ready, fetched>> PROVE SeenStep
  BY <1>2, SeenQuiet DEF SeenStep
<1>3. ASSUME NEW p \in Provider, AddProvider(p) \/ PostAddProvider(p) PROVE SeenStep
  BY <1>2, <1>3 DEF AddProvider, PostAddProvider, seenVars
<1>4. ASSUME NEW p \in Provider, NEW r \in Req, NEW outcome \in Outcome,
             PostCallRequest(p, r, outcome)
      PROVE  SeenStep
  BY <1>2, <1>4 DEF PostCallRequest, seenVars
<1>5. ASSUME NEW args \in RemovalArgs,
             \/ RemoveProviders(args[1], args[2])
             \/ PostRemoveProviders(args[1], args[2])
      PROVE  SeenStep
  BY <1>2, <1>5 DEF RemoveProviders, PostRemoveProviders, seenVars
<1>6. CASE ReleaseManager
  BY <1>2, <1>6 DEF ReleaseManager, seenVars
<1> QED
  BY <1>1, <1>3, <1>4, <1>5, <1>6 DEF ApplicationStep

LEMMA SeenRemovalStep ==
  ASSUME ManagerInv, RemovalStep
  PROVE  SeenStep
<1>1. CASE RemovalMarks
  <2>1. PICK p \in Provider :
          /\ UNCHANGED <<callbacks, ready, fetched>>
          /\ LET held == Filter(pending[p], {r \in Req : HasState(r, p)})
             IN  holder' = [r \in Req |-> IF r \in ToSet(held) THEN "task" ELSE holder[r]]
    BY <1>1 DEF RemovalMarks, seenVars
  <2> DEFINE held == Filter(pending[p], {r \in Req : HasState(r, p)})
  <2>2. holder' = [r \in Req |-> IF r \in ToSet(held) THEN "task" ELSE holder[r]]
    BY <2>1
  <2>3. pending[p] \in Seq(Req)
    BY DEF ManagerInv, TypeOK
  <2>4. held \in Seq(Req) /\ \A r \in ToSet(held) : HasState(r, p)
    BY <2>3, FilterFacts
  <2> HIDE DEF held
  <2> QED
    BY <2>1, <2>2, <2>4, SeenHandover DEF SeenStep
<1>2. CASE RemovalSkips \/ RemovalDeletes \/ RemovalEnds
  <2>1. UNCHANGED <<stateVars, callbacks, ready, fetched>>
    BY <1>2 DEF RemovalSkips, RemovalDeletes, RemovalEnds, seenVars
  <2> QED
    BY <2>1, SeenQuiet DEF SeenStep
<1> QED
  BY <1>1, <1>2 DEF RemovalStep

(* What cef_resource_manager.h promises a request holds for any providers: it
   passes through at once, or it is held and resumed by one run of its callback,
   and GetResourceHandler then finds the handler a provider supplied, once. *)
THEOREM ManagerImplementsLoad == Spec => ImplementsResourceLoad
<1>1. Init => Load!Init
  <2> SUFFICES ASSUME Init PROVE Load!Init
    OBVIOUS
  <2>1. /\ holder = [r \in Req |-> "none"] /\ callbacks = [r \in Req |-> 0]
        /\ ready = {} /\ fetched = [r \in Req |-> "no"]
    BY DEF Init
  <2>2. \A r \in Req : PhaseOf(r) = "idle"
    BY <2>1 DEF PhaseOf
  <2> QED
    BY <2>1, <2>2 DEF Load!Init
<1>2. ManagerInv /\ [Next]_vars => [Load!Next]_(Load!vars)
  <2>1. ASSUME ManagerInv, UNCHANGED vars PROVE SeenStep
    BY <2>1, SeenQuiet DEF SeenStep, vars, seenVars
  <2>2. ASSUME ManagerInv, Next PROVE SeenStep
    BY <2>2, SeenRequestStep, SeenTaskStep, SeenApplicationStep, SeenRemovalStep DEF Next
  <2> QED
    BY <2>1, <2>2 DEF SeenStep
<1> QED
  BY <1>1, <1>2, Invariance, PTL DEF Spec, ImplementsResourceLoad, Load!Spec

----------------------------------------------------------------------------
(***************************************************************************)
(* No request that is held is stranded: beside ManagerInv, every request   *)
(* has what will take it further, an archive that loads while it is listed *)
(* has its load in a queue, and only a Request object that was made is     *)
(* called.                                                                 *)
(***************************************************************************)

\* What a request that is held waits for: the task with its state, the
\* application, the FILE thread, or the archive.
Carried(r) ==
  /\ holder[r] = "task" => \E t \in ToSet(ioTasks) : Owns(t) /\ t.req = r
  /\ holder[r] = "request" =>
       LET p == current[r]
       IN  /\ KindOf[p] = "custom" => calls[<<p, r>>] = 0 \/ CallComes(r, p)
           /\ r \notin dispatch =>
                /\ KindOf[p] # "content"
                /\ KindOf[p] = "directory" =>
                     \/ [kind |-> "open", req |-> r, to |-> p] \in ToSet(fileTasks)
                     \/ CallComes(r, p)
                /\ KindOf[p] = "archive" =>
                     \/ archive[p] = "loading" /\ r \in ToSet(waiting[p])
                     \/ archive[p] = "loaded" /\ r \notin HasResource[p]

\* An archive that is listed while it loads has its load in a queue, and only
\* one that a request was offered to loads.
ArchivesLoad ==
  \A p \in Provider : archive[p] = "loading" =>
    /\ p \in ToSet(providers) => LoadComes(p)
    /\ \E r \in Req : p \in visited[r]

\* Only a Request object that was made is called.
CallsVisited == \A p \in Provider, r \in Req : calls[<<p, r>>] > 0 => p \in visited[r]

CarriedInv == /\ ManagerInv
              /\ \A r \in Req : Carried(r)
              /\ ArchivesLoad /\ CallsVisited

\* The tasks that carry request r, beside those of an archive.
Concerns(t, r) == t.kind \in {"continue", "stop", "call"} /\ t.req = r

(* The requests that a step is not about. *)
LEMMA OthersStayCarried ==
  ASSUME CarriedInv, NEW R \in SUBSET Req,
         \A s \in Req \ R :
           /\ holder'[s] = holder[s] /\ current'[s] = current[s]
           /\ s \in dispatch => s \in dispatch'
           /\ \A t \in ToSet(ioTasks) : Concerns(t, s) => t \in ToSet(ioTasks')
           /\ \A t \in ToSet(fileTasks) :
                t.kind = "open" /\ t.req = s => t \in ToSet(fileTasks'),
         \A s \in Req \ R, p \in Provider :
           /\ calls'[<<p, s>>] = calls[<<p, s>>]
           /\ archive'[p] = archive[p] \/ archive[p] = "idle"
           /\ ToSet(waiting[p]) \subseteq ToSet(waiting'[p])
  PROVE  \A s \in Req \ R : Carried(s)'
<1> SUFFICES ASSUME NEW s \in Req \ R PROVE Carried(s)'
  OBVIOUS
<1> DEFINE p == current[s]
<1>1. Carried(s) /\ ManagerInv
  BY DEF CarriedInv
<1>2. /\ holder'[s] = holder[s] /\ current'[s] = p
      /\ s \notin dispatch' => s \notin dispatch
  OBVIOUS
<1>3. CASE holder[s] = "task"
  <2>1. PICK t \in ToSet(ioTasks) : Owns(t) /\ t.req = s
    BY <1>1, <1>3 DEF Carried
  <2>2. t \in ToSet(ioTasks')
    BY <2>1 DEF Concerns, Owns
  <2>3. holder'[s] = "task" /\ \E u \in ToSet(ioTasks') : Owns(u) /\ u.req = s
    BY <1>2, <1>3, <2>1, <2>2
  <2> QED
    BY <2>3 DEF Carried
<1>4. CASE holder[s] = "request"
  <2>1. p \in Provider
    BY <1>1, <1>4, LiveEntry DEF ManagerInv, RemovedProviderHoldsNoRequest
  <2>2. /\ calls'[<<p, s>>] = calls[<<p, s>>]
        /\ archive'[p] = archive[p] \/ archive[p] = "idle"
        /\ ToSet(waiting[p]) \subseteq ToSet(waiting'[p])
    BY <2>1
  <2>3. CallComes(s, p) => \E t \in ToSet(ioTasks') : t.kind = "call" /\ t.req = s /\ t.to = p
    BY DEF CallComes, Concerns
  <2>4. [kind |-> "open", req |-> s, to |-> p] \in ToSet(fileTasks) =>
          [kind |-> "open", req |-> s, to |-> p] \in ToSet(fileTasks')
    OBVIOUS
  <2>5. /\ KindOf[p] = "custom" => calls[<<p, s>>] = 0 \/ CallComes(s, p)
        /\ s \notin dispatch =>
             /\ KindOf[p] # "content"
             /\ KindOf[p] = "directory" =>
                  \/ [kind |-> "open", req |-> s, to |-> p] \in ToSet(fileTasks)
                  \/ CallComes(s, p)
             /\ KindOf[p] = "archive" =>
                  \/ archive[p] = "loading" /\ s \in ToSet(waiting[p])
                  \/ archive[p] = "loaded" /\ s \notin HasResource[p]
    BY <1>1, <1>4 DEF Carried
  <2> HIDE DEF p
  <2>6. Carried(s)'
    BY <1>2, <1>4, <2>2, <2>3, <2>4, <2>5 DEF Carried, CallComes
  <2> QED
    BY <2>6
<1>5. CASE holder[s] \notin {"task", "request"}
  BY <1>2, <1>5 DEF Carried
<1> QED
  BY <1>3, <1>4, <1>5

(* The loads go on, while the list only grows by providers nobody was offered. *)
LEMMA LoadsGoOn ==
  ASSUME CarriedInv, UNCHANGED archive,
         \A r \in Req : visited[r] \subseteq visited'[r],
         \A p \in ToSet(providers') : p \in ToSet(providers) \/ \A r \in Req : p \notin visited[r],
         \A t \in ToSet(ioTasks) : t.kind = "archive" => t \in ToSet(ioTasks'),
         \A t \in ToSet(fileTasks) : t.kind = "load" =>
           t \in ToSet(fileTasks') \/ [kind |-> "archive", to |-> t.to] \in ToSet(ioTasks')
  PROVE  ArchivesLoad'
<1>1. ArchivesLoad
  BY DEF CarriedInv
<1> SUFFICES ASSUME NEW p \in Provider, archive[p] = "loading"
             PROVE  /\ p \in ToSet(providers') => LoadComes(p)'
                    /\ \E r \in Req : p \in visited'[r]
  BY DEF ArchivesLoad
<1>2. \E r \in Req : p \in visited[r]
  BY <1>1 DEF ArchivesLoad
<1>3. ASSUME p \in ToSet(providers') PROVE LoadComes(p)'
  <2>1. LoadComes(p)
    BY <1>1, <1>2, <1>3 DEF ArchivesLoad
  <2> QED
    BY <2>1 DEF LoadComes
<1> QED
  BY <1>2, <1>3

(* Steps that leave the states and their tasks alone. *)
LEMMA QuietCarries ==
  ASSUME CarriedInv, ManagerInv',
         UNCHANGED <<stateVars, dispatch, archVars, fileTasks, visited, calls>>,
         \A p \in ToSet(providers') : p \in ToSet(providers) \/ \A r \in Req : p \notin visited[r],
         \A t \in ToSet(ioTasks) : t.kind \in {"add", "remove"} \/ t \in ToSet(ioTasks')
  PROVE  CarriedInv'
<1>1. /\ holder' = holder /\ current' = current /\ dispatch' = dispatch
      /\ archive' = archive /\ waiting' = waiting /\ fileTasks' = fileTasks
      /\ visited' = visited /\ calls' = calls
  BY DEF stateVars, archVars
<1>2. \A s \in Req \ {}, t \in ToSet(ioTasks) : Concerns(t, s) => t \in ToSet(ioTasks')
  BY DEF Concerns
<1>3. \A s \in Req \ {} : Carried(s)'
  BY <1>1, <1>2, OthersStayCarried
<1>4. ArchivesLoad'
  BY <1>1, LoadsGoOn
<1>5. CallsVisited'
  BY <1>1 DEF CarriedInv, CallsVisited
<1> QED
  BY <1>3, <1>4, <1>5 DEF CarriedInv

(* Steps after which one request has another holder. *)
LEMMA OneCarried ==
  ASSUME CarriedInv, ManagerInv', NEW r \in Req, Carried(r)', CallsVisited',
         \A s \in Req : s # r =>
           /\ holder'[s] = holder[s] /\ current'[s] = current[s]
           /\ s \in dispatch => s \in dispatch'
           /\ \A p \in Provider : calls'[<<p, s>>] = calls[<<p, s>>],
         UNCHANGED archVars,
         \A s \in Req : visited[s] \subseteq visited'[s],
         ToSet(providers') \subseteq ToSet(providers),
         ToSet(fileTasks) \subseteq ToSet(fileTasks'),
         \A t \in ToSet(ioTasks) : Concerns(t, r) \/ t \in ToSet(ioTasks')
  PROVE  CarriedInv'
<1>1. archive' = archive /\ waiting' = waiting
  BY DEF archVars
<1>2. \A s \in Req \ {r} :
           /\ holder'[s] = holder[s] /\ current'[s] = current[s]
           /\ s \in dispatch => s \in dispatch'
           /\ \A t \in ToSet(ioTasks) : Concerns(t, s) => t \in ToSet(ioTasks')
           /\ \A t \in ToSet(fileTasks) :
                t.kind = "open" /\ t.req = s => t \in ToSet(fileTasks')
  BY DEF Concerns
<1>3. \A s \in Req \ {r}, p \in Provider :
           /\ calls'[<<p, s>>] = calls[<<p, s>>]
           /\ archive'[p] = archive[p] \/ archive[p] = "idle"
           /\ ToSet(waiting[p]) \subseteq ToSet(waiting'[p])
  BY <1>1
<1>4. \A s \in Req \ {r} : Carried(s)'
  BY <1>2, <1>3, OthersStayCarried
<1>5. ArchivesLoad'
  BY <1>1, LoadsGoOn DEF Concerns
<1> QED
  BY <1>4, <1>5 DEF CarriedInv

(* A request that is resumed needs no carrier any more. *)
LEMMA FinishCarries ==
  ASSUME CarriedInv, ManagerInv', NEW r \in Req, Finish(r), dispatch' = dispatch \ {r},
         UNCHANGED <<archVars, fileTasks, visited, calls>>,
         ToSet(providers') \subseteq ToSet(providers),
         \A t \in ToSet(ioTasks) : Concerns(t, r) \/ t \in ToSet(ioTasks')
  PROVE  CarriedInv'
<1>1. TypeOK /\ CallsVisited
  BY DEF CarriedInv, ManagerInv
<1>2. /\ holder'[r] = "done"
      /\ \A s \in Req : s # r => holder'[s] = holder[s] /\ current'[s] = current[s]
  BY <1>1 DEF Finish, TypeOK
<1>3. Carried(r)'
  BY <1>2 DEF Carried
<1>4. CallsVisited'
  BY <1>1 DEF CallsVisited
<1> QED
  BY <1>2, <1>3, <1>4, OneCarried

(* The entry that comes next is new to the request. *)
LEMMA NextIsNew ==
  ASSUME ManagerInv, NEW r \in Req, holder[r] \in {"request", "task"}, manager # "gone",
         NEW q \in NextValid(PosOf(current[r]))
  PROVE  q \in Provider /\ q \notin visited[r]
<1>1. current[r] \in ToSet(providers)
  BY LiveEntry
<1>2. /\ q \in Provider /\ q \in ToSet(providers)
      /\ \A i, j \in DOMAIN providers :
              providers[i] = current[r] /\ providers[j] = q => i < j
  BY <1>1, NextOffer
<1>3. PICK i \in DOMAIN providers : providers[i] = current[r]
  BY <1>1 DEF ToSet
<1>4. PICK j \in DOMAIN providers : providers[j] = q
  BY <1>2 DEF ToSet
<1>5. i < j /\ i \in Nat /\ j \in Nat
  BY <1>2, <1>3, <1>4 DEF ManagerInv, TypeOK
<1>6. q \in visited[r] => j <= i
  BY <1>3, <1>4 DEF ManagerInv, NothingAhead
<1> QED
  BY <1>2, <1>5, <1>6

(* A request that is offered waits for the provider it is offered to. *)
LEMMA OfferCarries ==
  ASSUME CarriedInv, ManagerInv', NEW r \in Req, NEW q \in Provider, q \notin visited[r],
         MakeRequest(r, q), dispatch \subseteq {r},
         UNCHANGED <<archVars, fileTasks, calls>>,
         ToSet(providers') \subseteq ToSet(providers),
         \A t \in ToSet(ioTasks) : Concerns(t, r) \/ t \in ToSet(ioTasks')
  PROVE  CarriedInv'
<1>1. TypeOK /\ CallsVisited
  BY DEF CarriedInv, ManagerInv
<1>2. /\ holder'[r] = "request" /\ current'[r] = q /\ dispatch' = {r}
      /\ \A s \in Req : s # r => holder'[s] = holder[s] /\ current'[s] = current[s]
      /\ \A s \in Req : visited[s] \subseteq visited'[s]
  BY <1>1 DEF MakeRequest, TypeOK
<1>3. calls[<<q, r>>] = 0
  <2>1. calls[<<q, r>>] \in Nat
    BY <1>1, ManagerAssumption DEF TypeOK
  <2> QED
    BY <1>1, <2>1 DEF CallsVisited
<1>4. Carried(r)'
  BY <1>2, <1>3 DEF Carried
<1>5. CallsVisited'
  BY <1>1, <1>2 DEF CallsVisited
<1> QED
  BY <1>2, <1>4, <1>5, OneCarried

(* IncrementProvider, whichever entry comes next. *)
LEMMA ForwardCarries ==
  ASSUME CarriedInv, ManagerInv', NEW r \in Req, holder[r] \in {"request", "task"},
         manager # "gone", Forward(r), dispatch \subseteq {r},
         UNCHANGED <<archVars, fileTasks, calls>>,
         \A t \in ToSet(ioTasks) : Concerns(t, r) \/ t \in ToSet(ioTasks')
  PROVE  CarriedInv'
<1>1. ManagerInv
  BY DEF CarriedInv
<1>2. ToSet(providers') \subseteq ToSet(providers)
  BY <1>1, DetachFacts DEF Forward
<1>3. CASE Finish(r) /\ dispatch' = {} /\ UNCHANGED visited
  BY <1>2, <1>3, FinishCarries
<1>4. ASSUME NEW q \in NextValid(PosOf(current[r])), MakeRequest(r, q)
      PROVE  CarriedInv'
  BY <1>1, <1>2, <1>4, NextIsNew, OfferCarries
<1> QED
  BY <1>3, <1>4 DEF Forward

(* StopRequest. *)
LEMMA StopCarries ==
  ASSUME CarriedInv, ManagerInv', NEW r \in Req, holder[r] \in {"request", "task"},
         manager # "gone", StopRequest(r), dispatch' = dispatch, dispatch = {},
         UNCHANGED <<archVars, fileTasks, visited, calls>>,
         \A t \in ToSet(ioTasks) : Concerns(t, r) \/ t \in ToSet(ioTasks')
  PROVE  CarriedInv'
<1>1. ManagerInv
  BY DEF CarriedInv
<1>2. ToSet(providers') \subseteq ToSet(providers)
  BY <1>1, DetachFacts DEF StopRequest
<1> QED
  BY <1>2, FinishCarries DEF StopRequest

(* Request::Continue and Request::Stop hand the state to a task, or do nothing:
   the object has let go of it before. *)
LEMMA CallCarries ==
  ASSUME CarriedInv, ManagerInv', NEW r \in Req, NEW p \in Provider, NEW outcome \in Outcome,
         NEW rest \in Seq(IoTask), Call(r, p, outcome, rest),
         \A t \in ToSet(ioTasks) :
           (t.kind = "call" /\ t.req = r /\ t.to = p) \/ t \in ToSet(rest),
         dispatch' = dispatch \/ (dispatch' = {} /\ dispatch \subseteq {r} /\ HasState(r, p)),
         UNCHANGED <<current, archVars, fileTasks, visited, providers>>,
         \A x \in Provider \X Req : x = <<p, r>> \/ calls'[x] = calls[x],
         p \in visited[r] \/ UNCHANGED calls
  PROVE  CarriedInv'
<1> DEFINE m == Handover(r, outcome)
<1>1. TypeOK /\ CallsVisited /\ Carried(r) /\ ManagerInv
  BY DEF CarriedInv, ManagerInv
<1>2. m \in IoTask /\ Owns(m) /\ m.req = r
  BY TaskFields
<1> HIDE DEF m
<1>3. \A t \in ToSet(rest) : t \in ToSet(ioTasks')
  <2>1. ToSet(Append(rest, m)) = ToSet(rest) \union {m}
    BY <1>2, AppendSet
  <2>2. ioTasks' = rest \/ ioTasks' = Append(rest, m)
    BY DEF Call, m
  <2> QED
    BY <2>1, <2>2
<1>4. \A s \in Req : s # r => holder'[s] = holder[s]
  BY <1>1 DEF Call, TypeOK
<1>5. Carried(r)'
  <2>1. CASE HasState(r, p)
    <3>1. holder' = [holder EXCEPT ![r] = "task"] /\ ioTasks' = Append(rest, m)
      BY <2>1 DEF Call, m
    <3>2. m \in ToSet(ioTasks')
      BY <1>2, <3>1, AppendSet
    <3>3. holder'[r] = "task"
      BY <1>1, <3>1 DEF TypeOK
    <3> QED
      BY <1>2, <3>2, <3>3 DEF Carried
  <2>2. CASE ~HasState(r, p)
    <3>1. holder' = holder /\ dispatch' = dispatch
      BY <2>2 DEF Call
    <3>2. CASE holder[r] = "task"
      <4>1. PICK t \in ToSet(ioTasks) : Owns(t) /\ t.req = r
        BY <1>1, <3>2 DEF Carried
      <4>2. t \in ToSet(ioTasks')
        BY <1>3, <4>1 DEF Owns
      <4> QED
        BY <3>1, <3>2, <4>1, <4>2 DEF Carried
    <3>3. CASE holder[r] = "request"
      <4>1. current[r] # p
        BY <2>2, <3>3 DEF HasState
      <4>2. CallComes(r, current[r]) => CallComes(r, current[r])'
        BY <1>3, <4>1 DEF CallComes
      <4>3. current[r] \in Provider
        BY <1>1, <3>3, LiveEntry DEF ManagerInv, RemovedProviderHoldsNoRequest
      <4>4. calls'[<<current[r], r>>] = calls[<<current[r], r>>]
        BY <4>1, <4>3
      <4> QED
        BY <1>1, <3>1, <3>3, <4>2, <4>4 DEF Carried, archVars
    <3>4. CASE holder[r] \notin {"task", "request"}
      BY <3>1, <3>4 DEF Carried
    <3> QED
      BY <3>2, <3>3, <3>4
  <2> QED
    BY <2>1, <2>2
<1>6. CallsVisited'
  BY <1>1 DEF CallsVisited
<1>7. \A t \in ToSet(ioTasks) : Concerns(t, r) \/ t \in ToSet(ioTasks')
  BY <1>3 DEF Concerns
<1>8. \A s \in Req : s # r =>
           /\ holder'[s] = holder[s] /\ current'[s] = current[s]
           /\ s \in dispatch => s \in dispatch'
           /\ \A x \in Provider : calls'[<<x, s>>] = calls[<<x, s>>]
  BY <1>4
<1> QED
  BY <1>5, <1>6, <1>7, <1>8, OneCarried

----------------------------------------------------------------------------
(* The steps of a network request. *)
LEMMA OfferedAt ==
  ASSUME CarriedInv, NEW r \in Req, NEW kind, Offered(r, kind)
  PROVE  /\ ManagerInv /\ dispatch = {r} /\ manager # "gone"
         /\ holder[r] \in {"request", "task"}
         /\ current[r] \in Provider /\ current[r] \in visited[r]
         /\ KindOf[current[r]] = kind
         /\ kind # "custom" => HasState(r, current[r])
         /\ ioTasks \in Seq(IoTask)
<1>1. ManagerInv /\ TypeOK /\ NothingAhead
  BY DEF CarriedInv, ManagerInv
<1>2. /\ dispatch = {r} /\ manager # "gone"
      /\ holder[r] \in {"request", "task"} /\ current[r] \in Provider
      /\ KindOf[current[r]] = kind
      /\ kind # "custom" => HasState(r, current[r])
  BY <1>1, OfferedFacts
<1> QED
  BY <1>1, <1>2 DEF NothingAhead, TypeOK

LEMMA OnBeforeResourceLoadCarries ==
  ASSUME CarriedInv, ManagerInv', NEW r \in Req, OnBeforeResourceLoad(r)
  PROVE  CarriedInv'
<1>1. TypeOK /\ ManagerInv /\ CallsVisited
  BY DEF CarriedInv, ManagerInv
<1>2. /\ holder[r] = "none" /\ dispatch = {}
      /\ UNCHANGED <<providers, archVars, taskVars, calls>>
  BY DEF OnBeforeResourceLoad, IoIdle
<1>3. CASE holder' = [holder EXCEPT ![r] = "done"] /\ UNCHANGED <<current, visited, dispatch>>
  <2>1. holder'[r] = "done" /\ \A s \in Req : s # r => holder'[s] = holder[s]
    BY <1>1, <1>3 DEF TypeOK
  <2>2. Carried(r)' /\ CallsVisited'
    BY <1>1, <1>2, <1>3, <2>1 DEF Carried, CallsVisited
  <2> QED
    BY <1>2, <1>3, <2>1, <2>2, OneCarried DEF taskVars
<1>4. ASSUME NEW p \in NextValid(0), MakeRequest(r, p) PROVE CarriedInv'
  <2>1. p \in Provider /\ p \notin visited[r]
    BY <1>1, <1>2, NextValidFacts DEF ManagerInv, NothingAhead
  <2> QED
    BY <1>2, <1>4, <2>1, OfferCarries DEF taskVars
<1> QED
  BY <1>3, <1>4 DEF OnBeforeResourceLoad

LEMMA ContentOnRequestCarries ==
  ASSUME CarriedInv, ManagerInv', NEW r \in Req, ContentOnRequest(r)
  PROVE  CarriedInv'
<1>1. /\ ManagerInv /\ dispatch = {r} /\ manager # "gone"
      /\ holder[r] \in {"request", "task"} /\ current[r] \in Provider
      /\ current[r] \in visited[r] /\ HasState(r, current[r]) /\ ioTasks \in Seq(IoTask)
  BY OfferedAt DEF ContentOnRequest
<1>2. UNCHANGED <<archVars, fileTasks, calls>>
  BY DEF ContentOnRequest
<1>3. CASE /\ Call(r, current[r], "serve", ioTasks) /\ Handled(r)
           /\ UNCHANGED <<entryVars, current, visited>>
  <2>1. "serve" \in Outcome /\ dispatch' = {} /\ providers' = providers
    BY <1>3 DEF Outcome, Handled, entryVars
  <2> QED
    BY <1>1, <1>2, <1>3, <2>1, CallCarries
<1>4. CASE Forward(r) /\ UNCHANGED ioTasks
  BY <1>1, <1>2, <1>4, ForwardCarries
<1> QED
  BY <1>3, <1>4 DEF ContentOnRequest

LEMMA DirectoryOnRequestCarries ==
  ASSUME CarriedInv, ManagerInv', NEW r \in Req, DirectoryOnRequest(r)
  PROVE  CarriedInv'
<1> DEFINE m == [kind |-> "open", req |-> r, to |-> current[r]]
<1>1. /\ ManagerInv /\ TypeOK /\ CallsVisited /\ dispatch = {r} /\ manager # "gone"
      /\ holder[r] \in {"request", "task"} /\ current[r] \in Provider
      /\ KindOf[current[r]] = "directory" /\ HasState(r, current[r])
  BY OfferedAt DEF DirectoryOnRequest, CarriedInv, ManagerInv
<1>2. UNCHANGED <<archVars, ioTasks, calls>>
  BY DEF DirectoryOnRequest
<1>3. CASE fileTasks' = Append(fileTasks, m) /\ Handled(r) /\ UNCHANGED <<entryVars, stateVars, visited>>
  <2>1. /\ providers' = providers /\ holder' = holder /\ current' = current
        /\ dispatch' = {} /\ visited' = visited
    BY <1>3 DEF entryVars, stateVars, Handled
  <2>2. ToSet(fileTasks') = ToSet(fileTasks) \union {m}
    <3>1. m \in FileTask /\ fileTasks \in Seq(FileTask)
      BY <1>1 DEF FileTask, TypeOK
    <3> QED
      BY <1>3, <3>1, AppendSet
  <2>3. Carried(r)' /\ CallsVisited'
    BY <1>1, <1>2, <2>1, <2>2 DEF Carried, CallsVisited, HasState
  <2> QED
    BY <1>1, <1>2, <2>1, <2>2, <2>3, OneCarried
<1>4. CASE Forward(r) /\ UNCHANGED fileTasks
  BY <1>1, <1>2, <1>4, ForwardCarries
<1> QED
  BY <1>3, <1>4 DEF DirectoryOnRequest

LEMMA CustomOnRequestCarries ==
  ASSUME CarriedInv, ManagerInv', NEW r \in Req, CustomOnRequest(r)
  PROVE  CarriedInv'
<1>1. /\ ManagerInv /\ CallsVisited /\ Carried(r) /\ dispatch = {r} /\ manager # "gone"
      /\ holder[r] \in {"request", "task"} /\ KindOf[current[r]] = "custom"
  BY OfferedAt DEF CustomOnRequest, CarriedInv
<1>2. /\ UNCHANGED <<archVars, taskVars, calls>>
      /\ fileTasks' = fileTasks /\ ioTasks' = ioTasks /\ calls' = calls
  BY DEF CustomOnRequest, taskVars
<1>3. CASE Handled(r) /\ UNCHANGED <<entryVars, stateVars, visited>>
  <2>1. /\ providers' = providers /\ holder' = holder /\ current' = current
        /\ dispatch' = {} /\ visited' = visited
    BY <1>3 DEF entryVars, stateVars, Handled
  <2>2. Carried(r)' /\ CallsVisited'
    BY <1>1, <1>2, <2>1 DEF Carried, CallsVisited, CallComes
  <2> QED
    BY <1>1, <1>2, <2>1, <2>2, OneCarried
<1>4. CASE Forward(r)
  BY <1>1, <1>2, <1>4, ForwardCarries
<1> QED
  BY <1>3, <1>4 DEF CustomOnRequest

(* The first request starts the load, and those that follow are added to the
   list that the end of the load goes through. *)
LEMMA ArchiveOnRequestCarries ==
  ASSUME CarriedInv, ManagerInv', NEW r \in Req, ArchiveOnRequest(r)
  PROVE  CarriedInv'
<1> DEFINE p == current[r]
           m == [kind |-> "load", to |-> p]
<1>1. /\ ManagerInv /\ TypeOK /\ CallsVisited /\ ArchivesLoad
      /\ dispatch = {r} /\ manager # "gone"
      /\ holder[r] \in {"request", "task"} /\ p \in Provider /\ p \in visited[r]
      /\ KindOf[p] = "archive" /\ HasState(r, p) /\ ioTasks \in Seq(IoTask)
  BY OfferedAt DEF ArchiveOnRequest, CarriedInv, ManagerInv
<1>2. UNCHANGED calls
  BY DEF ArchiveOnRequest
<1>3. CASE /\ archive[p] # "loaded"
           /\ archive' = [archive EXCEPT ![p] = "loading"]
           /\ waiting' = [waiting EXCEPT ![p] = Append(@, r)]
           /\ fileTasks' = IF archive[p] = "idle" THEN Append(fileTasks, m) ELSE fileTasks
           /\ Handled(r)
           /\ UNCHANGED <<entryVars, stateVars, ioTasks, visited>>
  <2>1. /\ providers' = providers /\ holder' = holder /\ current' = current
        /\ dispatch' = {} /\ visited' = visited /\ ioTasks' = ioTasks
    BY <1>3 DEF entryVars, stateVars, Handled
  <2>2. /\ ToSet(fileTasks) \subseteq ToSet(fileTasks')
        /\ archive[p] = "idle" => m \in ToSet(fileTasks')
    <3>1. m \in FileTask /\ fileTasks \in Seq(FileTask)
      BY <1>1 DEF FileTask, TypeOK
    <3>2. ToSet(Append(fileTasks, m)) = ToSet(fileTasks) \union {m}
      BY <3>1, AppendSet
    <3> QED
      BY <1>3, <3>2
  <2>3. /\ archive'[p] = "loading"
        /\ \A q \in Provider : q # p => archive'[q] = archive[q]
        /\ archive[p] \in {"idle", "loading"}
    BY <1>1, <1>3 DEF TypeOK
  <2>4. /\ ToSet(waiting'[p]) = ToSet(waiting[p]) \union {r}
        /\ \A q \in Provider : q # p => waiting'[q] = waiting[q]
    BY <1>1, <1>3, AppendSet DEF TypeOK
  <2>5. Carried(r)'
    BY <1>1, <2>1, <2>3, <2>4 DEF Carried, HasState
  <2>6. \A s \in Req \ {r} :
           /\ holder'[s] = holder[s] /\ current'[s] = current[s]
           /\ s \in dispatch => s \in dispatch'
           /\ \A t \in ToSet(ioTasks) : Concerns(t, s) => t \in ToSet(ioTasks')
           /\ \A t \in ToSet(fileTasks) :
                t.kind = "open" /\ t.req = s => t \in ToSet(fileTasks')
    BY <1>1, <2>1, <2>2
  <2>7. \A s \in Req \ {r}, q \in Provider :
           /\ calls'[<<q, s>>] = calls[<<q, s>>]
           /\ archive'[q] = archive[q] \/ archive[q] = "idle"
           /\ ToSet(waiting[q]) \subseteq ToSet(waiting'[q])
    BY <1>2, <2>3, <2>4
  <2>8. \A s \in Req \ {r} : Carried(s)'
    BY <2>6, <2>7, OthersStayCarried
  <2>9. ArchivesLoad'
    <3> SUFFICES ASSUME NEW q \in Provider, archive'[q] = "loading"
                 PROVE  /\ q \in ToSet(providers) => LoadComes(q)'
                        /\ \E s \in Req : q \in visited[s]
      BY <2>1 DEF ArchivesLoad
    <3>1. LoadComes(q) => LoadComes(q)'
      BY <2>1, <2>2 DEF LoadComes
    <3>2. CASE q = p
      <4>1. archive[p] = "idle" => LoadComes(q)'
        BY <2>2, <3>2 DEF LoadComes
      <4>2. archive[p] = "loading" /\ q \in ToSet(providers) => LoadComes(q)'
        BY <1>1, <3>1, <3>2 DEF ArchivesLoad
      <4> QED
        BY <1>1, <2>3, <3>2, <4>1, <4>2
    <3>3. CASE q # p
      BY <1>1, <2>3, <3>1, <3>3 DEF ArchivesLoad
    <3> QED
      BY <3>2, <3>3
  <2>10. CallsVisited'
    BY <1>1, <1>2, <2>1 DEF CallsVisited
  <2> QED
    BY <2>5, <2>8, <2>9, <2>10 DEF CarriedInv
<1>4. CASE /\ Call(r, p, "serve", ioTasks) /\ Handled(r)
           /\ UNCHANGED <<entryVars, current, archVars, fileTasks, visited>>
  <2>1. "serve" \in Outcome /\ dispatch' = {} /\ providers' = providers
    BY <1>4 DEF Outcome, Handled, entryVars
  <2> QED
    BY <1>1, <1>2, <1>4, <2>1, CallCarries
<1>5. CASE Forward(r) /\ UNCHANGED <<archVars, taskVars>>
  BY <1>1, <1>2, <1>5, ForwardCarries DEF taskVars
<1> QED
  BY <1>3, <1>4, <1>5 DEF ArchiveOnRequest

----------------------------------------------------------------------------
(* The tasks of the IO thread. *)
LEMMA TakenAt ==
  ASSUME CarriedInv, NEW kind, NextTask(kind), ioTasks' = Tail(ioTasks)
  PROVE  /\ ManagerInv /\ dispatch = {} /\ Head(ioTasks).kind = kind
         /\ Head(ioTasks) \in IoTask /\ ioTasks \in Seq(IoTask)
         /\ \A t \in ToSet(ioTasks) : t = Head(ioTasks) \/ t \in ToSet(ioTasks')
         /\ Owns(Head(ioTasks)) => holder[Head(ioTasks).req] = "task"
<1>1. ManagerInv /\ ioTasks \in Seq(IoTask)
  BY DEF CarriedInv, ManagerInv, TypeOK
<1>2. ioTasks # <<>> /\ dispatch = {} /\ Head(ioTasks).kind = kind
  BY DEF NextTask, IoIdle
<1>3. ToSet(ioTasks) = {Head(ioTasks)} \union ToSet(Tail(ioTasks))
  BY <1>1, <1>2, TailSet
<1> QED
  BY <1>1, <1>2, <1>3, TakenFacts

LEMMA RunContinueTaskCarries ==
  ASSUME CarriedInv, ManagerInv', RunContinueTask
  PROVE  CarriedInv'
<1> DEFINE r == Head(ioTasks).req
<1>1. /\ NextTask("continue") /\ ioTasks' = Tail(ioTasks)
      /\ UNCHANGED <<archVars, fileTasks, calls>>
  BY DEF RunContinueTask
<1>2. /\ ManagerInv /\ dispatch = {} /\ Head(ioTasks).kind = "continue"
      /\ Head(ioTasks) \in IoTask
      /\ \A t \in ToSet(ioTasks) : t = Head(ioTasks) \/ t \in ToSet(ioTasks')
      /\ Owns(Head(ioTasks)) => holder[r] = "task"
  BY <1>1, TakenAt
<1>3. r \in Req /\ holder[r] = "task" /\ \A t \in ToSet(ioTasks) : Concerns(t, r) \/ t \in ToSet(ioTasks')
  BY <1>2, TaskFields DEF Owns, Concerns
<1>4. CASE Finish(r) /\ UNCHANGED <<entryVars, dispatch, visited>>
  BY <1>1, <1>2, <1>3, <1>4, FinishCarries DEF entryVars
<1>5. CASE manager # "gone" /\ StopRequest(r) /\ UNCHANGED <<dispatch, visited>>
  BY <1>1, <1>2, <1>3, <1>5, StopCarries
<1>6. CASE manager # "gone" /\ Forward(r)
  BY <1>1, <1>2, <1>3, <1>6, ForwardCarries
<1> QED
  BY <1>4, <1>5, <1>6 DEF RunContinueTask

LEMMA RunStopTaskCarries ==
  ASSUME CarriedInv, ManagerInv', RunStopTask
  PROVE  CarriedInv'
<1> DEFINE r == Head(ioTasks).req
<1>1. /\ NextTask("stop") /\ ioTasks' = Tail(ioTasks)
      /\ UNCHANGED <<dispatch, archVars, fileTasks, visited, calls>>
  BY DEF RunStopTask, usedVars
<1>2. /\ ManagerInv /\ dispatch = {} /\ Head(ioTasks).kind = "stop"
      /\ Head(ioTasks) \in IoTask
      /\ \A t \in ToSet(ioTasks) : t = Head(ioTasks) \/ t \in ToSet(ioTasks')
      /\ Owns(Head(ioTasks)) => holder[r] = "task"
  BY <1>1, TakenAt
<1>3. r \in Req /\ holder[r] = "task" /\ \A t \in ToSet(ioTasks) : Concerns(t, r) \/ t \in ToSet(ioTasks')
  BY <1>2, TaskFields DEF Owns, Concerns
<1>4. CASE Finish(r) /\ UNCHANGED entryVars
  BY <1>1, <1>2, <1>3, <1>4, FinishCarries DEF entryVars
<1>5. CASE manager # "gone" /\ StopRequest(r)
  BY <1>1, <1>2, <1>3, <1>5, StopCarries
<1> QED
  BY <1>4, <1>5 DEF RunStopTask

LEMMA RunCallTaskCarries ==
  ASSUME CarriedInv, ManagerInv', RunCallTask
  PROVE  CarriedInv'
<1> DEFINE t == Head(ioTasks)
<1>1. /\ NextTask("call") /\ Call(t.req, t.to, t.outcome, Tail(ioTasks))
      /\ dispatch' = dispatch
      /\ UNCHANGED <<current, archVars, fileTasks, visited, providers, calls>>
  BY DEF RunCallTask, usedVars, entryVars
<1>2. /\ ioTasks \in Seq(IoTask) /\ ioTasks # <<>> /\ t.kind = "call"
  BY <1>1 DEF NextTask, CarriedInv, ManagerInv, TypeOK
<1>3. /\ t \in IoTask /\ Tail(ioTasks) \in Seq(IoTask)
      /\ ToSet(ioTasks) = {t} \union ToSet(Tail(ioTasks))
  BY <1>2, TailSet
<1>4. t.req \in Req /\ t.to \in Provider /\ t.outcome \in Outcome
  BY <1>2, <1>3, TaskFields
<1>5. \A u \in ToSet(ioTasks) :
        (u.kind = "call" /\ u.req = t.req /\ u.to = t.to) \/ u \in ToSet(Tail(ioTasks))
  BY <1>2, <1>3
<1> HIDE DEF t
<1> QED
  BY <1>1, <1>3, <1>4, <1>5, CallCarries

(* The tasks that the requests of a list are handed to. *)
LEMMA HandedOver ==
  ASSUME NEW held \in Seq(Req), NEW outcome \in Outcome, NEW rest \in Seq(IoTask),
         ioTasks' = rest \o [i \in DOMAIN held |-> Handover(held[i], outcome)]
  PROVE  /\ ToSet(rest) \subseteq ToSet(ioTasks')
         /\ \A r \in ToSet(held) : Handover(r, outcome) \in ToSet(ioTasks')
<1> DEFINE new == [i \in DOMAIN held |-> Handover(held[i], outcome)]
<1>1. /\ Len(held) \in Nat /\ DOMAIN held = 1..Len(held)
      /\ \A i \in DOMAIN held : held[i] \in Req
  OBVIOUS
<1>2. new \in Seq(IoTask)
  BY <1>1, TaskFields
<1>3. \A r \in ToSet(held) : Handover(r, outcome) \in ToSet(new)
  BY DEF ToSet
<1>4. ioTasks' = rest \o new
  OBVIOUS
<1> HIDE DEF new
<1>5. ToSet(ioTasks') = ToSet(rest) \union ToSet(new)
  BY <1>2, <1>4, ConcatSet
<1> QED
  BY <1>3, <1>5

(* At the end of the load the requests that the archive has a file for are
   handed to their tasks, the others are dropped. *)
LEMMA RunArchiveTaskCarries ==
  ASSUME CarriedInv, ManagerInv', RunArchiveTask
  PROVE  CarriedInv'
<1>1. /\ NextTask("archive")
      /\ UNCHANGED <<manager, entryVars, current, dispatch, removing, ready,
                     fileTasks, seenVars, usedVars>>
  BY DEF RunArchiveTask
<1>2. /\ providers' = providers /\ current' = current /\ dispatch' = dispatch
      /\ fileTasks' = fileTasks /\ visited' = visited /\ calls' = calls
      /\ manager' = manager
  BY <1>1 DEF entryVars, usedVars
<1>3. /\ ManagerInv /\ TypeOK /\ ArchivesLoad /\ CallsVisited /\ \A r \in Req : Carried(r)
      /\ dispatch = {} /\ ioTasks # <<>> /\ Head(ioTasks).kind = "archive"
      /\ ioTasks \in Seq(IoTask)
  BY <1>1 DEF CarriedInv, ManagerInv, TypeOK, NextTask, IoIdle
<1>4. /\ Head(ioTasks) \in IoTask /\ Tail(ioTasks) \in Seq(IoTask)
      /\ ToSet(ioTasks) = {Head(ioTasks)} \union ToSet(Tail(ioTasks))
      /\ NoClash(Tail(ioTasks))
  BY <1>3, TailSet, TakenFacts
<1>5. PICK p \in Provider : p = Head(ioTasks).to
  BY <1>3, <1>4, TaskFields
<1> DEFINE held == Filter(waiting[p], {r \in HasResource[p] : HasState(r, p)})
<1>6. \A r \in Req, t \in ToSet(ioTasks) : Concerns(t, r) => t \in ToSet(Tail(ioTasks))
  BY <1>3, <1>4 DEF Concerns
<1>7. CallsVisited'
  BY <1>2, <1>3 DEF CallsVisited
<1>8. CASE p \notin ToSet(providers) /\ ioTasks' = Tail(ioTasks) /\ UNCHANGED <<archVars, holder>>
  <2>1. archive' = archive /\ waiting' = waiting /\ holder' = holder
    BY <1>8 DEF archVars
  <2>2. \A s \in Req \ {} : Carried(s)'
    BY <1>2, <1>6, <1>8, <2>1, OthersStayCarried
  <2>3. ArchivesLoad'
    <3> SUFFICES ASSUME NEW q \in Provider, archive[q] = "loading"
                 PROVE  /\ q \in ToSet(providers) => LoadComes(q)'
                        /\ \E s \in Req : q \in visited[s]
      BY <1>2, <2>1 DEF ArchivesLoad
    <3>1. LoadComes(q) /\ q # p => LoadComes(q)'
      BY <1>2, <1>4, <1>5, <1>8 DEF LoadComes
    <3> QED
      BY <1>3, <1>8, <3>1 DEF ArchivesLoad
  <2> QED
    BY <1>7, <2>2, <2>3 DEF CarriedInv
<1>9. CASE /\ p \in ToSet(providers)
           /\ archive' = [archive EXCEPT ![p] = "loaded"]
           /\ waiting' = [waiting EXCEPT ![p] = <<>>]
           /\ ioTasks' = Tail(ioTasks) \o [i \in DOMAIN held |-> Handover(held[i], "serve")]
           /\ holder' = [r \in Req |-> IF r \in ToSet(held) THEN "task" ELSE holder[r]]
  <2>1. /\ archive'[p] = "loaded"
        /\ \A q \in Provider : q # p => archive'[q] = archive[q] /\ waiting'[q] = waiting[q]
    BY <1>3, <1>5, <1>9 DEF TypeOK
  <2>2. waiting[p] \in Seq(Req) /\ IsInjective(waiting[p])
    BY <1>3, <1>5 DEF TypeOK, ManagerInv, ListsAgree
  <2>3. /\ held \in Seq(Req) /\ IsInjective(held)
        /\ ToSet(held) = ToSet(waiting[p]) \intersect {r \in HasResource[p] : HasState(r, p)}
    BY <2>2, FilterFacts
  <2>4. "serve" \in Outcome /\ \A r \in ToSet(held) : HasState(r, p)
    BY <2>3 DEF Outcome
  <2> HIDE DEF held
  <2>5. /\ \A r \in Req : r \in ToSet(held) => holder[r] = "request" /\ holder'[r] = "task"
        /\ \A r \in Req : r \notin ToSet(held) => holder'[r] = holder[r]
    BY <1>9, <2>4 DEF HasState
  <2>6. /\ ToSet(Tail(ioTasks)) \subseteq ToSet(ioTasks')
        /\ \A r \in ToSet(held) : Handover(r, "serve") \in ToSet(ioTasks')
    BY <1>4, <1>9, <2>3, <2>4, HandedOver
  <2>7. ASSUME NEW r \in Req, HasState(r, p) PROVE Carried(r)'
    <3>1. holder[r] = "request" /\ current[r] = p
      BY <2>7 DEF HasState
    <3>2. CASE r \in ToSet(held)
      <4>1. holder'[r] = "task"
        BY <2>5, <3>2
      <4> QED
        BY <2>4, <2>6, <3>2, <4>1, TaskFields DEF Carried
    <3>3. CASE r \notin ToSet(held)
      <4>1. holder'[r] = "request" /\ current'[r] = p
        BY <1>2, <2>5, <3>1, <3>3
      <4>2. CallComes(r, p) => CallComes(r, p)'
        BY <1>6, <2>6 DEF CallComes, Concerns
      <4>3. /\ KindOf[p] = "custom" => calls[<<p, r>>] = 0 \/ CallComes(r, p)
            /\ KindOf[p] # "content"
            /\ KindOf[p] = "directory" =>
                 \/ [kind |-> "open", req |-> r, to |-> p] \in ToSet(fileTasks)
                 \/ CallComes(r, p)
            /\ KindOf[p] = "archive" =>
                 \/ archive[p] = "loading" /\ r \in ToSet(waiting[p])
                 \/ archive[p] = "loaded" /\ r \notin HasResource[p]
        BY <1>3, <3>1 DEF Carried
      <4>4. KindOf[p] = "archive" => r \notin HasResource[p]
        BY <2>3, <2>7, <3>3, <4>3
      <4> QED
        BY <1>2, <1>3, <2>1, <4>1, <4>2, <4>3, <4>4 DEF Carried
    <3> QED
      BY <3>2, <3>3
  <2>8. ASSUME NEW r \in Req, ~HasState(r, p) PROVE Carried(r)'
    <3>1. r \notin ToSet(held) /\ holder'[r] = holder[r]
      BY <2>4, <2>5, <2>8
    <3>2. CASE holder[r] = "task"
      <4>1. PICK t \in ToSet(ioTasks) : Owns(t) /\ t.req = r
        BY <1>3, <3>2 DEF Carried
      <4>2. t \in ToSet(ioTasks')
        BY <1>6, <2>6, <4>1 DEF Owns, Concerns
      <4> QED
        BY <3>1, <3>2, <4>1, <4>2 DEF Carried
    <3>3. CASE holder[r] = "request"
      <4>1. current[r] # p /\ current[r] \in Provider
        BY <1>3, <2>8, <3>3, LiveEntry DEF HasState, ManagerInv, RemovedProviderHoldsNoRequest
      <4>2. CallComes(r, current[r]) => CallComes(r, current[r])'
        BY <1>2, <1>6, <2>6 DEF CallComes, Concerns
      <4>3. archive'[current[r]] = archive[current[r]] /\ waiting'[current[r]] = waiting[current[r]]
        BY <2>1, <4>1
      <4> QED
        BY <1>2, <1>3, <3>1, <3>3, <4>2, <4>3 DEF Carried
    <3>4. CASE holder[r] \notin {"task", "request"}
      BY <3>1, <3>4 DEF Carried
    <3> QED
      BY <3>2, <3>3, <3>4
  <2>9. ArchivesLoad'
    <3> SUFFICES ASSUME NEW q \in Provider, archive'[q] = "loading"
                 PROVE  /\ q \in ToSet(providers) => LoadComes(q)'
                        /\ \E s \in Req : q \in visited[s]
      BY <1>2 DEF ArchivesLoad
    <3>1. CASE q = p
      BY <2>1, <3>1
    <3>2. CASE q # p
      <4>1. LoadComes(q) => LoadComes(q)'
        BY <1>2, <1>4, <1>5, <2>6, <3>2 DEF LoadComes
      <4> QED
        BY <1>3, <2>1, <3>2, <4>1 DEF ArchivesLoad
    <3> QED
      BY <3>1, <3>2
  <2> QED
    BY <1>7, <2>7, <2>8, <2>9 DEF CarriedInv
<1> QED
  BY <1>5, <1>8, <1>9 DEF RunArchiveTask

(* Nobody was offered a provider that is not in the list yet. *)
LEMMA AddedCarries ==
  ASSUME CarriedInv, ManagerInv', NEW p \in Provider, \A r \in Req : p \notin visited[r],
         p \notin ToSet(providers), Insert(p),
         UNCHANGED <<stateVars, dispatch, archVars, fileTasks, visited, calls>>,
         \A t \in ToSet(ioTasks) : t.kind = "add" \/ t \in ToSet(ioTasks')
  PROVE  CarriedInv'
<1>1. ManagerInv
  BY DEF CarriedInv
<1>2. ToSet(providers') = ToSet(providers) \union {p}
  BY <1>1, InsertFactsHere
<1>3. \A q \in ToSet(providers') : q \in ToSet(providers) \/ \A r \in Req : q \notin visited[r]
  BY <1>2
<1> QED
  BY <1>3, QuietCarries

LEMMA RunAddTaskCarries ==
  ASSUME CarriedInv, ManagerInv', RunAddTask
  PROVE  CarriedInv'
<1>1. /\ NextTask("add") /\ ioTasks' = Tail(ioTasks) /\ Insert(Head(ioTasks).to)
      /\ UNCHANGED <<stateVars, dispatch, archVars, fileTasks, visited, calls>>
  BY DEF RunAddTask, usedVars
<1>2. /\ ManagerInv /\ AddedOnce /\ Head(ioTasks) \in IoTask /\ Head(ioTasks).kind = "add"
      /\ \A t \in ToSet(ioTasks) : t = Head(ioTasks) \/ t \in ToSet(ioTasks')
  BY <1>1, TakenAt DEF ManagerInv
<1>3. Head(ioTasks) \in ToSet(ioTasks)
  BY <1>1, <1>2, TakenFacts DEF NextTask
<1>4. /\ Head(ioTasks).to \in Provider /\ Head(ioTasks).to \notin ToSet(providers)
      /\ \A r \in Req : Head(ioTasks).to \notin visited[r]
  BY <1>2, <1>3, TaskFields DEF AddedOnce, Adds
<1>5. \A t \in ToSet(ioTasks) : t.kind = "add" \/ t \in ToSet(ioTasks')
  BY <1>2
<1> QED
  BY <1>1, <1>4, <1>5, AddedCarries

LEMMA RunRemoveTaskCarries ==
  ASSUME CarriedInv, ManagerInv', RunRemoveTask
  PROVE  CarriedInv'
<1>1. /\ NextTask("remove") /\ ioTasks' = Tail(ioTasks)
      /\ UNCHANGED <<stateVars, dispatch, archVars, fileTasks, visited, calls>>
      /\ providers' = providers
  BY DEF RunRemoveTask, usedVars, entryVars
<1>2. \A t \in ToSet(ioTasks) : t.kind = "remove" \/ t \in ToSet(ioTasks')
  BY <1>1, TakenAt
<1> QED
  BY <1>1, <1>2, QuietCarries

(* OpenOnFileThread and LoadOnFileThread post what the request waits for. *)
LEMMA RunFileTaskCarries ==
  ASSUME CarriedInv, ManagerInv', RunFileTask
  PROVE  CarriedInv'
<1> DEFINE t == Head(fileTasks)
           m == IF t.kind = "load" THEN LoadOnFileThread(t) ELSE OpenOnFileThread(t)
<1>1. /\ fileTasks # <<>> /\ fileTasks' = Tail(fileTasks) /\ ioTasks' = Append(ioTasks, m)
      /\ UNCHANGED <<manager, entryVars, stateVars, dispatch, removing, ready,
                     archVars, seenVars, usedVars>>
  BY DEF RunFileTask
<1>2. /\ providers' = providers /\ holder' = holder /\ current' = current
      /\ dispatch' = dispatch /\ archive' = archive /\ waiting' = waiting
      /\ visited' = visited /\ calls' = calls
  BY <1>1 DEF entryVars, stateVars, archVars, usedVars
<1>3. TypeOK /\ ManagerInv /\ CallsVisited /\ ArchivesLoad /\ \A r \in Req : Carried(r)
  BY DEF CarriedInv, ManagerInv
<1>4. t \in FileTask /\ ToSet(fileTasks) = {t} \union ToSet(fileTasks')
  BY <1>1, <1>3, TailSet DEF TypeOK
<1>5. \/ /\ t.kind = "load" /\ t.to \in Provider
         /\ m = [kind |-> "archive", to |-> t.to]
      \/ /\ t.kind = "open" /\ t.to \in Provider /\ t.req \in Req
         /\ m \in IoTask /\ m.kind = "call" /\ m.req = t.req /\ m.to = t.to
  BY <1>4 DEF FileTask, LoadOnFileThread, OpenOnFileThread, IoTask, CallTask, Outcome
<1>6. m \in IoTask
  BY <1>5 DEF IoTask, ArchiveTask
<1> HIDE DEF m
<1>7. ToSet(ioTasks') = ToSet(ioTasks) \union {m}
  BY <1>1, <1>3, <1>6, AppendSet DEF TypeOK
<1>8. \A r \in Req, p \in Provider :
        /\ CallComes(r, p) => \E u \in ToSet(ioTasks') : u.kind = "call" /\ u.req = r /\ u.to = p
        /\ [kind |-> "open", req |-> r, to |-> p] \in ToSet(fileTasks) =>
             \/ [kind |-> "open", req |-> r, to |-> p] \in ToSet(fileTasks')
             \/ \E u \in ToSet(ioTasks') : u.kind = "call" /\ u.req = r /\ u.to = p
  BY <1>4, <1>5, <1>7 DEF CallComes
<1>9. ASSUME NEW r \in Req PROVE Carried(r)'
  <2>1. CASE holder[r] = "task"
    BY <1>2, <1>3, <1>7, <2>1 DEF Carried
  <2>2. CASE holder[r] = "request"
    <3>1. current[r] \in Provider
      BY <1>3, <2>2, LiveEntry DEF ManagerInv, RemovedProviderHoldsNoRequest
    <3> QED
      BY <1>2, <1>3, <1>8, <2>2, <3>1 DEF Carried, CallComes
  <2>3. CASE holder[r] \notin {"task", "request"}
    BY <1>2, <2>3 DEF Carried
  <2> QED
    BY <2>1, <2>2, <2>3
<1>10. \A u \in ToSet(fileTasks) : u.kind = "load" =>
           u \in ToSet(fileTasks') \/ [kind |-> "archive", to |-> u.to] \in ToSet(ioTasks')
  BY <1>4, <1>5, <1>7
<1>11. ArchivesLoad'
  BY <1>2, <1>7, <1>10, LoadsGoOn
<1>12. CallsVisited'
  BY <1>2, <1>3 DEF CallsVisited
<1> QED
  BY <1>9, <1>11, <1>12 DEF CarriedInv

----------------------------------------------------------------------------
(* The application. *)
LEMMA CallRequestCarries ==
  ASSUME CarriedInv, ManagerInv', NEW p \in Provider, NEW r \in Req, NEW outcome \in Outcome,
         CallRequest(p, r, outcome)
  PROVE  CarriedInv'
<1>1. /\ Call(r, p, outcome, ioTasks) /\ calls' = [calls EXCEPT ![<<p, r>>] = @ + 1]
      /\ UNCHANGED <<entryVars, current, dispatch, archVars, fileTasks, visited>>
      /\ p \in visited[r]
  BY DEF CallRequest, MayUse
<1>2. /\ calls \in [Provider \X Req -> 0..MaxCalls] /\ ioTasks \in Seq(IoTask)
  BY DEF CarriedInv, ManagerInv, TypeOK
<1>3. \A x \in Provider \X Req : x = <<p, r>> \/ calls'[x] = calls[x]
  BY <1>1, <1>2
<1>4. dispatch' = dispatch /\ UNCHANGED <<current, archVars, fileTasks, visited, providers>>
  BY <1>1 DEF entryVars
<1> QED
  BY <1>1, <1>2, <1>3, <1>4, CallCarries

LEMMA PostCallRequestCarries ==
  ASSUME CarriedInv, ManagerInv', NEW p \in Provider, NEW r \in Req, NEW outcome \in Outcome,
         PostCallRequest(p, r, outcome)
  PROVE  CarriedInv'
<1> DEFINE m == [kind |-> "call", req |-> r, to |-> p, outcome |-> outcome]
<1>1. /\ calls' = [calls EXCEPT ![<<p, r>>] = @ + 1] /\ ioTasks' = Append(ioTasks, m)
      /\ p \in visited[r]
      /\ UNCHANGED <<entryVars, stateVars, dispatch, archVars, fileTasks, visited>>
  BY DEF PostCallRequest, MayUse
<1>2. /\ providers' = providers /\ holder' = holder /\ current' = current
      /\ dispatch' = dispatch /\ archive' = archive /\ waiting' = waiting
      /\ fileTasks' = fileTasks /\ visited' = visited
  BY <1>1 DEF entryVars, stateVars, archVars
<1>3. TypeOK /\ Carried(r) /\ CallsVisited
  BY DEF CarriedInv, ManagerInv
<1>4. m \in IoTask /\ m.kind = "call" /\ m.req = r /\ m.to = p
  BY DEF IoTask, CallTask
<1> HIDE DEF m
<1>5. ToSet(ioTasks') = ToSet(ioTasks) \union {m}
  BY <1>1, <1>3, <1>4, AppendSet DEF TypeOK
<1>6. \A x \in Provider \X Req : x = <<p, r>> \/ calls'[x] = calls[x]
  BY <1>1, <1>3 DEF TypeOK
<1>7. Carried(r)'
  <2>1. CASE holder[r] = "task"
    BY <1>2, <1>3, <1>5, <2>1 DEF Carried
  <2>2. CASE holder[r] = "request"
    <3>1. current[r] \in Provider
      BY <2>2, LiveEntry DEF CarriedInv, ManagerInv, RemovedProviderHoldsNoRequest
    <3>2. CallComes(r, current[r]) => CallComes(r, current[r])'
      BY <1>2, <1>5 DEF CallComes
    <3>3. \/ calls'[<<current[r], r>>] = calls[<<current[r], r>>]
          \/ CallComes(r, current[r])'
      <4>1. CASE current[r] = p
        BY <1>2, <1>4, <1>5, <4>1 DEF CallComes
      <4>2. CASE current[r] # p
        BY <1>6, <3>1, <4>2
      <4> QED
        BY <4>1, <4>2
    <3> QED
      BY <1>2, <1>3, <2>2, <3>2, <3>3 DEF Carried
  <2>3. CASE holder[r] \notin {"task", "request"}
    BY <1>2, <2>3 DEF Carried
  <2> QED
    BY <2>1, <2>2, <2>3
<1>8. CallsVisited'
  BY <1>1, <1>2, <1>3, <1>6 DEF CallsVisited
<1> QED
  BY <1>2, <1>5, <1>6, <1>7, <1>8, OneCarried DEF archVars

LEMMA AddProviderCarries ==
  ASSUME CarriedInv, ManagerInv', NEW p \in Provider, AddProvider(p)
  PROVE  CarriedInv'
<1>1. /\ p \notin added /\ Insert(p)
      /\ UNCHANGED <<stateVars, dispatch, archVars, taskVars, visited, calls>>
  BY DEF AddProvider
<1>2. p \notin ToSet(providers) /\ \A r \in Req : p \notin visited[r]
  BY <1>1 DEF CarriedInv, ManagerInv, AddedOnce
<1> QED
  BY <1>1, <1>2, AddedCarries DEF taskVars

LEMMA PostAddProviderCarries ==
  ASSUME CarriedInv, ManagerInv', NEW p \in Provider, PostAddProvider(p)
  PROVE  CarriedInv'
<1>1. /\ ioTasks' = Append(ioTasks, [kind |-> "add", to |-> p]) /\ providers' = providers
      /\ UNCHANGED <<stateVars, dispatch, archVars, fileTasks, visited, calls>>
  BY DEF PostAddProvider, entryVars
<1>2. [kind |-> "add", to |-> p] \in IoTask /\ ioTasks \in Seq(IoTask)
  BY DEF IoTask, AddTask, CarriedInv, ManagerInv, TypeOK
<1>3. ToSet(ioTasks) \subseteq ToSet(ioTasks')
  BY <1>1, <1>2, AppendSet
<1> QED
  BY <1>1, <1>3, QuietCarries

LEMMA PostRemoveProvidersCarries ==
  ASSUME CarriedInv, ManagerInv', NEW which \in SUBSET Provider, NEW stop \in BOOLEAN,
         PostRemoveProviders(which, stop)
  PROVE  CarriedInv'
<1> DEFINE m == [kind |-> "remove", which |-> which, stop |-> stop]
<1>1. /\ ioTasks' = Append(ioTasks, m) /\ providers' = providers
      /\ UNCHANGED <<stateVars, dispatch, archVars, fileTasks, visited, calls>>
  BY DEF PostRemoveProviders, entryVars
<1>2. m \in IoTask /\ ioTasks \in Seq(IoTask)
  BY DEF IoTask, RemoveTask, CarriedInv, ManagerInv, TypeOK
<1>3. ToSet(ioTasks) \subseteq ToSet(ioTasks')
  BY <1>1, <1>2, AppendSet
<1> QED
  BY <1>1, <1>3, QuietCarries

LEMMA StartsCarry ==
  ASSUME CarriedInv, ManagerInv',
         (\E which, stop : RemoveProviders(which, stop)) \/ ReleaseManager
  PROVE  CarriedInv'
<1>1. /\ providers' = providers
      /\ UNCHANGED <<stateVars, dispatch, archVars, taskVars, visited, calls>>
  BY DEF RemoveProviders, ReleaseManager, entryVars, usedVars
<1> QED
  BY <1>1, QuietCarries DEF taskVars

----------------------------------------------------------------------------
(* The removal loop. *)
LEMMA RemovalSkipsCarries ==
  ASSUME CarriedInv, ManagerInv', RemovalSkips
  PROVE  CarriedInv'
<1>1. /\ providers' = providers
      /\ UNCHANGED <<stateVars, dispatch, archVars, taskVars, visited, calls>>
  BY DEF RemovalSkips, entryVars, usedVars
<1> QED
  BY <1>1, QuietCarries DEF taskVars

(* DeleteProvider hands the requests that wait for the entry to their tasks. *)
LEMMA RemovalMarksCarries ==
  ASSUME CarriedInv, ManagerInv', RemovalMarks
  PROVE  CarriedInv'
<1>1. PICK x \in removing :
        \E p \in Provider :
          LET held == Filter(pending[p], {r \in Req : HasState(r, p)})
          IN  /\ holder' = [r \in Req |-> IF r \in ToSet(held) THEN "task" ELSE holder[r]]
              /\ ioTasks' = ioTasks \o
                   [i \in DOMAIN held |-> Handover(held[i], IF x.stop THEN "stop"
                                                                       ELSE "pass")]
              /\ UNCHANGED <<manager, providers, pending, current, dispatch, ready,
                             archVars, fileTasks, seenVars, usedVars>>
  BY DEF RemovalMarks
<1>2. PICK p \in Provider :
        LET held == Filter(pending[p], {r \in Req : HasState(r, p)})
        IN  /\ holder' = [r \in Req |-> IF r \in ToSet(held) THEN "task" ELSE holder[r]]
            /\ ioTasks' = ioTasks \o
                 [i \in DOMAIN held |-> Handover(held[i], IF x.stop THEN "stop"
                                                                     ELSE "pass")]
            /\ UNCHANGED <<manager, providers, pending, current, dispatch, ready,
                           archVars, fileTasks, seenVars, usedVars>>
  BY <1>1
<1> DEFINE held == Filter(pending[p], {r \in Req : HasState(r, p)})
           outcome == IF x.stop THEN "stop" ELSE "pass"
<1>3. /\ holder' = [r \in Req |-> IF r \in ToSet(held) THEN "task" ELSE holder[r]]
      /\ ioTasks' = ioTasks \o [i \in DOMAIN held |-> Handover(held[i], outcome)]
      /\ UNCHANGED <<manager, providers, pending, current, dispatch, ready,
                     archVars, fileTasks, seenVars, usedVars>>
  BY <1>2
<1>4. /\ TypeOK /\ CallsVisited /\ pending[p] \in Seq(Req) /\ ioTasks \in Seq(IoTask)
  BY DEF CarriedInv, ManagerInv, TypeOK
<1>5. outcome \in Outcome
  BY DEF Outcome
<1>6. /\ held \in Seq(Req)
      /\ ToSet(held) = ToSet(pending[p]) \intersect {r \in Req : HasState(r, p)}
  BY <1>4, FilterFacts
<1> HIDE DEF held, outcome
<1>7. /\ ToSet(ioTasks) \subseteq ToSet(ioTasks')
      /\ \A r \in ToSet(held) : Handover(r, outcome) \in ToSet(ioTasks')
  BY <1>3, <1>4, <1>5, <1>6, HandedOver
<1>8. /\ ToSet(held) \in SUBSET Req
      /\ \A r \in ToSet(held) : holder'[r] = "task"
      /\ \A r \in Req \ ToSet(held) : holder'[r] = holder[r]
  BY <1>3, <1>6
<1>9. /\ providers' = providers /\ current' = current /\ dispatch' = dispatch
      /\ archive' = archive /\ waiting' = waiting /\ fileTasks' = fileTasks
      /\ visited' = visited /\ calls' = calls
  BY <1>3 DEF archVars, usedVars
<1>10. \A r \in ToSet(held) : Carried(r)'
  BY <1>5, <1>7, <1>8, TaskFields DEF Carried
<1>11. \A s \in Req \ ToSet(held) : Carried(s)'
  BY <1>7, <1>8, <1>9, OthersStayCarried
<1>12. ArchivesLoad'
  BY <1>7, <1>9, LoadsGoOn
<1>13. CallsVisited'
  BY <1>4, <1>9 DEF CallsVisited
<1> QED
  BY <1>8, <1>10, <1>11, <1>12, <1>13 DEF CarriedInv

LEMMA RemovalDeletesCarries ==
  ASSUME CarriedInv, ManagerInv', RemovalDeletes
  PROVE  CarriedInv'
<1>1. PICK p \in Provider : providers' = Erase(providers, p)
  BY DEF RemovalDeletes
<1>2. providers \in Seq(Provider)
  BY DEF CarriedInv, ManagerInv, TypeOK
<1>3. ToSet(providers') \subseteq ToSet(providers)
  BY <1>1, <1>2, EraseFacts
<1>4. UNCHANGED <<stateVars, dispatch, archVars, taskVars, visited, calls>>
  BY DEF RemovalDeletes, usedVars
<1> QED
  BY <1>3, <1>4, QuietCarries DEF taskVars

LEMMA RemovalEndsCarries ==
  ASSUME CarriedInv, ManagerInv', RemovalEnds
  PROVE  CarriedInv'
<1>1. providers' = <<>> \/ providers' = providers
  BY DEF RemovalEnds, entryVars
<1>2. ToSet(providers') \subseteq ToSet(providers)
  BY <1>1, EmptySet
<1>3. UNCHANGED <<stateVars, dispatch, archVars, taskVars, visited, calls>>
  BY DEF RemovalEnds, usedVars
<1> QED
  BY <1>2, <1>3, QuietCarries DEF taskVars

----------------------------------------------------------------------------
LEMMA InitCarries == Init => CarriedInv
<1> SUFFICES ASSUME Init PROVE CarriedInv
  OBVIOUS
<1>1. ManagerInv
  BY InitInv
<1>2. /\ \A r \in Req : holder[r] = "none"
      /\ \A p \in Provider : archive[p] = "idle"
      /\ \A x \in Provider \X Req : calls[x] = 0
  BY DEF Init
<1> QED
  BY <1>1, <1>2 DEF CarriedInv, Carried, ArchivesLoad, CallsVisited

LEMMA NextCarries == CarriedInv /\ [Next]_vars => CarriedInv'
<1> SUFFICES ASSUME CarriedInv, [Next]_vars PROVE CarriedInv'
  OBVIOUS
<1>1. ManagerInv'
  BY NextInv DEF CarriedInv
<1>2. CASE RequestStep
  <2>1. ASSUME NEW r \in Req, GetResourceHandler(r) PROVE CarriedInv'
    <3>1. /\ providers' = providers
          /\ UNCHANGED <<stateVars, dispatch, archVars, taskVars, visited, calls>>
      BY <2>1 DEF GetResourceHandler, entryVars, usedVars
    <3> QED
      BY <1>1, <3>1, QuietCarries DEF taskVars
  <2> QED
    BY <1>1, <1>2, <2>1, OnBeforeResourceLoadCarries, ContentOnRequestCarries,
       DirectoryOnRequestCarries, ArchiveOnRequestCarries, CustomOnRequestCarries
    DEF RequestStep
<1>3. CASE TaskStep
  BY <1>1, <1>3, RunContinueTaskCarries, RunStopTaskCarries, RunCallTaskCarries,
     RunArchiveTaskCarries, RunAddTaskCarries, RunRemoveTaskCarries, RunFileTaskCarries
  DEF TaskStep, IoTaskStep
<1>4. CASE ApplicationStep
  <2>1. ASSUME NEW p \in Provider, AddProvider(p) \/ PostAddProvider(p)
        PROVE  CarriedInv'
    BY <1>1, <2>1, AddProviderCarries, PostAddProviderCarries
  <2>2. ASSUME NEW p \in Provider, NEW r \in Req, NEW outcome \in Outcome,
               CallRequest(p, r, outcome) \/ PostCallRequest(p, r, outcome)
        PROVE  CarriedInv'
    BY <1>1, <2>2, CallRequestCarries, PostCallRequestCarries
  <2>3. ASSUME NEW args \in RemovalArgs,
               \/ RemoveProviders(args[1], args[2])
               \/ PostRemoveProviders(args[1], args[2])
        PROVE  CarriedInv'
    BY <1>1, <2>3, RemovalArgsTyped, StartsCarry, PostRemoveProvidersCarries
  <2> QED
    BY <1>1, <1>4, <2>1, <2>2, <2>3, StartsCarry DEF ApplicationStep
<1>5. CASE RemovalStep
  BY <1>1, <1>5, RemovalSkipsCarries, RemovalMarksCarries, RemovalDeletesCarries,
     RemovalEndsCarries DEF RemovalStep
<1>6. CASE UNCHANGED vars
  <2>1. /\ providers' = providers
        /\ UNCHANGED <<stateVars, dispatch, archVars, taskVars, visited, calls>>
    BY <1>6 DEF vars, entryVars, usedVars
  <2> QED
    BY <1>1, <2>1, QuietCarries DEF taskVars
<1> QED
  BY <1>2, <1>3, <1>4, <1>5, <1>6 DEF Next

(* A request that the manager holds is always in somebody's hands: the queue
   of the IO thread, its provider, or a task that its provider has posted.
   What stands between it and its callback is only that those run.  The one
   exception is an archive that turned out to lack the file: RunFileTask
   then drops the request, which nobody will answer any more. *)
THEOREM HeldRequestsKeepCarriers == Spec => []HeldRequestsAreCarried
<1>1. CarriedInv => HeldRequestsAreCarried
  <2> SUFFICES ASSUME CarriedInv, NEW r \in Req
               PROVE  /\ holder[r] = "task" =>
                           \E t \in ToSet(ioTasks) : t.kind \in {"continue", "stop"} /\ t.req = r
                      /\ r \notin dispatch /\ holder[r] = "request" =>
                           Answerer(r, current[r]) \/ DroppedByArchive(r, current[r])
    BY DEF HeldRequestsAreCarried
  <2>1. Carried(r) /\ ManagerInv /\ ArchivesLoad /\ RemovedProviderHoldsNoRequest
    BY DEF CarriedInv, ManagerInv
  <2>2. ASSUME holder[r] = "request", r \notin dispatch
        PROVE  Answerer(r, current[r]) \/ DroppedByArchive(r, current[r])
    <3> DEFINE p == current[r]
    <3>1. p \in Provider /\ p \in ToSet(providers)
      BY <2>1, <2>2, LiveEntry DEF RemovedProviderHoldsNoRequest
    <3>2. KindOf[p] \in {"content", "directory", "archive", "custom"}
      BY <3>1, ManagerAssumption
    <3>3. KindOf[p] = "archive" /\ archive[p] = "loading" => LoadComes(p)
      BY <2>1, <3>1 DEF ArchivesLoad
    <3> QED
      BY <2>1, <2>2, <3>2, <3>3 DEF Carried, Answerer, DroppedByArchive
  <2> QED
    BY <2>1, <2>2 DEF Carried, Owns
<1> QED
  BY <1>1, InitCarries, NextCarries, PTL DEF Spec

=============================================================================
