-------------------------- MODULE ResourceManager --------------------------
(***************************************************************************)
(* CefResourceManager: network requests are offered to an ordered list of  *)
(* providers, which answer at once, from the FILE thread or from any other *)
(* thread, while providers are added and removed and the manager itself    *)
(* may go away.                                                            *)
(*                                                                         *)
(* Source: libcef_dll/wrapper/cef_resource_manager.cc.  All bookkeeping    *)
(* happens on the IO thread; other threads only post tasks to it.  URLs,   *)
(* mime types and contents are abstracted to which provider has a resource *)
(* for which request.  A Request object of the code is the pair of the     *)
(* network request and the provider it was created for.                    *)
(***************************************************************************)
EXTENDS Naturals, Sequences, FiniteSets, SequencesExt, Lists

CONSTANTS Req,          \* network requests, by CefRequest identifier
          Provider,     \* Provider objects; each is added once at most
          NoProvider,   \* providers_.end()
          OrderOf,      \* the order a provider is added with
          NameOf,       \* the identifier a provider is added with
          KindOf,       \* which class of provider it is
          HasResource,  \* the requests a provider has content or a file for
          MaxCalls,     \* bound: Continue and Stop calls per Request object
          AgainAlone,   \* bound: a second call only where no other request was
                        \* offered and nothing removed
          MayRelease,   \* may the application release the manager?
          MaxRemovals   \* bound: RemoveProviders and RemoveAllProviders calls

ASSUME ManagerAssumption ==
  /\ NoProvider \notin Provider
  /\ OrderOf \in [Provider -> Nat]
  /\ KindOf \in [Provider -> {"content", "directory", "archive", "custom"}]
  /\ HasResource \in [Provider -> SUBSET Req]
  /\ MaxCalls \in Nat
  /\ AgainAlone \in BOOLEAN
  /\ MayRelease \in BOOLEAN
  /\ MaxRemovals \in Nat

VARIABLES
  manager,    \* "alive", "dying" (in the destructor) or "gone"
  providers,  \* providers_
  deleting,   \* the entries with deletion_pending_
  pending,    \* pending_requests_ of each entry, as network requests
  current,    \* current_entry_pos_ of each RequestState
  holder,     \* who owns the RequestState: "none" yet, a "request", a "task",
              \* or it is "done" and its callback has run
  dispatch,   \* the request whose Provider::OnRequest is running, if any
  removing,   \* the RemoveProviders or RemoveAllProviders loop, if any
  ready,      \* pending_handlers_
  archive,    \* archive_load_started_ and archive_load_ended_
  waiting,    \* pending_requests_ of each archive provider
  ioTasks,    \* tasks posted to the IO thread
  fileTasks,  \* tasks posted to the FILE thread
  verdict,    \* ghost: what OnBeforeResourceLoad returned
  callbacks,  \* ghost: runs of the request's CefCallback
  fetched,    \* ghost: what GetResourceHandler returned
  added,      \* ghost: providers the manager was given
  visited,    \* ghost: providers a request has been offered to
  calls,      \* ghost: Continue and Stop calls of custom providers
  removals    \* ghost: RemoveProviders and RemoveAllProviders calls

entryVars == <<providers, deleting, pending>>
stateVars == <<current, holder>>
taskVars  == <<ioTasks, fileTasks>>
archVars  == <<archive, waiting>>
seenVars  == <<verdict, callbacks, fetched>>
usedVars  == <<added, visited, calls, removals>>
vars == <<manager, entryVars, stateVars, dispatch, removing, ready, archVars,
          taskVars, seenVars, usedVars>>

\* How a provider ends its part: with a handler, without one, or with Stop.
Outcome == {"serve", "pass", "stop"}

ContinueTask == [kind: {"continue"}, req: Req, handler: BOOLEAN]
StopTask     == [kind: {"stop"}, req: Req]
CallTask     == [kind: {"call"}, req: Req, to: Provider, outcome: Outcome]
ArchiveTask  == [kind: {"archive"}, to: Provider]
AddTask      == [kind: {"add"}, to: Provider]
RemoveTask   == [kind: {"remove"}, which: SUBSET Provider, stop: BOOLEAN]
IoTask   == ContinueTask \union StopTask \union CallTask \union ArchiveTask
              \union AddTask \union RemoveTask
FileTask == [kind: {"open"}, req: Req, to: Provider]
              \union [kind: {"load"}, to: Provider]
Removal  == [which: SUBSET Provider, stop: BOOLEAN, last: BOOLEAN,
             pos: Nat \ {0}]

TypeOK ==
  /\ manager \in {"alive", "dying", "gone"}
  /\ providers \in Seq(Provider)
  /\ deleting \subseteq Provider
  /\ pending \in [Provider -> Seq(Req)]
  /\ current \in [Req -> Provider \union {NoProvider}]
  /\ holder \in [Req -> {"none", "request", "task", "done"}]
  /\ dispatch \subseteq Req
  /\ removing \subseteq Removal
  /\ ready \subseteq Req
  /\ archive \in [Provider -> {"idle", "loading", "loaded"}]
  /\ waiting \in [Provider -> Seq(Req)]
  /\ ioTasks \in Seq(IoTask)
  /\ fileTasks \in Seq(FileTask)
  /\ verdict \in [Req -> {"none", "continue", "async"}]
  /\ callbacks \in [Req -> Nat]
  /\ fetched \in [Req -> {"no", "nothing", "handler"}]
  /\ added \subseteq Provider
  /\ visited \in [Req -> SUBSET Provider]
  /\ calls \in [Provider \X Req -> 0..MaxCalls]
  /\ removals \in 0..MaxRemovals

Init ==
  /\ manager = "alive"
  /\ providers = <<>> /\ deleting = {}
  /\ pending = [p \in Provider |-> <<>>]
  /\ current = [r \in Req |-> NoProvider]
  /\ holder = [r \in Req |-> "none"]
  /\ dispatch = {} /\ removing = {} /\ ready = {}
  /\ archive = [p \in Provider |-> "idle"]
  /\ waiting = [p \in Provider |-> <<>>]
  /\ ioTasks = <<>> /\ fileTasks = <<>>
  /\ verdict = [r \in Req |-> "none"]
  /\ callbacks = [r \in Req |-> 0]
  /\ fetched = [r \in Req |-> "no"]
  /\ added = {}
  /\ visited = [r \in Req |-> {}]
  /\ calls = [x \in Provider \X Req |-> 0]
  /\ removals = 0

----------------------------------------------------------------------------
(***************************************************************************)
(* Helpers                                                                 *)
(***************************************************************************)

\* The IO thread is between two tasks.
IoIdle == dispatch = {} /\ removing = {}

\* Where the application may call the manager on the IO thread: between two
\* tasks, or inside OnRequest of a provider of its own.
MayCallManager ==
  /\ manager = "alive" /\ removing = {}
  /\ \A r \in dispatch : KindOf[current[r]] = "custom"

\* Request::HasState for the Request object made for r and p.
HasState(r, p) == holder[r] = "request" /\ current[r] = p

PosOf(p) == CHOOSE i \in DOMAIN providers : providers[i] = p

\* Mutated forms: the end of the list is not recognised, and entries pending
\* deletion are not skipped.
NextValidEnd(i) ==
  {IF i < Len(providers) THEN providers[i + 1] ELSE NoProvider}
NextValidAny(i) ==
  {providers[j] : j \in {k \in DOMAIN providers : k = i + 1}}

\* GetNextValidProvider after position i, as a set of at most one provider.
NextValid(i) ==
  LET valid == {j \in DOMAIN providers : j > i /\ providers[j] \notin deleting}
  IN  {providers[j] : j \in {k \in valid : \A l \in valid : k <= l}}

\* Mutated forms: the emptied entry is kept, or erased while others wait.
DetachKeepsEntry(r) ==
  /\ UNCHANGED <<providers, deleting>>
DetachErasesEarly(r) ==
  LET p == current[r]
  IN  /\ providers' = IF p \in deleting THEN Erase(providers, p) ELSE providers
      /\ deleting' = deleting \ {p}

\* DetachRequestFromProvider: the last request to leave an entry whose
\* deletion is pending takes the entry with it.
Detach(r) ==
  LET p      == current[r]
      erases == p \in deleting /\ Erase(pending[p], r) = <<>>
  IN  /\ providers' = IF erases THEN Erase(providers, p) ELSE providers
      /\ deleting' = IF erases THEN deleting \ {p} ELSE deleting

\* The result of OnBeforeResourceLoad, set when its SendRequest returns.
Return(r, v) == verdict' = [verdict EXCEPT ![r] = IF @ = "none" THEN v ELSE @]

\* ~RequestState: "Always execute the callback."
Finish(r) ==
  /\ holder' = [holder EXCEPT ![r] = "done"]
  /\ current' = [current EXCEPT ![r] = NoProvider]
  /\ callbacks' = [callbacks EXCEPT ![r] = @ + 1]

\* The constructor of Request, for the offer that follows.
MakeRequest(r, p) ==
  /\ holder' = [holder EXCEPT ![r] = "request"]
  /\ current' = [current EXCEPT ![r] = p]
  /\ visited' = [visited EXCEPT ![r] = @ \union {p}]
  /\ dispatch' = {r}

\* IncrementProvider and then the next offer, or StopRequest at the end.
Forward(r) ==
  LET p    == current[r]
      next == NextValid(PosOf(p))
  IN  /\ Detach(r)
      /\ \/ /\ next = {}
            /\ pending' = [pending EXCEPT ![p] = Erase(@, r)]
            /\ Finish(r) /\ Return(r, "continue")
            /\ dispatch' = {} /\ UNCHANGED visited
         \/ \E q \in next :
              /\ pending' = [pending EXCEPT ![p] = Erase(@, r),
                                            ![q] = Append(@, r)]
              /\ MakeRequest(r, q)
              /\ UNCHANGED <<callbacks, verdict>>

\* StopRequest.
StopRequest(r) ==
  /\ Detach(r)
  /\ pending' = [pending EXCEPT ![current[r]] = Erase(@, r)]
  /\ Finish(r)

\* The task Request::Continue and Request::Stop post with the moved state_.
Handover(r, outcome) ==
  IF outcome = "stop" THEN [kind |-> "stop", req |-> r]
  ELSE [kind |-> "continue", req |-> r, handler |-> outcome = "serve"]

\* Mutated form: state_ is not tested.
CallUnguarded(r, p, outcome, rest) ==
  /\ holder' = [holder EXCEPT ![r] = "task"]
  /\ ioTasks' = Append(rest, Handover(r, outcome))

\* Request::Continue and Request::Stop on the IO thread, with the tasks that
\* are left in its queue: nothing unless the object still has its state.
Call(r, p, outcome, rest) ==
  IF HasState(r, p)
    THEN /\ holder' = [holder EXCEPT ![r] = "task"]
         /\ ioTasks' = Append(rest, Handover(r, outcome))
    ELSE ioTasks' = rest /\ UNCHANGED holder

----------------------------------------------------------------------------
(***************************************************************************)
(* Network requests                                                        *)
(***************************************************************************)

\* OnBeforeResourceLoad, up to the first offer.
OnBeforeResourceLoad(r) ==
  /\ manager = "alive" /\ IoIdle /\ holder[r] = "none"
  /\ \/ /\ NextValid(0) = {}
        /\ holder' = [holder EXCEPT ![r] = "done"]
        /\ Return(r, "continue")
        /\ UNCHANGED <<pending, current, visited, dispatch>>
     \/ \E p \in NextValid(0) :
          /\ pending' = [pending EXCEPT ![p] = Append(@, r)]
          /\ MakeRequest(r, p)
          /\ UNCHANGED verdict
  /\ UNCHANGED <<manager, providers, deleting, removing, ready, archVars,
                 taskVars, callbacks, fetched, added, calls, removals>>

\* GetResourceHandler, which the network stack calls once the request goes on.
GetResourceHandler(r) ==
  /\ manager = "alive" /\ IoIdle
  /\ \/ verdict[r] = "continue"
     \/ verdict[r] = "async" /\ callbacks[r] > 0
  /\ fetched[r] = "no"
  /\ fetched' = [fetched EXCEPT ![r] = IF r \in ready THEN "handler" ELSE "nothing"]
  /\ ready' = ready \ {r}
  /\ UNCHANGED <<manager, entryVars, stateVars, dispatch, removing, archVars,
                 taskVars, verdict, callbacks, usedVars>>

\* The request whose OnRequest runs now, at a provider of this kind.
Offered(r, kind) ==
  r \in dispatch /\ removing = {} /\ KindOf[current[r]] = kind

\* OnRequest returned true, or ended with the state gone from the object.
Handled(r) == dispatch' = {} /\ Return(r, "async")

\* ContentProvider::OnRequest.
ContentOnRequest(r) ==
  /\ Offered(r, "content")
  /\ IF r \in HasResource[current[r]]
       THEN /\ Call(r, current[r], "serve", ioTasks)
            /\ Handled(r)
            /\ UNCHANGED <<entryVars, current, callbacks, visited>>
       ELSE Forward(r) /\ UNCHANGED ioTasks
  /\ UNCHANGED <<manager, removing, ready, archVars, fileTasks, fetched, added,
                 calls, removals>>

\* DirectoryProvider::OnRequest.  A URL below url_path_ may lack a file.
DirectoryOnRequest(r) ==
  /\ Offered(r, "directory")
  /\ \/ /\ fileTasks' = Append(fileTasks, [kind |-> "open", req |-> r,
                                           to |-> current[r]])
        /\ Handled(r)
        /\ UNCHANGED <<entryVars, stateVars, callbacks, visited>>
     \/ /\ r \notin HasResource[current[r]]
        /\ Forward(r) /\ UNCHANGED fileTasks
  /\ UNCHANGED <<manager, removing, ready, archVars, ioTasks, fetched, added,
                 calls, removals>>

\* ArchiveProvider::OnRequest: the first request starts the load, those that
\* follow wait for it, later ones are looked up at once.
ArchiveOnRequest(r) ==
  LET p == current[r]
  IN  /\ Offered(r, "archive")
      /\ \/ /\ archive[p] # "loaded"
            /\ archive' = [archive EXCEPT ![p] = "loading"]
            /\ waiting' = [waiting EXCEPT ![p] = Append(@, r)]
            /\ fileTasks' = IF archive[p] = "idle"
                              THEN Append(fileTasks, [kind |-> "load", to |-> p])
                              ELSE fileTasks
            /\ Handled(r)
            /\ UNCHANGED <<entryVars, stateVars, ioTasks, callbacks, visited>>
         \/ /\ archive[p] = "loaded" /\ r \in HasResource[p]
            /\ Call(r, p, "serve", ioTasks)
            /\ Handled(r)
            /\ UNCHANGED <<entryVars, current, archVars, fileTasks, callbacks,
                           visited>>
         \/ /\ r \notin HasResource[p]
            /\ Forward(r)
            /\ UNCHANGED <<archVars, taskVars>>
      /\ UNCHANGED <<manager, removing, ready, fetched, added, calls, removals>>

\* OnRequest of an application's provider returns.  It may have used the
\* request, and called the manager, before.
CustomOnRequest(r) ==
  /\ Offered(r, "custom")
  /\ \/ /\ Handled(r)
        /\ UNCHANGED <<entryVars, stateVars, callbacks, visited>>
     \/ /\ HasState(r, current[r])
        /\ Forward(r)
  /\ UNCHANGED <<manager, removing, ready, archVars, taskVars, fetched, added,
                 calls, removals>>

----------------------------------------------------------------------------
(***************************************************************************)
(* Tasks of the IO thread and the FILE thread                              *)
(***************************************************************************)

NextTask(kind) == IoIdle /\ ioTasks # <<>> /\ Head(ioTasks).kind = kind

\* Request::ContinueOnIOThread and CefResourceManager::ContinueRequest; without
\* a manager only the state is destroyed.
RunContinueTask ==
  LET t == Head(ioTasks)
      r == t.req
  IN  /\ NextTask("continue")
      /\ ioTasks' = Tail(ioTasks)
      /\ \/ /\ manager = "gone"
            /\ Finish(r)
            /\ UNCHANGED <<entryVars, ready, dispatch, visited, verdict>>
         \/ /\ manager # "gone" /\ t.handler
            /\ ready' = ready \union {r}
            /\ StopRequest(r)
            /\ UNCHANGED <<dispatch, visited, verdict>>
         \/ /\ manager # "gone" /\ ~t.handler
            /\ Forward(r) /\ UNCHANGED ready
      /\ UNCHANGED <<manager, removing, archVars, fileTasks, fetched, added,
                     calls, removals>>

\* Request::StopOnIOThread.
RunStopTask ==
  LET r == Head(ioTasks).req
  IN  /\ NextTask("stop")
      /\ ioTasks' = Tail(ioTasks)
      /\ IF manager = "gone" THEN Finish(r) /\ UNCHANGED entryVars
                             ELSE StopRequest(r)
      /\ UNCHANGED <<manager, dispatch, removing, ready, archVars, fileTasks,
                     verdict, fetched, usedVars>>

\* Continue or Stop posted by another thread, and ContinueOpenOnIOThread.
RunCallTask ==
  LET t == Head(ioTasks)
  IN  /\ NextTask("call")
      /\ Call(t.req, t.to, t.outcome, Tail(ioTasks))
      /\ UNCHANGED <<manager, entryVars, current, dispatch, removing, ready,
                     archVars, fileTasks, seenVars, usedVars>>

\* ArchiveProvider::ContinueOnIOThread: the waiting requests the archive has a
\* file for go on.  The others are dropped from the list.  A deleted provider
\* is no longer called (WeakPtr).
RunArchiveTask ==
  LET p    == Head(ioTasks).to
      held == Filter(waiting[p], {r \in HasResource[p] : HasState(r, p)})
  IN  /\ NextTask("archive")
      /\ IF p \in ToSet(providers)
           THEN /\ archive' = [archive EXCEPT ![p] = "loaded"]
                /\ waiting' = [waiting EXCEPT ![p] = <<>>]
                /\ ioTasks' = Tail(ioTasks) \o
                     [i \in DOMAIN held |-> Handover(held[i], "serve")]
                /\ holder' = [r \in Req |-> IF r \in ToSet(held)
                                              THEN "task" ELSE holder[r]]
           ELSE ioTasks' = Tail(ioTasks) /\ UNCHANGED <<archVars, holder>>
      /\ UNCHANGED <<manager, entryVars, current, dispatch, removing, ready,
                     fileTasks, seenVars, usedVars>>

\* Mutated form: nothing is posted for a file.
RunFileTaskDropsMissing ==
  LET t == Head(fileTasks)
  IN  /\ fileTasks # <<>>
      /\ fileTasks' = Tail(fileTasks)
      /\ ioTasks' = IF t.kind = "load"
                      THEN Append(ioTasks, [kind |-> "archive", to |-> t.to])
                      ELSE ioTasks
      /\ UNCHANGED <<manager, entryVars, stateVars, dispatch, removing, ready,
                     archVars, seenVars, usedVars>>

\* DirectoryProvider::OpenOnFileThread, and the ContinueOpenOnIOThread it posts.
OpenOnFileThread(t) ==
  [kind |-> "call", req |-> t.req, to |-> t.to,
   outcome |-> IF t.req \in HasResource[t.to] THEN "serve" ELSE "pass"]

\* ArchiveProvider::LoadOnFileThread; an archive that fails to load has nothing.
LoadOnFileThread(t) == [kind |-> "archive", to |-> t.to]

RunFileTask ==
  LET t == Head(fileTasks)
  IN  /\ fileTasks # <<>>
      /\ fileTasks' = Tail(fileTasks)
      /\ ioTasks' = Append(ioTasks, IF t.kind = "load" THEN LoadOnFileThread(t)
                                                       ELSE OpenOnFileThread(t))
      /\ UNCHANGED <<manager, entryVars, stateVars, dispatch, removing, ready,
                     archVars, seenVars, usedVars>>

----------------------------------------------------------------------------
(***************************************************************************)
(* The application                                                         *)
(***************************************************************************)

\* The application's provider p has the Request object made for r, and calls
\* it at most MaxCalls times.
MayUse(p, r) ==
  /\ KindOf[p] = "custom" /\ p \in visited[r] /\ calls[p, r] < MaxCalls
  /\ (calls[p, r] > 0 /\ AgainAlone) =>
       removals = 0 /\ \A s \in Req \ {r} : visited[s] = {}

\* Request::Continue or Request::Stop on the IO thread, inside OnRequest or in
\* a task of the application.
CallRequest(p, r, outcome) ==
  /\ MayUse(p, r) /\ removing = {}
  /\ \A s \in dispatch : current[s] = p
  /\ calls' = [calls EXCEPT ![<<p, r>>] = @ + 1]
  /\ Call(r, p, outcome, ioTasks)
  /\ UNCHANGED <<manager, entryVars, current, dispatch, removing, ready,
                 archVars, fileTasks, seenVars, added, visited, removals>>

\* The same on another thread.
PostCallRequest(p, r, outcome) ==
  /\ MayUse(p, r)
  /\ calls' = [calls EXCEPT ![<<p, r>>] = @ + 1]
  /\ ioTasks' = Append(ioTasks, [kind |-> "call", req |-> r, to |-> p,
                                 outcome |-> outcome])
  /\ UNCHANGED <<manager, entryVars, stateVars, dispatch, removing, ready,
                 archVars, fileTasks, seenVars, added, visited, removals>>

\* AddProvider on the IO thread: before the first entry with a higher order.
Insert(p) ==
  LET later == {i \in DOMAIN providers : OrderOf[providers[i]] > OrderOf[p]}
      at    == IF later = {} THEN Len(providers) + 1
               ELSE CHOOSE i \in later : \A j \in later : i <= j
  IN  providers' = InsertAt(providers, at, p)

AddProvider(p) ==
  /\ MayCallManager /\ p \notin added
  /\ added' = added \union {p}
  /\ Insert(p)
  /\ UNCHANGED <<manager, deleting, pending, stateVars, dispatch, removing,
                 ready, archVars, taskVars, seenVars, visited, calls, removals>>

PostAddProvider(p) ==
  /\ manager = "alive" /\ p \notin added
  /\ added' = added \union {p}
  /\ ioTasks' = Append(ioTasks, [kind |-> "add", to |-> p])
  /\ UNCHANGED <<manager, entryVars, stateVars, dispatch, removing, ready,
                 archVars, fileTasks, seenVars, visited, calls, removals>>

RunAddTask ==
  /\ NextTask("add")
  /\ ioTasks' = Tail(ioTasks)
  /\ Insert(Head(ioTasks).to)
  /\ UNCHANGED <<manager, deleting, pending, stateVars, dispatch, removing,
                 ready, archVars, fileTasks, seenVars, usedVars>>

\* The loop of RemoveProviders and RemoveAllProviders over the given entries.
StartRemoval(which, stop) ==
  removing' = IF providers = <<>> THEN {}
              ELSE {[which |-> which, stop |-> stop, last |-> FALSE, pos |-> 1]}

\* RemoveProviders takes an identifier and lets the pending requests continue;
\* RemoveAllProviders stops them.
RemovalArgs == {<<{p \in Provider : NameOf[p] = NameOf[q]}, FALSE>> : q \in Provider}
                 \union {<<Provider, TRUE>>}

RemoveProviders(which, stop) ==
  /\ MayCallManager /\ removals < MaxRemovals
  /\ removals' = removals + 1
  /\ StartRemoval(which, stop)
  /\ UNCHANGED <<manager, entryVars, stateVars, dispatch, ready, archVars,
                 taskVars, seenVars, added, visited, calls>>

PostRemoveProviders(which, stop) ==
  /\ manager = "alive" /\ removals < MaxRemovals
  /\ removals' = removals + 1
  /\ ioTasks' = Append(ioTasks, [kind |-> "remove", which |-> which,
                                 stop |-> stop])
  /\ UNCHANGED <<manager, entryVars, stateVars, dispatch, removing, ready,
                 archVars, fileTasks, seenVars, added, visited, calls>>

RunRemoveTask ==
  /\ NextTask("remove")
  /\ ioTasks' = Tail(ioTasks)
  /\ StartRemoval(Head(ioTasks).which, Head(ioTasks).stop)
  /\ UNCHANGED <<manager, entryVars, stateVars, dispatch, ready, archVars,
                 fileTasks, seenVars, usedVars>>

\* The last reference goes: ~CefResourceManager runs on the IO thread.  Posted
\* calls hold references.
ReleaseManager ==
  /\ MayRelease /\ manager = "alive" /\ IoIdle
  /\ \A i \in DOMAIN ioTasks : ioTasks[i].kind \notin {"add", "remove"}
  /\ manager' = "dying"
  /\ removing' = {[which |-> Provider, stop |-> TRUE, last |-> TRUE, pos |-> 1]}
  /\ UNCHANGED <<entryVars, stateVars, dispatch, ready, archVars, taskVars,
                 seenVars, usedVars>>

----------------------------------------------------------------------------
(***************************************************************************)
(* The removal loop.  DeleteProvider leaves the iterator where it is when  *)
(* the entry is pending deletion already: then no action below applies.    *)
(***************************************************************************)

AtEntry(x, p) == x.pos <= Len(providers) /\ p = providers[x.pos]

\* The next entry, after one that is not to be removed.
RemovalSkips ==
  \E x \in removing, p \in Provider :
    /\ AtEntry(x, p) /\ p \notin x.which
    /\ removing' = {[x EXCEPT !.pos = @ + 1]}
    /\ UNCHANGED <<manager, entryVars, stateVars, dispatch, ready, archVars,
                   taskVars, seenVars, usedVars>>

\* Mutated forms: the iterator is not moved, and the pending requests are not
\* continued.
RemovalStays ==
  \E x \in removing, p \in Provider :
    /\ AtEntry(x, p) /\ p \in x.which /\ p \notin deleting /\ pending[p] # <<>>
    /\ deleting' = deleting \union {p}
    /\ UNCHANGED <<manager, providers, pending, stateVars, dispatch, removing,
                   ready, archVars, taskVars, seenVars, usedVars>>
RemovalKeepsRequests ==
  \E x \in removing, p \in Provider :
    /\ AtEntry(x, p) /\ p \in x.which /\ p \notin deleting /\ pending[p] # <<>>
    /\ deleting' = deleting \union {p}
    /\ removing' = {[x EXCEPT !.pos = @ + 1]}
    /\ UNCHANGED <<manager, providers, pending, stateVars, dispatch, ready,
                   archVars, taskVars, seenVars, usedVars>>

\* DeleteProvider, an entry with pending requests: those that still have their
\* state are continued or stopped, the entry goes when the last one has left.
RemovalMarks ==
  \E x \in removing, p \in Provider :
    LET held == Filter(pending[p], {r \in Req : HasState(r, p)})
    IN  /\ AtEntry(x, p) /\ p \in x.which
        /\ p \notin deleting /\ pending[p] # <<>>
        /\ deleting' = deleting \union {p}
        /\ holder' = [r \in Req |-> IF r \in ToSet(held) THEN "task" ELSE holder[r]]
        /\ ioTasks' = ioTasks \o
             [i \in DOMAIN held |-> Handover(held[i], IF x.stop THEN "stop"
                                                                 ELSE "pass")]
        /\ removing' = {[x EXCEPT !.pos = @ + 1]}
        /\ UNCHANGED <<manager, providers, pending, current, dispatch, ready,
                       archVars, fileTasks, seenVars, usedVars>>

\* DeleteProvider, an entry nothing is pending on.
RemovalDeletes ==
  \E x \in removing, p \in Provider :
    /\ AtEntry(x, p) /\ p \in x.which
    /\ p \notin deleting /\ pending[p] = <<>>
    /\ providers' = Erase(providers, p)
    /\ UNCHANGED <<manager, deleting, pending, stateVars, dispatch, removing,
                   ready, archVars, taskVars, seenVars, usedVars>>

\* The loop ends; the destructor then deletes the entries that are left.
RemovalEnds ==
  \E x \in removing :
    /\ x.pos > Len(providers)
    /\ removing' = {}
    /\ IF x.last
         THEN /\ manager' = "gone"
              /\ providers' = <<>> /\ deleting' = {}
              /\ pending' = [p \in Provider |-> <<>>]
         ELSE UNCHANGED <<manager, entryVars>>
    /\ UNCHANGED <<stateVars, dispatch, ready, archVars, taskVars, seenVars,
                   usedVars>>

----------------------------------------------------------------------------
RequestStep ==
  \E r \in Req : \/ OnBeforeResourceLoad(r) \/ GetResourceHandler(r)
                 \/ ContentOnRequest(r) \/ DirectoryOnRequest(r)
                 \/ ArchiveOnRequest(r) \/ CustomOnRequest(r)

IoTaskStep == \/ RunContinueTask \/ RunStopTask \/ RunCallTask
              \/ RunArchiveTask \/ RunAddTask \/ RunRemoveTask

TaskStep == IoTaskStep \/ RunFileTask

ApplicationStep ==
  \/ \E p \in Provider : AddProvider(p) \/ PostAddProvider(p)
  \/ \E p \in Provider, r \in Req, outcome \in Outcome :
       CallRequest(p, r, outcome) \/ PostCallRequest(p, r, outcome)
  \/ \E args \in RemovalArgs : \/ RemoveProviders(args[1], args[2])
                               \/ PostRemoveProviders(args[1], args[2])
  \/ ReleaseManager

RemovalStep == RemovalSkips \/ RemovalMarks \/ RemovalDeletes \/ RemovalEnds

Next == RequestStep \/ TaskStep \/ ApplicationStep \/ RemovalStep

Spec == Init /\ [][Next]_vars

(***************************************************************************)
(* Fairness.  The IO and FILE threads run what they were given, and an     *)
(* application's provider that returned true calls Continue or Stop, as    *)
(* Provider::OnRequest demands.                                            *)
(***************************************************************************)
Fairness ==
  /\ \A r \in Req : WF_vars(\/ ContentOnRequest(r) \/ DirectoryOnRequest(r)
                            \/ ArchiveOnRequest(r) \/ CustomOnRequest(r))
  /\ WF_vars(IoTaskStep)
  /\ WF_vars(RunFileTask)
  /\ WF_vars(RemovalStep)
  /\ \A p \in Provider, r \in Req :
       WF_vars(/\ calls[p, r] = 0
               /\ \E outcome \in Outcome : PostCallRequest(p, r, outcome))

FairSpec == Spec /\ Fairness

----------------------------------------------------------------------------
(***************************************************************************)
(* Properties                                                              *)
(***************************************************************************)

(* The iterators of a RequestState stay valid: a request on its way is in the
   pending list of the entry its state refers to, once, and that entry is in
   the list of providers.  DetachRequestFromProvider erases through both
   iterators, long after the entry may have been marked for deletion. *)
StateOnLiveEntry ==
  manager # "gone" =>
    /\ \A r \in Req : holder[r] \in {"request", "task"} =>
         current[r] \in ToSet(providers) /\ r \in ToSet(pending[current[r]])
    /\ \A p \in Provider : \A i, j \in DOMAIN pending[p] :
         /\ current[pending[p][i]] = p
         /\ holder[pending[p][i]] \in {"request", "task"}
         /\ pending[p][i] = pending[p][j] => i = j

(* An entry marked for deletion still has a pending request, whose departure
   deletes it; otherwise nothing ever would. *)
MarkedEntryIsInUse ==
  \A p \in deleting : p \in ToSet(providers) /\ pending[p] # <<>>

(* "Continue pending requests immediately": no request waits for a provider
   that was removed, nor for any provider once the manager is gone. *)
RemovedProviderHoldsNoRequest ==
  \A r \in Req : holder[r] = "request" =>
    manager # "gone" /\ current[r] \notin deleting

(* "Providers will be called in ascending order based on the order value",
   each at most once for a request, and none after it was removed, however the
   list changes while the request is under way. *)
OffersInOrder ==
  [][\A r \in Req : visited'[r] # visited[r] =>
       /\ current'[r] \notin visited[r] /\ current'[r] \notin deleting'
       /\ \A p \in visited[r] : OrderOf[p] <= OrderOf[current'[r]]]_vars

\* A Continue or Stop for the Request object made for r and p is posted.
CallComes(r, p) ==
  \E t \in ToSet(ioTasks) : t.kind = "call" /\ t.req = r /\ t.to = p

\* The load of p's archive is in a queue.
LoadComes(p) == \/ [kind |-> "load", to |-> p] \in ToSet(fileTasks)
                \/ [kind |-> "archive", to |-> p] \in ToSet(ioTasks)

\* What will answer request r, which waits for provider p.
Answerer(r, p) ==
  \/ /\ KindOf[p] = "custom"
     /\ calls[<<p, r>>] = 0 \/ CallComes(r, p)
  \/ /\ KindOf[p] = "directory"
     /\ \/ [kind |-> "open", req |-> r, to |-> p] \in ToSet(fileTasks)
        \/ CallComes(r, p)
  \/ /\ KindOf[p] = "archive"
     /\ archive[p] = "loading" /\ r \in ToSet(waiting[p]) /\ LoadComes(p)

\* The archive is loaded, and r was dropped from the list of those that wait.
DroppedByArchive(r, p) ==
  KindOf[p] = "archive" /\ archive[p] = "loaded" /\ r \notin HasResource[p]

(* A request that is held is never stranded between the threads: a task with
   its state is in the queue of the IO thread, or the provider it waits for has
   yet to use it or has a task for it on one of the two threads.  Only an
   archive without the file leaves a request that nothing will answer. *)
HeldRequestsAreCarried ==
  /\ \A r \in Req : holder[r] = "task" =>
       \E t \in ToSet(ioTasks) : t.kind \in {"continue", "stop"} /\ t.req = r
  /\ \A r \in Req \ dispatch : holder[r] = "request" =>
       Answerer(r, current[r]) \/ DroppedByArchive(r, current[r])

\* A request as the network stack sees it.
PhaseOf(r) == IF fetched[r] # "no" THEN "fetched"
              ELSE CASE holder[r] = "none" -> "idle"
                     [] holder[r] = "done" -> "resumed"
                     [] OTHER              -> "held"

Load == INSTANCE ResourceLoad
  WITH phase <- [r \in Req |-> PhaseOf(r)], resumes <- callbacks,
       stored <- ready, delivered <- {r \in Req : fetched[r] = "handler"}

(* The manager implements what its header promises: every request it holds is
   resumed by a single run of its callback, and gets its handler once. *)
ImplementsResourceLoad == Load!Spec

(* A request the manager holds is resumed, if every provider ends its part. *)
EveryRequestResumes ==
  \A r \in Req : (holder[r] \in {"request", "task"}) ~> (holder[r] = "done")

(* RemoveProviders, RemoveAllProviders and the destructor return. *)
RemovalReturns == (removing # {}) ~> (removing = {})

=============================================================================
