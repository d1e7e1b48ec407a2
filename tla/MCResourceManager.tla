------------------------- MODULE MCResourceManager -------------------------
(***************************************************************************)
(* Instances of ResourceManager for TLC.                                   *)
(***************************************************************************)
EXTENDS ResourceManager

CONSTANTS r1, r2, content, dir, zip, app

\* The application's provider comes last.
AppLast == [p \in Provider |-> IF p = app THEN 2 ELSE 1]

\* Every provider has an identifier of its own.
OwnName == [p \in Provider |-> p]

Kinds == [p \in Provider |-> CASE p = content -> "content" [] p = dir -> "directory"
                               [] p = zip -> "archive" [] OTHER -> "custom"]

\* Every provider has the first request's resource, no provider has anything,
\* only the archive has one or both, or the archive has one and the others the
\* other.
HasFirst == [p \in Provider |-> {r1}]
HasNone  == [p \in Provider |-> {}]
ZipFirst == [p \in Provider |-> IF p = zip THEN {r1} ELSE {}]
OneEach  == [p \in Provider |-> IF p = zip THEN {r1} ELSE {r2}]
ZipAll   == [p \in Provider |-> IF p = zip THEN Req ELSE {}]

\* Bound of resource_core: any two of the three providers are added.
TwoProviders == Cardinality(added) <= 2

\* Bound of resource_core: the application calls a Request object a second time
\* only while one network request has been offered and nothing is removed;
\* removals make a second call of their own.
DoubleCallBound ==
  (\E x \in Provider \X Req : calls[x] > 1) =>
    removals = 0 /\ Cardinality({r \in Req : visited[r] # {}}) <= 1

=============================================================================
