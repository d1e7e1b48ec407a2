----------------------------- MODULE ImageCache -----------------------------
(***************************************************************************)
(* A cache of images in front of files.  A load looks the images up on the *)
(* UI thread, reads the missing ones on the FILE thread, and enters them   *)
(* back on the UI thread; loads of the same images overlap.                *)
(*                                                                         *)
(* Source: tests/cefclient/browser/image_cache.cc.  The files change       *)
(* meanwhile.  A load's infos, images and contents are vectors that the    *)
(* code walks side by side: what belongs together is in one position.      *)
(***************************************************************************)
EXTENDS Naturals, Sequences, FiniteSets, SequencesExt

CONSTANTS ImageId,   \* IDs with files
          Load,      \* calls of LoadImages
          MaxImages, \* bound: infos of one load
          Reps       \* representations of an image, files that are read in order

\* kEmptyId, an image that is left empty.
EmptyId == "__empty"

ASSUME ImageCacheAssumption ==
  EmptyId \notin ImageId /\ MaxImages \in Nat \ {0} /\ Reps \in Nat \ {0}

VARIABLES
  image_map,  \* image_map_: a function from the IDs it holds
  request,    \* image_info of each call
  uiTasks,    \* tasks of TID_UI that belong to the cache
  fileTasks,  \* tasks of TID_FILE_USER_BLOCKING
  files,      \* how many representations of an image can be read and decoded
  answers     \* what each load's callback was run with, run by run

cacheVars == <<image_map, request, uiTasks, fileTasks, files, answers>>

\* nullptr, and a CefImage: whose files it holds, which load created it and
\* how many representations it has.
Null  == [reps |-> 0]
Image == [of: ImageId, by: Load, reps: 1..Reps] \union {Null}

Vector(S) == SeqOf(S, MaxImages)

\* Only ImageInfo::Empty makes infos of kEmptyId; the other IDs are "unique".
Info == [id: ImageId, force: BOOLEAN] \union {[id |-> EmptyId, force |-> FALSE]}
Request == {r \in Vector(Info) :
  /\ r # <<>>
  /\ \A j, k \in DOMAIN r : r[j].id = r[k].id /\ r[j].id # EmptyId => j = k}

\* A call not made yet.
NoRequest == <<>>

\* image_, or else the contents_ that were read from the files of an ID.
Content == [image: Image, of: ImageId \union {EmptyId}, reps: 0..Reps]

CacheTask == [do: {"load"}, load: Load]
               \union [do: {"missing"}, load: Load, images: Vector(Image)]
               \union [do: {"update"}, load: Load, contents: Vector(Content)]

CacheTypeOK ==
  /\ image_map \in UNION {[S -> Image] : S \in SUBSET ImageId}
  /\ request \in [Load -> Request \union {NoRequest}]
  /\ uiTasks \in Seq(CacheTask) /\ fileTasks \in Seq(CacheTask)
  /\ files \in [ImageId -> 0..Reps]
  /\ answers \in [Load -> Seq(Vector(Image))]

CacheInit ==
  /\ image_map = [i \in {} |-> Null]
  /\ request = [l \in Load |-> NoRequest]
  /\ uiTasks = <<>> /\ fileTasks = <<>>
  /\ files \in [ImageId -> 0..Reps]
  /\ answers = [l \in Load |-> <<>>]

----------------------------------------------------------------------------
\* The IDs whose reload a request forces.
Forced(r) == {r[k].id : k \in {j \in DOMAIN r : r[j].force}}

\* Mutated form: force_reload_ is not looked at.
MissingIgnoresForce(r) ==
  {k \in DOMAIN r : r[k].id # EmptyId /\ r[k].id \notin DOMAIN image_map}

\* The positions of a request whose images have to be loaded.
Missing(r) ==
  {k \in DOMAIN r : r[k].id # EmptyId
                    /\ (r[k].force \/ r[k].id \notin DOMAIN image_map)}

\* LoadImages on the UI thread.  The rest of its queue is q.
LoadOnUI(l, r, q) ==
  LET missing == Missing(r)
      images  == [k \in DOMAIN r |-> IF k \in missing \/ r[k].id = EmptyId THEN Null
                                     ELSE image_map[r[k].id]]
  IN  /\ image_map' = Restrict(image_map, DOMAIN image_map \ Forced(r))
      /\ uiTasks' = q
      /\ IF missing # {}
           THEN /\ fileTasks' = Append(fileTasks,
                                  [do |-> "missing", load |-> l, images |-> images])
                /\ UNCHANGED answers
           ELSE /\ answers' = [answers EXCEPT ![l] = Append(@, images)]
                /\ UNCHANGED fileTasks

\* LoadImages is called, on the UI thread or on another one.
LoadImages(l, r) ==
  /\ request[l] = NoRequest
  /\ request' = [request EXCEPT ![l] = r]
  /\ \/ LoadOnUI(l, r, uiTasks)
     \/ /\ uiTasks' = Append(uiTasks, [do |-> "load", load |-> l])
        /\ UNCHANGED <<image_map, fileTasks, answers>>
  /\ UNCHANGED files

\* The call posted to the UI thread.
LoadImagesTask ==
  /\ uiTasks # <<>> /\ Head(uiTasks).do = "load"
  /\ LoadOnUI(Head(uiTasks).load, request[Head(uiTasks).load], Tail(uiTasks))
  /\ UNCHANGED <<request, files>>

\* The content for one image of LoadMissing: the one that was found, or what
\* LoadImageContents reads.  It reads an image cached as null too, stops at
\* the first representation that fails and keeps those before.
ContentFor(id, image) ==
  IF image # Null \/ id = EmptyId
    THEN [image |-> image, of |-> EmptyId, reps |-> 0]
    ELSE [image |-> Null, of |-> id, reps |-> files[id]]

\* Mutated form: an image that was found gets no content.
ContentsOfMissing(r, images) ==
  LET read == SelectSeq([k \in DOMAIN images |-> k], LAMBDA k : images[k] = Null)
  IN  [n \in DOMAIN read |-> ContentFor(r[read[n]].id, images[read[n]])]

\* The infos and the images side by side, to the end of the shorter.
Contents(r, images) ==
  [k \in DOMAIN r \intersect DOMAIN images |-> ContentFor(r[k].id, images[k])]

\* Mutated form: nothing is answered if an image cannot be read.
LoadMissingGivesUp ==
  LET t == Head(fileTasks)
      contents == Contents(request[t.load], t.images)
  IN  /\ fileTasks # <<>>
      /\ fileTasks' = Tail(fileTasks)
      /\ uiTasks' = IF \E k \in DOMAIN contents :
                         contents[k].of # EmptyId /\ contents[k].reps = 0
                      THEN uiTasks
                      ELSE Append(uiTasks,
                             [do |-> "update", load |-> t.load, contents |-> contents])
      /\ UNCHANGED <<image_map, request, files, answers>>

\* LoadMissing on the FILE thread.
LoadMissing ==
  LET t == Head(fileTasks)
  IN  /\ fileTasks # <<>>
      /\ fileTasks' = Tail(fileTasks)
      /\ uiTasks' = Append(uiTasks,
                      [do |-> "update", load |-> t.load,
                       contents |-> Contents(request[t.load], t.images)])
      /\ UNCHANGED <<image_map, request, files, answers>>

\* CreateImage, called by load l.
CreateImage(l, content) ==
  IF content.reps = 0 THEN Null
  ELSE [of |-> content.of, by |-> l, reps |-> content.reps]

\* f, and g where f is not defined.
Overlay(f, g) ==
  [i \in DOMAIN f \union DOMAIN g |-> IF i \in DOMAIN f THEN f[i] ELSE g[i]]

\* Mutated forms: what was loaded last is kept; a failure is not entered.
InsertOverwrites(created) == Overlay(created, image_map)
InsertSkipsNull(created) ==
  Overlay(image_map, Restrict(created, {i \in DOMAIN created : created[i] # Null}))

\* std::map::insert leaves an entry that is there alone.
Insert(created) == Overlay(image_map, created)

\* The images for the infos and the contents of load l side by side: those that
\* were found, and those created now.
Images(l, r, contents) ==
  [k \in DOMAIN r \intersect DOMAIN contents |->
     IF contents[k].image # Null \/ r[k].id = EmptyId THEN contents[k].image
     ELSE CreateImage(l, contents[k])]

\* What is entered, under the IDs of the infos.
Created(r, contents, images) ==
  LET new == {k \in DOMAIN images : contents[k].image = Null /\ r[k].id # EmptyId}
  IN  [i \in {r[k].id : k \in new} |-> images[CHOOSE k \in new : r[k].id = i]]

\* UpdateCache: the callback gets the images of this load, whichever the map
\* holds.
UpdateCache ==
  LET t      == Head(uiTasks)
      r      == request[t.load]
      images == Images(t.load, r, t.contents)
  IN  /\ uiTasks # <<>> /\ t.do = "update"
      /\ uiTasks' = Tail(uiTasks)
      /\ image_map' = Insert(Created(r, t.contents, images))
      /\ answers' = [answers EXCEPT ![t.load] = Append(@, images)]
      /\ UNCHANGED <<request, fileTasks, files>>

\* A file appears, disappears or becomes unreadable.
FileChanges(i, n) ==
  /\ files[i] # n /\ files' = [files EXCEPT ![i] = n]
  /\ UNCHANGED <<image_map, request, uiTasks, fileTasks, answers>>

CacheNext ==
  \/ \E l \in Load, r \in Request : LoadImages(l, r)
  \/ LoadImagesTask \/ LoadMissing \/ UpdateCache
  \/ \E i \in ImageId, n \in 0..Reps : FileChanges(i, n)

CacheSpec == CacheInit /\ [][CacheNext]_cacheVars

----------------------------------------------------------------------------
InProgress(l) == {t \in ToSet(uiTasks \o fileTasks) : t.load = l}

(* The callback of a load is run exactly once, whether the images were cached,
   loaded, failed or half read: until then the load is in one of the queues. *)
CallbackRunsOnce ==
  \A l \in Load :
    Len(answers[l]) + Cardinality(InProgress(l)) = (IF request[l] = NoRequest THEN 0 ELSE 1)

(* The windows that share the cache see one image: an entry never changes
   while it is in the map, not even from null to an image that can be read by
   now, however loads overlap. *)
CachedImageStays ==
  [][\A i \in DOMAIN image_map \intersect DOMAIN image_map' :
       image_map'[i] = image_map[i]]_cacheVars

(* After a callback GetCachedImage finds an entry for each of its images,
   unless a reload that some caller forced is still on its way. *)
AnsweredImagesAreCached ==
  \A l \in Load : answers[l] # <<>> =>
    \A k \in DOMAIN request[l] : request[l][k].id # EmptyId =>
      \/ request[l][k].id \in DOMAIN image_map
      \/ \E m \in Load : InProgress(m) # {} /\ request[l][k].id \in Forced(request[m])

(* A callback is handed one image for each info, in the order of the infos (the
   DCHECKs of RootWindowViews::CreateViewsWindow): in each position none or one
   made of the files of that ID, and by this very load if it forced a reload.
   What the map holds for an ID is made of its files as well.  Three vectors
   are filled and read by two threads in between. *)
AnswersComeFromLoads ==
  /\ \A l \in Load : answers[l] # <<>> =>
       /\ DOMAIN answers[l][1] = DOMAIN request[l]
       /\ \A k \in DOMAIN request[l] :
            LET image == answers[l][1][k]
            IN  image # Null => /\ image.of = request[l][k].id
                                /\ request[l][k].force => image.by = l
  /\ \A i \in DOMAIN image_map : image_map[i] # Null => image_map[i].of = i

=============================================================================
