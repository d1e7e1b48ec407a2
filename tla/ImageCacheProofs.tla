-------------------------- MODULE ImageCacheProofs --------------------------
(***************************************************************************)
(* Proofs about ImageCache, for any images, any number of overlapping      *)
(* loads and any number of representations.                                *)
(***************************************************************************)
EXTENDS ImageCache, QueueLemmas, FiniteSetTheorems

----------------------------------------------------------------------------
\* The tasks of both threads, and no two of them for one load.
CacheTasks == ToSet(uiTasks) \union ToSet(fileTasks)

Distinct(q) == \A i, j \in DOMAIN q : q[i].load = q[j].load => i = j

TasksAreDistinct ==
  /\ Distinct(uiTasks) /\ Distinct(fileTasks)
  /\ \A t \in ToSet(uiTasks), u \in ToSet(fileTasks) : t.load # u.load

\* The image is made of the files of ID i.
MadeOf(image, i) == image # Null => image.of = i

\* ID i is in the map, or somebody is reloading it.
Covered(i) ==
  \/ i \in DOMAIN image_map
  \/ \E t \in CacheTasks : i \in Forced(request[t.load])

\* An image that was found for an info: not one that is to be reloaded.
FoundFor(image, info) ==
  image # Null => image.of = info.id /\ ~info.force /\ Covered(info.id)

\* A task carries, in the position of each info, the image that was found, or
\* else the contents of the files of that ID.
FoundImages(t) ==
  /\ DOMAIN t.images = DOMAIN request[t.load]
  /\ \A k \in DOMAIN t.images : FoundFor(t.images[k], request[t.load][k])

FoundContents(t) ==
  /\ DOMAIN t.contents = DOMAIN request[t.load]
  /\ \A k \in DOMAIN t.contents :
       /\ FoundFor(t.contents[k].image, request[t.load][k])
       /\ t.contents[k].image = Null /\ request[t.load][k].id # EmptyId =>
            t.contents[k].of = request[t.load][k].id

TasksAreSound ==
  /\ \A t \in ToSet(uiTasks) :
       /\ t.do \in {"load", "update"}
       /\ request[t.load] # NoRequest /\ answers[t.load] = <<>>
       /\ t.do = "update" => FoundContents(t)
  /\ \A t \in ToSet(fileTasks) :
       /\ t.do = "missing"
       /\ request[t.load] # NoRequest /\ answers[t.load] = <<>>
       /\ FoundImages(t)

\* A load has not been made, has a task, or has been answered once.
LoadsAreSound ==
  \A l \in Load :
    /\ request[l] = NoRequest => answers[l] = <<>>
    /\ answers[l] # <<>> => Len(answers[l]) = 1
    /\ request[l] # NoRequest /\ answers[l] = <<>> =>
         \E t \in CacheTasks : t.load = l

MapIsSound == \A i \in DOMAIN image_map : MadeOf(image_map[i], i)

AnswerFor(image, info, l) ==
  /\ MadeOf(image, info.id)
  /\ image # Null /\ info.force => image.by = l
  /\ info.id # EmptyId => Covered(info.id)

AnswerIsSound(l) ==
  /\ DOMAIN answers[l][1] = DOMAIN request[l]
  /\ \A k \in DOMAIN request[l] : AnswerFor(answers[l][1][k], request[l][k], l)

AnswersAreSound == \A l \in Load : answers[l] # <<>> => AnswerIsSound(l)

CacheInvariant ==
  /\ CacheTypeOK
  /\ TasksAreDistinct /\ TasksAreSound
  /\ LoadsAreSound /\ MapIsSound /\ AnswersAreSound

----------------------------------------------------------------------------
(* Vectors, and what is in the tasks, the images and the requests. *)
LEMMA VectorOf ==
  ASSUME NEW S, NEW f
  PROVE  f \in Vector(S) <=> \E n \in 0..MaxImages : f \in [1..n -> S]
BY DEF Vector, SeqOf

LEMMA TaskFields ==
  ASSUME NEW t \in CacheTask
  PROVE  /\ t.load \in Load
         /\ t.do = "missing" => t.images \in Vector(Image)
         /\ t.do = "update" => t.contents \in Vector(Content)
BY DEF CacheTask

LEMMA ImageFields ==
  /\ Null \in Image
  /\ \A image \in Image : image # Null => image.of \in ImageId
  /\ \A l \in Load, c \in Content :
       c.of # EmptyId =>
         /\ CreateImage(l, c) \in Image
         /\ MadeOf(CreateImage(l, c), c.of)
         /\ CreateImage(l, c) # Null => CreateImage(l, c).by = l
<1>1. Null \in Image
  BY DEF Image
<1>2. \A image \in Image : image # Null => image.of \in ImageId
  BY DEF Image
<1>3. ASSUME NEW l \in Load, NEW c \in Content, c.of # EmptyId
      PROVE  /\ CreateImage(l, c) \in Image
             /\ MadeOf(CreateImage(l, c), c.of)
             /\ CreateImage(l, c) # Null => CreateImage(l, c).by = l
  <2>1. CASE c.reps = 0
    BY <1>1, <2>1 DEF CreateImage, MadeOf
  <2>2. CASE c.reps # 0
    <3>1. c.of \in ImageId /\ c.reps \in 1..Reps
      BY <1>3, <2>2, ImageCacheAssumption DEF Content
    <3>2. CreateImage(l, c) = [of |-> c.of, by |-> l, reps |-> c.reps]
      BY <2>2 DEF CreateImage
    <3> QED
      BY <3>1, <3>2 DEF Image, MadeOf
  <2> QED
    BY <2>1, <2>2
<1> QED
  BY <1>1, <1>2, <1>3

LEMMA RequestFields ==
  ASSUME NEW r \in Request \union {NoRequest}
  PROVE  /\ \E n \in 0..MaxImages : r \in [1..n -> Info]
         /\ \A k \in DOMAIN r : /\ r[k].id # EmptyId => r[k].id \in ImageId
                                /\ r[k].force => r[k].id # EmptyId
         /\ \A j, k \in DOMAIN r : r[j].id = r[k].id /\ r[j].id # EmptyId => j = k
         /\ Forced(r) \subseteq ImageId
<1>1. PICK n \in 0..MaxImages : r \in [1..n -> Info]
  <2>1. CASE r \in Request
    BY <2>1, VectorOf DEF Request
  <2>2. CASE r = NoRequest
    <3>1. r \in [1..0 -> Info] /\ 0 \in 0..MaxImages
      BY <2>2, ImageCacheAssumption DEF NoRequest
    <3> QED
      BY <3>1
  <2> QED
    BY <2>1, <2>2
<1>2. \A k \in DOMAIN r : /\ r[k].id # EmptyId => r[k].id \in ImageId
                          /\ r[k].force => r[k].id # EmptyId
  <2>1. \A info \in Info : /\ info.id # EmptyId => info.id \in ImageId
                           /\ info.force => info.id # EmptyId
    BY ImageCacheAssumption DEF Info
  <2> QED
    BY <1>1, <2>1
<1>3. \A j, k \in DOMAIN r : r[j].id = r[k].id /\ r[j].id # EmptyId => j = k
  <2>1. DOMAIN NoRequest = {}
    BY DEF NoRequest
  <2> QED
    BY <2>1 DEF Request
<1>4. Forced(r) \subseteq ImageId
  BY <1>2 DEF Forced
<1> QED
  BY <1>1, <1>2, <1>3, <1>4

(* Distinct queues stay so. *)
LEMMA DistinctAppend ==
  ASSUME NEW S, NEW q \in Seq(S), NEW m \in S, Distinct(q),
         \A t \in ToSet(q) : t.load # m.load
  PROVE  Distinct(Append(q, m))
<1>1. /\ Len(q) \in Nat /\ DOMAIN q = 1..Len(q)
      /\ DOMAIN Append(q, m) = 1..(Len(q) + 1)
      /\ \A i \in 1..Len(q) : Append(q, m)[i] = q[i]
      /\ Append(q, m)[Len(q) + 1] = m
  OBVIOUS
<1>2. \A i \in 1..Len(q) : q[i].load # m.load
  BY <1>1 DEF ToSet
<1>3. SUFFICES ASSUME NEW i \in 1..(Len(q) + 1), NEW j \in 1..(Len(q) + 1),
                      Append(q, m)[i].load = Append(q, m)[j].load
               PROVE  i = j
  BY <1>1 DEF Distinct
<1>4. CASE i \in 1..Len(q) /\ j \in 1..Len(q)
  BY <1>1, <1>3, <1>4 DEF Distinct
<1>5. CASE i \notin 1..Len(q) \/ j \notin 1..Len(q)
  <2>1. i = Len(q) + 1 \/ j = Len(q) + 1
    BY <1>1, <1>5
  <2>2. CASE i \in 1..Len(q)
    BY <1>1, <1>2, <1>3, <2>1, <2>2
  <2>3. CASE j \in 1..Len(q)
    BY <1>1, <1>2, <1>3, <2>1, <2>3
  <2> QED
    BY <1>1, <2>1, <2>2, <2>3
<1> QED
  BY <1>4, <1>5

LEMMA DistinctTail ==
  ASSUME NEW S, NEW q \in Seq(S), q # <<>>, Distinct(q)
  PROVE  /\ Distinct(Tail(q))
         /\ \A t \in ToSet(Tail(q)) : t.load # Head(q).load
<1>1. /\ Len(q) \in Nat \ {0} /\ DOMAIN q = 1..Len(q)
      /\ Tail(q) \in Seq(S)
      /\ DOMAIN Tail(q) = 1..(Len(q) - 1) /\ Head(q) = q[1]
      /\ \A i \in 1..(Len(q) - 1) : Tail(q)[i] = q[i + 1]
  OBVIOUS
<1>2. Distinct(Tail(q))
  <2>1. SUFFICES ASSUME NEW i \in 1..(Len(q) - 1), NEW j \in 1..(Len(q) - 1),
                        Tail(q)[i].load = Tail(q)[j].load
                 PROVE  i = j
    BY <1>1 DEF Distinct
  <2>2. i + 1 \in DOMAIN q /\ j + 1 \in DOMAIN q /\ q[i + 1].load = q[j + 1].load
    BY <1>1, <2>1
  <2>3. i + 1 = j + 1
    BY <2>2 DEF Distinct
  <2> QED
    BY <2>3
<1>3. ASSUME NEW i \in 1..(Len(q) - 1) PROVE Tail(q)[i].load # Head(q).load
  <2>1. i + 1 \in DOMAIN q /\ 1 \in DOMAIN q /\ i + 1 # 1
    BY <1>1
  <2> QED
    BY <1>1, <2>1 DEF Distinct
<1> QED
  BY <1>1, <1>2, <1>3 DEF ToSet

----------------------------------------------------------------------------
LEMMA CacheInitInvariant == CacheInit => CacheInvariant
<1> SUFFICES ASSUME CacheInit PROVE CacheInvariant
  OBVIOUS
<1>1. /\ uiTasks = <<>> /\ fileTasks = <<>>
      /\ uiTasks \in Seq(CacheTask) /\ fileTasks \in Seq(CacheTask)
      /\ ToSet(uiTasks) = {} /\ ToSet(fileTasks) = {}
      /\ DOMAIN uiTasks = {} /\ DOMAIN fileTasks = {}
  <2>1. ToSet(<<>>) = {} /\ <<>> \in Seq(CacheTask)
    BY EmptySet
  <2> QED
    BY <2>1 DEF CacheInit
<1>2. image_map \in [{} -> Image] /\ DOMAIN image_map = {}
  BY DEF CacheInit
<1>3. \A l \in Load : answers[l] = <<>> /\ request[l] = NoRequest
  BY DEF CacheInit
<1>4. CacheTypeOK
  <2>1. image_map \in UNION {[S -> Image] : S \in SUBSET ImageId}
    BY <1>2
  <2>2. <<>> \in Seq(Vector(Image))
    OBVIOUS
  <2>3. answers \in [Load -> Seq(Vector(Image))]
    BY <2>2 DEF CacheInit
  <2> QED
    BY <1>1, <2>1, <2>3 DEF CacheInit, CacheTypeOK
<1> QED
  BY <1>1, <1>2, <1>3, <1>4 DEF CacheInvariant, TasksAreDistinct, Distinct,
     TasksAreSound, LoadsAreSound, MapIsSound, AnswersAreSound

(* What a step leaves alone stays sound: no request is replaced, and IDs that
   are covered stay covered. *)
LEMMA SoundStays ==
  ASSUME CacheInvariant,
         \A l \in Load : request[l] # NoRequest => request'[l] = request[l],
         \A i \in ImageId : Covered(i) => Covered(i)'
  PROVE  /\ \A t \in CacheTask :
              /\ t.do = "missing" /\ request[t.load] # NoRequest
              /\ FoundImages(t)
              => FoundImages(t)'
         /\ \A t \in CacheTask :
              /\ t.do = "update" /\ request[t.load] # NoRequest
              /\ FoundContents(t)
              => FoundContents(t)'
         /\ \A l \in Load :
              /\ answers[l] # <<>> /\ answers'[l] = answers[l]
              => AnswerIsSound(l)'
<1>1. ASSUME NEW image \in Image, NEW info, FoundFor(image, info)
      PROVE  FoundFor(image, info)'
  BY <1>1, ImageFields DEF FoundFor
<1>2. ASSUME NEW t \in CacheTask, t.do = "missing", request[t.load] # NoRequest,
             FoundImages(t)
      PROVE  FoundImages(t)'
  <2>1. /\ request'[t.load] = request[t.load]
        /\ \A k \in DOMAIN t.images : t.images[k] \in Image
    BY <1>2, TaskFields, VectorOf
  <2> QED
    BY <1>1, <1>2, <2>1 DEF FoundImages
<1>3. ASSUME NEW t \in CacheTask, t.do = "update", request[t.load] # NoRequest,
             FoundContents(t)
      PROVE  FoundContents(t)'
  <2>1. PICK n \in 0..MaxImages : t.contents \in [1..n -> Content]
    BY <1>3, TaskFields, VectorOf
  <2>2. /\ request'[t.load] = request[t.load]
        /\ \A k \in DOMAIN t.contents : t.contents[k].image \in Image
    BY <1>3, <2>1, TaskFields DEF Content
  <2> QED
    BY <1>1, <1>3, <2>2 DEF FoundContents
<1>4. ASSUME NEW l \in Load, answers[l] # <<>>, answers'[l] = answers[l]
      PROVE  AnswerIsSound(l)'
  <2>1. AnswerIsSound(l) /\ request[l] # NoRequest
    BY <1>4 DEF CacheInvariant, AnswersAreSound, LoadsAreSound
  <2>2. request'[l] = request[l]
    BY <2>1
  <2>3. \A k \in DOMAIN request[l] : request[l][k].id # EmptyId => request[l][k].id \in ImageId
    <3>1. request[l] \in Request \union {NoRequest}
      BY DEF CacheInvariant, CacheTypeOK
    <3> QED
      BY <3>1, RequestFields
  <2>4. ASSUME NEW k \in DOMAIN request[l]
        PROVE  AnswerFor(answers[l][1][k], request[l][k], l)'
    BY <1>4, <2>1, <2>2, <2>3 DEF AnswerIsSound, AnswerFor, MadeOf
  <2> QED
    BY <1>4, <2>1, <2>2, <2>4 DEF AnswerIsSound
<1> QED
  BY <1>2, <1>3, <1>4

----------------------------------------------------------------------------
(* The steps *)

LEMMA FileChangesInvariant ==
  ASSUME CacheInvariant, NEW i \in ImageId, NEW n \in 0..Reps, FileChanges(i, n)
  PROVE  CacheInvariant'
<1>1. UNCHANGED <<image_map, request, uiTasks, fileTasks, answers>>
  BY DEF FileChanges
<1>2. CacheTypeOK'
  BY <1>1 DEF CacheInvariant, CacheTypeOK, FileChanges
<1> QED
  BY <1>1, <1>2 DEF CacheInvariant, TasksAreDistinct, TasksAreSound,
     LoadsAreSound, MapIsSound, AnswersAreSound, AnswerIsSound, AnswerFor,
     FoundImages, FoundContents, FoundFor, MadeOf, Covered, CacheTasks, Distinct

(* Contents pairs the infos and the images by position. *)
LEMMA ContentsAreFound ==
  ASSUME CacheInvariant, NEW t \in CacheTask, t.do = "missing",
         request[t.load] # NoRequest, FoundImages(t)
  PROVE  /\ Contents(request[t.load], t.images) \in Vector(Content)
         /\ \A u \in CacheTask :
              u.load = t.load /\ u.contents = Contents(request[t.load], t.images)
              => FoundContents(u)
<1>1. /\ t.load \in Load /\ request[t.load] \in Request \union {NoRequest}
      /\ t.images \in Vector(Image) /\ files \in [ImageId -> 0..Reps]
  BY TaskFields DEF CacheInvariant, CacheTypeOK
<1>2. PICK r \in Request \union {NoRequest} : r = request[t.load]
  BY <1>1
<1>3. PICK n \in 0..MaxImages : t.images \in [1..n -> Image]
  BY <1>1, VectorOf
<1>4. /\ DOMAIN t.images = 1..n /\ DOMAIN r = 1..n
      /\ \A k \in 1..n : FoundFor(t.images[k], r[k])
  BY <1>2, <1>3 DEF FoundImages
<1>5. PICK c : c = Contents(r, t.images)
  OBVIOUS
<1>6. /\ DOMAIN c = 1..n
      /\ c = [k \in 1..n |-> ContentFor(r[k].id, t.images[k])]
  BY <1>4, <1>5 DEF Contents
<1>7. ASSUME NEW k \in 1..n
      PROVE  /\ c[k] \in Content /\ c[k].image = t.images[k]
             /\ c[k].image = Null /\ r[k].id # EmptyId => c[k].of = r[k].id
  <2>1. c[k] = ContentFor(r[k].id, t.images[k]) /\ t.images[k] \in Image
    BY <1>3, <1>6
  <2>2. r[k].id # EmptyId => r[k].id \in ImageId
    BY <1>4, RequestFields
  <2>3. CASE t.images[k] # Null \/ r[k].id = EmptyId
    <3>1. c[k] = [image |-> t.images[k], of |-> EmptyId, reps |-> 0]
      BY <2>1, <2>3 DEF ContentFor
    <3> QED
      BY <2>1, <2>3, <3>1, ImageCacheAssumption DEF Content
  <2>4. CASE ~(t.images[k] # Null \/ r[k].id = EmptyId)
    <3>1. c[k] = [image |-> Null, of |-> r[k].id, reps |-> files[r[k].id]]
      BY <2>1, <2>4 DEF ContentFor
    <3> QED
      BY <1>1, <2>1, <2>2, <2>4, <3>1 DEF Content
  <2> QED
    BY <2>3, <2>4
<1>8. c \in Vector(Content)
  <2>1. c \in [1..n -> Content]
    BY <1>6, <1>7
  <2> QED
    BY <2>1, VectorOf
<1>9. ASSUME NEW u \in CacheTask, u.load = t.load, u.contents = c
      PROVE  FoundContents(u)
  BY <1>2, <1>4, <1>6, <1>7, <1>9 DEF FoundContents
<1> QED
  BY <1>2, <1>5, <1>8, <1>9

(* Reading the missing images moves a task from one thread to the other. *)
LEMMA LoadMissingInvariant ==
  ASSUME CacheInvariant, LoadMissing
  PROVE  CacheInvariant'
<1> USE DEF CacheInvariant
<1>1. /\ fileTasks # <<>> /\ fileTasks \in Seq(CacheTask) /\ uiTasks \in Seq(CacheTask)
      /\ fileTasks' = Tail(fileTasks)
      /\ UNCHANGED <<image_map, request, files, answers>>
  BY DEF LoadMissing, CacheTypeOK
<1>2. PICK t \in CacheTask : t = Head(fileTasks)
  BY <1>1, TailSet
<1>3. /\ t \in ToSet(fileTasks)
      /\ fileTasks' \in Seq(CacheTask)
      /\ ToSet(fileTasks) = {t} \union ToSet(fileTasks')
  BY <1>1, <1>2, TailSet
<1>4. /\ t.do = "missing" /\ request[t.load] # NoRequest
      /\ answers[t.load] = <<>> /\ FoundImages(t) /\ t.load \in Load
  BY <1>3, TaskFields DEF TasksAreSound
<1>5. PICK u \in CacheTask :
        /\ u.do = "update" /\ u.load = t.load /\ FoundContents(u)
        /\ uiTasks' = Append(uiTasks, u)
  <2> DEFINE c == Contents(request[t.load], t.images)
             x == [do |-> "update", load |-> t.load, contents |-> c]
  <2>1. c \in Vector(Content)
    BY <1>4, ContentsAreFound
  <2>2. uiTasks' = Append(uiTasks, x)
    BY <1>2 DEF LoadMissing
  <2>3. x \in CacheTask /\ x.do = "update" /\ x.load = t.load /\ x.contents = c
    <3> HIDE DEF c
    <3> QED
      BY <1>4, <2>1 DEF CacheTask
  <2>4. FoundContents(x)
    <3> HIDE DEF x
    <3> QED
      BY <1>4, <2>3, ContentsAreFound
  <2> QED
    BY <2>2, <2>3, <2>4
<1>6. /\ uiTasks' \in Seq(CacheTask)
      /\ ToSet(uiTasks') = ToSet(uiTasks) \union {u}
  BY <1>1, <1>5, AppendSet
<1>7. CacheTypeOK'
  BY <1>1, <1>3, <1>6 DEF CacheTypeOK
<1>8. TasksAreDistinct'
  <2>1. /\ Distinct(fileTasks')
        /\ \A x \in ToSet(fileTasks') : x.load # t.load
    BY <1>1, <1>2, DistinctTail DEF TasksAreDistinct
  <2>2. \A x \in ToSet(uiTasks) : x.load # t.load
    BY <1>3 DEF TasksAreDistinct
  <2>3. Distinct(uiTasks')
    <3>1. u.load = t.load /\ Distinct(uiTasks)
      BY <1>5 DEF TasksAreDistinct
    <3> QED
      BY <1>1, <1>5, <2>2, <3>1, DistinctAppend
  <2>4. \A x \in ToSet(uiTasks'), y \in ToSet(fileTasks') : x.load # y.load
    BY <1>3, <1>5, <1>6, <2>1, <2>2 DEF TasksAreDistinct
  <2> QED
    BY <2>1, <2>3, <2>4 DEF TasksAreDistinct, Distinct
<1>9. \A i \in ImageId : Covered(i) => Covered(i)'
  <2>1. \A x \in CacheTasks : \E y \in CacheTasks' : y.load = x.load
    BY <1>3, <1>5, <1>6 DEF CacheTasks
  <2> QED
    BY <1>1, <2>1 DEF Covered, Forced
<1>10. /\ \A x \in CacheTask : x.do = "missing" /\ request[x.load] # NoRequest /\ FoundImages(x)
            => FoundImages(x)'
       /\ \A x \in CacheTask : x.do = "update" /\ request[x.load] # NoRequest /\ FoundContents(x)
            => FoundContents(x)'
       /\ \A l \in Load : answers[l] # <<>> => AnswerIsSound(l)'
  <2>1. \A k \in Load : request'[k] = request[k] /\ answers'[k] = answers[k]
    BY <1>1
  <2> QED
    BY <1>9, <2>1, SoundStays
<1>11. TasksAreSound'
  <2>1. ASSUME NEW x \in ToSet(uiTasks')
        PROVE  /\ x.do \in {"load", "update"}
               /\ request'[x.load] # NoRequest /\ answers'[x.load] = <<>>
               /\ x.do = "update" => FoundContents(x)'
    <3>1. CASE x = u
      BY <1>1, <1>4, <1>5, <1>10, <3>1
    <3>2. CASE x \in ToSet(uiTasks)
      <4>1. x \in CacheTask
        BY <1>1, <3>2 DEF ToSet
      <4> QED
        BY <1>1, <1>10, <3>2, <4>1 DEF TasksAreSound
    <3> QED
      BY <1>6, <3>1, <3>2
  <2>2. ASSUME NEW x \in ToSet(fileTasks')
        PROVE  /\ x.do = "missing"
               /\ request'[x.load] # NoRequest /\ answers'[x.load] = <<>>
               /\ FoundImages(x)'
    <3>1. x \in ToSet(fileTasks) /\ x \in CacheTask
      BY <1>1, <1>3 DEF ToSet
    <3> QED
      BY <1>1, <1>10, <3>1 DEF TasksAreSound
  <2> QED
    BY <2>1, <2>2 DEF TasksAreSound
<1>12. LoadsAreSound'
  <2>1. \A x \in CacheTasks : \E y \in CacheTasks' : y.load = x.load
    BY <1>3, <1>5, <1>6 DEF CacheTasks
  <2> QED
    BY <1>1, <2>1 DEF LoadsAreSound
<1>13. MapIsSound'
  BY <1>1 DEF MapIsSound, MadeOf
<1>14. AnswersAreSound'
  BY <1>1, <1>10 DEF AnswersAreSound
<1> QED
  BY <1>7, <1>8, <1>11, <1>12, <1>13, <1>14

\* The n images for the infos r and the contents of task t: found ones, and
\* those made by its load.
Paired(t, r, n, images) ==
  /\ images = Images(t.load, r, t.contents)
  /\ DOMAIN r = 1..n /\ DOMAIN t.contents = 1..n
  /\ \A k \in 1..n :
       IF t.contents[k].image # Null \/ r[k].id = EmptyId
         THEN images[k] = t.contents[k].image /\ FoundFor(images[k], r[k])
         ELSE /\ MadeOf(images[k], r[k].id)
              /\ images[k] # Null => images[k].by = t.load

(* Images pairs the infos and the contents by position. *)
LEMMA ImagesAreMade ==
  ASSUME NEW t \in CacheTask, t.do = "update", FoundContents(t),
         NEW r, r = request[t.load]
  PROVE  \E n \in 0..MaxImages : \E images \in [1..n -> Image] : Paired(t, r, n, images)
<1>1. PICK n \in 0..MaxImages : t.contents \in [1..n -> Content]
  BY TaskFields, VectorOf
<1>2. /\ DOMAIN t.contents = 1..n /\ DOMAIN r = 1..n /\ t.load \in Load
      /\ \A k \in 1..n :
           /\ t.contents[k] \in Content /\ FoundFor(t.contents[k].image, r[k])
           /\ t.contents[k].image = Null /\ r[k].id # EmptyId =>
                t.contents[k].of = r[k].id
  BY <1>1, TaskFields DEF FoundContents
<1>3. PICK images : images = Images(t.load, r, t.contents)
  OBVIOUS
<1>4. images = [k \in 1..n |->
         IF t.contents[k].image # Null \/ r[k].id = EmptyId THEN t.contents[k].image
         ELSE CreateImage(t.load, t.contents[k])]
  BY <1>2, <1>3 DEF Images
<1>5. ASSUME NEW k \in 1..n
      PROVE  /\ images[k] \in Image
             /\ IF t.contents[k].image # Null \/ r[k].id = EmptyId
                  THEN images[k] = t.contents[k].image /\ FoundFor(images[k], r[k])
                  ELSE /\ MadeOf(images[k], r[k].id)
                       /\ images[k] # Null => images[k].by = t.load
  <2>1. CASE t.contents[k].image # Null \/ r[k].id = EmptyId
    <3>1. images[k] = t.contents[k].image
      BY <1>4, <2>1
    <3>2. t.contents[k].image \in Image
      BY <1>2 DEF Content
    <3> QED
      BY <1>2, <2>1, <3>1, <3>2
  <2>2. CASE ~(t.contents[k].image # Null \/ r[k].id = EmptyId)
    <3>1. images[k] = CreateImage(t.load, t.contents[k])
      BY <1>4, <2>2
    <3>2. t.contents[k] \in Content /\ t.contents[k].of = r[k].id
      BY <1>2, <2>2
    <3> QED
      BY <1>2, <2>2, <3>1, <3>2, ImageFields
  <2> QED
    BY <2>1, <2>2
<1>6. images \in [1..n -> Image]
  BY <1>4, <1>5
<1> QED
  BY <1>2, <1>3, <1>5, <1>6 DEF Paired

(* Entering the images ends a load with one run of its callback. *)
LEMMA UpdateCacheInvariant ==
  ASSUME CacheInvariant, UpdateCache
  PROVE  CacheInvariant'
<1> USE DEF CacheInvariant
<1>1. /\ uiTasks # <<>> /\ uiTasks \in Seq(CacheTask) /\ fileTasks \in Seq(CacheTask)
      /\ uiTasks' = Tail(uiTasks) /\ Head(uiTasks).do = "update"
      /\ UNCHANGED <<request, fileTasks, files>>
  BY DEF UpdateCache, CacheTypeOK
<1>2. PICK t \in CacheTask : t = Head(uiTasks)
  BY <1>1, TailSet
<1>3. /\ t \in ToSet(uiTasks) /\ t.do = "update"
      /\ uiTasks' \in Seq(CacheTask)
      /\ ToSet(uiTasks) = {t} \union ToSet(uiTasks')
  BY <1>1, <1>2, TailSet
<1>4. /\ request[t.load] # NoRequest
      /\ answers[t.load] = <<>> /\ FoundContents(t) /\ t.load \in Load
  BY <1>3, TaskFields DEF TasksAreSound
<1>5. PICK r \in Request \union {NoRequest} : r = request[t.load]
  BY <1>4 DEF CacheTypeOK
<1>6. PICK n \in 0..MaxImages :
        \E images \in [1..n -> Image] : Paired(t, r, n, images)
  <2> HIDE DEF CacheInvariant
  <2> QED
    BY <1>3, <1>4, <1>5, ImagesAreMade
<1>7. PICK images \in [1..n -> Image] : Paired(t, r, n, images)
  BY <1>6
<1>8. /\ images = Images(t.load, r, t.contents)
      /\ DOMAIN r = 1..n /\ DOMAIN t.contents = 1..n
      /\ \A k \in 1..n :
           IF t.contents[k].image # Null \/ r[k].id = EmptyId
             THEN images[k] = t.contents[k].image /\ FoundFor(images[k], r[k])
             ELSE /\ MadeOf(images[k], r[k].id)
                  /\ images[k] # Null => images[k].by = t.load
  BY <1>7 DEF Paired
<1> DEFINE new == {k \in DOMAIN images : t.contents[k].image = Null /\ r[k].id # EmptyId}
           ids == {r[k].id : k \in new}
<1>9. \A k \in 1..n : r[k].id # EmptyId => r[k].id \in ImageId
  BY <1>8, RequestFields
<1>10. PICK created \in [ids -> Image] :
        /\ image_map' = Overlay(image_map, created)
        /\ \A i \in ids : MadeOf(created[i], i)
  <2>1. PICK c : c = Created(r, t.contents, images)
    OBVIOUS
  <2>2. /\ image_map' = Overlay(image_map, c)
        /\ c = [i \in ids |-> images[CHOOSE k \in new : r[k].id = i]]
    <3>1. c = [i \in ids |-> images[CHOOSE k \in new : r[k].id = i]]
      BY <2>1 DEF Created
    <3>2. image_map' = Overlay(image_map, Created(r, t.contents, images))
      <4> HIDE DEF CacheInvariant
      <4> QED
        BY <1>2, <1>5, <1>8 DEF UpdateCache, Insert
    <3> QED
      BY <2>1, <3>1, <3>2
  <2>3. ASSUME NEW i \in ids PROVE c[i] \in Image /\ MadeOf(c[i], i)
    <3>1. \E k \in new : r[k].id = i
      OBVIOUS
    <3>2. PICK k \in new : k = (CHOOSE j \in new : r[j].id = i) /\ r[k].id = i
      BY <3>1
    <3>3. c[i] = images[k]
      BY <2>2, <3>2
    <3> QED
      BY <1>8, <3>2, <3>3
  <2>4. c \in [ids -> Image]
    BY <2>2, <2>3
  <2> QED
    BY <2>2, <2>3, <2>4
<1>11. PICK S \in SUBSET ImageId : image_map \in [S -> Image]
  BY DEF CacheTypeOK
<1>12. /\ image_map' \in [S \union ids -> Image]
       /\ \A i \in S : image_map'[i] = image_map[i]
       /\ \A i \in ids \ S : image_map'[i] = created[i]
       /\ ids \subseteq ImageId
  <2> HIDE DEF ids
  <2>1. /\ image_map' \in [S \union ids -> Image]
        /\ \A i \in S : image_map'[i] = image_map[i]
        /\ \A i \in ids \ S : image_map'[i] = created[i]
    BY <1>10, <1>11 DEF Overlay
  <2>2. ids \subseteq ImageId
    BY <1>9 DEF ids
  <2> QED
    BY <2>1, <2>2
<1>13. ASSUME NEW k \in 1..n, t.contents[k].image = Null, r[k].id # EmptyId
       PROVE  r[k].id \in DOMAIN image_map'
  <2>1. r[k].id \in ids
    BY <1>13
  <2> QED
    BY <1>12, <2>1
<1> HIDE DEF new, ids
<1>14. /\ answers \in [Load -> Seq(Vector(Image))]
       /\ answers'[t.load] = <<images>>
       /\ \A l \in Load \ {t.load} : answers'[l] = answers[l]
       /\ answers' \in [Load -> Seq(Vector(Image))]
  <2>1. images \in Vector(Image)
    BY VectorOf
  <2>2. answers \in [Load -> Seq(Vector(Image))]
    BY DEF CacheTypeOK
  <2>3. Append(<<>>, images) = <<images>> /\ <<images>> \in Seq(Vector(Image))
    BY <2>1
  <2>4. answers' = [answers EXCEPT ![t.load] = Append(@, images)]
    BY <1>2, <1>5, <1>8 DEF UpdateCache
  <2> QED
    BY <1>4, <2>2, <2>3, <2>4
<1>15. CacheTypeOK'
  <2>1. image_map' \in UNION {[R -> Image] : R \in SUBSET ImageId}
    BY <1>12
  <2> QED
    BY <1>1, <1>3, <1>14, <2>1 DEF CacheTypeOK
<1>16. \A x \in ToSet(uiTasks') \union ToSet(fileTasks) : x.load # t.load
  <2>1. \A x \in ToSet(uiTasks') : x.load # t.load
    BY <1>1, <1>2, DistinctTail DEF TasksAreDistinct
  <2> QED
    BY <1>3, <2>1 DEF TasksAreDistinct
<1>17. TasksAreDistinct'
  <2>1. Distinct(uiTasks')
    BY <1>1, DistinctTail DEF TasksAreDistinct
  <2> QED
    BY <1>1, <1>3, <2>1 DEF TasksAreDistinct, Distinct
<1>18. \A i \in ImageId : Covered(i) => Covered(i)'
  <2> SUFFICES ASSUME NEW i \in ImageId, Covered(i), i \notin DOMAIN image_map'
               PROVE  \E x \in CacheTasks' : i \in Forced(request'[x.load])
    BY DEF Covered
  <2>1. i \notin S
    BY <1>12
  <2>2. PICK x \in CacheTasks : i \in Forced(request[x.load])
    BY <1>11, <2>1 DEF Covered
  <2>3. x # t
    <3>1. SUFFICES ASSUME x = t PROVE FALSE
      OBVIOUS
    <3>2. PICK k \in 1..n : r[k].force /\ r[k].id = i
      BY <1>5, <1>8, <2>2, <3>1 DEF Forced
    <3>3. r[k].id # EmptyId
      BY <3>2, ImageCacheAssumption
    <3>4. t.contents[k].image # Null
      BY <1>13, <3>2, <3>3
    <3> QED
      BY <1>8, <3>2, <3>4 DEF FoundFor
  <2>4. x \in CacheTasks'
    BY <1>1, <1>3, <2>3 DEF CacheTasks
  <2> QED
    BY <1>1, <2>2, <2>4
<1>19. /\ \A x \in CacheTask : x.do = "missing" /\ request[x.load] # NoRequest /\ FoundImages(x)
            => FoundImages(x)'
       /\ \A x \in CacheTask : x.do = "update" /\ request[x.load] # NoRequest /\ FoundContents(x)
            => FoundContents(x)'
       /\ \A l \in Load : answers[l] # <<>> /\ answers'[l] = answers[l] => AnswerIsSound(l)'
  <2>1. \A k \in Load : request'[k] = request[k]
    BY <1>1
  <2> QED
    BY <1>18, <2>1, SoundStays
<1>20. TasksAreSound'
  <2>1. ASSUME NEW x \in ToSet(uiTasks') \union ToSet(fileTasks)
        PROVE  /\ x \in CacheTask /\ answers'[x.load] = answers[x.load]
               /\ request'[x.load] = request[x.load]
    <3>1. x \in CacheTask
      BY <1>1, <1>3 DEF ToSet
    <3>2. x.load \in Load \ {t.load}
      BY <1>16, <3>1, TaskFields
    <3> QED
      BY <1>1, <1>14, <3>1, <3>2
  <2>2. ASSUME NEW x \in ToSet(uiTasks')
        PROVE  /\ x.do \in {"load", "update"}
               /\ request'[x.load] # NoRequest /\ answers'[x.load] = <<>>
               /\ x.do = "update" => FoundContents(x)'
    BY <1>3, <1>19, <2>1 DEF TasksAreSound
  <2>3. ASSUME NEW x \in ToSet(fileTasks)
        PROVE  /\ x.do = "missing"
               /\ request'[x.load] # NoRequest /\ answers'[x.load] = <<>>
               /\ FoundImages(x)'
    BY <1>19, <2>1 DEF TasksAreSound
  <2> QED
    BY <1>1, <2>2, <2>3 DEF TasksAreSound
<1>21. LoadsAreSound'
  <2> SUFFICES ASSUME NEW l \in Load
               PROVE  /\ request'[l] = NoRequest => answers'[l] = <<>>
                      /\ answers'[l] # <<>> => Len(answers'[l]) = 1
                      /\ request'[l] # NoRequest /\ answers'[l] = <<>> =>
                           \E x \in CacheTasks' : x.load = l
    BY DEF LoadsAreSound
  <2>1. CASE l = t.load
    <3>1. answers'[l] # <<>> /\ Len(answers'[l]) = 1
      <4>1. <<images>> # <<>> /\ Len(<<images>>) = 1
        OBVIOUS
      <4> QED
        BY <1>14, <2>1, <4>1
    <3> QED
      BY <1>1, <1>4, <2>1, <3>1
  <2>2. CASE l # t.load
    <3>1. answers'[l] = answers[l] /\ request'[l] = request[l]
      BY <1>1, <1>14, <2>2
    <3>2. \A x \in CacheTasks : x.load = l => x \in CacheTasks'
      BY <1>1, <1>3, <2>2 DEF CacheTasks
    <3> QED
      BY <3>1, <3>2 DEF LoadsAreSound
  <2> QED
    BY <2>1, <2>2
<1>22. MapIsSound'
  <2> SUFFICES ASSUME NEW i \in S \union ids PROVE MadeOf(image_map[i], i)'
    BY <1>12 DEF MapIsSound
  <2>1. CASE i \in S
    BY <1>11, <1>12, <2>1 DEF MapIsSound, MadeOf
  <2>2. CASE i \in ids \ S
    BY <1>10, <1>12, <2>2 DEF MadeOf
  <2> QED
    BY <2>1, <2>2
<1>23. AnswerIsSound(t.load)'
  <2>1. answers'[t.load][1] = images /\ request'[t.load] = r
    BY <1>1, <1>5, <1>14
  <2>2. ASSUME NEW k \in 1..n
        PROVE  /\ MadeOf(images[k], r[k].id)
               /\ images[k] # Null /\ r[k].force => images[k].by = t.load
               /\ r[k].id # EmptyId => Covered(r[k].id)'
    <3>1. CASE t.contents[k].image # Null \/ r[k].id = EmptyId
      <4>1. FoundFor(images[k], r[k]) /\ images[k] = t.contents[k].image
        BY <1>8, <3>1
      <4>2. r[k].id # EmptyId => Covered(r[k].id)'
        BY <1>9, <1>18, <3>1, <4>1 DEF FoundFor
      <4> QED
        BY <4>1, <4>2 DEF FoundFor, MadeOf
    <3>2. CASE ~(t.contents[k].image # Null \/ r[k].id = EmptyId)
      BY <1>8, <1>13, <3>2 DEF Covered
    <3> QED
      BY <3>1, <3>2
  <2>3. DOMAIN images = 1..n /\ DOMAIN r = 1..n
    BY <1>8
  <2> QED
    BY <2>1, <2>2, <2>3 DEF AnswerIsSound, AnswerFor, MadeOf
<1>24. AnswersAreSound'
  <2> SUFFICES ASSUME NEW l \in Load, answers'[l] # <<>> PROVE AnswerIsSound(l)'
    BY DEF AnswersAreSound
  <2>1. CASE l = t.load
    BY <1>23, <2>1
  <2>2. CASE l # t.load
    BY <1>14, <1>19, <2>2
  <2> QED
    BY <2>1, <2>2
<1> QED
  BY <1>15, <1>17, <1>20, <1>21, <1>22, <1>24

(* Looking the images up, from a call on the UI thread or from the task of
   another one: q is what stays of the queue. *)
LEMMA LoadOnUIInvariant ==
  ASSUME CacheInvariant, NEW l \in Load, NEW r \in Request, NEW q,
         request' = [request EXCEPT ![l] = r], request[l] \in {NoRequest, r},
         answers[l] = <<>>,
         LoadOnUI(l, r, q), UNCHANGED files,
         q \in Seq(CacheTask), Distinct(q),
         ToSet(q) \subseteq ToSet(uiTasks),
         \A x \in ToSet(uiTasks) : x.load # l => x \in ToSet(q),
         \A x \in ToSet(q) \union ToSet(fileTasks) : x.load # l
  PROVE  CacheInvariant'
<1> USE DEF CacheInvariant
<1>1. /\ uiTasks \in Seq(CacheTask) /\ fileTasks \in Seq(CacheTask)
      /\ uiTasks' = q /\ request \in [Load -> Request \union {NoRequest}]
      /\ answers \in [Load -> Seq(Vector(Image))]
      /\ request'[l] = r /\ \A k \in Load \ {l} : request'[k] = request[k]
  BY DEF LoadOnUI, CacheTypeOK
<1>2. PICK n \in 0..MaxImages : r \in [1..n -> Info]
  BY RequestFields
<1>3. PICK S \in SUBSET ImageId : image_map \in [S -> Image]
  BY DEF CacheTypeOK
<1>4. PICK missing \in SUBSET (1..n) :
        /\ missing = Missing(r)
        /\ \A k \in 1..n : r[k].force => k \in missing
        /\ \A k \in (1..n) \ missing :
             r[k].id # EmptyId => ~r[k].force /\ r[k].id \in S
  <2>1. Missing(r) = {k \in 1..n : r[k].id # EmptyId /\ (r[k].force \/ r[k].id \notin S)}
    BY <1>2, <1>3 DEF Missing
  <2>2. \A k \in 1..n : r[k].force => r[k].id # EmptyId
    BY <1>2, RequestFields
  <2> QED
    BY <2>1, <2>2
<1>5. PICK images \in [1..n -> Image] :
        /\ \A k \in 1..n : images[k] # Null =>
             /\ ~r[k].force /\ r[k].id \in S
             /\ images[k] = image_map[r[k].id]
        /\ \A k \in 1..n : k \notin missing /\ r[k].id # EmptyId => r[k].id \in S
        /\ IF missing # {}
             THEN /\ fileTasks' = Append(fileTasks,
                        [do |-> "missing", load |-> l, images |-> images])
                  /\ answers' = answers
             ELSE /\ answers' = [answers EXCEPT ![l] = Append(@, images)]
                  /\ fileTasks' = fileTasks
  <2> DEFINE im == [k \in DOMAIN r |-> IF k \in missing \/ r[k].id = EmptyId THEN Null
                                       ELSE image_map[r[k].id]]
  <2>1. im \in [1..n -> Image]
    <3>1. \A k \in 1..n : im[k] \in Image
      BY <1>2, <1>3, <1>4, ImageFields
    <3> QED
      BY <1>2, <3>1
  <2>2. \A k \in 1..n : im[k] # Null =>
          ~r[k].force /\ r[k].id \in S /\ im[k] = image_map[r[k].id]
    BY <1>2, <1>4
  <2>3. IF missing # {}
          THEN /\ fileTasks' = Append(fileTasks,
                     [do |-> "missing", load |-> l, images |-> im])
               /\ answers' = answers
          ELSE /\ answers' = [answers EXCEPT ![l] = Append(@, im)]
               /\ fileTasks' = fileTasks
    BY <1>4 DEF LoadOnUI
  <2> QED
    BY <1>4, <2>1, <2>2, <2>3
<1>6. /\ image_map' \in [S \ Forced(r) -> Image]
      /\ \A i \in S \ Forced(r) : image_map'[i] = image_map[i]
  BY <1>3 DEF LoadOnUI, Restrict
<1>7. PICK m \in CacheTask :
        m.do = "missing" /\ m.load = l /\ m.images = images
        /\ (missing # {} => fileTasks' = Append(fileTasks, m))
  <2>1. images \in Vector(Image)
    BY VectorOf
  <2>2. [do |-> "missing", load |-> l, images |-> images] \in CacheTask
    BY <2>1 DEF CacheTask
  <2> QED
    BY <1>5, <2>2
<1>8. /\ fileTasks' \in Seq(CacheTask)
      /\ ToSet(fileTasks') = ToSet(fileTasks) \union (IF missing # {} THEN {m} ELSE {})
  <2>1. CASE missing # {}
    <3>1. fileTasks' = Append(fileTasks, m)
      BY <1>7, <2>1
    <3>2. ToSet(fileTasks') = ToSet(Append(fileTasks, m))
      BY <3>1, Zenon
    <3>3. /\ Append(fileTasks, m) \in Seq(CacheTask)
          /\ ToSet(Append(fileTasks, m)) = ToSet(fileTasks) \union {m}
      BY <1>1, AppendSet
    <3>4. (IF missing # {} THEN {m} ELSE {}) = {m}
      BY <2>1
    <3> QED
      BY <3>1, <3>2, <3>3, <3>4
  <2>2. CASE missing = {}
    <3>1. fileTasks' = fileTasks
      BY <1>5, <2>2
    <3>2. ToSet(fileTasks') = ToSet(fileTasks)
      BY <3>1, Zenon
    <3>3. (IF missing # {} THEN {m} ELSE {}) = {}
      BY <2>2
    <3>4. fileTasks' \in Seq(CacheTask)
      BY <1>1, <3>1
    <3> QED
      BY <3>2, <3>3, <3>4
  <2> QED
    BY <2>1, <2>2
<1>9. /\ \A k \in Load \ {l} : answers'[k] = answers[k]
      /\ missing # {} => answers'[l] = <<>>
      /\ missing = {} => answers'[l] = <<images>>
      /\ answers' \in [Load -> Seq(Vector(Image))]
  <2>1. images \in Vector(Image)
    BY VectorOf
  <2>2. Append(<<>>, images) = <<images>> /\ <<images>> \in Seq(Vector(Image))
    BY <2>1
  <2>3. CASE missing # {}
    BY <1>1, <1>5, <2>3
  <2>4. CASE missing = {}
    <3>1. answers' = [answers EXCEPT ![l] = <<images>>]
      BY <1>1, <1>5, <2>2, <2>4
    <3> QED
      BY <1>1, <2>2, <2>4, <3>1
  <2> QED
    BY <2>3, <2>4
<1>10. CacheTypeOK'
  <2>1. image_map' \in UNION {[R -> Image] : R \in SUBSET ImageId}
    BY <1>6
  <2>2. request' \in [Load -> Request \union {NoRequest}]
    BY <1>1
  <2> QED
    BY <1>1, <1>8, <1>9, <2>1, <2>2 DEF CacheTypeOK
<1>11. TasksAreDistinct'
  <2>1. Distinct(fileTasks')
    <3>1. CASE missing # {}
      <4>1. Distinct(fileTasks) /\ \A x \in ToSet(fileTasks) : x.load # m.load
        BY <1>7 DEF TasksAreDistinct
      <4>2. Distinct(Append(fileTasks, m))
        BY <1>1, <4>1, DistinctAppend
      <4> QED
        BY <1>7, <3>1, <4>2 DEF Distinct
    <3>2. CASE missing = {}
      BY <1>5, <3>2 DEF TasksAreDistinct, Distinct
    <3> QED
      BY <3>1, <3>2
  <2>2. Distinct(uiTasks')
    BY <1>1 DEF Distinct
  <2>3. \A x \in ToSet(uiTasks'), y \in ToSet(fileTasks') : x.load # y.load
    BY <1>1, <1>7, <1>8 DEF TasksAreDistinct
  <2> QED
    BY <2>1, <2>2, <2>3 DEF TasksAreDistinct
<1>12. \A i \in ImageId : Covered(i) => Covered(i)'
  <2> SUFFICES ASSUME NEW i \in ImageId, Covered(i), i \notin DOMAIN image_map'
               PROVE  \E x \in CacheTasks' : i \in Forced(request'[x.load])
    BY DEF Covered
  <2>1. CASE i \in Forced(r)
    <3>1. missing # {} /\ m \in CacheTasks'
      BY <1>2, <1>4, <1>8, <2>1 DEF CacheTasks, Forced
    <3> QED
      BY <1>1, <1>7, <2>1, <3>1
  <2>2. CASE i \notin Forced(r)
    <3>1. i \notin S
      BY <1>6, <2>2
    <3>2. PICK x \in CacheTasks : i \in Forced(request[x.load])
      BY <1>3, <3>1 DEF Covered
    <3>3. x \in CacheTask
      BY <1>1, <3>2 DEF CacheTasks, ToSet
    <3>4. x.load # l
      <4>1. Forced(NoRequest) = {}
        BY DEF Forced, NoRequest
      <4>2. i \notin Forced(request[l])
        BY <2>2, <4>1
      <4> QED
        BY <3>2, <4>2
    <3>5. x \in CacheTasks'
      BY <1>1, <1>8, <3>2, <3>4 DEF CacheTasks
    <3>6. x.load \in Load \ {l}
      BY <3>3, <3>4, TaskFields
    <3> QED
      BY <1>1, <3>2, <3>5, <3>6
  <2> QED
    BY <2>1, <2>2
<1>13. /\ \A x \in CacheTask : x.do = "missing" /\ request[x.load] # NoRequest /\ FoundImages(x)
            => FoundImages(x)'
       /\ \A x \in CacheTask : x.do = "update" /\ request[x.load] # NoRequest /\ FoundContents(x)
            => FoundContents(x)'
       /\ \A k \in Load : answers[k] # <<>> /\ answers'[k] = answers[k] => AnswerIsSound(k)'
  <2>1. \A k \in Load : request[k] # NoRequest => request'[k] = request[k]
    BY <1>1
  <2> QED
    BY <1>12, <2>1, SoundStays
<1>14. r # NoRequest
  BY DEF Request, NoRequest
<1>15. ASSUME NEW k \in 1..n, images[k] # Null
       PROVE  /\ images[k].of = r[k].id /\ ~r[k].force
              /\ r[k].id \in DOMAIN image_map'
  <2>1. /\ ~r[k].force /\ r[k].id \in S /\ images[k] = image_map[r[k].id]
    BY <1>5, <1>15
  <2>2. images[k].of = r[k].id
    BY <1>3, <1>15, <2>1 DEF MapIsSound, MadeOf
  <2>3. r[k].id \notin Forced(r)
    <3>1. r[k].id # EmptyId /\ DOMAIN r = 1..n
      BY <1>2, <2>1, ImageCacheAssumption
    <3>2. \A j \in 1..n : r[j].id = r[k].id => j = k
      BY <3>1, RequestFields
    <3> QED
      BY <2>1, <3>1, <3>2 DEF Forced
  <2> QED
    BY <1>6, <2>1, <2>2, <2>3
<1>16. FoundImages(m)'
  <2>1. DOMAIN images = 1..n /\ DOMAIN r = 1..n
    BY <1>2
  <2>2. \A k \in 1..n : FoundFor(images[k], r[k])'
    BY <1>15 DEF FoundFor, Covered
  <2> QED
    BY <1>1, <1>7, <2>1, <2>2 DEF FoundImages, FoundFor
<1>17. TasksAreSound'
  <2>1. ASSUME NEW x \in ToSet(q) \union ToSet(fileTasks)
        PROVE  /\ x \in CacheTask /\ answers'[x.load] = answers[x.load]
               /\ request'[x.load] = request[x.load]
    <3>1. x \in CacheTask
      BY <1>1 DEF ToSet
    <3>2. x.load \in Load \ {l}
      BY <3>1, TaskFields
    <3> QED
      BY <1>1, <1>9, <3>1, <3>2
  <2>2. ASSUME NEW x \in ToSet(uiTasks')
        PROVE  /\ x.do \in {"load", "update"}
               /\ request'[x.load] # NoRequest /\ answers'[x.load] = <<>>
               /\ x.do = "update" => FoundContents(x)'
    <3>1. x \in ToSet(q) /\ x \in ToSet(uiTasks)
      BY <1>1
    <3> QED
      BY <1>13, <2>1, <3>1 DEF TasksAreSound
  <2>3. ASSUME NEW x \in ToSet(fileTasks')
        PROVE  /\ x.do = "missing"
               /\ request'[x.load] # NoRequest /\ answers'[x.load] = <<>>
               /\ FoundImages(x)'
    <3>1. CASE x \in ToSet(fileTasks)
      BY <1>13, <2>1, <3>1 DEF TasksAreSound
    <3>2. CASE x \notin ToSet(fileTasks)
      <4>1. x = m /\ missing # {}
        BY <1>8, <2>3, <3>2
      <4> QED
        BY <1>1, <1>7, <1>9, <1>14, <1>16, <4>1
    <3> QED
      BY <3>1, <3>2
  <2> QED
    BY <2>2, <2>3 DEF TasksAreSound
<1>18. LoadsAreSound'
  <2> SUFFICES ASSUME NEW k \in Load
               PROVE  /\ request'[k] = NoRequest => answers'[k] = <<>>
                      /\ answers'[k] # <<>> => Len(answers'[k]) = 1
                      /\ request'[k] # NoRequest /\ answers'[k] = <<>> =>
                           \E x \in CacheTasks' : x.load = k
    BY DEF LoadsAreSound
  <2>1. CASE k = l
    <3>1. <<images>> # <<>> /\ Len(<<images>>) = 1
      OBVIOUS
    <3>2. missing # {} => m \in CacheTasks'
      BY <1>8 DEF CacheTasks
    <3> QED
      BY <1>1, <1>7, <1>9, <1>14, <2>1, <3>1, <3>2
  <2>2. CASE k # l
    <3>1. answers'[k] = answers[k] /\ request'[k] = request[k]
      BY <1>1, <1>9, <2>2
    <3>2. \A x \in CacheTasks : x.load = k => x \in CacheTasks'
      BY <1>1, <1>8, <2>2 DEF CacheTasks
    <3> QED
      BY <3>1, <3>2 DEF LoadsAreSound
  <2> QED
    BY <2>1, <2>2
<1>19. MapIsSound'
  BY <1>3, <1>6 DEF MapIsSound, MadeOf
<1>20. AnswersAreSound'
  <2> SUFFICES ASSUME NEW k \in Load, answers'[k] # <<>> PROVE AnswerIsSound(k)'
    BY DEF AnswersAreSound
  <2>1. CASE k # l
    BY <1>9, <1>13, <2>1
  <2>2. CASE k = l
    <3>1. missing = {} /\ answers'[l][1] = images
      BY <1>9, <2>2
    <3>2. ASSUME NEW p \in 1..n, r[p].id # EmptyId PROVE r[p].id \in DOMAIN image_map'
      <4>1. r[p].id \in S /\ \A j \in 1..n : ~r[j].force
        BY <1>4, <3>1, <3>2
      <4>2. Forced(r) = {}
        BY <1>2, <4>1 DEF Forced
      <4> QED
        BY <1>6, <4>1, <4>2
    <3>3. DOMAIN images = 1..n /\ DOMAIN r = 1..n
      BY <1>2
    <3> QED
      BY <1>1, <1>15, <2>2, <3>1, <3>2, <3>3
         DEF AnswerIsSound, AnswerFor, MadeOf, Covered
  <2> QED
    BY <2>1, <2>2
<1> QED
  BY <1>10, <1>11, <1>17, <1>18, <1>19, <1>20

LEMMA LoadImagesInvariant ==
  ASSUME CacheInvariant, NEW l \in Load, NEW r \in Request, LoadImages(l, r)
  PROVE  CacheInvariant'
<1> USE DEF CacheInvariant
<1>1. /\ uiTasks \in Seq(CacheTask) /\ fileTasks \in Seq(CacheTask)
      /\ request[l] = NoRequest /\ request' = [request EXCEPT ![l] = r]
      /\ request \in [Load -> Request \union {NoRequest}]
      /\ answers[l] = <<>> /\ UNCHANGED files
  BY DEF LoadImages, CacheTypeOK, LoadsAreSound
<1>2. \A x \in CacheTasks : x.load # l
  BY <1>1 DEF TasksAreSound, CacheTasks
<1>3. CASE LoadOnUI(l, r, uiTasks)
  <2>1. /\ Distinct(uiTasks)
        /\ \A x \in ToSet(uiTasks) \union ToSet(fileTasks) : x.load # l
    BY <1>2 DEF TasksAreDistinct, CacheTasks
  <2> QED
    BY <1>1, <1>3, <2>1, LoadOnUIInvariant
<1>4. CASE /\ uiTasks' = Append(uiTasks, [do |-> "load", load |-> l])
           /\ UNCHANGED <<image_map, fileTasks, answers>>
  <2>1. PICK m \in CacheTask :
          /\ m.do = "load" /\ m.load = l /\ uiTasks' = Append(uiTasks, m)
    <3>1. [do |-> "load", load |-> l] \in CacheTask
      BY DEF CacheTask
    <3> QED
      BY <1>4, <3>1
  <2>2. /\ uiTasks' \in Seq(CacheTask)
        /\ ToSet(uiTasks') = ToSet(uiTasks) \union {m}
    BY <1>1, <2>1, AppendSet
  <2>3. CacheTypeOK'
    BY <1>1, <1>4, <2>2 DEF CacheTypeOK
  <2>4. TasksAreDistinct'
    <3>1. Distinct(uiTasks) /\ \A x \in ToSet(uiTasks) : x.load # m.load
      BY <1>2, <2>1 DEF TasksAreDistinct, CacheTasks
    <3>2. Distinct(Append(uiTasks, m))
      BY <1>1, <3>1, DistinctAppend
    <3>3. \A x \in ToSet(fileTasks) : x.load # m.load
      BY <1>2, <2>1 DEF CacheTasks
    <3> QED
      BY <1>4, <2>1, <2>2, <3>2, <3>3 DEF TasksAreDistinct, Distinct
  <2>5. \A i \in ImageId : Covered(i) => Covered(i)'
    <3>1. ASSUME NEW x \in CacheTasks PROVE x \in CacheTasks' /\ request'[x.load] = request[x.load]
      <4>1. x \in CacheTask
        BY <1>1, <3>1 DEF CacheTasks, ToSet
      <4>2. x.load \in Load \ {l}
        BY <1>2, <3>1, <4>1, TaskFields
      <4> QED
        BY <1>1, <1>4, <2>2, <3>1, <4>2 DEF CacheTasks
    <3> QED
      BY <1>4, <3>1 DEF Covered
  <2>6. /\ \A x \in CacheTask : x.do = "missing" /\ request[x.load] # NoRequest /\ FoundImages(x)
             => FoundImages(x)'
        /\ \A x \in CacheTask : x.do = "update" /\ request[x.load] # NoRequest /\ FoundContents(x)
             => FoundContents(x)'
        /\ \A k \in Load : answers[k] # <<>> => AnswerIsSound(k)'
    <3>1. \A k \in Load : request[k] # NoRequest => request'[k] = request[k]
      BY <1>1
    <3> QED
      BY <1>4, <2>5, <3>1, SoundStays
  <2>7. r # NoRequest
    BY DEF Request, NoRequest
  <2>8. \A x \in CacheTasks : /\ x \in CacheTask
                              /\ request'[x.load] = request[x.load]
    <3> SUFFICES ASSUME NEW x \in CacheTasks
                 PROVE  x \in CacheTask /\ request'[x.load] = request[x.load]
      OBVIOUS
    <3>1. x \in CacheTask
      BY <1>1 DEF CacheTasks, ToSet
    <3>2. x.load \in Load \ {l}
      BY <1>2, <3>1, TaskFields
    <3> QED
      BY <1>1, <3>1, <3>2
  <2>9. TasksAreSound'
    <3>1. ASSUME NEW x \in ToSet(uiTasks')
          PROVE  /\ x.do \in {"load", "update"}
                 /\ request'[x.load] # NoRequest /\ answers'[x.load] = <<>>
                 /\ x.do = "update" => FoundContents(x)'
      <4>1. CASE x = m
        BY <1>1, <1>4, <2>1, <2>7, <4>1
      <4>2. CASE x \in ToSet(uiTasks)
        BY <1>4, <2>6, <2>8, <4>2 DEF TasksAreSound, CacheTasks
      <4> QED
        BY <2>2, <4>1, <4>2
    <3>2. ASSUME NEW x \in ToSet(fileTasks)
          PROVE  /\ x.do = "missing"
                 /\ request'[x.load] # NoRequest /\ answers'[x.load] = <<>>
                 /\ FoundImages(x)'
      BY <1>4, <2>6, <2>8 DEF TasksAreSound, CacheTasks
    <3> QED
      BY <1>4, <3>1, <3>2 DEF TasksAreSound
  <2>10. LoadsAreSound'
    <3> SUFFICES ASSUME NEW k \in Load
                 PROVE  /\ request'[k] = NoRequest => answers'[k] = <<>>
                        /\ answers'[k] # <<>> => Len(answers'[k]) = 1
                        /\ request'[k] # NoRequest /\ answers'[k] = <<>> =>
                             \E x \in CacheTasks' : x.load = k
      BY DEF LoadsAreSound
    <3>1. m \in CacheTasks' /\ CacheTasks \subseteq CacheTasks'
      BY <1>4, <2>2 DEF CacheTasks
    <3>2. CASE k = l
      BY <1>1, <1>4, <2>1, <2>7, <3>1, <3>2
    <3>3. CASE k # l
      BY <1>1, <1>4, <3>1, <3>3 DEF LoadsAreSound
    <3> QED
      BY <3>2, <3>3
  <2>11. MapIsSound'
    BY <1>4 DEF MapIsSound, MadeOf
  <2>12. AnswersAreSound'
    BY <1>4, <2>6 DEF AnswersAreSound
  <2> QED
    BY <2>3, <2>4, <2>9, <2>10, <2>11, <2>12
<1> QED
  BY <1>3, <1>4 DEF LoadImages

LEMMA LoadImagesTaskInvariant ==
  ASSUME CacheInvariant, LoadImagesTask
  PROVE  CacheInvariant'
<1> USE DEF CacheInvariant
<1>1. /\ uiTasks # <<>> /\ uiTasks \in Seq(CacheTask)
      /\ request \in [Load -> Request \union {NoRequest}]
      /\ UNCHANGED <<request, files>>
  BY DEF LoadImagesTask, CacheTypeOK
<1>2. PICK t \in CacheTask : t = Head(uiTasks)
  BY <1>1, TailSet
<1>3. /\ t \in ToSet(uiTasks) /\ Tail(uiTasks) \in Seq(CacheTask)
      /\ ToSet(uiTasks) = {t} \union ToSet(Tail(uiTasks))
  BY <1>1, <1>2, TailSet
<1>4. PICK l \in Load : l = t.load
  BY TaskFields
<1>5. /\ request[l] \in Request /\ answers[l] = <<>>
      /\ request' = [request EXCEPT ![l] = request[l]]
  BY <1>1, <1>3, <1>4 DEF TasksAreSound
<1>6. /\ Distinct(Tail(uiTasks))
      /\ \A x \in ToSet(Tail(uiTasks)) : x.load # l
  BY <1>1, <1>2, <1>4, DistinctTail DEF TasksAreDistinct
<1>7. \A x \in ToSet(fileTasks) : x.load # l
  BY <1>3, <1>4 DEF TasksAreDistinct
<1>8. LoadOnUI(l, request[l], Tail(uiTasks))
  BY <1>2, <1>4 DEF LoadImagesTask
<1>9. PICK r \in Request : r = request[l]
  BY <1>5
<1>10. PICK q \in Seq(CacheTask) : q = Tail(uiTasks)
  BY <1>3
<1> QED
  BY <1>1, <1>3, <1>4, <1>5, <1>6, <1>7, <1>8, <1>9, <1>10, LoadOnUIInvariant

LEMMA CacheStepInvariant ==
  ASSUME CacheInvariant, [CacheNext]_cacheVars
  PROVE  CacheInvariant'
<1>1. CASE \E l \in Load, r \in Request : LoadImages(l, r)
  BY <1>1, LoadImagesInvariant
<1>2. CASE \E i \in ImageId, n \in 0..Reps : FileChanges(i, n)
  BY <1>2, FileChangesInvariant
<1>3. CASE UNCHANGED cacheVars
  BY <1>3 DEF cacheVars, CacheInvariant, CacheTypeOK, TasksAreDistinct,
     Distinct, TasksAreSound, FoundImages, FoundContents, FoundFor,
     LoadsAreSound, MapIsSound, AnswersAreSound, AnswerIsSound, AnswerFor,
     MadeOf, Covered, CacheTasks
<1> QED
  BY <1>1, <1>2, <1>3, LoadImagesTaskInvariant, LoadMissingInvariant,
     UpdateCacheInvariant DEF CacheNext

----------------------------------------------------------------------------
LEMMA InProgressTasks ==
  ASSUME CacheInvariant, NEW l \in Load
  PROVE  InProgress(l) = {t \in CacheTasks : t.load = l}
<1>1. ToSet(uiTasks \o fileTasks) = CacheTasks
  BY ConcatSet DEF CacheInvariant, CacheTypeOK, CacheTasks
<1> QED
  BY <1>1 DEF InProgress

(* No two tasks of one load: distinct positions hold distinct loads. *)
LEMMA OneTaskPerLoad ==
  ASSUME CacheInvariant, NEW t \in CacheTasks, NEW u \in CacheTasks,
         t.load = u.load
  PROVE  t = u
<1>1. CASE t \in ToSet(uiTasks) /\ u \in ToSet(uiTasks)
  BY <1>1 DEF CacheInvariant, TasksAreDistinct, Distinct, ToSet
<1>2. CASE t \in ToSet(fileTasks) /\ u \in ToSet(fileTasks)
  BY <1>2 DEF CacheInvariant, TasksAreDistinct, Distinct, ToSet
<1>3. ~(t \in ToSet(uiTasks) /\ u \in ToSet(fileTasks))
      /\ ~(u \in ToSet(uiTasks) /\ t \in ToSet(fileTasks))
  BY DEF CacheInvariant, TasksAreDistinct
<1> QED
  BY <1>1, <1>2, <1>3 DEF CacheTasks

LEMMA InvariantRunsCallbackOnce == CacheInvariant => CallbackRunsOnce
<1> SUFFICES ASSUME CacheInvariant, NEW l \in Load
             PROVE  Len(answers[l]) + Cardinality(InProgress(l)) =
                      (IF request[l] = NoRequest THEN 0 ELSE 1)
  BY DEF CallbackRunsOnce
<1>1. answers[l] \in Seq(Vector(Image))
  BY DEF CacheInvariant, CacheTypeOK
<1>2. /\ request[l] = NoRequest => answers[l] = <<>>
      /\ answers[l] # <<>> => Len(answers[l]) = 1
      /\ request[l] # NoRequest /\ answers[l] = <<>> =>
           \E t \in CacheTasks : t.load = l
  BY DEF CacheInvariant, LoadsAreSound
<1>3. \A t \in CacheTasks : request[t.load] # NoRequest /\ answers[t.load] = <<>>
  BY DEF CacheInvariant, TasksAreSound, CacheTasks
<1>4. CASE request[l] = NoRequest \/ answers[l] # <<>>
  <2>1. InProgress(l) = {}
    BY <1>3, <1>4, InProgressTasks
  <2>2. Cardinality(InProgress(l)) = 0
    BY <2>1, FS_EmptySet
  <2>3. CASE request[l] = NoRequest
    <3>1. Len(answers[l]) = 0
      BY <1>2, <2>3
    <3> QED
      BY <2>2, <2>3, <3>1
  <2>4. CASE request[l] # NoRequest
    BY <1>2, <1>4, <2>2, <2>4
  <2> QED
    BY <2>3, <2>4
<1>5. CASE request[l] # NoRequest /\ answers[l] = <<>>
  <2>1. PICK t \in CacheTasks : t.load = l
    BY <1>2, <1>5
  <2>2. \A u \in CacheTasks : u.load = l => u = t
    BY <2>1, OneTaskPerLoad
  <2>3. InProgress(l) = {t}
    BY <2>1, <2>2, InProgressTasks
  <2>4. Cardinality(InProgress(l)) = 1
    BY <2>3, FS_Singleton
  <2>5. Len(answers[l]) = 0
    BY <1>5
  <2> QED
    BY <1>5, <2>4, <2>5
<1> QED
  BY <1>4, <1>5

(* LoadImages, LoadMissing and UpdateCache: the callback of every load runs
   exactly once, and the load is in one of the queues until it does, however
   many loads overlap and whichever files cannot be read. *)
THEOREM LoadsAreAnsweredOnce == CacheSpec => []CallbackRunsOnce
BY CacheInitInvariant, CacheStepInvariant, InvariantRunsCallbackOnce, PTL
DEF CacheSpec

LEMMA InvariantAnswersFromLoads ==
  CacheInvariant => AnsweredImagesAreCached /\ AnswersComeFromLoads
<1> SUFFICES ASSUME CacheInvariant
             PROVE  AnsweredImagesAreCached /\ AnswersComeFromLoads
  OBVIOUS
<1>1. ASSUME NEW l \in Load, answers[l] # <<>>, NEW i, Covered(i)
      PROVE  \/ i \in DOMAIN image_map
             \/ \E m \in Load : InProgress(m) # {} /\ i \in Forced(request[m])
  <2>2. CASE i \in DOMAIN image_map
    BY <2>2
  <2>3. CASE \E t \in CacheTasks : i \in Forced(request[t.load])
    <3>1. PICK t \in CacheTasks : i \in Forced(request[t.load])
      BY <2>3
    <3>2. t \in CacheTask
      <4>1. uiTasks \in Seq(CacheTask) /\ fileTasks \in Seq(CacheTask)
        BY DEF CacheInvariant, CacheTypeOK
      <4> QED
        BY <3>1, <4>1 DEF CacheTasks, ToSet
    <3>3. t.load \in Load
      BY <3>2, TaskFields
    <3>4. t \in InProgress(t.load)
      BY <3>1, <3>3, InProgressTasks
    <3> QED
      BY <3>1, <3>3, <3>4
  <2> QED
    BY <1>1, <2>2, <2>3 DEF Covered
<1>2. AnsweredImagesAreCached
  BY <1>1 DEF AnsweredImagesAreCached, CacheInvariant, AnswersAreSound,
     AnswerIsSound, AnswerFor
<1>3. AnswersComeFromLoads
  BY DEF AnswersComeFromLoads, CacheInvariant, AnswersAreSound, AnswerIsSound,
     AnswerFor, MapIsSound, MadeOf
<1> QED
  BY <1>2, <1>3

(* LoadImages, LoadMissing and UpdateCache hand a callback one image for each
   info, in their order, made of the files of that very ID and by its own load
   where it forced a reload; an entry stays behind for each of them unless a
   forced reload removed it again. *)
THEOREM AnswersAreSoundAndCached ==
  CacheSpec => [](AnsweredImagesAreCached /\ AnswersComeFromLoads)
BY CacheInitInvariant, CacheStepInvariant, InvariantAnswersFromLoads, PTL
DEF CacheSpec

LEMMA StepKeepsCachedImages ==
  ASSUME [CacheNext]_cacheVars,
         NEW i \in DOMAIN image_map \intersect DOMAIN image_map'
  PROVE  image_map'[i] = image_map[i]
<1>1. ASSUME NEW l, NEW r, NEW q, LoadOnUI(l, r, q)
      PROVE  image_map'[i] = image_map[i]
  <2>1. image_map' = [j \in DOMAIN image_map \ Forced(r) |-> image_map[j]]
    BY <1>1 DEF LoadOnUI, Restrict
  <2>2. i \in DOMAIN image_map \ Forced(r)
    BY <2>1
  <2> QED
    BY <2>1, <2>2
<1>2. CASE \E l \in Load, r \in Request : LoadImages(l, r)
  BY <1>1, <1>2 DEF LoadImages
<1>3. CASE LoadImagesTask
  BY <1>1, <1>3 DEF LoadImagesTask
<1>4. CASE UpdateCache
  <2>1. PICK created : image_map' = Insert(created)
    BY <1>4 DEF UpdateCache
  <2> QED
    BY <2>1 DEF Insert, Overlay
<1>5. CASE LoadMissing \/ (\E j \in ImageId, n \in 0..Reps : FileChanges(j, n))
           \/ UNCHANGED cacheVars
  BY <1>5 DEF LoadMissing, FileChanges, cacheVars
<1> QED
  BY <1>2, <1>3, <1>4, <1>5 DEF CacheNext

(* std::map::insert in UpdateCache: no step changes an entry that stays in the
   map, not even one that holds the failure of an earlier load. *)
THEOREM CachedImagesNeverChange == CacheSpec => CachedImageStays
<1>1. [CacheNext]_cacheVars =>
        [\A i \in DOMAIN image_map \intersect DOMAIN image_map' :
           image_map'[i] = image_map[i]]_cacheVars
  BY StepKeepsCachedImages
<1> QED
  BY <1>1, PTL DEF CacheSpec, CachedImageStays

============================================================================
