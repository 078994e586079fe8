------------------------ MODULE ComposerDraftsProofs ------------------------
(***************************************************************************)
(* The safety of the drafts, for any number of threads and any bounds.      *)
(***************************************************************************)
EXTENDS ComposerDrafts, TLAPS, FiniteSetTheorems

--------------------
(* The type of the state, more exactly than TypeOK has it.                  *)
Pieces == 1..spent.texts

\* No two images of a composer, or of a message, have one id.
ImageSets ==
    {images \in SUBSET [id : 1..spent.images, url : 0..urls] :
        \A i, j \in images : i.id = j.id => i = j}

Drafts == [text : SUBSET Pieces, images : ImageSets, persisted : SUBSET (1..spent.images)]
Stores == [drafts : [Threads -> Drafts], registered : SUBSET Threads,
           mapping : Threads \cup {None}]

Shown == [id : 1..spent.sends, mount : 1..mounts, text : SUBSET Pieces, images : ImageSets]
Received == [id : Nat, mount : Nat, text : SUBSET Nat]

SendFields == {"id", "thread", "mount", "first", "created", "answer", "step", "text",
               "images", "refsEmpty"}
ViewFields == {"route", "mount", "busy", "optimistic", "staging"}

SendTyped(s) ==
    /\ DOMAIN s = SendFields
    /\ s.id \in 1..spent.sends /\ s.mount \in 1..mounts /\ s.thread \in Threads
    /\ s.text \subseteq Pieces /\ s.images \in ImageSets
    /\ s.step \in {"create", "start", "delete"} /\ s.answer \in {"none", "ok", "error"}

Counted == setting \in Settings /\ spent \in [Kinds -> Nat] /\ mounts \in Nat /\ urls \in Nat

StoreTyped ==
    /\ store \in Stores /\ disk \in Stores
    /\ store.registered = IF store.mapping = None THEN {} ELSE {store.mapping}
    /\ disk.registered = IF disk.mapping = None THEN {} ELSE {disk.mapping}

ViewTyped ==
    /\ DOMAIN view = ViewFields
    /\ view.route \in Threads \cup {None} /\ view.mount \in 0..mounts
    /\ view.optimistic \subseteq Shown
    /\ view.mount # 0 => view.route # None
    /\ view.mount = 0 => view.optimistic = {}

\* One message at a time leaves a view, whose thread does not change.
SendsTyped ==
    /\ \A s \in sends : SendTyped(s) /\ (s.mount = view.mount => s.thread = view.route)
    /\ \A s, r \in sends : s.id = r.id \/ s.mount = r.mount => s = r

ServerTyped ==
    /\ server \in [threads : [Threads -> {"absent", "live", "deleted"}],
                   messages : [Threads -> Seq(Received)]]
    /\ \A t \in Threads : \A i \in DOMAIN server.messages[t] :
         /\ server.messages[t][i].id \in 1..spent.sends
         /\ server.messages[t][i].text \subseteq Pieces
    /\ known.live \subseteq Threads

Noted == excused \subseteq Pieces /\ revoked \subseteq 0..urls

Typed == Counted /\ StoreTyped /\ ViewTyped /\ SendsTyped /\ ServerTyped /\ Noted


--------------------
(* What keeps the text.                                                     *)
\* A message is the same in the call that sends it, in the view and on the server.
OneText ==
    /\ \A s \in sends, m \in view.optimistic : s.id = m.id => s.text = m.text
    /\ \A t \in Threads : \A i \in DOMAIN server.messages[t] :
         /\ \A s \in sends : s.id = server.messages[t][i].id => s.text = server.messages[t][i].text
         /\ \A m \in view.optimistic :
              m.id = server.messages[t][i].id => m.text = server.messages[t][i].text

\* A message on its way is shown, or was left, or is on the server.
Arrived == UNION {Accepted(t) : t \in Threads}
Backed ==
    \A s \in sends : \/ \E m \in view.optimistic : m.id = s.id
                     \/ s.text \subseteq excused \cup Arrived

\* A turn that was started has its message.
StartedIsThere ==
    \A s \in sends : s.step = "start" /\ s.answer = "ok" =>
        \E i \in DOMAIN server.messages[s.thread] :
            /\ server.messages[s.thread][i].id = s.id
            /\ server.messages[s.thread][i].text = s.text

TextInvariant == OneText /\ Backed /\ StartedIsThere /\ TextKept

\* Without a write that waits or was refused, localStorage has the drafts.
DiskCurrent ==
    \/ dirty \/ Refused
    \/ /\ disk.mapping = store.mapping
       /\ disk.registered = store.registered
       /\ \A t \in Threads : disk.drafts[t].text = store.drafts[t].text

--------------------
(* What keeps threads and drafts together.                                  *)
ThreadsThere ==
    /\ \A t \in known.live : server.threads[t] # "absent"
    /\ \A t \in Threads : server.messages[t] # << >> => server.threads[t] # "absent"

\* A thread whose text can not be reached keeps only text that is excused.
Placed(t) ==
    \/ t \in store.registered \/ server.threads[t] = "live" \/ Outdated
    \/ server.threads[t] = "deleted" /\ server.messages[t] # << >>
    \/ /\ store.drafts[t].text \subseteq excused
       /\ \A s \in sends : s.thread = t => s.text \subseteq excused

\* A send that is to make its thread, or has made it.
Creates(s) == s.step = "create" \/ s.created

\* What such a send may rely on.
CreatorsSound ==
    \A s \in sends :
        /\ Creates(s) => \/ s.thread \in store.registered
                         \/ server.messages[s.thread] # << >>
                         \/ server.threads[s.thread] = "deleted"
        /\ s.created \/ (s.step = "create" /\ s.answer = "ok") => server.threads[s.thread] # "absent"
        /\ s.step = "create" => ~s.created
        /\ s.step = "delete" => s.created
        /\ s.step = "delete" /\ s.answer = "ok" => server.threads[s.thread] = "deleted"

\* The failures behind a clean-up: the command that started the turn was lost, and
\* so was the one that deletes the thread if it failed as well.
FailuresCounted ==
    spent.unanswered > 0 \/ \A s \in sends :
        /\ s.created /\ s.step = "start" /\ s.answer = "error" => spent.lost > 0
        /\ s.step = "delete" => spent.lost > 0
        /\ s.step = "delete" /\ s.answer = "error" => spent.lost > 1

\* An empty thread has a send that made it.
EmptyHasCreator ==
    \A t \in Threads :
        server.threads[t] = "live" /\ server.messages[t] = << >> =>
            \/ \E s \in sends : s.thread = t /\ (s.created \/ (s.step = "create" /\ s.answer = "ok"))
            \/ spent.lost > 1 \/ spent.unanswered > 0 \/ spent.reloads > 0

ThreadsInvariant ==
    /\ ThreadsThere
    /\ \A t \in Threads : Placed(t)
    /\ CreatorsSound
    /\ FailuresCounted
    /\ EmptyHasCreator

--------------------
(* What keeps previews.                                                     *)
\* A blob URL belongs to one image of one composer, or to one message that is shown.
OneOwner ==
    /\ \A t, u \in Threads : \A i \in store.drafts[t].images, j \in store.drafts[u].images :
         i.url = j.url /\ i.url # 0 => t = u /\ i = j
    /\ \A t \in Threads : \A i \in store.drafts[t].images, m \in view.optimistic :
         \A j \in m.images : i.url = j.url => i.url = 0
    /\ \A m, n \in view.optimistic : \A i \in m.images, j \in n.images :
         i.url = j.url /\ i.url # 0 => m = n

PreviewsInvariant == OneOwner /\ PreviewsValid

--------------------
(* What keeps messages single and in order.                                 *)
\* A piece of text is in one place, and a message on its way is on the server only
\* if its turn was started.
Apart ==
    /\ \A t, u \in Threads : t # u => store.drafts[t].text \cap store.drafts[u].text = {}
    /\ \A t \in Threads, s \in sends : store.drafts[t].text \cap s.text = {}
    /\ \A s, r \in sends : s # r => s.text \cap r.text = {}
    /\ \A t \in Threads : \A i \in DOMAIN server.messages[t] :
         /\ \A u \in Threads : store.drafts[u].text \cap server.messages[t][i].text = {}
         /\ \A s \in sends : s.text \cap server.messages[t][i].text # {} =>
                s.step = "start" /\ s.answer = "ok"

\* That is so as long as no answer and no write was lost.
OnePlace == Repeats \/ Apart

\* A message on its way is the last of its view.
LastOfView ==
    \A s \in sends, t \in Threads : \A i \in DOMAIN server.messages[t] :
        server.messages[t][i].mount = s.mount =>
            \/ server.messages[t][i].id < s.id
            \/ /\ server.messages[t][i].id = s.id
               /\ s.step = "delete" \/ (s.step = "start" /\ s.answer # "none")

OrderInvariant == OnePlace /\ LastOfView /\ SentOnce /\ SentInOrder

--------------------
(* Lemmas about the operators.                                              *)
LEMMA TypedImplies == Typed => TypeOK
 BY DEF Typed, Counted, StoreTyped, ViewTyped, SendsTyped, SendTyped, ServerTyped, Noted, TypeOK,
     Stores, Pieces, Mounted

(* Nothing is forgotten of how much was spent, made or mounted.             *)
Grown ==
    /\ Counted /\ Counted'
    /\ \A k \in Kinds : spent[k] <= spent'[k]
    /\ mounts <= mounts' /\ urls <= urls'

LEMMA FaultsGrow ==
  ASSUME Grown
  PROVE /\ Refused => Refused'
        /\ Outdated => Outdated'
        /\ Repeats => Repeats'
 BY DEF Grown, Counted, Kinds, Refused, Outdated, Repeats

LEMMA SpendIs ==
  ASSUME Counted, NEW k \in Kinds, Spend(k)
  PROVE /\ spent' \in [Kinds -> Nat]
        /\ spent'[k] = spent[k] + 1
        /\ \A l \in Kinds : l # k => spent'[l] = spent[l]
 BY DraftsAssumption DEF Spend, Counted, DraftsAssumption

(* What was typed right stays so when the bounds grow.                      *)
LEMMA TypesGrow ==
  ASSUME Grown
  PROVE /\ Pieces \subseteq Pieces'
        /\ ImageSets \subseteq ImageSets'
        /\ Drafts \subseteq Drafts'
        /\ Stores \subseteq Stores'
        /\ Shown \subseteq Shown'
        /\ \A s : SendTyped(s) => SendTyped(s)'
<1>1. Pieces \subseteq Pieces' /\ 1..spent.images \subseteq 1..spent'.images
      /\ 0..urls \subseteq 0..urls' /\ 1..spent.sends \subseteq 1..spent'.sends
      /\ 1..mounts \subseteq 1..mounts'
 BY DEF Grown, Counted, Pieces, Kinds
<1>2. ImageSets \subseteq ImageSets' BY <1>1 DEF ImageSets
<1>3. Drafts \subseteq Drafts' BY <1>1, <1>2 DEF Drafts
<1>4. Stores \subseteq Stores' BY <1>3 DEF Stores
<1>5. Shown \subseteq Shown' BY <1>1, <1>2 DEF Shown
<1>6. \A s : SendTyped(s) => SendTyped(s)' BY <1>1, <1>2 DEF SendTyped
<1> QED BY <1>1, <1>2, <1>3, <1>4, <1>5, <1>6

(* Images with ids of their own are finitely many.                          *)
LEMMA ImagesFinite ==
  ASSUME Counted, NEW images \in ImageSets PROVE IsFiniteSet(images)
<1> DEFINE number == [i \in images |-> i.id]
<1>1. spent.images \in Nat BY DEF Counted, Kinds
<1>2. \A i \in images : i.id \in 1..spent.images BY DEF ImageSets
<1>3. number \in [images -> 1..spent.images] BY <1>2
<1>4. \A i, j \in images : number[i] = number[j] => i = j BY DEF ImageSets
<1>5. number \in Injection(images, 1..spent.images) BY <1>3, <1>4 DEF Injection, IsInjective
<1>6. IsFiniteSet(1..spent.images) BY <1>1, FS_Interval
<1> QED BY <1>5, <1>6, FS_Injection

(* The clones of images have URLs of their own, made now.                   *)
LEMMA ClonedIs ==
  ASSUME Counted, NEW images \in ImageSets
  PROVE /\ Cardinality(images) \in Nat
        /\ \A c \in Cloned(images) :
             /\ c \in [id : 1..spent.images, url : 0..urls + Cardinality(images)]
             /\ c.url # 0 => c.url > urls
             /\ \E i \in images : i.id = c.id
        /\ \A c, d \in Cloned(images) : c.id = d.id \/ (c.url = d.url /\ c.url # 0) => c = d
        /\ Cardinality(Cloned(images)) = Cardinality(images)
<1> DEFINE upto(i) == {j \in images : j.id <= i.id}
           clone(i) == [i EXCEPT !.url = IF @ = 0 THEN 0 ELSE urls + Cardinality(upto(i))]
<1>1. IsFiniteSet(images) BY ImagesFinite
<1>2. Cardinality(images) \in Nat BY <1>1, FS_CardinalityType
<1>3. \A i \in images : i \in [id : 1..spent.images, url : 0..urls] BY DEF ImageSets
<1>4. urls \in Nat /\ spent.images \in Nat BY DEF Counted, Kinds
<1>5. ASSUME NEW i \in images
    PROVE  /\ upto(i) \in SUBSET images /\ IsFiniteSet(upto(i))
           /\ Cardinality(upto(i)) \in 1..Cardinality(images)
 <2>1. upto(i) \in SUBSET images /\ i \in upto(i) BY <1>3, <1>4
 <2>2. IsFiniteSet(upto(i)) /\ Cardinality(upto(i)) <= Cardinality(images)
  BY <1>1, <2>1, FS_Subset
 <2>3. Cardinality(upto(i)) \in Nat BY <2>2, FS_CardinalityType
 <2>4. Cardinality(upto(i)) # 0 BY <2>1, <2>2, FS_EmptySet
 <2> HIDE DEF upto
 <2> QED BY <1>2, <2>1, <2>2, <2>3, <2>4
<1>6. \A i \in images :
         /\ clone(i).id = i.id
         /\ clone(i).url = IF i.url = 0 THEN 0 ELSE urls + Cardinality(upto(i))
         /\ clone(i) = [id |-> clone(i).id, url |-> clone(i).url]
 <2> HIDE DEF upto
 <2> QED BY <1>3
<1>7. ASSUME NEW i \in images, NEW j \in images, Cardinality(upto(i)) = Cardinality(upto(j))
    PROVE  i = j
 <2>1. i.id \in Nat /\ j.id \in Nat BY <1>3
 <2>2. CASE i.id <= j.id
  <3>1. upto(i) \in SUBSET upto(j) BY <1>3, <2>1, <2>2
  <3>2. upto(i) = upto(j)
   <4> HIDE DEF upto
   <4> QED BY <3>1, <1>5, <1>7, FS_Subset
  <3>3. j \in upto(i) BY <3>2, <2>1
  <3> QED BY <3>3, <2>1, <2>2 DEF ImageSets
 <2>3. CASE j.id <= i.id
  <3>1. upto(j) \in SUBSET upto(i) BY <1>3, <2>1, <2>3
  <3>2. upto(i) = upto(j)
   <4> HIDE DEF upto
   <4> QED BY <3>1, <1>5, <1>7, FS_Subset
  <3>3. i \in upto(j) BY <3>2, <2>1
  <3> QED BY <3>3, <2>1, <2>3 DEF ImageSets
 <2> QED BY <2>1, <2>2, <2>3
<1>8. Cloned(images) = {clone(i) : i \in images} BY DEF Cloned
<1> HIDE DEF upto, clone
<1>9. \A c \in Cloned(images) :
         /\ c \in [id : 1..spent.images, url : 0..urls + Cardinality(images)]
         /\ c.url # 0 => c.url > urls
         /\ \E i \in images : i.id = c.id
 <2> SUFFICES ASSUME NEW i \in images
     PROVE  /\ clone(i) \in [id : 1..spent.images, url : 0..urls + Cardinality(images)]
            /\ clone(i).url # 0 => clone(i).url > urls
            /\ clone(i).id = i.id
  BY <1>8
 <2>1. clone(i).url \in 0..urls + Cardinality(images) /\ (clone(i).url # 0 => clone(i).url > urls)
  BY <1>2, <1>4, <1>5, <1>6
 <2>2. clone(i).id \in 1..spent.images BY <1>3, <1>6
 <2> QED BY <1>6, <2>1, <2>2
<1>10. ASSUME NEW i \in images, NEW j \in images,
              clone(i).id = clone(j).id \/ (clone(i).url = clone(j).url /\ clone(i).url # 0)
    PROVE  i = j
 <2>1. CASE clone(i).id = clone(j).id BY <2>1, <1>6 DEF ImageSets
 <2>2. CASE clone(i).url = clone(j).url /\ clone(i).url # 0
  <3>1. urls + Cardinality(upto(i)) = urls + Cardinality(upto(j)) BY <2>2, <1>6
  <3>2. Cardinality(upto(i)) = Cardinality(upto(j)) BY <3>1, <1>4, <1>5
  <3> QED BY <3>2, <1>7
 <2> QED BY <1>10, <2>1, <2>2
<1>11. Cardinality(Cloned(images)) = Cardinality(images)
 <2> DEFINE f == [i \in images |-> clone(i)]
 <2>1. f \in [images -> Cloned(images)] BY <1>8
 <2>2. \A i, j \in images : f[i] = f[j] => i = j BY <1>10
 <2>3. \A c \in Cloned(images) : \E i \in images : f[i] = c BY <1>8
 <2>4. f \in Bijection(images, Cloned(images))
  BY <2>1, <2>2, <2>3 DEF Bijection, Injection, Surjection, IsInjective
 <2> HIDE DEF f
 <2> QED BY <1>1, <2>4, FS_Bijection DEF ExistsBijection
<1> QED BY <1>2, <1>8, <1>9, <1>10, <1>11

(* Changing one draft, in full.                                             *)
LEMMA WithDraftIs ==
  ASSUME StoreTyped, NEW t \in Threads, NEW draft
  PROVE /\ WithDraft(t, draft).registered = store.registered
        /\ WithDraft(t, draft).mapping = store.mapping
        /\ \A u \in Threads : WithDraft(t, draft).drafts[u] = IF u = t THEN draft ELSE store.drafts[u]
        /\ draft \in Drafts => WithDraft(t, draft) \in Stores
 BY DEF StoreTyped, Stores, WithDraft

(* A draft whose thread is the draft thread takes no other's place.         *)
LEMMA MappedIs ==
  ASSUME StoreTyped, NEW t \in Threads, store.mapping \in {None, t}
  PROVE /\ Mapped(t) \in Stores
        /\ Mapped(t).registered = {t} /\ Mapped(t).mapping = t
        /\ Mapped(t).drafts = store.drafts
 BY DEF StoreTyped, Stores, Mapped

LEMMA UnregisteredIs ==
  ASSUME StoreTyped, NEW t \in Threads
  PROVE /\ Unregistered(t) \in Stores
        /\ Unregistered(t).registered = store.registered \ {t}
        /\ Unregistered(t).mapping = IF store.mapping = t THEN None ELSE store.mapping
        /\ Unregistered(t).drafts = store.drafts
 BY DEF StoreTyped, Stores, Unregistered

LEMMA EmptyDraftTyped == EmptyDraft \in Drafts
 BY DEF EmptyDraft, Drafts, ImageSets

(* What localStorage gets, and what a loaded page makes of it.              *)
LEMMA PartializedIs ==
  ASSUME StoreTyped
  PROVE /\ Partialized \in Stores
        /\ Partialized.mapping = store.mapping
        /\ Partialized.registered = store.registered
        /\ \A t \in Threads : Partialized.drafts[t].text = store.drafts[t].text
<1> DEFINE bare(t) == [store.drafts[t] EXCEPT !.images = {}]
<1>1. \A t \in Threads : bare(t) \in Drafts /\ bare(t).text = store.drafts[t].text
 BY DEF StoreTyped, Stores, Drafts, ImageSets
<1>2. Partialized = [store EXCEPT !.drafts = [t \in Threads |-> bare(t)]] BY DEF Partialized
<1> HIDE DEF bare
<1>3. /\ Partialized.drafts = [t \in Threads |-> bare(t)]
      /\ Partialized.mapping = store.mapping /\ Partialized.registered = store.registered
      /\ Partialized \in Stores
 BY <1>1, <1>2 DEF StoreTyped, Stores
<1> QED BY <1>1, <1>3

LEMMA HydratedIs ==
  ASSUME Counted, NEW saved \in Stores
  PROVE /\ Hydrated(saved) \in Stores
        /\ Hydrated(saved).mapping = saved.mapping
        /\ Hydrated(saved).registered = saved.registered
        /\ \A t \in Threads :
             /\ Hydrated(saved).drafts[t].text = saved.drafts[t].text
             /\ \A i \in Hydrated(saved).drafts[t].images : i.url = 0
<1> DEFINE pictures(t) == {[id |-> i, url |-> 0] : i \in saved.drafts[t].persisted}
           full(t) == [saved.drafts[t] EXCEPT !.images = pictures(t)]
<1>1. \A t \in Threads : saved.drafts[t] \in Drafts BY DEF Stores
<1>2. \A t \in Threads : pictures(t) \in ImageSets
 <2> SUFFICES ASSUME NEW t \in Threads PROVE pictures(t) \in ImageSets OBVIOUS
 <2>1. saved.drafts[t].persisted \subseteq 1..spent.images /\ 0 \in 0..urls
  BY <1>1 DEF Drafts, Counted
 <2> QED BY <2>1 DEF ImageSets
<1> HIDE DEF pictures
<1>3. \A t \in Threads : /\ full(t) \in Drafts
                         /\ full(t).text = saved.drafts[t].text
                         /\ full(t).images = pictures(t)
 BY <1>1, <1>2 DEF Drafts
<1>4. Hydrated(saved) = [saved EXCEPT !.drafts = [t \in Threads |-> full(t)]]
 BY DEF Hydrated, pictures
<1> HIDE DEF full
<1>5. /\ Hydrated(saved).drafts = [t \in Threads |-> full(t)]
      /\ Hydrated(saved).mapping = saved.mapping /\ Hydrated(saved).registered = saved.registered
      /\ Hydrated(saved) \in Stores
 BY <1>3, <1>4 DEF Stores
<1> QED BY <1>3, <1>5 DEF pictures

(* Two records of one send, but for what it may learn of its composer.      *)
Alike(r, s) ==
    /\ DOMAIN r = SendFields /\ r.id = s.id /\ r.thread = s.thread /\ r.mount = s.mount
    /\ r.first = s.first /\ r.created = s.created /\ r.step = s.step /\ r.answer = s.answer
    /\ r.text = s.text /\ r.images = s.images

\* The sends are the same.
SendsKept ==
    /\ \A r \in sends' : \E s \in sends : Alike(r, s)
    /\ \A s \in sends : \E r \in sends' : Alike(r, s)
    /\ \A r, s \in sends' : r.id = s.id \/ r.mount = s.mount => r = s

LEMMA UnchangedKept ==
  ASSUME SendsTyped, sends' = sends PROVE SendsKept
 BY DEF SendsTyped, SendTyped, SendsKept, Alike

LEMMA LeftKept ==
  ASSUME SendsTyped, NEW mount, NEW empty,
    sends' = {IF s.mount = mount THEN [s EXCEPT !.refsEmpty = empty] ELSE s : s \in sends}
  PROVE SendsKept
<1> DEFINE left(s) == IF s.mount = mount THEN [s EXCEPT !.refsEmpty = empty] ELSE s
<1>1. \A s \in sends : Alike(left(s), s) BY DEF SendsTyped, SendTyped, Alike, SendFields
<1>2. sends' = {left(s) : s \in sends} OBVIOUS
<1> HIDE DEF left
<1>3. ASSUME NEW r \in sends', NEW s \in sends', r.id = s.id \/ r.mount = s.mount
    PROVE  r = s
 <2>1. PICK q \in sends : r = left(q) BY <1>2
 <2>2. PICK p \in sends : s = left(p) BY <1>2
 <2>3. q.id = p.id \/ q.mount = p.mount BY <1>1, <1>3, <2>1, <2>2 DEF Alike
 <2> QED BY <2>1, <2>2, <2>3 DEF SendsTyped
<1> QED BY <1>1, <1>2, <1>3 DEF SendsKept

(* Leaving a view.                                                          *)
LEMMA UnmountIs ==
  ASSUME SendsTyped, NEW route, Unmount(route)
  PROVE /\ SendsKept
        /\ view'.route = route /\ view'.mount = 0 /\ view'.optimistic = {}
        /\ DOMAIN view' = ViewFields
        /\ revoked' = revoked \cup UNION {Urls(message.images) : message \in view.optimistic}
        /\ excused' = excused \cup Texts(view.optimistic)
<1>1. SendsKept BY LeftKept DEF Unmount
<1> QED BY <1>1 DEF Unmount, ViewFields

(* One send goes on.                                                        *)
Steps(s, r) ==
    /\ sends' = (sends \ {s}) \cup {r}
    /\ DOMAIN r = SendFields /\ r.id = s.id /\ r.thread = s.thread /\ r.mount = s.mount
    /\ r.first = s.first /\ r.text = s.text /\ r.images = s.images

--------------------
(* Typing.                                                                  *)
LEMMA StoreStays ==
  ASSUME StoreTyped, Grown, store' = store, disk' = disk PROVE StoreTyped'
 BY TypesGrow DEF StoreTyped

LEMMA ViewStays ==
  ASSUME ViewTyped, Grown, view' = view PROVE ViewTyped'
<1>1. 0..mounts \subseteq 0..mounts' BY DEF Grown, Counted
<1> QED BY <1>1, TypesGrow DEF ViewTyped

LEMMA SendsStay ==
  ASSUME SendsTyped, Grown, SendsKept,
    \/ view'.mount = view.mount /\ view'.route = view.route
    \/ view'.mount \notin 1..mounts
  PROVE SendsTyped'
<1>1. ASSUME NEW r \in sends'
    PROVE  SendTyped(r)' /\ (r.mount = view'.mount => r.thread = view'.route)
 <2>1. PICK s \in sends : Alike(r, s) BY DEF SendsKept
 <2>2. SendTyped(s) /\ (s.mount = view.mount => s.thread = view.route) BY DEF SendsTyped
 <2>3. SendTyped(r) BY <2>1, <2>2 DEF Alike, SendTyped
 <2>4. r.mount = view'.mount => r.thread = view'.route BY <2>1, <2>2 DEF Alike, SendTyped
 <2> QED BY <2>3, <2>4, TypesGrow
<1> QED BY <1>1 DEF SendsTyped, SendsKept

LEMMA ServerStays ==
  ASSUME ServerTyped, Grown, server' = server, known'.live \subseteq Threads PROVE ServerTyped'
<1>1. Pieces \subseteq Pieces' /\ 1..spent.sends \subseteq 1..spent'.sends
 BY TypesGrow DEF Grown, Counted, Kinds
<1> QED BY <1>1 DEF ServerTyped

LEMMA NotesStay ==
  ASSUME Noted, Grown, excused' \subseteq Pieces', revoked' = revoked PROVE Noted'
 BY DEF Noted, Grown, Counted

LEMMA SpendGrows ==
  ASSUME Counted, NEW k \in Kinds, Spend(k), setting' = setting,
    mounts' \in Nat, urls' \in Nat, mounts <= mounts', urls <= urls'
  PROVE Grown
<1>1. /\ spent' \in [Kinds -> Nat] /\ spent'[k] = spent[k] + 1
      /\ \A l \in Kinds : l # k => spent'[l] = spent[l]
 BY SpendIs
<1>2. \A l \in Kinds : spent[l] <= spent'[l] BY <1>1 DEF Counted
<1> QED BY <1>1, <1>2 DEF Grown, Counted

LEMMA StaysGrown ==
  ASSUME Counted, spent' = spent, setting' = setting, mounts' \in Nat, urls' \in Nat,
    mounts <= mounts', urls <= urls'
  PROVE Grown
 BY DEF Grown, Counted

LEMMA Ordered == Counted => mounts <= mounts /\ urls <= urls
 BY DEF Counted

(* A view that was left has a route, no message and no images to stage.     *)
LEMMA UnmountTyped ==
  ASSUME Typed, Grown, NEW route \in Threads \cup {None}, Unmount(route)
  PROVE ViewTyped' /\ SendsTyped' /\ Noted'
<1>1. /\ SendsKept
      /\ view'.route = route /\ view'.mount = 0 /\ view'.optimistic = {}
      /\ DOMAIN view' = ViewFields
      /\ revoked' = revoked \cup UNION {Urls(message.images) : message \in view.optimistic}
      /\ excused' = excused \cup Texts(view.optimistic)
 BY UnmountIs DEF Typed
<1>2. ViewTyped' BY <1>1 DEF ViewTyped, Grown, Counted
<1>3. SendsTyped' BY <1>1, SendsStay DEF Typed
<1>4. Texts(view.optimistic) \subseteq Pieces BY DEF Typed, ViewTyped, Shown, Texts
<1>5. UNION {Urls(message.images) : message \in view.optimistic} \subseteq 0..urls
 BY DEF Typed, ViewTyped, Shown, Urls, ImageSets
<1>6. excused' \subseteq Pieces' BY <1>1, <1>4, TypesGrow DEF Typed, Noted
<1>7. 0..urls \subseteq 0..urls' BY DEF Grown, Counted
<1>8. revoked' \subseteq 0..urls BY <1>1, <1>5 DEF Typed, Noted
<1> QED BY <1>2, <1>3, <1>6, <1>7, <1>8 DEF Noted

LEMMA GoTyped ==
  ASSUME Typed, Grown, NEW route \in Threads \cup {None}, Go(route)
  PROVE ViewTyped' /\ SendsTyped' /\ Noted'
<1>1. CASE Mounted BY <1>1, UnmountTyped DEF Go
<1>2. CASE ~Mounted
 <2>1. /\ view' = [view EXCEPT !.route = route] /\ view.mount = 0
       /\ revoked' = revoked /\ excused' = excused /\ sends' = sends
  BY <1>2 DEF Go, Mounted
 <2>2. /\ DOMAIN view' = ViewFields /\ view'.route = route /\ view'.mount = 0
       /\ view'.optimistic = view.optimistic
  BY <2>1 DEF Typed, ViewTyped, ViewFields
 <2>3. ViewTyped' BY <2>1, <2>2, TypesGrow DEF Typed, ViewTyped, Grown, Counted
 <2>4. SendsTyped' BY <2>1, <2>2, UnchangedKept, SendsStay DEF Typed
 <2>5. Noted' BY <2>1, NotesStay, TypesGrow DEF Typed, Noted
 <2> QED BY <2>3, <2>4, <2>5
<1> QED BY <1>1, <1>2

LEMMA RenderTyped ==
  ASSUME Typed, Render PROVE Grown /\ Typed'
<1>1. mounts' \in {mounts, mounts + 1} /\ mounts \in Nat BY DEF Render, Typed, Counted
<1>2. Grown BY <1>1, StaysGrown DEF Typed, Counted, Render
<1>3. StoreTyped' /\ ServerTyped' BY <1>2, StoreStays, ServerStays DEF Render, Typed, ServerTyped
<1>4. ViewTyped' /\ SendsTyped' /\ Noted'
 <2>1. CASE Mounted BY <2>1, <1>2, UnmountTyped DEF Render
 <2>2. CASE ~Mounted /\ Exists(view.route)
  <3>1. /\ view' = [view EXCEPT !.mount = mounts + 1, !.staging = TRUE] /\ mounts' = mounts + 1
        /\ revoked' = revoked /\ excused' = excused /\ sends' = sends /\ view.route # None
   BY <2>2 DEF Render, NeedsRender, Mounted
  <3>2. /\ DOMAIN view' = ViewFields /\ view'.route = view.route /\ view'.mount = mounts + 1
        /\ view'.optimistic = view.optimistic
   BY <3>1 DEF Typed, ViewTyped, ViewFields
  <3>3. ViewTyped' BY <1>1, <1>2, <3>1, <3>2, TypesGrow DEF Typed, ViewTyped
  <3>4. SendsTyped' BY <1>1, <1>2, <3>1, <3>2, UnchangedKept, SendsStay DEF Typed
  <3>5. Noted' BY <1>2, <3>1, NotesStay, TypesGrow DEF Typed, Noted
  <3> QED BY <3>3, <3>4, <3>5
 <2>3. CASE ~Mounted /\ ~Exists(view.route)
  <3>1. view' = [view EXCEPT !.route = None] /\ UNCHANGED <<revoked, excused, sends>>
   BY <2>3 DEF Render
  <3>2. Go(None) BY <2>3, <3>1 DEF Go
  <3> QED BY <3>2, <1>2, GoTyped
 <2> QED BY <2>1, <2>2, <2>3
<1> QED BY <1>2, <1>3, <1>4 DEF Typed, Grown

LEMMA WriteTyped ==
  ASSUME Typed, Write \/ WriteFails PROVE Grown /\ Typed'
<1>1. Grown BY Ordered, StaysGrown, SpendGrows DEF Typed, Counted, Write, WriteFails, Kinds
<1>2. StoreTyped'
 <2>1. CASE Write BY <1>1, <2>1, TypesGrow, PartializedIs DEF Write, Typed, StoreTyped
 <2>2. CASE WriteFails BY <1>1, <2>2, StoreStays DEF WriteFails, Typed
 <2> QED BY <2>1, <2>2
<1>3. SendsTyped' BY <1>1, UnchangedKept, SendsStay DEF Write, WriteFails, Typed
<1>4. ServerTyped' /\ ViewTyped' /\ Noted'
 BY <1>1, ServerStays, ViewStays, NotesStay, TypesGrow DEF Write, WriteFails, Typed, ServerTyped, Noted
<1> QED BY <1>1, <1>2, <1>3, <1>4 DEF Typed, Grown

LEMMA NavigateTyped ==
  ASSUME Typed, NEW route \in Threads \cup {None}, Navigate(route) PROVE Grown /\ Typed'
<1>1. Grown BY Ordered, SpendGrows DEF Typed, Counted, Navigate, Kinds
<1>2. StoreTyped' /\ ServerTyped'
 BY <1>1, StoreStays, ServerStays DEF Navigate, Typed, ServerTyped
<1>3. ViewTyped' /\ SendsTyped' /\ Noted' BY <1>1, GoTyped DEF Navigate
<1> QED BY <1>1, <1>2, <1>3 DEF Typed, Grown

(* The project's draft thread is the one that is opened.                    *)
LEMMA NewThreadMaps ==
  ASSUME StoreTyped, NEW t \in Threads, NewThread(t) PROVE store.mapping \in {None, t}
 BY DEF NewThread, StoreTyped

LEMMA NewThreadTyped ==
  ASSUME Typed, NEW t \in Threads, NewThread(t) PROVE Grown /\ Typed'
<1>1. Grown BY Ordered, SpendGrows DEF Typed, Counted, NewThread, Kinds
<1>2. store' = Mapped(t) /\ disk' = disk BY DEF NewThread, SetStore
<1>3. Mapped(t) \in Stores /\ Mapped(t).registered = {t} /\ Mapped(t).mapping = t
 BY NewThreadMaps, MappedIs DEF Typed
<1>4. t # None BY DraftsAssumption DEF DraftsAssumption
<1>5. StoreTyped' BY <1>1, <1>2, <1>3, <1>4, TypesGrow DEF Typed, StoreTyped
<1>6. ServerTyped' BY <1>1, ServerStays DEF NewThread, Typed, ServerTyped
<1>7. ViewTyped' /\ SendsTyped' /\ Noted' BY <1>1, GoTyped DEF NewThread
<1> QED BY <1>1, <1>5, <1>6, <1>7 DEF Typed, Grown

(* A step that changes the draft of one thread, and the view no more than   *)
(* in whether images wait to be staged.                                     *)
LEMMA DraftTyped ==
  ASSUME Typed, Grown, NEW t \in Threads, NEW draft \in Drafts',
    store' = WithDraft(t, draft), disk' = disk, sends' = sends, server' = server,
    known' = known, view'.mount = view.mount, view'.route = view.route,
    view'.optimistic = view.optimistic, DOMAIN view' = ViewFields
  PROVE StoreTyped' /\ ViewTyped' /\ SendsTyped' /\ ServerTyped'
<1>1. /\ WithDraft(t, draft).registered = store.registered
      /\ WithDraft(t, draft).mapping = store.mapping
      /\ \A u \in Threads : WithDraft(t, draft).drafts[u] = IF u = t THEN draft ELSE store.drafts[u]
 BY WithDraftIs DEF Typed
<1>2. \A u \in Threads : WithDraft(t, draft).drafts[u] \in Drafts'
 BY <1>1, TypesGrow DEF Typed, StoreTyped, Stores
<1>3. WithDraft(t, draft) = [store EXCEPT !.drafts = [@ EXCEPT ![t] = draft]] BY DEF WithDraft
<1>4. WithDraft(t, draft) \in [drafts : [Threads -> Drafts'], registered : SUBSET Threads,
                               mapping : Threads \cup {None}]
 BY <1>2, <1>3 DEF Typed, StoreTyped, Stores
<1>5. StoreTyped' BY <1>1, <1>4, TypesGrow DEF Typed, StoreTyped, Stores
<1>6. SendsTyped' BY UnchangedKept, SendsStay DEF Typed
<1>7. ServerTyped' BY ServerStays DEF Typed, ServerTyped
<1>8. 0..mounts \subseteq 0..mounts' BY DEF Grown, Counted
<1>9. ViewTyped' BY <1>8, TypesGrow DEF Typed, ViewTyped
<1> QED BY <1>5, <1>6, <1>7, <1>9

LEMMA DraftIs ==
  ASSUME Typed, Mounted PROVE view.route \in Threads /\ Draft \in Drafts
 BY DEF Typed, ViewTyped, StoreTyped, Stores, Mounted, Draft

LEMMA TypeTyped ==
  ASSUME Typed, Type PROVE Grown /\ Typed'
<1>1. Grown BY Ordered, SpendGrows DEF Typed, Counted, Type, Kinds
<1>2. spent'.texts = spent.texts + 1 /\ spent.texts \in Nat
 BY SpendIs DEF Type, Typed, Counted, Kinds
<1>3. view.route \in Threads /\ Draft \in Drafts' BY <1>1, DraftIs, TypesGrow DEF Type
<1>4. [Draft EXCEPT !.text = @ \cup {spent.texts + 1}] \in Drafts'
 BY <1>2, <1>3 DEF Drafts, Pieces
<1>5. StoreTyped' /\ ViewTyped' /\ SendsTyped' /\ ServerTyped'
 BY <1>1, <1>3, <1>4, DraftTyped DEF Type, SetStore, Typed, ViewTyped
<1>6. excused' \subseteq Pieces' BY <1>1, <1>2, TypesGrow DEF Type, Typed, Noted, Pieces
<1>7. Noted' BY <1>1, <1>6, NotesStay DEF Type, Typed
<1> QED BY <1>1, <1>5, <1>7 DEF Typed, Grown

LEMMA AttachTyped ==
  ASSUME Typed, Attach PROVE Grown /\ Typed'
<1>1. Grown BY Ordered, SpendGrows DEF Typed, Counted, Attach, Kinds
<1>2. spent'.images = spent.images + 1 /\ spent.images \in Nat /\ urls' = urls + 1 /\ urls \in Nat
 BY SpendIs DEF Attach, Typed, Counted, Kinds
<1>3. view.route \in Threads /\ Draft \in Drafts' /\ Draft.images \in ImageSets
      /\ Draft.images \in ImageSets'
 BY <1>1, DraftIs, TypesGrow DEF Attach, Drafts
<1>4. Draft.images \cup {[id |-> spent.images + 1, url |-> urls + 1]} \in ImageSets'
 BY <1>2, <1>3 DEF ImageSets
<1>5. [Draft EXCEPT !.images = @ \cup {[id |-> spent.images + 1, url |-> urls + 1]}] \in Drafts'
 BY <1>3, <1>4 DEF Drafts
<1>6. StoreTyped' /\ ViewTyped' /\ SendsTyped' /\ ServerTyped'
 BY <1>1, <1>3, <1>5, DraftTyped DEF Attach, SetStore, Typed, ViewTyped, ViewFields
<1>7. Noted' BY <1>1, NotesStay, TypesGrow DEF Attach, Typed, Noted
<1> QED BY <1>1, <1>6, <1>7 DEF Typed, Grown

LEMMA DetachTyped ==
  ASSUME Typed, Mounted, NEW image \in Draft.images, Detach(image) PROVE Grown /\ Typed'
<1>1. Grown BY Ordered, SpendGrows DEF Typed, Counted, Detach, Kinds
<1>2. view.route \in Threads /\ Draft \in Drafts BY DraftIs
<1>3. Draft.images \ {image} \in ImageSets /\ image.url \in 0..urls BY <1>2 DEF Drafts, ImageSets
<1>4. [Draft EXCEPT !.images = @ \ {image}, !.persisted = @ \ {image.id}] \in Drafts
 BY <1>2, <1>3 DEF Drafts
<1>5. StoreTyped' /\ ViewTyped' /\ SendsTyped' /\ ServerTyped'
 BY <1>1, <1>2, <1>4, DraftTyped, TypesGrow DEF Detach, SetStore, Typed, ViewTyped, ViewFields
<1>6. Noted' BY <1>1, <1>3, TypesGrow DEF Detach, Typed, Noted, Grown, Counted
<1> QED BY <1>1, <1>5, <1>6 DEF Typed, Grown

LEMMA StageTyped ==
  ASSUME Typed, Stage PROVE Grown /\ Typed'
<1>1. Grown BY Ordered, StaysGrown DEF Typed, Counted, Stage
<1>2. view.route \in Threads /\ Draft \in Drafts /\ Draft = store.drafts[view.route]
 BY DraftIs DEF Stage, Draft
<1>3. disk.drafts[view.route] \in Drafts BY <1>2 DEF Typed, StoreTyped, Stores
<1>4. [Draft EXCEPT !.persisted = Ids(Draft.images) \cap disk.drafts[view.route].persisted] \in Drafts
 BY <1>2, <1>3 DEF Drafts
<1>5. Noted' BY <1>1, NotesStay, TypesGrow DEF Stage, Typed, Noted
<1>6. CASE Draft = EmptyDraft
 BY <1>1, <1>5, <1>6, StoreStays, SendsStay, UnchangedKept, ServerStays, TypesGrow
   DEF Stage, Typed, ViewTyped, ViewFields, ServerTyped, Grown
<1>7. CASE Draft # EmptyDraft
 BY <1>1, <1>2, <1>4, <1>5, <1>7, DraftTyped, TypesGrow
   DEF Stage, SetStore, Typed, ViewTyped, ViewFields, Grown
<1> QED BY <1>6, <1>7

LEMMA ReloadIs ==
  ASSUME Typed, DiskCurrent, Reload
  PROVE \E saved \in Stores :
          /\ Reloading(saved)
          /\ saved.registered = IF saved.mapping = None THEN {} ELSE {saved.mapping}
          /\ \/ Refused
             \/ /\ saved.mapping = store.mapping /\ saved.registered = store.registered
                /\ \A t \in Threads : saved.drafts[t].text = store.drafts[t].text
<1>1. CASE dirty BY <1>1, PartializedIs DEF Reload, Typed, StoreTyped
<1>2. CASE ~dirty BY <1>2 DEF Reload, DiskCurrent, Typed, StoreTyped
<1> QED BY <1>1, <1>2

(* A reload changes nothing of the drafts but their images, unless a write  *)
(* was refused.                                                             *)
LEMMA ReloadKeeps ==
  ASSUME Typed, DiskCurrent, Reload
  PROVE /\ store' \in Stores /\ disk' \in Stores
        /\ store'.registered = IF store'.mapping = None THEN {} ELSE {store'.mapping}
        /\ disk'.mapping = store'.mapping /\ disk'.registered = store'.registered
        /\ \A t \in Threads : /\ disk'.drafts[t].text = store'.drafts[t].text
                              /\ \A i \in store'.drafts[t].images : i.url = 0
        /\ \/ Refused
           \/ /\ store'.mapping = store.mapping /\ store'.registered = store.registered
              /\ \A t \in Threads : store'.drafts[t].text = store.drafts[t].text
<1>1. PICK saved \in Stores :
           /\ Reloading(saved)
           /\ saved.registered = IF saved.mapping = None THEN {} ELSE {saved.mapping}
           /\ \/ Refused
              \/ /\ saved.mapping = store.mapping /\ saved.registered = store.registered
                 /\ \A t \in Threads : saved.drafts[t].text = store.drafts[t].text
 BY ReloadIs
<1>2. store' = Hydrated(saved) /\ disk' = saved BY <1>1 DEF Reloading
<1> QED BY <1>1, <1>2, HydratedIs DEF Typed

LEMMA ReloadTyped ==
  ASSUME Typed, DiskCurrent, Reload PROVE Grown /\ Typed'
<1> DEFINE gone == view.optimistic \cup sends
           noted == Texts(gone) \cup (IF Refused THEN DraftTexts ELSE {})
<1>1. Spend("reloads") /\ UNCHANGED <<setting, mounts, server, urls>> BY DEF Reload, Reloading
<1>2. /\ view' = [route |-> view.route, mount |-> 0, busy |-> FALSE, optimistic |-> {}, staging |-> FALSE]
      /\ sends' = {} /\ revoked' = {} /\ known'.live = {}
      /\ excused' = excused \cup noted
 BY DEF Reload, Reloading
<1>3. Grown BY <1>1, Ordered, SpendGrows DEF Typed, Counted, Kinds
<1>4. StoreTyped' BY <1>3, ReloadKeeps, TypesGrow DEF Typed, StoreTyped
<1>5. ViewTyped' /\ SendsTyped'
 BY <1>2, <1>3 DEF Typed, ViewTyped, ViewFields, SendsTyped, Grown, Counted
<1>6. ServerTyped' BY <1>1, <1>2, <1>3, ServerStays DEF Typed
<1>7. noted \subseteq Pieces
 <2>1. Texts(gone) \subseteq Pieces BY DEF Typed, ViewTyped, Shown, SendsTyped, SendTyped, Texts
 <2>2. DraftTexts \subseteq Pieces BY DEF Typed, StoreTyped, Stores, Drafts, DraftTexts
 <2> HIDE DEF gone
 <2> QED BY <2>1, <2>2
<1> HIDE DEF noted
<1>8. Noted' BY <1>2, <1>3, <1>7, TypesGrow DEF Typed, Noted
<1> QED BY <1>3, <1>4, <1>5, <1>6, <1>8 DEF Typed, Grown

(* What onSend makes of the composer, before its first await.               *)
LEMMA SendIs ==
  ASSUME Typed, Send
  PROVE /\ view.route \in Threads /\ Mounted /\ Draft \in Drafts /\ ~IsEmpty(Draft)
        /\ spent'.sends = spent.sends + 1
        /\ \A s \in sends : s.mount # view.mount
        /\ \E s : /\ sends' = sends \cup {s} /\ view'.optimistic = view.optimistic \cup {Message(s)}
                  /\ DOMAIN s = SendFields /\ s.id = spent.sends + 1
                  /\ s.thread = view.route /\ s.mount = view.mount
                  /\ s.text = Draft.text /\ s.images = Draft.images
                  /\ ~s.created /\ s.answer = "none"
                  /\ s.step = IF view.route \in known.live THEN "start" ELSE "create"
        /\ DOMAIN view' = ViewFields /\ view'.mount = view.mount /\ view'.route = view.route
        /\ store' = WithDraft(view.route, EmptyDraft) /\ dirty' = TRUE
        /\ UNCHANGED <<setting, disk, mounts, server, known, revoked, urls, excused>>
<1> DEFINE s == [id |-> spent.sends + 1, thread |-> view.route, mount |-> view.mount,
              first |-> view.route \notin known.live \/ known.messages[view.route] = {},
              created |-> FALSE, answer |-> "none",
              step |-> IF view.route \in known.live THEN "start" ELSE "create",
              text |-> Draft.text, images |-> Draft.images, refsEmpty |-> FALSE]
<1>1. /\ Mounted /\ ~InFlight /\ ~IsEmpty(Draft)
      /\ Spend("sends")
      /\ sends' = sends \cup {s}
      /\ view' = [view EXCEPT !.busy = TRUE, !.optimistic = @ \cup {Message(s)}, !.staging = TRUE]
      /\ SetStore(WithDraft(view.route, EmptyDraft))
      /\ UNCHANGED <<setting, disk, mounts, server, known, revoked, urls, excused>>
 BY DEF Send, Sending
<1>2. /\ DOMAIN s = SendFields /\ s.id = spent.sends + 1
      /\ s.thread = view.route /\ s.mount = view.mount
      /\ s.text = Draft.text /\ s.images = Draft.images
      /\ ~s.created /\ s.answer = "none"
      /\ s.step = IF view.route \in known.live THEN "start" ELSE "create"
 BY DEF SendFields
<1> HIDE DEF s
<1>3. view.route \in Threads /\ Draft \in Drafts BY <1>1, DraftIs
<1>4. spent'.sends = spent.sends + 1 BY <1>1, SpendIs DEF Typed, Kinds
<1>5. /\ DOMAIN view' = ViewFields /\ view'.mount = view.mount /\ view'.route = view.route
      /\ view'.optimistic = view.optimistic \cup {Message(s)}
 BY <1>1 DEF Typed, ViewTyped, ViewFields
<1>6. \A r \in sends : r.mount # view.mount BY <1>1 DEF InFlight
<1> QED BY <1>1, <1>2, <1>3, <1>4, <1>5, <1>6 DEF SetStore

LEMMA SendIsTyped ==
  ASSUME Typed, Send PROVE Grown /\ Typed'
<1>1. PICK s : /\ sends' = sends \cup {s} /\ view'.optimistic = view.optimistic \cup {Message(s)}
               /\ DOMAIN s = SendFields /\ s.id = spent.sends + 1
               /\ s.thread = view.route /\ s.mount = view.mount
               /\ s.text = Draft.text /\ s.images = Draft.images
               /\ ~s.created /\ s.answer = "none"
               /\ s.step = IF view.route \in known.live THEN "start" ELSE "create"
 BY SendIs
<1>2. /\ view.route \in Threads /\ Mounted /\ Draft \in Drafts
      /\ spent'.sends = spent.sends + 1
      /\ \A r \in sends : r.mount # view.mount
      /\ DOMAIN view' = ViewFields /\ view'.mount = view.mount /\ view'.route = view.route
      /\ store' = WithDraft(view.route, EmptyDraft)
      /\ UNCHANGED <<setting, disk, mounts, server, known, revoked, urls, excused>>
 BY SendIs
<1>3. Grown BY Ordered, SpendGrows DEF Typed, Counted, Kinds, Send, Sending
<1>4. StoreTyped'
 <2>1. StoreTyped /\ store' \in Stores BY <1>2, WithDraftIs, EmptyDraftTyped DEF Typed
 <2>2. store'.registered = store.registered /\ store'.mapping = store.mapping
  BY <1>2, <2>1, WithDraftIs
 <2>3. store' \in Stores' /\ disk' \in Stores' BY <1>2, <1>3, <2>1, TypesGrow DEF StoreTyped
 <2> QED BY <1>2, <2>1, <2>2, <2>3 DEF StoreTyped
<1>5. ServerTyped' /\ Noted'
 BY <1>2, <1>3, ServerStays, NotesStay, TypesGrow DEF Typed, ServerTyped, Noted
<1>6. view.mount \in 1..mounts /\ spent.sends \in Nat
 BY <1>2 DEF Typed, ViewTyped, Mounted, Counted, Kinds
<1>7. SendTyped(s)'
 <2>1. s.id \in 1..spent'.sends /\ s.mount \in 1..mounts' BY <1>1, <1>2, <1>6
 <2>2. s.text \subseteq Pieces' /\ s.images \in ImageSets'
  BY <1>1, <1>2, <1>3, TypesGrow DEF Drafts
 <2> QED BY <1>1, <1>2, <2>1, <2>2 DEF SendTyped
<1>8. SendsTyped'
 <2>1. \A r \in sends : SendTyped(r)' /\ (r.mount = view'.mount => r.thread = view'.route)
  BY <1>2, <1>3, TypesGrow DEF Typed, SendsTyped
 <2>2. \A r \in sends : r.id # s.id /\ r.mount # s.mount
  BY <1>1, <1>2, <1>6 DEF Typed, SendsTyped, SendTyped
 <2> QED BY <1>1, <1>2, <1>7, <2>1, <2>2 DEF Typed, SendsTyped
<1>9. ViewTyped'
 <2>1. Message(s) \in Shown' BY <1>7 DEF SendTyped, Message, Shown
 <2>2. view'.optimistic \subseteq Shown' BY <1>1, <1>3, <2>1, TypesGrow DEF Typed, ViewTyped
 <2> QED BY <1>2, <2>2 DEF Typed, ViewTyped, Mounted
<1> QED BY <1>3, <1>4, <1>5, <1>8, <1>9 DEF Typed, Grown

LEMMA StepsTyped ==
  ASSUME Typed, Grown, NEW s \in sends, NEW r, Steps(s, r),
    r.step \in {"create", "start", "delete"}, r.answer \in {"none", "ok", "error"},
    view'.mount = view.mount, view'.route = view.route
  PROVE SendsTyped'
<1>1. SendTyped(s) /\ (s.mount = view.mount => s.thread = view.route) BY DEF Typed, SendsTyped
<1>2. SendTyped(r) /\ (r.mount = view.mount => r.thread = view.route) BY <1>1 DEF Steps, SendTyped
<1>3. \A q \in sends' : SendTyped(q)' /\ (q.mount = view'.mount => q.thread = view'.route)
 BY <1>2, TypesGrow DEF Steps, Typed, SendsTyped
<1> QED BY <1>1, <1>3 DEF Typed, SendsTyped, Steps

(* Sends that are gone take nothing with them.                              *)
LEMMA FewerTyped ==
  ASSUME Typed, Grown, sends' \subseteq sends, view'.mount = view.mount, view'.route = view.route
  PROVE SendsTyped'
 BY TypesGrow DEF Typed, SendsTyped

(* What the server makes of a command.                                      *)
LEMMA ServedIs ==
  ASSUME Typed, NEW s \in sends
  PROVE LET t == s.thread
            message == [id |-> s.id, mount |-> s.mount, text |-> s.text]
            next == Served(s).applied
        IN  /\ next \in [threads : [Threads -> {"absent", "live", "deleted"}],
                         messages : [Threads -> Seq(Received)]]
            /\ next.messages =
                 IF s.step = "start" /\ server.threads[t] # "absent"
                 THEN [server.messages EXCEPT ![t] = Append(@, message)] ELSE server.messages
            /\ next.threads =
                 CASE s.step = "create" /\ server.threads[t] = "absent" ->
                        [server.threads EXCEPT ![t] = "live"]
                   [] s.step = "delete" /\ server.threads[t] # "absent" ->
                        [server.threads EXCEPT ![t] = "deleted"]
                   [] OTHER -> server.threads
            /\ Served(s).answer = IF \/ s.step = "delete"
                                     \/ s.step = "create" /\ server.threads[t] = "absent"
                                     \/ s.step = "start" /\ server.threads[t] # "absent"
                                  THEN "ok" ELSE "error"
<1> DEFINE t == s.thread
           message == [id |-> s.id, mount |-> s.mount, text |-> s.text]
           next == Served(s).applied
<1>1. t \in Threads /\ message \in Received /\ SendTyped(s)
 BY DEF Typed, SendsTyped, SendTyped, Received, Pieces, Counted
<1>2. server.threads \in [Threads -> {"absent", "live", "deleted"}]
      /\ server.messages \in [Threads -> Seq(Received)]
      /\ server = [threads |-> server.threads, messages |-> server.messages]
 BY DEF Typed, ServerTyped
<1>3. CASE s.step = "create" /\ server.threads[t] = "absent"
 <2>1. next = [server EXCEPT !.threads[t] = "live"] BY <1>3 DEF Served
 <2>2. next.threads = [server.threads EXCEPT ![t] = "live"] /\ next.messages = server.messages
       /\ next = [threads |-> next.threads, messages |-> next.messages]
  BY <1>2, <2>1
 <2>3. next # server BY <1>1, <1>2, <1>3, <2>2
 <2>4. Served(s).answer = "ok" BY <2>3 DEF Served
 <2> QED BY <1>1, <1>2, <1>3, <2>2, <2>4
<1>4. CASE s.step = "start" /\ server.threads[t] # "absent"
 <2>1. next = [server EXCEPT !.messages[t] = Append(@, message)] BY <1>4 DEF Served
 <2>2. next.messages = [server.messages EXCEPT ![t] = Append(@, message)]
       /\ next.threads = server.threads
       /\ next = [threads |-> next.threads, messages |-> next.messages]
  BY <1>2, <2>1
 <2>3. Append(server.messages[t], message) \in Seq(Received)
       /\ Append(server.messages[t], message) # server.messages[t]
  BY <1>1, <1>2
 <2>4. next # server BY <1>1, <1>2, <2>2, <2>3
 <2>5. Served(s).answer = "ok" BY <2>4 DEF Served
 <2> QED BY <1>1, <1>2, <1>4, <2>2, <2>3, <2>5
<1>5. CASE s.step = "delete" /\ server.threads[t] # "absent"
 <2>1. next = [server EXCEPT !.threads[t] = "deleted"] BY <1>5 DEF Served
 <2>2. next.threads = [server.threads EXCEPT ![t] = "deleted"] /\ next.messages = server.messages
       /\ next = [threads |-> next.threads, messages |-> next.messages]
  BY <1>2, <2>1
 <2>3. Served(s).answer = "ok" BY <1>5 DEF Served
 <2> QED BY <1>1, <1>2, <1>5, <2>2, <2>3
<1>6. CASE /\ ~(s.step = "create" /\ server.threads[t] = "absent")
           /\ ~(s.step = "start" /\ server.threads[t] # "absent")
           /\ ~(s.step = "delete" /\ server.threads[t] # "absent")
 <2>1. next = server BY <1>6 DEF Served
 <2>2. Served(s).answer = IF s.step = "delete" THEN "ok" ELSE "error" BY <1>6, <2>1 DEF Served
 <2> QED BY <1>1, <1>2, <1>6, <2>1, <2>2
<1> QED BY <1>3, <1>4, <1>5, <1>6

(* A command is answered, or lost, or its answer is.                        *)
HandledAs(s, r) ==
    /\ Steps(s, r) /\ r.step = s.step /\ r.created = s.created /\ s.answer = "none"
    /\ \/ server' = Served(s).applied /\ r.answer = Served(s).answer /\ spent' = spent
       \/ server' = server /\ r.answer = "error" /\ Spend("lost")
       \/ server' = Served(s).applied /\ r.answer = "error" /\ Spend("unanswered")

LEMMA HandleIs ==
  ASSUME Typed, NEW s \in sends, Handle(s) PROVE \E r : HandledAs(s, r)
<1>1. PICK answer \in {"served", "lost", "unanswered"} :
        /\ IF answer = "served" THEN UNCHANGED spent ELSE Spend(answer)
        /\ server' = IF answer = "lost" THEN server ELSE Served(s).applied
        /\ sends' = (sends \ {s}) \cup
              {[s EXCEPT !.answer = IF answer = "served" THEN Served(s).answer ELSE "error"]}
 BY DEF Handle
<1>2. DOMAIN s = SendFields BY DEF Typed, SendsTyped, SendTyped
<1> DEFINE r == [s EXCEPT !.answer = IF answer = "served" THEN Served(s).answer ELSE "error"]
<1>3. Steps(s, r) /\ r.step = s.step /\ r.created = s.created BY <1>1, <1>2 DEF Steps, SendFields
<1>4. r.answer = IF answer = "served" THEN Served(s).answer ELSE "error" BY <1>2 DEF SendFields
<1>5. s.answer = "none" BY DEF Handle
<1> HIDE DEF r
<1>6. HandledAs(s, r) BY <1>1, <1>3, <1>4, <1>5 DEF HandledAs
<1> QED BY <1>6

(* A message that arrives is the last of its thread.                        *)
LEMMA ServedMessages ==
  ASSUME Typed, NEW s \in sends, NEW t \in Threads
  PROVE LET next == Served(s).applied.messages[t]
            old == server.messages[t]
            arrives == s.step = "start" /\ server.threads[t] # "absent" /\ t = s.thread
        IN  /\ ~arrives => next = old
            /\ arrives => /\ DOMAIN next = DOMAIN old \cup {Len(old) + 1}
                          /\ next[Len(old) + 1] = [id |-> s.id, mount |-> s.mount, text |-> s.text]
                          /\ \A i \in DOMAIN old : next[i] = old[i]
                          /\ Len(old) \in Nat /\ DOMAIN old = 1..Len(old)
                          /\ next # << >>
<1> DEFINE message == [id |-> s.id, mount |-> s.mount, text |-> s.text]
           next == Served(s).applied.messages[t]
           old == server.messages[t]
           arrives == s.step = "start" /\ server.threads[t] # "absent" /\ t = s.thread
<1>1. Served(s).applied.messages =
        IF s.step = "start" /\ server.threads[s.thread] # "absent"
        THEN [server.messages EXCEPT ![s.thread] = Append(@, message)] ELSE server.messages
 BY ServedIs
<1>2. server.messages \in [Threads -> Seq(Received)] /\ message \in Received
 BY DEF Typed, ServerTyped, SendsTyped, SendTyped, Received, Pieces, Counted
<1>3. next = IF arrives THEN Append(old, message) ELSE old BY <1>1, <1>2
<1>4. old \in Seq(Received) BY <1>2
<1> HIDE DEF next, old, message, arrives
<1>5. CASE arrives
 <2>1. next = Append(old, message) BY <1>3, <1>5
 <2>2. /\ DOMAIN next = DOMAIN old \cup {Len(old) + 1} /\ next[Len(old) + 1] = message
       /\ \A i \in DOMAIN old : next[i] = old[i]
       /\ Len(old) \in Nat /\ DOMAIN old = 1..Len(old) /\ next # << >>
  BY <1>2, <1>4, <2>1
 <2> QED BY <1>5, <2>2 DEF next, old, message, arrives
<1> QED BY <1>3, <1>5 DEF next, old, message, arrives

LEMMA AppendKeeps ==
  ASSUME NEW messages \in Seq(Received), NEW message \in Received, NEW i \in DOMAIN messages
  PROVE i \in DOMAIN Append(messages, message) /\ Append(messages, message)[i] = messages[i]
 OBVIOUS

LEMMA ServedKeeps ==
  ASSUME Typed, NEW s \in sends, NEW t \in Threads, NEW i \in DOMAIN server.messages[t]
  PROVE /\ i \in DOMAIN Served(s).applied.messages[t]
        /\ Served(s).applied.messages[t][i] = server.messages[t][i]
<1> DEFINE message == [id |-> s.id, mount |-> s.mount, text |-> s.text]
           arrives == s.step = "start" /\ server.threads[s.thread] # "absent"
<1>1. Served(s).applied.messages =
        IF arrives THEN [server.messages EXCEPT ![s.thread] = Append(@, message)] ELSE server.messages
 BY ServedIs
<1>2. server.messages \in [Threads -> Seq(Received)] /\ message \in Received
 BY DEF Typed, ServerTyped, SendsTyped, SendTyped, Received, Pieces, Counted
<1>3. Served(s).applied.messages[t] \in {server.messages[t], Append(server.messages[t], message)}
 BY <1>1, <1>2
<1> QED BY <1>2, <1>3, AppendKeeps

LEMMA HandleTyped ==
  ASSUME Typed, NEW s \in sends, Handle(s) PROVE Grown /\ Typed'
<1>1. PICK r : HandledAs(s, r) BY HandleIs
<1>2. UNCHANGED <<setting, store, disk, dirty, view, mounts, known, revoked, urls, excused>>
 BY DEF Handle
<1>3. Grown
 <2>1. spent' = spent \/ Spend("lost") \/ Spend("unanswered") BY <1>1 DEF HandledAs
 <2> QED BY <1>2, <2>1, Ordered, SpendGrows, StaysGrown DEF Typed, Counted, Kinds
<1>4. SendTyped(s) BY DEF Typed, SendsTyped
<1>5. Served(s).answer \in {"none", "ok", "error"} BY ServedIs
<1>6. SendsTyped' BY <1>1, <1>2, <1>3, <1>4, <1>5, StepsTyped DEF HandledAs, SendTyped
<1>7. StoreTyped' /\ ViewTyped' /\ Noted'
 BY <1>2, <1>3, StoreStays, ViewStays, NotesStay, TypesGrow DEF Typed, Noted
<1>8. ServerTyped'
 <2>1. CASE server' = server BY <1>2, <1>3, <2>1, ServerStays DEF Typed, ServerTyped
 <2>2. CASE server' = Served(s).applied
  <3>1. server' \in [threads : [Threads -> {"absent", "live", "deleted"}],
                     messages : [Threads -> Seq(Received)]]
   BY <2>2, ServedIs
  <3>2. ASSUME NEW t \in Threads, NEW i \in DOMAIN server'.messages[t]
      PROVE  /\ server'.messages[t][i].id \in 1..spent.sends
             /\ server'.messages[t][i].text \subseteq Pieces
   <4>1. CASE i \in DOMAIN server.messages[t] /\ server'.messages[t][i] = server.messages[t][i]
    BY <4>1 DEF Typed, ServerTyped
   <4>2. CASE server'.messages[t][i] = [id |-> s.id, mount |-> s.mount, text |-> s.text]
    BY <1>4, <4>2 DEF SendTyped
   <4> QED BY SMTT(30), <2>2, <3>2, <4>1, <4>2, ServedMessages
  <3>3. Pieces \subseteq Pieces' /\ 1..spent.sends \subseteq 1..spent'.sends
   BY <1>3, TypesGrow DEF Grown, Counted, Kinds
  <3> QED BY <1>2, <3>1, <3>2, <3>3 DEF Typed, ServerTyped
 <2> QED BY <1>1, <2>1, <2>2 DEF HandledAs
<1> QED BY <1>3, <1>6, <1>7, <1>8 DEF Typed, Grown

(* The answer to a command, and what is sent next.                          *)
LEMMA CreatedIs ==
  ASSUME Typed, NEW s \in sends, Created(s)
  PROVE /\ \E r : Steps(s, r) /\ r.step = "start" /\ r.answer = "none" /\ r.created
        /\ s.step = "create" /\ s.answer = "ok"
        /\ UNCHANGED <<setting, spent, store, disk, dirty, view, mounts, server, known,
                       revoked, urls, excused>>
<1> DEFINE r == [s EXCEPT !.step = "start", !.answer = "none", !.created = TRUE]
<1>1. DOMAIN s = SendFields BY DEF Typed, SendsTyped, SendTyped
<1>2. /\ DOMAIN r = SendFields /\ r.id = s.id /\ r.thread = s.thread /\ r.mount = s.mount
      /\ r.first = s.first /\ r.text = s.text /\ r.images = s.images
      /\ r.step = "start" /\ r.answer = "none" /\ r.created
 BY <1>1 DEF SendFields
<1>3. sends' = (sends \ {s}) \cup {r} /\ s.step = "create" /\ s.answer = "ok"
 BY DEF Created, Create
<1> HIDE DEF r
<1> QED BY <1>2, <1>3 DEF Steps, Created, Create

LEMMA DiscardIs ==
  ASSUME Typed, NEW s \in sends, Discard(s)
  PROVE /\ \E r : Steps(s, r) /\ r.step = "delete" /\ r.answer = "none" /\ r.created
        /\ s.step = "start" /\ s.answer = "error" /\ s.created
        /\ UNCHANGED <<setting, spent, store, disk, dirty, view, mounts, server, known,
                       revoked, urls, excused>>
<1> DEFINE r == [s EXCEPT !.step = "delete", !.answer = "none"]
<1>1. DOMAIN s = SendFields BY DEF Typed, SendsTyped, SendTyped
<1>2. /\ DOMAIN r = SendFields /\ r.id = s.id /\ r.thread = s.thread /\ r.mount = s.mount
      /\ r.first = s.first /\ r.text = s.text /\ r.images = s.images
      /\ r.step = "delete" /\ r.answer = "none" /\ r.created = s.created
 BY <1>1 DEF SendFields
<1>3. sends' = (sends \ {s}) \cup {r} /\ s.step = "start" /\ s.answer = "error" /\ s.created
 BY DEF Discard, Goes
<1> HIDE DEF r
<1> QED BY <1>2, <1>3 DEF Steps, Discard

LEMMA StepTyped ==
  ASSUME Typed, NEW s \in sends, Created(s) \/ Discard(s) PROVE Grown /\ Typed'
<1>1. \E r : Steps(s, r) /\ r.step \in {"start", "delete"} /\ r.answer = "none"
 BY CreatedIs, DiscardIs
<1>2. UNCHANGED <<setting, spent, store, disk, dirty, view, mounts, server, known,
                  revoked, urls, excused>>
 BY CreatedIs, DiscardIs
<1>3. Grown BY <1>2, Ordered, StaysGrown DEF Typed, Counted
<1>4. SendsTyped' BY <1>1, <1>2, <1>3, StepsTyped
<1>5. StoreTyped' /\ ViewTyped' /\ Noted' /\ ServerTyped'
 BY <1>2, <1>3, StoreStays, ViewStays, ServerStays, NotesStay, TypesGrow DEF Typed, Noted, ServerTyped
<1> QED BY <1>3, <1>4, <1>5 DEF Typed, Grown

LEMMA StartedTyped ==
  ASSUME Typed, NEW s \in sends, Started(s) PROVE Grown /\ Typed'
<1>1. Grown BY Ordered, StaysGrown DEF Typed, Counted, Started
<1>2. s.thread \in Threads BY DEF Typed, SendsTyped, SendTyped
<1>3. StoreTyped'
 <2>1. CASE s.first
  <3>1. store' = Unregistered(s.thread) /\ disk' = disk BY <2>1 DEF Started, SetStore
  <3>2. /\ Unregistered(s.thread) \in Stores
        /\ Unregistered(s.thread).registered = store.registered \ {s.thread}
        /\ Unregistered(s.thread).mapping = IF store.mapping = s.thread THEN None ELSE store.mapping
   BY <1>2, UnregisteredIs DEF Typed
  <3> QED BY <1>1, <3>1, <3>2, TypesGrow DEF Typed, StoreTyped
 <2>2. CASE ~s.first BY <1>1, <2>2, StoreStays DEF Started, Typed
 <2> QED BY <2>1, <2>2
<1>4. SendsTyped' BY <1>1, FewerTyped DEF Started
<1>5. ViewTyped' /\ Noted' /\ ServerTyped'
 BY <1>1, ViewStays, ServerStays, NotesStay, TypesGrow DEF Started, Typed, Noted, ServerTyped
<1> QED BY <1>1, <1>3, <1>4, <1>5 DEF Typed, Grown

(* What a failed send puts back.                                            *)
Restored(s) ==
    LET draft == store.drafts[s.thread]
    IN  [draft EXCEPT !.text = s.text,
                      !.images = @ \cup {i \in Cloned(s.images) : i.id \notin Ids(@)}]

\* The message of it, if its view is still there.
Removed(s) == {m \in view.optimistic : s.mount = view.mount /\ m.id = s.id}

LEMMA FailedIs ==
  ASSUME Typed, NEW s \in sends, Failed(s)
  PROVE /\ \/ s.step \in {"create", "start"} /\ s.answer = "error" /\ ~s.created
           \/ s.step = "delete" /\ s.answer # "none"
        /\ sends' = sends \ {s}
        /\ UNCHANGED <<setting, spent, disk, mounts, server, known>>
        /\ DOMAIN view' = ViewFields /\ view'.route = view.route /\ view'.mount = view.mount
        /\ \/ /\ RefsEmpty(s)
              /\ store' = WithDraft(s.thread, Restored(s)) /\ dirty' = TRUE
              /\ revoked' = revoked \cup UNION {Urls(m.images) : m \in Removed(s)}
              /\ urls' = urls + Cardinality(Cloned(s.images))
              /\ excused' = IF s.mount = view.mount THEN excused
                            ELSE excused \cup store.drafts[s.thread].text
              /\ view'.optimistic = view.optimistic \ Removed(s)
           \/ /\ ~RefsEmpty(s)
              /\ view'.optimistic = view.optimistic
              /\ UNCHANGED <<store, dirty, revoked, urls, excused>>
 BY DEF Failed, Restoring, Restored, Removed, SetStore, Typed, ViewTyped, ViewFields

(* The draft to which the previews of a message return, as clones.          *)
LEMMA RestoredIs ==
  ASSUME Typed, NEW s \in sends, Counted', spent' = spent,
    urls' = urls + Cardinality(Cloned(s.images))
  PROVE /\ urls' \in Nat /\ urls <= urls'
        /\ s.thread \in Threads
        /\ Restored(s) \in Drafts'
        /\ Restored(s).text = s.text
        /\ Restored(s).images =
             store.drafts[s.thread].images
                 \cup {i \in Cloned(s.images) : i.id \notin Ids(store.drafts[s.thread].images)}
<1> DEFINE draft == store.drafts[s.thread]
           back == {i \in Cloned(s.images) : i.id \notin Ids(draft.images)}
<1>1. SendTyped(s) BY DEF Typed, SendsTyped
<1>2. s.thread \in Threads /\ draft \in Drafts BY <1>1 DEF SendTyped, Typed, StoreTyped, Stores
<1>3. /\ Cardinality(s.images) \in Nat
      /\ \A c \in Cloned(s.images) : c \in [id : 1..spent.images, url : 0..urls + Cardinality(s.images)]
      /\ \A c, d \in Cloned(s.images) : c.id = d.id => c = d
      /\ Cardinality(Cloned(s.images)) = Cardinality(s.images)
 BY <1>1, ClonedIs DEF SendTyped, Typed
<1>4. urls' = urls + Cardinality(s.images) /\ urls' \in Nat /\ urls <= urls'
 BY <1>3 DEF Typed, Counted
<1>5. /\ draft.images \subseteq [id : 1..spent.images, url : 0..urls]
      /\ \A i, j \in draft.images : i.id = j.id => i = j
 BY <1>2 DEF Drafts, ImageSets
<1>6. 0..urls \subseteq 0..urls' BY <1>4 DEF Typed, Counted
<1>7. draft.images \cup back \in ImageSets'
 <2>1. draft.images \cup back \subseteq [id : 1..spent'.images, url : 0..urls']
  BY <1>3, <1>4, <1>5, <1>6
 <2>2. \A i \in draft.images, j \in back : i.id # j.id BY DEF Ids
 <2>3. \A i, j \in draft.images \cup back : i.id = j.id => i = j BY <1>3, <1>5, <2>2
 <2> HIDE DEF back
 <2> QED BY <2>1, <2>3 DEF ImageSets
<1>8. s.text \in SUBSET Pieces' /\ draft.text \in SUBSET Pieces' /\ draft.persisted \in SUBSET (1..spent'.images)
 BY <1>1, <1>2 DEF SendTyped, Drafts, Pieces
<1>9. Restored(s) = [draft EXCEPT !.text = s.text, !.images = @ \cup back] BY DEF Restored
<1>10. draft = [text |-> draft.text, images |-> draft.images, persisted |-> draft.persisted]
 BY <1>2 DEF Drafts
<1> HIDE DEF draft, back
<1>11. Restored(s) = [text |-> s.text, images |-> draft.images \cup back, persisted |-> draft.persisted]
 BY <1>9, <1>10
<1>12. Restored(s) \in Drafts' BY <1>7, <1>8, <1>11 DEF Drafts
<1> QED BY <1>2, <1>4, <1>11, <1>12 DEF draft, back

(* What is removed from the view was shown.                                 *)
LEMMA FailedTyped ==
  ASSUME Typed, NEW s \in sends, Failed(s) PROVE Grown /\ Typed'
<1>1. /\ sends' = sends \ {s}
      /\ UNCHANGED <<setting, spent, disk, mounts, server, known>>
      /\ DOMAIN view' = ViewFields /\ view'.route = view.route /\ view'.mount = view.mount
      /\ \/ /\ store' = WithDraft(s.thread, Restored(s))
            /\ revoked' = revoked \cup UNION {Urls(m.images) : m \in Removed(s)}
            /\ urls' = urls + Cardinality(Cloned(s.images))
            /\ excused' \subseteq excused \cup store.drafts[s.thread].text
            /\ view'.optimistic = view.optimistic \ Removed(s)
         \/ /\ view'.optimistic = view.optimistic
            /\ UNCHANGED <<store, dirty, revoked, urls, excused>>
 BY FailedIs
<1>2. urls' \in Nat /\ urls <= urls'
 <2>1. CASE urls' = urls BY <2>1 DEF Typed, Counted
 <2>2. CASE urls' = urls + Cardinality(Cloned(s.images))
  <3>1. Cardinality(Cloned(s.images)) \in Nat BY ClonedIs DEF Typed, SendsTyped, SendTyped
  <3> QED BY <2>2, <3>1 DEF Typed, Counted
 <2> QED BY <1>1, <2>1, <2>2
<1>3. Grown BY <1>1, <1>2, Ordered, StaysGrown DEF Typed, Counted
<1>4. SendsTyped' BY <1>1, <1>3, FewerTyped
<1>5. ServerTyped' BY <1>1, <1>3, ServerStays DEF Typed, ServerTyped
<1>6. ViewTyped'
 <2>1. view'.optimistic \subseteq Shown' BY <1>1, <1>3, TypesGrow DEF Typed, ViewTyped
 <2>2. view'.optimistic \subseteq view.optimistic BY <1>1
 <2> QED BY <1>1, <2>1, <2>2 DEF Typed, ViewTyped
<1>7. CASE /\ store' = WithDraft(s.thread, Restored(s))
           /\ revoked' = revoked \cup UNION {Urls(m.images) : m \in Removed(s)}
           /\ urls' = urls + Cardinality(Cloned(s.images))
           /\ excused' \subseteq excused \cup store.drafts[s.thread].text
 <2>1. s.thread \in Threads /\ Restored(s) \in Drafts' BY <1>1, <1>3, <1>7, RestoredIs DEF Grown
 <2>2. StoreTyped'
  <3>1. /\ WithDraft(s.thread, Restored(s)).registered = store.registered
        /\ WithDraft(s.thread, Restored(s)).mapping = store.mapping
        /\ \A u \in Threads : WithDraft(s.thread, Restored(s)).drafts[u] =
                                IF u = s.thread THEN Restored(s) ELSE store.drafts[u]
   BY <2>1, WithDraftIs DEF Typed
  <3>2. \A u \in Threads : WithDraft(s.thread, Restored(s)).drafts[u] \in Drafts'
   BY <1>3, <2>1, <3>1, TypesGrow DEF Typed, StoreTyped, Stores
  <3>3. WithDraft(s.thread, Restored(s)) = [store EXCEPT !.drafts = [@ EXCEPT ![s.thread] = Restored(s)]]
   BY DEF WithDraft
  <3>4. WithDraft(s.thread, Restored(s)) \in
          [drafts : [Threads -> Drafts'], registered : SUBSET Threads, mapping : Threads \cup {None}]
   BY <3>2, <3>3 DEF Typed, StoreTyped, Stores
  <3> QED BY <1>1, <1>3, <1>7, <3>1, <3>4, TypesGrow DEF Typed, StoreTyped, Stores
 <2>3. UNION {Urls(m.images) : m \in Removed(s)} \subseteq 0..urls
  BY DEF Typed, ViewTyped, Shown, Urls, ImageSets, Removed
 <2>4. 0..urls \subseteq 0..urls' BY <1>3 DEF Grown, Counted
 <2>5. store.drafts[s.thread].text \subseteq Pieces BY <2>1 DEF Typed, StoreTyped, Stores, Drafts
 <2>6. excused' \subseteq Pieces' BY <1>3, <1>7, <2>5, TypesGrow DEF Typed, Noted
 <2>7. revoked' \subseteq 0..urls' BY <1>7, <2>3, <2>4 DEF Typed, Noted
 <2>8. Noted' BY <2>6, <2>7 DEF Noted
 <2> QED BY <1>3, <1>4, <1>5, <1>6, <2>2, <2>8 DEF Typed, Grown
<1>8. CASE UNCHANGED <<store, dirty, revoked, urls, excused>>
 BY <1>1, <1>3, <1>4, <1>5, <1>6, <1>8, StoreStays, NotesStay, TypesGrow DEF Typed, Noted, Grown
<1> QED BY <1>1, <1>7, <1>8

LEMMA SyncIs ==
  ASSUME Typed, Sync
  PROVE /\ known'.live = {t \in Threads : server.threads[t] = "live"}
        /\ view'.mount = view.mount /\ view'.route = view.route /\ DOMAIN view' = ViewFields
        /\ view'.optimistic \subseteq view.optimistic
        /\ \A m \in view.optimistic \ view'.optimistic :
             view.route \in Threads /\ m.id \in MessageIds[view.route]
        /\ UNCHANGED <<setting, spent, store, disk, dirty, mounts, sends, server, revoked, urls, excused>>
<1>1. CASE Mounted /\ view.route \in known'.live
 <2>1. view' = [view EXCEPT !.optimistic = {m \in @ : m.id \notin MessageIds[view.route]}]
  BY <1>1 DEF Sync
 <2>2. /\ view'.mount = view.mount /\ view'.route = view.route /\ DOMAIN view' = ViewFields
       /\ view'.optimistic = {m \in view.optimistic : m.id \notin MessageIds[view.route]}
  BY <2>1 DEF Typed, ViewTyped, ViewFields
 <2>3. view.route \in Threads BY <1>1 DEF Typed, ViewTyped, Mounted
 <2> QED BY <2>2, <2>3 DEF Sync
<1>2. CASE ~(Mounted /\ view.route \in known'.live)
 <2>1. view' = view BY <1>2 DEF Sync
 <2> QED BY <2>1 DEF Sync, Typed, ViewTyped
<1> QED BY <1>1, <1>2

LEMMA SyncTyped ==
  ASSUME Typed, Sync PROVE Grown /\ Typed'
<1>1. Grown BY Ordered, StaysGrown DEF Typed, Counted, Sync
<1>2. ViewTyped' BY <1>1, SyncIs, TypesGrow DEF Typed, ViewTyped
<1>3. SendsTyped' BY <1>1, SyncIs, FewerTyped
<1>4. StoreTyped' /\ ServerTyped' /\ Noted'
 BY <1>1, SyncIs, StoreStays, ServerStays, NotesStay, TypesGrow DEF Typed, Noted
<1> QED BY <1>1, <1>2, <1>3, <1>4 DEF Typed, Grown

LEMMA AcknowledgeTyped ==
  ASSUME Typed, Acknowledge PROVE Grown /\ Typed'
<1>1. Grown BY Ordered, StaysGrown DEF Typed, Counted, Acknowledge
<1>2. /\ DOMAIN view' = ViewFields /\ view'.route = view.route /\ view'.mount = view.mount
      /\ view'.optimistic = view.optimistic
 BY DEF Acknowledge, Typed, ViewTyped, ViewFields
<1>3. ViewTyped' /\ SendsTyped'
 BY <1>1, <1>2, FewerTyped, TypesGrow DEF Acknowledge, Typed, ViewTyped
<1>4. StoreTyped' /\ ServerTyped' /\ Noted'
 BY <1>1, StoreStays, ServerStays, NotesStay, TypesGrow DEF Acknowledge, Typed, ServerTyped, Noted
<1> QED BY <1>1, <1>3, <1>4 DEF Typed, Grown

(* What the deletion of a thread takes along.                               *)
LEMMA DeleteIs ==
  ASSUME Typed, NEW t \in Threads, DeleteThread(t)
  PROVE /\ Spend("deletes") /\ UNCHANGED <<setting, disk, mounts, known, urls>>
        /\ t \in known.live /\ server.threads[t] # "absent"
        /\ server'.threads = [server.threads EXCEPT ![t] = "deleted"]
        /\ server'.messages = server.messages
        /\ server' \in [threads : [Threads -> {"absent", "live", "deleted"}],
                        messages : [Threads -> Seq(Received)]]
        /\ store' \in Stores /\ dirty' = TRUE
        /\ store'.registered = store.registered \ {t}
        /\ store'.mapping = IF store.mapping = t THEN None ELSE store.mapping
        /\ \A u \in Threads : store'.drafts[u] = IF u = t THEN EmptyDraft ELSE store.drafts[u]
        /\ SendsKept
        /\ DOMAIN view' = ViewFields /\ view'.route \in Threads \cup {None}
        /\ \/ /\ view.route = t /\ view'.mount = 0 /\ view'.optimistic = {}
           \/ /\ view.route # t /\ view'.route = view.route /\ view'.mount = view.mount
              /\ view'.optimistic = view.optimistic
        /\ revoked \subseteq revoked'
        /\ revoked' \subseteq revoked \cup Urls(store.drafts[t].images)
                        \cup UNION {Urls(m.images) : m \in view.optimistic \ view'.optimistic}
        /\ excused' = excused \cup store.drafts[t].text \cup Texts({s \in sends : s.thread = t})
                        \cup (IF view.route = t THEN Texts(view.optimistic) ELSE {})
<1>1. /\ Spend("deletes") /\ UNCHANGED <<setting, disk, mounts, known, urls>>
      /\ t \in known.live /\ server.threads[t] # "absent"
      /\ server' = [server EXCEPT !.threads[t] = "deleted"]
      /\ store' = [Unregistered(t) EXCEPT !.drafts[t] = EmptyDraft] /\ dirty' = TRUE
      /\ excused' = excused \cup store.drafts[t].text \cup Texts({s \in sends : s.thread = t})
                      \cup (IF view.route = t THEN Texts(view.optimistic) ELSE {})
 BY DEF DeleteThread
<1>2. /\ server'.threads = [server.threads EXCEPT ![t] = "deleted"]
      /\ server'.messages = server.messages
      /\ server' \in [threads : [Threads -> {"absent", "live", "deleted"}],
                      messages : [Threads -> Seq(Received)]]
 BY <1>1 DEF Typed, ServerTyped
<1>3. /\ Unregistered(t) \in Stores /\ Unregistered(t).registered = store.registered \ {t}
      /\ Unregistered(t).mapping = IF store.mapping = t THEN None ELSE store.mapping
      /\ Unregistered(t).drafts = store.drafts
 BY UnregisteredIs DEF Typed
<1>4. /\ store' \in Stores /\ store'.registered = store.registered \ {t}
      /\ store'.mapping = IF store.mapping = t THEN None ELSE store.mapping
      /\ \A u \in Threads : store'.drafts[u] = IF u = t THEN EmptyDraft ELSE store.drafts[u]
 BY <1>1, <1>3, EmptyDraftTyped DEF Stores
<1>5. PICK fallback \in IF known.live = {t} THEN {None} ELSE known.live \ {t} :
          IF view.route = t /\ Mounted
          THEN /\ view' = [route |-> fallback, mount |-> 0, busy |-> FALSE, optimistic |-> {},
                           staging |-> FALSE]
               /\ revoked' = revoked \cup Urls(store.drafts[t].images)
                               \cup UNION {Urls(message.images) : message \in view.optimistic}
               /\ sends' = {IF s.mount = view.mount THEN [s EXCEPT !.refsEmpty = TRUE] ELSE s : s \in sends}
          ELSE /\ view' = [view EXCEPT !.route = IF @ = t THEN fallback ELSE @]
               /\ revoked' = revoked \cup Urls(store.drafts[t].images) /\ UNCHANGED sends
 BY DEF DeleteThread
<1>6. fallback \in Threads \cup {None} BY DEF Typed, ServerTyped
<1>7. CASE view.route = t /\ Mounted
 <2>1. SendsKept BY ZenonT(40), <1>5, <1>7, LeftKept DEF Typed
 <2>2. /\ DOMAIN view' = ViewFields /\ view'.route = fallback /\ view'.mount = 0
       /\ view'.optimistic = {}
       /\ revoked' = revoked \cup Urls(store.drafts[t].images)
                              \cup UNION {Urls(message.images) : message \in view.optimistic}
  BY <1>5, <1>7 DEF ViewFields
 <2>3. view.optimistic \ view'.optimistic = view.optimistic BY <2>2
 <2>4. /\ revoked \subseteq revoked'
       /\ revoked' \subseteq revoked \cup Urls(store.drafts[t].images)
                       \cup UNION {Urls(m.images) : m \in view.optimistic \ view'.optimistic}
  BY <2>2, <2>3
 <2> QED BY <1>1, <1>2, <1>4, <1>6, <1>7, <2>1, <2>2, <2>4
<1>8. CASE ~(view.route = t /\ Mounted)
 <2>1. SendsKept BY <1>5, <1>8, UnchangedKept DEF Typed
 <2>2. /\ DOMAIN view' = ViewFields /\ view'.route = (IF view.route = t THEN fallback ELSE view.route)
       /\ view'.mount = view.mount /\ view'.optimistic = view.optimistic
  BY <1>5, <1>8 DEF Typed, ViewTyped, ViewFields
 <2>3. view.route = t => view.mount = 0 /\ view.optimistic = {}
  BY <1>8 DEF Typed, ViewTyped, Mounted
 <2>4. view'.route \in Threads \cup {None} BY <1>6, <2>2 DEF Typed, ViewTyped
 <2>5. revoked' = revoked \cup Urls(store.drafts[t].images) BY <1>5, <1>8
 <2> QED BY <1>1, <1>2, <1>4, <2>1, <2>2, <2>3, <2>4, <2>5
<1> QED BY <1>7, <1>8

LEMMA DeleteTyped ==
  ASSUME Typed, NEW t \in Threads, DeleteThread(t) PROVE Grown /\ Typed'
<1>1. Grown BY DeleteIs, Ordered, SpendGrows DEF Typed, Counted, Kinds
<1>2. StoreTyped'
 <2>1. /\ store' \in Stores /\ disk' = disk
       /\ store'.registered = store.registered \ {t}
       /\ store'.mapping = IF store.mapping = t THEN None ELSE store.mapping
  BY DeleteIs
 <2>2. StoreTyped BY DEF Typed
 <2>3. Stores \subseteq Stores' BY <1>1, TypesGrow
 <2>4. t # None BY DraftsAssumption DEF DraftsAssumption
 <2> QED BY <2>1, <2>2, <2>3, <2>4 DEF StoreTyped
<1>3. ViewTyped'
 <2>1. view'.optimistic \subseteq Shown' /\ 0..mounts' = 0..mounts
  BY <1>1, DeleteIs, TypesGrow DEF Typed, ViewTyped
 <2>2. /\ DOMAIN view' = ViewFields /\ view'.route \in Threads \cup {None}
       /\ \/ view'.mount = 0 /\ view'.optimistic = {}
          \/ /\ view'.route = view.route /\ view'.mount = view.mount
             /\ view'.optimistic = view.optimistic
  BY DeleteIs
 <2>3. 0 \in 0..mounts BY DEF Typed, Counted
 <2> QED BY <2>1, <2>2, <2>3 DEF Typed, ViewTyped
<1>4. SendsTyped'
 <2>1. /\ SendsKept
       /\ \/ view'.mount = 0
          \/ view'.route = view.route /\ view'.mount = view.mount
  BY DeleteIs
 <2>2. 0 \notin 1..mounts BY DEF Typed, Counted
 <2> QED BY <1>1, <2>1, <2>2, SendsStay DEF Typed
<1>5. ServerTyped'
 <2>1. Pieces \subseteq Pieces' /\ 1..spent.sends \subseteq 1..spent'.sends
  BY <1>1, TypesGrow DEF Grown, Counted, Kinds
 <2> QED BY <2>1, DeleteIs DEF Typed, ServerTyped
<1>6. Noted'
 <2>1. UNION {Urls(m.images) : m \in view.optimistic \ view'.optimistic} \subseteq 0..urls
  BY DEF Typed, ViewTyped, Shown, Urls, ImageSets
 <2>2. store.drafts[t] \in Drafts BY DEF Typed, StoreTyped, Stores
 <2>3. Urls(store.drafts[t].images) \subseteq 0..urls BY <2>2 DEF Drafts, ImageSets, Urls
 <2>4. revoked' \subseteq 0..urls BY <2>1, <2>3, DeleteIs DEF Typed, Noted
 <2>5. store.drafts[t].text \subseteq Pieces BY <2>2 DEF Drafts
 <2>6. Texts({s \in sends : s.thread = t}) \subseteq Pieces
  BY DEF Typed, SendsTyped, SendTyped, Texts
 <2>7. Texts(view.optimistic) \subseteq Pieces BY DEF Typed, ViewTyped, Shown, Texts
 <2>8. excused' \subseteq Pieces
  <3>1. excused' = excused \cup store.drafts[t].text \cup Texts({s \in sends : s.thread = t})
                     \cup (IF view.route = t THEN Texts(view.optimistic) ELSE {})
   BY DeleteIs
  <3> QED BY <2>5, <2>6, <2>7, <3>1 DEF Typed, Noted
 <2>9. Pieces \subseteq Pieces' /\ urls' = urls BY <1>1, DeleteIs, TypesGrow
 <2> QED BY <2>4, <2>8, <2>9 DEF Noted
<1> QED BY <1>1, <1>2, <1>3, <1>4, <1>5, <1>6 DEF Typed, Grown

LEMMA StutterTyped ==
  ASSUME Typed, DiskCurrent, UNCHANGED vars PROVE Grown /\ Typed' /\ DiskCurrent'
<1>1. Grown BY Ordered, StaysGrown DEF Typed, Counted, vars
<1>2. StoreTyped' /\ ViewTyped' /\ ServerTyped' /\ Noted'
 BY <1>1, StoreStays, ViewStays, ServerStays, NotesStay, TypesGrow DEF vars, Typed, ServerTyped, Noted
<1>3. SendsTyped' BY <1>1, FewerTyped DEF vars
<1> QED BY <1>1, <1>2, <1>3, FaultsGrow DEF Typed, Grown, DiskCurrent, vars

LEMMA NextTyped ==
  ASSUME Typed, DiskCurrent, [Next]_vars PROVE Grown /\ Typed' /\ DiskCurrent'
<1>1. CASE Render BY <1>1, RenderTyped, FaultsGrow DEF Render, DiskCurrent
<1>2. CASE Write \/ WriteFails
 <2>1. WriteFails => Refused' BY SpendIs DEF WriteFails, Refused, Typed, Counted, Kinds
 <2> QED BY <1>2, <2>1, WriteTyped, PartializedIs, FaultsGrow DEF Write, DiskCurrent, Typed
<1>3. CASE Type BY <1>3, TypeTyped, FaultsGrow DEF Type, SetStore, DiskCurrent
<1>4. CASE Attach BY <1>4, AttachTyped, FaultsGrow DEF Attach, SetStore, DiskCurrent
<1>5. CASE Stage BY <1>5, StageTyped, FaultsGrow DEF Stage, SetStore, DiskCurrent
<1>6. CASE Reload BY <1>6, ReloadTyped, ReloadKeeps, FaultsGrow DEF DiskCurrent
<1>7. CASE Send BY <1>7, SendIsTyped, SendIs, FaultsGrow DEF DiskCurrent
<1>8. CASE Sync BY <1>8, SyncTyped, FaultsGrow DEF Sync, DiskCurrent
<1>9. CASE Acknowledge BY <1>9, AcknowledgeTyped, FaultsGrow DEF Acknowledge, DiskCurrent
<1>10. ASSUME NEW t \in Threads \cup {None}, Navigate(t)
    PROVE  Grown /\ Typed' /\ DiskCurrent'
 BY <1>10, NavigateTyped, FaultsGrow DEF Navigate, DiskCurrent
<1>11. ASSUME NEW t \in Threads, NewThread(t)
    PROVE  Grown /\ Typed' /\ DiskCurrent'
 BY <1>11, NewThreadTyped, FaultsGrow DEF NewThread, SetStore, DiskCurrent
<1>12. ASSUME NEW t \in Threads, DeleteThread(t)
    PROVE  Grown /\ Typed' /\ DiskCurrent'
 <2>1. dirty' = TRUE BY <1>12 DEF DeleteThread
 <2> QED BY <1>12, <2>1, DeleteTyped, FaultsGrow DEF DiskCurrent
<1>13. ASSUME Mounted, NEW image \in Draft.images, Detach(image)
    PROVE  Grown /\ Typed' /\ DiskCurrent'
 BY <1>13, DetachTyped, FaultsGrow DEF Detach, SetStore, DiskCurrent
<1>14. ASSUME NEW s \in sends, Handle(s) \/ Created(s) \/ Started(s) \/ Discard(s) \/ Failed(s)
    PROVE  Grown /\ Typed' /\ DiskCurrent'
 <2>1. CASE Handle(s) BY <2>1, HandleTyped, FaultsGrow DEF Handle, DiskCurrent
 <2>2. CASE Created(s) \/ Discard(s)
  BY <2>2, StepTyped, CreatedIs, DiscardIs, FaultsGrow DEF DiskCurrent
 <2>3. CASE Started(s) BY <2>3, StartedTyped, FaultsGrow DEF Started, SetStore, DiskCurrent
 <2>4. CASE Failed(s)
  <3>1. Grown /\ Typed' BY <2>4, FailedTyped
  <3>2. dirty' = TRUE \/ UNCHANGED <<store, disk, dirty>> BY <2>4, FailedIs
  <3> QED BY <3>1, <3>2, FaultsGrow DEF DiskCurrent
 <2> QED BY <1>14, <2>1, <2>2, <2>3, <2>4
<1>15. CASE UNCHANGED vars BY <1>15, StutterTyped
<1> QED BY <1>1, <1>2, <1>3, <1>4, <1>5, <1>6, <1>7, <1>8, <1>9, <1>10, <1>11, <1>12, <1>13,
           <1>14, <1>15 DEF Next

LEMMA InitTyped == Init => Typed /\ DiskCurrent
<1> SUFFICES ASSUME Init PROVE Typed /\ DiskCurrent OBVIOUS
<1>1. Counted BY DEF Init, Counted
<1>2. EmptyDraft \in Drafts BY EmptyDraftTyped
<1>3. StoreTyped BY <1>2 DEF Init, StoreTyped, Stores
<1>4. ViewTyped /\ SendsTyped /\ Noted BY DEF Init, ViewTyped, ViewFields, SendsTyped, Noted
<1>5. ServerTyped BY DEF Init, ServerTyped
<1>6. DiskCurrent BY DEF Init, DiskCurrent
<1> QED BY <1>1, <1>3, <1>4, <1>5, <1>6 DEF Typed

LEMMA AlwaysTyped == Spec => [](Typed /\ DiskCurrent)
<1>1. Typed /\ DiskCurrent /\ [Next]_vars => Typed' /\ DiskCurrent' BY NextTyped
<1> QED BY <1>1, InitTyped, PTL DEF Spec

(* A reload keeps the text and the draft thread, unless a write was refused *)
(* (partialize, merge and the flush of beforeunload).                       *)
THEOREM ReloadsKeepDrafts == Spec => DraftsSurviveReload
<1>1. Typed /\ DiskCurrent /\ [Next]_vars =>
        [Reload => \/ Refused
                   \/ /\ store'.mapping = store.mapping
                      /\ \A t \in Threads : store'.drafts[t].text = store.drafts[t].text]_vars
 BY ReloadKeeps
<1> QED BY <1>1, AlwaysTyped, PTL DEF Spec, DraftsSurviveReload

--------------------
(* The text.                                                                *)
Everything ==
    (UNION {store.drafts[t].text \cup Accepted(t) : t \in Threads})
        \cup Texts(sends) \cup Texts(view.optimistic) \cup excused

(* What a piece in some place is: a member of one of the unions.            *)
LEMMA EverythingIs ==
  ASSUME NEW p
  PROVE /\ p \in Arrived <=> \E t \in Threads : p \in Accepted(t)
        /\ p \in Everything <=>
             \/ \E t \in Threads : p \in store.drafts[t].text
             \/ p \in Arrived
             \/ \E s \in sends : p \in s.text
             \/ \E m \in view.optimistic : p \in m.text
             \/ p \in excused
<1> DEFINE U == UNION {store.drafts[t].text \cup Accepted(t) : t \in Threads}
<1>1. p \in Arrived <=> \E t \in Threads : p \in Accepted(t) BY DEF Arrived
<1>2. p \in U <=> \E t \in Threads : p \in store.drafts[t].text \/ p \in Accepted(t)
 <2> DEFINE both(t) == store.drafts[t].text \cup Accepted(t)
 <2>1. \A t : p \in both(t) <=> p \in store.drafts[t].text \/ p \in Accepted(t) OBVIOUS
 <2>2. U = UNION {both(t) : t \in Threads} OBVIOUS
 <2> HIDE DEF both, U
 <2> QED BY <2>1, <2>2
<1>3. p \in Texts(sends) <=> \E s \in sends : p \in s.text BY DEF Texts
<1>4. p \in Texts(view.optimistic) <=> \E m \in view.optimistic : p \in m.text BY DEF Texts
<1>5. Everything = U \cup Texts(sends) \cup Texts(view.optimistic) \cup excused BY DEF Everything
<1> HIDE DEF U
<1> QED BY <1>1, <1>2, <1>3, <1>4, <1>5

LEMMA EverythingIsNext ==
  ASSUME NEW p
  PROVE /\ p \in Arrived' <=> \E t \in Threads : p \in Accepted(t)'
        /\ p \in Everything' <=>
             \/ \E t \in Threads : p \in store'.drafts[t].text
             \/ p \in Arrived'
             \/ \E s \in sends' : p \in s.text
             \/ \E m \in view'.optimistic : p \in m.text
             \/ p \in excused'
<1> DEFINE U == UNION {store'.drafts[t].text \cup Accepted(t)' : t \in Threads}
<1>1. p \in Arrived' <=> \E t \in Threads : p \in Accepted(t)' BY DEF Arrived
<1>2. p \in U <=> \E t \in Threads : p \in store'.drafts[t].text \/ p \in Accepted(t)'
 <2> DEFINE both(t) == store'.drafts[t].text \cup Accepted(t)'
 <2>1. \A t : p \in both(t) <=> p \in store'.drafts[t].text \/ p \in Accepted(t)' OBVIOUS
 <2>2. U = UNION {both(t) : t \in Threads} OBVIOUS
 <2> HIDE DEF both, U
 <2> QED BY <2>1, <2>2
<1>3. p \in Texts(sends') <=> \E s \in sends' : p \in s.text BY DEF Texts
<1>4. p \in Texts(view'.optimistic) <=> \E m \in view'.optimistic : p \in m.text BY DEF Texts
<1>5. Everything' = U \cup Texts(sends') \cup Texts(view'.optimistic) \cup excused'
 BY DEF Everything
<1> HIDE DEF U
<1> QED BY <1>1, <1>2, <1>3, <1>4, <1>5

LEMMA EverythingHasNext ==
  /\ \A t \in Threads : store'.drafts[t].text \subseteq Everything' /\ Accepted(t)' \subseteq Everything'
  /\ \A s \in sends' : s.text \subseteq Everything'
  /\ \A m \in view'.optimistic : m.text \subseteq Everything'
  /\ excused' \subseteq Everything' /\ Arrived' \subseteq Everything'
 BY EverythingIsNext

(* What has a place keeps one if each place's text does.                    *)
LEMMA PlacesKept ==
  ASSUME \A t \in Threads : store.drafts[t].text \subseteq Everything',
    \A t \in Threads : Accepted(t) \subseteq Everything',
    \A s \in sends : s.text \subseteq Everything',
    \A m \in view.optimistic : m.text \subseteq Everything',
    excused \subseteq Everything'
  PROVE Everything \subseteq Everything'
<1> SUFFICES ASSUME NEW p \in Everything PROVE p \in Everything' OBVIOUS
<1> QED BY EverythingIs

LEMMA MessageArrived ==
  ASSUME NEW t \in Threads, NEW i \in DOMAIN server.messages[t]
  PROVE server.messages[t][i].text \subseteq Arrived
 BY DEF Arrived, Accepted

(* The messages of the server are as they were.                             *)
LEMMA ArrivedStays ==
  ASSUME server'.messages = server.messages
  PROVE Arrived' = Arrived /\ \A t \in Threads : Accepted(t)' = Accepted(t)
 BY DEF Arrived, Accepted

\* r is what s has become; that its turn was started is not news.
Follows(r, s) ==
    /\ r.id = s.id /\ r.text = s.text /\ r.thread = s.thread
    /\ r.step = "start" /\ r.answer = "ok" => s.step = "start" /\ s.answer = "ok"

(* Messages that leave the view are excused, on the server or restored.     *)
LEMMA TextStep ==
  ASSUME OneText, Backed, StartedIsThere,
    \A r \in sends' : \E s \in sends : Follows(r, s),
    view'.optimistic \subseteq view.optimistic,
    server'.messages = server.messages, excused \subseteq excused',
    \A m \in view.optimistic \ view'.optimistic :
       m.text \subseteq excused' \cup Arrived \/ \A r \in sends' : r.id # m.id
  PROVE OneText' /\ Backed' /\ StartedIsThere'
<1>1. OneText' BY DEF OneText, Follows
<1>2. StartedIsThere' BY DEF StartedIsThere, Follows
<1>3. ASSUME NEW r \in sends'
    PROVE  (\E m \in view'.optimistic : m.id = r.id) \/ r.text \subseteq excused' \cup Arrived'
 <2>1. PICK s \in sends : Follows(r, s) OBVIOUS
 <2>2. CASE s.text \subseteq excused \cup Arrived BY <2>1, <2>2, ArrivedStays DEF Follows
 <2>3. CASE \E m \in view.optimistic : m.id = s.id
  <3>1. PICK m \in view.optimistic : m.id = s.id BY <2>3
  <3>2. m.text = r.text /\ m.id = r.id BY <2>1, <3>1 DEF OneText, Follows
  <3> QED BY <3>2, ArrivedStays
 <2> QED BY <2>2, <2>3 DEF Backed
<1> QED BY <1>1, <1>2, <1>3 DEF Backed

LEMMA KeptFollow ==
  ASSUME SendsKept
  PROVE /\ \A r \in sends' : \E s \in sends : Follows(r, s)
        /\ \A s \in sends : \E r \in sends' : r.text = s.text
 BY DEF SendsKept, Alike, Follows

LEMMA SameFollow ==
  ASSUME sends' \subseteq sends PROVE \A r \in sends' : \E s \in sends : Follows(r, s)
 BY DEF Follows

LEMMA TextKeptIs ==
  /\ TextKept <=> Pieces \subseteq Everything
  /\ TextKept' <=> Pieces' \subseteq Everything'
 BY DEF TextKept, Pieces, Everything

(* A step that leaves the view and the messages, and loses no draft.        *)
LEMMA QuietText ==
  ASSUME Typed, TextInvariant, SendsKept, view'.optimistic = view.optimistic,
    server'.messages = server.messages, excused \subseteq excused', spent'.texts = spent.texts,
    \A t \in Threads : store.drafts[t].text \subseteq store'.drafts[t].text
  PROVE TextInvariant'
<1>1. OneText' /\ Backed' /\ StartedIsThere' BY KeptFollow, TextStep DEF TextInvariant
<1>2. Everything \subseteq Everything' BY EverythingHasNext, KeptFollow, ArrivedStays, PlacesKept
<1>3. TextKept' BY <1>2, TextKeptIs DEF TextInvariant, Pieces
<1> QED BY <1>1, <1>3 DEF TextInvariant

LEMMA UnmountText ==
  ASSUME Typed, TextInvariant, NEW route, Unmount(route), server' = server, spent'.texts = spent.texts,
    \A t \in Threads : store.drafts[t].text \subseteq store'.drafts[t].text
  PROVE TextInvariant'
<1>1. SendsKept /\ view'.optimistic = {} /\ excused' = excused \cup Texts(view.optimistic)
 BY UnmountIs DEF Typed
<1>2. \A m \in view.optimistic : m.text \subseteq excused' BY <1>1 DEF Texts
<1>3. OneText' /\ Backed' /\ StartedIsThere' BY <1>1, <1>2, KeptFollow, TextStep DEF TextInvariant
<1>4. Everything \subseteq Everything'
 BY <1>1, <1>2, EverythingHasNext, KeptFollow, ArrivedStays, PlacesKept
<1>5. TextKept' BY <1>4, TextKeptIs DEF TextInvariant, Pieces
<1> QED BY <1>3, <1>5 DEF TextInvariant

LEMMA GoText ==
  ASSUME Typed, TextInvariant, NEW route, Go(route), server' = server, spent'.texts = spent.texts,
    \A t \in Threads : store.drafts[t].text \subseteq store'.drafts[t].text
  PROVE TextInvariant'
<1>1. CASE Mounted BY <1>1, UnmountText DEF Go
<1>2. CASE ~Mounted
 <2>1. view'.optimistic = view.optimistic /\ excused' = excused /\ sends' = sends
  BY <1>2 DEF Go, Typed, ViewTyped, ViewFields
 <2> QED BY <2>1, UnchangedKept, QuietText DEF Typed
<1> QED BY <1>1, <1>2

LEMMA RenderText ==
  ASSUME Typed, TextInvariant, Render PROVE TextInvariant'
<1>1. CASE Mounted BY <1>1, UnmountText DEF Render
<1>2. CASE ~Mounted
 <2>1. view'.optimistic = view.optimistic /\ excused' = excused /\ sends' = sends
  BY <1>2 DEF Render, Typed, ViewTyped, ViewFields
 <2> QED BY <2>1, UnchangedKept, QuietText DEF Typed, Render
<1> QED BY <1>1, <1>2

(* A step that changes one draft of the view that is mounted.               *)
LEMMA OneDraftText ==
  ASSUME Typed, TextInvariant, Mounted, NEW draft, draft.text = Draft.text,
    store' = WithDraft(view.route, draft) \/ store' = store,
    sends' = sends, view'.optimistic = view.optimistic, server' = server,
    excused' = excused, spent'.texts = spent.texts
  PROVE TextInvariant'
<1>1. view.route \in Threads BY DraftIs
<1>2. \A t \in Threads : store.drafts[t].text \subseteq store'.drafts[t].text
 BY <1>1, WithDraftIs DEF Typed, Draft
<1> QED BY <1>2, UnchangedKept, QuietText DEF Typed

LEMMA QuietStepsText ==
  ASSUME Typed, TextInvariant,
    \/ Write \/ WriteFails \/ Acknowledge \/ Attach \/ Stage \/ UNCHANGED vars
    \/ Mounted /\ \E image \in Draft.images : Detach(image)
  PROVE TextInvariant'
<1>1. CASE Write \/ WriteFails \/ Acknowledge \/ UNCHANGED vars
 <2>1. WriteFails => spent'.texts = spent.texts BY SpendIs DEF WriteFails, Typed, Kinds
 <2> QED BY <1>1, <2>1, UnchangedKept, QuietText
     DEF Write, WriteFails, Acknowledge, Typed, ViewTyped, ViewFields, vars
<1>2. CASE Attach
 <2> DEFINE draft == [Draft EXCEPT !.images = @ \cup {[id |-> spent.images + 1, url |-> urls + 1]}]
 <2>1. draft.text = Draft.text BY <1>2, DraftIs DEF Attach, Drafts
 <2>2. /\ store' = WithDraft(view.route, draft) /\ Mounted /\ view'.optimistic = view.optimistic
       /\ UNCHANGED <<sends, server, excused>>
  BY <1>2 DEF Attach, SetStore, Typed, ViewTyped, ViewFields
 <2>3. spent'.texts = spent.texts BY <1>2, SpendIs DEF Attach, Typed, Kinds
 <2> HIDE DEF draft
 <2> QED BY <2>1, <2>2, <2>3, OneDraftText
<1>3. CASE Stage
 <2> DEFINE draft == [Draft EXCEPT !.persisted = Ids(Draft.images) \cap disk.drafts[view.route].persisted]
 <2>1. draft.text = Draft.text BY <1>3, DraftIs DEF Stage, Drafts
 <2>2. /\ store' = WithDraft(view.route, draft) \/ store' = store
       /\ Mounted /\ view'.optimistic = view.optimistic
       /\ UNCHANGED <<spent, sends, server, excused>>
  BY <1>3 DEF Stage, SetStore, Typed, ViewTyped, ViewFields
 <2> HIDE DEF draft
 <2> QED BY <2>1, <2>2, OneDraftText
<1>4. ASSUME Mounted, NEW image \in Draft.images, Detach(image)
    PROVE  TextInvariant'
 <2> DEFINE draft == [Draft EXCEPT !.images = @ \ {image}, !.persisted = @ \ {image.id}]
 <2>1. draft.text = Draft.text BY <1>4, DraftIs DEF Drafts
 <2>2. /\ store' = WithDraft(view.route, draft) /\ view'.optimistic = view.optimistic
       /\ UNCHANGED <<sends, server, excused>>
  BY <1>4 DEF Detach, SetStore, Typed, ViewTyped, ViewFields
 <2>3. spent'.texts = spent.texts BY <1>4, SpendIs DEF Detach, Typed, Kinds
 <2> HIDE DEF draft
 <2> QED BY <1>4, <2>1, <2>2, <2>3, OneDraftText
<1> QED BY <1>1, <1>2, <1>3, <1>4

LEMMA NavigateText ==
  ASSUME Typed, TextInvariant, NEW route, Navigate(route) PROVE TextInvariant'
<1>1. spent'.texts = spent.texts BY SpendIs DEF Navigate, Typed, Kinds
<1> QED BY <1>1, GoText DEF Navigate

LEMMA NewThreadText ==
  ASSUME Typed, TextInvariant, NEW t \in Threads, NewThread(t) PROVE TextInvariant'
<1>1. spent'.texts = spent.texts BY SpendIs DEF NewThread, Typed, Kinds
<1>2. store'.drafts = store.drafts BY NewThreadMaps, MappedIs DEF NewThread, SetStore, Typed
<1> QED BY <1>1, <1>2, GoText DEF NewThread

LEMMA TypeText ==
  ASSUME Typed, TextInvariant, Type PROVE TextInvariant'
<1> DEFINE draft == [Draft EXCEPT !.text = @ \cup {spent.texts + 1}]
<1>1. view.route \in Threads /\ draft.text = Draft.text \cup {spent.texts + 1}
 BY DraftIs DEF Type, Drafts
<1>2. spent'.texts = spent.texts + 1 /\ spent.texts \in Nat
 BY SpendIs DEF Type, Typed, Counted, Kinds
<1>3. /\ store' = WithDraft(view.route, draft) /\ excused \subseteq excused'
      /\ UNCHANGED <<view, sends, server>>
 BY DEF Type, SetStore
<1> HIDE DEF draft
<1>4. /\ \A u \in Threads : store.drafts[u].text \subseteq store'.drafts[u].text
      /\ spent.texts + 1 \in store'.drafts[view.route].text
 BY <1>1, <1>3, WithDraftIs DEF Typed, Draft
<1>5. OneText' /\ Backed' /\ StartedIsThere' BY <1>3, SameFollow, TextStep DEF TextInvariant
<1>6. Everything \subseteq Everything' /\ spent.texts + 1 \in Everything'
 BY <1>1, <1>3, <1>4, EverythingHasNext, ArrivedStays, PlacesKept
<1>7. Pieces' = Pieces \cup {spent.texts + 1} BY <1>2 DEF Pieces
<1>8. TextKept' BY <1>6, <1>7, TextKeptIs DEF TextInvariant
<1> QED BY <1>5, <1>8 DEF TextInvariant

LEMMA ReloadText ==
  ASSUME Typed, DiskCurrent, TextInvariant, Reload PROVE TextInvariant'
<1>1. /\ view'.optimistic = {} /\ sends' = {}
      /\ excused' = excused \cup Texts(view.optimistic \cup sends)
                      \cup (IF Refused THEN DraftTexts ELSE {})
      /\ server' = server
 BY DEF Reload, Reloading
<1>2. spent'.texts = spent.texts BY SpendIs DEF Reload, Reloading, Typed, Kinds
<1>3. \A m \in view.optimistic \cup sends : m.text \subseteq excused' BY <1>1 DEF Texts
<1>4. \A t \in Threads : store.drafts[t].text \subseteq store'.drafts[t].text \cup excused'
 BY <1>1, ReloadKeeps DEF DraftTexts
<1>5. OneText' /\ Backed' /\ StartedIsThere' BY <1>1 DEF OneText, Backed, StartedIsThere
<1>6. Everything \subseteq Everything'
 BY <1>1, <1>3, <1>4, EverythingHasNext, ArrivedStays, PlacesKept
<1>7. TextKept' BY <1>2, <1>6, TextKeptIs DEF TextInvariant, Pieces
<1> QED BY <1>5, <1>7 DEF TextInvariant

(* A message is new when it is sent: it is not on the server.               *)
LEMMA SendText ==
  ASSUME Typed, TextInvariant, Send PROVE TextInvariant'
<1>1. PICK s : /\ sends' = sends \cup {s} /\ view'.optimistic = view.optimistic \cup {Message(s)}
               /\ s.id = spent.sends + 1
               /\ s.thread = view.route /\ s.text = Draft.text /\ s.answer = "none"
 BY SendIs
<1>2. /\ view.route \in Threads
      /\ store' = WithDraft(view.route, EmptyDraft)
      /\ UNCHANGED <<server, excused>>
 BY SendIs
<1>3. spent'.texts = spent.texts /\ spent.sends \in Nat
 BY SpendIs DEF Send, Sending, Typed, Counted, Kinds
<1>4. Message(s).id = s.id /\ Message(s).text = s.text BY DEF Message
<1>5. /\ \A r \in sends : r.id # s.id
      /\ \A m \in view.optimistic : m.id # s.id
      /\ \A t \in Threads : \A i \in DOMAIN server.messages[t] : server.messages[t][i].id # s.id
 BY <1>1, <1>3 DEF Typed, SendsTyped, SendTyped, ViewTyped, Shown, ServerTyped
<1>6. OneText' BY <1>1, <1>2, <1>4, <1>5 DEF TextInvariant, OneText
<1>7. Backed' BY <1>1, <1>2, <1>4, ArrivedStays DEF TextInvariant, Backed
<1>8. StartedIsThere' BY <1>1, <1>2 DEF TextInvariant, StartedIsThere
<1>9. \A t \in Threads : store.drafts[t].text \subseteq store'.drafts[t].text \/ store.drafts[t].text = s.text
 BY <1>1, <1>2, WithDraftIs DEF Typed, Draft
<1>10. Everything \subseteq Everything'
 <2>1. s.text \subseteq Everything' BY <1>1, EverythingHasNext
 <2>2. /\ \A t \in Threads : store'.drafts[t].text \subseteq Everything'
       /\ \A t \in Threads : Accepted(t) \subseteq Everything'
       /\ \A r \in sends : r.text \subseteq Everything'
       /\ \A m \in view.optimistic : m.text \subseteq Everything'
       /\ excused \subseteq Everything'
  BY <1>1, <1>2, EverythingHasNext, ArrivedStays
 <2>3. \A t \in Threads : store.drafts[t].text \subseteq Everything' BY <1>9, <2>1, <2>2
 <2> QED BY <2>2, <2>3, PlacesKept
<1>11. TextKept' BY <1>3, <1>10, TextKeptIs DEF TextInvariant, Pieces
<1> QED BY <1>6, <1>7, <1>8, <1>11 DEF TextInvariant

(* What the server has stays, and what arrives has its text.                *)
LEMMA ServedArrived ==
  ASSUME Typed, NEW s \in sends, server' = Served(s).applied
  PROVE /\ \A t \in Threads : Accepted(t) \subseteq Accepted(t)'
        /\ Arrived \subseteq Arrived'
<1>1. \A t \in Threads : \A i \in DOMAIN server.messages[t] :
         i \in DOMAIN server'.messages[t] /\ server'.messages[t][i] = server.messages[t][i]
 BY ServedKeeps
<1>2. ASSUME NEW t \in Threads PROVE Accepted(t) \subseteq Accepted(t)'
 <2> SUFFICES ASSUME NEW p \in Accepted(t) PROVE p \in Accepted(t)' OBVIOUS
 <2>1. PICK i \in DOMAIN server.messages[t] : p \in server.messages[t][i].text BY DEF Accepted
 <2>2. i \in DOMAIN server'.messages[t] /\ p \in server'.messages[t][i].text BY <1>1, <2>1
 <2> QED BY <2>2 DEF Accepted
<1> QED BY <1>2 DEF Arrived

LEMMA HandleText ==
  ASSUME Typed, TextInvariant, NEW s \in sends, Handle(s) PROVE TextInvariant'
<1>1. PICK r : HandledAs(s, r) BY HandleIs
<1>2. UNCHANGED <<store, view, excused>> BY DEF Handle
<1>3. spent'.texts = spent.texts BY <1>1, SpendIs DEF HandledAs, Typed, Kinds
<1>4. /\ sends' = (sends \ {s}) \cup {r}
      /\ r.id = s.id /\ r.thread = s.thread /\ r.text = s.text /\ r.step = s.step
 BY <1>1 DEF HandledAs, Steps
<1>5. \A q \in sends' : \E p \in sends : q.id = p.id /\ q.text = p.text /\ q.thread = p.thread
 BY <1>4
<1>6. CASE server' = server /\ r.answer = "error"
 <2>1. \A q \in sends' : \E p \in sends : Follows(q, p) BY <1>4, <1>6 DEF Follows
 <2>2. OneText' /\ Backed' /\ StartedIsThere' BY <1>2, <1>6, <2>1, TextStep DEF TextInvariant
 <2>3. Everything \subseteq Everything'
  <3>1. \A q \in sends : q.text \subseteq Everything' BY <1>4, EverythingHasNext
  <3> QED BY <1>2, <1>6, <3>1, EverythingHasNext, ArrivedStays, PlacesKept
 <2>4. TextKept' BY <1>3, <2>3, TextKeptIs DEF TextInvariant, Pieces
 <2> QED BY <2>2, <2>4 DEF TextInvariant
<1>7. CASE server' = Served(s).applied
 <2>1. ASSUME NEW t \in Threads, NEW i \in DOMAIN server'.messages[t]
     PROVE  \/ i \in DOMAIN server.messages[t] /\ server'.messages[t][i] = server.messages[t][i]
            \/ server'.messages[t][i] = [id |-> s.id, mount |-> s.mount, text |-> s.text]
  BY <1>7, ServedMessages
 <2>2. \A q \in sends : q.id = s.id => q = s BY DEF Typed, SendsTyped
 <2>3. \A q \in sends' : q.id = s.id => q.text = s.text BY <1>4, <2>2
 <2>4. \A m \in view.optimistic : m.id = s.id => m.text = s.text BY DEF TextInvariant, OneText
 <2>5. OneText'
  <3>1. \A q \in sends', m \in view.optimistic : q.id = m.id => q.text = m.text
   BY <1>5 DEF TextInvariant, OneText
  <3>2. ASSUME NEW t \in Threads, NEW i \in DOMAIN server'.messages[t]
      PROVE  /\ \A q \in sends' : q.id = server'.messages[t][i].id => q.text = server'.messages[t][i].text
             /\ \A m \in view.optimistic :
                  m.id = server'.messages[t][i].id => m.text = server'.messages[t][i].text
   <4>1. CASE i \in DOMAIN server.messages[t] /\ server'.messages[t][i] = server.messages[t][i]
    BY <1>5, <4>1 DEF TextInvariant, OneText
   <4>2. CASE server'.messages[t][i] = [id |-> s.id, mount |-> s.mount, text |-> s.text]
    BY <2>3, <2>4, <4>2
   <4> QED BY <2>1, <4>1, <4>2
  <3> QED BY <1>2, <3>1, <3>2 DEF OneText
 <2>6. Backed' BY <1>2, <1>5, <1>7, ServedArrived DEF TextInvariant, Backed
 <2>7. StartedIsThere'
  <3>1. ASSUME NEW q \in sends \ {s}, q.step = "start", q.answer = "ok"
      PROVE  \E i \in DOMAIN server'.messages[q.thread] :
               /\ server'.messages[q.thread][i].id = q.id
               /\ server'.messages[q.thread][i].text = q.text
   <4>1. q.thread \in Threads BY DEF Typed, SendsTyped, SendTyped
   <4>2. PICK i \in DOMAIN server.messages[q.thread] :
           /\ server.messages[q.thread][i].id = q.id
           /\ server.messages[q.thread][i].text = q.text
    BY <3>1 DEF TextInvariant, StartedIsThere
   <4>3. i \in DOMAIN server'.messages[q.thread]
         /\ server'.messages[q.thread][i] = server.messages[q.thread][i]
    BY <1>7, <4>1, ServedKeeps
   <4> QED BY <4>2, <4>3
  <3>2. ASSUME r.step = "start", r.answer = "ok"
      PROVE  \E i \in DOMAIN server'.messages[r.thread] :
               /\ server'.messages[r.thread][i].id = r.id
               /\ server'.messages[r.thread][i].text = r.text
   <4>1. s.thread \in Threads BY DEF Typed, SendsTyped, SendTyped
   <4>2. Served(s).answer = "ok"
    <5>1. r.answer = Served(s).answer \/ r.answer = "error" BY <1>1 DEF HandledAs
    <5> QED BY <3>2, <5>1
   <4>3. s.step = "start" /\ server.threads[s.thread] # "absent" BY <1>4, <3>2, <4>2, ServedIs
   <4>4. \E i \in DOMAIN server'.messages[s.thread] :
           server'.messages[s.thread][i] = [id |-> s.id, mount |-> s.mount, text |-> s.text]
    BY <1>7, <4>1, <4>3, ServedMessages
   <4> QED BY <1>4, <4>4
  <3> QED BY <1>4, <3>1, <3>2 DEF StartedIsThere
 <2>8. Everything \subseteq Everything'
  <3>1. \A q \in sends : q.text \subseteq Everything' BY <1>4, EverythingHasNext
  <3>2. \A t \in Threads : Accepted(t) \subseteq Everything'
   BY <1>7, ServedArrived, EverythingHasNext
  <3> QED BY <1>2, <3>1, <3>2, EverythingHasNext, PlacesKept
 <2>9. TextKept' BY <1>3, <2>8, TextKeptIs DEF TextInvariant, Pieces
 <2> QED BY <2>5, <2>6, <2>7, <2>9 DEF TextInvariant
<1> QED BY <1>1, <1>6, <1>7 DEF HandledAs

LEMMA StepText ==
  ASSUME Typed, TextInvariant, NEW s \in sends, Created(s) \/ Discard(s) PROVE TextInvariant'
<1>1. PICK r : Steps(s, r) /\ r.answer = "none" BY CreatedIs, DiscardIs
<1>2. UNCHANGED <<setting, spent, store, disk, dirty, view, mounts, server, known,
                  revoked, urls, excused>>
 BY CreatedIs, DiscardIs
<1>3. \A q \in sends' : \E p \in sends : Follows(q, p) BY <1>1 DEF Steps, Follows
<1>4. \A q \in sends : \E p \in sends' : p.text = q.text BY <1>1 DEF Steps
<1>5. OneText' /\ Backed' /\ StartedIsThere' BY <1>2, <1>3, TextStep DEF TextInvariant
<1>6. Everything \subseteq Everything' BY <1>2, <1>4, EverythingHasNext, ArrivedStays, PlacesKept
<1>7. TextKept' BY <1>2, <1>6, TextKeptIs DEF TextInvariant, Pieces
<1> QED BY <1>5, <1>7 DEF TextInvariant

(* A send that is over has its message on the server.                       *)
LEMMA StartedText ==
  ASSUME Typed, TextInvariant, NEW s \in sends, Started(s) PROVE TextInvariant'
<1>1. /\ s.step = "start" /\ s.answer = "ok" /\ sends' = sends \ {s}
      /\ UNCHANGED <<spent, view, server, excused>>
 BY DEF Started
<1>2. s.thread \in Threads BY DEF Typed, SendsTyped, SendTyped
<1>3. \A t \in Threads : store'.drafts[t] = store.drafts[t]
 BY <1>2, UnregisteredIs DEF Started, SetStore, Typed
<1>4. s.text \subseteq Arrived BY <1>1, <1>2, MessageArrived DEF TextInvariant, StartedIsThere
<1>5. OneText' /\ Backed' /\ StartedIsThere' BY <1>1, SameFollow, TextStep DEF TextInvariant
<1>6. Everything \subseteq Everything'
 <2>1. \A q \in sends : q.text \subseteq Everything'
  BY <1>1, <1>4, EverythingHasNext, ArrivedStays
 <2> QED BY <1>1, <1>3, <2>1, EverythingHasNext, ArrivedStays, PlacesKept
<1>7. TextKept' BY <1>1, <1>6, TextKeptIs DEF TextInvariant, Pieces
<1> QED BY <1>5, <1>7 DEF TextInvariant

(* What a failed send sent is in the composer, in the view, or excused.     *)
LEMMA FailedText ==
  ASSUME Typed, TextInvariant, NEW s \in sends, Failed(s) PROVE TextInvariant'
<1>1. sends' = sends \ {s} /\ UNCHANGED <<spent, server>> BY FailedIs
<1>2. s.thread \in Threads /\ (s.mount = view.mount => s.thread = view.route)
 BY DEF Typed, SendsTyped, SendTyped
<1>3. \A r \in sends' : r.id # s.id BY <1>1 DEF Typed, SendsTyped
<1>4. CASE /\ RefsEmpty(s)
           /\ store' = WithDraft(s.thread, Restored(s)) /\ dirty' = TRUE
           /\ urls' = urls + Cardinality(Cloned(s.images))
           /\ excused' = IF s.mount = view.mount THEN excused
                         ELSE excused \cup store.drafts[s.thread].text
           /\ view'.optimistic = view.optimistic \ Removed(s)
 <2>1. Restored(s).text = s.text BY <1>1, <1>4, FailedTyped, RestoredIs DEF Typed, Grown
 <2>2. \A t \in Threads : store'.drafts[t].text = IF t = s.thread THEN s.text ELSE store.drafts[t].text
  BY <1>2, <1>4, <2>1, WithDraftIs DEF Typed
 <2>3. store.drafts[s.thread].text \subseteq excused'
  <3>1. CASE s.mount = view.mount BY <1>2, <1>4, <3>1 DEF RefsEmpty, IsEmpty, Draft
  <3>2. CASE s.mount # view.mount BY <1>4, <3>2
  <3> QED BY <3>1, <3>2
 <2>4. excused \subseteq excused' BY <1>4
 <2>5. \A m \in view.optimistic \ view'.optimistic : m.id = s.id /\ m.text = s.text
  BY <1>4 DEF Removed, TextInvariant, OneText
 <2>6. OneText' /\ Backed' /\ StartedIsThere'
  BY <1>1, <1>3, <1>4, <2>4, <2>5, SameFollow, TextStep DEF TextInvariant
 <2>7. Everything \subseteq Everything'
  <3>1. s.text \subseteq Everything' BY <1>2, <2>2, EverythingHasNext
  <3>2. \A q \in sends : q.text \subseteq Everything' BY <1>1, <3>1, EverythingHasNext
  <3>3. \A m \in view.optimistic : m.text \subseteq Everything' BY <2>5, <3>1, EverythingHasNext
  <3>4. \A t \in Threads : store.drafts[t].text \subseteq Everything'
   BY <2>2, <2>3, EverythingHasNext
  <3>5. (\A t \in Threads : Accepted(t) \subseteq Everything') /\ excused \subseteq Everything'
   BY <1>1, <2>4, EverythingHasNext, ArrivedStays
  <3> QED BY <3>2, <3>3, <3>4, <3>5, PlacesKept
 <2>8. TextKept' BY <1>1, <2>7, TextKeptIs DEF TextInvariant, Pieces
 <2> QED BY <2>6, <2>8 DEF TextInvariant
<1>5. CASE view'.optimistic = view.optimistic /\ UNCHANGED <<store, dirty, revoked, urls, excused>>
 <2>1. OneText' /\ Backed' /\ StartedIsThere'
  BY <1>1, <1>5, SameFollow, TextStep DEF TextInvariant
 <2>2. s.text \subseteq Everything'
  <3>1. CASE s.text \subseteq excused \cup Arrived
   BY <1>1, <1>5, <3>1, EverythingHasNext, ArrivedStays
  <3>2. CASE \E m \in view.optimistic : m.id = s.id
   <4>1. \E m \in view.optimistic : m.text = s.text BY <3>2 DEF TextInvariant, OneText
   <4> QED BY <1>5, <4>1, EverythingHasNext
  <3> QED BY <3>1, <3>2 DEF TextInvariant, Backed
 <2>3. Everything \subseteq Everything'
  BY <1>1, <1>5, <2>2, EverythingHasNext, ArrivedStays, PlacesKept
 <2>4. TextKept' BY <1>1, <2>3, TextKeptIs DEF TextInvariant, Pieces
 <2> QED BY <2>1, <2>4 DEF TextInvariant
<1> QED BY <1>4, <1>5, FailedIs

(* A message that is no longer shown has arrived.                           *)
LEMMA SyncText ==
  ASSUME Typed, TextInvariant, Sync PROVE TextInvariant'
<1>1. /\ view'.optimistic \subseteq view.optimistic
      /\ \A m \in view.optimistic \ view'.optimistic :
           view.route \in Threads /\ m.id \in MessageIds[view.route]
      /\ UNCHANGED <<spent, store, sends, server, excused>>
 BY SyncIs
<1>2. ASSUME NEW m \in view.optimistic \ view'.optimistic
    PROVE  m.text \subseteq Arrived
 <2>1. view.route \in Threads BY <1>1
 <2>2. PICK i \in DOMAIN server.messages[view.route] : server.messages[view.route][i].id = m.id
  BY <1>1, <2>1 DEF MessageIds
 <2>3. m.text = server.messages[view.route][i].text BY <2>1, <2>2 DEF TextInvariant, OneText
 <2> QED BY <2>1, <2>3, MessageArrived
<1>3. OneText' /\ Backed' /\ StartedIsThere' BY <1>1, <1>2, SameFollow, TextStep DEF TextInvariant
<1>4. \A m \in view.optimistic : m.text \subseteq Everything'
 BY <1>1, <1>2, EverythingHasNext, ArrivedStays
<1>5. Everything \subseteq Everything' BY <1>1, <1>4, EverythingHasNext, ArrivedStays, PlacesKept
<1>6. TextKept' BY <1>1, <1>5, TextKeptIs DEF TextInvariant, Pieces
<1> QED BY <1>3, <1>6 DEF TextInvariant

(* Who deletes a thread gives up what belongs to it.                        *)
LEMMA DeleteText ==
  ASSUME Typed, TextInvariant, NEW t \in Threads, DeleteThread(t) PROVE TextInvariant'
<1>1. /\ server'.messages = server.messages
      /\ \A u \in Threads : store'.drafts[u] = IF u = t THEN EmptyDraft ELSE store.drafts[u]
      /\ SendsKept
      /\ \/ view.route = t /\ view'.optimistic = {}
         \/ view.route # t /\ view'.optimistic = view.optimistic
 BY DeleteIs
<1>2. excused' = excused \cup store.drafts[t].text \cup Texts({s \in sends : s.thread = t})
                   \cup (IF view.route = t THEN Texts(view.optimistic) ELSE {})
 BY DeleteIs
<1>3. spent'.texts = spent.texts BY DeleteIs, SpendIs DEF Typed, Kinds
<1>4. excused \subseteq excused' /\ store.drafts[t].text \subseteq excused' BY <1>2
<1>5. \A m \in view.optimistic \ view'.optimistic : m.text \subseteq excused'
 BY <1>1, <1>2 DEF Texts
<1>6. OneText' /\ Backed' /\ StartedIsThere'
 BY <1>1, <1>4, <1>5, KeptFollow, TextStep DEF TextInvariant
<1>7. Everything \subseteq Everything'
 <2>1. \A s \in sends : s.text \subseteq Everything' BY <1>1, KeptFollow, EverythingHasNext
 <2>2. \A m \in view.optimistic : m.text \subseteq Everything' BY <1>5, EverythingHasNext
 <2>3. \A u \in Threads : store.drafts[u].text \subseteq Everything'
  BY <1>1, <1>4, EverythingHasNext
 <2>4. (\A u \in Threads : Accepted(u) \subseteq Everything') /\ excused \subseteq Everything'
  BY <1>1, <1>4, EverythingHasNext, ArrivedStays
 <2> QED BY <2>1, <2>2, <2>3, <2>4, PlacesKept
<1>8. TextKept' BY <1>3, <1>7, TextKeptIs DEF TextInvariant, Pieces
<1> QED BY <1>6, <1>8 DEF TextInvariant

LEMMA NextText ==
  ASSUME Typed, DiskCurrent, TextInvariant, [Next]_vars PROVE TextInvariant'
<1>1. CASE \/ Write \/ WriteFails \/ Acknowledge \/ Attach \/ Stage \/ UNCHANGED vars
           \/ Mounted /\ \E image \in Draft.images : Detach(image)
 BY <1>1, QuietStepsText
<1>2. CASE Render \/ Type \/ Reload \/ Send \/ Sync
 BY <1>2, RenderText, TypeText, ReloadText, SendText, SyncText
<1>3. CASE \E t \in Threads \cup {None} : Navigate(t) BY <1>3, NavigateText
<1>4. CASE \E t \in Threads : NewThread(t) \/ DeleteThread(t) BY <1>4, NewThreadText, DeleteText
<1>5. CASE \E s \in sends : Handle(s) \/ Created(s) \/ Started(s) \/ Discard(s) \/ Failed(s)
 BY <1>5, HandleText, StepText, StartedText, FailedText
<1> QED BY <1>1, <1>2, <1>3, <1>4, <1>5 DEF Next

LEMMA InitText == Init => TextInvariant
<1> SUFFICES ASSUME Init PROVE TextInvariant OBVIOUS
<1>1. sends = {} /\ view.optimistic = {} /\ spent.texts = 0 BY DEF Init, Kinds
<1>2. \A t \in Threads : server.messages[t] = << >> BY DEF Init
<1>3. OneText /\ Backed /\ StartedIsThere BY <1>1, <1>2 DEF OneText, Backed, StartedIsThere
<1>4. TextKept BY <1>1 DEF TextKept
<1> QED BY <1>3, <1>4 DEF TextInvariant

LEMMA AlwaysText == Spec => [](Typed /\ DiskCurrent /\ TextInvariant)
<1>1. Typed /\ DiskCurrent /\ TextInvariant /\ [Next]_vars => TextInvariant' BY NextText
<1> QED BY <1>1, InitText, AlwaysTyped, PTL DEF Spec

(* Whatever a user types stays in a draft, in a message on its way or shown *)
(* as sent, or reaches the server, unless the user leaves, reloads or       *)
(* deletes it (composerDraftStore, onSend).                                 *)
THEOREM TextIsKept == Spec => []TextKept
<1>1. TextInvariant => TextKept BY DEF TextInvariant
<1> QED BY <1>1, AlwaysText, PTL

--------------------
(* The threads.                                                             *)
\* What the conjuncts of ThreadsInvariant ask of one send, and of one thread.
CreatorSound(s) ==
    /\ Creates(s) => \/ s.thread \in store.registered
                     \/ server.messages[s.thread] # << >>
                     \/ server.threads[s.thread] = "deleted"
    /\ s.created \/ (s.step = "create" /\ s.answer = "ok") => server.threads[s.thread] # "absent"
    /\ s.step = "create" => ~s.created
    /\ s.step = "delete" => s.created
    /\ s.step = "delete" /\ s.answer = "ok" => server.threads[s.thread] = "deleted"

FailureCounted(s) ==
    /\ s.created /\ s.step = "start" /\ s.answer = "error" => spent.lost > 0
    /\ s.step = "delete" => spent.lost > 0
    /\ s.step = "delete" /\ s.answer = "error" => spent.lost > 1

Made(s) == s.created \/ (s.step = "create" /\ s.answer = "ok")

LEMMA ConjunctsAre ==
  /\ CreatorsSound <=> \A s \in sends : CreatorSound(s)
  /\ CreatorsSound' <=> \A s \in sends' : CreatorSound(s)'
  /\ FailuresCounted <=> spent.unanswered > 0 \/ \A s \in sends : FailureCounted(s)
  /\ FailuresCounted' <=> spent'.unanswered > 0 \/ \A s \in sends' : FailureCounted(s)'
 BY DEF CreatorsSound, CreatorSound, FailuresCounted, FailureCounted

LEMMA BoundsGrow ==
  ASSUME Grown
  PROVE /\ spent.lost \in Nat /\ spent.unanswered \in Nat /\ spent.reloads \in Nat
        /\ spent'.lost \in Nat /\ spent'.unanswered \in Nat /\ spent'.reloads \in Nat
        /\ spent.lost <= spent'.lost /\ spent.unanswered <= spent'.unanswered
        /\ spent.reloads <= spent'.reloads
 BY DEF Grown, Counted, Kinds

(* Sends that are as they were.                                             *)
LEMMA SoundStays ==
  ASSUME Grown, NEW s, NEW r, Alike(r, s),
    s.thread \in store.registered =>
       \/ s.thread \in store'.registered \/ server'.messages[s.thread] # << >>
       \/ server'.threads[s.thread] = "deleted",
    server.messages[s.thread] # << >> => server'.messages[s.thread] # << >>,
    server.threads[s.thread] = "deleted" => server'.threads[s.thread] = "deleted",
    server.threads[s.thread] # "absent" => server'.threads[s.thread] # "absent"
  PROVE /\ CreatorSound(s) => CreatorSound(r)'
        /\ FailureCounted(s) => FailureCounted(r)'
        /\ Made(s) <=> Made(r)
<1>1. CreatorSound(s) => CreatorSound(r)' BY DEF CreatorSound, Creates, Alike
<1>2. FailureCounted(s) => FailureCounted(r)' BY BoundsGrow DEF FailureCounted, Alike
<1>3. Made(s) <=> Made(r) BY DEF Made, Alike
<1> QED BY <1>1, <1>2, <1>3

(* A step that leaves server and sends, and takes no draft's thread away.   *)
LEMMA QuietThreads ==
  ASSUME Typed, ThreadsInvariant, Grown, SendsKept, server' = server,
    \A t \in known'.live : server.threads[t] # "absent",
    store.registered \subseteq store'.registered, excused \subseteq excused',
    \A t \in Threads : store'.drafts[t].text \subseteq store.drafts[t].text
  PROVE ThreadsInvariant'
<1>1. ThreadsThere' BY DEF ThreadsInvariant, ThreadsThere
<1>2. ASSUME NEW t \in Threads PROVE Placed(t)'
 <2>1. \A r \in sends' : \E s \in sends : r.text = s.text /\ r.thread = s.thread
  BY DEF SendsKept, Alike
 <2>2. Placed(t) BY DEF ThreadsInvariant
 <2> QED BY <2>1, <2>2, FaultsGrow DEF Placed
<1>3. \A r \in sends' : \E s \in sends :
         /\ CreatorSound(s) => CreatorSound(r)'
         /\ FailureCounted(s) => FailureCounted(r)'
 BY SoundStays DEF SendsKept
<1>4. \A s \in sends : \E r \in sends' : r.thread = s.thread /\ (Made(s) => Made(r))
 BY DEF SendsKept, Alike, Made
<1>5. CreatorsSound' BY <1>3, ConjunctsAre DEF ThreadsInvariant
<1>6. FailuresCounted' BY <1>3, ConjunctsAre, BoundsGrow DEF ThreadsInvariant
<1>7. EmptyHasCreator' BY <1>4, BoundsGrow DEF ThreadsInvariant, EmptyHasCreator, Made
<1> QED BY <1>1, <1>2, <1>5, <1>6, <1>7 DEF ThreadsInvariant

LEMMA UnmountThreads ==
  ASSUME Typed, ThreadsInvariant, Grown, NEW route, Unmount(route) \/ Go(route),
         server' = server, known' = known, store.registered \subseteq store'.registered,
         \A t \in Threads : store'.drafts[t].text \subseteq store.drafts[t].text
  PROVE ThreadsInvariant'
<1>1. SendsKept /\ excused \subseteq excused'
 <2>1. CASE Unmount(route) BY <2>1, UnmountIs DEF Typed
 <2>2. CASE Go(route) /\ ~Mounted BY <2>2, UnchangedKept DEF Go, Typed
 <2> QED BY <2>1, <2>2 DEF Go
<1> QED BY <1>1, QuietThreads DEF ThreadsInvariant, ThreadsThere

LEMMA QuietStepsThreads ==
  ASSUME Typed, ThreadsInvariant, Grown,
    \/ Render \/ Write \/ WriteFails \/ Acknowledge \/ Attach \/ Stage \/ Sync \/ UNCHANGED vars
    \/ \E t \in Threads \cup {None} : Navigate(t)
    \/ \E t \in Threads : NewThread(t)
    \/ Mounted /\ \E image \in Draft.images : Detach(image)
  PROVE ThreadsInvariant'
<1>1. CASE Render
 <2>1. CASE Mounted BY <1>1, <2>1, UnmountThreads DEF Render
 <2>2. CASE ~Mounted
  BY <1>1, <2>2, UnchangedKept, QuietThreads DEF Render, Typed, ThreadsInvariant, ThreadsThere
 <2> QED BY <2>1, <2>2
<1>2. CASE Write \/ WriteFails \/ Acknowledge \/ UNCHANGED vars
 BY <1>2, UnchangedKept, QuietThreads DEF Write, WriteFails, Acknowledge, vars, Typed, ThreadsInvariant, ThreadsThere
<1>3. CASE Sync
 <2>1. \A t \in known'.live : server.threads[t] # "absent" BY <1>3, SyncIs
 <2> QED BY <1>3, <2>1, SyncIs, UnchangedKept, QuietThreads DEF Typed
<1>4. CASE \E t \in Threads \cup {None} : Navigate(t) BY <1>4, UnmountThreads DEF Navigate
<1>5. ASSUME NEW t \in Threads, NewThread(t)
    PROVE  ThreadsInvariant'
 <2>1. store'.drafts = store.drafts /\ store'.registered = {t}
  BY <1>5, NewThreadMaps, MappedIs DEF NewThread, SetStore, Typed
 <2>2. store.registered \subseteq store'.registered
  BY <1>5, <2>1, NewThreadMaps DEF Typed, StoreTyped
 <2> QED BY <1>5, <2>1, <2>2, UnmountThreads DEF NewThread
<1>6. ASSUME Mounted, NEW draft, draft.text = Draft.text,
             store' = WithDraft(view.route, draft) \/ store' = store,
             UNCHANGED <<sends, server, known>>, excused' = excused
    PROVE  ThreadsInvariant'
 <2>1. view.route \in Threads BY <1>6, DraftIs
 <2>2. /\ \A t \in Threads : store'.drafts[t].text \subseteq store.drafts[t].text
       /\ store'.registered = store.registered
  BY <1>6, <2>1, WithDraftIs DEF Typed, Draft
 <2> QED BY <1>6, <2>2, UnchangedKept, QuietThreads DEF Typed, ThreadsInvariant, ThreadsThere
<1>7. CASE Attach
 <2> DEFINE draft == [Draft EXCEPT !.images = @ \cup {[id |-> spent.images + 1, url |-> urls + 1]}]
 <2>1. draft.text = Draft.text BY <1>7, DraftIs DEF Attach, Drafts
 <2>2. /\ store' = WithDraft(view.route, draft) /\ Mounted
       /\ UNCHANGED <<sends, server, known>> /\ excused' = excused
  BY <1>7 DEF Attach, SetStore
 <2> HIDE DEF draft
 <2> QED BY <2>1, <2>2, <1>6
<1>8. CASE Stage
 <2> DEFINE draft == [Draft EXCEPT !.persisted = Ids(Draft.images) \cap disk.drafts[view.route].persisted]
 <2>1. draft.text = Draft.text BY <1>8, DraftIs DEF Stage, Drafts
 <2>2. /\ store' = WithDraft(view.route, draft) \/ store' = store
       /\ Mounted /\ UNCHANGED <<sends, server, known>> /\ excused' = excused
  BY <1>8 DEF Stage, SetStore
 <2> HIDE DEF draft
 <2> QED BY <2>1, <2>2, <1>6
<1>9. ASSUME Mounted, NEW image \in Draft.images, Detach(image)
    PROVE  ThreadsInvariant'
 <2> DEFINE draft == [Draft EXCEPT !.images = @ \ {image}, !.persisted = @ \ {image.id}]
 <2>1. draft.text = Draft.text BY <1>9, DraftIs DEF Drafts
 <2>2. /\ store' = WithDraft(view.route, draft)
       /\ UNCHANGED <<sends, server, known>> /\ excused' = excused
  BY <1>9 DEF Detach, SetStore
 <2> HIDE DEF draft
 <2> QED BY <1>9, <2>1, <2>2, <1>6
<1> QED BY <1>1, <1>2, <1>3, <1>4, <1>5, <1>7, <1>8, <1>9

(* The view shows a thread that exists when a step is taken in it.          *)
LEMMA ShownExists ==
  ASSUME Mounted, ~NeedsRender
  PROVE view.route \in known.live \/ view.route \in store.registered
 BY DEF NeedsRender, Exists

LEMMA TypeThreads ==
  ASSUME Typed, ThreadsInvariant, Grown, ~NeedsRender, Type PROVE ThreadsInvariant'
<1> DEFINE draft == [Draft EXCEPT !.text = @ \cup {spent.texts + 1}]
<1>1. view.route \in Threads /\ draft.text = Draft.text \cup {spent.texts + 1}
 BY DraftIs DEF Type, Drafts
<1>2. /\ store' = WithDraft(view.route, draft)
      /\ UNCHANGED <<view, sends, server, known>>
      /\ excused' = IF view.route \in known.live /\ server.threads[view.route] = "deleted"
                    THEN excused \cup {spent.texts + 1} ELSE excused
 BY DEF Type, SetStore
<1> HIDE DEF draft
<1>3. /\ \A u \in Threads : u # view.route => store'.drafts[u] = store.drafts[u]
      /\ store'.drafts[view.route].text = store.drafts[view.route].text \cup {spent.texts + 1}
      /\ store'.registered = store.registered
 BY <1>1, <1>2, WithDraftIs DEF Typed, Draft
<1>4. ASSUME NEW t \in Threads PROVE Placed(t)'
 <2>1. Placed(t) BY DEF ThreadsInvariant
 <2>2. CASE t # view.route BY <1>2, <1>3, <2>1, <2>2, FaultsGrow DEF Placed
 <2>3. CASE t = view.route
  <3>1. t \in known.live => server.threads[t] # "absent" BY DEF ThreadsInvariant, ThreadsThere
  <3>2. server.threads[t] \in {"absent", "live", "deleted"} BY DEF Typed, ServerTyped
  <3>3. t \in known.live \/ t \in store.registered BY <2>3, ShownExists DEF Type
  <3> QED BY <1>2, <1>3, <2>1, <2>3, <3>1, <3>2, <3>3, FaultsGrow DEF Placed
 <2> QED BY <2>2, <2>3
<1>5. ThreadsThere' BY <1>2 DEF ThreadsInvariant, ThreadsThere
<1>6. CreatorsSound' /\ FailuresCounted' /\ EmptyHasCreator'
 BY <1>2, <1>3, BoundsGrow DEF ThreadsInvariant, CreatorsSound, Creates, FailuresCounted, EmptyHasCreator
<1> QED BY <1>4, <1>5, <1>6 DEF ThreadsInvariant

LEMMA ReloadThreads ==
  ASSUME Typed, DiskCurrent, ThreadsInvariant, Grown, Reload PROVE ThreadsInvariant'
<1>1. sends' = {} /\ server' = server /\ known'.live = {} /\ excused \subseteq excused'
 BY DEF Reload, Reloading
<1>2. spent'.reloads > 0 BY SpendIs DEF Reload, Reloading, Typed, Counted, Kinds
<1>3. \/ Outdated'
      \/ store'.registered = store.registered
         /\ \A t \in Threads : store'.drafts[t].text = store.drafts[t].text
 BY <1>2, ReloadKeeps, FaultsGrow DEF Outdated
<1>4. ASSUME NEW t \in Threads PROVE Placed(t)'
 <2>1. Placed(t) BY DEF ThreadsInvariant
 <2> QED BY <1>1, <1>3, <2>1, FaultsGrow DEF Placed
<1>5. ThreadsThere' /\ CreatorsSound' /\ FailuresCounted'
 BY <1>1 DEF ThreadsInvariant, ThreadsThere, CreatorsSound, FailuresCounted
<1>6. EmptyHasCreator' BY <1>2 DEF EmptyHasCreator
<1> QED BY <1>4, <1>5, <1>6 DEF ThreadsInvariant

(* A send that is to make its thread has it registered.                     *)
LEMMA SendThreads ==
  ASSUME Typed, ThreadsInvariant, Grown, ~NeedsRender, Send PROVE ThreadsInvariant'
<1>1. PICK s : /\ sends' = sends \cup {s}
               /\ s.thread = view.route /\ s.text = Draft.text /\ ~s.created /\ s.answer = "none"
               /\ s.step = IF view.route \in known.live THEN "start" ELSE "create"
 BY SendIs
<1>2. /\ view.route \in Threads /\ Mounted
      /\ store' = WithDraft(view.route, EmptyDraft)
      /\ UNCHANGED <<server, known, excused>>
 BY SendIs
<1>3. /\ \A t \in Threads : store'.drafts[t] = IF t = view.route THEN EmptyDraft ELSE store.drafts[t]
      /\ store'.registered = store.registered
 BY <1>2, WithDraftIs DEF Typed
<1>4. ASSUME NEW t \in Threads PROVE Placed(t)'
 <2>1. Placed(t) BY DEF ThreadsInvariant
 <2>2. s.thread = t => s.text = store.drafts[t].text BY <1>1 DEF Draft
 <2>3. store'.drafts[t].text \subseteq store.drafts[t].text BY <1>3 DEF EmptyDraft
 <2> QED BY <1>1, <1>2, <1>3, <2>1, <2>2, <2>3, FaultsGrow DEF Placed
<1>5. ThreadsThere' BY <1>2 DEF ThreadsInvariant, ThreadsThere
<1>6. CreatorSound(s)' /\ FailureCounted(s)'
 BY <1>1, <1>2, <1>3, ShownExists DEF CreatorSound, Creates, FailureCounted
<1>7. CreatorsSound' BY <1>1, <1>2, <1>3, <1>6, ConjunctsAre DEF ThreadsInvariant, CreatorSound
<1>8. FailuresCounted'
 <2>1. spent'.lost = spent.lost /\ spent'.unanswered = spent.unanswered
  BY SpendIs DEF Send, Sending, Typed, Kinds
 <2> QED BY <1>1, <1>6, <2>1, ConjunctsAre DEF ThreadsInvariant, FailureCounted
<1>9. EmptyHasCreator' BY <1>1, <1>2, BoundsGrow DEF ThreadsInvariant, EmptyHasCreator
<1> QED BY <1>4, <1>5, <1>7, <1>8, <1>9 DEF ThreadsInvariant

LEMMA AppendFills ==
  ASSUME NEW messages \in Seq(Received), NEW message \in Received
  PROVE Append(messages, message) # << >>
<1>1. Len(Append(messages, message)) = Len(messages) + 1 /\ Len(messages) \in Nat OBVIOUS
<1>2. Len(<< >>) = 0 OBVIOUS
<1> QED BY <1>1, <1>2

(* What a command that is served changes of the threads.                    *)
LEMMA ServedThreads ==
  ASSUME Typed, NEW s \in sends, server' = Served(s).applied
  PROVE /\ s.thread \in Threads
        /\ \A u \in Threads : u # s.thread =>
             server'.threads[u] = server.threads[u] /\ server'.messages[u] = server.messages[u]
        /\ server'.threads[s.thread] =
             CASE s.step = "create" /\ server.threads[s.thread] = "absent" -> "live"
               [] s.step = "delete" /\ server.threads[s.thread] # "absent" -> "deleted"
               [] OTHER -> server.threads[s.thread]
        /\ IF s.step = "start" /\ server.threads[s.thread] # "absent"
           THEN server'.messages[s.thread] # << >>
           ELSE server'.messages[s.thread] = server.messages[s.thread]
<1>1. s.thread \in Threads BY DEF Typed, SendsTyped, SendTyped
<1>2. server.threads \in [Threads -> {"absent", "live", "deleted"}] BY DEF Typed, ServerTyped
<1>3. server'.threads =
        CASE s.step = "create" /\ server.threads[s.thread] = "absent" ->
               [server.threads EXCEPT ![s.thread] = "live"]
          [] s.step = "delete" /\ server.threads[s.thread] # "absent" ->
               [server.threads EXCEPT ![s.thread] = "deleted"]
          [] OTHER -> server.threads
 BY ServedIs
<1>4. /\ \A u \in Threads : u # s.thread => server'.threads[u] = server.threads[u]
      /\ server'.threads[s.thread] =
           CASE s.step = "create" /\ server.threads[s.thread] = "absent" -> "live"
             [] s.step = "delete" /\ server.threads[s.thread] # "absent" -> "deleted"
             [] OTHER -> server.threads[s.thread]
 BY <1>1, <1>2, <1>3
<1>5. \A u \in Threads : u # s.thread => server'.messages[u] = server.messages[u]
 BY ServedMessages
<1>6. IF s.step = "start" /\ server.threads[s.thread] # "absent"
      THEN server'.messages[s.thread] # << >>
      ELSE server'.messages[s.thread] = server.messages[s.thread]
 <2> DEFINE arrives == s.step = "start" /\ server.threads[s.thread] # "absent"
            message == [id |-> s.id, mount |-> s.mount, text |-> s.text]
 <2>1. server'.messages =
         IF arrives THEN [server.messages EXCEPT ![s.thread] = Append(@, message)] ELSE server.messages
  BY ServedIs
 <2>2. server.messages \in [Threads -> Seq(Received)] BY DEF Typed, ServerTyped
 <2>3. message \in Received BY DEF Typed, SendsTyped, SendTyped, Counted, Kinds, Pieces, Received
 <2>4. CASE arrives
  <3> HIDE DEF message
  <3>1. server'.messages[s.thread] = Append(server.messages[s.thread], message)
   BY <1>1, <2>1, <2>2, <2>4
  <3>2. server.messages[s.thread] \in Seq(Received) BY <1>1, <2>2
  <3>3. Append(server.messages[s.thread], message) # << >> BY <2>3, <3>2, AppendFills
  <3> QED BY <2>4, <3>1, <3>3
 <2>5. CASE ~arrives BY <2>1, <2>5
 <2> QED BY <2>4, <2>5
<1> QED BY <1>1, <1>4, <1>5, <1>6

LEMMA HandleThreads ==
  ASSUME Typed, ThreadsInvariant, Grown, NEW s \in sends, Handle(s) PROVE ThreadsInvariant'
<1>1. PICK r : HandledAs(s, r) BY HandleIs
<1>2. UNCHANGED <<store, view, known, excused>> BY DEF Handle
<1>3. /\ sends' = (sends \ {s}) \cup {r}
      /\ r.thread = s.thread /\ r.text = s.text /\ r.step = s.step /\ r.created = s.created
      /\ s.answer = "none"
 BY <1>1 DEF HandledAs, Steps
<1>4. /\ s.thread \in Threads
      /\ \A t \in Threads : server.threads[t] \in {"absent", "live", "deleted"}
      /\ \A q \in sends : q.thread \in Threads
 BY DEF Typed, SendsTyped, SendTyped, ServerTyped
<1>5. CreatorSound(s) /\ \A q \in sends : CreatorSound(q) BY ConjunctsAre DEF ThreadsInvariant
<1>6. \* what holds of the server whether or not the command reached it
      /\ \A t \in Threads : /\ server.threads[t] # "absent" => server'.threads[t] # "absent"
                            /\ server.threads[t] = "deleted" => server'.threads[t] = "deleted"
                            /\ server.messages[t] # << >> => server'.messages[t] # << >>
                            /\ server'.messages[t] # << >> => server'.threads[t] # "absent"
      /\ \A t \in Threads :
            \/ server'.threads[t] = server.threads[t]
            \/ server'.threads[t] = "live"
            \/ /\ server'.threads[t] = "deleted"
               /\ server.messages[t] # << >> \/ t \in store.registered
 <2>1. CASE server' = server BY <2>1 DEF ThreadsInvariant, ThreadsThere
 <2>2. CASE server' = Served(s).applied
  <3>1. ASSUME NEW t \in Threads, t # s.thread
      PROVE  server'.threads[t] = server.threads[t] /\ server'.messages[t] = server.messages[t]
   BY <2>2, <3>1, ServedThreads
  <3>2. CASE s.step = "create"
   <4>1. /\ server'.messages[s.thread] = server.messages[s.thread]
         /\ server'.threads[s.thread] =
               IF server.threads[s.thread] = "absent" THEN "live" ELSE server.threads[s.thread]
    BY <2>2, <3>2, ServedThreads
   <4> QED BY <1>4, <3>1, <4>1 DEF ThreadsInvariant, ThreadsThere
  <3>3. CASE s.step = "start"
   <4>1. /\ server'.threads[s.thread] = server.threads[s.thread]
         /\ \/ server'.messages[s.thread] = server.messages[s.thread]
            \/ server.threads[s.thread] # "absent" /\ server'.messages[s.thread] # << >>
    BY <2>2, <3>3, ServedThreads
   <4> QED BY <1>4, <3>1, <4>1 DEF ThreadsInvariant, ThreadsThere
  <3>4. CASE s.step = "delete"
   <4>1. server.threads[s.thread] # "absent" BY <1>5, <3>4 DEF CreatorSound
   <4>2. /\ server'.threads[s.thread] = "deleted"
         /\ server'.messages[s.thread] = server.messages[s.thread]
    BY <2>2, <3>4, <4>1, ServedThreads
   <4>3. \/ s.thread \in store.registered \/ server.messages[s.thread] # << >>
         \/ server.threads[s.thread] = "deleted"
    BY <1>5, <3>4 DEF CreatorSound, Creates
   <4> QED BY <1>4, <3>1, <4>1, <4>2, <4>3 DEF ThreadsInvariant, ThreadsThere
  <3>5. s.step \in {"create", "start", "delete"} BY DEF Typed, SendsTyped, SendTyped
  <3> QED BY <3>2, <3>3, <3>4, <3>5
 <2> QED BY <1>1, <2>1, <2>2 DEF HandledAs
<1>7. ThreadsThere' BY <1>2, <1>6 DEF ThreadsInvariant, ThreadsThere, Typed, ServerTyped
<1>8. ASSUME NEW t \in Threads PROVE Placed(t)'
 <2>1. Placed(t) BY DEF ThreadsInvariant
 <2>2. \A q \in sends' : \E p \in sends : q.text = p.text /\ q.thread = p.thread BY <1>3
 <2> QED BY <1>2, <1>4, <1>6, <2>1, <2>2, FaultsGrow DEF Placed
<1>9. ASSUME NEW q \in sends \ {s}
    PROVE  CreatorSound(q)' /\ (FailureCounted(q) => FailureCounted(q)')
 <2>1. CreatorSound(q)' BY <1>2, <1>4, <1>5, <1>6 DEF CreatorSound
 <2>2. FailureCounted(q) => FailureCounted(q)' BY BoundsGrow DEF FailureCounted
 <2> QED BY <2>1, <2>2
<1>10. CreatorSound(r)'
 <2>1. Creates(r) => \/ r.thread \in store'.registered
                     \/ server'.messages[r.thread] # << >>
                     \/ server'.threads[r.thread] = "deleted"
  BY <1>2, <1>3, <1>4, <1>5, <1>6 DEF CreatorSound, Creates
 <2>2. r.created => server'.threads[r.thread] # "absent"
  BY <1>3, <1>4, <1>5, <1>6 DEF CreatorSound
 <2>3. r.answer = "ok" => server' = Served(s).applied /\ Served(s).answer = "ok"
  BY <1>1 DEF HandledAs
 <2>4. r.step = "create" /\ r.answer = "ok" => server'.threads[r.thread] # "absent"
  BY <1>3, <2>3, ServedIs, ServedThreads
 <2>5. r.step = "delete" /\ r.answer = "ok" => server'.threads[r.thread] = "deleted"
  <3>1. s.step = "delete" => server.threads[s.thread] # "absent" BY <1>5 DEF CreatorSound
  <3> QED BY <1>3, <2>3, <3>1, ServedThreads
 <2>6. (r.step = "create" => ~r.created) /\ (r.step = "delete" => r.created)
  BY <1>3, <1>5 DEF CreatorSound
 <2> QED BY <2>1, <2>2, <2>4, <2>5, <2>6 DEF CreatorSound
<1>11. CreatorsSound' BY <1>3, <1>9, <1>10, ConjunctsAre
<1>12. FailuresCounted'
 <2>1. CASE spent.unanswered > 0 \/ Spend("unanswered")
  <3>1. Spend("unanswered") => spent'.unanswered = spent.unanswered + 1
   BY SpendIs DEF Typed, Kinds
  <3>2. spent'.unanswered > 0 BY <2>1, <3>1, BoundsGrow
  <3> QED BY <3>2, ConjunctsAre
 <2>2. CASE ~(spent.unanswered > 0) /\ ~Spend("unanswered")
  <3>1. FailureCounted(s) /\ \A q \in sends : FailureCounted(q)
   BY <2>2, ConjunctsAre DEF ThreadsInvariant
  <3>2. \/ server' = server /\ r.answer = "error" /\ Spend("lost")
        \/ server' = Served(s).applied /\ r.answer = Served(s).answer
   BY <1>1, <2>2 DEF HandledAs
  <3>3. CASE server' = server /\ r.answer = "error" /\ Spend("lost")
   <4>1. spent'.lost = spent.lost + 1 BY <3>3, SpendIs DEF Typed, Kinds
   <4>2. FailureCounted(r)' BY <1>3, <3>1, <4>1, BoundsGrow DEF FailureCounted
   <4> QED BY <1>3, <1>9, <3>1, <4>2, ConjunctsAre
  <3>4. CASE server' = Served(s).applied /\ r.answer = Served(s).answer
   <4>1. s.step = "delete" => Served(s).answer = "ok" BY ServedIs
   <4>2. s.step = "start" /\ Served(s).answer = "error" => server.threads[s.thread] = "absent"
    BY ServedIs
   <4>3. ~(r.step = "start" /\ r.answer = "error" /\ r.created)
    BY <1>3, <1>5, <3>4, <4>2 DEF CreatorSound
   <4>4. FailureCounted(r)' BY <1>3, <3>1, <3>4, <4>1, <4>3, BoundsGrow DEF FailureCounted
   <4> QED BY <1>3, <1>9, <3>1, <4>4, ConjunctsAre
  <3> QED BY <3>2, <3>3, <3>4
 <2> QED BY <2>1, <2>2
<1>13. EmptyHasCreator'
 <2> SUFFICES ASSUME NEW t \in Threads, server'.threads[t] = "live", server'.messages[t] = << >>,
                     ~(spent'.lost > 1), ~(spent'.unanswered > 0), ~(spent'.reloads > 0)
     PROVE  \E q \in sends' : q.thread = t /\ Made(q)
  BY DEF EmptyHasCreator, Made
 <2>1. ~(spent.lost > 1) /\ ~(spent.unanswered > 0) /\ ~(spent.reloads > 0) BY BoundsGrow
 <2>2. server.messages[t] = << >> BY <1>6
 <2>3. CASE server.threads[t] = "live"
  <3>1. PICK q \in sends : q.thread = t /\ Made(q)
   BY <2>1, <2>2, <2>3 DEF ThreadsInvariant, EmptyHasCreator, Made
  <3>2. q = s => r.thread = t /\ Made(r) BY <1>3, <3>1 DEF Made
  <3> QED BY <1>3, <3>1, <3>2
 <2>4. CASE server.threads[t] # "live"
  <3>1. server' # server BY <2>4
  <3>2. /\ server' = Served(s).applied
        /\ r.answer = Served(s).answer \/ Spend("unanswered")
   BY <1>1, <3>1 DEF HandledAs
  <3>3. Spend("unanswered") => spent'.unanswered = spent.unanswered + 1
   BY SpendIs DEF Typed, Kinds
  <3>4. r.answer = Served(s).answer BY <3>2, <3>3, BoundsGrow
  <3>5. t = s.thread BY <2>4, <3>2, ServedThreads
  <3>6. s.step = "create" /\ server.threads[s.thread] = "absent"
   BY <2>4, <3>2, <3>5, ServedThreads
  <3>7. Served(s).answer = "ok" BY <3>6, ServedIs
  <3>8. Made(r) /\ r.thread = t BY <1>3, <3>4, <3>5, <3>6, <3>7 DEF Made
  <3> QED BY <1>3, <3>8
 <2> QED BY <2>3, <2>4
<1> QED BY <1>7, <1>8, <1>11, <1>12, <1>13 DEF ThreadsInvariant

(* The thread was made, or is to be deleted: the send goes on.              *)
LEMMA StepThreads ==
  ASSUME Typed, ThreadsInvariant, Grown, NEW s \in sends, Created(s) \/ Discard(s)
  PROVE ThreadsInvariant'
<1>1. PICK r : /\ Steps(s, r) /\ r.answer = "none" /\ r.created
               /\ \/ r.step = "start" /\ s.step = "create" /\ s.answer = "ok"
                  \/ r.step = "delete" /\ s.step = "start" /\ s.answer = "error" /\ s.created
 <2>1. CASE Created(s) BY <2>1, CreatedIs
 <2>2. CASE Discard(s) BY <2>2, DiscardIs
 <2> QED BY <2>1, <2>2
<1>2. UNCHANGED <<setting, spent, store, disk, dirty, view, mounts, server, known,
                  revoked, urls, excused>>
 BY CreatedIs, DiscardIs
<1>3. sends' = (sends \ {s}) \cup {r} /\ r.thread = s.thread /\ r.text = s.text BY <1>1 DEF Steps
<1>4. ASSUME NEW t \in Threads PROVE Placed(t)'
 <2>1. Placed(t) BY DEF ThreadsInvariant
 <2> QED BY <1>2, <1>3, <2>1, FaultsGrow DEF Placed
<1>5. CreatorSound(s) /\ \A q \in sends : CreatorSound(q) BY ConjunctsAre DEF ThreadsInvariant
<1>6. CreatorSound(r)' BY <1>1, <1>2, <1>3, <1>5 DEF CreatorSound, Creates
<1>7. CreatorsSound' BY <1>2, <1>3, <1>5, <1>6, ConjunctsAre DEF CreatorSound
<1>8. FailuresCounted'
 <2>1. CASE spent.unanswered > 0 BY <1>2, <2>1, ConjunctsAre
 <2>2. CASE ~(spent.unanswered > 0)
  <3>1. \A q \in sends : FailureCounted(q) BY <2>2, ConjunctsAre DEF ThreadsInvariant
  <3>2. FailureCounted(r)' BY <1>1, <1>2, <3>1 DEF FailureCounted
  <3> QED BY <1>2, <1>3, <3>1, <3>2, ConjunctsAre DEF FailureCounted
 <2> QED BY <2>1, <2>2
<1>9. EmptyHasCreator' BY <1>1, <1>2, <1>3 DEF ThreadsInvariant, EmptyHasCreator
<1>10. ThreadsThere' BY <1>2 DEF ThreadsInvariant, ThreadsThere
<1> QED BY <1>4, <1>7, <1>8, <1>9, <1>10 DEF ThreadsInvariant

(* A thread whose turn was started has its message.                         *)
LEMMA StartedThreads ==
  ASSUME Typed, TextInvariant, ThreadsInvariant, Grown, NEW s \in sends, Started(s)
  PROVE ThreadsInvariant'
<1>1. /\ s.step = "start" /\ s.answer = "ok" /\ sends' = sends \ {s}
      /\ UNCHANGED <<spent, view, server, known, excused>>
 BY DEF Started
<1>2. s.thread \in Threads /\ \A t \in Threads : server.threads[t] \in {"absent", "live", "deleted"}
 BY DEF Typed, SendsTyped, SendTyped, ServerTyped
<1>3. /\ \A t \in Threads : store'.drafts[t] = store.drafts[t]
      /\ \A t \in Threads : t \in store.registered => t \in store'.registered \/ t = s.thread
 BY <1>2, UnregisteredIs DEF Started, SetStore, Typed
<1>4. server.messages[s.thread] # << >> BY <1>1 DEF TextInvariant, StartedIsThere
<1>5. server.threads[s.thread] # "absent" BY <1>2, <1>4 DEF ThreadsInvariant, ThreadsThere
<1>6. ASSUME NEW t \in Threads PROVE Placed(t)'
 <2>1. Placed(t) BY DEF ThreadsInvariant
 <2> QED BY <1>1, <1>2, <1>3, <1>4, <1>5, <2>1, FaultsGrow DEF Placed
<1>7. CreatorsSound'
 <2>1. ASSUME NEW q \in sends' PROVE CreatorSound(q)'
  <3>1. CreatorSound(q) /\ q.thread \in Threads
   BY <1>1, ConjunctsAre DEF ThreadsInvariant, Typed, SendsTyped, SendTyped
  <3> QED BY <1>1, <1>3, <1>4, <3>1 DEF CreatorSound
 <2> QED BY <2>1, ConjunctsAre
<1>8. FailuresCounted' BY <1>1, ConjunctsAre DEF ThreadsInvariant, FailureCounted
<1>9. EmptyHasCreator' BY <1>1, <1>4 DEF ThreadsInvariant, EmptyHasCreator
<1>10. ThreadsThere' BY <1>1 DEF ThreadsInvariant, ThreadsThere
<1> QED BY <1>6, <1>7, <1>8, <1>9, <1>10 DEF ThreadsInvariant

(* A send that made its thread fails only when the thread is deleted, or    *)
(* when two commands were lost.                                             *)
LEMMA FailedThreads ==
  ASSUME Typed, ThreadsInvariant, Grown, NEW s \in sends, Failed(s) PROVE ThreadsInvariant'
<1>1. /\ sends' = sends \ {s} /\ UNCHANGED <<spent, server, known>>
      /\ \/ s.step \in {"create", "start"} /\ s.answer = "error" /\ ~s.created
         \/ s.step = "delete" /\ s.answer # "none"
 BY FailedIs
<1>2. s.thread \in Threads BY DEF Typed, SendsTyped, SendTyped
<1>3. /\ excused \subseteq excused' /\ store'.registered = store.registered
      /\ \A t \in Threads : \/ store'.drafts[t].text = store.drafts[t].text
                            \/ t = s.thread /\ store'.drafts[t].text = s.text
 <2>1. CASE /\ store' = WithDraft(s.thread, Restored(s))
            /\ urls' = urls + Cardinality(Cloned(s.images))
            /\ excused' = IF s.mount = view.mount THEN excused
                          ELSE excused \cup store.drafts[s.thread].text
  <3>1. spent' = spent /\ Counted' BY <1>1 DEF Grown
  <3>2. urls' = urls + Cardinality(Cloned(s.images)) BY <2>1
  <3>3. Restored(s).text = s.text BY <3>1, <3>2, RestoredIs
  <3>4. excused \subseteq excused'
   <4>1. excused' = IF s.mount = view.mount THEN excused
                    ELSE excused \cup store.drafts[s.thread].text
    BY <2>1
   <4> QED BY <4>1
  <3>5. store' = WithDraft(s.thread, Restored(s)) BY <2>1
  <3>6. /\ store'.registered = store.registered
        /\ \A t \in Threads :
             store'.drafts[t] = IF t = s.thread THEN Restored(s) ELSE store.drafts[t]
   BY <1>2, <3>5, WithDraftIs DEF Typed
  <3> QED BY <3>3, <3>4, <3>6
 <2>2. CASE UNCHANGED <<store, dirty, revoked, urls, excused>>
  <3>1. store' = store /\ excused' = excused BY <2>2
  <3> QED BY <3>1
 <2> QED BY <2>1, <2>2, FailedIs
<1>4. ASSUME NEW t \in Threads PROVE Placed(t)'
 <2>1. Placed(t) BY DEF ThreadsInvariant
 <2> QED BY <1>1, <1>3, <2>1, FaultsGrow DEF Placed
<1>5. CreatorsSound' /\ FailuresCounted'
 BY <1>1, <1>3, ConjunctsAre DEF ThreadsInvariant, CreatorSound, FailureCounted
<1>6. EmptyHasCreator'
 <2> SUFFICES ASSUME NEW t \in Threads, server.threads[t] = "live", server.messages[t] = << >>,
                     ~(spent.lost > 1), ~(spent.unanswered > 0), ~(spent.reloads > 0)
     PROVE  \E q \in sends' : q.thread = t /\ Made(q)
  BY <1>1 DEF EmptyHasCreator, Made
 <2>1. PICK q \in sends : q.thread = t /\ Made(q) BY DEF ThreadsInvariant, EmptyHasCreator, Made
 <2>2. q # s
  <3> SUFFICES ASSUME q = s PROVE FALSE OBVIOUS
  <3>1. s.step = "delete" /\ s.answer # "none" BY <1>1, <2>1 DEF Made
  <3>2. s.answer = "ok" => server.threads[t] = "deleted"
   BY <2>1, <3>1, ConjunctsAre DEF ThreadsInvariant, CreatorSound
  <3>3. s.answer = "error" => spent.lost > 1
   BY <3>1, ConjunctsAre DEF ThreadsInvariant, FailureCounted
  <3>4. s.answer \in {"none", "ok", "error"} BY DEF Typed, SendsTyped, SendTyped
  <3> QED BY <3>1, <3>2, <3>3, <3>4
 <2> QED BY <1>1, <2>1, <2>2
<1>7. ThreadsThere' BY <1>1 DEF ThreadsInvariant, ThreadsThere
<1> QED BY <1>4, <1>5, <1>6, <1>7 DEF ThreadsInvariant

LEMMA DeleteThreads ==
  ASSUME Typed, ThreadsInvariant, Grown, NEW t \in Threads, DeleteThread(t)
  PROVE ThreadsInvariant'
<1>1. /\ known' = known /\ server.threads[t] # "absent"
      /\ server'.threads = [server.threads EXCEPT ![t] = "deleted"]
      /\ server'.messages = server.messages
      /\ store'.registered = store.registered \ {t}
      /\ \A u \in Threads : store'.drafts[u] = IF u = t THEN EmptyDraft ELSE store.drafts[u]
      /\ SendsKept
 BY DeleteIs
<1>2. excused \subseteq excused' /\ Texts({s \in sends : s.thread = t}) \subseteq excused'
 <2> DEFINE texts == Texts({s \in sends : s.thread = t})
            shown == IF view.route = t THEN Texts(view.optimistic) ELSE {}
 <2>1. excused' = excused \cup store.drafts[t].text \cup texts \cup shown BY DeleteIs
 <2> HIDE DEF texts, shown
 <2>2. excused \subseteq excused' /\ texts \subseteq excused' BY <2>1
 <2> QED BY <2>2 DEF texts
<1>3. \A u \in Threads : server'.threads[u] = IF u = t THEN "deleted" ELSE server.threads[u]
 BY <1>1 DEF Typed, ServerTyped
<1>4. \A s \in sends : s.thread = t => s.text \subseteq excused' BY <1>2 DEF Texts
<1>5. \A r \in sends' : \E s \in sends : Alike(r, s) /\ s.thread \in Threads
 BY <1>1 DEF SendsKept, Typed, SendsTyped, SendTyped
<1>6. ASSUME NEW u \in Threads PROVE Placed(u)'
 <2>1. Placed(u) BY DEF ThreadsInvariant
 <2>2. CASE u # t
  <3>1. \A r \in sends' : \E s \in sends : r.text = s.text /\ r.thread = s.thread
   BY <1>5 DEF Alike
  <3> QED BY <1>1, <1>2, <1>3, <2>1, <2>2, <3>1, FaultsGrow DEF Placed
 <2>3. CASE u = t
  <3>1. store'.drafts[u].text \subseteq excused' BY <1>1, <2>3 DEF EmptyDraft
  <3>2. \A r \in sends' : r.thread = u => r.text \subseteq excused' BY <1>4, <1>5, <2>3 DEF Alike
  <3> QED BY <3>1, <3>2, FaultsGrow DEF Placed
 <2> QED BY <2>2, <2>3
<1>7. ThreadsThere' BY <1>1, <1>3 DEF ThreadsInvariant, ThreadsThere, Typed, ServerTyped
<1>8. ASSUME NEW r \in sends'
    PROVE  \E s \in sends : /\ CreatorSound(s) => CreatorSound(r)'
                            /\ FailureCounted(s) => FailureCounted(r)'
 <2>1. PICK s \in sends : Alike(r, s) /\ s.thread \in Threads BY <1>5
 <2> QED BY <1>1, <1>3, <2>1, SoundStays
<1>9. CreatorsSound' BY <1>8, ConjunctsAre DEF ThreadsInvariant
<1>10. FailuresCounted' BY <1>8, ConjunctsAre, BoundsGrow DEF ThreadsInvariant
<1>11. EmptyHasCreator'
 <2>1. \A s \in sends : \E r \in sends' : r.thread = s.thread /\ (Made(s) => Made(r))
  BY <1>1 DEF SendsKept, Alike, Made
 <2> QED BY <1>1, <1>3, <2>1, BoundsGrow DEF ThreadsInvariant, EmptyHasCreator, Made
<1> QED BY <1>6, <1>7, <1>9, <1>10, <1>11 DEF ThreadsInvariant

LEMMA NextThreads ==
  ASSUME Typed, DiskCurrent, TextInvariant, ThreadsInvariant, [Next]_vars
  PROVE ThreadsInvariant'
<1>1. Grown BY NextTyped
<1>2. CASE \/ Render
           \/ UNCHANGED vars
           \/ ~NeedsRender /\ (Write \/ WriteFails \/ Acknowledge \/ Attach \/ Stage \/ Sync)
           \/ \E t \in Threads \cup {None} : Navigate(t)
           \/ \E t \in Threads : NewThread(t)
           \/ Mounted /\ \E image \in Draft.images : Detach(image)
 BY <1>1, <1>2, QuietStepsThreads
<1>3. CASE ~NeedsRender /\ (Type \/ Reload \/ Send)
 BY <1>1, <1>3, TypeThreads, ReloadThreads, SendThreads
<1>4. CASE \E t \in Threads : DeleteThread(t) BY <1>1, <1>4, DeleteThreads
<1>5. CASE \E s \in sends : Handle(s) \/ Created(s) \/ Started(s) \/ Discard(s) \/ Failed(s)
 BY <1>1, <1>5, HandleThreads, StepThreads, StartedThreads, FailedThreads
<1> QED BY <1>2, <1>3, <1>4, <1>5 DEF Next

LEMMA InitThreads == Init => ThreadsInvariant
 BY DEF Init, ThreadsInvariant, ThreadsThere, Placed, EmptyDraft, CreatorsSound, FailuresCounted,
     EmptyHasCreator


LEMMA AlwaysThreads == Spec => [](Typed /\ DiskCurrent /\ TextInvariant /\ ThreadsInvariant)
<1>1. Typed /\ DiskCurrent /\ TextInvariant /\ ThreadsInvariant /\ [Next]_vars => ThreadsInvariant'
 BY NextThreads
<1>2. Spec => [](Typed /\ DiskCurrent) /\ []TextInvariant BY AlwaysTyped, AlwaysText, PTL
<1> QED BY <1>1, <1>2, InitThreads, PTL DEF Spec

--------------------
(* The previews.                                                            *)
LEMMA PreviewsAre ==
  /\ PreviewsValid <=>
       /\ \A t \in Threads : \A i \in store.drafts[t].images : i.url \in revoked => i.url = 0
       /\ \A m \in view.optimistic : \A i \in m.images : i.url \in revoked => i.url = 0
  /\ PreviewsValid' <=>
       /\ \A t \in Threads : \A i \in store'.drafts[t].images : i.url \in revoked' => i.url = 0
       /\ \A m \in view'.optimistic : \A i \in m.images : i.url \in revoked' => i.url = 0
 BY DEF PreviewsValid, Urls

(* The URL of an image that is shown was made.                              *)
LEMMA UrlsMade ==
  ASSUME Typed
  PROVE /\ urls \in Nat
        /\ \A t \in Threads : /\ store.drafts[t].images \in ImageSets
                              /\ \A i \in store.drafts[t].images : i.url \in 0..urls
        /\ \A m \in view.optimistic : \A i \in m.images : i.url \in 0..urls
        /\ revoked \subseteq 0..urls
<1>1. \A t \in Threads : store.drafts[t].images \in ImageSets
 BY DEF Typed, StoreTyped, Stores, Drafts
<1>2. \A m \in view.optimistic : m.images \in ImageSets BY DEF Typed, ViewTyped, Shown
<1> QED BY <1>1, <1>2 DEF Typed, Counted, Noted, ImageSets

(* A step that makes no URL, and revokes those of what it takes away.       *)
LEMMA FewerPreviews ==
  ASSUME PreviewsInvariant,
    \A t \in Threads : \A i \in store'.drafts[t].images :
       i \in store.drafts[t].images \/ i.url = 0,
    view'.optimistic \subseteq view.optimistic,
    \A x \in revoked' :
       \/ x \in revoked
       \/ \E t \in Threads : \E i \in store.drafts[t].images :
             i.url = x /\ i \notin store'.drafts[t].images
       \/ \E m \in view.optimistic \ view'.optimistic : \E i \in m.images : i.url = x
  PROVE PreviewsInvariant'
<1>1. OneOwner /\ PreviewsValid BY DEF PreviewsInvariant
<1>2. OneOwner' BY <1>1 DEF OneOwner
<1>3. ASSUME NEW t \in Threads, NEW i \in store'.drafts[t].images, i.url \in revoked', i.url # 0
    PROVE  FALSE
 <2>1. i \in store.drafts[t].images BY <1>3
 <2>2. i.url \notin revoked BY <1>1, <1>3, <2>1, PreviewsAre
 <2>3. ~ \E u \in Threads : \E j \in store.drafts[u].images :
            j.url = i.url /\ j \notin store'.drafts[u].images
  BY <1>1, <1>3, <2>1 DEF OneOwner
 <2>4. ~ \E m \in view.optimistic \ view'.optimistic : \E j \in m.images : j.url = i.url
  BY <1>1, <1>3, <2>1 DEF OneOwner
 <2> QED BY <1>3, <2>2, <2>3, <2>4
<1>4. ASSUME NEW n \in view'.optimistic, NEW i \in n.images, i.url \in revoked', i.url # 0
    PROVE  FALSE
 <2>1. n \in view.optimistic BY <1>4
 <2>2. i.url \notin revoked BY <1>1, <1>4, <2>1, PreviewsAre
 <2>3. ~ \E u \in Threads : \E j \in store.drafts[u].images :
            j.url = i.url /\ j \notin store'.drafts[u].images
  BY <1>1, <1>4, <2>1 DEF OneOwner
 <2>4. ~ \E m \in view.optimistic \ view'.optimistic : \E j \in m.images : j.url = i.url
  BY <1>1, <1>4, <2>1 DEF OneOwner
 <2> QED BY <1>4, <2>2, <2>3, <2>4
<1>5. PreviewsValid' BY <1>3, <1>4, PreviewsAre
<1> QED BY <1>2, <1>5 DEF PreviewsInvariant

(* Nothing that shows images, or revokes them, changes.                     *)
LEMMA SamePreviews ==
  ASSUME PreviewsInvariant, revoked' = revoked, view'.optimistic \subseteq view.optimistic,
    \A t \in Threads : store'.drafts[t].images \subseteq store.drafts[t].images
  PROVE PreviewsInvariant'
 BY FewerPreviews

LEMMA UnmountPreviews ==
  ASSUME Typed, PreviewsInvariant, NEW route, Unmount(route), store'.drafts = store.drafts
  PROVE PreviewsInvariant'
<1>1. /\ view'.optimistic = {}
      /\ revoked' = revoked \cup UNION {Urls(message.images) : message \in view.optimistic}
 BY UnmountIs DEF Typed
<1>2. \A x \in revoked' : x \in revoked \/ \E m \in view.optimistic : \E i \in m.images : i.url = x
 BY <1>1 DEF Urls
<1>3. view.optimistic \ view'.optimistic = view.optimistic /\ view'.optimistic \subseteq view.optimistic
 BY <1>1
<1> QED BY <1>2, <1>3, FewerPreviews

LEMMA GoPreviews ==
  ASSUME Typed, PreviewsInvariant, NEW route, Go(route), store'.drafts = store.drafts
  PROVE PreviewsInvariant'
<1>1. CASE Mounted BY <1>1, UnmountPreviews DEF Go
<1>2. CASE ~Mounted
 <2>1. view'.optimistic = view.optimistic /\ revoked' = revoked
  BY <1>2 DEF Go, Typed, ViewTyped, ViewFields
 <2> QED BY <2>1, SamePreviews
<1> QED BY <1>1, <1>2

LEMMA MovesPreviews ==
  ASSUME Typed, PreviewsInvariant,
    \/ Render
    \/ \E route \in Threads \cup {None} : Navigate(route)
    \/ \E t \in Threads : NewThread(t)
  PROVE PreviewsInvariant'
<1>1. CASE Render
 <2>1. CASE Mounted BY <1>1, <2>1, UnmountPreviews DEF Render
 <2>2. CASE ~Mounted
  <3>1. view'.optimistic = view.optimistic /\ revoked' = revoked /\ store' = store
   BY <1>1, <2>2 DEF Render, Typed, ViewTyped, ViewFields
  <3> QED BY <3>1, SamePreviews
 <2> QED BY <2>1, <2>2
<1>2. ASSUME NEW route \in Threads \cup {None}, Navigate(route)
    PROVE  PreviewsInvariant'
 BY <1>2, GoPreviews DEF Navigate
<1>3. ASSUME NEW t \in Threads, NewThread(t)
    PROVE  PreviewsInvariant'
 <2>1. store'.drafts = store.drafts
  BY <1>3, NewThreadMaps, MappedIs DEF NewThread, SetStore, Typed
 <2> QED BY <1>3, <2>1, GoPreviews DEF NewThread
<1> QED BY <1>1, <1>2, <1>3

(* A step that changes the text or the staging of the draft that is shown.  *)
LEMMA OneDraftPreviews ==
  ASSUME Typed, PreviewsInvariant, Mounted, NEW draft, draft.images = Draft.images,
    store' = WithDraft(view.route, draft) \/ store' = store,
    view'.optimistic = view.optimistic, revoked' = revoked
  PROVE PreviewsInvariant'
<1>1. view.route \in Threads BY DraftIs
<1>2. \A t \in Threads : store'.drafts[t].images = store.drafts[t].images
 BY <1>1, WithDraftIs DEF Typed, Draft
<1> QED BY <1>2, SamePreviews

LEMMA QuietStepsPreviews ==
  ASSUME Typed, PreviewsInvariant,
    Write \/ WriteFails \/ Acknowledge \/ Sync \/ Type \/ Stage \/ UNCHANGED vars
  PROVE PreviewsInvariant'
<1>1. CASE Write \/ WriteFails \/ Acknowledge \/ UNCHANGED vars
 BY <1>1, SamePreviews DEF Write, WriteFails, Acknowledge, Typed, ViewTyped, ViewFields, vars
<1>2. CASE Sync BY <1>2, SyncIs, SamePreviews
<1>3. CASE Type
 <2> DEFINE draft == [Draft EXCEPT !.text = @ \cup {spent.texts + 1}]
 <2>1. draft.images = Draft.images BY <1>3, DraftIs DEF Type, Drafts
 <2>2. /\ store' = WithDraft(view.route, draft) /\ Mounted /\ view' = view /\ revoked' = revoked
  BY <1>3 DEF Type, SetStore
 <2> HIDE DEF draft
 <2> QED BY <2>1, <2>2, OneDraftPreviews
<1>4. CASE Stage
 <2> DEFINE draft == [Draft EXCEPT !.persisted = Ids(Draft.images) \cap disk.drafts[view.route].persisted]
 <2>1. draft.images = Draft.images BY <1>4, DraftIs DEF Stage, Drafts
 <2>2. /\ store' = WithDraft(view.route, draft) \/ store' = store
       /\ Mounted /\ view'.optimistic = view.optimistic /\ revoked' = revoked
  BY <1>4 DEF Stage, SetStore, Typed, ViewTyped, ViewFields
 <2> HIDE DEF draft
 <2> QED BY <2>1, <2>2, OneDraftPreviews
<1> QED BY <1>1, <1>2, <1>3, <1>4

(* Images that come to a draft with URLs that nothing else has.             *)
LEMMA MorePreviews ==
  ASSUME OneOwner, NEW t \in Threads, NEW back,
    \A u \in Threads : store'.drafts[u].images =
       IF u = t THEN store.drafts[u].images \cup back ELSE store.drafts[u].images,
    \A c \in back, d \in back : c.url = d.url /\ c.url # 0 => c = d,
    \A c \in back, u \in Threads : \A i \in store.drafts[u].images : c.url = i.url => c.url = 0,
    \A c \in back, m \in view.optimistic : \A i \in m.images : c.url = i.url => c.url = 0,
    view'.optimistic \subseteq view.optimistic
  PROVE OneOwner'
<1>1. \A u \in Threads : \A i \in store'.drafts[u].images :
         i \in store.drafts[u].images \/ (u = t /\ i \in back)
 OBVIOUS
<1>2. ASSUME NEW u \in Threads, NEW v \in Threads, NEW i \in store'.drafts[u].images,
             NEW j \in store'.drafts[v].images, i.url = j.url, i.url # 0
    PROVE  u = v /\ i = j
 <2>1. CASE i \in store.drafts[u].images /\ j \in store.drafts[v].images
  BY <1>2, <2>1 DEF OneOwner
 <2>2. CASE i \in store.drafts[u].images /\ j \in back BY <1>2, <2>2
 <2>3. CASE i \in back /\ j \in store.drafts[v].images BY <1>2, <2>3
 <2>4. CASE u = t /\ i \in back /\ v = t /\ j \in back BY <1>2, <2>4
 <2> QED BY <1>1, <2>1, <2>2, <2>3, <2>4
<1>3. ASSUME NEW u \in Threads, NEW i \in store'.drafts[u].images, NEW m \in view'.optimistic,
             NEW j \in m.images, i.url = j.url
    PROVE  i.url = 0
 <2>1. CASE i \in store.drafts[u].images BY <1>3, <2>1 DEF OneOwner
 <2>2. CASE i \in back BY <1>3, <2>2
 <2> QED BY <1>1, <2>1, <2>2
<1>4. \A m, n \in view'.optimistic : \A i \in m.images, j \in n.images :
         i.url = j.url /\ i.url # 0 => m = n
 BY DEF OneOwner
<1> QED BY <1>2, <1>3, <1>4 DEF OneOwner

(* A new image has a URL that nothing else has.                             *)
LEMMA AttachPreviews ==
  ASSUME Typed, PreviewsInvariant, Attach PROVE PreviewsInvariant'
<1> DEFINE new == [id |-> spent.images + 1, url |-> urls + 1]
           draft == [Draft EXCEPT !.images = @ \cup {new}]
<1>1. view.route \in Threads /\ draft.images = Draft.images \cup {new} /\ new.url = urls + 1
 BY DraftIs DEF Attach, Drafts
<1>2. /\ store' = WithDraft(view.route, draft)
      /\ view'.optimistic = view.optimistic /\ revoked' = revoked
 BY DEF Attach, SetStore, Typed, ViewTyped, ViewFields
<1> HIDE DEF new, draft
<1> DEFINE back == {new}
<1>3. \A t \in Threads : store'.drafts[t].images =
         IF t = view.route THEN store.drafts[t].images \cup back ELSE store.drafts[t].images
 <2>1. \A t \in Threads : store'.drafts[t] = IF t = view.route THEN draft ELSE store.drafts[t]
  BY <1>1, <1>2, WithDraftIs DEF Typed
 <2> QED BY <1>1, <2>1 DEF Draft
<1>4. /\ \A t \in Threads : \A i \in store.drafts[t].images : i.url # new.url
      /\ \A m \in view.optimistic : \A i \in m.images : i.url # new.url
      /\ new.url \notin revoked
 <2>1. urls + 1 \notin 0..urls /\ urls \in Nat BY UrlsMade
 <2> QED BY <1>1, <2>1, UrlsMade
<1>5. OneOwner /\ PreviewsValid BY DEF PreviewsInvariant
<1>6. OneOwner'
 <2>1. /\ \A c \in back, d \in back : c.url = d.url /\ c.url # 0 => c = d
       /\ \A c \in back, u \in Threads : \A i \in store.drafts[u].images : c.url = i.url => c.url = 0
       /\ \A c \in back, m \in view.optimistic : \A i \in m.images : c.url = i.url => c.url = 0
  BY <1>4
 <2> HIDE DEF back
 <2> QED BY <1>1, <1>2, <1>3, <1>5, <2>1, MorePreviews
<1>7. PreviewsValid'
 <2>1. ASSUME NEW t \in Threads, NEW i \in store'.drafts[t].images, i.url \in revoked'
     PROVE  i.url = 0
  <3>1. i \in store.drafts[t].images \/ i = new BY <1>3, <2>1
  <3> QED BY <1>2, <1>4, <1>5, <2>1, <3>1, PreviewsAre
 <2>2. \A m \in view'.optimistic : \A i \in m.images : i.url \in revoked' => i.url = 0
  BY <1>2, <1>5, PreviewsAre
 <2> QED BY <2>1, <2>2, PreviewsAre
<1> QED BY <1>6, <1>7 DEF PreviewsInvariant

LEMMA DetachPreviews ==
  ASSUME Typed, PreviewsInvariant, Mounted, NEW image \in Draft.images, Detach(image)
  PROVE PreviewsInvariant'
<1> DEFINE draft == [Draft EXCEPT !.images = @ \ {image}, !.persisted = @ \ {image.id}]
<1>1. view.route \in Threads /\ draft.images = Draft.images \ {image} BY DraftIs DEF Drafts
<1>2. /\ store' = WithDraft(view.route, draft) /\ revoked' = revoked \cup {image.url}
      /\ view'.optimistic = view.optimistic
 BY DEF Detach, SetStore, Typed, ViewTyped, ViewFields
<1> HIDE DEF draft
<1>3. \A t \in Threads : store'.drafts[t].images =
         IF t = view.route THEN store.drafts[t].images \ {image} ELSE store.drafts[t].images
 <2>1. \A t \in Threads : store'.drafts[t] = IF t = view.route THEN draft ELSE store.drafts[t]
  BY <1>1, <1>2, WithDraftIs DEF Typed
 <2> QED BY <1>1, <2>1 DEF Draft
<1>4. image \in store.drafts[view.route].images /\ image \notin store'.drafts[view.route].images
 BY <1>1, <1>3 DEF Draft
<1> QED BY <1>1, <1>2, <1>3, <1>4, FewerPreviews

LEMMA ReloadPreviews ==
  ASSUME Typed, DiskCurrent, PreviewsInvariant, Reload PROVE PreviewsInvariant'
<1>1. \A t \in Threads : \A i \in store'.drafts[t].images : i.url = 0 BY ReloadKeeps
<1>2. view'.optimistic = {} /\ revoked' = {} BY DEF Reload, Reloading
<1> QED BY <1>1, <1>2, FewerPreviews

(* The images of a message were those of the composer, which is empty now.  *)
LEMMA SendPreviews ==
  ASSUME Typed, PreviewsInvariant, Send PROVE PreviewsInvariant'
<1>1. PICK s : view'.optimistic = view.optimistic \cup {Message(s)} /\ s.images = Draft.images
 BY SendIs
<1>2. view.route \in Threads /\ store' = WithDraft(view.route, EmptyDraft) /\ revoked' = revoked
 BY SendIs
<1>3. Message(s).images = store.drafts[view.route].images BY <1>1 DEF Message, Draft
<1>4. \A t \in Threads : store'.drafts[t].images =
         IF t = view.route THEN {} ELSE store.drafts[t].images
 <2>1. \A t \in Threads : store'.drafts[t] = IF t = view.route THEN EmptyDraft ELSE store.drafts[t]
  BY <1>2, WithDraftIs DEF Typed
 <2> QED BY <2>1 DEF EmptyDraft
<1>5. OneOwner /\ PreviewsValid BY DEF PreviewsInvariant
<1> DEFINE message == Message(s)
<1>6. view'.optimistic = view.optimistic \cup {message} /\ message.images = store.drafts[view.route].images
 BY <1>1, <1>3
<1> HIDE DEF message
<1>7. OneOwner'
 <2>1. ASSUME NEW t \in Threads, NEW u \in Threads, NEW i \in store'.drafts[t].images,
              NEW j \in store'.drafts[u].images, i.url = j.url, i.url # 0
     PROVE  t = u /\ i = j
  BY <1>4, <1>5, <2>1 DEF OneOwner
 <2>2. ASSUME NEW t \in Threads, NEW i \in store'.drafts[t].images, NEW m \in view'.optimistic,
              NEW j \in m.images, i.url = j.url
     PROVE  i.url = 0
  <3>1. t # view.route /\ i \in store.drafts[t].images BY <1>4, <2>2
  <3> QED BY <1>2, <1>5, <1>6, <2>2, <3>1 DEF OneOwner
 <2>3. ASSUME NEW m \in view'.optimistic, NEW n \in view'.optimistic, NEW i \in m.images,
              NEW j \in n.images, i.url = j.url, i.url # 0
     PROVE  m = n
  BY <1>2, <1>5, <1>6, <2>3 DEF OneOwner
 <2> QED BY <2>1, <2>2, <2>3 DEF OneOwner
<1>8. PreviewsValid' BY <1>2, <1>4, <1>5, <1>6, PreviewsAre
<1> QED BY <1>7, <1>8 DEF PreviewsInvariant

(* What is put back has previews of its own; the message that showed the    *)
(* old ones is gone.                                                        *)
LEMMA FailedPreviews ==
  ASSUME Typed, Grown, PreviewsInvariant, NEW s \in sends, Failed(s) PROVE PreviewsInvariant'
<1>1. CASE /\ store' = WithDraft(s.thread, Restored(s))
           /\ revoked' = revoked \cup UNION {Urls(m.images) : m \in Removed(s)}
           /\ urls' = urls + Cardinality(Cloned(s.images))
           /\ view'.optimistic = view.optimistic \ Removed(s)
 <2>1. spent' = spent /\ Counted' BY FailedIs DEF Grown
 <2>2. urls' = urls + Cardinality(Cloned(s.images)) BY <1>1
 <2> DEFINE old == store.drafts[s.thread].images
            back == {i \in Cloned(s.images) : i.id \notin Ids(old)}
 <2>3. s.thread \in Threads /\ Restored(s).images = old \cup back BY <2>1, <2>2, RestoredIs
 <2>4. s.images \in ImageSets /\ Counted BY DEF Typed, SendsTyped, SendTyped
 <2>5. /\ \A c \in back : c.url # 0 => c.url > urls
       /\ \A c, d \in back : c.url = d.url /\ c.url # 0 => c = d
       /\ \A c \in back : c.url \in Nat
  <3>1. /\ Cardinality(s.images) \in Nat
        /\ \A c \in Cloned(s.images) :
             /\ c \in [id : 1..spent.images, url : 0..urls + Cardinality(s.images)]
             /\ c.url # 0 => c.url > urls
        /\ \A c, d \in Cloned(s.images) : c.id = d.id \/ (c.url = d.url /\ c.url # 0) => c = d
   BY <2>4, ClonedIs
  <3>2. \A c \in Cloned(s.images) : c.url \in 0..urls + Cardinality(s.images) BY <3>1
  <3> QED BY <3>1, <3>2, UrlsMade
 <2> HIDE DEF old, back
 <2>6. store' = WithDraft(s.thread, Restored(s)) BY <1>1
 <2>7. \A t \in Threads : store'.drafts[t].images =
          IF t = s.thread THEN store.drafts[t].images \cup back ELSE store.drafts[t].images
  <3>1. \A t \in Threads : store'.drafts[t] = IF t = s.thread THEN Restored(s) ELSE store.drafts[t]
   BY <2>3, <2>6, WithDraftIs DEF Typed
  <3> QED BY <2>3, <3>1 DEF old
 <2>8. /\ \A c \in back : \A t \in Threads : \A i \in store.drafts[t].images : c.url = i.url => c.url = 0
       /\ \A c \in back : \A m \in view.optimistic : \A i \in m.images : c.url = i.url => c.url = 0
       /\ \A c \in back : c.url \in revoked => c.url = 0
  <3>1. \A c \in back : c.url \in 0..urls => c.url = 0 BY <2>5, UrlsMade
  <3> QED BY <3>1, UrlsMade
 <2>9. OneOwner /\ PreviewsValid BY DEF PreviewsInvariant
 <2>10. view'.optimistic \subseteq view.optimistic /\ Removed(s) \subseteq view.optimistic
        /\ view'.optimistic \cap Removed(s) = {}
  BY <1>1 DEF Removed
 <2>11. OneOwner' BY ZenonT(40), <2>3, <2>5, <2>7, <2>8, <2>9, <2>10, MorePreviews
 <2>12. \A x \in revoked' : x \in revoked \/ \E m \in Removed(s) : \E i \in m.images : i.url = x
  BY <1>1 DEF Urls
 <2>13. \A m \in Removed(s) : \A i \in m.images : i.url \in 0..urls BY <2>10, UrlsMade
 <2>14. ASSUME NEW t \in Threads, NEW i \in store'.drafts[t].images, i.url \in revoked'
     PROVE  i.url = 0
  <3>1. CASE i \in store.drafts[t].images
   <4>1. i.url \in revoked => i.url = 0 BY <2>9, <3>1, PreviewsAre
   <4>2. (\E m \in Removed(s) : \E j \in m.images : j.url = i.url) => i.url = 0
    BY <2>9, <2>10, <3>1 DEF OneOwner
   <4> QED BY <2>12, <2>14, <4>1, <4>2
  <3>2. CASE i \in back
   <4>1. i.url \in revoked => i.url = 0 BY <2>8, <3>2
   <4>2. (\E m \in Removed(s) : \E j \in m.images : j.url = i.url) => i.url = 0
    BY <2>8, <2>10, <3>2
   <4> QED BY <2>12, <2>14, <4>1, <4>2
  <3> QED BY <2>7, <2>14, <3>1, <3>2
 <2>15. ASSUME NEW n \in view'.optimistic, NEW i \in n.images, i.url \in revoked'
     PROVE  i.url = 0
  <3>1. n \in view.optimistic /\ n \notin Removed(s) BY <2>10, <2>15
  <3>2. i.url \in revoked => i.url = 0 BY <2>9, <3>1, PreviewsAre
  <3>3. (\E m \in Removed(s) : \E j \in m.images : j.url = i.url) => i.url = 0
   BY <2>9, <2>10, <3>1 DEF OneOwner
  <3> QED BY <2>12, <2>15, <3>2, <3>3
 <2>16. PreviewsValid' BY <2>14, <2>15, PreviewsAre
 <2> QED BY <2>11, <2>16 DEF PreviewsInvariant
<1>2. CASE view'.optimistic = view.optimistic /\ UNCHANGED <<store, dirty, revoked, urls, excused>>
 <2>1. store' = store /\ revoked' = revoked /\ view'.optimistic = view.optimistic BY <1>2
 <2> QED BY <2>1, SamePreviews
<1> QED BY <1>1, <1>2, FailedIs

LEMMA SendsPreviews ==
  ASSUME Typed, PreviewsInvariant, NEW s \in sends, Handle(s) \/ Created(s) \/ Started(s) \/ Discard(s)
  PROVE PreviewsInvariant'
<1>1. view' = view /\ revoked' = revoked BY CreatedIs, DiscardIs DEF Handle, Started
<1>2. store'.drafts = store.drafts
 <2>1. CASE Started(s)
  <3>1. s.thread \in Threads BY DEF Typed, SendsTyped, SendTyped
  <3> QED BY <2>1, <3>1, UnregisteredIs DEF Started, SetStore, Typed
 <2>2. CASE Handle(s) \/ Created(s) \/ Discard(s) BY <2>2, CreatedIs, DiscardIs DEF Handle
 <2> QED BY <2>1, <2>2
<1> QED BY <1>1, <1>2, SamePreviews

LEMMA DeletePreviews ==
  ASSUME Typed, PreviewsInvariant, NEW t \in Threads, DeleteThread(t) PROVE PreviewsInvariant'
<1>1. \A u \in Threads : store'.drafts[u].images = IF u = t THEN {} ELSE store.drafts[u].images
 <2>1. \A u \in Threads : store'.drafts[u] = IF u = t THEN EmptyDraft ELSE store.drafts[u]
  BY DeleteIs
 <2> QED BY <2>1 DEF EmptyDraft
<1>2. view'.optimistic \subseteq view.optimistic BY DeleteIs
<1>3. revoked' \subseteq revoked \cup Urls(store.drafts[t].images)
                  \cup UNION {Urls(m.images) : m \in view.optimistic \ view'.optimistic}
 BY DeleteIs
<1>4. \A x \in revoked' :
         \/ x \in revoked
         \/ \E i \in store.drafts[t].images : i.url = x
         \/ \E m \in view.optimistic \ view'.optimistic : \E i \in m.images : i.url = x
 BY <1>3 DEF Urls
<1> QED BY <1>1, <1>2, <1>4, FewerPreviews

LEMMA NextPreviews ==
  ASSUME Typed, DiskCurrent, PreviewsInvariant, [Next]_vars PROVE PreviewsInvariant'
<1>1. Grown BY NextTyped
<1>2. CASE \/ Render
           \/ \E route \in Threads \cup {None} : Navigate(route)
           \/ \E t \in Threads : NewThread(t)
 BY <1>2, MovesPreviews
<1>3. CASE Write \/ WriteFails \/ Acknowledge \/ Sync \/ Type \/ Stage \/ UNCHANGED vars
 BY <1>3, QuietStepsPreviews
<1>4. CASE Attach \/ Reload \/ Send BY <1>4, AttachPreviews, ReloadPreviews, SendPreviews
<1>5. CASE Mounted /\ \E image \in Draft.images : Detach(image) BY <1>5, DetachPreviews
<1>6. CASE \E t \in Threads : DeleteThread(t) BY <1>6, DeletePreviews
<1>7. CASE \E s \in sends : Handle(s) \/ Created(s) \/ Started(s) \/ Discard(s) \/ Failed(s)
 BY <1>1, <1>7, SendsPreviews, FailedPreviews
<1> QED BY <1>2, <1>3, <1>4, <1>5, <1>6, <1>7 DEF Next

LEMMA InitPreviews == Init => PreviewsInvariant
 BY DEF Init, PreviewsInvariant, OneOwner, PreviewsValid, EmptyDraft, Urls

(* Threads, drafts and previews belong together: no draft with text is out  *)
(* of reach, a first message that is refused leaves no empty thread, and no *)
(* preview that is shown was revoked (onSend, composerDraftStore).          *)
THEOREM DraftsAreSound == Spec => []DraftsSound
<1>1. PreviewsInvariant /\ Typed /\ DiskCurrent /\ [Next]_vars => PreviewsInvariant'
 BY NextPreviews
<1>2. Typed /\ ThreadsInvariant /\ PreviewsInvariant => DraftsSound
 <2> SUFFICES ASSUME Typed, ThreadsInvariant, PreviewsInvariant PROVE DraftsSound OBVIOUS
 <2>1. TypeOK BY TypedImplies
 <2>2. DraftsReachable BY DEF ThreadsInvariant, Placed, DraftsReachable
 <2>3. NoOrphanThread BY DEF ThreadsInvariant, EmptyHasCreator, NoOrphanThread
 <2>4. PreviewsValid BY DEF PreviewsInvariant
 <2> QED BY <2>1, <2>2, <2>3, <2>4 DEF DraftsSound
<1> QED BY <1>1, <1>2, AlwaysThreads, InitPreviews, PTL DEF Spec

--------------------
(* Once, and in order.                                                      *)
\* The server has had its answer to the last command of a send.
Past(s) == s.step = "delete" \/ (s.step = "start" /\ s.answer # "none")

\* r is what s has become without a message arriving.
Continues(r, s) ==
    /\ r.id = s.id /\ r.mount = s.mount /\ r.text = s.text
    /\ s.step = "start" /\ s.answer = "ok" => r.step = "start" /\ r.answer = "ok"
    /\ Past(s) => Past(r)

LEMMA KeptContinue ==
  ASSUME SendsKept \/ sends' \subseteq sends
  PROVE \A r \in sends' : \E s \in sends : Continues(r, s)
 BY DEF SendsKept, Alike, Continues, Past

LEMMA ApartStays ==
  ASSUME SendsTyped', Apart, server'.messages = server.messages,
    \A t \in Threads : store'.drafts[t].text \subseteq store.drafts[t].text,
    \A r \in sends' : \E s \in sends : Continues(r, s)
  PROVE Apart'
<1>1. \A t, u \in Threads : t # u => store'.drafts[t].text \cap store'.drafts[u].text = {}
 BY DEF Apart
<1>2. ASSUME NEW t \in Threads, NEW r \in sends' PROVE store'.drafts[t].text \cap r.text = {}
 <2>1. PICK s \in sends : Continues(r, s) OBVIOUS
 <2>2. store.drafts[t].text \cap s.text = {} /\ r.text = s.text BY <2>1 DEF Apart, Continues
 <2> QED BY <2>2
<1>3. ASSUME NEW r \in sends', NEW q \in sends', r # q PROVE r.text \cap q.text = {}
 <2>1. PICK s \in sends : Continues(r, s) OBVIOUS
 <2>2. PICK p \in sends : Continues(q, p) OBVIOUS
 <2>3. s # p BY <1>3, <2>1, <2>2 DEF Continues, SendsTyped
 <2>4. s.text \cap p.text = {} BY <2>3 DEF Apart
 <2> QED BY <2>1, <2>2, <2>4 DEF Continues
<1>4. ASSUME NEW t \in Threads, NEW i \in DOMAIN server.messages[t]
    PROVE  /\ \A u \in Threads : store'.drafts[u].text \cap server.messages[t][i].text = {}
           /\ \A r \in sends' : r.text \cap server.messages[t][i].text # {} =>
                  r.step = "start" /\ r.answer = "ok"
 <2>1. \A u \in Threads : store.drafts[u].text \cap server.messages[t][i].text = {} BY DEF Apart
 <2>2. ASSUME NEW r \in sends', r.text \cap server.messages[t][i].text # {}
     PROVE  r.step = "start" /\ r.answer = "ok"
  <3>1. PICK s \in sends : Continues(r, s) OBVIOUS
  <3>2. s.step = "start" /\ s.answer = "ok" BY <2>2, <3>1 DEF Apart, Continues
  <3> QED BY <3>1, <3>2 DEF Continues
 <2> QED BY <2>1, <2>2
<1> QED BY <1>1, <1>2, <1>3, <1>4 DEF Apart

(* A step with which no message comes or goes.                              *)
LEMMA QuietOrder ==
  ASSUME Grown, SendsTyped', OrderInvariant, server'.messages = server.messages,
    \A t \in Threads : store'.drafts[t].text \subseteq store.drafts[t].text,
    \A r \in sends' : \E s \in sends : Continues(r, s)
  PROVE OrderInvariant'
<1>1. OnePlace' BY FaultsGrow, ApartStays DEF OrderInvariant, OnePlace
<1>2. ASSUME NEW r \in sends', NEW t \in Threads, NEW i \in DOMAIN server.messages[t],
             server.messages[t][i].mount = r.mount
    PROVE  server.messages[t][i].id < r.id \/ (server.messages[t][i].id = r.id /\ Past(r))
 <2>1. PICK s \in sends : Continues(r, s) OBVIOUS
 <2>2. server.messages[t][i].id < s.id \/ (server.messages[t][i].id = s.id /\ Past(s))
  BY <1>2, <2>1 DEF OrderInvariant, LastOfView, Continues, Past
 <2> QED BY <2>1, <2>2 DEF Continues
<1>3. LastOfView' BY <1>2 DEF LastOfView, Past
<1>4. SentOnce' BY FaultsGrow DEF OrderInvariant, SentOnce
<1>5. SentInOrder' BY DEF OrderInvariant, SentInOrder
<1> QED BY <1>1, <1>3, <1>4, <1>5 DEF OrderInvariant

LEMMA MovesOrder ==
  ASSUME Typed, Typed', Grown, OrderInvariant,
    \/ Render
    \/ \E route \in Threads \cup {None} : Navigate(route)
    \/ \E t \in Threads : NewThread(t)
  PROVE OrderInvariant'
<1>1. SendsKept
 <2>1. ASSUME NEW route, Go(route) PROVE SendsKept BY <2>1, UnmountIs, UnchangedKept DEF Go, Typed
 <2>2. Render => SendsKept BY UnmountIs, UnchangedKept DEF Render, Typed
 <2> QED BY <2>1, <2>2 DEF Navigate, NewThread
<1>2. server' = server BY DEF Render, Navigate, NewThread
<1>3. store'.drafts = store.drafts
 <2>1. ASSUME NEW t \in Threads, NewThread(t) PROVE store'.drafts = store.drafts
  BY <2>1, NewThreadMaps, MappedIs DEF NewThread, SetStore, Typed
 <2> QED BY <2>1 DEF Render, Navigate
<1> QED BY <1>1, <1>2, <1>3, KeptContinue, QuietOrder DEF Typed

LEMMA OneDraftOrder ==
  ASSUME Typed, Typed', Grown, OrderInvariant, Mounted, NEW draft, draft.text = Draft.text,
    store' = WithDraft(view.route, draft) \/ store' = store,
    sends' = sends, server' = server
  PROVE OrderInvariant'
<1>1. view.route \in Threads BY DraftIs
<1>2. \A t \in Threads : store'.drafts[t].text = store.drafts[t].text
 BY <1>1, WithDraftIs DEF Typed, Draft
<1> QED BY <1>2, KeptContinue, QuietOrder DEF Typed

LEMMA QuietStepsOrder ==
  ASSUME Typed, Typed', DiskCurrent, Grown, OrderInvariant,
    \/ Write \/ WriteFails \/ Acknowledge \/ Sync \/ Attach \/ Stage \/ Reload \/ UNCHANGED vars
    \/ Mounted /\ \E image \in Draft.images : Detach(image)
  PROVE OrderInvariant'
<1>1. CASE Write \/ WriteFails \/ Acknowledge \/ Sync \/ UNCHANGED vars
 <2>1. store' = store /\ sends' = sends /\ server' = server
  BY <1>1 DEF Write, WriteFails, Acknowledge, Sync, vars
 <2> QED BY <2>1, KeptContinue, QuietOrder DEF Typed
<1>2. CASE Attach
 <2> DEFINE draft == [Draft EXCEPT !.images = @ \cup {[id |-> spent.images + 1, url |-> urls + 1]}]
 <2>1. draft.text = Draft.text BY <1>2, DraftIs DEF Attach, Drafts
 <2>2. store' = WithDraft(view.route, draft) /\ Mounted /\ sends' = sends /\ server' = server
  BY <1>2 DEF Attach, SetStore
 <2> HIDE DEF draft
 <2> QED BY <2>1, <2>2, OneDraftOrder
<1>3. CASE Stage
 <2> DEFINE draft == [Draft EXCEPT !.persisted = Ids(Draft.images) \cap disk.drafts[view.route].persisted]
 <2>1. draft.text = Draft.text BY <1>3, DraftIs DEF Stage, Drafts
 <2>2. /\ store' = WithDraft(view.route, draft) \/ store' = store
       /\ Mounted /\ sends' = sends /\ server' = server
  BY <1>3 DEF Stage, SetStore
 <2> HIDE DEF draft
 <2> QED BY <2>1, <2>2, OneDraftOrder
<1>4. CASE Reload
 <2>1. sends' = {} /\ server' = server BY <1>4 DEF Reload, Reloading
 <2>2. CASE Refused
  <3>1. spent'.reloads > 0 BY <1>4, SpendIs DEF Reload, Reloading, Typed, Counted, Kinds
  <3>2. Repeats' BY <2>2, <3>1, FaultsGrow DEF Outdated, Repeats
  <3> QED BY <2>1, <3>2 DEF OrderInvariant, OnePlace, LastOfView, SentOnce, SentInOrder
 <2>3. CASE ~Refused BY <1>4, <2>1, <2>3, ReloadKeeps, QuietOrder DEF Typed
 <2> QED BY <2>2, <2>3
<1>5. ASSUME Mounted, NEW image \in Draft.images, Detach(image)
    PROVE  OrderInvariant'
 <2> DEFINE draft == [Draft EXCEPT !.images = @ \ {image}, !.persisted = @ \ {image.id}]
 <2>1. draft.text = Draft.text BY <1>5, DraftIs DEF Drafts
 <2>2. store' = WithDraft(view.route, draft) /\ sends' = sends /\ server' = server
  BY <1>5 DEF Detach, SetStore
 <2> HIDE DEF draft
 <2> QED BY <1>5, <2>1, <2>2, OneDraftOrder
<1> QED BY <1>1, <1>2, <1>3, <1>4, <1>5

LEMMA StepsOrder ==
  ASSUME Typed, Typed', Grown, OrderInvariant, NEW s \in sends, Created(s) \/ Discard(s) \/ Started(s)
  PROVE OrderInvariant'
<1>1. CASE Created(s) \/ Discard(s)
 <2>1. PICK r : /\ Steps(s, r)
                /\ \/ r.step = "start" /\ s.step = "create"
                   \/ r.step = "delete" /\ s.answer = "error"
  <3>1. CASE Created(s) BY <3>1, CreatedIs
  <3>2. CASE Discard(s) BY <3>2, DiscardIs
  <3> QED BY <1>1, <3>1, <3>2
 <2>2. store' = store /\ server' = server BY <1>1, CreatedIs, DiscardIs
 <2>3. Continues(r, s) BY <2>1 DEF Steps, Continues, Past
 <2>4. \A q \in sends' : \E p \in sends : Continues(q, p) BY <2>1, <2>3 DEF Steps, Continues
 <2> QED BY <2>2, <2>4, QuietOrder DEF Typed
<1>2. CASE Started(s)
 <2>1. sends' \subseteq sends /\ server' = server BY <1>2 DEF Started
 <2>2. s.thread \in Threads BY DEF Typed, SendsTyped, SendTyped
 <2>3. store'.drafts = store.drafts BY <1>2, <2>2, UnregisteredIs DEF Started, SetStore, Typed
 <2> QED BY <2>1, <2>3, KeptContinue, QuietOrder DEF Typed
<1> QED BY <1>1, <1>2

LEMMA DeleteOrder ==
  ASSUME Typed, Typed', Grown, OrderInvariant, NEW t \in Threads, DeleteThread(t)
  PROVE OrderInvariant'
<1>1. \A u \in Threads : store'.drafts[u] = IF u = t THEN EmptyDraft ELSE store.drafts[u]
 BY DeleteIs
<1>2. \A u \in Threads : store'.drafts[u].text \subseteq store.drafts[u].text
 BY <1>1 DEF EmptyDraft
<1>3. server'.messages = server.messages /\ SendsKept BY DeleteIs
<1> QED BY <1>2, <1>3, KeptContinue, QuietOrder DEF Typed

(* All text that there is was typed.                                        *)
LEMMA TextTyped ==
  ASSUME Typed
  PROVE /\ \A t \in Threads : store.drafts[t].text \subseteq Pieces
        /\ \A s \in sends : s.text \subseteq Pieces
        /\ \A t \in Threads : \A i \in DOMAIN server.messages[t] :
             server.messages[t][i].text \subseteq Pieces
 BY DEF Typed, StoreTyped, Stores, Drafts, SendsTyped, SendTyped, ServerTyped

LEMMA TypeOrder ==
  ASSUME Typed, Typed', Grown, OrderInvariant, Type PROVE OrderInvariant'
<1> DEFINE draft == [Draft EXCEPT !.text = @ \cup {spent.texts + 1}]
           piece == spent.texts + 1
<1>1. view.route \in Threads /\ draft.text = Draft.text \cup {piece} BY DraftIs DEF Type, Drafts
<1>2. store' = WithDraft(view.route, draft) /\ UNCHANGED <<sends, server>> BY DEF Type, SetStore
<1> HIDE DEF draft
<1>3. \A t \in Threads : store'.drafts[t].text =
         IF t = view.route THEN store.drafts[t].text \cup {piece} ELSE store.drafts[t].text
 <2>1. \A t \in Threads : store'.drafts[t] = IF t = view.route THEN draft ELSE store.drafts[t]
  BY <1>1, <1>2, WithDraftIs DEF Typed
 <2> QED BY <1>1, <2>1 DEF Draft
<1>4. piece \notin Pieces BY DEF Typed, Counted, Kinds, Pieces
<1> HIDE DEF piece
<1>5. ASSUME Apart PROVE Apart'
 <2>1. /\ \A t \in Threads : piece \notin store.drafts[t].text
       /\ \A s \in sends : piece \notin s.text
       /\ \A t \in Threads : \A i \in DOMAIN server.messages[t] : piece \notin server.messages[t][i].text
  BY <1>4, TextTyped
 <2>2. ASSUME NEW t \in Threads, NEW X, piece \notin X, store.drafts[t].text \cap X = {}
     PROVE  store'.drafts[t].text \cap X = {}
  <3>1. store'.drafts[t].text \subseteq store.drafts[t].text \cup {piece} BY <1>3
  <3> QED BY <2>2, <3>1
 <2>3. ASSUME NEW t \in Threads, NEW u \in Threads, t # u
     PROVE  store'.drafts[t].text \cap store'.drafts[u].text = {}
  <3>1. store.drafts[t].text \cap store.drafts[u].text = {} BY <1>5, <2>3 DEF Apart
  <3>2. store'.drafts[t].text = store.drafts[t].text \/ store'.drafts[u].text = store.drafts[u].text
   BY <1>3, <2>3
  <3>3. store.drafts[u].text \cap store.drafts[t].text = {} BY <3>1
  <3>4. store'.drafts[t].text \cap store.drafts[u].text = {} BY <2>1, <2>2, <3>1
  <3>5. store'.drafts[u].text \cap store.drafts[t].text = {} BY <2>1, <2>2, <3>3
  <3> QED BY <3>2, <3>4, <3>5
 <2>4. \A t \in Threads, s \in sends : store'.drafts[t].text \cap s.text = {}
  <3>1. \A t \in Threads, s \in sends : store.drafts[t].text \cap s.text = {} BY <1>5 DEF Apart
  <3> QED BY <2>1, <2>2, <3>1
 <2>5. \A t \in Threads : \A i \in DOMAIN server.messages[t] : \A u \in Threads :
          store'.drafts[u].text \cap server.messages[t][i].text = {}
  <3>1. \A t \in Threads : \A i \in DOMAIN server.messages[t] : \A u \in Threads :
           store.drafts[u].text \cap server.messages[t][i].text = {}
   BY <1>5 DEF Apart
  <3> QED BY <2>1, <2>2, <3>1
 <2> QED BY <1>2, <1>5, <2>3, <2>4, <2>5 DEF Apart
<1>6. OnePlace' BY <1>5, FaultsGrow DEF OrderInvariant, OnePlace
<1>7. LastOfView' /\ SentInOrder' BY <1>2 DEF OrderInvariant, LastOfView, SentInOrder
<1>8. SentOnce' BY <1>2, FaultsGrow DEF OrderInvariant, SentOnce
<1> QED BY <1>6, <1>7, <1>8 DEF OrderInvariant

(* A message that is sent takes its text from the composer, and is later    *)
(* than all of its view.                                                    *)
LEMMA SendOrder ==
  ASSUME Typed, Typed', Grown, OrderInvariant, Send PROVE OrderInvariant'
<1>1. PICK s : /\ sends' = sends \cup {s} /\ s.id = spent.sends + 1 /\ s.text = Draft.text
               /\ s.answer = "none"
 BY SendIs
<1>2. view.route \in Threads /\ store' = WithDraft(view.route, EmptyDraft) /\ server' = server
 BY SendIs
<1>3. s.text = store.drafts[view.route].text BY <1>1 DEF Draft
<1>4. \A t \in Threads : store'.drafts[t].text = IF t = view.route THEN {} ELSE store.drafts[t].text
 <2>1. \A t \in Threads : store'.drafts[t] = IF t = view.route THEN EmptyDraft ELSE store.drafts[t]
  BY <1>2, WithDraftIs DEF Typed
 <2> QED BY <2>1 DEF EmptyDraft
<1>5. ASSUME Apart PROVE Apart'
 <2>1. \A t, u \in Threads : t # u => store'.drafts[t].text \cap store'.drafts[u].text = {}
  BY <1>4, <1>5 DEF Apart
 <2>2. \A t \in Threads, q \in sends' : store'.drafts[t].text \cap q.text = {}
  BY <1>1, <1>2, <1>3, <1>4, <1>5 DEF Apart
 <2>3. \A q \in sends : q.text \cap s.text = {} BY <1>2, <1>3, <1>5 DEF Apart
 <2>4. \A q, r \in sends' : q # r => q.text \cap r.text = {} BY <1>1, <1>5, <2>3 DEF Apart
 <2>5. ASSUME NEW t \in Threads, NEW i \in DOMAIN server.messages[t]
     PROVE  /\ \A u \in Threads : store'.drafts[u].text \cap server.messages[t][i].text = {}
            /\ \A q \in sends' : q.text \cap server.messages[t][i].text # {} =>
                   q.step = "start" /\ q.answer = "ok"
  <3>1. \A u \in Threads : store.drafts[u].text \cap server.messages[t][i].text = {}
   BY <1>5 DEF Apart
  <3>2. \A q \in sends : q.text \cap server.messages[t][i].text # {} =>
           q.step = "start" /\ q.answer = "ok"
   BY <1>5 DEF Apart
  <3>3. s.text \cap server.messages[t][i].text = {} BY <1>2, <1>3, <3>1
  <3> QED BY <1>1, <1>4, <3>1, <3>2, <3>3
 <2> QED BY <1>2, <2>1, <2>2, <2>4, <2>5 DEF Apart
<1>6. OnePlace' BY <1>5, FaultsGrow DEF OrderInvariant, OnePlace
<1>7. LastOfView'
 <2>1. ASSUME NEW t \in Threads, NEW i \in DOMAIN server.messages[t]
     PROVE  server.messages[t][i].id < s.id
  <3>1. server.messages[t][i].id \in 1..spent.sends /\ spent.sends \in Nat
   BY DEF Typed, ServerTyped, Counted, Kinds
  <3> QED BY <1>1, <3>1
 <2> QED BY <1>1, <1>2, <2>1 DEF OrderInvariant, LastOfView
<1>8. SentOnce' /\ SentInOrder' BY <1>2, FaultsGrow DEF OrderInvariant, SentOnce, SentInOrder
<1> QED BY <1>6, <1>7, <1>8 DEF OrderInvariant

(* What is put back was not accepted: it is nowhere else.                   *)
LEMMA FailedOrder ==
  ASSUME Typed, Typed', Grown, OrderInvariant, NEW s \in sends, Failed(s) PROVE OrderInvariant'
<1>1. /\ sends' = sends \ {s} /\ server' = server /\ spent' = spent
      /\ ~(s.step = "start" /\ s.answer = "ok")
 BY FailedIs
<1>2. CASE store' = store BY <1>1, <1>2, KeptContinue, QuietOrder DEF Typed
<1>3. CASE /\ store' = WithDraft(s.thread, Restored(s))
           /\ urls' = urls + Cardinality(Cloned(s.images))
 <2>1. Counted' BY DEF Grown
 <2>2. s.thread \in Threads /\ Restored(s).text = s.text BY <1>1, <1>3, <2>1, RestoredIs
 <2>3. \A t \in Threads : store'.drafts[t].text = IF t = s.thread THEN s.text ELSE store.drafts[t].text
  <3>1. \A t \in Threads : store'.drafts[t] = IF t = s.thread THEN Restored(s) ELSE store.drafts[t]
   BY <1>3, <2>2, WithDraftIs DEF Typed
  <3> QED BY <2>2, <3>1
 <2>4. ASSUME Apart PROVE Apart'
  <3>1. /\ \A t \in Threads : store.drafts[t].text \cap s.text = {}
        /\ \A q \in sends : q # s => s.text \cap q.text = {}
        /\ \A t \in Threads : \A i \in DOMAIN server.messages[t] :
             s.text \cap server.messages[t][i].text = {}
   BY <1>1, <2>4 DEF Apart
  <3>2. \A t, u \in Threads : t # u => store'.drafts[t].text \cap store'.drafts[u].text = {}
   BY <2>3, <2>4, <3>1 DEF Apart
  <3>3. \A t \in Threads, q \in sends' : store'.drafts[t].text \cap q.text = {}
   BY <1>1, <2>3, <2>4, <3>1 DEF Apart
  <3>4. \A q, r \in sends' : q # r => q.text \cap r.text = {} BY <1>1, <2>4 DEF Apart
  <3>5. ASSUME NEW t \in Threads, NEW i \in DOMAIN server.messages[t]
      PROVE  \A u \in Threads : store'.drafts[u].text \cap server.messages[t][i].text = {}
   BY <2>3, <2>4, <3>1 DEF Apart
  <3>6. \A t \in Threads : \A i \in DOMAIN server.messages[t] : \A q \in sends' :
           q.text \cap server.messages[t][i].text # {} => q.step = "start" /\ q.answer = "ok"
   BY <1>1, <2>4 DEF Apart
  <3> QED BY <1>1, <3>2, <3>3, <3>4, <3>5, <3>6 DEF Apart
 <2>5. OnePlace' BY <2>4, FaultsGrow DEF OrderInvariant, OnePlace
 <2>6. LastOfView' /\ SentInOrder' BY <1>1 DEF OrderInvariant, LastOfView, SentInOrder
 <2>7. SentOnce' BY <1>1, FaultsGrow DEF OrderInvariant, SentOnce
 <2> QED BY <2>5, <2>6, <2>7 DEF OrderInvariant
<1> QED BY <1>2, <1>3, FailedIs

(* The message that arrives is the last of its view, and is nowhere else.   *)
LEMMA ArrivesOrder ==
  ASSUME Typed, Typed', Grown, OrderInvariant, NEW s \in sends, NEW r, HandledAs(s, r),
    store' = store, server' = Served(s).applied,
    s.step = "start", server.threads[s.thread] # "absent"
  PROVE OrderInvariant'
<1> DEFINE old == server.messages[s.thread]
           new == Len(old) + 1
<1>1. /\ s.thread \in Threads
      /\ \A t \in Threads : t # s.thread => server'.messages[t] = server.messages[t]
 <2>1. s.thread \in Threads BY DEF Typed, SendsTyped, SendTyped
 <2>2. \A t \in Threads : t # s.thread => server'.messages[t] = server.messages[t]
  BY ZenonT(40), ServedMessages
 <2> QED BY <2>1, <2>2
<1>2. /\ DOMAIN server'.messages[s.thread] = DOMAIN old \cup {new}
      /\ server'.messages[s.thread][new] = [id |-> s.id, mount |-> s.mount, text |-> s.text]
      /\ \A i \in DOMAIN old : server'.messages[s.thread][i] = old[i]
      /\ Len(old) \in Nat /\ DOMAIN old = 1..Len(old)
 BY SMTT(30), <1>1, ServedMessages
<1>3. /\ server'.messages[s.thread][new].id = s.id
      /\ server'.messages[s.thread][new].mount = s.mount
      /\ server'.messages[s.thread][new].text = s.text
 BY <1>2
<1>4. \A i \in DOMAIN old : i \in Nat /\ i < new BY <1>2
<1>5. /\ sends' = (sends \ {s}) \cup {r} /\ s.answer = "none"
      /\ r.id = s.id /\ r.mount = s.mount /\ r.text = s.text /\ r.step = s.step
 BY DEF HandledAs, Steps
<1>6. r.answer # "none" /\ (r.answer = "ok" \/ Repeats' \/ server' = server)
 <2>1. Served(s).answer = "ok" BY ServedIs
 <2>2. Spend("unanswered") => Repeats'
  <3>1. Spend("unanswered") => spent'.unanswered = spent.unanswered + 1
   BY SpendIs DEF Typed, Kinds
  <3> QED BY <3>1, BoundsGrow DEF Repeats
 <2> QED BY <2>1, <2>2 DEF HandledAs
<1> HIDE DEF old, new
<1>7. server' # server
 <2>1. new \in DOMAIN server'.messages[s.thread] /\ new \notin DOMAIN old BY <1>2, <1>4 DEF new
 <2> QED BY <2>1 DEF old
\* a message of the server is an old one, or this one
<1>8. ASSUME NEW t \in Threads, NEW i \in DOMAIN server'.messages[t]
    PROVE  \/ i \in DOMAIN server.messages[t] /\ server'.messages[t][i] = server.messages[t][i]
           \/ t = s.thread /\ i = new
 BY <1>1, <1>2, <1>8 DEF old
<1>9. ASSUME Apart, ~(Repeats') PROVE Apart'
 <2>1. r.answer = "ok" BY <1>6, <1>7, <1>9
 <2>2. \A t \in Threads, q \in sends' : store.drafts[t].text \cap q.text = {}
  BY <1>5, <1>9 DEF Apart
 <2>3. \A q \in sends : q # s => s.text \cap q.text = {} BY <1>9 DEF Apart
 <2>4. \A p, q \in sends' : p # q => p.text \cap q.text = {}
  <3>1. \A q \in sends \ {s} : r.text \cap q.text = {} BY <1>5, <2>3
  <3> QED BY <1>5, <1>9, <3>1 DEF Apart
 <2>5. ASSUME NEW t \in Threads, NEW i \in DOMAIN server'.messages[t]
     PROVE  /\ \A u \in Threads : store.drafts[u].text \cap server'.messages[t][i].text = {}
            /\ \A q \in sends' : q.text \cap server'.messages[t][i].text # {} =>
                   q.step = "start" /\ q.answer = "ok"
  <3>1. CASE i \in DOMAIN server.messages[t] /\ server'.messages[t][i] = server.messages[t][i]
   <4>1. \A u \in Threads : store.drafts[u].text \cap server.messages[t][i].text = {}
    BY <1>9, <3>1 DEF Apart
   <4>2. \A q \in sends : q.text \cap server.messages[t][i].text # {} =>
            q.step = "start" /\ q.answer = "ok"
    BY <1>9, <3>1 DEF Apart
   <4> QED BY <1>5, <3>1, <4>1, <4>2
  <3>2. CASE t = s.thread /\ i = new
   <4>1. server'.messages[t][i].text = s.text BY <1>3, <3>2
   <4>2. \A u \in Threads : store.drafts[u].text \cap s.text = {} BY <1>9 DEF Apart
   <4> QED BY <1>5, <2>1, <2>3, <4>1, <4>2
  <3> QED BY <1>8, <3>1, <3>2
 <2> QED BY <1>9, <2>2, <2>4, <2>5 DEF Apart
<1>10. OnePlace' BY <1>9, FaultsGrow DEF OrderInvariant, OnePlace
<1>11. \A t \in Threads : \A i \in DOMAIN server.messages[t] :
          server.messages[t][i].mount = s.mount => server.messages[t][i].id < s.id
 BY <1>5 DEF OrderInvariant, LastOfView
<1>12. LastOfView'
 <2>1. ASSUME NEW q \in sends', NEW t \in Threads, NEW i \in DOMAIN server'.messages[t],
              server'.messages[t][i].mount = q.mount
     PROVE  server'.messages[t][i].id < q.id \/ (server'.messages[t][i].id = q.id /\ Past(q))
  <3>1. CASE q = r
   <4>1. CASE i \in DOMAIN server.messages[t] /\ server'.messages[t][i] = server.messages[t][i]
    BY <1>5, <1>11, <2>1, <3>1, <4>1
   <4>2. CASE t = s.thread /\ i = new BY <1>3, <1>5, <1>6, <3>1, <4>2 DEF Past
   <4> QED BY <1>8, <4>1, <4>2
  <3>2. CASE q \in sends \ {s}
   <4>1. q.mount # s.mount BY <3>2 DEF Typed, SendsTyped
   <4>2. i \in DOMAIN server.messages[t] /\ server'.messages[t][i] = server.messages[t][i]
    BY <1>3, <1>8, <2>1, <4>1
   <4> QED BY <2>1, <3>2, <4>2 DEF OrderInvariant, LastOfView, Past
  <3> QED BY <1>5, <3>1, <3>2
 <2> QED BY <2>1 DEF LastOfView, Past
<1>13. SentInOrder'
 <2>1. ASSUME NEW t \in Threads, NEW i \in DOMAIN server'.messages[t],
              NEW j \in DOMAIN server'.messages[t], i < j,
              server'.messages[t][i].mount = server'.messages[t][j].mount
     PROVE  server'.messages[t][i].id < server'.messages[t][j].id
  <3>1. CASE t = s.thread /\ j = new
   <4>1. i # new BY SMTT(30), <1>2, <2>1, <3>1 DEF new
   <4>2. i \in DOMAIN server.messages[t] /\ server'.messages[t][i] = server.messages[t][i]
    BY <1>8, <4>1
   <4> QED BY <1>3, <1>11, <2>1, <3>1, <4>2
  <3>2. CASE j \in DOMAIN server.messages[t] /\ server'.messages[t][j] = server.messages[t][j]
   <4>1. ~(t = s.thread /\ i = new)
    <5>1. t = s.thread => j \in Nat /\ j < new BY <1>4, <3>2 DEF old
    <5>2. new \in Nat BY <1>2 DEF new
    <5> QED BY <2>1, <5>1, <5>2
   <4>2. i \in DOMAIN server.messages[t] /\ server'.messages[t][i] = server.messages[t][i]
    BY <1>8, <4>1
   <4> QED BY <2>1, <3>2, <4>2 DEF OrderInvariant, SentInOrder
  <3> QED BY <1>8, <3>1, <3>2
 <2> QED BY <2>1 DEF SentInOrder
<1>14. SentOnce'
 <2>1. ASSUME NEW t \in Threads, NEW u \in Threads, NEW i \in DOMAIN server'.messages[t],
              NEW j \in DOMAIN server'.messages[u],
              server'.messages[t][i].text \cap server'.messages[u][j].text # {},
              ~(Repeats')
     PROVE  <<t, i>> = <<u, j>>
  <3>1. Apart /\ ~(Repeats) BY <2>1, FaultsGrow DEF OrderInvariant, OnePlace
  <3>2. \A v \in Threads : \A k \in DOMAIN server.messages[v] :
           s.text \cap server.messages[v][k].text = {}
   BY <1>5, <3>1 DEF Apart
  <3>3. CASE t = s.thread /\ i = new /\ u = s.thread /\ j = new BY <3>3
  <3>4. CASE /\ t = s.thread /\ i = new
             /\ j \in DOMAIN server.messages[u] /\ server'.messages[u][j] = server.messages[u][j]
   BY <1>3, <2>1, <3>2, <3>4
  <3>5. CASE /\ u = s.thread /\ j = new
             /\ i \in DOMAIN server.messages[t] /\ server'.messages[t][i] = server.messages[t][i]
   BY <1>3, <2>1, <3>2, <3>5
  <3>6. CASE /\ i \in DOMAIN server.messages[t] /\ server'.messages[t][i] = server.messages[t][i]
             /\ j \in DOMAIN server.messages[u] /\ server'.messages[u][j] = server.messages[u][j]
   BY <2>1, <3>1, <3>6 DEF OrderInvariant, SentOnce
  <3> QED BY <1>8, <3>3, <3>4, <3>5, <3>6
 <2> QED BY <2>1 DEF SentOnce
<1> QED BY <1>10, <1>12, <1>13, <1>14 DEF OrderInvariant

LEMMA HandleOrder ==
  ASSUME Typed, Typed', Grown, OrderInvariant, NEW s \in sends, Handle(s) PROVE OrderInvariant'
<1>1. PICK r : HandledAs(s, r) BY HandleIs
<1>2. store' = store BY DEF Handle
<1>3. CASE server'.messages = server.messages
 <2>1. sends' = (sends \ {s}) \cup {r} /\ Continues(r, s)
  BY <1>1 DEF HandledAs, Steps, Continues, Past
 <2>2. \A q \in sends' : \E p \in sends : Continues(q, p) BY <2>1 DEF Continues
 <2> QED BY <1>2, <1>3, <2>2, QuietOrder DEF Typed
<1>4. CASE server'.messages # server.messages
 <2>1. server' = Served(s).applied BY <1>1, <1>4 DEF HandledAs
 <2>2. s.step = "start" /\ server.threads[s.thread] # "absent" BY <1>4, <2>1, ServedIs
 <2> QED BY <1>1, <1>2, <2>1, <2>2, ArrivesOrder
<1> QED BY <1>3, <1>4

LEMMA NextOrder ==
  ASSUME Typed, DiskCurrent, OrderInvariant, [Next]_vars PROVE OrderInvariant'
<1>1. Grown /\ Typed' BY NextTyped
<1>2. CASE \/ Render
           \/ \E route \in Threads \cup {None} : Navigate(route)
           \/ \E t \in Threads : NewThread(t)
 BY <1>1, <1>2, MovesOrder
<1>3. CASE \/ Write \/ WriteFails \/ Acknowledge \/ Sync \/ Attach \/ Stage \/ Reload \/ UNCHANGED vars
           \/ Mounted /\ \E image \in Draft.images : Detach(image)
 BY <1>1, <1>3, QuietStepsOrder
<1>4. CASE Type \/ Send BY <1>1, <1>4, TypeOrder, SendOrder
<1>5. CASE \E t \in Threads : DeleteThread(t) BY <1>1, <1>5, DeleteOrder
<1>6. CASE \E s \in sends : Handle(s) \/ Created(s) \/ Started(s) \/ Discard(s) \/ Failed(s)
 BY <1>1, <1>6, HandleOrder, StepsOrder, FailedOrder
<1> QED BY <1>2, <1>3, <1>4, <1>5, <1>6 DEF Next

LEMMA InitOrder == Init => OrderInvariant
 BY DEF Init, OrderInvariant, OnePlace, Apart, LastOfView, SentOnce, SentInOrder, EmptyDraft

(* Unless an answer or a write is lost, nothing is sent twice, and the messages of one *)
(* view reach the server in the order in which they were sent (onSend).     *)
THEOREM MessagesSentOnceInOrder == Spec => []SentOnceInOrder
<1>1. OrderInvariant /\ Typed /\ DiskCurrent /\ [Next]_vars => OrderInvariant' BY NextOrder
<1>2. OrderInvariant => SentOnceInOrder BY DEF OrderInvariant, SentOnceInOrder
<1> QED BY <1>1, <1>2, AlwaysTyped, InitOrder, PTL DEF Spec
=============================================================================
