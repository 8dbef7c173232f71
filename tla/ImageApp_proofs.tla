--------------------------- MODULE ImageApp_proofs ---------------------------
(***************************************************************************)
(* For any number of generations, screens and steps: a screen has one      *)
(* graph open at a time, a cancel that is heard ends its own run and no    *)
(* other, and a screen at rest shows what became of its last run.  Taps    *)
(* come before posts that were made earlier, exceptions at every place,    *)
(* and Android replaces the activity while threads are at work.            *)
(***************************************************************************)
EXTENDS ImageApp, SequenceTheorems, TLAPS

USE DEF Pictured

\* From its start to the moment it gives `running` back.
AtWork(r) == pc[r] \notin {"idle", "final", "ended"}

\* Runs are started in order, by the instance that is in front.
InOrder ==
  /\ \A r \in Run : /\ owner[r] <= shown
                    /\ owner[r] = 0 <=> pc[r] = "idle"
                    /\ outcome[r] # "none" => pc[r] \in {"finally", "final", "ended"}
                    /\ pc[r] = "denoise" => step[r] < Steps
  /\ \A q, r \in Run : q < r /\ owner[r] # 0 => owner[q] # 0

\* `running` of an instance stands for its last run, which is at work.
RunningIsAtWork ==
  /\ \A r \in Run : AtWork(r) => running[owner[r]] /\ Current(r, owner[r])
  /\ \A i \in Screen : running[i] => \E r \in Run : owner[r] = i /\ AtWork(r)

\* A flag that a run will look at was set by a tap on its own Cancel.
FlagIsItsOwn ==
  \A r \in Run :
    /\ r \in heard => \/ pc[r] \in ToBeChecked /\ Cancelled(r)
                      \/ pc[r] \in {"finally", "final", "ended"} /\ outcome[r] \notin Pictured
    /\ pc[r] \in ToBeChecked /\ Cancelled(r) => r \in asked
    /\ outcome[r] = "cancelled" => r \in asked

\* A post that the UI thread has not yet run.
Pending(r, what) == \E k \in 1..Len(posts) : posts[k] = [run |-> r, what |-> what]

\* What is shown as under way has a run or a last post that will end it.
EndsToCome(i) ==
  \E r \in Run : owner[r] = i /\ (pc[r] # "ended" \/ Pending(r, "final"))
ShownIsUnderWay ==
  \A i \in Screen :
    views[i].button = "Cancel" \/ views[i].bar \/ views[i].status = "cancelling"
      => EndsToCome(i)

\* The picture shown last is the file written last, or that one is to come.
ShownIsSaved ==
  \A i \in Screen :
    /\ lastPng[i] # 0 => owner[lastPng[i]] = i
    /\ views[i].share <=> views[i].picture # 0
    /\ views[i].picture # 0 => views[i].picture = lastPng[i] \/ Pending(lastPng[i], "picture")

\* Behind a picture of an older file comes that of the newest.
NewestComesLast ==
  \A k \in 1..Len(posts) : posts[k].what = "picture" =>
    \/ posts[k].run = lastPng[owner[posts[k].run]]
    \/ \E l \in (k + 1)..Len(posts) :
         posts[l] = [run |-> lastPng[owner[posts[k].run]], what |-> "picture"]

\* A last run that ended well has its picture shown, or on its way.
LastIsShown ==
  \A r \in Run : outcome[r] \in Pictured /\ Current(r, owner[r]) =>
    /\ lastPng[owner[r]] = r
    /\ views[owner[r]].picture = r \/ Pending(r, "picture")

\* Every post is of a run that has been started.
PostsAreOfRuns == \A k \in 1..Len(posts) : owner[posts[k].run] # 0

\* The inductive invariant.
IInv ==
  /\ TypeOK /\ InOrder /\ RunningIsAtWork /\ FlagIsItsOwn
  /\ ShownIsUnderWay /\ ShownIsSaved /\ NewestComesLast /\ LastIsShown
  /\ PostsAreOfRuns

-----------------------------------------------------------------------------
(* The posts *)

\* What a thread posts: who it is, and what the UI thread is to show.
PostRecord == [run : Run, what : {"progress", "picture", "final"}]

\* runOnUiThread keeps the posts that are there and their order.
LEMMA Posted ==
  ASSUME posts \in Seq(PostRecord), NEW r \in Run,
         NEW what \in {"progress", "picture", "final"}, Post(r, what)
  PROVE  /\ posts' \in Seq(PostRecord)
         /\ \A k \in 1..Len(posts) : k \in 1..Len(posts') /\ posts'[k] = posts[k]
         /\ \A k \in 1..Len(posts') :
              k \in 1..Len(posts) \/ posts'[k] = [run |-> r, what |-> what]
         /\ \E k \in 1..Len(posts') :
              /\ posts'[k] = [run |-> r, what |-> what]
              /\ what # "progress" => k > Len(posts)
<1> DEFINE post == [run |-> r, what |-> what]
<1>1. post \in PostRecord
  BY DEF PostRecord
<1>2. Len(posts) \in Nat
  BY LenProperties
<1>3. CASE posts' = posts /\ posts # <<>> /\ posts[Len(posts)] = post /\ what = "progress"
  <2>1. Len(posts) \in 1..Len(posts')
    BY <1>2, <1>3, EmptySeq
  <2> QED
    BY <1>3, <2>1
<1>4. CASE posts' = Append(posts, post)
  <2>1. /\ posts' \in Seq(PostRecord) /\ Len(posts') = Len(posts) + 1
        /\ \A k \in 1..Len(posts) : posts'[k] = posts[k]
        /\ posts'[Len(posts) + 1] = post
    BY <1>1, <1>4, AppendProperties
  <2>2. Len(posts') \in 1..Len(posts') /\ Len(posts') > Len(posts)
    BY <1>2, <2>1
  <2> QED
    BY <1>2, <2>1, <2>2
<1> QED
  BY <1>3, <1>4 DEF Post

\* The UI thread takes the first one.
LEMMA Taken ==
  ASSUME posts \in Seq(PostRecord), posts # <<>>, posts' = Tail(posts)
  PROVE  /\ posts' \in Seq(PostRecord)
         /\ 1 \in 1..Len(posts) /\ Head(posts) = posts[1] /\ posts[1] \in PostRecord
         /\ \A k \in 1..Len(posts') : k + 1 \in 1..Len(posts) /\ posts'[k] = posts[k + 1]
         /\ \A k \in 1..Len(posts) : k # 1 => k - 1 \in 1..Len(posts') /\ posts'[k - 1] = posts[k]
<1>1. /\ Len(posts) \in Nat /\ Len(posts) > 0
      /\ Head(posts) = posts[1] /\ posts[1] \in PostRecord
  BY LenProperties, EmptySeq, HeadTailProperties, ElementOfSeq
<1>2. /\ posts' \in Seq(PostRecord) /\ Len(posts') = Len(posts) - 1
      /\ \A k \in 1..Len(posts') : posts'[k] = posts[k + 1]
  BY HeadTailProperties
<1> QED
  BY <1>1, <1>2

\* What an activity shows, and where a thread may be.
View == [button : {"Generate", "Cancel"}, enabled : BOOLEAN, bar : BOOLEAN,
         status : {"cancelling", "other"}, picture : {0} \cup Run, share : BOOLEAN]
Places == {"idle", "open", "reset", "text", "textrun", "dit", "loop", "denoise", "vae",
           "save", "finally", "final", "ended"}

\* No post that was there is lost by a step.
PostsKept ==
  \A q, what : Pending(q, what)
    => \E k \in 1..Len(posts') : posts'[k] = [run |-> q, what |-> what]

\* runOnUiThread loses none.
LEMMA PostKeeps ==
  ASSUME posts \in Seq(PostRecord), NEW r \in Run,
         NEW what \in {"progress", "picture", "final"}, Post(r, what)
  PROVE  PostsKept /\ Pending(r, what)'
<1>1. PostsKept
  BY Posted DEF PostsKept, Pending
<1>2. Pending(r, what)'
  BY Posted DEF Pending
<1> QED
  BY <1>1, <1>2

-----------------------------------------------------------------------------
(* Steps that leave the screens alone *)

\* A thread that ends has posted its last.
LEMMA StillUnderWay ==
  ASSUME ShownIsUnderWay, PostsKept, UNCHANGED <<views, owner>>,
         \A q \in Run : pc[q] # "ended" => pc'[q] # "ended" \/ Pending(q, "final")'
  PROVE  ShownIsUnderWay'
<1>1. ASSUME NEW i \in Screen, EndsToCome(i) PROVE EndsToCome(i)'
  <2>1. PICK q \in Run : owner[q] = i /\ (pc[q] # "ended" \/ Pending(q, "final"))
    BY <1>1 DEF EndsToCome
  <2>2. Pending(q, "final") => Pending(q, "final")'
    BY DEF PostsKept, Pending
  <2> QED
    BY <2>1, <2>2 DEF EndsToCome
<1> QED
  BY <1>1 DEF ShownIsUnderWay

\* With no new file and no view changed, a shown picture stays accounted for.
LEMMA StillSaved ==
  ASSUME ShownIsSaved, PostsKept, UNCHANGED <<views, owner, lastPng>>
  PROVE  ShownIsSaved'
<1> SUFFICES ASSUME NEW i \in Screen
             PROVE  /\ lastPng[i] # 0 => owner[lastPng[i]] = i
                    /\ views[i].share <=> views[i].picture # 0
                    /\ views[i].picture # 0 =>
                         \/ views[i].picture = lastPng[i]
                         \/ \E k \in 1..Len(posts') :
                              posts'[k] = [run |-> lastPng[i], what |-> "picture"]
  BY DEF ShownIsSaved, Pending
<1> QED
  BY DEF ShownIsSaved, PostsKept

\* A post without a picture puts no older file behind the newest.
LEMMA StillNewest ==
  ASSUME NewestComesLast, UNCHANGED <<owner, lastPng>>, posts \in Seq(PostRecord),
         NEW r \in Run, NEW what \in {"progress", "final"}, Post(r, what)
  PROVE  NewestComesLast'
<1>1. what \in {"progress", "picture", "final"} /\ what # "picture"
  OBVIOUS
<1>2. /\ \A k \in 1..Len(posts) : k \in 1..Len(posts') /\ posts'[k] = posts[k]
      /\ \A k \in 1..Len(posts') :
           k \in 1..Len(posts) \/ posts'[k] = [run |-> r, what |-> what]
  BY <1>1, Posted
<1>3. Len(posts) \in Nat /\ Len(posts') \in Nat
  BY <1>1, Posted, LenProperties
<1>4. ASSUME NEW k \in 1..Len(posts'), posts'[k].what = "picture"
      PROVE  \/ posts'[k].run = lastPng[owner[posts'[k].run]]
             \/ \E l \in (k + 1)..Len(posts') :
                  posts'[l] = [run |-> lastPng[owner[posts'[k].run]], what |-> "picture"]
  <2>1. posts'[k] # [run |-> r, what |-> what]
    BY <1>1, <1>4
  <2>2. k \in 1..Len(posts) /\ posts'[k] = posts[k]
    BY <1>2, <2>1
  <2>3. \A l \in (k + 1)..Len(posts) : l \in (k + 1)..Len(posts') /\ posts'[l] = posts[l]
    <3> TAKE l \in (k + 1)..Len(posts)
    <3>1. l \in 1..Len(posts)
      BY <1>3, <2>2
    <3>2. l \in 1..Len(posts') /\ posts'[l] = posts[l]
      BY <1>2, <3>1
    <3> QED
      BY <1>3, <2>2, <3>2
  <2> QED
    BY <1>4, <2>2, <2>3 DEF NewestComesLast
<1> QED
  BY <1>4 DEF NewestComesLast

\* With no run ending well, the picture of the last one stays or is to come.
LEMMA StillShown ==
  ASSUME LastIsShown, PostsKept, UNCHANGED <<views, owner, lastPng>>,
         \A q \in Run : outcome'[q] \in Pictured => outcome[q] \in Pictured
  PROVE  LastIsShown'
<1> SUFFICES ASSUME NEW q \in Run, outcome'[q] \in Pictured, Current(q, owner[q])
             PROVE  /\ lastPng[owner[q]] = q
                    /\ views[owner[q]].picture = q \/ Pending(q, "picture")'
  BY DEF LastIsShown, Current
<1>1. Pending(q, "picture") => Pending(q, "picture")'
  BY DEF PostsKept, Pending
<1> QED
  BY <1>1 DEF LastIsShown

\* A started run that posts is one more run that was started.
LEMMA StillOfRuns ==
  ASSUME PostsAreOfRuns, UNCHANGED owner, posts \in Seq(PostRecord), NEW r \in Run,
         owner[r] # 0, NEW what \in {"progress", "picture", "final"}, Post(r, what)
  PROVE  PostsAreOfRuns'
<1> SUFFICES ASSUME NEW k \in 1..Len(posts') PROVE owner[posts'[k].run] # 0
  BY DEF PostsAreOfRuns
<1>1. CASE k \in 1..Len(posts)
  BY <1>1, Posted DEF PostsAreOfRuns
<1>2. CASE posts'[k] = [run |-> r, what |-> what]
  BY <1>2
<1> QED
  BY <1>1, <1>2, Posted

-----------------------------------------------------------------------------
(* A run is started *)

\* It is the last one, and the only one at work on its screen.
LEMMA RunStarts ==
  ASSUME TypeOK, InOrder, RunningIsAtWork, FlagIsItsOwn,
         NEW r \in Run, NEW i \in Screen, NextRun(r), StartThread(r, i),
         shown <= shown', shown' \in Screen, i <= shown',
         \A q \in Run : AtWork(q) => owner[q] # i,
         running' = [running EXCEPT ![i] = TRUE], UNCHANGED <<flag, asked, heard>>
  PROVE  InOrder' /\ RunningIsAtWork' /\ FlagIsItsOwn'
<1>1. /\ owner' = [owner EXCEPT ![r] = i] /\ pc' = [pc EXCEPT ![r] = "open"]
      /\ UNCHANGED <<step, outcome>>
  BY DEF StartThread, Goto
<1>2. owner[r] = 0 /\ pc[r] = "idle" /\ owner'[r] = i /\ pc'[r] = "open"
  BY <1>1 DEF NextRun, InOrder, TypeOK
<1>3. \A q \in Run : q # r => owner'[q] = owner[q] /\ pc'[q] = pc[q]
  BY <1>1 DEF TypeOK
<1>4. \A q \in Run : owner[q] # 0 => q < r
  <2> SUFFICES ASSUME NEW q \in Run, owner[q] # 0 PROVE q < r
    OBVIOUS
  <2>1. q # r /\ ~(r < q)
    BY <1>2 DEF InOrder
  <2> QED
    BY <2>1 DEF Run
<1>5. InOrder'
  <2>1. ASSUME NEW q \in Run
        PROVE  /\ owner'[q] <= shown'
               /\ owner'[q] = 0 <=> pc'[q] = "idle"
               /\ outcome[q] # "none" => pc'[q] \in {"finally", "final", "ended"}
               /\ pc'[q] = "denoise" => step[q] < Steps
    <3>1. CASE q = r
      BY <1>2, <3>1 DEF InOrder, Screen
    <3>2. CASE q # r
      <4>1. owner[q] <= shown
        BY DEF InOrder
      <4>2. owner[q] <= shown'
        <5>1. owner[q] \in Nat /\ shown \in Nat /\ shown' \in Nat
          BY ConstantsAssumption DEF TypeOK, Screen
        <5> QED
          BY <4>1, <5>1
      <4> QED
        BY <1>3, <3>2, <4>2 DEF InOrder
    <3> QED
      BY <3>1, <3>2
  <2>2. ASSUME NEW p \in Run, NEW q \in Run, p < q, owner'[q] # 0 PROVE owner'[p] # 0
    <3>1. CASE p = r
      BY <1>2, <3>1 DEF Screen
    <3>2. CASE p # r /\ q = r
      BY <1>3, <2>2, <3>2 DEF NextRun, Run
    <3>3. CASE p # r /\ q # r
      BY <1>3, <2>2, <3>3 DEF InOrder
    <3> QED
      BY <3>1, <3>2, <3>3
  <2> QED
    BY <1>1, <2>1, <2>2 DEF InOrder
<1>6. RunningIsAtWork'
  <2>1. ASSUME NEW q \in Run, AtWork(q)' PROVE running'[owner'[q]] /\ Current(q, owner[q])'
    <3>1. CASE q = r
      <4>1. \A p \in Run : owner'[p] = i => p <= r
        BY <1>3, <1>4 DEF Run, Screen
      <4> QED
        BY <1>2, <3>1, <4>1 DEF TypeOK, Current
    <3>2. CASE q # r
      <4>1. AtWork(q) /\ owner[q] # i
        BY <1>3, <2>1, <3>2 DEF AtWork
      <4>2. running[owner[q]] /\ Current(q, owner[q]) /\ owner[q] \in Screen
        BY <4>1 DEF RunningIsAtWork, TypeOK, InOrder, AtWork
      <4> QED
        BY <1>2, <1>3, <3>2, <4>1, <4>2 DEF TypeOK, Current
    <3> QED
      BY <3>1, <3>2
  <2>2. ASSUME NEW j \in Screen, running'[j] PROVE \E q \in Run : owner'[q] = j /\ AtWork(q)'
    <3>1. CASE j = i
      BY <1>2, <3>1 DEF AtWork
    <3>2. CASE j # i
      <4>1. PICK q \in Run : owner[q] = j /\ AtWork(q)
        BY <2>2, <3>2 DEF RunningIsAtWork, TypeOK
      <4> QED
        BY <1>2, <1>3, <4>1 DEF AtWork
    <3> QED
      BY <3>1, <3>2
  <2> QED
    BY <2>1, <2>2 DEF RunningIsAtWork
<1>7. FlagIsItsOwn'
  <2>1. \A q \in Run : q # r => (Cancelled(q)' <=> Cancelled(q))
    BY <1>3 DEF Cancelled
  <2>2. r \notin heard /\ outcome[r] # "cancelled"
    BY <1>2 DEF FlagIsItsOwn, InOrder, ToBeChecked
  <2> SUFFICES ASSUME NEW q \in Run
      PROVE  /\ q \in heard => \/ pc'[q] \in ToBeChecked /\ Cancelled(q)'
                               \/ pc'[q] \in {"finally", "final", "ended"} /\ outcome[q] \notin Pictured
             /\ pc'[q] \in ToBeChecked /\ Cancelled(q)' => q \in asked
             /\ outcome[q] = "cancelled" => q \in asked
    BY <1>1 DEF FlagIsItsOwn
  <2>3. CASE q = r
    BY <1>2, <2>2, <2>3 DEF ToBeChecked
  <2>4. CASE q # r
    BY <1>3, <2>1, <2>4 DEF FlagIsItsOwn
  <2> QED
    BY <2>3, <2>4
<1> QED
  BY <1>5, <1>6, <1>7

\* Its screen begins anew; the others are not touched.
LEMMA ScreenStarts ==
  ASSUME TypeOK, InOrder, ShownIsUnderWay, ShownIsSaved, NewestComesLast, LastIsShown,
         PostsAreOfRuns,
         NEW r \in Run, NEW i \in Screen, NextRun(r), StartThread(r, i),
         NEW view, view.picture = 0, view.share = FALSE,
         views' = [views EXCEPT ![i] = view], UNCHANGED <<lastPng, posts>>
  PROVE  /\ ShownIsUnderWay' /\ ShownIsSaved' /\ NewestComesLast' /\ LastIsShown'
         /\ PostsAreOfRuns'
<1>1. owner[r] = 0 /\ pc[r] = "idle" /\ owner'[r] = i /\ pc'[r] = "open"
  BY DEF StartThread, Goto, NextRun, InOrder, TypeOK
<1>2. \A q \in Run : q # r => owner'[q] = owner[q] /\ pc'[q] = pc[q]
  BY DEF StartThread, Goto, TypeOK
<1>3. views'[i] = view /\ \A j \in Screen : j # i => views'[j] = views[j]
  BY DEF TypeOK
<1>4. i # 0
  BY DEF Screen
<1>5. ShownIsUnderWay'
  <2>1. EndsToCome(i)'
    BY <1>1 DEF EndsToCome
  <2>2. ASSUME NEW j \in Screen, EndsToCome(j) PROVE EndsToCome(j)'
    <3>1. PICK q \in Run : owner[q] = j /\ (pc[q] # "ended" \/ Pending(q, "final"))
      BY <2>2 DEF EndsToCome
    <3>2. q # r
      BY <1>1, <3>1 DEF Screen
    <3>3. Pending(q, "final") => Pending(q, "final")'
      BY DEF Pending
    <3> QED
      BY <1>2, <3>1, <3>2, <3>3 DEF EndsToCome
  <2> QED
    BY <1>3, <2>1, <2>2 DEF ShownIsUnderWay
<1>6. ShownIsSaved'
  <2> SUFFICES ASSUME NEW j \in Screen
               PROVE  /\ lastPng[j] # 0 => owner'[lastPng[j]] = j
                      /\ views'[j].share <=> views'[j].picture # 0
                      /\ views'[j].picture # 0 =>
                           \/ views'[j].picture = lastPng[j]
                           \/ \E k \in 1..Len(posts) :
                                posts[k] = [run |-> lastPng[j], what |-> "picture"]
    BY DEF ShownIsSaved, Pending
  <2>1. lastPng[j] # 0 => lastPng[j] \in Run /\ owner[lastPng[j]] = j /\ j # 0
    BY DEF TypeOK, ShownIsSaved, Screen
  <2>2. lastPng[j] # 0 => owner'[lastPng[j]] = j
    BY <1>1, <1>2, <2>1
  <2>3. CASE j = i
    BY <1>3, <2>2, <2>3
  <2>4. CASE j # i
    BY <1>3, <2>2, <2>4 DEF ShownIsSaved, Pending
  <2> QED
    BY <2>3, <2>4
<1>7. \A k \in 1..Len(posts) : posts[k].run \in Run /\ owner'[posts[k].run] = owner[posts[k].run]
  <2> SUFFICES ASSUME NEW k \in 1..Len(posts)
               PROVE  posts[k].run \in Run /\ owner'[posts[k].run] = owner[posts[k].run]
    OBVIOUS
  <2>1. posts[k] \in PostRecord
    BY ElementOfSeq DEF TypeOK, PostRecord
  <2> QED
    BY <1>1, <1>2, <2>1 DEF PostsAreOfRuns, PostRecord
<1>8. NewestComesLast'
  BY <1>7 DEF NewestComesLast
<1>9. PostsAreOfRuns'
  BY <1>7 DEF PostsAreOfRuns
<1>10. LastIsShown'
  <2> SUFFICES ASSUME NEW q \in Run, outcome'[q] \in Pictured, Current(q, owner[q])'
               PROVE  /\ lastPng[owner'[q]] = q
                      /\ views'[owner'[q]].picture = q \/ Pending(q, "picture")'
    BY DEF LastIsShown
  <2>1. outcome[q] \in Pictured /\ owner[q] # 0 /\ q # r
    BY <1>1 DEF StartThread, InOrder
  <2>2. q < r
    BY <1>1, <2>1 DEF InOrder, Run
  <2>3. owner'[q] # i
    BY <1>1, <2>2 DEF Current, Run
  <2>4. Current(q, owner[q])
    BY <1>1, <1>2, <2>1 DEF Current
  <2>5. lastPng[owner[q]] = q /\ (views[owner[q]].picture = q \/ Pending(q, "picture"))
    BY <2>1, <2>4 DEF LastIsShown
  <2>6. Pending(q, "picture") => Pending(q, "picture")'
    BY DEF Pending
  <2>7. owner[q] \in Screen /\ owner'[q] = owner[q]
    BY <1>2, <2>1 DEF TypeOK
  <2> QED
    BY <1>3, <2>3, <2>5, <2>6, <2>7
<1> QED
  BY <1>5, <1>6, <1>8, <1>9, <1>10

-----------------------------------------------------------------------------
(* The invariant *)

\* One screen, at most one run, no post.
LEMMA ScreenInit == Init => IInv
<1> SUFFICES ASSUME Init PROVE IInv
  OBVIOUS
<1>1. PICK enabled \in BOOLEAN :
        /\ shown = 1
        /\ running = [i \in Screen |-> i = 1 /\ enabled /\ Autorun]
        /\ views = [i \in Screen |->
                      IF running[i] THEN Started(Idle(TRUE)) ELSE Idle(i = 1 /\ enabled)]
        /\ owner = [r \in Run |-> IF r = 1 /\ running[1] THEN 1 ELSE 0]
        /\ pc = [r \in Run |-> IF r = 1 /\ running[1] THEN "open" ELSE "idle"]
  BY DEF Init
<1>2. /\ flag = [i \in Screen |-> "null"] /\ seen = {} /\ lastPng = [i \in Screen |-> 0]
      /\ step = [r \in Run |-> 0] /\ outcome = [r \in Run |-> "none"] /\ posts = <<>>
      /\ asked = {} /\ heard = {}
  BY DEF Init
<1>3. 1 \in Screen /\ 1 \in Run /\ 0 \in 0..Steps /\ 0 \notin Screen
  BY ConstantsAssumption DEF Screen, Run
<1>4. running \in [Screen -> BOOLEAN] /\ \A i \in Screen : running[i] => i = 1
  BY <1>1, ConstantsAssumption
<1>5. TypeOK
  <2>1. \A i \in Screen, e \in BOOLEAN : Started(Idle(TRUE)) \in View /\ Idle(e) \in View
    BY DEF Started, Idle, View
  <2>2. \A i \in Screen : (i = 1 /\ enabled) \in BOOLEAN
    OBVIOUS
  <2>3. views \in [Screen -> View]
    BY <1>1, <2>1, <2>2
  <2>4. owner \in [Run -> {0} \cup Screen] /\ pc \in [Run -> Places]
    BY <1>1, <1>3 DEF Places
  <2> QED
    BY <1>1, <1>2, <1>3, <1>4, <2>3, <2>4 DEF TypeOK, View, Places
<1>6. InOrder
  <2>1. ASSUME NEW r \in Run, owner[r] # 0 PROVE r = 1
    BY <1>1, <2>1
  <2>2. \A q \in Run : ~(q < 1)
    BY DEF Run
  <2>3. \A r \in Run : owner[r] <= shown /\ (owner[r] = 0 <=> pc[r] = "idle") /\ pc[r] # "denoise"
    BY <1>1
  <2> QED
    BY <1>2, <2>1, <2>2, <2>3 DEF InOrder
<1>7. RunningIsAtWork
  <2>1. ASSUME NEW r \in Run, AtWork(r) PROVE running[owner[r]] /\ Current(r, owner[r])
    <3>1. r = 1 /\ running[1] /\ owner[r] = 1
      BY <1>1, <2>1 DEF AtWork
    <3>2. \A q \in Run : owner[q] = 1 => q <= 1
      BY <1>1 DEF Run
    <3> QED
      BY <3>1, <3>2 DEF Current
  <2>2. ASSUME NEW i \in Screen, running[i] PROVE owner[1] = i /\ AtWork(1)
    BY <1>1, <1>3, <1>4, <2>2 DEF AtWork
  <2> QED
    BY <1>3, <2>1, <2>2 DEF RunningIsAtWork
<1>8. FlagIsItsOwn
  BY <1>1, <1>2 DEF FlagIsItsOwn, ToBeChecked
<1>9. ShownIsUnderWay
  <2> SUFFICES ASSUME NEW i \in Screen,
                      \/ views[i].button = "Cancel" \/ views[i].bar
                      \/ views[i].status = "cancelling"
               PROVE  EndsToCome(i)
    BY DEF ShownIsUnderWay
  <2>1. running[i]
    BY <1>1 DEF Idle
  <2> QED
    BY <1>7, <2>1 DEF RunningIsAtWork, AtWork, EndsToCome
<1>10. ShownIsSaved
  BY <1>1, <1>2 DEF ShownIsSaved, Started, Idle
<1>11. NewestComesLast /\ LastIsShown /\ PostsAreOfRuns
  BY <1>2 DEF NewestComesLast, LastIsShown, PostsAreOfRuns
<1> QED
  BY <1>5, <1>6, <1>7, <1>8, <1>9, <1>10, <1>11 DEF IInv

\* One step per action, one leaf per conjunct.
LEMMA ScreenStep == IInv /\ [Next]_vars => IInv'
<1> SUFFICES ASSUME IInv, [Next]_vars PROVE IInv'
  OBVIOUS
<1>0. /\ TypeOK /\ InOrder /\ RunningIsAtWork /\ FlagIsItsOwn /\ ShownIsUnderWay
      /\ ShownIsSaved /\ NewestComesLast /\ LastIsShown /\ PostsAreOfRuns
  BY DEF IInv
<1>1. CASE Recreate
  <2>1. /\ shown \in Screen /\ shown' \in Screen /\ shown' = shown + 1 /\ shown <= shown'
        /\ shown' <= shown'
    BY <1>0, <1>1, ConstantsAssumption DEF Recreate, TypeOK, Screen
  <2>2. UNCHANGED <<flag, seen, lastPng, posts, asked, heard>>
    BY <1>1 DEF Recreate
  <2>3. \A q \in Run : owner[q] <= shown /\ owner[q] # shown'
    <3>1. \A q \in Run : owner[q] <= shown /\ owner[q] \in Nat /\ shown \in Nat
      BY <1>0, ConstantsAssumption DEF TypeOK, InOrder, Screen
    <3> QED
      BY <2>1, <3>1
  <2>4. ASSUME NEW there \in BOOLEAN, views' = [views EXCEPT ![shown'] = Idle(there)],
               UNCHANGED <<running, thread>>
        PROVE  IInv'
    <3>1. TypeOK'
      BY <1>0, <2>1, <2>2, <2>4 DEF TypeOK, Idle, thread
    <3>2. InOrder'
      <4>1. \A q \in Run : owner[q] <= shown'
        <5>1. shown \in Nat /\ \A q \in Run : owner[q] \in Nat
          BY <1>0, ConstantsAssumption DEF TypeOK, Screen
        <5> QED
          BY <2>1, <2>3, <5>1
      <4>2. owner' = owner /\ pc' = pc /\ step' = step /\ outcome' = outcome
        BY <2>4 DEF thread
      <4>3. /\ \A q \in Run : /\ owner[q] = 0 <=> pc[q] = "idle"
                              /\ outcome[q] # "none" => pc[q] \in {"finally", "final", "ended"}
                              /\ pc[q] = "denoise" => step[q] < Steps
            /\ \A q, r \in Run : q < r /\ owner[r] # 0 => owner[q] # 0
        BY <1>0 DEF InOrder
      <4> QED
        BY <4>1, <4>2, <4>3 DEF InOrder
    <3>3. RunningIsAtWork' /\ FlagIsItsOwn'
      <4>1. /\ owner' = owner /\ pc' = pc /\ step' = step /\ outcome' = outcome
            /\ running' = running /\ flag' = flag /\ seen' = seen
        BY <2>2, <2>4 DEF thread
      <4>2. \A q \in Run : AtWork(q)' = AtWork(q)
        BY <4>1 DEF AtWork
      <4>3. RunningIsAtWork'
        BY <1>0, <4>1, <4>2 DEF RunningIsAtWork, Current
      <4> QED
        BY <1>0, <2>2, <4>1, <4>2, <4>3 DEF FlagIsItsOwn, Cancelled
    <3>4. /\ views'[shown'] = Idle(there)
          /\ \A j \in Screen : j # shown' => views'[j] = views[j]
      BY <1>0, <2>1, <2>4 DEF TypeOK
    <3>5. \A q, what : Pending(q, what)' <=> Pending(q, what)
      BY <2>2 DEF Pending
    <3>6. \A j \in Screen : EndsToCome(j)' <=> EndsToCome(j)
      BY <2>4, <3>5 DEF EndsToCome, thread
    <3>7. ShownIsUnderWay'
      BY <1>0, <3>4, <3>6 DEF ShownIsUnderWay, Idle
    <3>8. ShownIsSaved'
      BY <1>0, <2>2, <2>4, <3>4 DEF ShownIsSaved, Idle, Pending, thread
    <3>9. LastIsShown'
      <4>1. ASSUME NEW q \in Run, outcome[q] \in Pictured
            PROVE  owner[q] \in Screen /\ owner[q] # shown'
        BY <1>0, <2>3, <4>1 DEF TypeOK, InOrder
      <4>2. /\ UNCHANGED <<owner, outcome, lastPng>>
            /\ \A q \in Run : Current(q, owner[q])' <=> Current(q, owner[q])
        BY <2>2, <2>4 DEF Current, thread
      <4> QED
        BY <1>0, <3>4, <3>5, <4>1, <4>2 DEF LastIsShown
    <3>10. NewestComesLast' /\ PostsAreOfRuns'
      BY <1>0, <2>2, <2>4 DEF NewestComesLast, PostsAreOfRuns, thread
    <3> QED
      BY <3>1, <3>2, <3>3, <3>7, <3>8, <3>9, <3>10 DEF IInv
  <2>5. ASSUME views' = [views EXCEPT ![shown'] = Started(Idle(TRUE))],
               running' = [running EXCEPT ![shown'] = TRUE],
               NEW r \in Run, NextRun(r), StartThread(r, shown')
        PROVE  IInv'
    <3>1. InOrder' /\ RunningIsAtWork' /\ FlagIsItsOwn'
      BY <1>0, <2>1, <2>2, <2>3, <2>5, RunStarts
    <3>2. Started(Idle(TRUE)).picture = 0 /\ Started(Idle(TRUE)).share = FALSE
      BY DEF Started, Idle
    <3>3. /\ ShownIsUnderWay' /\ ShownIsSaved' /\ NewestComesLast' /\ LastIsShown'
          /\ PostsAreOfRuns'
      BY <1>0, <2>1, <2>2, <2>5, <3>2, ScreenStarts
    <3>4. TypeOK'
      <4>1. views' \in [Screen -> View] /\ running' \in [Screen -> BOOLEAN]
        BY <1>0, <2>1, <2>5 DEF TypeOK, View, Started, Idle
      <4>2. owner' \in [Run -> {0} \cup Screen] /\ pc' \in [Run -> Places]
        BY <1>0, <2>1, <2>5 DEF TypeOK, Places, StartThread, Goto
      <4> QED
        BY <1>0, <2>1, <2>2, <2>5, <4>1, <4>2 DEF TypeOK, View, Places, StartThread
    <3> QED
      BY <3>1, <3>3, <3>4 DEF IInv
  <2> QED
    BY <1>1, <2>4, <2>5 DEF Recreate
<1>2. CASE Generate
  <2>1. PICK r \in Run : NextRun(r) /\ StartThread(r, shown)
    BY <1>2 DEF Generate
  <2>2. shown \in Screen /\ shown' = shown /\ ~running[shown]
    BY <1>0, <1>2 DEF Generate, TypeOK
  <2>3. /\ running' = [running EXCEPT ![shown] = TRUE]
        /\ views' = [views EXCEPT ![shown] = Started(views[shown])]
        /\ UNCHANGED <<flag, seen, lastPng, posts, asked, heard>>
    BY <1>2 DEF Generate
  <2>4. \A q \in Run : AtWork(q) => owner[q] # shown
    BY <1>0, <2>2 DEF RunningIsAtWork
  <2>5. shown <= shown'
    BY <1>0, <2>2, ConstantsAssumption DEF Screen
  <2>6. InOrder' /\ RunningIsAtWork' /\ FlagIsItsOwn'
    BY <1>0, <2>1, <2>2, <2>3, <2>4, <2>5, RunStarts
  <2>7. Started(views[shown]).picture = 0 /\ Started(views[shown]).share = FALSE
    BY <1>0, <2>2 DEF TypeOK, Started
  <2>8. /\ ShownIsUnderWay' /\ ShownIsSaved' /\ NewestComesLast' /\ LastIsShown'
        /\ PostsAreOfRuns'
    BY <1>0, <2>1, <2>2, <2>3, <2>7, ScreenStarts
  <2>9. TypeOK'
    <3>1. views' \in [Screen -> View] /\ running' \in [Screen -> BOOLEAN]
      <4>1. views \in [Screen -> View] /\ views[shown] \in View
        BY <1>0, <2>2 DEF TypeOK, View
      <4>2. Started(views[shown]) \in View
        BY <4>1 DEF Started, View
      <4> QED
        BY <1>0, <2>2, <2>3, <4>1, <4>2 DEF TypeOK
    <3>2. owner' \in [Run -> {0} \cup Screen] /\ pc' \in [Run -> Places]
      BY <1>0, <2>1, <2>2 DEF TypeOK, Places, StartThread, Goto
    <3> QED
      BY <1>0, <2>1, <2>2, <2>3, <3>1, <3>2 DEF TypeOK, View, Places, StartThread
  <2> QED
    BY <2>6, <2>8, <2>9 DEF IInv
<1>3. CASE Cancel
  <2>1. /\ shown \in Screen /\ running[shown]
        /\ views' = [views EXCEPT ![shown].status = "cancelling"]
        /\ UNCHANGED <<shown, running, seen, lastPng, owner, pc, step, outcome, posts>>
    BY <1>0, <1>3 DEF Cancel, TypeOK, thread
  <2>2. /\ views'[shown] = [views[shown] EXCEPT !.status = "cancelling"]
        /\ \A j \in Screen : j # shown => views'[j] = views[j]
    BY <1>0, <2>1 DEF TypeOK
  <2>3. \A j \in Screen : /\ views'[j].button = views[j].button /\ views'[j].bar = views[j].bar
                          /\ views'[j].picture = views[j].picture
                          /\ views'[j].share = views[j].share
    BY <1>0, <2>1, <2>2 DEF TypeOK
  <2>4. \/ flag' = flag
        \/ flag[shown] # "null" /\ flag' = [flag EXCEPT ![shown] = "cancelled"]
    BY <1>3 DEF Cancel
  <2>5. /\ asked' = asked \cup {r \in Run : Current(r, shown)}
        /\ heard' = heard \cup {r \in Run : /\ Current(r, shown) /\ flag'[shown] = "cancelled"
                                            /\ pc[r] \in ToBeChecked}
    BY <1>3 DEF Cancel
  <2>6. TypeOK'
    <3>1. flag' \in [Screen -> {"null", "clear", "cancelled"}]
      BY <1>0, <2>1, <2>4 DEF TypeOK
    <3>2. asked' \subseteq Run /\ heard' \subseteq asked'
      BY <1>0, <2>5 DEF TypeOK
    <3>3. views' \in [Screen -> View]
      <4>1. views \in [Screen -> View] /\ views[shown] \in View
        BY <1>0, <2>1 DEF TypeOK, View
      <4>2. [views[shown] EXCEPT !.status = "cancelling"] \in View
        BY <4>1 DEF View
      <4> QED
        BY <2>1, <4>1, <4>2
    <3> QED
      BY <1>0, <2>1, <3>1, <3>2, <3>3 DEF TypeOK, View
  <2>7. InOrder' /\ RunningIsAtWork'
    BY <1>0, <2>1 DEF InOrder, RunningIsAtWork, AtWork, Current
  <2>8. FlagIsItsOwn'
    <3> SUFFICES ASSUME NEW q \in Run
                 PROVE  /\ q \in heard' =>
                             \/ pc[q] \in ToBeChecked /\ Cancelled(q)'
                             \/ pc[q] \in {"finally", "final", "ended"} /\ outcome[q] \notin Pictured
                        /\ pc[q] \in ToBeChecked /\ Cancelled(q)' => q \in asked'
                        /\ outcome[q] = "cancelled" => q \in asked'
      BY <2>1 DEF FlagIsItsOwn
    <3>1. pc[q] \in ToBeChecked => owner[q] \in Screen /\ Current(q, owner[q])
      BY <1>0 DEF TypeOK, InOrder, RunningIsAtWork, AtWork, ToBeChecked
    <3>2. pc[q] \in ToBeChecked /\ Cancelled(q) => Cancelled(q)'
      BY <1>0, <2>1, <2>4, <3>1 DEF Cancelled, TypeOK
    <3>3. pc[q] \in ToBeChecked /\ Cancelled(q)' /\ ~Cancelled(q) => owner[q] = shown
      BY <1>0, <2>1, <2>4, <3>1 DEF Cancelled, TypeOK
    <3>4. ASSUME q \in heard', q \notin heard PROVE pc[q] \in ToBeChecked /\ Cancelled(q)'
      <4>1. Current(q, shown) /\ flag'[shown] = "cancelled" /\ pc[q] \in ToBeChecked
        BY <2>5, <3>4
      <4>2. owner'[q] = shown
        BY <2>1, <4>1 DEF Current
      <4> QED
        BY <4>1, <4>2 DEF Cancelled
    <3>5. pc[q] \in ToBeChecked /\ Cancelled(q)' => q \in asked'
      BY <1>0, <2>5, <3>1, <3>3 DEF FlagIsItsOwn
    <3> QED
      BY <1>0, <2>5, <3>2, <3>4, <3>5 DEF FlagIsItsOwn
  <2>9. ShownIsUnderWay'
    <3>1. \A j \in Screen : EndsToCome(j)' <=> EndsToCome(j)
      BY <2>1 DEF EndsToCome, Pending
    <3>2. EndsToCome(shown)
      BY <1>0, <2>1 DEF RunningIsAtWork, AtWork, EndsToCome
    <3> QED
      BY <1>0, <2>2, <3>1, <3>2 DEF ShownIsUnderWay
  <2>10. ShownIsSaved'
    BY <1>0, <2>1, <2>3 DEF ShownIsSaved, Pending
  <2>11. LastIsShown'
    <3>1. \A q \in Run : outcome[q] \in Pictured => owner[q] \in Screen
      BY <1>0 DEF TypeOK, InOrder
    <3>2. \A q \in Run : Current(q, owner[q])' <=> Current(q, owner[q])
      BY <2>1 DEF Current
    <3>3. \A q \in Run : Pending(q, "picture")' <=> Pending(q, "picture")
      BY <2>1 DEF Pending
    <3> QED
      BY <1>0, <2>1, <2>3, <3>1, <3>2, <3>3 DEF LastIsShown
  <2>12. NewestComesLast' /\ PostsAreOfRuns'
    BY <1>0, <2>1 DEF NewestComesLast, PostsAreOfRuns
  <2> QED
    BY <2>6, <2>7, <2>8, <2>9, <2>10, <2>11, <2>12 DEF IInv
<1>4. CASE Deliver
  <2> DEFINE post == posts[1]
             i == owner[post.run]
  <2>1. posts \in Seq(PostRecord) /\ posts # <<>> /\ posts' = Tail(posts)
    BY <1>0, <1>4 DEF Deliver, TypeOK, PostRecord
  <2>2. /\ posts' \in Seq(PostRecord)
        /\ 1 \in 1..Len(posts) /\ Head(posts) = post /\ post \in PostRecord
        /\ \A k \in 1..Len(posts') : k + 1 \in 1..Len(posts) /\ posts'[k] = posts[k + 1]
        /\ \A k \in 1..Len(posts) : k # 1 => k - 1 \in 1..Len(posts') /\ posts'[k - 1] = posts[k]
    BY <2>1, Taken
  <2>3. \A q, what : Pending(q, what) => Pending(q, what)' \/ post = [run |-> q, what |-> what]
    <3> SUFFICES ASSUME NEW q, NEW what, Pending(q, what), post # [run |-> q, what |-> what]
                 PROVE  Pending(q, what)'
      OBVIOUS
    <3>1. PICK k \in 1..Len(posts) : posts[k] = [run |-> q, what |-> what]
      BY DEF Pending
    <3> QED
      BY <2>2, <3>1 DEF Pending
  <2>4. post.run \in Run /\ i \in Screen
    BY <1>0, <2>2 DEF PostRecord, PostsAreOfRuns, TypeOK
  <2>5. /\ views' = [views EXCEPT ![i] = Shows(views[i], post)]
        /\ seen' = seen \cup {i}
        /\ UNCHANGED <<shown, running, flag, lastPng, owner, pc, step, outcome, asked, heard>>
    BY <1>4, <2>2 DEF Deliver, thread
  <2>6. /\ views'[i] = Shows(views[i], post)
        /\ \A j \in Screen : j # i => views'[j] = views[j]
    BY <1>0, <2>4, <2>5 DEF TypeOK
  <2>7. /\ views'[i].button = IF post.what = "final" THEN "Generate" ELSE views[i].button
        /\ views'[i].bar = IF post.what = "final" THEN FALSE ELSE views[i].bar
        /\ views'[i].status = IF post.what = "picture" THEN views[i].status ELSE "other"
        /\ views'[i].picture = IF post.what = "picture" THEN post.run ELSE views[i].picture
        /\ views'[i].share = IF post.what = "picture" THEN TRUE ELSE views[i].share
        /\ views'[i] \in View
    <3>1. views[i] \in View
      BY <1>0, <2>4 DEF TypeOK, View
    <3>2. CASE post.what = "progress"
      BY <2>6, <3>1, <3>2 DEF Shows, View
    <3>3. CASE post.what = "picture"
      BY <2>4, <2>6, <3>1, <3>3 DEF Shows, View
    <3>4. CASE post.what = "final"
      BY <2>6, <3>1, <3>4 DEF Shows, View
    <3> QED
      BY <2>2, <3>2, <3>3, <3>4 DEF PostRecord
  <2>8. TypeOK'
    <3>1. views' \in [Screen -> View]
      BY <1>0, <2>4, <2>5, <2>6, <2>7 DEF TypeOK, View
    <3>2. seen' \subseteq Screen
      BY <1>0, <2>4, <2>5 DEF TypeOK
    <3> QED
      BY <1>0, <2>2, <2>5, <3>1, <3>2 DEF TypeOK, View, PostRecord
  <2>9. InOrder' /\ RunningIsAtWork' /\ FlagIsItsOwn'
    BY <1>0, <2>5 DEF InOrder, RunningIsAtWork, FlagIsItsOwn, AtWork, Current, Cancelled
  <2>10. ShownIsUnderWay'
    <3> SUFFICES ASSUME NEW j \in Screen,
                        \/ views'[j].button = "Cancel" \/ views'[j].bar
                        \/ views'[j].status = "cancelling"
                 PROVE  EndsToCome(j)'
      BY DEF ShownIsUnderWay
    <3>1. j = i => post.what # "final"
      BY <2>7
    <3>2. EndsToCome(j)
      BY <1>0, <2>6, <2>7 DEF ShownIsUnderWay
    <3>3. PICK q \in Run : owner[q] = j /\ (pc[q] # "ended" \/ Pending(q, "final"))
      BY <3>2 DEF EndsToCome
    <3>4. post # [run |-> q, what |-> "final"]
      BY <3>1, <3>3
    <3> QED
      BY <2>3, <2>5, <3>3, <3>4 DEF EndsToCome
  <2>11. ASSUME NEW j \in Screen, post.what # "picture" \/ j # i
         PROVE  views'[j].picture = views[j].picture /\ views'[j].share = views[j].share
    BY <2>6, <2>7, <2>11
  <2>12. \/ post.what = "picture" => post.run = lastPng[i]
         \/ \E k \in 1..Len(posts') : posts'[k] = [run |-> lastPng[i], what |-> "picture"]
    <3> SUFFICES ASSUME post.what = "picture", post.run # lastPng[i]
                 PROVE  \E k \in 1..Len(posts') :
                          posts'[k] = [run |-> lastPng[i], what |-> "picture"]
      OBVIOUS
    <3>1. PICK l \in 2..Len(posts) : posts[l] = [run |-> lastPng[i], what |-> "picture"]
      BY <1>0, <2>2 DEF NewestComesLast
    <3>2. l \in 1..Len(posts) /\ l # 1
      OBVIOUS
    <3> QED
      BY <2>2, <3>1, <3>2
  <2>13. ShownIsSaved'
    <3> SUFFICES ASSUME NEW j \in Screen
                 PROVE  /\ lastPng[j] # 0 => owner[lastPng[j]] = j
                        /\ views'[j].share <=> views'[j].picture # 0
                        /\ views'[j].picture # 0 =>
                             \/ views'[j].picture = lastPng[j]
                             \/ \E k \in 1..Len(posts') :
                                  posts'[k] = [run |-> lastPng[j], what |-> "picture"]
      BY <2>5 DEF ShownIsSaved, Pending
    <3>1. CASE post.what = "picture" /\ j = i
      <4>1. views'[j].picture = post.run /\ views'[j].share = TRUE /\ post.run # 0
        <5>1. post.run # 0
          BY <2>4 DEF Run
        <5>2. views'[i].picture = post.run /\ views'[i].share = TRUE
          BY <2>7, <3>1
        <5> QED
          BY <3>1, <5>1, <5>2
      <4>2. lastPng[j] # 0 => owner[lastPng[j]] = j
        BY <1>0 DEF ShownIsSaved
      <4> QED
        BY <2>12, <3>1, <4>1, <4>2
    <3>2. CASE post.what # "picture" \/ j # i
      <4>1. post # [run |-> lastPng[j], what |-> "picture"]
        BY <1>0, <2>4, <3>2 DEF ShownIsSaved, Run
      <4>2. Pending(lastPng[j], "picture")
              => \E k \in 1..Len(posts') : posts'[k] = [run |-> lastPng[j], what |-> "picture"]
        BY <2>3, <4>1 DEF Pending
      <4> QED
        BY <1>0, <2>11, <3>2, <4>2 DEF ShownIsSaved
    <3> QED
      BY <3>1, <3>2
  <2>14. LastIsShown'
    <3> SUFFICES ASSUME NEW q \in Run, outcome[q] \in Pictured, Current(q, owner[q])
                 PROVE  /\ lastPng[owner[q]] = q
                        /\ views'[owner[q]].picture = q \/ Pending(q, "picture")'
      BY <2>5 DEF LastIsShown, Current
    <3>1. lastPng[owner[q]] = q /\ owner[q] \in Screen
      BY <1>0 DEF LastIsShown, TypeOK, InOrder
    <3>2. CASE post.what = "picture" /\ owner[q] = i
      BY <2>7, <2>12, <3>1, <3>2 DEF Pending
    <3>3. CASE post.what # "picture" \/ owner[q] # i
      <4>1. post # [run |-> q, what |-> "picture"]
        BY <3>3
      <4> QED
        BY <1>0, <2>3, <2>11, <3>1, <3>3, <4>1 DEF LastIsShown
    <3> QED
      BY <3>2, <3>3
  <2>15. NewestComesLast'
    <3> SUFFICES ASSUME NEW k \in 1..Len(posts'), posts'[k].what = "picture"
                 PROVE  \/ posts'[k].run = lastPng[owner[posts'[k].run]]
                        \/ \E l \in (k + 1)..Len(posts') :
                             posts'[l] = [run |-> lastPng[owner[posts'[k].run]], what |-> "picture"]
      BY <2>5 DEF NewestComesLast
    <3>1. k + 1 \in 1..Len(posts) /\ posts'[k] = posts[k + 1]
      BY <2>2
    <3>2. \A l \in (k + 2)..Len(posts) : l - 1 \in (k + 1)..Len(posts') /\ posts'[l - 1] = posts[l]
      <4> TAKE l \in (k + 2)..Len(posts)
      <4>1. l \in 1..Len(posts) /\ l # 1
        OBVIOUS
      <4>2. l - 1 \in 1..Len(posts') /\ posts'[l - 1] = posts[l]
        BY <2>2, <4>1
      <4> QED
        BY <4>2
    <3>3. \/ posts[k + 1].run = lastPng[owner[posts[k + 1].run]]
          \/ \E l \in (k + 2)..Len(posts) :
               posts[l] = [run |-> lastPng[owner[posts[k + 1].run]], what |-> "picture"]
      BY <1>0, <3>1 DEF NewestComesLast
    <3> QED
      BY <3>1, <3>2, <3>3
  <2>16. PostsAreOfRuns'
    BY <1>0, <2>2, <2>5 DEF PostsAreOfRuns
  <2> QED
    BY <2>8, <2>9, <2>10, <2>13, <2>14, <2>15, <2>16 DEF IInv
<1>5. ASSUME NEW r \in Run, OpenPipeline(r) PROVE IInv'
  <2>1. UNCHANGED posts
    BY <1>5 DEF OpenPipeline, Moves
  <2>2. PostsKept
    BY <2>1 DEF PostsKept, Pending
  <2>3. TypeOK'
    BY <1>0, <1>5 DEF OpenPipeline, Moves, Goto, TypeOK, PostRecord
  <2>4. InOrder'
    BY <1>0, <1>5, <2>3 DEF OpenPipeline, Moves, Goto, TypeOK, InOrder
  <2>5. RunningIsAtWork'
    BY <1>0, <1>5, <2>3
    DEF OpenPipeline, Moves, Goto, TypeOK, InOrder, RunningIsAtWork, AtWork, Current
  <2>6. FlagIsItsOwn'
    BY <1>0, <1>5, <2>3
    DEF OpenPipeline, Moves, Goto, TypeOK, RunningIsAtWork, FlagIsItsOwn, AtWork, ToBeChecked,
        Cancelled, Current
  <2>7. ShownIsUnderWay'
    BY <1>0, <1>5, <2>2, StillUnderWay DEF OpenPipeline, Moves, Goto, TypeOK
  <2>8. ShownIsSaved'
    BY <1>0, <1>5, <2>2, StillSaved DEF OpenPipeline, Moves, Goto
  <2>9. NewestComesLast'
    BY <1>0, <1>5, <2>1 DEF OpenPipeline, Moves, Goto, NewestComesLast
  <2>10. LastIsShown'
    BY <1>0, <1>5, <2>2, StillShown DEF OpenPipeline, Moves, Goto, TypeOK
  <2>11. PostsAreOfRuns'
    BY <1>0, <1>5, <2>1 DEF OpenPipeline, Moves, Goto, PostsAreOfRuns
  <2> QED BY <2>3, <2>4, <2>5, <2>6, <2>7, <2>8, <2>9, <2>10, <2>11 DEF IInv
<1>6. ASSUME NEW r \in Run, Reset(r) PROVE IInv'
  <2>1. posts \in Seq(PostRecord) /\ Post(r, "progress")
    BY <1>0, <1>6 DEF Reset, TypeOK, PostRecord
  <2>2. PostsKept /\ Pending(r, "progress")'
    BY <2>1, PostKeeps
  <2>3. TypeOK'
    BY <1>0, <1>6, <2>1, Posted DEF Reset, Moves, Goto, TypeOK, PostRecord
  <2>4. InOrder'
    BY <1>0, <1>6, <2>3 DEF Reset, Moves, Goto, TypeOK, InOrder
  <2>5. RunningIsAtWork'
    BY <1>0, <1>6, <2>3
    DEF Reset, Moves, Goto, TypeOK, InOrder, RunningIsAtWork, AtWork, Current
  <2>6. FlagIsItsOwn'
    <3>1. AtWork(r) /\ pc[r] = "reset" /\ pc'[r] = "text" /\ owner[r] \in Screen
      BY <1>0, <1>6 DEF Reset, Moves, Goto, TypeOK, InOrder, AtWork
    <3>2. \A q \in Run : q # r => pc'[q] = pc[q]
      BY <1>0, <1>6 DEF Reset, Moves, Goto, TypeOK
    <3>3. ASSUME NEW q \in Run, q # r, pc[q] \in ToBeChecked PROVE owner[q] # owner[r]
      <4> SUFFICES ASSUME owner[q] = owner[r] PROVE q = r
        BY <3>3
      <4>1. AtWork(q)
        BY <3>3 DEF AtWork, ToBeChecked
      <4>2. q <= r /\ r <= q
        BY <1>0, <3>1, <4>1 DEF RunningIsAtWork, Current
      <4> QED
        BY <4>2 DEF Run
    <3>4. flag' = [flag EXCEPT ![owner[r]] = "clear"] /\ UNCHANGED <<owner, outcome, heard, asked>>
      BY <1>6 DEF Reset, Moves
    <3>5. \A q \in Run : q # r /\ pc[q] \in ToBeChecked => (Cancelled(q)' <=> Cancelled(q))
      BY <1>0, <3>3, <3>4 DEF TypeOK, Cancelled
    <3>6. r \notin heard /\ ~Cancelled(r)'
      BY <1>0, <3>1, <3>4 DEF TypeOK, FlagIsItsOwn, ToBeChecked, Cancelled
    <3>7. ASSUME NEW q \in Run
          PROVE  /\ q \in heard => \/ pc'[q] \in ToBeChecked /\ Cancelled(q)'
                                   \/ pc'[q] \in {"finally", "final", "ended"} /\ outcome[q] \notin Pictured
                 /\ pc'[q] \in ToBeChecked /\ Cancelled(q)' => q \in asked
                 /\ outcome[q] = "cancelled" => q \in asked
      <4>1. CASE q = r
        BY <1>0, <3>6, <4>1 DEF FlagIsItsOwn
      <4>2. CASE q # r
        BY <1>0, <3>2, <3>5, <4>2 DEF FlagIsItsOwn
      <4> QED
        BY <4>1, <4>2
    <3> QED
      BY <3>4, <3>7 DEF FlagIsItsOwn
  <2>7. ShownIsUnderWay'
    BY <1>0, <1>6, <2>2, StillUnderWay DEF Reset, Moves, Goto, TypeOK
  <2>8. ShownIsSaved'
    BY <1>0, <1>6, <2>2, StillSaved DEF Reset, Moves, Goto
  <2>9. NewestComesLast'
    BY <1>0, <1>6, <2>1, StillNewest DEF Reset, Moves, Goto
  <2>10. LastIsShown'
    BY <1>0, <1>6, <2>2, StillShown DEF Reset, Moves, Goto, TypeOK
  <2>11. PostsAreOfRuns'
    BY <1>0, <1>6, <2>1, StillOfRuns DEF Reset, Moves, Goto, TypeOK, InOrder
  <2> QED BY <2>3, <2>4, <2>5, <2>6, <2>7, <2>8, <2>9, <2>10, <2>11 DEF IInv
<1>7. ASSUME NEW r \in Run, TextLoaded(r) PROVE IInv'
  <2>1. UNCHANGED posts
    BY <1>7 DEF TextLoaded, Moves
  <2>2. PostsKept
    BY <2>1 DEF PostsKept, Pending
  <2>3. TypeOK'
    BY <1>0, <1>7 DEF TextLoaded, Moves, Goto, TypeOK, PostRecord
  <2>4. InOrder'
    BY <1>0, <1>7, <2>3 DEF TextLoaded, Moves, Goto, TypeOK, InOrder
  <2>5. RunningIsAtWork'
    BY <1>0, <1>7, <2>3
    DEF TextLoaded, Moves, Goto, TypeOK, InOrder, RunningIsAtWork, AtWork, Current
  <2>6. FlagIsItsOwn'
    BY <1>0, <1>7, <2>3
    DEF TextLoaded, Moves, Goto, TypeOK, RunningIsAtWork, FlagIsItsOwn, AtWork, ToBeChecked,
        Cancelled, Current
  <2>7. ShownIsUnderWay'
    BY <1>0, <1>7, <2>2, StillUnderWay DEF TextLoaded, Moves, Goto, TypeOK
  <2>8. ShownIsSaved'
    BY <1>0, <1>7, <2>2, StillSaved DEF TextLoaded, Moves, Goto
  <2>9. NewestComesLast'
    BY <1>0, <1>7, <2>1 DEF TextLoaded, Moves, Goto, NewestComesLast
  <2>10. LastIsShown'
    BY <1>0, <1>7, <2>2, StillShown DEF TextLoaded, Moves, Goto, TypeOK
  <2>11. PostsAreOfRuns'
    BY <1>0, <1>7, <2>1 DEF TextLoaded, Moves, Goto, PostsAreOfRuns
  <2> QED BY <2>3, <2>4, <2>5, <2>6, <2>7, <2>8, <2>9, <2>10, <2>11 DEF IInv
<1>8. ASSUME NEW r \in Run, TextDone(r) PROVE IInv'
  <2>1. posts \in Seq(PostRecord) /\ Post(r, "progress")
    BY <1>0, <1>8 DEF TextDone, TypeOK, PostRecord
  <2>2. PostsKept /\ Pending(r, "progress")'
    BY <2>1, PostKeeps
  <2>3. TypeOK'
    BY <1>0, <1>8, <2>1, Posted DEF TextDone, Moves, Goto, TypeOK, PostRecord
  <2>4. InOrder'
    BY <1>0, <1>8, <2>3 DEF TextDone, Moves, Goto, TypeOK, InOrder
  <2>5. RunningIsAtWork'
    BY <1>0, <1>8, <2>3
    DEF TextDone, Moves, Goto, TypeOK, InOrder, RunningIsAtWork, AtWork, Current
  <2>6. FlagIsItsOwn'
    BY <1>0, <1>8, <2>3
    DEF TextDone, Moves, Goto, TypeOK, RunningIsAtWork, FlagIsItsOwn, AtWork, ToBeChecked,
        Cancelled, Current
  <2>7. ShownIsUnderWay'
    BY <1>0, <1>8, <2>2, StillUnderWay DEF TextDone, Moves, Goto, TypeOK
  <2>8. ShownIsSaved'
    BY <1>0, <1>8, <2>2, StillSaved DEF TextDone, Moves, Goto
  <2>9. NewestComesLast'
    BY <1>0, <1>8, <2>1, StillNewest DEF TextDone, Moves, Goto
  <2>10. LastIsShown'
    BY <1>0, <1>8, <2>2, StillShown DEF TextDone, Moves, Goto, TypeOK
  <2>11. PostsAreOfRuns'
    BY <1>0, <1>8, <2>1, StillOfRuns DEF TextDone, Moves, Goto, TypeOK, InOrder
  <2> QED BY <2>3, <2>4, <2>5, <2>6, <2>7, <2>8, <2>9, <2>10, <2>11 DEF IInv
<1>9. ASSUME NEW r \in Run, DitLoaded(r) PROVE IInv'
  <2>1. UNCHANGED posts
    BY <1>9 DEF DitLoaded, Moves
  <2>2. PostsKept
    BY <2>1 DEF PostsKept, Pending
  <2>3. TypeOK'
    BY <1>0, <1>9 DEF DitLoaded, Moves, Goto, TypeOK, PostRecord
  <2>4. InOrder'
    BY <1>0, <1>9, <2>3 DEF DitLoaded, Moves, Goto, TypeOK, InOrder
  <2>5. RunningIsAtWork'
    BY <1>0, <1>9, <2>3
    DEF DitLoaded, Moves, Goto, TypeOK, InOrder, RunningIsAtWork, AtWork, Current
  <2>6. FlagIsItsOwn'
    BY <1>0, <1>9, <2>3
    DEF DitLoaded, Moves, Goto, TypeOK, RunningIsAtWork, FlagIsItsOwn, AtWork, ToBeChecked,
        Cancelled, Current
  <2>7. ShownIsUnderWay'
    BY <1>0, <1>9, <2>2, StillUnderWay DEF DitLoaded, Moves, Goto, TypeOK
  <2>8. ShownIsSaved'
    BY <1>0, <1>9, <2>2, StillSaved DEF DitLoaded, Moves, Goto
  <2>9. NewestComesLast'
    BY <1>0, <1>9, <2>1 DEF DitLoaded, Moves, Goto, NewestComesLast
  <2>10. LastIsShown'
    BY <1>0, <1>9, <2>2, StillShown DEF DitLoaded, Moves, Goto, TypeOK
  <2>11. PostsAreOfRuns'
    BY <1>0, <1>9, <2>1 DEF DitLoaded, Moves, Goto, PostsAreOfRuns
  <2> QED BY <2>3, <2>4, <2>5, <2>6, <2>7, <2>8, <2>9, <2>10, <2>11 DEF IInv
<1>10. ASSUME NEW r \in Run, StepBegins(r) PROVE IInv'
  <2>1. posts \in Seq(PostRecord) /\ Post(r, "progress")
    BY <1>0, <1>10 DEF StepBegins, TypeOK, PostRecord
  <2>2. PostsKept /\ Pending(r, "progress")'
    BY <2>1, PostKeeps
  <2>3. TypeOK'
    BY <1>0, <1>10, <2>1, Posted DEF StepBegins, Moves, Goto, TypeOK, PostRecord
  <2>4. InOrder'
    BY <1>0, <1>10, <2>3 DEF StepBegins, Moves, Goto, TypeOK, InOrder
  <2>5. RunningIsAtWork'
    BY <1>0, <1>10, <2>3
    DEF StepBegins, Moves, Goto, TypeOK, InOrder, RunningIsAtWork, AtWork, Current
  <2>6. FlagIsItsOwn'
    BY <1>0, <1>10, <2>3
    DEF StepBegins, Moves, Goto, TypeOK, RunningIsAtWork, FlagIsItsOwn, AtWork, ToBeChecked,
        Cancelled, Current
  <2>7. ShownIsUnderWay'
    BY <1>0, <1>10, <2>2, StillUnderWay DEF StepBegins, Moves, Goto, TypeOK
  <2>8. ShownIsSaved'
    BY <1>0, <1>10, <2>2, StillSaved DEF StepBegins, Moves, Goto
  <2>9. NewestComesLast'
    BY <1>0, <1>10, <2>1, StillNewest DEF StepBegins, Moves, Goto
  <2>10. LastIsShown'
    BY <1>0, <1>10, <2>2, StillShown DEF StepBegins, Moves, Goto, TypeOK
  <2>11. PostsAreOfRuns'
    BY <1>0, <1>10, <2>1, StillOfRuns DEF StepBegins, Moves, Goto, TypeOK, InOrder
  <2> QED BY <2>3, <2>4, <2>5, <2>6, <2>7, <2>8, <2>9, <2>10, <2>11 DEF IInv
<1>11. ASSUME NEW r \in Run, StepEnds(r) PROVE IInv'
  <2>1. UNCHANGED posts
    BY <1>11 DEF StepEnds, Moves
  <2>2. PostsKept
    BY <2>1 DEF PostsKept, Pending
  <2>3. TypeOK'
    <3>1. step[r] + 1 \in 0..Steps
      BY <1>0, <1>11, ConstantsAssumption DEF StepEnds, Moves, TypeOK, InOrder
    <3> QED
      BY <1>0, <1>11, <3>1 DEF StepEnds, Moves, Goto, TypeOK
  <2>4. InOrder'
    BY <1>0, <1>11, <2>3 DEF StepEnds, Moves, Goto, TypeOK, InOrder
  <2>5. RunningIsAtWork'
    BY <1>0, <1>11, <2>3
    DEF StepEnds, Moves, Goto, TypeOK, InOrder, RunningIsAtWork, AtWork, Current
  <2>6. FlagIsItsOwn'
    BY <1>0, <1>11, <2>3
    DEF StepEnds, Moves, Goto, TypeOK, RunningIsAtWork, FlagIsItsOwn, AtWork, ToBeChecked,
        Cancelled, Current
  <2>7. ShownIsUnderWay'
    BY <1>0, <1>11, <2>2, StillUnderWay DEF StepEnds, Moves, Goto, TypeOK
  <2>8. ShownIsSaved'
    BY <1>0, <1>11, <2>2, StillSaved DEF StepEnds, Moves, Goto
  <2>9. NewestComesLast'
    BY <1>0, <1>11, <2>1 DEF StepEnds, Moves, Goto, NewestComesLast
  <2>10. LastIsShown'
    BY <1>0, <1>11, <2>2, StillShown DEF StepEnds, Moves, Goto, TypeOK
  <2>11. PostsAreOfRuns'
    BY <1>0, <1>11, <2>1 DEF StepEnds, Moves, Goto, PostsAreOfRuns
  <2> QED BY <2>3, <2>4, <2>5, <2>6, <2>7, <2>8, <2>9, <2>10, <2>11 DEF IInv
<1>12. ASSUME NEW r \in Run, LoopEnds(r) PROVE IInv'
  <2>1. posts \in Seq(PostRecord) /\ Post(r, "progress")
    BY <1>0, <1>12 DEF LoopEnds, TypeOK, PostRecord
  <2>2. PostsKept /\ Pending(r, "progress")'
    BY <2>1, PostKeeps
  <2>3. TypeOK'
    BY <1>0, <1>12, <2>1, Posted DEF LoopEnds, Moves, Goto, TypeOK, PostRecord
  <2>4. InOrder'
    BY <1>0, <1>12, <2>3 DEF LoopEnds, Moves, Goto, TypeOK, InOrder
  <2>5. RunningIsAtWork'
    BY <1>0, <1>12, <2>3
    DEF LoopEnds, Moves, Goto, TypeOK, InOrder, RunningIsAtWork, AtWork, Current
  <2>6. FlagIsItsOwn'
    BY <1>0, <1>12, <2>3
    DEF LoopEnds, Moves, Goto, TypeOK, RunningIsAtWork, FlagIsItsOwn, AtWork, ToBeChecked,
        Cancelled, Current
  <2>7. ShownIsUnderWay'
    BY <1>0, <1>12, <2>2, StillUnderWay DEF LoopEnds, Moves, Goto, TypeOK
  <2>8. ShownIsSaved'
    BY <1>0, <1>12, <2>2, StillSaved DEF LoopEnds, Moves, Goto
  <2>9. NewestComesLast'
    BY <1>0, <1>12, <2>1, StillNewest DEF LoopEnds, Moves, Goto
  <2>10. LastIsShown'
    BY <1>0, <1>12, <2>2, StillShown DEF LoopEnds, Moves, Goto, TypeOK
  <2>11. PostsAreOfRuns'
    BY <1>0, <1>12, <2>1, StillOfRuns DEF LoopEnds, Moves, Goto, TypeOK, InOrder
  <2> QED BY <2>3, <2>4, <2>5, <2>6, <2>7, <2>8, <2>9, <2>10, <2>11 DEF IInv
<1>13. ASSUME NEW r \in Run, Decoded(r) PROVE IInv'
  <2>1. posts \in Seq(PostRecord) /\ Post(r, "progress")
    BY <1>0, <1>13 DEF Decoded, TypeOK, PostRecord
  <2>2. PostsKept /\ Pending(r, "progress")'
    BY <2>1, PostKeeps
  <2>3. TypeOK'
    BY <1>0, <1>13, <2>1, Posted DEF Decoded, Moves, Goto, TypeOK, PostRecord
  <2>4. InOrder'
    BY <1>0, <1>13, <2>3 DEF Decoded, Moves, Goto, TypeOK, InOrder
  <2>5. RunningIsAtWork'
    BY <1>0, <1>13, <2>3
    DEF Decoded, Moves, Goto, TypeOK, InOrder, RunningIsAtWork, AtWork, Current
  <2>6. FlagIsItsOwn'
    BY <1>0, <1>13, <2>3
    DEF Decoded, Moves, Goto, TypeOK, RunningIsAtWork, FlagIsItsOwn, AtWork, ToBeChecked,
        Cancelled, Current
  <2>7. ShownIsUnderWay'
    BY <1>0, <1>13, <2>2, StillUnderWay DEF Decoded, Moves, Goto, TypeOK
  <2>8. ShownIsSaved'
    BY <1>0, <1>13, <2>2, StillSaved DEF Decoded, Moves, Goto
  <2>9. NewestComesLast'
    BY <1>0, <1>13, <2>1, StillNewest DEF Decoded, Moves, Goto
  <2>10. LastIsShown'
    BY <1>0, <1>13, <2>2, StillShown DEF Decoded, Moves, Goto, TypeOK
  <2>11. PostsAreOfRuns'
    BY <1>0, <1>13, <2>1, StillOfRuns DEF Decoded, Moves, Goto, TypeOK, InOrder
  <2> QED BY <2>3, <2>4, <2>5, <2>6, <2>7, <2>8, <2>9, <2>10, <2>11 DEF IInv
<1>14. ASSUME NEW r \in Run, Save(r) PROVE IInv'
  <2>1. posts \in Seq(PostRecord) /\ Post(r, "picture")
    BY <1>0, <1>14 DEF Save, TypeOK, PostRecord
  <2>2. PostsKept /\ Pending(r, "picture")'
    BY <2>1, PostKeeps
  <2>3. TypeOK'
    <3>1. PICK how \in Pictured : outcome' = [outcome EXCEPT ![r] = how]
      BY <1>14 DEF Save
    <3>2. outcome' \in [Run -> {"none", "ok", "cut", "cancelled", "failed"}]
      BY <1>0, <3>1 DEF TypeOK
    <3>3. pc' = [pc EXCEPT ![r] = "finally"]
      BY <1>14 DEF Save, Moves, Goto
    <3> QED
      BY <1>0, <1>14, <2>1, <3>2, <3>3, Posted DEF Save, Moves, TypeOK, PostRecord
  <2>4. InOrder'
    BY <1>0, <1>14, <2>3 DEF Save, Moves, Goto, TypeOK, InOrder
  <2>5. RunningIsAtWork'
    BY <1>0, <1>14, <2>3
    DEF Save, Moves, Goto, TypeOK, InOrder, RunningIsAtWork, AtWork, Current
  <2>6. FlagIsItsOwn'
    BY <1>0, <1>14, <2>3
    DEF Save, Moves, Goto, TypeOK, RunningIsAtWork, FlagIsItsOwn, AtWork, ToBeChecked,
        Cancelled, Current
  <2>7. ShownIsUnderWay'
    BY <1>0, <1>14, <2>2, StillUnderWay DEF Save, Moves, Goto, TypeOK
  <2>8. ShownIsSaved'
    <3>1. owner[r] \in Screen /\ AtWork(r) /\ pc[r] = "save"
      BY <1>0, <1>14 DEF Save, Moves, TypeOK, InOrder, AtWork
    <3>2. /\ lastPng'[owner[r]] = r /\ \A j \in Screen : j # owner[r] => lastPng'[j] = lastPng[j]
          /\ UNCHANGED <<views, owner>>
      BY <1>0, <1>14, <3>1 DEF Save, Moves, TypeOK
    <3>3. \A q : Pending(q, "picture")
                   => \E k \in 1..Len(posts') : posts'[k] = [run |-> q, what |-> "picture"]
      BY <2>2 DEF PostsKept
    <3>4. \E k \in 1..Len(posts') : posts'[k] = [run |-> r, what |-> "picture"]
      BY <2>2 DEF Pending
    <3> SUFFICES ASSUME NEW j \in Screen
                 PROVE  /\ lastPng'[j] # 0 => owner[lastPng'[j]] = j
                        /\ views[j].share <=> views[j].picture # 0
                        /\ views[j].picture # 0 =>
                             \/ views[j].picture = lastPng'[j]
                             \/ \E k \in 1..Len(posts') :
                                  posts'[k] = [run |-> lastPng'[j], what |-> "picture"]
      BY <3>2 DEF ShownIsSaved, Pending
    <3>5. CASE j = owner[r]
      BY <1>0, <3>2, <3>4, <3>5 DEF ShownIsSaved
    <3>6. CASE j # owner[r]
      BY <1>0, <3>2, <3>3, <3>6 DEF ShownIsSaved
    <3> QED
      BY <3>5, <3>6
  <2>9. NewestComesLast'
    <3>1. owner[r] \in Screen /\ AtWork(r) /\ pc[r] = "save"
      BY <1>0, <1>14 DEF Save, Moves, TypeOK, InOrder, AtWork
    <3>2. /\ lastPng'[owner[r]] = r /\ \A j \in Screen : j # owner[r] => lastPng'[j] = lastPng[j]
          /\ UNCHANGED <<views, owner>>
      BY <1>0, <1>14, <3>1 DEF Save, Moves, TypeOK
    <3>3. Len(posts) \in Nat /\ Len(posts') \in Nat
      BY <2>1, Posted, LenProperties
    <3>4. PICK n \in 1..Len(posts') : n > Len(posts) /\ posts'[n] = [run |-> r, what |-> "picture"]
      BY <2>1, Posted
    <3>5. /\ \A k \in 1..Len(posts) : k \in 1..Len(posts') /\ posts'[k] = posts[k]
          /\ \A k \in 1..Len(posts') :
               k \in 1..Len(posts) \/ posts'[k] = [run |-> r, what |-> "picture"]
      BY <2>1, Posted
    <3>6. ASSUME NEW k \in 1..Len(posts'), posts'[k].what = "picture"
          PROVE  \/ posts'[k].run = lastPng'[owner[posts'[k].run]]
                 \/ \E l \in (k + 1)..Len(posts') :
                      posts'[l] = [run |-> lastPng'[owner[posts'[k].run]], what |-> "picture"]
      <4>1. CASE posts'[k] = [run |-> r, what |-> "picture"]
        BY <3>2, <4>1
      <4>2. CASE k \in 1..Len(posts) /\ owner[posts[k].run] = owner[r]
        <5>1. n \in (k + 1)..Len(posts')
          BY <3>3, <3>4, <4>2
        <5> QED
          BY <3>2, <3>4, <3>5, <4>2, <5>1
      <4>3. CASE k \in 1..Len(posts) /\ owner[posts[k].run] # owner[r]
        <5>1. posts[k] \in PostRecord /\ owner[posts[k].run] # 0
          BY <1>0, <2>1, <4>3, ElementOfSeq DEF PostsAreOfRuns
        <5>2. owner[posts[k].run] \in Screen
          BY <1>0, <5>1 DEF PostRecord, TypeOK
        <5>3. lastPng'[owner[posts[k].run]] = lastPng[owner[posts[k].run]] /\ posts'[k] = posts[k]
          BY <3>2, <3>5, <4>3, <5>2
        <5>4. \A l \in (k + 1)..Len(posts) : l \in (k + 1)..Len(posts') /\ posts'[l] = posts[l]
          <6> TAKE l \in (k + 1)..Len(posts)
          <6>1. l \in 1..Len(posts)
            BY <3>3, <4>3
          <6>2. l \in 1..Len(posts') /\ posts'[l] = posts[l]
            BY <3>5, <6>1
          <6> QED
            BY <3>3, <6>2
        <5> QED
          BY <1>0, <3>6, <4>3, <5>3, <5>4 DEF NewestComesLast
      <4> QED
        BY <3>5, <4>1, <4>2, <4>3
    <3> QED
      BY <3>2, <3>6 DEF NewestComesLast
  <2>10. LastIsShown'
    <3>1. owner[r] \in Screen /\ AtWork(r) /\ pc[r] = "save"
      BY <1>0, <1>14 DEF Save, Moves, TypeOK, InOrder, AtWork
    <3>2. /\ lastPng'[owner[r]] = r /\ \A j \in Screen : j # owner[r] => lastPng'[j] = lastPng[j]
          /\ UNCHANGED <<views, owner>>
      BY <1>0, <1>14, <3>1 DEF Save, Moves, TypeOK
    <3>3. PICK how \in Pictured : outcome' = [outcome EXCEPT ![r] = how]
      BY <1>14 DEF Save
    <3> SUFFICES ASSUME NEW q \in Run, outcome'[q] \in Pictured, Current(q, owner[q])'
                 PROVE  /\ lastPng'[owner[q]] = q
                        /\ views[owner[q]].picture = q \/ Pending(q, "picture")'
      BY <3>2 DEF LastIsShown
    <3>4. CASE q = r
      BY <2>2, <3>2, <3>4
    <3>5. CASE q # r
      <4>1. outcome[q] \in Pictured /\ Current(q, owner[q]) /\ owner[q] \in Screen
        <5>1. outcome[q] \in Pictured
          BY <1>0, <3>3, <3>5 DEF TypeOK
        <5>2. Current(q, owner[q])
          BY <3>2 DEF Current
        <5> QED
          BY <1>0, <5>1, <5>2 DEF TypeOK, InOrder
      <4>2. owner[q] # owner[r]
        <5> SUFFICES ASSUME owner[q] = owner[r] PROVE q = r
          BY <3>5
        <5>1. q <= r /\ r <= q
          BY <1>0, <3>1, <4>1 DEF RunningIsAtWork, Current
        <5> QED
          BY <5>1 DEF Run
      <4>3. Pending(q, "picture") => Pending(q, "picture")'
        BY <2>2 DEF PostsKept, Pending
      <4> QED
        BY <1>0, <3>2, <4>1, <4>2, <4>3 DEF LastIsShown
    <3> QED
      BY <3>4, <3>5
  <2>11. PostsAreOfRuns'
    BY <1>0, <1>14, <2>1, StillOfRuns DEF Save, Moves, Goto, TypeOK, InOrder
  <2> QED BY <2>3, <2>4, <2>5, <2>6, <2>7, <2>8, <2>9, <2>10, <2>11 DEF IInv
<1>15. ASSUME NEW r \in Run, Stop(r) PROVE IInv'
  <2>1. UNCHANGED posts
    BY <1>15 DEF Stop, Moves
  <2>2. PostsKept
    BY <2>1 DEF PostsKept, Pending
  <2>3. TypeOK'
    BY <1>0, <1>15 DEF Stop, Moves, Goto, TypeOK, PostRecord
  <2>4. InOrder'
    BY <1>0, <1>15, <2>3 DEF Stop, Moves, Goto, TypeOK, InOrder
  <2>5. RunningIsAtWork'
    BY <1>0, <1>15, <2>3
    DEF Stop, Moves, Goto, TypeOK, InOrder, RunningIsAtWork, AtWork, Current
  <2>6. FlagIsItsOwn'
    BY <1>0, <1>15, <2>3
    DEF Stop, Moves, Goto, TypeOK, RunningIsAtWork, FlagIsItsOwn, AtWork, ToBeChecked,
        Cancelled, Current
  <2>7. ShownIsUnderWay'
    BY <1>0, <1>15, <2>2, StillUnderWay DEF Stop, Moves, Goto, TypeOK
  <2>8. ShownIsSaved'
    BY <1>0, <1>15, <2>2, StillSaved DEF Stop, Moves, Goto
  <2>9. NewestComesLast'
    BY <1>0, <1>15, <2>1 DEF Stop, Moves, Goto, NewestComesLast
  <2>10. LastIsShown'
    BY <1>0, <1>15, <2>2, StillShown DEF Stop, Moves, Goto, TypeOK
  <2>11. PostsAreOfRuns'
    BY <1>0, <1>15, <2>1 DEF Stop, Moves, Goto, PostsAreOfRuns
  <2> QED BY <2>3, <2>4, <2>5, <2>6, <2>7, <2>8, <2>9, <2>10, <2>11 DEF IInv
<1>16. ASSUME NEW r \in Run, Throw(r) PROVE IInv'
  <2>1. UNCHANGED posts
    BY <1>16 DEF Throw, Moves
  <2>2. PostsKept
    BY <2>1 DEF PostsKept, Pending
  <2>3. TypeOK'
    BY <1>0, <1>16 DEF Throw, Moves, Goto, TypeOK, PostRecord
  <2>4. InOrder'
    BY <1>0, <1>16, <2>3 DEF Throw, Moves, Goto, TypeOK, InOrder
  <2>5. RunningIsAtWork'
    BY <1>0, <1>16, <2>3
    DEF Throw, Moves, Goto, TypeOK, InOrder, RunningIsAtWork, AtWork, Current
  <2>6. FlagIsItsOwn'
    BY <1>0, <1>16, <2>3
    DEF Throw, Moves, Goto, TypeOK, RunningIsAtWork, FlagIsItsOwn, AtWork, ToBeChecked,
        Cancelled, Current
  <2>7. ShownIsUnderWay'
    BY <1>0, <1>16, <2>2, StillUnderWay DEF Throw, Moves, Goto, TypeOK
  <2>8. ShownIsSaved'
    BY <1>0, <1>16, <2>2, StillSaved DEF Throw, Moves, Goto
  <2>9. NewestComesLast'
    BY <1>0, <1>16, <2>1 DEF Throw, Moves, Goto, NewestComesLast
  <2>10. LastIsShown'
    BY <1>0, <1>16, <2>2, StillShown DEF Throw, Moves, Goto, TypeOK
  <2>11. PostsAreOfRuns'
    BY <1>0, <1>16, <2>1 DEF Throw, Moves, Goto, PostsAreOfRuns
  <2> QED BY <2>3, <2>4, <2>5, <2>6, <2>7, <2>8, <2>9, <2>10, <2>11 DEF IInv
<1>17. ASSUME NEW r \in Run, GiveBack(r) PROVE IInv'
  <2>1. UNCHANGED posts
    BY <1>17 DEF GiveBack, Moves
  <2>2. PostsKept
    BY <2>1 DEF PostsKept, Pending
  <2>3. TypeOK'
    <3>1. step' \in [Run -> 0..Steps]
      BY <1>0, <1>17, ConstantsAssumption DEF GiveBack, TypeOK
    <3>2. running' \in [Screen -> BOOLEAN] /\ pc' = [pc EXCEPT ![r] = "final"]
      BY <1>0, <1>17 DEF GiveBack, Moves, Goto, TypeOK
    <3> QED
      BY <1>0, <1>17, <3>1, <3>2 DEF GiveBack, Moves, TypeOK, PostRecord
  <2>4. InOrder'
    <3>1. /\ pc[r] = "finally" /\ pc' = [pc EXCEPT ![r] = "final"]
          /\ step' = [step EXCEPT ![r] = 0]
          /\ UNCHANGED <<shown, owner, outcome>>
      BY <1>17 DEF GiveBack, Moves, Goto
    <3>2. pc'[r] = "final" /\ \A q \in Run \ {r} : pc'[q] = pc[q] /\ step'[q] = step[q]
      BY <1>0, <3>1 DEF TypeOK
    <3> QED
      BY <1>0, <3>1, <3>2 DEF InOrder
  <2>5. RunningIsAtWork'
    <3>1. AtWork(r) /\ pc'[r] = "final" /\ \A q \in Run : q # r => pc'[q] = pc[q]
      BY <1>0, <1>17 DEF GiveBack, Moves, Goto, TypeOK, AtWork
    <3>2. \A q \in Run : AtWork(q)' <=> AtWork(q) /\ q # r
      BY <3>1 DEF AtWork
    <3>3. owner' = owner /\ running' = [running EXCEPT ![owner[r]] = FALSE]
      BY <1>17 DEF GiveBack, Moves
    <3>4. \A q \in Run : AtWork(q) /\ q # r => owner[q] # owner[r]
      <4> SUFFICES ASSUME NEW q \in Run, AtWork(q), owner[q] = owner[r] PROVE q = r
        OBVIOUS
      <4>1. q <= r /\ r <= q
        BY <1>0, <3>1 DEF RunningIsAtWork, Current
      <4> QED
        BY <4>1 DEF Run
    <3>5. ASSUME NEW q \in Run, AtWork(q)' PROVE running'[owner'[q]] /\ Current(q, owner[q])'
      <4>1. running[owner[q]] /\ Current(q, owner[q]) /\ owner[q] # owner[r]
        BY <1>0, <3>2, <3>4, <3>5 DEF RunningIsAtWork
      <4> QED
        BY <1>0, <3>3, <4>1 DEF TypeOK, Current
    <3>6. ASSUME NEW i \in Screen, running'[i] PROVE \E q \in Run : owner'[q] = i /\ AtWork(q)'
      <4>1. running[i] /\ i # owner[r]
        BY <1>0, <3>3, <3>6 DEF TypeOK
      <4> QED
        BY <1>0, <3>2, <3>3, <4>1 DEF RunningIsAtWork
    <3> QED
      BY <3>5, <3>6 DEF RunningIsAtWork
  <2>6. FlagIsItsOwn'
    BY <1>0, <1>17, <2>3
    DEF GiveBack, Moves, Goto, TypeOK, RunningIsAtWork, FlagIsItsOwn, AtWork, ToBeChecked,
        Cancelled, Current
  <2>7. ShownIsUnderWay'
    BY <1>0, <1>17, <2>2, StillUnderWay DEF GiveBack, Moves, Goto, TypeOK
  <2>8. ShownIsSaved'
    BY <1>0, <1>17, <2>2, StillSaved DEF GiveBack, Moves, Goto
  <2>9. NewestComesLast'
    BY <1>0, <1>17, <2>1 DEF GiveBack, Moves, Goto, NewestComesLast
  <2>10. LastIsShown'
    BY <1>0, <1>17, <2>2, StillShown DEF GiveBack, Moves, Goto, TypeOK
  <2>11. PostsAreOfRuns'
    BY <1>0, <1>17, <2>1 DEF GiveBack, Moves, Goto, PostsAreOfRuns
  <2> QED BY <2>3, <2>4, <2>5, <2>6, <2>7, <2>8, <2>9, <2>10, <2>11 DEF IInv
<1>18. ASSUME NEW r \in Run, PostFinal(r) PROVE IInv'
  <2>1. posts \in Seq(PostRecord) /\ Post(r, "final")
    BY <1>0, <1>18 DEF PostFinal, TypeOK, PostRecord
  <2>2. PostsKept /\ Pending(r, "final")'
    BY <2>1, PostKeeps
  <2>3. TypeOK'
    BY <1>0, <1>18, <2>1, Posted DEF PostFinal, Moves, Goto, TypeOK, PostRecord
  <2>4. InOrder'
    BY <1>0, <1>18, <2>3 DEF PostFinal, Moves, Goto, TypeOK, InOrder
  <2>5. RunningIsAtWork'
    BY <1>0, <1>18, <2>3
    DEF PostFinal, Moves, Goto, TypeOK, InOrder, RunningIsAtWork, AtWork, Current
  <2>6. FlagIsItsOwn'
    BY <1>0, <1>18, <2>3
    DEF PostFinal, Moves, Goto, TypeOK, RunningIsAtWork, FlagIsItsOwn, AtWork, ToBeChecked,
        Cancelled, Current
  <2>7. ShownIsUnderWay'
    BY <1>0, <1>18, <2>2, StillUnderWay DEF PostFinal, Moves, Goto, TypeOK
  <2>8. ShownIsSaved'
    BY <1>0, <1>18, <2>2, StillSaved DEF PostFinal, Moves, Goto
  <2>9. NewestComesLast'
    BY <1>0, <1>18, <2>1, StillNewest DEF PostFinal, Moves, Goto
  <2>10. LastIsShown'
    BY <1>0, <1>18, <2>2, StillShown DEF PostFinal, Moves, Goto, TypeOK
  <2>11. PostsAreOfRuns'
    BY <1>0, <1>18, <2>1, StillOfRuns DEF PostFinal, Moves, Goto, TypeOK, InOrder
  <2> QED BY <2>3, <2>4, <2>5, <2>6, <2>7, <2>8, <2>9, <2>10, <2>11 DEF IInv
<1>19. CASE UNCHANGED vars
  <2>1. PostsKept
    BY <1>19 DEF vars, PostsKept, Pending
  <2>2. TypeOK' /\ InOrder' /\ FlagIsItsOwn'
    BY <1>0, <1>19 DEF vars, thread, TypeOK, InOrder, FlagIsItsOwn, Cancelled
  <2>3. RunningIsAtWork'
    BY <1>0, <1>19 DEF vars, thread, RunningIsAtWork, AtWork, Current
  <2>4. ShownIsUnderWay'
    BY <1>0, <1>19, <2>1, StillUnderWay DEF vars, thread
  <2>5. ShownIsSaved'
    BY <1>0, <1>19, <2>1, StillSaved DEF vars, thread
  <2>6. LastIsShown'
    BY <1>0, <1>19, <2>1, StillShown DEF vars, thread
  <2>7. NewestComesLast' /\ PostsAreOfRuns'
    BY <1>0, <1>19 DEF vars, thread, NewestComesLast, PostsAreOfRuns
  <2> QED
    BY <2>2, <2>3, <2>4, <2>5, <2>6, <2>7 DEF IInv
<1> QED
  BY <1>1, <1>2, <1>3, <1>4, <1>5, <1>6, <1>7, <1>8, <1>9, <1>10, <1>11, <1>12, <1>13,
     <1>14, <1>15, <1>16, <1>17, <1>18, <1>19
  DEF Next, Work

-----------------------------------------------------------------------------
(* The theorems *)

\* The invariant holds in every state of the app.
LEMMA ScreenInvariant == Spec => []IInv
  BY ScreenInit, ScreenStep, PTL DEF Spec

\* The fields of the activities and their pipelines keep to their types, for
\* any number of generations and of activities Android makes.
THEOREM ScreenTypes == Spec => []TypeOK
<1>1. IInv => TypeOK
  BY DEF IInv
<1> QED
  BY <1>1, ScreenInvariant, PTL

\* MainActivity.generate's `running`: two generations of one screen never
\* have a graph open at once.
THEOREM OneGraphPerScreen == Spec => []OneGraphAtATime
<1>1. IInv => OneGraphAtATime
  <2> SUFFICES ASSUME IInv, NEW q \in Run, NEW r \in Run, HasGraph(q), HasGraph(r),
                      owner[q] = owner[r]
               PROVE  q = r
    BY DEF OneGraphAtATime
  <2>1. AtWork(q) /\ AtWork(r)
    BY DEF HasGraph, ToBeChecked, AtWork
  <2>2. q <= r /\ r <= q
    BY <2>1 DEF IInv, RunningIsAtWork, Current
  <2> QED
    BY <2>2 DEF Run
<1> QED
  BY <1>1, ScreenInvariant, PTL

\* generate's posts and its `finally`: when the threads of a screen have ended
\* and their posts are run, the screen tells what became of the last run.
THEOREM RestIsTrue == Spec => []ScreenAtRestIsTrue
<1>1. IInv => ScreenAtRestIsTrue
  <2> SUFFICES ASSUME IInv, NEW i \in Screen, AtRest(i)
               PROVE  /\ views[i].button = "Generate" /\ ~running[i]
                      /\ ~views[i].bar /\ views[i].status # "cancelling"
                      /\ views[i].share <=> views[i].picture # 0
                      /\ views[i].share => views[i].picture = lastPng[i]
                      /\ \A r \in Run :
                           Current(r, i) /\ outcome[r] \in Pictured => views[i].picture = r
    BY DEF ScreenAtRestIsTrue
  <2>0. /\ TypeOK /\ RunningIsAtWork /\ ShownIsUnderWay /\ ShownIsSaved /\ LastIsShown
    BY DEF IInv
  <2>1. ASSUME NEW r \in Run, owner[r] = i, NEW what PROVE pc[r] = "ended" /\ ~Pending(r, what)
    BY <2>1 DEF AtRest, Pending
  <2>2. ~EndsToCome(i) /\ ~running[i]
    BY <2>0, <2>1 DEF EndsToCome, RunningIsAtWork, AtWork
  <2>3. views[i].button = "Generate" /\ ~views[i].bar /\ views[i].status # "cancelling"
    BY <2>0, <2>2 DEF ShownIsUnderWay, TypeOK
  <2>4. views[i].picture # 0 => views[i].picture = lastPng[i]
    <3>1. CASE lastPng[i] = 0
      <4>1. ASSUME NEW k \in 1..Len(posts) PROVE posts[k].run # 0
        <5>1. posts[k] \in [run : Run, what : {"progress", "picture", "final"}]
          BY <2>0, ElementOfSeq DEF TypeOK
        <5> QED
          BY <5>1 DEF Run
      <4>2. ~Pending(0, "picture")
        BY <4>1 DEF Pending
      <4> QED
        BY <2>0, <3>1, <4>2 DEF ShownIsSaved
    <3>2. CASE lastPng[i] # 0
      BY <2>0, <2>1, <3>2 DEF ShownIsSaved, TypeOK
    <3> QED
      BY <3>1, <3>2
  <2>5. ASSUME NEW r \in Run, Current(r, i), outcome[r] \in Pictured PROVE views[i].picture = r
    <3>1. owner[r] = i
      BY <2>5 DEF Current
    <3> QED
      BY <2>0, <2>1, <2>5, <3>1 DEF LastIsShown
  <2> QED
    BY <2>0, <2>2, <2>3, <2>4, <2>5 DEF ShownIsSaved
<1> QED
  BY <1>1, ScreenInvariant, PTL

HIDE DEF Pictured

\* BonsaiPipeline.cancel and checkCancel: a cancel that is heard ends its run
\* with no further step, and only an asked run ends as cancelled.
THEOREM CancelsAreOwn == Spec => CancelIsItsOwn
<1>1. IInv /\ [Next]_vars
        => [\A r \in Run :
              /\ r \in heard => /\ pc'[r] \notin {"textrun", "denoise", "vae"} \ {pc[r]}
                                /\ outcome'[r] \notin Pictured
              /\ outcome'[r] = "cancelled" => r \in asked]_vars
  <2> SUFFICES ASSUME IInv, Next, NEW r \in Run
               PROVE  /\ r \in heard => /\ pc'[r] \notin {"textrun", "denoise", "vae"} \ {pc[r]}
                                        /\ outcome'[r] \notin Pictured
                      /\ outcome'[r] = "cancelled" => r \in asked
    OBVIOUS
  <2> USE DEF Pictured
  <2>0. TypeOK /\ InOrder /\ FlagIsItsOwn
    BY DEF IInv
  <2>1. /\ r \in heard => /\ \/ pc[r] \in ToBeChecked /\ Cancelled(r)
                             \/ pc[r] \in {"finally", "final", "ended"}
                          /\ outcome[r] \notin Pictured
        /\ pc[r] \in ToBeChecked /\ Cancelled(r) => r \in asked
        /\ outcome[r] = "cancelled" => r \in asked
    BY <2>0 DEF FlagIsItsOwn, InOrder, ToBeChecked
  <2>2. CASE outcome'[r] = outcome[r] /\ pc'[r] \in {pc[r], "open"}
    BY <2>1, <2>2
  <2>3. CASE Recreate \/ Generate \/ Cancel \/ Deliver
    <3>1. outcome' = outcome /\ (pc' = pc \/ \E q \in Run : pc' = [pc EXCEPT ![q] = "open"])
      BY <2>3 DEF Recreate, Generate, Cancel, Deliver, StartThread, Goto, thread
    <3> QED
      BY <2>0, <2>2, <3>1 DEF TypeOK
  <2>4. ASSUME NEW q \in Run, Work(q) PROVE q # r => outcome'[r] = outcome[r] /\ pc'[r] = pc[r]
    <3>1. /\ \E place : pc' = [pc EXCEPT ![q] = place]
          /\ outcome' = outcome \/ \E end : outcome' = [outcome EXCEPT ![q] = end]
      BY <2>4
      DEF Work, OpenPipeline, Reset, TextLoaded, TextDone, DitLoaded, StepBegins, StepEnds,
          LoopEnds, Decoded, Save, Stop, Throw, GiveBack, PostFinal, Moves, Goto
    <3>2. pc = [k \in Run |-> pc[k]] /\ outcome = [k \in Run |-> outcome[k]]
      BY <2>0 DEF TypeOK
    <3>3. q # r => pc'[r] = pc[r]
      BY <3>1, <3>2
    <3>4. q # r => outcome'[r] = outcome[r]
      BY <3>1, <3>2
    <3> QED
      BY <3>3, <3>4
  <2>5. CASE Work(r)
    <3>1. CASE Stop(r)
      BY <2>0, <2>1, <3>1 DEF Stop, Moves, Goto, TypeOK, ToBeChecked
    <3>2. CASE Throw(r)
      BY <2>0, <2>1, <3>2 DEF Throw, Moves, Goto, TypeOK
    <3>3. CASE Save(r)
      BY <2>0, <2>1, <3>3 DEF Save, Moves, Goto, TypeOK, ToBeChecked
    <3>4. CASE TextLoaded(r) \/ StepBegins(r) \/ LoopEnds(r)
      BY <2>0, <2>1, <3>4 DEF TextLoaded, StepBegins, LoopEnds, Moves, Goto, TypeOK
    <3>5. CASE \/ OpenPipeline(r) \/ Reset(r) \/ TextDone(r) \/ DitLoaded(r) \/ StepEnds(r)
               \/ Decoded(r) \/ GiveBack(r) \/ PostFinal(r)
      BY <2>0, <2>1, <3>5
      DEF OpenPipeline, Reset, TextDone, DitLoaded, StepEnds, Decoded, GiveBack, PostFinal,
          Moves, Goto, TypeOK
    <3> QED
      BY <2>5, <3>1, <3>2, <3>3, <3>4, <3>5 DEF Work
  <2> QED
    BY <2>2, <2>3, <2>4, <2>5 DEF Next
<1> QED
  BY <1>1, ScreenInvariant, PTL DEF Spec, CancelIsItsOwn
=============================================================================
