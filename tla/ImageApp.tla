------------------------------ MODULE ImageApp ------------------------------
(***************************************************************************)
(* bonsai_image_work/device/BonsaiAppAndroid: MainActivity.kt and          *)
(* BonsaiPipeline.kt.  One button starts a generation on a thread of its   *)
(* own and, while one runs, asks it to stop; the thread posts to the UI    *)
(* thread.  Android may replace the activity at any time (the manifest     *)
(* names no configChanges): the new one has its own pipeline and `running` *)
(* while the thread of the old one goes on.                                *)
(*                                                                         *)
(* A step of a thread is the stretch between two looks at the flag          *)
(* `cancelled`, a write of a shared field, or the work of one graph.  Taps  *)
(* come from the input channel, so they may overtake posts; posts keep      *)
(* their order.  Log lines change nothing but the log view: left out.       *)
(***************************************************************************)
EXTENDS Naturals, Sequences

CONSTANTS
  Runs,       \* bound: generations started over the life of the process
  Screens,    \* bound: activity instances the process may go through
  Steps,      \* DiT steps of a generation
  Autorun     \* was the app started by `am start --ez autorun true`?

ASSUME ConstantsAssumption ==
  /\ Runs \in Nat \ {0} /\ Screens \in Nat \ {0} /\ Steps \in Nat \ {0}
  /\ Autorun \in BOOLEAN

Run == 1..Runs
Screen == 1..Screens

VARIABLES
  shown,      \* the instance in front; later ones do not exist yet
  views,      \* what each instance's views show
  running,    \* MainActivity.running of each instance
  flag,       \* pipeline of each instance: "null", or its `cancelled`
  seen,       \* the instances whose UI thread is sure to see `pipeline`
  lastPng,    \* lastPng of each instance: the run that wrote it, or 0
  owner,      \* the instance a run was started by, 0 before it is started
  pc,         \* where the thread of a run is
  step,       \* the DiT step a run is at
  outcome,    \* how a run's try block ended
  posts,      \* what threads have posted and the UI thread not yet run
  asked,      \* (history) runs whose user has tapped Cancel
  heard       \* (history) ... before their last checkCancel, flag set

thread == <<owner, pc, step, outcome>>
vars == <<shown, views, running, flag, seen, lastPng, thread, posts, asked, heard>>

Goto(r, place) == pc' = [pc EXCEPT ![r] = place]

\* runOnUiThread.  A progress post right behind another of the same thread
\* has no effect of its own once both are run: the two are one here.
Post(r, what) ==
  LET post == [run |-> r, what |-> what] IN
    posts' = IF what = "progress" /\ posts # <<>> /\ posts[Len(posts)] = post
             THEN posts ELSE Append(posts, post)

\* buildUi: an idle screen; Generate is disabled when model files are missing.
Idle(enabled) ==
  [button |-> "Generate", enabled |-> enabled, bar |-> FALSE, status |-> "other",
   picture |-> 0, share |-> FALSE]

\* generate(): the picture, the log and Share are cleared, a thread is started.
Started(view) ==
  [view EXCEPT !.button = "Cancel", !.bar = TRUE, !.picture = 0, !.share = FALSE]

\* The next run number; one action of the UI thread starts one run.
NextRun(r) == owner[r] = 0 /\ \A q \in 1..(r - 1) : owner[q] # 0

StartThread(r, i) ==
  /\ owner' = [owner EXCEPT ![r] = i]
  /\ Goto(r, "open")
  /\ UNCHANGED <<step, outcome>>

-----------------------------------------------------------------------------
(* The UI thread *)

\* onCreate of instance i: with the autorun intent, which survives the
\* replacement of the activity, it starts a generation by itself.
Init ==
  \E enabled \in BOOLEAN :
    /\ shown = 1
    /\ running = [i \in Screen |-> i = 1 /\ enabled /\ Autorun]
    /\ views = [i \in Screen |->
                  IF running[i] THEN Started(Idle(TRUE)) ELSE Idle(i = 1 /\ enabled)]
    /\ flag = [i \in Screen |-> "null"]
    /\ seen = {}
    /\ lastPng = [i \in Screen |-> 0]
    /\ owner = [r \in Run |-> IF r = 1 /\ running[1] THEN 1 ELSE 0]
    /\ pc = [r \in Run |-> IF r = 1 /\ running[1] THEN "open" ELSE "idle"]
    /\ step = [r \in Run |-> 0]
    /\ outcome = [r \in Run |-> "none"]
    /\ posts = <<>>
    /\ asked = {} /\ heard = {}

\* The activity is replaced; threads and posts of the old one go on.  The
\* new one starts a generation by itself when the files and the intent are there.
Recreate ==
  /\ shown < Screens
  /\ shown' = shown + 1
  /\ \E there \in BOOLEAN :
       \/ /\ ~(there /\ Autorun)
          /\ views' = [views EXCEPT ![shown'] = Idle(there)]
          /\ UNCHANGED <<running, thread>>
       \/ /\ there /\ Autorun
          /\ views' = [views EXCEPT ![shown'] = Started(Idle(TRUE))]
          /\ running' = [running EXCEPT ![shown'] = TRUE]
          /\ \E r \in Run : NextRun(r) /\ StartThread(r, shown')
  /\ UNCHANGED <<flag, seen, lastPng, posts, asked, heard>>

\* A tap on "Generate".
Generate ==
  /\ views[shown].enabled /\ ~running[shown]
  /\ \E r \in Run : NextRun(r) /\ StartThread(r, shown)
  /\ running' = [running EXCEPT ![shown] = TRUE]
  /\ views' = [views EXCEPT ![shown] = Started(@)]
  /\ UNCHANGED <<shown, flag, seen, lastPng, posts, asked, heard>>

\* The run an instance's `running` stands for: the last one it started.
Current(r, i) == owner[r] = i /\ \A q \in Run : owner[q] = i => q <= r

\* The thread looks at the flag again before it ends.
ToBeChecked == {"text", "textrun", "dit", "loop", "denoise"}

\* Mutant: cancel() also gives the button back.
CancelAtOnce ==
  /\ views[shown].enabled /\ running[shown]
  /\ running' = [running EXCEPT ![shown] = FALSE]
  /\ views' = [views EXCEPT ![shown].button = "Generate"]
  /\ UNCHANGED <<shown, flag, seen, lastPng, thread, posts, asked, heard>>

\* A tap on "Cancel": the flag of a pipeline that is there, and that this
\* thread sees: `pipeline` is a plain field which the worker has set.
Cancel ==
  /\ views[shown].enabled /\ running[shown]
  /\ flag' \in IF flag[shown] = "null" THEN {flag}
               ELSE {[flag EXCEPT ![shown] = "cancelled"]}
                    \cup (IF shown \in seen THEN {} ELSE {flag})
  /\ views' = [views EXCEPT ![shown].status = "cancelling"]
  /\ LET now == {r \in Run : Current(r, shown)} IN
       /\ asked' = asked \cup now
       /\ heard' = heard \cup {r \in now : flag'[shown] = "cancelled" /\ pc[r] \in ToBeChecked}
  /\ UNCHANGED <<shown, running, seen, lastPng, thread, posts>>

\* Mutant: the last post leaves the status line alone.
ShowsStatus(view, post) ==
  CASE post.what = "progress" -> [view EXCEPT !.status = "other"]
    [] post.what = "picture"  -> [view EXCEPT !.picture = post.run, !.share = TRUE]
    [] post.what = "final"    -> [view EXCEPT !.button = "Generate", !.bar = FALSE]

\* What a post does to the views of the instance whose thread posted it.
Shows(view, post) ==
  CASE post.what = "progress" -> [view EXCEPT !.status = "other"]
    [] post.what = "picture"  -> [view EXCEPT !.picture = post.run, !.share = TRUE]
    [] post.what = "final"    -> [view EXCEPT !.button = "Generate", !.bar = FALSE,
                                              !.status = "other"]

Deliver ==
  /\ posts # <<>>
  /\ LET post == Head(posts) IN
       /\ views' = [views EXCEPT ![owner[post.run]] = Shows(@, post)]
       /\ seen' = seen \cup {owner[post.run]}
  /\ posts' = Tail(posts)
  /\ UNCHANGED <<shown, running, flag, lastPng, thread, asked, heard>>

-----------------------------------------------------------------------------
(* The thread of a run *)

Cancelled(r) == flag[owner[r]] = "cancelled"

\* A thread goes from one place to the next; the UI thread is elsewhere.
Moves(r, from, to) ==
  /\ pc[r] = from
  /\ Goto(r, to)
  /\ UNCHANGED <<shown, views, seen, owner, asked, heard>>

\* The pipeline is made by the first run of an instance and kept.
OpenPipeline(r) ==
  /\ Moves(r, "open", "reset")
  /\ flag' = [flag EXCEPT ![owner[r]] = IF @ = "null" THEN "clear" ELSE @]
  /\ UNCHANGED <<running, lastPng, step, outcome, posts>>

\* Mutant: the flag is cleared when the pipeline is made, and not again.
KeepFlag(r) ==
  /\ Moves(r, "reset", "text")
  /\ Post(r, "progress")
  /\ UNCHANGED <<running, flag, lastPng, step, outcome>>

\* BonsaiPipeline.generate begins by clearing `cancelled`.
Reset(r) ==
  /\ Moves(r, "reset", "text")
  /\ flag' = [flag EXCEPT ![owner[r]] = "clear"]
  /\ Post(r, "progress")
  /\ UNCHANGED <<running, lastPng, step, outcome>>

\* The text encoder is loaded, checkCancel passes, and it runs.
TextLoaded(r) ==
  /\ Moves(r, "text", "textrun") /\ ~Cancelled(r)
  /\ UNCHANGED <<running, flag, lastPng, step, outcome, posts>>

\* It is closed, checkCancel passes, the DiT is loaded.
TextDone(r) ==
  /\ Moves(r, "textrun", "dit") /\ ~Cancelled(r)
  /\ Post(r, "progress")
  /\ UNCHANGED <<running, flag, lastPng, step, outcome>>

DitLoaded(r) ==
  /\ Moves(r, "dit", "loop")
  /\ UNCHANGED <<running, flag, lastPng, step, outcome, posts>>

\* Mutant: the loop goes round once more.
StepTooMany(r) ==
  /\ Moves(r, "loop", "denoise") /\ step[r] <= Steps /\ ~Cancelled(r)
  /\ Post(r, "progress")
  /\ UNCHANGED <<running, flag, lastPng, step, outcome>>

\* The head of the loop: checkCancel, then one DiT step ...
StepBegins(r) ==
  /\ Moves(r, "loop", "denoise") /\ step[r] < Steps /\ ~Cancelled(r)
  /\ Post(r, "progress")
  /\ UNCHANGED <<running, flag, lastPng, step, outcome>>

StepEnds(r) ==
  /\ Moves(r, "denoise", "loop")
  /\ step' = [step EXCEPT ![r] = @ + 1]
  /\ UNCHANGED <<running, flag, lastPng, outcome, posts>>

\* ... and after the last one the DiT is closed, and the VAE loaded and run.
LoopEnds(r) ==
  /\ Moves(r, "loop", "vae") /\ step[r] = Steps /\ ~Cancelled(r)
  /\ Post(r, "progress")
  /\ UNCHANGED <<running, flag, lastPng, step, outcome>>

Decoded(r) ==
  /\ Moves(r, "vae", "save")
  /\ Post(r, "progress")
  /\ UNCHANGED <<running, flag, lastPng, step, outcome>>

\* How a run ends that shows its picture: its PNG is whole, or cut short.
Pictured == {"ok", "cut"}

\* The PNG is written and remembered, then the picture is posted.  Nobody looks
\* at what compress returns, which on a full disk is false.
Save(r) ==
  /\ Moves(r, "save", "finally")
  /\ lastPng' = [lastPng EXCEPT ![owner[r]] = r]
  /\ Post(r, "picture")
  /\ \E how \in Pictured : outcome' = [outcome EXCEPT ![r] = how]
  /\ UNCHANGED <<running, flag, step>>

\* checkCancel throws Cancelled.
Stop(r) ==
  /\ pc[r] \in {"text", "textrun", "loop"} /\ Cancelled(r)
  /\ outcome' = [outcome EXCEPT ![r] = "cancelled"]
  /\ Moves(r, pc[r], "finally")
  /\ UNCHANGED <<running, flag, lastPng, step, posts>>

\* Mutant: an exception that is not Cancelled leaves the thread.
ThrowUncaught(r) ==
  /\ pc[r] \in {"open", "text", "textrun", "dit", "denoise", "vae", "save"}
  /\ outcome' = [outcome EXCEPT ![r] = "failed"]
  /\ Moves(r, pc[r], "ended")
  /\ UNCHANGED <<running, flag, lastPng, step, posts>>

\* Any other Exception: a missing file, the runtime, a file that cannot be
\* opened.  (An Error passes the catch: it ends the process right after the
\* finally, and with it everything that is said here.)
Throw(r) ==
  /\ pc[r] \in {"open", "text", "textrun", "dit", "denoise", "vae", "save"}
  /\ outcome' = [outcome EXCEPT ![r] = "failed"]
  /\ Moves(r, pc[r], "finally")
  /\ UNCHANGED <<running, flag, lastPng, step, posts>>

\* finally: `running` is given back first, and the screen by a post after it.
\* The step was the loop's own.
GiveBack(r) ==
  /\ Moves(r, "finally", "final")
  /\ running' = [running EXCEPT ![owner[r]] = FALSE]
  /\ step' = [step EXCEPT ![r] = 0]
  /\ UNCHANGED <<flag, lastPng, outcome, posts>>

PostFinal(r) ==
  /\ Moves(r, "final", "ended")
  /\ Post(r, "final")
  /\ UNCHANGED <<running, flag, lastPng, step, outcome>>

Work(r) ==
  \/ OpenPipeline(r) \/ Reset(r) \/ TextLoaded(r) \/ TextDone(r) \/ DitLoaded(r)
  \/ StepBegins(r) \/ StepEnds(r) \/ LoopEnds(r) \/ Decoded(r) \/ Save(r)
  \/ Stop(r) \/ Throw(r) \/ GiveBack(r) \/ PostFinal(r)

Next == Recreate \/ Generate \/ Cancel \/ Deliver \/ \E r \in Run : Work(r)

Spec == Init /\ [][Next]_vars

\* Graphs and disk writes end, threads go on and posts are run; the person
\* owes no tap and Android no replacement.
FairSpec == Spec /\ WF_vars(Deliver) /\ \A r \in Run : WF_vars(Work(r))

-----------------------------------------------------------------------------
(* Properties *)

TypeOK ==
  /\ shown \in Screen
  /\ views \in [Screen -> [button : {"Generate", "Cancel"}, enabled : BOOLEAN,
                           bar : BOOLEAN, status : {"cancelling", "other"},
                           picture : {0} \cup Run, share : BOOLEAN]]
  /\ running \in [Screen -> BOOLEAN]
  /\ flag \in [Screen -> {"null", "clear", "cancelled"}]
  /\ seen \subseteq Screen
  /\ lastPng \in [Screen -> {0} \cup Run]
  /\ owner \in [Run -> {0} \cup Screen]
  /\ pc \in [Run -> {"idle", "open", "reset", "text", "textrun", "dit", "loop", "denoise",
                    "vae", "save", "finally", "final", "ended"}]
  /\ step \in [Run -> 0..Steps]
  /\ outcome \in [Run -> {"none", "ok", "cut", "cancelled", "failed"}]
  /\ posts \in Seq([run : Run, what : {"progress", "picture", "final"}])
  /\ asked \subseteq Run /\ heard \subseteq asked

\* "Graphs load and close one at a time": the generations of one screen
\* never have two graphs open, although the worker gives `running` back and
\* the UI thread takes it.
HasGraph(r) == pc[r] \in ToBeChecked \cup {"vae"}
OneGraphAtATime ==
  \A q, r \in Run : HasGraph(q) /\ HasGraph(r) /\ owner[q] = owner[r] => q = r

\* The same for the whole app, activities that were replaced included.
OneGraphInAll == \A q, r \in Run : HasGraph(q) /\ HasGraph(r) => q = r

\* A cancel the worker can see ends that run with no further step and no
\* picture, and it ends no other: none is left over for the next run.
CancelIsItsOwn ==
  [][\A r \in Run :
       /\ r \in heard => /\ pc'[r] \notin {"textrun", "denoise", "vae"} \ {pc[r]}
                         /\ outcome'[r] \notin Pictured
       /\ outcome'[r] = "cancelled" => r \in asked]_vars

\* "A cancel that stops after the current DiT step": also one tapped before
\* the worker has made the pipeline or cleared its flag.
AskedMeansStop ==
  [][\A r \in asked : pc'[r] = "denoise" => pc[r] = "denoise"]_vars

\* Once the threads of a screen have ended and their posts are run, whatever
\* came in between: the button starts a run, nothing says "Cancelling", the
\* picture is the file Share sends, and a last run that ended well is shown.
AtRest(i) ==
  /\ \A r \in Run : owner[r] = i => pc[r] = "ended"
  /\ \A k \in 1..Len(posts) : owner[posts[k].run] # i
ScreenAtRestIsTrue ==
  \A i \in Screen : AtRest(i) =>
    /\ views[i].button = "Generate" /\ ~running[i]
    /\ ~views[i].bar /\ views[i].status # "cancelling"
    /\ views[i].share <=> views[i].picture # 0
    /\ views[i].share => views[i].picture = lastPng[i]
    /\ \A r \in Run : Current(r, i) /\ outcome[r] \in Pictured => views[i].picture = r

\* What Share sends is the picture shown: the file may be cut short.
SharedIsWhole == \A i \in Screen : views[i].share => outcome[lastPng[i]] # "cut"

\* While a generation runs its screen offers "Cancel": also when the last
\* post of the one before comes after its start.
ButtonIsTrue ==
  \A i \in Screen : running[i] => views[i].button = "Cancel"

\* Every generation gives the button back, also after exceptions and taps.
ButtonComesBack ==
  \A i \in Screen : running[i] ~> (views[i].button = "Generate" /\ ~running[i])
=============================================================================
