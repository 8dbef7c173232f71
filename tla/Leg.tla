-------------------------------- MODULE Leg --------------------------------
(***************************************************************************)
(* tools/devicebench: one leg of the measurement app.  Three processes act *)
(* at once: run.sh (starts the app, waits for its report, pulls it), the   *)
(* monitor of chain.sh (foreground check, memory guard) and the app on the *)
(* phone; chain.sh's `leg` starts the first two and, when both have ended, *)
(* names the leg's status from the files they left in the round dir.       *)
(*                                                                         *)
(* A leg is attempted again under the same tag in a later hold (the second *)
(* try of a leg, <tag>_r2, whatever its report says); R/<tag>.* of the     *)
(* earlier attempt are still there.  The phone may leave adb between any   *)
(* two calls, and adb's rc is not looked at.  Time is left out: limits and *)
(* waits end at any moment.                                                *)
(***************************************************************************)
EXTENDS Naturals

CONSTANTS
  Tries,      \* how often the leg is attempted, at most
  None

ASSUME TriesAssumption == Tries \in Nat \ {0}
ASSUME NoneAssumption ==
  /\ None \notin [at : {"front", "back"}, of : 1..Tries]
  /\ None \notin [says : {"DONE", "FAILED"}, of : 1..Tries]

VARIABLES
  try,        \* the current attempt
  run,        \* where run.sh is
  died,       \* its output says PROCESS_DIED
  unsure,     \* it refused, or could not clear the phone of an earlier attempt
  mon,        \* where the monitor is
  fg,         \* the monitor's verdict on the foreground
  app,        \* the app's process: None or [at, of], `of` the attempt whose
              \* start it was given
  report,     \* files/<tag>.json on the phone: None or [says, of]
  present,    \* adb sees the phone
  running,    \* R/<tag>.running.txt: None or [says, of]
  fgFail,     \* R/<tag>.FG_FAIL exists
  memGuard,   \* R/<tag>.MEMGUARD exists
  json,       \* R/<tag>.json: None or the report pulled
  status,     \* LEG_STATUS
  behind,     \* the foreground check saw this attempt's app behind another
  lmkd        \* lmkd has killed the app, by the phone's log: "never", "before"
              \* this attempt, or "now"

device == <<app, report, present>>
evidence == <<running, fgFail, memGuard, json>>
history == <<behind, lmkd>>
vars == <<try, run, died, unsure, mon, fg, device, evidence, status, history>>

Says(f) == IF f = None THEN "NONE" ELSE f.says

\* lmkd may have killed the app of another tag before.
Init ==
  /\ try = 0 /\ run = "off" /\ died = FALSE /\ unsure = FALSE
  /\ mon = "off" /\ fg = "pending"
  /\ app = None /\ report = None /\ present = TRUE
  /\ running = None /\ fgFail = FALSE /\ memGuard = FALSE /\ json = None
  /\ status = "NONE" /\ behind = FALSE /\ lmkd \in {"never", "before"}

-----------------------------------------------------------------------------
(* chain.sh: leg *)

\* An earlier hold's cleanup removed what the phone let it.  LEG_STATUS is
\* read behind a leg only.
Start ==
  /\ run = "off" /\ mon = "off" /\ try < Tries
  /\ try' = try + 1
  /\ run' = "begin" /\ died' = FALSE /\ unsure' = FALSE
  /\ mon' = "head" /\ fg' = "pending"
  /\ app' \in {app, None} /\ report' \in {report, None}
  /\ status' = "NONE"
  /\ behind' = FALSE /\ lmkd' = IF lmkd = "now" THEN "before" ELSE lmkd
  /\ UNCHANGED <<present, evidence>>

\* The log is read from the leg's limit and two minutes before its end on: a
\* leg that dies early reads lines that are older than its own start.
LmkdLines ==
  IF ~present THEN {FALSE}
  ELSE IF lmkd = "now" THEN {TRUE}
  ELSE {FALSE, lmkd = "before"}

\* Mutant: the runner's word is the status.
StatusOfRunner(lines) == IF died THEN "PROCESS_DIED" ELSE Says(json)

\* The status, in the order of the code: the report's, FG_FAIL, and for a
\* dead process lmkd's own lines before the memory guard's.
Status(lines) ==
  IF died /\ lines THEN "LMKD_KILLED"
  ELSE IF died /\ memGuard THEN "MEMGUARD_STOPPED"
  ELSE IF fgFail THEN "FG_FAIL"
  ELSE Says(json)

\* Both have ended.  run.sh's exit 9 ("lost") is a hard stop.
End ==
  /\ run \in {"ended", "lost"} /\ mon = "ended"
  /\ run' = "off" /\ mon' = "off"
  /\ IF run = "lost" THEN UNCHANGED status
                     ELSE \E lines \in LmkdLines : status' = Status(lines)
  /\ UNCHANGED <<try, died, unsure, fg, device, evidence, history>>

-----------------------------------------------------------------------------
(* run.sh *)

RunTo(place) == run' = place

\* HOLD_ACQUIRED is gone, the keeper has ended: exit 4, which `leg` takes for
\* any other end of run.sh.
Refuse ==
  /\ run = "begin"
  /\ unsure' = TRUE
  /\ RunTo("ended")
  /\ UNCHANGED <<try, died, mon, fg, device, evidence, status, history>>

Begin ==
  /\ run = "begin"
  /\ RunTo(IF present THEN "kill" ELSE "lost")
  /\ UNCHANGED <<try, died, unsure, mon, fg, device, evidence, status, history>>

\* force-stop, then rm -f of the old report.  A phone that has left keeps both.
Kill ==
  /\ run = "kill"
  /\ app' = IF present THEN None ELSE app
  /\ unsure' = (app' # None)
  /\ RunTo("clear")
  /\ UNCHANGED <<try, died, mon, fg, report, present, evidence, status, history>>

\* Mutant: the old report stays.
ClearKeepsReport ==
  /\ run = "clear"
  /\ RunTo("launch")
  /\ UNCHANGED <<try, died, unsure, mon, fg, device, evidence, status, history>>

Clear ==
  /\ run = "clear"
  /\ report' = IF present THEN None ELSE report
  /\ unsure' = (unsure \/ report' # None)
  /\ RunTo("launch")
  /\ UNCHANGED <<try, died, mon, fg, app, present, evidence, status, history>>

\* am start -W: in front, behind a lock screen, or gone again at once.  A
\* process that is still there takes the start or goes on as it was.
Launch ==
  /\ run = "launch"
  /\ app' \in IF present
              THEN {None} \cup [at : {"front", "back"},
                                of : {try} \cup IF app = None THEN {} ELSE {app.of}]
              ELSE {app}
  /\ RunTo("look")
  /\ UNCHANGED <<try, died, unsure, mon, fg, report, present, evidence, status, history>>

\* One second later: pid, then cgroup and top activity, into running.txt.  A
\* phone or a process that leaves after the pid reads as one not in front.
Look ==
  /\ run = "look"
  /\ \E says \in IF present /\ app # None THEN {app.at, "back"} ELSE {"nopid"} :
       running' = [says |-> says, of |-> try]
  /\ RunTo("wait")
  /\ UNCHANGED <<try, died, unsure, mon, fg, device, fgFail, memGuard, json, status, history>>

\* The polling loop asks for the report, the phone, the limit, the process,
\* each in a call of its own: a phone that was away for one of them makes each
\* of the steps below possible, whatever is on it now.
SeeReport ==
  /\ run \in {"wait", "stopping", "settle"} /\ present /\ report # None
  /\ RunTo("pull")
  /\ UNCHANGED <<try, died, unsure, mon, fg, device, evidence, status, history>>

LosePhone ==
  /\ run \in {"wait", "stopping"} /\ ~present
  /\ RunTo("lost")
  /\ UNCHANGED <<try, died, unsure, mon, fg, device, evidence, status, history>>

\* The limit: files/STOP asks the app to end (it may at any time), and 40 s
\* later TIMEOUT.
AtLimit ==
  /\ run = "wait"
  /\ RunTo("stopping")
  /\ UNCHANGED <<try, died, unsure, mon, fg, device, evidence, status, history>>

TimeOut ==
  /\ run = "stopping"
  /\ RunTo("pull")
  /\ UNCHANGED <<try, died, unsure, mon, fg, device, evidence, status, history>>

\* pidof gives nothing (an absent phone gives nothing either): 2 s, then the
\* report once more.
SeeNoProcess ==
  /\ run \in {"wait", "stopping"}
  /\ app = None \/ ~present
  /\ RunTo("settle")
  /\ UNCHANGED <<try, died, unsure, mon, fg, device, evidence, status, history>>

NoReport ==
  /\ run = "settle"
  /\ report = None \/ ~present
  /\ died' = TRUE
  /\ RunTo("pull")
  /\ UNCHANGED <<try, unsure, mon, fg, device, evidence, status, history>>

\* The report replaces R/<tag>.json, which is removed when there is none.
Pull ==
  /\ run = "pull"
  /\ json' = IF present THEN report ELSE None
  /\ RunTo("close")
  /\ UNCHANGED <<try, died, unsure, mon, fg, device, running, fgFail, memGuard, status,
                 history>>

\* force-stop, and the end of run.sh.
Close ==
  /\ run = "close"
  /\ app' = IF present THEN None ELSE app
  /\ RunTo("ended")
  /\ UNCHANGED <<try, died, unsure, mon, fg, report, present, evidence, status, history>>

RunStep ==
  \/ Refuse \/ Begin \/ Kill \/ Clear \/ Launch \/ Look \/ SeeReport \/ LosePhone
  \/ AtLimit \/ TimeOut \/ SeeNoProcess \/ NoReport \/ Pull \/ Close

-----------------------------------------------------------------------------
(* monitor *)

MonTo(place) == mon' = place

\* Mutant: it ends with a report only.
MonEndWithReport ==
  /\ mon = "head" /\ run = "ended"
  /\ MonTo("ended")
  /\ UNCHANGED <<try, run, died, unsure, fg, device, evidence, status, history>>

MonEnd ==
  /\ mon = "head" /\ run \in {"ended", "lost"}
  /\ MonTo("ended")
  /\ UNCHANGED <<try, run, died, unsure, fg, device, evidence, status, history>>

\* KEYCODE_WAKEUP may bring a live app to the front.
Wake ==
  app' \in IF app # None /\ present THEN {app, [app EXCEPT !.at = "front"]} ELSE {app}

\* The foreground check, once running.txt is there.
MonCheck ==
  /\ mon = "head" /\ run \notin {"ended", "lost"}
  /\ fg = "pending" /\ running # None
  /\ CASE running.says = "nopid" -> fg' = "gone" /\ MonTo("sample") /\ UNCHANGED app
       [] running.says = "front" -> fg' = "ok" /\ MonTo("sample") /\ UNCHANGED app
       [] running.says = "back"  -> Wake /\ MonTo("recheck") /\ UNCHANGED fg
  /\ UNCHANGED <<try, run, died, unsure, report, present, evidence, status, history>>

\* Nothing to check (yet, or any more).
MonSkip ==
  /\ mon = "head" /\ run \notin {"ended", "lost"}
  /\ fg # "pending" \/ running = None
  /\ MonTo("sample")
  /\ UNCHANGED <<try, run, died, unsure, fg, device, evidence, status, history>>

\* 3 s after the WAKEUP, pidof: no process (an absent phone gives none) is
\* not a foreground loss.
MonRecheck ==
  /\ mon = "recheck"
  /\ IF app = None \/ ~present
     THEN fg' = "gone" /\ MonTo("sample")
     ELSE UNCHANGED fg /\ MonTo("reads")
  /\ UNCHANGED <<try, run, died, unsure, device, evidence, status, history>>

\* cgroup and top activity: in front, or FG_FAIL.  What has left since the
\* pidof, the phone or the process, does not read as in front either.
MonReads ==
  /\ mon = "reads"
  /\ LET live == present /\ app # None
     IN IF live /\ app.at = "front"
        THEN fg' = "ok" /\ MonTo("sample") /\ UNCHANGED <<fgFail, behind>>
        ELSE /\ fg' = "fail" /\ fgFail' = TRUE /\ MonTo("stopfg")
             /\ behind' = (behind \/ live)
  /\ UNCHANGED <<try, run, died, unsure, device, running, memGuard, json, status, lmkd>>

MonStop ==
  /\ mon = "stopfg"
  /\ app' = IF present THEN None ELSE app
  /\ MonTo("sample")
  /\ UNCHANGED <<try, run, died, unsure, fg, report, present, evidence, status, history>>

\* A sample: MemAvailable below the guard (the force-stop finds the phone or
\* not), or a sleeping screen woken.
MonSample ==
  /\ mon = "sample"
  /\ \/ UNCHANGED <<app, memGuard>>
     \/ present /\ app' \in {app, None} /\ memGuard' = TRUE
     \/ fg = "ok" /\ Wake /\ UNCHANGED memGuard
  /\ MonTo("head")
  /\ UNCHANGED <<try, run, died, unsure, fg, report, present, running, fgFail, json, status,
                 history>>

MonStep ==
  MonEnd \/ MonCheck \/ MonSkip \/ MonRecheck \/ MonReads \/ MonStop \/ MonSample

-----------------------------------------------------------------------------
(* The app and the phone *)

\* The app writes the report of the start it was given.
Finish ==
  /\ app # None
  /\ report # None => report.of # app.of
  /\ \E s \in {"DONE", "FAILED"} : report' = [says |-> s, of |-> app.of]
  /\ UNCHANGED <<try, run, died, unsure, mon, fg, app, present, evidence, status, history>>

\* It crashes, or lmkd kills it.
Vanish ==
  /\ app # None
  /\ app' = None
  /\ lmkd' \in {lmkd, "now"}
  /\ UNCHANGED <<try, run, died, unsure, mon, fg, report, present, evidence, status, behind>>

FallBehind ==
  /\ app # None /\ app.at = "front"
  /\ app' = [app EXCEPT !.at = "back"]
  /\ UNCHANGED <<try, run, died, unsure, mon, fg, report, present, evidence, status, history>>

Plug ==
  /\ present' = ~present
  /\ UNCHANGED <<try, run, died, unsure, mon, fg, app, report, evidence, status, history>>

-----------------------------------------------------------------------------
Next == Start \/ End \/ RunStep \/ MonStep \/ Finish \/ Vanish \/ FallBehind \/ Plug

Spec == Init /\ [][Next]_vars

\* The Mac's processes go on; run.sh's waits end by their own limits.
FairSpec == Spec /\ WF_vars(RunStep) /\ WF_vars(MonStep) /\ WF_vars(End)

-----------------------------------------------------------------------------
(* Properties *)

File == {None} \cup [says : {"DONE", "FAILED"}, of : 1..Tries]

TypeOK ==
  /\ try \in 0..Tries
  /\ run \in {"off", "begin", "kill", "clear", "launch", "look", "wait", "stopping",
              "settle", "pull", "close", "ended", "lost"}
  /\ mon \in {"off", "head", "recheck", "reads", "stopfg", "sample", "ended"}
  /\ fg \in {"pending", "gone", "ok", "fail"}
  /\ app \in {None} \cup [at : {"front", "back"}, of : 1..Tries]
  /\ report \in File /\ json \in File
  /\ running \in {None} \cup [says : {"front", "back", "nopid"}, of : 1..Tries]
  /\ died \in BOOLEAN /\ unsure \in BOOLEAN /\ present \in BOOLEAN
  /\ fgFail \in BOOLEAN /\ memGuard \in BOOLEAN /\ behind \in BOOLEAN
  /\ lmkd \in {"never", "before", "now"}
  /\ status \in {"NONE", "DONE", "FAILED", "FG_FAIL", "LMKD_KILLED", "MEMGUARD_STOPPED"}

EndsAs(s) == End /\ run # "lost" /\ status' = s

\* A leg has the result of a report that its own attempt's app wrote, never of
\* one left on the phone or in the round dir by an earlier attempt, unless
\* run.sh had refused or the phone was away at the force-stop or the removal;
\* and not when its app was found behind another.  "lmkd kill": lmkd did kill
\* the app, in this attempt or before.
StatusExplained ==
  [][/\ EndsAs("DONE") \/ EndsAs("FAILED")
          => (json.of = try \/ unsure) /\ ~behind
     /\ EndsAs("LMKD_KILLED") => lmkd # "never"]_vars

\* "DONE" is this attempt's own result, whatever the phone does.
DoneIsOwn == [][EndsAs("DONE") => json.of = try]_vars

\* A foreground loss is one of a live app, not of a phone that has left.
FgFailIsSeen == [][EndsAs("FG_FAIL") /\ fg = "fail" => behind]_vars

\* "a leg whose app could not stay in front": in this attempt.
FgFailIsOwn == [][EndsAs("FG_FAIL") => fg = "fail"]_vars

\* The foreground check judges the process of this attempt.
CheckIsOfThisStart ==
  [][MonCheck => running.of = try]_vars

\* A leg ends, whatever its app does and whether or not the phone stays.
LegEnds == (run # "off") ~> (run = "off")
=============================================================================
