----------------------------- MODULE Leg_proofs -----------------------------
(***************************************************************************)
(* For any number of attempts: a leg's result is that of its own attempt,  *)
(* unless run.sh refused or could not clear the phone, and a foreground    *)
(* loss is never called a result.  run.sh, the monitor, the app and the    *)
(* phone take their steps in every order, and the phone may leave adb      *)
(* between any two.                                                        *)
(***************************************************************************)
EXTENDS Leg, TLAPS

\* Nothing runs before the first attempt.
Attempted == try = 0 => run = "off" /\ mon = "off" /\ app = None

Cleared == {"launch", "look", "wait", "stopping", "settle", "pull", "close"}

\* A run.sh that has cleared the phone finds there what its own start made;
\* so it is with the report it has pulled.
OwnReport ==
  ~unsure =>
    /\ run = "clear" => app = None
    /\ run \in Cleared => /\ app = None \/ app.of = try
                          /\ report = None \/ report.of = try
    /\ run \in {"close", "ended"} => json = None \/ json.of = try

\* The monitor that saw the app behind another has left FG_FAIL.
BehindIsMarked == behind => fgFail

\* The inductive invariant.
IInv == TypeOK /\ Attempted /\ OwnReport /\ BehindIsMarked

\* An attempt under way has a number.
LEMMA TryFacts ==
  ASSUME TypeOK, Attempted, run # "off" \/ mon # "off" \/ app # None
  PROVE  try \in 1..Tries
  BY TriesAssumption DEF TypeOK, Attempted

\* KEYCODE_WAKEUP starts and ends no process.
LEMMA WakeFacts ==
  ASSUME TypeOK, Wake
  PROVE  /\ app' \in {None} \cup [at : {"front", "back"}, of : 1..Tries]
         /\ app = None => app' = None
         /\ app' = None \/ app'.of = app.of
<1>1. CASE app = None
  BY <1>1 DEF Wake
<1>2. CASE app # None
  <2>1. app \in [at : {"front", "back"}, of : 1..Tries]
    BY <1>2 DEF TypeOK
  <2>2. [app EXCEPT !.at = "front"] \in [at : {"front", "back"}, of : 1..Tries]
    BY <2>1
  <2> QED
    BY <1>2, <2>1, <2>2 DEF Wake
<1> QED
  BY <1>1, <1>2

-----------------------------------------------------------------------------
(* The invariant *)

\* No attempt, no app, no files.
LEMMA LegInit == Init => IInv
<1> SUFFICES ASSUME Init PROVE IInv
  OBVIOUS
<1>1. TypeOK
  <2>1. try \in 0..Tries
    BY TriesAssumption DEF Init
  <2> QED
    BY <2>1 DEF Init, TypeOK, File
<1>2. Attempted /\ OwnReport /\ BehindIsMarked
  BY DEF Init, Attempted, OwnReport, Cleared, BehindIsMarked
<1> QED
  BY <1>1, <1>2 DEF IInv

\* One step per action, one leaf per conjunct.
LEMMA LegStep == IInv /\ [Next]_vars => IInv'
<1> SUFFICES ASSUME IInv, [Next]_vars PROVE IInv'
  OBVIOUS
<1>0. TypeOK /\ Attempted /\ OwnReport /\ BehindIsMarked
  BY DEF IInv
<1>t. run # "off" \/ mon # "off" \/ app # None => try \in 1..Tries
  BY <1>0, TryFacts
<1>1. CASE Start
  <2>1. TypeOK'
    <3>1. try' \in 0..Tries
      BY <1>0, <1>1, TriesAssumption DEF Start, TypeOK
    <3> QED
      BY <1>0, <1>1, <3>1 DEF Start, evidence, TypeOK, File
  <2>2. Attempted'
    BY <1>0, <1>1, TriesAssumption DEF Start, Attempted, TypeOK
  <2>3. OwnReport'
    BY <1>0, <1>1 DEF Start, OwnReport, Cleared
  <2>4. BehindIsMarked'
    BY <1>0, <1>1 DEF Start, BehindIsMarked
  <2> QED BY <2>1, <2>2, <2>3, <2>4 DEF IInv
<1>2. CASE End
  <2>1. TypeOK'
    <3>1. Says(json) \in {"NONE", "DONE", "FAILED"}
      BY <1>0 DEF TypeOK, File, Says
    <3>2. status' \in {"NONE", "DONE", "FAILED", "FG_FAIL", "LMKD_KILLED", "MEMGUARD_STOPPED"}
      BY <1>0, <1>2, <3>1 DEF End, Status, TypeOK
    <3> QED
      BY <1>0, <1>2, <3>2 DEF End, device, evidence, history, TypeOK
  <2>2. Attempted'
    BY <1>0, <1>2 DEF End, Attempted
  <2>3. OwnReport'
    BY <1>0, <1>2 DEF End, OwnReport, Cleared
  <2>4. BehindIsMarked'
    BY <1>0, <1>2 DEF End, evidence, history, BehindIsMarked
  <2> QED BY <2>1, <2>2, <2>3, <2>4 DEF IInv
<1>3. CASE Refuse
  <2>1. TypeOK'
    BY <1>0, <1>3 DEF Refuse, RunTo, device, evidence, history, TypeOK
  <2>2. Attempted'
    BY <1>0, <1>3 DEF Refuse, Attempted
  <2>3. OwnReport'
    BY <1>0, <1>3 DEF Refuse, OwnReport
  <2>4. BehindIsMarked'
    BY <1>0, <1>3 DEF Refuse, evidence, history, BehindIsMarked
  <2> QED BY <2>1, <2>2, <2>3, <2>4 DEF IInv
<1>4. CASE Begin
  <2>1. TypeOK'
    BY <1>0, <1>4 DEF Begin, RunTo, device, evidence, history, TypeOK
  <2>2. Attempted'
    BY <1>0, <1>4 DEF Begin, Attempted
  <2>3. OwnReport'
    BY <1>0, <1>4 DEF Begin, RunTo, OwnReport, Cleared
  <2>4. BehindIsMarked'
    BY <1>0, <1>4 DEF Begin, evidence, history, BehindIsMarked
  <2> QED BY <2>1, <2>2, <2>3, <2>4 DEF IInv
<1>5. CASE Kill
  <2>1. TypeOK'
    BY <1>0, <1>5 DEF Kill, RunTo, evidence, history, TypeOK
  <2>2. Attempted'
    BY <1>0, <1>5 DEF Kill, Attempted
  <2>3. OwnReport'
    BY <1>0, <1>5 DEF Kill, RunTo, OwnReport, Cleared
  <2>4. BehindIsMarked'
    BY <1>0, <1>5 DEF Kill, evidence, history, BehindIsMarked
  <2> QED BY <2>1, <2>2, <2>3, <2>4 DEF IInv
<1>6. CASE Clear
  <2>1. TypeOK'
    BY <1>0, <1>6 DEF Clear, RunTo, evidence, history, TypeOK, File
  <2>2. Attempted'
    BY <1>0, <1>6 DEF Clear, Attempted
  <2>3. OwnReport'
    BY <1>0, <1>6 DEF Clear, RunTo, OwnReport
  <2>4. BehindIsMarked'
    BY <1>0, <1>6 DEF Clear, evidence, history, BehindIsMarked
  <2> QED BY <2>1, <2>2, <2>3, <2>4 DEF IInv
<1>7. CASE Launch
  <2>1. TypeOK'
    <3>1. app' \in {None} \cup [at : {"front", "back"}, of : 1..Tries]
      BY <1>0, <1>t, <1>7 DEF Launch, TypeOK
    <3> QED
      BY <1>0, <1>7, <3>1 DEF Launch, RunTo, evidence, history, TypeOK
  <2>2. Attempted'
    BY <1>0, <1>7 DEF Launch, Attempted
  <2>3. OwnReport'
    BY <1>0, <1>7 DEF Launch, RunTo, OwnReport, Cleared
  <2>4. BehindIsMarked'
    BY <1>0, <1>7 DEF Launch, evidence, history, BehindIsMarked
  <2> QED BY <2>1, <2>2, <2>3, <2>4 DEF IInv
<1>8. CASE Look
  <2>1. TypeOK'
    BY <1>0, <1>t, <1>8 DEF Look, RunTo, device, history, TypeOK
  <2>2. Attempted'
    BY <1>0, <1>8 DEF Look, Attempted
  <2>3. OwnReport'
    BY <1>0, <1>8 DEF Look, RunTo, device, OwnReport, Cleared
  <2>4. BehindIsMarked'
    BY <1>0, <1>8 DEF Look, history, BehindIsMarked
  <2> QED BY <2>1, <2>2, <2>3, <2>4 DEF IInv
<1>9. CASE SeeReport
  <2>1. TypeOK'
    BY <1>0, <1>9 DEF SeeReport, RunTo, device, evidence, history, TypeOK
  <2>2. Attempted'
    BY <1>0, <1>9 DEF SeeReport, Attempted
  <2>3. OwnReport'
    BY <1>0, <1>9 DEF SeeReport, RunTo, device, OwnReport, Cleared
  <2>4. BehindIsMarked'
    BY <1>0, <1>9 DEF SeeReport, evidence, history, BehindIsMarked
  <2> QED BY <2>1, <2>2, <2>3, <2>4 DEF IInv
<1>10. CASE LosePhone
  <2>1. TypeOK'
    BY <1>0, <1>10 DEF LosePhone, RunTo, device, evidence, history, TypeOK
  <2>2. Attempted'
    BY <1>0, <1>10 DEF LosePhone, Attempted
  <2>3. OwnReport'
    BY <1>0, <1>10 DEF LosePhone, RunTo, OwnReport, Cleared
  <2>4. BehindIsMarked'
    BY <1>0, <1>10 DEF LosePhone, evidence, history, BehindIsMarked
  <2> QED BY <2>1, <2>2, <2>3, <2>4 DEF IInv
<1>11. CASE AtLimit
  <2>1. TypeOK'
    BY <1>0, <1>11 DEF AtLimit, RunTo, device, evidence, history, TypeOK
  <2>2. Attempted'
    BY <1>0, <1>11 DEF AtLimit, Attempted
  <2>3. OwnReport'
    BY <1>0, <1>11 DEF AtLimit, RunTo, device, OwnReport, Cleared
  <2>4. BehindIsMarked'
    BY <1>0, <1>11 DEF AtLimit, evidence, history, BehindIsMarked
  <2> QED BY <2>1, <2>2, <2>3, <2>4 DEF IInv
<1>12. CASE TimeOut
  <2>1. TypeOK'
    BY <1>0, <1>12 DEF TimeOut, RunTo, device, evidence, history, TypeOK
  <2>2. Attempted'
    BY <1>0, <1>12 DEF TimeOut, Attempted
  <2>3. OwnReport'
    BY <1>0, <1>12 DEF TimeOut, RunTo, device, OwnReport, Cleared
  <2>4. BehindIsMarked'
    BY <1>0, <1>12 DEF TimeOut, evidence, history, BehindIsMarked
  <2> QED BY <2>1, <2>2, <2>3, <2>4 DEF IInv
<1>13. CASE SeeNoProcess
  <2>1. TypeOK'
    BY <1>0, <1>13 DEF SeeNoProcess, RunTo, device, evidence, history, TypeOK
  <2>2. Attempted'
    BY <1>0, <1>13 DEF SeeNoProcess, Attempted
  <2>3. OwnReport'
    BY <1>0, <1>13 DEF SeeNoProcess, RunTo, device, OwnReport, Cleared
  <2>4. BehindIsMarked'
    BY <1>0, <1>13 DEF SeeNoProcess, evidence, history, BehindIsMarked
  <2> QED BY <2>1, <2>2, <2>3, <2>4 DEF IInv
<1>14. CASE NoReport
  <2>1. TypeOK'
    BY <1>0, <1>14 DEF NoReport, RunTo, device, evidence, history, TypeOK
  <2>2. Attempted'
    BY <1>0, <1>14 DEF NoReport, Attempted
  <2>3. OwnReport'
    BY <1>0, <1>14 DEF NoReport, RunTo, device, OwnReport, Cleared
  <2>4. BehindIsMarked'
    BY <1>0, <1>14 DEF NoReport, evidence, history, BehindIsMarked
  <2> QED BY <2>1, <2>2, <2>3, <2>4 DEF IInv
<1>15. CASE Pull
  <2>1. TypeOK'
    BY <1>0, <1>15 DEF Pull, RunTo, device, history, TypeOK, File
  <2>2. Attempted'
    BY <1>0, <1>15 DEF Pull, Attempted
  <2>3. OwnReport'
    BY <1>0, <1>15 DEF Pull, RunTo, device, OwnReport, Cleared
  <2>4. BehindIsMarked'
    BY <1>0, <1>15 DEF Pull, history, BehindIsMarked
  <2> QED BY <2>1, <2>2, <2>3, <2>4 DEF IInv
<1>16. CASE Close
  <2>1. TypeOK'
    BY <1>0, <1>16 DEF Close, RunTo, evidence, history, TypeOK
  <2>2. Attempted'
    BY <1>0, <1>16 DEF Close, Attempted
  <2>3. OwnReport'
    BY <1>0, <1>16 DEF Close, RunTo, evidence, OwnReport, Cleared
  <2>4. BehindIsMarked'
    BY <1>0, <1>16 DEF Close, evidence, history, BehindIsMarked
  <2> QED BY <2>1, <2>2, <2>3, <2>4 DEF IInv
<1>17. CASE MonEnd
  <2>1. TypeOK'
    BY <1>0, <1>17 DEF MonEnd, MonTo, device, evidence, history, TypeOK
  <2>2. Attempted'
    BY <1>0, <1>17 DEF MonEnd, Attempted
  <2>3. OwnReport'
    BY <1>0, <1>17 DEF MonEnd, evidence, OwnReport, Cleared
  <2>4. BehindIsMarked'
    BY <1>0, <1>17 DEF MonEnd, evidence, history, BehindIsMarked
  <2> QED BY <2>1, <2>2, <2>3, <2>4 DEF IInv
<1>18. CASE MonCheck
  <2>1. TypeOK'
    <3>1. running.says \in {"front", "back", "nopid"}
      BY <1>0, <1>18 DEF MonCheck, TypeOK
    <3>2. /\ fg' \in {fg, "gone", "ok"} /\ mon' \in {"sample", "recheck"}
          /\ app' = app \/ Wake
      BY <1>18, <3>1 DEF MonCheck, MonTo
    <3>3. app' \in {None} \cup [at : {"front", "back"}, of : 1..Tries]
      BY <1>0, <3>2, WakeFacts DEF TypeOK
    <3> QED
      BY <1>0, <1>18, <3>2, <3>3 DEF MonCheck, evidence, history, TypeOK
  <2>2. Attempted'
    BY <1>0, <1>18 DEF MonCheck, Attempted
  <2>3. OwnReport'
    BY <1>0, <1>18 DEF MonCheck, Wake, evidence, OwnReport, TypeOK
  <2>4. BehindIsMarked'
    BY <1>0, <1>18 DEF MonCheck, evidence, history, BehindIsMarked
  <2> QED BY <2>1, <2>2, <2>3, <2>4 DEF IInv
<1>19. CASE MonSkip
  <2>1. TypeOK'
    BY <1>0, <1>19 DEF MonSkip, MonTo, device, evidence, history, TypeOK
  <2>2. Attempted'
    BY <1>0, <1>19 DEF MonSkip, Attempted
  <2>3. OwnReport'
    BY <1>0, <1>19 DEF MonSkip, device, evidence, OwnReport
  <2>4. BehindIsMarked'
    BY <1>0, <1>19 DEF MonSkip, evidence, history, BehindIsMarked
  <2> QED BY <2>1, <2>2, <2>3, <2>4 DEF IInv
<1>20. CASE MonRecheck
  <2>1. TypeOK'
    BY <1>0, <1>20 DEF MonRecheck, MonTo, device, evidence, history, TypeOK
  <2>2. Attempted'
    BY <1>0, <1>20 DEF MonRecheck, Attempted
  <2>3. OwnReport'
    BY <1>0, <1>20 DEF MonRecheck, device, evidence, OwnReport
  <2>4. BehindIsMarked'
    BY <1>0, <1>20 DEF MonRecheck, evidence, history, BehindIsMarked
  <2> QED BY <2>1, <2>2, <2>3, <2>4 DEF IInv
<1>21. CASE MonReads
  <2>1. TypeOK'
    <3>1. fg' \in {"ok", "fail"} /\ mon' \in {"sample", "stopfg"}
      BY <1>21 DEF MonReads, MonTo
    <3>2. fgFail' \in BOOLEAN /\ behind' \in BOOLEAN
      BY <1>0, <1>21 DEF MonReads, TypeOK
    <3> QED
      BY <1>0, <1>21, <3>1, <3>2 DEF MonReads, device, TypeOK
  <2>2. Attempted'
    BY <1>0, <1>21 DEF MonReads, Attempted
  <2>3. OwnReport'
    BY <1>0, <1>21 DEF MonReads, device, OwnReport
  <2>4. BehindIsMarked'
    BY <1>0, <1>21 DEF MonReads, BehindIsMarked
  <2> QED BY <2>1, <2>2, <2>3, <2>4 DEF IInv
<1>22. CASE MonStop
  <2>1. TypeOK'
    BY <1>0, <1>22 DEF MonStop, MonTo, evidence, history, TypeOK
  <2>2. Attempted'
    BY <1>0, <1>22 DEF MonStop, Attempted
  <2>3. OwnReport'
    BY <1>0, <1>22 DEF MonStop, evidence, OwnReport
  <2>4. BehindIsMarked'
    BY <1>0, <1>22 DEF MonStop, evidence, history, BehindIsMarked
  <2> QED BY <2>1, <2>2, <2>3, <2>4 DEF IInv
<1>23. CASE MonSample
  <2>1. TypeOK'
    <3>1. app' \in {None} \cup [at : {"front", "back"}, of : 1..Tries]
      BY <1>0, <1>23, WakeFacts DEF MonSample, TypeOK
    <3>2. memGuard' \in BOOLEAN
      BY <1>0, <1>23 DEF MonSample, TypeOK
    <3> QED
      BY <1>0, <1>23, <3>1, <3>2 DEF MonSample, MonTo, history, TypeOK
  <2>2. Attempted'
    BY <1>0, <1>23 DEF MonSample, Attempted
  <2>3. OwnReport'
    BY <1>0, <1>23 DEF MonSample, Wake, OwnReport, TypeOK
  <2>4. BehindIsMarked'
    BY <1>0, <1>23 DEF MonSample, history, BehindIsMarked
  <2> QED BY <2>1, <2>2, <2>3, <2>4 DEF IInv
<1>24. CASE Finish
  <2>1. TypeOK'
    BY <1>0, <1>24 DEF Finish, evidence, history, TypeOK, File
  <2>2. Attempted'
    BY <1>0, <1>24 DEF Finish, Attempted
  <2>3. OwnReport'
    BY <1>0, <1>24 DEF Finish, evidence, OwnReport
  <2>4. BehindIsMarked'
    BY <1>0, <1>24 DEF Finish, evidence, history, BehindIsMarked
  <2> QED BY <2>1, <2>2, <2>3, <2>4 DEF IInv
<1>25. CASE Vanish
  <2>1. TypeOK'
    BY <1>0, <1>25 DEF Vanish, evidence, TypeOK
  <2>2. Attempted'
    BY <1>0, <1>25 DEF Vanish, Attempted
  <2>3. OwnReport'
    BY <1>0, <1>25 DEF Vanish, evidence, OwnReport
  <2>4. BehindIsMarked'
    BY <1>0, <1>25 DEF Vanish, evidence, BehindIsMarked
  <2> QED BY <2>1, <2>2, <2>3, <2>4 DEF IInv
<1>26. CASE FallBehind
  <2>1. TypeOK'
    <3>1. app' \in {None} \cup [at : {"front", "back"}, of : 1..Tries]
      BY <1>0, <1>26 DEF FallBehind, TypeOK
    <3> QED
      BY <1>0, <1>26, <3>1 DEF FallBehind, evidence, history, TypeOK
  <2>2. Attempted'
    BY <1>0, <1>26 DEF FallBehind, Attempted
  <2>3. OwnReport'
    BY <1>0, <1>26 DEF FallBehind, evidence, OwnReport
  <2>4. BehindIsMarked'
    BY <1>0, <1>26 DEF FallBehind, evidence, history, BehindIsMarked
  <2> QED BY <2>1, <2>2, <2>3, <2>4 DEF IInv
<1>27. CASE Plug
  <2>1. TypeOK'
    BY <1>0, <1>27 DEF Plug, evidence, history, TypeOK
  <2>2. Attempted'
    BY <1>0, <1>27 DEF Plug, Attempted
  <2>3. OwnReport'
    BY <1>0, <1>27 DEF Plug, evidence, OwnReport
  <2>4. BehindIsMarked'
    BY <1>0, <1>27 DEF Plug, evidence, history, BehindIsMarked
  <2> QED BY <2>1, <2>2, <2>3, <2>4 DEF IInv
<1>28. CASE UNCHANGED vars
  BY <1>0, <1>28
  DEF vars, device, evidence, history, IInv, TypeOK, Attempted, OwnReport, Cleared,
      BehindIsMarked
<1> QED
  BY <1>1, <1>2, <1>3, <1>4, <1>5, <1>6, <1>7, <1>8, <1>9, <1>10, <1>11, <1>12, <1>13,
     <1>14, <1>15, <1>16, <1>17, <1>18, <1>19, <1>20, <1>21, <1>22, <1>23, <1>24,
     <1>25, <1>26, <1>27, <1>28
  DEF Next, RunStep, MonStep

-----------------------------------------------------------------------------
(* The theorems *)

\* The invariant holds in every state of a leg.
LEMMA LegInvariant == Spec => []IInv
  BY LegInit, LegStep, PTL DEF Spec

\* leg, run.sh, monitor: the files of a leg keep to their types for any number
\* of attempts, and an attempt's number is in all that is about it.
THEOREM LegTypes == Spec => []TypeOK
<1>1. IInv => TypeOK
  BY DEF IInv
<1> QED
  BY <1>1, LegInvariant, PTL

\* leg's LEG_STATUS: DONE and FAILED are the report of the attempt's own app
\* unless run.sh refused or could not clear the phone, and not of an app seen
\* behind another; an lmkd kill is one.
THEOREM StatusIsExplained == Spec => StatusExplained
<1> DEFINE Explained ==
             /\ EndsAs("DONE") \/ EndsAs("FAILED")
                  => (json.of = try \/ unsure) /\ ~behind
             /\ EndsAs("LMKD_KILLED") => lmkd # "never"
<1>1. IInv /\ [Next]_vars => [Explained]_vars
  <2> SUFFICES ASSUME IInv PROVE Explained
    OBVIOUS
  <2>0. TypeOK /\ OwnReport /\ BehindIsMarked
    BY DEF IInv
  <2>1. Says(json) \in {"NONE", "DONE", "FAILED"}
    BY <2>0 DEF TypeOK, File, Says
  <2>2. ASSUME EndsAs("DONE") \/ EndsAs("FAILED")
        PROVE  (json.of = try \/ unsure) /\ ~behind
    <3>1. Says(json) # "NONE" /\ run = "ended" /\ ~fgFail
      BY <2>2, <2>1 DEF EndsAs, End, Status
    <3>2. json # None
      BY <3>1 DEF Says
    <3> QED
      BY <2>0, <3>1, <3>2 DEF OwnReport, BehindIsMarked
  <2>3. ASSUME EndsAs("LMKD_KILLED") PROVE lmkd # "never"
    <3>1. TRUE \in LmkdLines
      BY <2>1, <2>3 DEF EndsAs, End, Status
    <3> QED
      BY <3>1 DEF LmkdLines
  <2> QED
    BY <2>2, <2>3
<1>2. [Explained]_vars <=> [/\ EndsAs("DONE") \/ EndsAs("FAILED")
                                 => (json.of = try \/ unsure) /\ ~behind
                            /\ EndsAs("LMKD_KILLED") => lmkd # "never"]_vars
  OBVIOUS
<1> QED
  BY <1>1, <1>2, LegInvariant, PTL DEF Spec, StatusExplained
=============================================================================
