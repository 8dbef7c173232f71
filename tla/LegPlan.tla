------------------------------ MODULE LegPlan ------------------------------
(***************************************************************************)
(* tools/devicebench: the plan of a round (chain.sh: run_chain's loop,     *)
(* leg_fg, verdict_of, score_leg) over several holds.  A chain walks the   *)
(* plan's lines once per hold; what it knows of earlier holds is what is   *)
(* in the round dir: reports, FG_FAIL files, `attempted` marks, verdicts.  *)
(* Host scorers run in the background and may outlive a killed chain.      *)
(*                                                                         *)
(* What happens inside a leg is Leg.tla's; here it is the report it leaves *)
(* and whether the foreground was lost.  The clock has the three stretches *)
(* the code tells apart: before SKIP_AFTER - 60, up to SKIP_AFTER, after.  *)
(***************************************************************************)
EXTENDS Naturals

CONSTANTS
  Lines,      \* the number of plan lines
  Plan,       \* line -> its extras that decide whether it runs
  Holds       \* how many holds there are, at most

Line == 1..Lines
Extras == [needs : 0..Lines, needs_pass : 0..Lines, prep : 0..Lines, once : BOOLEAN,
           scored : BOOLEAN]

ASSUME PlanAssumption ==
  /\ Lines \in Nat \ {0} /\ Holds \in Nat \ {0}
  /\ Plan \in [Line -> Extras]

\* A line's tag, or its tag with _r2: the one more try after a pause.
Tag == Line \X {"first", "r2"}

VARIABLES
  hold,       \* which hold this is
  pc,         \* where the chain is: off, line, marked, run, judge, paused
  at,         \* the line it is at
  tag,        \* the tag it runs
  clock,      \* open, closing, closed
  stopAll,    \* STOP_ALL
  attempted,  \* the lines with R/<tag>.attempted
  starts,     \* how often each tag's app was started
  report,     \* R/<tag>.json's status
  fgFail,     \* the tags with R/<tag>.FG_FAIL
  scorers,    \* the host scorers at work: <<tag, the start they score>>
  launched,   \* the ones ever launched (no code keeps this)
  verdict     \* R/<tag>.verdict: [says, of], of the start it is about

chain == <<hold, pc, at, tag, clock, stopAll>>
scoring == <<scorers, launched>>
round == <<attempted, starts, report, fgFail, scoring, verdict>>
vars == <<chain, round>>

Init ==
  /\ hold = 0 /\ pc = "off" /\ at = 1 /\ tag = <<1, "first">>
  /\ clock = "open" /\ stopAll = FALSE
  /\ attempted = {} /\ fgFail = {} /\ scorers = {} /\ launched = {}
  /\ starts = [t \in Tag |-> 0]
  /\ report = [t \in Tag |-> "NONE"]
  /\ verdict = [t \in Tag |-> [says |-> "NONE", of |-> 0]]

StartHold ==
  /\ pc = "off" /\ hold < Holds
  /\ hold' = hold + 1
  /\ pc' = "line" /\ at' = 1 /\ clock' = "open" /\ stopAll' = FALSE
  /\ UNCHANGED <<tag, round>>

-----------------------------------------------------------------------------
(* The loop over the plan's lines *)

Done(i) == report[<<i, "first">>] = "DONE"

\* Mutant: a report that says DONE does not bar its line.
BarredAnew(i) ==
  \/ stopAll
  \/ Plan[i].needs # 0 /\ ~Done(Plan[i].needs)
  \/ Plan[i].prep # 0 /\ ~Done(Plan[i].prep)
  \/ Plan[i].once /\ i \in attempted
  \/ clock = "closed"

\* Why a line is passed over whatever the phone is like.
Barred(i) ==
  \/ stopAll \/ Done(i)
  \/ Plan[i].needs # 0 /\ ~Done(Plan[i].needs)
  \/ Plan[i].prep # 0 /\ ~Done(Plan[i].prep)
  \/ Plan[i].once /\ i \in attempted
  \/ clock = "closed"

\* Mutant: only a FAIL holds the leg back.
Disproven(i) ==
  Plan[i].needs_pass # 0 /\ verdict[<<Plan[i].needs_pass, "first">>].says = "FAIL"

\* verdict_of: the scorer is waited for, but not for ever.
Unproven(i) ==
  Plan[i].needs_pass # 0 /\ verdict[<<Plan[i].needs_pass, "first">>].says # "PASS"

\* On to the next line: also when there is no time for the whole limit, the
\* inputs or the graph do not arrive, or the phone does not get ready.
Skip ==
  /\ pc = "line" /\ at <= Lines
  /\ at' = at + 1
  /\ UNCHANGED <<hold, pc, tag, clock, stopAll, round>>

Mark ==
  /\ pc = "line" /\ at <= Lines
  /\ ~Barred(at) /\ ~Unproven(at)
  /\ attempted' = attempted \cup {at}
  /\ tag' = <<at, "first">>
  /\ pc' = "marked"
  /\ UNCHANGED <<hold, at, clock, stopAll, starts, report, fgFail, scoring, verdict>>

\* cleanup_all, CHAIN_DONE, release_hold.
PlanEnds ==
  /\ pc = "line" /\ at > Lines
  /\ pc' = "off"
  /\ UNCHANGED <<hold, at, tag, clock, stopAll, round>>

\* No leg starts after SKIP_AFTER: LEG_STATUS is SKIPPED.
LegSkipped ==
  /\ pc = "marked" /\ clock = "closed"
  /\ pc' = "line" /\ at' = at + 1
  /\ UNCHANGED <<hold, tag, clock, stopAll, round>>

LegStarts ==
  /\ pc = "marked" /\ clock # "closed"
  /\ starts' = [starts EXCEPT ![tag] = @ + 1]
  /\ pc' = "run"
  /\ UNCHANGED <<hold, at, tag, clock, stopAll, attempted, report, fgFail, scoring, verdict>>

Pulled == {"NONE", "FAILED", "DONE"}

\* run.sh and the monitor have ended.
LegEnds ==
  /\ pc = "run"
  /\ \E says \in Pulled : report' = [report EXCEPT ![tag] = says]
  /\ fgFail' \in {fgFail, fgFail \cup {tag}}
  /\ pc' = "judge"
  /\ UNCHANGED <<hold, at, tag, clock, stopAll, attempted, starts, scoring, verdict>>

\* LEG_STATUS; a dead process is named by how it died (Leg.tla).
Statuses ==
  {IF tag \in fgFail THEN "FG_FAIL" ELSE report[tag], "LMKD_KILLED", "MEMGUARD_STOPPED"}

\* Mutant: a line is lost to another reader of the plan.
OverNextLine == pc' = "line" /\ at' = at + 2

NextLine == pc' = "line" /\ at' = at + 1

\* The phone has left adb or rebooted: nothing more is done with this leg.
HardStop ==
  /\ pc \in {"line", "marked", "judge", "paused"}
  /\ pc' = "off"
  /\ UNCHANGED <<hold, at, tag, clock, stopAll, round>>

JudgeDone ==
  /\ pc = "judge" /\ "DONE" \in Statuses
  /\ IF Plan[at].scored
     THEN /\ scorers' = scorers \cup {<<tag, starts[tag]>>}
          /\ launched' = launched \cup {<<tag, starts[tag]>>}
     ELSE UNCHANGED scoring
  /\ NextLine
  /\ UNCHANGED <<hold, tag, clock, stopAll, attempted, starts, report, fgFail, verdict>>

\* leg_fg: the first loss of the foreground pauses, the second stops all.
JudgeFgFail ==
  /\ pc = "judge" /\ "FG_FAIL" \in Statuses
  /\ IF tag[2] = "first"
     THEN pc' = "paused" /\ UNCHANGED <<at, stopAll>>
     ELSE NextLine /\ stopAll' = TRUE
  /\ UNCHANGED <<hold, tag, clock, round>>

JudgeKilled ==
  /\ pc = "judge"
  /\ stopAll' = TRUE
  /\ NextLine
  /\ UNCHANGED <<hold, tag, clock, round>>

\* FAILED, no report, or stopped by the memory guard.
JudgeOther ==
  /\ pc = "judge"
  /\ NextLine
  /\ UNCHANGED <<hold, tag, clock, stopAll, round>>

\* R/RESUME: one more try, under the tag <tag>_r2.
Resume ==
  /\ pc = "paused"
  /\ tag' = <<at, "r2">>
  /\ pc' = "marked"
  /\ UNCHANGED <<hold, at, clock, stopAll, round>>

\* Mutant: the pause has no deadline.
NoDeadline == FALSE

NoResume ==
  /\ pc = "paused" /\ clock # "open"
  /\ stopAll' = TRUE
  /\ NextLine
  /\ UNCHANGED <<hold, tag, clock, round>>

ChainStep ==
  \/ Skip \/ Mark \/ PlanEnds \/ LegSkipped \/ LegStarts \/ LegEnds
  \/ JudgeDone \/ JudgeFgFail \/ JudgeKilled \/ JudgeOther \/ NoResume

-----------------------------------------------------------------------------
(* Around the chain *)

\* The lane's scorer of a DONE leg; it may fail and write nothing.
ScorerEnds(s) ==
  /\ s \in scorers
  /\ scorers' = scorers \ {s}
  /\ \/ \E says \in {"PASS", "FAIL"} :
          verdict' = [verdict EXCEPT ![s[1]] = [says |-> says, of |-> s[2]]]
     \/ UNCHANGED verdict
  /\ UNCHANGED <<chain, attempted, starts, report, fgFail, launched>>

Tick ==
  /\ pc # "off" /\ clock # "closed"
  /\ clock' = IF clock = "open" THEN "closing" ELSE "closed"
  /\ UNCHANGED <<hold, pc, at, tag, stopAll, round>>

\* The chain is killed, with its background scorers or without them; run.sh
\* goes with it, or pulls the report on its own.
Kill ==
  /\ pc # "off"
  /\ pc' = "off"
  /\ scorers' \in {scorers, {}}
  /\ \/ UNCHANGED report
     \/ pc = "run" /\ \E says \in Pulled : report' = [report EXCEPT ![tag] = says]
  /\ UNCHANGED <<hold, at, tag, clock, stopAll, attempted, starts, fgFail, launched, verdict>>

Next ==
  \/ StartHold \/ ChainStep \/ HardStop \/ Resume \/ Tick \/ Kill
  \/ \E s \in scorers : ScorerEnds(s)

Spec == Init /\ [][Next]_vars

\* The chain goes on, time passes and scorers end; a person owes no RESUME.
FairSpec ==
  /\ Spec /\ WF_vars(ChainStep) /\ WF_vars(Tick)
  /\ \A s \in Tag \X (1..Holds) : WF_vars(ScorerEnds(s))

-----------------------------------------------------------------------------
(* Properties *)

TypeOK ==
  /\ hold \in 0..Holds
  /\ pc \in {"off", "line", "marked", "run", "judge", "paused"}
  /\ at \in 1..(Lines + 1) /\ tag \in Tag
  /\ clock \in {"open", "closing", "closed"} /\ stopAll \in BOOLEAN
  /\ attempted \subseteq Line /\ fgFail \subseteq Tag
  /\ starts \in [Tag -> 0..Holds]
  /\ report \in [Tag -> {"NONE", "FAILED", "DONE"}]
  /\ scorers \subseteq launched /\ launched \subseteq Tag \X (1..Holds)
  /\ verdict \in [Tag -> [says : {"NONE", "PASS", "FAIL"}, of : 0..Holds]]

\* A verdict, and every scorer at work, is about the DONE report that is in
\* the round dir, also after kills and over several holds.
AboutReport(t, start) == report[t] = "DONE" /\ start = starts[t]
VerdictIsCurrent ==
  \A i \in Line : LET t == <<i, "first">> IN
    /\ verdict[t].says # "NONE" => AboutReport(t, verdict[t].of)
    /\ \A s \in scorers : s[1] = t => AboutReport(t, s[2])

\* "run only when that gate leg's verdict is PASS", "only when that leg is
\* DONE": what a leg was started on still holds while it runs and is judged.
\* And a once=1 line's own tag is started once at most over all holds.
OncePerTag == \A i \in Line : Plan[i].once => starts[<<i, "first">>] <= 1
StartedOnEvidence ==
  /\ OncePerTag
  /\ pc \in {"marked", "run", "judge", "paused"} =>
      /\ \A i \in {Plan[at].needs, Plan[at].prep} \ {0} : report[<<i, "first">>] = "DONE"
      /\ \A i \in {Plan[at].needs_pass} \ {0} : verdict[<<i, "first">>].says = "PASS"

\* "one attempt per round dir": its app is, under whatever tag.
OncePerRound ==
  \A i \in Line : Plan[i].once => starts[<<i, "first">>] + starts[<<i, "r2">>] <= 1

\* "A leg whose report already says DONE is skipped", also when it is the
\* report of the one more try.
DoneNotRepeated ==
  [][\A i \in Line : report[<<i, "r2">>] = "DONE" => UNCHANGED starts[<<i, "first">>]]_vars

\* A scored line is passed over as DONE only if its report was given to a
\* scorer.
DoneIsScored ==
  [][Skip /\ Done(at) /\ Plan[at].scored
       => <<<<at, "first">>, starts[<<at, "first">>]>> \in launched]_vars

\* A hold's walk through the plan ends: no pause, verdict or leg is waited
\* for without end.
WalkEnds == (pc # "off") ~> (pc = "off")
=============================================================================
