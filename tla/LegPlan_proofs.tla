--------------------------- MODULE LegPlan_proofs ---------------------------
(***************************************************************************)
(* For every plan and any number of holds: verdicts and scorers are about  *)
(* the report that is there, a leg's evidence outlasts its start, and a    *)
(* once=1 tag is started once.  Chains may be killed at every step, with   *)
(* their scorers or without them.                                          *)
(***************************************************************************)
EXTENDS LegPlan, TLAPS

\* A line's leg is being started, runs, is judged or waits for a person.
AtWork == pc \in {"marked", "run", "judge", "paused"}

\* The chain works on the line it is at, on a first try only when that
\* line's report does not say DONE, and waits for a person after one only.
Place ==
  /\ AtWork => at \in Line /\ tag[1] = at
  /\ pc = "paused" => tag[2] = "first"
  /\ pc \in {"marked", "run"} /\ tag[2] = "first" => report[tag] # "DONE"

\* The tags this hold's walk may still start.
Ahead(t) ==
  /\ pc # "off"
  /\ \/ t[1] > at
     \/ t[1] = at /\ pc = "line"
     \/ t[1] = at /\ AtWork /\ tag[2] = "first" /\ t[2] = "r2"
     \/ t = tag /\ pc = "marked"

\* A tag is started once a hold at most.
OncePerHold ==
  /\ pc # "off" => hold > 0
  /\ \A t \in Tag : starts[t] <= hold /\ (Ahead(t) => starts[t] < hold)

\* Every start is scored once at most, and only a finished scorer has a
\* verdict.
ScoredOnce ==
  /\ \A s \in scorers : verdict[s[1]].says # "NONE" => verdict[s[1]].of # s[2]
  /\ \A s \in launched : s[2] <= starts[s[1]]
  /\ pc \in {"run", "judge"} => starts[tag] > 0 /\ <<tag, starts[tag]>> \notin launched
  /\ \A t \in Tag : verdict[t].says # "NONE" => <<t, verdict[t].of>> \in launched

\* A once=1 tag that has been started is marked; one marked and about to be
\* started has not been.
MarkedOnce ==
  \A i \in Line : Plan[i].once =>
    /\ i \notin attempted => starts[<<i, "first">>] = 0
    /\ pc = "marked" /\ tag = <<i, "first">> => starts[<<i, "first">>] = 0
    /\ AtWork /\ tag = <<i, "first">> => i \in attempted

\* The inductive invariant.
IInv ==
  /\ TypeOK /\ Place /\ OncePerHold /\ ScoredOnce /\ MarkedOnce
  /\ VerdictIsCurrent /\ StartedOnEvidence

-----------------------------------------------------------------------------
(* The plan and the tags *)

\* Lines are numbers, and a tag is a line with which try it is.
LEMMA TagFacts ==
  /\ Lines \in Nat /\ Holds \in Nat /\ Line \subseteq Nat
  /\ \A i \in Nat : i \in Line <=> 1 <= i /\ i <= Lines
  /\ \A i \in Line, try \in {"first", "r2"} :
       <<i, try>> \in Tag /\ <<i, try>>[1] = i /\ <<i, try>>[2] = try
  /\ \A t \in Tag : t[1] \in Line /\ t[2] \in {"first", "r2"} /\ t = <<t[1], t[2]>>
  BY PlanAssumption DEF Tag, Line

\* needs, prep and needs_pass name a line of the plan or none.
LEMMA ExtrasFacts ==
  \A i \in Line : /\ Plan[i].needs # 0 => Plan[i].needs \in Line
                  /\ Plan[i].prep # 0 => Plan[i].prep \in Line
                  /\ Plan[i].needs_pass # 0 => Plan[i].needs_pass \in Line
                  /\ Plan[i].once \in BOOLEAN /\ Plan[i].scored \in BOOLEAN
<1> SUFFICES ASSUME NEW i \in Line
             PROVE  /\ Plan[i].needs # 0 => Plan[i].needs \in Line
                    /\ Plan[i].prep # 0 => Plan[i].prep \in Line
                    /\ Plan[i].needs_pass # 0 => Plan[i].needs_pass \in Line
                    /\ Plan[i].once \in BOOLEAN /\ Plan[i].scored \in BOOLEAN
  OBVIOUS
<1>1. /\ Plan[i].needs \in 0..Lines /\ Plan[i].prep \in 0..Lines
      /\ Plan[i].needs_pass \in 0..Lines
      /\ Plan[i].once \in BOOLEAN /\ Plan[i].scored \in BOOLEAN
  BY PlanAssumption DEF Extras
<1> QED
  BY <1>1, PlanAssumption DEF Line

\* The walk ends one past the last line.
LEMMA NextAt ==
  /\ 1 \in Line
  /\ \A i \in 1..(Lines + 1) : i <= Lines => i \in Line
  /\ \A i \in Line : i \in 1..(Lines + 1) /\ i + 1 \in 1..(Lines + 1)
  BY PlanAssumption DEF Line

\* A scorer is a tag with the number of the start it scores.
LEMMA PairFacts ==
  \A s \in Tag \X (1..Holds) : s[1] \in Tag /\ s[2] \in Nat /\ s[2] >= 1 /\ s = <<s[1], s[2]>>
  BY PlanAssumption

-----------------------------------------------------------------------------
(* The invariant *)

\* The first hold finds an empty round dir.
LEMMA PlanInit == Init => IInv
<1> SUFFICES ASSUME Init PROVE IInv
  OBVIOUS
<1>1. TypeOK
  <2>1. hold \in 0..Holds
    BY TagFacts DEF Init
  <2>2. at \in 1..(Lines + 1) /\ tag \in Tag
    BY TagFacts, NextAt DEF Init
  <2>3. starts \in [Tag -> 0..Holds] /\ report \in [Tag -> {"NONE", "FAILED", "DONE"}]
    BY PlanAssumption DEF Init
  <2>4. verdict \in [Tag -> [says : {"NONE", "PASS", "FAIL"}, of : 0..Holds]]
    BY PlanAssumption DEF Init
  <2> QED
    BY <2>1, <2>2, <2>3, <2>4 DEF Init, TypeOK
<1>2. Place
  BY TagFacts DEF Init, Place, AtWork
<1>3. OncePerHold
  BY TagFacts DEF Init, OncePerHold, Ahead
<1>4. ScoredOnce
  BY TagFacts DEF Init, ScoredOnce
<1>5. MarkedOnce
  BY TagFacts DEF Init, MarkedOnce, AtWork
<1>6. VerdictIsCurrent
  BY TagFacts DEF Init, VerdictIsCurrent
<1>7. StartedOnEvidence
  <2>1. \A i \in Line : starts[<<i, "first">>] = 0
    BY TagFacts DEF Init
  <2> QED
    BY <2>1 DEF Init, StartedOnEvidence, OncePerTag
<1> QED
  BY <1>1, <1>2, <1>3, <1>4, <1>5, <1>6, <1>7 DEF IInv

\* One step per action, one leaf per conjunct.
LEMMA PlanStep == IInv /\ [Next]_vars => IInv'
<1> SUFFICES ASSUME IInv, [Next]_vars PROVE IInv'
  OBVIOUS
<1>0. /\ TypeOK /\ Place /\ OncePerHold /\ ScoredOnce /\ MarkedOnce
      /\ VerdictIsCurrent /\ StartedOnEvidence
  BY DEF IInv
<1>1. CASE StartHold
  <2>1. TypeOK'
    <3>1. hold' \in 0..Holds
      BY <1>0, <1>1, TagFacts DEF StartHold, TypeOK
    <3>2. at' \in 1..(Lines + 1)
      BY <1>1, NextAt DEF StartHold
    <3> QED
      BY <1>0, <1>1, <3>1, <3>2 DEF StartHold, round, scoring, TypeOK
  <2>2. Place'
    BY <1>0, <1>1 DEF StartHold, chain, round, scoring, Place, AtWork
  <2>3. OncePerHold'
    BY <1>0, <1>1, <2>1, TagFacts
    DEF StartHold, chain, round, scoring, TypeOK, OncePerHold, Ahead, AtWork
  <2>4. ScoredOnce'
    BY <1>0, <1>1 DEF StartHold, chain, round, scoring, ScoredOnce
  <2>5. MarkedOnce'
    BY <1>0, <1>1 DEF StartHold, chain, round, scoring, MarkedOnce, AtWork
  <2>6. VerdictIsCurrent'
    BY <1>0, <1>1 DEF StartHold, chain, round, scoring, VerdictIsCurrent, AboutReport
  <2>7. StartedOnEvidence'
    BY <1>0, <1>1 DEF StartHold, chain, round, scoring, StartedOnEvidence, OncePerTag
  <2> QED BY <2>1, <2>2, <2>3, <2>4, <2>5, <2>6, <2>7 DEF IInv
<1>2. CASE Skip
  <2>1. TypeOK'
    BY <1>0, <1>2, TagFacts DEF Skip, chain, round, scoring, TypeOK
  <2>2. Place'
    BY <1>0, <1>2 DEF Skip, chain, round, scoring, Place, AtWork
  <2>3. OncePerHold'
    BY <1>0, <1>2, <2>1, TagFacts
    DEF Skip, chain, round, scoring, TypeOK, OncePerHold, Ahead, AtWork
  <2>4. ScoredOnce'
    BY <1>0, <1>2 DEF Skip, chain, round, scoring, ScoredOnce
  <2>5. MarkedOnce'
    BY <1>0, <1>2 DEF Skip, chain, round, scoring, MarkedOnce, AtWork
  <2>6. VerdictIsCurrent'
    BY <1>0, <1>2 DEF Skip, chain, round, scoring, VerdictIsCurrent, AboutReport
  <2>7. StartedOnEvidence'
    BY <1>0, <1>2 DEF Skip, chain, round, scoring, StartedOnEvidence, OncePerTag
  <2> QED BY <2>1, <2>2, <2>3, <2>4, <2>5, <2>6, <2>7 DEF IInv
<1>3. CASE Mark
  <2>1. TypeOK'
    <3>1. at \in Line
      BY <1>0, <1>3, NextAt DEF Mark, TypeOK
    <3>2. tag' \in Tag /\ attempted' \subseteq Line
      BY <1>0, <1>3, <3>1, TagFacts DEF Mark, TypeOK
    <3> QED
      BY <1>0, <1>3, <3>2 DEF Mark, scoring, TypeOK
  <2>2. Place'
    BY <1>0, <1>3, <2>1, TagFacts
    DEF Mark, scoring, Barred, Unproven, Done, TypeOK, Place, AtWork
  <2>3. OncePerHold'
    BY <1>0, <1>3 DEF Mark, scoring, Barred, Unproven, Done, OncePerHold, Ahead, AtWork
  <2>4. ScoredOnce'
    BY <1>0, <1>3 DEF Mark, scoring, Barred, Unproven, Done, ScoredOnce
  <2>5. MarkedOnce'
    BY <1>0, <1>3 DEF Mark, scoring, Barred, Unproven, Done, MarkedOnce, AtWork
  <2>6. VerdictIsCurrent'
    BY <1>0, <1>3 DEF Mark, scoring, Barred, Unproven, Done, VerdictIsCurrent, AboutReport
  <2>7. StartedOnEvidence'
    BY <1>0, <1>3 DEF Mark, scoring, Barred, Unproven, Done, StartedOnEvidence, OncePerTag
  <2> QED BY <2>1, <2>2, <2>3, <2>4, <2>5, <2>6, <2>7 DEF IInv
<1>4. CASE PlanEnds
  <2>1. TypeOK'
    BY <1>0, <1>4 DEF PlanEnds, round, scoring, TypeOK
  <2>2. Place'
    BY <1>0, <1>4 DEF PlanEnds, round, scoring, Place, AtWork
  <2>3. OncePerHold'
    BY <1>0, <1>4 DEF PlanEnds, round, scoring, OncePerHold, Ahead, AtWork
  <2>4. ScoredOnce'
    BY <1>0, <1>4 DEF PlanEnds, round, scoring, ScoredOnce
  <2>5. MarkedOnce'
    BY <1>0, <1>4 DEF PlanEnds, round, scoring, MarkedOnce, AtWork
  <2>6. VerdictIsCurrent'
    BY <1>0, <1>4 DEF PlanEnds, round, scoring, VerdictIsCurrent, AboutReport
  <2>7. StartedOnEvidence'
    BY <1>0, <1>4 DEF PlanEnds, round, scoring, StartedOnEvidence, OncePerTag
  <2> QED BY <2>1, <2>2, <2>3, <2>4, <2>5, <2>6, <2>7 DEF IInv
<1>5. CASE LegSkipped
  <2>1. TypeOK'
    <3>1. at \in Line
      BY <1>0, <1>5 DEF LegSkipped, Place, AtWork
    <3> QED
      BY <1>0, <1>5, <3>1, NextAt DEF LegSkipped, round, scoring, TypeOK
  <2>2. Place'
    BY <1>0, <1>5 DEF LegSkipped, round, scoring, Place, AtWork
  <2>3. OncePerHold'
    BY <1>0, <1>5, <2>1, TagFacts
    DEF LegSkipped, round, scoring, TypeOK, OncePerHold, Ahead, AtWork
  <2>4. ScoredOnce'
    BY <1>0, <1>5 DEF LegSkipped, round, scoring, ScoredOnce
  <2>5. MarkedOnce'
    BY <1>0, <1>5 DEF LegSkipped, round, scoring, MarkedOnce, AtWork
  <2>6. VerdictIsCurrent'
    BY <1>0, <1>5 DEF LegSkipped, round, scoring, VerdictIsCurrent, AboutReport
  <2>7. StartedOnEvidence'
    BY <1>0, <1>5 DEF LegSkipped, round, scoring, StartedOnEvidence, OncePerTag
  <2> QED BY <2>1, <2>2, <2>3, <2>4, <2>5, <2>6, <2>7 DEF IInv
<1>6. CASE LegStarts
  <2>1. TypeOK'
    <3>1. starts[tag] < hold
      BY <1>0, <1>6 DEF LegStarts, TypeOK, OncePerHold, Ahead
    <3>2. starts[tag] + 1 \in 0..Holds
      BY <1>0, <3>1, TagFacts DEF TypeOK
    <3>3. starts' \in [Tag -> 0..Holds]
      BY <1>0, <1>6, <3>2 DEF LegStarts, TypeOK
    <3> QED
      BY <1>0, <1>6, <3>3 DEF LegStarts, scoring, TypeOK
  <2>2. Place'
    BY <1>0, <1>6 DEF LegStarts, scoring, Place, AtWork
  <2>3. OncePerHold'
    BY <1>0, <1>6, <2>1, TagFacts
    DEF LegStarts, scoring, TypeOK, Place, OncePerHold, Ahead, AtWork
  <2>4. ScoredOnce'
    BY <1>0, <1>6, <2>1, TagFacts DEF LegStarts, scoring, TypeOK, ScoredOnce
  <2>5. MarkedOnce'
    BY <1>0, <1>6 DEF LegStarts, scoring, MarkedOnce, AtWork
  <2>6. VerdictIsCurrent'
    <3> SUFFICES ASSUME NEW i \in Line
                 PROVE  /\ verdict'[<<i, "first">>].says # "NONE"
                             => AboutReport(<<i, "first">>, verdict[<<i, "first">>].of)'
                        /\ \A r \in scorers' : r[1] = <<i, "first">>
                             => AboutReport(<<i, "first">>, r[2])'
      BY DEF VerdictIsCurrent
    <3>1. tag # <<i, "first">> => starts'[<<i, "first">>] = starts[<<i, "first">>]
      BY <1>0, <1>6, TagFacts DEF LegStarts, TypeOK
    <3>2. tag = <<i, "first">> => report[<<i, "first">>] # "DONE"
      BY <1>0, <1>6 DEF LegStarts, Place
    <3> QED
      BY <1>0, <1>6, <3>1, <3>2 DEF LegStarts, scoring, VerdictIsCurrent, AboutReport
  <2>7. StartedOnEvidence'
    <3>1. ASSUME NEW i \in Line, Plan[i].once PROVE starts'[<<i, "first">>] <= 1
      <4>1. CASE tag = <<i, "first">>
        BY <1>0, <1>6, <3>1, <4>1, TagFacts DEF LegStarts, TypeOK, MarkedOnce
      <4>2. CASE tag # <<i, "first">>
        BY <1>0, <1>6, <3>1, <4>2, TagFacts DEF LegStarts, TypeOK, StartedOnEvidence, OncePerTag
      <4> QED
        BY <4>1, <4>2
    <3>2. pc = "marked" /\ UNCHANGED <<at, report, verdict>>
      BY <1>6 DEF LegStarts
    <3> QED
      BY <1>0, <3>1, <3>2 DEF StartedOnEvidence, OncePerTag
  <2> QED BY <2>1, <2>2, <2>3, <2>4, <2>5, <2>6, <2>7 DEF IInv
<1>7. CASE LegEnds
  <2>1. TypeOK'
    BY <1>0, <1>7 DEF LegEnds, Pulled, scoring, TypeOK
  <2>2. Place'
    BY <1>0, <1>7 DEF LegEnds, Pulled, scoring, Place, AtWork
  <2>3. OncePerHold'
    BY <1>0, <1>7 DEF LegEnds, Pulled, scoring, OncePerHold, Ahead, AtWork
  <2>4. ScoredOnce'
    BY <1>0, <1>7 DEF LegEnds, Pulled, scoring, ScoredOnce
  <2>5. MarkedOnce'
    BY <1>0, <1>7 DEF LegEnds, Pulled, scoring, MarkedOnce, AtWork
  <2>6. VerdictIsCurrent'
    <3> SUFFICES ASSUME NEW i \in Line
                 PROVE  /\ verdict'[<<i, "first">>].says # "NONE"
                             => AboutReport(<<i, "first">>, verdict[<<i, "first">>].of)'
                        /\ \A r \in scorers' : r[1] = <<i, "first">>
                             => AboutReport(<<i, "first">>, r[2])'
      BY DEF VerdictIsCurrent
    <3>1. report'[<<i, "first">>] # report[<<i, "first">>] => tag = <<i, "first">> /\ pc = "run"
      BY <1>0, <1>7, TagFacts DEF LegEnds, TypeOK
    <3>2. tag = <<i, "first">> /\ pc = "run" => report[<<i, "first">>] # "DONE"
      BY <1>0 DEF Place
    <3>3. scorers' \subseteq scorers /\ UNCHANGED <<starts, verdict>>
      BY <1>7 DEF LegEnds, scoring
    <3> QED
      BY <1>0, <3>1, <3>2, <3>3 DEF VerdictIsCurrent, AboutReport
  <2>7. StartedOnEvidence'
    BY <1>0, <1>7, <2>1, TagFacts
    DEF LegEnds, Pulled, scoring, TypeOK, Place, StartedOnEvidence, OncePerTag
  <2> QED BY <2>1, <2>2, <2>3, <2>4, <2>5, <2>6, <2>7 DEF IInv
<1>8. CASE JudgeDone
  <2>1. TypeOK'
    <3>1. at \in Line /\ starts[tag] > 0
      BY <1>0, <1>8 DEF JudgeDone, Place, AtWork, ScoredOnce
    <3>2. starts[tag] \in 1..Holds
      BY <1>0, <3>1, TagFacts DEF TypeOK
    <3>3. <<tag, starts[tag]>> \in Tag \X (1..Holds)
      BY <1>0, <3>2 DEF TypeOK
    <3>4. scorers' \subseteq launched' /\ launched' \subseteq Tag \X (1..Holds)
      BY <1>0, <1>8, <3>3 DEF JudgeDone, scoring, TypeOK
    <3> QED
      BY <1>0, <1>8, <3>1, <3>4, NextAt DEF JudgeDone, NextLine, TypeOK
  <2>2. Place'
    BY <1>0, <1>8 DEF JudgeDone, NextLine, Statuses, scoring, Place, AtWork
  <2>3. OncePerHold'
    BY <1>0, <1>8, <2>1, TagFacts
    DEF JudgeDone, NextLine, Statuses, scoring, TypeOK, OncePerHold, Ahead, AtWork
  <2>4. ScoredOnce'
    BY <1>0, <1>8, <2>1, TagFacts DEF JudgeDone, NextLine, Statuses, scoring, TypeOK, ScoredOnce
  <2>5. MarkedOnce'
    BY <1>0, <1>8 DEF JudgeDone, NextLine, Statuses, scoring, MarkedOnce, AtWork
  <2>6. VerdictIsCurrent'
    <3> SUFFICES ASSUME NEW i \in Line
                 PROVE  /\ verdict'[<<i, "first">>].says # "NONE"
                             => AboutReport(<<i, "first">>, verdict[<<i, "first">>].of)'
                        /\ \A r \in scorers' : r[1] = <<i, "first">>
                             => AboutReport(<<i, "first">>, r[2])'
      BY DEF VerdictIsCurrent
    <3>1. tag = <<i, "first">> => report[<<i, "first">>] = "DONE"
      BY <1>8 DEF JudgeDone, Statuses
    <3>2. \A r \in scorers' : r \in scorers \/ r = <<tag, starts[tag]>>
      BY <1>8 DEF JudgeDone, scoring
    <3>3. UNCHANGED <<starts, verdict, report>>
      BY <1>8 DEF JudgeDone
    <3> QED
      BY <1>0, <3>1, <3>2, <3>3 DEF VerdictIsCurrent, AboutReport
  <2>7. StartedOnEvidence'
    BY <1>0, <1>8 DEF JudgeDone, NextLine, Statuses, scoring, StartedOnEvidence, OncePerTag
  <2> QED BY <2>1, <2>2, <2>3, <2>4, <2>5, <2>6, <2>7 DEF IInv
<1>9. CASE JudgeFgFail
  <2>1. TypeOK'
    <3>1. at \in Line
      BY <1>0, <1>9 DEF JudgeFgFail, Place, AtWork
    <3> QED
      BY <1>0, <1>9, <3>1, NextAt DEF JudgeFgFail, NextLine, round, scoring, TypeOK
  <2>2. Place'
    BY <1>0, <1>9 DEF JudgeFgFail, NextLine, round, scoring, Place, AtWork
  <2>3. OncePerHold'
    BY <1>0, <1>9, <2>1, TagFacts
    DEF JudgeFgFail, NextLine, round, scoring, TypeOK, OncePerHold, Ahead, AtWork
  <2>4. ScoredOnce'
    BY <1>0, <1>9 DEF JudgeFgFail, NextLine, round, scoring, ScoredOnce
  <2>5. MarkedOnce'
    BY <1>0, <1>9 DEF JudgeFgFail, NextLine, round, scoring, MarkedOnce, AtWork
  <2>6. VerdictIsCurrent'
    BY <1>0, <1>9 DEF JudgeFgFail, NextLine, round, scoring, VerdictIsCurrent, AboutReport
  <2>7. StartedOnEvidence'
    BY <1>0, <1>9 DEF JudgeFgFail, NextLine, round, scoring, StartedOnEvidence, OncePerTag
  <2> QED BY <2>1, <2>2, <2>3, <2>4, <2>5, <2>6, <2>7 DEF IInv
<1>10. CASE JudgeKilled
  <2>1. TypeOK'
    <3>1. at \in Line
      BY <1>0, <1>10 DEF JudgeKilled, Place, AtWork
    <3> QED
      BY <1>0, <1>10, <3>1, NextAt DEF JudgeKilled, NextLine, round, scoring, TypeOK
  <2>2. Place'
    BY <1>0, <1>10 DEF JudgeKilled, NextLine, round, scoring, Place, AtWork
  <2>3. OncePerHold'
    BY <1>0, <1>10, <2>1, TagFacts
    DEF JudgeKilled, NextLine, round, scoring, TypeOK, OncePerHold, Ahead, AtWork
  <2>4. ScoredOnce'
    BY <1>0, <1>10 DEF JudgeKilled, NextLine, round, scoring, ScoredOnce
  <2>5. MarkedOnce'
    BY <1>0, <1>10 DEF JudgeKilled, NextLine, round, scoring, MarkedOnce, AtWork
  <2>6. VerdictIsCurrent'
    BY <1>0, <1>10 DEF JudgeKilled, NextLine, round, scoring, VerdictIsCurrent, AboutReport
  <2>7. StartedOnEvidence'
    BY <1>0, <1>10 DEF JudgeKilled, NextLine, round, scoring, StartedOnEvidence, OncePerTag
  <2> QED BY <2>1, <2>2, <2>3, <2>4, <2>5, <2>6, <2>7 DEF IInv
<1>11. CASE JudgeOther
  <2>1. TypeOK'
    <3>1. at \in Line
      BY <1>0, <1>11 DEF JudgeOther, Place, AtWork
    <3> QED
      BY <1>0, <1>11, <3>1, NextAt DEF JudgeOther, NextLine, round, scoring, TypeOK
  <2>2. Place'
    BY <1>0, <1>11 DEF JudgeOther, NextLine, round, scoring, Place, AtWork
  <2>3. OncePerHold'
    BY <1>0, <1>11, <2>1, TagFacts
    DEF JudgeOther, NextLine, round, scoring, TypeOK, OncePerHold, Ahead, AtWork
  <2>4. ScoredOnce'
    BY <1>0, <1>11 DEF JudgeOther, NextLine, round, scoring, ScoredOnce
  <2>5. MarkedOnce'
    BY <1>0, <1>11 DEF JudgeOther, NextLine, round, scoring, MarkedOnce, AtWork
  <2>6. VerdictIsCurrent'
    BY <1>0, <1>11 DEF JudgeOther, NextLine, round, scoring, VerdictIsCurrent, AboutReport
  <2>7. StartedOnEvidence'
    BY <1>0, <1>11 DEF JudgeOther, NextLine, round, scoring, StartedOnEvidence, OncePerTag
  <2> QED BY <2>1, <2>2, <2>3, <2>4, <2>5, <2>6, <2>7 DEF IInv
<1>12. CASE NoResume
  <2>1. TypeOK'
    <3>1. at \in Line
      BY <1>0, <1>12 DEF NoResume, Place, AtWork
    <3> QED
      BY <1>0, <1>12, <3>1, NextAt DEF NoResume, NextLine, round, scoring, TypeOK
  <2>2. Place'
    BY <1>0, <1>12 DEF NoResume, NextLine, round, scoring, Place, AtWork
  <2>3. OncePerHold'
    BY <1>0, <1>12, <2>1, TagFacts
    DEF NoResume, NextLine, round, scoring, TypeOK, OncePerHold, Ahead, AtWork
  <2>4. ScoredOnce'
    BY <1>0, <1>12 DEF NoResume, NextLine, round, scoring, ScoredOnce
  <2>5. MarkedOnce'
    BY <1>0, <1>12 DEF NoResume, NextLine, round, scoring, MarkedOnce, AtWork
  <2>6. VerdictIsCurrent'
    BY <1>0, <1>12 DEF NoResume, NextLine, round, scoring, VerdictIsCurrent, AboutReport
  <2>7. StartedOnEvidence'
    BY <1>0, <1>12 DEF NoResume, NextLine, round, scoring, StartedOnEvidence, OncePerTag
  <2> QED BY <2>1, <2>2, <2>3, <2>4, <2>5, <2>6, <2>7 DEF IInv
<1>13. CASE HardStop
  <2>1. TypeOK'
    BY <1>0, <1>13 DEF HardStop, round, scoring, TypeOK
  <2>2. Place'
    BY <1>0, <1>13 DEF HardStop, round, scoring, Place, AtWork
  <2>3. OncePerHold'
    BY <1>0, <1>13 DEF HardStop, round, scoring, OncePerHold, Ahead, AtWork
  <2>4. ScoredOnce'
    BY <1>0, <1>13 DEF HardStop, round, scoring, ScoredOnce
  <2>5. MarkedOnce'
    BY <1>0, <1>13 DEF HardStop, round, scoring, MarkedOnce, AtWork
  <2>6. VerdictIsCurrent'
    BY <1>0, <1>13 DEF HardStop, round, scoring, VerdictIsCurrent, AboutReport
  <2>7. StartedOnEvidence'
    BY <1>0, <1>13 DEF HardStop, round, scoring, StartedOnEvidence, OncePerTag
  <2> QED BY <2>1, <2>2, <2>3, <2>4, <2>5, <2>6, <2>7 DEF IInv
<1>14. CASE Resume
  <2>1. TypeOK'
    <3>1. at \in Line
      BY <1>0, <1>14 DEF Resume, Place, AtWork
    <3> QED
      BY <1>0, <1>14, <3>1, TagFacts DEF Resume, round, scoring, TypeOK
  <2>2. Place'
    BY <1>0, <1>14 DEF Resume, round, scoring, Place, AtWork
  <2>3. OncePerHold'
    <3>1. at \in Line /\ tag[1] = at /\ tag[2] = "first" /\ pc = "paused" /\ hold > 0
      BY <1>0, <1>14 DEF Resume, Place, AtWork, OncePerHold
    <3>2. ASSUME NEW t \in Tag, Ahead(t)' PROVE starts[t] < hold
      <4>1. at' = at /\ tag' = <<at, "r2">> /\ tag'[2] # "first" /\ pc' = "marked"
        BY <1>14 DEF Resume
      <4>2. t[1] > at \/ t = <<at, "r2">>
        <5>1. CASE t = tag'
          BY <4>1, <5>1
        <5> QED
          BY <3>2, <4>1, <5>1 DEF Ahead, AtWork
      <4>3. Ahead(t)
        BY <3>1, <4>2, TagFacts DEF Ahead, AtWork
      <4> QED
        BY <1>0, <4>3 DEF OncePerHold
    <3> QED
      BY <1>0, <1>14, <3>2 DEF Resume, round, OncePerHold
  <2>4. ScoredOnce'
    BY <1>0, <1>14 DEF Resume, round, scoring, ScoredOnce
  <2>5. MarkedOnce'
    BY <1>0, <1>14 DEF Resume, round, scoring, MarkedOnce, AtWork
  <2>6. VerdictIsCurrent'
    BY <1>0, <1>14 DEF Resume, round, scoring, VerdictIsCurrent, AboutReport
  <2>7. StartedOnEvidence'
    BY <1>0, <1>14 DEF Resume, round, scoring, StartedOnEvidence, OncePerTag
  <2> QED BY <2>1, <2>2, <2>3, <2>4, <2>5, <2>6, <2>7 DEF IInv
<1>15. CASE Tick
  <2>1. TypeOK'
    BY <1>0, <1>15 DEF Tick, round, scoring, TypeOK
  <2>2. Place'
    BY <1>0, <1>15 DEF Tick, round, scoring, Place, AtWork
  <2>3. OncePerHold'
    BY <1>0, <1>15 DEF Tick, round, scoring, OncePerHold, Ahead, AtWork
  <2>4. ScoredOnce'
    BY <1>0, <1>15 DEF Tick, round, scoring, ScoredOnce
  <2>5. MarkedOnce'
    BY <1>0, <1>15 DEF Tick, round, scoring, MarkedOnce, AtWork
  <2>6. VerdictIsCurrent'
    BY <1>0, <1>15 DEF Tick, round, scoring, VerdictIsCurrent, AboutReport
  <2>7. StartedOnEvidence'
    BY <1>0, <1>15 DEF Tick, round, scoring, StartedOnEvidence, OncePerTag
  <2> QED BY <2>1, <2>2, <2>3, <2>4, <2>5, <2>6, <2>7 DEF IInv
<1>16. CASE Kill
  <2>1. TypeOK'
    BY <1>0, <1>16 DEF Kill, Pulled, scoring, TypeOK
  <2>2. Place'
    BY <1>0, <1>16 DEF Kill, Pulled, scoring, Place, AtWork
  <2>3. OncePerHold'
    BY <1>0, <1>16 DEF Kill, Pulled, scoring, OncePerHold, Ahead, AtWork
  <2>4. ScoredOnce'
    BY <1>0, <1>16 DEF Kill, Pulled, scoring, ScoredOnce
  <2>5. MarkedOnce'
    BY <1>0, <1>16 DEF Kill, Pulled, scoring, MarkedOnce, AtWork
  <2>6. VerdictIsCurrent'
    <3> SUFFICES ASSUME NEW i \in Line
                 PROVE  /\ verdict'[<<i, "first">>].says # "NONE"
                             => AboutReport(<<i, "first">>, verdict[<<i, "first">>].of)'
                        /\ \A r \in scorers' : r[1] = <<i, "first">>
                             => AboutReport(<<i, "first">>, r[2])'
      BY DEF VerdictIsCurrent
    <3>1. report'[<<i, "first">>] # report[<<i, "first">>] => tag = <<i, "first">> /\ pc = "run"
      BY <1>0, <1>16, TagFacts DEF Kill, TypeOK
    <3>2. tag = <<i, "first">> /\ pc = "run" => report[<<i, "first">>] # "DONE"
      BY <1>0 DEF Place
    <3>3. scorers' \subseteq scorers /\ UNCHANGED <<starts, verdict>>
      BY <1>16 DEF Kill, scoring
    <3> QED
      BY <1>0, <3>1, <3>2, <3>3 DEF VerdictIsCurrent, AboutReport
  <2>7. StartedOnEvidence'
    BY <1>0, <1>16 DEF Kill, Pulled, scoring, StartedOnEvidence, OncePerTag
  <2> QED BY <2>1, <2>2, <2>3, <2>4, <2>5, <2>6, <2>7 DEF IInv
<1>17. ASSUME NEW s \in scorers, ScorerEnds(s) PROVE IInv'
  <2>1. TypeOK'
    <3>1. s[1] \in Tag /\ s[2] \in 0..Holds
      BY <1>0, <1>17, PairFacts, TagFacts DEF ScorerEnds, TypeOK
    <3>2. verdict' \in [Tag -> [says : {"NONE", "PASS", "FAIL"}, of : 0..Holds]]
      BY <1>0, <1>17, <3>1 DEF ScorerEnds, TypeOK
    <3> QED
      BY <1>0, <1>17, <3>2 DEF ScorerEnds, chain, TypeOK
  <2>2. Place'
    BY <1>0, <1>17 DEF ScorerEnds, chain, Place, AtWork
  <2>3. OncePerHold'
    BY <1>0, <1>17 DEF ScorerEnds, chain, OncePerHold, Ahead, AtWork
  <2>4. ScoredOnce'
    <3>1. /\ \A r \in scorers : r[1] \in Tag /\ r = <<r[1], r[2]>>
          /\ s \in scorers /\ scorers' = scorers \ {s} /\ scorers \subseteq launched
      BY <1>0, <1>17, PairFacts DEF ScorerEnds, TypeOK
    <3>2. \A t \in Tag : \/ verdict'[t] = verdict[t]
                         \/ t = s[1] /\ verdict'[t].of = s[2]
      BY <1>0, <1>17, <3>1 DEF ScorerEnds, TypeOK
    <3>3. UNCHANGED <<launched, starts, pc, tag>>
      BY <1>17 DEF ScorerEnds, chain
    <3>4. \A r \in scorers' : verdict'[r[1]].says # "NONE" => verdict'[r[1]].of # r[2]
      BY <1>0, <3>1, <3>2 DEF ScoredOnce
    <3>5. \A t \in Tag : verdict'[t].says # "NONE" => <<t, verdict'[t].of>> \in launched
      BY <1>0, <3>1, <3>2 DEF ScoredOnce
    <3> QED
      BY <1>0, <3>3, <3>4, <3>5 DEF ScoredOnce
  <2>5. MarkedOnce'
    BY <1>0, <1>17 DEF ScorerEnds, chain, MarkedOnce, AtWork
  <2>6. VerdictIsCurrent'
    <3> SUFFICES ASSUME NEW i \in Line
                 PROVE  /\ verdict'[<<i, "first">>].says # "NONE"
                             => AboutReport(<<i, "first">>, verdict[<<i, "first">>].of)'
                        /\ \A r \in scorers' : r[1] = <<i, "first">>
                             => AboutReport(<<i, "first">>, r[2])'
      BY DEF VerdictIsCurrent
    <3>1. s[1] \in Tag
      BY <1>0, <1>17, PairFacts DEF ScorerEnds, TypeOK
    <3>2. \/ verdict'[<<i, "first">>] = verdict[<<i, "first">>]
          \/ s[1] = <<i, "first">> /\ verdict'[<<i, "first">>].of = s[2]
      <4>1. CASE UNCHANGED verdict
        BY <4>1
      <4>2. ASSUME NEW says \in {"PASS", "FAIL"},
                   verdict' = [verdict EXCEPT ![s[1]] = [says |-> says, of |-> s[2]]]
            PROVE  \/ verdict'[<<i, "first">>] = verdict[<<i, "first">>]
                   \/ s[1] = <<i, "first">> /\ verdict'[<<i, "first">>].of = s[2]
        BY <1>0, <3>1, <4>2, TagFacts DEF TypeOK
      <4> QED
        BY <1>17, <4>1, <4>2 DEF ScorerEnds
    <3>3. /\ s \in scorers /\ scorers' \subseteq scorers /\ UNCHANGED <<starts, report>>
      BY <1>17 DEF ScorerEnds
    <3> QED
      BY <1>0, <3>2, <3>3 DEF VerdictIsCurrent, AboutReport
  <2>7. StartedOnEvidence'
    <3>1. s[1] \in Tag /\ s \in scorers
      BY <1>0, <1>17, PairFacts DEF ScorerEnds, TypeOK
    <3>2. ASSUME NEW i \in Line, verdict[<<i, "first">>].says = "PASS"
          PROVE  verdict'[<<i, "first">>] = verdict[<<i, "first">>]
      <4>1. CASE s[1] = <<i, "first">>
        <5>1. verdict[<<i, "first">>].of = s[2]
          BY <1>0, <3>1, <3>2, <4>1 DEF VerdictIsCurrent, AboutReport
        <5>2. verdict[<<i, "first">>].of # s[2]
          BY <1>0, <3>1, <3>2, <4>1 DEF ScoredOnce
        <5> QED
          BY <5>1, <5>2
      <4>2. CASE s[1] # <<i, "first">>
        BY <1>17, <3>1, <4>2, <1>0, TagFacts DEF ScorerEnds, TypeOK
      <4> QED
        BY <4>1, <4>2
    <3>3. UNCHANGED <<pc, at, report, starts>>
      BY <1>17 DEF ScorerEnds, chain
    <3>4. pc \in {"marked", "run", "judge", "paused"} => at \in Line
      BY <1>0 DEF Place, AtWork
    <3> QED
      BY <1>0, <3>2, <3>3, <3>4, ExtrasFacts DEF StartedOnEvidence, OncePerTag
  <2> QED BY <2>1, <2>2, <2>3, <2>4, <2>5, <2>6, <2>7 DEF IInv
<1>18. CASE UNCHANGED vars
  BY <1>0, <1>18 DEF vars, chain, round, scoring, IInv, TypeOK, Place, OncePerHold, Ahead,
     ScoredOnce, MarkedOnce, VerdictIsCurrent, StartedOnEvidence, OncePerTag, AtWork, AboutReport
<1> QED
  BY <1>1, <1>2, <1>3, <1>4, <1>5, <1>6, <1>7, <1>8, <1>9,
     <1>10, <1>11, <1>12, <1>13, <1>14, <1>15, <1>16, <1>17, <1>18
     DEF Next, ChainStep

-----------------------------------------------------------------------------
(* The theorems *)

\* The invariant holds in every state of a round.
LEMMA PlanInvariant == Spec => []IInv
  BY PlanInit, PlanStep, PTL DEF Spec

\* The variables of a round keep to their types for every plan; what each tag
\* counts stays within the number of holds.
THEOREM PlanTypes == Spec => []TypeOK
<1>1. IInv => TypeOK
  BY DEF IInv
<1> QED
  BY <1>1, PlanInvariant, PTL

\* score_leg, verdict_of: a verdict in the round dir, and every scorer at
\* work, is about the DONE report that is there, over kills and holds.
THEOREM VerdictsAreCurrent == Spec => []VerdictIsCurrent
<1>1. IInv => VerdictIsCurrent
  BY DEF IInv
<1> QED
  BY <1>1, PlanInvariant, PTL

\* run_chain: what a leg was started on (needs, prep, needs_pass) holds until
\* it is judged, and a once=1 tag is started once in all holds together.
THEOREM LegsStartOnEvidence == Spec => []StartedOnEvidence
<1>1. IInv => StartedOnEvidence
  BY DEF IInv
<1> QED
  BY <1>1, PlanInvariant, PTL
=============================================================================
