--------------------------- MODULE NpuChain_proofs ---------------------------
(***************************************************************************)
(* For every plan that names the cold leg of each cached one, any sizes    *)
(* and any number of runs, chains killed at any step and a phone that      *)
(* leaves, reboots and returns at any step: a cached leg runs on the cache *)
(* of a compile that ended, no leg is started twice, and what leg.json     *)
(* says of the runner's end is so.  As long as no look has passed a runner *)
(* over, a leg's graph stays under its runner and fits the room, and no    *)
(* second runner is on the phone.                                          *)
(***************************************************************************)
EXTENDS NpuChain, FiniteSetTheorems, TLAPS

Staging == {"push", "unstaged", "staged", "gate"}

\* A leg is under way only inside the plan.
InPlan == pc \in Staging \cup OfLeg \cup {"collect"} => at \in Leg

\* What was asked before a leg is staged still holds when its runner starts.
StillFit ==
  pc \in Staging =>
    /\ out[at] = "none"
    /\ Use(at) => /\ status[Plan[at].needs] = "DONE"
                  /\ cache[Plan[at].cache] # "absent"
    /\ pc \in {"staged", "gate"} => graph[Plan[at].graph] # "absent"

\* A leg that is DONE said that its compile ended.
DoneSaid == \A i \in Leg : status[i] = "DONE" => out[i] \in {"compiled", "done"}

\* A runner's leg has its stdout.txt, and if it is a cached one, the leg that
\* wrote its cache said that its compile ended.
Begun ==
  \A r \in runners :
    /\ out[r.leg] # "none"
    /\ Use(r.leg) => out[Plan[r.leg].needs] \in {"compiled", "done"}

\* After the end of its compile, heard or not, the cache that a cached leg uses
\* is never partial again.
WrittenWhole ==
  \A i \in Leg : Use(i) =>
    /\ out[Plan[i].needs] \in {"compiled", "done"} => cache[Plan[i].cache] # "partial"
    /\ \A r \in runners :
         r.leg = Plan[i].needs /\ r.compiled => cache[Plan[i].cache] # "partial"

\* What a runner uses is not removed under it, unless it was passed over.
CacheStays == ~hidden => \A r \in runners : Use(r.leg) => cache[Plan[r.leg].cache] # "absent"

IInv ==
  /\ TypeOK /\ InPlan /\ AloneOnPhone /\ StillFit /\ DoneSaid /\ Begun /\ WrittenWhole
  /\ GraphStays /\ CacheStays

-----------------------------------------------------------------------------
\* Every line of the plan is well formed, and a cached line's needs= is the one
\* cold leg that writes its cache.
LEMMA PlanLines ==
  /\ Len(Plan) \in Nat /\ 1 \in 1..(Len(Plan) + 1)
  /\ \A i \in Leg : /\ Plan[i].graph \in Graphs
                    /\ Plan[i].cache \in Caches \cup {NoCache}
                    /\ Plan[i].cold \in BOOLEAN
                    /\ Plan[i].needs \in 0..Len(Plan)
                    /\ Plan[i].cold => Plan[i].cache \in Caches
                    /\ Use(i) => Plan[i].cache \in Caches /\ ~Plan[i].cold
  /\ \A i \in Leg : Use(i) =>
       /\ Plan[i].needs \in Leg
       /\ \A j \in Leg : Plan[j].cold /\ Plan[j].cache = Plan[i].cache <=> j = Plan[i].needs
<1>1. Plan \in Seq(LegLine) /\ Len(Plan) \in Nat /\ Plan # <<>>
  BY PlanAssumption
<1>2. \A i \in Leg : Plan[i] \in LegLine
  BY <1>1 DEF Leg
<1>3. \A i \in Leg : Use(i) => Plan[i].needs \in Leg
  BY <1>1, NeedsAssumption DEF Leg
<1> QED BY <1>1, <1>2, <1>3, PlanAssumption, NeedsAssumption DEF LegLine, Use

\* What an eviction or a cleanup leaves of the stage.
LEMMA Kept ==
  ASSUME NEW X, NEW f \in [X -> There], NEW S
  PROVE  /\ Keep(f, S) \in [X -> There]
         /\ \A x \in X : Keep(f, S)[x] = IF x \in S THEN f[x] ELSE "absent"
BY DEF Keep, There

\* evict(i - 1) keeps what leg i uses, also when only its own cache may stay.
LEMMA OwnKept ==
  ASSUME TypeOK, NEW i \in Leg
  PROVE  /\ EvictedGraphs(i - 1) \in [Graphs -> There]
         /\ EvictedGraphs(i - 1)[Plan[i].graph] = graph[Plan[i].graph]
         /\ \A also : /\ EvictedCaches(i - 1, also) \in [Caches -> There]
                      /\ \A k \in Caches : EvictedCaches(i - 1, also)[k] \in {cache[k], "absent"}
                      /\ Use(i) /\ Plan[i].cache \in also =>
                           EvictedCaches(i - 1, also)[Plan[i].cache] = cache[Plan[i].cache]
<1>1. i \in LaterNeeds(i - 1)
  BY PlanLines DEF LaterNeeds, Leg
<1>2. graph \in [Graphs -> There] /\ cache \in [Caches -> There]
  BY DEF TypeOK
<1>3. Plan[i].graph \in Graphs /\ (Use(i) => Plan[i].cache \in Caches)
  BY PlanLines
<1>4. /\ EvictedGraphs(i - 1) \in [Graphs -> There]
      /\ EvictedGraphs(i - 1)[Plan[i].graph] = graph[Plan[i].graph]
  BY <1>1, <1>2, <1>3, Kept DEF EvictedGraphs
<1>5. ASSUME NEW also
      PROVE /\ EvictedCaches(i - 1, also) \in [Caches -> There]
            /\ \A k \in Caches : EvictedCaches(i - 1, also)[k] \in {cache[k], "absent"}
            /\ Use(i) /\ Plan[i].cache \in also =>
                 EvictedCaches(i - 1, also)[Plan[i].cache] = cache[Plan[i].cache]
  BY <1>1, <1>2, <1>3, Kept DEF EvictedCaches
<1> QED BY <1>4, <1>5

\* Before the first run the round dir and the stage are empty.
LEMMA LegsInit == Init => IInv
<1> USE DEF Init
<1>1. ASSUME Init PROVE TypeOK
  <2>1. run \in 0..Runs /\ at \in 1..(Len(Plan) + 1)
    BY <1>1, PlanLines, PlanAssumption
  <2>2. graph \in [Graphs -> There] /\ cache \in [Caches -> There]
    BY <1>1 DEF There
  <2> QED BY <1>1, <2>1, <2>2 DEF TypeOK
<1>2. Init => InPlan /\ AloneOnPhone /\ StillFit
  BY DEF InPlan, AloneOnPhone, Alone, StillFit, Staging, OfLeg
<1>3. Init => DoneSaid /\ WrittenWhole BY PlanLines DEF DoneSaid, WrittenWhole
<1>4. Init => GraphStays /\ CacheStays /\ Begun BY DEF GraphStays, CacheStays, Begun
<1> QED BY <1>1, <1>2, <1>3, <1>4 DEF IInv

\* Every step keeps the types, and a leg under way is one of the plan.
LEMMA TypesStep ==
  ASSUME TypeOK, InPlan, [Next]_vars
  PROVE  TypeOK' /\ InPlan'
<1> USE DEF files, monitor, stage, phone, TypeOK, InPlan, Staging, OfLeg, Looked, Ended
<1>1. ASSUME Start PROVE TypeOK' /\ InPlan'
  BY <1>1, PlanLines, PlanAssumption DEF Start
<1>2. ASSUME CleanupByHand PROVE TypeOK' /\ InPlan'
  BY <1>2, Kept DEF CleanupByHand, RemoveStage
<1>3. ASSUME Die PROVE TypeOK' /\ InPlan'
  BY <1>3 DEF Die, Goto
<1>4. ASSUME Check PROVE TypeOK' /\ InPlan'
  BY <1>4 DEF Check, Goto
<1>5. ASSUME List PROVE TypeOK' /\ InPlan'
  <2>1. hidden' \in BOOLEAN
    BY <1>5 DEF List
  <2>2. CASE present /\ runners # {}
    BY <1>5, <2>2 DEF List, Goto
  <2>3. CASE ~(present /\ runners # {})
    <3>1. pc' = "setup" /\ UNCHANGED <<client, monitor, files, phone, fate, run, at, clock>>
      BY <1>5, <2>3 DEF List, Goto
    <3> QED BY <1>5, <2>1, <3>1 DEF List
  <2> QED BY <2>2, <2>3
<1>6. ASSUME Setup PROVE TypeOK' /\ InPlan'
  BY <1>6 DEF Setup, Goto
<1>7. ASSUME PlanEnds PROVE TypeOK' /\ InPlan'
  BY <1>7, Kept DEF PlanEnds, Goto, RemoveStage
<1>8. ASSUME Exit PROVE TypeOK' /\ InPlan'
  <2>1. graph' \in [Graphs -> There] /\ cache' \in [Caches -> There]
    BY <1>8, Kept DEF Exit, RemoveStage
  <2>2. runners' \subseteq runners /\ hidden' \in BOOLEAN /\ client' = 0
    BY <1>8 DEF Exit, RemoveStage
  <2> QED BY <1>8, <2>1, <2>2 DEF Exit, Goto
<1>9. ASSUME PassOver PROVE TypeOK' /\ InPlan'
  BY <1>9, PlanLines DEF PassOver, NextLeg, Leg
<1>10. ASSUME StageGraph PROVE TypeOK' /\ InPlan'
  <2>1. at \in Leg
    BY <1>10, PlanLines DEF StageGraph, Leg
  <2>2. graph' \in [Graphs -> There]
    <3>1. PICK g \in {graph, EvictedGraphs(at - 1)} :
            graph' = g \/ graph' = [g EXCEPT ![Plan[at].graph] = "partial"]
      BY <1>10 DEF StageGraph
    <3> QED BY <2>1, <3>1, OwnKept DEF There
  <2>3. cache' \in [Caches -> There]
    <3>1. cache' = cache \/ \E also : cache' = EvictedCaches(at - 1, also)
      BY <1>10 DEF StageGraph
    <3>2. cache \in [Caches -> There]
      OBVIOUS
    <3>3. \A also : EvictedCaches(at - 1, also) \in [Caches -> There]
      BY <2>1, OwnKept
    <3> QED BY ONLY <3>1, <3>2, <3>3
  <2>4. /\ pc' \in {"unstaged", "staged", "push"}
        /\ UNCHANGED <<run, at, clock, client, mon, killed, out, status, runners, present,
                      rebooted, fate, hidden>>
    BY <1>10 DEF StageGraph, Goto
  <2> QED BY <2>1, <2>2, <2>3, <2>4
<1>11. ASSUME StageNowhere PROVE TypeOK' /\ InPlan'
  BY <1>11, PlanLines DEF StageNowhere, Goto, Leg
<1>12. ASSUME Pushed PROVE TypeOK' /\ InPlan'
  BY <1>12, PlanLines DEF Pushed, Goto, SetGraph, There
<1>13. ASSUME PushFails PROVE TypeOK' /\ InPlan'
  <2>1. at \in Leg /\ Plan[at].graph \in Graphs
    BY <1>13, PlanLines DEF PushFails
  <2>2. graph' \in [Graphs -> There]
    BY <1>13, <2>1 DEF PushFails, SetGraph, There
  <2> QED BY <1>13, <2>1, <2>2 DEF PushFails, Goto
<1>14. ASSUME NotStaged PROVE TypeOK' /\ InPlan'
  BY <1>14, PlanLines DEF NotStaged, Goto, NextLeg, Leg
<1>15. ASSUME Staged PROVE TypeOK' /\ InPlan'
  BY <1>15, PlanLines DEF Staged, Goto, There
<1>16. ASSUME GateLost PROVE TypeOK' /\ InPlan'
  BY <1>16 DEF GateLost, Goto
<1>17. ASSUME GateSkips PROVE TypeOK' /\ InPlan'
  BY <1>17, PlanLines DEF GateSkips, NextLeg, Leg
<1>18. ASSUME StartRunner PROVE TypeOK' /\ InPlan'
  <2>1. at \in Leg /\ (Plan[at].cold => Plan[at].cache \in Caches)
    BY <1>18, PlanLines DEF StartRunner
  <2>2. cache' \in [Caches -> There]
    BY <1>18, <2>1 DEF StartRunner, There
  <2>3. runners' \subseteq [leg : Leg, compiled : BOOLEAN] /\ client' \in {0} \cup Leg
    <3>1. CASE ~present BY <1>18, <3>1 DEF StartRunner
    <3>2. CASE present
      <4>1. runners' = runners \cup {[leg |-> at, compiled |-> FALSE]} /\ client' = at
        BY <1>18, <3>2 DEF StartRunner
      <4>2. [leg |-> at, compiled |-> FALSE] \in [leg : Leg, compiled : BOOLEAN]
        BY <2>1, Zenon
      <4>3. runners' \subseteq [leg : Leg, compiled : BOOLEAN] BY <4>1, <4>2
      <4>4. client' \in {0} \cup Leg BY <2>1, <4>1
      <4> QED BY <4>3, <4>4
    <3> QED BY <3>1, <3>2
  <2>4. out' \in [Leg -> {"none", "started", "compiled", "done"}]
    BY <1>18, <2>1 DEF StartRunner
  <2> QED BY <1>18, <2>1, <2>2, <2>3, <2>4 DEF StartRunner, Goto
<1>19. ASSUME AfterRun PROVE TypeOK' /\ InPlan'
  BY <1>19 DEF AfterRun, Goto
<1>20. ASSUME FindLeft PROVE TypeOK' /\ InPlan'
  <2>1. hidden' \in BOOLEAN
    BY <1>20 DEF FindLeft
  <2>2. CASE present /\ runners # {}
    BY <1>20, <2>2 DEF FindLeft, Goto
  <2>3. CASE ~(present /\ runners # {})
    <3>1. pc' = "uptime" /\ UNCHANGED <<client, monitor, files, phone, fate, run, at, clock>>
      BY <1>20, <2>3 DEF FindLeft, Goto
    <3> QED BY <1>20, <2>1, <3>1 DEF FindLeft
  <2> QED BY <2>2, <2>3
<1>21. ASSUME KillLeft PROVE TypeOK' /\ InPlan'
  BY <1>21 DEF KillLeft, Goto
<1>22. ASSUME CheckUptime PROVE TypeOK' /\ InPlan'
  <2>1. PICK to \in {"exit", "collect"} : Goto(to)
    BY <1>22 DEF CheckUptime
  <2>2. /\ pc = "uptime" /\ pc' = to /\ rebooted' = FALSE
        /\ UNCHANGED <<run, at, clock, client, mon, killed, out, status, graph, cache>>
        /\ UNCHANGED <<runners, present, fate, hidden>>
    BY <1>22, <2>1 DEF CheckUptime, Goto
  <2>3. at \in Leg
    BY <2>2
  <2>4. /\ run' \in 0..Runs /\ at' \in 1..(Len(Plan) + 1) /\ pc' \in {"exit", "collect"}
        /\ clock' \in {"open", "late", "over"} /\ client' \in {0} \cup Leg
        /\ mon' \in {"off", "watch", "kill", "lost"}
        /\ killed' \in {"none", "limit"}
    BY <2>1, <2>2
  <2> QED BY <2>2, <2>3, <2>4
<1>23. ASSUME Collect PROVE TypeOK' /\ InPlan'
  <2>1. at \in Leg /\ UNCHANGED <<run, clock, client, mon, out, runners, present, rebooted, hidden>>
    BY <1>23 DEF Collect, Goto, NextLeg
  <2>2. graph' \in [Graphs -> There] /\ cache' \in [Caches -> There]
    BY <1>23, Kept DEF Collect, EvictedGraphs, EvictedCaches
  <2>3. status' \in [Leg -> {"NONE", "DONE", "RUNNER_FAILED", "STOPPED", "LMKD_KILLED"}]
    BY <1>23 DEF Collect, StatusOf
  <2>4. at' \in 1..(Len(Plan) + 1) /\ pc' \in {"exit", "leg"} /\ killed' = "none" /\ fate' = "none"
    BY <1>23, <2>1, PlanLines DEF Collect, Goto, NextLeg, Leg
  <2> QED BY <2>1, <2>2, <2>3, <2>4
<1>24. ASSUME Guard PROVE TypeOK' /\ InPlan'
  BY <1>24 DEF Guard, Decide
<1>25. ASSUME CompileTimeout PROVE TypeOK' /\ InPlan'
  BY <1>25 DEF CompileTimeout, Decide
<1>26. ASSUME RunEnd PROVE TypeOK' /\ InPlan'
  BY <1>26 DEF RunEnd, Decide
<1>27. ASSUME Kill PROVE TypeOK' /\ InPlan'
  BY <1>27 DEF Kill
<1>28. ASSUME MonLost PROVE TypeOK' /\ InPlan'
  BY <1>28 DEF MonLost
<1>29. ASSUME MonEnd PROVE TypeOK' /\ InPlan'
  BY <1>29 DEF MonEnd
<1>30. ASSUME CompileEnds PROVE TypeOK' /\ InPlan'
  <2>1. PICK r \in runners :
          /\ runners' = (runners \ {r}) \cup {[r EXCEPT !.compiled = TRUE]}
          /\ cache' = IF Plan[r.leg].cold THEN [cache EXCEPT ![Plan[r.leg].cache] = "whole"]
                      ELSE cache
          /\ Heard(r, "compiled")
    BY <1>30 DEF CompileEnds
  <2>2. r.leg \in Leg /\ (Plan[r.leg].cold => Plan[r.leg].cache \in Caches)
    BY PlanLines
  <2>3. cache' \in [Caches -> There]
    BY <2>1, <2>2 DEF There
  <2>4. runners' \subseteq [leg : Leg, compiled : BOOLEAN]
    BY <2>1
  <2>5. out' \in [Leg -> {"none", "started", "compiled", "done"}]
    BY <2>1, <2>2 DEF Heard
  <2> QED BY <1>30, <2>3, <2>4, <2>5 DEF CompileEnds
<1>31. ASSUME RunnerEnds PROVE TypeOK' /\ InPlan'
  BY <1>31 DEF RunnerEnds, Heard
<1>32. ASSUME Leave PROVE TypeOK' /\ InPlan'
  <2>1. rebooted' \in BOOLEAN /\ runners' \subseteq [leg : Leg, compiled : BOOLEAN]
    <3>1. CASE UNCHANGED <<runners, rebooted>> BY <3>1
    <3>2. CASE runners' = {} /\ rebooted' = (rebooted \/ pc \in OfLeg) BY <3>2
    <3> QED BY <1>32, <3>1, <3>2 DEF Leave
  <2>2. /\ present' = FALSE /\ client' = 0
        /\ UNCHANGED <<run, pc, at, clock, mon, killed, out, status, graph, cache, fate,
                      hidden>>
    BY <1>32 DEF Leave
  <2>3. present' \in BOOLEAN /\ client' \in {0} \cup Leg BY <2>2
  <2>4. TypeOK' BY <2>1, <2>2, <2>3
  <2>5. InPlan' BY <2>2
  <2> QED BY <2>4, <2>5
<1>33. ASSUME Return PROVE TypeOK' /\ InPlan'
  BY <1>33 DEF Return
<1>34. ASSUME Tick PROVE TypeOK' /\ InPlan'
  BY <1>34 DEF Tick
<1>35. ASSUME UNCHANGED vars PROVE TypeOK' /\ InPlan'
  BY <1>35 DEF vars
<1> QED
  BY <1>1, <1>2, <1>3, <1>4, <1>5, <1>6, <1>7, <1>8, <1>9, <1>10, <1>11, <1>12, <1>13, <1>14, <1>15,
     <1>16, <1>17, <1>18, <1>19, <1>20, <1>21, <1>22, <1>23, <1>24, <1>25, <1>26, <1>27, <1>28,
     <1>29, <1>30, <1>31, <1>32, <1>33, <1>34, <1>35
     DEF Next, ChainStep

\* A look that finds the phone there ends what was passed over: it leaves no
\* runner, and is made where no leg is staged.
LEMMA LooksClean ==
  ASSUME [Next]_vars, ~hidden'
  PROVE  ~hidden \/ (runners' = {} /\ pc' \notin Staging)
<1> USE DEF files, monitor, stage, phone, Looked, Goto, Staging
<1>1. CASE List \/ FindLeft \/ KillLeft
  BY <1>1 DEF List, FindLeft, KillLeft
<1>2. CASE PlanEnds \/ Exit \/ CleanupByHand
  BY <1>2 DEF PlanEnds, Exit, CleanupByHand, RemoveStage
<1>3. CASE \/ Start \/ Die \/ Check \/ Setup \/ PassOver \/ StageGraph \/ StageNowhere \/ Pushed
           \/ PushFails \/ NotStaged \/ Staged \/ GateLost \/ GateSkips \/ StartRunner
           \/ AfterRun \/ CheckUptime \/ Collect
  BY <1>3
  DEF Start, Die, Check, Setup, PassOver, StageGraph, StageNowhere, Pushed, PushFails, NotStaged,
      Staged, GateLost, GateSkips, StartRunner, AfterRun, CheckUptime, Collect, NextLeg
<1>4. CASE \/ Guard \/ CompileTimeout \/ RunEnd \/ Kill \/ MonLost \/ MonEnd \/ CompileEnds
           \/ RunnerEnds \/ Leave \/ Return \/ Tick \/ UNCHANGED vars
  BY <1>4
  DEF Guard, CompileTimeout, RunEnd, Decide, Kill, MonLost, MonEnd, CompileEnds, RunnerEnds,
      Leave, Return, Tick, vars
<1> QED BY <1>1, <1>2, <1>3, <1>4 DEF Next, ChainStep

\* Every step leaves at most the runner of the leg under way on the phone,
\* unless one is passed over.
LEMMA AloneStep ==
  ASSUME TypeOK, AloneOnPhone, [Next]_vars
  PROVE  AloneOnPhone'
<1> USE DEF files, monitor, stage, phone, Alone, OfLeg
<1> SUFFICES ASSUME ~hidden', runners' # {}, Alone PROVE Alone'
  BY LooksClean DEF AloneOnPhone
<1>1. ASSUME Start PROVE Alone'
  BY <1>1 DEF Start
<1>2. ASSUME CleanupByHand PROVE Alone'
  BY <1>2 DEF CleanupByHand, RemoveStage, Looked
<1>3. ASSUME Die PROVE Alone'
  BY <1>3 DEF Die, Goto
<1>4. ASSUME Check PROVE Alone'
  BY <1>4 DEF Check, Goto
<1>5. ASSUME List PROVE Alone'
  BY <1>5 DEF List, Goto, Looked
<1>6. ASSUME Setup PROVE Alone'
  BY <1>6 DEF Setup, Goto
<1>7. ASSUME PlanEnds PROVE Alone'
  BY <1>7 DEF PlanEnds, Goto, RemoveStage, Looked
<1>8. ASSUME Exit PROVE Alone'
  BY <1>8 DEF Exit, Goto, RemoveStage, Looked
<1>9. ASSUME PassOver PROVE Alone'
  BY <1>9 DEF PassOver, NextLeg
<1>10. ASSUME StageGraph PROVE Alone'
  BY <1>10 DEF StageGraph, Goto
<1>11. ASSUME StageNowhere PROVE Alone'
  BY <1>11 DEF StageNowhere, Goto
<1>12. ASSUME Pushed PROVE Alone'
  BY <1>12 DEF Pushed, Goto, SetGraph
<1>13. ASSUME PushFails PROVE Alone'
  BY <1>13 DEF PushFails, Goto, SetGraph
<1>14. ASSUME NotStaged PROVE Alone'
  BY <1>14 DEF NotStaged, Goto, NextLeg
<1>15. ASSUME Staged PROVE Alone'
  BY <1>15 DEF Staged, Goto
<1>16. ASSUME GateLost PROVE Alone'
  BY <1>16 DEF GateLost, Goto
<1>17. ASSUME GateSkips PROVE Alone'
  BY <1>17 DEF GateSkips, NextLeg
<1>18. ASSUME StartRunner PROVE Alone'
  BY <1>18 DEF StartRunner, Goto
<1>19. ASSUME AfterRun PROVE Alone'
  BY <1>19 DEF AfterRun, Goto
<1>20. ASSUME FindLeft PROVE Alone'
  BY <1>20 DEF FindLeft, Goto, Looked
<1>21. ASSUME KillLeft PROVE Alone'
  BY <1>21 DEF KillLeft, Goto, Looked
<1>22. ASSUME CheckUptime PROVE Alone'
  BY <1>22 DEF CheckUptime, Goto, Looked
<1>23. ASSUME Collect PROVE Alone'
  BY <1>23 DEF Collect, Goto, NextLeg, StatusOf
<1>24. ASSUME Guard PROVE Alone'
  BY <1>24 DEF Guard, Decide
<1>25. ASSUME CompileTimeout PROVE Alone'
  BY <1>25 DEF CompileTimeout, Decide
<1>26. ASSUME RunEnd PROVE Alone'
  BY <1>26 DEF RunEnd, Decide
<1>27. ASSUME Kill PROVE Alone'
  BY <1>27 DEF Kill
<1>28. ASSUME MonLost PROVE Alone'
  BY <1>28 DEF MonLost
<1>29. ASSUME MonEnd PROVE Alone'
  BY <1>29 DEF MonEnd
<1>30. ASSUME CompileEnds PROVE Alone'
  <2>1. PICK r \in runners : runners' = (runners \ {r}) \cup {[r EXCEPT !.compiled = TRUE]}
    BY <1>30 DEF CompileEnds
  <2>2. r \in [leg : Leg, compiled : BOOLEAN] BY DEF TypeOK
  <2> QED BY <1>30, <2>1, <2>2 DEF CompileEnds
<1>31. ASSUME RunnerEnds PROVE Alone'
  BY <1>31 DEF RunnerEnds, Heard
<1>32. ASSUME Leave PROVE Alone'
  BY <1>32 DEF Leave
<1>33. ASSUME Return PROVE Alone'
  BY <1>33 DEF Return
<1>34. ASSUME Tick PROVE Alone'
  BY <1>34 DEF Tick
<1>35. ASSUME UNCHANGED vars PROVE Alone'
  BY <1>35 DEF vars
<1> QED
  BY <1>1, <1>2, <1>3, <1>4, <1>5, <1>6, <1>7, <1>8, <1>9, <1>10, <1>11, <1>12, <1>13, <1>14, <1>15,
     <1>16, <1>17, <1>18, <1>19, <1>20, <1>21, <1>22, <1>23, <1>24, <1>25, <1>26, <1>27, <1>28,
     <1>29, <1>30, <1>31, <1>32, <1>33, <1>34, <1>35
     DEF Next, ChainStep

\* Every step keeps what the leg under way was staged for.
LEMMA FitStep ==
  ASSUME TypeOK, InPlan, StillFit, Begun, [Next]_vars
  PROVE  StillFit'
<1> USE DEF files, monitor, stage, phone, StillFit, Staging, OfLeg
<1>1. ASSUME Start PROVE StillFit'
  BY <1>1 DEF Start, Use
<1>2. ASSUME CleanupByHand PROVE StillFit'
  BY <1>2 DEF CleanupByHand, RemoveStage, Use
<1>3. ASSUME Die PROVE StillFit'
  BY <1>3 DEF Die, Goto, Use
<1>4. ASSUME Check PROVE StillFit'
  BY <1>4 DEF Check, Goto, Use
<1>5. ASSUME List PROVE StillFit'
  BY <1>5 DEF List, Goto, Use
<1>6. ASSUME Setup PROVE StillFit'
  BY <1>6 DEF Setup, Goto, Use
<1>7. ASSUME PlanEnds PROVE StillFit'
  BY <1>7 DEF PlanEnds, Goto, RemoveStage, Use
<1>8. ASSUME Exit PROVE StillFit'
  BY <1>8 DEF Exit, Goto, RemoveStage, Use
<1>9. ASSUME PassOver PROVE StillFit'
  BY <1>9 DEF PassOver, NextLeg, Use
<1>10. ASSUME StageGraph PROVE StillFit'
  <2>1. at \in Leg /\ UNCHANGED <<at, out, status>> /\ ~Barred(at)
    BY <1>10, PlanLines DEF StageGraph, Leg, Goto, TypeOK
  <2>2. \/ cache' = cache
        \/ \E also : Plan[at].cache \in also \cup {NoCache} /\ cache' = EvictedCaches(at - 1, also)
    <3>1. \/ cache' = cache
          \/ cache' = EvictedCaches(at - 1, Caches)
          \/ cache' = EvictedCaches(at - 1, {Plan[at].cache})
      BY <1>10 DEF StageGraph
    <3> QED BY <2>1, <3>1, PlanLines
  <2>3. Use(at) => /\ status[Plan[at].needs] = "DONE"
                   /\ cache'[Plan[at].cache] # "absent"
    <3> SUFFICES ASSUME Use(at) PROVE status[Plan[at].needs] = "DONE" /\ cache'[Plan[at].cache] # "absent"
      OBVIOUS
    <3>1. status[Plan[at].needs] = "DONE" /\ cache[Plan[at].cache] # "absent"
      BY <2>1, PlanLines DEF Barred, Leg
    <3>2. cache'[Plan[at].cache] = cache[Plan[at].cache]
      BY <2>1, <2>2, OwnKept DEF Use
    <3> QED BY <3>1, <3>2
  <2>4. out[at] = "none" BY <2>1 DEF Barred
  <2>5. pc' \in {"staged", "gate"} => graph'[Plan[at].graph] # "absent"
    BY <1>10 DEF StageGraph, Goto
  <2> QED BY <2>1, <2>3, <2>4, <2>5
<1>11. ASSUME StageNowhere PROVE StillFit'
  <2>1. at \in Leg /\ ~Barred(at)
    BY <1>11, PlanLines DEF StageNowhere, Leg, TypeOK
  <2>2. out[at] = "none" /\ ~Use(at)
    BY <1>11, <2>1 DEF Barred, StageNowhere
  <2> QED BY <1>11, <2>2 DEF StageNowhere, Goto, Use
<1>12. ASSUME Pushed PROVE StillFit'
  <2>1. Plan[at].graph \in Graphs /\ graph \in [Graphs -> There]
    BY <1>12, PlanLines DEF Pushed, InPlan, TypeOK
  <2>2. graph'[Plan[at].graph] = "whole"
    BY <1>12, <2>1 DEF Pushed, SetGraph
  <2> QED BY <1>12, <2>2 DEF Pushed, Goto, Use
<1>13. ASSUME PushFails PROVE StillFit'
  BY <1>13 DEF PushFails, Goto, SetGraph, Use
<1>14. ASSUME NotStaged PROVE StillFit'
  BY <1>14 DEF NotStaged, Goto, NextLeg, Use
<1>15. ASSUME Staged PROVE StillFit'
  <2>1. Use(at) => UNCHANGED cache
    BY <1>15 DEF Staged, Use
  <2> QED BY <1>15, <2>1 DEF Staged, Goto, Use
<1>16. ASSUME GateLost PROVE StillFit'
  BY <1>16 DEF GateLost, Goto, Use
<1>17. ASSUME GateSkips PROVE StillFit'
  BY <1>17 DEF GateSkips, NextLeg, Use
<1>18. ASSUME StartRunner PROVE StillFit'
  BY <1>18 DEF StartRunner, Goto, Use
<1>19. ASSUME AfterRun PROVE StillFit'
  BY <1>19 DEF AfterRun, Goto, Use
<1>20. ASSUME FindLeft PROVE StillFit'
  BY <1>20 DEF FindLeft, Goto, Use
<1>21. ASSUME KillLeft PROVE StillFit'
  BY <1>21 DEF KillLeft, Goto, Use
<1>22. ASSUME CheckUptime PROVE StillFit'
  BY <1>22 DEF CheckUptime, Goto, Use
<1>23. ASSUME Collect PROVE StillFit'
  BY <1>23 DEF Collect, Goto, NextLeg, StatusOf, Use
<1>24. ASSUME Guard PROVE StillFit'
  BY <1>24 DEF Guard, Decide, Use
<1>25. ASSUME CompileTimeout PROVE StillFit'
  BY <1>25 DEF CompileTimeout, Decide, Use
<1>26. ASSUME RunEnd PROVE StillFit'
  BY <1>26 DEF RunEnd, Decide, Use
<1>27. ASSUME Kill PROVE StillFit'
  BY <1>27 DEF Kill, Use
<1>28. ASSUME MonLost PROVE StillFit'
  BY <1>28 DEF MonLost, Use
<1>29. ASSUME MonEnd PROVE StillFit'
  BY <1>29 DEF MonEnd, Use
<1>30. ASSUME CompileEnds PROVE StillFit'
  <2>1. PICK r \in runners :
          /\ cache' = IF Plan[r.leg].cold THEN [cache EXCEPT ![Plan[r.leg].cache] = "whole"]
                      ELSE cache
          /\ Heard(r, "compiled")
    BY <1>30 DEF CompileEnds
  <2> SUFFICES ASSUME pc \in Staging PROVE StillFit'
    BY <1>30 DEF CompileEnds
  <2>2. r \in [leg : Leg, compiled : BOOLEAN] /\ at \in Leg
    BY DEF TypeOK, InPlan
  <2>5. out[r.leg] # "none" /\ out[at] = "none"
    BY DEF Begun, Use
  <2>3. out'[at] = out[at]
    BY <2>1, <2>2, <2>5 DEF Heard, TypeOK
  <2>4. Use(at) => cache'[Plan[at].cache] # "absent"
    BY <2>1, <2>2, PlanLines DEF TypeOK
  <2> QED BY <1>30, <2>3, <2>4 DEF CompileEnds, Use
<1>31. ASSUME RunnerEnds PROVE StillFit'
  <2>1. PICK r \in runners, how \in {"own", "crash", "lmkd"} :
          IF how = "own" THEN Heard(r, "done") ELSE UNCHANGED out
    BY <1>31 DEF RunnerEnds
  <2> SUFFICES ASSUME pc \in Staging PROVE StillFit'
    BY <1>31 DEF RunnerEnds
  <2>2. r \in [leg : Leg, compiled : BOOLEAN] /\ at \in Leg
    BY DEF TypeOK, InPlan
  <2>5. out[r.leg] # "none" /\ out[at] = "none"
    BY DEF Begun, Use
  <2>3. out'[at] = out[at]
    BY <2>1, <2>2, <2>5 DEF Heard, TypeOK
  <2> QED BY <1>31, <2>3 DEF RunnerEnds, Use
<1>32. ASSUME Leave PROVE StillFit'
  BY <1>32 DEF Leave, Use
<1>33. ASSUME Return PROVE StillFit'
  BY <1>33 DEF Return, Use
<1>34. ASSUME Tick PROVE StillFit'
  BY <1>34 DEF Tick, Use
<1>35. ASSUME UNCHANGED vars PROVE StillFit'
  BY <1>35 DEF vars
<1> QED
  BY <1>1, <1>2, <1>3, <1>4, <1>5, <1>6, <1>7, <1>8, <1>9, <1>10, <1>11, <1>12, <1>13, <1>14, <1>15,
     <1>16, <1>17, <1>18, <1>19, <1>20, <1>21, <1>22, <1>23, <1>24, <1>25, <1>26, <1>27, <1>28,
     <1>29, <1>30, <1>31, <1>32, <1>33, <1>34, <1>35
     DEF Next, ChainStep
\* A leg's outcome is written by its start, its runner and Collect; nothing else
\* adds a runner, or to a cache.
LEMMA OnlyRemoves ==
  ASSUME TypeOK, [Next]_vars, ~StartRunner, ~CompileEnds, ~RunnerEnds, ~Collect
  PROVE  /\ runners' \subseteq runners /\ UNCHANGED <<out, status>>
         /\ \A k \in Caches : cache'[k] \in {cache[k], "absent"}
<1> USE DEF files, monitor, stage, phone
<1>1. CASE StageGraph
  <2>1. at \in Leg /\ UNCHANGED <<runners, out, status>>
    BY <1>1, PlanLines DEF StageGraph, Goto, Leg, TypeOK
  <2>2. cache' = cache \/ \E also : cache' = EvictedCaches(at - 1, also)
    BY <1>1 DEF StageGraph
  <2> QED BY <2>1, <2>2, OwnKept
<1>2. CASE Staged
  <2>1. /\ UNCHANGED <<runners, out, status>>
        /\ \/ cache' = cache
           \/ cache' = [cache EXCEPT ![Plan[at].cache] = "absent"]
    BY <1>2 DEF Staged
  <2> QED BY <2>1 DEF TypeOK
<1>3. CASE CleanupByHand \/ PlanEnds \/ Exit
  <2>1. /\ runners' \subseteq runners /\ UNCHANGED <<out, status>>
        /\ cache' = cache \/ cache' = Keep(cache, {})
    BY <1>3 DEF CleanupByHand, PlanEnds, Exit, RemoveStage
  <2> QED BY <2>1, Kept DEF TypeOK
<1>4. CASE \/ Start \/ Die \/ Check \/ List \/ Setup \/ PassOver \/ StageNowhere \/ Pushed
           \/ PushFails \/ NotStaged \/ GateLost \/ GateSkips \/ AfterRun \/ FindLeft
           \/ KillLeft \/ CheckUptime
  BY <1>4
  DEF Start, Die, Check, List, Setup, PassOver, StageNowhere, Pushed, PushFails, NotStaged,
      GateLost, GateSkips, AfterRun, FindLeft, KillLeft, CheckUptime
<1>5. CASE \/ Guard \/ CompileTimeout \/ RunEnd \/ Kill \/ MonLost \/ MonEnd \/ Leave \/ Return
           \/ Tick \/ UNCHANGED vars
  BY <1>5
  DEF Guard, CompileTimeout, RunEnd, Decide, Kill, MonLost, MonEnd, Leave, Return, Tick, vars
<1> QED BY <1>1, <1>2, <1>3, <1>4, <1>5 DEF Next, ChainStep

\* Every step keeps what the files say of the caches.
LEMMA FilesStep ==
  ASSUME TypeOK, InPlan, StillFit, DoneSaid, Begun, WrittenWhole, [Next]_vars
  PROVE  DoneSaid' /\ Begun' /\ WrittenWhole'
<1> USE DEF files, monitor, stage, phone, DoneSaid, Begun, WrittenWhole
<1>1. CASE StartRunner
  <2>1. at \in Leg /\ out[at] = "none" /\ (Use(at) => status[Plan[at].needs] = "DONE")
    BY <1>1 DEF StartRunner, InPlan, StillFit, Staging
  <2>2. out' = [out EXCEPT ![at] = "started"] /\ UNCHANGED status
    BY <1>1 DEF StartRunner
  <2>3. /\ \A r \in runners' : r \in runners \/ r = [leg |-> at, compiled |-> FALSE]
        /\ \/ cache' = cache
           \/ Plan[at].cold /\ cache' = [cache EXCEPT ![Plan[at].cache] = "partial"]
    BY <1>1 DEF StartRunner
  <2>4. DoneSaid'
    BY <2>1, <2>2 DEF TypeOK
  <2>5. Begun'
    <3>1. ASSUME NEW i \in Leg, out[i] \in {"compiled", "done"} PROVE out'[i] = out[i]
      BY <2>1, <2>2, <3>1 DEF TypeOK
    <3>2. \A r \in runners : r.leg \in Leg /\ r.leg # at
      BY <2>1 DEF TypeOK
    <3>3. Use(at) => out[Plan[at].needs] \in {"compiled", "done"}
      BY <2>1, PlanLines
    <3>4. ASSUME NEW r \in runners' PROVE r.leg \in Leg /\ out'[r.leg] # "none"
      BY <2>1, <2>2, <2>3, <3>2 DEF TypeOK
    <3>5. ASSUME NEW r \in runners', Use(r.leg)
          PROVE  out'[Plan[r.leg].needs] \in {"compiled", "done"}
      <4>1. r.leg \in Leg /\ Plan[r.leg].needs \in Leg
        BY <3>4, <3>5, PlanLines
      <4>2. out[Plan[r.leg].needs] \in {"compiled", "done"}
        BY <2>3, <3>3, <3>5
      <4> QED BY <3>1, <4>1, <4>2
    <3> QED BY <3>4, <3>5
  <2>6. WrittenWhole'
    <3> SUFFICES ASSUME NEW i \in Leg, Use(i),
                        \/ out'[Plan[i].needs] \in {"compiled", "done"}
                        \/ \E r \in runners' : r.leg = Plan[i].needs /\ r.compiled
                 PROVE  cache'[Plan[i].cache] # "partial"
      OBVIOUS
    <3>1. Plan[i].needs \in Leg /\ Plan[i].cache \in Caches
      BY PlanLines
    <3>2. \/ out[Plan[i].needs] \in {"compiled", "done"}
          \/ \E r \in runners : r.leg = Plan[i].needs /\ r.compiled
      BY <2>1, <2>2, <2>3, <3>1 DEF TypeOK
    <3>3. Plan[i].needs # at
      BY <2>1, <3>2
    <3>4. ~(Plan[at].cold /\ Plan[at].cache = Plan[i].cache)
      BY <2>1, <3>3, PlanLines
    <3>5. cache'[Plan[i].cache] = cache[Plan[i].cache]
      BY <2>1, <2>3, <3>1, <3>4, PlanLines DEF TypeOK
    <3> QED BY <3>2, <3>5
  <2> QED BY <2>4, <2>5, <2>6
<1>2. CASE CompileEnds
  <2>1. PICK r \in runners :
          /\ runners' = (runners \ {r}) \cup {[r EXCEPT !.compiled = TRUE]}
          /\ cache' = IF Plan[r.leg].cold THEN [cache EXCEPT ![Plan[r.leg].cache] = "whole"]
                      ELSE cache
          /\ Heard(r, "compiled")
    BY <1>2 DEF CompileEnds
  <2>2. r \in [leg : Leg, compiled : BOOLEAN] /\ UNCHANGED status
    BY <1>2 DEF TypeOK, CompileEnds
  <2>3. \A i \in Leg : out'[i] = out[i] \/ (i = r.leg /\ out'[i] = "compiled")
    BY <2>1, <2>2 DEF Heard, TypeOK
  <2>4. \A s \in runners' : s \in runners \/ s.leg = r.leg
    BY <2>1, <2>2
  <2>5. DoneSaid'
    BY <2>2, <2>3
  <2>6. Begun'
    <3>1. \A s \in runners' : \E q \in runners : q.leg = s.leg
      BY <2>4
    <3>2. \A q \in runners : q.leg \in Leg /\ (Use(q.leg) => Plan[q.leg].needs \in Leg)
      BY PlanLines DEF TypeOK
    <3>3. \A q \in runners : /\ out'[q.leg] # "none"
                             /\ Use(q.leg) => out'[Plan[q.leg].needs] \in {"compiled", "done"}
      BY <2>3, <3>2
    <3>4. ASSUME NEW s \in runners'
          PROVE  /\ out'[s.leg] # "none"
                 /\ Use(s.leg) => out'[Plan[s.leg].needs] \in {"compiled", "done"}
      <4>1. PICK q \in runners : q.leg = s.leg BY <3>1
      <4> QED BY <4>1, <3>3
    <3> QED BY <3>4
  <2>7. WrittenWhole'
    <3> SUFFICES ASSUME NEW i \in Leg, Use(i),
                        \/ out'[Plan[i].needs] \in {"compiled", "done"}
                        \/ \E s \in runners' : s.leg = Plan[i].needs /\ s.compiled
                 PROVE  cache'[Plan[i].cache] # "partial"
      OBVIOUS
    <3>1. Plan[i].needs \in Leg /\ Plan[i].cache \in Caches
      BY PlanLines
    <3>2. \A k \in Caches : cache'[k] \in {cache[k], "whole"}
      BY <2>1, <2>2, PlanLines DEF TypeOK
    <3>3. CASE Plan[i].needs = r.leg
      <4>1. Plan[r.leg].cold /\ Plan[r.leg].cache = Plan[i].cache
        BY <3>3, <2>2, PlanLines
      <4>2. cache'[Plan[i].cache] = "whole"
        BY <2>1, <3>1, <4>1 DEF TypeOK
      <4> QED BY <4>2
    <3>4. CASE Plan[i].needs # r.leg
      <4>1. \/ out[Plan[i].needs] \in {"compiled", "done"}
            \/ \E s \in runners : s.leg = Plan[i].needs /\ s.compiled
        BY <2>3, <2>4, <3>1, <3>4
      <4> QED BY <3>1, <3>2, <4>1
    <3> QED BY <3>3, <3>4
  <2> QED BY <2>5, <2>6, <2>7
<1>3. CASE RunnerEnds
  <2>1. PICK r \in runners, how \in {"own", "crash", "lmkd"} :
          /\ how = "own" => r.compiled
          /\ runners' = runners \ {r}
          /\ IF how = "own" THEN Heard(r, "done") ELSE UNCHANGED out
    BY <1>3 DEF RunnerEnds
  <2>2. UNCHANGED <<status, cache>> /\ r \in [leg : Leg, compiled : BOOLEAN]
    BY <1>3 DEF RunnerEnds, TypeOK
  <2>3. \A i \in Leg : out'[i] = out[i] \/ (i = r.leg /\ out'[i] = "done" /\ r.compiled)
    BY <2>1, <2>2 DEF Heard, TypeOK
  <2>4. \A q \in runners : q.leg \in Leg /\ (Use(q.leg) => Plan[q.leg].needs \in Leg)
    BY PlanLines DEF TypeOK
  <2>5. Begun'
    BY <2>1, <2>3, <2>4
  <2>6. WrittenWhole'
    BY <2>1, <2>2, <2>3, PlanLines
  <2> QED BY <2>2, <2>3, <2>5, <2>6
<1>4. CASE Collect
  <2>1. at \in Leg /\ UNCHANGED <<runners, out>>
    BY <1>4 DEF Collect, InPlan
  <2>2. \A k \in Caches : cache'[k] \in {cache[k], "absent"}
    <3>1. cache' = cache \/ cache' = EvictedCaches(at, Caches)
      BY <1>4 DEF Collect
    <3> QED BY <3>1, Kept DEF EvictedCaches, TypeOK
  <2>3. DoneSaid'
    <3>1. PICK seen \in BOOLEAN : status' = [status EXCEPT ![at] = StatusOf(at, seen)]
      BY <1>4 DEF Collect
    <3>2. StatusOf(at, seen) = "DONE" => out[at] = "done"
      BY DEF StatusOf
    <3> QED BY <2>1, <3>1, <3>2 DEF TypeOK
  <2> QED BY <2>1, <2>2, <2>3, PlanLines
<1>5. CASE ~StartRunner /\ ~CompileEnds /\ ~RunnerEnds /\ ~Collect
  <2>1. /\ runners' \subseteq runners /\ UNCHANGED <<out, status>>
        /\ \A k \in Caches : cache'[k] \in {cache[k], "absent"}
    BY <1>5, OnlyRemoves
  <2> QED BY <2>1, PlanLines
<1> QED BY <1>1, <1>2, <1>3, <1>4, <1>5

\* A runner of a cached leg has no partial cache under it, passed over or not.
LEMMA NeverPartial ==
  ASSUME IInv
  PROVE  \A r \in runners : Use(r.leg) =>
           /\ Plan[r.leg].cache \in Caches
           /\ cache[Plan[r.leg].cache] \in {"absent", "whole"}
BY PlanLines DEF IInv, TypeOK, Begun, WrittenWhole, There

\* Every step keeps what a runner uses, unless it passes one over.
LEMMA StaysStep ==
  ASSUME IInv, [Next]_vars
  PROVE  GraphStays' /\ CacheStays'
<1> USE DEF files, monitor, stage, phone
<1> SUFFICES ASSUME ~hidden', runners' # {}
             PROVE  \A r \in runners' :
                      /\ graph'[Plan[r.leg].graph] # "absent"
                      /\ Use(r.leg) => cache'[Plan[r.leg].cache] # "absent"
  BY DEF GraphStays, CacheStays, Use
<1>0. /\ Alone /\ TypeOK /\ InPlan /\ StillFit
      /\ \A r \in runners : /\ r \in [leg : Leg, compiled : BOOLEAN]
                            /\ graph[Plan[r.leg].graph] # "absent"
                            /\ Use(r.leg) => cache[Plan[r.leg].cache] # "absent"
  BY LooksClean DEF IInv, AloneOnPhone, GraphStays, CacheStays, TypeOK
<1>1. CASE StageGraph \/ Pushed \/ PushFails \/ Staged \/ Collect
  <2>1. runners = {} /\ runners' = runners
    BY <1>0, <1>1 DEF StageGraph, Pushed, PushFails, Staged, Collect, Alone
  <2> QED BY <2>1
<1>2. CASE CleanupByHand \/ PlanEnds \/ Exit
  BY <1>2 DEF CleanupByHand, PlanEnds, Exit, RemoveStage, Looked
<1>3. CASE StartRunner
  <2>1. /\ runners = {} /\ at \in Leg
        /\ graph[Plan[at].graph] # "absent" /\ (Use(at) => cache[Plan[at].cache] # "absent")
    BY <1>0, <1>3 DEF StartRunner, Alone, InPlan, StillFit, Staging
  <2>2. /\ runners' = {[leg |-> at, compiled |-> FALSE]} /\ graph' = graph
        /\ Use(at) => cache' = cache
    BY <1>3, <2>1 DEF StartRunner, Use
  <2> QED BY <2>1, <2>2
<1>4. CASE CompileEnds
  <2>1. PICK r \in runners :
          /\ runners' = (runners \ {r}) \cup {[r EXCEPT !.compiled = TRUE]}
          /\ cache' = IF Plan[r.leg].cold THEN [cache EXCEPT ![Plan[r.leg].cache] = "whole"]
                      ELSE cache
          /\ graph' = graph
    BY <1>4 DEF CompileEnds
  <2>2. \A s \in runners' : \E q \in runners : q.leg = s.leg
    BY <1>0, <2>1
  <2>3. \A k \in Caches : cache'[k] \in {cache[k], "whole"}
    BY <1>0, <2>1, PlanLines DEF TypeOK
  <2>4. \A q \in runners : Use(q.leg) => Plan[q.leg].cache \in Caches
    BY <1>0, PlanLines
  <2> QED BY <1>0, <2>1, <2>2, <2>3, <2>4
<1>5. CASE \/ Start \/ Die \/ Check \/ List \/ Setup \/ PassOver \/ StageNowhere \/ NotStaged
           \/ GateLost \/ GateSkips \/ AfterRun \/ FindLeft \/ KillLeft \/ CheckUptime
  <2>1. runners' \subseteq runners /\ UNCHANGED <<graph, cache>>
    BY <1>5
    DEF Start, Die, Check, List, Setup, PassOver, StageNowhere, NotStaged, GateLost, GateSkips,
        AfterRun, FindLeft, KillLeft, CheckUptime
  <2> QED BY <1>0, <2>1
<1>6. CASE \/ Guard \/ CompileTimeout \/ RunEnd \/ Kill \/ MonLost \/ MonEnd
           \/ RunnerEnds \/ Leave \/ Return \/ Tick \/ UNCHANGED vars
  <2>1. runners' \subseteq runners /\ UNCHANGED <<graph, cache>>
    BY <1>6
    DEF Guard, CompileTimeout, RunEnd, Decide, Kill, MonLost, MonEnd, RunnerEnds, Leave, Return,
        Tick, vars
  <2> QED BY <1>0, <2>1
<1> QED BY <1>1, <1>2, <1>3, <1>4, <1>5, <1>6 DEF Next, ChainStep

\* Every step of the specification keeps the invariant.
LEMMA LegsStep == ASSUME IInv, [Next]_vars PROVE IInv'
<1>1. TypeOK' /\ InPlan' /\ AloneOnPhone' /\ StillFit'
  BY TypesStep, AloneStep, FitStep DEF IInv
<1>2. DoneSaid' /\ Begun' /\ WrittenWhole'
  BY FilesStep DEF IInv
<1> QED BY <1>1, <1>2, StaysStep DEF IInv

\* The stage, the round dir and the processes stay within their types.
THEOREM LegTypes == Spec => []TypeOK
<1>1. IInv => TypeOK BY DEF IInv
<1> QED BY <1>1, LegsInit, LegsStep, PTL DEF Spec

\* A cached leg never runs on the cache of a compile that did not end, whatever
\* was evicted, killed, lost, passed over or left by an earlier run; and none but
\* a runner that was passed over loses its cache.
THEOREM CacheIsWhole == Spec => []CachedOnWhole
<1>1. IInv => CachedOnWhole
  BY NeverPartial DEF IInv, CachedOnWhole, CacheStays
<1> QED BY <1>1, LegsInit, LegsStep, PTL DEF Spec

\* A runner's graph is on the phone for as long as it runs, unless the runner was
\* passed over.
THEOREM GraphIsThere == Spec => []GraphStays
<1>1. IInv => GraphStays BY DEF IInv
<1> QED BY <1>1, LegsInit, LegsStep, PTL DEF Spec

\* No leg is staged, gated, run or collected beside another leg's runner, unless a
\* look at the runners was made while the phone was away and passed it over.
THEOREM OneRunner == Spec => []AloneOnPhone
<1>1. IInv => AloneOnPhone BY DEF IInv
<1> QED BY <1>1, LegsInit, LegsStep, PTL DEF Spec

\* A new runner's leg has no stdout.txt: no run of the round started it before.
LEMMA NewRunner ==
  ASSUME IInv, [Next]_vars
  PROVE  \A r \in runners' \ runners : r.compiled \/ out[r.leg] = "none"
<1> SUFFICES ASSUME NEW s \in runners' \ runners PROVE s.compiled \/ out[s.leg] = "none"
  OBVIOUS
<1>1. CASE StartRunner
  <2>1. s = [leg |-> at, compiled |-> FALSE] BY <1>1 DEF StartRunner
  <2>2. out[at] = "none" BY <1>1 DEF StartRunner, IInv, StillFit, Staging
  <2> QED BY <2>1, <2>2
<1>2. CASE CompileEnds
  <2>1. PICK r \in runners : runners' = (runners \ {r}) \cup {[r EXCEPT !.compiled = TRUE]}
    BY <1>2 DEF CompileEnds
  <2>2. r \in [leg : Leg, compiled : BOOLEAN] BY DEF IInv, TypeOK
  <2> QED BY <2>1, <2>2
<1>3. CASE Collect \/ RunnerEnds
  BY <1>3 DEF Collect, RunnerEnds
<1>4. CASE ~StartRunner /\ ~CompileEnds /\ ~Collect /\ ~RunnerEnds
  BY <1>4, OnlyRemoves DEF IInv
<1> QED BY <1>1, <1>2, <1>3, <1>4

\* A leg is started once, over all runs of a round: nothing is overwritten.
THEOREM NoLegTwice == Spec => StartedOnce
<1>1. IInv /\ [Next]_vars =>
        [\A r \in runners' \ runners : r.compiled \/ out[r.leg] = "none"]_vars
  BY NewRunner
<1> QED BY <1>1, LegsInit, LegsStep, PTL DEF Spec, StartedOnce

-----------------------------------------------------------------------------
(* The room of the stage *)

\* What the leg's runner will add to the stage.
Reserved == IF Plan[at].cold THEN CacheSize ELSE 0

\* The room that was counted before the push is still there at the start.
RoomKept ==
  /\ pc \in {"push", "staged", "gate"} => Used(graph, cache) + Reserved <= Room
  /\ pc = "push" => graph[Plan[at].graph] # "absent"

\* A cold leg's runner has made its cache file, which only grows.
CacheGrows == \A r \in runners : Plan[r.leg].cold => cache[Plan[r.leg].cache] # "absent"

\* However many names there are, what is on the phone can be counted.
Counted == IsFiniteSet(OnPhone(graph)) /\ IsFiniteSet(OnPhone(cache))

\* None of this while a runner that was passed over may write its cache.
Roomy == RoomKept /\ CacheGrows /\ (runners # {} => Used(graph, cache) <= Room)

RoomInv == Counted /\ (~hidden => Roomy)

\* One file more, or one less, by its size.
LEMMA OneFile ==
  ASSUME NEW X, NEW f \in [X -> There], NEW x \in X, NEW is \in There, IsFiniteSet(OnPhone(f)),
         NEW g, g = [f EXCEPT ![x] = is]
  PROVE  /\ IsFiniteSet(OnPhone(g)) /\ Cardinality(OnPhone(g)) \in Nat
         /\ Cardinality(OnPhone(f)) \in Nat
         /\ Cardinality(OnPhone(g)) <= Cardinality(OnPhone(f)) + 1
         /\ is = "absent" \/ f[x] # "absent" => Cardinality(OnPhone(g)) <= Cardinality(OnPhone(f))
<1>1. OnPhone(g) = IF is = "absent" THEN OnPhone(f) \ {x} ELSE OnPhone(f) \cup {x}
  BY DEF OnPhone
<1>2. f[x] # "absent" => x \in OnPhone(f)
  BY DEF OnPhone
<1>3. Cardinality(OnPhone(f)) \in Nat
  BY FS_CardinalityType
<1>4. CASE is = "absent"
  <2>1. OnPhone(g) = OnPhone(f) \ {x}
    BY <1>1, <1>4
  <2>2. IsFiniteSet(OnPhone(g)) /\ OnPhone(g) \in SUBSET OnPhone(f)
    BY <2>1, FS_RemoveElement
  <2>3. Cardinality(OnPhone(g)) \in Nat /\ Cardinality(OnPhone(g)) <= Cardinality(OnPhone(f))
    BY <2>2, FS_Subset, FS_CardinalityType
  <2> QED BY <1>3, <2>2, <2>3
<1>5. CASE is # "absent"
  <2>1. OnPhone(g) = OnPhone(f) \cup {x}
    BY <1>1, <1>5
  <2>2. /\ IsFiniteSet(OnPhone(f) \cup {x})
        /\ Cardinality(OnPhone(f) \cup {x}) =
             IF x \in OnPhone(f) THEN Cardinality(OnPhone(f)) ELSE Cardinality(OnPhone(f)) + 1
    BY FS_AddElement
  <2>3. /\ IsFiniteSet(OnPhone(g))
        /\ Cardinality(OnPhone(g)) =
             IF x \in OnPhone(f) THEN Cardinality(OnPhone(f)) ELSE Cardinality(OnPhone(f)) + 1
    BY <2>1, <2>2, Zenon
  <2> QED BY <1>2, <1>3, <1>5, <2>3
<1> QED BY <1>4, <1>5

\* What is kept of the files is no more than there was.
LEMMA FewerFiles ==
  ASSUME NEW X, NEW f \in [X -> There], NEW S, IsFiniteSet(OnPhone(f))
  PROVE  /\ IsFiniteSet(OnPhone(Keep(f, S)))
         /\ Cardinality(OnPhone(Keep(f, S))) <= Cardinality(OnPhone(f))
<1>1. OnPhone(Keep(f, S)) \in SUBSET OnPhone(f)
  BY DEF OnPhone, Keep
<1> QED BY <1>1, FS_Subset

\* Fewer files use less room; one graph or one cache more uses its size more.
LEMMA Sizes ==
  ASSUME NEW g, NEW h, NEW k, NEW l,
         Cardinality(OnPhone(g)) \in Nat, Cardinality(OnPhone(h)) \in Nat,
         Cardinality(OnPhone(k)) \in Nat, Cardinality(OnPhone(l)) \in Nat
  PROVE  /\ Used(g, k) \in Nat
         /\ Cardinality(OnPhone(h)) <= Cardinality(OnPhone(g))
            /\ Cardinality(OnPhone(l)) <= Cardinality(OnPhone(k)) => Used(h, l) <= Used(g, k)
         /\ Cardinality(OnPhone(h)) <= Cardinality(OnPhone(g)) + 1
            => Used(h, k) <= Used(g, k) + GraphSize
         /\ Cardinality(OnPhone(l)) <= Cardinality(OnPhone(k)) + 1
            => Used(g, l) <= Used(g, k) + CacheSize
<1> DEFINE a == Cardinality(OnPhone(g))
           b == Cardinality(OnPhone(h))
           c == Cardinality(OnPhone(k))
           d == Cardinality(OnPhone(l))
<1>1. GraphSize \in Nat /\ CacheSize \in Nat
  BY PlanAssumption
<1>2. ASSUME NEW m \in Nat, NEW x \in Nat, NEW y \in Nat
      PROVE  /\ m * x \in Nat
             /\ x <= y => m * x <= m * y
             /\ m * (x + 1) = m * x + m
  OBVIOUS
<1>3. a \in Nat /\ b \in Nat /\ c \in Nat /\ d \in Nat
  OBVIOUS
<1> HIDE DEF a, b, c, d
<1>4. GraphSize * a \in Nat /\ GraphSize * b \in Nat /\ CacheSize * c \in Nat /\ CacheSize * d \in Nat
  BY <1>1, <1>2, <1>3
<1>5. /\ b <= a => GraphSize * b <= GraphSize * a
      /\ d <= c => CacheSize * d <= CacheSize * c
  BY <1>1, <1>2, <1>3
<1>6. b <= a + 1 => GraphSize * b <= GraphSize * a + GraphSize
  <2>1. a + 1 \in Nat BY <1>3
  <2>2. b <= a + 1 => GraphSize * b <= GraphSize * (a + 1) BY <1>1, <1>2, <1>3, <2>1
  <2>3. GraphSize * (a + 1) = GraphSize * a + GraphSize BY <1>1, <1>2, <1>3
  <2> QED BY <2>2, <2>3
<1>7. d <= c + 1 => CacheSize * d <= CacheSize * c + CacheSize
  <2>1. c + 1 \in Nat BY <1>3
  <2>2. d <= c + 1 => CacheSize * d <= CacheSize * (c + 1) BY <1>1, <1>2, <1>3, <2>1
  <2>3. CacheSize * (c + 1) = CacheSize * c + CacheSize BY <1>1, <1>2, <1>3
  <2> QED BY <2>2, <2>3
<1>8. Used(g, k) = GraphSize * a + CacheSize * c /\ Used(h, l) = GraphSize * b + CacheSize * d
      /\ Used(h, k) = GraphSize * b + CacheSize * c /\ Used(g, l) = GraphSize * a + CacheSize * d
  BY DEF Used, a, b, c, d
<1> HIDE DEF Used
<1>9. Used(g, k) \in Nat
  BY <1>4, <1>8
<1>10. b <= a /\ d <= c => Used(h, l) <= Used(g, k)
  BY <1>4, <1>5, <1>8
<1>11. b <= a + 1 => Used(h, k) <= Used(g, k) + GraphSize
  BY <1>1, <1>4, <1>6, <1>8
<1>12. d <= c + 1 => Used(g, l) <= Used(g, k) + CacheSize
  BY <1>1, <1>4, <1>7, <1>8
<1> QED BY <1>9, <1>10, <1>11, <1>12 DEF a, b, c, d

\* Nothing is staged before the first run.
LEMMA RoomInit == Init => RoomInv
<1> SUFFICES ASSUME Init PROVE RoomInv
  OBVIOUS
<1>1. OnPhone(graph) = {} /\ OnPhone(cache) = {}
  BY DEF Init, OnPhone
<1>2. Counted
  BY <1>1, FS_EmptySet DEF Counted
<1>3. Roomy
  BY DEF Init, RoomKept, CacheGrows, Roomy
<1> QED BY <1>2, <1>3 DEF RoomInv

\* A step removes files, or adds one: a push its graph, a cold leg its cache.
LEMMA CountStep == ASSUME TypeOK, InPlan, Counted, [Next]_vars PROVE Counted'
<1> USE DEF files, monitor, stage, phone, Counted
<1>0. graph \in [Graphs -> There] /\ cache \in [Caches -> There]
  BY DEF TypeOK
<1>1. CASE StageGraph
  <2>1. at \in Leg /\ Plan[at].graph \in Graphs
    BY <1>1, PlanLines DEF StageGraph, Leg, TypeOK
  <2>2. IsFiniteSet(OnPhone(cache'))
    BY <1>0, <1>1, FewerFiles DEF StageGraph, EvictedCaches
  <2>3. PICK g \in {graph, EvictedGraphs(at - 1)} :
          graph' = g \/ graph' = [g EXCEPT ![Plan[at].graph] = "partial"]
    BY <1>1 DEF StageGraph
  <2>4. g \in [Graphs -> There] /\ IsFiniteSet(OnPhone(g))
    BY <1>0, <2>1, <2>3, FewerFiles, OwnKept DEF EvictedGraphs
  <2> QED BY <2>1, <2>2, <2>3, <2>4, OneFile DEF There
<1>2. CASE Pushed \/ PushFails
  <2>1. /\ cache' = cache /\ Plan[at].graph \in Graphs
        /\ \/ graph' = graph
           \/ \E is \in There : graph' = [graph EXCEPT ![Plan[at].graph] = is]
    BY <1>2, PlanLines DEF Pushed, PushFails, SetGraph, InPlan, Staging, There
  <2> QED BY <1>0, <2>1, OneFile
<1>3. CASE Staged \/ StartRunner
  <2>1. /\ graph' = graph
        /\ \/ cache' = cache
           \/ /\ Plan[at].cache \in Caches
              /\ \E is \in There : cache' = [cache EXCEPT ![Plan[at].cache] = is]
    BY <1>3, PlanLines DEF Staged, StartRunner, InPlan, Staging, There
  <2> QED BY <1>0, <2>1, OneFile
<1>4. CASE CompileEnds
  <2>1. PICK r \in runners :
          cache' = IF Plan[r.leg].cold THEN [cache EXCEPT ![Plan[r.leg].cache] = "whole"]
                   ELSE cache
    BY <1>4 DEF CompileEnds
  <2>2. graph' = graph /\ (Plan[r.leg].cold => Plan[r.leg].cache \in Caches)
    BY <1>4, PlanLines DEF CompileEnds, TypeOK
  <2> QED BY <1>0, <2>1, <2>2, OneFile DEF There
<1>5. CASE Collect
  BY <1>0, <1>5, FewerFiles DEF Collect, EvictedGraphs, EvictedCaches
<1>6. CASE CleanupByHand \/ PlanEnds \/ Exit
  BY <1>0, <1>6, FewerFiles DEF CleanupByHand, PlanEnds, Exit, RemoveStage
<1>7. CASE \/ Start \/ Die \/ Check \/ List \/ Setup \/ PassOver \/ StageNowhere \/ NotStaged
           \/ GateLost \/ GateSkips \/ AfterRun \/ FindLeft \/ KillLeft \/ CheckUptime
  BY <1>7
  DEF Start, Die, Check, List, Setup, PassOver, StageNowhere, NotStaged, GateLost, GateSkips,
      AfterRun, FindLeft, KillLeft, CheckUptime
<1>8. CASE \/ Guard \/ CompileTimeout \/ RunEnd \/ Kill \/ MonLost \/ MonEnd
           \/ RunnerEnds \/ Leave \/ Return \/ Tick \/ UNCHANGED vars
  BY <1>8
  DEF Guard, CompileTimeout, RunEnd, Decide, Kill, MonLost, MonEnd, RunnerEnds, Leave, Return,
      Tick, vars
<1> QED BY <1>1, <1>2, <1>3, <1>4, <1>5, <1>6, <1>7, <1>8 DEF Next, ChainStep

\* One step per group of actions that do the same to the stage.
LEMMA RoomStep == ASSUME IInv, RoomInv, [Next]_vars PROVE RoomInv'
<1> USE DEF files, monitor, stage, phone
<1> SUFFICES ASSUME ~hidden' PROVE Roomy'
  BY CountStep DEF RoomInv, IInv
<1>3. CASE /\ UNCHANGED <<graph, cache>> /\ runners' \subseteq runners /\ Roomy
           /\ pc' \notin {"push", "staged", "gate"} \/ UNCHANGED <<pc, at>>
  <2>1. RoomKept'
    BY <1>3 DEF Roomy, RoomKept, Reserved
  <2>2. CacheGrows' /\ (runners' # {} => Used(graph', cache') <= Room)
    BY <1>3 DEF Roomy, CacheGrows
  <2> QED BY <2>1, <2>2 DEF Roomy
<1>4. CASE runners' = {} /\ pc' \notin Staging
  BY <1>4 DEF Roomy, RoomKept, CacheGrows, Staging
<1> SUFFICES ASSUME ~hidden PROVE Roomy'
  BY <1>4, LooksClean
<1>0. /\ TypeOK /\ Alone /\ InPlan /\ Counted
      /\ Roomy /\ RoomKept /\ CacheGrows /\ (runners # {} => Used(graph, cache) <= Room)
      /\ graph \in [Graphs -> There] /\ cache \in [Caches -> There]
  BY DEF IInv, RoomInv, Roomy, TypeOK, AloneOnPhone
<1>1. Cardinality(OnPhone(graph)) \in Nat /\ Cardinality(OnPhone(cache)) \in Nat
  BY <1>0, FS_CardinalityType DEF Counted
<1>2. GraphSize \in Nat /\ CacheSize \in Nat /\ Room \in Nat
  BY PlanAssumption
<1>5. ASSUME StageGraph PROVE Roomy'
  <2>0. PICK g \in {graph, EvictedGraphs(at - 1)} :
          /\ at \in Leg /\ pc = "leg" /\ runners' = runners /\ at' = at
          /\ cache' = cache \/ \E also : cache' = EvictedCaches(at - 1, also)
          /\ \/ pc' = "unstaged" /\ graph' = g
             \/ /\ Used(g, cache') + Needed(at, g) <= Room
                /\ pc' = "staged" /\ graph' = g
             \/ /\ Used(g, cache') + Needed(at, g) <= Room
                /\ pc' = "push" /\ g[Plan[at].graph] = "absent"
                /\ graph' = [g EXCEPT ![Plan[at].graph] = "partial"]
    BY <1>0, <1>5, PlanLines DEF StageGraph, Goto, Leg, TypeOK
  <2> DEFINE Fits(k) == Used(g, k) + Needed(at, g) <= Room
  <2>1. /\ at \in Leg /\ pc = "leg" /\ runners' = runners /\ at' = at
        /\ \/ pc' = "unstaged" /\ graph' = g
           \/ Fits(cache') /\ pc' = "staged" /\ graph' = g
           \/ /\ Fits(cache') /\ pc' = "push" /\ g[Plan[at].graph] = "absent"
              /\ graph' = [g EXCEPT ![Plan[at].graph] = "partial"]
    BY <2>0
  <2>2. runners' = {}
    BY <1>0, <2>1 DEF Alone
  <2>3. g \in [Graphs -> There] /\ Plan[at].graph \in Graphs
    BY <1>0, <2>0, OwnKept, PlanLines
  <2>4. IsFiniteSet(OnPhone(g)) /\ IsFiniteSet(OnPhone(cache'))
    BY <1>0, <2>0, FewerFiles DEF Counted, EvictedGraphs, EvictedCaches
  <2>5. Cardinality(OnPhone(g)) \in Nat /\ Cardinality(OnPhone(cache')) \in Nat
    BY <2>4, FS_CardinalityType
  <2>6. Used(g, cache') \in Nat
    BY <2>5, Sizes
  <2>7. CASE graph' = g
    <3>2. RoomKept'
      <4>1. Fits(cache') => Used(g, cache') + (IF Plan[at].cold THEN CacheSize ELSE 0) <= Room
        BY <1>2, <2>6 DEF Needed
      <4>2. pc' # "push"
        BY <2>1, <2>3, <2>7
      <4>3. pc' \in {"staged", "gate"} => Fits(cache')
        BY <2>1
      <4>4. Used(graph', cache') = Used(g, cache') /\ Reserved' = Reserved
        BY <2>1, <2>7 DEF Reserved
      <4> QED BY <4>1, <4>2, <4>3, <4>4 DEF RoomKept, Reserved
    <3> QED BY <2>2, <3>2 DEF Roomy, CacheGrows
  <2>8. CASE /\ Fits(cache') /\ pc' = "push" /\ g[Plan[at].graph] = "absent"
             /\ graph' = [g EXCEPT ![Plan[at].graph] = "partial"]
    <3>1. /\ IsFiniteSet(OnPhone(graph')) /\ Cardinality(OnPhone(graph')) \in Nat
          /\ Cardinality(OnPhone(graph')) <= Cardinality(OnPhone(g)) + 1
      BY <2>3, <2>4, <2>8, OneFile DEF There
    <3>2. Used(graph', cache') <= Used(g, cache') + GraphSize /\ Used(graph', cache') \in Nat
      BY <2>5, <3>1, Sizes
    <3>3. Used(g, cache') + (GraphSize + (IF Plan[at].cold THEN CacheSize ELSE 0)) <= Room
      BY <2>8 DEF Needed
    <3>4. RoomKept'
      <4>1. Reserved' = Reserved /\ Reserved \in Nat
        BY <1>2, <2>1 DEF Reserved
      <4>2. Used(g, cache') + (GraphSize + Reserved) <= Room
        BY <3>3 DEF Reserved
      <4>3. Used(graph', cache') + Reserved <= Room
        BY <1>2, <2>6, <3>2, <4>1, <4>2
      <4>4. graph'[Plan[at].graph] # "absent"
        BY <2>3, <2>8
      <4> QED BY <2>1, <2>8, <4>1, <4>3, <4>4 DEF RoomKept
    <3> QED BY <2>2, <3>4 DEF Roomy, CacheGrows
  <2> QED BY <2>1, <2>7, <2>8
<1>6. ASSUME Pushed \/ PushFails PROVE Roomy'
  <2>1. /\ pc = "push" /\ runners' = runners /\ cache' = cache /\ at' = at
        /\ \/ pc' = "staged" /\ graph' = [graph EXCEPT ![Plan[at].graph] = "whole"]
           \/ pc' = "unstaged" /\ graph' = [graph EXCEPT ![Plan[at].graph] = "absent"]
           \/ pc' = "unstaged" /\ graph' = graph
    BY <1>6 DEF Pushed, PushFails, SetGraph, Goto
  <2>2. runners' = {} /\ at \in Leg /\ Plan[at].graph \in Graphs
    BY <1>0, <2>1, PlanLines DEF Alone, InPlan, Staging
  <2>4. ASSUME pc' = "staged" PROVE Used(graph', cache') + Reserved' <= Room
    <3>1. graph[Plan[at].graph] # "absent" /\ Used(graph, cache) + Reserved <= Room
      BY <1>0, <2>1 DEF RoomKept
    <3>2. /\ Cardinality(OnPhone(graph')) \in Nat
          /\ Cardinality(OnPhone(graph')) <= Cardinality(OnPhone(graph))
      BY <1>0, <2>1, <2>2, <2>4, <3>1, OneFile DEF Counted, There
    <3>3. Used(graph', cache) <= Used(graph, cache) /\ Used(graph', cache) \in Nat
          /\ Used(graph, cache) \in Nat
      BY <1>1, <3>2, Sizes
    <3>4. Reserved' = Reserved /\ Reserved \in Nat
      BY <1>2, <2>1 DEF Reserved
    <3> QED BY <1>2, <2>1, <3>1, <3>3, <3>4
  <2> QED BY <2>1, <2>2, <2>4 DEF Roomy, RoomKept, CacheGrows
<1>7. ASSUME Staged PROVE Roomy'
  <2>1. /\ pc = "staged" /\ pc' \in {"gate", "exit"} /\ at' = at /\ UNCHANGED <<graph, runners>>
        /\ \/ cache' = cache
           \/ Plan[at].cold /\ cache' = [cache EXCEPT ![Plan[at].cache] = "absent"]
    BY <1>7 DEF Staged, Goto
  <2>2. runners' = {} /\ at \in Leg /\ (Plan[at].cold => Plan[at].cache \in Caches)
    BY <1>0, <2>1, PlanLines DEF Alone, InPlan, Staging
  <2>3. /\ IsFiniteSet(OnPhone(cache')) /\ Cardinality(OnPhone(cache')) \in Nat
        /\ Cardinality(OnPhone(cache')) <= Cardinality(OnPhone(cache))
    BY <1>0, <1>1, <2>1, <2>2, OneFile DEF Counted, There
  <2>4. Used(graph, cache') <= Used(graph, cache) /\ Used(graph, cache') \in Nat
        /\ Used(graph, cache) \in Nat
    BY <1>1, <2>3, Sizes
  <2>5. Reserved' = Reserved /\ Reserved \in Nat /\ Used(graph, cache) + Reserved <= Room
    BY <1>0, <1>2, <2>1 DEF Reserved, RoomKept
  <2>6. RoomKept'
    BY <1>2, <2>1, <2>4, <2>5 DEF RoomKept
  <2> QED BY <1>0, <2>1, <2>2, <2>3, <2>6 DEF Roomy, CacheGrows
<1>8. ASSUME StartRunner PROVE Roomy'
  <2>1. /\ pc = "gate" /\ pc' = "run" /\ at' = at /\ graph' = graph
        /\ \/ UNCHANGED <<runners, cache>>
           \/ /\ runners' = runners \cup {[leg |-> at, compiled |-> FALSE]}
              /\ cache' = IF Plan[at].cold THEN [cache EXCEPT ![Plan[at].cache] = "partial"]
                          ELSE cache
    BY <1>8 DEF StartRunner, Goto
  <2>2. runners = {} /\ at \in Leg /\ (Plan[at].cold => Plan[at].cache \in Caches)
    BY <1>0, <2>1, PlanLines DEF Alone, InPlan, Staging
  <2>3. /\ IsFiniteSet(OnPhone(cache')) /\ Cardinality(OnPhone(cache')) \in Nat
        /\ Cardinality(OnPhone(cache'))
             <= Cardinality(OnPhone(cache)) + (IF Plan[at].cold THEN 1 ELSE 0)
    <3>1. CASE cache' = cache
      BY <1>0, <1>1, <3>1 DEF Counted
    <3>2. CASE Plan[at].cold /\ cache' = [cache EXCEPT ![Plan[at].cache] = "partial"]
      BY <1>0, <2>2, <3>2, OneFile DEF Counted, There
    <3> QED BY <2>1, <3>1, <3>2
  <2>4. Used(graph, cache') <= Used(graph, cache) + Reserved
    <3>1. CASE Plan[at].cold
      BY <1>1, <2>3, <3>1, Sizes DEF Reserved
    <3>2. CASE ~Plan[at].cold
      <4>1. Cardinality(OnPhone(cache')) <= Cardinality(OnPhone(cache))
        BY <1>1, <2>3, <3>2
      <4>2. Used(graph, cache') <= Used(graph, cache) /\ Used(graph, cache) \in Nat
        BY <1>1, <2>3, <4>1, Sizes
      <4> QED BY <3>2, <4>2 DEF Reserved
    <3> QED BY <3>1, <3>2
  <2>5. /\ Used(graph, cache') \in Nat /\ Used(graph, cache) \in Nat /\ Reserved \in Nat
        /\ Used(graph, cache) + Reserved <= Room
    BY <1>0, <1>1, <1>2, <2>1, <2>3, Sizes DEF Reserved, RoomKept
  <2>6. Used(graph', cache') <= Room
    BY <1>2, <2>1, <2>4, <2>5
  <2>7. CacheGrows'
    BY <1>0, <2>1, <2>2 DEF CacheGrows
  <2> QED BY <1>0, <2>1, <2>3, <2>6, <2>7 DEF Roomy, RoomKept
<1>9. ASSUME Collect PROVE Roomy'
  <2>1. /\ pc = "collect" /\ pc' \in {"exit", "leg"} /\ runners' = runners
        /\ \/ UNCHANGED <<graph, cache>>
           \/ graph' = EvictedGraphs(at) /\ cache' = EvictedCaches(at, Caches)
    BY <1>9 DEF Collect, Goto, NextLeg
  <2>3. runners' = {}
    BY <1>0, <2>1 DEF Alone
  <2> QED BY <2>1, <2>3 DEF Roomy, RoomKept, CacheGrows
<1>10. ASSUME CompileEnds PROVE Roomy'
  <2>1. PICK r \in runners :
          /\ runners' = (runners \ {r}) \cup {[r EXCEPT !.compiled = TRUE]}
          /\ cache' = IF Plan[r.leg].cold THEN [cache EXCEPT ![Plan[r.leg].cache] = "whole"]
                      ELSE cache
          /\ UNCHANGED <<pc, at, graph>>
    BY <1>10 DEF CompileEnds
  <2>2. /\ r \in [leg : Leg, compiled : BOOLEAN]
        /\ Plan[r.leg].cold => Plan[r.leg].cache \in Caches /\ cache[Plan[r.leg].cache] # "absent"
    BY <1>0, PlanLines DEF TypeOK, CacheGrows
  <2>3. /\ IsFiniteSet(OnPhone(cache')) /\ Cardinality(OnPhone(cache')) \in Nat
        /\ Cardinality(OnPhone(cache')) <= Cardinality(OnPhone(cache))
    <3>1. CASE cache' = cache
      BY <1>0, <1>1, <3>1 DEF Counted
    <3>2. CASE /\ Plan[r.leg].cold
               /\ cache' = [cache EXCEPT ![Plan[r.leg].cache] = "whole"]
      <4>1. Plan[r.leg].cache \in Caches /\ cache[Plan[r.leg].cache] # "absent"
        BY <2>2, <3>2
      <4>2. "whole" \in There
        BY DEF There
      <4> QED BY <1>0, <3>2, <4>1, <4>2, OneFile DEF Counted
    <3> QED BY <2>1, <3>1, <3>2
  <2>4. Used(graph, cache') <= Used(graph, cache) /\ Used(graph, cache') \in Nat
        /\ Used(graph, cache) \in Nat
    BY <1>1, <2>3, Sizes
  <2>5. pc \notin {"push", "staged", "gate"}
    BY <1>0, <2>1 DEF Alone
  <2>6. runners' # {} => Used(graph', cache') <= Room
    BY <1>0, <1>2, <2>1, <2>4
  <2>7. CacheGrows'
    <3>1. \A q \in runners' : \E p \in runners : p.leg = q.leg
      BY <2>1, <2>2
    <3>2. \A k \in Caches : cache[k] # "absent" => cache'[k] # "absent"
      BY <1>0, <2>1, <2>2
    <3>3. \A p \in runners : Plan[p.leg].cold => Plan[p.leg].cache \in Caches
      BY <1>0, PlanLines DEF TypeOK
    <3> QED BY <1>0, <3>1, <3>2, <3>3 DEF CacheGrows
  <2> QED BY <1>0, <2>1, <2>3, <2>5, <2>6, <2>7 DEF Roomy, RoomKept
<1>11. ASSUME CleanupByHand \/ PlanEnds \/ Exit PROVE Roomy'
  BY <1>4, <1>11
  DEF CleanupByHand, PlanEnds, Exit, Goto, RemoveStage, Looked, Staging
<1>12. ASSUME \/ Start \/ Die \/ Check \/ List \/ Setup \/ PassOver \/ StageNowhere \/ NotStaged
              \/ GateLost \/ GateSkips \/ AfterRun \/ FindLeft \/ KillLeft \/ CheckUptime
       PROVE  Roomy'
  BY <1>0, <1>3, <1>12
  DEF Start, Die, Check, List, Setup, PassOver, StageNowhere, NotStaged, GateLost, GateSkips,
      AfterRun, FindLeft, KillLeft, CheckUptime, Goto, NextLeg
<1>13. ASSUME \/ Guard \/ CompileTimeout \/ RunEnd \/ Kill \/ MonLost \/ MonEnd
              \/ RunnerEnds \/ Leave \/ Return \/ Tick \/ UNCHANGED vars
       PROVE  Roomy'
  BY <1>0, <1>3, <1>13
  DEF Guard, CompileTimeout, RunEnd, Decide, Kill, MonLost, MonEnd, RunnerEnds, Leave, Return, Tick,
      vars
<1> QED
  BY <1>5, <1>6, <1>7, <1>8, <1>9, <1>10, <1>11, <1>12, <1>13 DEF Next, ChainStep

\* While a runner is up, its growing cache included, the stage keeps to the
\* room that stage_graph counted, for any sizes, plan and number of names, unless
\* a runner was passed over.
THEOREM RoomIsKept == Spec => []KeepsToRoom
<1>1. Init => IInv /\ RoomInv BY LegsInit, RoomInit
<1>2. IInv /\ RoomInv /\ [Next]_vars => IInv' /\ RoomInv' BY LegsStep, RoomStep
<1>3. RoomInv => KeepsToRoom BY DEF RoomInv, Roomy, KeepsToRoom
<1> QED BY <1>1, <1>2, <1>3, PTL DEF Spec

-----------------------------------------------------------------------------
(* The status *)

\* A leg's "done" line is of its runner, which then has ended by itself; no
\* later kill can name another end.
DoneIsOwn ==
  pc \in OfLeg \cup {"collect"} /\ out[at] = "done" =>
    fate = "own" /\ \A r \in runners : r.leg # at

\* A leg never has a second runner.
Single == \A r, q \in runners : r.leg = q.leg => r = q

\* A runner is started for a leg that has none.
LEMMA SingleStep == ASSUME IInv, Single, [Next]_vars PROVE Single'
<1> USE DEF Single
<1>1. CASE StartRunner
  <2>1. \A r \in runners : r.leg # at
    BY <1>1 DEF StartRunner, IInv, Begun, StillFit, Staging
  <2>2. runners' = runners \/ runners' = runners \cup {[leg |-> at, compiled |-> FALSE]}
    BY <1>1 DEF StartRunner, phone, stage
  <2> DEFINE x == [leg |-> at, compiled |-> FALSE]
  <2>3. x.leg = at
    OBVIOUS
  <2> HIDE DEF x
  <2>4. CASE runners' = runners
    BY <2>4
  <2>5. CASE runners' = runners \cup {x}
    BY <2>1, <2>3, <2>5
  <2> QED BY <2>2, <2>4, <2>5 DEF x
<1>2. CASE CompileEnds
  <2>1. PICK r \in runners : runners' = (runners \ {r}) \cup {[r EXCEPT !.compiled = TRUE]}
    BY <1>2 DEF CompileEnds
  <2>2. r \in [leg : Leg, compiled : BOOLEAN] BY DEF IInv, TypeOK
  <2> QED BY <2>1, <2>2
<1>3. CASE Collect \/ RunnerEnds
  BY <1>3 DEF Collect, RunnerEnds
<1>4. CASE ~StartRunner /\ ~CompileEnds /\ ~Collect /\ ~RunnerEnds
  BY <1>4, OnlyRemoves DEF IInv
<1> QED BY <1>1, <1>2, <1>3, <1>4

\* The chain goes on when the client has ended, and starts no other meanwhile.
ClientGone == pc \in {"left", "killleft", "uptime", "collect"} => client = 0

LEMMA GoneStep == ASSUME ClientGone, [Next]_vars PROVE ClientGone'
<1> USE DEF ClientGone, monitor, stage, phone
<1>1. CASE AfterRun \/ FindLeft \/ KillLeft \/ CheckUptime
  BY <1>1 DEF AfterRun, FindLeft, KillLeft, CheckUptime, Goto
<1>2. CASE Start \/ Die \/ PlanEnds \/ Exit \/ StartRunner \/ Collect
  BY <1>2 DEF Start, Die, PlanEnds, Exit, StartRunner, Collect, Goto, NextLeg
<1>3. CASE \/ Check \/ List \/ Setup \/ PassOver \/ StageGraph \/ StageNowhere \/ Pushed
           \/ PushFails \/ NotStaged \/ Staged \/ GateLost \/ GateSkips
  BY <1>3
  DEF Check, List, Setup, PassOver, StageGraph, StageNowhere, Pushed, PushFails, NotStaged, Staged,
      GateLost, GateSkips, Goto, NextLeg
<1>4. CASE Guard \/ CompileTimeout \/ RunEnd \/ Kill \/ MonLost \/ MonEnd
  BY <1>4 DEF Guard, CompileTimeout, RunEnd, Decide, Kill, MonLost, MonEnd
<1>5. CASE \/ CompileEnds \/ RunnerEnds \/ Leave \/ Return \/ Tick \/ CleanupByHand
           \/ UNCHANGED vars
  BY <1>5 DEF CompileEnds, RunnerEnds, Leave, Return, Tick, CleanupByHand, RemoveStage, vars
<1> QED BY <1>1, <1>2, <1>3, <1>4, <1>5 DEF Next, ChainStep

\* One step per group of actions.
LEMMA DoneStep ==
  ASSUME IInv, Single, ClientGone, DoneIsOwn, [Next]_vars
  PROVE  DoneIsOwn'
<1> USE DEF files, monitor, stage, phone, DoneIsOwn, OfLeg
<1>0. TypeOK /\ InPlan
  BY DEF IInv
<1>1. CASE pc' \notin OfLeg \cup {"collect"}
  BY <1>1
<1>2. CASE StartRunner
  <2>1. at \in Leg /\ out' = [out EXCEPT ![at] = "started"] /\ at' = at
    BY <1>0, <1>2 DEF StartRunner, InPlan, Staging, Goto
  <2> QED BY <1>0, <2>1 DEF TypeOK
<1>3. CASE AfterRun \/ FindLeft \/ CheckUptime
  BY <1>3 DEF AfterRun, FindLeft, CheckUptime, Goto
<1>4. CASE KillLeft \/ Kill
  <2>1. /\ pc' \in OfLeg \cup {"collect"} => pc \in OfLeg \cup {"collect"}
        /\ UNCHANGED <<at, out>> /\ runners' \subseteq runners
        /\ fate' = fate \/ \E r \in runners : r.leg = at
    BY <1>4 DEF KillLeft, Kill, Ended, Goto
  <2> QED BY <2>1
<1>5. CASE CompileEnds
  <2>1. PICK r \in runners :
          /\ runners' = (runners \ {r}) \cup {[r EXCEPT !.compiled = TRUE]}
          /\ out' = out \/ out' = [out EXCEPT ![r.leg] = "compiled"]
          /\ UNCHANGED <<pc, at, fate>>
    BY <1>5 DEF CompileEnds, Heard
  <2>2. r \in [leg : Leg, compiled : BOOLEAN]
    BY <1>0 DEF TypeOK
  <2>3. \A s \in runners' : \E q \in runners : q.leg = s.leg
    BY <2>1, <2>2
  <2> QED BY <1>0, <2>1, <2>2, <2>3 DEF TypeOK, InPlan
<1>6. CASE RunnerEnds
  <2>1. PICK r \in runners, how \in {"own", "crash", "lmkd"} :
          /\ runners' = runners \ {r} /\ Ended({r}, how)
          /\ IF how = "own" THEN Heard(r, "done") ELSE UNCHANGED out
          /\ UNCHANGED <<pc, at>>
    BY <1>6 DEF RunnerEnds
  <2> SUFFICES ASSUME pc \in OfLeg \cup {"collect"}, out'[at] = "done"
               PROVE  fate' = "own" /\ \A q \in runners' : q.leg # at
    BY <2>1
  <2>2. at \in Leg /\ r.leg \in Leg
    BY <1>0 DEF InPlan, TypeOK
  <2>3. CASE r.leg = at
    <3>1. out[at] # "done"
      BY <2>3
    <3>2. how = "own" /\ client = at
      BY <2>1, <2>3, <3>1 DEF Heard
    <3>3. pc = "run"
      BY <2>2, <3>2 DEF ClientGone, Leg
    <3>5. fate' = "own"
      BY <2>1, <2>3, <3>2, <3>3 DEF Ended
    <3>4. \A q \in runners' : q.leg # at
      BY <2>1, <2>3 DEF Single
    <3> QED BY <3>4, <3>5
  <2>4. CASE r.leg # at
    <3>1. out'[at] = out[at] /\ fate' = fate
      BY <1>0, <2>1, <2>2, <2>4 DEF Heard, TypeOK, Ended
    <3> QED BY <2>1, <3>1
  <2> QED BY <2>3, <2>4
<1>7. CASE Collect \/ Start \/ Die \/ PlanEnds \/ Exit
  BY <1>1, <1>7 DEF Collect, Start, Die, PlanEnds, Exit, Goto, NextLeg
<1>8. CASE \/ Check \/ List \/ Setup \/ PassOver \/ StageGraph \/ StageNowhere \/ Pushed
           \/ PushFails \/ NotStaged \/ Staged \/ GateLost \/ GateSkips
  BY <1>1, <1>8
  DEF Check, List, Setup, PassOver, StageGraph, StageNowhere, Pushed, PushFails, NotStaged, Staged,
      GateLost, GateSkips, Goto, NextLeg
<1>9. CASE \/ Guard \/ CompileTimeout \/ RunEnd \/ MonLost \/ MonEnd
           \/ Leave \/ Return \/ Tick \/ CleanupByHand \/ UNCHANGED vars
  BY <1>9
  DEF Guard, CompileTimeout, RunEnd, Decide, MonLost, MonEnd, Leave, Return, Tick, CleanupByHand,
      RemoveStage, vars
<1> QED
  BY <1>2, <1>3, <1>4, <1>5, <1>6, <1>7, <1>8, <1>9 DEF Next, ChainStep

\* Only Collect names a status, and only that of the leg it is at.
LEMMA StatusNamed ==
  ASSUME IInv, DoneIsOwn, [Next]_vars, NEW i \in Leg, status'[i] # status[i]
  PROVE  /\ status'[i] = "DONE" => fate = "own"
         /\ status'[i] = "LMKD_KILLED" => fate = "lmkd"
<1>1. CASE Collect
  <2>1. PICK seen \in {FALSE, present /\ fate = "lmkd"} :
          status' = [status EXCEPT ![at] = StatusOf(at, seen)]
    BY <1>1 DEF Collect
  <2>2. pc = "collect" /\ at \in Leg /\ TypeOK
    BY <1>1 DEF Collect, IInv, InPlan
  <2>3. i = at /\ status'[i] = StatusOf(at, seen)
    BY <2>1, <2>2 DEF TypeOK
  <2>4. StatusOf(at, seen) = "DONE" => out[at] = "done"
    BY DEF StatusOf
  <2>5. StatusOf(at, seen) = "LMKD_KILLED" => seen
    BY DEF StatusOf
  <2> QED BY <2>1, <2>2, <2>3, <2>4, <2>5 DEF DoneIsOwn
<1>2. CASE StartRunner \/ CompileEnds \/ RunnerEnds
  BY <1>2 DEF StartRunner, CompileEnds, RunnerEnds
<1>3. CASE ~StartRunner /\ ~CompileEnds /\ ~RunnerEnds /\ ~Collect
  BY <1>3, OnlyRemoves DEF IInv
<1> QED BY <1>1, <1>2, <1>3

\* leg.json says DONE of a runner that ended by itself, and LMKD_KILLED of one
\* that lmkd killed, whatever the guard, the run end and the phone did, and
\* whatever other runner was passed over.
THEOREM StatusIsTrue == Spec => StatusTrue
<1>1. Init => IInv /\ Single /\ ClientGone /\ DoneIsOwn
  BY LegsInit DEF Init, DoneIsOwn, ClientGone, Single, OfLeg
<1>2. IInv /\ Single /\ ClientGone /\ DoneIsOwn /\ [Next]_vars =>
        IInv' /\ Single' /\ ClientGone' /\ DoneIsOwn'
  BY LegsStep, SingleStep, GoneStep, DoneStep
<1>3. IInv /\ DoneIsOwn /\ [Next]_vars =>
        [\A i \in Leg : status'[i] # status[i] =>
           /\ status'[i] = "DONE" => fate = "own"
           /\ status'[i] = "LMKD_KILLED" => fate = "lmkd"]_vars
  BY StatusNamed
<1> QED BY <1>1, <1>2, <1>3, PTL DEF Spec, StatusTrue
=============================================================================
