------------------------------ MODULE NpuChain ------------------------------
(***************************************************************************)
(* tools/devicebench/npu_chain.sh: the legs of a native runner on the      *)
(* phone, under a hold (ChainHold.tla has the hold).  Each leg stages its  *)
(* graph in a /data that is short, runs the runner under a monitor on the  *)
(* Mac (memory guard, compile watch, run end), names the leg's status and  *)
(* removes what no later leg uses.  The round dir and, after a death or a  *)
(* hard stop, the stage on the phone are what one run leaves to the next.  *)
(*                                                                         *)
(* The phone may leave adb at any step, and between two of its calls: a    *)
(* look at an absent phone sees no runner.  Calls of one step that follow  *)
(* one another (evict, a cleanup's kill and rm) each reach the phone or do *)
(* not; the read of a phone's state and what is done of it are two steps.  *)
(***************************************************************************)
EXTENDS Naturals, Sequences, FiniteSets

CONSTANTS
  Graphs, Caches,        \* file names in the stage
  Plan,                  \* the plan's lines, in order
  GraphSize, CacheSize,  \* sizes; CacheSize is CACHE_EST
  Room,                  \* what /data has for the stage, above DATA_MARGIN
  Runs,                  \* how often `run` is started
  Mortal,                \* whether a chain may be killed
  NoCache

Leg == 1..Len(Plan)
LegLine == [graph : Graphs, cache : Caches \cup {NoCache}, cold : BOOLEAN, needs : 0..Len(Plan)]

ASSUME PlanAssumption ==
  /\ Plan \in Seq(LegLine) /\ Plan # <<>>
  /\ \A i \in Leg : Plan[i].cold => Plan[i].cache # NoCache
  /\ NoCache \notin Caches
  /\ {GraphSize, CacheSize, Room, Runs} \subseteq Nat /\ Mortal \in BOOLEAN

Use(i) == Plan[i].cache # NoCache /\ ~Plan[i].cold

\* "a cached leg never reuses the cache of a compile that did not end": the
\* author names the cold leg before it with needs=, and no other writes it.
ASSUME NeedsAssumption ==
  \A i \in Leg : Use(i) =>
    /\ Plan[i].needs \in 1..(i - 1)
    /\ \A j \in Leg : Plan[j].cold /\ Plan[j].cache = Plan[i].cache <=> j = Plan[i].needs

VARIABLES
  run, pc, at,  \* which run, where it is, at which leg
  clock,        \* open (before SKIP_AFTER), late, over (past RUN_END)
  client,       \* the leg whose adb shell client is alive, or 0
  mon,          \* runner_monitor: off, watch, kill, or lost (it left R/<tag>.lost)
  killed,       \* its `killed`, and then this leg's R/<tag>.killed_by: none, or
                \* limit for any of its three reasons (guard, compile_timeout, run_end)
  out,          \* R/<tag>.stdout.txt, by its last telling line
  status,       \* R/<tag>.leg.json's status; STOPPED for OOM_GUARD, COMPILE_TIMEOUT,
                \* LIMIT_STOP, which name the reason
  graph, cache, \* the stage: each file absent, partial or whole
  runners,      \* the runner processes on the phone: [leg, compiled]
  present,      \* the phone is on adb
  rebooted,     \* its uptime went down since the leg began
  fate,         \* how this leg's runner ended (no code keeps this)
  hidden        \* the last look at the runners passed one over (nor this)

files == <<out, status>>
monitor == <<mon, killed>>
stage == <<graph, cache>>
phone == <<stage, runners, present, rebooted>>
vars == <<run, pc, at, clock, client, monitor, files, phone, fate, hidden>>

Init ==
  /\ run = 0 /\ pc = "off" /\ at = 1 /\ clock = "over"
  /\ client = 0 /\ mon = "off" /\ killed = "none"
  /\ out = [i \in Leg |-> "none"]
  /\ status = [i \in Leg |-> "NONE"]
  /\ graph = [g \in Graphs |-> "absent"] /\ cache = [k \in Caches |-> "absent"]
  /\ runners = {} /\ present = TRUE /\ rebooted = FALSE
  /\ fate = "none" /\ hidden = FALSE

-----------------------------------------------------------------------------
(* The stage *)

OnPhone(f) == {x \in DOMAIN f : f[x] # "absent"}
Used(g, k) == GraphSize * Cardinality(OnPhone(g)) + CacheSize * Cardinality(OnPhone(k))
Keep(f, kept) == [x \in DOMAIN f |-> IF x \in kept THEN f[x] ELSE "absent"]

\* later_needs: the legs whose graph and cache an evict(i) keeps.
LaterNeeds(i) == {j \in Leg : j > i}

\* evict; `also` are the caches that may stay (keep_cache).
EvictedGraphs(i) == Keep(graph, {Plan[j].graph : j \in LaterNeeds(i)})
EvictedCaches(i, also) == Keep(cache, {Plan[j].cache : j \in LaterNeeds(i)} \cap also)

\* A look passes over what it does not see.
Looked == hidden' = (runners' # {})

\* cleanup_all: the kill and the removal reach the phone, or one does, or none.
\* A client that is left ends with its runner or with the phone.
RemoveStage ==
  \E kills, removes \in BOOLEAN :
    /\ runners' = IF kills THEN {} ELSE runners
    /\ graph' = IF removes THEN Keep(graph, {}) ELSE graph
    /\ cache' = IF removes THEN Keep(cache, {}) ELSE cache
    /\ client' = 0
    /\ Looked

-----------------------------------------------------------------------------
(* run_chain *)

\* `run`, until the hold is seen.  A killed chain's keeper holds until END_MIN,
\* two minutes past the run end its monitor still enforces.
Start ==
  /\ pc = "off" /\ run < Runs /\ mon \in {"off", "lost"} /\ client = 0
  /\ run' = run + 1 /\ pc' = "check" /\ at' = 1 /\ clock' = "open"
  /\ mon' = "off" /\ killed' = "none"
  /\ UNCHANGED <<client, files, phone, fate, hidden>>

Goto(place) == pc' = place /\ UNCHANGED <<run, at, clock>>

NextLeg == pc' = "leg" /\ at' = at + 1 /\ UNCHANGED <<run, clock>>

Check ==
  /\ pc = "check"
  /\ Goto(IF present THEN "list" ELSE "exit")
  /\ UNCHANGED <<client, monitor, files, phone, fate, hidden>>

\* Mutant: a runner on the phone is only written down.
ListNothing ==
  /\ pc = "list"
  /\ Goto("setup")
  /\ UNCHANGED <<client, monitor, files, phone, fate, hidden>>

\* transfer_check: another's runner is left alone (CLEANED=1, only a release).
\* The listing of an absent phone names none.
List ==
  /\ pc = "list"
  /\ UNCHANGED <<client, monitor, files, phone, fate>>
  /\ IF present /\ runners # {} THEN Goto("off") /\ UNCHANGED hidden
     ELSE Goto("setup") /\ Looked

\* setup_stage: runner, libraries and fixtures, each hash checked.  What an
\* earlier run left of graphs and caches stays.
Setup ==
  /\ pc = "setup"
  /\ \/ present /\ Goto("leg")
     \/ Goto("exit")
  /\ UNCHANGED <<client, monitor, files, phone, fate, hidden>>

\* cleanup_all, CHAIN_DONE and the release; or 9 and a hard stop.
PlanEnds ==
  /\ pc = "leg" /\ at > Len(Plan)
  /\ RemoveStage
  /\ Goto(IF present THEN "off" ELSE "exit")
  /\ UNCHANGED <<monitor, files, present, rebooted, fate>>

\* on_exit: after a hard stop or exit 5.
Exit ==
  /\ pc = "exit"
  /\ RemoveStage
  /\ Goto("off")
  /\ fate' = "none" /\ rebooted' = FALSE
  /\ UNCHANGED <<monitor, files, present>>

\* `cleanup` by hand, under the dead chain's hold or a new one.
CleanupByHand ==
  /\ pc = "off" /\ run > 0
  /\ RemoveStage
  /\ UNCHANGED <<run, pc, at, clock, monitor, files, present, rebooted, fate>>

\* SIGKILL: the adb client and the monitor go on.
Die ==
  /\ Mortal /\ pc # "off"
  /\ Goto("off")
  /\ fate' = "none" /\ rebooted' = FALSE
  /\ UNCHANGED <<client, monitor, files, stage, runners, present, hidden>>

-----------------------------------------------------------------------------
(* run_leg, up to the runner's start *)

\* Mutant: no look at needs=.
BarredUnmet(i) ==
  \/ out[i] # "none" \/ clock # "open"
  \/ Use(i) /\ (~present \/ cache[Plan[i].cache] = "absent")

Barred(i) ==
  \/ out[i] # "none" \/ clock # "open"
  \/ Plan[i].needs # 0 /\ status[Plan[i].needs] # "DONE"
  \/ Use(i) /\ (~present \/ cache[Plan[i].cache] = "absent")

PassOver ==
  /\ pc = "leg" /\ at <= Len(Plan) /\ Barred(at)
  /\ NextLeg
  /\ UNCHANGED <<client, monitor, files, phone, fate, hidden>>

\* Mutant: room for the graph only.
NeededLess(i, g) == IF g[Plan[i].graph] = "whole" THEN 0 ELSE GraphSize

\* What the leg still puts on the phone: its graph unless the hash matches,
\* its JIT cache.
Needed(i, g) ==
  (IF g[Plan[i].graph] = "whole" THEN 0 ELSE GraphSize) +
  (IF Plan[i].cold THEN CacheSize ELSE 0)

\* stage_graph up to the push.  When the room is short, the caches that only
\* later legs use go too.  A graph file that is there is not pushed again,
\* whatever its hash.
StageGraph == \E evicts \in BOOLEAN :
  LET i == at
      g == IF evicts THEN EvictedGraphs(i - 1) ELSE graph
      all == IF evicts THEN EvictedCaches(i - 1, Caches) ELSE cache
      own == EvictedCaches(i - 1, {Plan[i].cache})
      Fits(k) == Used(g, k) + Needed(i, g) <= Room
  IN
  /\ pc = "leg" /\ at <= Len(Plan) /\ ~Barred(at) /\ present
  /\ cache' = IF Fits(all) THEN all ELSE own
  /\ IF ~Fits(cache') THEN Goto("unstaged") /\ graph' = g
     ELSE IF g[Plan[i].graph] # "absent" THEN Goto("staged") /\ graph' = g
     ELSE Goto("push") /\ graph' = [g EXCEPT ![Plan[i].graph] = "partial"]
  /\ UNCHANGED <<client, monitor, files, runners, present, rebooted, fate, hidden>>

\* An absent phone has no free bytes: return 6.
StageNowhere ==
  /\ pc = "leg" /\ at <= Len(Plan) /\ ~Barred(at) /\ ~present
  /\ Goto("unstaged")
  /\ UNCHANGED <<client, monitor, files, phone, fate, hidden>>

SetGraph(is) == graph' = [graph EXCEPT ![Plan[at].graph] = is]

\* Bytes and hash agree.
Pushed ==
  /\ pc = "push" /\ present
  /\ SetGraph("whole")
  /\ Goto("staged")
  /\ UNCHANGED <<client, monitor, files, cache, runners, present, rebooted, fate, hidden>>

\* They do not: the file is removed, which a phone that has left does not see;
\* or push_file's hard_stop ends stage_graph's subshell before the removal.
PushFails ==
  /\ pc = "push"
  /\ IF present THEN SetGraph("absent") ELSE UNCHANGED graph
  /\ Goto("unstaged")
  /\ UNCHANGED <<client, monitor, files, cache, runners, present, rebooted, fate, hidden>>

\* run_leg looks at the phone, then at stage_graph's code.
NotStaged ==
  /\ pc = "unstaged"
  /\ IF present THEN NextLeg ELSE Goto("exit")
  /\ UNCHANGED <<client, monitor, files, phone, fate, hidden>>

\* The phone is there; a cold leg's cache dir is removed.
Staged ==
  /\ pc = "staged"
  /\ IF present /\ Plan[at].cold THEN cache' = [cache EXCEPT ![Plan[at].cache] = "absent"]
     ELSE UNCHANGED cache
  /\ IF present THEN Goto("gate") ELSE Goto("exit")
  /\ UNCHANGED <<client, monitor, files, graph, runners, present, rebooted, fate, hidden>>

\* ready_gate: lost while resting; or not ready, or late by now.
GateLost ==
  /\ pc = "gate" /\ ~present
  /\ Goto("exit")
  /\ UNCHANGED <<client, monitor, files, phone, fate, hidden>>

GateSkips ==
  /\ pc = "gate"
  /\ NextLeg
  /\ UNCHANGED <<client, monitor, files, phone, fate, hidden>>

\* The uptime, the adb client and the monitor.  On an absent phone the client
\* ends at once; its stdout.txt is there all the same.
StartRunner ==
  /\ pc = "gate" /\ clock = "open"
  /\ Goto("run")
  /\ out' = [out EXCEPT ![at] = "started"]
  /\ mon' = "watch" /\ killed' = "none" /\ fate' = "none"
  /\ IF ~present THEN UNCHANGED <<client, runners, cache>>
     ELSE /\ client' = at
          /\ runners' = runners \cup {[leg |-> at, compiled |-> FALSE]}
          /\ cache' = IF Plan[at].cold THEN [cache EXCEPT ![Plan[at].cache] = "partial"]
                      ELSE cache
  /\ rebooted' = FALSE
  /\ UNCHANGED <<status, graph, present, hidden>>

-----------------------------------------------------------------------------
(* run_leg, after the runner *)

\* From the uptime before the runner to the one after it.
OfLeg == {"run", "left", "killleft", "uptime"}

AfterRun ==
  /\ pc = "run" /\ client = 0 /\ mon \in {"off", "lost"}
  /\ Goto(IF mon = "lost" \/ ~present THEN "exit" ELSE "left")
  /\ mon' = "off"
  /\ UNCHANGED <<client, killed, files, phone, fate, hidden>>

\* runner_pid: a phone that has left since names none.
FindLeft ==
  /\ pc = "left"
  /\ UNCHANGED <<client, monitor, files, phone, fate>>
  /\ IF present /\ runners # {} THEN Goto("killleft") /\ UNCHANGED hidden
     ELSE Goto("uptime") /\ Looked

\* The leg's own runner, while the leg is under way.
Ended(rs, how) == fate' = IF pc \in OfLeg /\ \E r \in rs : r.leg = at THEN how ELSE fate

\* kill -9 of every pid that was named.
KillLeft ==
  /\ pc = "killleft"
  /\ IF present THEN runners' = {} /\ Ended(runners, "killed")
     ELSE UNCHANGED <<runners, fate>>
  /\ Looked
  /\ Goto("uptime")
  /\ UNCHANGED <<client, monitor, files, stage, present, rebooted>>

\* A reboot is a hard stop, when both uptimes were read.
CheckUptime ==
  /\ pc = "uptime"
  /\ \E seen \in {FALSE, present /\ rebooted} : Goto(IF seen THEN "exit" ELSE "collect")
  /\ rebooted' = FALSE
  /\ UNCHANGED <<client, monitor, files, stage, runners, present, fate, hidden>>

\* Mutant: the compile's end is enough for DONE.
StatusCompiled(i, lmkdSeen) ==
  CASE lmkdSeen -> "LMKD_KILLED"
    [] killed = "limit" -> "STOPPED"
    [] killed = "none" /\ out[i] \in {"compiled", "done"} -> "DONE"
    [] OTHER -> "RUNNER_FAILED"

\* A `done` line goes with exit code 0.
StatusOf(i, lmkdSeen) ==
  CASE lmkdSeen -> "LMKD_KILLED"
    [] ~lmkdSeen /\ killed = "limit" -> "STOPPED"
    [] ~lmkdSeen /\ killed = "none" /\ out[i] = "done" -> "DONE"
    [] OTHER -> "RUNNER_FAILED"

\* The log, the dumps, leg.json, the scorer; then a hard stop after an lmkd
\* line, else evict.  The log's pull and the eviction may not reach the phone.
Collect ==
  /\ pc = "collect"
  /\ \E lmkdSeen \in {FALSE, present /\ fate = "lmkd"}, evicts \in {FALSE, present} :
       /\ status' = [status EXCEPT ![at] = StatusOf(at, lmkdSeen)]
       /\ IF lmkdSeen THEN Goto("exit") ELSE NextLeg
       /\ IF lmkdSeen \/ ~evicts THEN UNCHANGED stage
          ELSE graph' = EvictedGraphs(at) /\ cache' = EvictedCaches(at, Caches)
  /\ killed' = "none" /\ fate' = "none"
  /\ UNCHANGED <<client, mon, out, runners, present, rebooted, hidden>>

ChainStep ==
  \/ Check \/ List \/ Setup \/ PlanEnds \/ Exit
  \/ PassOver \/ StageGraph \/ StageNowhere \/ Pushed \/ PushFails \/ NotStaged
  \/ Staged \/ GateLost \/ GateSkips \/ StartRunner
  \/ AfterRun \/ FindLeft \/ KillLeft \/ CheckUptime \/ Collect

-----------------------------------------------------------------------------
(* runner_monitor *)

\* Mutant: the run end is not looked at.
RunEndIgnored == FALSE

\* The reasons that a sample may give at RUN_END.
RunEndReached == clock = "over"

Decide ==
  /\ mon = "watch" /\ client # 0 /\ killed = "none" /\ present /\ runners # {}
  /\ mon' = "kill" /\ killed' = "limit"
  /\ UNCHANGED <<run, pc, at, clock, client, files, phone, fate, hidden>>

Guard == Decide
CompileTimeout == Decide /\ out[at] = "started"
RunEnd == Decide /\ RunEndReached

\* kill -9 of the sample's pid, the first of those listed, if the phone hears it
\* and it is still there.
Kill ==
  /\ mon = "kill"
  /\ mon' = "watch"
  /\ \/ /\ present
        /\ \E r \in runners :
             /\ runners' = runners \ {r} /\ Ended({r}, "killed")
             /\ client' = IF client = r.leg THEN 0 ELSE client
     \/ /\ ~present \/ runners = {} \/ hidden
        /\ UNCHANGED <<runners, client, fate>>
  /\ UNCHANGED <<run, pc, at, clock, killed, files, stage, present, rebooted, hidden>>

\* Two looks, 3 s apart; killed_by is not written.
MonLost ==
  /\ mon = "watch" /\ ~present
  /\ mon' = "lost" /\ killed' = "none"
  /\ UNCHANGED <<run, pc, at, clock, client, files, phone, fate, hidden>>

\* The client has ended: `killed`, if there is one, into killed_by.
MonEnd ==
  /\ mon = "watch" /\ client = 0
  /\ mon' = "off"
  /\ UNCHANGED <<run, pc, at, clock, client, killed, files, phone, fate, hidden>>

-----------------------------------------------------------------------------
(* The runner, the phone, the clock *)

Heard(r, line) == out' = IF client = r.leg THEN [out EXCEPT ![r.leg] = line] ELSE out

\* compile_end: a cold leg's cache is written.
CompileEnds ==
  /\ \E r \in runners :
       /\ ~r.compiled
       /\ runners' = (runners \ {r}) \cup {[r EXCEPT !.compiled = TRUE]}
       /\ cache' = IF Plan[r.leg].cold THEN [cache EXCEPT ![Plan[r.leg].cache] = "whole"]
                   ELSE cache
       /\ Heard(r, "compiled")
  /\ UNCHANGED <<run, pc, at, clock, client, monitor, status, graph, present, rebooted, fate,
                 hidden>>

\* It ends by itself, crashes, or lmkd kills it.
RunnerEnds ==
  /\ \E r \in runners, how \in {"own", "crash", "lmkd"} :
       /\ how = "own" => r.compiled
       /\ runners' = runners \ {r}
       /\ client' = IF client = r.leg THEN 0 ELSE client
       /\ Ended({r}, how)
       /\ IF how = "own" THEN Heard(r, "done") ELSE UNCHANGED out
  /\ UNCHANGED <<run, pc, at, clock, monitor, status, stage, present, rebooted, hidden>>

\* The phone leaves adb, which ends the client and not the runner; or reboots.
Leave ==
  /\ present
  /\ present' = FALSE /\ client' = 0
  /\ \/ UNCHANGED <<runners, rebooted>>
     \/ /\ runners' = {}
        /\ rebooted' = (rebooted \/ pc \in OfLeg)
  /\ UNCHANGED <<run, pc, at, clock, monitor, files, stage, fate, hidden>>

Return ==
  /\ ~present
  /\ present' = TRUE
  /\ UNCHANGED <<run, pc, at, clock, client, monitor, files, stage, runners, rebooted,
                 fate, hidden>>

Tick ==
  /\ clock # "over"
  /\ clock' = IF clock = "open" THEN "late" ELSE "over"
  /\ UNCHANGED <<run, pc, at, client, monitor, files, phone, fate, hidden>>

-----------------------------------------------------------------------------
Next ==
  \/ Start \/ CleanupByHand \/ Die \/ ChainStep
  \/ Guard \/ CompileTimeout \/ RunEnd \/ Kill \/ MonLost \/ MonEnd
  \/ CompileEnds \/ RunnerEnds \/ Leave \/ Return \/ Tick

Spec == Init /\ [][Next]_vars

\* The chain and its monitor go on, time passes.  The runner and the phone owe
\* nothing; neither the guard nor the compile watch has to fire.
FairSpec ==
  /\ Spec
  /\ WF_vars(ChainStep) /\ WF_vars(RunEnd) /\ WF_vars(Kill) /\ WF_vars(MonEnd)
  /\ WF_vars(Tick)
-----------------------------------------------------------------------------
(* Properties *)

There == {"absent", "partial", "whole"}

TypeOK ==
  /\ run \in 0..Runs /\ at \in 1..(Len(Plan) + 1)
  /\ pc \in {"off", "check", "list", "setup", "leg", "push", "unstaged", "staged", "gate", "run",
             "left", "killleft", "uptime", "collect", "exit"}
  /\ clock \in {"open", "late", "over"}
  /\ client \in {0} \cup Leg
  /\ mon \in {"off", "watch", "kill", "lost"}
  /\ killed \in {"none", "limit"}
  /\ out \in [Leg -> {"none", "started", "compiled", "done"}]
  /\ status \in [Leg -> {"NONE", "DONE", "RUNNER_FAILED", "STOPPED", "LMKD_KILLED"}]
  /\ graph \in [Graphs -> There] /\ cache \in [Caches -> There]
  /\ runners \subseteq [leg : Leg, compiled : BOOLEAN]
  /\ present \in BOOLEAN /\ rebooted \in BOOLEAN
  /\ fate \in {"none", "own", "crash", "lmkd", "killed"} /\ hidden \in BOOLEAN

\* "A cached leg never reuses the cache of a compile that did not end": a
\* runner of a cached leg has a whole cache under it for as long as it runs,
\* whatever was evicted, killed or left by an earlier run; never a partial one,
\* and none at all only when a look has passed the runner over.
CachedOnWhole ==
  \A r \in runners : Use(r.leg) =>
    cache[Plan[r.leg].cache] \in {"whole"} \cup (IF hidden THEN {"absent"} ELSE {})

\* The graph of a running leg is on the phone: neither an eviction nor a
\* cleanup takes it away under a runner that was not passed over.
GraphStays == ~hidden => \A r \in runners : graph[Plan[r.leg].graph] # "absent"

\* "The graph on the phone (bytes polled, sha256sum)": a runner runs on a
\* graph that arrived whole.
GraphChecked == \A r \in runners : graph[Plan[r.leg].graph] = "whole"

\* "/data free >= the graph + CACHE_EST per JIT cache + DATA_MARGIN": while a
\* runner is up, its growing cache included, the stage keeps to its room,
\* unless a look has passed a runner over.
KeepsToRoom == ~hidden /\ runners # {} => Used(graph, cache) <= Room

\* No runner but the leg's own is on the phone while a leg is staged, gated, run
\* and collected.
Alone ==
  /\ pc \in {"setup", "leg", "push", "unstaged", "staged", "gate", "uptime",
            "collect"} => runners = {}
  /\ pc \in {"run", "left", "killleft"} => \A r \in runners : r.leg = at

\* Not the one of the leg before, nor of a chain that died: a runner is beside
\* another leg only when a look (transfer_check's listing, runner_pid, a
\* cleanup's kill) was made while the phone was away.
AloneOnPhone == ~hidden => Alone

\* "Never overwritten", "never retried": a runner is started for a leg that no
\* run of this round has started before.
StartedOnce ==
  [][\A r \in runners' \ runners : r.compiled \/ out[r.leg] = "none"]_vars

\* DONE: the leg's runner ended by itself and nothing killed it; LMKD_KILLED:
\* lmkd did.  Whatever else is on the phone.
StatusTrue ==
  [][\A i \in Leg : status'[i] # status[i] =>
       /\ status'[i] = "DONE" => fate = "own"
       /\ status'[i] = "LMKD_KILLED" => fate = "lmkd"]_vars

\* A chain gives the phone back, whatever the runner does and the phone, as
\* long as no look passes a runner over.
ChainEnds == (pc # "off" /\ ~hidden) ~> (pc = "off" \/ hidden)

\* So it would whatever was passed over.
AnyChainEnds == (pc # "off") ~> (pc = "off")
=============================================================================
