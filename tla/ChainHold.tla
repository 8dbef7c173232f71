----------------------------- MODULE ChainHold -----------------------------
(***************************************************************************)
(* tools/devicebench: how a chain command (`chain.sh run`, `cleanup`) and  *)
(* its keeper (keeper.sh, a process of its own that owns the hold) work    *)
(* together over the files of one round dir: HOLD_ACQUIRED, RELEASE_HOLD,  *)
(* HOLD_RELEASED, GAVE_UP, chain.pid and keeper.pid.  The commands of a    *)
(* round are started one after another by a person, each at most once, and *)
(* command c starts keeper c when it takes a hold.                         *)
(*                                                                         *)
(* The line is left to WaitingLine: a waiting keeper gets the hold when    *)
(* the hold file is absent.  The phone is reduced to whether adb sees it   *)
(* and whether the lane's app and files are on it; the legs are one phase. *)
(***************************************************************************)
EXTENDS Naturals

CONSTANTS
  Cmds,           \* the commands of the round
  Other,          \* another lane's driver, with a hold of its own
  Nobody,
  Rule,           \* when a person starts a command: "one" at a time; once
                  \* keepers and orphans are gone as well ("last"); a run with
                  \* no command alive and a cleanup at any time but the first
                  \* moment of another command ("cleanup"); or then too ("any")
  Timely,         \* do commands end before their keeper's limit?
  KeepersMortal   \* may a keeper be killed (the Mac restarts)?

ASSUME ChainAssumption ==
  /\ Other \notin Cmds /\ Nobody \notin Cmds /\ Other # Nobody
  /\ Rule \in {"one", "last", "cleanup", "any"}
  /\ Timely \in BOOLEAN /\ KeepersMortal \in BOOLEAN

VARIABLES
  cpc,        \* where each command is
  kind,       \* what it is: run or cleanup
  outcome,    \* how it ended: ok (CHAIN_DONE, or a cleanup with no
              \* CHAIN_STOPPED), stopped, or left: the phone left its cleanup
  kpc,        \* where each keeper is
  hold,       \* the hold file: Nobody or the owner it names
  acquired,   \* R/HOLD_ACQUIRED exists
  asked,      \* R/RELEASE_HOLD exists
  released,   \* R/HOLD_RELEASED exists
  gaveUp,     \* R/GAVE_UP exists
  chainPid,   \* R/chain.pid
  keeperPid,  \* R/keeper.pid
  seen,       \* the two pids a cleanup has read and not yet judged
  orphan,     \* what goes on without a killed command: its leg, its cleanup
  present,    \* adb sees the phone
  dirty       \* the app, the stage dir or their files are on the phone

files == <<acquired, asked, released, gaveUp>>
pids  == <<chainPid, keeperPid>>
phone == <<present, dirty>>
cleanupVars == <<seen, orphan>>
vars  == <<cpc, kind, outcome, kpc, hold, files, pids, cleanupVars, phone>>

CmdPhases == {"off", "name", "look", "claim", "see", "inputs", "take", "poll",
              "setup", "legs", "clean", "exit", "tell", "wait", "late", "end"}
KeeperPhases == {"off", "boot", "line", "mark", "keep", "free", "unmark", "tell", "end"}

CmdAlive(c) == cpc[c] \notin {"off", "end"}
KeeperAlive(k) == kpc[k] \notin {"off", "end"}

\* The commands that have not yet written their pid into chain.pid.
Starting == {c \in Cmds : cpc[c] \in {"name", "look", "claim"}}

\* The killed commands whose leg or cleanup goes on.
LeftBehind == {c \in Cmds : orphan[c] # "none"}

PidPairs == [chain : Cmds \cup {Nobody}, keeper : Cmds \cup {Nobody}]
NoPids == [chain |-> Nobody, keeper |-> Nobody]

Init ==
  /\ cpc = [c \in Cmds |-> "off"]
  /\ kind = [c \in Cmds |-> "none"]
  /\ outcome = [c \in Cmds |-> "none"]
  /\ kpc = [c \in Cmds |-> "off"]
  /\ hold \in {Nobody, Other}
  /\ acquired = FALSE /\ asked = FALSE /\ released = FALSE /\ gaveUp = FALSE
  /\ chainPid = Nobody /\ keeperPid = Nobody
  /\ seen = [c \in Cmds |-> NoPids]
  /\ orphan = [c \in Cmds |-> "none"]
  /\ present \in BOOLEAN /\ dirty = FALSE

Goto(c, place) == cpc' = [cpc EXCEPT ![c] = place]
KeeperTo(k, place) == kpc' = [kpc EXCEPT ![k] = place]
Ended(c, how) == outcome' = [outcome EXCEPT ![c] = how]

-----------------------------------------------------------------------------
(* The command *)

\* What a person sees to.  A cleanup may come under the live hold of a dead
\* chain, unless the chain has asked for its release.
MayStart(what) ==
  /\ \/ \A c \in Cmds : ~CmdAlive(c)
     \/ what = "cleanup" /\ Rule = "cleanup" /\ Starting = {}
     \/ what = "cleanup" /\ Rule = "any"
  /\ Rule = "last" =>
       /\ LeftBehind = {}
       /\ \A k \in Cmds : KeeperAlive(k) => what = "cleanup" /\ kpc[k] = "keep" /\ ~asked

Started(c, what) ==
  /\ cpc[c] = "off" /\ MayStart(what)
  /\ kind' = [kind EXCEPT ![c] = what]

\* run_chain: it removes the files of the last one ...
StartRun(c) ==
  /\ Started(c, "run")
  /\ asked' = FALSE
  /\ Goto(c, "name")
  /\ UNCHANGED <<outcome, kpc, hold, acquired, released, gaveUp, pids, cleanupVars, phone>>

\* ... and writes chain.pid, with no look at an older one.
NameRun(c) ==
  /\ cpc[c] = "name"
  /\ chainPid' = c
  /\ Goto(c, "inputs")
  /\ UNCHANGED <<kind, outcome, kpc, hold, files, keeperPid, cleanupVars, phone>>

\* check_inputs, the plan's tags: exit 5 takes no hold.
Inputs(c) ==
  /\ cpc[c] = "inputs"
  /\ \/ Goto(c, "take") /\ UNCHANGED outcome
     \/ Goto(c, "end") /\ Ended(c, "stopped")
  /\ UNCHANGED <<kind, kpc, hold, files, pids, cleanupVars, phone>>

\* cleanup_cmd reads both pid files ...
StartCleanup(c) ==
  /\ Started(c, "cleanup")
  /\ seen' = [seen EXCEPT ![c] = [chain |-> chainPid, keeper |-> keeperPid]]
  /\ Goto(c, "look")
  /\ UNCHANGED <<outcome, kpc, hold, files, pids, orphan, phone>>

\* Mutant: no look at the chain.
LookBlind(c) ==
  /\ cpc[c] = "look"
  /\ Goto(c, "claim")
  /\ UNCHANGED <<kind, outcome, kpc, hold, files, pids, cleanupVars, phone>>

\* ... never goes on under a live chain of the round (kill -0, ps) ...
Look(c) ==
  /\ cpc[c] = "look"
  /\ IF seen[c].chain # Nobody /\ CmdAlive(seen[c].chain)
     THEN Goto(c, "end") /\ Ended(c, "stopped") /\ seen' = [seen EXCEPT ![c] = NoPids]
     ELSE Goto(c, "claim") /\ UNCHANGED <<outcome, seen>>
  /\ UNCHANGED <<kind, kpc, hold, files, pids, orphan, phone>>

\* ... writes its own pid ...
Claim(c) ==
  /\ cpc[c] = "claim"
  /\ chainPid' = c
  /\ Goto(c, "see")
  /\ UNCHANGED <<kind, outcome, kpc, hold, files, keeperPid, cleanupVars, phone>>

\* ... and uses the live hold of a dead chain when there is one.
See(c) ==
  /\ cpc[c] = "see"
  /\ Goto(c, IF acquired /\ seen[c].keeper # Nobody /\ KeeperAlive(seen[c].keeper)
             THEN "setup" ELSE "take")
  /\ seen' = [seen EXCEPT ![c] = NoPids]
  /\ UNCHANGED <<kind, outcome, kpc, hold, files, pids, orphan, phone>>

\* take_hold: HOLD_ACQUIRED is left to the new keeper to remove.
TakeHold(c) ==
  /\ cpc[c] = "take"
  /\ asked' = FALSE /\ released' = FALSE /\ gaveUp' = FALSE
  /\ keeperPid' = c
  /\ KeeperTo(c, "boot")
  /\ Goto(c, "poll")
  /\ UNCHANGED <<kind, outcome, hold, acquired, chainPid, cleanupVars, phone>>

\* `until [ -f HOLD_ACQUIRED ]`, then GAVE_UP, then the keeper's pid.
Poll(c) ==
  /\ cpc[c] = "poll"
  /\ \/ acquired /\ Goto(c, "setup") /\ UNCHANGED outcome
     \/ /\ ~acquired
        /\ gaveUp \/ ~KeeperAlive(keeperPid)
        /\ Goto(c, "end") /\ Ended(c, "stopped")
  /\ UNCHANGED <<kind, kpc, hold, files, pids, cleanupVars, phone>>

\* The phone is there and no other session uses it: the app is installed
\* (or not: "exit").  `present` fails: hard_stop.  A cleanup goes on at once.
Setup(c) ==
  /\ cpc[c] = "setup"
  /\ \/ ~present /\ Goto(c, "exit") /\ UNCHANGED dirty
     \/ present /\ kind[c] = "cleanup" /\ Goto(c, "clean") /\ UNCHANGED dirty
     \/ /\ present /\ kind[c] = "run"
        /\ \/ Goto(c, "legs") \/ Goto(c, "exit")
        /\ dirty' = TRUE
  /\ UNCHANGED <<kind, outcome, kpc, hold, files, pids, cleanupVars, present>>

\* transfer_check finds another session's job: CLEANED=1, exit 5, release.
OtherJob(c) ==
  /\ cpc[c] = "setup" /\ present /\ kind[c] = "run"
  /\ Goto(c, "tell") /\ Ended(c, "stopped")
  /\ UNCHANGED <<kind, kpc, hold, files, pids, cleanupVars, phone>>

\* The legs of the plan; a hard stop, a signal or a lost phone ends them.
Legs(c) ==
  /\ cpc[c] = "legs"
  /\ \/ Goto(c, "clean")
     \/ Goto(c, "exit")
  /\ UNCHANGED <<kind, outcome, kpc, hold, files, pids, cleanupVars, phone>>

\* What `run.sh cleanup` does to the phone: it refuses (exit 4) without
\* HOLD_ACQUIRED and exits 9 without the phone; of its three calls any may
\* fail, with the phone there or gone for a while, and nothing looks at it.
Removal ==
  IF acquired /\ present
  THEN dirty' \in {dirty, FALSE} /\ present' \in BOOLEAN
  ELSE UNCHANGED phone

\* A run stops hard on the 9 and cleans in its exit trap, before release_hold;
\* cleanup_cmd goes on to release_hold, and cleans in its exit trap after it.
Clean(c) ==
  /\ cpc[c] = "clean"
  /\ Removal
  /\ \/ /\ acquired /\ ~present /\ kind[c] = "run"
        /\ Goto(c, "exit") /\ UNCHANGED outcome
     \/ /\ acquired /\ ~present /\ kind[c] = "cleanup"
        /\ Goto(c, "tell") /\ Ended(c, "left")
     \/ /\ ~acquired \/ present
        /\ Goto(c, "tell") /\ Ended(c, "ok")
  /\ UNCHANGED <<kind, kpc, hold, files, pids, cleanupVars>>

\* on_exit with CLEANED=0: once more if the phone is there.
Exit(c) ==
  /\ cpc[c] = "exit"
  /\ IF present THEN Removal ELSE UNCHANGED phone
  /\ Goto(c, "tell") /\ Ended(c, "stopped")
  /\ UNCHANGED <<kind, kpc, hold, files, pids, cleanupVars>>

\* release_hold: ask, then wait up to 30 s for HOLD_RELEASED.
Tell(c) ==
  /\ cpc[c] = "tell"
  /\ asked' = TRUE
  /\ Goto(c, "wait")
  /\ UNCHANGED <<kind, outcome, kpc, hold, acquired, released, gaveUp, pids, cleanupVars, phone>>

AfterRelease(c) == Goto(c, IF outcome[c] = "left" THEN "late" ELSE "end")

SeeReleased(c) ==
  /\ cpc[c] = "wait" /\ released
  /\ AfterRelease(c)
  /\ UNCHANGED <<kind, outcome, kpc, hold, files, pids, cleanupVars, phone>>

StopWaiting(c) ==
  /\ cpc[c] = "wait" /\ ~released
  /\ AfterRelease(c)
  /\ UNCHANGED <<kind, outcome, kpc, hold, files, pids, cleanupVars, phone>>

\* cleanup_cmd's exit trap: CLEANED is still 0, the hold given back or not.
Late(c) ==
  /\ cpc[c] = "late"
  /\ IF present THEN Removal ELSE UNCHANGED phone
  /\ Goto(c, "end")
  /\ UNCHANGED <<kind, outcome, kpc, hold, files, pids, cleanupVars>>

Step(c) ==
  \/ NameRun(c) \/ Look(c) \/ Claim(c) \/ See(c) \/ Inputs(c) \/ TakeHold(c)
  \/ Poll(c) \/ Setup(c) \/ OtherJob(c) \/ Legs(c) \/ Clean(c) \/ Exit(c)
  \/ Tell(c) \/ SeeReleased(c) \/ StopWaiting(c) \/ Late(c)

\* What a command runs as a process of its own (run.sh), the hold being its
\* own: a leg, with the monitor beside it, or the cleanup.
Child(c) ==
  CASE cpc[c] = "legs" -> "leg"
    [] cpc[c] \in {"clean", "exit"} /\ acquired /\ present -> "cleanup"
    [] OTHER -> "none"

\* kill -9, which leaves the child; or Ctrl-C before the exit trap is set.
Kill(c) ==
  /\ CmdAlive(c)
  /\ Goto(c, "end") /\ Ended(c, "stopped")
  /\ \E child \in {Child(c), "none"} : orphan' = [orphan EXCEPT ![c] = child]
  /\ seen' = [seen EXCEPT ![c] = NoPids]
  /\ UNCHANGED <<kind, kpc, hold, files, pids, phone>>

\* A run.sh without its chain goes on to its own limit, or to its last call.
OrphanEnds(c) ==
  /\ orphan[c] # "none"
  /\ IF orphan[c] = "cleanup" /\ present THEN dirty' \in {dirty, FALSE} ELSE UNCHANGED dirty
  /\ orphan' = [orphan EXCEPT ![c] = "none"]
  /\ UNCHANGED <<cpc, kind, outcome, kpc, hold, files, pids, seen, present>>

-----------------------------------------------------------------------------
(* The keeper *)

Boot(k) ==
  /\ kpc[k] = "boot"
  /\ acquired' = FALSE /\ asked' = FALSE /\ released' = FALSE /\ gaveUp' = FALSE
  /\ KeeperTo(k, "line")
  /\ UNCHANGED <<cpc, kind, outcome, hold, pids, cleanupVars, phone>>

\* queue_cli.py wait: only an absent hold file lets it acquire.
Acquire(k) ==
  /\ kpc[k] = "line" /\ hold = Nobody
  /\ hold' = k
  /\ KeeperTo(k, "mark")
  /\ UNCHANGED <<cpc, kind, outcome, files, pids, cleanupVars, phone>>

GiveUp(k) ==
  /\ kpc[k] = "line"
  /\ gaveUp' = TRUE
  /\ KeeperTo(k, "end")
  /\ UNCHANGED <<cpc, kind, outcome, hold, acquired, asked, released, pids, cleanupVars, phone>>

Mark(k) ==
  /\ kpc[k] = "mark"
  /\ acquired' = TRUE
  /\ KeeperTo(k, "keep")
  /\ UNCHANGED <<cpc, kind, outcome, hold, asked, released, gaveUp, pids, cleanupVars, phone>>

\* HOLD_LIMIT seconds are over, with or without a command at work.
LimitReached == Timely => LeftBehind = {} /\ \A c \in Cmds : ~CmdAlive(c)

\* Mutant: the loop has no limit.
StopWhenAsked(k) ==
  /\ kpc[k] = "keep"
  /\ asked
  /\ KeeperTo(k, "free")
  /\ UNCHANGED <<cpc, kind, outcome, hold, files, pids, cleanupVars, phone>>

\* Mutant: it tells before it frees.
StopKeepingTold(k) ==
  /\ kpc[k] = "keep"
  /\ asked \/ LimitReached
  /\ released' = TRUE
  /\ KeeperTo(k, "free")
  /\ UNCHANGED <<cpc, kind, outcome, hold, acquired, asked, gaveUp, pids, cleanupVars, phone>>

StopKeeping(k) ==
  /\ kpc[k] = "keep"
  /\ asked \/ LimitReached
  /\ KeeperTo(k, "free")
  /\ UNCHANGED <<cpc, kind, outcome, hold, files, pids, cleanupVars, phone>>

\* hold_cli.py release: only the keeper's own hold.
Free(k) ==
  /\ kpc[k] = "free"
  /\ hold' = IF hold = k THEN Nobody ELSE hold
  /\ KeeperTo(k, "unmark")
  /\ UNCHANGED <<cpc, kind, outcome, files, pids, cleanupVars, phone>>

\* Mutant: HOLD_ACQUIRED stays behind.
UnmarkNot(k) ==
  /\ kpc[k] = "unmark"
  /\ KeeperTo(k, "tell")
  /\ UNCHANGED <<cpc, kind, outcome, hold, files, pids, cleanupVars, phone>>

Unmark(k) ==
  /\ kpc[k] = "unmark"
  /\ acquired' = FALSE
  /\ KeeperTo(k, "tell")
  /\ UNCHANGED <<cpc, kind, outcome, hold, asked, released, gaveUp, pids, cleanupVars, phone>>

TellReleased(k) ==
  /\ kpc[k] = "tell"
  /\ released' = TRUE
  /\ KeeperTo(k, "end")
  /\ UNCHANGED <<cpc, kind, outcome, hold, acquired, asked, gaveUp, pids, cleanupVars, phone>>

KeeperStep(k) ==
  \/ Boot(k) \/ Acquire(k) \/ GiveUp(k) \/ Mark(k) \/ StopKeeping(k)
  \/ Free(k) \/ Unmark(k) \/ TellReleased(k)

KillKeeper(k) ==
  /\ KeepersMortal /\ KeeperAlive(k)
  /\ KeeperTo(k, "end")
  /\ UNCHANGED <<cpc, kind, outcome, hold, files, pids, cleanupVars, phone>>

-----------------------------------------------------------------------------
\* Another lane takes a free phone and gives it back.
OtherTakes ==
  /\ hold = Nobody
  /\ hold' = Other
  /\ UNCHANGED <<cpc, kind, outcome, kpc, files, pids, cleanupVars, phone>>

OtherReleases ==
  /\ hold = Other
  /\ hold' = Nobody
  /\ UNCHANGED <<cpc, kind, outcome, kpc, files, pids, cleanupVars, phone>>

\* The phone leaves adb and comes back.
Plug ==
  /\ present' = ~present
  /\ UNCHANGED <<cpc, kind, outcome, kpc, hold, files, pids, cleanupVars, dirty>>

Next ==
  \/ \E c \in Cmds :
       \/ StartRun(c) \/ StartCleanup(c) \/ Step(c) \/ Kill(c) \/ OrphanEnds(c)
       \/ KeeperStep(c) \/ KillKeeper(c)
  \/ OtherTakes \/ OtherReleases \/ Plug

Spec == Init /\ [][Next]_vars

\* Running commands, what they leave and keepers go on; neither a person, nor
\* another lane, nor the phone owes anybody a step.
FairSpec ==
  /\ Spec
  /\ \A c \in Cmds : WF_vars(Step(c)) /\ WF_vars(KeeperStep(c)) /\ WF_vars(OrphanEnds(c))

-----------------------------------------------------------------------------
(* Properties *)

TypeOK ==
  /\ cpc \in [Cmds -> CmdPhases]
  /\ kind \in [Cmds -> {"none", "run", "cleanup"}]
  /\ outcome \in [Cmds -> {"none", "ok", "stopped", "left"}]
  /\ kpc \in [Cmds -> KeeperPhases]
  /\ hold \in Cmds \cup {Other, Nobody}
  /\ acquired \in BOOLEAN /\ asked \in BOOLEAN
  /\ released \in BOOLEAN /\ gaveUp \in BOOLEAN
  /\ chainPid \in Cmds \cup {Nobody} /\ keeperPid \in Cmds \cup {Nobody}
  /\ seen \in [Cmds -> PidPairs]
  /\ orphan \in [Cmds -> {"none", "leg", "cleanup"}]
  /\ present \in BOOLEAN /\ dirty \in BOOLEAN

\* The commands between HOLD_ACQUIRED seen and RELEASE_HOLD written.
Using == {c \in Cmds : cpc[c] \in {"setup", "legs", "clean", "exit", "tell"}}

\* ... and what killed ones have left at work.
AtWork == Using \cup LeftBehind

\* A command uses the phone only while a live keeper of its round holds it
\* and says so, as run.sh asks before every leg and before the cleanup; so
\* does what a killed command leaves at work.
UnderHold ==
  AtWork # {} => acquired /\ \E k \in Cmds : hold = k /\ kpc[k] = "keep"

\* A cleanup asked for at any time never works on the phone beside the run,
\* or the cleanup, that was there before it.
OneAtWork == \A c, d \in Using : c = d

\* ... nor beside the leg of a run that was killed.
NobodyBeside == \A c, d \in AtWork : c = d

\* What the round has at work and another lane never use the phone at the
\* same time, nor do two commands of the round.
PhoneUsers == AtWork \cup (IF hold = Other THEN {Other} ELSE {})
Use == INSTANCE PhoneUse WITH Procs <- Cmds \cup {Other}, users <- PhoneUsers
PhoneShared == [][Use!Next]_PhoneUsers

\* What a command removes from the phone it removes while the round holds it.
RemovesUnderHold == [][dirty /\ ~dirty' => hold \in Cmds]_vars

\* A command that ends well (CHAIN_DONE, cleanup's exit 0) has removed the
\* lane's app and files from the phone ...
EndsWell(c) == outcome[c] # "ok" /\ outcome'[c] = "ok"
DoneMeansClean == [][\A c \in Cmds : EndsWell(c) => ~dirty']_vars

\* ... or its cleanup was not refused for want of HOLD_ACQUIRED, at least.
DoneMeansTried == [][\A c \in Cmds : EndsWell(c) => acquired]_vars

\* "keeper released the hold": no keeper of the round has it by then, be the
\* HOLD_RELEASED seen of this command's keeper or of an earlier one.
ReleasedMeansFree ==
  [][\A c \in Cmds : SeeReleased(c) => hold \notin Cmds]_vars

\* A hold ends, also when the chain it was taken for dies (only a keeper that
\* is killed leaves one behind), and a command ends, whatever becomes of its
\* keeper and of the files.
HoldEnds == \A k \in Cmds : hold = k ~> (hold # k \/ ~KeeperAlive(k))
CommandEnds == \A c \in Cmds : CmdAlive(c) ~> ~CmdAlive(c)
RoundEnds == HoldEnds /\ CommandEnds
=============================================================================
