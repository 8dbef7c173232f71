-------------------------- MODULE ChainHold_proofs --------------------------
(***************************************************************************)
(* For any number of commands of a round, when a person starts a command   *)
(* only after the last command, its keeper and what it left are gone       *)
(* ("last"), commands end before their keeper's limit, and keepers are not *)
(* killed: the phone is used under the round's own hold, shared with no    *)
(* other lane, and what release_hold reports is true.  Commands may be     *)
(* killed at any step, and the phone may leave adb at any step.            *)
(*                                                                         *)
(* The second part is about the hold file the keepers and other drivers    *)
(* share, DeviceHold.                                                      *)
(***************************************************************************)
EXTENDS ChainHold, DeviceHold, TLAPS

\* The circumstances under which the protocol is exclusive.
Kept == Rule = "last" /\ Timely /\ ~KeepersMortal

\* One command is alive at most, and the pid files name it, once it has
\* written its own, and the live keeper.
PidsName ==
  /\ \A c, d \in Cmds : CmdAlive(c) /\ CmdAlive(d) => c = d
  /\ \A c \in Cmds : CmdAlive(c) /\ c \notin Starting => chainPid = c
  /\ \A k \in Cmds : KeeperAlive(k) => keeperPid = k

\* The hold file and HOLD_ACQUIRED say what the keepers' places say.
HoldSays ==
  /\ \A k \in Cmds : hold = k <=> kpc[k] \in {"mark", "keep", "free"}
  /\ acquired <=> \E k \in Cmds : kpc[k] \in {"keep", "free", "unmark"}
  /\ released => \A k \in Cmds : ~KeeperAlive(k)

\* How far the keeper can be while a command is at each of its places; a
\* cleanup that starts finds none, or one that keeps and is not asked to stop.
InStep ==
  \A c \in Cmds :
    /\ cpc[c] \in {"name", "inputs", "take"} => \A k \in Cmds : ~KeeperAlive(k)
    /\ cpc[c] \in {"look", "claim", "see"} =>
         /\ seen[c].keeper = keeperPid
         /\ \A k \in Cmds : KeeperAlive(k) => kpc[k] = "keep" /\ ~asked
    /\ cpc[c] = "poll" =>
         ~asked /\ \A k \in Cmds : kpc[k] \notin {"free", "unmark", "tell"}
    /\ c \in AtWork => ~asked /\ \E k \in Cmds : kpc[k] = "keep"

\* A killed command leaves the phone's only user, and nobody starts beside it.
LeftAlone ==
  \A c \in LeftBehind : \A d \in Cmds : ~CmdAlive(d) /\ (d \in LeftBehind => d = c)

IInv == TypeOK /\ PidsName /\ HoldSays /\ InStep /\ LeftAlone

-----------------------------------------------------------------------------
LEMMA TypesInit == Init => TypeOK
<1>1. NoPids \in PidPairs
  BY DEF NoPids, PidPairs
<1>2. Init => seen \in [Cmds -> PidPairs] /\ orphan \in [Cmds -> {"none", "leg", "cleanup"}]
  BY <1>1 DEF Init
<1>3. Init => /\ cpc \in [Cmds -> CmdPhases] /\ kpc \in [Cmds -> KeeperPhases]
              /\ kind \in [Cmds -> {"none", "run", "cleanup"}]
              /\ outcome \in [Cmds -> {"none", "ok", "stopped", "left"}]
  BY DEF Init, CmdPhases, KeeperPhases
<1> QED BY <1>2, <1>3, ChainAssumption DEF Init, TypeOK

\* Whatever the rule, however late the commands and whoever is killed, the
\* variables keep their types.
LEMMA TypesStep == ASSUME TypeOK, [Next]_vars PROVE TypeOK'
<1> USE ChainAssumption DEF TypeOK, CmdPhases, KeeperPhases, files, pids, phone, cleanupVars,
        Goto, KeeperTo, Ended
<1>0. /\ NoPids \in PidPairs
      /\ [chain |-> chainPid, keeper |-> keeperPid] \in PidPairs
      /\ \A c \in Cmds : Child(c) \in {"none", "leg", "cleanup"}
  BY DEF NoPids, PidPairs, Child
<1>1. ASSUME NEW c \in Cmds, StartRun(c) \/ StartCleanup(c) PROVE TypeOK'
  <2>1. CASE StartRun(c) BY <2>1 DEF StartRun, Started
  <2>2. CASE StartCleanup(c) BY <1>0, <2>2 DEF StartCleanup, Started
  <2> QED BY <1>1, <2>1, <2>2
<1>2. ASSUME NEW c \in Cmds, Step(c) PROVE TypeOK'
  <2>1. CASE NameRun(c) BY <2>1 DEF NameRun
  <2>2. CASE Look(c) BY <1>0, <2>2 DEF Look
  <2>3. CASE Claim(c) BY <2>3 DEF Claim
  <2>4. CASE See(c) BY <1>0, <2>4 DEF See
  <2>5. CASE Inputs(c) BY <2>5 DEF Inputs
  <2>6. CASE TakeHold(c) BY <2>6 DEF TakeHold
  <2>7. CASE Poll(c) BY <2>7 DEF Poll
  <2>8. CASE Setup(c) BY <2>8 DEF Setup
  <2>9. CASE OtherJob(c) BY <2>9 DEF OtherJob
  <2>10. CASE Legs(c) BY <2>10 DEF Legs
  <2>11. CASE Clean(c) BY <2>11 DEF Clean, Removal
  <2>12. CASE Exit(c) BY <2>12 DEF Exit, Removal
  <2>13. CASE Tell(c) BY <2>13 DEF Tell
  <2>14. CASE SeeReleased(c) BY <2>14 DEF SeeReleased, AfterRelease
  <2>15. CASE StopWaiting(c) BY <2>15 DEF StopWaiting, AfterRelease
  <2>16. CASE Late(c) BY <2>16 DEF Late, Removal
  <2> QED BY <1>2, <2>1, <2>2, <2>3, <2>4, <2>5, <2>6, <2>7, <2>8, <2>9, <2>10, <2>11,
             <2>12, <2>13, <2>14, <2>15, <2>16 DEF Step
<1>3. ASSUME NEW c \in Cmds, Kill(c) \/ OrphanEnds(c) PROVE TypeOK'
  <2>1. CASE Kill(c) BY <1>0, <2>1 DEF Kill
  <2>2. CASE OrphanEnds(c) BY <2>2 DEF OrphanEnds
  <2> QED BY <1>3, <2>1, <2>2
<1>4. ASSUME NEW k \in Cmds, KeeperStep(k) \/ KillKeeper(k) PROVE TypeOK'
  <2>1. CASE Boot(k) \/ Acquire(k) \/ GiveUp(k) \/ Mark(k)
    BY <2>1 DEF Boot, Acquire, GiveUp, Mark
  <2>2. CASE StopKeeping(k) \/ Free(k) \/ Unmark(k) \/ TellReleased(k) \/ KillKeeper(k)
    BY <2>2 DEF StopKeeping, Free, Unmark, TellReleased, KillKeeper
  <2> QED BY <1>4, <2>1, <2>2 DEF KeeperStep
<1>5. CASE OtherTakes \/ OtherReleases \/ Plug
  BY <1>5 DEF OtherTakes, OtherReleases, Plug
<1>6. CASE UNCHANGED vars
  BY <1>6 DEF vars
<1> QED BY <1>1, <1>2, <1>3, <1>4, <1>5, <1>6 DEF Next

\* The protocol's variables have their types, under every rule.
THEOREM RoundTypes == Spec => []TypeOK
BY TypesInit, TypesStep, PTL DEF Spec

\* The invariant holds before the first command: no keeper has been started
\* and the hold, if there is one, is another lane's.
LEMMA KeptInit == Init => IInv
<1> USE ChainAssumption DEF Init
<1>1. Init => TypeOK BY TypesInit
<1>2. Init => PidsName BY DEF PidsName, CmdAlive, KeeperAlive
<1>3. Init => HoldSays BY DEF HoldSays, KeeperAlive
<1>4. Init => InStep /\ LeftAlone
  BY DEF InStep, LeftAlone, AtWork, Using, LeftBehind
<1> QED BY <1>1, <1>2, <1>3, <1>4 DEF IInv

\* Every step keeps it, whatever is killed and whenever the phone leaves.
LEMMA KeptStep == ASSUME Kept, IInv, [Next]_vars PROVE IInv'
<1>0. TypeOK /\ TypeOK'
  BY TypesStep DEF IInv
<1> USE ChainAssumption, <1>0
    DEF Kept, IInv, PidsName, HoldSays, InStep, LeftAlone, AtWork, Using, LeftBehind,
        Starting, CmdAlive, KeeperAlive, CmdPhases, KeeperPhases, files, pids, phone, cleanupVars
<1>1. ASSUME NEW c \in Cmds, StartRun(c) PROVE IInv'
  <2>1. PidsName' BY <1>1 DEF TypeOK, StartRun, Started, MayStart, Goto
  <2>2. HoldSays' BY <1>1 DEF TypeOK, StartRun, Started, MayStart, Goto
  <2>3. InStep' BY <1>1 DEF TypeOK, StartRun, Started, MayStart, Goto
  <2>4. LeftAlone' BY <1>1 DEF TypeOK, StartRun, Started, MayStart, Goto
  <2> QED BY <2>1, <2>2, <2>3, <2>4
<1>2. ASSUME NEW c \in Cmds, NameRun(c) PROVE IInv'
  <2>1. PidsName' BY <1>2 DEF TypeOK, NameRun, Goto
  <2>2. HoldSays' BY <1>2 DEF TypeOK, NameRun, Goto
  <2>3. InStep' BY <1>2 DEF TypeOK, NameRun, Goto
  <2>4. LeftAlone' BY <1>2 DEF TypeOK, NameRun, Goto
  <2> QED BY <2>1, <2>2, <2>3, <2>4
<1>3. ASSUME NEW c \in Cmds, Inputs(c) PROVE IInv'
  <2>1. PidsName' BY <1>3 DEF TypeOK, Inputs, Goto, Ended
  <2>2. HoldSays' BY <1>3 DEF TypeOK, Inputs, Goto, Ended
  <2>3. InStep' BY <1>3 DEF TypeOK, Inputs, Goto, Ended
  <2>4. LeftAlone' BY <1>3 DEF TypeOK, Inputs, Goto, Ended
  <2> QED BY <2>1, <2>2, <2>3, <2>4
<1>4. ASSUME NEW c \in Cmds, StartCleanup(c) PROVE IInv'
  <2>1. PidsName' BY <1>4 DEF TypeOK, StartCleanup, Started, MayStart, Goto
  <2>2. HoldSays' BY <1>4 DEF TypeOK, StartCleanup, Started, MayStart, Goto
  <2>3. InStep' BY <1>4 DEF TypeOK, StartCleanup, Started, MayStart, Goto
  <2>4. LeftAlone' BY <1>4 DEF TypeOK, StartCleanup, Started, MayStart, Goto
  <2> QED BY <2>1, <2>2, <2>3, <2>4
<1>5. ASSUME NEW c \in Cmds, Look(c) PROVE IInv'
  <2>1. PidsName' BY <1>5 DEF TypeOK, Look, Goto, Ended, NoPids
  <2>2. HoldSays' BY <1>5 DEF TypeOK, Look, Goto, Ended, NoPids
  <2>3. InStep' BY <1>5 DEF TypeOK, Look, Goto, Ended, NoPids
  <2>4. LeftAlone' BY <1>5 DEF TypeOK, Look, Goto, Ended, NoPids
  <2> QED BY <2>1, <2>2, <2>3, <2>4
<1>6. ASSUME NEW c \in Cmds, Claim(c) PROVE IInv'
  <2>1. PidsName' BY <1>6 DEF TypeOK, Claim, Goto
  <2>2. HoldSays' BY <1>6 DEF TypeOK, Claim, Goto
  <2>3. InStep' BY <1>6 DEF TypeOK, Claim, Goto
  <2>4. LeftAlone' BY <1>6 DEF TypeOK, Claim, Goto
  <2> QED BY <2>1, <2>2, <2>3, <2>4
<1>7. ASSUME NEW c \in Cmds, See(c) PROVE IInv'
  <2>1. PidsName' BY <1>7 DEF TypeOK, See, Goto, NoPids
  <2>2. HoldSays' BY <1>7 DEF TypeOK, See, Goto, NoPids
  <2>3. InStep' BY <1>7 DEF TypeOK, See, Goto, NoPids
  <2>4. LeftAlone' BY <1>7 DEF TypeOK, See, Goto, NoPids
  <2> QED BY <2>1, <2>2, <2>3, <2>4
<1>8. ASSUME NEW c \in Cmds, TakeHold(c) PROVE IInv'
  <2>1. PidsName' BY <1>8 DEF TypeOK, TakeHold, Goto, KeeperTo
  <2>2. HoldSays' BY <1>8 DEF TypeOK, TakeHold, Goto, KeeperTo
  <2>3. InStep' BY <1>8 DEF TypeOK, TakeHold, Goto, KeeperTo
  <2>4. LeftAlone' BY <1>8 DEF TypeOK, TakeHold, Goto, KeeperTo
  <2> QED BY <2>1, <2>2, <2>3, <2>4
<1>9. ASSUME NEW c \in Cmds, Poll(c) PROVE IInv'
  <2>1. PidsName' BY <1>9 DEF TypeOK, Poll, Goto, Ended
  <2>2. HoldSays' BY <1>9 DEF TypeOK, Poll, Goto, Ended
  <2>3. InStep' BY <1>9 DEF TypeOK, Poll, Goto, Ended
  <2>4. LeftAlone' BY <1>9 DEF TypeOK, Poll, Goto, Ended
  <2> QED BY <2>1, <2>2, <2>3, <2>4
<1>10. ASSUME NEW c \in Cmds, Setup(c) PROVE IInv'
  <2>1. PidsName' BY <1>10 DEF TypeOK, Setup, Goto
  <2>2. HoldSays' BY <1>10 DEF TypeOK, Setup, Goto
  <2>3. InStep' BY <1>10 DEF TypeOK, Setup, Goto
  <2>4. LeftAlone' BY <1>10 DEF TypeOK, Setup, Goto
  <2> QED BY <2>1, <2>2, <2>3, <2>4
<1>11. ASSUME NEW c \in Cmds, OtherJob(c) PROVE IInv'
  <2>1. PidsName' BY <1>11 DEF TypeOK, OtherJob, Goto, Ended
  <2>2. HoldSays' BY <1>11 DEF TypeOK, OtherJob, Goto, Ended
  <2>3. InStep' BY <1>11 DEF TypeOK, OtherJob, Goto, Ended
  <2>4. LeftAlone' BY <1>11 DEF TypeOK, OtherJob, Goto, Ended
  <2> QED BY <2>1, <2>2, <2>3, <2>4
<1>12. ASSUME NEW c \in Cmds, Legs(c) PROVE IInv'
  <2>1. PidsName' BY <1>12 DEF TypeOK, Legs, Goto
  <2>2. HoldSays' BY <1>12 DEF TypeOK, Legs, Goto
  <2>3. InStep' BY <1>12 DEF TypeOK, Legs, Goto
  <2>4. LeftAlone' BY <1>12 DEF TypeOK, Legs, Goto
  <2> QED BY <2>1, <2>2, <2>3, <2>4
<1>13. ASSUME NEW c \in Cmds, Clean(c) PROVE IInv'
  <2>1. PidsName' BY <1>13 DEF TypeOK, Clean, Goto, Ended, Removal
  <2>2. HoldSays' BY <1>13 DEF TypeOK, Clean, Goto, Ended, Removal
  <2>3. InStep' BY <1>13 DEF TypeOK, Clean, Goto, Ended, Removal
  <2>4. LeftAlone' BY <1>13 DEF TypeOK, Clean, Goto, Ended, Removal
  <2> QED BY <2>1, <2>2, <2>3, <2>4
<1>14. ASSUME NEW c \in Cmds, Exit(c) PROVE IInv'
  <2>1. PidsName' BY <1>14 DEF TypeOK, Exit, Goto, Ended, Removal
  <2>2. HoldSays' BY <1>14 DEF TypeOK, Exit, Goto, Ended, Removal
  <2>3. InStep' BY <1>14 DEF TypeOK, Exit, Goto, Ended, Removal
  <2>4. LeftAlone' BY <1>14 DEF TypeOK, Exit, Goto, Ended, Removal
  <2> QED BY <2>1, <2>2, <2>3, <2>4
<1>15. ASSUME NEW c \in Cmds, Tell(c) PROVE IInv'
  <2>1. PidsName' BY <1>15 DEF TypeOK, Tell, Goto
  <2>2. HoldSays' BY <1>15 DEF TypeOK, Tell, Goto
  <2>3. InStep' BY <1>15 DEF TypeOK, Tell, Goto
  <2>4. LeftAlone' BY <1>15 DEF TypeOK, Tell, Goto
  <2> QED BY <2>1, <2>2, <2>3, <2>4
<1>16. ASSUME NEW c \in Cmds, SeeReleased(c) PROVE IInv'
  <2>1. PidsName' BY <1>16 DEF TypeOK, SeeReleased, AfterRelease, Goto
  <2>2. HoldSays' BY <1>16 DEF TypeOK, SeeReleased, AfterRelease, Goto
  <2>3. InStep' BY <1>16 DEF TypeOK, SeeReleased, AfterRelease, Goto
  <2>4. LeftAlone' BY <1>16 DEF TypeOK, SeeReleased, AfterRelease, Goto
  <2> QED BY <2>1, <2>2, <2>3, <2>4
<1>17. ASSUME NEW c \in Cmds, StopWaiting(c) PROVE IInv'
  <2>1. PidsName' BY <1>17 DEF TypeOK, StopWaiting, AfterRelease, Goto
  <2>2. HoldSays' BY <1>17 DEF TypeOK, StopWaiting, AfterRelease, Goto
  <2>3. InStep' BY <1>17 DEF TypeOK, StopWaiting, AfterRelease, Goto
  <2>4. LeftAlone' BY <1>17 DEF TypeOK, StopWaiting, AfterRelease, Goto
  <2> QED BY <2>1, <2>2, <2>3, <2>4
<1>18. ASSUME NEW c \in Cmds, Late(c) PROVE IInv'
  <2>1. PidsName' BY <1>18 DEF TypeOK, Late, Removal, Goto
  <2>2. HoldSays' BY <1>18 DEF TypeOK, Late, Removal, Goto
  <2>3. InStep' BY <1>18 DEF TypeOK, Late, Removal, Goto
  <2>4. LeftAlone' BY <1>18 DEF TypeOK, Late, Removal, Goto
  <2> QED BY <2>1, <2>2, <2>3, <2>4
<1>19. ASSUME NEW c \in Cmds, Kill(c) PROVE IInv'
  <2>1. PidsName' BY <1>19 DEF TypeOK, Kill, Child, Goto, Ended, NoPids
  <2>2. HoldSays' BY <1>19 DEF TypeOK, Kill, Child, Goto, Ended, NoPids
  <2>3. InStep' BY <1>19 DEF TypeOK, Kill, Child, Goto, Ended, NoPids
  <2>4. LeftAlone' BY <1>19 DEF TypeOK, Kill, Child, Goto, Ended, NoPids
  <2> QED BY <2>1, <2>2, <2>3, <2>4
<1>20. ASSUME NEW c \in Cmds, OrphanEnds(c) PROVE IInv'
  <2>1. PidsName' BY <1>20 DEF TypeOK, OrphanEnds
  <2>2. HoldSays' BY <1>20 DEF TypeOK, OrphanEnds
  <2>3. InStep' BY <1>20 DEF TypeOK, OrphanEnds
  <2>4. LeftAlone' BY <1>20 DEF TypeOK, OrphanEnds
  <2> QED BY <2>1, <2>2, <2>3, <2>4
<1>21. ASSUME NEW k \in Cmds, Boot(k) PROVE IInv'
  <2>1. PidsName' BY <1>21 DEF TypeOK, Boot, KeeperTo
  <2>2. HoldSays' BY <1>21 DEF TypeOK, Boot, KeeperTo
  <2>3. InStep' BY <1>21 DEF TypeOK, Boot, KeeperTo
  <2>4. LeftAlone' BY <1>21 DEF TypeOK, Boot, KeeperTo
  <2> QED BY <2>1, <2>2, <2>3, <2>4
<1>22. ASSUME NEW k \in Cmds, Acquire(k) PROVE IInv'
  <2>1. PidsName' BY <1>22 DEF TypeOK, Acquire, KeeperTo
  <2>2. HoldSays' BY <1>22 DEF TypeOK, Acquire, KeeperTo
  <2>3. InStep' BY <1>22 DEF TypeOK, Acquire, KeeperTo
  <2>4. LeftAlone' BY <1>22 DEF TypeOK, Acquire, KeeperTo
  <2> QED BY <2>1, <2>2, <2>3, <2>4
<1>23. ASSUME NEW k \in Cmds, GiveUp(k) PROVE IInv'
  <2>1. PidsName' BY <1>23 DEF TypeOK, GiveUp, KeeperTo
  <2>2. HoldSays' BY <1>23 DEF TypeOK, GiveUp, KeeperTo
  <2>3. InStep' BY <1>23 DEF TypeOK, GiveUp, KeeperTo
  <2>4. LeftAlone' BY <1>23 DEF TypeOK, GiveUp, KeeperTo
  <2> QED BY <2>1, <2>2, <2>3, <2>4
<1>24. ASSUME NEW k \in Cmds, Mark(k) PROVE IInv'
  <2>1. PidsName' BY <1>24 DEF TypeOK, Mark, KeeperTo
  <2>2. HoldSays' BY <1>24 DEF TypeOK, Mark, KeeperTo
  <2>3. InStep' BY <1>24 DEF TypeOK, Mark, KeeperTo
  <2>4. LeftAlone' BY <1>24 DEF TypeOK, Mark, KeeperTo
  <2> QED BY <2>1, <2>2, <2>3, <2>4
<1>25. ASSUME NEW k \in Cmds, StopKeeping(k) PROVE IInv'
  <2>1. PidsName' BY <1>25 DEF TypeOK, StopKeeping, KeeperTo, LimitReached
  <2>2. HoldSays' BY <1>25 DEF TypeOK, StopKeeping, KeeperTo, LimitReached
  <2>3. InStep' BY <1>25 DEF TypeOK, StopKeeping, KeeperTo, LimitReached
  <2>4. LeftAlone' BY <1>25 DEF TypeOK, StopKeeping, KeeperTo, LimitReached
  <2> QED BY <2>1, <2>2, <2>3, <2>4
<1>26. ASSUME NEW k \in Cmds, Free(k) PROVE IInv'
  <2>1. PidsName' BY <1>26 DEF TypeOK, Free, KeeperTo
  <2>2. HoldSays' BY <1>26 DEF TypeOK, Free, KeeperTo
  <2>3. InStep' BY <1>26 DEF TypeOK, Free, KeeperTo
  <2>4. LeftAlone' BY <1>26 DEF TypeOK, Free, KeeperTo
  <2> QED BY <2>1, <2>2, <2>3, <2>4
<1>27. ASSUME NEW k \in Cmds, Unmark(k) PROVE IInv'
  <2>1. PidsName' BY <1>27 DEF TypeOK, Unmark, KeeperTo
  <2>2. HoldSays' BY <1>27 DEF TypeOK, Unmark, KeeperTo
  <2>3. InStep' BY <1>27 DEF TypeOK, Unmark, KeeperTo
  <2>4. LeftAlone' BY <1>27 DEF TypeOK, Unmark, KeeperTo
  <2> QED BY <2>1, <2>2, <2>3, <2>4
<1>28. ASSUME NEW k \in Cmds, TellReleased(k) PROVE IInv'
  <2>1. PidsName' BY <1>28 DEF TypeOK, TellReleased, KeeperTo
  <2>2. HoldSays' BY <1>28 DEF TypeOK, TellReleased, KeeperTo
  <2>3. InStep' BY <1>28 DEF TypeOK, TellReleased, KeeperTo
  <2>4. LeftAlone' BY <1>28 DEF TypeOK, TellReleased, KeeperTo
  <2> QED BY <2>1, <2>2, <2>3, <2>4
<1>29. CASE OtherTakes
  BY <1>29 DEF TypeOK, OtherTakes
<1>30. CASE OtherReleases
  BY <1>30 DEF TypeOK, OtherReleases
<1>31. CASE Plug
  BY <1>31 DEF TypeOK, Plug
<1>32. CASE UNCHANGED vars
  BY <1>32 DEF vars
<1>33. \A k \in Cmds : ~KillKeeper(k)
  BY DEF KillKeeper
<1> QED
  BY <1>1, <1>2, <1>3, <1>4, <1>5, <1>6, <1>7, <1>8, <1>9, <1>10, <1>11, <1>12, <1>13,
     <1>14, <1>15, <1>16, <1>17, <1>18, <1>19, <1>20, <1>21, <1>22, <1>23, <1>24,
     <1>25, <1>26, <1>27, <1>28, <1>29, <1>30, <1>31, <1>32, <1>33
      DEF Next, Step, KeeperStep

\* What cleanup_cmd may trust: chain.pid names the live command, or the one
\* live command that has not written it yet has read the other's pid there.
LiveIsNamed ==
  /\ \A c \in Cmds : CmdAlive(c) /\ c \notin Starting => chainPid = c
  /\ \A c \in Starting : \A d \in Cmds :
       CmdAlive(d) /\ d # c => d \notin Starting /\ cpc[c] = "look" /\ seen[c].chain = d

\* When no command is started in the first moment of another, the live one
\* stays the one chain.pid names: the look of a cleanup (kill -0) and its
\* write may be apart, for nobody else writes in between.
LEMMA NamedStep ==
  ASSUME Rule # "any", TypeOK, LiveIsNamed, [Next]_vars PROVE LiveIsNamed'
<1> USE ChainAssumption DEF TypeOK, LiveIsNamed, Starting, CmdAlive, CmdPhases,
        files, pids, phone, cleanupVars, Goto
<1>1. ASSUME NEW c \in Cmds, StartRun(c) PROVE LiveIsNamed'
  BY <1>1 DEF StartRun, Started, MayStart
<1>2. ASSUME NEW c \in Cmds, StartCleanup(c) PROVE LiveIsNamed'
  BY <1>2 DEF StartCleanup, Started, MayStart
<1>3. ASSUME NEW c \in Cmds, NameRun(c) \/ Claim(c) PROVE LiveIsNamed'
  BY <1>3 DEF NameRun, Claim
<1>4. ASSUME NEW c \in Cmds, Look(c) PROVE LiveIsNamed'
  BY <1>4 DEF Look
<1>5. ASSUME NEW c \in Cmds, Kill(c) PROVE LiveIsNamed'
  BY <1>5 DEF Kill
<1>6. ASSUME NEW c \in Cmds, See(c) PROVE LiveIsNamed'
  BY <1>6 DEF See
<1>7. ASSUME NEW c \in Cmds, Inputs(c) \/ TakeHold(c) \/ Poll(c) \/ Setup(c) \/ OtherJob(c)
                \/ Legs(c) \/ Clean(c) \/ Exit(c) \/ Tell(c) \/ SeeReleased(c)
                \/ StopWaiting(c) \/ Late(c)
      PROVE LiveIsNamed'
  BY <1>7 DEF Inputs, TakeHold, Poll, Setup, OtherJob, Legs, Clean, Exit, Tell,
      SeeReleased, StopWaiting, AfterRelease, Late
<1>8. ASSUME NEW k \in Cmds, KeeperStep(k) \/ KillKeeper(k) \/ OrphanEnds(k) PROVE LiveIsNamed'
  BY <1>8 DEF KeeperStep, KillKeeper, OrphanEnds, Boot, Acquire, GiveUp, Mark, StopKeeping,
    Free, Unmark, TellReleased
<1>9. CASE OtherTakes \/ OtherReleases \/ Plug
  BY <1>9 DEF OtherTakes, OtherReleases, Plug
<1>10. CASE UNCHANGED vars
  BY <1>10 DEF vars
<1> QED BY <1>1, <1>2, <1>3, <1>4, <1>5, <1>6, <1>7, <1>8, <1>9, <1>10 DEF Next, Step

\* At most one command of a round is at work on the phone, whatever keepers
\* and chains die, if commands are not started in one another's first moment.
THEOREM AloneAtWork == ASSUME Rule # "any" PROVE Spec => []OneAtWork
<1>1. Init => LiveIsNamed
  BY DEF Init, LiveIsNamed, CmdAlive, Starting
<1>2. LiveIsNamed => OneAtWork
  BY DEF LiveIsNamed, OneAtWork, Using, CmdAlive, Starting
<1> QED BY <1>1, <1>2, RoundTypes, NamedStep, PTL DEF Spec

-----------------------------------------------------------------------------
LEMMA KeptAlways == ASSUME Kept PROVE Spec => []IInv
BY KeptInit, KeptStep, PTL DEF Spec

\* A command, and what a killed one leaves, uses the phone only under a live
\* keeper's hold and its mark, so run.sh never refuses it a leg or the cleanup.
THEOREM UsedUnderHold == ASSUME Kept PROVE Spec => []UnderHold
<1>1. IInv => UnderHold
  BY DEF IInv, HoldSays, InStep, UnderHold, AtWork, Using, LeftBehind
<1> QED BY <1>1, KeptAlways, PTL

\* The phone has one user, under the round's hold.
LEMMA OneUser == ASSUME IInv, NEW c \in AtWork PROVE AtWork = {c} /\ hold \in Cmds
<1>1. AtWork = {c}
  BY DEF IInv, PidsName, LeftAlone, CmdAlive, AtWork, Using, LeftBehind
<1>2. hold \in Cmds
  BY DEF IInv, HoldSays, InStep, AtWork, Using, LeftBehind
<1> QED BY <1>1, <1>2

\* What release_hold reports as released is no longer held by the round.
THEOREM ReleaseIsTrue == ASSUME Kept PROVE Spec => ReleasedMeansFree
<1>1. ASSUME IInv PROVE \A c \in Cmds : SeeReleased(c) => hold \notin Cmds
  BY <1>1 DEF IInv, HoldSays, KeeperAlive, SeeReleased
<1> QED BY <1>1, KeptAlways, PTL DEF Spec, ReleasedMeansFree

\* Nobody joins a command, or the orphan of one, that uses the phone.
LEMMA NobodyJoins ==
  ASSUME Kept, IInv, [Next]_vars, AtWork # {} PROVE AtWork' \subseteq AtWork
<1> SUFFICES ASSUME NEW c \in AtWork, NEW d \in Cmds, d \notin AtWork PROVE d \notin AtWork'
  BY DEF AtWork, Using, LeftBehind
<1> USE DEF IInv, TypeOK, CmdAlive, AtWork, Using, LeftBehind
<1>1. ~CmdAlive(d)
  BY DEF PidsName, LeftAlone
<1>2. \A e \in Cmds : ~StartRun(e) /\ ~StartCleanup(e)
  BY DEF Kept, StartRun, StartCleanup, Started, MayStart
<1>3. ASSUME NEW e \in Cmds, Kill(e) PROVE d \notin AtWork'
  BY <1>1, <1>3 DEF Kill, Goto
<1>4. ASSUME NEW e \in Cmds, Step(e) PROVE d \notin AtWork'
  BY <1>1, <1>4 DEF Step, Goto, cleanupVars, NameRun, Look, Claim, See, Inputs, TakeHold,
      Poll, Setup, OtherJob, Legs, Clean, Exit, Tell, SeeReleased, StopWaiting,
      AfterRelease, Late
<1>5. ASSUME NEW e \in Cmds, OrphanEnds(e) PROVE d \notin AtWork'
  BY <1>5 DEF OrphanEnds
<1>6. ASSUME NEW k \in Cmds, KeeperStep(k) \/ KillKeeper(k) PROVE d \notin AtWork'
  BY <1>6 DEF KeeperStep, KillKeeper, cleanupVars, Boot, Acquire, GiveUp, Mark, StopKeeping,
      Free, Unmark, TellReleased
<1> QED
  BY <1>2, <1>3, <1>4, <1>5, <1>6 DEF Next, vars, cleanupVars, OtherTakes, OtherReleases, Plug

\* The hold file never passes from one owner to another in one step.
LEMMA HoldPassesFree ==
  ASSUME IInv, [Next]_vars PROVE hold' = hold \/ hold = Nobody \/ hold' = Nobody
BY DEF Next, vars, Step, KeeperStep, IInv, TypeOK, Started, OrphanEnds,
      StartRun, NameRun, Look, Claim, See, Inputs, StartCleanup, TakeHold, Poll, Setup, OtherJob, Legs,
      Clean, Exit, Tell, SeeReleased, StopWaiting, AfterRelease, Late, Kill, Boot, Acquire, GiveUp, Mark,
      StopKeeping, Free, Unmark, TellReleased, KillKeeper, OtherTakes, OtherReleases,
      Plug

\* The round and another lane use the phone one at a time.
THEOREM SharedPhone == ASSUME Kept PROVE Spec => PhoneShared
<1>1. ASSUME IInv, IInv', [Next]_vars PROVE [Use!Next]_PhoneUsers
  <2> USE ChainAssumption DEF PhoneUsers, Use!Next, Use!Begin, Use!End
  <2>1. (AtWork = {} \/ \E c \in Cmds : AtWork = {c} /\ hold \in Cmds)
        /\ (AtWork' = {} \/ \E c \in Cmds : AtWork' = {c} /\ hold' \in Cmds)
    <3>1. AtWork = {} \/ \E c \in Cmds : AtWork = {c} /\ hold \in Cmds
      BY <1>1, OneUser DEF AtWork, Using, LeftBehind
    <3>2. ASSUME NEW c \in AtWork' PROVE AtWork' = {c} /\ hold' \in Cmds
      <4>1. AtWork' = {c}
        BY <1>1, <3>2 DEF IInv, PidsName, LeftAlone, CmdAlive, AtWork, Using, LeftBehind
      <4>2. hold' \in Cmds
        BY <1>1, <3>2 DEF IInv, HoldSays, InStep, AtWork, Using, LeftBehind
      <4> QED BY <4>1, <4>2
    <3> QED BY <3>1, <3>2 DEF AtWork, Using, LeftBehind
  <2>2. CASE AtWork # {}
    <3>1. PICK c \in Cmds : AtWork = {c} /\ hold \in Cmds
      BY <2>1, <2>2
    <3>2. hold' # Other
      BY <1>1, <3>1, HoldPassesFree
    <3>3. AtWork' \in {{}, {c}}
      BY <1>1, <2>2, <3>1, NobodyJoins DEF Kept
    <3> QED BY <3>1, <3>2, <3>3
  <2>3. CASE AtWork = {} /\ AtWork' = {}
    BY <2>3
  <2>4. CASE AtWork = {} /\ AtWork' # {}
    <3>1. PICK c \in Cmds : AtWork' = {c} /\ hold' \in Cmds
      BY <2>1, <2>4
    <3>2. hold # Other
      BY <1>1, <3>1, HoldPassesFree
    <3> QED BY <2>4, <3>1, <3>2
  <2> QED BY <2>2, <2>3, <2>4
<1> QED BY <1>1, KeptAlways, PTL DEF Spec, PhoneShared

-----------------------------------------------------------------------------
(***************************************************************************)
(* The hold file underneath, for any set of drivers: types and the absence *)
(* of leaked holds whatever interleaves, and, when acquires do not         *)
(* overlap, exclusive use of the phone.                                    *)
(***************************************************************************)

\* The type of the state, and no leaked hold: inductive as they stand.
LeakInv == HoldTypeOK /\ NoLeakedHold

LEMMA LeakInit == HoldInit => LeakInv
  BY ConstantsAssumption DEF HoldInit, LeakInv, HoldTypeOK, NoLeakedHold

LEMMA LeakStep == LeakInv /\ [HoldNext]_holdVars => LeakInv'
<1> SUFFICES ASSUME LeakInv, [HoldNext]_holdVars PROVE LeakInv'
  OBVIOUS
<1> USE ConstantsAssumption DEF LeakInv, HoldTypeOK, NoLeakedHold, Acquiring, Releasing
<1>1. CASE UNCHANGED holdVars
  BY <1>1 DEF holdVars
<1>2. ASSUME NEW p \in Procs, CallAcquire(p) PROVE LeakInv'
  BY <1>2 DEF CallAcquire, Go
<1>3. ASSUME NEW p \in Procs, CallRelease(p) PROVE LeakInv'
  BY <1>3 DEF CallRelease, Go
<1>4. ASSUME NEW p \in Procs, Check(p) PROVE LeakInv'
  BY <1>4 DEF Check, MayTake, Go
<1>5. ASSUME NEW p \in Procs, Open(p) PROVE LeakInv'
  BY <1>5 DEF Open, Go
<1>6. ASSUME NEW p \in Procs, Write(p) PROVE LeakInv'
  BY <1>6 DEF Write, Written, Go
<1>7. ASSUME NEW p \in Procs, CheckOwn(p) PROVE LeakInv'
  BY <1>7 DEF CheckOwn, Go
<1>8. ASSUME NEW p \in Procs, Remove(p) PROVE LeakInv'
  BY <1>8 DEF Remove, Go
<1>9. ASSUME NEW p \in Procs, Die(p) PROVE LeakInv'
  BY <1>9 DEF Die, Go
<1> QED BY <1>1, <1>2, <1>3, <1>4, <1>5, <1>6, <1>7, <1>8, <1>9 DEF HoldNext, Call

\* Every reachable state has its type.
THEOREM HoldTypes == HoldSpec => []HoldTypeOK
<1>1. LeakInv => HoldTypeOK
  BY DEF LeakInv
<1> QED BY <1>1, LeakInit, LeakStep, PTL DEF HoldSpec

\* A hold naming a live process is one that process acquired and has not
\* given back, whatever drivers race, force or die.
THEOREM NoHoldLeaks == HoldSpec => []NoLeakedHold
<1>1. LeakInv => NoLeakedHold
  BY DEF LeakInv
<1> QED BY <1>1, LeakInit, LeakStep, PTL DEF HoldSpec

-----------------------------------------------------------------------------
(***************************************************************************)
(* Disciplined drivers.  The file names whoever has the phone or is about  *)
(* to remove it, one driver at a time is inside acquire, and between its   *)
(* read and its write the file names nobody else who is alive.             *)
(***************************************************************************)
ExclusiveInv ==
  /\ LeakInv
  /\ \A p \in Procs : pc[p] # "out" => p \in alive
  /\ \A p \in Procs : pc[p] \in {"in", "remove"} => file = p
  /\ \A p, q \in Procs : pc[p] \in Acquiring /\ pc[q] \in Acquiring => p = q
  /\ \A p \in Procs : pc[p] = "open" => file \notin alive \ {p}
  /\ \A p \in Procs : pc[p] = "write" => file = Unowned /\ p \in linked

LEMMA ExclusiveInit == HoldInit => ExclusiveInv
  BY LeakInit, ConstantsAssumption DEF ExclusiveInv, HoldInit, Acquiring

LEMMA ExclusiveStep ==
  ASSUME Disciplined, ExclusiveInv, [HoldNext]_holdVars
  PROVE  ExclusiveInv'
<1>1. LeakInv'
  BY LeakStep DEF ExclusiveInv
<1> USE ConstantsAssumption
    DEF ExclusiveInv, LeakInv, HoldTypeOK, NoLeakedHold, Acquiring, Releasing, Disciplined
<1>2. CASE UNCHANGED holdVars
  BY <1>1, <1>2 DEF holdVars
<1>3. ASSUME NEW p \in Procs, CallAcquire(p) PROVE ExclusiveInv'
  BY <1>1, <1>3 DEF CallAcquire, Go
<1>4. ASSUME NEW p \in Procs, CallRelease(p) PROVE ExclusiveInv'
  BY <1>1, <1>4 DEF CallRelease, Go
<1>5. ASSUME NEW p \in Procs, Check(p) PROVE ExclusiveInv'
  BY <1>1, <1>5 DEF Check, MayTake, Go
<1>6. ASSUME NEW p \in Procs, Open(p) PROVE ExclusiveInv'
  BY <1>1, <1>6 DEF Open, Go
<1>7. ASSUME NEW p \in Procs, Write(p) PROVE ExclusiveInv'
  BY <1>1, <1>7 DEF Write, Written, Go
<1>8. ASSUME NEW p \in Procs, CheckOwn(p) PROVE ExclusiveInv'
  BY <1>1, <1>8 DEF CheckOwn, Go
<1>9. ASSUME NEW p \in Procs, Remove(p) PROVE ExclusiveInv'
  BY <1>1, <1>9 DEF Remove, Go
<1>10. ASSUME NEW p \in Procs, Die(p) PROVE ExclusiveInv'
  BY <1>1, <1>10 DEF Die, Go
<1> QED BY <1>2, <1>3, <1>4, <1>5, <1>6, <1>7, <1>8, <1>9, <1>10 DEF HoldNext, Call

LEMMA ExclusiveAlways == ASSUME Disciplined PROVE HoldSpec => []ExclusiveInv
  BY ExclusiveInit, ExclusiveStep, PTL DEF HoldSpec

\* While acquires do not overlap, at most one live driver has the phone and
\* the hold file names it: nobody reads a phone in use as free.
THEOREM DisciplinedUse ==
  ASSUME Disciplined
  PROVE  HoldSpec => [](MutualExclusion /\ UserIsNamed)
<1>1. ExclusiveInv => MutualExclusion /\ UserIsNamed
  BY DEF ExclusiveInv, LeakInv, HoldTypeOK, MutualExclusion, UserIsNamed, Users
<1> QED BY <1>1, ExclusiveAlways, PTL

\* ... and no release removes another live driver's hold.
THEOREM DisciplinedRelease == ASSUME Disciplined PROVE HoldSpec => RemovesOnlyOwn
<1>1. ExclusiveInv /\ [HoldNext]_holdVars
        => [\A p \in Procs : Remove(p) => file \notin alive \ {p}]_holdVars
  BY DEF ExclusiveInv, LeakInv, HoldTypeOK, Remove
<1> QED BY <1>1, ExclusiveAlways, PTL DEF HoldSpec, RemovesOnlyOwn

-----------------------------------------------------------------------------
\* A step of the hold is a begin, an end or no change of the phone's use.
LEMMA UseStep ==
  ASSUME Disciplined, ExclusiveInv, [HoldNext]_holdVars
  PROVE  [Exclusive!Next]_Users
<1> USE ConstantsAssumption
    DEF ExclusiveInv, LeakInv, HoldTypeOK, Acquiring, Releasing, Disciplined,
        Users, Exclusive!Next, Exclusive!Begin, Exclusive!End
<1>1. CASE UNCHANGED holdVars
  BY <1>1 DEF holdVars
<1>2. ASSUME NEW p \in Procs, CallAcquire(p) PROVE Users' = Users \ {p}
  BY <1>2 DEF CallAcquire, Go
<1>3. ASSUME NEW p \in Procs, CallRelease(p) PROVE Users' = Users \ {p}
  BY <1>3 DEF CallRelease, Go
<1>4. ASSUME NEW p \in Procs, Check(p) PROVE Users' = Users
  BY <1>4 DEF Check, MayTake, Go
<1>5. ASSUME NEW p \in Procs, Open(p) PROVE Users' = Users
  BY <1>5 DEF Open, Go
<1>6. ASSUME NEW p \in Procs, Write(p) PROVE Users = {} /\ Users' = {p}
  <2>1. Users = {}
    BY <1>6 DEF Write
  <2> QED BY <1>6, <2>1 DEF Write, Go
<1>7. ASSUME NEW p \in Procs, CheckOwn(p) PROVE Users' = Users
  BY <1>7 DEF CheckOwn, Go
<1>8. ASSUME NEW p \in Procs, Remove(p) PROVE Users' = Users
  BY <1>8 DEF Remove, Go
<1>9. ASSUME NEW p \in Procs, Die(p) PROVE Users' = Users \ {p}
  BY <1>9 DEF Die, Go
<1>10. ASSUME NEW p \in Procs, Users' = Users \ {p} PROVE [Exclusive!Next]_Users
  BY <1>10
<1> QED BY <1>1, <1>2, <1>3, <1>4, <1>5, <1>6, <1>7, <1>8, <1>9, <1>10 DEF HoldNext, Call

\* The hold file implements the exclusive use of the phone.
THEOREM HoldImplementsUse == ASSUME Disciplined PROVE HoldSpec => ImplementsPhoneUse
<1>1. HoldInit => Exclusive!Init
  BY DEF HoldInit, Exclusive!Init, Users
<1> QED BY <1>1, UseStep, ExclusiveAlways, PTL DEF HoldSpec, ImplementsPhoneUse, Exclusive!Spec
=============================================================================
