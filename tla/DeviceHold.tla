----------------------------- MODULE DeviceHold -----------------------------
(***************************************************************************)
(* tools/devicebench/hold/device_hold.py: the owned hold on a shared phone.*)
(* One JSON file per phone names the pid that owns the phone.  `acquire`   *)
(* is a read, a truncating open and a write; `release` is a read and a     *)
(* remove; nothing locks the file, so the steps of two drivers interleave. *)
(*                                                                         *)
(* A step is one call on the file system.  os.path.exists followed by      *)
(* open in read() is one step: a file removed between the two reads as {}, *)
(* which both callers treat exactly as they treat None.                    *)
(*                                                                         *)
(* ChainHold_proofs extends this module beside ChainHold, so the names of  *)
(* the specification carry the prefix Hold.                                *)
(***************************************************************************)
CONSTANTS
  Procs,      \* owner pids: the drivers and keepers that may hold the phone
  Absent,     \* no hold file
  Unowned,    \* an empty, unreadable or non-JSON hold file: read() gives {}
  Forcers,    \* the owners that call acquire(force=True)
  Overlap,    \* may one owner start acquire while another's is running?
  Orphans     \* may a hold_cli.py outlive the shell whose pid it was given?

ASSUME ConstantsAssumption ==
  /\ Absent \notin Procs /\ Unowned \notin Procs /\ Absent # Unowned
  /\ Forcers \subseteq Procs
  /\ Overlap \in BOOLEAN /\ Orphans \in BOOLEAN

VARIABLES
  file,       \* what the hold file says: Absent, Unowned or an owner's pid
  alive,      \* the pids that exist (signal 0 reaches them)
  pc,         \* where each owner is in acquire / release
  linked      \* the owners whose open("w") still is the file at the path

holdVars == <<file, alive, pc, linked>>

Acquiring == {"check", "open", "write"}
Releasing == {"leave", "remove"}

HoldInit ==
  /\ file \in {Absent, Unowned}
  /\ alive = Procs
  /\ pc = [p \in Procs |-> "out"]
  /\ linked = {}

Go(p, place) == pc' = [pc EXCEPT ![p] = place]

-----------------------------------------------------------------------------
(* acquire *)

\* A live driver asks for the phone, or asks again for the one it has.
CallAcquire(p) ==
  /\ p \in alive /\ pc[p] \in {"out", "in"}
  /\ Overlap \/ \A q \in Procs : pc[q] \notin Acquiring
  /\ Go(p, "check")
  /\ UNCHANGED <<file, alive, linked>>

\* Mutants: a live owner is not refused; a dead one is.
MayTakeAny(p) == TRUE
MayTakeUnheld(p) == file \in {Absent, Unowned, p} \/ p \in Forcers

\* No hold, an unattributable one, the caller's own, a dead pid's, or force.
MayTake(p) ==
  \/ file \in {Absent, Unowned, p}
  \/ file \notin alive
  \/ p \in Forcers

\* read() and the decision: go on, or raise SystemExit.
Check(p) ==
  /\ pc[p] = "check"
  /\ Go(p, IF MayTake(p) THEN "open" ELSE "out")
  /\ UNCHANGED <<file, alive, linked>>

\* open(path, "w") creates the file or empties the one that is there.
Open(p) ==
  /\ pc[p] = "open"
  /\ file' = Unowned
  /\ linked' = linked \cup {p}
  /\ Go(p, "write")
  /\ UNCHANGED alive

\* What one buffered write leaves when closed: the record; over another's
\* longer record, text that is no JSON; nothing at the path when the file
\* it was opened on has been removed meanwhile.
Written(p) ==
  IF p \notin linked THEN {file}
  ELSE IF file \in Procs THEN {p, Unowned} ELSE {p}

Write(p) ==
  /\ pc[p] = "write"
  /\ file' \in Written(p)
  /\ linked' = linked \ {p}
  /\ Go(p, IF p \in alive THEN "in" ELSE "out")
  /\ UNCHANGED alive

-----------------------------------------------------------------------------
(* release *)

\* The `finally` of a driver; hold_cli.py may also be asked by hand.
CallRelease(p) ==
  /\ p \in alive /\ pc[p] \in {"in", "out"}
  /\ Go(p, "leave")
  /\ UNCHANGED <<file, alive, linked>>

\* Mutants: release does not ask whose hold it is; or removes none.
CheckNone(p) ==
  /\ pc[p] = "leave"
  /\ Go(p, IF file = Absent THEN "out" ELSE "remove")
  /\ UNCHANGED <<file, alive, linked>>

LeaveHold(p) ==
  /\ pc[p] = "leave"
  /\ Go(p, "out")
  /\ UNCHANGED <<file, alive, linked>>

\* read(): only the caller's own hold goes on to os.remove.
CheckOwn(p) ==
  /\ pc[p] = "leave"
  /\ Go(p, IF file = p THEN "remove" ELSE "out")
  /\ UNCHANGED <<file, alive, linked>>

\* os.remove, whatever the file says by now; FileNotFoundError is ignored.
Remove(p) ==
  /\ pc[p] = "remove"
  /\ file' = Absent
  /\ linked' = {}
  /\ Go(p, "out")
  /\ UNCHANGED alive

-----------------------------------------------------------------------------
\* An owner is killed, so hard that its `finally` never runs.  A python
\* driver takes its own acquire or release with it; a shell's hold_cli.py
\* may go on alone.
Die(p) ==
  /\ p \in alive
  /\ alive' = alive \ {p}
  /\ \/ Go(p, "out") /\ linked' = linked \ {p}
     \/ Orphans /\ pc[p] \in Acquiring \cup Releasing /\ UNCHANGED <<pc, linked>>
  /\ UNCHANGED file

Call(p) == Check(p) \/ Open(p) \/ Write(p) \/ CheckOwn(p) \/ Remove(p)

HoldNext == \E p \in Procs : CallAcquire(p) \/ CallRelease(p) \/ Call(p) \/ Die(p)

HoldSpec == HoldInit /\ [][HoldNext]_holdVars

\* queue_cli.py's wait calls acquire when its poll reads no hold: none at
\* all, or text that is no JSON.  A hold that names a pid, dead or not, stops
\* it, and only an acquire asked for by hand still meets that one.
Retry(p) == pc[p] = "out" /\ file \in {Absent, Unowned} /\ CallAcquire(p)

\* A running python finishes its call, and a live driver without the phone
\* waits for it, whatever releases are asked for by hand in between; nobody
\* is obliged to release, or to ask by hand.
HoldFairSpec == HoldSpec /\ \A p \in Procs : WF_holdVars(Call(p)) /\ SF_holdVars(Retry(p))

-----------------------------------------------------------------------------
(* Properties *)

\* The live processes that are between acquire and release.
Users == {p \in alive : pc[p] = "in"}

HoldTypeOK ==
  /\ file \in Procs \cup {Absent, Unowned}
  /\ alive \subseteq Procs
  /\ pc \in [Procs -> {"out", "in"} \cup Acquiring \cup Releasing]
  /\ linked \subseteq Procs

\* At most one live driver has an acquired phone ("acquire refuses while a
\* live process other than the caller holds the phone").
MutualExclusion == \A p, q \in Users : p = q

\* A driver that has the phone is the one the file names: nobody can read
\* the phone as free, or as somebody else's, while it is in use.
UserIsNamed == \A p \in Users : file = p

\* A hold that names a live process was written by that process and is not
\* yet given back: no acquire that failed and no release that completed
\* leaves a hold that only its owner's death would clear.
NoLeakedHold == file \in alive => pc[file] \notin {"out", "write"}

\* release never removes another live driver's hold.
RemovesOnlyOwn ==
  [][\A p \in Procs : Remove(p) => file \notin alive \ {p}]_holdVars

\* What dead drivers leave never keeps the last one out, neither the empty
\* file of one killed inside acquire nor a hold that names a dead pid: the
\* one case is such a hold for whose clearing nobody calls acquire.
DeadNeverBlock ==
  \A p \in Procs : <>[](alive = {p}) =>
    \/ []<>(pc[p] = "in")
    \/ <>[](file \in Procs \ {p} /\ pc[p] \notin Acquiring)

\* The hold implements the exclusive use of the phone.
Exclusive == INSTANCE PhoneUse WITH users <- Users
ImplementsPhoneUse == Exclusive!Spec

\* The circumstances under which it does: acquires do not overlap, nobody
\* forces, and no tool outlives the process it acts for.
Disciplined == ~Overlap /\ ~Orphans /\ Forcers = {}
=============================================================================
