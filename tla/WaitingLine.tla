---------------------------- MODULE WaitingLine ----------------------------
(***************************************************************************)
(* tools/devicebench/hold/queue_cli.py: the waiting line of a phone,       *)
(* <lockfile>.queue, next to the hold (DeviceHold.tla).  A keeper runs     *)
(* `queue_cli.py wait`, a process of its own, which writes its pid into    *)
(* its entry, looks at the hold and at the entries ahead, and acquires the *)
(* hold in the keeper's name when its turn has come.  People enqueue,      *)
(* dequeue and reorder entries by hand.                                    *)
(*                                                                         *)
(* Nothing locks the line: every change is load, open <queue>.tmp, write,  *)
(* os.replace, and all processes share the one <queue>.tmp.  Each of these *)
(* is a step.  Drivers beside the line acquire and release the hold as     *)
(* they please.  The hold is read and written here in two steps (acquire's *)
(* check and its write); DeviceHold has the finer ones.                    *)
(***************************************************************************)
EXTENDS Naturals, Sequences, SequencesExt

CONSTANTS
  Waits,        \* the wait processes (each polls for one keeper, once)
  ScriptOf,     \* Waits -> Scripts: the name a wait stands in line under
  Scripts,      \* the script names
  Hands,        \* queue_cli.py commands run by people, one command each
  Commands,     \* what they may ask for
  Others,       \* the drivers that take the phone without the line
  Mortal,       \* the owners and waits that may be killed
  Interleaved,  \* may changes of the line interleave?
  Overlap,      \* may a driver acquire between an acquire's read and its write?
  Patient,      \* is the wait's timeout out of reach?
  InitLines,    \* the lines the processes may find
  Absent, Garbage, None, NoKey

Entry == [script : Scripts, waiter : Waits \cup {None, NoKey}]

\* The line as the tool writes it: no script stands in it twice.
Sound(q) ==
  /\ q \in Seq(Entry)
  /\ \A i, j \in 1..Len(q) : q[i].script = q[j].script => i = j

ASSUME LineAssumption ==
  /\ ScriptOf \in [Waits -> Scripts]
  /\ Mortal \subseteq Waits \cup Others
  /\ {Interleaved, Overlap, Patient} \subseteq BOOLEAN
  /\ Waits \cap Others = {} /\ Waits \cap Hands = {}
  /\ Commands \subseteq [op : {"enqueue", "dequeue", "front"}, script : Scripts,
                         before : Scripts \cup {None}]
  /\ \A q \in InitLines : q = Garbage \/ Sound(q)

\* null is no pid, no file is no owner, and text that is no JSON is no list.
ASSUME NamesAssumption ==
  /\ None # NoKey /\ {None, NoKey} \cap Waits = {}
  /\ Absent \notin Waits \cup Others
  /\ Garbage \notin Seq(Entry)

\* The scripts whose keepers wait.  In a calm line changes do not interleave,
\* each of these scripts has one wait and no entry before it, nobody touches
\* its entry by hand, and no entry has a waiter yet; and the acquires of the
\* drivers beside the line overlap nobody's.
Polled == {ScriptOf[w] : w \in Waits}

Calm ==
  /\ ~Interleaved /\ ~Overlap
  /\ \A v, w \in Waits : ScriptOf[v] = ScriptOf[w] => v = w
  /\ \A c \in Commands : c.script \notin Polled
  /\ \A q \in InitLines \ {Garbage} : \A i \in 1..Len(q) :
       q[i].script \notin Polled /\ q[i].waiter = None

Procs  == Waits \cup Hands
Owners == Waits \cup Others

VARIABLES
  line,     \* the queue file: a list of entries, or Garbage (loads as [])
  tmp,      \* <queue>.tmp: Absent, <<>> or text not yet in place
  fd,       \* where the tmp file a process is writing is now
  phase,    \* what each process is doing
  at,       \* how far it is in the change of the line it is making
  local,    \* its copy of the line
  result,   \* how each wait ended: held, timeout, crashed, killed
  hold,     \* the hold file: Absent or its owner
  alive,    \* the owners (keeper shells, Others) that exist
  drive     \* a driver beside the line: out, write (to acquire), in

lineVars == <<line, tmp, fd>>
vars == <<line, tmp, fd, phase, at, local, result, hold, alive, drive>>

Changing == {"mark", "deq", "end", "hand"}
Phases == Changing \cup {"off", "look", "check", "write", "finally", "gone"}

Init ==
  /\ line \in InitLines
  /\ tmp = Absent
  /\ fd = [p \in Procs |-> "none"]
  /\ phase = [p \in Procs |-> "off"]
  /\ at = [p \in Procs |-> "load"]
  /\ local = [p \in Procs |-> <<>>]
  /\ result = [w \in Waits |-> "none"]
  /\ hold \in {Absent} \cup Others
  /\ alive = Owners
  /\ drive = [o \in Others |-> IF hold = o THEN "in" ELSE "out"]

-----------------------------------------------------------------------------
(* The line as the code reads it. *)

\* load(): a missing or unreadable file, or one that is no JSON, is [].
Loaded == IF line = Garbage THEN <<>> ELSE line

Has(q, s) == \E i \in 1..Len(q) : q[i].script = s

\* The index of the first entry of s, as both `mine[0]` and the loop's
\* `break` take it (0 when there is none).
PlaceOf(q, s) == SelectInSeq(q, LAMBDA e : e.script = s)

\* The entries at the places in I, in their order.
Picked(q, I) ==
  LET upTo[n \in 0..Len(q)] ==
        IF n = 0 THEN <<>>
        ELSE IF n \in I THEN Append(upTo[n - 1], q[n]) ELSE upTo[n - 1]
  IN upTo[Len(q)]

Only(q, s) == Picked(q, {i \in 1..Len(q) : q[i].script = s})
Without(q, s) == Picked(q, {i \in 1..Len(q) : q[i].script # s})

WaitAlive(w) == phase[w] \notin {"off", "gone"}

\* Mutant: every entry counts, with or without a live keeper.
KeeperListed(e) == e.script \in Scripts

KeeperWaiting(e) ==
  \/ e.waiter = NoKey
  \/ e.waiter \in Waits /\ WaitAlive(e.waiter)

-----------------------------------------------------------------------------
(* save(): the change of the line, common to every command. *)

\* A process that has loaded the line to change it and has not replaced it.
InChange(p) == phase[p] \in Changing /\ at[p] # "load"
MayLoad(p) == Interleaved \/ \A o \in Procs \ {p} : ~InChange(o)

\* The copy a process will save.
Begin(p, q) ==
  /\ local' = [local EXCEPT ![p] = q]
  /\ at' = [at EXCEPT ![p] = "open"]

Become(p, what) == phase' = [phase EXCEPT ![p] = what]

OpenTmp(p) ==
  /\ phase[p] \in Changing /\ at[p] = "open"
  /\ tmp' = <<>>
  /\ fd' = [fd EXCEPT ![p] = "tmp"]
  /\ at' = [at EXCEPT ![p] = "write"]
  /\ UNCHANGED <<line, phase, local, result, hold, alive, drive>>

\* A write over another process's text leaves a list or no JSON at all.
Mixed(p, old) == IF old = <<>> THEN {local[p]} ELSE {local[p], Garbage}

\* The text lands in the file that was opened, wherever it is by now: an
\* emptied tmp that another process has put in place is the line itself.
WriteTmp(p) ==
  /\ phase[p] \in Changing /\ at[p] = "write"
  /\ CASE fd[p] = "tmp"  -> tmp' \in Mixed(p, tmp) /\ UNCHANGED line
       [] fd[p] = "line" -> line' \in Mixed(p, line) /\ UNCHANGED tmp
       [] OTHER          -> UNCHANGED <<line, tmp>>
  /\ at' = [at EXCEPT ![p] = "swap"]
  /\ UNCHANGED <<fd, phase, local, result, hold, alive, drive>>

AfterChange(ph) ==
  CASE ph = "mark" -> "look" [] ph = "deq" -> "finally" [] OTHER -> "gone"

\* os.replace(tmp, line).
Swap(p) ==
  /\ phase[p] \in Changing /\ at[p] = "swap" /\ tmp # Absent
  /\ line' = tmp
  /\ tmp' = Absent
  /\ fd' = [o \in Procs |-> CASE o = p          -> "none"
                              [] fd[o] = "tmp"  -> "line"
                              [] fd[o] = "line" -> "gone"
                              [] OTHER          -> fd[o]]
  /\ Become(p, AfterChange(phase[p]))
  /\ at' = [at EXCEPT ![p] = "load"]
  /\ result' = IF phase[p] = "deq" THEN [result EXCEPT ![p] = "held"] ELSE result
  /\ UNCHANGED <<local, hold, alive, drive>>

\* ... whose tmp another process has already moved: FileNotFoundError ends
\* the command; a wait still runs its `finally`, unless it was in it.
SwapFails(p) ==
  /\ phase[p] \in Changing /\ at[p] = "swap" /\ tmp = Absent
  /\ fd' = [fd EXCEPT ![p] = "none"]
  /\ Become(p, IF phase[p] \in {"mark", "deq"} THEN "finally" ELSE "gone")
  /\ at' = [at EXCEPT ![p] = "load"]
  /\ result' = IF p \in Waits THEN [result EXCEPT ![p] = "crashed"] ELSE result
  /\ UNCHANGED <<line, tmp, local, hold, alive, drive>>

Save(p) == OpenTmp(p) \/ WriteTmp(p) \/ Swap(p) \/ SwapFails(p)

-----------------------------------------------------------------------------
(* wait *)

\* Mutants: an entry is never added; the name is written as the pid.
MarkedIfThere(q, s, waiter) ==
  IF Has(q, s) THEN [q EXCEPT ![PlaceOf(q, s)].waiter = waiter] ELSE q
MarkedByName(q, s, waiter) ==
  IF Has(q, s) THEN [q EXCEPT ![PlaceOf(q, s)].waiter = s]
               ELSE Append(q, [script |-> s, waiter |-> s])

\* mark(lock, script, waiter): what it saves, or the line as it is when the
\* entry already says so.
Marked(q, s, waiter) ==
  IF Has(q, s) THEN [q EXCEPT ![PlaceOf(q, s)].waiter = waiter]
               ELSE Append(q, [script |-> s, waiter |-> waiter])

Start(w) ==
  /\ phase[w] = "off" /\ w \in alive
  /\ Become(w, "mark")
  /\ UNCHANGED <<lineVars, at, local, result, hold, alive, drive>>

\* The head of the polling loop: (re)write my pid into my entry.
MarkLoad(w) ==
  /\ phase[w] = "mark" /\ at[w] = "load" /\ MayLoad(w)
  /\ LET q == Marked(Loaded, ScriptOf[w], w)
     IN IF q = Loaded
        THEN /\ Become(w, "look")
             /\ local' = [local EXCEPT ![w] = q]
             /\ UNCHANGED at
        ELSE Begin(w, q) /\ UNCHANGED phase
  /\ UNCHANGED <<lineVars, result, hold, alive, drive>>

\* Mutant: the loop breaks one entry early.
AheadButOne(w) == SubSeq(local[w], 1, PlaceOf(local[w], ScriptOf[w]) - 2)

\* The entries ahead of mine in the copy `mark` returned.
Ahead(w) == SubSeq(local[w], 1, PlaceOf(local[w], ScriptOf[w]) - 1)

\* Mutant: a free hold is anybody's.
HoldFree(w) == hold = Absent

MyTurn(w) ==
  /\ hold = Absent
  /\ \A i \in 1..Len(Ahead(w)) : ~KeeperWaiting(Ahead(w)[i])

\* Not yet: sleep and poll again, or give up after the timeout.
PollAgain(w) ==
  \/ Become(w, "mark") /\ UNCHANGED result
  \/ /\ ~Patient
     /\ Become(w, "finally")
     /\ result' = [result EXCEPT ![w] = "timeout"]

Look(w) ==
  /\ phase[w] = "look"
  /\ IF MyTurn(w) THEN Become(w, "check") /\ UNCHANGED result ELSE PollAgain(w)
  /\ UNCHANGED <<lineVars, at, local, hold, alive, drive>>

\* What acquire's read lets pass: no hold, one's own, or a dead owner's.
MayTake(o) == hold \in {Absent, o} \/ hold \notin alive

\* No driver beside the line has read the hold and not yet written its own.
NobodyBetween == Overlap \/ \A o \in Others : drive[o] # "write"

\* Mutant: acquire refuses nobody.
CheckNothing(w) ==
  /\ phase[w] = "check" /\ NobodyBetween
  /\ Become(w, "write")
  /\ UNCHANGED <<lineVars, at, local, result, hold, alive, drive>>

\* device_hold.acquire(script, pid=keeper): its read; SystemExit (someone took
\* it in the gap) is caught.
Check(w) ==
  /\ phase[w] = "check" /\ NobodyBetween
  /\ IF MayTake(w) THEN Become(w, "write") /\ UNCHANGED result ELSE PollAgain(w)
  /\ UNCHANGED <<lineVars, at, local, hold, alive, drive>>

\* ... and its write; then dequeue.
TakeHold(w) ==
  /\ phase[w] = "write"
  /\ hold' = w
  /\ Become(w, "deq")
  /\ UNCHANGED <<lineVars, at, local, result, alive, drive>>

DequeueLoad(w) ==
  /\ phase[w] = "deq" /\ at[w] = "load" /\ MayLoad(w)
  /\ Begin(w, Without(Loaded, ScriptOf[w]))
  /\ UNCHANGED <<lineVars, phase, result, hold, alive, drive>>

\* `finally`: is my entry (still, or again) in the line?
Finally(w) ==
  /\ phase[w] = "finally"
  /\ Become(w, IF Has(Loaded, ScriptOf[w]) THEN "end" ELSE "gone")
  /\ UNCHANGED <<lineVars, at, local, result, hold, alive, drive>>

\* ... then mark(lock, script, None).
UnmarkLoad(w) ==
  /\ phase[w] = "end" /\ at[w] = "load" /\ MayLoad(w)
  /\ LET q == Marked(Loaded, ScriptOf[w], None)
     IN IF q = Loaded
        THEN Become(w, "gone") /\ UNCHANGED <<local, at>>
        ELSE Begin(w, q) /\ UNCHANGED phase
  /\ UNCHANGED <<lineVars, result, hold, alive, drive>>

WaitStep(w) ==
  \/ MarkLoad(w) \/ Look(w) \/ Check(w) \/ TakeHold(w)
  \/ DequeueLoad(w) \/ Finally(w) \/ UnmarkLoad(w)

-----------------------------------------------------------------------------
(* enqueue, dequeue and front, by hand *)

\* front: the entries of s together, before the first of `before`, else first.
Fronted(q, s, before) ==
  LET rest == Without(q, s)
      idx  == IF Has(rest, before) THEN PlaceOf(rest, before) - 1 ELSE 0
  IN SubSeq(rest, 1, idx) \o Only(q, s) \o SubSeq(rest, idx + 1, Len(rest))

\* enqueue is idempotent by script name; front needs an entry to move.
Refused(c) ==
  \/ c.op = "enqueue" /\ Has(Loaded, c.script)
  \/ c.op = "front" /\ ~Has(Loaded, c.script)

Edited(c) ==
  CASE c.op = "enqueue" -> Append(Loaded, [script |-> c.script, waiter |-> None])
    [] c.op = "dequeue" -> Without(Loaded, c.script)
    [] c.op = "front"   -> Fronted(Loaded, c.script, c.before)

HandLoad(h) ==
  /\ phase[h] = "off" /\ MayLoad(h)
  /\ \E c \in Commands :
       IF Refused(c) THEN Become(h, "gone") /\ UNCHANGED <<local, at>>
                     ELSE Become(h, "hand") /\ Begin(h, Edited(c))
  /\ UNCHANGED <<lineVars, result, hold, alive, drive>>

-----------------------------------------------------------------------------
(* The keepers behind the waits, and the drivers beside the line. *)

\* A keeper whose wait did not exit 0 writes GAVE_UP and exits.
GiveUp(w) ==
  /\ phase[w] = "gone" /\ result[w] # "held" /\ w \in alive
  /\ alive' = alive \ {w}
  /\ UNCHANGED <<lineVars, phase, at, local, result, hold, drive>>

\* A keeper that holds releases, at its limit at the latest, and exits.
Release(w) ==
  /\ phase[w] = "gone" /\ result[w] = "held" /\ w \in alive
  /\ hold' = IF hold = w THEN Absent ELSE hold
  /\ alive' = alive \ {w}
  /\ UNCHANGED <<lineVars, phase, at, local, result, drive>>

\* A driver beside the line: acquire's read, at any time, ...
OtherChecks(o) ==
  /\ o \in alive /\ drive[o] = "out" /\ MayTake(o)
  /\ NobodyBetween /\ (Overlap \/ \A w \in Waits : phase[w] # "write")
  /\ drive' = [drive EXCEPT ![o] = "write"]
  /\ UNCHANGED <<lineVars, phase, at, local, result, hold, alive>>

\* ... its write, ...
OtherTakes(o) ==
  /\ drive[o] = "write"
  /\ hold' = o
  /\ drive' = [drive EXCEPT ![o] = "in"]
  /\ UNCHANGED <<lineVars, phase, at, local, result, alive>>

\* ... and its release, which removes its own hold only.
OtherReleases(o) ==
  /\ drive[o] = "in"
  /\ hold' = IF hold = o THEN Absent ELSE hold
  /\ drive' = [drive EXCEPT ![o] = "out"]
  /\ UNCHANGED <<lineVars, phase, at, local, result, alive>>

\* An owner is killed; a keeper's wait process goes on polling without it.
KillOwner(o) ==
  /\ o \in Mortal \cap alive
  /\ o \in Waits => phase[o] # "off"
  /\ alive' = alive \ {o}
  /\ drive' = [p \in Others |-> IF p = o THEN "out" ELSE drive[p]]
  /\ UNCHANGED <<lineVars, phase, at, local, result, hold>>

\* A wait is killed with no chance to run its `finally`.
KillWait(w) ==
  /\ w \in Mortal /\ WaitAlive(w)
  /\ Become(w, "gone")
  /\ at' = [at EXCEPT ![w] = "load"]
  /\ fd' = [fd EXCEPT ![w] = "none"]
  /\ result' = [result EXCEPT ![w] = "killed"]
  /\ UNCHANGED <<line, tmp, local, hold, alive, drive>>

-----------------------------------------------------------------------------
Next ==
  \/ \E p \in Procs : Save(p)
  \/ \E w \in Waits : Start(w) \/ WaitStep(w) \/ GiveUp(w) \/ Release(w) \/ KillWait(w)
  \/ \E h \in Hands : HandLoad(h)
  \/ \E o \in Others : OtherChecks(o) \/ OtherTakes(o) \/ OtherReleases(o)
  \/ \E o \in Owners : KillOwner(o)

Spec == Init /\ [][Next]_vars

\* Running processes go on (a load waits its turn when loads do not
\* interleave); every holder lets go of the phone, at its limit at the latest.
FairSpec ==
  /\ Spec
  /\ \A p \in Procs : WF_vars(Save(p))
  /\ \A w \in Waits : SF_vars(WaitStep(w)) /\ WF_vars(GiveUp(w)) /\ WF_vars(Release(w))
  /\ \A o \in Others : WF_vars(OtherTakes(o)) /\ WF_vars(OtherReleases(o))

-----------------------------------------------------------------------------
(* Properties *)

\* Types; and no script stands in the line twice, whatever copies of it are
\* saved over one another.
TypeOK ==
  /\ line = Garbage \/ Sound(line)
  /\ tmp \in {Absent, Garbage} \/ Sound(tmp)
  /\ fd \in [Procs -> {"none", "tmp", "line", "gone"}]
  /\ phase \in [Procs -> Phases]
  /\ at \in [Procs -> {"load", "open", "write", "swap"}]
  /\ result \in [Waits -> {"none", "held", "timeout", "crashed", "killed"}]
  /\ hold \in Owners \cup {Absent}
  /\ alive \subseteq Owners
  /\ drive \in [Others -> {"out", "write", "in"}]

\* The keepers that have the phone: they go on to write HOLD_ACQUIRED.
Holding == {w \in Waits \cap alive : phase[w] = "gone" /\ result[w] = "held"}

\* No two keepers have the phone at once, and at most one wait is inside
\* device_hold.acquire: the condition under which DeviceHold's hold is
\* exclusive.
AcquiresDoNotOverlap ==
  \A v, w \in Waits : {phase[v], phase[w]} \subseteq {"check", "write"} => v = w
OneHolder ==
  /\ \A v, w \in Holding : v = w
  /\ AcquiresDoNotOverlap

\* The hold goes to a keeper with no waiting keeper ahead of it, by the line
\* as it is at that moment and not only by the copy the keeper looked at.
TurnOrder ==
  [][\A w \in Waits : TakeHold(w) =>
       \A i \in 1..(PlaceOf(Loaded, ScriptOf[w]) - 1) : ~KeeperWaiting(Loaded[i])]_vars

\* A polling wait whose entry a concurrent save has dropped puts it back:
\* once changes no longer overlap it stands in the line with its pid for
\* good, whatever overlapping changes have left of the line and of the tmp.
Polling(w) == phase[w] \in {"mark", "look", "check"}
InLine(w) == \E i \in 1..Len(Loaded) : Loaded[i] = [script |-> ScriptOf[w], waiter |-> w]
OneChange == \A o, p \in Procs : InChange(o) /\ InChange(p) => o = p
LineHeals == <>[]OneChange => \A w \in Waits : <>[](Polling(w) => InLine(w))

\* Every keeper that waits long enough gets the phone once the drivers beside
\* the line leave it alone: it is stopped neither by entries whose keepers are
\* not waiting or have died, nor by what people do to the line, nor by having
\* been overtaken; only by a hold that a dead owner has left for good.
Stale == hold \in Owners \ alive
OthersLeave == <>[](\A o \in Others : drive[o] = "out")
EveryWaitServed ==
  OthersLeave => \/ <>[]Stale
                 \/ \A w \in Waits : Polling(w) ~> (result[w] \in {"held", "killed"})

\* The phone is used as PhoneUse says: a keeper, or a driver beside the line,
\* begins only while neither another keeper nor another driver uses it.
PhoneUsers == Holding \cup {o \in Others : drive[o] = "in"}
Use == INSTANCE PhoneUse WITH Procs <- Owners, users <- PhoneUsers
PhoneShared == [][Use!Next]_PhoneUsers

\* Nobody's entry leaves the line but by its own wait's dequeue.
OnlyOwnRemoval ==
  [][\A i \in 1..Len(Loaded) :
       (\A j \in 1..Len(Loaded') : Loaded'[j].script # Loaded[i].script)
         => \E w \in Waits : phase[w] = "deq" /\ ScriptOf[w] = Loaded[i].script /\ Swap(w)]_vars

\* A keeper that waits gets the phone before a driver beside the line that
\* takes it again and again.
NobodyPassesForEver ==
  <>[]Stale \/ \A w \in Waits : Polling(w) ~> (result[w] \in {"held", "killed"})

\* A dead holder's hold is cleared for a keeper that waits.
StaleHoldCleared ==
  \A w \in Waits : (Polling(w) /\ Stale) ~> (~Stale \/ ~Polling(w))
=============================================================================
