------------------------------ MODULE PhoneUse ------------------------------
(***************************************************************************)
(* What the device hold promises its drivers, with no file in sight: a     *)
(* driver begins to use the phone only while nobody uses it, and stops at  *)
(* a moment of its own choosing (it gives the phone back, or it dies).     *)
(***************************************************************************)
CONSTANT Procs          \* the processes that drive the phone
VARIABLE users          \* the live ones that are using it now

Init == users = {}

Begin(p) == users = {} /\ users' = {p}

End(p) == p \in users /\ users' = users \ {p}

Next == \E p \in Procs : Begin(p) \/ End(p)

Spec == Init /\ [][Next]_users
=============================================================================
