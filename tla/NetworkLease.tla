---------------------------- MODULE NetworkLease ----------------------------
(***************************************************************************)
(* What the transaction journal promises to the rest of the host, with no  *)
(* files, phases or processes: the reserved network namespace is in use    *)
(* only under an open lease, a lease opens on a namespace that is free,    *)
(* every lease is newer than all before it, and a lease closes only after  *)
(* the namespace is free again - whatever crashes in between.              *)
(***************************************************************************)
EXTENDS Naturals

VARIABLES
    lease,      \* the open lease, or 0
    latest,     \* the newest lease that was ever open
    inUse       \* does the namespace hold any state, or a helper run

vars == <<lease, latest, inUse>>

Init == lease = 0 /\ latest = 0 /\ inUse = FALSE

Open ==
    /\ lease = 0 /\ ~inUse
    /\ lease' > latest
    /\ latest' = lease'
    /\ UNCHANGED inUse

Occupy == lease # 0 /\ inUse' = TRUE /\ UNCHANGED <<lease, latest>>

Vacate == inUse' = FALSE /\ UNCHANGED <<lease, latest>>

Close ==
    /\ lease # 0 /\ ~inUse
    /\ lease' = 0
    /\ UNCHANGED <<latest, inUse>>

Next == Open \/ Occupy \/ Vacate \/ Close

Spec == Init /\ [][Next]_vars
=============================================================================
