--------------------------- MODULE ExclusiveLease ---------------------------
(***************************************************************************)
(* What a directory lease promises, whatever files implement it: one       *)
(* recorded owner at a time, a critical section that only the recorded     *)
(* owner is in, and a record that somebody else may remove only once its   *)
(* owner is dead ("unknown owners and live processes are never evicted     *)
(* merely because a lock is old", src/src/shared/file-lease.ts).           *)
(* FileLease and SessionLease are checked against this specification.      *)
(***************************************************************************)
CONSTANTS Proc,     \* processes that contend for the lease
          Nobody    \* no owner recorded; not a process

VARIABLES owner,    \* the process whose record is in place, or Nobody
          inside,   \* the processes in their critical section
          dead      \* the processes that have exited or crashed

leaseVars == <<owner, inside, dead>>

LeaseTypeOK ==
    /\ owner \in Proc \cup {Nobody}
    /\ inside \subseteq Proc
    /\ dead \subseteq Proc

Init ==
    /\ owner = Nobody
    /\ inside = {}
    /\ dead = {}

Acquire(p) ==
    /\ p \notin dead
    /\ owner = Nobody
    /\ owner' = p
    /\ inside' = inside \cup {p}
    /\ UNCHANGED dead

Leave(p) ==
    /\ p \in inside
    /\ inside' = inside \ {p}
    /\ UNCHANGED <<owner, dead>>

Release(p) ==
    /\ owner = p
    /\ p \notin inside \cup dead
    /\ owner' = Nobody
    /\ UNCHANGED <<inside, dead>>

(* Anybody may clear the record of a dead owner, and of nobody else. *)
Reclaim ==
    /\ owner \in dead
    /\ owner' = Nobody
    /\ UNCHANGED <<inside, dead>>

Die(p) ==
    /\ p \notin dead
    /\ dead' = dead \cup {p}
    /\ inside' = inside \ {p}
    /\ UNCHANGED owner

Next ==
    \/ \E p \in Proc : Acquire(p) \/ Leave(p) \/ Release(p) \/ Die(p)
    \/ Reclaim

Spec == Init /\ [][Next]_leaseVars
=============================================================================
