---------------------------- MODULE CapacityPool ----------------------------
(***************************************************************************)
(* What the active-run capacity of a session promises                      *)
(* (src/docs/configuration.md, maxActiveAsyncRunsPerSession): at most      *)
(* Limit runs are charged, only a charged run is active, a run that is     *)
(* active keeps its charge, and a resume takes over the charge of the run  *)
(* it continues.  AsyncCapacity is checked against this specification.     *)
(***************************************************************************)
EXTENDS FiniteSets, Naturals

CONSTANTS Run,    \* runs of the session
          Limit   \* maxActiveAsyncRunsPerSession

VARIABLES charged,  \* the runs that hold capacity
          active    \* the runs that are at work

poolVars == <<charged, active>>

Init == charged = {} /\ active = {}

Charge(r) ==
    /\ r \notin charged
    /\ Cardinality(charged) < Limit
    /\ charged' = charged \cup {r}
    /\ UNCHANGED active

(* A resume takes over the charge of its source; if it does not start, the  *)
(* source gets it back.                                                     *)
HandOver(r, s) ==
    /\ r \in charged \ active /\ s \notin charged
    /\ charged' = (charged \ {r}) \cup {s}
    /\ UNCHANGED active

Discharge(r) ==
    /\ r \in charged \ active
    /\ charged' = charged \ {r}
    /\ UNCHANGED active

Begin(r) ==
    /\ r \in charged
    /\ active' = active \cup {r}
    /\ UNCHANGED charged

(* Runs end, several at once when the process that hosts them dies. *)
End(ended) ==
    /\ active' = active \ ended
    /\ UNCHANGED charged

Next ==
    \/ \E r \in Run :
        \/ Charge(r) \/ Discharge(r) \/ Begin(r)
        \/ \E s \in Run : HandOver(r, s)
    \/ \E ended \in SUBSET active : End(ended)

Spec == Init /\ [][Next]_poolVars
=============================================================================
