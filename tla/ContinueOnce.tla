---------------------------- MODULE ContinueOnce ----------------------------
(***************************************************************************)
(* What a claim on a stopped workflow promises: "Only the owner launches"  *)
(* (src/src/workflows/workflow-resume-claim.ts), there is one owner at a   *)
(* time, and once a continuation has started nobody owns the run again.    *)
(* ResumeClaim is checked against this specification.                      *)
(***************************************************************************)
CONSTANTS Proc,     \* processes that may continue the stopped run
          Run       \* ids of the runs that would continue it

VARIABLES owner,      \* the processes that may launch now
          continued   \* the continuations that have started

onceVars == <<owner, continued>>

OnceTypeOK == owner \subseteq Proc /\ continued \subseteq Run

Init == owner = {} /\ continued = {}

Take(p) ==
    /\ owner = {} /\ continued = {}
    /\ owner' = {p}
    /\ UNCHANGED continued

(* The owner gives the run back, or dies. *)
GiveUp ==
    /\ owner # {}
    /\ owner' = {}
    /\ UNCHANGED continued

Start(p, r) ==
    /\ owner = {p} /\ continued = {}
    /\ continued' = {r}
    /\ owner' = {}

Next ==
    \/ \E p \in Proc : Take(p) \/ \E r \in Run : Start(p, r)
    \/ GiveUp

Spec == Init /\ [][Next]_onceVars
=============================================================================
