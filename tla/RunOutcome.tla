----------------------------- MODULE RunOutcome ------------------------------
(***************************************************************************)
(* What a background run promises those who stop it and those who would    *)
(* resume it: a stop is accepted only while the inbox is open, the last    *)
(* word on a run can be resumed only if the inbox is closed and no stop    *)
(* was accepted, and it changes only when a paused run whose exit is       *)
(* proved is sealed as stopped                                             *)
(* (src/src/runs/foreground/async-stop-action.ts).  Before the last word   *)
(* the run may show interim results of any kind.  Request files, flags and *)
(* the polling of the inbox do not show here.  RunControl is checked       *)
(* against this specification.                                             *)
(***************************************************************************)
CONSTANTS Req,         \* stop requests
          Outcome,     \* what a run can show and end with
          Resumable    \* the outcomes that can be resumed

VARIABLES open,       \* may a stop still be accepted?
          accepted,   \* stops whose callers were told so
          result,     \* the published outcome, or "none"
          final,      \* it is the last word
          exited      \* the runner's exit is proved

outcomeVars == <<open, accepted, result, final, exited>>

Init ==
    /\ open = TRUE /\ accepted = {}
    /\ result = "none" /\ final = FALSE
    /\ exited = FALSE

Accept(r) ==
    /\ open
    /\ accepted' = accepted \cup {r}
    /\ UNCHANGED <<open, result, final, exited>>

Close ==
    /\ open' = FALSE
    /\ UNCHANGED <<accepted, result, final, exited>>

Show(o) ==
    /\ ~final
    /\ result' = o
    /\ UNCHANGED <<open, accepted, final, exited>>

(* By the runner, or by whoever finds it dead. *)
Publish(o) ==
    /\ ~final /\ ~exited
    /\ o \in Resumable => ~open /\ accepted = {}
    /\ result' = o /\ final' = TRUE
    /\ UNCHANGED <<open, accepted, exited>>

ProveExit ==
    /\ ~open /\ final
    /\ exited' = TRUE
    /\ UNCHANGED <<open, accepted, result, final>>

Seal ==
    /\ result = "paused" /\ exited
    /\ result' = "stopped"
    /\ UNCHANGED <<open, accepted, final, exited>>

Next ==
    \/ \E r \in Req : Accept(r)
    \/ \E o \in Outcome : Show(o) \/ Publish(o)
    \/ Close \/ ProveExit \/ Seal

Spec == Init /\ [][Next]_outcomeVars
=============================================================================
