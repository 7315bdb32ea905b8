---------------------------- MODULE LaunchBudget ----------------------------
(***************************************************************************)
(* What the launch budget of a run tree promises: a batch of children is   *)
(* admitted at once or not at all, every admitted child has one of the     *)
(* budget's places for good, and nothing else takes a place but a process  *)
(* that dies or cannot give one back ("maxSubagentSpawnsPerRun limits      *)
(* cumulative logical children in one run tree", src/README.md).  Slot     *)
(* files, locks and the order in which they are written do not show here.  *)
(* FanoutBudget is checked against this specification.                     *)
(***************************************************************************)
EXTENDS FiniteSets, Naturals

CONSTANTS Batch,   \* admission groups
          Slot     \* the places of the budget

VARIABLES admitted,   \* children each batch was told it may start
          spent       \* places that are gone: admitted, or lost

budgetVars == <<admitted, spent>>

Init ==
    /\ admitted = [b \in Batch |-> 0]
    /\ spent = {}

(* All of the batch's children, each with a place of its own. *)
Admit(b) ==
    /\ admitted[b] = 0
    /\ \E places \in SUBSET (Slot \ spent) :
          /\ places # {}
          /\ admitted' = [admitted EXCEPT ![b] = Cardinality(places)]
          /\ spent' = spent \cup places

(* A process dies while it takes or returns places, or cannot return one. *)
Lose ==
    /\ \E places \in SUBSET (Slot \ spent) : spent' = spent \cup places
    /\ UNCHANGED admitted

Next == Lose \/ \E b \in Batch : Admit(b)

Spec == Init /\ [][Next]_budgetVars
=============================================================================
