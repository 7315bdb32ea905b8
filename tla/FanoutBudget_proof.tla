------------------------- MODULE FanoutBudget_proof -------------------------
(***************************************************************************)
(* Proofs about FanoutBudget, for any number of processes, any limit and   *)
(* any bound, over every behaviour of the model.  Until a reclaimer moves  *)
(* a lock that is not stale, the admission lock has one holder: nothing    *)
(* else takes the run over its limit.                                      *)
(***************************************************************************)
EXTENDS FanoutBudget, FiniteSetTheorems, FunctionTheorems, TLAPS

(* Where a call has not yet been admitted, and its slots are not yet taken. *)
Waiting == {"mkdir", "write", "read", "check", "rename", "wait", "count"}
Taking == {"claim", "commit", "undo"}

(* A call that is under way asks for a child and has a number. *)
TInv ==
    /\ TypeOK
    /\ \A p \in Proc : pc[p] \notin {"idle", "dead"} => calls[p] > 0 /\ size[p] > 0

(* The slot that is claimed is one that was free. *)
LEMMA MinOfFree == ASSUME NEW S \in SUBSET Nat, S # {} PROVE Min(S) \in S
<1> DEFINE T == {0..y : y \in S}
           R == StrictSubsetOrdering(Nat)
<1>1. T \subseteq FiniteSubsetsOf(Nat)
  <2>1. ASSUME NEW y \in S PROVE 0..y \in SUBSET Nat /\ IsFiniteSet(0..y)
    <3>1. y \in Int /\ 0 \in Int
      OBVIOUS
    <3>2. IsFiniteSet(0..y)
      BY <3>1, FS_Interval
    <3> QED
      BY <3>2
  <2> QED
    BY <2>1 DEF FiniteSubsetsOf
<1>2. IsWellFoundedOn(R, FiniteSubsetsOf(Nat))
  BY FS_StrictSubsetOrderingWellFounded
<1>3. T # {}
  OBVIOUS
<1> HIDE DEF T, R
<1>4. PICK t \in T : \A u \in T : ~ (<<u, t>> \in R)
  BY <1>1, <1>2, <1>3, WFMin
<1>5. PICK x \in S : t = 0..x
  BY DEF T
<1>6. ASSUME NEW y \in S PROVE x <= y
  <2>1. 0..y \in T
    BY DEF T
  <2>2. ~ (0..y \subseteq 0..x /\ 0..y # 0..x)
    BY <1>1, <1>4, <1>5, <2>1 DEF R, StrictSubsetOrdering, FiniteSubsetsOf
  <2>3. y < x => 0..y \subseteq 0..x /\ x \in 0..x /\ x \notin 0..y
    OBVIOUS
  <2> QED
    BY <2>2, <2>3
<1> QED
  BY <1>6 DEF Min

(* Every step keeps the types. *)
LEMMA TInvStep == TInv /\ [Next]_vars => TInv'
<1> SUFFICES ASSUME TInv, [Next]_vars PROVE TInv'
  OBVIOUS
<1> USE BudgetConstants DEF TInv, TypeOK, PCs, Holding, Goto, LockOnly
<1>1. ASSUME NEW p \in Proc, Call(p) PROVE TInv'
  BY <1>1 DEF Call
<1>2. ASSUME NEW p \in Proc, Mkdir(p) PROVE TInv'
  BY <1>2 DEF Mkdir
<1>3. ASSUME NEW p \in Proc, WriteOwner(p) PROVE TInv'
  BY <1>3 DEF WriteOwner, Mine, Batch
<1>4. ASSUME NEW p \in Proc, ReadLock(p) PROVE TInv'
  BY <1>4 DEF ReadLock
<1>5. ASSUME NEW p \in Proc, CheckLock(p) PROVE TInv'
  <2> USE <1>5
  <2>1. CASE pc' = [pc EXCEPT ![p] = "rename"]
    BY <2>1 DEF CheckLock
  <2>2. CASE pc' = [pc EXCEPT ![p] = "wait"]
    BY <2>2 DEF CheckLock
  <2> QED
    BY <2>1, <2>2 DEF CheckLock
<1>6. ASSUME NEW p \in Proc, Reclaim(p) PROVE TInv'
  BY <1>6 DEF Reclaim
<1>7. ASSUME NEW p \in Proc, Retry(p) PROVE TInv'
  BY <1>7 DEF Retry
<1>8. ASSUME NEW p \in Proc, Count(p) PROVE TInv'
  <2>1. UNCHANGED <<lock, claims, admitted, seen, calls, size, left, stuck, evicted>>
    BY <1>8 DEF Count
  <2>2. pc[p] = "count" /\ \/ pc' = [pc EXCEPT ![p] = "claim"]
                           \/ pc' = [pc EXCEPT ![p] = "leave"]
    BY <1>8 DEF Count
  <2> QED
    BY <2>1, <2>2
<1>9. ASSUME NEW p \in Proc, ClaimSlot(p) PROVE TInv'
  <2> USE <1>9
  <2>1. Mine(p) \in Batch
    BY DEF ClaimSlot, Mine, Batch
  <2>2. claims' \in [Slot -> Batch \cup {Absent}]
    BY <2>1 DEF ClaimSlot
  <2> QED
    BY <2>2 DEF ClaimSlot
<1>10. ASSUME NEW p \in Proc, Commit(p) PROVE TInv'
  BY <1>10 DEF Commit
<1>11. ASSUME NEW p \in Proc, Undo(p) PROVE TInv'
  <2>1. claims' \in [Slot -> Batch \cup {Absent}] /\ stuck' \subseteq Slot
    BY <1>11 DEF Undo, Held
  <2> QED
    BY <1>11, <2>1 DEF Undo
<1>12. ASSUME NEW p \in Proc, Leave(p) PROVE TInv'
  BY <1>12 DEF Leave
<1>13. ASSUME NEW p \in Proc, RemoveOwner(p) PROVE TInv'
  BY <1>13 DEF RemoveOwner
<1>14. ASSUME NEW p \in Proc, RemoveDir(p) PROVE TInv'
  BY <1>14 DEF RemoveDir
<1>15. ASSUME NEW p \in Proc, Die(p) PROVE TInv'
  BY <1>15 DEF Die
<1>16. CASE UNCHANGED vars
  BY <1>16 DEF vars
<1> QED
  BY <1>1, <1>2, <1>3, <1>4, <1>5, <1>6, <1>7, <1>8, <1>9, <1>10, <1>11, <1>12, <1>13,
     <1>14, <1>15, <1>16 DEF Next, Locking, Operation, Unlocking

(* No call is under way at the start. *)
LEMMA TInvInit == Init => TInv
<1> SUFFICES ASSUME Init PROVE TInv
  OBVIOUS
<1>1. 0 \in 0..MaxBatch /\ 0 \in 0..MaxCalls
  BY BudgetConstants
<1>2. evicted \in BOOLEAN /\ stuck \subseteq Slot
  BY DEF Init
<1>3. TypeOK
  BY <1>1, <1>2 DEF Init, TypeOK, PCs
<1> QED
  BY <1>3 DEF Init, TInv

(* Every reachable state is well typed. *)
THEOREM TypeCorrect == Spec => []TypeOK
<1>1. TInv => TypeOK
  BY DEF TInv
<1> QED
  BY <1>1, TInvInit, TInvStep, PTL DEF Spec
-----------------------------------------------------------------------------
(* What a process in each place has counted, taken and been told. *)

(* A slot that is taken goes to the one batch; nothing else changes hands. *)
LEMMA SlotTaken ==
    ASSUME TypeOK, NEW b \in Batch, NEW s \in Slot, claims[s] = Absent,
           claims' = [claims EXCEPT ![s] = b]
    PROVE  /\ s \notin Held(b) /\ Held(b)' = Held(b) \cup {s}
           /\ \A c \in Batch : c # b => Held(c)' = Held(c)
           /\ (Slot \ Used)' = (Slot \ Used) \ {s} /\ s \in Slot \ Used
  BY BudgetConstants DEF TypeOK, Held, Used

(* A slot that is returned is taken from the one batch. *)
LEMMA SlotReturned ==
    ASSUME TypeOK, NEW b \in Batch, NEW s \in Held(b),
           claims' = [claims EXCEPT ![s] = Absent]
    PROVE  /\ Held(b)' = Held(b) \ {s}
           /\ \A c \in Batch : c # b => Held(c)' = Held(c)
  BY BudgetConstants DEF TypeOK, Held

(* A slot is taken only while one is free, and it is the first of them. *)
LEMMA FirstFree ==
    ASSUME TypeOK, Used # Slot
    PROVE  Min(Slot \ Used) \in Slot /\ claims[Min(Slot \ Used)] = Absent
<1>1. Slot \ Used # {} /\ Slot \ Used \in SUBSET Nat
  BY BudgetConstants DEF Used, Slot
<1>2. Min(Slot \ Used) \in Slot \ Used
  BY <1>1, MinOfFree
<1> QED
  BY <1>2 DEF Used

(* A call has a batch of its own. *)
LEMMA MineIsBatch ==
    ASSUME TInv, NEW p \in Proc, pc[p] \notin {"idle", "dead"}
    PROVE  Mine(p) \in Batch /\ Owner(Mine(p)) = p
  BY BudgetConstants DEF TInv, TypeOK, Mine, Batch, Owner

(* The steps around the operation change the lock and one program counter. *)
LEMMA LockSteps ==
    ASSUME TInv, NEW p \in Proc, Locking(p) \/ Unlocking(p) \/ Die(p)
    PROVE  /\ LockOnly
           /\ \E to \in PCs :
                 /\ pc' = [pc EXCEPT ![p] = to]
                 /\ \/ pc[p] \in Waiting /\ to \in Waiting \cup {"unlink", "idle"}
                    \/ /\ pc[p] \notin Waiting \cup Taking \cup {"dead"}
                       /\ to \in {"unlink", "rmdir", "idle"}
                    \/ to = "dead"
<1> USE DEF Goto, PCs, Holding, Waiting, Taking
<1>1. CASE Locking(p)
  <2>1. LockOnly
    BY <1>1 DEF Locking, Mkdir, WriteOwner, ReadLock, CheckLock, Reclaim, Retry
  <2>2. CASE CheckLock(p)
    <3>1. pc' = [pc EXCEPT ![p] = "rename"] \/ pc' = [pc EXCEPT ![p] = "wait"]
      BY <2>2 DEF CheckLock
    <3> QED
      BY <2>1, <2>2, <3>1 DEF CheckLock
  <2>3. CASE ~ CheckLock(p)
    BY <1>1, <2>1, <2>3 DEF Locking, Mkdir, WriteOwner, ReadLock, Reclaim, Retry
  <2> QED
    BY <2>2, <2>3
<1>2. CASE Unlocking(p)
  BY <1>2 DEF Unlocking, Leave, RemoveOwner, RemoveDir
<1>3. CASE Die(p)
  BY <1>3 DEF Die
<1> QED
  BY <1>1, <1>2, <1>3

(* A batch that was not begun has nothing. *)
Fresh == \A b \in Batch : b[2] > calls[b[1]] => Held(b) = {} /\ admitted[b] = 0

(* Before the claims a batch has nothing; before the commit no child. *)
NotYet ==
    \A p \in Proc :
        /\ pc[p] \in Waiting =>
              Held(Mine(p)) = {} /\ admitted[Mine(p)] = 0 /\ left[p] = size[p]
        /\ pc[p] \in Taking => admitted[Mine(p)] = 0

RInv == TInv /\ Fresh /\ NotYet /\ RefusedHoldsNothing

(* Every step keeps what refused batches hold. *)
LEMMA RInvStep == RInv /\ [Next]_vars => RInv'
<1> SUFFICES ASSUME RInv, [Next]_vars PROVE RInv'
  OBVIOUS
<1> USE BudgetConstants
<1>0. TInv' /\ TInv /\ TypeOK /\ Fresh /\ NotYet /\ RefusedHoldsNothing
  BY TInvStep DEF RInv, TInv
<1>1. ASSUME NEW p \in Proc, Call(p) PROVE RInv'
  <2>1. claims' = claims /\ admitted' = admitted /\ stuck' = stuck /\ pc[p] = "idle"
        /\ pc' = [pc EXCEPT ![p] = "mkdir"] /\ calls' = [calls EXCEPT ![p] = @ + 1]
        /\ left'[p] = size'[p]
        /\ \A q \in Proc : q # p => left'[q] = left[q] /\ size'[q] = size[q]
    BY <1>0, <1>1 DEF Call, Goto, TypeOK
  <2>2. \A b : Held(b)' = Held(b)
    BY <2>1 DEF Held
  <2>3. \A q \in Proc : q # p => Mine(q)' = Mine(q)
    BY <1>0, <2>1 DEF Mine, TypeOK
  <2>4. Mine(p)' \in Batch /\ Mine(p)'[2] > calls[p] /\ Mine(p)'[1] = p
    BY <1>0, <1>1, <2>1 DEF Mine, TypeOK, Batch, Call
  <2>5. Fresh'
    BY <1>0, <2>1, <2>2 DEF Fresh, TypeOK, Batch
  <2>6. NotYet'
    BY <1>0, <2>1, <2>2, <2>3, <2>4 DEF NotYet, Fresh, TypeOK, Waiting, Taking
  <2>7. RefusedHoldsNothing'
    BY <1>0, <2>1, <2>2, <2>3 DEF RefusedHoldsNothing, TypeOK, Owner, Batch
  <2> QED
    BY <1>0, <2>5, <2>6, <2>7 DEF RInv
<1>2. ASSUME NEW p \in Proc, Locking(p) \/ Unlocking(p) \/ Die(p) PROVE RInv'
  <2>1. LockOnly
    BY <1>0, <1>2, LockSteps
  <2>2. PICK to \in PCs :
           /\ pc' = [pc EXCEPT ![p] = to]
           /\ \/ pc[p] \in Waiting /\ to \in Waiting \cup {"unlink", "idle"}
              \/ /\ pc[p] \notin Waiting \cup Taking \cup {"dead"}
                 /\ to \in {"unlink", "rmdir", "idle"}
              \/ to = "dead"
    BY <1>0, <1>2, LockSteps
  <2>3. (\A b : Held(b)' = Held(b)) /\ (\A q \in Proc : Mine(q)' = Mine(q))
    BY <2>1 DEF Held, Mine, LockOnly
  <2>4. Fresh'
    BY <1>0, <2>1, <2>3 DEF Fresh, LockOnly
  <2>5. NotYet'
    BY <1>0, <2>1, <2>2, <2>3 DEF NotYet, LockOnly, TypeOK, Waiting, Taking
  <2>6. RefusedHoldsNothing'
    <3> SUFFICES ASSUME NEW b \in Batch, Held(b)' # {}
                 PROVE  \/ admitted'[b] > 0
                        \/ pc'[Owner(b)] = "dead"
                        \/ /\ b = Mine(Owner(b))'
                           /\ pc'[Owner(b)] \in {"claim", "commit", "undo"}
                        \/ Held(b)' \subseteq stuck'
      BY DEF RefusedHoldsNothing
    <3>1. Held(b) # {} /\ Owner(b) \in Proc /\ admitted' = admitted
          /\ Mine(Owner(b))' = Mine(Owner(b)) /\ Held(b)' = Held(b) /\ stuck' = stuck
      BY <2>1, <2>3 DEF Owner, Batch, LockOnly
    <3>2. CASE pc'[Owner(b)] = pc[Owner(b)]
      BY <1>0, <3>1, <3>2 DEF RefusedHoldsNothing
    <3>3. CASE pc'[Owner(b)] # pc[Owner(b)]
      <4>1. Owner(b) = p /\ pc'[p] = to
        BY <1>0, <2>2, <3>1, <3>3 DEF TypeOK
      <4>2. b = Mine(p) => pc[p] \notin Waiting
        BY <1>0, <3>1 DEF NotYet
      <4> QED
        BY <1>0, <2>2, <3>1, <4>1, <4>2 DEF RefusedHoldsNothing, Waiting, Taking
    <3> QED
      BY <3>2, <3>3
  <2> QED
    BY <1>0, <2>4, <2>5, <2>6 DEF RInv
<1>3. ASSUME NEW p \in Proc, Count(p) PROVE RInv'
  <2>1. /\ UNCHANGED <<lock, claims, admitted, seen, calls, size, left, stuck, evicted>>
        /\ pc[p] = "count"
        /\ pc' = [pc EXCEPT ![p] = "claim"] \/ pc' = [pc EXCEPT ![p] = "leave"]
    BY <1>3 DEF Count, Goto
  <2>2. (\A b : Held(b)' = Held(b)) /\ (\A q \in Proc : Mine(q)' = Mine(q))
    BY <2>1 DEF Held, Mine
  <2>3. Fresh' /\ NotYet'
    BY <1>0, <2>1, <2>2 DEF Fresh, NotYet, TypeOK, Waiting, Taking
  <2>4. RefusedHoldsNothing'
    BY <1>0, <2>1, <2>2 DEF RefusedHoldsNothing, NotYet, TypeOK, Owner, Batch, Waiting
  <2> QED
    BY <1>0, <2>3, <2>4 DEF RInv
<1>4. ASSUME NEW p \in Proc, ClaimSlot(p) PROVE RInv'
  <2>1. pc[p] = "claim" /\ Mine(p) \in Batch /\ Owner(Mine(p)) = p
    BY <1>0, <1>4, MineIsBatch DEF ClaimSlot
  <2>2. /\ calls' = calls /\ size' = size /\ admitted' = admitted /\ stuck' = stuck
        /\ \/ pc' = pc
           \/ pc' = [pc EXCEPT ![p] = "commit"] \/ pc' = [pc EXCEPT ![p] = "undo"]
        /\ \A q \in Proc : q # p => left'[q] = left[q]
    BY <1>0, <1>4 DEF ClaimSlot, Goto, TypeOK
  <2>3. \A b \in Batch : b # Mine(p) => Held(b)' = Held(b)
    <3>1. CASE claims' = claims
      BY <3>1 DEF Held
    <3>2. CASE claims' # claims
      <4>1. Used # Slot /\ claims' = [claims EXCEPT ![Min(Slot \ Used)] = Mine(p)]
        BY <1>4, <3>2 DEF ClaimSlot
      <4> QED
        BY <1>0, <2>1, <4>1, FirstFree, SlotTaken
    <3> QED
      BY <3>1, <3>2
  <2>4. \A q \in Proc : Mine(q)' = Mine(q)
    BY <2>2 DEF Mine
  <2>5. Fresh'
    BY <1>0, <2>1, <2>2, <2>3 DEF Fresh, Mine, TypeOK, Batch
  <2>6. \A q \in Proc : pc[q] \in Waiting =>
           Mine(q) # Mine(p) /\ Mine(q) \in Batch /\ pc'[q] = pc[q] /\ q # p
    BY <1>0, <2>1, <2>2, MineIsBatch DEF Mine, Waiting, TypeOK
  <2>6a. \A q \in Proc : pc'[q] \in Waiting => pc[q] \in Waiting
    BY <1>0, <2>2 DEF Waiting, TypeOK
  <2>6b. \A q \in Proc : pc'[q] \in Taking => pc[q] \in Taking
    BY <1>0, <2>1, <2>2 DEF Taking, TypeOK
  <2>7. NotYet'
    BY <1>0, <2>2, <2>3, <2>4, <2>6, <2>6a, <2>6b DEF NotYet
  <2>8. RefusedHoldsNothing'
    BY <1>0, <2>1, <2>2, <2>3, <2>4 DEF RefusedHoldsNothing, TypeOK, Owner, Batch
  <2> QED
    BY <1>0, <2>5, <2>7, <2>8 DEF RInv
<1>5. ASSUME NEW p \in Proc, Commit(p) PROVE RInv'
  <2>1. /\ UNCHANGED <<lock, claims, seen, calls, size, left, stuck, evicted>>
        /\ pc[p] = "commit" /\ Mine(p) \in Batch
        /\ \/ pc' = [pc EXCEPT ![p] = "leave"] /\ admitted'[Mine(p)] > 0
           \/ pc' = [pc EXCEPT ![p] = "undo"] /\ admitted' = admitted
        /\ \A b \in Batch : b # Mine(p) => admitted'[b] = admitted[b]
    BY <1>0, <1>5, MineIsBatch DEF Commit, Goto, TypeOK, TInv
  <2>2. (\A b : Held(b)' = Held(b)) /\ (\A q \in Proc : Mine(q)' = Mine(q))
    BY <2>1 DEF Held, Mine
  <2>3. Fresh'
    BY <1>0, <2>1, <2>2 DEF Fresh, Mine, TypeOK, Batch
  <2>4. \A q \in Proc : pc[q] \in Waiting \cup Taking /\ q # p =>
           Mine(q) # Mine(p) /\ Mine(q) \in Batch
    BY <1>0, MineIsBatch DEF Mine, Waiting, Taking
  <2>5. NotYet'
    BY <1>0, <2>1, <2>2, <2>4 DEF NotYet, TypeOK, Waiting, Taking
  <2>6. RefusedHoldsNothing'
    BY <1>0, <2>1, <2>2 DEF RefusedHoldsNothing, TypeOK, Owner, Batch
  <2> QED
    BY <1>0, <2>3, <2>5, <2>6 DEF RInv
<1>6. ASSUME NEW p \in Proc, Undo(p) PROVE RInv'
  <2>1. /\ pc[p] = "undo" /\ Mine(p) \in Batch /\ Owner(Mine(p)) = p
        /\ UNCHANGED <<lock, admitted, seen, calls, size, left, evicted>>
    BY <1>0, <1>6, MineIsBatch DEF Undo, Goto
  <2>2. CASE claims' # claims
    <3>0. PICK m \in Batch : m = Mine(p)
      BY <2>1
    <3>1. PICK s \in Held(m) : claims' = [claims EXCEPT ![s] = Absent]
      BY <1>6, <2>2, <3>0 DEF Undo
    <3>1a. pc' = pc /\ stuck' = stuck
      BY <1>0, <1>6, <2>2 DEF Undo, Goto, TypeOK
    <3>2. Held(m)' = Held(m) \ {s} /\ \A b \in Batch : b # m => Held(b)' = Held(b)
      BY <1>0, <3>1, SlotReturned
    <3>3. \A q \in Proc : Mine(q)' = Mine(q)
      BY <2>1 DEF Mine
    <3>4. \A b \in Batch : Held(b)' \subseteq Held(b)
      BY <3>2
    <3>5. Fresh'
      BY <1>0, <2>1, <3>4 DEF Fresh
    <3>6. NotYet'
      <4>1. \A q \in Proc : pc[q] \in Waiting => Mine(q) \in Batch
        BY <1>0, MineIsBatch DEF Waiting
      <4> QED
        BY <1>0, <2>1, <3>1a, <3>3, <3>4, <4>1 DEF NotYet
    <3>7. RefusedHoldsNothing'
      <4> SUFFICES ASSUME NEW b \in Batch, Held(b)' # {}
                   PROVE  \/ admitted[b] > 0
                          \/ pc[Owner(b)] = "dead"
                          \/ b = Mine(Owner(b)) /\ pc[Owner(b)] \in {"claim", "commit", "undo"}
                          \/ Held(b)' \subseteq stuck
        BY <2>1, <3>1a, <3>3 DEF RefusedHoldsNothing, Mine
      <4> QED
        BY <1>0, <3>4 DEF RefusedHoldsNothing
    <3> QED
      BY <1>0, <3>5, <3>6, <3>7 DEF RInv
  <2>3. CASE claims' = claims
    <3>1. /\ stuck \subseteq stuck'
          /\ \/ pc' = [pc EXCEPT ![p] = "undo"]
             \/ Held(Mine(p)) \subseteq stuck /\ pc' = [pc EXCEPT ![p] = "leave"]
      <4>1. CASE pc' = [pc EXCEPT ![p] = "undo"]
        BY <1>6, <2>3, <4>1 DEF Undo, Goto
      <4>2. CASE pc' = [pc EXCEPT ![p] = "leave"]
        BY <1>6, <2>3, <4>2 DEF Undo, Goto
      <4> QED
        BY <1>6, <4>1, <4>2 DEF Undo, Goto
    <3>2. (\A b : Held(b)' = Held(b)) /\ (\A q \in Proc : Mine(q)' = Mine(q))
      BY <2>1, <2>3 DEF Held, Mine
    <3>3. Fresh'
      BY <1>0, <2>1, <3>2 DEF Fresh
    <3>4. NotYet'
      BY <1>0, <2>1, <3>1, <3>2 DEF NotYet, TypeOK, Waiting, Taking
    <3>5. RefusedHoldsNothing'
      BY <1>0, <2>1, <3>1, <3>2 DEF RefusedHoldsNothing, TypeOK, Owner, Batch
    <3> QED
      BY <1>0, <3>3, <3>4, <3>5 DEF RInv
  <2> QED
    BY <2>2, <2>3
<1>7. CASE UNCHANGED vars
  <2>1. (\A b : Held(b)' = Held(b)) /\ (\A q \in Proc : Mine(q)' = Mine(q))
    BY <1>7 DEF vars, Held, Mine
  <2> QED
    BY <1>0, <1>7, <2>1 DEF vars, RInv, Fresh, NotYet, RefusedHoldsNothing, Mine
<1> QED
  BY <1>1, <1>2, <1>3, <1>4, <1>5, <1>6, <1>7 DEF Next, Operation

(* Nothing is held at the start. *)
LEMMA RInvInit == Init => RInv
<1> SUFFICES ASSUME Init PROVE RInv
  OBVIOUS
<1>1. TInv
  BY TInvInit
<1>2. \A b \in Batch : Held(b) = {} /\ admitted[b] = 0
  BY BudgetConstants DEF Init, Held
<1>3. \A p \in Proc : pc[p] = "idle"
  BY DEF Init
<1> QED
  BY <1>1, <1>2, <1>3 DEF RInv, Fresh, NotYet, RefusedHoldsNothing, Waiting, Taking

(* All or nothing, whatever fails and whoever dies: a live process that was  *)
(* refused has returned every slot.  (commitRunFanoutBatch's rollback.)      *)
THEOREM AllOrNothing == Spec => []RefusedHoldsNothing
<1>1. RInv => RefusedHoldsNothing
  BY DEF RInv
<1> QED
  BY <1>1, RInvInit, RInvStep, PTL DEF Spec

(* A slot that could not be returned stays taken, by a call that is over or  *)
(* returns what it took.                                                     *)
StuckIsLost ==
    \A s \in stuck :
        /\ claims[s] # Absent
        /\ \A p \in Proc : claims[s] = Mine(p) =>
              pc[p] \notin Waiting \cup {"claim", "commit"}

(* Every step keeps what is lost. *)
LEMMA StuckStep == RInv /\ StuckIsLost /\ [Next]_vars => StuckIsLost'
<1> SUFFICES ASSUME RInv, StuckIsLost, [Next]_vars PROVE StuckIsLost'
  OBVIOUS
<1> USE BudgetConstants
<1>0. TInv /\ TypeOK /\ Fresh
  BY DEF RInv, TInv
<1>1. ASSUME NEW p \in Proc, Call(p) PROVE StuckIsLost'
  <2>1. claims' = claims /\ stuck' = stuck /\ calls' = [calls EXCEPT ![p] = @ + 1]
        /\ \A q \in Proc : q # p => pc'[q] = pc[q] /\ Mine(q)' = Mine(q)
    BY <1>0, <1>1 DEF Call, Goto, TypeOK, Mine
  <2>2. Mine(p)' \in Batch /\ Mine(p)'[2] > calls[Mine(p)'[1]]
    BY <1>0, <1>1, <2>1 DEF Mine, TypeOK, Batch, Call
  <2>3. \A s \in Slot : claims[s] # Mine(p)'
    BY <1>0, <2>2 DEF Fresh, Held
  <2>4. stuck \subseteq Slot
    BY <1>0 DEF TypeOK
  <2> QED
    BY <2>1, <2>3, <2>4 DEF StuckIsLost
<1>2. ASSUME NEW p \in Proc, Locking(p) \/ Unlocking(p) \/ Die(p) PROVE StuckIsLost'
  <2>1. LockOnly /\ \E to \in PCs :
           /\ pc' = [pc EXCEPT ![p] = to]
           /\ to \in Waiting \cup {"claim", "commit"} => pc[p] \in Waiting
    BY <1>0, <1>2, LockSteps DEF Waiting
  <2>2. \A q \in Proc : Mine(q)' = Mine(q)
    BY <2>1 DEF LockOnly, Mine
  <2>3. \A q \in Proc : pc'[q] \in Waiting \cup {"claim", "commit"} =>
                         pc[q] \in Waiting \cup {"claim", "commit"}
    BY <1>0, <2>1 DEF TypeOK
  <2> QED
    BY <2>1, <2>2, <2>3 DEF LockOnly, StuckIsLost
<1>3. ASSUME NEW p \in Proc, Operation(p) PROVE StuckIsLost'
  <2>1. \A q \in Proc : Mine(q)' = Mine(q)
    BY <1>3 DEF Operation, Count, ClaimSlot, Commit, Undo, Mine
  <2>2. \A q \in Proc : pc'[q] \in Waiting \cup {"claim", "commit"} =>
                         pc[q] \in Waiting \cup {"claim", "commit"}
    BY <1>0, <1>3 DEF Operation, Count, ClaimSlot, Commit, Undo, Goto, TypeOK, Waiting
  <2>3. CASE Undo(p)
    <3>1. pc[p] = "undo" /\ pc'[p] \in {"undo", "leave"}
      BY <1>0, <2>3 DEF Undo, Goto, TypeOK
    <3>2. Mine(p) \in Batch /\ Owner(Mine(p)) = p
      BY <1>0, <3>1, MineIsBatch
    <3>3. CASE claims' = claims
      <4>1. \A s \in stuck' : s \in stuck \/ claims[s] = Mine(p)
        BY <2>3, <3>3 DEF Undo, Held
      <4>2. \A q \in Proc : Mine(q) = Mine(p) => q = p
        BY DEF Mine
      <4> QED
        BY <2>1, <2>2, <3>1, <3>2, <3>3, <4>1, <4>2 DEF StuckIsLost, Waiting
    <3>4. CASE claims' # claims
      <4>1. stuck' = stuck
            /\ \E s \in Slot \ stuck : claims' = [claims EXCEPT ![s] = Absent]
        BY <2>3, <3>4 DEF Undo, Held
      <4>2. \A s \in stuck' : s \in stuck /\ claims'[s] = claims[s]
        BY <1>0, <4>1 DEF TypeOK
      <4> QED
        BY <2>1, <2>2, <4>2 DEF StuckIsLost
    <3> QED
      BY <3>3, <3>4
  <2>4. CASE ~ Undo(p)
    <3>1. stuck' = stuck
      BY <1>3, <2>4 DEF Operation, Count, ClaimSlot, Commit
    <3>2. \/ claims' = claims
          \/ Used # Slot /\ claims' = [claims EXCEPT ![Min(Slot \ Used)] = Mine(p)]
      BY <1>3, <2>4 DEF Operation, Count, ClaimSlot, Commit
    <3>3. \A s \in stuck : claims'[s] = claims[s]
      BY <1>0, <3>2, FirstFree DEF TypeOK, StuckIsLost
    <3> QED
      BY <2>1, <2>2, <3>1, <3>3 DEF StuckIsLost
  <2> QED
    BY <2>3, <2>4
<1>4. CASE UNCHANGED vars
  BY <1>4 DEF vars, StuckIsLost, Mine
<1> QED
  BY <1>1, <1>2, <1>3, <1>4 DEF Next
-----------------------------------------------------------------------------
(* The admission lock has one holder, until a live lock is moved. *)

Working == Holding \cup {"write", "unlink", "rmdir"}

OneHolder == \A p, q \in Proc : pc[p] \in Working /\ pc[q] \in Working => p = q

HolderOwns ==
    \A p \in Proc :
        /\ pc[p] \in {"write", "rmdir"} => lock = NoOwner
        /\ pc[p] \in Holding => lock = Mine(p)
        /\ pc[p] = "unlink" => lock \in {Mine(p), NoOwner}

LInv == TInv /\ OneHolder /\ HolderOwns

(* A process that works under the lock keeps others from making a new one,   *)
(* and what is at the path is not stale.                                     *)
LEMMA LockKept ==
    ASSUME LInv, NEW p \in Proc, pc[p] \in Working
    PROVE  lock # Absent /\ ~ Stale(lock)
<1>1. lock = NoOwner \/ lock = Mine(p)
  BY DEF LInv, HolderOwns, Working
<1>2. Mine(p) \in Batch /\ Owner(Mine(p)) = p
  BY MineIsBatch DEF LInv, Working, Holding
<1>3. lock = NoOwner => pc[p] \in {"write", "unlink", "rmdir"}
  BY <1>2, BudgetConstants DEF LInv, HolderOwns, Working
<1> QED
  BY <1>1, <1>2, <1>3, BudgetConstants DEF Stale, Working, Holding

(* What has happened has happened. *)
LEMMA EvictedStays == [Next]_vars /\ evicted => evicted'
<1> USE DEF LockOnly
<1>1. ASSUME evicted, NEW p \in Proc,
             Call(p) \/ Locking(p) \/ Operation(p) \/ Unlocking(p) \/ Die(p)
      PROVE  evicted'
  BY <1>1 DEF Call, Locking, Mkdir, WriteOwner, ReadLock, CheckLock, Reclaim, Retry,
              Operation, Count, ClaimSlot, Commit, Undo,
              Unlocking, Leave, RemoveOwner, RemoveDir, Die
<1> QED
  BY <1>1 DEF Next, vars

(* Every other step keeps one holder. *)
LEMMA LInvStep == LInv /\ ~ evicted' /\ [Next]_vars => LInv'
<1> SUFFICES ASSUME LInv, ~ evicted', [Next]_vars PROVE LInv'
  OBVIOUS
<1> USE BudgetConstants
<1>0. TInv' /\ TInv /\ TypeOK /\ OneHolder /\ HolderOwns
  BY TInvStep DEF LInv, TInv
<1> USE DEF Goto, LockOnly
<1>1. ASSUME NEW p \in Proc, Call(p) PROVE LInv'
  <2>1. pc[p] = "idle" /\ pc' = [pc EXCEPT ![p] = "mkdir"] /\ lock' = lock
        /\ \A q \in Proc : q # p => Mine(q)' = Mine(q)
    BY <1>0, <1>1 DEF Call, Mine, TypeOK
  <2>2. \A q \in Proc : pc'[q] = IF q = p THEN "mkdir" ELSE pc[q]
    BY <1>0, <2>1 DEF TypeOK
  <2> QED
    BY <1>0, <2>1, <2>2 DEF LInv, OneHolder, HolderOwns, Working, Holding
<1>2. ASSUME NEW p \in Proc, Mkdir(p) PROVE LInv'
  <2>1. \A q \in Proc : Mine(q)' = Mine(q)
    BY <1>2 DEF Mkdir, Mine
  <2>2. CASE lock = Absent
    <3>1. \A q \in Proc : pc[q] \notin Working
      BY <2>2, LockKept
    <3>2. lock' = NoOwner /\ pc' = [pc EXCEPT ![p] = "write"]
      BY <1>2, <2>2 DEF Mkdir
    <3> QED
      BY <1>0, <2>1, <3>1, <3>2 DEF LInv, OneHolder, HolderOwns, Working, Holding, TypeOK
  <2>3. CASE lock # Absent
    <3>1. lock' = lock /\ pc' = [pc EXCEPT ![p] = "read"]
      BY <1>2, <2>3 DEF Mkdir
    <3> QED
      BY <1>0, <2>1, <3>1 DEF LInv, OneHolder, HolderOwns, Working, Holding, TypeOK
  <2> QED
    BY <2>2, <2>3
<1>3. ASSUME NEW p \in Proc, WriteOwner(p) PROVE LInv'
  <2>1. \A q \in Proc : Mine(q)' = Mine(q)
    BY <1>3 DEF WriteOwner, Mine
  <2>2. pc[p] = "write" /\ \A q \in Proc : q # p => pc[q] \notin Working
    BY <1>0, <1>3 DEF WriteOwner, OneHolder, Working
  <2>3. \/ pc' = [pc EXCEPT ![p] = "count"] /\ lock' = Mine(p)
        \/ pc' = [pc EXCEPT ![p] = "unlink"] /\ lock' = lock
    BY <1>3 DEF WriteOwner
  <2> QED
    BY <1>0, <2>1, <2>2, <2>3 DEF LInv, OneHolder, HolderOwns, Working, Holding, TypeOK
<1>4. ASSUME NEW p \in Proc, ReadLock(p) \/ CheckLock(p) \/ Retry(p) \/ Die(p) PROVE LInv'
  <2>1. \A q \in Proc : Mine(q)' = Mine(q)
    BY <1>4 DEF ReadLock, CheckLock, Retry, Die, Mine
  <2>2. PICK to \in {"check", "rename", "wait", "mkdir", "idle", "dead"} :
           pc' = [pc EXCEPT ![p] = to] /\ lock' = lock
    <3>1. CASE CheckLock(p)
      <4>1. pc' = [pc EXCEPT ![p] = "rename"] \/ pc' = [pc EXCEPT ![p] = "wait"]
        BY <3>1 DEF CheckLock
      <4> QED
        BY <3>1, <4>1 DEF CheckLock
    <3>2. CASE ~ CheckLock(p)
      BY <1>4, <3>2 DEF ReadLock, Retry, Die
    <3> QED
      BY <3>1, <3>2
  <2> QED
    BY <1>0, <2>1, <2>2 DEF LInv, OneHolder, HolderOwns, Working, Holding, TypeOK
<1>5. ASSUME NEW p \in Proc, Reclaim(p) PROVE LInv'
  <2>1. \A q \in Proc : Mine(q)' = Mine(q)
    BY <1>5 DEF Reclaim, Mine
  <2>2. \A q \in Proc : pc[q] \notin Working
    BY <1>5, LockKept DEF Reclaim
  <2>3. \/ pc' = [pc EXCEPT ![p] = "mkdir"] \/ pc' = [pc EXCEPT ![p] = "idle"]
        \/ pc' = [pc EXCEPT ![p] = "wait"]
    BY <1>5 DEF Reclaim
  <2> QED
    BY <1>0, <2>1, <2>2, <2>3 DEF LInv, OneHolder, HolderOwns, Working, Holding, TypeOK
<1>6. ASSUME NEW p \in Proc, Operation(p) PROVE LInv'
  <2>1. lock' = lock /\ \A q \in Proc : Mine(q)' = Mine(q)
    BY <1>6 DEF Operation, Count, ClaimSlot, Commit, Undo, Mine
  <2>2. pc[p] \in Holding /\ \E to \in Holding : pc' = [pc EXCEPT ![p] = to]
    BY <1>0, <1>6 DEF Operation, Count, ClaimSlot, Commit, Undo, Holding, TypeOK
  <2>3. \A q \in Proc : q # p => pc'[q] = pc[q]
    BY <1>0, <2>2 DEF TypeOK
  <2>4. pc'[p] \in Holding
    BY <1>0, <2>2 DEF TypeOK
  <2>5. OneHolder'
    BY <1>0, <2>2, <2>3, <2>4 DEF OneHolder, Working
  <2>6. HolderOwns'
    BY <1>0, <2>1, <2>2, <2>3, <2>4 DEF HolderOwns, Holding
  <2> QED
    BY <1>0, <2>5, <2>6 DEF LInv
<1>7. ASSUME NEW p \in Proc, Leave(p) PROVE LInv'
  <2>1. \A q \in Proc : Mine(q)' = Mine(q)
    BY <1>7 DEF Leave, Mine
  <2>2. pc[p] = "leave" /\ lock' = lock /\ pc' = [pc EXCEPT ![p] = "unlink"]
    BY <1>0, <1>7 DEF Leave, HolderOwns, Holding
  <2> QED
    BY <1>0, <2>1, <2>2 DEF LInv, OneHolder, HolderOwns, Working, Holding, TypeOK
<1>8. ASSUME NEW p \in Proc, RemoveOwner(p) PROVE LInv'
  <2>1. \A q \in Proc : Mine(q)' = Mine(q)
    BY <1>8 DEF RemoveOwner, Mine
  <2>2. pc[p] = "unlink" /\ \A q \in Proc : q # p => pc[q] \notin Working
    BY <1>0, <1>8 DEF RemoveOwner, OneHolder, Working
  <2>3. Mine(p) \in Batch
    BY <1>0, <2>2, MineIsBatch
  <2>4. \/ pc' = [pc EXCEPT ![p] = "rmdir"] /\ lock' = NoOwner
        \/ pc' = [pc EXCEPT ![p] = "idle"]
    BY <1>0, <1>8, <2>2, <2>3 DEF RemoveOwner, HolderOwns
  <2> QED
    BY <1>0, <2>1, <2>2, <2>4 DEF LInv, OneHolder, HolderOwns, Working, Holding, TypeOK
<1>9. ASSUME NEW p \in Proc, RemoveDir(p) PROVE LInv'
  <2>1. \A q \in Proc : Mine(q)' = Mine(q)
    BY <1>9 DEF RemoveDir, Mine
  <2>2. \A q \in Proc : q # p => pc[q] \notin Working
    BY <1>0, <1>9 DEF RemoveDir, OneHolder, Working
  <2>3. pc' = [pc EXCEPT ![p] = "idle"]
    BY <1>9 DEF RemoveDir
  <2> QED
    BY <1>0, <2>1, <2>2, <2>3 DEF LInv, OneHolder, HolderOwns, Working, Holding, TypeOK
<1>10. CASE UNCHANGED vars
  BY <1>0, <1>10 DEF vars, LInv, OneHolder, HolderOwns, Mine
<1> QED
  BY <1>1, <1>2, <1>3, <1>4, <1>5, <1>6, <1>7, <1>8, <1>9, <1>10 DEF Next, Locking, Unlocking

(* Nobody holds the lock at the start. *)
LEMMA LInvInit == Init => LInv
<1> SUFFICES ASSUME Init PROVE LInv
  OBVIOUS
<1>1. \A p \in Proc : pc[p] = "idle"
  BY DEF Init
<1> QED
  BY <1>1, TInvInit DEF LInv, OneHolder, HolderOwns, Working, Holding
-----------------------------------------------------------------------------
(* The limit *)

(* The room a batch has counted is still there when it takes its slots.     *)
CountedRoomRemains ==
    \A p \in Proc : pc[p] = "claim" => Cardinality(Slot \ Used) >= left[p]

(* The holder's slots add up to what it asked for. *)
Counted ==
    \A p \in Proc :
        /\ pc[p] = "claim" => Cardinality(Held(Mine(p))) + left[p] = size[p]
        /\ pc[p] = "commit" => Cardinality(Held(Mine(p))) = size[p]

CInv == RInv /\ StuckIsLost /\ LInv /\ CountedRoomRemains /\ Counted /\ AdmittedHoldsSlots

(* The slots are finitely many. *)
LEMMA SlotsFinite ==
    /\ IsFiniteSet(Slot) /\ Cardinality(Slot) = Limit
    /\ \A T \in SUBSET Slot : IsFiniteSet(T) /\ Cardinality(T) \in Nat
<1>1. Limit - 1 \in Int /\ 0 \in Int /\ ~ (0 > Limit - 1) /\ Limit - 1 - 0 + 1 = Limit
  BY BudgetConstants
<1>2. IsFiniteSet(Slot) /\ Cardinality(Slot) = Limit
  BY <1>1, FS_Interval DEF Slot
<1> QED
  BY <1>2, FS_Subset, FS_CardinalityType

(* Used and unused slots add up to the limit. *)
LEMMA Room == Cardinality(Slot \ Used) = Limit - Cardinality(Used)
<1>1. Used \subseteq Slot
  BY DEF Used
<1>2. Cardinality(Slot \ Used) = Cardinality(Slot) - Cardinality(Slot \cap Used)
  BY SlotsFinite, FS_Difference
<1>3. Slot \cap Used = Used
  BY <1>1
<1> QED
  BY <1>2, <1>3, SlotsFinite

(* Every step keeps the counts. *)
LEMMA CInvStep == CInv /\ ~ evicted' /\ [Next]_vars => CInv'
<1> SUFFICES ASSUME CInv, ~ evicted', [Next]_vars PROVE CInv'
  OBVIOUS
<1> USE BudgetConstants
<1>0. /\ RInv' /\ StuckIsLost' /\ LInv'
      /\ TInv /\ TypeOK /\ Fresh /\ NotYet /\ OneHolder
      /\ CountedRoomRemains /\ Counted /\ AdmittedHoldsSlots
  BY RInvStep, StuckStep, LInvStep DEF CInv, RInv, LInv, TInv
<1>1. ASSUME NEW p \in Proc, Call(p) PROVE CInv'
  <2>1. claims' = claims /\ admitted' = admitted /\ pc' = [pc EXCEPT ![p] = "mkdir"]
        /\ \A q \in Proc : q # p =>
              Mine(q)' = Mine(q) /\ left'[q] = left[q] /\ size'[q] = size[q]
    BY <1>0, <1>1 DEF Call, Goto, TypeOK, Mine
  <2>2. (\A b : Held(b)' = Held(b)) /\ Used' = Used
    BY <2>1 DEF Held, Used
  <2>3. \A q \in Proc : pc'[q] \in {"claim", "commit"} => q # p /\ pc'[q] = pc[q]
    BY <1>0, <2>1 DEF TypeOK
  <2>4. CountedRoomRemains' /\ Counted'
    BY <1>0, <2>1, <2>2, <2>3 DEF CountedRoomRemains, Counted
  <2>5. AdmittedHoldsSlots'
    BY <1>0, <2>1, <2>2 DEF AdmittedHoldsSlots
  <2> QED
    BY <1>0, <2>4, <2>5 DEF CInv
<1>2. ASSUME NEW p \in Proc, Locking(p) \/ Unlocking(p) \/ Die(p) PROVE CInv'
  <2>1. LockOnly /\ \E to \in PCs \ {"claim", "commit"} : pc' = [pc EXCEPT ![p] = to]
    BY <1>0, <1>2, LockSteps DEF Waiting
  <2>2. (\A b : Held(b)' = Held(b)) /\ Used' = Used /\ \A q \in Proc : Mine(q)' = Mine(q)
    BY <2>1 DEF Held, Used, Mine, LockOnly
  <2>3. \A q \in Proc : pc'[q] \in {"claim", "commit"} => pc'[q] = pc[q]
    BY <1>0, <2>1 DEF TypeOK
  <2>4. CountedRoomRemains' /\ Counted' /\ AdmittedHoldsSlots'
    BY <1>0, <2>1, <2>2, <2>3 DEF CountedRoomRemains, Counted, AdmittedHoldsSlots, LockOnly
  <2> QED
    BY <1>0, <2>4 DEF CInv
<1>3. ASSUME NEW p \in Proc, Count(p) PROVE CInv'
  <2>1. UNCHANGED <<lock, claims, admitted, seen, calls, size, left, stuck, evicted>> /\ pc[p] = "count"
    BY <1>3 DEF Count, Goto
  <2>2. (\A b : Held(b)' = Held(b)) /\ Used' = Used /\ \A q \in Proc : Mine(q)' = Mine(q)
    BY <2>1 DEF Held, Used, Mine
  <2>3. \A q \in Proc : pc'[q] \in {"claim", "commit"} => q = p \/ pc'[q] = pc[q]
    BY <1>0, <1>3 DEF Count, Goto, TypeOK
  <2>4. pc'[p] # "commit" /\ (pc'[p] = "claim" => Cardinality(Used) + size[p] <= Limit)
    BY <1>0, <1>3 DEF Count, Goto, TypeOK
  <2>5. Held(Mine(p)) = {} /\ left[p] = size[p] /\ size[p] \in Nat
    BY <1>0, <2>1 DEF NotYet, Waiting, TypeOK
  <2>6. CountedRoomRemains'
    <3>1. Used \in SUBSET Slot
      BY DEF Used
    <3>2. pc'[p] = "claim" => Cardinality(Slot \ Used) >= left[p]
      BY <2>4, <2>5, <3>1, Room, SlotsFinite
    <3> QED
      BY <1>0, <2>1, <2>2, <2>3, <3>2 DEF CountedRoomRemains
  <2>7. Counted'
    <3>1. Cardinality(Held(Mine(p))) + left[p] = size[p]
      BY <2>5, FS_EmptySet
    <3> QED
      BY <1>0, <2>1, <2>2, <2>3, <2>4, <3>1 DEF Counted
  <2>8. AdmittedHoldsSlots'
    BY <1>0, <2>1, <2>2 DEF AdmittedHoldsSlots
  <2> QED
    BY <1>0, <2>6, <2>7, <2>8 DEF CInv
<1>4. ASSUME NEW p \in Proc, ClaimSlot(p) PROVE CInv'
  <2>1. pc[p] = "claim" /\ Mine(p) \in Batch
    BY <1>0, <1>4, MineIsBatch DEF ClaimSlot
  <2>2. PICK m \in Batch : m = Mine(p)
    BY <2>1
  <2>3. UNCHANGED <<lock, admitted, seen, calls, size>> /\ \A q \in Proc : Mine(q)' = Mine(q)
    BY <1>4 DEF ClaimSlot, Mine
  <2>4. \A q \in Proc : pc'[q] \in {"claim", "commit"} => q = p
    <3>1. \A q \in Proc : q # p => pc[q] \notin Working
      BY <1>0, <2>1 DEF OneHolder, Working, Holding
    <3>2. \A q \in Proc : q # p => pc'[q] = pc[q]
      BY <1>0, <1>4 DEF ClaimSlot, Goto, TypeOK
    <3> QED
      BY <3>1, <3>2 DEF Working, Holding
  <2>5. CASE left[p] = 0 \/ (claims' = claims /\ left' = left)
    <3>1. claims' = claims /\ left' = left /\ pc'[p] \in {"commit", "undo"}
          /\ (pc'[p] = "commit" => left[p] = 0)
      BY <1>0, <1>4, <2>5 DEF ClaimSlot, Goto, TypeOK
    <3>2. (\A b : Held(b)' = Held(b)) /\ Used' = Used
      BY <3>1 DEF Held, Used
    <3>3. Cardinality(Held(m)) + left[p] = size[p] /\ Cardinality(Held(m)) \in Nat
      <4>1. Held(m) \in SUBSET Slot
        BY DEF Held
      <4> QED
        BY <1>0, <2>1, <2>2, <4>1, SlotsFinite DEF Counted
    <3>4. Counted'
      BY <2>2, <2>3, <2>4, <3>1, <3>2, <3>3 DEF Counted
    <3>5. CountedRoomRemains' /\ AdmittedHoldsSlots'
      BY <1>0, <2>3, <2>4, <3>1, <3>2 DEF CountedRoomRemains, AdmittedHoldsSlots
    <3> QED
      BY <1>0, <3>4, <3>5 DEF CInv
  <2>6. CASE left[p] > 0 /\ left' = [left EXCEPT ![p] = @ - 1]
    <3>1. left[p] \in Nat /\ left'[p] = left[p] - 1
      BY <1>0, <2>6 DEF TypeOK
    <3>2. Used # Slot
      <4>1. CASE Used = Slot
        <5>1. Cardinality(Slot \ Used) = 0
          BY <4>1, FS_EmptySet
        <5> QED
          BY <1>0, <2>1, <2>6, <3>1, <5>1 DEF CountedRoomRemains
      <4> QED
        BY <4>1
    <3>3. pc' = pc /\ claims' = [claims EXCEPT ![Min(Slot \ Used)] = m]
      <4>1. left' # left /\ left[p] # 0
        BY <2>6, <3>1
      <4> QED
        BY <1>4, <2>2, <3>2, <4>1 DEF ClaimSlot
    <3>4. PICK s \in Slot : claims[s] = Absent /\ claims' = [claims EXCEPT ![s] = m]
      BY <1>0, <3>2, <3>3, FirstFree
    <3>5. /\ s \notin Held(m) /\ Held(m)' = Held(m) \cup {s}
          /\ \A c \in Batch : c # m => Held(c)' = Held(c)
          /\ (Slot \ Used)' = (Slot \ Used) \ {s} /\ s \in Slot \ Used
      BY <1>0, <3>4, SlotTaken
    <3>6. IsFiniteSet(Held(m)) /\ IsFiniteSet(Slot \ Used)
          /\ Cardinality(Held(m)) \in Nat /\ Cardinality(Slot \ Used) \in Nat
      <4>1. Held(m) \in SUBSET Slot /\ Slot \ Used \in SUBSET Slot
        BY DEF Held
      <4> QED
        BY <4>1, SlotsFinite
    <3>7. Cardinality(Held(m))' = Cardinality(Held(m)) + 1
          /\ Cardinality(Slot \ Used)' = Cardinality(Slot \ Used) - 1
      <4>1. Cardinality(Held(m) \cup {s}) = Cardinality(Held(m)) + 1
        BY <3>5, <3>6, FS_AddElement
      <4>2. Cardinality((Slot \ Used) \ {s}) = Cardinality(Slot \ Used) - 1
        BY <3>5, <3>6, FS_RemoveElement
      <4> QED
        BY <3>5, <4>1, <4>2
    <3>8. CountedRoomRemains'
      <4>1. Cardinality(Slot \ Used)' >= left'[p]
        BY <1>0, <2>1, <3>1, <3>6, <3>7 DEF CountedRoomRemains
      <4> QED
        BY <2>4, <4>1 DEF CountedRoomRemains
    <3>9. Counted'
      <4>1. Cardinality(Held(m))' + left'[p] = size[p] /\ pc'[p] = "claim"
        BY <1>0, <2>1, <2>2, <3>1, <3>3, <3>6, <3>7 DEF Counted, TypeOK
      <4>2. Cardinality(Held(Mine(p))') = Cardinality(Held(m))'
        BY <2>2, <2>3 DEF Held
      <4> QED
        BY <2>3, <2>4, <4>1, <4>2 DEF Counted
    <3>10. AdmittedHoldsSlots'
      <4>1. admitted[m] = 0
        BY <1>0, <2>1, <2>2 DEF NotYet, Taking
      <4> QED
        BY <1>0, <2>3, <3>5, <4>1 DEF AdmittedHoldsSlots
    <3> QED
      BY <1>0, <3>8, <3>9, <3>10 DEF CInv
  <2> QED
    BY <1>4, <2>5, <2>6 DEF ClaimSlot
<1>5. ASSUME NEW p \in Proc, Commit(p) PROVE CInv'
  <2>1. /\ UNCHANGED <<lock, claims, seen, calls, size, left, stuck, evicted>>
        /\ pc[p] = "commit" /\ Mine(p) \in Batch
        /\ admitted'[Mine(p)] \in {size[p], admitted[Mine(p)]}
        /\ \A b \in Batch : b # Mine(p) => admitted'[b] = admitted[b]
    BY <1>0, <1>5, MineIsBatch DEF Commit, Goto, TypeOK, TInv
  <2>2. (\A b : Held(b)' = Held(b)) /\ Used' = Used /\ \A q \in Proc : Mine(q)' = Mine(q)
    BY <2>1 DEF Held, Used, Mine
  <2>3. \A q \in Proc : pc'[q] \in {"claim", "commit"} => pc'[q] = pc[q]
    BY <1>0, <1>5 DEF Commit, Goto, TypeOK
  <2>4. CountedRoomRemains' /\ Counted'
    BY <1>0, <2>1, <2>2, <2>3 DEF CountedRoomRemains, Counted
  <2>5. AdmittedHoldsSlots'
    BY <1>0, <2>1, <2>2 DEF AdmittedHoldsSlots, Counted
  <2> QED
    BY <1>0, <2>4, <2>5 DEF CInv
<1>6. ASSUME NEW p \in Proc, Undo(p) PROVE CInv'
  <2>1. pc[p] = "undo" /\ UNCHANGED <<lock, admitted, seen, calls, size, left, evicted>>
    BY <1>6 DEF Undo, Goto
  <2>2. PICK m \in Batch : m = Mine(p)
    BY <1>0, <2>1, MineIsBatch
  <2>3. \A q \in Proc : pc'[q] \notin {"claim", "commit"}
    <3>1. \A q \in Proc : q # p => pc[q] \notin Working
      BY <1>0, <2>1 DEF OneHolder, Working, Holding
    <3>2. \A q \in Proc : pc'[q] = pc[q] \/ pc'[q] = "leave"
      BY <1>0, <1>6 DEF Undo, Goto, TypeOK
    <3> QED
      BY <2>1, <3>1, <3>2 DEF Working, Holding
  <2>4. \A b \in Batch : b # m => Held(b)' = Held(b)
    <3>1. CASE claims' = claims
      BY <3>1 DEF Held
    <3>2. CASE claims' # claims
      <4>1. \E s \in Held(m) : claims' = [claims EXCEPT ![s] = Absent]
        BY <1>6, <2>2, <3>2 DEF Undo
      <4> QED
        BY <1>0, <4>1, SlotReturned
    <3> QED
      BY <3>1, <3>2
  <2>5. admitted[m] = 0
    BY <1>0, <2>1, <2>2 DEF NotYet, Taking
  <2>6. CountedRoomRemains' /\ Counted'
    BY <2>3 DEF CountedRoomRemains, Counted
  <2>7. AdmittedHoldsSlots'
    BY <1>0, <2>1, <2>4, <2>5 DEF AdmittedHoldsSlots
  <2> QED
    BY <1>0, <2>6, <2>7 DEF CInv
<1>7. CASE UNCHANGED vars
  <2>1. (\A b : Held(b)' = Held(b)) /\ Used' = Used /\ \A q \in Proc : Mine(q)' = Mine(q)
    BY <1>7 DEF vars, Held, Used, Mine
  <2> QED
    BY <1>0, <1>7, <2>1 DEF vars, CInv, CountedRoomRemains, Counted, AdmittedHoldsSlots
<1> QED
  BY <1>1, <1>2, <1>3, <1>4, <1>5, <1>6, <1>7 DEF Next, Operation

(* Nothing is counted at the start. *)
LEMMA CInvInit == Init => CInv
<1> SUFFICES ASSUME Init PROVE CInv
  OBVIOUS
<1>1. (\A p \in Proc : pc[p] = "idle") /\ (\A b \in Batch : admitted[b] = 0) /\ stuck = {}
  BY DEF Init
<1> QED
  BY <1>1, RInvInit, LInvInit
     DEF CInv, StuckIsLost, CountedRoomRemains, Counted, AdmittedHoldsSlots

(* Children with slots of their own are not more than the slots. *)
LEMMA SlotsLimitChildren == CInv => WithinLimit
<1> SUFFICES ASSUME CInv PROVE WithinLimit
  OBVIOUS
<1>1. TypeOK /\ AdmittedHoldsSlots
  BY DEF CInv, LInv, TInv
<1>2. \A b \in Batch : ExistsInjection(1..admitted[b], Held(b))
  <2> SUFFICES ASSUME NEW b \in Batch PROVE ExistsInjection(1..admitted[b], Held(b))
    OBVIOUS
  <2>1. CASE admitted[b] > 0
    <3>1. Held(b) \in SUBSET Slot
      BY DEF Held
    <3>2. ExistsBijection(1..Cardinality(Held(b)), Held(b))
      BY <3>1, SlotsFinite, FS_CardinalityType
    <3> QED
      BY <1>1, <2>1, <3>2 DEF AdmittedHoldsSlots, ExistsBijection, ExistsInjection, Bijection
  <2>2. CASE admitted[b] = 0
    <3>1. [x \in {} |-> x] \in Injection({}, Held(b))
      BY DEF Injection, IsInjective
    <3>2. 1..admitted[b] = {}
      BY <2>2
    <3> QED
      BY <3>1, <3>2 DEF ExistsInjection
  <2> QED
    BY <1>1, <2>1, <2>2 DEF TypeOK
<1> DEFINE g == [b \in Batch |-> CHOOSE f \in Injection(1..admitted[b], Held(b)) : TRUE]
           h == [c \in Children |-> g[c[1]][c[2]]]
<1>3. \A b \in Batch : g[b] \in Injection(1..admitted[b], Held(b))
  BY <1>2 DEF ExistsInjection
<1> HIDE DEF g
<1>4. \A c \in Children : c[1] \in Batch /\ c[2] \in 1..admitted[c[1]]
                          /\ c = <<c[1], c[2]>>
  BY <1>1 DEF Children, TypeOK
<1>5. \A c \in Children : h[c] \in Held(c[1])
  BY <1>3, <1>4 DEF Injection
<1>6. h \in [Children -> Slot]
  BY <1>5 DEF Held
<1>7. ASSUME NEW c \in Children, NEW d \in Children, h[c] = h[d] PROVE c = d
  <2>1. c[1] = d[1]
    BY <1>4, <1>5, <1>7 DEF Held
  <2>2. g[c[1]][c[2]] = g[c[1]][d[2]]
    BY <1>7, <2>1
  <2>3. c[2] = d[2]
    BY <1>3, <1>4, <2>1, <2>2 DEF Injection, IsInjective
  <2> QED
    BY <1>4, <2>1, <2>3
<1>8. h \in Injection(Children, Slot)
  BY <1>6, <1>7 DEF Injection, IsInjective
<1> HIDE DEF h
<1>9. Cardinality(Children) <= Cardinality(Slot)
  BY <1>8, SlotsFinite, FS_Injection
<1> QED
  BY <1>9, SlotsFinite DEF WithinLimit

(* Until a live lock is moved, nobody takes a slot between a batch's count   *)
(* and its claims.                                                           *)
THEOREM RoomRemains == Spec => [](evicted \/ CountedRoomRemains)
<1>1. CInv => CountedRoomRemains
  BY DEF CInv
<1> QED
  BY <1>1, CInvInit, CInvStep, EvictedStays, PTL DEF Spec

(* Every admitted child has a slot, so that later batches count it, until a  *)
(* live lock is moved.                                                       *)
THEOREM SlotsAccountForChildren == Spec => []SlotsKept
<1>1. CInv => AdmittedHoldsSlots
  BY DEF CInv
<1>2. (evicted \/ AdmittedHoldsSlots) <=> SlotsKept
  BY DEF SlotsKept
<1> QED
  BY <1>1, <1>2, CInvInit, CInvStep, EvictedStays, PTL DEF Spec

(* The run never starts more children than its limit, for any number of      *)
(* processes and batches, whatever fails and whoever dies, unless a reclaimer *)
(* has moved a lock that was replaced since it judged it stale.              *)
THEOREM LimitHolds == Spec => []LimitKept
<1>1. (evicted \/ WithinLimit) <=> LimitKept
  BY DEF LimitKept
<1> QED
  BY <1>1, SlotsLimitChildren, CInvInit, CInvStep, EvictedStays, PTL DEF Spec
-----------------------------------------------------------------------------
(* The refinement: what the abstract budget sees of a step. *)

(* A step that leaves the children, the owners of spent slots and the dead   *)
(* as they are does not show.                                               *)
LEMMA UnseenStep ==
    ASSUME admitted' = admitted,
           \A s \in Slot : claims'[s] # claims[s] =>
               s \notin Spent /\ s \notin Spent',
           \A s \in Slot : claims'[s] = claims[s] =>
               (s \in Spent <=> s \in Spent')
    PROVE  UNCHANGED Budget!budgetVars
<1>1. Spent \subseteq Slot /\ Spent' \subseteq Slot
  BY DEF Spent, Used
<1>2. Spent' = Spent
  BY <1>1
<1> QED
  BY <1>2 DEF Budget!budgetVars

(* Only the commit and a death give places away.                            *)
LEMMA StepImplementsBudget ==
    ASSUME CInv, NEW p \in Proc,
           Call(p) \/ Locking(p) \/ Operation(p) \/ Unlocking(p) \/ Die(p)
    PROVE  [Budget!Next]_(Budget!budgetVars)
<1> USE BudgetConstants
<1>0. TInv /\ TypeOK /\ Fresh /\ NotYet /\ Counted /\ StuckIsLost
  BY DEF CInv, RInv, TInv
<1>1. \A s \in Slot : claims[s] \in Batch \/ claims[s] = Absent
  BY <1>0 DEF TypeOK
<1>2. \A b \in Batch : Owner(b) \in Proc
  BY DEF Batch, Owner
<1>3. CASE Call(p) \/ Count(p) \/ ((Locking(p) \/ Unlocking(p)) /\ ~Die(p))
  <2>1. claims' = claims /\ admitted' = admitted /\ stuck' = stuck
    <3>1. CASE Locking(p) \/ Unlocking(p)
      BY <1>0, <3>1, LockSteps DEF LockOnly
    <3>2. CASE Call(p) \/ Count(p)
      BY <3>2 DEF Call, Count
    <3> QED
      BY <1>3, <3>1, <3>2
  <2>2. \A q \in Proc : pc[q] = "dead" <=> pc'[q] = "dead"
    <3>1. CASE Call(p)
      BY <1>0, <3>1 DEF Call, Goto, TypeOK
    <3>2. CASE Count(p)
      BY <1>0, <3>2 DEF Count, Goto, TypeOK
    <3>3. CASE Locking(p) /\ ~CheckLock(p)
      BY <1>0, <3>3 DEF Locking, Mkdir, WriteOwner, ReadLock, Reclaim, Retry, Goto, TypeOK
    <3>4. CASE CheckLock(p)
      <4>1. pc' = [pc EXCEPT ![p] = "rename"] \/ pc' = [pc EXCEPT ![p] = "wait"]
        BY <3>4 DEF CheckLock, Goto
      <4> QED
        BY <1>0, <3>4, <4>1 DEF CheckLock, Goto, TypeOK
    <3>5. CASE Unlocking(p)
      BY <1>0, <3>5 DEF Unlocking, Leave, RemoveOwner, RemoveDir, Goto, TypeOK
    <3> QED
      BY <1>3, <3>1, <3>2, <3>3, <3>4, <3>5
  <2>3. Spent' = Spent
    BY <1>1, <1>2, <2>1, <2>2 DEF Spent, Used
  <2> QED
    BY <2>1, <2>3 DEF Budget!budgetVars
<1>4. CASE ClaimSlot(p) \/ (Undo(p) /\ stuck' = stuck)
  <2>1. /\ pc[p] \in Taking /\ Mine(p) \in Batch /\ Owner(Mine(p)) = p /\ stuck' = stuck
        /\ pc'[p] # "dead" /\ \A q \in Proc : q # p => pc'[q] = pc[q]
    BY <1>0, <1>4, MineIsBatch DEF ClaimSlot, Undo, Goto, Taking, TypeOK
  <2>2. PICK m \in Batch : m = Mine(p)
    BY <2>1
  <2>3. admitted' = admitted /\ admitted[m] = 0
    BY <1>0, <1>4, <2>1, <2>2 DEF ClaimSlot, Undo, NotYet
  <2>4. \/ claims' = claims
        \/ \E s \in Slot \ stuck : claims[s] = Absent /\ claims' = [claims EXCEPT ![s] = m]
        \/ \E s \in Held(m) \ stuck : claims' = [claims EXCEPT ![s] = Absent]
    BY <1>0, <1>4, <2>2, FirstFree DEF ClaimSlot, Undo, StuckIsLost
  <2>5. \A s \in Slot \ stuck : claims[s] = m => s \notin Spent
    BY <2>1, <2>2, <2>3, <1>0 DEF Spent, Taking
  <2>6. \A s \in Slot \ stuck : claims'[s] = m => s \notin Spent'
    BY <2>1, <2>2, <2>3, <1>0 DEF Spent, Taking
  <2>7. \A s \in Slot : claims'[s] # claims[s] => s \notin Spent /\ s \notin Spent'
    BY <1>0, <2>4, <2>5, <2>6 DEF Spent, Used, Held, TypeOK
  <2>8. \A s \in Slot : claims'[s] = claims[s] => (s \in Spent <=> s \in Spent')
    BY <1>1, <1>2, <2>1, <2>3 DEF Spent, Used, Taking
  <2> QED
    BY <2>3, <2>7, <2>8, UnseenStep
<1>4a. CASE Undo(p) /\ stuck' # stuck
  <2>1. PICK s \in Slot : stuck' = stuck \cup {s} /\ claims[s] = Mine(p)
    BY <1>4a DEF Undo, Held
  <2>2. admitted' = admitted /\ claims' = claims
        /\ \A q \in Proc : pc'[q] = "dead" <=> pc[q] = "dead"
    BY <1>0, <1>4a DEF Undo, Goto, TypeOK
  <2>3. Spent \subseteq Spent' /\ Spent' \subseteq Slot
    BY <1>0, <1>1, <1>2, <2>1, <2>2 DEF Spent, Used, TypeOK
  <2>4. Spent' = Spent \cup (Spent' \ Spent) /\ Spent' \ Spent \in SUBSET (Slot \ Spent)
    BY <2>3
  <2>5. Budget!Lose
    BY <2>2, <2>4 DEF Budget!Lose
  <2> QED
    BY <2>5 DEF Budget!Next
<1>5. CASE Commit(p)
  <2>1. pc[p] = "commit" /\ Mine(p) \in Batch /\ Owner(Mine(p)) = p
        /\ claims' = claims /\ stuck' = stuck
        /\ pc'[p] # "dead" /\ \A q \in Proc : q # p => pc'[q] = pc[q]
    BY <1>0, <1>5, MineIsBatch DEF Commit, Goto, TypeOK
  <2>2. PICK m \in Batch : m = Mine(p)
    BY <2>1
  <2>3. admitted[m] = 0 /\ size[p] > 0 /\ size[p] \in Nat /\ Cardinality(Held(m)) = size[p]
    BY <1>0, <2>1, <2>2 DEF NotYet, Taking, TInv, TypeOK, Counted
  <2>4. CASE admitted' = admitted
    <3>1. Spent' = Spent
      BY <1>1, <1>2, <2>1, <2>4 DEF Spent, Used
    <3> QED
      BY <2>4, <3>1 DEF Budget!budgetVars
  <2>5. CASE admitted' = [admitted EXCEPT ![m] = size[p]]
    <3>1. Held(m) \in SUBSET (Slot \ Spent)
      <4>1. \A s \in Held(m) : s \notin stuck
        BY <1>0, <2>1, <2>2 DEF Held, StuckIsLost
      <4> QED
        BY <2>1, <2>2, <2>3, <4>1 DEF Held, Spent
    <3>2. Held(m) # {}
      BY <2>3, FS_EmptySet
    <3>3. \A b \in Batch : admitted'[b] > 0 <=> admitted[b] > 0 \/ b = m
      BY <1>0, <2>3, <2>5 DEF TypeOK
    <3>4. \A s \in Slot : s \in Spent' <=> s \in Spent \/ s \in Held(m)
      BY <1>1, <1>2, <2>1, <2>2, <3>3 DEF Spent, Used, Held
    <3>5. Spent' = Spent \cup Held(m)
      BY <3>4 DEF Spent, Used, Held
    <3>6. Budget!Cardinality(Held(m)) = Cardinality(Held(m))
      BY DEF Budget!Cardinality, Cardinality
    <3>7. Budget!Admit(m)
      BY <2>3, <2>5, <3>1, <3>2, <3>5, <3>6 DEF Budget!Admit
    <3> QED
      BY <3>7 DEF Budget!Next
  <2> QED
    BY <1>5, <2>2, <2>4, <2>5 DEF Commit
<1>6. CASE Die(p)
  <2>1. /\ claims' = claims /\ admitted' = admitted /\ stuck' = stuck
        /\ pc' = [pc EXCEPT ![p] = "dead"]
    BY <1>6 DEF Die, LockOnly
  <2>2. Spent \subseteq Spent' /\ Spent' \subseteq Slot
    BY <1>0, <1>1, <1>2, <2>1 DEF Spent, Used, TypeOK
  <2>3. Spent' = Spent \cup (Spent' \ Spent) /\ Spent' \ Spent \in SUBSET (Slot \ Spent)
    BY <2>2
  <2>4. Budget!Lose
    BY <2>1, <2>3 DEF Budget!Lose
  <2> QED
    BY <2>4 DEF Budget!Next
<1> QED
  BY <1>3, <1>4, <1>4a, <1>5, <1>6, <1>0 DEF Operation

(* The slot files implement the budget, for any number of processes and     *)
(* batches, until a live lock is moved: what the lock lets a batch do in    *)
(* many steps counts as one.                                                *)
THEOREM SlotsImplementBudget == Spec => ImplementsBudget
<1>1. Init => Budget!Init
  BY DEF Init, Budget!Init, Spent, Used
<1>2. CInv /\ [Next]_vars => [Budget!Next]_(Budget!budgetVars)
  <2>1. CASE UNCHANGED vars
    BY <2>1 DEF vars, Budget!budgetVars, Spent, Used
  <2>2. ASSUME CInv, Next PROVE [Budget!Next]_(Budget!budgetVars)
    BY <2>2, StepImplementsBudget DEF Next
  <2> QED
    BY <2>1, <2>2
<1>3. CInv /\ [Next]_vars => [Budget!Next \/ evicted']_(Budget!budgetVars)
  BY <1>2
<1>4. evicted /\ [Next]_vars => [Budget!Next \/ evicted']_(Budget!budgetVars)
  BY EvictedStays
<1> QED
  BY <1>1, <1>3, <1>4, CInvInit, CInvStep, EvictedStays, PTL DEF Spec, ImplementsBudget
=============================================================================
