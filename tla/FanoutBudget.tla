---------------------------- MODULE FanoutBudget ----------------------------
(***************************************************************************)
(* The per-run launch budget (src/src/runs/shared/run-fanout-budget.ts):   *)
(* all processes of one run tree claim numbered slot files under an        *)
(* admission lock, a batch at a time, all or nothing.  The lock is a       *)
(* directory with an owner record; a stale one is renamed to a fresh name  *)
(* and removed.                                                            *)
(***************************************************************************)
EXTENDS Naturals, FiniteSets, FiniteSetsExt

CONSTANTS Proc,          \* processes of the run tree
          Limit,         \* children the run may launch
          MaxBatch,      \* bound: children in one admission group
          MaxCalls,      \* bound: admission groups of one process
          Absent,        \* nothing at the path, or an unclaimed slot
          NoOwner        \* a lock directory without a readable owner.json

Slot == 0..(Limit - 1)
Batch == Proc \X (1..MaxCalls)      \* also the token of the batch's lock
Owner(b) == b[1]

ASSUME BudgetConstants ==
    /\ Limit \in Nat \ {0} /\ MaxBatch \in Nat \ {0} /\ MaxCalls \in Nat
    /\ Absent # NoOwner /\ Absent \notin Batch /\ NoOwner \notin Batch

VARIABLES lock,       \* what is at admission.lock
          claims,     \* what is in each claims/NNNNNN.json
          admitted,   \* children each batch was told it may start
          pc,         \* where each process is in its call
          seen,       \* the lock content the staleness check read
          calls,      \* calls each process has begun
          size,       \* children the current batch asks for
          left,       \* children of the current batch without a slot yet
          stuck,      \* slots whose removal failed in a rollback
          evicted     \* history: a lock has been moved that was not stale

vars == <<lock, claims, admitted, pc, seen, calls, size, left, stuck, evicted>>

Mine(p) == <<p, calls[p]>>
Holding == {"count", "claim", "commit", "undo", "leave"}
PCs == {"idle", "mkdir", "write", "unlink", "rmdir", "read", "check", "rename", "wait", "dead"}
           \cup Holding

Used == {s \in Slot : claims[s] # Absent}
Held(b) == {s \in Slot : claims[s] = b}

TypeOK ==
    /\ lock \in Batch \cup {Absent, NoOwner}
    /\ claims \in [Slot -> Batch \cup {Absent}]
    /\ admitted \in [Batch -> 0..MaxBatch]
    /\ pc \in [Proc -> PCs]
    /\ seen \in [Proc -> Batch \cup {Absent, NoOwner}]
    /\ calls \in [Proc -> 0..MaxCalls]
    /\ size \in [Proc -> 0..MaxBatch]
    /\ left \in [Proc -> 0..MaxBatch]
    /\ stuck \subseteq Slot
    /\ evicted \in BOOLEAN

Init ==
    /\ lock = Absent
    /\ claims = [s \in Slot |-> Absent]
    /\ admitted = [b \in Batch |-> 0]
    /\ pc = [p \in Proc |-> "idle"]
    /\ seen = [p \in Proc |-> Absent]
    /\ calls = [p \in Proc |-> 0]
    /\ size = [p \in Proc |-> 0]
    /\ left = [p \in Proc |-> 0]
    /\ stuck = {}
    /\ evicted = FALSE

Goto(p, from, to) ==
    /\ pc[p] = from
    /\ pc' = [pc EXCEPT ![p] = to]

LockOnly == UNCHANGED <<claims, admitted, calls, size, left, stuck>>
-----------------------------------------------------------------------------
(* withAdmissionLock *)

(* commitRunFanoutBatch(descriptor, paths, commit): a new lock token. *)
Call(p) ==
    /\ calls[p] < MaxCalls
    /\ Goto(p, "idle", "mkdir")
    /\ calls' = [calls EXCEPT ![p] = @ + 1]
    /\ \E k \in 1..MaxBatch :
          /\ size' = [size EXCEPT ![p] = k]
          /\ left' = [left EXCEPT ![p] = k]
    /\ UNCHANGED <<lock, claims, admitted, seen, stuck, evicted>>

(* Mutant: mkdir that takes an existing directory for a new one. *)
MkdirExisting(p) ==
    /\ Goto(p, "mkdir", "write")
    /\ lock' = IF lock = Absent THEN NoOwner ELSE lock
    /\ LockOnly /\ UNCHANGED <<seen, evicted>>

(* fs.mkdirSync(lockPath), or EEXIST. *)
Mkdir(p) ==
    /\ \/ Goto(p, "mkdir", "write") /\ lock = Absent /\ lock' = NoOwner
       \/ Goto(p, "mkdir", "read") /\ lock # Absent /\ UNCHANGED lock
    /\ LockOnly /\ UNCHANGED <<seen, evicted>>

(* writeFileSync(owner.json) replaces a record that is there.  A write that  *)
(* fails, because the directory or the room on the disk is gone, removes    *)
(* what is at the path and throws.                                          *)
WriteOwner(p) ==
    /\ \/ Goto(p, "write", "count") /\ lock # Absent /\ lock' = Mine(p)
       \/ Goto(p, "write", "unlink") /\ UNCHANGED lock
    /\ LockOnly /\ UNCHANGED <<seen, evicted>>

(* Mutant: the lock that is found is not asked whether its owner is alive. *)
StaleAlways(c) == c # Absent

(* admissionLockIsStale: the owner's process is gone.  A lock without a      *)
(* record is stale when it is 60 s old: no process is in the middle of      *)
(* making or removing it for so long.                                       *)
Stale(c) ==
    \/ c \in Batch /\ pc[Owner(c)] = "dead"
    \/ c = NoOwner /\ \A p \in Proc : pc[p] \notin {"write", "unlink", "rmdir"}

ReadLock(p) ==
    /\ Goto(p, "read", "check")
    /\ seen' = [seen EXCEPT ![p] = lock]
    /\ LockOnly /\ UNCHANGED <<lock, evicted>>

(* A record is judged by its process, a missing one by the age of what is at *)
(* the path now.                                                            *)
CheckLock(p) ==
    /\ Goto(p, "check",
            IF \/ seen[p] \in Batch /\ Stale(seen[p])
               \/ seen[p] \notin Batch /\ lock = NoOwner /\ Stale(lock)
            THEN "rename" ELSE "wait")
    /\ seen' = [seen EXCEPT ![p] = Absent]
    /\ LockOnly /\ UNCHANGED <<lock, evicted>>

(* renameSync(lockPath, a fresh stalePath), whatever is at the path by now,  *)
(* and its removal; a removal that fails throws.                            *)
Reclaim(p) ==
    /\ \/ /\ Goto(p, "rename", "mkdir") \/ Goto(p, "rename", "idle")
          /\ lock # Absent /\ lock' = Absent
       \/ Goto(p, "rename", "wait") /\ lock = Absent /\ UNCHANGED lock
    /\ evicted' = (evicted \/ (lock # Absent /\ ~ Stale(lock)))
    /\ LockOnly /\ UNCHANGED seen

(* The next delay of the ladder; or the timeout after the last one, or any   *)
(* other error of the file system on the way, is thrown.                    *)
Retry(p) ==
    /\ \/ Goto(p, "wait", "mkdir")
       \/ \E at \in {"mkdir", "rename", "wait"} : Goto(p, at, "idle")
    /\ LockOnly /\ UNCHANGED <<lock, seen, evicted>>

-----------------------------------------------------------------------------
(* The operation under the lock *)

(* Mutant: the batch is refused only when no slot is left at all. *)
CountPartial(p) ==
    /\ \/ Goto(p, "count", "claim") /\ Cardinality(Used) < Limit
       \/ Goto(p, "count", "leave")
    /\ UNCHANGED <<lock, claims, admitted, seen, calls, size, left, stuck, evicted>>

(* getRunFanoutBudgetSnapshot and the all-or-nothing check; claims that      *)
(* cannot be listed throw too.                                              *)
Count(p) ==
    /\ \/ Goto(p, "count", "claim") /\ Cardinality(Used) + size[p] <= Limit
       \/ Goto(p, "count", "leave")
    /\ UNCHANGED <<lock, claims, admitted, seen, calls, size, left, stuck, evicted>>

(* Mutant: one more slot than the batch has children. *)
ClaimSlotTooMany(p) ==
    /\ pc[p] = "claim"
    /\ \/ /\ left[p] >= 0
          /\ left' = [left EXCEPT ![p] = @ - 1]
          /\ claims' = IF Used = Slot THEN claims
                       ELSE [claims EXCEPT ![Min(Slot \ Used)] = Mine(p)]
          /\ UNCHANGED pc
       \/ Goto(p, "claim", "commit") /\ left[p] < 0 /\ UNCHANGED <<claims, left>>
       \/ Goto(p, "claim", "undo") /\ UNCHANGED <<claims, left>>
    /\ UNCHANGED <<lock, admitted, seen, calls, size, stuck, evicted>>

(* openSync(slotPath, "wx") on the first slot that is free; when every slot  *)
(* is taken the loop ends without one.  Any other error rolls back.         *)
ClaimSlot(p) ==
    /\ pc[p] = "claim"
    /\ \/ /\ left[p] > 0
          /\ left' = [left EXCEPT ![p] = @ - 1]
          /\ claims' = IF Used = Slot THEN claims
                       ELSE [claims EXCEPT ![Min(Slot \ Used)] = Mine(p)]
          /\ UNCHANGED pc
       \/ Goto(p, "claim", "commit") /\ left[p] = 0 /\ UNCHANGED <<claims, left>>
       \/ Goto(p, "claim", "undo") /\ UNCHANGED <<claims, left>>
    /\ UNCHANGED <<lock, admitted, seen, calls, size, stuck, evicted>>

(* commit(snapshot) returns, and the caller starts the children; or throws. *)
Commit(p) ==
    /\ \/ /\ Goto(p, "commit", "leave")
          /\ admitted' = [admitted EXCEPT ![Mine(p)] = size[p]]
       \/ /\ Goto(p, "commit", "undo")
          /\ UNCHANGED admitted
    /\ UNCHANGED <<lock, claims, seen, calls, size, left, stuck, evicted>>

(* Mutant: a failed commit gives back the slot of the last child only. *)
UndoOne(p) ==
    /\ Goto(p, "undo", "leave")
    /\ claims' = IF Held(Mine(p)) = {} THEN claims
                 ELSE [claims EXCEPT ![Max(Held(Mine(p)))] = Absent]
    /\ UNCHANGED <<lock, admitted, seen, calls, size, left, stuck, evicted>>

(* unlinkSync of every slot the batch created; one that fails is passed over *)
(* and its slot stays taken.                                                *)
Undo(p) ==
    /\ \/ \E s \in Held(Mine(p)) \ stuck :
             /\ \/ claims' = [claims EXCEPT ![s] = Absent] /\ UNCHANGED stuck
                \/ stuck' = stuck \cup {s} /\ UNCHANGED claims
             /\ Goto(p, "undo", "undo")
       \/ /\ Held(Mine(p)) \subseteq stuck
          /\ Goto(p, "undo", "leave")
          /\ UNCHANGED <<claims, stuck>>
    /\ UNCHANGED <<lock, admitted, seen, calls, size, left, evicted>>

(* finally: remove the lock if it is still this call's. *)
Leave(p) ==
    /\ Goto(p, "leave", IF lock = Mine(p) THEN "unlink" ELSE "idle")
    /\ LockOnly /\ UNCHANGED <<lock, seen, evicted>>

(* rmSync(lockPath, recursive): the record, then the directory.  It may fail *)
(* at either, and the call throws.                                          *)
RemoveOwner(p) ==
    /\ \/ Goto(p, "unlink", "rmdir") /\ lock' = IF lock \in Batch THEN NoOwner ELSE lock
       \/ Goto(p, "unlink", "idle") /\ UNCHANGED lock
    /\ LockOnly /\ UNCHANGED <<seen, evicted>>

RemoveDir(p) ==
    /\ Goto(p, "rmdir", "idle")
    /\ \/ lock' = IF lock = NoOwner THEN Absent ELSE lock
       \/ UNCHANGED lock
    /\ LockOnly /\ UNCHANGED <<seen, evicted>>

(* A process of the run tree exits or is killed, at any point. *)
Die(p) ==
    /\ pc[p] # "dead"
    /\ pc' = [pc EXCEPT ![p] = "dead"]
    /\ LockOnly /\ UNCHANGED <<lock, seen, evicted>>

Locking(p) ==
    \/ Mkdir(p) \/ WriteOwner(p) \/ ReadLock(p) \/ CheckLock(p) \/ Reclaim(p) \/ Retry(p)

Operation(p) == Count(p) \/ ClaimSlot(p) \/ Commit(p) \/ Undo(p)

Unlocking(p) == Leave(p) \/ RemoveOwner(p) \/ RemoveDir(p)

Next == \E p \in Proc : Call(p) \/ Locking(p) \/ Operation(p) \/ Unlocking(p) \/ Die(p)

Spec == Init /\ [][Next]_vars
-----------------------------------------------------------------------------
Children == {c \in Batch \X (1..MaxBatch) : c[2] <= admitted[c[1]]}

(* The children the run has been told it may start never exceed the limit   *)
(* ("maxSubagentSpawnsPerRun limits cumulative logical children in one run  *)
(* tree", README.md), over all processes, batches, failures and crashes.    *)
WithinLimit == Cardinality(Children) <= Limit

(* An admitted batch holds one slot for each of its children, so that later *)
(* batches count them: the slot loop never ends without a slot unnoticed.   *)
AdmittedHoldsSlots ==
    \A b \in Batch : admitted[b] > 0 => Cardinality(Held(b)) = admitted[b]

(* One thing alone takes the run over its limit, whatever fails and whoever *)
(* dies: a reclaimer that renames a lock which was replaced since it judged *)
(* it stale.                                                                *)
LimitKept == evicted \/ WithinLimit

(* Nor does an admitted batch lack a slot before that.                      *)
SlotsKept == evicted \/ AdmittedHoldsSlots

(* All or nothing: slots belong to an admitted batch, to the one batch that *)
(* is taking or returning them, to a process that died doing so, or are     *)
(* those whose removal failed ("No children from this admission group were  *)
(* started").                                                               *)
RefusedHoldsNothing ==
    \A b \in Batch : Held(b) # {} =>
        \/ admitted[b] > 0
        \/ pc[Owner(b)] = "dead"
        \/ b = Mine(Owner(b)) /\ pc[Owner(b)] \in {"claim", "commit", "undo"}
        \/ Held(b) \subseteq stuck

-----------------------------------------------------------------------------
(* The places the abstract budget has given away: those of admitted batches, *)
(* those a process has died with, and those that could not be given back.   *)
(* What a batch takes and returns on the way does not show.                 *)
Spent == {s \in Used : \/ admitted[claims[s]] > 0
                       \/ pc[Owner(claims[s])] = "dead"
                       \/ s \in stuck}

Budget == INSTANCE LaunchBudget WITH spent <- Spent

(* The slot files under the admission lock implement the budget as long as  *)
(* no live lock is moved: a batch is admitted in one step, with one slot    *)
(* for each of its children, and no slot that was given away is ever given  *)
(* again.                                                                   *)
ImplementsBudget ==
    Budget!Init /\ [][Budget!Next \/ evicted']_(Budget!budgetVars)
=============================================================================
