-------------------------- MODULE FileLease_proof ---------------------------
(***************************************************************************)
(* Proofs about FileLease, for any number of processes and leases.  The    *)
(* inductive invariant IInv says why the protocol is safe when no owner    *)
(* exits between a reader's two looks at it (LateExit = FALSE): whatever a *)
(* reclaimer is about to move is either still in place or already behind   *)
(* its fence.                                                              *)
(***************************************************************************)
EXTENDS FileLease, TLAPS

(* Between mkdir and the end of the release. *)
Working == {"write", "hold", "unlink", "rmdir"}

(* From the call to its mkdir, through every retry. *)
Waiting == {"mkdir", "read", "check", "rename", "verify", "busy"}

(* The call still has a directory to make, or has made it. *)
Counted ==
    \A p \in Proc :
        /\ pc[p] \in Waiting => made[p] < MaxLeases
        /\ pc[p] \in Working => made[p] >= 1

(* One process at a time is past mkdir, and the directory is its own. *)
OneWorker == \A p, q \in Proc : pc[p] \in Working /\ pc[q] \in Working => p = q

WorkerOwnsLock ==
    \A p \in Proc :
        /\ pc[p] \in {"write", "rmdir"} => lock = NoOwner
        /\ pc[p] = "hold" => lock = Mine(p)
        /\ pc[p] = "unlink" => lock \in {Mine(p), NoOwner}

(* Only the record of a dead owner is behind a fence, and it is only there. *)
Fenced ==
    \A t \in Token :
        /\ retired[t] \in {Absent, t}
        /\ retired[t] = t => pc[Owner(t)] = "dead" /\ lock # t

(* A record that was read and whose owner is dead is in place or fenced. *)
SeenAccounted ==
    \A p \in Proc :
        /\ pc[p] \in {"check", "rename"} => seen[p] \in Token
        /\ pc[p] = "check" /\ pc[Owner(seen[p])] = "dead"
              => lock = seen[p] \/ retired[seen[p]] = seen[p]
        /\ pc[p] = "rename"
              => /\ pc[Owner(seen[p])] = "dead"
                 /\ lock = seen[p] \/ retired[seen[p]] = seen[p]
        /\ pc[p] = "verify" => seen[p] \in Token

IInv ==
    /\ TypeOK
    /\ Counted
    /\ OneWorker
    /\ WorkerOwnsLock
    /\ Fenced
    /\ SeenAccounted
-----------------------------------------------------------------------------
(* The typing and counting part needs no assumption about exits. *)
TInv ==
    /\ TypeOK
    /\ Counted
    /\ \A p \in Proc : pc[p] \in {"check", "rename", "verify"} => seen[p] \in Token

(* Every step keeps the types and the count of directories. *)
LEMMA TInvStep == TInv /\ [Next]_vars => TInv'
<1> SUFFICES ASSUME TInv, [Next]_vars PROVE TInv'
  OBVIOUS
<1> USE LeaseConstants DEF TInv, TypeOK, Counted, Waiting, Working, Token, Owner, Content,
                           PCs, Mine, Goto
<1>1. ASSUME NEW p \in Proc, Call(p) PROVE TInv'
  BY <1>1 DEF Call
<1>2. ASSUME NEW p \in Proc, Mkdir(p) PROVE TInv'
  BY <1>2 DEF Mkdir
<1>3. ASSUME NEW p \in Proc, WriteOwner(p) PROVE TInv'
  BY <1>3 DEF WriteOwner
<1>4. ASSUME NEW p \in Proc, ReleaseRead(p) PROVE TInv'
  BY <1>4 DEF ReleaseRead
<1>5. ASSUME NEW p \in Proc, RemoveOwner(p) PROVE TInv'
  BY <1>5 DEF RemoveOwner
<1>6. ASSUME NEW p \in Proc, RemoveDir(p) PROVE TInv'
  BY <1>6 DEF RemoveDir
<1>7. ASSUME NEW p \in Proc, ReadOwner(p) PROVE TInv'
  BY <1>7 DEF ReadOwner
<1>8. ASSUME NEW p \in Proc, CheckOwner(p) PROVE TInv'
  BY <1>8 DEF CheckOwner
<1>9. ASSUME NEW p \in Proc, Retire(p) PROVE TInv'
  BY <1>9 DEF Retire
<1>10. ASSUME NEW p \in Proc, VerifyRetired(p) PROVE TInv'
  BY <1>10 DEF VerifyRetired
<1>11. ASSUME NEW p \in Proc, Retry(p) \/ TimeOut(p) PROVE TInv'
  BY <1>11 DEF Retry, TimeOut
<1>12. ASSUME NEW p \in Proc, Die(p) PROVE TInv'
  BY <1>12 DEF Die
<1>13. CASE UNCHANGED vars
  BY <1>13 DEF vars
<1> QED
  BY <1>1, <1>2, <1>3, <1>4, <1>5, <1>6, <1>7, <1>8, <1>9, <1>10, <1>11, <1>12, <1>13
  DEF Next, Step

(* Type correctness: every path holds a record, an ownerless directory or   *)
(* nothing, and no call makes more directories than it may.                 *)
THEOREM TypeCorrect == Spec => []TypeOK
<1>1. Init => TInv
  BY LeaseConstants DEF Init, TInv, TypeOK, Counted, Waiting, Working, Token, Content, PCs
<1>2. TInv => TypeOK
  BY DEF TInv
<1> QED
  BY <1>1, <1>2, TInvStep, PTL DEF Spec
-----------------------------------------------------------------------------
(* One lemma for each part of the invariant a step can disturb. *)

(* Only an idle lock is taken: no step brings a second process past mkdir.  *)
LEMMA WorkerStep ==
    ASSUME IInv, NEW p \in Proc, Step(p) \/ Call(p) \/ Retry(p) \/ TimeOut(p) \/ Die(p)
    PROVE  (OneWorker /\ WorkerOwnsLock)'
<1> USE LeaseConstants DEF IInv, TypeOK, OneWorker, WorkerOwnsLock, Working, Token, Owner,
                           Mine, Goto
<1>1. CASE Call(p) \/ Retry(p) \/ TimeOut(p) \/ Die(p)
  BY <1>1 DEF Call, Retry, TimeOut, Die
<1>2. CASE Mkdir(p)
  <2>1. CASE lock = Absent
    <3>1. \A q \in Proc : pc[q] \notin Working
      BY <2>1 DEF Counted
    <3> QED
      BY <1>2, <2>1, <3>1 DEF Mkdir
  <2>2. CASE lock # Absent
    BY <1>2, <2>2 DEF Mkdir
  <2> QED
    BY <2>1, <2>2
<1>3. CASE WriteOwner(p)
  BY <1>3 DEF WriteOwner
<1>4. CASE ReleaseRead(p)
  BY <1>4 DEF ReleaseRead
<1>5. CASE RemoveOwner(p)
  BY <1>5 DEF RemoveOwner, Counted
<1>6. CASE RemoveDir(p)
  BY <1>6 DEF RemoveDir
<1>7. CASE ReadOwner(p) \/ CheckOwner(p) \/ VerifyRetired(p)
  BY <1>7 DEF ReadOwner, CheckOwner, VerifyRetired
<1>8. CASE Retire(p)
  <2>1. CASE /\ lock # Absent
             /\ retired[seen[p]] \in {Absent, NoOwner}
             /\ pc[p] = "rename"
             /\ lock' = Absent
    <3>1. lock = seen[p] /\ seen[p] \in Token /\ pc[Owner(lock)] = "dead"
      BY <2>1, <1>8 DEF SeenAccounted
    <3>2. \A q \in Proc : pc[q] \notin Working
      BY <3>1 DEF Content
    <3> QED
      BY <1>8, <2>1, <3>2 DEF Retire
  <2>2. CASE UNCHANGED <<lock, retired, seen, made>>
    BY <1>8, <2>2 DEF Retire
  <2> QED
    BY <1>8, <2>1, <2>2 DEF Retire
<1> QED
  BY <1>1, <1>2, <1>3, <1>4, <1>5, <1>6, <1>7, <1>8 DEF Step

(* A directory is renamed only behind the fence of the record it holds. *)
LEMMA FenceStep ==
    ASSUME ~LateExit, IInv, NEW p \in Proc,
           Step(p) \/ Call(p) \/ Retry(p) \/ TimeOut(p) \/ Die(p)
    PROVE  (Fenced /\ SeenAccounted)'
<1> USE LeaseConstants DEF IInv, TypeOK, Fenced, SeenAccounted, Token, Owner, Mine, Goto
<1>1. CASE Call(p) \/ Retry(p) \/ TimeOut(p)
  BY <1>1 DEF Call, Retry, TimeOut
<1>2. CASE Mkdir(p)
  BY <1>2 DEF Mkdir
<1>3. CASE WriteOwner(p)
  <2>1. Mine(p) \in Token
    BY <1>3 DEF WriteOwner, Counted, Working
  <2> QED
    BY <1>3, <2>1 DEF WriteOwner, WorkerOwnsLock
<1>4. CASE ReleaseRead(p)
  BY <1>4 DEF ReleaseRead
<1>5. CASE RemoveOwner(p)
  BY <1>5 DEF RemoveOwner, WorkerOwnsLock
<1>6. CASE RemoveDir(p)
  BY <1>6 DEF RemoveDir
<1>7. CASE ReadOwner(p)
  BY <1>7 DEF ReadOwner
<1>8. CASE CheckOwner(p)
  BY <1>8 DEF CheckOwner, DeadOwner
<1>9. CASE Retire(p)
  BY <1>9 DEF Retire
<1>10. CASE VerifyRetired(p)
  BY <1>10 DEF VerifyRetired
<1>11. CASE Die(p)
  BY <1>11 DEF Die, ReadAndReleased
<1> QED
  BY <1>1, <1>2, <1>3, <1>4, <1>5, <1>6, <1>7, <1>8, <1>9, <1>10, <1>11 DEF Step

(* IInv holds at the start. *)
LEMMA IInvInit == Init => IInv
BY LeaseConstants
DEF Init, IInv, TypeOK, Counted, OneWorker, WorkerOwnsLock, Fenced, SeenAccounted,
    Waiting, Working, Token, Content, PCs

(* Every step keeps IInv, as long as no owner exits between the two looks.  *)
LEMMA IInvStep == ~LateExit /\ IInv /\ [Next]_vars => IInv'
<1> SUFFICES ASSUME ~LateExit, IInv, [Next]_vars PROVE IInv'
  OBVIOUS
<1>1. TInv
  BY DEF IInv, TInv, SeenAccounted
<1>2. (TypeOK /\ Counted)'
  BY <1>1, TInvStep DEF TInv
<1>3. ASSUME NEW p \in Proc, Step(p) \/ Call(p) \/ Retry(p) \/ TimeOut(p) \/ Die(p)
      PROVE  IInv'
  BY <1>2, <1>3, WorkerStep, FenceStep DEF IInv
<1>4. CASE UNCHANGED vars
  BY <1>2, <1>4 DEF vars, IInv, OneWorker, WorkerOwnsLock, Fenced, SeenAccounted, Mine
<1> QED
  BY <1>3, <1>4 DEF Next

(* IInv is an invariant of the protocol. *)
LEMMA IInvAlways == ~LateExit /\ Spec => []IInv
<1>1. CASE ~LateExit
  <2>1. IInv /\ [Next]_vars => IInv'
    BY <1>1, IInvStep
  <2> QED
    BY <2>1, IInvInit, PTL DEF Spec
<1> QED
  BY <1>1
-----------------------------------------------------------------------------
(* No two processes are in their critical sections together, as long as no  *)
(* owner releases its lease and exits between a contender's read of its     *)
(* record and that contender's look at its process.                         *)
THEOREM LeaseExcludes == ~LateExit /\ Spec => []MutualExclusion
<1>1. IInv => MutualExclusion
  BY DEF IInv, OneWorker, Working, MutualExclusion
<1> QED
  BY <1>1, IInvAlways, PTL

(* Under the same assumption nobody evicts the lease of a live process. *)
THEOREM LiveLeaseNotEvicted == ~LateExit /\ Spec => []LiveLeaseInPlace
<1>1. IInv => LiveLeaseInPlace
  BY DEF IInv, WorkerOwnsLock, LiveLeaseInPlace
<1> QED
  BY <1>1, IInvAlways, PTL

(* What keeps a fence in place, whenever owners exit: a record is moved only *)
(* behind its own dead owner's fence, and only that owner could write it.   *)
FenceInv ==
    /\ TInv
    /\ \A p \in Proc : pc[p] = "rename" => pc[Owner(seen[p])] = "dead"
    /\ \A t \in Token : retired[t] = t => pc[Owner(t)] = "dead" /\ lock # t

(* Every step keeps the fences, late exits included. *)
LEMMA FenceInvStep == FenceInv /\ [Next]_vars => FenceInv'
<1> SUFFICES ASSUME FenceInv, [Next]_vars PROVE FenceInv'
  OBVIOUS
<1>1. TInv'
  BY TInvStep DEF FenceInv
<1> USE LeaseConstants, <1>1 DEF FenceInv, TInv, TypeOK, Token, Owner, Mine, Goto
<1>2. ASSUME NEW p \in Proc, Call(p) \/ Retry(p) \/ TimeOut(p) \/ Die(p) PROVE FenceInv'
  BY <1>2 DEF Call, Retry, TimeOut, Die
<1>3. ASSUME NEW p \in Proc, WriteOwner(p) PROVE FenceInv'
  BY <1>3 DEF WriteOwner
<1>4. ASSUME NEW p \in Proc, CheckOwner(p) PROVE FenceInv'
  BY <1>4 DEF CheckOwner, DeadOwner
<1>5. ASSUME NEW p \in Proc, Retire(p) PROVE FenceInv'
  BY <1>5 DEF Retire
<1>6. ASSUME NEW p \in Proc, Mkdir(p) \/ ReleaseRead(p) \/ RemoveOwner(p) \/ RemoveDir(p)
      PROVE  FenceInv'
  BY <1>6 DEF Mkdir, ReleaseRead, RemoveOwner, RemoveDir
<1>7. ASSUME NEW p \in Proc, ReadOwner(p) \/ VerifyRetired(p) PROVE FenceInv'
  BY <1>7 DEF ReadOwner, VerifyRetired
<1>8. CASE UNCHANGED vars
  BY <1>8 DEF vars
<1> QED
  BY <1>2, <1>3, <1>4, <1>5, <1>6, <1>7, <1>8 DEF Next, Step

(* An action property: a record behind its fence stays there and is never   *)
(* in force again.  It needs no assumption about exits: of what the lease   *)
(* promises, this is what a late exit cannot take away.                     *)
THEOREM FencedForGood == Spec => FenceStays
<1>1. Init => FenceInv
  BY IInvInit, LeaseConstants DEF Init, IInv, FenceInv, TInv, Token
<1>2. FenceInv /\ [Next]_vars
         => [\A t \in Token : retired[t] = t => retired'[t] = t /\ lock' # t]_vars
  <2> SUFFICES ASSUME FenceInv, NEW p \in Proc,
                      Step(p) \/ Call(p) \/ Retry(p) \/ TimeOut(p) \/ Die(p),
                      NEW t \in Token, retired[t] = t
               PROVE  retired'[t] = t /\ lock' # t
    BY DEF Next
  <2> USE LeaseConstants DEF FenceInv, TInv, TypeOK, Token, Owner, Mine, Goto
  <2>1. CASE WriteOwner(p)
    BY <2>1 DEF WriteOwner
  <2>2. CASE Retire(p)
    BY <2>2 DEF Retire
  <2>3. CASE Step(p) /\ ~WriteOwner(p) /\ ~Retire(p)
    BY <2>3 DEF Step, Mkdir, ReleaseRead, RemoveOwner, RemoveDir, ReadOwner, CheckOwner,
                VerifyRetired
  <2>4. CASE Call(p) \/ Retry(p) \/ TimeOut(p) \/ Die(p)
    BY <2>4 DEF Call, Retry, TimeOut, Die
  <2> QED
    BY <2>1, <2>2, <2>3, <2>4
<1> QED
  BY <1>1, <1>2, FenceInvStep, PTL DEF Spec, FenceStays
-----------------------------------------------------------------------------
(* Every step of the file protocol is a step of the abstract lease.         *)
LEMMA StepImplementsLease ==
    ASSUME IInv, NEW p \in Proc, Step(p) \/ Call(p) \/ Retry(p) \/ TimeOut(p) \/ Die(p)
    PROVE  [Lease!Next]_(Lease!leaseVars)
<1> DEFINE owner  == IF lock \in Token THEN Owner(lock) ELSE Nobody
           inside == {q \in Proc : pc[q] = "hold"}
           dead   == {q \in Proc : pc[q] = "dead"}
<1> USE LeaseConstants DEF IInv, TypeOK, Goto, Nobody
<1>1. CASE WriteOwner(p)
  <2>1. CASE pc' = [pc EXCEPT ![p] = "hold"] /\ lock = NoOwner /\ lock' = Mine(p)
    <3>1. Mine(p) \in Token /\ Owner(Mine(p)) = p
      BY <1>1 DEF WriteOwner, Counted, Working, Mine, Token, Owner
    <3>2. owner = Nobody /\ owner' = p
      BY <2>1, <3>1
    <3>3. inside' = inside \cup {p} /\ dead' = dead /\ p \notin dead
      BY <1>1, <2>1 DEF WriteOwner
    <3>4. Lease!Acquire(p)
      BY <3>2, <3>3 DEF Lease!Acquire
    <3> QED
      BY <3>4 DEF Lease!Next
  <2>2. CASE pc' = [pc EXCEPT ![p] = "unlink"] /\ UNCHANGED lock
    <3>1. owner' = owner
      BY <2>2
    <3>2. inside' = inside /\ dead' = dead
      BY <1>1, <2>2 DEF WriteOwner
    <3> QED
      BY <3>1, <3>2 DEF Lease!leaseVars
  <2> QED
    BY <1>1, <2>1, <2>2 DEF WriteOwner
<1>2. CASE ReleaseRead(p)
  <2>1. inside' = inside \ {p} /\ p \in inside
    BY <1>2 DEF ReleaseRead
  <2>2. owner' = owner /\ dead' = dead
    BY <1>2 DEF ReleaseRead
  <2>3. Lease!Leave(p)
    BY <2>1, <2>2 DEF Lease!Leave
  <2> QED
    BY <2>3 DEF Lease!Next
<1>3. CASE RemoveOwner(p)
  <2>1. inside' = inside /\ dead' = dead /\ p \notin inside \cup dead
    BY <1>3 DEF RemoveOwner
  <2>2. lock' \in {NoOwner, Absent} /\ lock \in {Mine(p), NoOwner}
    BY <1>3 DEF RemoveOwner, WorkerOwnsLock
  <2>3. owner' = Nobody
    BY <2>2
  <2>4. CASE lock = NoOwner
    BY <2>1, <2>3, <2>4 DEF Lease!leaseVars
  <2>5. CASE lock = Mine(p)
    <3>1. owner = p
      BY <2>5, <1>3 DEF RemoveOwner, Counted, Working, Mine, Token, Owner
    <3>2. Lease!Release(p)
      BY <3>1, <2>1, <2>3 DEF Lease!Release
    <3> QED
      BY <3>2 DEF Lease!Next
  <2> QED
    BY <2>2, <2>4, <2>5
<1>4. CASE Retire(p)
  <2>1. inside' = inside /\ dead' = dead
    BY <1>4 DEF Retire
  <2>2. CASE UNCHANGED lock
    BY <2>1, <2>2 DEF Lease!leaseVars
  <2>3. CASE lock' = Absent /\ retired[seen[p]] \in {Absent, NoOwner}
    <3>1. lock = seen[p] /\ seen[p] \in Token /\ pc[Owner(lock)] = "dead"
      BY <1>4, <2>3 DEF Retire, SeenAccounted
    <3>2. owner' = Nobody /\ owner \in dead
      BY <2>3, <3>1 DEF Token, Owner
    <3>3. Lease!Reclaim
      BY <2>1, <3>2 DEF Lease!Reclaim
    <3> QED
      BY <3>3 DEF Lease!Next
  <2> QED
    BY <1>4, <2>2, <2>3 DEF Retire
<1>5. CASE Mkdir(p) \/ RemoveDir(p)
  <2>1. owner' = owner
    BY <1>5 DEF Mkdir, RemoveDir
  <2>2. inside' = inside /\ dead' = dead
    BY <1>5 DEF Mkdir, RemoveDir
  <2> QED
    BY <2>1, <2>2 DEF Lease!leaseVars
<1>6. CASE ReadOwner(p) \/ CheckOwner(p) \/ VerifyRetired(p) \/ Call(p) \/ Retry(p) \/ TimeOut(p)
  <2>1. owner' = owner
    BY <1>6 DEF ReadOwner, CheckOwner, VerifyRetired, Call, Retry, TimeOut
  <2>2. inside' = inside /\ dead' = dead
    BY <1>6 DEF ReadOwner, CheckOwner, VerifyRetired, Call, Retry, TimeOut
  <2> QED
    BY <2>1, <2>2 DEF Lease!leaseVars
<1>7. CASE Die(p)
  <2>1. owner' = owner
    BY <1>7 DEF Die
  <2>2. inside' = inside \ {p} /\ dead' = dead \cup {p} /\ p \notin dead
    BY <1>7 DEF Die
  <2>3. Lease!Die(p)
    BY <2>1, <2>2 DEF Lease!Die
  <2> QED
    BY <2>3 DEF Lease!Next
<1> QED
  BY <1>1, <1>2, <1>3, <1>4, <1>5, <1>6, <1>7 DEF Step

(* The file protocol implements the abstract lease. *)
THEOREM FileLeaseImplementsLease == ~LateExit /\ Spec => ImplementsLease
<1>1. Init => Lease!Init
  BY LeaseConstants DEF Init, Lease!Init, Nobody
<1>2. IInv /\ [Next]_vars => [Lease!Next]_(Lease!leaseVars)
  <2>1. CASE UNCHANGED vars
    BY <2>1 DEF vars, Lease!leaseVars
  <2>2. ASSUME IInv, Next PROVE [Lease!Next]_(Lease!leaseVars)
    BY <2>2, StepImplementsLease DEF Next
  <2> QED
    BY <2>1, <2>2
<1> QED
  BY <1>1, <1>2, IInvAlways, PTL DEF Spec, ImplementsLease, Lease!Spec
=============================================================================
