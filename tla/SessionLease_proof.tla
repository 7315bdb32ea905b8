------------------------- MODULE SessionLease_proof -------------------------
(***************************************************************************)
(* Proofs about SessionLease, for any number of runners and attempts.      *)
(* Typing needs nothing; the rest holds when no owner rewrites or removes  *)
(* its record and exits between a contender's two looks at it              *)
(* (LateExit = FALSE): a record whose owner is gone is then either still   *)
(* in place as it was read, or already behind its tombstone.               *)
(***************************************************************************)
EXTENDS SessionLease, TLAPS

(* An attempt that is about to claim has not used up its tries. *)
TInv ==
    /\ TypeOK
    /\ \A p \in Proc :
          /\ pc[p] = "idle" => tries[p] = 0
          /\ pc[p] = "claim" => tries[p] < MaxTries
          /\ pc[p] \in {"judge", "retire"} => seen[p] \in Record

(* Every step keeps the types. *)
LEMMA TInvStep == TInv /\ [Next]_vars => TInv'
<1> SUFFICES ASSUME TInv, [Next]_vars PROVE TInv'
  OBVIOUS
<1> USE SessionConstants DEF TInv, TypeOK, PCs, Trying, Owning, Leaving, Content, Goto
<1>1. ASSUME NEW p \in Proc, Acquire(p) PROVE TInv'
  BY <1>1 DEF Acquire
<1>2. ASSUME NEW p \in Proc, Claim(p) PROVE TInv'
  BY <1>2 DEF Claim, Record, Writer
<1>3. ASSUME NEW p \in Proc, Exists(p) PROVE TInv'
  BY <1>3 DEF Exists
<1>4. ASSUME NEW p \in Proc, ReadLease(p) PROVE TInv'
  BY <1>4 DEF ReadLease
<1>5. ASSUME NEW p \in Proc, Judge(p) PROVE TInv'
  BY <1>5 DEF Judge
<1>6. ASSUME NEW p \in Proc, Retire(p) PROVE TInv'
  <2>1. tomb' \in [Proc -> Content]
    BY <1>6 DEF Retire
  <2> QED
    BY <1>6, <2>1 DEF Retire, NextTry
<1>7. ASSUME NEW p \in Proc, CheckWriter(p) PROVE TInv'
  BY <1>7 DEF CheckWriter
<1>8. ASSUME NEW p \in Proc, UpdateWriter(p) PROVE TInv'
  BY <1>8 DEF UpdateWriter, Record
<1>9. ASSUME NEW p \in Proc, Spawn(p) \/ WriterExits(p) PROVE TInv'
  BY <1>9 DEF Spawn, WriterExits
<1>10. ASSUME NEW p \in Proc, Release(p) PROVE TInv'
  BY <1>10 DEF Release
<1>11. ASSUME NEW p \in Proc, RemoveOwner(p) PROVE TInv'
  BY <1>11 DEF RemoveOwner
<1>12. ASSUME NEW p \in Proc, RemoveDir(p) PROVE TInv'
  BY <1>12 DEF RemoveDir
<1>13. ASSUME NEW p \in Proc, Probe(p) PROVE TInv'
  BY <1>13 DEF Probe
<1>14. ASSUME NEW p \in Proc, Die(p) PROVE TInv'
  BY <1>14 DEF Die
<1>15. CASE UNCHANGED vars
  BY <1>15 DEF vars
<1> QED
  BY <1>1, <1>2, <1>3, <1>4, <1>5, <1>6, <1>7, <1>8, <1>9, <1>10, <1>11, <1>12, <1>13,
     <1>14, <1>15 DEF Next, Step, Use

(* The types hold at the start. *)
LEMMA TInvInit == Init => TInv
BY SessionConstants DEF Init, TInv, TypeOK, PCs, Trying, Owning, Leaving, Content, Writer

(* Type correctness, whatever exits. *)
THEOREM TypeCorrect == Spec => []TypeOK
<1>1. TInv => TypeOK
  BY DEF TInv
<1> QED
  BY <1>1, TInvInit, TInvStep, PTL DEF Spec
-----------------------------------------------------------------------------
(* The lease of a runner that is between acquire and the end of release, or  *)
(* whose writer is alive, is in place.                                      *)
Held ==
    \A p \in Proc :
        /\ pc[p] \in Owning \cup {"unlink"} \/ child[p] = "alive" => OwnedBy(p)
        /\ child[p] = "alive" => pc[p] \in Owning \cup {"dead"}

(* The record says so while there may be a writer. *)
WriterRecorded ==
    \A p \in Proc :
        /\ pc[p] \in {"idle"} \cup Trying => want[p] = "none"
        /\ pc[p] = "own" => lease.writer = want[p]
        /\ child[p] = "alive" => lease.writer \in {"spawning", "running"}
        /\ pc[p] = "update" /\ child[p] = "alive" => want[p] = "running"

(* A tombstone holds the record it is named after, of a runner of which      *)
(* nothing is left, and no such record is in force.                         *)
Buried ==
    \A t \in Proc : tomb[t] # Absent =>
        /\ tomb[t] \in Record /\ tomb[t].token = t
        /\ pc[t] = "dead" /\ child[t] # "alive"
        /\ ~OwnedBy(t)

(* A record that was read, and whose runner is dead, is in place or buried. *)
SeenAccounted ==
    \A q \in Proc :
        /\ pc[q] = "judge" /\ pc[seen[q].token] = "dead"
              => lease = seen[q] \/ tomb[seen[q].token] # Absent
        /\ pc[q] = "retire"
              => /\ DemonstrablyStale(seen[q])
                 /\ lease = seen[q] \/ tomb[seen[q].token] # Absent

(* A runner that has acknowledged its release is done. *)
Acknowledged == \A p \in acked : pc[p] \in {"left", "dead"} /\ ~OwnedBy(p)

IInv ==
    /\ TInv
    /\ Held
    /\ WriterRecorded
    /\ Buried
    /\ SeenAccounted
    /\ Acknowledged

(* What a contender's steps do to the invariant: only a stale record moves.  *)
LEMMA ContenderStep ==
    ASSUME IInv, NEW p \in Proc,
           Acquire(p) \/ Claim(p) \/ Exists(p) \/ ReadLease(p) \/ Judge(p) \/ Retire(p)
    PROVE  (Held /\ WriterRecorded /\ Buried /\ SeenAccounted /\ Acknowledged)'
<1> USE SessionConstants DEF IInv, TInv, TypeOK, Held, WriterRecorded, Buried, SeenAccounted,
        Acknowledged, OwnedBy, DemonstrablyStale, Owning, Trying, Goto
<1>1. CASE Acquire(p)
  BY <1>1 DEF Acquire
<1>2. CASE Claim(p)
  <2>1. CASE lease \in Record
    <3>1. /\ pc[p] = "claim" /\ pc' = [pc EXCEPT ![p] = "exists"]
          /\ UNCHANGED <<lease, tomb, seen, want, child, acked>>
      BY <1>2, <2>1 DEF Claim
    <3> QED
      BY <3>1
  <2>2. CASE lease \notin Record
    <3>1. /\ lease' = [token |-> p, writer |-> "none"]
          /\ pc[p] = "claim" /\ pc' = [pc EXCEPT ![p] = "own"]
          /\ UNCHANGED <<tomb, seen, want, child, acked>>
      BY <1>2, <2>2 DEF Claim, Content
    <3>2. lease' \in Record /\ lease'.token = p /\ lease'.writer = "none"
      BY <3>1 DEF Record, Writer
    <3>3. \A q \in Proc : pc[q] \notin Owning \cup {"unlink"} /\ child[q] # "alive"
      BY <2>2
    <3>4. Held'
      BY <3>1, <3>2, <3>3
    <3>5. want[p] = "none"
      BY <3>1
    <3>6. WriterRecorded' /\ Buried' /\ Acknowledged'
      BY <3>1, <3>2, <3>3, <3>5
    <3>7. SeenAccounted'
      BY <2>2, <3>1, <3>2
    <3> QED
      BY <3>4, <3>6, <3>7
  <2> QED
    BY <2>1, <2>2
<1>3. CASE Exists(p)
  BY <1>3 DEF Exists
<1>4. CASE ReadLease(p)
  BY <1>4 DEF ReadLease
<1>5. CASE Judge(p)
  BY <1>5 DEF Judge
<1>6. CASE Retire(p)
  <2> DEFINE t == seen[p].token
  <2>1. CASE lease = seen[p] /\ tomb[t] = Absent
    <3>1. t \in Proc /\ lease \in Record
      BY <1>6, <2>1 DEF Retire, Record
    <3>2. /\ lease' = Absent /\ tomb' = [tomb EXCEPT ![t] = lease]
          /\ pc[p] = "retire" /\ \E n \in {"claim", "left"} : pc' = [pc EXCEPT ![p] = n]
          /\ UNCHANGED <<seen, want, child, acked>>
      BY <1>6, <2>1 DEF Retire, NextTry
    <3>3. pc[t] = "dead" /\ child[t] # "alive"
      BY <2>1, <3>1, <3>2
    <3>4. \A q \in Proc : pc[q] \notin Owning \cup {"unlink"} /\ child[q] # "alive"
      BY <2>1, <3>1, <3>2, <3>3
    <3> QED
      BY <2>1, <3>1, <3>2, <3>3, <3>4
  <2>2. CASE tomb[t] # Absent
    <3>1. t \in Proc
      BY <1>6 DEF Retire, Record
    <3>2. tomb[t] \notin {Absent, NoOwner}
      BY <2>2, <3>1
    <3>3. pc[p] = "retire" /\ UNCHANGED <<lease, tomb, seen, want, child, acked>>
      BY <1>6, <3>2 DEF Retire
    <3>4. \E n \in {"claim", "left"} : pc' = [pc EXCEPT ![p] = n]
      BY <1>6 DEF Retire, NextTry
    <3> QED
      BY <3>3, <3>4
  <2> QED
    BY <1>6, <2>1, <2>2 DEF Retire
<1> QED
  BY <1>1, <1>2, <1>3, <1>4, <1>5, <1>6

(* What the holder's steps do: the record is its own. *)
LEMMA HolderStep ==
    ASSUME IInv, NEW p \in Proc,
           Use(p) \/ UpdateWriter(p) \/ RemoveOwner(p) \/ RemoveDir(p) \/ Probe(p)
    PROVE  (Held /\ WriterRecorded /\ Buried /\ SeenAccounted /\ Acknowledged)'
<1> USE SessionConstants DEF IInv, TInv, TypeOK, Held, WriterRecorded, Buried, SeenAccounted,
        Acknowledged, OwnedBy, DemonstrablyStale, Owning, Trying, Goto
<1>1. CASE CheckWriter(p)
  BY <1>1 DEF CheckWriter
<1>2. CASE UpdateWriter(p)
  BY <1>2 DEF UpdateWriter, Record
<1>3. CASE Spawn(p)
  BY <1>3 DEF Spawn
<1>4. CASE WriterExits(p)
  BY <1>4 DEF WriterExits
<1>5. CASE Release(p)
  BY <1>5 DEF Release
<1>6. CASE RemoveOwner(p)
  BY <1>6 DEF RemoveOwner
<1>7. CASE RemoveDir(p)
  BY <1>7 DEF RemoveDir
<1>8. CASE Probe(p)
  BY <1>8 DEF Probe
<1> QED
  BY <1>1, <1>2, <1>3, <1>4, <1>5, <1>6, <1>7, <1>8 DEF Use

(* A runner that dies leaves its record as the contenders have read it. *)
LEMMA DieStep ==
    ASSUME ~LateExit, IInv, NEW p \in Proc, Die(p)
    PROVE  (Held /\ WriterRecorded /\ Buried /\ SeenAccounted /\ Acknowledged)'
BY SessionConstants DEF Die, ReadAndChanged, IInv, TInv, TypeOK, Held, WriterRecorded, Buried,
   SeenAccounted, Acknowledged, OwnedBy, DemonstrablyStale, Owning, Trying

(* Every step keeps the invariant, as long as no owner exits late. *)
LEMMA IInvStep == ~LateExit /\ IInv /\ [Next]_vars => IInv'
<1> SUFFICES ASSUME ~LateExit, IInv, [Next]_vars PROVE IInv'
  OBVIOUS
<1>1. TInv'
  BY TInvStep DEF IInv
<1>2. CASE UNCHANGED vars
  BY <1>1, <1>2 DEF IInv, Held, WriterRecorded, Buried, SeenAccounted, Acknowledged, OwnedBy,
     DemonstrablyStale, vars
<1>3. CASE Next
  BY <1>1, <1>3, ContenderStep, HolderStep, DieStep DEF Next, Step, IInv
<1> QED
  BY <1>2, <1>3

(* The invariant holds of every behaviour without late exits. *)
LEMMA IInvAlways == ~LateExit /\ Spec => []IInv
<1>1. Init => IInv
  BY TInvInit DEF Init, IInv, Held, WriterRecorded, Buried, SeenAccounted, Acknowledged, Owning,
     Trying
<1>2. CASE ~LateExit
  <2>1. IInv /\ [Next]_vars => IInv'
    BY <1>2, IInvStep
  <2> QED
    BY <1>1, <2>1, PTL DEF Spec
<1> QED
  BY <1>2

(* Two runners never write the same persisted session at once, not even     *)
(* through a writer that has outlived its runner.                           *)
THEOREM SessionExcludes == ~LateExit /\ Spec => []ExclusiveSession
<1>1. IInv => ExclusiveSession
  BY DEF IInv, Held, ExclusiveSession, Writing, OwnedBy
<1> QED
  BY <1>1, IInvAlways, PTL

(* The record in place is the holder's, with the writer state it last made  *)
(* durable.                                                                 *)
THEOREM RecordIsDurable == ~LateExit /\ Spec => []OwnerRecorded
<1>1. IInv => OwnerRecorded
  BY DEF IInv, Held, WriterRecorded, OwnerRecorded
<1> QED
  BY <1>1, IInvAlways, PTL

(* A runner writes only its own record, and none after it has left. *)
LEMMA AckStep == TInv /\ Acknowledged /\ [Next]_vars => Acknowledged'
<1> SUFFICES ASSUME TInv, Acknowledged, [Next]_vars PROVE Acknowledged'
  OBVIOUS
<1> USE SessionConstants DEF TInv, TypeOK, Acknowledged, OwnedBy, Goto
<1>1. ASSUME NEW p \in Proc, Acquire(p) \/ Exists(p) \/ ReadLease(p) \/ Judge(p) \/ Die(p)
      PROVE  Acknowledged'
  BY <1>1 DEF Acquire, Exists, ReadLease, Judge, Die
<1>2. ASSUME NEW p \in Proc, Claim(p) \/ UpdateWriter(p) PROVE Acknowledged'
  BY <1>2 DEF Claim, UpdateWriter, Record, Writer
<1>3. ASSUME NEW p \in Proc, Retire(p) PROVE Acknowledged'
  BY <1>3 DEF Retire, NextTry
<1>4. ASSUME NEW p \in Proc, Use(p) PROVE Acknowledged'
  BY <1>4 DEF Use, CheckWriter, Spawn, WriterExits, Release
<1>5. ASSUME NEW p \in Proc, RemoveOwner(p) \/ RemoveDir(p) \/ Probe(p) PROVE Acknowledged'
  BY <1>5 DEF RemoveOwner, RemoveDir, Probe
<1>6. CASE UNCHANGED vars
  BY <1>6 DEF vars
<1> QED
  BY <1>1, <1>2, <1>3, <1>4, <1>5, <1>6 DEF Next, Step

(* An acknowledged release is never contradicted by the runner's record,    *)
(* whenever owners exit: even a wrongly moved lease is not written again.   *)
THEOREM AcksAreFinal == Spec => []AckIsFinal
<1>1. Init => Acknowledged
  BY DEF Init, Acknowledged
<1>2. Acknowledged => AckIsFinal
  BY DEF Acknowledged, AckIsFinal, Owning
<1> QED
  BY <1>1, <1>2, TInvInit, TInvStep, AckStep, PTL DEF Spec

(* No contender moves the lease of a successor by mistake. *)
THEOREM SuccessorStays == ~LateExit /\ Spec => []SuccessorNotMoved
<1>1. IInv => SuccessorNotMoved
  BY SessionConstants DEF IInv, Buried, SuccessorNotMoved
<1> QED
  BY <1>1, IInvAlways, PTL
-----------------------------------------------------------------------------
(* Every step of the session lease is a step of the abstract lease. *)
LEMMA StepImplementsLease ==
    ASSUME IInv, NEW p \in Proc, Acquire(p) \/ Step(p) \/ Use(p) \/ Die(p)
    PROVE  [Lease!Next]_(Lease!leaseVars)
<1> DEFINE owner  == IF lease \in Record THEN lease.token ELSE Absent
           dead   == {q \in Proc : pc[q] = "dead" /\ child[q] # "alive"}
<1> USE SessionConstants DEF IInv, TInv, TypeOK, Owning, Goto
<1>1. CASE Claim(p)
  <2>1. CASE lease \in Record
    <3>1. Writing' = Writing /\ dead' = dead /\ owner' = owner
      BY <1>1, <2>1 DEF Claim, Writing
    <3> QED
      BY <3>1 DEF Lease!leaseVars
  <2>2. CASE lease \notin Record
    <3>1. lease' \in Record /\ lease'.token = p
      BY <1>1, <2>2 DEF Claim, Record, Writer
    <3>2. owner = Absent /\ owner' = p
      BY <2>2, <3>1
    <3>3. Writing' = Writing \cup {p} /\ dead' = dead /\ p \notin dead
      BY <1>1, <2>2 DEF Claim, Writing
    <3>4. Lease!Acquire(p)
      BY <3>2, <3>3 DEF Lease!Acquire
    <3> QED
      BY <3>4 DEF Lease!Next
  <2> QED
    BY <2>1, <2>2
<1>2. CASE Retire(p)
  <2>1. Writing' = Writing /\ dead' = dead
    BY <1>2 DEF Retire, NextTry, Writing
  <2>2. CASE UNCHANGED lease
    BY <2>1, <2>2 DEF Lease!leaseVars
  <2>3. CASE ~UNCHANGED lease
    <3>1. seen[p].token \in Proc
      BY <1>2 DEF Retire, Record
    <3>2. lease' = Absent /\ lease = seen[p]
      BY <1>2, <2>3, <3>1 DEF Retire, SeenAccounted, Buried
    <3>3. owner \in dead /\ owner' = Absent
      BY <1>2, <3>1, <3>2 DEF Retire, SeenAccounted, DemonstrablyStale, WriterRecorded
    <3>4. Lease!Reclaim
      BY <2>1, <3>3 DEF Lease!Reclaim
    <3> QED
      BY <3>4 DEF Lease!Next
  <2> QED
    BY <2>2, <2>3
<1>3. CASE UpdateWriter(p)
  <2>1. lease' \in Record /\ lease'.token = p
    BY <1>3 DEF UpdateWriter, Record
  <2>2. owner = p /\ owner' = p
    BY <1>3, <2>1 DEF UpdateWriter, Held, OwnedBy
  <2>3. Writing' = Writing /\ dead' = dead
    BY <1>3 DEF UpdateWriter, Writing
  <2> QED
    BY <2>2, <2>3 DEF Lease!leaseVars
<1>4. CASE CheckWriter(p)
  <2>1. Writing' = Writing /\ dead' = dead /\ owner' = owner
    BY <1>4 DEF CheckWriter, Writing, Held
  <2> QED
    BY <2>1 DEF Lease!leaseVars
<1>5. CASE Spawn(p)
  <2>1. Writing' = Writing /\ dead' = dead /\ owner' = owner
    BY <1>5 DEF Spawn, Writing
  <2> QED
    BY <2>1 DEF Lease!leaseVars
<1>6. CASE WriterExits(p)
  <2>1. owner' = owner
    BY <1>6 DEF WriterExits
  <2>2. CASE pc[p] = "dead"
    <3>1. Writing' = Writing \ {p} /\ dead' = dead \cup {p} /\ p \notin dead
      BY <1>6, <2>2 DEF WriterExits, Writing
    <3>2. Lease!Die(p)
      BY <2>1, <3>1 DEF Lease!Die
    <3> QED
      BY <3>2 DEF Lease!Next
  <2>3. CASE pc[p] # "dead"
    <3>1. Writing' = Writing /\ dead' = dead
      BY <1>6, <2>3 DEF WriterExits, Writing, Held
    <3> QED
      BY <2>1, <3>1 DEF Lease!leaseVars
  <2> QED
    BY <2>2, <2>3
<1>7. CASE Release(p)
  <2>1. OwnedBy(p)
    BY <1>7 DEF Release, Held
  <2>2. Writing' = Writing \ {p} /\ p \in Writing /\ dead' = dead
    BY <1>7, <2>1 DEF Release, Writing
  <2>3. owner' = owner
    BY <1>7 DEF Release
  <2>4. Lease!Leave(p)
    BY <2>2, <2>3 DEF Lease!Leave
  <2> QED
    BY <2>4 DEF Lease!Next
<1>8. CASE RemoveOwner(p)
  <2>1. owner = p /\ owner' = Absent
    BY <1>8 DEF RemoveOwner, Held, OwnedBy
  <2>2. Writing' = Writing /\ dead' = dead /\ p \notin Writing /\ p \notin dead
    BY <1>8 DEF RemoveOwner, Held, Writing
  <2>3. Lease!Release(p)
    BY <2>1, <2>2 DEF Lease!Release
  <2> QED
    BY <2>3 DEF Lease!Next
<1>9. CASE RemoveDir(p)
  <2>1. Writing' = Writing /\ dead' = dead /\ owner' = owner
    BY <1>9 DEF RemoveDir, Writing
  <2> QED
    BY <2>1 DEF Lease!leaseVars
<1>10. CASE Acquire(p) \/ Exists(p) \/ ReadLease(p) \/ Judge(p) \/ Probe(p)
  <2>1. Writing' = Writing /\ dead' = dead /\ owner' = owner
    BY <1>10 DEF Acquire, Exists, ReadLease, Judge, Probe, Writing
  <2> QED
    BY <2>1 DEF Lease!leaseVars
<1>11. CASE Die(p)
  <2>1. owner' = owner
    BY <1>11 DEF Die
  <2>2. CASE child[p] = "alive"
    <3>1. Writing' = Writing /\ dead' = dead
      BY <1>11, <2>2 DEF Die, Writing
    <3> QED
      BY <2>1, <3>1 DEF Lease!leaseVars
  <2>3. CASE child[p] # "alive"
    <3>1. Writing' = Writing \ {p} /\ dead' = dead \cup {p} /\ p \notin dead
      BY <1>11, <2>3 DEF Die, Writing
    <3>2. Lease!Die(p)
      BY <2>1, <3>1 DEF Lease!Die
    <3> QED
      BY <3>2 DEF Lease!Next
  <2> QED
    BY <2>2, <2>3
<1> QED
  BY <1>1, <1>2, <1>3, <1>4, <1>5, <1>6, <1>7, <1>8, <1>9, <1>10, <1>11 DEF Step, Use

(* The session lease implements the abstract lease. *)
THEOREM SessionLeaseImplementsLease == ~LateExit /\ Spec => ImplementsLease
<1>1. Init => Lease!Init
  BY SessionConstants DEF Init, Lease!Init, Writing, Owning, Record
<1>2. IInv /\ [Next]_vars => [Lease!Next]_(Lease!leaseVars)
  <2>1. CASE UNCHANGED vars
    BY <2>1 DEF vars, Lease!leaseVars, Writing
  <2>2. ASSUME IInv, Next PROVE [Lease!Next]_(Lease!leaseVars)
    BY <2>2, StepImplementsLease DEF Next
  <2> QED
    BY <2>1, <2>2
<1> QED
  BY <1>1, <1>2, IInvAlways, PTL DEF Spec, ImplementsLease, Lease!Spec
=============================================================================
