---------------------------- MODULE SessionLease ----------------------------
(***************************************************************************)
(* acquireSessionLease (src/src/runs/shared/session-lease.ts): one runner  *)
(* at a time may revive a persisted child session.  The lease directory is *)
(* prepared aside and renamed into place; the record of a runner that is   *)
(* gone is moved to a tombstone named after its token.  A runner may have  *)
(* a writer process, which the record names and which may outlive it.      *)
(*                                                                         *)
(* A runner process acquires once (subagent-runner-bootstrap.ts), so the   *)
(* process names its token too.                                            *)
(***************************************************************************)
EXTENDS Naturals

CONSTANTS Proc,        \* runner processes
          MaxTries,    \* attempts of one acquisition (4 in the code)
          LateExit,    \* may an owner change its record and exit between a contender's two looks?
          Absent,      \* nothing at the path
          NoOwner      \* a directory without a readable owner.json

Writer == {"none", "spawning", "running"}
Record == [token : Proc, writer : Writer]
Content == Record \cup {Absent, NoOwner}

ASSUME SessionConstants ==
    /\ MaxTries \in Nat \ {0}
    /\ LateExit \in BOOLEAN
    /\ Absent # NoOwner
    /\ Absent \notin Proc
    /\ Absent \notin Record /\ NoOwner \notin Record

VARIABLES lease,     \* what is at leaseDir
          tomb,      \* what is at `${leaseDir}.stale-${token}`
          pc,        \* where each runner is
          seen,      \* existingOwner: the record the attempt read
          tries,     \* attempts begun
          want,      \* handle.owner.writerState, or the one being written
          child,     \* the writer process of each runner
          acked      \* runners whose release() returned true

vars == <<lease, tomb, pc, seen, tries, want, child, acked>>

Trying == {"claim", "exists", "read", "judge", "retire"}
Owning == {"own", "update"}
Leaving == {"unlink", "rmdir", "probe"}
PCs == {"idle", "left", "dead"} \cup Trying \cup Owning \cup Leaving

OwnedBy(p) == lease \in Record /\ lease.token = p

TypeOK ==
    /\ lease \in Content
    /\ tomb \in [Proc -> Content]
    /\ pc \in [Proc -> PCs]
    /\ seen \in [Proc -> Content]
    /\ tries \in [Proc -> 0..MaxTries]
    /\ want \in [Proc -> Writer]
    /\ child \in [Proc -> {"unborn", "alive", "gone"}]
    /\ acked \subseteq Proc

Init ==
    /\ lease = Absent
    /\ tomb = [p \in Proc |-> Absent]
    /\ pc = [p \in Proc |-> "idle"]
    /\ seen = [p \in Proc |-> Absent]
    /\ tries = [p \in Proc |-> 0]
    /\ want = [p \in Proc |-> "none"]
    /\ child = [p \in Proc |-> "unborn"]
    /\ acked = {}

Goto(p, from, to) ==
    /\ pc[p] = from
    /\ pc' = [pc EXCEPT ![p] = to]

-----------------------------------------------------------------------------
(* Mutant: the attempts are counted from the next one on. *)
NextTryLate(p) == IF tries[p] <= MaxTries THEN "claim" ELSE "left"

(* The next attempt, or the conflict error after the last one. *)
NextTry(p) == IF tries[p] < MaxTries THEN "claim" ELSE "left"

Acquire(p) ==
    /\ Goto(p, "idle", "claim")
    /\ UNCHANGED <<lease, tomb, seen, tries, want, child, acked>>

(* createLeaseDirectory: the candidate directory, complete with its record,  *)
(* is renamed onto leaseDir, which may be absent or an empty directory.     *)
Claim(p) ==
    /\ tries' = [tries EXCEPT ![p] = @ + 1]
    /\ \/ /\ Goto(p, "claim", "own")
          /\ lease \in {Absent, NoOwner}
          /\ lease' = [token |-> p, writer |-> "none"]
       \/ /\ Goto(p, "claim", "exists")
          /\ lease \in Record
          /\ UNCHANGED lease
    /\ UNCHANGED <<tomb, seen, want, child, acked>>

(* Mutant: a lease held by anybody is a conflict, whoever the owner is. *)
ExistsIsConflict(p) ==
    /\ Goto(p, "exists", "left")
    /\ UNCHANGED <<lease, tomb, seen, tries, want, child, acked>>

(* The rename failed: fs.existsSync(leaseDir) tells a held lease from an     *)
(* error, which is thrown.                                                  *)
Exists(p) ==
    /\ Goto(p, "exists", IF lease = Absent THEN "left" ELSE "read")
    /\ UNCHANGED <<lease, tomb, seen, tries, want, child, acked>>

(* readLeaseOwner(leaseDir): an unreadable record is never reclaimed. *)
ReadLease(p) ==
    /\ Goto(p, "read", IF lease \in Record THEN "judge" ELSE "left")
    /\ seen' = [seen EXCEPT ![p] = lease]
    /\ UNCHANGED <<lease, tomb, tries, want, child, acked>>

(* Mutant: the staleness of the runner decides alone. *)
StaleWithoutWriter(r) == pc[r.token] = "dead"

(* demonstrablyStale: the runner is gone, and no writer was recorded or the  *)
(* recorded one is gone too.  "spawning" is never stale.                    *)
DemonstrablyStale(r) ==
    /\ pc[r.token] = "dead"
    /\ \/ r.writer = "none"
       \/ r.writer = "running" /\ child[r.token] = "gone"

Judge(p) ==
    /\ Goto(p, "judge", IF DemonstrablyStale(seen[p]) THEN "retire" ELSE "left")
    /\ UNCHANGED <<lease, tomb, seen, tries, want, child, acked>>

(* Mutant: a stale directory is moved aside under a name nobody else uses. *)
RetireUnfenced(p) ==
    /\ Goto(p, "retire", NextTry(p))
    /\ lease' = Absent
    /\ UNCHANGED <<tomb, seen, tries, want, child, acked>>

(* Mutant: what is at the tombstone is removed before the rename. *)
RetireOver(p) ==
    /\ Goto(p, "retire", NextTry(p))
    /\ \/ /\ lease # Absent
          /\ tomb' = [tomb EXCEPT ![seen[p].token] = lease]
          /\ lease' = Absent
       \/ lease = Absent /\ UNCHANGED <<lease, tomb>>
    /\ UNCHANGED <<seen, tries, want, child, acked>>

(* fs.renameSync(leaseDir, tombstone).  ENOENT, or an occupied tombstone,    *)
(* is another contender's success: continue.                                *)
Retire(p) ==
    /\ Goto(p, "retire", NextTry(p))
    /\ \/ /\ lease # Absent
          /\ tomb[seen[p].token] \in {Absent, NoOwner}
          /\ tomb' = [tomb EXCEPT ![seen[p].token] = lease]
          /\ lease' = Absent
       \/ /\ lease = Absent \/ tomb[seen[p].token] \in Record
          /\ UNCHANGED <<lease, tomb>>
    /\ UNCHANGED <<seen, tries, want, child, acked>>

-----------------------------------------------------------------------------
(* updateWriter: the token is checked first, and the lost lease is thrown.   *)
(* The caller's protocol (test/support/session-lease-child.mjs): "spawning" *)
(* before the writer is started, "running" with its pid, "none" at its end. *)
CheckWriter(p) ==
    \E w \in Writer :
        /\ \/ w = "spawning" /\ child[p] = "unborn"
           \/ w = "running" /\ child[p] = "alive"
           \/ w = "none" /\ child[p] = "gone"
        /\ w # want[p]
        /\ Goto(p, "own", IF OwnedBy(p) THEN "update" ELSE "left")
        /\ want' = [want EXCEPT ![p] = w]
        /\ UNCHANGED <<lease, tomb, seen, tries, child, acked>>

(* Mutant: the record keeps the writer state it was created with. *)
UpdateWriterLost(p) ==
    /\ Goto(p, "update", "own")
    /\ UNCHANGED <<lease, tomb, seen, tries, want, child, acked>>

(* writeOwner is an atomic JSON write: it makes leaseDir if it is gone and   *)
(* replaces whatever owner.json is there.                                   *)
UpdateWriter(p) ==
    /\ Goto(p, "update", "own")
    /\ lease' = [token |-> p, writer |-> want[p]]
    /\ UNCHANGED <<tomb, seen, tries, want, child, acked>>

(* The caller starts the writer it has announced. *)
Spawn(p) ==
    /\ pc[p] = "own" /\ want[p] = "spawning" /\ child[p] = "unborn"
    /\ child' = [child EXCEPT ![p] = "alive"]
    /\ UNCHANGED <<lease, tomb, pc, seen, tries, want, acked>>

WriterExits(p) ==
    /\ child[p] = "alive"
    /\ child' = [child EXCEPT ![p] = "gone"]
    /\ UNCHANGED <<lease, tomb, pc, seen, tries, want, acked>>

-----------------------------------------------------------------------------
(* Mutant: release() reports success once it has recognised its token. *)
ReleaseEarlyAck(p) ==
    /\ Goto(p, "own", IF OwnedBy(p) THEN "unlink" ELSE "left")
    /\ child[p] # "alive"
    /\ acked' = IF OwnedBy(p) THEN acked \cup {p} ELSE acked
    /\ UNCHANGED <<lease, tomb, seen, tries, want, child>>

(* release(): only the directory that holds the runner's own token is       *)
(* removed.  The runner has waited for its writer.                          *)
Release(p) ==
    /\ Goto(p, "own", IF OwnedBy(p) THEN "unlink" ELSE "left")
    /\ child[p] # "alive"
    /\ UNCHANGED <<lease, tomb, seen, tries, want, child, acked>>

(* fs.rmSync(leaseDir, { recursive: true, force: true }): the file, ... *)
RemoveOwner(p) ==
    /\ Goto(p, "unlink", "rmdir")
    /\ lease' = IF lease \in Record THEN NoOwner ELSE lease
    /\ UNCHANGED <<tomb, seen, tries, want, child, acked>>

(* ... then the directory: a record that appeared in between makes it fail. *)
RemoveDir(p) ==
    /\ Goto(p, "rmdir", IF lease \in Record THEN "left" ELSE "probe")
    /\ lease' = IF lease \in Record THEN lease ELSE Absent
    /\ UNCHANGED <<tomb, seen, tries, want, child, acked>>

(* return !fs.existsSync(leaseDir): the acknowledgement the run's process-   *)
(* terminal candidate records.                                              *)
Probe(p) ==
    /\ Goto(p, "probe", "left")
    /\ acked' = IF lease = Absent THEN acked \cup {p} ELSE acked
    /\ UNCHANGED <<lease, tomb, seen, tries, want, child>>

-----------------------------------------------------------------------------
(* A contender has read a record that p has since removed or rewritten. *)
ReadAndChanged(p) ==
    \E q \in Proc :
        /\ pc[q] = "judge"
        /\ seen[q].token = p
        /\ lease # seen[q]

(* The runner exits or is killed; its writer may go on. *)
Die(p) ==
    /\ pc[p] # "dead"
    /\ LateExit \/ ~ReadAndChanged(p)
    /\ pc' = [pc EXCEPT ![p] = "dead"]
    /\ UNCHANGED <<lease, tomb, seen, tries, want, child, acked>>

Step(p) ==
    \/ Claim(p) \/ Exists(p) \/ ReadLease(p) \/ Judge(p) \/ Retire(p)
    \/ UpdateWriter(p) \/ RemoveOwner(p) \/ RemoveDir(p) \/ Probe(p)

Use(p) == CheckWriter(p) \/ Spawn(p) \/ WriterExits(p) \/ Release(p)

Next == \E p \in Proc : Acquire(p) \/ Step(p) \/ Use(p) \/ Die(p)

Spec == Init /\ [][Next]_vars

(* acquire, updateWriter and release are synchronous: a live runner goes on. *)
FairSpec == Spec /\ \A p \in Proc : WF_vars(Step(p))
-----------------------------------------------------------------------------
(* Independent runners never write the same persisted session at once: not  *)
(* while either holds the lease, and not while a writer of either is alive, *)
(* even one that has outlived its runner.                                   *)
Writing == {p \in Proc : pc[p] \in Owning \/ child[p] = "alive"}
ExclusiveSession == \A p, q \in Writing : p = q

(* A tombstone only ever holds the record it is named after: "later         *)
(* contenders cannot move a successor lease by mistake" (session-lease.ts,  *)
(* comment of acquireSessionLease).                                         *)
SuccessorNotMoved ==
    \A t \in Proc : tomb[t] \in Record => tomb[t].token = t

(* While a runner is between acquire and release, its record is the one in  *)
(* place, with the writer state it last made durable.                       *)
OwnerRecorded ==
    \A p \in Proc :
        /\ pc[p] \in Owning => OwnedBy(p)
        /\ pc[p] = "own" => lease.writer = want[p]

(* A release that was acknowledged is final: the record of that runner is   *)
(* never in place again, so its process-terminal proof stays true.          *)
AckIsFinal == \A p \in acked : ~OwnedBy(p) /\ pc[p] \notin Owning

(* The record of a runner that is gone, and of whose writer nothing is left,*)
(* does not outlive the next attempt of a live contender.                   *)
DeadSessionFreed ==
    \A p, t \in Proc :
        (pc[p] = "claim" /\ OwnedBy(t) /\ DemonstrablyStale(lease))
            ~> (~OwnedBy(t) \/ pc[p] = "dead")

-----------------------------------------------------------------------------
(* The lease as the abstract specification sees it: a runner is dead once   *)
(* its writer is gone as well.                                              *)
Lease == INSTANCE ExclusiveLease WITH
    Nobody <- Absent,
    owner  <- IF lease \in Record THEN lease.token ELSE Absent,
    inside <- Writing,
    dead   <- {p \in Proc : pc[p] = "dead" /\ child[p] # "alive"}

(* Every step of the session lease is a step of the promised lease. *)
ImplementsLease == Lease!Spec
=============================================================================
