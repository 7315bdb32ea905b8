----------------------------- MODULE FileLease ------------------------------
(***************************************************************************)
(* tryLease / withFileLease (src/src/shared/file-lease.ts): a lock made of *)
(* a directory and an owner.json inside it, taken over from an owner whose *)
(* process is gone by renaming the directory to a destination named after  *)
(* the token that was read.  One action per file-system call, because      *)
(* other processes run between any two of them.                            *)
(*                                                                         *)
(* A process here is one OS process: it dies at most once and never comes  *)
(* back.  A token names one directory a process created, <<process, n>>.   *)
(***************************************************************************)
EXTENDS Naturals

CONSTANTS Proc,        \* OS processes
          MaxLeases,   \* bound: directories one process may create
          Opaque,      \* <<observer, owner>>: the observer cannot tell that the owner is dead
          LateExit,    \* may an owner release and exit between a reader's two looks at it?
          Absent,      \* nothing at the path
          NoOwner      \* a directory whose owner.json is missing

Token == Proc \X (1..MaxLeases)
Owner(t) == t[1]
Content == Token \cup {Absent, NoOwner}

ASSUME LeaseConstants ==
    /\ MaxLeases \in Nat
    /\ Opaque \subseteq Proc \X Proc
    /\ LateExit \in BOOLEAN
    /\ Absent # NoOwner
    /\ Absent \notin Proc
    /\ Absent \notin Token /\ NoOwner \notin Token

VARIABLES lock,      \* what is at lockPath
          retired,   \* what is at `${lockPath}.retired-${token}`, for every token
          pc,        \* where each process is in its call
          seen,      \* `previous`: the owner record the call read
          made       \* directories the process has created so far

vars == <<lock, retired, pc, seen, made>>

(* The token of the directory the current call of p made. *)
Mine(p) == <<p, made[p]>>

PCs == {"idle", "mkdir", "write", "hold", "unlink", "rmdir",
        "read", "check", "rename", "verify", "busy", "dead"}

TypeOK ==
    /\ lock \in Content
    /\ retired \in [Token -> Content]
    /\ pc \in [Proc -> PCs]
    /\ seen \in [Proc -> Content]
    /\ made \in [Proc -> 0..MaxLeases]

Init ==
    /\ lock = Absent
    /\ retired = [t \in Token |-> Absent]
    /\ pc = [p \in Proc |-> "idle"]
    /\ seen = [p \in Proc |-> Absent]
    /\ made = [p \in Proc |-> 0]

Goto(p, from, to) ==
    /\ pc[p] = from
    /\ pc' = [pc EXCEPT ![p] = to]

-----------------------------------------------------------------------------
(* withFileLease: the first attempt. *)
Call(p) ==
    /\ made[p] < MaxLeases
    /\ Goto(p, "idle", "mkdir")
    /\ UNCHANGED <<lock, retired, seen, made>>

(* Mutant: every attempt of a process reuses one token. *)
MkdirSameToken(p) ==
    \/ /\ lock = Absent
       /\ lock' = NoOwner
       /\ Goto(p, "mkdir", "write")
       /\ UNCHANGED <<retired, seen, made>>
    \/ /\ lock # Absent
       /\ Goto(p, "mkdir", "read")
       /\ UNCHANGED <<lock, retired, seen, made>>

(* fs.mkdirSync(lockPath), or EEXIST. *)
Mkdir(p) ==
    \/ /\ lock = Absent
       /\ lock' = NoOwner
       /\ made' = [made EXCEPT ![p] = @ + 1]
       /\ Goto(p, "mkdir", "write")
       /\ UNCHANGED <<retired, seen>>
    \/ /\ lock # Absent
       /\ Goto(p, "mkdir", "read")
       /\ UNCHANGED <<lock, retired, seen, made>>

(* fs.writeFileSync(owner.json, { flag: "wx" }): the path decides whose      *)
(* directory is written.  A write that fails, because the path is gone,     *)
(* already holds a record or the disk is full, removes lockPath and throws. *)
WriteOwner(p) ==
    \/ /\ Goto(p, "write", "hold")
       /\ lock = NoOwner
       /\ lock' = Mine(p)
       /\ UNCHANGED <<retired, seen, made>>
    \/ /\ Goto(p, "write", "unlink")
       /\ UNCHANGED <<lock, retired, seen, made>>

(* The call that returned the lease is left: action() has run, and the       *)
(* release removes the directory if the record is still its own.            *)
ReleaseRead(p) ==
    /\ Goto(p, "hold", IF lock = Mine(p) THEN "unlink" ELSE "idle")
    /\ UNCHANGED <<lock, retired, seen, made>>

(* fs.rmSync(lockPath, { recursive: true }): the file first, ... *)
RemoveOwner(p) ==
    \/ /\ lock \in Token
       /\ lock' = NoOwner
       /\ Goto(p, "unlink", "rmdir")
       /\ UNCHANGED <<retired, seen, made>>
    \/ /\ lock \notin Token
       /\ lock' = Absent
       /\ Goto(p, "unlink", "idle")
       /\ UNCHANGED <<retired, seen, made>>

(* ... then the directory, unless something is in it again. *)
RemoveDir(p) ==
    /\ lock' = IF lock = NoOwner THEN Absent ELSE lock
    /\ Goto(p, "rmdir", "idle")
    /\ UNCHANGED <<retired, seen, made>>

-----------------------------------------------------------------------------
(* readOwner(lockPath): without a readable record the lease is busy. *)
ReadOwner(p) ==
    \/ /\ lock \in Token
       /\ seen' = [seen EXCEPT ![p] = lock]
       /\ Goto(p, "read", "check")
       /\ UNCHANGED <<lock, retired, made>>
    \/ /\ lock \notin Token
       /\ Goto(p, "read", "busy")
       /\ UNCHANGED <<lock, retired, seen, made>>

(* Mutant: a record is dead because it was there the last time. *)
DeadOwnerByAge(p, t) == <<p, Owner(t)>> \notin Opaque

(* deadOwner(previous).  A live process is never reported dead; a dead one  *)
(* on another host, or one whose pid was reused without a start identity,   *)
(* is reported alive.                                                       *)
DeadOwner(p, t) == pc[Owner(t)] = "dead" /\ <<p, Owner(t)>> \notin Opaque

(* Mutant: whatever record can be read, the lease is busy. *)
CheckOwnerNever(p) ==
    /\ Goto(p, "check", "busy")
    /\ UNCHANGED <<lock, retired, seen, made>>

CheckOwner(p) ==
    /\ Goto(p, "check", IF DeadOwner(p, seen[p]) THEN "rename" ELSE "busy")
    /\ UNCHANGED <<lock, retired, seen, made>>

(* Mutant: the old directory goes to a fresh name, which fences nothing. *)
RetireUnfenced(p) ==
    \/ /\ Goto(p, "rename", "mkdir")
       /\ lock # Absent
       /\ lock' = Absent
       /\ UNCHANGED <<retired, seen, made>>
    \/ /\ Goto(p, "rename", "busy")
       /\ lock = Absent
       /\ UNCHANGED <<lock, retired, seen, made>>

(* fs.renameSync(lockPath, retired): the destination may be absent or an     *)
(* empty directory.  ENOENT, or a destination that already holds the        *)
(* record, means another reclaimer was first; any other failure is thrown.  *)
Retire(p) ==
    \/ /\ Goto(p, "rename", "verify")
       /\ lock # Absent
       /\ retired[seen[p]] \in {Absent, NoOwner}
       /\ retired' = [retired EXCEPT ![seen[p]] = lock]
       /\ lock' = Absent
       /\ UNCHANGED <<seen, made>>
    \/ /\ pc[p] = "rename"
       /\ lock = Absent \/ retired[seen[p]] \notin {Absent, NoOwner}
       /\ Goto(p, "rename", IF lock = Absent \/ retired[seen[p]] = seen[p] THEN "busy" ELSE "idle")
       /\ UNCHANGED <<lock, retired, seen, made>>

(* Mutant: the reclaimer clears the directory it has moved away. *)
VerifyAndClear(p) ==
    /\ Goto(p, "verify", IF retired[seen[p]] = seen[p] THEN "mkdir" ELSE "idle")
    /\ retired' = [retired EXCEPT ![seen[p]] = Absent]
    /\ UNCHANGED <<lock, seen, made>>

(* readOwner(retired): try again with a new token, or throw. *)
VerifyRetired(p) ==
    /\ Goto(p, "verify", IF retired[seen[p]] = seen[p] THEN "mkdir" ELSE "idle")
    /\ UNCHANGED <<lock, retired, seen, made>>

(* withFileLease: another attempt while there is time, else the busy error. *)
Retry(p) ==
    /\ Goto(p, "busy", "mkdir")
    /\ UNCHANGED <<lock, retired, seen, made>>

(* Mutant: the deadline is computed again for every attempt. *)
TimeOutRestarts(p) ==
    /\ Goto(p, "busy", "mkdir")
    /\ UNCHANGED <<lock, retired, seen, made>>

TimeOut(p) ==
    /\ Goto(p, "busy", "idle")
    /\ UNCHANGED <<lock, retired, seen, made>>

-----------------------------------------------------------------------------
(* A contender has read a record of p that p has since removed. *)
ReadAndReleased(p) ==
    \E q \in Proc :
        /\ pc[q] = "check"
        /\ Owner(seen[q]) = p
        /\ lock # seen[q]

(* The process exits, or is killed at any point of its call.                *)
Die(p) ==
    /\ pc[p] # "dead"
    /\ LateExit \/ ~ReadAndReleased(p)
    /\ pc' = [pc EXCEPT ![p] = "dead"]
    /\ UNCHANGED <<lock, retired, seen, made>>

Step(p) ==
    \/ Mkdir(p) \/ WriteOwner(p) \/ ReleaseRead(p) \/ RemoveOwner(p) \/ RemoveDir(p)
    \/ ReadOwner(p) \/ CheckOwner(p) \/ Retire(p) \/ VerifyRetired(p)

Next == \E p \in Proc : Call(p) \/ Step(p) \/ Retry(p) \/ TimeOut(p) \/ Die(p)

Spec == Init /\ [][Next]_vars

(* A live process makes its next file-system call, and the deadline of a    *)
(* waiting call passes although every retry leaves the waiting state.       *)
Fairness == \A p \in Proc : WF_vars(Step(p)) /\ SF_vars(TimeOut(p))

FairSpec == Spec /\ Fairness
-----------------------------------------------------------------------------
(* Two processes are never in their critical sections together: what        *)
(* withFileLease promises its callers.                                      *)
MutualExclusion ==
    \A p, q \in Proc : pc[p] = "hold" /\ pc[q] = "hold" => p = q

(* The lease a live process works under stays in place: nobody evicts it,   *)
(* however old it is (file-lease.ts, comment of tryLease).                  *)
LiveLeaseInPlace ==
    \A p \in Proc : pc[p] = "hold" => lock = Mine(p)

(* A retired directory is a fence: once a token's record was moved to its   *)
(* destination nothing replaces it there, and it is never in force again.   *)
FenceStays ==
    [][\A t \in Token : retired[t] = t => retired'[t] = t /\ lock' # t]_vars

(* Every call of withFileLease ends: in the critical section, with an       *)
(* error, or with its process.                                              *)
CallsReturn ==
    \A p \in Proc : pc[p] = "mkdir" ~> pc[p] \in {"hold", "idle", "dead"}

(* A record whose owner is dead does not outlive the next attempt of a      *)
(* process that can see the owner is dead.                                  *)
DeadOwnerReclaimed ==
    \A p \in Proc : \A t \in Token :
        (pc[p] = "mkdir" /\ lock = t /\ DeadOwner(p, t)) ~> (lock # t \/ pc[p] = "dead")

-----------------------------------------------------------------------------
(* The lease as the abstract specification sees it. *)
Nobody == Absent
Lease == INSTANCE ExclusiveLease WITH
    owner  <- IF lock \in Token THEN Owner(lock) ELSE Nobody,
    inside <- {p \in Proc : pc[p] = "hold"},
    dead   <- {p \in Proc : pc[p] = "dead"}

(* Every step of the file protocol is a step of the promised lease. *)
ImplementsLease == Lease!Spec
=============================================================================
