--------------------------- MODULE AsyncCapacity ----------------------------
(***************************************************************************)
(* The active-run capacity of a session                                    *)
(* (src/src/runs/background/active-async-capacity.ts) and the launches     *)
(* that use it (async-execution.ts, subagent-runner-bootstrap.ts).  A      *)
(* reservation is a directory slot-<n>, made by mkdir(2), with an          *)
(* owner.json; it is changed or renamed away only under an exclusively     *)
(* created capacity.claim inside it, and only after the owner was read     *)
(* again.  Several processes of one session, and the timers of one         *)
(* process, launch, resume and reconcile at the same time.                 *)
(*                                                                         *)
(* A launched runner waits for the proceed file; a launch that fails       *)
(* before it records "not-started" and gives the reservation back, to the  *)
(* run it was taken over from if there is one.  A runner instance belongs  *)
(* to one run, so "bound" stands for the instance id in owner.json.        *)
(***************************************************************************)
EXTENDS Naturals

CONSTANTS Proc,      \* processes of the session
          Limit,     \* maxActiveAsyncRunsPerSession
          MaxRuns,   \* bound on the runs launched
          MaxMishaps,  \* bound on the deaths of processes of the session and on the
                       \* storage failures that end an operation on a slot
          Kinds,     \* kinds of runs launched
          None,      \* a slot that is not taken, an owner that is not known
          NoOwner,   \* slot-<n> exists without a readable owner.json
          Stale      \* a capacity.claim that nobody will remove

Run == 1..MaxRuns
Slot == 1..Limit
Owner == [token : Run, run : Run, gen : 0..MaxRuns, bound : BOOLEAN]

ASSUME CapacityConstants ==
    /\ Limit \in Nat \ {0} /\ MaxRuns \in Nat /\ MaxMishaps \in Nat
    /\ Kinds \subseteq {"runner", "workflow"}
    /\ None \notin Owner /\ NoOwner \notin Owner /\ None # NoOwner
    /\ None \notin Proc /\ Stale \notin Proc /\ None # Stale

VARIABLES slot,      \* slot-<n>/owner.json
          claim,     \* slot-<n>/capacity.claim
          launched,  \* runs launched so far
          kind,      \* kind of each run
          source,    \* the run that a resume continues, 0 for a fresh launch
          host,      \* the process that a workflow runs in
          status,    \* status.json: state
          proof,     \* the process-terminal evidence of the run
          runner,    \* the runner process, or the controller of a workflow
          proceed,   \* runs whose proceed file was written
          pc,        \* where each process is
          at,        \* the slot it works on
          launch,    \* the run it launches, 0 while it only reconciles
          expected,  \* the owner that it read or that its handle remembers
          back,      \* rollbackOwner of its handle
          mishaps    \* deaths and such failures so far

runs == <<kind, source, host>>
life == <<status, proof, runner, proceed>>
local == <<at, launch, expected, back>>
vars == <<slot, claim, launched, runs, life, pc, local, mishaps>>

PCs == {"idle", "scan", "claimRelease", "release", "create", "own", "seek", "claimTransfer",
        "transfer", "reserved", "claimBind", "bind", "bound", "failed", "claimRestore",
        "restore", "claimRollback", "rollback"}

TypeOK ==
    /\ slot \in [Slot -> Owner \cup {None, NoOwner}]
    /\ claim \in [Slot -> Proc \cup {None, Stale}]
    /\ launched \in 0..MaxRuns
    /\ kind \in [Run -> {"runner", "workflow"}]
    /\ source \in [Run -> 0..MaxRuns]
    /\ host \in [Run -> Proc \cup {None}]
    /\ status \in [Run -> {"none", "running", "paused", "failed", "ended"}]
    /\ proof \in [Run -> {"none", "not-started", "observed"}]
    /\ runner \in [Run -> {"none", "waiting", "working", "failing", "gone"}]
    /\ proceed \subseteq Run
    /\ pc \in [Proc -> PCs]
    /\ at \in [Proc -> 0..(Limit + 1)]
    /\ launch \in [Proc -> 0..MaxRuns]
    /\ expected \in [Proc -> Owner \cup {None}]
    /\ back \in [Proc -> Owner \cup {None}]
    /\ mishaps \in 0..MaxMishaps

Init ==
    /\ slot = [s \in Slot |-> None]
    /\ claim = [s \in Slot |-> None]
    /\ launched = 0
    /\ kind = [r \in Run |-> "runner"]
    /\ source = [r \in Run |-> 0]
    /\ host = [r \in Run |-> None]
    /\ status = [r \in Run |-> "none"]
    /\ proof = [r \in Run |-> "none"]
    /\ runner = [r \in Run |-> "none"]
    /\ proceed = {}
    /\ pc = [p \in Proc |-> "idle"]
    /\ at = [p \in Proc |-> 0]
    /\ launch = [p \in Proc |-> 0]
    /\ expected = [p \in Proc |-> None]
    /\ back = [p \in Proc |-> None]
    /\ mishaps = 0

Goto(p, from, to) ==
    /\ pc[p] = from
    /\ pc' = [pc EXCEPT ![p] = to]

(* A call returns; its handle is dropped. *)
Return(p) ==
    /\ pc' = [pc EXCEPT ![p] = "idle"]
    /\ at' = [at EXCEPT ![p] = 0]
    /\ launch' = [launch EXCEPT ![p] = 0]
    /\ expected' = [expected EXCEPT ![p] = None]
    /\ back' = [back EXCEPT ![p] = None]

(* A death, or a failure of the storage in the middle of an operation. *)
Mishap ==
    /\ mishaps < MaxMishaps
    /\ mishaps' = mishaps + 1

Occupied == {s \in Slot : slot[s] # None}
Over(r) == status[r] \in {"failed", "ended"}
(* A readable owner holds slot s for run r. *)
Holds(s, r) == slot[s] \in Owner /\ slot[s].run = r

-----------------------------------------------------------------------------
(* reconcileActiveAsyncCapacity, alone (a refresh) or before an admission.   *)
Refresh(p) ==
    /\ Goto(p, "idle", "scan")
    /\ at' = [at EXCEPT ![p] = 1]
    /\ UNCHANGED <<slot, claim, launched, runs, life, launch, expected, back>>

NewRun(p, k, src) ==
    /\ launched < MaxRuns
    /\ launched' = launched + 1
    /\ launch' = [launch EXCEPT ![p] = launched + 1]
    /\ kind' = [kind EXCEPT ![launched + 1] = k]
    /\ source' = [source EXCEPT ![launched + 1] = src]
    /\ host' = [host EXCEPT ![launched + 1] = IF k = "workflow" THEN p ELSE None]
    /\ at' = [at EXCEPT ![p] = 1]
    /\ UNCHANGED <<slot, claim, life, expected, back>>

Launch(p) ==
    /\ Goto(p, "idle", "scan")
    /\ \E k \in Kinds : NewRun(p, k, 0)

(* A resume of a run that has stopped continues it as a new run. *)
Resume(p) ==
    /\ Goto(p, "idle", "seek")
    /\ \E src \in Run :
        /\ kind[src] = "runner" /\ (Over(src) \/ status[src] = "paused")
        /\ NewRun(p, "runner", src)

(* Mutant: exit evidence is enough, whatever the status says. *)
VerdictProof(p, o) ==
    /\ o.bound
    /\ proof[o.run] # "none" \/ (status[o.run] = "failed" /\ runner[o.run] = "gone")

(* Mutant: only a run that completed is terminal. *)
VerdictCompleted(p, o) ==
    /\ status[o.run] = "ended"
    /\ IF kind[o.run] = "runner"
       THEN o.bound /\ proof[o.run] # "none"
       ELSE ~(host[o.run] = p /\ runner[o.run] = "working") /\ proof[o.run] # "none"

(* ownerReleaseVerdict.  A runner: a terminal status with evidence that the  *)
(* runner exited or never started, or, after a while, a failed run whose     *)
(* runner is dead.  A workflow: a terminal status, no live controller in     *)
(* the process that looks, and every child accounted for.                    *)
Verdict(p, o) ==
    /\ Over(o.run)
    /\ IF kind[o.run] = "runner"
       THEN o.bound /\ (proof[o.run] # "none" \/ (status[o.run] = "failed" /\ runner[o.run] = "gone"))
       ELSE ~(host[o.run] = p /\ runner[o.run] = "working") /\ proof[o.run] # "none"

(* One slot of the loop: its owner and the status of that run are read.      *)
Scan(p) ==
    /\ pc[p] = "scan" /\ at[p] \in Slot
    /\ IF slot[at[p]] \in Owner /\ Verdict(p, slot[at[p]])
       THEN /\ pc' = [pc EXCEPT ![p] = "claimRelease"]
            /\ expected' = [expected EXCEPT ![p] = slot[at[p]]]
            /\ UNCHANGED at
       ELSE /\ at' = [at EXCEPT ![p] = @ + 1]
            /\ UNCHANGED <<pc, expected>>
    /\ UNCHANGED <<slot, claim, launched, runs, life, launch, back>>

(* After the loop: a refresh is done, a launch is admitted or refused.       *)
Admit(p) ==
    /\ pc[p] = "scan" /\ at[p] = Limit + 1
    /\ IF launch[p] = 0 \/ Occupied = Slot
       THEN Return(p)
       ELSE /\ pc' = [pc EXCEPT ![p] = "create"]
            /\ at' = [at EXCEPT ![p] = 1]
            /\ UNCHANGED <<launch, expected, back>>
    /\ UNCHANGED <<slot, claim, launched, runs, life>>

(* withSlotClaim: the claim file is created exclusively in the slot, and a   *)
(* claim that is there, or a slot that is gone, ends the attempt.            *)
Claim(p, from, to) ==
    /\ Goto(p, from, to)
    /\ slot[at[p]] # None /\ claim[at[p]] = None
    /\ claim' = [claim EXCEPT ![at[p]] = p]
    /\ UNCHANGED <<slot, launched, runs, life, local>>

NotClaimed(p, from) ==
    /\ pc[p] = from
    /\ slot[at[p]] = None \/ claim[at[p]] # None
    /\ UNCHANGED <<slot, claim, launched, runs, life>>

(* The claim file is created, but its token cannot be written: the call      *)
(* throws and nobody removes the file.  For markStarted the launch fails.    *)
ClaimFails(p) ==
    /\ Mishap
    /\ pc[p] \in {"claimRelease", "claimTransfer", "claimBind", "claimRestore", "claimRollback"}
    /\ slot[at[p]] # None /\ claim[at[p]] = None
    /\ pc[p] = "claimRollback" => ~expected[p].bound
    /\ claim' = [claim EXCEPT ![at[p]] = Stale]
    /\ IF pc[p] = "claimBind"
       THEN pc' = [pc EXCEPT ![p] = "failed"] /\ UNCHANGED local
       ELSE Return(p)
    /\ UNCHANGED <<slot, launched, runs, life>>

(* Mutant: the owner is not read again under the claim. *)
MatchesNot(p) == slot[at[p]] \in Owner

(* matchingOwner: same token, run and generation as when it was read. *)
Matches(p) ==
    /\ slot[at[p]] \in Owner
    /\ slot[at[p]].token = expected[p].token
    /\ slot[at[p]].run = expected[p].run
    /\ slot[at[p]].gen = expected[p].gen

(* The operation under the claim leaves owner o behind, and the claim file   *)
(* goes, with the directory if o is None.                                   *)
Leave(p, o) ==
    /\ slot' = [slot EXCEPT ![at[p]] = o]
    /\ claim' = [claim EXCEPT ![at[p]] = None]

ClaimRelease(p) == Claim(p, "claimRelease", "release")

NextSlot(p) ==
    /\ pc' = [pc EXCEPT ![p] = "scan"]
    /\ at' = [at EXCEPT ![p] = @ + 1]
    /\ expected' = [expected EXCEPT ![p] = None]
    /\ UNCHANGED <<launch, back>>

ReleaseBusy(p) == NotClaimed(p, "claimRelease") /\ NextSlot(p)

(* removeOwnedSlot *)
Release(p) ==
    /\ pc[p] = "release"
    /\ Leave(p, IF Matches(p) THEN None ELSE slot[at[p]])
    /\ NextSlot(p)
    /\ UNCHANGED <<launched, runs, life>>

(* The owner.json or the directory cannot be changed under the claim: the    *)
(* call throws, and its caller does not catch it.                           *)
LeaveFails(p) ==
    /\ Mishap
    /\ pc[p] \in {"release", "transfer", "restore", "rollback"}
    /\ Leave(p, slot[at[p]])
    /\ Return(p)
    /\ UNCHANGED <<launched, runs, life>>

(* createSlot: mkdir(2) of the first slot that nobody has. *)
Create(p) ==
    /\ pc[p] = "create"
    /\ IF at[p] = Limit + 1
       THEN Return(p) /\ UNCHANGED slot
       ELSE IF slot[at[p]] # None
       THEN at' = [at EXCEPT ![p] = @ + 1] /\ UNCHANGED <<slot, pc, launch, expected, back>>
       ELSE /\ slot' = [slot EXCEPT ![at[p]] = NoOwner]
            /\ pc' = [pc EXCEPT ![p] = "own"]
            /\ UNCHANGED <<at, launch, expected, back>>
    /\ UNCHANGED <<claim, launched, runs, life>>

(* ... and its owner.json. *)
Own(p) ==
    LET o == [token |-> launch[p], run |-> launch[p], gen |-> 0, bound |-> FALSE] IN
    /\ Goto(p, "own", "reserved")
    /\ slot' = [slot EXCEPT ![at[p]] = o]
    /\ expected' = [expected EXCEPT ![p] = o]
    /\ UNCHANGED <<claim, launched, runs, life, at, launch, back>>

(* The write fails: the slot stays occupied. *)
OwnFails(p) ==
    /\ pc[p] = "own"
    /\ Return(p)
    /\ UNCHANGED <<slot, claim, launched, runs, life>>

-----------------------------------------------------------------------------
(* transferActiveAsyncCapacity: the slot of the source is looked for; without *)
(* one the resume is admitted like a launch.                                *)
Seek(p) ==
    /\ pc[p] = "seek"
    /\ IF at[p] = Limit + 1
       THEN /\ pc' = [pc EXCEPT ![p] = "scan"]
            /\ at' = [at EXCEPT ![p] = 1]
            /\ UNCHANGED expected
       ELSE IF Holds(at[p], source[launch[p]])
       THEN /\ pc' = [pc EXCEPT ![p] = "claimTransfer"]
            /\ expected' = [expected EXCEPT ![p] = slot[at[p]]]
            /\ UNCHANGED at
       ELSE at' = [at EXCEPT ![p] = @ + 1] /\ UNCHANGED <<pc, expected>>
    /\ UNCHANGED <<slot, claim, launched, runs, life, launch, back>>

ClaimTransfer(p) == Claim(p, "claimTransfer", "transfer")
TransferBusy(p) == NotClaimed(p, "claimTransfer") /\ Return(p)

(* The source must have a status that is neither queued nor running. *)
Transferable(r) == status[r] \notin {"none", "running"}

Transfer(p) ==
    /\ pc[p] = "transfer"
    /\ IF Matches(p) /\ Transferable(source[launch[p]])
       THEN LET o == [slot[at[p]] EXCEPT !.run = launch[p], !.gen = @ + 1, !.bound = FALSE] IN
            /\ Leave(p, o)
            /\ expected' = [expected EXCEPT ![p] = o]
            /\ back' = [back EXCEPT ![p] = slot[at[p]]]
            /\ pc' = [pc EXCEPT ![p] = "reserved"]
            /\ UNCHANGED <<at, launch>>
       ELSE Leave(p, slot[at[p]]) /\ Return(p)
    /\ UNCHANGED <<launched, runs, life>>

-----------------------------------------------------------------------------
(* spawnRunner: the process and its first status. *)
Spawn(p) ==
    /\ Goto(p, "reserved", "claimBind")
    /\ kind[launch[p]] = "runner"
    /\ status' = [status EXCEPT ![launch[p]] = "running"]
    /\ runner' = [runner EXCEPT ![launch[p]] = "waiting"]
    /\ UNCHANGED <<slot, claim, launched, runs, proof, proceed, local>>

(* The launch fails before there is a process: handle.rollback(). *)
SpawnFails(p) ==
    /\ Goto(p, "reserved", "claimRollback")
    /\ UNCHANGED <<slot, claim, launched, runs, life, local>>

(* The process has started but its first status cannot be written. *)
StatusFails(p) ==
    /\ Goto(p, "reserved", "failed")
    /\ kind[launch[p]] = "runner"
    /\ runner' = [runner EXCEPT ![launch[p]] = "waiting"]
    /\ UNCHANGED <<slot, claim, launched, runs, status, proof, proceed, local>>

ClaimBind(p) == Claim(p, "claimBind", "bind")
BindBusy(p) == NotClaimed(p, "claimBind") /\ pc' = [pc EXCEPT ![p] = "failed"] /\ UNCHANGED local

(* markStarted: the instance id is recorded, in memory first. *)
Bind(p) ==
    /\ pc[p] = "bind"
    /\ IF Matches(p)
       THEN /\ Leave(p, [slot[at[p]] EXCEPT !.bound = TRUE])
            /\ expected' = [expected EXCEPT ![p].bound = TRUE]
            /\ pc' = [pc EXCEPT ![p] = "bound"]
       ELSE Leave(p, slot[at[p]]) /\ pc' = [pc EXCEPT ![p] = "failed"] /\ UNCHANGED expected
    /\ UNCHANGED <<launched, runs, life, at, launch, back>>

(* The durable write fails: only the handle knows of the runner. *)
BindFails(p) ==
    /\ Goto(p, "bind", "failed")
    /\ Matches(p)
    /\ Leave(p, slot[at[p]])
    /\ expected' = [expected EXCEPT ![p].bound = TRUE]
    /\ UNCHANGED <<launched, runs, life, at, launch, back>>

(* The runner is let go; the launch has succeeded. *)
Proceed(p) ==
    /\ pc[p] = "bound"
    /\ proceed' = proceed \cup {launch[p]}
    /\ Return(p)
    /\ UNCHANGED <<slot, claim, launched, runs, status, proof, runner>>

(* The handshake fails or times out, or the proceed file cannot be written. *)
HandshakeFails(p) ==
    /\ Goto(p, "bound", "failed")
    /\ UNCHANGED <<slot, claim, launched, runs, life, local>>

(* Mutant: the evidence is written into the state. *)
RecordFailureState(p) ==
    /\ Goto(p, "failed", "claimRestore")
    /\ status' = [status EXCEPT ![launch[p]] = "not-started"]
    /\ UNCHANGED <<slot, claim, launched, runs, proof, runner, proceed, local>>

(* persistPreProceedStartupFailure; the runner is then killed, if it can be.  *)
RecordFailure(p) ==
    /\ Goto(p, "failed", "claimRestore")
    /\ status' = [status EXCEPT ![launch[p]] = "failed"]
    /\ proof' = [proof EXCEPT ![launch[p]] = IF @ = "none" THEN "not-started" ELSE @]
    /\ UNCHANGED <<slot, claim, launched, runs, runner, proceed, local>>

(* That the failure cannot be recorded does not change what follows. *)
RecordFailureFails(p) ==
    /\ Goto(p, "failed", "claimRestore")
    /\ UNCHANGED <<slot, claim, launched, runs, life, local>>

(* rollbackBeforeRunnerProceed: the slot of this runner goes back, ... *)
ClaimRestore(p) == Claim(p, "claimRestore", "restore")
RestoreBusy(p) ==
    /\ NotClaimed(p, "claimRestore")
    /\ pc' = [pc EXCEPT ![p] = "claimRollback"]
    /\ UNCHANGED local

Restore(p) ==
    /\ pc[p] = "restore"
    /\ IF Matches(p) /\ (slot[at[p]].bound \/ expected[p].bound)
       THEN Leave(p, back[p]) /\ Return(p)
       ELSE /\ Leave(p, slot[at[p]])
            /\ pc' = [pc EXCEPT ![p] = "claimRollback"]
            /\ UNCHANGED local
    /\ UNCHANGED <<launched, runs, life>>

(* ... or else rollback: a slot that no runner was recorded for. *)
ClaimRollback(p) ==
    /\ Claim(p, "claimRollback", "rollback")
    /\ ~expected[p].bound

RollbackRefused(p) ==
    /\ pc[p] = "claimRollback"
    /\ expected[p].bound \/ slot[at[p]] = None \/ claim[at[p]] # None
    /\ Return(p)
    /\ UNCHANGED <<slot, claim, launched, runs, life>>

(* Mutant: the slot goes whoever owns it now. *)
RollbackAny(p) ==
    /\ pc[p] = "rollback"
    /\ Leave(p, back[p])
    /\ Return(p)
    /\ UNCHANGED <<launched, runs, life>>

Rollback(p) ==
    /\ pc[p] = "rollback"
    /\ Leave(p, IF Matches(p) /\ ~slot[at[p]].bound THEN back[p] ELSE slot[at[p]])
    /\ Return(p)
    /\ UNCHANGED <<launched, runs, life>>

-----------------------------------------------------------------------------
(* A workflow has its controller in the host: its start is recorded in the   *)
(* slot, where no claim can be in the way yet, then in its first status.     *)
(* That the slot cannot be written is only logged.                           *)
MarkWorkflowStarted(p) ==
    /\ pc[p] = "reserved" /\ kind[launch[p]] = "workflow"
    /\ claim[at[p]] = None /\ Matches(p)
    /\ \E written \in BOOLEAN : slot' = [slot EXCEPT ![at[p]].bound = written]
    /\ Return(p)
    /\ UNCHANGED <<claim, launched, runs, proof, proceed>>

StartWorkflow(p) ==
    /\ MarkWorkflowStarted(p)
    /\ status' = [status EXCEPT ![launch[p]] = "running"]
    /\ runner' = [runner EXCEPT ![launch[p]] = "working"]

(* That status cannot be written; a started slot is not rolled back.        *)
StartWorkflowFails(p) == MarkWorkflowStarted(p) /\ UNCHANGED <<status, runner>>

(* The slot cannot be claimed: the call throws before there is a status.     *)
MarkWorkflowFails(p) ==
    /\ Mishap
    /\ pc[p] = "reserved" /\ kind[launch[p]] = "workflow"
    /\ claim[at[p]] = None
    /\ claim' = [claim EXCEPT ![at[p]] = Stale]
    /\ Return(p)
    /\ UNCHANGED <<slot, launched, runs, life>>

-----------------------------------------------------------------------------
(* A process of the session dies: its claim stays, the workflows it hosts   *)
(* are gone, and a new process starts with nothing.                         *)
Crash(p) ==
    /\ Mishap
    /\ claim' = [s \in Slot |-> IF claim[s] = p THEN Stale ELSE claim[s]]
    /\ runner' = [r \in Run |->
           IF kind[r] = "workflow" /\ host[r] = p /\ runner[r] = "working" THEN "gone" ELSE runner[r]]
    /\ Return(p)
    /\ UNCHANGED <<slot, launched, runs, status, proof, proceed>>

(* The runner finds its proceed file and starts to work, ... *)
Work(r) ==
    /\ runner[r] = "waiting" /\ r \in proceed
    /\ runner' = [runner EXCEPT ![r] = "working"]
    /\ UNCHANGED <<slot, claim, launched, runs, status, proof, proceed, pc, local>>

(* ... waits in vain, or dies, or is killed. *)
Exit(r) ==
    /\ kind[r] = "runner"
    /\ runner[r] \in {"waiting", "working", "failing"}
    /\ runner' = [runner EXCEPT ![r] = "gone"]
    /\ UNCHANGED <<slot, claim, launched, runs, status, proof, proceed, pc, local>>

(* After its start was committed the execution module cannot be loaded: the  *)
(* runner reports that it did not start, and exits later, or if it cannot    *)
(* report it just exits.                                                     *)
StartupFailure(r) ==
    /\ runner[r] = "waiting" /\ r \in proceed /\ status[r] = "running"
    /\ runner' = [runner EXCEPT ![r] = "failing"]
    /\ status' = [status EXCEPT ![r] = "failed"]
    /\ proof' = [proof EXCEPT ![r] = "not-started"]
    /\ UNCHANGED <<slot, claim, launched, runs, proceed, pc, local>>

(* The run ends, or is paused. *)
Settle(r) ==
    /\ runner[r] = "working" /\ status[r] = "running"
    /\ \E to \in {"paused", "failed", "ended"} :
        /\ to = "paused" => kind[r] = "runner"
        /\ status' = [status EXCEPT ![r] = to]
    /\ UNCHANGED <<slot, claim, launched, runs, proof, runner, proceed, pc, local>>

(* The controller of a workflow is removed after its terminal status. *)
RemoveController(r) ==
    /\ kind[r] = "workflow" /\ runner[r] = "working" /\ Over(r)
    /\ runner' = [runner EXCEPT ![r] = "gone"]
    /\ UNCHANGED <<slot, claim, launched, runs, status, proof, proceed, pc, local>>

(* Stale-run reconciliation fails a run whose process is dead; a paused run  *)
(* can be stopped.                                                          *)
Repair(r) ==
    /\ runner[r] = "gone" /\ status[r] \in {"running", "paused"}
    /\ status' = [status EXCEPT ![r] = IF @ = "running" THEN "failed" ELSE "ended"]
    /\ UNCHANGED <<slot, claim, launched, runs, proof, runner, proceed, pc, local>>

(* Exit evidence: of the runner, or of the children of a workflow.          *)
Prove(r) ==
    /\ proof[r] = "none"
    /\ runner[r] = "gone" \/ (kind[r] = "workflow" /\ Over(r))
    /\ proof' = [proof EXCEPT ![r] = "observed"]
    /\ UNCHANGED <<slot, claim, launched, runs, status, runner, proceed, pc, local>>

-----------------------------------------------------------------------------
Reconcile(p) == Scan(p) \/ Admit(p) \/ ClaimRelease(p) \/ ReleaseBusy(p) \/ Release(p)
Reserve(p) ==
    \/ Create(p) \/ Own(p)
    \/ Seek(p) \/ ClaimTransfer(p) \/ TransferBusy(p) \/ Transfer(p)
Start(p) == Spawn(p) \/ ClaimBind(p) \/ BindBusy(p) \/ Bind(p) \/ Proceed(p) \/ StartWorkflow(p)
Fail(p) ==
    \/ OwnFails(p) \/ SpawnFails(p) \/ StatusFails(p) \/ BindFails(p) \/ HandshakeFails(p)
    \/ StartWorkflowFails(p)
GiveBack(p) ==
    \/ RecordFailure(p) \/ RecordFailureFails(p)
    \/ ClaimRestore(p) \/ RestoreBusy(p) \/ Restore(p)
    \/ ClaimRollback(p) \/ RollbackRefused(p) \/ Rollback(p)
Begin(p) == Refresh(p) \/ Launch(p) \/ Resume(p)
Live(r) ==
    \/ Work(r) \/ Exit(r) \/ StartupFailure(r) \/ Settle(r) \/ RemoveController(r)
    \/ Repair(r) \/ Prove(r)

Next ==
    \/ /\ \/ \E p \in Proc : Begin(p) \/ Reconcile(p) \/ Reserve(p) \/ Start(p) \/ Fail(p) \/ GiveBack(p)
          \/ \E r \in Run : Live(r)
       /\ UNCHANGED mishaps
    \/ \E p \in Proc : ClaimFails(p) \/ LeaveFails(p) \/ MarkWorkflowFails(p) \/ Crash(p)

Spec == Init /\ [][Next]_vars

(* A process goes on with a call it is in.  Nothing is assumed of when calls *)
(* begin: a refresh is a reaction to events of the session.                  *)
GoesOn(p) == Reconcile(p) \/ Reserve(p) \/ Start(p) \/ GiveBack(p)
FairSpec == Spec /\ \A p \in Proc : WF_vars(GoesOn(p) /\ UNCHANGED mishaps)
-----------------------------------------------------------------------------
Active(r) == runner[r] = "working" /\ status[r] = "running"

(* A run that is at work holds a slot, and a runner that is at work is        *)
(* recorded in it, whoever launches, resumes, reconciles or dies meanwhile,   *)
(* and whichever write fails.                                                 *)
ActiveHoldsSlot ==
    \A r \in Run : Active(r) =>
        \E s \in Slot : Holds(s, r) /\ (kind[r] = "runner" => slot[s].bound)

(* "Runner-backed slots release only after terminal logical state and        *)
(* matching observed process-terminal proof", apart from launches that were  *)
(* not let go and runners that could not start: a slot is not freed while    *)
(* its run goes on, or its runner may still work on it.                      *)
Unstarted(r) == r \notin proceed /\ (kind[r] = "runner" \/ status[r] = "none")
Finished(r) == Over(r) /\ (kind[r] = "runner" => runner[r] \in {"failing", "gone"})
ReleasedRunIsOver ==
    [][\A s \in Slot : slot[s] \in Owner /\ slot'[s] = None =>
        Finished(slot[s].run) \/ Unstarted(slot[s].run)]_vars

Charged == {r \in Run : \E s \in Slot : Holds(s, r)}
Pool == INSTANCE CapacityPool WITH charged <- Charged, active <- {r \in Run : Active(r)}

(* The slots implement a pool of Limit charges: a run is charged once, a     *)
(* charge moves with a resume, and no charge of a run at work is lost.       *)
ImplementsPool == Pool!Spec

(* As long as refreshes keep being asked for, a slot whose run is over, with  *)
(* evidence, is freed or taken over, unless a claim file was left in it.      *)
Releasable(s) ==
    /\ slot[s] \in Owner /\ claim[s] # Stale
    /\ Over(slot[s].run) /\ proof[slot[s].run] # "none"
    /\ IF kind[slot[s].run] = "runner" THEN slot[s].bound ELSE runner[slot[s].run] = "gone"
Refreshing == \E p \in Proc : pc[p] = "scan" /\ at[p] = 1
EventuallyFreed == []<>Refreshing => \A s \in Slot : Releasable(s) ~> ~Releasable(s)

(* "Queued, running, paused, and needs-attention runs retain capacity": a    *)
(* paused run holds a slot, or a resume of it does, or one was let go.       *)
PausedRetainsCapacity ==
    \A r \in Run : status[r] = "paused" =>
        \/ \E s \in Slot : Holds(s, r) \/ (slot[s] \in Owner /\ source[slot[s].run] = r)
        \/ \E q \in proceed : source[q] = r
=============================================================================
