------------------------ MODULE AsyncCapacity_proof -------------------------
(***************************************************************************)
(* Theorems about AsyncCapacity, for any number of processes, slots, runs, *)
(* deaths and storage failures.                                            *)
(***************************************************************************)
EXTENDS AsyncCapacity, FiniteSetTheorems, TLAPS

(* The parts of a launch: nothing is reserved yet, the slot is reserved, the *)
(* launch has failed.                                                        *)
Early == {"scan", "claimRelease", "release", "create", "own", "seek", "claimTransfer", "transfer"}
Mid == {"reserved", "claimBind", "bind", "bound"}
Failing == {"failed", "claimRestore", "restore", "claimRollback", "rollback"}

(* Every owner that a slot or a process knows. *)
Known == Owner \cap ({slot[s] : s \in Slot} \cup {expected[p] : p \in Proc} \cup {back[p] : p \in Proc})

(* A run whose launch has not reserved anything: there is no trace of it. *)
Fresh(r) == r > launched \/ \E p \in Proc : launch[p] = r /\ pc[p] \in Early
Ended(r) == runner[r] \in {"failing", "gone"}
Untouched(r) == status[r] = "none" /\ runner[r] = "none" /\ proof[r] = "none" /\ r \notin proceed
Unmentioned(r) == \A o \in Known : o.run # r /\ o.token # r

LaunchInv ==
    /\ \A p \in Proc : launch[p] <= launched
    /\ \A p, q \in Proc : launch[p] = launch[q] /\ launch[p] # 0 => p = q
    /\ \A r \in Run : source[r] < r
FreshTraces == \A r \in Run : Fresh(r) => Untouched(r)
FreshOwners == \A r \in Run : Fresh(r) => Unmentioned(r)

(* A run has one token for good, however often its charge is handed over and *)
(* back, and a token is in one slot.  Generations grow with the runs.       *)
RunToken == \A o1, o2 \in Known : o1.run = o2.run => o1.token = o2.token
Gens == \A o \in Known : o.gen < o.run
OwnerInv == FreshOwners /\ RunToken /\ Gens
TokenSlot == \A s, t \in Slot :
    slot[s] \in Owner /\ slot[t] \in Owner /\ slot[s].token = slot[t].token => s = t

(* What holds of each process. *)
Position(p) ==
    /\ pc[p] = "idle" => launch[p] = 0
    /\ pc[p] # "idle" => at[p] >= 1
    /\ pc[p] \notin {"idle", "scan", "create", "seek"} => at[p] \in Slot
    /\ pc[p] \notin {"idle", "scan", "claimRelease", "release"} => launch[p] \in Run
Handle(p) ==
    /\ pc[p] \in Mid \cup Failing =>
        /\ expected[p] \in Owner /\ expected[p].run = launch[p]
        /\ launch[p] \notin proceed
        /\ back[p] # None => back[p].token = expected[p].token /\ back[p].run # launch[p]
    /\ pc[p] \notin Mid \cup Failing => back[p] = None
Making(p) == pc[p] = "own" =>
    slot[at[p]] = NoOwner /\ \A q \in Proc \ {p} : pc[q] = "own" => at[q] # at[p]
Taking(p) == pc[p] \in {"claimTransfer", "transfer"} =>
    expected[p] \in Owner /\ expected[p].run = source[launch[p]]
Starting(p) ==
    /\ pc[p] = "reserved" => Untouched(launch[p])
    /\ pc[p] \in {"claimBind", "bind", "bound", "failed", "claimRestore", "restore"} => kind[launch[p]] = "runner"
    /\ pc[p] \in {"claimRollback", "rollback"} /\ kind[launch[p]] = "workflow" => Untouched(launch[p])
Releasing(p) == pc[p] \in {"claimRelease", "release"} =>
    /\ expected[p] \in Owner /\ Over(expected[p].run)
    /\ kind[expected[p].run] = "runner" => proof[expected[p].run] # "none" \/ Ended(expected[p].run)
ProcInv(p) == Position(p) /\ Handle(p) /\ Making(p) /\ Taking(p) /\ Starting(p) /\ Releasing(p)

(* What holds of each run.  One that goes on, and was or may be let go, has  *)
(* its slot; exit evidence of one that may still be let go means that it is  *)
(* gone, or about to go.                                                    *)
GoesOnward(r) ==
    /\ status[r] = "running" /\ runner[r] \in {"waiting", "working"}
    /\ kind[r] = "workflow" \/ r \in proceed \/ \E p \in Proc : launch[p] = r /\ pc[p] = "bound"
Charges(s, r) == Holds(s, r) /\ (kind[r] = "runner" => slot[s].bound)
Charge(r) == GoesOnward(r) => \E s \in Slot : Charges(s, r)
Proved(r) == kind[r] = "runner" /\ proof[r] # "none" =>
    Ended(r) \/ (r \notin proceed /\ \A p \in Proc : launch[p] = r => pc[p] \in Failing)
Worked(r) ==
    /\ kind[r] = "runner" /\ runner[r] = "working" => r \in proceed
    /\ kind[r] = "workflow" => runner[r] # "waiting"

IInv ==
    /\ TypeOK /\ LaunchInv /\ FreshTraces /\ OwnerInv /\ TokenSlot
    /\ \A p \in Proc : ProcInv(p)
    /\ \A r \in Run : Charge(r) /\ Proved(r) /\ Worked(r)

-----------------------------------------------------------------------------
(* A step of p, or of no process.  No process changes but p, whose launch    *)
(* does not begin in this step; a run without a trace gets none unless p has *)
(* reserved a slot for it.                                                  *)
Others(p) == \A q \in Proc \ {p} :
    pc'[q] = pc[q] /\ at'[q] = at[q] /\ launch'[q] = launch[q] /\ expected'[q] = expected[q] /\ back'[q] = back[q]
Moves(p) == p \in Proc =>
    /\ launch'[p] \in {launch[p], 0}
    /\ pc'[p] \in Early => launch'[p] = 0 \/ pc[p] \in Early
    /\ launch'[p] # 0 /\ pc[p] \in Failing => pc'[p] \in Failing
Same(r) ==
    /\ status'[r] = status[r] /\ proof'[r] = proof[r] /\ runner'[r] = runner[r]
    /\ r \in proceed' <=> r \in proceed
Reserved(p, r) == p \in Proc /\ pc[p] \in Mid \cup Failing /\ launch[p] = r
Lives(p) == \A r \in Run :
    /\ Over(r) => Over(r)'
    /\ Ended(r) => Ended(r)'
    /\ proof[r] # "none" => proof'[r] # "none"
    /\ \/ Same(r)
       \/ ~Untouched(r) /\ (r \in proceed' <=> r \in proceed)
       \/ Reserved(p, r)

(* What the steps below have in common. *)
Step(p) ==
    /\ Others(p) /\ Moves(p) /\ Lives(p)
    /\ launched' = launched /\ kind' = kind /\ source' = source

(* No owner appears with a run and a token that were not together before. *)
Shown(o) == \E k \in Known : o.run = k.run /\ o.token = k.token /\ o.gen = k.gen

(* A run is fresh only if it was. *)
LEMMA FreshBefore ==
    ASSUME IInv, NEW p, Step(p), NEW x \in Run, Fresh(x)'
    PROVE  Fresh(x)
<1>1. CASE x > launched'
  BY <1>1 DEF Fresh, Step
<1>2. CASE \E q \in Proc : launch'[q] = x /\ pc'[q] \in Early
  <2>1. PICK q \in Proc : launch'[q] = x /\ pc'[q] \in Early
    BY <1>2
  <2>2. x # 0
    BY DEF Run
  <2>3. launch[q] = x /\ pc[q] \in Early
    BY <2>1, <2>2 DEF Step, Others, Moves
  <2> QED  BY <2>3 DEF Fresh
<1> QED  BY <1>1, <1>2 DEF Fresh

(* A run that p has reserved a slot for is not fresh. *)
LEMMA ReservedNotFresh ==
    ASSUME IInv, NEW p, NEW x \in Run, Reserved(p, x)
    PROVE  ~Fresh(x)
<1>1. launch[p] = x /\ x # 0 /\ p \in Proc
  BY DEF Reserved, Run
<1>2. x \in Nat /\ launched \in Nat /\ launch[p] <= launched
  BY <1>1, CapacityConstants DEF IInv, LaunchInv, TypeOK, Run
<1>3. ASSUME NEW q \in Proc, launch[q] = x PROVE pc[q] \notin Early
  <2>1. q = p
    BY <1>1, <1>3 DEF IInv, LaunchInv
  <2> QED  BY <2>1 DEF Reserved, Early, Mid, Failing
<1> QED  BY <1>1, <1>2, <1>3 DEF Fresh

(* Fresh runs stay without a trace. *)
LEMMA TracesKept ==
    ASSUME IInv, NEW p, Step(p)
    PROVE  FreshTraces'
<1> SUFFICES ASSUME NEW x \in Run, Fresh(x)' PROVE Untouched(x)'
  BY DEF FreshTraces
<1>1. Fresh(x)
  BY FreshBefore
<1>2. Untouched(x)
  BY <1>1 DEF IInv, FreshTraces
<1>3. ~Reserved(p, x)
  BY <1>1, ReservedNotFresh
<1> QED  BY <1>2, <1>3 DEF Step, Lives, Untouched, Same

(* If the owners are only shown again, what is said of them holds. *)
LEMMA OwnersKept ==
    ASSUME IInv, NEW p, Step(p), \A o \in Known' : Shown(o)
    PROVE  OwnerInv'
<1>1. FreshOwners'
  <2> SUFFICES ASSUME NEW x \in Run, Fresh(x)' PROVE Unmentioned(x)'
    BY DEF FreshOwners
  <2>1. Unmentioned(x)
    BY FreshBefore DEF IInv, OwnerInv, FreshOwners
  <2> QED  BY <2>1 DEF Unmentioned, Shown
<1>2. RunToken'
  BY DEF IInv, OwnerInv, RunToken, Shown
<1>3. Gens'
  BY DEF IInv, OwnerInv, Gens, Shown
<1> QED  BY <1>1, <1>2, <1>3 DEF OwnerInv

(* A process that does not move keeps what is known of it. *)
LEMMA OthersKept ==
    ASSUME IInv, TypeOK', NEW p, Step(p), NEW q \in Proc, q # p,
           pc[q] = "own" => slot'[at[q]] = NoOwner /\ (p \in Proc /\ pc'[p] = "own" => at'[p] # at[q])
    PROVE  ProcInv(q)'
<1>1. ProcInv(q) /\ TypeOK
  BY DEF IInv
<1>2. /\ pc'[q] = pc[q] /\ at'[q] = at[q] /\ launch'[q] = launch[q] /\ expected'[q] = expected[q] /\ back'[q] = back[q]
      /\ kind' = kind /\ source' = source
  BY DEF Step, Others
<1>3. launch[q] \in Run => ~Reserved(p, launch[q])
  BY <1>1 DEF IInv, LaunchInv, Reserved, Run
<1>4. Position(q)' /\ Taking(q)'
  BY <1>1, <1>2 DEF ProcInv, Position, Taking
<1>5. Untouched(launch[q]) /\ launch[q] \in Run => Untouched(launch[q])'
  BY <1>2, <1>3 DEF Untouched, Step, Lives, Same
<1>6. launch[q] \in Run /\ launch[q] \notin proceed => launch[q] \notin proceed'
  BY <1>3 DEF Step, Lives, Same
<1>7. Handle(q)'
  BY <1>1, <1>2, <1>6 DEF ProcInv, Handle, Position, Mid, Failing
<1>8. Starting(q)'
  BY <1>1, <1>2, <1>5 DEF ProcInv, Starting, Position, Untouched
<1>9. Making(q)'
  BY <1>1, <1>2 DEF ProcInv, Making, Step, Others
<1>10. Releasing(q)'
  <2> SUFFICES ASSUME pc[q] \in {"claimRelease", "release"}
               PROVE  /\ Over(expected[q].run)'
                      /\ kind[expected[q].run] = "runner" => proof'[expected[q].run] # "none" \/ Ended(expected[q].run)'
    BY <1>1, <1>2 DEF ProcInv, Releasing, Over, Ended
  <2>1. expected[q].run \in Run
    BY <1>1 DEF ProcInv, Releasing, Owner
  <2> QED  BY <1>1, <1>2, <2>1 DEF ProcInv, Releasing, Step, Lives, Over, Ended
<1> QED  BY <1>4, <1>7, <1>8, <1>9, <1>10 DEF ProcInv

(* A run that the step leaves alone keeps its evidence. *)
LEMMA RunKept ==
    ASSUME IInv, NEW p, Step(p), NEW x \in Run, Same(x)
    PROVE  Proved(x)' /\ Worked(x)'
<1>1. Proved(x) /\ Worked(x) /\ x # 0
  BY DEF IInv, Run
<1>2. \A q \in Proc : launch'[q] = x => launch[q] = x /\ (pc[q] \in Failing => pc'[q] \in Failing)
  BY <1>1 DEF Step, Others, Moves
<1> QED  BY <1>1, <1>2 DEF Proved, Ended, Worked, Same, Step

(* Such a step keeps the invariant, if it keeps p's part, the owners, one    *)
(* slot for each token, the charges, and the evidence of the runs it changes.*)
LEMMA KeepStep ==
    ASSUME IInv, TypeOK', NEW p, Step(p), OwnerInv', TokenSlot',
           \A q \in Proc \ {p} : pc[q] = "own" => slot'[at[q]] = NoOwner,
           p \in Proc => ProcInv(p)',
           \A x \in Run : Charge(x)' /\ (Same(x) \/ (Proved(x)' /\ Worked(x)'))
    PROVE  IInv'
<1>1. LaunchInv'
  BY CapacityConstants, SMTT(30) DEF IInv, LaunchInv, Step, Others, Moves, TypeOK
<1>2. FreshTraces'
  BY TracesKept
<1>3. ASSUME NEW q \in Proc PROVE ProcInv(q)'
  <2>1. CASE q # p
    <3>1. p \in Proc /\ pc'[p] = "own" /\ pc[q] = "own" => at'[p] # at[q]
      BY <2>1 DEF ProcInv, Making, Step, Others
    <3> QED  BY <2>1, <3>1, OthersKept
  <2> QED  BY <2>1
<1>4. ASSUME NEW x \in Run PROVE Proved(x)' /\ Worked(x)'
  BY RunKept
<1> QED  BY <1>1, <1>2, <1>3, <1>4 DEF IInv

(* A run goes on only if it did, and keeps its slot: it is charged. *)
LEMMA ChargesKept ==
    ASSUME IInv, \A x \in Run : GoesOnward(x)' => GoesOnward(x),
           \A x \in Run : \A s \in Slot :
               GoesOnward(x)' /\ Charges(s, x) => Charges(s, x)'
    PROVE  \A x \in Run : Charge(x)'
<1> SUFFICES ASSUME NEW x \in Run, GoesOnward(x)' PROVE \E s \in Slot : Charges(s, x)'
  BY DEF Charge
<1>1. PICK s \in Slot : Charges(s, x)
  BY DEF IInv, Charge
<1> QED  BY <1>1

(* Only the launch of p and the life of the runs decide who goes on. *)
LEMMA OnwardKept ==
    ASSUME IInv, NEW p, Others(p), Moves(p), kind' = kind, proceed' = proceed, NEW x \in Run,
           p \in Proc /\ pc'[p] = "bound" => pc[p] = "bound",
           status'[x] = "running" => status[x] = "running",
           runner'[x] \in {"waiting", "working"} => runner[x] \in {"waiting", "working"},
           GoesOnward(x)'
    PROVE  GoesOnward(x)
<1>1. x # 0
  BY DEF Run
<1>2. \A q \in Proc : launch'[q] = x /\ pc'[q] = "bound" => launch[q] = x /\ pc[q] = "bound"
  BY <1>1 DEF Others, Moves
<1> QED  BY <1>2 DEF GoesOnward

(* A step of p alone, that touches neither the slots nor the runs. *)
Local(p) == Others(p) /\ Moves(p) /\ UNCHANGED <<slot, launched, runs, life>>

LEMMA LocalStep ==
    ASSUME IInv, TypeOK', NEW p \in Proc, Local(p),
           expected'[p] \in Owner => Shown(expected'[p]), back'[p] \in {back[p], None},
           pc'[p] = "bound" => pc[p] = "bound", ProcInv(p)'
    PROVE  IInv'
<1>1. /\ kind' = kind /\ source' = source /\ launched' = launched /\ slot' = slot
      /\ status' = status /\ proof' = proof /\ runner' = runner /\ proceed' = proceed
  BY DEF Local, runs, life
<1>2. Step(p)
  BY <1>1 DEF Step, Local, Lives, Same, Over, Ended
<1>3. ASSUME NEW o \in Known' PROVE Shown(o)
  <2>1. o \in Owner
    BY DEF Known
  <2>2. CASE \E s \in Slot : o = slot'[s]
    BY <1>1, <2>1, <2>2 DEF Known, Shown
  <2>3. CASE \E q \in Proc : o = expected'[q]
    BY <2>1, <2>3 DEF Known, Shown, Local, Others
  <2>4. CASE \E q \in Proc : o = back'[q]
    <3>1. PICK q \in Proc : o = back'[q]
      BY <2>4
    <3>2. back'[q] \in {back[q], None}
      BY <3>1 DEF Local, Others
    <3>3. o = back[q]
      BY <2>1, <3>1, <3>2, CapacityConstants
    <3> QED  BY <2>1, <3>3 DEF Known, Shown
  <2> QED  BY <2>2, <2>3, <2>4 DEF Known
<1>4. OwnerInv'
  BY <1>2, <1>3, OwnersKept
<1>5. \A x \in Run : Charge(x)'
  <2>1. \A x \in Run : GoesOnward(x)' => GoesOnward(x)
    BY <1>1, OnwardKept DEF Local
  <2> QED  BY <1>1, <2>1, ChargesKept DEF Charges, Holds
<1>6. TokenSlot' /\ \A q \in Proc \ {p} : pc[q] = "own" => slot'[at[q]] = NoOwner
  BY <1>1 DEF IInv, TokenSlot, ProcInv, Making
<1> QED  BY <1>1, <1>2, <1>4, <1>5, <1>6, KeepStep DEF Same

(* One slot changes, and its token does not, unless it is given up. *)
LEMMA TokenSlotKept ==
    ASSUME IInv, NEW s \in Slot, NEW o, slot' = [slot EXCEPT ![s] = o],
           o \in Owner => slot[s] \in Owner /\ o.token = slot[s].token
    PROVE  TokenSlot'
<1>1. \A t \in Slot : slot'[t] = IF t = s THEN o ELSE slot[t]
  BY DEF IInv, TypeOK
<1> QED  BY <1>1 DEF IInv, TokenSlot

(* A process that returns is idle, and nothing is asked of it. *)
LEMMA Returned ==
    ASSUME TypeOK, TypeOK', NEW p \in Proc, Return(p)
    PROVE  /\ ProcInv(p)' /\ Others(p) /\ Moves(p)
           /\ pc'[p] = "idle" /\ launch'[p] = 0 /\ expected'[p] = None /\ back'[p] = None
<1>1. pc'[p] = "idle" /\ launch'[p] = 0 /\ expected'[p] = None /\ back'[p] = None
  BY DEF Return, TypeOK
<1>2. Others(p)
  BY DEF Return, TypeOK, Others
<1> QED  BY <1>1, <1>2 DEF ProcInv, Position, Handle, Making, Taking, Starting, Releasing, Moves, Early, Mid, Failing

-----------------------------------------------------------------------------
(* Types *)

(* What a process has at hand is typed, once its position is known. *)
LEMMA AtHand ==
    ASSUME IInv, NEW p \in Proc
    PROVE  /\ at[p] \in 0..(Limit + 1) /\ launch[p] \in 0..MaxRuns
           /\ expected[p] \in Owner \cup {None} /\ back[p] \in Owner \cup {None}
           /\ pc[p] \notin {"idle", "scan", "create", "seek"} =>
                  at[p] \in Slot /\ slot[at[p]] \in Owner \cup {None, NoOwner}
           /\ pc[p] \notin {"idle", "scan", "claimRelease", "release"} => launch[p] \in Run
           /\ at[p] \in 0..(Limit + 1) /\ at[p] # Limit + 1 => at[p] + 1 \in 0..(Limit + 1)
           /\ at[p] \in Slot => at[p] + 1 \in 0..(Limit + 1)
           /\ 1 \in 0..(Limit + 1) /\ 0 \in 0..(Limit + 1) /\ 0 \in 0..MaxRuns
  BY CapacityConstants DEF IInv, TypeOK, ProcInv, Position, Slot

(* The variables of the processes. *)
LocalTypes ==
    /\ pc \in [Proc -> PCs]
    /\ at \in [Proc -> 0..(Limit + 1)]
    /\ launch \in [Proc -> 0..MaxRuns]
    /\ expected \in [Proc -> Owner \cup {None}]
    /\ back \in [Proc -> Owner \cup {None}]

LEMMA ReturnTypes ==
    ASSUME IInv, NEW p \in Proc, Return(p)
    PROVE  LocalTypes'
  BY AtHand DEF IInv, TypeOK, Return, LocalTypes, PCs

LEMMA GotoTypes ==
    ASSUME IInv, NEW p \in Proc, NEW from, NEW to \in PCs, Goto(p, from, to), UNCHANGED local
    PROVE  LocalTypes'
  BY DEF IInv, TypeOK, Goto, LocalTypes, local

(* The steps that change nothing but the process. *)
LEMMA ReconcileTypes ==
    ASSUME IInv, NEW p \in Proc, Refresh(p) \/ Scan(p) \/ Admit(p) \/ ReleaseBusy(p) \/ Seek(p)
    PROVE  LocalTypes'
<1> USE DEF IInv, TypeOK, LocalTypes, PCs
<1>1. CASE Refresh(p)
  BY <1>1, AtHand DEF Refresh, Goto
<1>2. CASE Scan(p)
  BY <1>2, AtHand DEF Scan
<1>3. CASE Admit(p)
  <2>1. CASE Return(p)
    BY <2>1, ReturnTypes
  <2> QED  BY <1>3, <2>1, AtHand DEF Admit
<1>4. CASE ReleaseBusy(p)
  BY <1>4, AtHand DEF ReleaseBusy, NotClaimed, NextSlot
<1>5. CASE Seek(p)
  <2>1. at[p] \in Slot => slot[at[p]] \in Owner \cup {None, NoOwner}
    OBVIOUS
  <2> QED  BY <1>5, <2>1, AtHand DEF Seek, Holds
<1> QED  BY <1>1, <1>2, <1>3, <1>4, <1>5

LEMMA HandleTypes ==
    ASSUME IInv, NEW p \in Proc,
           \/ ClaimRelease(p) \/ ClaimTransfer(p) \/ ClaimBind(p) \/ ClaimRestore(p) \/ ClaimRollback(p)
           \/ TransferBusy(p) \/ BindBusy(p) \/ RestoreBusy(p) \/ RollbackRefused(p)
           \/ OwnFails(p) \/ SpawnFails(p) \/ HandshakeFails(p) \/ RecordFailureFails(p)
           \/ Spawn(p) \/ StatusFails(p) \/ Proceed(p) \/ RecordFailure(p)
           \/ StartWorkflow(p) \/ StartWorkflowFails(p) \/ MarkWorkflowFails(p)
           \/ ClaimFails(p) \/ LeaveFails(p) \/ Crash(p)
    PROVE  LocalTypes'
<1>1. CASE Return(p)
  BY <1>1, ReturnTypes
<1>2. CASE pc' \in [Proc -> PCs] /\ UNCHANGED local
  BY <1>2 DEF IInv, TypeOK, LocalTypes, local
<1>3. Return(p) \/ (pc' \in [Proc -> PCs] /\ UNCHANGED local)
  BY DEF IInv, TypeOK, PCs, Goto, Claim, NotClaimed, ClaimRelease, ClaimTransfer, ClaimBind, ClaimRestore, ClaimRollback,
         TransferBusy, BindBusy, RestoreBusy, RollbackRefused, OwnFails, SpawnFails, HandshakeFails,
         RecordFailureFails, Spawn, StatusFails, Proceed, RecordFailure, StartWorkflow, StartWorkflowFails,
         MarkWorkflowStarted, MarkWorkflowFails, ClaimFails, LeaveFails, Crash
<1> QED  BY <1>1, <1>2, <1>3

(* The steps that change a slot. *)
LEMMA SlotTypes ==
    ASSUME IInv, NEW p \in Proc,
           \/ Release(p) \/ Create(p) \/ Own(p) \/ Transfer(p) \/ Bind(p) \/ BindFails(p) \/ Restore(p) \/ Rollback(p)
    PROVE  LocalTypes' /\ slot' \in [Slot -> Owner \cup {None, NoOwner}] /\ claim' \in [Slot -> Proc \cup {None, Stale}]
<1> DEFINE Slots == slot' \in [Slot -> Owner \cup {None, NoOwner}] /\ claim' \in [Slot -> Proc \cup {None, Stale}]
<1> USE DEF IInv, TypeOK
<1>1. CASE Release(p)
  <2>1. Slots
    BY <1>1, AtHand DEF Release, Leave
  <2>2. LocalTypes'
    BY <1>1, AtHand DEF Release, NextSlot, LocalTypes, PCs
  <2> QED  BY <2>1, <2>2
<1>2. CASE Create(p)
  <2>1. CASE Return(p)
    BY <1>2, <2>1, ReturnTypes DEF Create
  <2>2. CASE ~Return(p)
    <3>1. at[p] # Limit + 1 /\ claim' = claim
      BY <1>2, <2>2 DEF Create
    <3>2. LocalTypes'
      BY <1>2, <2>2, <3>1, AtHand DEF Create, LocalTypes, PCs
    <3>3. Slots
      BY <1>2, <2>2, <3>1 DEF Create
    <3> QED  BY <3>2, <3>3
  <2> QED  BY <2>1, <2>2
<1>3. CASE Own(p)
  <2>1. launch[p] \in Run /\ 0 \in 0..MaxRuns
    BY <1>3, AtHand DEF Own, Goto
  <2>2. [token |-> launch[p], run |-> launch[p], gen |-> 0, bound |-> FALSE] \in Owner
    BY <2>1 DEF Owner
  <2> QED  BY <1>3, <2>2 DEF Own, Goto, LocalTypes, PCs
<1>4. CASE Transfer(p)
  <2>1. CASE Matches(p) /\ Transferable(source[launch[p]])
    <3>1. PICK o : o = [slot[at[p]] EXCEPT !.run = launch[p], !.gen = @ + 1, !.bound = FALSE]
      OBVIOUS
    <3>2. slot[at[p]] \in Owner /\ at[p] \in Slot /\ launch[p] \in Run /\ expected[p] \in Owner
      BY <1>4, <2>1, AtHand DEF Transfer, Matches, ProcInv, Taking
    <3>3. slot[at[p]].run = source[launch[p]]
      BY <1>4, <2>1 DEF Transfer, Matches, ProcInv, Taking
    <3>4. slot[at[p]].gen < source[launch[p]] /\ source[launch[p]] < launch[p]
      <4>1. slot[at[p]] \in Known
        BY <3>2 DEF Known
      <4> QED  BY <3>2, <3>3, <4>1 DEF OwnerInv, Gens, LaunchInv
    <3>5. slot[at[p]].gen + 1 \in 0..MaxRuns
      BY <3>2, <3>4, CapacityConstants, SMTT(30) DEF Owner, Run
    <3>6. o \in Owner
      BY <3>1, <3>2, <3>5 DEF Owner
    <3> QED  BY <1>4, <2>1, <3>1, <3>2, <3>6 DEF Transfer, Leave, LocalTypes, PCs
  <2>2. CASE ~(Matches(p) /\ Transferable(source[launch[p]]))
    <3>1. Return(p) /\ Leave(p, slot[at[p]])
      BY <1>4, <2>2 DEF Transfer
    <3>2. at[p] \in Slot
      BY <1>4, AtHand DEF Transfer
    <3> QED  BY <3>1, <3>2, ReturnTypes DEF Leave
  <2> QED  BY <2>1, <2>2
<1>5. CASE Bind(p) \/ BindFails(p)
  <2>1. at[p] \in Slot /\ expected[p] \in Owner
    BY <1>5, AtHand DEF Bind, BindFails, Goto, ProcInv, Handle, Mid
  <2>2. [expected[p] EXCEPT !.bound = TRUE] \in Owner
    BY <2>1 DEF Owner
  <2>3. slot[at[p]] \in Owner => [slot[at[p]] EXCEPT !.bound = TRUE] \in Owner
    BY DEF Owner
  <2>4. Slots
    <3>1. CASE Leave(p, slot[at[p]])
      BY <2>1, <3>1 DEF Leave
    <3>2. CASE Matches(p) /\ Leave(p, [slot[at[p]] EXCEPT !.bound = TRUE])
      BY <2>1, <2>3, <3>2 DEF Leave, Matches
    <3> QED  BY <1>5, <3>1, <3>2 DEF Bind, BindFails
  <2>5. expected' = expected \/ expected' = [expected EXCEPT ![p] = [expected[p] EXCEPT !.bound = TRUE]]
    BY <1>5 DEF Bind, BindFails
  <2>6. LocalTypes'
    <3>1. expected' \in [Proc -> Owner \cup {None}]
      BY <2>2, <2>5 DEF TypeOK
    <3>2. pc' \in [Proc -> PCs]
      BY <1>5 DEF Bind, BindFails, Goto, PCs, TypeOK
    <3> QED  BY <1>5, <3>1, <3>2 DEF Bind, BindFails, LocalTypes, TypeOK
  <2> QED  BY <2>4, <2>6
<1>6. CASE Restore(p) \/ Rollback(p)
  <2>1. at[p] \in Slot /\ back[p] \in Owner \cup {None}
    BY <1>6, AtHand DEF Restore, Rollback
  <2>2. Slots
    BY <1>6, <2>1 DEF Restore, Rollback, Leave
  <2>3. LocalTypes'
    <3>1. CASE Return(p)
      BY <3>1, ReturnTypes
    <3>2. CASE pc' = [pc EXCEPT ![p] = "claimRollback"] /\ UNCHANGED local
      BY <3>2 DEF local, LocalTypes, PCs
    <3> QED  BY <1>6, <3>1, <3>2 DEF Restore, Rollback
  <2> QED  BY <2>2, <2>3
<1> QED  BY <1>1, <1>2, <1>3, <1>4, <1>5, <1>6

(* The variables of the runs. *)
RunTypes ==
    /\ kind \in [Run -> {"runner", "workflow"}]
    /\ source \in [Run -> 0..MaxRuns]
    /\ host \in [Run -> Proc \cup {None}]
    /\ status \in [Run -> {"none", "running", "paused", "failed", "ended"}]
    /\ proof \in [Run -> {"none", "not-started", "observed"}]
    /\ runner \in [Run -> {"none", "waiting", "working", "failing", "gone"}]
    /\ proceed \subseteq Run

LEMMA LaunchTypes ==
    ASSUME IInv, NEW p \in Proc, Launch(p) \/ Resume(p)
    PROVE  TypeOK' \/ mishaps' # mishaps
<1>1. PICK k, src : NewRun(p, k, src) /\ k \in {"runner", "workflow"} /\ src \in 0..MaxRuns
  <2>1. CASE Launch(p)
    BY <2>1, CapacityConstants DEF Launch
  <2>2. CASE Resume(p)
    BY <2>2, CapacityConstants DEF Resume, Run
  <2> QED  BY <2>1, <2>2
<1>2. launched + 1 \in Run /\ launched + 1 \in 0..MaxRuns
  BY <1>1, CapacityConstants DEF NewRun, IInv, TypeOK, Run
<1>3. pc' \in [Proc -> PCs]
  BY DEF Launch, Resume, Goto, IInv, TypeOK, PCs
<1>4. RunTypes'
  BY <1>1, <1>2 DEF NewRun, IInv, TypeOK, RunTypes, life
<1>5. launched' \in 0..MaxRuns /\ launch' \in [Proc -> 0..MaxRuns] /\ at' \in [Proc -> 0..(Limit + 1)]
  BY <1>1, <1>2, CapacityConstants DEF NewRun, IInv, TypeOK
<1>6. UNCHANGED <<slot, claim, expected, back>>
  BY <1>1 DEF NewRun
<1> QED  BY <1>3, <1>4, <1>5, <1>6 DEF IInv, TypeOK, RunTypes

LEMMA LifeTypes ==
    ASSUME IInv, NEW r \in Run, Live(r)
    PROVE  RunTypes' /\ UNCHANGED <<slot, claim, launched, pc, local>>
<1> USE DEF IInv, TypeOK, RunTypes, runs
<1>1. CASE Work(r) \/ Exit(r) \/ RemoveController(r)
  BY <1>1 DEF Work, Exit, RemoveController
<1>2. CASE StartupFailure(r) \/ Settle(r)
  BY <1>2 DEF StartupFailure, Settle
<1>3. CASE Repair(r) \/ Prove(r)
  BY <1>3 DEF Repair, Prove
<1> QED  BY <1>1, <1>2, <1>3 DEF Live

LEMMA StartTypes ==
    ASSUME IInv, NEW p \in Proc,
           Spawn(p) \/ StatusFails(p) \/ Proceed(p) \/ RecordFailure(p) \/ StartWorkflow(p) \/ StartWorkflowFails(p)
    PROVE  RunTypes' /\ UNCHANGED <<claim, launched>> /\ slot' \in [Slot -> Owner \cup {None, NoOwner}]
<1>1. launch[p] \in Run
  BY AtHand DEF Spawn, StatusFails, Proceed, RecordFailure, StartWorkflow, StartWorkflowFails, MarkWorkflowStarted, Goto
<1> USE DEF IInv, TypeOK, RunTypes, runs, life
<1>2. CASE Spawn(p) \/ StatusFails(p) \/ Proceed(p)
  BY <1>1, <1>2 DEF Spawn, StatusFails, Proceed
<1>3. CASE RecordFailure(p)
  BY <1>1, <1>3 DEF RecordFailure
<1>4. CASE StartWorkflow(p) \/ StartWorkflowFails(p)
  <2>1. MarkWorkflowStarted(p)
    BY <1>4 DEF StartWorkflow, StartWorkflowFails
  <2>2. slot[at[p]] \in Owner /\ at[p] \in Slot
    BY <2>1, AtHand DEF MarkWorkflowStarted, Matches
  <2>3. \A written \in BOOLEAN : [slot[at[p]] EXCEPT !.bound = written] \in Owner
    BY <2>2 DEF Owner
  <2>4. \E written \in BOOLEAN : slot' = [slot EXCEPT ![at[p]] = [slot[at[p]] EXCEPT !.bound = written]]
    BY <2>1 DEF MarkWorkflowStarted
  <2>5. slot' \in [Slot -> Owner \cup {None, NoOwner}] /\ UNCHANGED <<claim, launched>>
    BY <2>1, <2>2, <2>3, <2>4 DEF MarkWorkflowStarted
  <2>6. RunTypes'
    BY <1>1, <1>4, <2>1 DEF StartWorkflow, StartWorkflowFails, MarkWorkflowStarted
  <2> QED  BY <2>5, <2>6
<1> QED  BY <1>2, <1>3, <1>4

(* A process that finds its slot changed leaves it as it is. *)
LEMMA LeaveSame ==
    ASSUME IInv, NEW p \in Proc, Leave(p, slot[at[p]])
    PROVE  slot' = slot
  BY DEF Leave, IInv, TypeOK

(* Every step keeps the types. *)
LEMMA TypeKept ==
    ASSUME IInv, [Next]_vars
    PROVE  TypeOK'
<1> USE DEF IInv
<1>1. CASE UNCHANGED vars
  BY <1>1 DEF TypeOK, vars, runs, life, local
<1>2. ASSUME NEW p \in Proc, mishaps' = mishaps, Launch(p) \/ Resume(p) PROVE TypeOK'
  BY <1>2, LaunchTypes
<1>3. ASSUME NEW p \in Proc, mishaps' = mishaps,
             Refresh(p) \/ Scan(p) \/ Admit(p) \/ ReleaseBusy(p) \/ Seek(p)
      PROVE  TypeOK'
  <2>1. LocalTypes'
    BY <1>3, ReconcileTypes
  <2>2. UNCHANGED <<slot, claim, launched, runs, life>>
    BY <1>3 DEF Refresh, Scan, Admit, ReleaseBusy, NotClaimed, Seek
  <2> QED  BY <1>3, <2>1, <2>2 DEF TypeOK, LocalTypes, runs, life
<1>4. ASSUME NEW p \in Proc, mishaps' = mishaps,
             Release(p) \/ Create(p) \/ Own(p) \/ Transfer(p) \/ Bind(p) \/ BindFails(p) \/ Restore(p) \/ Rollback(p)
      PROVE  TypeOK'
  <2>1. UNCHANGED <<launched, runs, life>>
    BY <1>4 DEF Release, Create, Own, Transfer, Bind, BindFails, Restore, Rollback
  <2>2. /\ LocalTypes' /\ slot' \in [Slot -> Owner \cup {None, NoOwner}]
        /\ claim' \in [Slot -> Proc \cup {None, Stale}]
    BY <1>4, SlotTypes
  <2> QED  BY <1>4, <2>1, <2>2 DEF TypeOK, LocalTypes, runs, life
<1>5. ASSUME NEW p \in Proc, mishaps' = mishaps,
             \/ ClaimRelease(p) \/ ClaimTransfer(p) \/ ClaimBind(p) \/ ClaimRestore(p) \/ ClaimRollback(p)
             \/ TransferBusy(p) \/ BindBusy(p) \/ RestoreBusy(p) \/ RollbackRefused(p)
             \/ OwnFails(p) \/ SpawnFails(p) \/ HandshakeFails(p) \/ RecordFailureFails(p)
      PROVE  TypeOK'
  <2>1. LocalTypes'
    BY <1>5, HandleTypes
  <2>2. UNCHANGED <<slot, launched, runs, life>>
    BY <1>5 DEF Claim, NotClaimed, ClaimRelease, ClaimTransfer, ClaimBind, ClaimRestore, ClaimRollback,
         TransferBusy, BindBusy, RestoreBusy, RollbackRefused, OwnFails, SpawnFails, HandshakeFails,
         RecordFailureFails
  <2>3. claim' = claim \/ claim' = [claim EXCEPT ![at[p]] = p]
    BY <1>5 DEF Claim, NotClaimed, ClaimRelease, ClaimTransfer, ClaimBind, ClaimRestore, ClaimRollback,
         TransferBusy, BindBusy, RestoreBusy, RollbackRefused, OwnFails, SpawnFails, HandshakeFails,
         RecordFailureFails
  <2> QED  BY <1>5, <2>1, <2>2, <2>3 DEF TypeOK, LocalTypes, runs, life
<1>6. ASSUME NEW p \in Proc, mishaps' = mishaps,
             Spawn(p) \/ StatusFails(p) \/ Proceed(p) \/ RecordFailure(p) \/ StartWorkflow(p) \/ StartWorkflowFails(p)
      PROVE  TypeOK'
  <2>1. LocalTypes'
    BY <1>6, HandleTypes
  <2>2. RunTypes' /\ UNCHANGED <<claim, launched>> /\ slot' \in [Slot -> Owner \cup {None, NoOwner}]
    BY <1>6, StartTypes
  <2> QED  BY <1>6, <2>1, <2>2 DEF TypeOK, LocalTypes, RunTypes
<1>7. ASSUME NEW r \in Run, mishaps' = mishaps, Live(r) PROVE TypeOK'
  <2>1. RunTypes' /\ UNCHANGED <<slot, claim, launched, pc, local>>
    BY <1>7, LifeTypes
  <2> QED  BY <1>7, <2>1 DEF TypeOK, RunTypes, local
<1>8. ASSUME NEW p \in Proc, Crash(p) PROVE TypeOK'
  <2>1. LocalTypes'
    BY <1>8, HandleTypes
  <2>2. UNCHANGED <<slot, launched, runs, status, proof, proceed>>
    BY <1>8 DEF Crash
  <2>3. claim' \in [Slot -> Proc \cup {None, Stale}] /\ runner' \in [Run -> {"none", "waiting", "working", "failing", "gone"}]
    BY <1>8 DEF Crash, TypeOK
  <2>4. mishaps' \in 0..MaxMishaps
    BY <1>8, CapacityConstants DEF Crash, Mishap, TypeOK
  <2> QED  BY <2>1, <2>2, <2>3, <2>4 DEF TypeOK, LocalTypes, runs
<1>9. ASSUME NEW p \in Proc, ClaimFails(p) \/ LeaveFails(p) \/ MarkWorkflowFails(p) PROVE TypeOK'
  <2>1. LocalTypes'
    BY <1>9, HandleTypes
  <2>2. UNCHANGED <<slot, launched, runs, life>>
    BY <1>9, LeaveSame DEF ClaimFails, LeaveFails, MarkWorkflowFails
  <2>3. claim' \in [Slot -> Proc \cup {None, Stale}]
    BY <1>9 DEF ClaimFails, LeaveFails, MarkWorkflowFails, Leave, TypeOK
  <2>4. mishaps' \in 0..MaxMishaps
    BY <1>9, CapacityConstants DEF ClaimFails, LeaveFails, MarkWorkflowFails, Mishap, TypeOK
  <2> QED  BY <2>1, <2>2, <2>3, <2>4 DEF TypeOK, LocalTypes, runs, life
<1> QED  BY <1>1, <1>2, <1>3, <1>4, <1>5, <1>6, <1>7, <1>8, <1>9
         DEF Next, Begin, Reconcile, Reserve, Start, Fail, GiveBack

-----------------------------------------------------------------------------
(* Steps of a process that touch neither the slots nor the runs              *)

(* The claim files guard the steps, but the invariant does not mention them. *)
LEMMA ClaimSteps ==
    ASSUME IInv, TypeOK', NEW p \in Proc,
           ClaimRelease(p) \/ ClaimTransfer(p) \/ ClaimBind(p) \/ ClaimRestore(p) \/ ClaimRollback(p)
    PROVE  IInv'
<1>1. PICK from, to : /\ <<from, to>> \in {<<"claimRelease", "release">>, <<"claimTransfer", "transfer">>, <<"claimBind", "bind">>,
                                           <<"claimRestore", "restore">>, <<"claimRollback", "rollback">>}
                      /\ Claim(p, from, to)
  BY DEF ClaimRelease, ClaimTransfer, ClaimBind, ClaimRestore, ClaimRollback
<1>2. /\ pc[p] = from /\ pc' = [pc EXCEPT ![p] = to]
      /\ UNCHANGED <<slot, launched, runs, life>> /\ UNCHANGED <<at, launch, expected, back>>
  BY <1>1 DEF Claim, Goto, local
<1>3. pc'[p] = to /\ ProcInv(p) /\ TypeOK
  BY <1>2 DEF IInv, TypeOK
<1>4. Local(p)
  BY <1>1, <1>2, <1>3 DEF Local, Others, Moves, Early, Failing, TypeOK
<1>5. ProcInv(p)'
  <2>1. Position(p)' /\ Handle(p)' /\ Taking(p)'
    BY <1>1, <1>2, <1>3 DEF ProcInv, Position, Handle, Taking, Mid, Failing, runs, life
  <2>2. Making(p)' /\ Starting(p)' /\ Releasing(p)'
    BY <1>1, <1>2, <1>3 DEF ProcInv, Making, Starting, Untouched, Releasing, Over, Ended, runs, life
  <2> QED  BY <2>1, <2>2 DEF ProcInv
<1>6. expected'[p] \in Owner => Shown(expected'[p])
  BY <1>2 DEF Known, Shown
<1> QED  BY <1>1, <1>2, <1>3, <1>4, <1>5, <1>6, LocalStep

(* Calls that return without a slot. *)
LEMMA ReturnSteps ==
    ASSUME IInv, TypeOK', NEW p \in Proc,
           \/ TransferBusy(p) \/ OwnFails(p) \/ RollbackRefused(p) \/ (Admit(p) /\ Return(p))
           \/ (ClaimFails(p) /\ pc[p] # "claimBind") \/ LeaveFails(p) \/ MarkWorkflowFails(p)
    PROVE  IInv'
<1>1. Return(p) /\ UNCHANGED <<slot, launched, runs, life>>
  BY LeaveSame DEF TransferBusy, OwnFails, RollbackRefused, Admit, NotClaimed, ClaimFails, LeaveFails, MarkWorkflowFails
<1>2. ProcInv(p)' /\ Others(p) /\ Moves(p)
  BY <1>1, Returned DEF IInv
<1>3. pc'[p] = "idle" /\ expected'[p] = None /\ back'[p] = None
  BY <1>1 DEF Return, IInv, TypeOK
<1>4. expected'[p] \notin Owner
  BY <1>3, CapacityConstants
<1> QED  BY <1>1, <1>2, <1>3, <1>4, LocalStep DEF Local

(* The search for what can be released, and for a slot. *)
LEMMA SearchSteps ==
    ASSUME IInv, TypeOK', NEW p \in Proc,
           Refresh(p) \/ Scan(p) \/ (Admit(p) /\ ~Return(p)) \/ ReleaseBusy(p) \/ Seek(p)
    PROVE  IInv'
<1>1. ProcInv(p) /\ TypeOK
  BY DEF IInv
<1>2. UNCHANGED <<slot, launched, runs, life>> /\ launch'[p] = launch[p] /\ back'[p] = back[p]
  BY DEF Refresh, Scan, Admit, ReleaseBusy, NotClaimed, NextSlot, Seek
<1>3. Others(p)
  BY <1>1 DEF TypeOK, Others, Refresh, Goto, Scan, Admit, ReleaseBusy, NotClaimed, NextSlot, Seek
<1>4. pc[p] \in {"idle", "scan", "claimRelease", "seek"} /\ pc'[p] \in {"scan", "claimRelease", "create", "seek", "claimTransfer"}
  BY <1>1 DEF TypeOK, Refresh, Goto, Scan, Admit, ReleaseBusy, NotClaimed, NextSlot, Seek
<1>5. pc[p] = "idle" => launch[p] = 0
  BY <1>1 DEF ProcInv, Position
<1>6. Local(p)
  BY <1>2, <1>3, <1>4, <1>5 DEF Local, Moves, Early, Failing
<1>7. at'[p] >= 1
  BY <1>1, CapacityConstants, SMTT(30) DEF ProcInv, Position, TypeOK, Slot, Refresh, Goto, Scan, Admit, ReleaseBusy, NotClaimed, NextSlot, Seek
<1>8. back[p] = None
  BY <1>1, <1>4 DEF ProcInv, Handle, Mid, Failing
<1>9. /\ expected'[p] \in {expected[p], None, slot[at[p]]}
      /\ expected'[p] = slot[at[p]] /\ expected'[p] \in Owner => at[p] \in Slot \/ expected'[p] = expected[p]
  <2>1. CASE Scan(p)
    BY <1>1, <2>1 DEF TypeOK, Scan
  <2>2. CASE Seek(p)
    BY <1>1, <2>2, CapacityConstants DEF TypeOK, Seek, ProcInv, Position, Slot
  <2>3. CASE Refresh(p) \/ Admit(p) \/ ReleaseBusy(p)
    BY <1>1, <2>3, CapacityConstants DEF TypeOK, Refresh, Admit, ReleaseBusy, NotClaimed, NextSlot, Return
  <2> QED  BY <2>1, <2>2, <2>3
<1>10. expected'[p] \in Owner => Shown(expected'[p])
  BY <1>9, CapacityConstants DEF Known, Shown
<1>11. ProcInv(p)'
  <2>1. CASE pc'[p] \in {"scan", "create", "seek"}
    <3>1. pc'[p] = "create" => launch[p] # 0
      BY <1>1, <2>1 DEF TypeOK, Refresh, Goto, Scan, Admit, ReleaseBusy, NotClaimed, NextSlot, Seek
    <3>2. pc'[p] = "seek" => pc[p] = "seek"
      BY <1>1, <2>1 DEF TypeOK, Refresh, Goto, Scan, Admit, ReleaseBusy, NotClaimed, NextSlot, Seek
    <3>3. pc'[p] \in {"create", "seek"} => launch'[p] \in Run
      BY <1>1, <1>2, <3>1, <3>2, CapacityConstants DEF ProcInv, Position, TypeOK, Run
    <3> QED  BY <1>2, <1>7, <1>8, <2>1, <3>3
             DEF ProcInv, Position, Handle, Making, Taking, Starting, Releasing, Mid, Failing
  <2>2. CASE pc'[p] = "claimRelease"
    <3>1. Scan(p)
      BY <1>1, <2>2 DEF TypeOK, Refresh, Goto, Admit, ReleaseBusy, NotClaimed, NextSlot, Seek
    <3>2. /\ at[p] \in Slot /\ at'[p] = at[p] /\ expected'[p] = slot[at[p]]
          /\ slot[at[p]] \in Owner /\ Verdict(p, slot[at[p]])
      BY <1>1, <2>2, <3>1 DEF TypeOK, Scan
    <3>3. Releasing(p)'
      BY <1>2, <3>2 DEF Releasing, Verdict, Over, Ended, runs, life
    <3> QED  BY <1>2, <1>7, <1>8, <2>2, <3>2, <3>3
             DEF ProcInv, Position, Handle, Making, Taking, Starting, Mid, Failing
  <2>3. CASE pc'[p] = "claimTransfer"
    <3>1. Seek(p) /\ pc[p] = "seek" /\ launch[p] \in Run
      BY <1>1, <2>3 DEF TypeOK, Refresh, Goto, Scan, Admit, ReleaseBusy, NotClaimed, NextSlot, Seek, ProcInv, Position
    <3>2. /\ at[p] # Limit + 1 /\ at'[p] = at[p] /\ expected'[p] = slot[at[p]]
          /\ Holds(at[p], source[launch[p]])
      BY <1>1, <2>3, <3>1 DEF TypeOK, Seek
    <3>3. at[p] \in Slot
      BY <1>1, <3>1, <3>2, CapacityConstants DEF ProcInv, Position, TypeOK, Slot
    <3>4. Taking(p)'
      BY <1>2, <3>2 DEF Taking, Holds, runs
    <3> QED  BY <1>2, <1>7, <1>8, <2>3, <3>1, <3>2, <3>3, <3>4
             DEF ProcInv, Position, Handle, Making, Starting, Releasing, Mid, Failing
  <2> QED  BY <1>4, <2>1, <2>2, <2>3
<1> QED  BY <1>2, <1>4, <1>6, <1>10, <1>11, LocalStep

(* A launch that fails goes on to give its slot back. *)
LEMMA FailSteps ==
    ASSUME IInv, TypeOK', NEW p \in Proc,
           \/ SpawnFails(p) \/ BindBusy(p) \/ HandshakeFails(p) \/ RestoreBusy(p) \/ BindFails(p)
           \/ RecordFailureFails(p) \/ (ClaimFails(p) /\ pc[p] = "claimBind")
    PROVE  IInv'
<1>1. ProcInv(p) /\ TypeOK
  BY DEF IInv
<1>2. /\ launched' = launched /\ kind' = kind /\ source' = source
      /\ status' = status /\ proof' = proof /\ runner' = runner /\ proceed' = proceed
      /\ at'[p] = at[p] /\ launch'[p] = launch[p] /\ back'[p] = back[p]
  BY DEF SpawnFails, BindBusy, HandshakeFails, RestoreBusy, BindFails, RecordFailureFails, ClaimFails, NotClaimed, runs, life, local
<1>3. slot' = slot /\ UNCHANGED <<launched, runs, life>>
  BY <1>1 DEF SpawnFails, BindBusy, HandshakeFails, RestoreBusy, BindFails, RecordFailureFails, ClaimFails, NotClaimed, Leave, TypeOK
<1>4. Others(p)
  BY <1>1 DEF SpawnFails, BindBusy, HandshakeFails, RestoreBusy, BindFails, RecordFailureFails, ClaimFails, NotClaimed, Goto, Others, TypeOK, local
<1>5. <<pc[p], pc'[p]>> \in {<<"reserved", "claimRollback">>, <<"claimBind", "failed">>, <<"bound", "failed">>,
                             <<"claimRestore", "claimRollback">>, <<"bind", "failed">>, <<"failed", "claimRestore">>}
  BY <1>1 DEF SpawnFails, BindBusy, HandshakeFails, RestoreBusy, BindFails, RecordFailureFails, ClaimFails, NotClaimed, Goto, TypeOK
<1>6. Local(p)
  BY <1>2, <1>3, <1>4, <1>5 DEF Local, Moves, Early, Failing
<1>7. expected[p] \in Owner
  BY <1>1, <1>5 DEF ProcInv, Handle, Mid, Failing
<1>8. expected'[p] \in Owner /\ expected'[p].run = expected[p].run /\ expected'[p].token = expected[p].token
      /\ expected'[p].gen = expected[p].gen
  <2>1. CASE expected'[p] = expected[p]
    BY <1>7, <2>1
  <2>2. CASE expected'[p] = [expected[p] EXCEPT !.bound = TRUE]
    BY <1>7, <2>2 DEF Owner
  <2> QED  BY <1>1, <2>1, <2>2 DEF SpawnFails, BindBusy, HandshakeFails, RestoreBusy, BindFails, RecordFailureFails, ClaimFails, TypeOK, local
<1>9. Shown(expected'[p])
  BY <1>7, <1>8 DEF Shown, Known
<1>10. Position(p)' /\ Handle(p)'
  BY <1>1, <1>2, <1>5, <1>8 DEF ProcInv, Position, Handle, Mid, Failing
<1>11. Making(p)' /\ Taking(p)' /\ Starting(p)' /\ Releasing(p)'
  BY <1>1, <1>2, <1>5 DEF ProcInv, Making, Taking, Starting, Untouched, Releasing, Ended
<1> QED  BY <1>2, <1>5, <1>6, <1>9, <1>10, <1>11, LocalStep DEF ProcInv

-----------------------------------------------------------------------------
(* Steps of the runs *)

(* What a run does by itself. *)
LEMMA LifeStep ==
    ASSUME IInv, TypeOK', NEW r \in Run, Live(r)
    PROVE  IInv'
<1>1. TypeOK /\ Proved(r) /\ Worked(r) /\ None \notin Proc
  BY CapacityConstants DEF IInv
<1>2. /\ UNCHANGED <<slot, claim, launched, kind, source, proceed, pc, at, launch, expected, back>>
      /\ \A x \in Run \ {r} : status'[x] = status[x] /\ proof'[x] = proof[x] /\ runner'[x] = runner[x]
  BY <1>1 DEF Live, Work, Exit, StartupFailure, Settle, RemoveController, Repair, Prove, runs, local, TypeOK
<1>3. /\ ~Untouched(r) /\ (Over(r) => Over(r)') /\ (Ended(r) => Ended(r)')
      /\ (proof[r] # "none" => proof'[r] # "none")
      /\ (status'[r] = "running" => status[r] = "running")
      /\ (runner'[r] \in {"waiting", "working"} => runner[r] \in {"waiting", "working"})
  <2> USE <1>1 DEF Untouched, Over, Ended, TypeOK
  <2>1. CASE Work(r) \/ Exit(r)
    BY <2>1 DEF Work, Exit
  <2>2. CASE StartupFailure(r)
    BY <2>2 DEF StartupFailure
  <2>3. CASE Settle(r) \/ RemoveController(r)
    BY <2>3 DEF Settle, RemoveController
  <2>4. CASE Repair(r) \/ Prove(r)
    BY <2>4 DEF Repair, Prove
  <2> QED  BY <2>1, <2>2, <2>3, <2>4 DEF Live
<1>4. Others(None) /\ Moves(None)
  BY <1>1, <1>2 DEF Others, Moves
<1>5. Step(None)
  BY <1>2, <1>3, <1>4 DEF Step, Lives, Same, Over, Ended
<1>6. \A o \in Known' : Shown(o)
  BY <1>2 DEF Known, Shown
<1>7. \A x \in Run : Charge(x)'
  <2>1. ASSUME NEW x \in Run, GoesOnward(x)' PROVE GoesOnward(x)
    BY <1>1, <1>2, <1>3, <1>4, <2>1, OnwardKept
  <2> QED  BY <1>2, <2>1, ChargesKept DEF Charges, Holds
<1>8. Proved(r)' /\ Worked(r)'
  <2> USE <1>1, <1>2 DEF Proved, Ended, Worked, TypeOK
  <2>1. CASE Work(r)
    BY <2>1 DEF Work
  <2>2. CASE Exit(r) \/ StartupFailure(r) \/ RemoveController(r)
    BY <2>2 DEF Exit, StartupFailure, RemoveController
  <2>3. CASE Settle(r) \/ Repair(r)
    BY <2>3 DEF Settle, Repair
  <2>4. CASE Prove(r)
    BY <2>4 DEF Prove
  <2> QED  BY <2>1, <2>2, <2>3, <2>4 DEF Live
<1>9. TokenSlot' /\ \A q \in Proc : pc[q] = "own" => slot'[at[q]] = NoOwner
  BY <1>2 DEF IInv, TokenSlot, ProcInv, Making
<1>10. OwnerInv'
  BY <1>5, <1>6, OwnersKept
<1>11. \A x \in Run : x # r => Same(x)
  BY <1>2 DEF Same
<1> QED  BY <1>1, <1>5, <1>7, <1>8, <1>9, <1>10, <1>11, KeepStep

(* What a launch does to its run: it has a process, fails, or is let go. *)
LEMMA StartSteps ==
    ASSUME IInv, TypeOK', NEW p \in Proc, Spawn(p) \/ StatusFails(p) \/ RecordFailure(p) \/ Proceed(p)
    PROVE  IInv'
<1>1. ProcInv(p) /\ TypeOK
  BY DEF IInv
<1>2. pc[p] \in {"reserved", "failed", "bound"} /\ slot' = slot /\ launched' = launched /\ kind' = kind /\ source' = source
  BY DEF Spawn, StatusFails, RecordFailure, Proceed, Goto, runs
<1>3. PICK r \in Run : r = launch[p]
  BY <1>1, <1>2 DEF ProcInv, Position
<1>4. kind[r] = "runner" /\ r \notin proceed /\ Reserved(p, r) /\ Proved(r) /\ Worked(r)
  <2>1. pc[p] = "reserved" => kind[launch[p]] = "runner"
    BY DEF Spawn, StatusFails, RecordFailure, Proceed, Goto
  <2> QED  BY <1>1, <1>2, <1>3, <2>1 DEF ProcInv, Starting, Handle, Reserved, Mid, Failing, IInv
<1>5. \A q \in Proc : launch[q] = r => q = p
  BY <1>3 DEF IInv, LaunchInv, Run
<1>6. \A x \in Run \ {r} : Same(x)
  BY <1>1, <1>3 DEF Same, Spawn, StatusFails, RecordFailure, Proceed, TypeOK
<1>7. Others(p) /\ Moves(p) /\ ProcInv(p)' /\ expected'[p] \in {expected[p], None} /\ back'[p] \in {back[p], None}
  <2>1. CASE Proceed(p)
    <3>1. Return(p)
      BY <2>1 DEF Proceed
    <3> QED  BY <1>1, <3>1, Returned
  <2>2. CASE Spawn(p) \/ StatusFails(p) \/ RecordFailure(p)
    <3>1. UNCHANGED <<at, launch, expected, back, proceed>> /\ Others(p)
      BY <1>1, <2>2 DEF Spawn, StatusFails, RecordFailure, Goto, Others, TypeOK, local
    <3>2. <<pc[p], pc'[p]>> \in {<<"reserved", "claimBind">>, <<"reserved", "failed">>, <<"failed", "claimRestore">>}
      BY <1>1, <2>2 DEF Spawn, StatusFails, RecordFailure, Goto, TypeOK
    <3>3. Moves(p)
      BY <3>1, <3>2 DEF Moves, Early, Failing
    <3>4. Position(p)' /\ Handle(p)'
      BY <1>1, <3>1, <3>2 DEF ProcInv, Position, Handle, Mid, Failing
    <3>5. Making(p)' /\ Taking(p)' /\ Starting(p)' /\ Releasing(p)'
      BY <1>2, <1>3, <1>4, <3>1, <3>2 DEF Making, Taking, Starting, Releasing
    <3> QED  BY <3>1, <3>3, <3>4, <3>5 DEF ProcInv
  <2> QED  BY <2>1, <2>2
<1>8. (Over(r) => Over(r)') /\ (Ended(r) => Ended(r)') /\ (proof[r] # "none" => proof'[r] # "none")
  <2>1. CASE Spawn(p) \/ StatusFails(p)
    <3>1. Untouched(r)
      BY <1>1, <1>3, <2>1 DEF Spawn, StatusFails, Goto, ProcInv, Starting
    <3> QED  BY <3>1 DEF Untouched, Over, Ended
  <2>2. CASE RecordFailure(p) \/ Proceed(p)
    BY <1>1, <1>3, <2>2 DEF RecordFailure, Proceed, Over, Ended, TypeOK
  <2> QED  BY <2>1, <2>2
<1>9. Step(p)
  BY <1>2, <1>4, <1>6, <1>7, <1>8 DEF Step, Lives, Same, Over, Ended
<1>10. \A o \in Known' : Shown(o)
  <2> SUFFICES ASSUME NEW o \in Known' PROVE o \in Known
    BY DEF Shown
  <2>1. \A q \in Proc : expected'[q] \in {expected[q], None} /\ back'[q] \in {back[q], None}
    BY <1>7 DEF Others
  <2> QED  BY <1>2, <2>1, CapacityConstants DEF Known
<1>11. OwnerInv'
  BY <1>9, <1>10, OwnersKept
<1>12. TokenSlot' /\ \A q \in Proc \ {p} : pc[q] = "own" => slot'[at[q]] = NoOwner
  BY <1>2 DEF IInv, TokenSlot, ProcInv, Making
<1>13. \A x \in Run : GoesOnward(x)' => GoesOnward(x)
  <2>1. ASSUME NEW x \in Run \ {r}, GoesOnward(x)' PROVE GoesOnward(x)
    <3>1. x # 0
      BY DEF Run
    <3>2. \A q \in Proc : launch'[q] = x /\ pc'[q] = "bound" => launch[q] = x /\ pc[q] = "bound"
      BY <1>3, <1>7, <2>1, <3>1 DEF Others, Moves
    <3> QED  BY <1>2, <1>6, <2>1, <3>2 DEF GoesOnward, Same
  <2>2. CASE Proceed(p)
    <3>1. pc[p] = "bound" /\ status' = status /\ runner' = runner
      BY <2>2 DEF Proceed
    <3> QED  BY <1>2, <1>3, <2>1, <3>1 DEF GoesOnward
  <2>3. CASE Spawn(p) \/ StatusFails(p) \/ RecordFailure(p)
    <3>1. r \notin proceed' /\ launch' = launch /\ pc'[p] # "bound"
      BY <1>1, <1>4, <2>3 DEF Spawn, StatusFails, RecordFailure, Goto, local, TypeOK
    <3>2. ~GoesOnward(r)'
      BY <1>2, <1>4, <1>5, <3>1 DEF GoesOnward
    <3> QED  BY <2>1, <3>2
  <2> QED  BY <2>2, <2>3
<1>14. \A x \in Run : Charge(x)'
  BY <1>2, <1>13, ChargesKept DEF Charges, Holds
<1>15. Proved(r)' /\ Worked(r)'
  <2>1. CASE Spawn(p) \/ StatusFails(p)
    <3>1. Untouched(r) /\ proof' = proof /\ proceed' = proceed /\ runner'[r] = "waiting"
      BY <1>1, <1>3, <2>1 DEF Spawn, StatusFails, Goto, ProcInv, Starting, TypeOK
    <3> QED  BY <1>2, <1>4, <3>1 DEF Untouched, Proved, Ended, Worked
  <2>2. CASE RecordFailure(p)
    <3>1. pc'[p] \in Failing /\ launch' = launch /\ proceed' = proceed /\ runner' = runner
      BY <1>1, <2>2 DEF RecordFailure, Goto, local, Failing, TypeOK
    <3> QED  BY <1>2, <1>4, <1>5, <3>1 DEF Proved, Ended, Worked
  <2>3. CASE Proceed(p)
    <3>1. pc[p] = "bound" /\ proof' = proof /\ runner' = runner /\ proceed' = proceed \cup {r}
      BY <1>3, <2>3 DEF Proceed
    <3>2. proof[r] # "none" => Ended(r)
      BY <1>3, <1>4, <3>1 DEF Proved, Failing
    <3> QED  BY <1>2, <1>4, <3>1, <3>2 DEF Proved, Ended, Worked
  <2> QED  BY <2>1, <2>2, <2>3
<1> QED  BY <1>6, <1>7, <1>9, <1>11, <1>12, <1>14, <1>15, KeepStep

-----------------------------------------------------------------------------
(* Steps that change a slot *)

(* p changes its slot to o and nothing of the runs; o is not the slot of a   *)
(* run that goes on, unless that run had it.                                *)
LEMMA SlotStep ==
    ASSUME IInv, TypeOK', NEW p \in Proc, NEW s \in Slot, NEW o, slot' = [slot EXCEPT ![s] = o],
           Others(p), Moves(p), UNCHANGED <<launched, runs, life>>, OwnerInv', TokenSlot', ProcInv(p)',
           \A q \in Proc \ {p} : pc[q] = "own" /\ at[q] = s => o = NoOwner,
           \A x \in Run : GoesOnward(x)' => GoesOnward(x) \/ (Holds(s, x)' /\ o.bound),
           \A x \in Run : GoesOnward(x)' /\ Holds(s, x) => Holds(s, x)' /\ (slot[s].bound => o.bound)
    PROVE  IInv'
<1>1. /\ kind' = kind /\ source' = source /\ launched' = launched
      /\ status' = status /\ proof' = proof /\ runner' = runner /\ proceed' = proceed
  BY DEF runs, life
<1>2. Step(p)
  BY <1>1 DEF Step, Lives, Same, Over, Ended
<1>3. \A t \in Slot : slot'[t] = IF t = s THEN o ELSE slot[t]
  BY DEF IInv, TypeOK
<1>4. ASSUME NEW x \in Run PROVE Charge(x)'
  <2> SUFFICES ASSUME GoesOnward(x)' PROVE \E t \in Slot : Charges(t, x)'
    BY DEF Charge
  <2>1. CASE GoesOnward(x)
    <3>1. PICK t \in Slot : Charges(t, x)
      BY <2>1 DEF IInv, Charge
    <3>2. CASE t = s
      BY <1>1, <1>3, <3>1, <3>2 DEF Charges
    <3>3. CASE t # s
      BY <1>1, <1>3, <3>1, <3>3 DEF Charges, Holds
    <3> QED  BY <3>2, <3>3
  <2>2. CASE Holds(s, x)' /\ o.bound
    BY <1>3, <2>2 DEF Charges
  <2> QED  BY <2>1, <2>2
<1>5. \A q \in Proc \ {p} : pc[q] = "own" => slot'[at[q]] = NoOwner
  BY <1>3 DEF IInv, ProcInv, Making, Position
<1> QED  BY <1>1, <1>2, <1>4, <1>5, KeepStep DEF Same

(* The owners that are known after such a step. *)
LEMMA KnownAfter ==
    ASSUME IInv, NEW p \in Proc, NEW s \in Slot, NEW o, slot' = [slot EXCEPT ![s] = o], Others(p),
           NEW k \in Known'
    PROVE  k \in Known \/ k \in {o, expected'[p], back'[p]}
<1>1. \A t \in Slot : slot'[t] = IF t = s THEN o ELSE slot[t]
  BY DEF IInv, TypeOK
<1>2. k \in Owner
  BY DEF Known
<1>3. CASE \E t \in Slot : k = slot'[t]
  BY <1>1, <1>2, <1>3 DEF Known
<1>4. CASE \E q \in Proc : k = expected'[q] \/ k = back'[q]
  BY <1>2, <1>4 DEF Known, Others
<1> QED  BY <1>3, <1>4 DEF Known

(* Nobody but the launch of p is bound to, and goes on with, a run. *)
LEMMA OnwardBefore ==
    ASSUME IInv, NEW p \in Proc, Others(p), Moves(p), UNCHANGED <<launched, runs, life>>, NEW x \in Run, GoesOnward(x)'
    PROVE  GoesOnward(x) \/ (launch[p] = x /\ launch'[p] = x /\ pc'[p] = "bound" /\ kind[x] = "runner" /\ x \notin proceed)
<1>1. x # 0
  BY DEF Run
<1>2. \A q \in Proc : q # p /\ launch'[q] = x /\ pc'[q] = "bound" => launch[q] = x /\ pc[q] = "bound"
  BY DEF Others
<1>3. kind[x] \in {"runner", "workflow"}
  BY DEF IInv, TypeOK
<1> QED  BY <1>1, <1>2, <1>3 DEF GoesOnward, runs, life, Moves

(* mkdir of a slot that is free, and the owner's record. *)
LEMMA CreateStep ==
    ASSUME IInv, TypeOK', NEW p \in Proc, Create(p)
    PROVE  IInv'
<1>1. ProcInv(p) /\ TypeOK
  BY DEF IInv
<1>2. pc[p] = "create" /\ UNCHANGED <<launched, runs, life>> /\ at[p] \in 0..(Limit + 1) /\ at[p] >= 1 /\ launch[p] \in Run
  BY <1>1 DEF Create, TypeOK, ProcInv, Position
<1>3. CASE at[p] = Limit + 1
  <2>1. Return(p) /\ slot' = slot
    BY <1>3 DEF Create
  <2>2. ProcInv(p)' /\ Others(p) /\ Moves(p)
    BY <1>1, <2>1, Returned
  <2>3. pc'[p] = "idle" /\ expected'[p] = None /\ back'[p] = None
    BY <1>1, <2>1 DEF Return, TypeOK
  <2>4. expected'[p] \notin Owner
    BY <2>3, CapacityConstants
  <2> QED  BY <1>2, <2>1, <2>2, <2>3, <2>4, LocalStep DEF Local
<1>4. CASE at[p] # Limit + 1
  <2>1. at[p] \in Slot
    BY <1>2, <1>4, CapacityConstants DEF Slot
  <2>2. UNCHANGED <<launch, expected, back>> /\ Others(p) /\ pc'[p] \in {"create", "own"} /\ at'[p] >= 1
    BY <1>1, <1>2, <1>4, <2>1, CapacityConstants DEF Create, Others, TypeOK, Slot
  <2>3. Moves(p) /\ back[p] = None
    BY <1>1, <1>2, <2>2 DEF Moves, Early, Failing, ProcInv, Handle, Mid
  <2>4. CASE slot[at[p]] # None
    <3>1. slot' = slot /\ pc'[p] = "create"
      BY <1>1, <1>2, <1>4, <2>4 DEF Create
    <3>2. ProcInv(p)'
      BY <1>2, <2>2, <2>3, <3>1 DEF ProcInv, Position, Handle, Making, Taking, Starting, Releasing, Mid, Failing
    <3>3. expected'[p] \in Owner => Shown(expected'[p])
      BY <2>2 DEF Known, Shown
    <3> QED  BY <1>2, <2>2, <2>3, <3>1, <3>2, <3>3, LocalStep DEF Local
  <2>5. CASE slot[at[p]] = None
    <3>1. slot' = [slot EXCEPT ![at[p]] = NoOwner] /\ pc'[p] = "own" /\ at' = at
      BY <1>1, <1>4, <2>5 DEF Create, TypeOK
    <3>2. \A q \in Proc \ {p} : pc'[q] = "own" => at'[q] # at[p]
      BY <2>2, <2>5, CapacityConstants DEF IInv, ProcInv, Making, Others
    <3>3. slot'[at[p]] = NoOwner
      BY <1>1, <2>1, <3>1 DEF TypeOK
    <3>4. ProcInv(p)'
      BY <1>2, <2>1, <2>2, <2>3, <3>1, <3>2, <3>3
         DEF ProcInv, Position, Handle, Making, Taking, Starting, Releasing, Mid, Failing
    <3>5. TokenSlot'
      BY <2>1, <3>1, TokenSlotKept, CapacityConstants
    <3>6. Step(p)
      BY <1>2, <2>2, <2>3 DEF Step, Lives, Same, Over, Ended, runs, life
    <3>7. \A k \in Known' : Shown(k)
      <4> SUFFICES ASSUME NEW k \in Known' PROVE k \in Known
        BY DEF Shown
      <4>1. k \in Owner /\ k # NoOwner
        BY CapacityConstants DEF Known
      <4>2. k \in Known \/ k \in {expected'[p], back'[p]}
        BY <2>1, <2>2, <3>1, <4>1, KnownAfter
      <4> QED  BY <2>2, <4>1, <4>2 DEF Known
    <3>8. OwnerInv'
      BY <3>6, <3>7, OwnersKept
    <3>9. \A x \in Run : ~Holds(at[p], x)
      BY <2>5, CapacityConstants DEF Holds
    <3>10. \A x \in Run : GoesOnward(x)' => GoesOnward(x)
      BY <1>2, <2>2, <2>3, <3>1, OnwardBefore
    <3>11. PICK o : o = NoOwner
      OBVIOUS
    <3>12. \A x \in Run : GoesOnward(x)' => GoesOnward(x) /\ ~Holds(at[p], x)
      BY <3>9, <3>10
    <3>13. slot' = [slot EXCEPT ![at[p]] = o]
      BY <3>1, <3>11
    <3>14. \A q \in Proc \ {p} : pc[q] = "own" /\ at[q] = at[p] => o = NoOwner
      BY <3>11
    <3>15. UNCHANGED <<launched, runs, life>>
      BY <1>2
    <3> QED  BY <2>1, <2>2, <2>3, <3>4, <3>5, <3>8, <3>12, <3>13, <3>14, <3>15, SlotStep
  <2> QED  BY <2>4, <2>5
<1> QED  BY <1>3, <1>4

(* The run of a launch that has not reserved anything is nowhere. *)
LEMMA FreshLaunch ==
    ASSUME IInv, NEW p \in Proc, pc[p] \in Early, launch[p] \in Run
    PROVE  Untouched(launch[p]) /\ Unmentioned(launch[p])
  BY DEF IInv, FreshTraces, OwnerInv, FreshOwners, Fresh

(* Once it has, it is not fresh. *)
LEMMA NoLongerFresh ==
    ASSUME IInv, NEW p \in Proc, Step(p), launch[p] \in Run, pc'[p] = "reserved", NEW x \in Run, Fresh(x)'
    PROVE  x # launch[p]
<1> SUFFICES ASSUME x = launch[p] PROVE FALSE
  OBVIOUS
<1>1. launched \in Nat /\ x \in Nat /\ x # 0 /\ launch[p] <= launched
  BY CapacityConstants DEF IInv, TypeOK, Run, LaunchInv
<1>2. PICK q \in Proc : launch'[q] = x /\ pc'[q] \in Early
  BY <1>1 DEF Fresh, Step
<1>3. q # p
  BY <1>2 DEF Early
<1>4. launch[q] = x
  BY <1>2, <1>3 DEF Step, Others
<1> QED  BY <1>1, <1>3, <1>4 DEF IInv, LaunchInv

LEMMA OwnStep ==
    ASSUME IInv, TypeOK', NEW p \in Proc, Own(p)
    PROVE  IInv'
<1>1. ProcInv(p) /\ TypeOK
  BY DEF IInv
<1>2. PICK o : o = [token |-> launch[p], run |-> launch[p], gen |-> 0, bound |-> FALSE]
  OBVIOUS
<1>3. /\ pc[p] = "own" /\ pc'[p] = "reserved" /\ expected'[p] = o
      /\ slot' = [slot EXCEPT ![at[p]] = o] /\ UNCHANGED <<launched, runs, life, at, launch, back>>
  BY <1>1, <1>2 DEF Own, Goto, TypeOK
<1>4. at[p] \in Slot /\ launch[p] \in Run /\ slot[at[p]] = NoOwner /\ back[p] = None
  BY <1>1, <1>3 DEF ProcInv, Position, Making, Handle, Mid, Failing
<1>5. Untouched(launch[p]) /\ Unmentioned(launch[p])
  BY <1>3, <1>4, FreshLaunch DEF Early
<1>6. Others(p) /\ Moves(p)
  BY <1>1, <1>3 DEF Others, Moves, Early, Failing, Own, Goto, TypeOK
<1>7. Step(p)
  BY <1>3, <1>6 DEF Step, Lives, Same, Over, Ended, runs, life
<1>8. o \in Owner /\ o.token = launch[p] /\ o.run = launch[p] /\ o.gen = 0
  BY <1>1, <1>2, <1>4, CapacityConstants DEF Owner, TypeOK
<1>9. \A k \in Known' : k \in Known \/ k = o
  <2> SUFFICES ASSUME NEW k \in Known', k # o PROVE k \in Known
    OBVIOUS
  <2>1. k \in Owner
    BY DEF Known
  <2>2. k \in Known \/ k = back[p]
    BY <1>3, <1>4, <1>6, KnownAfter
  <2> QED  BY <2>1, <2>2 DEF Known
<1>10. OwnerInv'
  <2>1. FreshOwners'
    <3> SUFFICES ASSUME NEW x \in Run, Fresh(x)' PROVE Unmentioned(x)'
      BY DEF FreshOwners
    <3>1. Unmentioned(x) /\ x # launch[p]
      BY <1>3, <1>4, <1>7, FreshBefore, NoLongerFresh DEF IInv, OwnerInv, FreshOwners
    <3> QED  BY <1>8, <1>9, <3>1 DEF Unmentioned
  <2>2. RunToken'
    BY <1>5, <1>8, <1>9 DEF IInv, OwnerInv, RunToken, Unmentioned
  <2>3. Gens'
    BY <1>4, <1>8, <1>9, CapacityConstants DEF IInv, OwnerInv, Gens, Run
  <2> QED  BY <2>1, <2>2, <2>3 DEF OwnerInv
<1>11. TokenSlot'
  <2>1. \A t \in Slot : slot'[t] = IF t = at[p] THEN o ELSE slot[t]
    BY <1>1, <1>3 DEF TypeOK
  <2>2. \A t \in Slot : slot[t] \in Owner => slot[t].token # launch[p]
    BY <1>5 DEF Unmentioned, Known
  <2> QED  BY <1>4, <1>8, <2>1, <2>2 DEF IInv, TokenSlot
<1>12. ProcInv(p)'
  <2>1. Untouched(launch[p])'
    BY <1>3, <1>5 DEF Untouched, life
  <2>2. launch[p] \notin proceed'
    BY <1>3, <1>5 DEF Untouched, life
  <2>3. Position(p)' /\ Handle(p)'
    BY <1>1, <1>3, <1>4, <1>8, <2>2 DEF ProcInv, Position, Handle, Mid, Failing
  <2>4. Making(p)' /\ Taking(p)' /\ Starting(p)' /\ Releasing(p)'
    BY <1>3, <2>1 DEF Making, Taking, Starting, Untouched, Releasing
  <2> QED  BY <2>3, <2>4 DEF ProcInv
<1>13. \A q \in Proc \ {p} : ~(pc[q] = "own" /\ at[q] = at[p])
  BY <1>1, <1>3 DEF ProcInv, Making
<1>14. \A x \in Run : ~Holds(at[p], x) /\ (GoesOnward(x)' => GoesOnward(x))
  BY <1>3, <1>4, <1>6, OnwardBefore, CapacityConstants DEF Holds
<1> QED  BY <1>3, <1>4, <1>6, <1>10, <1>11, <1>12, <1>13, <1>14, SlotStep

(* The charge of the source is taken over. *)
LEMMA TransferStep ==
    ASSUME IInv, TypeOK', NEW p \in Proc, Transfer(p)
    PROVE  IInv'
<1>1. ProcInv(p) /\ TypeOK
  BY DEF IInv
<1>2. /\ pc[p] = "transfer" /\ UNCHANGED <<launched, runs, life>>
      /\ at[p] \in Slot /\ launch[p] \in Run /\ expected[p] \in Owner /\ expected[p].run = source[launch[p]]
  BY <1>1 DEF Transfer, ProcInv, Position, Taking
<1>3. CASE ~(Matches(p) /\ Transferable(source[launch[p]]))
  <2>1. Return(p) /\ Leave(p, slot[at[p]])
    BY <1>3 DEF Transfer
  <2>2. ProcInv(p)' /\ Others(p) /\ Moves(p) /\ slot' = slot
    BY <1>1, <2>1, Returned, LeaveSame
  <2>3. pc'[p] = "idle" /\ expected'[p] = None /\ back'[p] = None
    BY <1>1, <2>1 DEF Return, TypeOK
  <2> QED  BY <1>2, <2>2, <2>3, LocalStep, CapacityConstants DEF Local
<1>4. CASE Matches(p) /\ Transferable(source[launch[p]])
  <2>1. PICK o : o = [slot[at[p]] EXCEPT !.run = launch[p], !.gen = @ + 1, !.bound = FALSE]
    OBVIOUS
  <2>2. /\ slot' = [slot EXCEPT ![at[p]] = o] /\ expected'[p] = o /\ back'[p] = slot[at[p]] /\ pc'[p] = "reserved"
        /\ UNCHANGED <<at, launch>> /\ Others(p)
    BY <1>1, <1>2, <1>4, <2>1 DEF Transfer, Leave, TypeOK, Others
  <2>3. slot[at[p]] \in Owner /\ slot[at[p]].run = source[launch[p]] /\ slot[at[p]] \in Known
    BY <1>2, <1>4 DEF Matches, Known
  <2>4. /\ o.token = slot[at[p]].token /\ o.run = launch[p] /\ o.gen = slot[at[p]].gen + 1
    BY <2>1, <2>3 DEF Owner
  <2>6. slot[at[p]].gen < source[launch[p]] /\ source[launch[p]] < launch[p]
    BY <1>2, <2>3 DEF IInv, LaunchInv, OwnerInv, Gens
  <2>5. o \in Owner
    <3>1. slot[at[p]].gen + 1 \in 0..MaxRuns
      <4>1. slot[at[p]].gen \in 0..MaxRuns /\ slot[at[p]].run \in 1..MaxRuns
        BY <2>3 DEF Owner, Run
      <4>2. launch[p] \in 1..MaxRuns
        BY <1>2 DEF Run
      <4> QED  BY <2>3, <2>6, <4>1, <4>2, CapacityConstants
    <3> QED  BY <1>2, <2>1, <2>3, <3>1 DEF Owner
  <2>7. Untouched(launch[p]) /\ Unmentioned(launch[p])
    BY <1>2, FreshLaunch DEF Early
  <2>8. Moves(p)
    BY <1>2, <2>2 DEF Moves, Early, Failing
  <2>9. Step(p)
    BY <1>2, <2>2, <2>8 DEF Step, Lives, Same, Over, Ended, runs, life
  <2>10. \A k \in Known' : k \in Known \/ k = o
    <3> SUFFICES ASSUME NEW k \in Known', k # o PROVE k \in Known
      OBVIOUS
    <3>1. k \in Known \/ k \in {o, expected'[p], back'[p]}
      BY <1>2, <2>2, KnownAfter
    <3> QED  BY <2>2, <2>3, <3>1
  <2>11. OwnerInv'
    <3>1. FreshOwners'
      <4> SUFFICES ASSUME NEW x \in Run, Fresh(x)' PROVE Unmentioned(x)'
        BY DEF FreshOwners
      <4>1. Unmentioned(x) /\ x # launch[p]
        BY <1>2, <2>2, <2>9, FreshBefore, NoLongerFresh DEF IInv, OwnerInv, FreshOwners
      <4> QED  BY <2>3, <2>4, <2>10, <4>1 DEF Unmentioned
    <3>2. RunToken'
      BY <2>4, <2>7, <2>10 DEF IInv, OwnerInv, RunToken, Unmentioned
    <3>3. o.gen < o.run
      <4>1. slot[at[p]].gen \in Nat /\ source[launch[p]] \in Nat /\ launch[p] \in Nat
        BY <1>2, <2>3, CapacityConstants DEF Owner, Run
      <4> QED  BY <2>4, <2>6, <4>1
    <3>4. Gens'
      BY <2>10, <3>3 DEF IInv, OwnerInv, Gens
    <3> QED  BY <3>1, <3>2, <3>4 DEF OwnerInv
  <2>12. TokenSlot'
    BY <1>2, <2>2, <2>3, <2>4, TokenSlotKept
  <2>13. ProcInv(p)'
    <3>1. Untouched(launch[p])'
      BY <1>2, <2>2, <2>7 DEF Untouched, life
    <3>2. launch[p] \notin proceed' /\ source[launch[p]] # launch[p]
      BY <1>1, <1>2, <2>6, <2>7, CapacityConstants DEF Untouched, TypeOK, Run, life
    <3>3. Position(p)' /\ Handle(p)'
      BY <1>1, <1>2, <2>2, <2>3, <2>4, <2>5, <3>2 DEF ProcInv, Position, Handle, Mid, Failing
    <3>4. Making(p)' /\ Taking(p)' /\ Starting(p)' /\ Releasing(p)'
      BY <2>2, <3>1 DEF Making, Taking, Starting, Untouched, Releasing
    <3> QED  BY <3>3, <3>4 DEF ProcInv
  <2>14. \A q \in Proc \ {p} : ~(pc[q] = "own" /\ at[q] = at[p])
    BY <2>3, CapacityConstants DEF IInv, ProcInv, Making
  <2>15. ASSUME NEW x \in Run, GoesOnward(x)' PROVE GoesOnward(x) /\ ~Holds(at[p], x)
    <3>1. GoesOnward(x)
      BY <1>2, <2>2, <2>8, <2>15, OnwardBefore
    <3>2. status[source[launch[p]]] # "running"
      BY <1>4 DEF Transferable
    <3> QED  BY <2>3, <3>1, <3>2 DEF Holds, GoesOnward
  <2> QED  BY <1>2, <2>2, <2>8, <2>11, <2>12, <2>13, <2>14, <2>15, SlotStep
<1> QED  BY <1>3, <1>4

(* The slot of a run that is over goes. *)
LEMMA ReleaseStep ==
    ASSUME IInv, TypeOK', NEW p \in Proc, Release(p)
    PROVE  IInv'
<1>1. ProcInv(p) /\ TypeOK
  BY DEF IInv
<1>2. /\ pc[p] = "release" /\ pc'[p] = "scan" /\ at'[p] = at[p] + 1 /\ expected'[p] = None
      /\ UNCHANGED <<launched, runs, life, launch, back>> /\ Others(p)
  BY <1>1 DEF Release, NextSlot, Others, TypeOK
<1>3. at[p] \in Slot /\ at[p] >= 1 /\ back[p] = None /\ expected[p] \in Owner /\ Over(expected[p].run)
  BY <1>1, <1>2 DEF ProcInv, Position, Handle, Releasing, Mid, Failing
<1>4. Moves(p)
  BY <1>2 DEF Moves, Early, Failing
<1>5. ProcInv(p)'
  BY <1>2, <1>3, CapacityConstants
     DEF ProcInv, Position, Handle, Making, Taking, Starting, Releasing, Mid, Failing, Slot
<1>6. CASE ~Matches(p)
  <2>1. slot' = slot
    BY <1>6, LeaveSame DEF Release
  <2> QED  BY <1>2, <1>4, <1>5, <2>1, LocalStep, CapacityConstants DEF Local
<1>7. CASE Matches(p)
  <2>1. slot' = [slot EXCEPT ![at[p]] = None] /\ slot[at[p]] \in Owner /\ slot[at[p]].run = expected[p].run
    BY <1>7 DEF Release, Leave, Matches
  <2>2. TokenSlot'
    BY <1>3, <2>1, TokenSlotKept, CapacityConstants
  <2>3. Step(p)
    BY <1>2, <1>4 DEF Step, Lives, Same, Over, Ended, runs, life
  <2>4. \A k \in Known' : Shown(k)
    <3> SUFFICES ASSUME NEW k \in Known' PROVE k \in Known
      BY DEF Shown
    <3>1. k \in Owner /\ k # None
      BY CapacityConstants DEF Known
    <3>2. k \in Known \/ k = back[p]
      BY <1>2, <1>3, <2>1, <3>1, KnownAfter
    <3> QED  BY <3>1, <3>2 DEF Known
  <2>5. OwnerInv'
    BY <2>3, <2>4, OwnersKept
  <2>6. ASSUME NEW x \in Run, GoesOnward(x)' PROVE GoesOnward(x) /\ ~Holds(at[p], x)
    <3>1. GoesOnward(x)
      BY <1>2, <1>4, <2>6, OnwardBefore
    <3> QED  BY <1>3, <2>1, <3>1 DEF Holds, GoesOnward, Over
  <2>7. \A q \in Proc \ {p} : ~(pc[q] = "own" /\ at[q] = at[p])
    BY <2>1, CapacityConstants DEF IInv, ProcInv, Making
  <2> QED  BY <1>2, <1>3, <1>4, <1>5, <2>1, <2>2, <2>5, <2>6, <2>7, SlotStep
<1> QED  BY <1>6, <1>7

(* The runner is recorded. *)
LEMMA BindStep ==
    ASSUME IInv, TypeOK', NEW p \in Proc, Bind(p)
    PROVE  IInv'
<1>1. ProcInv(p) /\ TypeOK
  BY DEF IInv
<1>2. pc[p] = "bind" /\ UNCHANGED <<launched, runs, life, at, launch, back>>
  BY DEF Bind
<1>3. /\ at[p] \in Slot /\ launch[p] \in Run /\ expected[p] \in Owner /\ expected[p].run = launch[p]
      /\ launch[p] \notin proceed /\ kind[launch[p]] = "runner"
  BY <1>1, <1>2 DEF ProcInv, Position, Handle, Starting, Mid
<1>4. CASE ~Matches(p)
  <2>1. slot' = slot /\ pc' = [pc EXCEPT ![p] = "failed"] /\ expected' = expected
    BY <1>4, LeaveSame DEF Bind
  <2>2. pc'[p] = "failed" /\ Others(p)
    BY <1>1, <1>2, <2>1 DEF TypeOK, Others
  <2>3. Moves(p)
    BY <1>2, <2>2 DEF Moves, Early, Failing
  <2>4. ProcInv(p)'
    BY <1>1, <1>2, <1>3, <2>1, <2>2
       DEF ProcInv, Position, Handle, Making, Taking, Starting, Releasing, Mid, Failing, runs, life
  <2>5. Shown(expected'[p])
    BY <1>3, <2>1 DEF Known, Shown
  <2> QED  BY <1>2, <2>1, <2>2, <2>3, <2>4, <2>5, LocalStep DEF Local
<1>5. CASE Matches(p)
  <2>1. PICK o : o = [slot[at[p]] EXCEPT !.bound = TRUE]
    OBVIOUS
  <2>2. /\ slot' = [slot EXCEPT ![at[p]] = o] /\ pc'[p] = "bound" /\ Others(p)
        /\ expected' = [expected EXCEPT ![p].bound = TRUE]
    BY <1>1, <1>2, <1>5, <2>1 DEF Bind, Leave, TypeOK, Others
  <2>3. PICK e : e = [expected[p] EXCEPT !.bound = TRUE]
    OBVIOUS
  <2>4. expected'[p] = e /\ e.run = launch[p] /\ e.token = expected[p].token /\ e.gen = expected[p].gen /\ e \in Owner
    <3>1. expected'[p] = e
      BY <1>1, <2>2, <2>3 DEF TypeOK
    <3>2. e.run = expected[p].run /\ e.token = expected[p].token /\ e.gen = expected[p].gen /\ e \in Owner
      BY <1>3, <2>3 DEF Owner
    <3> QED  BY <1>3, <3>1, <3>2
  <2>5. slot[at[p]] \in Owner /\ slot[at[p]].run = launch[p]
    BY <1>3, <1>5 DEF Matches
  <2>6. o.run = launch[p] /\ o.token = slot[at[p]].token /\ o.gen = slot[at[p]].gen /\ o.bound /\ o \in Owner
    BY <2>1, <2>5 DEF Owner
  <2>7. Moves(p)
    BY <1>2, <2>2 DEF Moves, Early, Failing
  <2>8. Step(p)
    BY <1>2, <2>2, <2>7 DEF Step, Lives, Same, Over, Ended, runs, life
  <2>9. \A k \in Known' : Shown(k)
    <3> SUFFICES ASSUME NEW k \in Known' PROVE Shown(k)
      OBVIOUS
    <3>1. k \in Known \/ k = o \/ k = e \/ k = back[p]
      BY <1>2, <1>3, <2>2, <2>4, KnownAfter
    <3>2. slot[at[p]] \in Known /\ expected[p] \in Known
      BY <1>3, <2>5 DEF Known
    <3>3. k \in Owner
      BY DEF Known
    <3>4. k = back[p] => k \in Known
      BY <3>3 DEF Known
    <3>5. CASE k \in Known
      BY <3>5 DEF Shown
    <3>6. CASE k = o
      BY <2>5, <2>6, <3>2, <3>6 DEF Shown
    <3>7. CASE k = e
      BY <1>3, <2>4, <3>2, <3>7 DEF Shown
    <3> QED  BY <3>1, <3>4, <3>5, <3>6, <3>7
  <2>10. OwnerInv'
    BY <2>8, <2>9, OwnersKept
  <2>11. TokenSlot'
    BY <1>3, <2>2, <2>5, <2>6, TokenSlotKept
  <2>12. ProcInv(p)'
    <3>1. Position(p)' /\ Handle(p)'
      BY <1>1, <1>2, <1>3, <2>2, <2>4, CapacityConstants DEF ProcInv, Position, Handle, Mid, Failing, life
    <3>2. Making(p)' /\ Taking(p)' /\ Starting(p)' /\ Releasing(p)'
      BY <1>2, <1>3, <2>2 DEF Making, Taking, Starting, Releasing, runs
    <3> QED  BY <3>1, <3>2 DEF ProcInv
  <2>13. \A q \in Proc \ {p} : ~(pc[q] = "own" /\ at[q] = at[p])
    BY <2>5, CapacityConstants DEF IInv, ProcInv, Making
  <2>14. slot'[at[p]] = o
    BY <1>1, <1>3, <2>2 DEF TypeOK
  <2>15. \A x \in Run : GoesOnward(x)' => GoesOnward(x) \/ (Holds(at[p], x)' /\ o.bound)
    <3> SUFFICES ASSUME NEW x \in Run, GoesOnward(x)', ~GoesOnward(x) PROVE Holds(at[p], x)' /\ o.bound
      OBVIOUS
    <3>1. launch[p] = x
      BY <1>2, <2>2, <2>7, OnwardBefore
    <3> QED  BY <1>2, <2>6, <2>14, <3>1 DEF Holds
  <2>16. \A x \in Run : Holds(at[p], x) => Holds(at[p], x)' /\ o.bound
    BY <1>2, <2>5, <2>6, <2>14 DEF Holds
  <2> QED  BY <1>2, <1>3, <2>2, <2>7, <2>10, <2>11, <2>12, <2>13, <2>15, <2>16, SlotStep
<1> QED  BY <1>4, <1>5

(* A launch that was not let go gives its slot back. *)
LEMMA GiveBackStep ==
    ASSUME IInv, TypeOK', NEW p \in Proc, Restore(p) \/ Rollback(p)
    PROVE  IInv'
<1>1. ProcInv(p) /\ TypeOK
  BY DEF IInv
<1>2. pc[p] \in {"restore", "rollback"} /\ UNCHANGED <<launched, runs, life>>
  BY DEF Restore, Rollback
<1>3. /\ at[p] \in Slot /\ launch[p] \in Run /\ expected[p] \in Owner /\ expected[p].run = launch[p]
      /\ launch[p] \notin proceed /\ (back[p] # None => back[p].token = expected[p].token)
      /\ (pc[p] = "restore" => kind[launch[p]] = "runner") /\ (kind[launch[p]] = "workflow" => Untouched(launch[p]))
  BY <1>1, <1>2 DEF ProcInv, Position, Handle, Starting, Failing, Mid, TypeOK
<1>4. CASE Leave(p, slot[at[p]]) /\ Return(p)
  <2>1. slot' = slot /\ ProcInv(p)' /\ Others(p) /\ Moves(p)
    BY <1>1, <1>4, LeaveSame, Returned
  <2>2. pc'[p] = "idle" /\ expected'[p] = None /\ back'[p] = None
    BY <1>1, <1>4, Returned
  <2> QED  BY <1>2, <2>1, <2>2, LocalStep, CapacityConstants DEF Local
<1>5. CASE Leave(p, slot[at[p]]) /\ pc[p] = "restore" /\ pc' = [pc EXCEPT ![p] = "claimRollback"] /\ UNCHANGED local
  <2>1. slot' = slot /\ pc'[p] = "claimRollback" /\ Others(p) /\ UNCHANGED <<at, launch, expected, back>>
    BY <1>1, <1>5, LeaveSame DEF Others, TypeOK, local
  <2>2. Moves(p)
    BY <1>2, <2>1 DEF Moves, Early, Failing
  <2>3. ProcInv(p)'
    <3>1. Position(p)' /\ Handle(p)'
      BY <1>1, <1>2, <2>1 DEF ProcInv, Position, Handle, Mid, Failing, life
    <3>2. Making(p)' /\ Taking(p)' /\ Starting(p)' /\ Releasing(p)'
      BY <1>2, <1>3, <1>5, <2>1 DEF Making, Taking, Starting, Releasing, runs
    <3> QED  BY <3>1, <3>2 DEF ProcInv
  <2>4. Shown(expected'[p])
    BY <1>3, <2>1 DEF Known, Shown
  <2> QED  BY <1>2, <2>1, <2>2, <2>3, <2>4, LocalStep DEF Local
<1>6. CASE Matches(p) /\ Leave(p, back[p]) /\ Return(p)
  <2>1. PICK o : o = back[p]
    OBVIOUS
  <2>2. slot' = [slot EXCEPT ![at[p]] = o] /\ slot[at[p]] \in Owner /\ slot[at[p]].run = launch[p]
        /\ slot[at[p]].token = expected[p].token
    BY <1>3, <1>6, <2>1 DEF Leave, Matches
  <2>3. ProcInv(p)' /\ Others(p) /\ Moves(p) /\ pc'[p] = "idle" /\ expected'[p] = None /\ back'[p] = None
    BY <1>1, <1>6, Returned
  <2>4. TokenSlot'
    BY <1>3, <2>1, <2>2, TokenSlotKept, CapacityConstants
  <2>5. Step(p)
    BY <1>2, <2>3 DEF Step, Lives, Same, Over, Ended, runs, life
  <2>6. \A k \in Known' : Shown(k)
    <3> SUFFICES ASSUME NEW k \in Known' PROVE k \in Known
      BY DEF Shown
    <3>1. k \in Owner /\ k # None
      BY CapacityConstants DEF Known
    <3>2. k \in Known \/ k = back[p]
      BY <1>3, <2>1, <2>2, <2>3, <3>1, KnownAfter
    <3> QED  BY <3>1, <3>2 DEF Known
  <2>7. OwnerInv'
    BY <2>5, <2>6, OwnersKept
  <2>8. ASSUME NEW x \in Run, GoesOnward(x)' PROVE GoesOnward(x) /\ ~Holds(at[p], x)
    <3>1. GoesOnward(x)
      BY <1>2, <2>3, <2>8, OnwardBefore
    <3>2. \A q \in Proc : launch[q] = launch[p] => q = p
      BY <1>3 DEF IInv, LaunchInv, Run
    <3>3. ~GoesOnward(launch[p])
      BY <1>1, <1>2, <1>3, <3>2 DEF GoesOnward, Untouched, TypeOK
    <3> QED  BY <2>2, <3>1, <3>3 DEF Holds
  <2>9. \A q \in Proc \ {p} : ~(pc[q] = "own" /\ at[q] = at[p])
    BY <2>2, CapacityConstants DEF IInv, ProcInv, Making
  <2> QED  BY <1>2, <1>3, <2>2, <2>3, <2>4, <2>7, <2>8, <2>9, SlotStep
<1> QED  BY <1>4, <1>5, <1>6 DEF Restore, Rollback

(* A workflow records its start in its slot; its status may fail. *)
LEMMA WorkflowStep ==
    ASSUME IInv, TypeOK', NEW p \in Proc, StartWorkflow(p) \/ StartWorkflowFails(p)
    PROVE  IInv'
<1>1. ProcInv(p) /\ TypeOK /\ MarkWorkflowStarted(p)
  BY DEF IInv, StartWorkflow, StartWorkflowFails
<1>2. /\ pc[p] = "reserved" /\ Matches(p) /\ Return(p) /\ launched' = launched /\ kind' = kind /\ source' = source
      /\ proof' = proof /\ proceed' = proceed /\ kind[launch[p]] = "workflow"
  BY <1>1 DEF MarkWorkflowStarted, runs
<1>3. PICK r \in Run : r = launch[p]
  BY <1>1, <1>2 DEF ProcInv, Position
<1>4. at[p] \in Slot /\ slot[at[p]] \in Owner /\ slot[at[p]].run = r /\ Untouched(r) /\ Reserved(p, r)
  BY <1>1, <1>2, <1>3 DEF ProcInv, Position, Handle, Matches, Starting, Reserved, Mid
<1>5. PICK written \in BOOLEAN : slot' = [slot EXCEPT ![at[p]] = [slot[at[p]] EXCEPT !.bound = written]]
  BY <1>1 DEF MarkWorkflowStarted
<1>18. PICK o : o = [slot[at[p]] EXCEPT !.bound = written]
  OBVIOUS
<1>6. /\ slot' = [slot EXCEPT ![at[p]] = o] /\ slot'[at[p]] = o
      /\ o \in Owner /\ o.run = r /\ o.token = slot[at[p]].token /\ o.gen = slot[at[p]].gen
  <2>1. slot' = [slot EXCEPT ![at[p]] = o]
    BY <1>5, <1>18
  <2>2. slot'[at[p]] = o
    BY <1>1, <1>4, <2>1 DEF TypeOK
  <2>3. o \in Owner /\ o.run = r /\ o.token = slot[at[p]].token /\ o.gen = slot[at[p]].gen
    BY <1>4, <1>18 DEF Owner
  <2> QED  BY <2>1, <2>2, <2>3
<1>7. ProcInv(p)' /\ Others(p) /\ Moves(p) /\ expected'[p] = None /\ back'[p] = None /\ pc'[p] = "idle"
  BY <1>1, <1>2, Returned
<1>8. \A x \in Run \ {r} : Same(x)
  BY <1>1, <1>2, <1>3 DEF Same, StartWorkflow, StartWorkflowFails, TypeOK
<1>9. runner'[r] # "waiting"
  BY <1>1, <1>3, <1>4 DEF StartWorkflow, StartWorkflowFails, TypeOK, Untouched
<1>10. Step(p)
  BY <1>2, <1>4, <1>7, <1>8 DEF Step, Lives, Same, Over, Ended, Untouched
<1>11. \A k \in Known' : Shown(k)
  <2> SUFFICES ASSUME NEW k \in Known' PROVE Shown(k)
    OBVIOUS
  <2>1. k \in Owner /\ k # None
    BY CapacityConstants DEF Known
  <2>2. k \in Known \/ k = o
    <3>1. k \in Known \/ k \in {o, expected'[p], back'[p]}
      BY <1>4, <1>6, <1>7, KnownAfter
    <3> QED  BY <1>7, <2>1, <3>1
  <2>3. slot[at[p]] \in Known
    BY <1>4 DEF Known
  <2> QED  BY <1>4, <1>6, <2>2, <2>3 DEF Shown
<1>12. OwnerInv'
  BY <1>10, <1>11, OwnersKept
<1>13. TokenSlot'
  BY <1>4, <1>6, TokenSlotKept
<1>14. \A t \in Slot : slot'[t] = IF t = at[p] THEN o ELSE slot[t]
  BY <1>1, <1>6 DEF TypeOK
<1>15. \A q \in Proc \ {p} : pc[q] = "own" => slot'[at[q]] = NoOwner
  BY <1>4, <1>14, CapacityConstants DEF IInv, ProcInv, Making, Position
<1>16. ASSUME NEW x \in Run PROVE Charge(x)'
  <2>1. CASE x = r
    BY <1>2, <1>3, <1>4, <1>6, <2>1 DEF Charge, Charges, Holds
  <2>2. CASE x # r
    <3> SUFFICES ASSUME GoesOnward(x)' PROVE \E t \in Slot : Charges(t, x)'
      BY DEF Charge
    <3>1. x # 0 /\ Same(x)
      BY <1>8, <2>2 DEF Run
    <3>2. \A q \in Proc : launch'[q] = x /\ pc'[q] = "bound" => launch[q] = x /\ pc[q] = "bound"
      BY <1>7 DEF Others
    <3>3. GoesOnward(x)
      BY <1>2, <3>1, <3>2 DEF GoesOnward, Same
    <3>4. PICK t \in Slot : Charges(t, x)
      BY <3>3 DEF IInv, Charge
    <3>5. t # at[p]
      BY <1>4, <2>2, <3>4 DEF Charges, Holds
    <3> QED  BY <1>2, <1>14, <3>4, <3>5 DEF Charges, Holds
  <2> QED  BY <2>1, <2>2
<1>17. Proved(r)' /\ Worked(r)'
  BY <1>2, <1>3, <1>9 DEF Proved, Ended, Worked
<1> QED  BY <1>7, <1>8, <1>10, <1>12, <1>13, <1>15, <1>16, <1>17, KeepStep

-----------------------------------------------------------------------------
(* New runs, and deaths *)

(* Every owner is of a run that was launched. *)
LEMMA KnownLaunched ==
    ASSUME IInv, NEW k \in Known
    PROVE  k.run \in Run /\ k.token \in Run /\ k.run <= launched /\ k.token <= launched
<1>1. k.run \in Run /\ k.token \in Run
  BY DEF Known, Owner
<1>2. ~Fresh(k.run) /\ ~Fresh(k.token)
  BY <1>1 DEF IInv, OwnerInv, FreshOwners, Unmentioned
<1>3. k.run \in Nat /\ k.token \in Nat /\ launched \in Nat
  BY <1>1, CapacityConstants DEF Run, IInv, TypeOK
<1> QED  BY <1>1, <1>2, <1>3 DEF Fresh

(* A launch or a resume begins a new run. *)
LEMMA NewRunStep ==
    ASSUME IInv, TypeOK', NEW p \in Proc, Launch(p) \/ Resume(p)
    PROVE  IInv'
<1>1. PICK k, src : NewRun(p, k, src) /\ (src = 0 \/ (src \in Run /\ ~Untouched(src)))
  BY DEF Launch, Resume, Untouched, Over
<1>2. PICK n \in Run : n = launched + 1
  BY <1>1, CapacityConstants DEF NewRun, IInv, TypeOK, Run
<1>3. ProcInv(p) /\ TypeOK /\ launched \in Nat /\ n \in Nat /\ n > launched /\ n # 0
  BY <1>2, CapacityConstants DEF IInv, TypeOK, Run
<1>4. /\ pc[p] = "idle" /\ pc'[p] \in {"scan", "seek"} /\ launched' = n /\ launch'[p] = n /\ at'[p] = 1
      /\ slot' = slot /\ expected' = expected /\ back' = back /\ UNCHANGED life /\ Others(p)
  BY <1>1, <1>2, <1>3 DEF NewRun, Launch, Resume, Goto, TypeOK, Others
<1>5. /\ \A x \in Run \ {n} : kind'[x] = kind[x] /\ source'[x] = source[x]
      /\ source'[n] = src
  BY <1>1, <1>2, <1>3 DEF NewRun, TypeOK
<1>6. status' = status /\ proof' = proof /\ runner' = runner /\ proceed' = proceed
  BY <1>4 DEF life
<1>7. Known' = Known
  BY <1>4 DEF Known
<1>8. Fresh(n) /\ Untouched(n) /\ Unmentioned(n)
  BY <1>3 DEF Fresh, IInv, FreshTraces, OwnerInv, FreshOwners
<1>9. ASSUME NEW x \in Run, Fresh(x)' PROVE Fresh(x)
  <2>1. x \in Nat
    BY DEF Run
  <2>2. CASE x > n
    BY <1>3, <2>1, <2>2 DEF Fresh
  <2>3. CASE \E q \in Proc : launch'[q] = x /\ pc'[q] \in Early
    BY <1>4, <1>8, <2>3 DEF Fresh, Others
  <2> QED  BY <1>4, <1>9, <2>2, <2>3 DEF Fresh
<1>10. FreshTraces' /\ OwnerInv'
  <2>1. FreshTraces'
    BY <1>6, <1>9 DEF IInv, FreshTraces, Untouched
  <2>2. FreshOwners'
    BY <1>7, <1>9 DEF IInv, OwnerInv, FreshOwners, Unmentioned
  <2>3. RunToken' /\ Gens'
    BY <1>7 DEF IInv, OwnerInv, RunToken, Gens
  <2> QED  BY <2>1, <2>2, <2>3 DEF OwnerInv
<1>11. LaunchInv'
  <2>1. \A q \in Proc : launch'[q] <= n
    BY <1>2, <1>3, <1>4 DEF IInv, LaunchInv, Others, TypeOK
  <2>2. \A q \in Proc : q # p => launch'[q] # n
    BY <1>2, <1>3, <1>4 DEF IInv, LaunchInv, Others, TypeOK
  <2>3. src < n
    <3>1. CASE src = 0
      BY <1>2, <1>3, <3>1
    <3>2. CASE src \in Run /\ ~Untouched(src)
      <4>1. ~Fresh(src)
        BY <3>2 DEF IInv, FreshTraces
      <4>2. src \in Nat
        BY <3>2 DEF Run
      <4> QED  BY <1>3, <4>1, <4>2 DEF Fresh
    <3> QED  BY <1>1, <3>1, <3>2
  <2>4. \A x \in Run : source'[x] < x
    BY <1>5, <2>3 DEF IInv, LaunchInv
  <2> QED  BY <1>4, <2>1, <2>2, <2>4 DEF IInv, LaunchInv, Others
<1>12. TokenSlot'
  BY <1>4 DEF IInv, TokenSlot
<1>13. ASSUME NEW q \in Proc PROVE ProcInv(q)'
  <2>1. CASE q = p
    <3>1. back[p] = None
      BY <1>3, <1>4 DEF ProcInv, Handle, Mid, Failing
    <3> QED  BY <1>4, <2>1, <3>1 DEF ProcInv, Position, Handle, Making, Taking, Starting, Releasing, Mid, Failing
  <2>2. CASE q # p
    <3>1. /\ pc'[q] = pc[q] /\ at'[q] = at[q] /\ launch'[q] = launch[q] /\ expected'[q] = expected[q] /\ back'[q] = back[q]
          /\ ProcInv(q) /\ launch[q] # n
      BY <1>2, <1>3, <1>4, <2>2 DEF Others, IInv, LaunchInv, TypeOK
    <3>2. launch[q] \in Run => kind'[launch[q]] = kind[launch[q]] /\ source'[launch[q]] = source[launch[q]]
      BY <1>5, <3>1
    <3>3. expected[q] \in Owner => kind'[expected[q].run] = kind[expected[q].run]
      <4> SUFFICES ASSUME expected[q] \in Owner PROVE expected[q].run \in Run /\ expected[q].run # n
        BY <1>5
      <4>1. expected[q] \in Known
        BY DEF Known
      <4> QED  BY <1>8, <4>1 DEF Unmentioned, Owner
    <3>4. Position(q)' /\ Handle(q)'
      BY <1>6, <3>1 DEF ProcInv, Position, Handle
    <3>5. Making(q)' /\ Taking(q)'
      <4>1. Making(q)'
        BY <1>4, <2>2, <3>1 DEF ProcInv, Making, Others
      <4>2. Taking(q)'
        BY <3>1, <3>2 DEF ProcInv, Position, Taking
      <4> QED  BY <4>1, <4>2
    <3>6. Starting(q)'
      BY <1>6, <3>1, <3>2 DEF ProcInv, Position, Starting, Untouched
    <3>7. Releasing(q)'
      BY <1>6, <3>1, <3>3 DEF ProcInv, Releasing, Over, Ended
    <3> QED  BY <3>4, <3>5, <3>6, <3>7 DEF ProcInv
  <2> QED  BY <2>1, <2>2
<1>14. ASSUME NEW x \in Run PROVE Charge(x)' /\ Proved(x)' /\ Worked(x)'
  <2>1. CASE x = n
    BY <1>6, <1>8, <2>1 DEF Untouched, Charge, GoesOnward, Proved, Ended, Worked
  <2>2. CASE x # n
    <3>1. kind'[x] = kind[x] /\ Charge(x) /\ Proved(x) /\ Worked(x)
      BY <1>5, <2>2 DEF IInv
    <3>2. \A q \in Proc : launch'[q] = x => launch[q] = x /\ pc'[q] = pc[q]
      BY <1>4, <2>2 DEF Others
    <3>3. Charge(x)'
      BY <1>4, <1>6, <3>1, <3>2 DEF Charge, Charges, GoesOnward, Holds
    <3>4. Proved(x)' /\ Worked(x)'
      BY <1>6, <3>1, <3>2 DEF Proved, Ended, Worked
    <3> QED  BY <3>3, <3>4
  <2> QED  BY <2>1, <2>2
<1> QED  BY <1>10, <1>11, <1>12, <1>13, <1>14 DEF IInv

(* A process dies with the workflows it hosts. *)
LEMMA CrashStep ==
    ASSUME IInv, TypeOK', NEW p \in Proc, Crash(p)
    PROVE  IInv'
<1>1. TypeOK /\ Return(p) /\ slot' = slot /\ launched' = launched /\ kind' = kind /\ source' = source
      /\ status' = status /\ proof' = proof /\ proceed' = proceed
  BY DEF IInv, Crash, runs
<1>2. \A x \in Run : runner'[x] = runner[x] \/ (kind[x] = "workflow" /\ runner[x] = "working" /\ runner'[x] = "gone")
  BY DEF Crash
<1>3. ProcInv(p)' /\ Others(p) /\ Moves(p) /\ pc'[p] = "idle" /\ expected'[p] = None /\ back'[p] = None
  BY <1>1, Returned DEF Return, TypeOK
<1>4. Step(p)
  BY <1>1, <1>2, <1>3 DEF Step, Lives, Same, Over, Ended, Untouched
<1>5. \A k \in Known' : Shown(k)
  <2> SUFFICES ASSUME NEW k \in Known' PROVE k \in Known
    BY DEF Shown
  <2>1. \A q \in Proc : expected'[q] \in {expected[q], None} /\ back'[q] \in {back[q], None}
    BY <1>3 DEF Others
  <2> QED  BY <1>1, <2>1, CapacityConstants DEF Known
<1>6. OwnerInv'
  BY <1>4, <1>5, OwnersKept
<1>7. TokenSlot' /\ \A q \in Proc \ {p} : pc[q] = "own" => slot'[at[q]] = NoOwner
  BY <1>1 DEF IInv, TokenSlot, ProcInv, Making
<1>8. \A x \in Run : Charge(x)'
  <2>1. ASSUME NEW x \in Run, GoesOnward(x)' PROVE GoesOnward(x)
    BY <1>1, <1>2, <1>3, <2>1, OnwardKept
  <2> QED  BY <1>1, <2>1, ChargesKept DEF Charges, Holds
<1>9. ASSUME NEW x \in Run PROVE Same(x) \/ (Proved(x)' /\ Worked(x)')
  <2>1. CASE runner'[x] = runner[x]
    BY <1>1, <2>1 DEF Same
  <2>2. CASE kind[x] = "workflow" /\ runner'[x] = "gone"
    BY <1>1, <2>2 DEF Proved, Ended, Worked
  <2> QED  BY <1>2, <2>1, <2>2
<1> QED  BY <1>3, <1>4, <1>6, <1>7, <1>8, <1>9, KeepStep


-----------------------------------------------------------------------------
(* The theorems                                                              *)

(* At the start there is nothing. *)
LEMMA InitInv == Init => IInv
<1> SUFFICES ASSUME Init PROVE IInv
  OBVIOUS
<1> USE CapacityConstants
<1>1. TypeOK
  BY DEF Init, TypeOK, PCs
<1>2. /\ \A p \in Proc : pc[p] = "idle" /\ launch[p] = 0 /\ back[p] = None /\ expected[p] = None
      /\ \A r \in Run : status[r] = "none" /\ runner[r] = "none" /\ proof[r] = "none" /\ kind[r] = "runner"
      /\ \A r \in Run : source[r] = 0 /\ r \notin proceed
      /\ launched = 0 /\ \A s \in Slot : slot[s] = None
  BY DEF Init
<1>3. LaunchInv
  BY <1>2 DEF LaunchInv, Run
<1>4. FreshTraces
  BY <1>2 DEF FreshTraces, Untouched
<1>5. Known = {}
  BY <1>2 DEF Known
<1>6. OwnerInv /\ TokenSlot
  BY <1>2, <1>5 DEF OwnerInv, FreshOwners, Unmentioned, RunToken, Gens, TokenSlot
<1>7. \A p \in Proc : ProcInv(p)
  BY <1>2 DEF ProcInv, Position, Handle, Making, Taking, Starting, Releasing, Mid, Failing
<1>8. \A r \in Run : Charge(r) /\ Proved(r) /\ Worked(r)
  BY <1>2 DEF Charge, GoesOnward, Proved, Worked
<1> QED  BY <1>1, <1>3, <1>4, <1>6, <1>7, <1>8 DEF IInv

(* A step that changes nothing. *)
LEMMA Stutter ==
    ASSUME IInv, UNCHANGED vars
    PROVE  IInv'
<1>1. /\ UNCHANGED <<slot, claim, launched, kind, source, host, status, proof, runner, proceed>>
      /\ UNCHANGED <<pc, at, launch, expected, back, mishaps>>
  BY DEF vars, runs, life, local
<1>2. TypeOK' /\ LaunchInv'
  BY <1>1 DEF IInv, TypeOK, LaunchInv
<1>3. FreshTraces' /\ OwnerInv' /\ TokenSlot'
  BY <1>1 DEF IInv, FreshTraces, Fresh, Untouched, OwnerInv, FreshOwners, Unmentioned, RunToken, Gens, Known, TokenSlot
<1>4. \A p \in Proc : ProcInv(p)'
  BY <1>1 DEF IInv, ProcInv, Position, Handle, Making, Taking, Starting, Untouched, Releasing, Over, Ended
<1>5. \A r \in Run : Charge(r)' /\ Proved(r)' /\ Worked(r)'
  BY <1>1 DEF IInv, Charge, Charges, GoesOnward, Holds, Proved, Ended, Worked
<1> QED  BY <1>2, <1>3, <1>4, <1>5 DEF IInv

(* Every step keeps the invariant. *)
LEMMA NextInv ==
    ASSUME IInv, [Next]_vars
    PROVE  IInv'
<1>1. TypeOK'
  BY TypeKept
<1>2. CASE UNCHANGED vars
  BY <1>2, Stutter
<1>3. ASSUME NEW p \in Proc, Begin(p) PROVE IInv'
  BY <1>1, <1>3, SearchSteps, NewRunStep DEF Begin
<1>4. ASSUME NEW p \in Proc, Reconcile(p) PROVE IInv'
  BY <1>1, <1>4, SearchSteps, ReturnSteps, ClaimSteps, ReleaseStep DEF Reconcile
<1>5. ASSUME NEW p \in Proc, Reserve(p) PROVE IInv'
  BY <1>1, <1>5, CreateStep, OwnStep, SearchSteps, ClaimSteps, ReturnSteps, TransferStep DEF Reserve
<1>6. ASSUME NEW p \in Proc, Start(p) PROVE IInv'
  BY <1>1, <1>6, StartSteps, ClaimSteps, FailSteps, BindStep, WorkflowStep DEF Start
<1>7. ASSUME NEW p \in Proc, Fail(p) PROVE IInv'
  BY <1>1, <1>7, ReturnSteps, FailSteps, StartSteps, WorkflowStep DEF Fail
<1>8. ASSUME NEW p \in Proc, GiveBack(p) PROVE IInv'
  BY <1>1, <1>8, StartSteps, ClaimSteps, FailSteps, ReturnSteps, GiveBackStep DEF GiveBack
<1>9. ASSUME NEW r \in Run, Live(r) PROVE IInv'
  BY <1>1, <1>9, LifeStep
<1>10. ASSUME NEW p \in Proc, Crash(p) PROVE IInv'
  BY <1>1, <1>10, CrashStep
<1>11. ASSUME NEW p \in Proc, ClaimFails(p) \/ LeaveFails(p) \/ MarkWorkflowFails(p) PROVE IInv'
  BY <1>1, <1>11, FailSteps, ReturnSteps
<1> QED  BY <1>2, <1>3, <1>4, <1>5, <1>6, <1>7, <1>8, <1>9, <1>10, <1>11 DEF Next

LEMMA Invariance == Spec => []IInv
BY InitInv, NextInv, PTL DEF Spec

(* TypeCorrect: every state is well typed.                                   *)
THEOREM TypeCorrect == Spec => []TypeOK
<1>1. IInv => TypeOK
  BY DEF IInv
<1> QED  BY Invariance, <1>1, PTL

(* A run at work was let go, or is a workflow: it goes on, and is charged.   *)
LEMMA ActiveGoesOnward ==
    ASSUME IInv, NEW r \in Run, Active(r)
    PROVE  GoesOnward(r)
BY DEF IInv, TypeOK, Worked, Active, GoesOnward

(* ActiveKeepsSlot: a run that is at work holds a slot, with its runner       *)
(* recorded if it has one, whatever launches, resumes, reconciliations,      *)
(* failed writes and deaths happen meanwhile (removeOwnedSlot, transfer,     *)
(* rollback, markStarted, markWorkflowStarted).                              *)
THEOREM ActiveKeepsSlot == Spec => []ActiveHoldsSlot
<1>1. IInv => ActiveHoldsSlot
  BY ActiveGoesOnward DEF IInv, Charge, Charges, ActiveHoldsSlot
<1> QED  BY Invariance, <1>1, PTL

-----------------------------------------------------------------------------
(* What a step does to the slots and to the runs at work.                    *)

(* What p does to its slot, o being what it leaves behind: it frees it, hands *)
(* it over, makes it and its owner, or marks it as started.                  *)
Uncharged(r) == \A s \in Slot : ~Holds(s, r)
Changes(p, o) == at[p] \in Slot /\ slot' = [slot EXCEPT ![at[p]] = o]
Frees(p, r) ==
    /\ Changes(p, None) /\ Holds(at[p], r) /\ ~Active(r)
    /\ Finished(r) \/ Unstarted(r)
HandsOver(p, r, o) ==
    /\ Changes(p, o) /\ Holds(at[p], r) /\ ~Active(r)
    /\ o \in Owner /\ Uncharged(o.run)
Makes(p, o) ==
    /\ Changes(p, o) /\ slot[at[p]] \notin Owner
    /\ o = NoOwner \/ (o \in Owner /\ Uncharged(o.run))
Marks(p, o) ==
    /\ Changes(p, o) /\ slot[at[p]] \in Owner /\ o \in Owner
    /\ o.run = slot[at[p]].run /\ o.run = launch[p]
AtRest == UNCHANGED <<status, runner>>

(* A run that no owner mentions holds no slot. *)
LEMMA UnmentionedUncharged ==
    ASSUME NEW r, Unmentioned(r)
    PROVE  Uncharged(r)
BY DEF Unmentioned, Uncharged, Holds, Known

(* A run holds one slot. *)
LEMMA OneSlot ==
    ASSUME IInv, NEW s \in Slot, NEW t \in Slot, NEW r, Holds(s, r), Holds(t, r)
    PROVE  s = t
<1>1. slot[s] \in Known /\ slot[t] \in Known /\ slot[s].run = slot[t].run
  BY DEF Known, Holds
<1>2. slot[s].token = slot[t].token
  BY <1>1 DEF IInv, OwnerInv, RunToken
<1> QED  BY <1>2 DEF IInv, TokenSlot, Holds

(* Reconciliation frees a slot whose run is over. *)
LEMMA ReleaseChange ==
    ASSUME IInv, NEW p \in Proc, Release(p)
    PROVE  AtRest /\ (slot' = slot \/ \E r \in Run : Frees(p, r))
<1>1. pc[p] = "release" /\ ProcInv(p) /\ AtRest
  BY DEF IInv, Release, life, AtRest
<1>2. PICK r \in Run : r = expected[p].run
  BY <1>1 DEF ProcInv, Releasing, Owner
<1>3. /\ at[p] \in Slot /\ Over(r)
      /\ kind[r] = "runner" => proof[r] # "none" \/ Ended(r)
  BY <1>1, <1>2 DEF ProcInv, Position, Releasing
<1>4. (Finished(r) \/ Unstarted(r)) /\ ~Active(r)
  BY <1>3 DEF IInv, Proved, Ended, Finished, Unstarted, Over, Active
<1>5. CASE ~Matches(p)
  BY <1>1, <1>5, LeaveSame DEF Release
<1>6. CASE Matches(p)
  <2>1. slot' = [slot EXCEPT ![at[p]] = None] /\ Holds(at[p], r)
    BY <1>2, <1>6 DEF Release, Leave, Matches, Holds
  <2> QED  BY <1>1, <1>3, <1>4, <2>1 DEF Frees, Changes
<1> QED  BY <1>5, <1>6

(* A launch that was not let go frees its slot or hands it back. *)
LEMMA GiveBackChange ==
    ASSUME IInv, NEW p \in Proc, Restore(p) \/ Rollback(p)
    PROVE  AtRest /\ (slot' = slot \/ \E r \in Run : Frees(p, r) \/ \E o : HandsOver(p, r, o))
<1>1. pc[p] \in {"restore", "rollback"} /\ ProcInv(p) /\ AtRest
  BY DEF IInv, Restore, Rollback, life, AtRest
<1>2. PICK r \in Run : r = launch[p]
  BY <1>1 DEF ProcInv, Position
<1>3. /\ at[p] \in Slot /\ expected[p] \in Owner /\ expected[p].run = r /\ r \notin proceed
      /\ back[p] # None => back[p].token = expected[p].token /\ back[p].run # r
      /\ pc[p] = "restore" => kind[r] = "runner"
      /\ kind[r] = "workflow" => Untouched(r)
  BY <1>1, <1>2 DEF ProcInv, Position, Handle, Starting, Failing, Mid, IInv, TypeOK
<1>4. ~Active(r) /\ Unstarted(r)
  BY <1>3 DEF IInv, Worked, TypeOK, Active, Unstarted, Untouched
<1>5. CASE slot' = slot
  BY <1>1, <1>5
<1>6. CASE Matches(p) /\ Leave(p, back[p])
  <2>1. Changes(p, back[p]) /\ Holds(at[p], r) /\ slot[at[p]].token = expected[p].token
    BY <1>3, <1>6 DEF Leave, Changes, Matches, Holds
  <2>2. CASE back[p] = None
    BY <1>1, <1>4, <2>1, <2>2 DEF Frees
  <2>3. CASE back[p] # None
    <3>1. back[p] \in Owner
      BY <2>3, AtHand
    <3>2. ASSUME NEW t \in Slot, Holds(t, back[p].run) PROVE FALSE
      <4>1. slot[t] \in Known /\ back[p] \in Known /\ slot[t].run = back[p].run
        BY <3>1, <3>2 DEF Known, Holds
      <4>2. slot[t].token = slot[at[p]].token
        BY <1>3, <2>1, <2>3, <4>1 DEF IInv, OwnerInv, RunToken
      <4>3. t = at[p]
        BY <1>3, <2>1, <3>2, <4>2 DEF IInv, TokenSlot, Holds
      <4> QED  BY <1>3, <2>1, <2>3, <4>1, <4>3 DEF Holds
    <3> QED  BY <1>1, <1>4, <2>1, <3>1, <3>2 DEF HandsOver, Uncharged
  <2> QED  BY <2>2, <2>3
<1>7. Leave(p, slot[at[p]]) => slot' = slot
  BY LeaveSame
<1> QED  BY <1>5, <1>6, <1>7 DEF Restore, Rollback

(* A resume hands the slot of its source over to itself. *)
LEMMA TransferChange ==
    ASSUME IInv, NEW p \in Proc, Transfer(p)
    PROVE  AtRest /\ (slot' = slot \/ \E r \in Run : \E o : HandsOver(p, r, o))
<1>1. pc[p] = "transfer" /\ ProcInv(p) /\ AtRest
  BY DEF IInv, Transfer, life, AtRest
<1>2. at[p] \in Slot /\ launch[p] \in Run /\ expected[p] \in Owner /\ expected[p].run = source[launch[p]]
  BY <1>1 DEF ProcInv, Position, Taking
<1>3. CASE Matches(p) /\ Transferable(source[launch[p]])
  <2>1. PICK r \in Run : r = source[launch[p]]
    BY <1>2 DEF Owner
  <2>2. PICK o : o = [slot[at[p]] EXCEPT !.run = launch[p], !.gen = @ + 1, !.bound = FALSE]
    OBVIOUS
  <2>3. Changes(p, o) /\ Holds(at[p], r) /\ ~Active(r)
    BY <1>2, <1>3, <2>1, <2>2 DEF Transfer, Leave, Changes, Matches, Holds, Transferable, Active
  <2>4. o.run = launch[p]
    BY <1>3, <2>2 DEF Matches, Owner
  <2>5. o \in Owner
    <3>1. slot[at[p]].gen + 1 \in 0..MaxRuns
      <4>1. slot[at[p]] \in Known
        BY <1>2, <1>3 DEF Known, Matches
      <4>2. slot[at[p]].gen < slot[at[p]].run /\ slot[at[p]].gen \in 0..MaxRuns /\ slot[at[p]].run \in 1..MaxRuns
        BY <1>3, <4>1 DEF IInv, OwnerInv, Gens, Matches, Owner, Run
      <4> QED  BY <4>2, CapacityConstants
    <3> QED  BY <1>2, <1>3, <2>2, <3>1 DEF Matches, Owner
  <2>6. Uncharged(o.run)
    BY <1>1, <1>2, <2>4, FreshLaunch, UnmentionedUncharged DEF Early
  <2> QED  BY <1>1, <2>3, <2>5, <2>6 DEF HandsOver
<1> QED  BY <1>1, <1>3, LeaveSame DEF Transfer

(* A launch makes a slot, and then its owner. *)
LEMMA MakeChange ==
    ASSUME IInv, NEW p \in Proc, Create(p) \/ Own(p)
    PROVE  AtRest /\ (slot' = slot \/ \E o : Makes(p, o))
<1>1. ProcInv(p) /\ AtRest
  BY DEF IInv, Create, Own, life, AtRest
<1>2. CASE Create(p)
  <2>1. CASE at[p] = Limit + 1 \/ slot[at[p]] # None
    BY <1>1, <1>2, <2>1 DEF Create
  <2>2. CASE at[p] # Limit + 1 /\ slot[at[p]] = None
    <3>1. at[p] \in Slot
      BY <1>1, <1>2, <2>2, CapacityConstants DEF Create, ProcInv, Position, IInv, TypeOK, Slot
    <3> QED  BY <1>1, <1>2, <2>2, <3>1, CapacityConstants DEF Create, Makes, Changes
  <2> QED  BY <2>1, <2>2
<1>3. CASE Own(p)
  <2>1. pc[p] = "own" /\ at[p] \in Slot /\ launch[p] \in Run /\ slot[at[p]] = NoOwner
    BY <1>1, <1>3 DEF Own, Goto, ProcInv, Position, Making
  <2>2. PICK o : o = [token |-> launch[p], run |-> launch[p], gen |-> 0, bound |-> FALSE]
    OBVIOUS
  <2>3. Changes(p, o) /\ o.run = launch[p] /\ o \in Owner
    BY <1>3, <2>1, <2>2, CapacityConstants DEF Own, Changes, Owner
  <2>4. Uncharged(o.run)
    BY <2>1, <2>3, FreshLaunch, UnmentionedUncharged DEF Early
  <2> QED  BY <1>1, <2>1, <2>3, <2>4, CapacityConstants DEF Makes
<1> QED  BY <1>2, <1>3

(* A started launch is marked in its slot. *)
LEMMA MarkChange ==
    ASSUME IInv, NEW p \in Proc, Bind(p) \/ MarkWorkflowStarted(p)
    PROVE  slot' = slot \/ \E o : Marks(p, o)
<1>1. ProcInv(p) /\ at[p] \in Slot /\ expected[p].run = launch[p]
  BY DEF IInv, ProcInv, Position, Handle, Mid, Bind, MarkWorkflowStarted
<1>2. ASSUME NEW written \in BOOLEAN, slot' = [slot EXCEPT ![at[p]] = [slot[at[p]] EXCEPT !.bound = written]], Matches(p)
      PROVE  \E o : Marks(p, o)
  <2>1. PICK o : o = [slot[at[p]] EXCEPT !.bound = written]
    OBVIOUS
  <2>2. slot[at[p]] \in Owner /\ slot[at[p]].run = launch[p]
    BY <1>1, <1>2 DEF Matches
  <2>3. o \in Owner /\ o.run = slot[at[p]].run
    BY <2>1, <2>2 DEF Owner
  <2> QED  BY <1>1, <1>2, <2>1, <2>2, <2>3 DEF Marks, Changes
<1>3. Leave(p, slot[at[p]]) => slot' = slot
  BY LeaveSame
<1>4. CASE MarkWorkflowStarted(p)
  <2>1. PICK written \in BOOLEAN : slot' = [slot EXCEPT ![at[p]] = [slot[at[p]] EXCEPT !.bound = written]]
    BY <1>4 DEF MarkWorkflowStarted
  <2> QED  BY <1>2, <1>4, <2>1 DEF MarkWorkflowStarted
<1>5. CASE Bind(p)
  <2>1. Matches(p) => slot' = [slot EXCEPT ![at[p]] = [slot[at[p]] EXCEPT !.bound = TRUE]]
    BY <1>5 DEF Bind, Leave
  <2> QED  BY <1>2, <1>3, <1>5, <2>1 DEF Bind
<1> QED  BY <1>4, <1>5

(* No other step touches a slot. *)
LEMMA OtherSteps ==
    ASSUME NEW p \in Proc,
           \/ Refresh(p) \/ Launch(p) \/ Resume(p) \/ Scan(p) \/ Admit(p) \/ ReleaseBusy(p) \/ Seek(p)
           \/ ClaimRelease(p) \/ ClaimTransfer(p) \/ ClaimBind(p) \/ ClaimRestore(p) \/ ClaimRollback(p)
           \/ TransferBusy(p) \/ BindBusy(p) \/ RestoreBusy(p) \/ RollbackRefused(p)
           \/ OwnFails(p) \/ SpawnFails(p) \/ HandshakeFails(p) \/ Proceed(p)
           \/ RecordFailureFails(p) \/ ClaimFails(p) \/ MarkWorkflowFails(p)
    PROVE  slot' = slot /\ AtRest
<1> USE DEF AtRest, life
<1>1. CASE Refresh(p) \/ Launch(p) \/ Resume(p) \/ Scan(p) \/ Admit(p) \/ ReleaseBusy(p) \/ Seek(p)
  BY <1>1 DEF Refresh, Launch, Resume, NewRun, Scan, Admit, ReleaseBusy, NotClaimed, Seek
<1>2. CASE ClaimRelease(p) \/ ClaimTransfer(p) \/ ClaimBind(p) \/ ClaimRestore(p) \/ ClaimRollback(p)
  BY <1>2 DEF ClaimRelease, ClaimTransfer, ClaimBind, ClaimRestore, ClaimRollback, Claim
<1>3. CASE TransferBusy(p) \/ BindBusy(p) \/ RestoreBusy(p) \/ RollbackRefused(p)
  BY <1>3 DEF TransferBusy, BindBusy, RestoreBusy, RollbackRefused, NotClaimed
<1>4. CASE OwnFails(p) \/ SpawnFails(p) \/ HandshakeFails(p) \/ Proceed(p)
  BY <1>4 DEF OwnFails, SpawnFails, HandshakeFails, Proceed
<1>5. CASE RecordFailureFails(p) \/ ClaimFails(p) \/ MarkWorkflowFails(p)
  BY <1>5 DEF RecordFailureFails, ClaimFails, MarkWorkflowFails
<1> QED  BY <1>1, <1>2, <1>3, <1>4, <1>5

(* A failed write of a handle leaves the slot as it is; a launch that begins  *)
(* or fails is not at work.                                                  *)
LEMMA LaunchSteps ==
    ASSUME IInv, NEW p \in Proc,
           Spawn(p) \/ StatusFails(p) \/ RecordFailure(p) \/ BindFails(p) \/ Crash(p)
    PROVE  slot' = slot /\ \A r \in Run : Active(r)' => Active(r)
<1>1. TypeOK
  BY DEF IInv
<1>2. CASE Spawn(p) \/ StatusFails(p)
  <2>1. slot' = slot /\ \A r \in Run \ {launch[p]} : status'[r] = status[r] /\ runner'[r] = runner[r]
    BY <1>1, <1>2 DEF Spawn, StatusFails, TypeOK
  <2>2. launch[p] \in Run => runner'[launch[p]] = "waiting"
    BY <1>1, <1>2 DEF Spawn, StatusFails, TypeOK
  <2> QED  BY <2>1, <2>2 DEF Active
<1>3. CASE RecordFailure(p)
  BY <1>1, <1>3 DEF RecordFailure, TypeOK, Active
<1>4. CASE BindFails(p)
  BY <1>4, LeaveSame DEF BindFails, life, Active
<1>5. CASE Crash(p)
  BY <1>5 DEF Crash, Active
<1> QED  BY <1>2, <1>3, <1>4, <1>5

(* Runs end, or one begins to work that has a slot. *)
Calm == \A x \in Run : Active(x)' => Active(x)
BeginsWork(r) ==
    /\ \E s \in Slot : Holds(s, r)
    /\ Active(r)' /\ \A x \in Run \ {r} : Active(x)' <=> Active(x)

LEMMA LifeChange ==
    ASSUME IInv, NEW r \in Run, Live(r)
    PROVE  slot' = slot /\ (Calm \/ BeginsWork(r))
<1>1. TypeOK
  BY DEF IInv
<1>2. CASE Work(r)
  <2>1. /\ slot' = slot /\ status' = status /\ r \in proceed /\ runner[r] = "waiting" /\ runner'[r] = "working"
        /\ \A x \in Run \ {r} : Active(x)' <=> Active(x)
    BY <1>1, <1>2 DEF Work, TypeOK, Active
  <2>2. CASE status[r] = "running"
    <3>1. GoesOnward(r) /\ Active(r)'
      BY <2>1, <2>2 DEF GoesOnward, Active
    <3>2. \E s \in Slot : Holds(s, r)
      BY <3>1 DEF IInv, Charge, Charges
    <3> QED  BY <2>1, <3>1, <3>2 DEF BeginsWork
  <2>3. CASE status[r] # "running"
    BY <2>1, <2>3 DEF Calm, Active
  <2> QED  BY <2>2, <2>3
<1>3. CASE Exit(r) \/ StartupFailure(r) \/ RemoveController(r)
  BY <1>1, <1>3 DEF Exit, StartupFailure, RemoveController, TypeOK, Active, Calm
<1>4. CASE Settle(r) \/ Repair(r) \/ Prove(r)
  BY <1>1, <1>4 DEF Settle, Repair, Prove, TypeOK, Active, Calm
<1> QED  BY <1>2, <1>3, <1>4 DEF Live

(* A workflow begins to work once its slot is marked. *)
LEMMA WorkflowChange ==
    ASSUME IInv, NEW p \in Proc, StartWorkflow(p) \/ StartWorkflowFails(p)
    PROVE  /\ slot' = slot \/ \E o : Marks(p, o)
           /\ Calm \/ \E r \in Run : BeginsWork(r)
<1>1. TypeOK /\ ProcInv(p) /\ MarkWorkflowStarted(p)
  BY DEF IInv, StartWorkflow, StartWorkflowFails
<1>2. PICK r \in Run : r = launch[p]
  BY <1>1 DEF MarkWorkflowStarted, ProcInv, Position
<1>3. at[p] \in Slot /\ Holds(at[p], r)
  BY <1>1, <1>2 DEF MarkWorkflowStarted, Matches, Holds, ProcInv, Position, Handle, Mid
<1>4. CASE StartWorkflow(p)
  <2>1. Active(r)' /\ \A x \in Run \ {r} : Active(x)' <=> Active(x)
    BY <1>1, <1>2, <1>4 DEF StartWorkflow, TypeOK, Active
  <2> QED  BY <1>1, <1>3, <2>1, MarkChange DEF BeginsWork
<1>5. CASE StartWorkflowFails(p)
  BY <1>1, <1>5, MarkChange DEF StartWorkflowFails, Calm, Active
<1> QED  BY <1>4, <1>5

(* Every step: at most one slot changes, or one charged run begins to work.  *)
Free == \E p \in Proc : \E r \in Run : Frees(p, r)
Pass == \E p \in Proc : \E r \in Run : \E o : HandsOver(p, r, o)
Make == \E p \in Proc : \E o : Makes(p, o)
Mark == \E p \in Proc : \E o : Marks(p, o)
Begins == \E r \in Run : BeginsWork(r)

LEMMA StepKinds ==
    ASSUME IInv, [Next]_vars
    PROVE  \/ AtRest /\ (Free \/ Pass \/ Make)
           \/ (slot' = slot \/ Mark) /\ (Calm \/ Begins)
<1>1. AtRest => Calm
  BY DEF AtRest, Calm, Active
<1>2. CASE UNCHANGED vars
  BY <1>1, <1>2 DEF vars, life, AtRest
<1>3. ASSUME NEW p \in Proc, Release(p) \/ Restore(p) \/ Rollback(p) \/ Transfer(p) \/ Create(p) \/ Own(p)
      PROVE  AtRest /\ (slot' = slot \/ Free \/ Pass \/ Make)
  BY <1>3, ReleaseChange, GiveBackChange, TransferChange, MakeChange DEF Free, Pass, Make
<1>4. ASSUME NEW p \in Proc, Bind(p) PROVE AtRest /\ (slot' = slot \/ Mark)
  BY <1>4, MarkChange DEF Mark, Bind, life, AtRest
<1>5. ASSUME NEW p \in Proc, StartWorkflow(p) \/ StartWorkflowFails(p)
      PROVE  (slot' = slot \/ Mark) /\ (Calm \/ Begins)
  BY <1>5, WorkflowChange DEF Mark, Begins
<1>6. ASSUME NEW p \in Proc, Spawn(p) \/ StatusFails(p) \/ RecordFailure(p) \/ BindFails(p) \/ Crash(p)
      PROVE  slot' = slot /\ Calm
  BY <1>6, LaunchSteps DEF Calm
<1>7. ASSUME NEW r \in Run, Live(r) PROVE slot' = slot /\ (Calm \/ Begins)
  BY <1>7, LifeChange DEF Begins
<1>8. ASSUME NEW p \in Proc, Begin(p) \/ Reconcile(p), ~Release(p) PROVE slot' = slot /\ AtRest
  BY <1>8, OtherSteps DEF Begin, Reconcile
<1>9. ASSUME NEW p \in Proc, Reserve(p), ~Create(p), ~Own(p), ~Transfer(p) PROVE slot' = slot /\ AtRest
  BY <1>9, OtherSteps DEF Reserve
<1>10. ASSUME NEW p \in Proc, Start(p), ~Spawn(p), ~Bind(p), ~StartWorkflow(p) PROVE slot' = slot /\ AtRest
  BY <1>10, OtherSteps DEF Start
<1>11. ASSUME NEW p \in Proc, Fail(p), ~StatusFails(p), ~BindFails(p), ~StartWorkflowFails(p)
       PROVE  slot' = slot /\ AtRest
  BY <1>11, OtherSteps DEF Fail
<1>12. ASSUME NEW p \in Proc, GiveBack(p), ~RecordFailure(p), ~Restore(p), ~Rollback(p)
       PROVE  slot' = slot /\ AtRest
  BY <1>12, OtherSteps DEF GiveBack
<1>13. ASSUME NEW p \in Proc, ClaimFails(p) \/ LeaveFails(p) \/ MarkWorkflowFails(p)
       PROVE  slot' = slot /\ AtRest
  BY <1>13, OtherSteps, LeaveSame DEF LeaveFails, life, AtRest
<1> QED  BY <1>1, <1>2, <1>3, <1>4, <1>5, <1>6, <1>7, <1>8, <1>9, <1>10, <1>11, <1>12, <1>13 DEF Next

(* ReleaseNeedsTheEnd: a slot is freed only if its run is over and its runner *)
(* gone or on its way out, or if the launch was not let go                   *)
(* (ownerReleaseVerdict, rollback).                                          *)
THEOREM ReleaseNeedsTheEnd == Spec => ReleasedRunIsOver
<1>1. ASSUME IInv, [Next]_vars, NEW s \in Slot, slot[s] \in Owner, slot'[s] = None
      PROVE  Finished(slot[s].run) \/ Unstarted(slot[s].run)
  <2>1. TypeOK
    BY <1>1 DEF IInv
  <2>2. ~Mark /\ ~Make /\ ~Pass /\ slot' # slot
    BY <1>1, <2>1, CapacityConstants DEF Mark, Marks, Make, Makes, Pass, HandsOver, Changes, TypeOK
  <2>3. PICK p \in Proc, r \in Run : Frees(p, r)
    BY <1>1, <2>2, StepKinds DEF Free
  <2> QED  BY <1>1, <2>1, <2>3, CapacityConstants DEF Frees, Changes, Holds, TypeOK
<1>2. IInv /\ [Next]_vars =>
        [\A s \in Slot : slot[s] \in Owner /\ slot'[s] = None => Finished(slot[s].run) \/ Unstarted(slot[s].run)]_vars
  BY <1>1
<1> QED  BY Invariance, <1>2, PTL DEF Spec, ReleasedRunIsOver

-----------------------------------------------------------------------------
(* The pool                                                                  *)

Working == {r \in Run : Active(r)}

(* What the new owner of a slot does to the charges. *)
LEMMA ChargedAfter ==
    ASSUME IInv, NEW p \in Proc, NEW o, Changes(p, o)
    PROVE  Charged' = {r \in Charged : ~Holds(at[p], r)} \cup {r \in Run : o \in Owner /\ o.run = r}
<1>1. at[p] \in Slot /\ \A s \in Slot : slot'[s] = IF s = at[p] THEN o ELSE slot[s]
  BY DEF Changes, IInv, TypeOK
<1>2. ASSUME NEW r \in Run
      PROVE  (\E s \in Slot : Holds(s, r)') <=>
                 ((\E s \in Slot : Holds(s, r)) /\ ~Holds(at[p], r)) \/ (o \in Owner /\ o.run = r)
  BY <1>1, OneSlot DEF Holds
<1> QED  BY <1>2 DEF Charged

(* Charges are no more than the slots that have an owner. *)
LEMMA FewerCharged ==
    ASSUME IInv, NEW t \in Slot, slot[t] \notin Owner
    PROVE  Cardinality(Charged) < Limit
<1> DEFINE f == [r \in Charged |-> CHOOSE s \in Slot : Holds(s, r)]
<1>1. \A r \in Charged : f[r] \in Slot /\ Holds(f[r], r)
  BY DEF Charged
<1> HIDE DEF f
<1>2. \A r \in Charged : f[r] \in Slot \ {t}
  BY <1>1 DEF Holds
<1>3. \A r, x \in Charged : f[r] = f[x] => r = x
  BY <1>1 DEF Holds
<1>4. f \in [Charged -> Slot \ {t}]
  BY <1>2 DEF f
<1>5. f \in Injection(Charged, Slot \ {t})
  BY <1>3, <1>4 DEF Injection, IsInjective
<1>6. IsFiniteSet(Slot) /\ Cardinality(Slot) = Limit
  BY CapacityConstants, FS_Interval DEF Slot
<1>7. IsFiniteSet(Slot \ {t}) /\ Cardinality(Slot \ {t}) = Limit - 1
  BY <1>6, FS_RemoveElement
<1>8. IsFiniteSet(Charged) /\ Cardinality(Charged) <= Limit - 1
  BY <1>5, <1>7, FS_Injection
<1> QED  BY <1>8, FS_CardinalityType, CapacityConstants

(* Each step is a step of the pool or a stutter. *)
LEMMA StepImplementsPool ==
    ASSUME IInv, [Next]_vars
    PROVE  [Pool!Next]_<<Charged, Working>>
<1>1. AtRest => Working' = Working
  BY DEF AtRest, Working, Active
<1>2. slot' = slot => Charged' = Charged
  BY DEF Charged, Holds
<1>3. ASSUME Mark PROVE Charged' = Charged
  <2>0. PICK p \in Proc : \E o : Marks(p, o)
    BY <1>3 DEF Mark
  <2>1. PICK o : Marks(p, o)
    BY <2>0
  <2>2. Charged' = {r \in Charged : ~Holds(at[p], r)} \cup {r \in Run : o \in Owner /\ o.run = r}
    BY <2>1, ChargedAfter DEF Marks
  <2> QED  BY <2>1, <2>2 DEF Marks, Changes, Charged, Holds
<1>4. ASSUME NEW p \in Proc, NEW r \in Run, Frees(p, r), AtRest PROVE Pool!Discharge(r)
  <2>1. Charged' = Charged \ {r}
    BY <1>4, ChargedAfter, CapacityConstants DEF Frees, Holds
  <2>2. r \in Charged \ Working
    BY <1>4 DEF Frees, Changes, Charged, Working
  <2> QED  BY <1>1, <1>4, <2>1, <2>2 DEF Pool!Discharge, Working
<1>5. ASSUME NEW p \in Proc, NEW r \in Run, NEW o, HandsOver(p, r, o), AtRest
      PROVE  o.run \in Run /\ Pool!HandOver(r, o.run)
  <2>1. o.run \in Run
    BY <1>5 DEF HandsOver, Owner
  <2>2. Charged' = (Charged \ {r}) \cup {o.run}
    BY <1>5, <2>1, ChargedAfter DEF HandsOver, Holds
  <2>3. r \in Charged \ Working /\ o.run \notin Charged
    BY <1>5 DEF HandsOver, Changes, Uncharged, Charged, Working
  <2> QED  BY <1>1, <1>5, <2>1, <2>2, <2>3 DEF Pool!HandOver, Working
<1>6. ASSUME NEW p \in Proc, NEW o, Makes(p, o), AtRest
      PROVE  Charged' = Charged \/ (o.run \in Run /\ Pool!Charge(o.run))
  <2>1. Charged' = Charged \cup {r \in Run : o \in Owner /\ o.run = r}
    <3>1. \A r \in Run : ~Holds(at[p], r)
      BY <1>6 DEF Makes, Holds
    <3> QED  BY <1>6, <3>1, ChargedAfter DEF Makes, Charged
  <2>2. CASE o \in Owner
    <3>1. o.run \in Run /\ Charged' = Charged \cup {o.run}
      BY <2>1, <2>2 DEF Owner
    <3>2. o.run \notin Charged
      BY <1>6, <2>2, CapacityConstants DEF Makes, Uncharged, Charged
    <3>3. Pool!Cardinality(Charged) < Limit
      <4>1. Cardinality(Charged) < Limit
        BY <1>6, FewerCharged DEF Makes, Changes
      <4>2. Pool!Cardinality(Charged) = Cardinality(Charged)
        BY DEF Pool!Cardinality, Cardinality
      <4> QED  BY <4>1, <4>2
    <3> QED  BY <1>1, <1>6, <3>1, <3>2, <3>3 DEF Pool!Charge, Working
  <2> QED  BY <2>1, <2>2
<1>7. ASSUME Calm, Charged' = Charged PROVE Pool!Next
  <2>1. Working' = Working \ (Working \ Working')
    BY <1>7 DEF Calm, Working
  <2> QED  BY <1>7, <2>1 DEF Pool!Next, Pool!End, Working
<1>8. ASSUME Begins, Charged' = Charged PROVE Pool!Next
  <2>1. PICK r \in Run : BeginsWork(r)
    BY <1>8 DEF Begins
  <2>2. r \in Charged /\ Working' = Working \cup {r}
    BY <2>1 DEF BeginsWork, Charged, Working
  <2> QED  BY <1>8, <2>1, <2>2 DEF Pool!Next, Pool!Begin, Working
<1>9. CASE AtRest /\ Free
  BY <1>4, <1>9 DEF Free, Pool!Next
<1>10. CASE AtRest /\ Pass
  BY <1>5, <1>10 DEF Pass, Pool!Next
<1>11. CASE AtRest /\ Make
  BY <1>1, <1>6, <1>11 DEF Make, Pool!Next
<1>12. CASE (slot' = slot \/ Mark) /\ (Calm \/ Begins)
  BY <1>2, <1>3, <1>7, <1>8, <1>12
<1> QED  BY <1>9, <1>10, <1>11, <1>12, StepKinds

(* SlotsImplementPool: the slots implement the pool: at most Limit runs are   *)
(* charged, only charged runs begin to work, a resume takes over a charge,    *)
(* and no run at work loses its charge.                                      *)
THEOREM SlotsImplementPool == Spec => ImplementsPool
<1>1. Init => Pool!Init
  BY CapacityConstants DEF Init, Pool!Init, Charged, Holds, Active
<1>2. IInv /\ [Next]_vars => [Pool!Next]_<<Charged, {r \in Run : Active(r)}>>
  BY StepImplementsPool DEF Working
<1> QED  BY Invariance, <1>1, <1>2, PTL DEF Spec, ImplementsPool, Pool!Spec, Pool!poolVars
=============================================================================
