---------------------------- MODULE ResumeClaim -----------------------------
(***************************************************************************)
(* Who continues a stopped workflow run                                    *)
(* (src/src/workflows/workflow-resume-claim.ts and its callers).  Claims   *)
(* are generation files resumed-by.<n>.json in the stopped run's           *)
(* directory, created whole by link(2); the highest n is the current one.  *)
(* A dead claimant is superseded by the next generation; an owner whose    *)
(* launch did not start renames its own file aside.  The status file of    *)
(* the new run makes the claim permanent.                                  *)
(*                                                                         *)
(* A resume claims twice: prepareWorkflowResume, then again in the         *)
(* executor just before the launch.  A plain relaunch (options.reuseFrom)  *)
(* claims once, in the executor.  A process makes one attempt at a time;   *)
(* a process id may be used again by a new process after a death.          *)
(***************************************************************************)
EXTENDS Naturals

CONSTANTS Proc,         \* process ids
          Triggers,     \* what attempts are made for
          MaxAttempts,  \* bound on the attempts of all processes together
          MaxGen,       \* bound on the generations
          MaxRounds,    \* MAX_CLAIM_ROUNDS
          NoClaim       \* no file with that generation

Run == 1..MaxAttempts
Gen == 1..MaxGen
Claim == [pid : Proc, run : Run]

ASSUME ResumeConstants ==
    /\ Triggers \subseteq {"auto", "manual", "reuse"}
    /\ MaxAttempts \in Nat /\ MaxGen \in Nat /\ MaxRounds \in Nat \ {0}
    /\ NoClaim \notin Claim

VARIABLES claims,    \* resumed-by.<n>.json
          released,  \* generations with a resumed-by.<n>.json.released-* file
          started,   \* runs whose status.json exists
          refused,   \* resume-refused.json exists
          attempts,  \* attempts made, by all processes
          pc,        \* where each process is
          run,       \* newRunId of the attempt of each process
          trigger,   \* what the attempt was made for
          phase,     \* claiming for prepareWorkflowResume or for the launch
          gen,       \* top.generation of the last listing
          seen,      \* top.claim of the last listing
          round,     \* claim rounds lost
          held,      \* heldClaims of each process
          raced      \* history: a claim was given back, or a claimant died, in between
                     \* two looks of a taker

attempt == <<run, trigger, phase>>
files == <<claims, released>>
vars == <<claims, released, started, refused, attempts, pc, run, trigger, phase, gen, seen, round, held,
          raced>>

Claiming == {"list", "read", "check", "probe", "create"}
PCs == Claiming \cup {"idle", "prepared", "cancelled", "refused", "launch", "running", "dead"}

TypeOK ==
    /\ claims \in [Gen -> Claim \cup {NoClaim}]
    /\ released \subseteq Gen
    /\ started \subseteq Run
    /\ refused \in BOOLEAN
    /\ attempts \in 0..MaxAttempts
    /\ pc \in [Proc -> PCs]
    /\ run \in [Proc -> 0..MaxAttempts]
    /\ trigger \in [Proc -> {"auto", "manual", "reuse"}]
    /\ phase \in [Proc -> {"prepare", "launch"}]
    /\ gen \in [Proc -> 0..MaxGen]
    /\ seen \in [Proc -> Claim \cup {NoClaim}]
    /\ round \in [Proc -> 0..(MaxRounds - 1)]
    /\ held \in [Proc -> SUBSET Gen]
    /\ raced \in BOOLEAN

Init ==
    /\ claims = [g \in Gen |-> NoClaim]
    /\ released = {}
    /\ started = {}
    /\ refused = FALSE
    /\ attempts = 0
    /\ pc = [p \in Proc |-> "idle"]
    /\ run = [p \in Proc |-> 0]
    /\ trigger = [p \in Proc |-> "manual"]
    /\ phase = [p \in Proc |-> "prepare"]
    /\ gen = [p \in Proc |-> 0]
    /\ seen = [p \in Proc |-> NoClaim]
    /\ round = [p \in Proc |-> 0]
    /\ held = [p \in Proc |-> {}]
    /\ raced = FALSE

Goto(p, from, to) ==
    /\ pc[p] = from
    /\ pc' = [pc EXCEPT ![p] = to]

Mine(p) == [pid |-> p, run |-> run[p]]
Live == {g \in Gen : claims[g] # NoClaim}
(* g is the highest generation of G, 0 when there is none. *)
Highest(G, g) == (g = 0 \/ g \in G) /\ \A h \in G : h <= g

-----------------------------------------------------------------------------
(* An attempt for a fresh run id.  An automatic one is made once: a recorded *)
(* refusal ends it.                                                         *)
Attempt(p) ==
    /\ Goto(p, "idle", "list")
    /\ attempts < MaxAttempts
    /\ attempts' = attempts + 1
    /\ run' = [run EXCEPT ![p] = attempts + 1]
    /\ \E t \in Triggers :
        /\ t = "auto" => ~refused
        /\ trigger' = [trigger EXCEPT ![p] = t]
        /\ phase' = [phase EXCEPT ![p] = IF t = "reuse" THEN "launch" ELSE "prepare"]
    /\ UNCHANGED <<files, started, refused, gen, seen, round, held, raced>>

(* The executor claims a prepared resume again before it launches it. *)
Execute(p) ==
    /\ Goto(p, "prepared", "list")
    /\ phase' = [phase EXCEPT ![p] = "launch"]
    /\ UNCHANGED <<files, started, refused, attempts, run, trigger, gen, seen, round, held, raced>>

(* claimWorkflowResume returns, and its locals are gone. *)
Return(p, to) ==
    /\ pc' = [pc EXCEPT ![p] = to]
    /\ gen' = [gen EXCEPT ![p] = 0]
    /\ seen' = [seen EXCEPT ![p] = NoClaim]
    /\ round' = [round EXCEPT ![p] = 0]

(* "owner". *)
Win(p) == Return(p, IF phase[p] = "launch" THEN "launch" ELSE "prepared")

(* "resumed", "busy" or "unreadable": the claim of somebody else stands. *)
Yield(p) == Return(p, IF phase[p] = "launch" /\ trigger[p] # "reuse" THEN "refused" ELSE "idle")

Proceed(p, to) ==
    /\ pc' = [pc EXCEPT ![p] = to]
    /\ UNCHANGED <<gen, seen, round>>

(* readTopClaim lists the directory.  A released generation above every     *)
(* claim file leaves the run open.                                          *)
List(p) ==
    /\ \E l, r \in 0..MaxGen :
        /\ Highest(Live, l) /\ Highest(released, r)
        /\ IF r > l \/ l = 0
           THEN Goto(p, "list", "create") /\ gen' = [gen EXCEPT ![p] = IF r > l THEN r ELSE l]
           ELSE Goto(p, "list", "read") /\ gen' = [gen EXCEPT ![p] = l]
    /\ UNCHANGED <<files, started, refused, attempts, attempt, seen, round, held, raced>>

(* Mutant: any claim of this process is taken for the claim of this run. *)
ReadPid(p) ==
    /\ pc[p] = "read"
    /\ IF claims[gen[p]] # NoClaim /\ claims[gen[p]].pid = p
       THEN Win(p) /\ held' = [held EXCEPT ![p] = @ \cup {gen[p]}]
       ELSE /\ pc' = [pc EXCEPT ![p] = IF claims[gen[p]] = NoClaim THEN "list" ELSE "check"]
            /\ seen' = [seen EXCEPT ![p] = claims[gen[p]]]
            /\ UNCHANGED <<gen, round, held>>
    /\ UNCHANGED <<files, started, refused, attempts, attempt, raced>>

(* Then it reads the file with the highest generation; a file that was      *)
(* renamed in between makes it list again.  The claim of this very run is   *)
(* recognised.                                                              *)
Read(p) ==
    /\ pc[p] = "read"
    /\ IF claims[gen[p]] = Mine(p)
       THEN Win(p) /\ held' = [held EXCEPT ![p] = @ \cup {gen[p]}]
       ELSE /\ pc' = [pc EXCEPT ![p] = IF claims[gen[p]] = NoClaim THEN "list" ELSE "check"]
            /\ seen' = [seen EXCEPT ![p] = claims[gen[p]]]
            /\ UNCHANGED <<gen, round, held>>
    /\ UNCHANGED <<files, started, refused, attempts, attempt, raced>>

(* A read that fails otherwise proves nothing about the claimant. *)
Unreadable(p) ==
    /\ pc[p] = "read"
    /\ Yield(p)
    /\ UNCHANGED <<files, started, refused, attempts, attempt, held, raced>>

(* Mutant: the status file of the claimed run is not looked for. *)
CheckStartedNot(p) ==
    /\ pc[p] = "check"
    /\ Proceed(p, "probe")
    /\ UNCHANGED <<files, started, refused, attempts, attempt, held, raced>>

(* resumedRunStarted: the claimed run's status file is looked for first, ... *)
CheckStarted(p) ==
    /\ pc[p] = "check"
    /\ IF seen[p].run \in started THEN Yield(p) ELSE Proceed(p, "probe")
    /\ UNCHANGED <<files, started, refused, attempts, attempt, held, raced>>

(* Mutant: a claim counts until it is given back. *)
ClaimantAlways(p, q, g) == TRUE

(* claimantLiveness: a claim with this process's id counts only while this   *)
(* process holds it.                                                        *)
ClaimantAlive(p, q, g) == IF q = p THEN g \in held[p] ELSE pc[q] # "dead"

(* ... and the claimant is probed after that. *)
Probe(p) ==
    /\ pc[p] = "probe"
    /\ IF ClaimantAlive(p, seen[p].pid, gen[p]) THEN Yield(p) ELSE Proceed(p, "create")
    /\ UNCHANGED <<files, started, refused, attempts, attempt, held, raced>>

(* Mutant: the claim file is written over whatever is there. *)
CreateOver(p) ==
    /\ pc[p] = "create" /\ gen[p] < MaxGen
    /\ claims' = [claims EXCEPT ![gen[p] + 1] = Mine(p)]
    /\ held' = [held EXCEPT ![p] = @ \cup {gen[p] + 1}]
    /\ Win(p)
    /\ UNCHANGED <<released, started, refused, attempts, attempt, raced>>

(* createClaimFile: the next generation, with its whole body at once, only   *)
(* if no file of that name exists.                                          *)
Create(p) ==
    /\ pc[p] = "create" /\ gen[p] < MaxGen
    /\ claims[gen[p] + 1] = NoClaim
    /\ claims' = [claims EXCEPT ![gen[p] + 1] = Mine(p)]
    /\ held' = [held EXCEPT ![p] = @ \cup {gen[p] + 1}]
    /\ Win(p)
    /\ UNCHANGED <<released, started, refused, attempts, attempt, raced>>

(* Mutant: one round too many. *)
LostLate(p) ==
    /\ pc[p] = "create" /\ gen[p] < MaxGen
    /\ claims[gen[p] + 1] # NoClaim
    /\ IF round[p] = MaxRounds
       THEN Yield(p)
       ELSE /\ pc' = [pc EXCEPT ![p] = "list"]
            /\ round' = [round EXCEPT ![p] = @ + 1]
            /\ UNCHANGED <<gen, seen>>
    /\ UNCHANGED <<files, started, refused, attempts, attempt, held, raced>>

(* Another taker created that generation first: decide again from its claim, *)
(* for MaxRounds rounds.                                                    *)
Lost(p) ==
    /\ pc[p] = "create" /\ gen[p] < MaxGen
    /\ claims[gen[p] + 1] # NoClaim
    /\ IF round[p] + 1 = MaxRounds
       THEN Yield(p)
       ELSE /\ pc' = [pc EXCEPT ![p] = "list"]
            /\ round' = [round EXCEPT ![p] = @ + 1]
            /\ UNCHANGED <<gen, seen>>
    /\ UNCHANGED <<files, started, refused, attempts, attempt, held, raced>>

-----------------------------------------------------------------------------
(* Another taker's listing is older than generation g, which it may create. *)
Straddled(p, g) ==
    \E q \in Proc \ {p} : pc[q] \in {"read", "check", "probe", "create"} /\ gen[q] + 1 = g

(* releaseWorkflowResumeClaim: the current claim is moved aside if it is of  *)
(* this attempt.                                                            *)
MoveAside(p) ==
    \E g \in 0..MaxGen :
        /\ Highest(Live \cup released, g)
        /\ IF g \in Live /\ claims[g] = Mine(p)
           THEN /\ raced' = (raced \/ Straddled(p, g))
                /\ claims' = [claims EXCEPT ![g] = NoClaim]
                /\ released' = released \cup {g}
                /\ held' = [held EXCEPT ![p] = @ \ {g}]
           ELSE UNCHANGED <<files, held, raced>>

(* The launch was refused, or failed before the first status was written.    *)
GiveBack(p) ==
    /\ pc[p] \in {"prepared", "launch", "refused"}
    /\ pc' = [pc EXCEPT ![p] = "idle"]
    /\ MoveAside(p)
    /\ refused' = (refused \/ trigger[p] = "auto")
    /\ UNCHANGED <<started, attempts, attempt, gen, seen, round>>

(* cancelPendingWorkflowAutoResumes: a planned launch that has not begun. *)
Cancel(p) ==
    /\ Goto(p, "prepared", "cancelled")
    /\ trigger[p] = "auto"
    /\ MoveAside(p)
    /\ UNCHANGED <<started, refused, attempts, attempt, gen, seen, round>>

(* The next scan claims a cancelled run again under the same run id. *)
Replan(p) ==
    /\ Goto(p, "cancelled", "list")
    /\ ~refused
    /\ attempts < MaxAttempts
    /\ attempts' = attempts + 1
    /\ phase' = [phase EXCEPT ![p] = "prepare"]
    /\ UNCHANGED <<files, started, refused, run, trigger, gen, seen, round, held, raced>>

(* The launch writes the new run's first status. *)
Start(p) ==
    /\ Goto(p, "launch", "running")
    /\ started' = started \cup {run[p]}
    /\ UNCHANGED <<files, refused, attempts, attempt, gen, seen, round, held, raced>>

(* The continuation ends; its process lives on. *)
End(p) ==
    /\ Goto(p, "running", "idle")
    /\ UNCHANGED <<files, started, refused, attempts, attempt, gen, seen, round, held, raced>>

(* A taker has found p's run not started, and will ask only whether p lives. *)
StartedUnseen(p) ==
    \E q \in Proc : pc[q] = "probe" /\ seen[q].pid = p /\ seen[q].run \in started

Die(p) ==
    /\ pc[p] # "dead"
    /\ raced' = (raced \/ StartedUnseen(p))
    /\ Return(p, "dead")
    /\ UNCHANGED <<files, started, refused, attempts, attempt, held>>

(* A new process with the same id holds no claims. *)
Restart(p) ==
    /\ Goto(p, "dead", "idle")
    /\ held' = [held EXCEPT ![p] = {}]
    /\ UNCHANGED <<files, started, refused, attempts, attempt, gen, seen, round, raced>>

Take(p) == List(p) \/ Read(p) \/ CheckStarted(p) \/ Probe(p) \/ Create(p) \/ Lost(p)
Launching(p) == Execute(p) \/ Start(p) \/ GiveBack(p) \/ End(p)
Environment(p) == Attempt(p) \/ Replan(p) \/ Cancel(p) \/ Unreadable(p) \/ Die(p) \/ Restart(p)

Next == \E p \in Proc : Take(p) \/ Launching(p) \/ Environment(p)

Spec == Init /\ [][Next]_vars

(* claimWorkflowResume is synchronous: a process that is in it goes on. *)
FairSpec == Spec /\ \A p \in Proc : WF_vars(Take(p))
-----------------------------------------------------------------------------
(* "Only the owner launches": however many processes try, die and come back, *)
(* the stopped run is continued by one run; unless a claim was given back    *)
(* between a taker's listing and its link, or a claimant started and died    *)
(* between a taker's look for its status and its probe.                     *)
SingleContinuation == raced \/ \A r, s \in started : r = s

(* "Once the claimed new run's status.json exists the claim is permanent":   *)
(* no later step creates a generation or gives one back, as long as none of  *)
(* the two happens.                                                         *)
ClaimPermanent == [][started # {} /\ ~raced => UNCHANGED files]_vars

(* A claimant that died before its launch does not keep the run from being   *)
(* continued: a taker that has read its claim gets past it, or finds that    *)
(* another taker has, or that the process id is in use again.                *)
Abandoned(g) ==
    /\ Highest(Live \cup released, g)
    /\ g \in Live
    /\ claims[g].run \notin started
    /\ pc[claims[g].pid] = "dead"
DeadClaimSuperseded ==
    \A p \in Proc :
        (pc[p] = "check" /\ Abandoned(gen[p])) ~> (pc[p] = "dead" \/ \A g \in Gen : ~Abandoned(g))

(* A process owns the run from its claim to its launch, the second claim of  *)
(* a resume included.                                                       *)
Owner == {p \in Proc :
    \/ pc[p] \in {"prepared", "launch"}
    \/ pc[p] \in Claiming /\ phase[p] = "launch" /\ trigger[p] # "reuse"}

Once == INSTANCE ContinueOnce WITH owner <- Owner, continued <- started

(* Every step of the claim files is a step of what they promise, up to the    *)
(* first of these races: one owner at a time, one continuation ever.        *)
ImplementsOnce == Once!Init /\ [][Once!Next \/ raced']_(Once!onceVars)
=============================================================================
