------------------------- MODULE ResumeClaim_proof --------------------------
(***************************************************************************)
(* Theorems about ResumeClaim, for any number of processes, attempts,      *)
(* generations and rounds, and with every interleaving.  The safety        *)
(* theorems speak of a run up to its first race: a generation given back   *)
(* between a taker's listing and its link, or a claimant that starts and   *)
(* dies between a taker's two looks.                                       *)
(***************************************************************************)
EXTENDS ResumeClaim, TLAPS

(* A generation whose file name was ever used; the highest one. *)
Used == Live \cup released
Top(g) == Highest(Used, g)

(* What the files say. *)
Contiguous == \A g \in Used : \A h \in Gen : h < g => h \in Used
Disjoint == Live \cap released = {}
FileRuns == started \subseteq 1..attempts /\ \A g \in Live : claims[g].run <= attempts
StartedOnTop == started # {} => \E g \in Live : Top(g) /\ started = {claims[g].run}

(* A run id belongs to one process for as long as the process uses it. *)
OwnRun == \A p, q \in Proc : run[p] = run[q] /\ run[p] # 0 => p = q
OwnClaim == \A g \in Live : \A p \in Proc : claims[g].run = run[p] => claims[g].pid = p
OwnSeen == \A q, p \in Proc : seen[q] # NoClaim /\ seen[q].run = run[p] => seen[q].pid = p

(* What holds of each process: its run, ... *)
KnownRun(p) ==
    /\ run[p] <= attempts /\ (pc[p] \notin {"idle", "dead"} => run[p] # 0)
    /\ seen[p] # NoClaim => seen[p].run <= attempts
StartedRun(p) == run[p] \in started => pc[p] \in {"running", "idle", "dead"}
Phases(p) ==
    /\ trigger[p] = "reuse" => phase[p] = "launch" /\ pc[p] # "prepared"
    /\ pc[p] = "cancelled" => trigger[p] = "auto"

(* ... the generation it listed: it was used, and nobody gives back the next *)
(* one while this process may create it, ...                                *)
Listed(p) == pc[p] \in {"read", "check", "probe", "create"} =>
    /\ gen[p] = 0 \/ gen[p] \in Used
    /\ gen[p] + 1 \notin released
    /\ pc[p] = "read" => gen[p] \in Gen
SeenKept(p) == pc[p] \in {"check", "probe"} =>
    gen[p] \in Gen /\ seen[p] \in Claim /\ claims[gen[p]] \in {seen[p], NoClaim}
ProbeLive(p) == pc[p] = "probe" /\ seen[p].run \in started =>
    seen[p].pid # p /\ pc[seen[p].pid] # "dead"
(* a taker that may create the generation above the highest one is right to  *)
(* do so: nobody owns the run, and it has not been continued;               *)
CreateOpen(p) == pc[p] = "create" /\ Top(gen[p]) => Owner = {} /\ started = {}

(* ... and what it owns: an owner has the highest generation. *)
OwnerTop(p) == p \in Owner => \E g \in Gen : Top(g) /\ claims[g] = Mine(p)
OwnerPlace(p) == p \in Owner => pc[p] \notin {"check", "probe", "create"} /\ (pc[p] = "read" => Top(gen[p]))
OwnerClaims(p) == \A g \in Gen :
    pc[p] \in Claiming \cup {"cancelled"} /\ claims[g] = Mine(p) => p \in Owner
OneClaim(p) == \A g, h \in Live : claims[g] = Mine(p) /\ claims[h] = Mine(p) => g = h

FileInv == Contiguous /\ Disjoint /\ FileRuns /\ StartedOnTop
RunInv == OwnRun /\ OwnClaim /\ OwnSeen
(* The parts that a step of p itself must establish for p. *)
Local(p) ==
    /\ KnownRun(p) /\ StartedRun(p) /\ Phases(p)
    /\ Listed(p) /\ SeenKept(p) /\ ProbeLive(p) /\ CreateOpen(p)
    /\ OwnerPlace(p) /\ OwnerClaims(p)
ProcInv(p) == Local(p) /\ OwnerTop(p) /\ OneClaim(p)

IInv == TypeOK /\ FileInv /\ RunInv /\ \A p \in Proc : ProcInv(p)

-----------------------------------------------------------------------------
(* A step of p that leaves the files alone.  Its run is the one it had, or a *)
(* new one; what it has seen is a claim file; it does not become an owner;   *)
(* and it does not die under a taker that has missed its start.              *)
Quiet(p) ==
    /\ UNCHANGED <<files, started>>
    /\ attempts' \in {attempts, attempts + 1}
    /\ \A q \in Proc \ {p} :
        /\ pc'[q] = pc[q] /\ run'[q] = run[q] /\ trigger'[q] = trigger[q]
        /\ phase'[q] = phase[q] /\ gen'[q] = gen[q] /\ seen'[q] = seen[q]
    /\ run'[p] = run[p] \/ (run'[p] = attempts + 1 /\ attempts' = attempts + 1)
    /\ seen'[p] \in {seen[p], NoClaim} \/ \E g \in Live : seen'[p] = claims[g]
    /\ p \in Owner' => p \in Owner /\ run'[p] = run[p]
    /\ pc'[p] = "dead" => ~StartedUnseen(p)

(* A new run id is in no claim file. *)
LEMMA FreshUnclaimed ==
    ASSUME IInv, TypeOK', NEW q \in Proc, NEW g \in Gen, run'[q] = attempts + 1
    PROVE  claims[g] # Mine(q)'
<1> SUFFICES ASSUME claims[g] = Mine(q)' PROVE FALSE
  OBVIOUS
<1>1. attempts \in Nat
  BY DEF IInv, TypeOK
<1>2. run'[q] \in Run
  BY <1>1 DEF TypeOK, Run
<1>3. Mine(q)' \in Claim /\ claims[g].run = attempts + 1
  BY <1>2 DEF Mine, Claim
<1>4. g \in Live
  BY <1>3, ResumeConstants DEF Live
<1> QED  BY <1>1, <1>3, <1>4 DEF IInv, FileInv, FileRuns

(* Quiet steps keep what is said of the files. *)
LEMMA QuietFiles ==
    ASSUME IInv, TypeOK', NEW p \in Proc, Quiet(p)
    PROVE  FileInv'
<1>1. claims' = claims /\ released' = released /\ started' = started /\ Live' = Live /\ Used' = Used
  BY DEF Quiet, files, Live, Used
<1>2. Contiguous' /\ Disjoint'
  BY <1>1 DEF IInv, FileInv, Contiguous, Disjoint
<1>3. FileRuns'
  BY <1>1, ResumeConstants DEF IInv, FileInv, FileRuns, Quiet, TypeOK, Live, Claim, Run
<1>4. StartedOnTop'
  BY <1>1 DEF IInv, FileInv, StartedOnTop, Top
<1> QED  BY <1>2, <1>3, <1>4 DEF FileInv

(* ... and of the run ids. *)
LEMMA QuietRuns ==
    ASSUME IInv, TypeOK', NEW p \in Proc, Quiet(p)
    PROVE  RunInv'
<1>1. claims' = claims /\ Live' = Live
  BY DEF Quiet, files, Live
<1>2. \A q \in Proc : run[q] \in Nat /\ run[q] <= attempts
  BY ResumeConstants DEF IInv, ProcInv, Local, KnownRun, TypeOK
<1>3. \A g \in Live : claims[g].run \in Nat /\ claims[g].run <= attempts
  BY DEF IInv, FileInv, FileRuns, TypeOK, Live, Claim, Run
<1>4. \A q \in Proc : seen[q] # NoClaim => seen[q].run \in Nat /\ seen[q].run <= attempts
  BY DEF IInv, ProcInv, Local, KnownRun, TypeOK, Claim, Run
<1>5. attempts \in Nat
  BY DEF IInv, TypeOK
<1>6. OwnRun'
  BY <1>2, <1>5 DEF IInv, RunInv, OwnRun, Quiet
<1>7. OwnClaim'
  BY <1>1, <1>2, <1>3, <1>5 DEF IInv, RunInv, OwnClaim, Quiet
<1>8. \A q \in Proc : seen'[q] # NoClaim =>
        seen'[q] = seen[q] \/ \E g \in Live : seen'[q] = claims[g]
  BY DEF Quiet
<1>9. OwnSeen'
  <2> SUFFICES ASSUME NEW q \in Proc, NEW r \in Proc, seen'[q] # NoClaim, seen'[q].run = run'[r]
               PROVE  seen'[q].pid = r
    BY DEF OwnSeen
  <2>1. seen'[q].run \in Nat /\ seen'[q].run <= attempts
    BY <1>3, <1>4, <1>8
  <2>2. run'[r] = run[r]
    BY <2>1, <1>5 DEF Quiet
  <2> QED  BY <1>8, <2>2 DEF IInv, RunInv, OwnClaim, OwnSeen
<1> QED  BY <1>6, <1>7, <1>9 DEF RunInv

(* ... and of each process, if the process that moves says so of itself. *)
LEMMA QuietProcs ==
    ASSUME IInv, TypeOK', NEW p \in Proc, Quiet(p), Local(p)', NEW q \in Proc
    PROVE  ProcInv(q)'
<1>1. /\ claims' = claims /\ released' = released /\ started' = started
      /\ Live' = Live /\ Used' = Used /\ attempts <= attempts' /\ attempts' \in Nat /\ attempts \in Nat
  BY DEF Quiet, files, Live, Used, IInv, TypeOK
<1>2. \A g : Top(g)' <=> Top(g)
  BY <1>1 DEF Top
<1>3. Owner' \subseteq Owner
  BY DEF Quiet, Owner
<1>4. OwnerTop(q)'
  BY <1>1, <1>2, <1>3 DEF Quiet, OwnerTop, Mine, IInv, ProcInv
<1>5. OneClaim(q)'
  <2>1. CASE run'[q] = run[q]
    BY <1>1, <2>1 DEF OneClaim, Mine, IInv, ProcInv
  <2>2. CASE run'[q] = attempts + 1
    BY <1>1, <2>2, FreshUnclaimed DEF OneClaim, Live
  <2> QED  BY <2>1, <2>2 DEF Quiet
<1>6. Local(q)'
  <2>1. CASE q = p
    BY <2>1
  <2> SUFFICES ASSUME q # p PROVE Local(q)'
    BY <2>1
  <2>2. /\ pc'[q] = pc[q] /\ run'[q] = run[q] /\ trigger'[q] = trigger[q]
        /\ phase'[q] = phase[q] /\ gen'[q] = gen[q] /\ seen'[q] = seen[q]
    BY DEF Quiet
  <2>3. q \in Owner' <=> q \in Owner
    BY <2>2 DEF Owner
  <2>4. ProcInv(q)
    BY DEF IInv
  <2>5. KnownRun(q)' /\ StartedRun(q)' /\ Phases(q)'
    BY <1>1, <2>2, <2>4 DEF ProcInv, Local, KnownRun, StartedRun, Phases, IInv, TypeOK, Claim, Run
  <2>6. Listed(q)' /\ SeenKept(q)'
    BY <1>1, <2>2, <2>4 DEF ProcInv, Local, Listed, SeenKept
  <2>7. ProbeLive(q)'
    BY <1>1, <2>2, <2>4 DEF ProcInv, Local, ProbeLive, Quiet, StartedUnseen, IInv, SeenKept, Claim
  <2>8. CreateOpen(q)'
    BY <1>1, <1>2, <1>3, <2>2, <2>4 DEF ProcInv, Local, CreateOpen
  <2>9. OwnerPlace(q)' /\ OwnerClaims(q)'
    BY <1>1, <1>2, <2>2, <2>3, <2>4 DEF ProcInv, Local, OwnerPlace, OwnerClaims, Mine
  <2> QED  BY <2>5, <2>6, <2>7, <2>8, <2>9 DEF Local
<1> QED  BY <1>4, <1>5, <1>6 DEF ProcInv

(* A step after which nobody has become an owner, and nothing has started. *)
Lessens == Owner' \subseteq Owner /\ started' = started

(* So a quiet step keeps the invariant. *)
LEMMA QuietStep ==
    ASSUME IInv, TypeOK', NEW p \in Proc, Quiet(p), Local(p)'
    PROVE  IInv' /\ Lessens
<1>1. IInv'
  BY QuietFiles, QuietRuns, QuietProcs DEF IInv
<1>2. Lessens
  BY DEF Quiet, Owner, Lessens
<1> QED  BY <1>1, <1>2

(* A new attempt has a run id that no file and no process has. *)
LEMMA AttemptStep ==
    ASSUME IInv, NEW p \in Proc, Attempt(p)
    PROVE  IInv' /\ Lessens
<1>1. ProcInv(p) /\ TypeOK
  BY DEF IInv
<1>2. TypeOK'
  BY <1>1, ResumeConstants, SMTT(30) DEF TypeOK, Claim, Run, Gen, PCs, Claiming, Attempt, Goto, attempt, files
<1>3. Quiet(p)
  BY <1>1, ResumeConstants DEF Quiet, Attempt, Goto, attempt, files, TypeOK, Owner, Claiming, ProcInv, Local, Phases
<1>4. KnownRun(p)' /\ Phases(p)'
  BY <1>1 DEF ProcInv, Local, KnownRun, Claim, Run, Phases, Attempt, Goto, attempt, files, TypeOK
<1>5. StartedRun(p)'
  BY <1>1 DEF IInv, FileInv, FileRuns, StartedRun, Attempt, Goto, TypeOK
<1>6. Listed(p)' /\ SeenKept(p)' /\ ProbeLive(p)' /\ CreateOpen(p)'
  BY <1>1 DEF ProcInv, Local, Listed, SeenKept, ProbeLive, CreateOpen, Attempt, Goto, attempt, files, TypeOK
<1>7. OwnerPlace(p)'
  BY <1>1 DEF ProcInv, Local, OwnerPlace, Owner, Claiming, Attempt, Goto, attempt, files, TypeOK
<1>8. OwnerClaims(p)'
  <2>1. claims' = claims /\ run'[p] = attempts + 1
    BY <1>1 DEF Attempt, files, TypeOK
  <2> QED  BY <1>2, <2>1, FreshUnclaimed DEF OwnerClaims
<1> QED  BY <1>2, <1>3, <1>4, <1>5, <1>6, <1>7, <1>8, QuietStep DEF Local

(* An owner goes on to its second claim as an owner. *)
LEMMA ExecuteStep ==
    ASSUME IInv, NEW p \in Proc, Execute(p)
    PROVE  IInv' /\ Lessens
<1>1. ProcInv(p) /\ TypeOK
  BY DEF IInv
<1>2. TypeOK'
  BY <1>1, ResumeConstants DEF TypeOK, Claim, Run, Gen, PCs, Claiming, Execute, Goto, attempt, files
<1>3. Quiet(p)
  BY <1>1, ResumeConstants DEF Quiet, Execute, Goto, attempt, files, TypeOK, Owner, Claiming, ProcInv, Local, Phases
<1>4. KnownRun(p)' /\ StartedRun(p)' /\ Phases(p)'
  BY <1>1 DEF ProcInv, Local, KnownRun, Claim, Run, StartedRun, Phases, Execute, Goto, attempt, files, TypeOK
<1>5. Listed(p)' /\ SeenKept(p)' /\ ProbeLive(p)' /\ CreateOpen(p)'
  BY <1>1 DEF ProcInv, Local, Listed, SeenKept, ProbeLive, CreateOpen, Execute, Goto, attempt, files, TypeOK
<1>6. OwnerPlace(p)'
  BY <1>1 DEF ProcInv, Local, OwnerPlace, Owner, Claiming, Execute, Goto, attempt, files, TypeOK
<1>7. OwnerClaims(p)'
  <2>1. p \in Owner'
    BY <1>1 DEF ProcInv, Local, Phases, Owner, Claiming, Execute, Goto, TypeOK
  <2> QED  BY <2>1 DEF OwnerClaims
<1> QED  BY <1>2, <1>3, <1>4, <1>5, <1>6, <1>7, QuietStep DEF Local

(* A taker that lists sees an owner's claim, if there is one, as the
   current one. *)
LEMMA ListStep ==
    ASSUME IInv, NEW p \in Proc, List(p)
    PROVE  IInv' /\ Lessens
<1>1. ProcInv(p) /\ TypeOK
  BY DEF IInv
<1>2. PICK l, r \in 0..MaxGen :
        /\ Highest(Live, l) /\ Highest(released, r)
        /\ IF r > l \/ l = 0
           THEN Goto(p, "list", "create") /\ gen' = [gen EXCEPT ![p] = IF r > l THEN r ELSE l]
           ELSE Goto(p, "list", "read") /\ gen' = [gen EXCEPT ![p] = l]
  BY DEF List
<1>3. UNCHANGED <<claims, released, started, refused, attempts, run, trigger, phase, seen, round,
                  held, raced>>
  BY DEF List, files, attempt
<1>4. /\ pc[p] = "list" /\ gen'[p] = IF r > l THEN r ELSE l
      /\ pc'[p] = IF r > l \/ l = 0 THEN "create" ELSE "read"
      /\ gen' = [gen EXCEPT ![p] = gen'[p]] /\ pc' = [pc EXCEPT ![p] = pc'[p]]
  BY <1>1, <1>2 DEF Goto, TypeOK
<1>5. Live' = Live /\ Used' = Used /\ \A g : Top(g)' <=> Top(g)
  BY <1>3 DEF Live, Used, Top
<1>6. Live \subseteq Gen /\ released \subseteq Gen /\ Gen \subseteq Nat /\ Used = Live \cup released
  BY <1>1 DEF TypeOK, Live, Used, Gen
<1>7. TypeOK'
  BY <1>1, <1>3, <1>4 DEF TypeOK, PCs, Claiming
<1>8. Owner' = Owner
  BY <1>1, <1>3, <1>4 DEF Owner, Claiming, TypeOK
<1>9. Quiet(p)
  BY <1>1, <1>3, <1>4, <1>8 DEF Quiet, files, TypeOK
<1>10. r > l \/ l = 0 => \A g \in Live : ~Top(g)
  BY <1>2, <1>6 DEF Top, Highest, Gen, IInv, FileInv, Disjoint
<1>11. KnownRun(p)' /\ StartedRun(p)' /\ Phases(p)' /\ SeenKept(p)' /\ ProbeLive(p)'
  BY <1>1, <1>3, <1>4 DEF ProcInv, Local, KnownRun, StartedRun, Phases, SeenKept, ProbeLive
<1>12. Listed(p)'
  BY <1>2, <1>3, <1>4, <1>5, <1>6, ResumeConstants DEF Listed, Highest, Gen, IInv, FileInv, Disjoint
<1>13. Mine(p)' = Mine(p) /\ \A q \in Proc : \A g \in Gen : q \in Owner /\ claims[g] = Mine(q) => g \in Live
  BY <1>1, <1>3, ResumeConstants DEF Mine, TypeOK, Live, IInv, ProcInv, Local, KnownRun, Owner, Claim, Run, Claiming
<1>14. CreateOpen(p)'
  <2>1. r > l \/ l = 0 => Owner = {} /\ started = {}
    BY <1>10, <1>13 DEF IInv, FileInv, StartedOnTop, ProcInv, OwnerTop, Owner
  <2> QED  BY <1>3, <1>4, <1>8, <2>1 DEF CreateOpen
<1>15. OwnerPlace(p)'
  <2> SUFFICES ASSUME p \in Owner PROVE pc'[p] = "read" /\ Top(gen'[p])
    BY <1>5, <1>8, <1>4 DEF OwnerPlace
  <2>1. PICK g \in Live : Top(g)
    BY <1>1, <1>13 DEF ProcInv, OwnerTop
  <2>2. ~(r > l \/ l = 0) /\ g = l
    BY <1>2, <1>6, <1>10, <2>1 DEF Top, Highest, Gen
  <2> QED  BY <1>4, <2>1, <2>2
<1>16. OwnerClaims(p)'
  BY <1>1, <1>3, <1>4, <1>8, <1>13 DEF ProcInv, Local, OwnerClaims, Claiming
<1> QED  BY <1>7, <1>9, <1>11, <1>12, <1>14, <1>15, <1>16, QuietStep DEF Local

(* A taker that reads its own claim is the owner; one that reads
   another's is not. *)
LEMMA ReadStep ==
    ASSUME IInv, NEW p \in Proc, Read(p)
    PROVE  IInv' /\ Lessens
<1>1. ProcInv(p) /\ TypeOK
  BY DEF IInv
<1>2. pc[p] = "read" /\ gen[p] \in Gen
  BY <1>1 DEF Read, ProcInv, Local, Listed
<1>3. UNCHANGED <<claims, released, started, refused, attempts, run, trigger, phase, raced>>
  BY DEF Read, files, attempt
<1>4. Live' = Live /\ Used' = Used /\ \A g : Top(g)' <=> Top(g)
  BY <1>3 DEF Live, Used, Top
<1>5. CASE claims[gen[p]] = Mine(p)
  <2>1. /\ pc' = [pc EXCEPT ![p] = IF phase[p] = "launch" THEN "launch" ELSE "prepared"]
        /\ gen' = [gen EXCEPT ![p] = 0] /\ seen' = [seen EXCEPT ![p] = NoClaim]
        /\ round' = [round EXCEPT ![p] = 0] /\ held' = [held EXCEPT ![p] = @ \cup {gen[p]}]
    BY <1>5 DEF Read, Win, Return
  <2>2. TypeOK'
    BY <1>1, <1>2, <1>3, <2>1, ResumeConstants DEF TypeOK, PCs
  <2>3. p \in Owner
    BY <1>1, <1>2, <1>5 DEF ProcInv, Local, OwnerClaims, Claiming
  <2>4. pc'[p] = (IF phase[p] = "launch" THEN "launch" ELSE "prepared") /\ seen'[p] = NoClaim
    BY <1>1, <2>1 DEF TypeOK
  <2>5. Quiet(p)
    BY <1>1, <1>3, <2>1, <2>3, <2>4 DEF Quiet, files, TypeOK
  <2>6. KnownRun(p)' /\ Listed(p)' /\ SeenKept(p)' /\ ProbeLive(p)' /\ CreateOpen(p)'
    BY <1>1, <1>2, <1>3, <2>4 DEF ProcInv, Local, KnownRun, Listed, SeenKept, ProbeLive, CreateOpen
  <2>7. Phases(p)' /\ StartedRun(p)' /\ OwnerPlace(p)' /\ OwnerClaims(p)'
    BY <1>1, <1>2, <1>3, <2>4 DEF ProcInv, Local, Phases, StartedRun, OwnerPlace, OwnerClaims, Claiming
  <2> QED  BY <2>2, <2>5, <2>6, <2>7, QuietStep DEF Local
<1>6. CASE claims[gen[p]] # Mine(p)
  <2>1. /\ pc' = [pc EXCEPT ![p] = IF claims[gen[p]] = NoClaim THEN "list" ELSE "check"]
        /\ seen' = [seen EXCEPT ![p] = claims[gen[p]]] /\ UNCHANGED <<gen, round, held>>
    BY <1>6 DEF Read
  <2>2. TypeOK'
    BY <1>1, <1>2, <1>3, <2>1 DEF TypeOK, PCs, Claiming
  <2>3. p \notin Owner
    BY <1>1, <1>2, <1>6 DEF ProcInv, Local, OwnerPlace, OwnerTop, Top, Highest, Gen
  <2>4. /\ pc'[p] = (IF claims[gen[p]] = NoClaim THEN "list" ELSE "check") /\ seen'[p] = claims[gen[p]]
        /\ gen'[p] = gen[p]
    BY <1>1, <2>1 DEF TypeOK
  <2>5. p \notin Owner'
    BY <1>2, <1>3, <2>3, <2>4 DEF Owner, Claiming
  <2>6. Quiet(p)
    BY <1>1, <1>2, <1>3, <2>1, <2>4, <2>5 DEF Quiet, files, TypeOK, Live
  <2>7. claims[gen[p]] = NoClaim \/ (claims[gen[p]] \in Claim /\ gen[p] \in Live)
    BY <1>1, <1>2 DEF TypeOK, Live
  <2>8. KnownRun(p)' /\ Listed(p)' /\ SeenKept(p)' /\ ProbeLive(p)' /\ CreateOpen(p)'
    BY <1>1, <1>2, <1>3, <1>4, <2>4, <2>7 DEF ProcInv, Local, KnownRun, Listed, SeenKept, ProbeLive, CreateOpen, IInv, FileInv, FileRuns
  <2>9. Phases(p)' /\ StartedRun(p)' /\ OwnerPlace(p)'
    BY <1>1, <1>2, <1>3, <2>4, <2>5 DEF ProcInv, Local, Phases, StartedRun, OwnerPlace
  <2>10. OwnerClaims(p)'
    BY <1>1, <1>2, <1>3, <2>3 DEF ProcInv, Local, OwnerClaims, Claiming, Mine
  <2> QED  BY <2>2, <2>6, <2>8, <2>9, <2>10, QuietStep DEF Local
<1> QED  BY <1>5, <1>6

(* A taker that cannot read the claim gives way. *)
LEMMA UnreadableStep ==
    ASSUME IInv, NEW p \in Proc, Unreadable(p)
    PROVE  IInv' /\ Lessens
<1>1. ProcInv(p) /\ TypeOK
  BY DEF IInv
<1>2. TypeOK'
  BY <1>1, ResumeConstants DEF TypeOK, Claim, Run, Gen, PCs, Claiming, Unreadable, Yield, Return, attempt, files
<1>3. Quiet(p)
  BY <1>1, ResumeConstants DEF Quiet, Unreadable, Yield, Return, attempt, files, TypeOK, Owner, Claiming, ProcInv, Local, Phases
<1>4. KnownRun(p)' /\ StartedRun(p)' /\ Phases(p)'
  BY <1>1 DEF ProcInv, Local, KnownRun, Claim, Run, StartedRun, Phases, Unreadable, Yield, Return, attempt, files, TypeOK
<1>5. Listed(p)' /\ SeenKept(p)' /\ ProbeLive(p)' /\ CreateOpen(p)'
  BY <1>1 DEF ProcInv, Local, Listed, SeenKept, ProbeLive, CreateOpen, Unreadable, Yield, Return, attempt, files, TypeOK
<1>6. OwnerPlace(p)' /\ OwnerClaims(p)'
  BY <1>1 DEF ProcInv, Local, OwnerPlace, Owner, Claiming, OwnerClaims, Mine, Unreadable, Yield, Return, attempt, files, TypeOK
<1> QED  BY <1>2, <1>3, <1>4, <1>5, <1>6, QuietStep DEF Local

(* A taker that goes past the first look has seen a claim whose run had
   not started. *)
LEMMA CheckStartedStep ==
    ASSUME IInv, NEW p \in Proc, CheckStarted(p)
    PROVE  IInv' /\ Lessens
<1>1. ProcInv(p) /\ TypeOK
  BY DEF IInv
<1>2. TypeOK'
  <2>1. /\ gen' \in [Proc -> 0..MaxGen] /\ seen' \in [Proc -> Claim \cup {NoClaim}]
        /\ round' \in [Proc -> 0..(MaxRounds - 1)]
    BY <1>1, ResumeConstants DEF TypeOK, CheckStarted, Yield, Return, Proceed, attempt, files
  <2>2. pc' \in [Proc -> PCs]
    BY <1>1 DEF TypeOK, PCs, Claiming, CheckStarted, Yield, Return, Proceed, attempt, files
  <2> QED  BY <1>1, <2>1, <2>2 DEF TypeOK, CheckStarted, Yield, Return, Proceed, attempt, files
<1>3. p \notin Owner /\ p \notin Owner'
  BY <1>1 DEF ProcInv, Local, OwnerPlace, Owner, Claiming, CheckStarted, Yield, Return, Proceed, attempt, TypeOK
<1>4. Quiet(p)
  BY <1>1, ResumeConstants DEF Quiet, CheckStarted, Yield, Return, Proceed, attempt, files, TypeOK, Owner, Claiming, ProcInv, Local, Phases
<1>5. KnownRun(p)'
  BY <1>1 DEF ProcInv, Local, KnownRun, Claim, Run, CheckStarted, Yield, Return, Proceed, attempt, files, TypeOK
<1>6. StartedRun(p)'
  BY <1>1 DEF ProcInv, Local, StartedRun, CheckStarted, Yield, Return, Proceed, attempt, files, TypeOK
<1>7. Phases(p)'
  BY <1>1 DEF ProcInv, Local, Phases, CheckStarted, Yield, Return, Proceed, attempt, files, TypeOK
<1>8. SeenKept(p)'
  BY <1>1 DEF ProcInv, Local, SeenKept, CheckStarted, Yield, Return, Proceed, attempt, files, TypeOK
<1>9. ProbeLive(p)'
  BY <1>1 DEF ProcInv, Local, ProbeLive, CheckStarted, Yield, Return, Proceed, attempt, files, TypeOK
<1>10. CreateOpen(p)'
  BY <1>1 DEF ProcInv, Local, CreateOpen, CheckStarted, Yield, Return, Proceed, attempt, files, TypeOK
<1>11. Listed(p)'
  <2>1. claims' = claims /\ released' = released /\ Used' = Used
    BY DEF CheckStarted, files, Used, Live
  <2> QED  BY <1>1, <2>1 DEF ProcInv, Local, Listed, CheckStarted, Yield, Return, Proceed, attempt, files, TypeOK
<1>12. OwnerPlace(p)'
  BY <1>3 DEF OwnerPlace
<1>13. OwnerClaims(p)'
  BY <1>1, <1>3 DEF ProcInv, Local, OwnerClaims, Mine, Claiming, CheckStarted, Yield, Return, Proceed, attempt, files, TypeOK
<1> QED  BY <1>2, <1>4, <1>5, <1>6, <1>7, <1>8, <1>9, <1>10, <1>11, <1>12, <1>13, QuietStep DEF Local

(* A taker that goes past the probe knows that the claimant is gone and
   has not started: if the claim is still the highest, the run is open. *)
LEMMA ProbeStep ==
    ASSUME IInv, NEW p \in Proc, Probe(p)
    PROVE  IInv' /\ Lessens
<1>1. ProcInv(p) /\ TypeOK
  BY DEF IInv
<1>2. TypeOK'
  <2>1. /\ gen' \in [Proc -> 0..MaxGen] /\ seen' \in [Proc -> Claim \cup {NoClaim}]
        /\ round' \in [Proc -> 0..(MaxRounds - 1)]
    BY <1>1, ResumeConstants DEF TypeOK, Probe, Yield, Return, Proceed, attempt, files
  <2>2. pc' \in [Proc -> PCs]
    BY <1>1 DEF TypeOK, PCs, Claiming, Probe, Yield, Return, Proceed, attempt, files
  <2> QED  BY <1>1, <2>1, <2>2 DEF TypeOK, Probe, Yield, Return, Proceed, attempt, files
<1>3. p \notin Owner /\ p \notin Owner'
  BY <1>1 DEF ProcInv, Local, OwnerPlace, Owner, Claiming, Probe, Yield, Return, Proceed, attempt, TypeOK
<1>4. Quiet(p)
  BY <1>1, ResumeConstants DEF Quiet, Probe, Yield, Return, Proceed, attempt, files, TypeOK, Owner, Claiming, ProcInv, Local, Phases
<1>5. KnownRun(p)'
  BY <1>1 DEF ProcInv, Local, KnownRun, Claim, Run, Probe, Yield, Return, Proceed, attempt, files, TypeOK
<1>6. StartedRun(p)'
  BY <1>1 DEF ProcInv, Local, StartedRun, Probe, Yield, Return, Proceed, attempt, files, TypeOK
<1>7. Phases(p)'
  BY <1>1 DEF ProcInv, Local, Phases, Probe, Yield, Return, Proceed, attempt, files, TypeOK
<1>8. SeenKept(p)'
  BY <1>1 DEF ProcInv, Local, SeenKept, Probe, Yield, Return, Proceed, attempt, files, TypeOK
<1>9. ProbeLive(p)'
  BY <1>1 DEF ProcInv, Local, ProbeLive, Probe, Yield, Return, Proceed, attempt, files, TypeOK
<1>10. Listed(p)'
  <2>1. claims' = claims /\ released' = released /\ Used' = Used
    BY DEF Probe, files, Used, Live
  <2> QED  BY <1>1, <2>1 DEF ProcInv, Local, Listed, Probe, Yield, Return, Proceed, attempt, files, TypeOK
<1>11. CreateOpen(p)'
  <2> SUFFICES ASSUME pc'[p] = "create", Top(gen[p])' PROVE Owner' = {} /\ started' = {}
    BY DEF CreateOpen
  <2>1. /\ pc[p] = "probe" /\ gen'[p] = gen[p] /\ claims' = claims /\ released' = released
        /\ started' = started /\ ~ClaimantAlive(p, seen[p].pid, gen[p])
    BY <1>1 DEF Probe, Yield, Return, Proceed, files, TypeOK
  <2>2. Top(gen[p]) /\ gen[p] \in Gen /\ seen[p] \in Claim /\ claims[gen[p]] \in {seen[p], NoClaim}
    BY <1>1, <2>1 DEF Top, Highest, Used, Live, ProcInv, Local, SeenKept
  <2>3. \A g \in Gen : Top(g) => g = gen[p]
    BY <2>2 DEF Top, Highest, Gen
  <2>4. seen[p].run \notin started
    BY <1>1, <2>1, <2>2 DEF ProcInv, Local, ProbeLive, ClaimantAlive
  <2>5. started = {}
    BY <2>2, <2>3, <2>4 DEF IInv, FileInv, StartedOnTop, Live
  <2>6. ASSUME NEW q \in Owner PROVE FALSE
    <3>1. q \in Proc /\ claims[gen[p]] = Mine(q)
      BY <2>3 DEF Owner, IInv, ProcInv, OwnerTop
    <3>2. Mine(q) # NoClaim
      BY <3>1, <1>1, ResumeConstants DEF Mine, TypeOK, IInv, ProcInv, Local, KnownRun, Owner, Claim, Run, Claiming
    <3>3. seen[p].pid = q
      BY <2>2, <3>1, <3>2 DEF Mine
    <3>4. q = p
      BY <2>1, <3>1, <3>3 DEF ClaimantAlive, Owner, Claiming
    <3> QED  BY <1>3, <3>4
  <2>7. Owner' \subseteq Owner
    BY <1>4, <1>1 DEF Quiet, Owner
  <2> QED  BY <2>1, <2>5, <2>6, <2>7
<1>12. OwnerPlace(p)'
  BY <1>3 DEF OwnerPlace
<1>13. OwnerClaims(p)'
  BY <1>1, <1>3 DEF ProcInv, Local, OwnerClaims, Mine, Claiming, Probe, Yield, Return, Proceed, attempt, files, TypeOK
<1> QED  BY <1>2, <1>4, <1>5, <1>6, <1>7, <1>8, <1>9, <1>10, <1>11, <1>12, <1>13, QuietStep DEF Local

(* A taker that lost the link lists again, or gives way. *)
LEMMA LostStep ==
    ASSUME IInv, NEW p \in Proc, Lost(p)
    PROVE  IInv' /\ Lessens
<1>1. ProcInv(p) /\ TypeOK
  BY DEF IInv
<1>2. TypeOK'
  <2>1. /\ gen' \in [Proc -> 0..MaxGen] /\ seen' \in [Proc -> Claim \cup {NoClaim}]
        /\ round' \in [Proc -> 0..(MaxRounds - 1)]
    BY <1>1, ResumeConstants DEF TypeOK, Lost, Yield, Return, attempt, files
  <2>2. pc' \in [Proc -> PCs]
    BY <1>1 DEF TypeOK, PCs, Claiming, Lost, Yield, Return, attempt, files
  <2> QED  BY <1>1, <2>1, <2>2 DEF TypeOK, Lost, Yield, Return, attempt, files
<1>3. p \notin Owner /\ p \notin Owner'
  BY <1>1 DEF ProcInv, Local, OwnerPlace, Owner, Claiming, Lost, Yield, Return, attempt, TypeOK
<1>4. Quiet(p)
  BY <1>1, ResumeConstants DEF Quiet, Lost, Yield, Return, attempt, files, TypeOK, Owner, Claiming, ProcInv, Local, Phases
<1>5. KnownRun(p)'
  BY <1>1 DEF ProcInv, Local, KnownRun, Claim, Run, Lost, Yield, Return, attempt, files, TypeOK
<1>6. StartedRun(p)'
  BY <1>1 DEF ProcInv, Local, StartedRun, Lost, Yield, Return, attempt, files, TypeOK
<1>7. Phases(p)'
  BY <1>1 DEF ProcInv, Local, Phases, Lost, Yield, Return, attempt, files, TypeOK
<1>8. Listed(p)'
  BY <1>1 DEF ProcInv, Local, Listed, Lost, Yield, Return, attempt, files, TypeOK
<1>9. SeenKept(p)'
  BY <1>1 DEF ProcInv, Local, SeenKept, Lost, Yield, Return, attempt, files, TypeOK
<1>10. ProbeLive(p)'
  BY <1>1 DEF ProcInv, Local, ProbeLive, Lost, Yield, Return, attempt, files, TypeOK
<1>11. CreateOpen(p)'
  BY <1>1 DEF ProcInv, Local, CreateOpen, Lost, Yield, Return, attempt, files, TypeOK
<1>12. OwnerPlace(p)'
  BY <1>3 DEF OwnerPlace
<1>13. OwnerClaims(p)'
  BY <1>1, <1>3 DEF ProcInv, Local, OwnerClaims, Mine, Claiming, Lost, Yield, Return, attempt, files, TypeOK
<1> QED  BY <1>2, <1>4, <1>5, <1>6, <1>7, <1>8, <1>9, <1>10, <1>11, <1>12, <1>13, QuietStep DEF Local

(* A cancelled resume has no claim left. *)
LEMMA ReplanStep ==
    ASSUME IInv, NEW p \in Proc, Replan(p)
    PROVE  IInv' /\ Lessens
<1>1. ProcInv(p) /\ TypeOK
  BY DEF IInv
<1>2. TypeOK'
  BY <1>1, ResumeConstants DEF TypeOK, Claim, Run, Gen, PCs, Claiming, Replan, Goto, attempt, files
<1>3. Quiet(p)
  BY <1>1, ResumeConstants DEF Quiet, Replan, Goto, attempt, files, TypeOK, Owner, Claiming, ProcInv, Local, Phases
<1>4. KnownRun(p)' /\ StartedRun(p)' /\ Phases(p)'
  BY <1>1 DEF ProcInv, Local, KnownRun, Claim, Run, StartedRun, Phases, Replan, Goto, attempt, files, TypeOK
<1>5. Listed(p)' /\ SeenKept(p)' /\ ProbeLive(p)' /\ CreateOpen(p)'
  BY <1>1 DEF ProcInv, Local, Listed, SeenKept, ProbeLive, CreateOpen, Replan, Goto, attempt, files, TypeOK
<1>6. OwnerPlace(p)'
  BY <1>1 DEF ProcInv, Local, OwnerPlace, Owner, Claiming, Replan, Goto, attempt, files, TypeOK
<1>7. OwnerClaims(p)'
  BY <1>1 DEF ProcInv, Local, OwnerClaims, Owner, Mine, Claiming, Replan, Goto, files, TypeOK
<1> QED  BY <1>2, <1>3, <1>4, <1>5, <1>6, <1>7, QuietStep DEF Local

(* The end of a continuation changes no claim. *)
LEMMA EndStep ==
    ASSUME IInv, NEW p \in Proc, End(p)
    PROVE  IInv' /\ Lessens
<1>1. ProcInv(p) /\ TypeOK
  BY DEF IInv
<1>2. TypeOK'
  BY <1>1, ResumeConstants DEF TypeOK, Claim, Run, Gen, PCs, Claiming, End, Goto, attempt, files
<1>3. Quiet(p)
  BY <1>1, ResumeConstants DEF Quiet, End, Goto, attempt, files, TypeOK, Owner, Claiming, ProcInv, Local, Phases
<1>4. KnownRun(p)' /\ StartedRun(p)' /\ Phases(p)'
  BY <1>1 DEF ProcInv, Local, KnownRun, Claim, Run, StartedRun, Phases, End, Goto, attempt, files, TypeOK
<1>5. Listed(p)' /\ SeenKept(p)' /\ ProbeLive(p)' /\ CreateOpen(p)'
  BY <1>1 DEF ProcInv, Local, Listed, SeenKept, ProbeLive, CreateOpen, End, Goto, attempt, files, TypeOK
<1>6. OwnerPlace(p)' /\ OwnerClaims(p)'
  BY <1>1 DEF ProcInv, Local, OwnerPlace, Owner, Claiming, OwnerClaims, Mine, End, Goto, attempt, files, TypeOK
<1> QED  BY <1>2, <1>3, <1>4, <1>5, <1>6, QuietStep DEF Local

(* A death does not make an owner. *)
LEMMA DieStep ==
    ASSUME IInv, NEW p \in Proc, Die(p), raced' = FALSE
    PROVE  IInv' /\ Lessens
<1>1. ProcInv(p) /\ TypeOK
  BY DEF IInv
<1>2. TypeOK'
  BY <1>1, ResumeConstants DEF TypeOK, Claim, Run, Gen, PCs, Claiming, Die, Return, attempt, files
<1>3. Quiet(p)
  BY <1>1, ResumeConstants DEF Quiet, Die, Return, attempt, files, TypeOK, Owner, Claiming, ProcInv, Local, Phases
<1>4. KnownRun(p)' /\ StartedRun(p)' /\ Phases(p)'
  BY <1>1 DEF ProcInv, Local, KnownRun, Claim, Run, StartedRun, Phases, Die, Return, attempt, files, TypeOK
<1>5. Listed(p)' /\ SeenKept(p)' /\ ProbeLive(p)' /\ CreateOpen(p)'
  BY <1>1 DEF ProcInv, Local, Listed, SeenKept, ProbeLive, CreateOpen, Die, Return, attempt, files, TypeOK
<1>6. OwnerPlace(p)' /\ OwnerClaims(p)'
  BY <1>1 DEF ProcInv, Local, OwnerPlace, Owner, Claiming, OwnerClaims, Mine, Die, Return, attempt, files, TypeOK
<1> QED  BY <1>2, <1>3, <1>4, <1>5, <1>6, QuietStep DEF Local

(* A reused process id holds nothing. *)
LEMMA RestartStep ==
    ASSUME IInv, NEW p \in Proc, Restart(p)
    PROVE  IInv' /\ Lessens
<1>1. ProcInv(p) /\ TypeOK
  BY DEF IInv
<1>2. TypeOK'
  BY <1>1, ResumeConstants DEF TypeOK, Claim, Run, Gen, PCs, Claiming, Restart, Goto, attempt, files
<1>3. Quiet(p)
  BY <1>1, ResumeConstants DEF Quiet, Restart, Goto, attempt, files, TypeOK, Owner, Claiming, ProcInv, Local, Phases
<1>4. KnownRun(p)' /\ StartedRun(p)' /\ Phases(p)'
  BY <1>1 DEF ProcInv, Local, KnownRun, Claim, Run, StartedRun, Phases, Restart, Goto, attempt, files, TypeOK
<1>5. Listed(p)' /\ SeenKept(p)' /\ ProbeLive(p)' /\ CreateOpen(p)'
  BY <1>1 DEF ProcInv, Local, Listed, SeenKept, ProbeLive, CreateOpen, Restart, Goto, attempt, files, TypeOK
<1>6. OwnerPlace(p)' /\ OwnerClaims(p)'
  BY <1>1 DEF ProcInv, Local, OwnerPlace, Owner, Claiming, OwnerClaims, Mine, Restart, Goto, attempt, files, TypeOK
<1> QED  BY <1>2, <1>3, <1>4, <1>5, <1>6, QuietStep DEF Local

(* Two highest generations are the same one. *)
LEMMA TopUnique == ASSUME TypeOK, NEW g, Top(g), NEW h, Top(h) PROVE g = h
<1>1. \A k \in Used : k \in Nat /\ k >= 1
  BY ResumeConstants DEF Used, Live, Gen, TypeOK
<1>2. (g = 0 \/ g \in Used) /\ (h = 0 \/ h \in Used)
  BY DEF Top, Highest
<1>3. (\A k \in Used : k <= g) /\ (\A k \in Used : k <= h)
  BY DEF Top, Highest
<1> QED  BY <1>1, <1>2, <1>3

(* The claim of a process that has a run is a file. *)
LEMMA MineIsLive ==
    ASSUME IInv, NEW p \in Proc, NEW g \in Gen, run[p] # 0, claims[g] = Mine(p)
    PROVE  g \in Live
<1>1. Mine(p) \in Claim
  BY DEF IInv, TypeOK, Mine, Claim, Run
<1> QED  BY <1>1, ResumeConstants DEF Live

(* An owner has the highest claim, and the run has not been continued. *)
LEMMA OwnerAlone ==
    ASSUME IInv, NEW p \in Owner
    PROVE  started = {} /\ Owner = {p} /\ \E g \in Live : Top(g) /\ claims[g] = Mine(p)
<1>1. p \in Proc /\ run[p] # 0 /\ pc[p] \notin {"running", "idle", "dead"}
  BY DEF Owner, Claiming, IInv, ProcInv, Local, KnownRun
<1>2. PICK g \in Live : Top(g) /\ claims[g] = Mine(p)
  BY <1>1, MineIsLive DEF IInv, ProcInv, OwnerTop
<1>3. started = {}
  BY <1>1, <1>2, TopUnique DEF IInv, FileInv, StartedOnTop, ProcInv, Local, StartedRun, Mine
<1>4. ASSUME NEW q \in Owner PROVE q = p
  <2>1. PICK h \in Gen : Top(h) /\ claims[h] = Mine(q)
    BY DEF IInv, ProcInv, OwnerTop, Owner
  <2>2. h = g
    BY <1>2, <2>1, TopUnique DEF IInv
  <2> QED  BY <1>2, <2>1, <2>2 DEF Mine
<1> QED  BY <1>2, <1>3, <1>4

(* The start of the continuation: it is the first, by the only owner, whose  *)
(* claim is the highest.                                                    *)
LEMMA StartStep == ASSUME IInv, NEW p \in Proc, Start(p) PROVE IInv'
<1>1. /\ UNCHANGED <<claims, released, attempts, run, trigger, phase, gen, seen>>
      /\ pc[p] = "launch" /\ pc' = [pc EXCEPT ![p] = "running"]
      /\ started' = started \cup {run[p]}
      /\ p \in Owner
  BY DEF Start, Goto, files, attempt, Owner
<1>2. TypeOK /\ \A q \in Proc : ProcInv(q)
  BY DEF IInv
<1>3. started = {} /\ Owner = {p}
  BY <1>1, OwnerAlone
<1>4. PICK g \in Live : Top(g) /\ claims[g] = Mine(p)
  BY <1>1, OwnerAlone
<1>5. Live' = Live /\ Used' = Used /\ \A h : Top(h)' <=> Top(h)
  BY <1>1 DEF Live, Used, Top
<1>6. run[p] \in 1..attempts /\ run[p] \in Run
  BY <1>1, <1>2 DEF ProcInv, Local, KnownRun, TypeOK, Run
<1>7. TypeOK'
  BY <1>1, <1>2, <1>6 DEF TypeOK, PCs, Start
<1>8. Owner' = {}
  BY <1>1, <1>2, <1>3 DEF Owner, Claiming, TypeOK
<1>9. FileInv'
  BY <1>1, <1>3, <1>4, <1>5, <1>6 DEF IInv, FileInv, Contiguous, Disjoint, FileRuns, StartedOnTop, Mine
<1>10. RunInv'
  BY <1>1, <1>5 DEF IInv, RunInv, OwnRun, OwnClaim, OwnSeen
<1>11. ASSUME NEW q \in Proc PROVE ProcInv(q)'
  <2>1. ProcInv(q) /\ (q # p => pc'[q] = pc[q]) /\ pc'[p] = "running"
    BY <1>1, <1>2 DEF TypeOK
  <2>2. KnownRun(q)' /\ Phases(q)'
    BY <1>1, <2>1 DEF ProcInv, Local, KnownRun, Phases
  <2>3. StartedRun(q)'
    BY <1>1, <1>3, <1>6, <2>1 DEF StartedRun, IInv, RunInv, OwnRun
  <2>4. Listed(q)' /\ SeenKept(q)'
    BY <1>1, <1>5, <2>1 DEF ProcInv, Local, Listed, SeenKept
  <2>5. ProbeLive(q)'
    <3> SUFFICES ASSUME pc'[q] = "probe", seen[q].run = run[p]
                 PROVE  seen[q].pid # q /\ pc'[seen[q].pid] # "dead"
      BY <1>1, <1>3 DEF ProbeLive
    <3>1. seen[q] \in Claim /\ seen[q] # NoClaim
      BY <2>1, ResumeConstants DEF ProcInv, Local, SeenKept
    <3> QED  BY <2>1, <3>1 DEF IInv, RunInv, OwnSeen
  <2>6. CreateOpen(q)'
    BY <1>1, <1>3, <1>5, <2>1 DEF ProcInv, Local, CreateOpen
  <2>7. OwnerTop(q)' /\ OwnerPlace(q)'
    BY <1>8 DEF OwnerTop, OwnerPlace
  <2>8. OwnerClaims(q)' /\ OneClaim(q)'
    BY <1>1, <1>3, <1>5, <2>1 DEF ProcInv, Local, OwnerClaims, OneClaim, Mine, Claiming
  <2> QED  BY <2>2, <2>3, <2>4, <2>5, <2>6, <2>7, <2>8 DEF ProcInv, Local
<1> QED  BY <1>7, <1>9, <1>10, <1>11 DEF IInv

(* The generation a taker may create was never used; so the one it listed is *)
(* the highest, nobody owns the run, and it has not been continued.          *)
LEMMA CreateFromTop ==
    ASSUME IInv, NEW p \in Proc, pc[p] = "create", gen[p] < MaxGen, claims[gen[p] + 1] = NoClaim
    PROVE  /\ gen[p] + 1 \in Gen \ Used /\ Top(gen[p])
           /\ Owner = {} /\ started = {}
<1>1. gen[p] \in 0..MaxGen /\ gen[p] + 1 \in Gen /\ gen[p] + 1 \notin released
  BY ResumeConstants DEF IInv, TypeOK, Gen, ProcInv, Local, Listed
<1>2. gen[p] + 1 \notin Used
  BY <1>1 DEF Used, Live
<1>3. Used \subseteq Gen
  BY DEF Used, Live, IInv, TypeOK
<1>4. \A h \in Used : h <= gen[p]
  BY <1>1, <1>2, <1>3 DEF IInv, FileInv, Contiguous, Gen
<1>5. Top(gen[p])
  BY <1>1, <1>4 DEF Top, Highest, IInv, ProcInv, Local, Listed
<1> QED  BY <1>1, <1>2, <1>5 DEF IInv, ProcInv, Local, CreateOpen

(* The new claim is the highest, and its owner the only one. *)
LEMMA CreateStep == ASSUME IInv, NEW p \in Proc, Create(p) PROVE IInv'
<1>1. PICK n \in Nat : n = gen[p] + 1
  BY DEF IInv, TypeOK
<1>2. /\ UNCHANGED <<released, started, refused, attempts, run, trigger, phase, raced>>
      /\ pc[p] = "create" /\ gen[p] < MaxGen /\ claims[n] = NoClaim
      /\ claims' = [claims EXCEPT ![n] = Mine(p)]
      /\ held' = [held EXCEPT ![p] = @ \cup {n}]
      /\ pc' = [pc EXCEPT ![p] = IF phase[p] = "launch" THEN "launch" ELSE "prepared"]
      /\ gen' = [gen EXCEPT ![p] = 0] /\ seen' = [seen EXCEPT ![p] = NoClaim]
      /\ round' = [round EXCEPT ![p] = 0]
  BY <1>1 DEF Create, Win, Return, attempt
<1>3. TypeOK /\ ProcInv(p) /\ \A q \in Proc : ProcInv(q)
  BY DEF IInv
<1>4. n \in Gen \ Used /\ Top(gen[p]) /\ Owner = {} /\ started = {}
  BY <1>1, <1>2, CreateFromTop
<1>5. Mine(p) \in Claim /\ Mine(p) # NoClaim /\ run[p] # 0 /\ run[p] <= attempts
  BY <1>2, <1>3, ResumeConstants DEF TypeOK, Mine, Claim, Run, ProcInv, Local, KnownRun
<1>6. /\ claims'[n] = Mine(p) /\ \A g \in Gen : g # n => claims'[g] = claims[g]
      /\ Mine(p)' = Mine(p) /\ \A q \in Proc : Mine(q)' = Mine(q)
  BY <1>2, <1>3, <1>4 DEF TypeOK, Mine
<1>7. Live' = Live \cup {n} /\ Used' = Used \cup {n} /\ n \notin Live
  BY <1>2, <1>4, <1>5, <1>6 DEF Live, Used
<1>8. TypeOK'
  BY <1>2, <1>3, <1>4, <1>5, ResumeConstants DEF TypeOK, PCs
<1>9. n = gen[p] + 1 /\ n \in Gen /\ gen[p] \in Nat /\ Used \subseteq Gen /\ \A h \in Used : h <= gen[p]
  <2>1. n = gen[p] + 1 /\ n \in Gen /\ gen[p] \in Nat /\ Used \subseteq Gen
    <3>1. Used \subseteq Gen /\ gen[p] \in 0..MaxGen
      BY <1>3 DEF Used, Live, TypeOK
    <3> QED  BY <1>1, <1>4, <3>1, ResumeConstants
  <2> QED  BY <1>4, <2>1 DEF Top, Highest
<1>10. Top(n)' /\ \A g : Top(g)' => g = n
  <2>1. \A h \in Used' : h \in Nat /\ h >= 1 /\ h <= n
    BY <1>7, <1>9, ResumeConstants DEF Gen
  <2>2. n \in Used'
    BY <1>7
  <2>3. Top(n)'
    BY <2>1, <2>2 DEF Top, Highest
  <2>4. ASSUME NEW g, Top(g)' PROVE g = n
    <3>1. (g = 0 \/ g \in Used') /\ n <= g
      BY <2>2, <2>4 DEF Top, Highest
    <3>2. n >= 1
      BY <2>1, <2>2
    <3>3. g # 0
      BY <1>1, <3>1, <3>2
    <3>4. g \in Nat /\ g <= n
      BY <2>1, <3>1, <3>3
    <3> QED  BY <1>1, <3>1, <3>4
  <2> QED  BY <2>3, <2>4
<1>11. Owner' = {p} /\ pc'[p] = (IF phase[p] = "launch" THEN "launch" ELSE "prepared")
  BY <1>2, <1>3, <1>4 DEF Owner, Claiming, TypeOK
<1>12. FileInv'
  <2>1. Contiguous'
    BY <1>4, <1>7, <1>9 DEF Contiguous, IInv, FileInv, Top, Highest, Gen
  <2>2. Disjoint'
    BY <1>2, <1>4, <1>7 DEF Disjoint, IInv, FileInv, Used
  <2>3. FileRuns'
    BY <1>2, <1>5, <1>6, <1>7 DEF FileRuns, IInv, FileInv, Mine, Live
  <2> QED  BY <1>2, <1>4, <2>1, <2>2, <2>3 DEF FileInv, StartedOnTop
<1>13. RunInv'
  <2>1. OwnRun'
    BY <1>2 DEF IInv, RunInv, OwnRun
  <2>2. OwnClaim'
    BY <1>2, <1>5, <1>6, <1>7 DEF IInv, RunInv, OwnClaim, OwnRun, Mine, Live
  <2>3. OwnSeen'
    BY <1>2, <1>3 DEF IInv, RunInv, OwnSeen, TypeOK
  <2> QED  BY <2>1, <2>2, <2>3 DEF RunInv
<1>14. ProcInv(p)'
  <2>1. gen'[p] = 0 /\ seen'[p] = NoClaim /\ pc'[p] \in {"launch", "prepared"}
    BY <1>2, <1>3 DEF TypeOK
  <2>2. KnownRun(p)' /\ StartedRun(p)' /\ Phases(p)'
    BY <1>2, <1>3, <1>4, <1>5, <1>11, <2>1 DEF ProcInv, Local, KnownRun, StartedRun, Phases
  <2>3. Listed(p)' /\ SeenKept(p)' /\ ProbeLive(p)' /\ CreateOpen(p)' /\ OwnerPlace(p)' /\ OwnerClaims(p)'
    BY <2>1 DEF Listed, SeenKept, ProbeLive, CreateOpen, OwnerPlace, OwnerClaims, Claiming
  <2>4. OwnerTop(p)'
    BY <1>4, <1>6, <1>10 DEF OwnerTop, Gen
  <2>5. \A g \in Gen : claims[g] # Mine(p)
    BY <1>2, <1>3, <1>4 DEF ProcInv, Local, OwnerClaims, Claiming
  <2>6. OneClaim(p)'
    BY <1>6, <2>5 DEF OneClaim, Live, Gen
  <2> QED  BY <2>2, <2>3, <2>4, <2>6 DEF ProcInv, Local
<1>15. ASSUME NEW q \in Proc, q # p PROVE ProcInv(q)'
  <2>1. ProcInv(q) /\ pc'[q] = pc[q] /\ gen'[q] = gen[q] /\ seen'[q] = seen[q] /\ q \notin Owner'
    BY <1>2, <1>3, <1>11, <1>15 DEF TypeOK
  <2>2. KnownRun(q)' /\ StartedRun(q)' /\ Phases(q)'
    BY <1>2, <2>1 DEF ProcInv, Local, KnownRun, StartedRun, Phases
  <2>3. Listed(q)'
    BY <1>2, <1>7, <2>1 DEF ProcInv, Local, Listed
  <2>4. SeenKept(q)'
    BY <1>4, <1>6, <2>1, ResumeConstants DEF ProcInv, Local, SeenKept, Listed, Gen
  <2>5. ProbeLive(q)'
    BY <1>2, <1>4 DEF ProbeLive
  <2>6. CreateOpen(q)'
    <3> SUFFICES ASSUME pc[q] = "create", gen[q] = n PROVE FALSE
      BY <1>10, <2>1 DEF CreateOpen
    <3> QED  BY <1>4, <1>9, <2>1 DEF ProcInv, Local, Listed, Gen
  <2>7. OwnerTop(q)' /\ OwnerPlace(q)'
    BY <2>1 DEF OwnerTop, OwnerPlace
  <2>8. Mine(q) # Mine(p)
    BY <1>15 DEF Mine
  <2>9. OwnerClaims(q)' /\ OneClaim(q)'
    BY <1>4, <1>6, <1>7, <2>1, <2>8 DEF ProcInv, Local, OwnerClaims, OneClaim, Claiming, Live
  <2> QED  BY <2>2, <2>3, <2>4, <2>5, <2>6, <2>7, <2>9 DEF ProcInv, Local
<1> QED  BY <1>8, <1>12, <1>13, <1>14, <1>15 DEF IInv

(* A claim is given back only while it is the current one and the run has    *)
(* not been continued.  Nobody is an owner then, and no taker is about to    *)
(* create that generation.                                                  *)
LEMMA AsideStep ==
    ASSUME IInv, NEW p \in Proc, NEW g \in Live, TypeOK',
           pc[p] \in {"prepared", "launch", "refused"},
           pc'[p] \in {"idle", "cancelled"}, pc'[p] = "cancelled" => trigger[p] = "auto",
           \A q \in Proc \ {p} : pc'[q] = pc[q],
           Top(g), claims[g] = Mine(p), ~Straddled(p, g),
           claims' = [claims EXCEPT ![g] = NoClaim], released' = released \cup {g},
           UNCHANGED <<started, attempts, run, trigger, phase, gen, seen>>
    PROVE  IInv' /\ Lessens
<1>1. TypeOK /\ \A q \in Proc : ProcInv(q)
  BY DEF IInv
<1>2. g \in Gen /\ claims'[g] = NoClaim /\ \A h \in Gen : h # g => claims'[h] = claims[h]
  BY <1>1 DEF Live, TypeOK
<1>3. Live' = Live \ {g} /\ Used' = Used /\ g \in Used
  BY <1>2 DEF Live, Used
<1>4. \A h : Top(h)' <=> Top(h)
  BY <1>3 DEF Top
<1>5. started = {}
  <2>1. run[p] \notin started
    BY <1>1 DEF ProcInv, Local, StartedRun
  <2>2. \A h : Top(h) => h = g
    BY <1>1, TopUnique
  <2> QED  BY <2>1, <2>2 DEF IInv, FileInv, StartedOnTop, Mine
<1>6. Owner' = {}
  <2>1. ASSUME NEW q \in Proc, q \in Owner' PROVE FALSE
    <3>1. q # p
      BY <2>1 DEF Owner, Claiming
    <3>2. q \in Owner
      BY <2>1, <3>1 DEF Owner
    <3>3. PICK h \in Gen : Top(h) /\ claims[h] = Mine(q)
      BY <1>1, <3>2 DEF ProcInv, OwnerTop
    <3>4. h = g
      BY <1>1, <3>3, TopUnique
    <3> QED  BY <3>1, <3>3, <3>4 DEF Mine
  <2> QED  BY <2>1 DEF Owner
<1>7. FileInv'
  BY <1>2, <1>3, <1>5 DEF IInv, FileInv, Contiguous, Disjoint, FileRuns, StartedOnTop, Live
<1>8. RunInv'
  BY <1>2, <1>3 DEF IInv, RunInv, OwnRun, OwnClaim, OwnSeen, Live
<1>9. ASSUME NEW q \in Proc PROVE ProcInv(q)'
  <2>1. ProcInv(q)
    BY <1>1
  <2>2. KnownRun(q)' /\ StartedRun(q)' /\ Phases(q)' /\ ProbeLive(q)'
    BY <1>5, <2>1 DEF ProcInv, Local, KnownRun, StartedRun, Phases, ProbeLive
  <2>3. Listed(q)'
    BY <1>3, <2>1 DEF ProcInv, Local, Listed, Straddled
  <2>4. SeenKept(q)'
    BY <1>2, <2>1 DEF ProcInv, Local, SeenKept
  <2>5. CreateOpen(q)' /\ OwnerTop(q)' /\ OwnerPlace(q)'
    BY <1>5, <1>6 DEF CreateOpen, OwnerTop, OwnerPlace
  <2>6. OneClaim(q)'
    BY <1>2, <1>3, <2>1 DEF ProcInv, OneClaim, Mine, Live
  <2>7. OwnerClaims(q)'
    <3> SUFFICES ASSUME NEW h \in Gen, pc'[q] \in Claiming \cup {"cancelled"}, claims'[h] = Mine(q)
                 PROVE  FALSE
      BY DEF OwnerClaims, Mine
    <3>1. run[q] # 0
      BY <2>1 DEF ProcInv, Local, KnownRun, Claiming
    <3>2. Mine(q) # NoClaim
      BY <1>1, <3>1, ResumeConstants DEF Mine, Claim, Run, TypeOK
    <3>3. h # g /\ claims[h] = Mine(q)
      BY <1>2, <3>2
    <3>4. h \in Live
      BY <3>1, <3>3, MineIsLive
    <3>5. q # p
      BY <1>1, <3>3, <3>4 DEF ProcInv, OneClaim
    <3>6. q \in Owner
      BY <2>1, <3>3, <3>5 DEF ProcInv, Local, OwnerClaims
    <3> QED  BY <1>6, <3>5, <3>6 DEF Owner
  <2> QED  BY <2>2, <2>3, <2>4, <2>5, <2>6, <2>7 DEF ProcInv, Local
<1> QED  BY <1>6, <1>7, <1>8, <1>9 DEF IInv, Lessens

(* Giving back moves the claim aside or leaves the files alone. *)
LEMMA MoveAsideStep ==
    ASSUME IInv, NEW p \in Proc, MoveAside(p), raced' = FALSE,
           pc[p] \in {"prepared", "launch", "refused"},
           NEW to \in {"idle", "cancelled"}, pc' = [pc EXCEPT ![p] = to],
           to = "cancelled" => pc[p] = "prepared" /\ trigger[p] = "auto",
           refused' \in BOOLEAN, UNCHANGED <<started, attempts, run, trigger, phase, gen, seen, round>>
    PROVE  IInv' /\ Lessens
<1>1. TypeOK /\ ProcInv(p) /\ pc'[p] = to /\ \A q \in Proc \ {p} : pc'[q] = pc[q]
  BY DEF IInv, TypeOK
<1>2. PICK g \in 0..MaxGen :
        /\ Highest(Used, g)
        /\ IF g \in Live /\ claims[g] = Mine(p)
           THEN /\ raced' = (raced \/ Straddled(p, g))
                /\ claims' = [claims EXCEPT ![g] = NoClaim]
                /\ released' = released \cup {g}
                /\ held' = [held EXCEPT ![p] = @ \ {g}]
           ELSE UNCHANGED <<files, held, raced>>
  BY DEF MoveAside, Used
<1>3. TypeOK'
  <2>1. CASE g \in Live /\ claims[g] = Mine(p)
    <3>1. claims' \in [Gen -> Claim \cup {NoClaim}] /\ released' \subseteq Gen
      <4>1. g \in Gen /\ claims' = [claims EXCEPT ![g] = NoClaim] /\ released' = released \cup {g}
        BY <1>2, <2>1 DEF Live
      <4> QED  BY <1>1, <4>1 DEF TypeOK
    <3>2. held' \in [Proc -> SUBSET Gen]
      BY <1>1, <1>2, <2>1 DEF TypeOK
    <3> QED  BY <1>1, <3>1, <3>2 DEF TypeOK, PCs
  <2>2. CASE ~(g \in Live /\ claims[g] = Mine(p))
    BY <1>1, <1>2, <2>2 DEF TypeOK, PCs, files
  <2> QED  BY <2>1, <2>2
<1>4. CASE g \in Live /\ claims[g] = Mine(p)
  BY <1>1, <1>2, <1>3, <1>4, AsideStep DEF Top
<1>5. CASE ~(g \in Live /\ claims[g] = Mine(p))
  <2>1. to = "idle"
    <3>1. ASSUME p \in Owner PROVE FALSE
      <4>1. PICK h \in Live : Top(h) /\ claims[h] = Mine(p)
        BY <3>1, OwnerAlone
      <4>2. h = g
        BY <1>1, <1>2, <4>1, TopUnique DEF Top
      <4> QED  BY <1>5, <4>1, <4>2
    <3> QED  BY <3>1 DEF Owner
  <2>2. claims' = claims /\ released' = released /\ p \notin Owner'
    BY <1>1, <1>2, <1>5, <2>1 DEF files, Owner, Claiming
  <2>3. Quiet(p)
    BY <1>1, <2>1, <2>2 DEF Quiet, files, TypeOK
  <2>4. KnownRun(p)' /\ StartedRun(p)' /\ Phases(p)'
    BY <1>1, <2>1 DEF ProcInv, Local, KnownRun, StartedRun, Phases
  <2>5. Listed(p)' /\ SeenKept(p)' /\ ProbeLive(p)' /\ CreateOpen(p)' /\ OwnerPlace(p)' /\ OwnerClaims(p)'
    BY <1>1, <2>1, <2>2 DEF Listed, SeenKept, ProbeLive, CreateOpen, OwnerPlace, OwnerClaims, Claiming
  <2> QED  BY <1>3, <2>3, <2>4, <2>5, QuietStep DEF Local
<1> QED  BY <1>4, <1>5

(* A launch that was refused, or that failed before its first status. *)
LEMMA GiveBackStep ==
    ASSUME IInv, NEW p \in Proc, GiveBack(p), raced' = FALSE
    PROVE  IInv' /\ Lessens
<1>1. refused' \in BOOLEAN
  BY DEF GiveBack, IInv, TypeOK
<1> QED  BY <1>1, MoveAsideStep DEF GiveBack, attempt

(* A planned resume that is cancelled. *)
LEMMA CancelStep ==
    ASSUME IInv, NEW p \in Proc, Cancel(p), raced' = FALSE
    PROVE  IInv' /\ Lessens
<1>1. refused' \in BOOLEAN
  BY DEF Cancel, IInv, TypeOK
<1> QED  BY <1>1, MoveAsideStep DEF Cancel, Goto, attempt

(* The invariant holds at first. *)
LEMMA InitInv == Init => IInv
<1> SUFFICES ASSUME Init PROVE IInv
  OBVIOUS
<1>1. TypeOK
  <2>1. gen \in [Proc -> 0..MaxGen] /\ round \in [Proc -> 0..(MaxRounds - 1)] /\ run \in [Proc -> 0..MaxAttempts]
    BY ResumeConstants DEF Init
  <2>2. attempts \in 0..MaxAttempts /\ held \in [Proc -> SUBSET Gen]
    BY ResumeConstants DEF Init
  <2> QED  BY <2>1, <2>2 DEF Init, TypeOK, PCs
<1>2. Live = {} /\ Used = {} /\ Owner = {}
  BY DEF Init, Live, Used, Owner, Claiming
<1>3. FileInv
  BY <1>2 DEF Init, FileInv, Contiguous, Disjoint, FileRuns, StartedOnTop
<1>4. RunInv
  BY <1>2 DEF Init, RunInv, OwnRun, OwnClaim, OwnSeen
<1>5. ASSUME NEW p \in Proc PROVE ProcInv(p)
  BY <1>2 DEF Init, ProcInv, Local, KnownRun, StartedRun, Phases, Listed, SeenKept, ProbeLive,
              CreateOpen, OwnerTop, OwnerPlace, OwnerClaims, OneClaim, Claiming
<1> QED  BY <1>1, <1>3, <1>4, <1>5 DEF IInv

(* Every step keeps the invariant. *)
LEMMA NextInv ==
    ASSUME IInv, [Next]_vars, raced' = FALSE
    PROVE  IInv'
<1>1. CASE UNCHANGED vars
  <2>1. UNCHANGED <<claims, released, started, refused, attempts, pc, run, trigger, phase, gen, seen, round, held, raced>>
    BY <1>1 DEF vars
  <2>2. Live' = Live /\ Owner' = Owner
    BY <2>1 DEF Live, Owner
  <2>3. Used' = Used /\ TypeOK'
    BY <2>1, <2>2 DEF Used, IInv, TypeOK
  <2>4. FileInv' /\ RunInv'
    BY <2>1, <2>2, <2>3 DEF IInv, FileInv, Contiguous, Disjoint, FileRuns, StartedOnTop, Top,
                            RunInv, OwnRun, OwnClaim, OwnSeen
  <2>5. ASSUME NEW p \in Proc PROVE ProcInv(p)'
    <3>1. Local(p)'
      BY <2>1, <2>2, <2>3 DEF IInv, ProcInv, Local, KnownRun, StartedRun, Phases, Listed, SeenKept, ProbeLive,
              CreateOpen, OwnerPlace, OwnerClaims, Mine, Top
    <3>2. OwnerTop(p)' /\ OneClaim(p)'
      BY <2>1, <2>2, <2>3 DEF IInv, ProcInv, OwnerTop, OneClaim, Mine, Top
    <3> QED  BY <3>1, <3>2 DEF ProcInv
  <2> QED  BY <2>3, <2>4, <2>5 DEF IInv
<1>2. ASSUME NEW p \in Proc, Take(p) PROVE IInv'
  BY <1>2, ListStep, ReadStep, CheckStartedStep, ProbeStep, CreateStep, LostStep DEF Take
<1>3. ASSUME NEW p \in Proc, Launching(p) PROVE IInv'
  BY <1>3, ExecuteStep, StartStep, GiveBackStep, EndStep DEF Launching
<1>4. ASSUME NEW p \in Proc, Environment(p) PROVE IInv'
  BY <1>4, AttemptStep, ReplanStep, CancelStep, UnreadableStep, DieStep, RestartStep DEF Environment
<1> QED  BY <1>1, <1>2, <1>3, <1>4 DEF Next

-----------------------------------------------------------------------------
(* Types, with or without the races: a process that makes an                *)
(* attempt has a run, and reads a generation that is one.                   *)
AtWork(p) ==
    /\ pc[p] \notin {"idle", "dead"} => run[p] # 0
    /\ pc[p] = "read" => gen[p] # 0
TInv == TypeOK /\ \A p \in Proc : AtWork(p)

(* Every step keeps the types. *)
LEMMA TypeKept ==
    ASSUME TInv, [Next]_vars
    PROVE  TInv'
<1> USE DEF Goto, Proceed, Return
<1>1. CASE UNCHANGED vars
  BY <1>1 DEF TInv, TypeOK, AtWork, vars, files, attempt
<1>2. ASSUME NEW p \in Proc, Attempt(p) \/ Execute(p) \/ Replan(p) PROVE TInv'
  <2>1. attempts \in Nat /\ MaxAttempts \in Nat /\ attempts' \in 0..MaxAttempts
    BY <1>2, ResumeConstants DEF TInv, TypeOK, Attempt, Execute, Replan, files, attempt
  <2>2. run' \in [Proc -> 0..MaxAttempts] /\ phase' \in [Proc -> {"prepare", "launch"}]
        /\ trigger' \in [Proc -> {"auto", "manual", "reuse"}]
    BY <1>2, <2>1, ResumeConstants DEF TInv, TypeOK, Attempt, Execute, Replan
  <2>3. pc' \in [Proc -> PCs]
    BY <1>2 DEF TInv, TypeOK, Attempt, Execute, Replan, PCs, Claiming
  <2>4. UNCHANGED <<claims, released, started, refused, gen, seen, round, held, raced>>
    BY <1>2 DEF Attempt, Execute, Replan, files, attempt
  <2>5. \A q \in Proc : AtWork(q)'
    BY <1>2, <2>1, <2>4 DEF TInv, TypeOK, AtWork, Attempt, Execute, Replan
  <2> QED  BY <2>1, <2>2, <2>3, <2>4, <2>5 DEF TInv, TypeOK
<1>3. ASSUME NEW p \in Proc, List(p) PROVE TInv'
  <2>1. UNCHANGED <<claims, released, started, refused, attempts, run, trigger, phase, seen, round, held, raced>>
    BY <1>3 DEF List, files, attempt
  <2>2. gen' \in [Proc -> 0..MaxGen] /\ pc' \in [Proc -> PCs]
    BY <1>3 DEF TInv, TypeOK, List, PCs, Claiming
  <2>3. \A q \in Proc : AtWork(q)'
    BY <1>3, <2>1 DEF TInv, TypeOK, AtWork, List
  <2> QED  BY <2>1, <2>2, <2>3 DEF TInv, TypeOK
<1>4. ASSUME NEW p \in Proc, Read(p) PROVE TInv'
  <2>1. UNCHANGED <<claims, released, started, refused, attempts, run, trigger, phase, raced>>
    BY <1>4 DEF Read, files, attempt
  <2>2. gen[p] \in Gen /\ claims[gen[p]] \in Claim \cup {NoClaim}
    BY <1>4 DEF TInv, TypeOK, AtWork, Read, Gen
  <2>3. gen' \in [Proc -> 0..MaxGen] /\ round' \in [Proc -> 0..(MaxRounds - 1)]
    BY <1>4, ResumeConstants DEF TInv, TypeOK, Read, Win
  <2>4. seen' \in [Proc -> Claim \cup {NoClaim}] /\ held' \in [Proc -> SUBSET Gen]
    BY <1>4, <2>2 DEF TInv, TypeOK, Read, Win
  <2>5. pc' \in [Proc -> PCs]
    BY <1>4 DEF TInv, TypeOK, Read, Win, PCs, Claiming
  <2>6. \A q \in Proc : AtWork(q)'
    BY <1>4, <2>1 DEF TInv, TypeOK, AtWork, Read, Win
  <2> QED  BY <2>1, <2>3, <2>4, <2>5, <2>6 DEF TInv, TypeOK
<1>5. ASSUME NEW p \in Proc, Unreadable(p) \/ CheckStarted(p) \/ Probe(p) \/ Lost(p) PROVE TInv'
  <2>1. UNCHANGED <<claims, released, started, refused, attempts, run, trigger, phase, held, raced>>
    BY <1>5 DEF Unreadable, CheckStarted, Probe, Lost, files, attempt
  <2>2. gen' \in [Proc -> 0..MaxGen] /\ seen' \in [Proc -> Claim \cup {NoClaim}] /\ pc' \in [Proc -> PCs]
    BY <1>5, ResumeConstants DEF TInv, TypeOK, Unreadable, CheckStarted, Probe, Lost, Yield, PCs, Claiming
  <2>3. round' \in [Proc -> 0..(MaxRounds - 1)]
    BY <1>5, ResumeConstants DEF TInv, TypeOK, Unreadable, CheckStarted, Probe, Lost, Yield
  <2>4. \A q \in Proc : AtWork(q)'
    BY <1>5, <2>1 DEF TInv, TypeOK, AtWork, Unreadable, CheckStarted, Probe, Lost, Yield
  <2> QED  BY <2>1, <2>2, <2>3, <2>4 DEF TInv, TypeOK
<1>6. ASSUME NEW p \in Proc, Create(p) PROVE TInv'
  <2>1. UNCHANGED <<released, started, refused, attempts, run, trigger, phase, raced>>
    BY <1>6 DEF Create, attempt
  <2>2. gen[p] + 1 \in Gen /\ Mine(p) \in Claim
    <3>1. gen[p] \in 0..MaxGen /\ gen[p] < MaxGen /\ run[p] \in 0..MaxAttempts /\ run[p] # 0
      BY <1>6 DEF TInv, TypeOK, AtWork, Create
    <3>2. gen[p] + 1 \in Gen /\ run[p] \in Run
      BY <3>1, ResumeConstants DEF Gen, Run
    <3> QED  BY <3>2 DEF Mine, Claim
  <2>3. claims' \in [Gen -> Claim \cup {NoClaim}] /\ held' \in [Proc -> SUBSET Gen]
    BY <1>6, <2>2 DEF TInv, TypeOK, Create
  <2>4. gen' \in [Proc -> 0..MaxGen] /\ round' \in [Proc -> 0..(MaxRounds - 1)]
    BY <1>6, ResumeConstants DEF TInv, TypeOK, Create, Win
  <2>5. seen' \in [Proc -> Claim \cup {NoClaim}] /\ pc' \in [Proc -> PCs]
    BY <1>6 DEF TInv, TypeOK, Create, Win, PCs, Claiming
  <2>6. \A q \in Proc : AtWork(q)'
    BY <1>6, <2>1 DEF TInv, TypeOK, AtWork, Create, Win
  <2> QED  BY <2>1, <2>3, <2>4, <2>5, <2>6 DEF TInv, TypeOK
<1>7. ASSUME NEW p \in Proc, GiveBack(p) \/ Cancel(p) PROVE TInv'
  <2>1. UNCHANGED <<started, attempts, run, trigger, phase, gen, seen, round>> /\ MoveAside(p)
    BY <1>7 DEF GiveBack, Cancel, attempt
  <2>2. claims' \in [Gen -> Claim \cup {NoClaim}] /\ released' \subseteq Gen /\ held' \in [Proc -> SUBSET Gen]
    BY <2>1 DEF TInv, TypeOK, MoveAside, Live, files
  <2>3. refused' \in BOOLEAN /\ pc' \in [Proc -> PCs]
    BY <1>7 DEF TInv, TypeOK, GiveBack, Cancel, PCs
  <2>4. \A q \in Proc : AtWork(q)'
    BY <1>7, <2>1 DEF TInv, TypeOK, AtWork, GiveBack, Cancel
  <2>5. raced' \in BOOLEAN
    BY <2>1 DEF TInv, TypeOK, MoveAside
  <2> QED  BY <2>1, <2>2, <2>3, <2>4, <2>5 DEF TInv, TypeOK
<1>8. ASSUME NEW p \in Proc, Start(p) \/ End(p) PROVE TInv'
  <2>1. UNCHANGED <<claims, released, refused, attempts, run, trigger, phase, gen, seen, round, held, raced>>
    BY <1>8 DEF Start, End, files, attempt
  <2>2. pc' \in [Proc -> PCs]
    BY <1>8 DEF TInv, TypeOK, Start, End, PCs
  <2>3. started' \subseteq Run
    <3>1. CASE Start(p)
      <4>1. run[p] \in 0..MaxAttempts /\ run[p] # 0
        BY <3>1 DEF TInv, TypeOK, AtWork, Start
      <4>2. run[p] \in Run
        BY <4>1, ResumeConstants DEF Run
      <4> QED  BY <3>1, <4>2 DEF TInv, TypeOK, Start
    <3>2. CASE End(p)
      BY <3>2 DEF TInv, TypeOK, End
    <3> QED  BY <1>8, <3>1, <3>2
  <2>4. \A q \in Proc : AtWork(q)'
    BY <1>8, <2>1 DEF TInv, TypeOK, AtWork, Start, End
  <2> QED  BY <2>1, <2>2, <2>3, <2>4 DEF TInv, TypeOK
<1>9. ASSUME NEW p \in Proc, Die(p) \/ Restart(p) PROVE TInv'
  <2>1. UNCHANGED <<claims, released, started, refused, attempts, run, trigger, phase>>
    BY <1>9 DEF Die, Restart, files, attempt
  <2>2. pc' \in [Proc -> PCs] /\ held' \in [Proc -> SUBSET Gen] /\ seen' \in [Proc -> Claim \cup {NoClaim}]
    BY <1>9 DEF TInv, TypeOK, Die, Restart, PCs
  <2>3. gen' \in [Proc -> 0..MaxGen] /\ round' \in [Proc -> 0..(MaxRounds - 1)]
    BY <1>9, ResumeConstants DEF TInv, TypeOK, Die, Restart
  <2>4. \A q \in Proc : AtWork(q)'
    BY <1>9, <2>1 DEF TInv, TypeOK, AtWork, Die, Restart
  <2>5. raced' \in BOOLEAN
    BY <1>9 DEF TInv, TypeOK, Die, Restart
  <2> QED  BY <2>1, <2>2, <2>3, <2>4, <2>5 DEF TInv, TypeOK
<1> QED  BY <1>1, <1>2, <1>3, <1>4, <1>5, <1>6, <1>7, <1>8, <1>9
         DEF Next, Take, Launching, Environment

(* What has raced has raced. *)
LEMMA RacedStays == ASSUME raced, [Next]_vars PROVE raced'
<1>1. CASE UNCHANGED vars
  BY <1>1 DEF vars
<1>2. ASSUME NEW p \in Proc, Take(p) PROVE raced'
  BY <1>2 DEF Take, List, Read, CheckStarted, Probe, Create, Lost
<1>3. ASSUME NEW p \in Proc, Launching(p) PROVE raced'
  BY <1>3 DEF Launching, Execute, Start, GiveBack, MoveAside, End
<1>4. ASSUME NEW p \in Proc, Environment(p) PROVE raced'
  BY <1>4 DEF Environment, Attempt, Replan, Cancel, MoveAside, Unreadable, Die, Restart
<1> QED  BY <1>1, <1>2, <1>3, <1>4 DEF Next

-----------------------------------------------------------------------------
(* So the invariant holds up to the first race. *)
LEMMA Invariance == Spec => [](IInv \/ raced)
<1>1. IInv /\ [Next]_vars => (IInv \/ raced)'
  <2> SUFFICES ASSUME IInv, [Next]_vars, ~raced' PROVE IInv'
    OBVIOUS
  <2>1. TypeOK'
    BY TypeKept DEF IInv, TInv, AtWork, ProcInv, Local, KnownRun, Listed, Gen
  <2>2. raced' = FALSE
    BY <2>1 DEF TypeOK
  <2> QED  BY <2>2, NextInv
<1>2. raced /\ [Next]_vars => raced'
  BY RacedStays
<1> QED  BY InitInv, <1>1, <1>2, PTL DEF Spec

-----------------------------------------------------------------------------
(* TypeCorrect: every variable keeps its type, with every interleaving.      *)
THEOREM TypeCorrect == Spec => []TypeOK
<1>1. Init => TInv
  BY InitInv DEF TInv, IInv, Init, AtWork
<1>2. TInv /\ [Next]_vars => TInv'
  BY TypeKept
<1>3. TInv => TypeOK
  BY DEF TInv
<1> QED  BY <1>1, <1>2, <1>3, PTL DEF Spec

(* ContinuedOnce: the stopped run is continued by one run, however many      *)
(* processes try, die and come back ("Only the owner launches").             *)
THEOREM ContinuedOnce == Spec => []SingleContinuation
<1>1. IInv \/ raced => SingleContinuation
  BY DEF IInv, FileInv, StartedOnTop, SingleContinuation
<1> QED  BY Invariance, <1>1, PTL

(* After the start nothing can be created, for a taker that may create is    *)
(* above the highest generation; and nothing can be given back, for the      *)
(* highest claim is of a run that has started.                               *)
LEMMA ClaimStays ==
    ASSUME IInv, [Next]_vars, started # {}
    PROVE  UNCHANGED files
<1>1. CASE UNCHANGED vars
  BY <1>1 DEF vars, files
<1>2. ASSUME NEW p \in Proc, Create(p) PROVE FALSE
  <2>1. pc[p] = "create" /\ gen[p] < MaxGen /\ claims[gen[p] + 1] = NoClaim
    BY <1>2 DEF Create
  <2> QED  BY <2>1, CreateFromTop
<1>3. ASSUME NEW p \in Proc, MoveAside(p), pc[p] \in {"prepared", "launch", "refused"}
      PROVE  UNCHANGED files
  <2>1. PICK g \in 0..MaxGen :
          /\ Highest(Used, g)
          /\ (g \in Live /\ claims[g] = Mine(p)) \/ UNCHANGED files
    BY <1>3 DEF MoveAside, Used
  <2>2. CASE g \in Live /\ claims[g] = Mine(p)
    <3>1. PICK h \in Live : Top(h) /\ started = {claims[h].run}
      BY DEF IInv, FileInv, StartedOnTop
    <3>2. h = g
      BY <2>1, <3>1, TopUnique DEF IInv, Top
    <3>3. run[p] \in started
      BY <2>2, <3>1, <3>2 DEF Mine
    <3> QED  BY <1>3, <3>3 DEF IInv, ProcInv, Local, StartedRun
  <2> QED  BY <2>1, <2>2
<1>4. ASSUME NEW p \in Proc, Take(p) PROVE UNCHANGED files
  BY <1>2, <1>4 DEF Take, List, Read, CheckStarted, Probe, Lost
<1>5. ASSUME NEW p \in Proc, Launching(p) PROVE UNCHANGED files
  BY <1>3, <1>5 DEF Launching, Execute, Start, GiveBack, End
<1>6. ASSUME NEW p \in Proc, Environment(p) PROVE UNCHANGED files
  BY <1>3, <1>6 DEF Environment, Attempt, Replan, Cancel, Goto, Unreadable, Die, Restart
<1> QED  BY <1>1, <1>4, <1>5, <1>6 DEF Next

(* ClaimIsFinal: once the continuation's status file exists no step creates  *)
(* a claim file or gives one back.                                           *)
THEOREM ClaimIsFinal == Spec => ClaimPermanent
<1>1. (IInv \/ raced) /\ [Next]_vars => [started # {} /\ ~raced => UNCHANGED files]_vars
  BY ClaimStays
<1> QED  BY Invariance, <1>1, PTL DEF Spec, ClaimPermanent

(* Each step is a step of ContinueOnce or a stutter: a link is a Take, the   *)
(* first status is the Start, and what makes an owner lose the run without   *)
(* starting is a GiveUp.                                                     *)
LEMMA StepImplementsOnce ==
    ASSUME IInv, [Next]_vars, raced' = FALSE
    PROVE  [Once!Next]_<<Owner, started>>
<1>1. CASE UNCHANGED vars
  BY <1>1 DEF vars, Owner
<1>2. CASE Lessens
  <2>1. CASE Owner' = Owner
    BY <1>2, <2>1 DEF Lessens
  <2>2. CASE Owner' # Owner
    <3>1. Owner # {} /\ Owner' = {}
      BY <1>2, <2>2, OwnerAlone DEF Lessens
    <3> QED  BY <1>2, <3>1 DEF Lessens, Once!Next, Once!GiveUp
  <2> QED  BY <2>1, <2>2
<1>3. ASSUME NEW p \in Proc, Create(p) PROVE Once!Take(p)
  <2>1. /\ pc[p] = "create" /\ gen[p] < MaxGen /\ claims[gen[p] + 1] = NoClaim
        /\ UNCHANGED <<started, trigger, phase>>
        /\ pc' = [pc EXCEPT ![p] = IF phase[p] = "launch" THEN "launch" ELSE "prepared"]
    BY <1>3 DEF Create, Win, Return, attempt
  <2>2. Owner = {} /\ started = {}
    BY <2>1, CreateFromTop
  <2>3. Owner' = {p}
    BY <2>1, <2>2 DEF Owner, Claiming, IInv, TypeOK
  <2> QED  BY <2>1, <2>2, <2>3 DEF Once!Take
<1>4. ASSUME NEW p \in Proc, Start(p) PROVE Once!Start(p, run[p]) /\ run[p] \in Run
  <2>1. /\ UNCHANGED <<trigger, phase>> /\ started' = started \cup {run[p]}
        /\ pc[p] = "launch" /\ pc' = [pc EXCEPT ![p] = "running"] /\ p \in Owner
    BY <1>4 DEF Start, Goto, attempt, Owner
  <2>2. started = {} /\ Owner = {p}
    BY <2>1, OwnerAlone
  <2>3. Owner' = {}
    BY <2>1, <2>2 DEF Owner, Claiming, IInv, TypeOK
  <2>4. run[p] \in Run
    BY <2>1 DEF IInv, TypeOK, Run, ProcInv, Local, KnownRun
  <2> QED  BY <2>1, <2>2, <2>3, <2>4 DEF Once!Start
<1>5. ASSUME NEW p \in Proc, Take(p) PROVE Lessens \/ Once!Next
  BY <1>3, <1>5, ListStep, ReadStep, CheckStartedStep, ProbeStep, LostStep DEF Take, Once!Next
<1>6. ASSUME NEW p \in Proc, Launching(p) PROVE Lessens \/ Once!Next
  BY <1>4, <1>6, ExecuteStep, GiveBackStep, EndStep DEF Launching, Once!Next
<1>7. ASSUME NEW p \in Proc, Environment(p) PROVE Lessens
  BY <1>7, AttemptStep, ReplanStep, CancelStep, UnreadableStep, DieStep, RestartStep DEF Environment
<1> QED  BY <1>1, <1>2, <1>5, <1>6, <1>7 DEF Next

(* ClaimsImplementOnce: the claim files implement "Only the owner launches": *)
(* at most one owner at a time, and no owner after the continuation.         *)
THEOREM ClaimsImplementOnce == Spec => ImplementsOnce
<1>1. Init => Once!Init
  BY DEF Init, Once!Init, Owner, Claiming
<1>2. (IInv \/ raced) /\ [Next]_vars => [Once!Next \/ raced']_<<Owner, started>>
  <2> SUFFICES ASSUME IInv \/ raced, [Next]_vars, ~raced' PROVE [Once!Next]_<<Owner, started>>
    OBVIOUS
  <2>1. IInv
    BY RacedStays
  <2>2. TypeOK'
    BY <2>1, TypeKept DEF IInv, TInv, AtWork, ProcInv, Local, KnownRun, Listed, Gen
  <2>3. raced' = FALSE
    BY <2>2 DEF TypeOK
  <2> QED  BY <2>1, <2>3, StepImplementsOnce
<1> QED  BY Invariance, <1>1, <1>2, PTL DEF Spec, ImplementsOnce, Once!onceVars
=============================================================================
