------------------------ MODULE ResultDelivery_proof ------------------------
(***************************************************************************)
(* Theorems about ResultDelivery, for any outcomes and any number of       *)
(* payloads and mishaps.  Beyond type correctness they hold up to the first *)
(* of the two events that astray records: a stop between the watcher's      *)
(* check and its write, an older payload left alone on the public path.     *)
(***************************************************************************)
EXTENDS ResultDelivery, TLAPS

(* Where the watcher has a payload in hand, and where it will not read       *)
(* another one.                                                             *)
Kept == {"promote", "record", "decide", "deliver", "await", "accepted", "delivered", "mark", "retire"} \cup Locked
InHand == Kept \cup {"beside2", "read2"}
(* Where it will. *)
ToRead == {"beside", "read", "beside2", "read2"}
(* The notice of it was sent; its retirement. *)
Accepted == {"accepted", "mark", "markPending", "markPublic", "markWrite", "markPromote"}
Dropping == {"dropPending", "dropPublic", "dropIndex"}
Retiring == {"retire", "checkPending", "checkPublic"} \cup Dropping
Recorded == {"decide", "deliver", "await", "delivered"} \cup Accepted \cup Retiring

-----------------------------------------------------------------------------
(* What types need: payloads on disk and in hand were published, and each    *)
(* process sends the notice of an outcome once.                             *)
Numbered ==
    /\ pending # None => pending.n <= published
    /\ public # None => public.n <= published
    /\ raw # None => raw.n <= published
    /\ beside # None => beside.n <= published
Batch == \A n \in queued :
    /\ outcome[n] \in Deferred \ told
    /\ \A m \in queued : outcome[m] = outcome[n] => m = n
Sent == \A n \in Num :
    notices[n] <= mishaps \/ (outcome[n] \in told /\ notices[n] <= mishaps + 1)
TInv ==
    /\ TypeOK /\ Numbered /\ Batch /\ Sent
    /\ rpc \in {"locked", "relocked"} => published < MaxPayloads
    /\ hpc \in InHand => raw # None

-----------------------------------------------------------------------------
(* What is pending is the newest payload; an older one is public only        *)
(* beneath it, but for the middle of its retirement.                        *)
PendingNewest == pending # None => pending.n = published
PublicBeneath ==
    public # None /\ public.n < published => pending # None \/ hpc = "dropPublic"

(* The watcher reads the public path before the payload, and the older of    *)
(* the two first.                                                           *)
BesideOlder ==
    /\ hpc \in {"read", "read2"} /\ path = "public" /\ beside # None /\ public # None => beside.n <= public.n
    /\ hpc \in Kept /\ beside # None => beside.n <= raw.n
(* A payload that is newer than the one in hand is on disk. *)
NewerOnDisk == hpc \in Kept => raw.n = published \/ OnDisk(published)

(* A replay that is durable is of the payload in hand. *)
Durable ==
    /\ durable => hpc \in Recorded /\ replay = raw.n
    /\ hpc \in Retiring => durable

(* What counts as delivered was announced, or is the stopped result that     *)
(* inherited the mark; nothing is published after that one.                 *)
Accounted(o) == Announced(o) \/ (published \in recorded /\ outcome[published] = o)
Delivery ==
    /\ \A o \in told : Announced(o)
    /\ hpc \in Accepted => State \in told
    /\ \A o \in seen : Accounted(o)
    /\ hpc \in Retiring \cup {"delivered"} => Accounted(State)
    /\ \A n \in recorded : n <= published /\
           (Announced(outcome[n]) \/ (n = published /\ outcome[n] = "stopped" /\ rpc = "exited"))
Marks ==
    /\ pending # None /\ pending.marked => pending.n \in recorded
    /\ public # None /\ public.marked => public.n \in recorded
    /\ hpc \in InHand /\ raw.marked => raw.n \in recorded

(* Under the lease: what the looks at the two paths have shown still holds. *)
UnderLease ==
    /\ hpc \in {"markPublic", "checkPublic"} =>
           ReadPending /\ (raw.n = published \/ (public # None /\ public.n = published))
    /\ hpc \in {"markWrite", "dropPending"} => ReadPending /\ ReadPublic
    /\ hpc \in {"markWrite", "markPromote"} \cup Dropping => raw.n = published
    /\ hpc = "dropPublic" => ReadPending /\ ReadPublic
    /\ hpc = "dropIndex" => ReadPending /\ public \in {None, raw}

SInv ==
    /\ PendingNewest /\ PublicBeneath /\ BesideOlder /\ NewerOnDisk
    /\ Durable /\ Delivery /\ Marks /\ UnderLease /\ NewestKept

-----------------------------------------------------------------------------
(* Nothing newer than n was announced, or waits to be. *)
Newest(n) == \A m \in Num : notices[m] > 0 \/ m \in queued => m <= n
(* A payload that was written with the mark carries it, where it is read. *)
Carries(payload) == payload.n \in recorded => payload.marked
MarksCarried ==
    /\ pending # None => Carries(pending)
    /\ pending = None /\ public # None /\ hpc # "dropPublic" => Carries(public)
    /\ hpc \in ToRead /\ path = "public" /\ public # None => Carries(public)
    /\ hpc \in Kept => Carries(raw)
    /\ hpc \in {"deliver", "await"} => ~raw.marked
InOrder ==
    /\ \A n \in Num : notices[n] > 0 => n <= published
    /\ hpc \in ToRead /\ path = "public" /\ public # None => Newest(public.n)
    /\ hpc \in Kept => Newest(raw.n)
(* What waits in the batcher is not marked. *)
QueuedUnmarked == \A n \in queued : n \notin recorded

AInv == MarksCarried /\ InOrder /\ QueuedUnmarked

-----------------------------------------------------------------------------
(* Types                                                                     *)

Facts ==
    /\ published \in Nat /\ MaxPayloads \in Nat /\ MaxMishaps \in Nat
    /\ \A n \in Num : n \in Nat /\ n >= 1 /\ n <= MaxPayloads
    /\ \A n \in Nat : n >= 1 /\ n <= MaxPayloads => n \in Num
    /\ published < MaxPayloads => published + 1 \in Num
    /\ \A n \in 1..published : n \in Num
    /\ \A p \in Payload : p.n \in Num /\ p.marked \in BOOLEAN /\ p # None
    /\ None \notin Outcome

LEMMA Known == TInv => Facts
BY DeliveryConstants DEF TInv, TypeOK, Facts, Num, Payload

(* The payload in hand is one that was published. *)
LEMMA RawPublished ==
    ASSUME TInv, hpc \in InHand
    PROVE  raw \in Payload /\ raw.n \in 1..published /\ raw.n \in Num /\ State \in Outcome
<1>1. raw \in Payload /\ raw.n \in Num /\ raw.n <= published
  BY Known DEF TInv, TypeOK, Numbered, Facts
<1>2. raw.n \in 1..published /\ outcome[raw.n] # None
  BY <1>1, Known DEF TInv, TypeOK, Facts
<1> QED  BY <1>1, <1>2 DEF State, TInv, TypeOK

(* The steps by what they may change. *)
Publish == PublishInterim \/ PublishFinal \/ PublishThrows \/ PublishFailure \/ Repair \/ Seal
RunnerMoves == RunnerLock \/ PromoteFinal \/ RunnerGone
Reads == Find \/ FindStray \/ NothingLeft \/ ReadBeside \/ ReadPayload \/ PromoteAgain
Looks == Verify \/ Lock \/ Busy \/ CheckPending \/ CheckPublic
Others == Lookup \/ Reindex \/ Reclaim
Keeps == Record \/ RecordFails \/ Decide \/ Expire \/ Transition

LEMMA StepCases ==
    ASSUME [Next]_vars
    PROVE  \/ UNCHANGED vars \/ Publish \/ RunnerMoves \/ Others \/ Reads \/ Looks \/ Keeps
           \/ Deliver \/ Defer \/ Send \/ Refused
           \/ MarkWrite \/ MarkFails \/ MarkPromote \/ DropPending \/ DropPublic \/ DropIndex \/ Crash
BY DEF Next, Runner, Handle, Reading, Mark, Retire, Notify, Trouble,
       Publish, RunnerMoves, Others, Reads, Looks, Keeps

(* What the write of the mark changes, when it goes through or throws. *)
Marked == pending' = [raw EXCEPT !.marked = TRUE] /\ public' = public /\ recorded' = recorded \cup {raw.n}
LEMMA MarkFailsStep ==
    ASSUME TInv, MarkFails
    PROVE  /\ hpc = "markWrite" /\ hpc' = "retry" /\ path' = "public" /\ raw' = None /\ beside' = None /\ durable' = FALSE
           /\ lease' = "nobody" /\ indexed' = indexed
           /\ UNCHANGED <<replay, seen, told, queued, notices, published, outcome, rpc, astray>>
           /\ Marked \/ UNCHANGED <<pending, public, recorded>>
<1>1. TypeOK
  BY DEF TInv
<1>2. lease' = "nobody"
  BY <1>1 DEF MarkFails, Leave, TypeOK, Locked
<1>3. indexed' = indexed
  BY <1>1 DEF MarkFails, WritePending, disk, TypeOK
<1> QED  BY <1>2, <1>3 DEF MarkFails, Leave, WritePending, Marked, disk, notifier, writers

LEMMA MarkStep ==
    ASSUME TInv, MarkWrite \/ MarkFails
    PROVE  /\ hpc = "markWrite" /\ raw \in Payload /\ raw.n \in 1..published
           /\ Marked \/ (MarkFails /\ UNCHANGED <<pending, public, recorded>>)
           /\ [raw EXCEPT !.marked = TRUE] \in Payload /\ [raw EXCEPT !.marked = TRUE].n = raw.n
           /\ [raw EXCEPT !.marked = TRUE].marked
           /\ UNCHANGED <<replay, seen, told, queued, notices, published, outcome, rpc, astray>>
<1>1. hpc = "markWrite"
  BY DEF MarkWrite, MarkFails, Goto
<1>2. raw \in Payload /\ raw.n \in 1..published
  BY <1>1, RawPublished DEF InHand, Kept, Locked
<1>3. /\ [raw EXCEPT !.marked = TRUE] \in Payload /\ [raw EXCEPT !.marked = TRUE].n = raw.n
      /\ [raw EXCEPT !.marked = TRUE].marked
  BY <1>2 DEF Payload
<1>4. CASE MarkWrite
  BY <1>1, <1>2, <1>3, <1>4 DEF MarkWrite, WritePending, Marked, HostRest, writers, notifier
<1>5. CASE MarkFails
  BY <1>1, <1>2, <1>3, <1>5, MarkFailsStep
<1> QED  BY <1>4, <1>5

(* What a publication changes. *)
LEMMA PublishStep ==
    ASSUME TInv, Publish
    PROVE  /\ published' = published + 1 /\ published < MaxPayloads
           /\ outcome'[published + 1] \in Outcome
           /\ \A n \in Num : n # published + 1 => outcome'[n] = outcome[n]
           /\ pending' \in Payload /\ pending'.n = published + 1 /\ public' = public /\ indexed' \in BOOLEAN
           /\ UNCHANGED <<replay, hpc, reading, durable, seen, notifier>>
<1>1. Facts /\ TypeOK
  BY Known DEF TInv
<1>2. published < MaxPayloads
  <2>1. CASE PublishInterim \/ PublishFinal \/ PublishThrows \/ PublishFailure
    BY <2>1 DEF TInv, PublishInterim, PublishFinal, PublishThrows, PublishFailure, RunnerGoto
  <2>2. CASE Repair
    BY <2>2, DeliveryConstants DEF Repair
  <2>3. CASE Seal
    BY <1>1, <2>3 DEF Seal, Facts
  <2> QED  BY <2>1, <2>2, <2>3 DEF Publish
<1>3. PICK o \in Outcome, ok \in BOOLEAN, d \in BOOLEAN :
        /\ outcome' = [outcome EXCEPT ![published + 1] = o] /\ published' = published + 1
        /\ WritePending([n |-> published + 1, marked |-> d], ok)
  <2>1. CASE PublishInterim \/ PublishFinal \/ PublishThrows \/ PublishFailure \/ Repair
    BY <2>1 DEF PublishInterim, PublishFinal, PublishThrows, PublishFailure, Repair, WriteResult, Outcome
  <2>2. CASE Seal
    <3>1. PICK ok \in BOOLEAN, d \in BOOLEAN : WritePending([n |-> published + 1, marked |-> d], ok)
      BY <1>1, <2>2 DEF Seal, TypeOK, Payload
    <3> QED  BY <2>2, <3>1 DEF Seal, Outcome
  <2> QED  BY <2>1, <2>2 DEF Publish
<1>4. pending' = [n |-> published + 1, marked |-> d] /\ public' = public /\ indexed' \in BOOLEAN
  BY <1>1, <1>3 DEF WritePending, TypeOK
<1>5. pending' \in Payload /\ pending'.n = published + 1
  BY <1>1, <1>2, <1>4 DEF Payload, Facts
<1>6. UNCHANGED <<replay, hpc, reading, durable, seen, notifier>>
  BY DEF Publish, PublishInterim, PublishFinal, PublishThrows, PublishFailure, Repair, Seal, RunnerRest
<1>7. outcome'[published + 1] = o /\ \A n \in Num : n # published + 1 => outcome'[n] = outcome[n]
  BY <1>1, <1>2, <1>3 DEF TypeOK, Facts
<1> QED  BY <1>2, <1>3, <1>4, <1>5, <1>6, <1>7

(* The parts of the type. *)
DiskTypes ==
    /\ pending \in Payload \cup {None} /\ public \in Payload \cup {None}
    /\ indexed \in BOOLEAN /\ replay \in 0..MaxPayloads /\ recorded \subseteq Num
RunnerTypes ==
    /\ published \in 0..MaxPayloads
    /\ outcome \in [Num -> Outcome \cup {None}]
    /\ \A n \in Num : outcome[n] # None <=> n <= published
    /\ rpc \in {"running", "locked", "written", "failing", "relocked", "exited", "dead"}
HostTypes ==
    /\ hpc \in HostPC /\ path \in {"pending", "public"}
    /\ raw \in Payload \cup {None} /\ beside \in Payload \cup {None}
    /\ durable \in BOOLEAN /\ seen \subseteq Outcome
MishapTypes == mishaps \in 0..MaxMishaps /\ astray \in BOOLEAN
NoticeTypes ==
    /\ told \subseteq Outcome /\ queued \subseteq 1..published
    /\ notices \in [Num -> 0..(MaxMishaps + 1)]
LeaseTypes ==
    /\ lease \in {"nobody", "runner", "host", "dead"}
    /\ lease = "host" <=> hpc \in Locked
    /\ lease = "runner" <=> rpc \in {"locked", "written", "relocked"}

LEMMA TypeParts == TypeOK <=> DiskTypes /\ RunnerTypes /\ HostTypes /\ MishapTypes /\ NoticeTypes /\ LeaseTypes
BY DEF TypeOK, DiskTypes, MishapTypes, RunnerTypes, HostTypes, NoticeTypes, LeaseTypes

(* Mishaps are counted, up to their bound. *)
LEMMA MishapsGrow ==
    ASSUME TInv, [Next]_vars
    PROVE  MishapTypes' /\ mishaps' >= mishaps
<1>1. mishaps \in Nat /\ mishaps <= MaxMishaps /\ MaxMishaps \in Nat /\ astray \in BOOLEAN
  BY Known DEF TInv, TypeOK, Facts
<1>2. mishaps' = mishaps \/ (mishaps < MaxMishaps /\ mishaps' = mishaps + 1)
  <2>1. CASE Publish
    <3>1. \E p, ok : WritePending(p, ok)
      BY <2>1 DEF Publish, PublishInterim, PublishFinal, PublishThrows, PublishFailure, WriteResult, Repair, Seal
    <3> QED  BY <3>1 DEF WritePending, Storage, Mishap
  <2>2. CASE RunnerMoves \/ Others \/ UNCHANGED vars
    BY <2>2 DEF RunnerMoves, RunnerLock, PromoteFinal, RunnerGone, Others, Lookup, Reindex, Reclaim, vars
  <2>3. CASE Reads \/ Looks \/ Keeps
    BY <2>3 DEF Reads, Looks, Keeps, Find, FindStray, Locate, NothingLeft, ReadBeside, ReadPayload, PromoteAgain, Verify, Lock,
       Busy, CheckPending, CheckPublic, Record, RecordFails, Decide, Expire, Transition, HostRest
  <2>4. CASE Deliver \/ Defer \/ Send \/ Refused \/ MarkPromote \/ DropIndex
    BY <2>4 DEF Deliver, Defer, Send, Refused, MarkPromote, DropIndex, HostRest
  <2>5. CASE MarkWrite \/ MarkFails
    BY <2>5 DEF MarkWrite, MarkFails, WritePending, Storage, Mishap, HostRest
  <2>6. CASE DropPending \/ DropPublic \/ Crash
    BY <2>6 DEF DropPending, DropPublic, Crash, Storage, Mishap
  <2> QED  BY <2>1, <2>2, <2>3, <2>4, <2>5, <2>6, StepCases
<1>3. astray' \in BOOLEAN
  <2>1. astray' = astray \/ Seal \/ DropPublic \/ Crash
    BY StepCases DEF Publish, PublishInterim, PublishFinal, PublishThrows, PublishFailure, Repair, RunnerRest, RunnerMoves,
       RunnerLock, PromoteFinal, RunnerGone, Others, Lookup, Reindex, Reclaim, vars, Reads, Looks, Keeps, Find, FindStray, Locate,
       NothingLeft, ReadBeside, ReadPayload, PromoteAgain, Verify, Lock, Busy, CheckPending, CheckPublic, Record, RecordFails,
       Decide, Expire, Transition, Deliver, Defer, Send, Refused, MarkWrite, MarkFails, MarkPromote, DropPending, DropIndex, HostRest
  <2> QED  BY <1>1, <2>1 DEF Seal, DropPublic, Crash
<1> QED  BY <1>1, <1>2, <1>3 DEF MishapTypes

LEMMA DiskTypesKept ==
    ASSUME TInv, [Next]_vars
    PROVE  DiskTypes'
<1>1. TypeOK /\ Facts
  BY Known DEF TInv
<1>2. CASE UNCHANGED vars
  BY <1>1, <1>2 DEF vars, disk, DiskTypes, TypeOK
<1>3. CASE Publish
  <2>1. recorded \subseteq Num /\ published + 1 \in Num
    BY <1>1, <1>3, PublishStep DEF TypeOK, Facts
  <2>2. recorded' \subseteq recorded \cup {published + 1}
    BY <1>3 DEF Publish, PublishInterim, PublishFinal, PublishThrows, PublishFailure, Repair, Seal, RunnerRest
  <2>3. recorded' \subseteq Num
    BY <2>1, <2>2
  <2>4. pending' \in Payload /\ public' = public /\ replay' = replay /\ indexed' \in BOOLEAN
    BY <1>3, PublishStep
  <2>5. public \in Payload \cup {None} /\ replay \in 0..MaxPayloads
    BY <1>1 DEF TypeOK
  <2> QED  BY <2>3, <2>4, <2>5 DEF DiskTypes
<1>4. CASE RunnerMoves \/ Others
  BY <1>1, <1>4 DEF RunnerMoves, RunnerLock, PromoteFinal, RunnerGone, RunnerRest, Others, Lookup, Reindex, Reclaim,
     Promoted, NotPromoted, disk, DiskTypes, TypeOK
<1>5. CASE Reads \/ Looks
  BY <1>1, <1>5 DEF Reads, Looks, Find, FindStray, Locate, NothingLeft, ReadBeside, ReadPayload, PromoteAgain, Verify, Lock, Busy, CheckPending,
     CheckPublic, Promoted, NotPromoted, disk, DiskTypes, TypeOK
<1>6. CASE Keeps
  <2>1. replay' \in {replay, raw.n} /\ (replay' # replay => hpc = "record")
    BY <1>6 DEF Keeps, Record, RecordFails, Decide, Expire, Transition, Goto
  <2>2. replay' \in 0..MaxPayloads
    BY <1>1, <2>1, RawPublished DEF InHand, Kept, TypeOK, Facts
  <2> QED  BY <1>1, <1>6, <2>2 DEF Keeps, Record, RecordFails, Decide, Expire, Transition, disk, DiskTypes, TypeOK
<1>7. CASE Deliver \/ Defer \/ Send \/ Refused \/ Crash
  BY <1>1, <1>7 DEF Deliver, Defer, Send, Refused, Crash, disk, DiskTypes, TypeOK
<1>8. CASE MarkWrite \/ MarkFails
  <2>1. indexed' \in BOOLEAN
    BY <1>1, <1>8, MarkFailsStep DEF MarkWrite, WritePending, TypeOK
  <2> QED  BY <1>1, <1>8, <2>1, MarkStep DEF Marked, DiskTypes, TypeOK, Facts
<1>9. CASE MarkPromote \/ DropPending \/ DropPublic \/ DropIndex
  BY <1>1, <1>9 DEF MarkPromote, DropPending, DropPublic, DropIndex, Promoted, NotPromoted, disk, DiskTypes, TypeOK
<1> QED  BY <1>2, <1>3, <1>4, <1>5, <1>6, <1>7, <1>8, <1>9, StepCases

LEMMA RunnerTypesKept ==
    ASSUME TInv, [Next]_vars
    PROVE  RunnerTypes'
<1>1. TypeOK /\ Facts
  BY Known DEF TInv
<1>2. CASE Publish
  <2>1. rpc' \in {"running", "written", "failing", "dead", "exited"}
    BY <1>2 DEF Publish, PublishInterim, PublishFinal, PublishThrows, PublishFailure, WriteResult, Repair, Seal, RunnerGoto
  <2>2. published' \in 0..MaxPayloads
    BY <1>1, <1>2, PublishStep DEF Facts
  <2>3. \A n \in Num : outcome'[n] # None <=> n <= published'
    BY <1>1, <1>2, PublishStep DEF Facts, TypeOK
  <2>4. outcome' \in [Num -> Outcome \cup {None}]
    <3>1. \E x : outcome' = [outcome EXCEPT ![published + 1] = x]
      BY <1>1, <1>2 DEF Publish, PublishInterim, PublishFinal, PublishThrows, PublishFailure, WriteResult, Repair, Seal, Facts
    <3> QED  BY <1>1, <1>2, <3>1, PublishStep DEF Facts, TypeOK
  <2> QED  BY <2>1, <2>2, <2>3, <2>4 DEF RunnerTypes
<1>3. CASE ~Publish
  <2>1. published' = published /\ outcome' = outcome
    BY <1>3, StepCases DEF vars, writers, RunnerMoves, RunnerLock, PromoteFinal, RunnerGone, Others, Lookup, Reindex, Reclaim,
       HostRest, Reads, Looks, Keeps, Find, FindStray, Locate, NothingLeft, ReadBeside, ReadPayload, PromoteAgain, Verify, Lock, Busy, CheckPending,
       CheckPublic, Record, RecordFails, Decide, Expire, Transition, Deliver, Defer, Send, Refused, MarkWrite, MarkFails,
       MarkPromote, DropPending, DropPublic, DropIndex, Crash
  <2>2. rpc' = rpc \/ rpc' \in {"locked", "relocked", "exited", "dead"}
    BY <1>3, StepCases DEF vars, writers, RunnerMoves, RunnerLock, PromoteFinal, RunnerGone, RunnerGoto, Others, Lookup, Reindex, Reclaim,
       HostRest, Reads, Looks, Keeps, Find, FindStray, Locate, NothingLeft, ReadBeside, ReadPayload, PromoteAgain, Verify, Lock, Busy, CheckPending,
       CheckPublic, Record, RecordFails, Decide, Expire, Transition, Deliver, Defer, Send, Refused, MarkWrite, MarkFails,
       MarkPromote, DropPending, DropPublic, DropIndex, Crash
  <2> QED  BY <1>1, <2>1, <2>2 DEF TypeOK, RunnerTypes
<1> QED  BY <1>2, <1>3

LEMMA HostTypesKept ==
    ASSUME TInv, [Next]_vars
    PROVE  HostTypes' /\ LeaseTypes' /\ (hpc' \in InHand => raw' # None)
<1> USE DEF HostTypes, LeaseTypes, HostPC, Locked, InHand, Kept
<1>1. TypeOK /\ Facts /\ (hpc \in InHand => raw # None)
  BY Known DEF TInv
<1>2. CASE UNCHANGED vars
  BY <1>1, <1>2 DEF vars, reading, writers, TypeOK
<1>3. CASE Publish
  <2>1. \/ lease' = lease /\ rpc' = rpc
        \/ rpc \in {"locked", "relocked"} /\ rpc' \in {"running", "failing", "exited"} /\ lease' = "nobody"
        \/ rpc = "locked" /\ rpc' = "written" /\ lease' = lease
    BY <1>3 DEF Publish, PublishInterim, PublishFinal, PublishThrows, PublishFailure, WriteResult, Repair, Seal, RunnerGoto
  <2>2. UNCHANGED <<hpc, path, raw, beside, durable, seen>>
    BY <1>3, PublishStep DEF reading
  <2> QED  BY <1>1, <2>1, <2>2 DEF TypeOK
<1>4. CASE RunnerMoves
  BY <1>1, <1>4 DEF RunnerMoves, RunnerLock, PromoteFinal, RunnerGone, RunnerGoto, RunnerRest, reading, TypeOK
<1>5. CASE Others
  BY <1>1, <1>5 DEF Others, Lookup, Reindex, Reclaim, reading, writers, TypeOK
<1>6. CASE Reads
  <2>1. CASE Find \/ FindStray
    <3>1. hpc \in {"idle", "retry"} /\ hpc' = "beside" /\ path' \in {"pending", "public"}
      BY <2>1 DEF Find, FindStray, Locate
    <3>2. UNCHANGED <<lease, rpc, raw, beside, durable, seen>>
      BY <2>1 DEF Find, FindStray, Locate, HostRest, writers
    <3> QED  BY <1>1, <3>1, <3>2 DEF TypeOK
  <2>2. CASE NothingLeft \/ ReadBeside
    <3>1. /\ hpc \in {"retry", "beside", "beside2"} /\ hpc' \in {"idle", "read", "read2"}
          /\ hpc' = "read2" => hpc = "beside2"
          /\ beside' \in {beside, public}
      BY <2>2 DEF NothingLeft, ReadBeside, Goto, reading
    <3>2. UNCHANGED <<lease, rpc, path, raw, durable, seen>>
      BY <2>2 DEF NothingLeft, ReadBeside, HostRest, writers, reading
    <3> QED  BY <1>1, <3>1, <3>2 DEF TypeOK
  <2>3. CASE ReadPayload
    <3>1. UNCHANGED <<rpc, seen>>
      BY <2>3 DEF ReadPayload, HostRest, writers
    <3>2. \/ Leave("idle")
          \/ /\ raw' # None /\ raw' \in {pending, public}
             /\ hpc' \in {"promote", "record"} /\ UNCHANGED <<path, beside, durable, lease>>
      BY <2>3 DEF ReadPayload
    <3>3. hpc \in {"read", "read2"}
      BY <2>3 DEF ReadPayload
    <3>4. CASE Leave("idle")
      BY <1>1, <3>1, <3>3, <3>4 DEF Leave, TypeOK
    <3>5. CASE ~Leave("idle")
      BY <1>1, <3>1, <3>2, <3>3, <3>5 DEF TypeOK
    <3> QED  BY <3>4, <3>5
  <2>4. CASE PromoteAgain
    <3>1. UNCHANGED <<rpc, seen, raw, beside, durable, lease>> /\ path' \in {path, "pending", "public"}
      BY <2>4 DEF PromoteAgain, Proceed, HostRest, writers, reading
    <3>2. hpc = "promote" /\ hpc' \in {"record", "beside2"}
      BY <2>4 DEF PromoteAgain, Proceed
    <3> QED  BY <1>1, <3>1, <3>2 DEF TypeOK
  <2> QED  BY <1>6, <2>1, <2>2, <2>3, <2>4 DEF Reads
<1>7. CASE Looks
  <2>1. CASE Verify \/ Lock \/ Busy
    BY <1>1, <2>1 DEF Verify, Lock, Busy, Goto, Leave, Proceed, HostRest, reading, writers, TypeOK
  <2>2. CASE CheckPending \/ CheckPublic
    BY <1>1, <2>2 DEF CheckPending, CheckPublic, Leave, Proceed, HostRest, reading, writers, TypeOK
  <2> QED  BY <1>7, <2>1, <2>2 DEF Looks
<1>8. CASE Keeps
  <2>1. seen' \subseteq Outcome
    BY <1>1, <1>8, RawPublished DEF Keeps, Record, RecordFails, Decide, Expire, Transition, TypeOK
  <2>2. CASE Record \/ RecordFails \/ Decide
    BY <1>1, <2>1, <2>2 DEF Record, RecordFails, Decide, Goto, Proceed, HostRest, reading, writers, TypeOK
  <2>3. CASE Expire \/ Transition
    BY <1>1, <2>1, <2>3 DEF Expire, Transition, Leave, HostRest, reading, writers, TypeOK
  <2> QED  BY <1>8, <2>2, <2>3 DEF Keeps
<1>9. CASE Deliver \/ Defer \/ Send \/ Refused
  <2>1. CASE Deliver \/ Defer
    BY <1>1, <2>1 DEF Deliver, Defer, Proceed, HostRest, reading, writers, TypeOK
  <2>2. CASE Send
    BY <1>1, <2>2 DEF Send, HostRest, reading, writers, TypeOK
  <2>3. CASE Refused
    BY <1>1, <2>3 DEF Refused, Leave, HostRest, writers, TypeOK
  <2> QED  BY <1>9, <2>1, <2>2, <2>3
<1>10. CASE MarkWrite
  <2>1. [raw EXCEPT !.marked = TRUE] \in Payload
    BY <1>10, RawPublished DEF MarkWrite, Goto, Payload
  <2> QED  BY <1>1, <1>10, <2>1 DEF MarkWrite, Goto, HostRest, writers, TypeOK, Facts
<1>11. CASE MarkPromote
  <2>1. State \in Outcome
    BY <1>11, RawPublished DEF MarkPromote
  <2> QED  BY <1>1, <1>11, <2>1 DEF MarkPromote, HostRest, writers, TypeOK
<1>12. CASE DropPending \/ DropPublic \/ DropIndex
  BY <1>1, <1>12 DEF DropPending, DropPublic, DropIndex, Leave, Proceed, HostRest, reading, writers, TypeOK
<1>13. CASE Crash
  BY <1>1, <1>13 DEF Crash, writers, TypeOK
<1>14. CASE MarkFails
  BY <1>1, <1>14, MarkFailsStep DEF TypeOK
<1> QED  BY <1>14, <1>2, <1>3, <1>4, <1>5, <1>6, <1>7, <1>8, <1>9, <1>10, <1>11, <1>12, <1>13, StepCases

(* Every step keeps the numbers of the payloads within what is published. *)
LEMMA NumberedKept ==
    ASSUME TInv, [Next]_vars
    PROVE  Numbered'
<1>1. TypeOK /\ Facts /\ Numbered
  BY Known DEF TInv
<1>2. CASE Publish
  <2>1. \A p \in Payload : p.n <= published => p.n <= published'
    BY <1>1, <1>2, PublishStep DEF Facts
  <2> QED  BY <1>1, <1>2, <2>1, PublishStep DEF Numbered, reading, TypeOK, Facts
<1>3. CASE ~Publish
  <2>1. published' = published
    BY <1>3, StepCases DEF vars, writers, RunnerMoves, RunnerLock, PromoteFinal, RunnerGone, Others, Lookup, Reindex, Reclaim,
       HostRest, Reads, Looks, Keeps, Find, FindStray, Locate, NothingLeft, ReadBeside, ReadPayload, PromoteAgain, Verify, Lock, Busy, CheckPending,
       CheckPublic, Record, RecordFails, Decide, Expire, Transition, Deliver, Defer, Send, Refused, MarkWrite, MarkFails,
       MarkPromote, DropPending, DropPublic, DropIndex, Crash
  <2> DEFINE Low(p) == p # None => p.n <= published
  <2>2. Low(pending) /\ Low(public) /\ Low(raw) /\ Low(beside) /\ Low(None)
    BY <1>1 DEF Numbered
  <2> HIDE DEF Low
  <2>3. Low(pending') /\ Low(public') /\ Low(raw') /\ Low(beside')
    <3>1. CASE UNCHANGED vars
      BY <2>2, <3>1 DEF vars, disk, reading
    <3>2. CASE RunnerMoves \/ Others
      BY <2>2, <3>2 DEF RunnerMoves, RunnerLock, PromoteFinal, RunnerGone, RunnerRest, Others, Lookup, Reindex, Reclaim,
         Promoted, NotPromoted, disk, reading
    <3>3. CASE Reads
      BY <2>2, <3>3 DEF Reads, Find, FindStray, Locate, NothingLeft, ReadBeside, ReadPayload, PromoteAgain, Promoted, NotPromoted, Leave, Proceed, disk, reading
    <3>4. CASE Looks
      BY <2>2, <3>4 DEF Looks, Verify, Lock, Busy, CheckPending, CheckPublic, Leave, Proceed, disk, reading
    <3>5. CASE Keeps
      BY <2>2, <3>5 DEF Keeps, Record, RecordFails, Decide, Expire, Transition, Leave, Proceed, disk, reading
    <3>6. CASE Deliver \/ Defer \/ Send \/ Refused \/ Crash
      BY <2>2, <3>6 DEF Deliver, Defer, Send, Refused, Crash, Leave, Proceed, disk, reading
    <3>7. CASE MarkWrite \/ MarkFails
      <4>1. PICK x : x = [raw EXCEPT !.marked = TRUE]
        OBVIOUS
      <4>2. x \in Payload /\ x.n = raw.n /\ raw.n \in 1..published
        BY <3>7, <4>1, MarkStep
      <4>3. Low(x)
        BY <4>2 DEF Low
      <4>4. raw' = x \/ raw' = None
        BY <3>7, <4>1, MarkFailsStep DEF MarkWrite
      <4>5. beside' = beside \/ beside' = None
        BY <3>7, MarkFailsStep DEF MarkWrite
      <4>6. pending' \in {pending, x} /\ public' = public
        BY <3>7, <4>1, MarkStep DEF Marked
      <4> QED  BY <2>2, <4>3, <4>4, <4>5, <4>6
    <3>8. CASE MarkPromote \/ DropPending \/ DropPublic \/ DropIndex
      BY <2>2, <3>8 DEF MarkPromote, DropPending, DropPublic, DropIndex, Promoted, NotPromoted, Leave, Proceed, disk, reading
    <3> QED  BY <1>3, <3>1, <3>2, <3>3, <3>4, <3>5, <3>6, <3>7, <3>8, StepCases
  <2> QED  BY <2>1, <2>3 DEF Low, Numbered
<1> QED  BY <1>2, <1>3

(* A notice is sent for an outcome that this process has not told. *)
LEMMA AnnounceStep ==
    ASSUME TInv, NEW n \in Num, n <= published, outcome[n] \notin told, Announce(n), UNCHANGED <<published, outcome, mishaps>>
    PROVE  told' \subseteq Outcome /\ notices' \in [Num -> 0..(MaxMishaps + 1)] /\ Sent'
<1>1. TypeOK /\ Facts /\ Sent
  BY Known DEF TInv
<1>2. outcome[n] \in Outcome
  BY <1>1 DEF TypeOK
<1>3. notices[n] <= mishaps /\ notices[n] \in Nat /\ mishaps \in Nat /\ mishaps <= MaxMishaps
  BY <1>1 DEF Sent, TypeOK, Facts
<1>4. notices[n] + 1 \in 0..(MaxMishaps + 1)
  BY <1>1, <1>3 DEF Facts
<1>5. notices' = [notices EXCEPT ![n] = notices[n] + 1] /\ told' = told \cup {outcome[n]}
  BY DEF Announce
<1>6. notices' \in [Num -> 0..(MaxMishaps + 1)]
  BY <1>1, <1>4, <1>5 DEF TypeOK
<1>7. \A m \in Num : notices'[m] = IF m = n THEN notices[n] + 1 ELSE notices[m]
  BY <1>1, <1>5 DEF TypeOK
<1> QED  BY <1>1, <1>2, <1>3, <1>5, <1>6, <1>7 DEF Sent, TypeOK

LEMMA NoticeKept ==
    ASSUME TInv, [Next]_vars
    PROVE  NoticeTypes' /\ Batch' /\ Sent'
<1>1. TypeOK /\ Facts /\ Batch /\ Sent
  BY Known DEF TInv
<1>2. CASE Publish
  <2>1. \A n \in 1..published : n \in Num /\ outcome'[n] = outcome[n] /\ n \in 1..(published + 1)
    BY <1>1, <1>2, PublishStep DEF Facts, TypeOK
  <2>2. outcome[published + 1] \notin told
    BY <1>1, <1>2, PublishStep DEF Facts, TypeOK
  <2>3. published' = published + 1 /\ UNCHANGED <<told, queued, notices>> /\ mishaps' >= mishaps
        /\ mishaps \in Nat /\ mishaps' \in Nat
    BY <1>1, <1>2, PublishStep, MishapsGrow DEF notifier, MishapTypes, TypeOK, Facts
  <2>4. NoticeTypes'
    BY <1>1, <2>1, <2>3 DEF NoticeTypes, TypeOK
  <2>5. Batch'
    BY <1>1, <2>1, <2>3 DEF Batch, TypeOK
  <2>6. Sent'
    BY <1>1, <1>2, <2>2, <2>3, PublishStep DEF Sent, TypeOK, Facts
  <2> QED  BY <2>4, <2>5, <2>6
<1>3. CASE UNCHANGED <<published, outcome, told, queued, notices>>
  <2>1. mishaps \in Nat /\ mishaps' \in Nat /\ mishaps' >= mishaps /\ \A n \in Num : notices[n] \in Nat
    BY <1>1, MishapsGrow DEF MishapTypes, TypeOK, Facts
  <2> QED  BY <1>1, <1>3, <2>1 DEF NoticeTypes, Batch, Sent, TypeOK
<1>4. CASE UNCHANGED vars \/ RunnerMoves \/ Others \/ Reads \/ Looks \/ Keeps
  BY <1>3, <1>4 DEF vars, writers, notifier, RunnerMoves, RunnerLock, PromoteFinal, RunnerGone, RunnerRest, Others, Lookup, Reindex,
     Reclaim, HostRest, Reads, Looks, Keeps, Find, FindStray, Locate, NothingLeft, ReadBeside, ReadPayload, PromoteAgain, Verify, Lock, Busy,
     CheckPending, CheckPublic, Record, RecordFails, Decide, Expire, Transition
<1>5. CASE MarkWrite \/ MarkFails \/ MarkPromote \/ DropPending \/ DropPublic \/ DropIndex
  BY <1>3, <1>5 DEF MarkWrite, MarkFails, MarkPromote, DropPending, DropPublic, DropIndex, HostRest, writers, notifier
<1>6. CASE Crash
  <2>1. UNCHANGED <<published, outcome, notices>> /\ told' = {} /\ queued' = {} /\ mishaps' = mishaps + 1
    BY <1>6 DEF Crash, Mishap, writers
  <2>2. \A n \in Num : notices[n] <= mishaps + 1
    BY <1>1 DEF Sent, TypeOK, Facts
  <2> QED  BY <1>1, <2>1, <2>2 DEF NoticeTypes, Batch, Sent, TypeOK
<1>7. CASE Refused
  <2>1. UNCHANGED <<published, outcome, told, notices, mishaps>> /\ queued' \in {queued, {}}
    BY <1>7 DEF Refused, HostRest, writers
  <2> QED  BY <1>1, <2>1 DEF NoticeTypes, Batch, Sent, TypeOK
<1>8. CASE Defer
  <2>1. raw.n \in 1..published /\ UNCHANGED <<published, outcome, told, notices, mishaps>>
    BY <1>8, RawPublished DEF Defer, HostRest, writers, InHand, Kept
  <2>2. outcome[raw.n] \in Deferred \ told
    BY <1>8 DEF Defer, State
  <2>3. \/ queued' = queued
        \/ queued' = queued \cup {raw.n} /\ \A n \in queued : outcome[n] # outcome[raw.n]
    BY <1>8 DEF Defer, State
  <2> QED  BY <1>1, <2>1, <2>2, <2>3 DEF NoticeTypes, Batch, Sent, TypeOK
<1>9. CASE Deliver
  <2>1. raw.n \in Num /\ raw.n <= published /\ UNCHANGED <<published, outcome, queued, mishaps>>
    BY <1>1, <1>9, RawPublished DEF Deliver, HostRest, writers, InHand, Kept, Facts
  <2>2. CASE UNCHANGED <<told, notices>>
    BY <1>3, <2>1, <2>2
  <2>3. CASE State \notin told /\ Announce(raw.n)
    <3>1. told' \subseteq Outcome /\ notices' \in [Num -> 0..(MaxMishaps + 1)] /\ Sent'
      BY <2>1, <2>3, AnnounceStep DEF State
    <3>2. Batch'
      <4>1. State \notin Deferred /\ told' = told \cup {State}
        BY <1>9, <2>3 DEF Deliver, Announce, State
      <4> QED  BY <1>1, <2>1, <4>1 DEF Batch
    <3> QED  BY <1>1, <2>1, <3>1, <3>2 DEF NoticeTypes, TypeOK
  <2> QED  BY <1>9, <2>2, <2>3 DEF Deliver
<1>10. CASE Send
  <2>1. PICK n \in queued : Announce(n) /\ queued' = queued \ {n} /\ UNCHANGED <<published, outcome, mishaps>>
    BY <1>10 DEF Send, HostRest, writers
  <2>2. n \in Num /\ n <= published /\ outcome[n] \notin told
    BY <1>1 DEF TypeOK, Facts, Batch
  <2>3. told' \subseteq Outcome /\ notices' \in [Num -> 0..(MaxMishaps + 1)] /\ Sent'
    BY <2>1, <2>2, AnnounceStep
  <2>4. Batch'
    BY <1>1, <2>1 DEF Batch, Announce
  <2> QED  BY <1>1, <2>1, <2>3, <2>4 DEF NoticeTypes, TypeOK
<1> QED  BY <1>2, <1>4, <1>5, <1>6, <1>7, <1>8, <1>9, <1>10, StepCases

LEMMA TInvInit == Init => TInv
<1> SUFFICES ASSUME Init PROVE TInv
  OBVIOUS
<1>1. MaxPayloads \in Nat /\ MaxMishaps \in Nat /\ \A n \in Num : n \in Nat /\ n >= 1
  BY DeliveryConstants DEF Num
<1>2. Numbered /\ Batch /\ Sent
  BY <1>1 DEF Init, Numbered, Batch, Sent
<1>3. DiskTypes
  <2>1. indexed \in BOOLEAN
    BY DEF Init
  <2>2. replay \in 0..MaxPayloads
    BY <1>1 DEF Init
  <2> QED  BY <2>1, <2>2 DEF Init, DiskTypes
<1>4. RunnerTypes
  BY <1>1 DEF Init, RunnerTypes
<1>5. HostTypes
  <2>1. durable \in BOOLEAN
    BY DEF Init
  <2> QED  BY <2>1 DEF Init, HostTypes, HostPC
<1>8. MishapTypes
  <2>1. mishaps \in 0..MaxMishaps
    BY DeliveryConstants DEF Init
  <2>2. astray \in BOOLEAN
    BY DEF Init
  <2> QED  BY <2>1, <2>2 DEF MishapTypes
<1>7. LeaseTypes
  BY DEF Init, LeaseTypes, Locked
<1>6. NoticeTypes
  BY <1>1 DEF Init, NoticeTypes
<1> QED  BY <1>2, <1>3, <1>4, <1>5, <1>6, <1>7, <1>8, TypeParts DEF Init, TInv, InHand, Kept, Locked

LEMMA TInvNext ==
    ASSUME TInv, [Next]_vars
    PROVE  TInv'
<1>1. TypeOK'
  BY DiskTypesKept, RunnerTypesKept, HostTypesKept, MishapsGrow, NoticeKept
     DEF TypeOK, DiskTypes, RunnerTypes, HostTypes, MishapTypes, NoticeTypes, LeaseTypes
<1>2. rpc' \in {"locked", "relocked"} => published' < MaxPayloads'
  BY StepCases DEF TInv, vars, writers, Publish, PublishInterim, PublishFinal, PublishThrows, PublishFailure, WriteResult, Repair, Seal, RunnerGoto, RunnerMoves,
     RunnerLock, PromoteFinal, RunnerGone, Others, Lookup, Reindex, Reclaim, HostRest, Reads, Looks, Keeps, Find, FindStray, Locate, NothingLeft, ReadBeside,
     ReadPayload, PromoteAgain, Verify, Lock, Busy, CheckPending, CheckPublic, Record, RecordFails, Decide, Expire,
     Transition, Deliver, Defer, Send, Refused, MarkWrite, MarkFails, MarkPromote, DropPending, DropPublic, DropIndex, Crash
<1> QED  BY <1>1, <1>2, HostTypesKept, NoticeKept, NumberedKept DEF TInv

LEMMA Typed == Spec => []TInv
BY TInvInit, TInvNext, PTL DEF Spec

(* TypeCorrect: every state is well typed, and the notices of a payload are  *)
(* at most one for each life of the process.                                *)
THEOREM TypeCorrect == Spec => []TypeOK
<1>1. TInv => TypeOK
  BY DEF TInv
<1> QED  BY Typed, <1>1, PTL

-----------------------------------------------------------------------------
(* Safety                                                                    *)

LEMMA WritersKept ==
    ASSUME [Next]_vars, ~Publish
    PROVE  published' = published /\ outcome' = outcome
BY StepCases DEF vars, writers, RunnerMoves, RunnerLock, PromoteFinal, RunnerGone, Others, Lookup, Reindex, Reclaim,
   HostRest, Reads, Looks, Keeps, Find, FindStray, Locate, NothingLeft, ReadBeside, ReadPayload, PromoteAgain, Verify, Lock, Busy, CheckPending,
   CheckPublic, Record, RecordFails, Decide, Expire, Transition, Deliver, Defer, Send, Refused, MarkWrite, MarkFails,
   MarkPromote, DropPending, DropPublic, DropIndex, Crash

(* A runner that has left its loop does not come back, and only a stop that  *)
(* seals the paused run changes what is recorded without the lease.         *)
LEMMA RunnerStep ==
    ASSUME [Next]_vars
    PROVE  /\ rpc = "exited" => rpc' = "exited"
           /\ recorded' = recorded \/ Seal \/ MarkWrite \/ MarkFails
BY StepCases DEF vars, writers, Publish, PublishInterim, PublishFinal, PublishThrows, PublishFailure, WriteResult, Repair, RunnerGoto, RunnerRest, Seal, RunnerMoves,
   RunnerLock, PromoteFinal, RunnerGone, Others, Lookup, Reindex, Reclaim, HostRest, Reads, Looks, Keeps, Find, FindStray, Locate, NothingLeft, ReadBeside,
   ReadPayload, PromoteAgain, Verify, Lock, Busy, CheckPending, CheckPublic, Record, RecordFails, Decide, Expire,
   Transition, Deliver, Defer, Send, Refused, MarkWrite, MarkFails, MarkPromote, DropPending, DropPublic, DropIndex, Crash

(* What the others do leaves the watcher where it is. *)
LEMMA Elsewheres ==
    ASSUME TInv, Publish \/ RunnerMoves \/ Others \/ UNCHANGED vars
    PROVE  UNCHANGED <<replay, hpc, path, raw, beside, durable, seen, told, queued, notices>>
<1>1. CASE Publish
  BY <1>1, PublishStep DEF reading, notifier
<1>2. CASE RunnerMoves \/ Others \/ UNCHANGED vars
  BY <1>2 DEF RunnerMoves, RunnerLock, PromoteFinal, RunnerGone, RunnerRest, Others, Lookup, Reindex, Reclaim, vars, reading, notifier
<1> QED  BY <1>1, <1>2

(* Only a publication, a rename, a mark and a retirement change the files. *)
LEMMA DiskStep ==
    ASSUME [Next]_vars
    PROVE  \/ pending' = pending /\ public' = public
           \/ pending # None /\ public' = pending /\ pending' = None
           \/ Publish \/ MarkWrite \/ MarkFails \/ DropPending \/ DropPublic \/ DropIndex
BY StepCases DEF vars, disk, RunnerMoves, RunnerLock, PromoteFinal, RunnerGone, RunnerRest, Others, Lookup, Reindex, Reclaim,
   Reads, Looks, Keeps, Find, FindStray, Locate, NothingLeft, ReadBeside, ReadPayload, PromoteAgain, Verify, Lock, Busy, CheckPending, CheckPublic,
   Record, RecordFails, Decide, Expire, Transition, Deliver, Defer, Send, Refused, MarkPromote, Crash, Promoted, NotPromoted

(* Nothing is published while the watcher holds the lease. *)
LEMMA NothingPublished ==
    ASSUME TInv, astray' = FALSE, Publish
    PROVE  hpc \notin Locked
<1>1. TypeOK
  BY DEF TInv
<1>2. CASE PublishInterim \/ PublishFinal \/ PublishThrows \/ PublishFailure
  BY <1>1, <1>2 DEF PublishInterim, PublishFinal, PublishThrows, PublishFailure, WriteResult, RunnerGoto, TypeOK
<1>3. CASE Repair
  <2>1. hpc \notin InHand
    BY <1>3, RawPublished DEF Repair
  <2> QED  BY <2>1 DEF InHand, Kept
<1>4. CASE Seal
  <2>1. lease # "host"
    BY <1>4 DEF Seal
  <2> QED  BY <1>1, <2>1 DEF TypeOK
<1> QED  BY <1>2, <1>3, <1>4 DEF Publish

(* What was announced stays announced, and what is sent now is announced. *)
LEMMA NoticesGrow ==
    ASSUME TInv, [Next]_vars
    PROVE  /\ \A n \in Num : notices'[n] >= notices[n]
           /\ \A o : Announced(o) => Announced(o)'
           /\ \A o \in told' \ told : Announced(o)'
<1>1. TypeOK /\ Facts /\ Batch
  BY Known DEF TInv
<1>2. published' \in Nat /\ published' >= published /\ \A n \in 1..published : outcome'[n] = outcome[n] /\ n \in Num
  <2>1. CASE Publish
    BY <1>1, <2>1, PublishStep DEF Facts
  <2>2. CASE ~Publish
    BY <1>1, <2>2, WritersKept DEF Facts
  <2> QED  BY <2>1, <2>2
<1>3. \/ notices' = notices /\ told' \subseteq told
      \/ \E n \in 1..published : Announce(n) /\ outcome' = outcome /\ published' = published
  <2>1. CASE Deliver
    <3>1. raw.n \in 1..published
      BY <2>1, RawPublished DEF Deliver, InHand, Kept
    <3> QED  BY <2>1, <3>1 DEF Deliver, HostRest, writers
  <2>2. CASE Send
    BY <1>1, <2>2 DEF Send, HostRest, writers, TypeOK
  <2>3. CASE Publish \/ RunnerMoves \/ Others \/ UNCHANGED vars
    BY <2>3, Elsewheres
  <2>4. CASE Reads \/ Looks \/ Keeps
    BY <2>4 DEF Reads, Looks, Keeps, Find, FindStray, Locate, NothingLeft, ReadBeside, ReadPayload, PromoteAgain, Verify, Lock, Busy, CheckPending,
       CheckPublic, Record, RecordFails, Decide, Expire, Transition, notifier
  <2>5. CASE Defer \/ Refused \/ MarkWrite \/ MarkFails \/ MarkPromote \/ DropPending \/ DropPublic \/ DropIndex \/ Crash
    BY <2>5 DEF Defer, Refused, MarkWrite, MarkFails, MarkPromote, DropPending, DropPublic, DropIndex, Crash, notifier
  <2> QED  BY <2>1, <2>2, <2>3, <2>4, <2>5, StepCases
<1>4. CASE notices' = notices /\ told' \subseteq told
  <2>1. \A n \in 1..published : n \in 1..published' /\ outcome'[n] = outcome[n] /\ notices'[n] = notices[n]
    BY <1>1, <1>2, <1>4 DEF Facts
  <2>2. \A n \in Num : notices[n] \in Nat
    BY <1>1 DEF TypeOK, Facts
  <2> QED  BY <1>4, <2>1, <2>2 DEF Announced
<1>5. CASE \E n \in 1..published : Announce(n) /\ outcome' = outcome /\ published' = published
  <2>1. PICK n \in 1..published : Announce(n) /\ outcome' = outcome /\ published' = published
    BY <1>5
  <2>2. n \in Num /\ notices' = [notices EXCEPT ![n] = notices[n] + 1] /\ told' = told \cup {outcome[n]}
    BY <1>1, <2>1 DEF Announce, Facts
  <2>3. \A m \in Num : notices[m] \in Nat /\ notices'[m] = IF m = n THEN notices[n] + 1 ELSE notices[m]
    BY <1>1, <2>2 DEF TypeOK, Facts
  <2>4. \A m \in Num : notices'[m] >= notices[m]
    BY <2>3
  <2>5. notices'[n] > 0
    BY <2>2, <2>3
  <2> QED  BY <1>1, <1>2, <2>1, <2>2, <2>3, <2>4, <2>5 DEF Announced
<1> QED  BY <1>3, <1>4, <1>5

LEMMA PendingNewestKept ==
    ASSUME TInv, SInv, [Next]_vars
    PROVE  PendingNewest'
<1>1. TypeOK /\ PendingNewest
  BY DEF TInv, SInv
<1>2. CASE Publish
  BY <1>2, PublishStep DEF PendingNewest
<1>3. CASE (MarkWrite \/ MarkFails) /\ ~Publish
  <2>1. raw.n = published /\ published' = published
    BY <1>3, MarkStep DEF SInv, UnderLease
  <2> QED  BY <1>1, <1>3, <2>1, MarkStep DEF Marked, PendingNewest
<1>4. CASE ~Publish /\ ~(MarkWrite \/ MarkFails)
  <2>1. pending' \in {pending, None} /\ published' = published
    BY <1>4, DiskStep, WritersKept DEF DropPending, DropPublic, DropIndex
  <2> QED  BY <1>1, <2>1 DEF PendingNewest
<1> QED  BY <1>2, <1>3, <1>4

(* Where the watcher is between the two halves of a retirement. *)
LEMMA MiddleStep ==
    ASSUME astray' = FALSE, TInv, SInv, [Next]_vars, hpc = "dropPublic", public # None, public.n < published
    PROVE  hpc' = "dropPublic" \/ public' = None
<1>1. public = beside /\ public # raw
  BY Known DEF SInv, UnderLease, ReadPublic, Dropping, Facts
<1>2. hpc' = "dropPublic" \/ DropPublic \/ Crash
  <2>1. CASE Publish \/ RunnerMoves \/ Others \/ UNCHANGED vars
    BY <2>1, Elsewheres
  <2>2. CASE Send
    BY <2>2 DEF Send
  <2> QED
    BY <2>1, <2>2, StepCases DEF Reads, Looks, Keeps, Find, FindStray, Locate, NothingLeft, ReadBeside, ReadPayload, PromoteAgain, Verify, Lock, Busy,
       CheckPending, CheckPublic, Record, RecordFails, Decide, Expire, Transition, Deliver, Defer, Refused, MarkWrite, MarkFails,
       MarkPromote, DropPending, DropIndex, Goto
<1>3. ~Crash
  BY <1>1 DEF Crash, HalfRetired
<1>4. DropPublic => public' = None
  BY <1>1 DEF DropPublic, ReadLeft, SInv, UnderLease
<1> QED  BY <1>2, <1>3, <1>4

LEMMA PublicBeneathKept ==
    ASSUME astray' = FALSE, TInv, SInv, [Next]_vars
    PROVE  PublicBeneath'
<1>1. TypeOK /\ Facts /\ PendingNewest /\ PublicBeneath
  BY Known DEF TInv, SInv
<1>2. CASE Publish
  BY <1>1, <1>2, PublishStep DEF PublicBeneath, Facts
<1>3. CASE ~Publish
  <2>1. published' = published
    BY <1>3, WritersKept
  <2>2. CASE pending' = pending /\ public' = public
    <3>1. public # None /\ public.n < published /\ hpc = "dropPublic" => hpc' = "dropPublic" \/ public' = None
      BY MiddleStep
    <3> QED  BY <1>1, <2>1, <2>2, <3>1 DEF PublicBeneath
  <2>3. CASE pending # None /\ public' = pending
    BY <1>1, <2>1, <2>3 DEF PublicBeneath, PendingNewest, Facts
  <2>4. CASE MarkWrite \/ MarkFails
    <3>1. raw.n = published
      BY <2>4, MarkStep DEF SInv, UnderLease
    <3>2. CASE Marked
      BY <1>1, <2>4, <3>2, MarkStep DEF Marked, PublicBeneath, Facts
    <3> QED  BY <1>1, <2>1, <2>2, <2>4, <3>2, MarkStep
  <2>5. CASE DropPending
    BY <2>5 DEF DropPending, Proceed, PublicBeneath
  <2>6. CASE DropPublic \/ DropIndex
    <3>1. public' \in {None, raw} /\ raw.n = published
      BY <2>6 DEF DropPublic, DropIndex, ReadLeft, SInv, UnderLease, Dropping
    <3> QED  BY <1>1, <2>1, <3>1 DEF PublicBeneath, Facts
  <2> QED  BY <1>3, <2>2, <2>3, <2>4, <2>5, <2>6, DiskStep
<1> QED  BY <1>2, <1>3

(* The newest payload stays on disk until it is retired. *)
LEMMA NewestStep ==
    ASSUME TInv, SInv, [Next]_vars, OnDisk(published) \/ published' # published
    PROVE  OnDisk(published)' \/ (hpc \in Dropping /\ ~Publish /\ (DropPending \/ DropPublic \/ DropIndex))
<1>1. TypeOK /\ Facts /\ PendingNewest
  BY Known DEF TInv, SInv
<1>2. CASE Publish
  BY <1>1, <1>2, PublishStep DEF OnDisk, Facts
<1>3. CASE ~Publish
  <2>1. published' = published /\ OnDisk(published)
    BY <1>3, WritersKept
  <2>2. CASE pending' = pending /\ public' = public
    BY <2>1, <2>2 DEF OnDisk
  <2>3. CASE pending # None /\ public' = pending
    BY <1>1, <2>1, <2>3 DEF OnDisk, PendingNewest
  <2>4. CASE MarkWrite \/ MarkFails
    <3>1. raw.n = published
      BY <2>4, MarkStep DEF SInv, UnderLease
    <3>2. CASE Marked
      BY <1>1, <2>1, <2>4, <3>1, <3>2, MarkStep DEF Marked, OnDisk, Facts
    <3> QED  BY <2>2, <2>4, <3>2, MarkStep
  <2>5. CASE DropPending \/ DropPublic \/ DropIndex
    BY <1>3, <2>5 DEF DropPending, DropPublic, DropIndex, Dropping
  <2> QED  BY <1>3, <2>2, <2>3, <2>4, <2>5, DiskStep
<1> QED  BY <1>2, <1>3

(* Whatever the watcher does next, it holds the payload it read, leaves, or  *)
(* reads: from the pending path, or from the public one.                    *)
LEMMA HostStep ==
    ASSUME TInv, [Next]_vars
    PROVE  \/ hpc' \notin InHand
           \/ hpc \in Kept /\ hpc' \in Kept /\ raw' # None /\ raw'.n = raw.n /\ (beside' = beside \/ MarkPromote)
           \/ hpc \in Kept /\ hpc' \in {"beside2"} /\ raw' = raw
           \/ hpc \in {"beside2", "read2"} /\ hpc' \in {"beside2", "read2"} /\ raw' = raw
           \/ ReadPayload /\ hpc' \in {"promote", "record"} /\ UNCHANGED <<pending, public, beside>>
              /\ raw' = (IF path = "pending" THEN pending ELSE public) /\ raw' # None
<1> USE DEF InHand, Kept, Locked
<1>1. TypeOK /\ (hpc \in InHand => raw # None)
  BY DEF TInv
<1>2. CASE Publish \/ RunnerMoves \/ Others \/ UNCHANGED vars
  BY <1>1, <1>2, Elsewheres DEF TypeOK, HostPC
<1>3. CASE Find \/ FindStray \/ NothingLeft \/ ReadBeside
  BY <1>1, <1>3 DEF Find, FindStray, Locate, NothingLeft, ReadBeside, Goto
<1>4. CASE ReadPayload
  BY <1>1, <1>4 DEF ReadPayload, Leave, disk
<1>5. CASE PromoteAgain
  BY <1>1, <1>5 DEF PromoteAgain, Proceed, reading
<1>6. CASE Looks \/ Keeps
  BY <1>1, <1>6 DEF Looks, Keeps, Verify, Lock, Busy, CheckPending, CheckPublic, Record, RecordFails, Decide, Expire,
     Transition, Goto, Leave, Proceed, reading
<1>7. CASE Deliver \/ Defer \/ Refused \/ DropPending \/ DropPublic \/ DropIndex \/ Crash
  BY <1>1, <1>7 DEF Deliver, Defer, Refused, DropPending, DropPublic, DropIndex, Crash, Leave, Proceed, reading
<1>8. CASE Send
  BY <1>1, <1>8 DEF Send, reading, TypeOK, HostPC
<1>9. CASE MarkWrite
  <2>1. raw' # None /\ raw'.n = raw.n
    BY <1>9, MarkStep, Known DEF MarkWrite, Facts
  <2> QED  BY <1>9, <2>1 DEF MarkWrite, Goto
<1>11. CASE MarkFails
  BY <1>11, MarkFailsStep
<1>10. CASE MarkPromote
  BY <1>1, <1>10 DEF MarkPromote
<1> QED  BY <1>2, <1>3, <1>4, <1>5, <1>6, <1>7, <1>8, <1>9, <1>10, <1>11, StepCases DEF Reads

LEMMA BesideOlderKept ==
    ASSUME TInv, SInv, [Next]_vars
    PROVE  BesideOlder'
<1>1. TypeOK /\ Facts /\ Numbered /\ BesideOlder /\ PendingNewest
  BY Known DEF TInv, SInv
<1>2. hpc' \in {"read", "read2"} /\ path' = "public" /\ beside' # None /\ public' # None => beside'.n <= public'.n
  <2> SUFFICES ASSUME hpc' \in {"read", "read2"}, path' = "public", beside' # None, public' # None
               PROVE  beside'.n <= public'.n
    OBVIOUS
  <2>1. CASE ReadBeside
    BY <1>1, <2>1 DEF ReadBeside, disk, TypeOK, Facts
  <2>2. CASE ~ReadBeside
    <3>1. hpc \in {"read", "read2"} /\ path = "public" /\ beside' = beside
      <4>1. CASE Publish \/ RunnerMoves \/ Others \/ UNCHANGED vars
        BY <4>1, Elsewheres
      <4>2. CASE Send
        BY <4>2 DEF Send, reading
      <4>3. CASE Find \/ FindStray \/ NothingLeft \/ ReadPayload \/ PromoteAgain \/ MarkPromote
        BY <4>3 DEF Find, FindStray, Locate, NothingLeft, ReadPayload, PromoteAgain, MarkPromote, Goto, Leave, Proceed
      <4>4. CASE Looks \/ Keeps
        BY <4>4 DEF Looks, Keeps, Verify, Lock, Busy, CheckPending, CheckPublic, Record, RecordFails, Decide, Expire,
           Transition, Goto, Leave, Proceed, reading
      <4>5. CASE Deliver \/ Defer \/ Refused \/ MarkWrite \/ MarkFails \/ DropPending \/ DropPublic \/ DropIndex \/ Crash
        BY <4>5 DEF Deliver, Defer, Refused, MarkWrite, MarkFails, DropPending, DropPublic, DropIndex, Crash, Goto, Leave, Proceed
      <4> QED  BY <2>2, <4>1, <4>2, <4>3, <4>4, <4>5, StepCases DEF Reads
    <3>2. ~(MarkWrite \/ MarkFails \/ DropPending \/ DropPublic \/ DropIndex)
      BY <3>1 DEF MarkWrite, MarkFails, DropPending, DropPublic, DropIndex, Goto
    <3>3. CASE public' = public
      BY <1>1, <3>1, <3>3 DEF BesideOlder
    <3>4. CASE pending # None /\ public' = pending
      BY <1>1, <3>1, <3>4 DEF Numbered, PendingNewest
    <3> QED  BY <3>2, <3>3, <3>4, DiskStep, PublishStep
  <2> QED  BY <2>1, <2>2
<1>3. hpc' \in Kept /\ beside' # None => beside'.n <= raw'.n
  <2> SUFFICES ASSUME hpc' \in Kept, beside' # None
               PROVE  beside'.n <= raw'.n
    OBVIOUS
  <2>1. CASE MarkPromote
    <3>1. hpc' = "retire" /\ beside' = public /\ raw' = raw /\ raw.n = published
      BY <2>1 DEF MarkPromote, Kept, Locked, SInv, UnderLease
    <3> QED  BY <1>1, <2>1, <3>1 DEF Numbered
  <2>2. CASE hpc \in Kept /\ raw'.n = raw.n /\ beside' = beside
    BY <1>1, <2>2 DEF BesideOlder
  <2>3. CASE ReadPayload /\ beside' = beside /\ raw' = (IF path = "pending" THEN pending ELSE public) /\ raw' # None
    <3>1. hpc \in {"read", "read2"}
      BY <2>3 DEF ReadPayload
    <3>2. CASE path = "pending"
      BY <1>1, <2>3, <3>2 DEF Numbered, PendingNewest
    <3>3. CASE path = "public"
      BY <1>1, <2>3, <3>1, <3>3 DEF BesideOlder
    <3> QED  BY <1>1, <3>2, <3>3 DEF TypeOK
  <2> QED  BY <2>1, <2>2, <2>3, HostStep DEF InHand, Kept, Locked
<1> QED  BY <1>2, <1>3 DEF BesideOlder

LEMMA NewerOnDiskKept ==
    ASSUME TInv, SInv, [Next]_vars
    PROVE  NewerOnDisk'
<1> SUFFICES ASSUME hpc' \in Kept
             PROVE  (raw.n = published \/ OnDisk(published))'
  BY DEF NewerOnDisk
<1>1. TypeOK /\ Facts /\ Numbered /\ PendingNewest /\ PublicBeneath /\ NewerOnDisk
  BY Known DEF TInv, SInv
<1>2. CASE hpc \in Kept /\ raw'.n = raw.n
  <2>1. CASE OnDisk(published) \/ published' # published
    <3>1. CASE hpc \in Dropping /\ ~Publish
      BY <1>2, <3>1, WritersKept DEF SInv, UnderLease
    <3> QED  BY <2>1, <3>1, NewestStep
  <2>2. CASE ~OnDisk(published) /\ published' = published
    BY <1>1, <1>2, <2>2 DEF NewerOnDisk
  <2> QED  BY <2>1, <2>2
<1>3. CASE ReadPayload /\ UNCHANGED <<pending, public, beside>> /\ raw' = (IF path = "pending" THEN pending ELSE public) /\ raw' # None
  <2>1. hpc \in {"read", "read2"} /\ published' = published
    BY <1>3 DEF ReadPayload, HostRest, writers
  <2>2. CASE path = "pending"
    BY <1>1, <1>3, <2>1, <2>2 DEF PendingNewest
  <2>3. CASE path = "public"
    BY <1>1, <1>3, <2>1, <2>3 DEF PendingNewest, PublicBeneath, Numbered, OnDisk, Facts, TypeOK
  <2> QED  BY <1>1, <2>2, <2>3 DEF TypeOK
<1> QED  BY <1>2, <1>3, HostStep DEF InHand, Kept, Locked

LEMMA DurableKept ==
    ASSUME TInv, SInv, [Next]_vars
    PROVE  Durable'
<1> USE DEF Durable, Recorded, Retiring, Accepted, Dropping
<1>1. TypeOK /\ Durable
  BY DEF TInv, SInv
<1>2. CASE Publish \/ RunnerMoves \/ Others \/ UNCHANGED vars
  BY <1>1, <1>2, Elsewheres
<1>3. CASE Reads
  BY <1>1, <1>3 DEF Reads, Find, FindStray, Locate, NothingLeft, ReadBeside, ReadPayload, PromoteAgain, Goto, Leave, Proceed, reading, TypeOK
<1>4. CASE Looks \/ Keeps
  <2>1. CASE Looks
    BY <1>1, <2>1 DEF Looks, Verify, Lock, Busy, CheckPending, CheckPublic, Goto, Leave, Proceed, reading, TypeOK
  <2>2. CASE Keeps
    BY <1>1, <2>2 DEF Keeps, Record, RecordFails, Decide, Expire, Transition, Goto, Leave, Proceed, reading, TypeOK
  <2> QED  BY <1>4, <2>1, <2>2
<1>5. CASE Deliver \/ Defer \/ Send \/ Refused
  BY <1>1, <1>5 DEF Deliver, Defer, Send, Refused, Leave, Proceed, reading, TypeOK
<1>6. CASE MarkWrite
  <2>1. raw'.n = raw.n
    BY <1>6, MarkStep DEF MarkWrite
  <2> QED  BY <1>1, <1>6, <2>1 DEF MarkWrite, Goto
<1>9. CASE MarkFails
  BY <1>9, MarkFailsStep
<1>7. CASE MarkPromote
  BY <1>1, <1>7 DEF MarkPromote
<1>8. CASE DropPending \/ DropPublic \/ DropIndex \/ Crash
  BY <1>1, <1>8 DEF DropPending, DropPublic, DropIndex, Crash, Leave, Proceed, reading
<1> QED  BY <1>2, <1>3, <1>4, <1>5, <1>6, <1>7, <1>8, <1>9, StepCases

(* Nothing is published after a stopped result that inherited the mark. *)
LEMMA NothingAfter ==
    ASSUME TInv, Publish, published \in recorded, rpc = "exited"
    PROVE  outcome[published] # "stopped"
BY DEF Publish, PublishInterim, PublishFinal, PublishThrows, PublishFailure, WriteResult, Repair, Seal, RunnerGoto

LEMMA RecordedKept ==
    ASSUME TInv, SInv, [Next]_vars
    PROVE  \A n \in recorded' : n <= published' /\
             (Announced(outcome[n])' \/ (n = published' /\ outcome'[n] = "stopped" /\ rpc' = "exited"))
<1>1. TypeOK /\ Facts /\ Delivery
  BY Known DEF TInv, SInv
<1>2. \A n \in recorded : n \in Num /\ n <= published /\ outcome'[n] = outcome[n]
  <2>1. CASE Publish
    BY <1>1, <2>1, PublishStep DEF TypeOK, Facts, Delivery
  <2>2. CASE ~Publish
    BY <1>1, <2>2, WritersKept DEF TypeOK, Delivery
  <2> QED  BY <2>1, <2>2
<1>3. \A n \in recorded : n <= published' /\
        (Announced(outcome[n])' \/ (n = published' /\ outcome'[n] = "stopped" /\ rpc' = "exited"))
  <2> SUFFICES ASSUME NEW n \in recorded
               PROVE  n <= published' /\
                 (Announced(outcome[n])' \/ (n = published' /\ outcome'[n] = "stopped" /\ rpc' = "exited"))
    OBVIOUS
  <2>1. CASE Announced(outcome[n])
    <3>1. PICK m \in 1..published : outcome[m] = outcome[n] /\ notices[m] > 0
      BY <2>1 DEF Announced
    <3>2. m \in 1..published' /\ outcome'[m] = outcome[m] /\ n <= published'
      <4>1. CASE Publish
        BY <1>1, <1>2, <3>1, <4>1, PublishStep DEF Facts
      <4>2. CASE ~Publish
        BY <1>1, <1>2, <3>1, <4>2, WritersKept
      <4> QED  BY <4>1, <4>2
    <3>3. notices'[m] > 0
      <4>1. m \in Num /\ notices'[m] >= notices[m]
        BY <1>1, <3>1, NoticesGrow DEF Facts
      <4>2. notices[m] \in Nat /\ notices'[m] \in Nat
        BY <1>1, <4>1, NoticeKept DEF TypeOK, NoticeTypes, Facts
      <4> QED  BY <3>1, <4>1, <4>2
    <3> QED  BY <1>2, <3>1, <3>2, <3>3 DEF Announced
  <2>2. CASE n = published /\ outcome[n] = "stopped" /\ rpc = "exited"
    <3>1. ~Publish
      BY <2>2, NothingAfter
    <3> QED  BY <1>1, <2>2, <3>1, WritersKept, RunnerStep DEF Facts
  <2> QED  BY <1>1, <2>1, <2>2 DEF Delivery
<1>4. CASE recorded' = recorded
  BY <1>3, <1>4
<1>5. CASE Seal
  <2>1. published' = published + 1 /\ outcome'[published + 1] = "stopped" /\ rpc' = "exited"
        /\ recorded' \subseteq recorded \cup {published + 1}
    BY <1>1, <1>5 DEF Seal, TypeOK, Facts
  <2> QED  BY <1>1, <1>3, <2>1 DEF Facts
<1>6. CASE MarkWrite \/ MarkFails
  <2>1. raw.n \in 1..published /\ recorded' \subseteq recorded \cup {raw.n} /\ State \in told
    BY <1>1, <1>6, MarkStep DEF Marked, Delivery, Accepted
  <2>2. published' = published /\ outcome' = outcome /\ notices' = notices
    BY <1>6, MarkStep
  <2>3. PICK r \in 1..published : r = raw.n
    BY <2>1
  <2>4. Announced(outcome[r])
    BY <1>1, <2>1, <2>3 DEF Delivery, State
  <2>5. Announced(outcome[r])'
    BY <2>2, <2>4 DEF Announced
  <2> QED  BY <1>1, <1>3, <2>1, <2>2, <2>3, <2>5 DEF Facts
<1> QED  BY <1>4, <1>5, <1>6, RunnerStep

LEMMA AccountedKept ==
    ASSUME TInv, SInv, [Next]_vars, NEW o, Accounted(o)
    PROVE  Accounted(o)'
<1>1. CASE Announced(o)
  BY <1>1, NoticesGrow DEF Accounted
<1>2. CASE published \in recorded /\ outcome[published] = o /\ ~Announced(o)
  <2>1. outcome[published] = "stopped" /\ rpc = "exited"
    BY <1>2 DEF SInv, Delivery
  <2>2. ~Publish
    BY <1>2, <2>1, NothingAfter
  <2>3. published \in recorded'
    BY <1>2, RunnerStep, MarkStep, <2>2 DEF Marked, Publish
  <2> QED  BY <1>2, <2>2, <2>3, WritersKept DEF Accounted
<1> QED  BY <1>1, <1>2 DEF Accounted

(* The outcome in hand does not change while the payload is held. *)
LEMMA StateKept ==
    ASSUME TInv, [Next]_vars, hpc \in InHand, raw'.n = raw.n
    PROVE  State' = State
<1>1. raw.n \in 1..published /\ raw.n \in Num /\ Facts
  BY RawPublished, Known
<1>2. outcome'[raw.n] = outcome[raw.n]
  <2>1. CASE Publish
    BY <1>1, <2>1, PublishStep DEF Facts
  <2> QED  BY <2>1, WritersKept
<1> QED  BY <1>2 DEF State

(* Where the notice of the payload in hand was sent. *)
LEMMA AcceptedKept ==
    ASSUME TInv, SInv, [Next]_vars, hpc' \in Accepted
    PROVE  State' \in told'
<1> USE DEF Accepted
<1>1. TypeOK /\ (hpc \in Accepted => State \in told)
  BY DEF TInv, SInv, Delivery
<1>2. CASE hpc \in Accepted /\ raw'.n = raw.n /\ told' = told
  <2>1. State' = State
    BY <1>2, StateKept DEF InHand, Kept, Locked
  <2> QED  BY <1>1, <1>2, <2>1
<1>3. CASE Publish \/ RunnerMoves \/ Others \/ UNCHANGED vars
  BY <1>2, <1>3, Elsewheres
<1>4. CASE Reads \/ Keeps \/ Defer \/ Refused \/ MarkPromote \/ DropPending \/ DropPublic \/ DropIndex \/ Crash
  BY <1>4 DEF Reads, Keeps, Find, FindStray, Locate, NothingLeft, ReadBeside, ReadPayload, PromoteAgain, Record, RecordFails, Decide, Expire, Transition, Defer,
     Refused, MarkPromote, DropPending, DropPublic, DropIndex, Crash, Goto, Leave, Proceed
<1>5. CASE Looks
  BY <1>2, <1>5 DEF Looks, Verify, Lock, Busy, CheckPending, CheckPublic, Goto, Leave, Proceed, reading, notifier
<1>6. CASE Deliver
  <2>1. State \in told'
    BY <1>6 DEF Deliver, Announce, State
  <2>2. State' = State
    BY <1>6, StateKept DEF Deliver, Proceed, reading, InHand, Kept
  <2> QED  BY <2>1, <2>2
<1>7. CASE Send
  <2>1. PICK n \in queued : Announce(n) /\ hpc' = IF hpc = "await" /\ State = outcome[n] THEN "accepted" ELSE hpc
    BY <1>7 DEF Send
  <2>2. hpc \in {"await"} \cup Accepted /\ State \in told'
    BY <1>1, <2>1 DEF Announce
  <2>3. State' = State
    BY <1>7, <2>2, StateKept DEF Send, reading, InHand, Kept, Locked
  <2> QED  BY <2>2, <2>3
<1>9. CASE MarkFails
  BY <1>9, MarkFailsStep
<1>8. CASE MarkWrite
  <2>1. raw'.n = raw.n
    BY <1>8, MarkStep DEF MarkWrite
  <2> QED  BY <1>2, <1>8, <2>1 DEF MarkWrite, Goto, notifier
<1> QED  BY <1>3, <1>4, <1>5, <1>6, <1>7, <1>8, <1>9, StepCases

(* Where it counts as delivered. *)
LEMMA DeliveredKept ==
    ASSUME TInv, SInv, [Next]_vars, hpc' \in Retiring \cup {"delivered"}
    PROVE  Accounted(State)'
<1> USE DEF Retiring, Dropping
<1>1. TypeOK /\ (hpc \in Retiring \cup {"delivered"} => Accounted(State))
      /\ (hpc \in Accepted => Announced(State))
  BY DEF TInv, SInv, Delivery
<1>2. CASE hpc \in InHand /\ raw'.n = raw.n /\ Accounted(State)
  <2>1. PICK s : s = State
    OBVIOUS
  <2>2. Accounted(s)'
    BY <1>2, <2>1, AccountedKept
  <2> QED  BY <1>2, <2>1, <2>2, StateKept
<1>3. CASE Publish \/ RunnerMoves \/ Others \/ UNCHANGED vars
  BY <1>1, <1>2, <1>3, Elsewheres DEF InHand, Kept, Locked
<1>4. CASE Reads
  BY <1>4 DEF Reads, Find, FindStray, Locate, NothingLeft, ReadBeside, ReadPayload, PromoteAgain, Goto, Leave, Proceed
<1>5. CASE Looks
  BY <1>1, <1>2, <1>5 DEF Looks, Verify, Lock, Busy, CheckPending, CheckPublic, Goto, Leave, Proceed, reading, InHand, Kept, Locked
<1>6. CASE Decide
  <2>1. raw \in Payload /\ raw' = raw /\ hpc \in InHand
    BY <1>6, RawPublished DEF Decide, Proceed, reading, InHand, Kept
  <2>2. State \in seen \/ raw.marked
    BY <1>6 DEF Decide, Proceed
  <2>3. State \in seen => Accounted(State)
    BY DEF SInv, Delivery
  <2>4. raw.marked => Accounted(State)
    BY <2>1 DEF SInv, Delivery, Marks, Accounted, State
  <2> QED  BY <1>2, <2>1, <2>2, <2>3, <2>4
<1>7. CASE Record \/ RecordFails \/ Expire \/ Transition \/ Deliver \/ Defer \/ Refused \/ MarkWrite \/ MarkFails \/ Crash
  BY <1>7 DEF Record, RecordFails, Expire, Transition, Deliver, Defer, Refused, MarkWrite, MarkFails, Crash, Goto, Leave, Proceed
<1>8. CASE Send
  <2>1. hpc' = hpc /\ raw' = raw
    BY <1>8 DEF Send, reading
  <2> QED  BY <1>1, <1>2, <2>1 DEF InHand, Kept, Locked
<1>9. CASE MarkPromote
  BY <1>1, <1>2, <1>9 DEF MarkPromote, Accepted, Accounted, InHand, Kept, Locked
<1>10. CASE DropPending \/ DropPublic \/ DropIndex
  BY <1>1, <1>2, <1>10 DEF DropPending, DropPublic, DropIndex, Leave, Proceed, reading, InHand, Kept, Locked
<1> QED  BY <1>3, <1>4, <1>5, <1>6, <1>7, <1>8, <1>9, <1>10, StepCases DEF Keeps

LEMMA DeliveryKept ==
    ASSUME TInv, SInv, [Next]_vars
    PROVE  Delivery'
<1>1. TypeOK /\ Delivery
  BY DEF TInv, SInv
<1>2. \A o \in told' : Announced(o)'
  BY <1>1, NoticesGrow DEF Delivery
<1>3. \A o \in seen' : Accounted(o)'
  <2>1. \/ seen' \subseteq seen
        \/ Decide /\ seen' = seen \cup {State}
        \/ MarkPromote /\ seen' = seen \cup {State}
    <3>1. CASE Publish \/ RunnerMoves \/ Others \/ UNCHANGED vars
      BY <3>1, Elsewheres
    <3>2. CASE Reads \/ Looks \/ Keeps
      BY <3>2 DEF Reads, Looks, Keeps, Find, FindStray, Locate, NothingLeft, ReadBeside, ReadPayload, PromoteAgain, Verify, Lock, Busy, CheckPending,
         CheckPublic, Record, RecordFails, Decide, Expire, Transition
    <3>3. CASE Deliver \/ Defer \/ Send \/ Refused \/ MarkWrite \/ MarkFails \/ MarkPromote \/ DropPending \/ DropPublic \/ DropIndex \/ Crash
      BY <3>3 DEF Deliver, Defer, Send, Refused, MarkWrite, MarkFails, MarkPromote, DropPending, DropPublic, DropIndex, Crash
    <3> QED  BY <3>1, <3>2, <3>3, StepCases
  <2>2. \A o \in seen : Accounted(o)'
    BY <1>1, AccountedKept DEF Delivery
  <2>3. CASE Decide /\ seen' = seen \cup {State}
    <3>1. raw \in Payload /\ (State \in seen \/ raw.marked)
      BY <2>3, RawPublished DEF Decide, Proceed, InHand, Kept
    <3>2. State \in seen \/ Accounted(State)
      BY <3>1, <2>3 DEF Decide, SInv, Delivery, Marks, Accounted, State, InHand, Kept
    <3>3. PICK s : s = State
      OBVIOUS
    <3>4. Accounted(s)'
      BY <2>2, <3>2, <3>3, AccountedKept
    <3> QED  BY <2>2, <2>3, <3>3, <3>4
  <2>4. CASE MarkPromote /\ seen' = seen \cup {State}
    <3>1. Accounted(State)
      BY <1>1, <2>4 DEF MarkPromote, Delivery, Accepted, Accounted
    <3>2. PICK s : s = State
      OBVIOUS
    <3>3. Accounted(s)'
      BY <3>1, <3>2, AccountedKept
    <3> QED  BY <2>2, <2>4, <3>2, <3>3
  <2> QED  BY <2>1, <2>2, <2>3, <2>4
<1> QED  BY <1>2, <1>3, AcceptedKept, DeliveredKept, RecordedKept DEF Delivery

LEMMA MarksKept ==
    ASSUME TInv, SInv, [Next]_vars
    PROVE  Marks'
<1>1. TypeOK /\ Facts /\ Marks /\ recorded \subseteq recorded'
  BY Known, RunnerStep, MarkStep DEF TInv, SInv, Seal, Marked
<1>2. CASE Publish
  <2>1. pending'.marked => pending'.n \in recorded'
    <3>1. CASE PublishInterim \/ PublishFinal \/ PublishThrows \/ PublishFailure \/ Repair
      <4>1. pending' = [n |-> published + 1, marked |-> FALSE]
        BY <3>1 DEF PublishInterim, PublishFinal, PublishThrows, PublishFailure, WriteResult, Repair, WritePending
      <4> QED  BY <4>1
    <3>2. CASE Seal
      <4>1. PICK d : /\ pending' = [n |-> published + 1, marked |-> d]
                     /\ recorded' = IF d THEN recorded \cup {published + 1} ELSE recorded
        BY <3>2 DEF Seal, WritePending
      <4> QED  BY <4>1
    <3> QED  BY <1>2, <3>1, <3>2 DEF Publish
  <2>2. public' = public /\ raw' = raw /\ hpc' = hpc
    BY <1>2, PublishStep DEF reading
  <2> QED  BY <1>1, <2>1, <2>2 DEF Marks
<1>3. CASE MarkWrite \/ MarkFails
  <2>1. pending' # None /\ pending'.marked => pending'.n \in recorded'
    BY <1>1, <1>3, MarkStep DEF Marked, Marks
  <2>2. hpc' \in InHand /\ raw'.marked => raw'.n \in recorded'
    <3>1. CASE MarkWrite
      BY <3>1, MarkStep DEF MarkWrite
    <3>2. CASE MarkFails
      BY <3>2, MarkFailsStep DEF InHand, Kept, Locked
    <3> QED  BY <1>3, <3>1, <3>2
  <2>3. public' = public
    BY <1>3, MarkStep DEF Marked
  <2> QED  BY <1>1, <2>1, <2>2, <2>3 DEF Marks
<1>4. CASE ~Publish /\ ~(MarkWrite \/ MarkFails)
  <2> DEFINE Fine(p) == p # None /\ p.marked => p.n \in recorded'
  <2>1. Fine(pending) /\ Fine(public) /\ Fine(None)
    BY <1>1 DEF Marks
  <2> HIDE DEF Fine
  <2>2. Fine(pending') /\ Fine(public')
    BY <1>4, <2>1, DiskStep DEF DropPending, DropPublic, DropIndex
  <2>3. hpc' \in InHand => (raw' = raw /\ hpc \in InHand) \/ raw' \in {pending, public}
    <3>1. CASE Publish \/ RunnerMoves \/ Others \/ UNCHANGED vars
      BY <3>1, Elsewheres
    <3>2. CASE Send
      BY <3>2 DEF Send, reading, InHand, Kept
    <3>3. CASE Reads
      BY <3>3 DEF Reads, Find, FindStray, Locate, NothingLeft, ReadBeside, ReadPayload, PromoteAgain, Goto, Leave, Proceed, reading, InHand, Kept, Locked
    <3>4. CASE Looks \/ Keeps
      BY <3>4 DEF Looks, Keeps, Verify, Lock, Busy, CheckPending, CheckPublic, Record, RecordFails, Decide, Expire,
         Transition, Goto, Leave, Proceed, reading, InHand, Kept, Locked
    <3>5. CASE Deliver \/ Defer \/ Refused \/ MarkPromote \/ DropPending \/ DropPublic \/ DropIndex \/ Crash
      BY <3>5 DEF Deliver, Defer, Refused, MarkPromote, DropPending, DropPublic, DropIndex, Crash, Leave, Proceed, reading,
         InHand, Kept, Locked
    <3> QED  BY <1>4, <3>1, <3>2, <3>3, <3>4, <3>5, StepCases
  <2>4. hpc' \in InHand /\ raw'.marked => raw'.n \in recorded'
    <3>1. hpc \in InHand => raw # None /\ (raw.marked => raw.n \in recorded')
      BY <1>1 DEF Marks, TInv
    <3>2. hpc' \in InHand => raw' # None
      BY HostTypesKept
    <3> QED  BY <2>1, <2>3, <3>1, <3>2 DEF Fine
  <2> QED  BY <2>2, <2>4 DEF Fine, Marks
<1> QED  BY <1>2, <1>3, <1>4

LEMMA UnderLeaseKept ==
    ASSUME astray' = FALSE, TInv, SInv, [Next]_vars
    PROVE  UnderLease'
<1> SUFFICES ASSUME hpc' \in {"markPublic", "checkPublic", "markWrite", "markPromote"} \cup Dropping
             PROVE  UnderLease'
  BY DEF UnderLease, Dropping
<1> USE DEF Dropping
<1>1. TypeOK /\ Facts /\ Numbered /\ UnderLease /\ BesideOlder /\ PendingNewest /\ NewerOnDisk
  BY Known DEF TInv, SInv
<1>2. CASE Publish
  <2>1. hpc \notin Locked
    BY <1>2, NothingPublished
  <2> QED  BY <1>2, <2>1, PublishStep DEF Locked
<1>3. CASE CheckPending
  <2>1. raw # None /\ raw.n <= published
    BY <1>1, <1>3 DEF CheckPending, TInv, InHand, Kept, Locked, Numbered
  <2>2. ReadPending /\ UNCHANGED <<pending, public, raw, beside, published>>
        /\ hpc' \in {"markPublic", "checkPublic"}
    BY <1>3 DEF CheckPending, Proceed, Leave, disk, reading, HostRest, writers
  <2>3. raw.n = published \/ (public # None /\ public.n = published)
    BY <1>1, <1>3, <2>1, <2>2 DEF CheckPending, NewerOnDisk, OnDisk, ReadPending, Kept, Locked
  <2> QED  BY <2>2, <2>3 DEF UnderLease, ReadPending
<1>4. CASE CheckPublic
  <2>1. ReadPending /\ ReadPublic /\ UNCHANGED <<pending, public, raw, beside, published>>
        /\ hpc' \in {"markWrite", "dropPending"}
    BY <1>1, <1>4 DEF CheckPublic, Proceed, Leave, disk, reading, HostRest, writers, UnderLease
  <2>2. raw # None /\ raw.n <= published /\ raw.n \in Nat
    BY <1>1, <1>4 DEF CheckPublic, TInv, InHand, Kept, Locked, Numbered, TypeOK, Facts
  <2>3. raw.n = published
    BY <1>1, <1>4, <2>1, <2>2 DEF CheckPublic, UnderLease, ReadPublic, BesideOlder, Kept, Locked, Facts, TypeOK
  <2> QED  BY <2>1, <2>3 DEF UnderLease, ReadPending, ReadPublic
<1>11. CASE MarkFails
  BY <1>11, MarkFailsStep
<1>5. CASE MarkWrite
  <2>1. raw \in Payload /\ raw' = [raw EXCEPT !.marked = TRUE] /\ raw.n = published /\ published' = published
    BY <1>1, <1>5, RawPublished DEF MarkWrite, Goto, UnderLease, HostRest, writers, InHand, Kept, Locked
  <2>2. [raw EXCEPT !.marked = TRUE].n = raw.n
    BY <2>1 DEF Payload
  <2> QED  BY <1>5, <2>1, <2>2 DEF UnderLease, MarkWrite, Goto
<1>6. CASE DropPending
  BY <1>1, <1>6 DEF DropPending, Proceed, reading, writers, UnderLease, ReadPending, ReadPublic
<1>7. CASE DropPublic
  BY <1>1, <1>7 DEF DropPublic, ReadLeft, Proceed, reading, writers, UnderLease, ReadPending, ReadPublic
<1>8. CASE RunnerMoves \/ Others \/ Send \/ UNCHANGED vars
  <2>1. UNCHANGED <<hpc, raw, beside, published>>
    <3>1. CASE Send
      BY <3>1 DEF Send, reading, HostRest, writers
    <3>2. CASE RunnerMoves \/ Others \/ UNCHANGED vars
      BY <3>2, Elsewheres DEF RunnerMoves, RunnerLock, PromoteFinal, RunnerGone, Others, Lookup, Reindex, Reclaim, vars, writers
    <3> QED  BY <1>8, <3>1, <3>2
  <2>2. \/ pending' = pending /\ public' = public
        \/ pending # None /\ public' = pending /\ pending' = None
    BY <1>8 DEF RunnerMoves, RunnerLock, PromoteFinal, RunnerGone, Others, Lookup, Reindex, Reclaim, Send, Promoted, NotPromoted, vars, disk
  <2>3. CASE pending' = pending /\ public' = public
    BY <1>1, <2>1, <2>3 DEF UnderLease, ReadPending, ReadPublic
  <2>4. CASE pending # None /\ public' = pending /\ pending' = None
    <3>1. ReadPending => pending = raw /\ raw.n = published
      BY <1>1, <2>4 DEF ReadPending, PendingNewest
    <3> QED  BY <1>1, <2>1, <2>4, <3>1 DEF UnderLease, ReadPending, ReadPublic
  <2> QED  BY <2>2, <2>3, <2>4
<1>9. CASE Reads \/ Verify \/ Lock \/ Busy \/ Keeps
  BY <1>9 DEF Reads, Keeps, Find, FindStray, Locate, NothingLeft, ReadBeside, ReadPayload, PromoteAgain, Verify, Lock, Busy,
     Record, RecordFails, Decide, Expire, Transition, Goto, Leave, Proceed
<1>10. CASE Deliver \/ Defer \/ Refused \/ MarkPromote \/ DropIndex \/ Crash
  BY <1>10 DEF Deliver, Defer, Refused, MarkPromote, DropIndex, Crash, Leave, Proceed
<1> QED  BY <1>2, <1>3, <1>4, <1>5, <1>6, <1>7, <1>8, <1>9, <1>10, <1>11, StepCases DEF Looks

(* What is removed was delivered, and is what the replay holds. *)
LEMMA RetiredDelivered ==
    ASSUME TInv, SInv, hpc \in Dropping
    PROVE  Accounted(outcome[published]) /\ replay = published
<1>1. durable /\ raw.n = published /\ replay = raw.n /\ Accounted(State)
  BY DEF SInv, Durable, UnderLease, Delivery, Retiring
<1> QED  BY <1>1 DEF State

LEMMA NewestKeptKept ==
    ASSUME TInv, SInv, [Next]_vars
    PROVE  NewestKept'
<1>1. TypeOK /\ Facts /\ NewestKept
  BY Known DEF TInv, SInv
<1>2. CASE ~Publish /\ (DropPending \/ DropPublic \/ DropIndex)
  <2>1. Accounted(outcome[published]) /\ replay = published
    BY <1>2, RetiredDelivered DEF DropPending, DropPublic, DropIndex, Dropping
  <2>2. PICK o : o = outcome[published]
    OBVIOUS
  <2>3. Accounted(o)'
    BY <2>1, <2>2, AccountedKept
  <2>4. published' = published /\ outcome' = outcome /\ replay' = replay
    BY <1>2, WritersKept DEF DropPending, DropPublic, DropIndex
  <2> QED  BY <2>1, <2>2, <2>3, <2>4 DEF Accounted, NewestKept, Delivered
<1>3. CASE ~(~Publish /\ (DropPending \/ DropPublic \/ DropIndex)) /\ (OnDisk(published) \/ published' # published)
  BY <1>3, NewestStep DEF NewestKept
<1>4. CASE ~OnDisk(published) /\ published' = published
  <2>1. published = 0 \/ (Delivered(published) /\ replay = published)
    BY <1>1, <1>4 DEF NewestKept
  <2>2. ~Publish
    <3>1. published + 1 # published
      BY <1>1 DEF Facts
    <3> QED  BY <1>4, <3>1, PublishStep
  <2>3. published # 0 => Delivered(published)'
    <3>1. PICK o : o = outcome[published]
      OBVIOUS
    <3>2. published # 0 => Accounted(o) \/ published \in recorded
      BY <2>1, <3>1 DEF Delivered, Accounted
    <3>3. Accounted(o) => Accounted(o)'
      BY AccountedKept
    <3>4. recorded \subseteq recorded' /\ outcome' = outcome
      BY <2>2, RunnerStep, WritersKept, MarkStep DEF Marked, Publish
    <3> QED  BY <1>4, <3>1, <3>2, <3>3, <3>4 DEF Accounted, Delivered
  <2>4. published # 0 => replay' = published
    <3>1. replay' = replay \/ (hpc = "record" /\ replay' \in {replay, raw.n})
      <4>1. CASE RunnerMoves \/ Others \/ UNCHANGED vars
        BY <4>1, Elsewheres
      <4>2. CASE Reads \/ Looks \/ Keeps
        BY <4>2 DEF Reads, Looks, Keeps, Find, FindStray, Locate, NothingLeft, ReadBeside, ReadPayload, PromoteAgain, Verify, Lock, Busy, CheckPending,
           CheckPublic, Record, RecordFails, Decide, Expire, Transition, Goto
      <4>3. CASE Deliver \/ Defer \/ Send \/ Refused \/ MarkWrite \/ MarkFails \/ MarkPromote \/ DropPending \/ DropPublic \/ DropIndex \/ Crash
        BY <4>3 DEF Deliver, Defer, Send, Refused, MarkWrite, MarkFails, MarkPromote, DropPending, DropPublic, DropIndex, Crash
      <4> QED  BY <2>2, <4>1, <4>2, <4>3, StepCases
    <3>2. hpc = "record" => raw.n = published
      BY <1>4 DEF SInv, NewerOnDisk, Kept
    <3> QED  BY <2>1, <3>1, <3>2
  <2> QED  BY <1>4, <2>3, <2>4 DEF NewestKept
<1> QED  BY <1>2, <1>3, <1>4

LEMMA SInvInit == Init => SInv
<1> SUFFICES ASSUME Init PROVE SInv
  OBVIOUS
<1>1. PendingNewest /\ PublicBeneath /\ BesideOlder /\ NewerOnDisk
  BY DEF Init, PendingNewest, PublicBeneath, BesideOlder, NewerOnDisk, Kept, Locked
<1>2. Durable /\ Delivery
  BY DEF Init, Durable, Delivery, Accepted, Retiring, Dropping
<1>3. Marks /\ UnderLease /\ NewestKept
  BY DEF Init, Marks, UnderLease, NewestKept, InHand, Kept, Locked, Dropping
<1> QED  BY <1>1, <1>2, <1>3 DEF SInv

LEMMA SInvNext ==
    ASSUME astray' = FALSE, TInv, SInv, [Next]_vars
    PROVE  SInv'
BY PendingNewestKept, PublicBeneathKept, BesideOlderKept, NewerOnDiskKept, DurableKept, DeliveryKept, MarksKept,
   UnderLeaseKept, NewestKeptKept DEF SInv

LEMMA AstrayStays ==
    ASSUME TInv, [Next]_vars, astray
    PROVE  astray'
<1>1. astray = TRUE
  BY DEF TInv, TypeOK
<1>2. astray' = astray \/ Seal \/ DropPublic \/ Crash
  BY StepCases DEF Publish, PublishInterim, PublishFinal, PublishThrows, PublishFailure, Repair, RunnerRest, RunnerMoves,
     RunnerLock, PromoteFinal, RunnerGone, Others, Lookup, Reindex, Reclaim, vars, Reads, Looks, Keeps, Find, FindStray, Locate,
     NothingLeft, ReadBeside, ReadPayload, PromoteAgain, Verify, Lock, Busy, CheckPending, CheckPublic, Record, RecordFails,
     Decide, Expire, Transition, Deliver, Defer, Send, Refused, MarkWrite, MarkFails, MarkPromote, DropPending, DropIndex, HostRest
<1> QED  BY <1>1, <1>2 DEF Seal, DropPublic, Crash

LEMMA SafeOrAstray == TInv /\ TInv' /\ (SInv \/ astray) /\ [Next]_vars => (SInv \/ astray)'
<1> SUFFICES ASSUME TInv, TInv', SInv \/ astray, [Next]_vars
             PROVE  (SInv \/ astray)'
  OBVIOUS
<1>1. CASE astray
  BY <1>1, AstrayStays
<1>2. CASE SInv /\ astray' = FALSE
  BY <1>2, SInvNext
<1>3. astray' \in BOOLEAN
  BY DEF TInv, TypeOK
<1> QED  BY <1>1, <1>2, <1>3

(* NewestStays: the newest payload is on disk until its outcome was          *)
(* announced and the replay holds that payload, wherever the processes stop  *)
(* and whatever is denied, up to the first event that astray records.        *)
THEOREM NewestStays == Spec => []NewestKeptOrAstray
<1>1. SInv \/ astray => NewestKeptOrAstray
  BY DEF SInv, NewestKeptOrAstray
<1> QED  BY Typed, SInvInit, SafeOrAstray, <1>1, PTL DEF Spec

-----------------------------------------------------------------------------
(* Announcements                                                             *)

(* The payload that was published last is not recorded yet, but for the      *)
(* stopped one.                                                             *)
LEMMA RecordedStep ==
    ASSUME TInv, SInv, [Next]_vars
    PROVE  /\ \A n \in recorded : n \in 1..published
           /\ \/ recorded' = recorded
              \/ Publish /\ pending'.marked /\ recorded' = recorded \cup {published + 1}
              \/ (MarkWrite \/ MarkFails) /\ recorded' = recorded \cup {raw.n}
<1>1. TypeOK /\ Facts /\ Delivery
  BY Known DEF TInv, SInv
<1>2. \A n \in recorded : n \in 1..published
  BY <1>1 DEF TypeOK, Delivery, Facts
<1>3. CASE Seal
  <2>1. PICK d \in BOOLEAN : /\ pending' = [n |-> published + 1, marked |-> d]
                            /\ recorded' = IF d THEN recorded \cup {published + 1} ELSE recorded
    BY <1>1, <1>3 DEF Seal, WritePending, TypeOK, Payload
  <2>2. CASE d = TRUE
    BY <1>2, <1>3, <2>1, <2>2 DEF Publish
  <2>3. CASE d = FALSE
    BY <1>2, <2>1, <2>3
  <2> QED  BY <2>1, <2>2, <2>3
<1> QED  BY <1>2, <1>3, RunnerStep, MarkStep DEF Marked

(* Nothing newer than the last payload is announced. *)
LEMMA LastNewest ==
    ASSUME TInv, InOrder
    PROVE  Newest(published)
BY Known DEF TInv, TypeOK, InOrder, Newest, Facts

LEMMA PublicNewest ==
    ASSUME TInv, SInv, public # None, pending = None, hpc # "dropPublic"
    PROVE  public.n = published
BY Known DEF TInv, TypeOK, Numbered, SInv, PublicBeneath, Facts

(* How the watcher comes to read the public path. *)
LEMMA ToReadStep ==
    ASSUME TInv, [Next]_vars, hpc' \in ToRead, path' = "public"
    PROVE  \/ hpc \in ToRead /\ path = "public"
           \/ pending # None /\ public' = pending
           \/ pending = None /\ hpc # "dropPublic" /\ public' = public
<1> USE DEF ToRead
<1>1. CASE Publish \/ RunnerMoves \/ Others \/ UNCHANGED vars
  BY <1>1, Elsewheres
<1>2. CASE Find \/ FindStray \/ NothingLeft
  BY <1>2 DEF Find, FindStray, Locate, NothingLeft, Goto, Promoted, NotPromoted, disk
<1>3. CASE ReadBeside
  BY <1>3 DEF ReadBeside, Goto
<1>4. CASE ReadPayload
  BY <1>4 DEF ReadPayload, Leave
<1>5. CASE PromoteAgain
  BY <1>5 DEF PromoteAgain, Promoted, Proceed, reading
<1>6. CASE Send
  BY <1>6 DEF Send, reading
<1>7. CASE Looks \/ Keeps
  BY <1>7 DEF Looks, Keeps, Verify, Lock, Busy, CheckPending, CheckPublic, Record, RecordFails, Decide, Expire,
     Transition, Goto, Leave, Proceed, reading
<1>8. CASE Deliver \/ Defer \/ Refused \/ MarkWrite \/ MarkFails \/ MarkPromote \/ DropPending \/ DropPublic \/ DropIndex \/ Crash
  BY <1>8 DEF Deliver, Defer, Refused, MarkWrite, MarkFails, MarkPromote, DropPending, DropPublic, DropIndex, Crash, Goto, Leave, Proceed
<1> QED  BY <1>1, <1>2, <1>3, <1>4, <1>5, <1>6, <1>7, <1>8, StepCases DEF Reads

(* The payload in hand afterwards was on disk, or in hand. *)
LEMMA KeptStep ==
    ASSUME TInv, [Next]_vars, hpc' \in Kept, ~MarkWrite
    PROVE  \/ hpc \in Kept /\ raw' = raw
           \/ hpc \in ToRead /\ path = "pending" /\ raw' = pending /\ pending # None
           \/ hpc \in ToRead /\ path = "public" /\ raw' = public /\ public # None
<1> USE DEF ToRead, Kept, Locked
<1>1. CASE Publish \/ RunnerMoves \/ Others \/ UNCHANGED vars
  BY <1>1, Elsewheres
<1>2. CASE Find \/ FindStray \/ NothingLeft \/ ReadBeside
  BY <1>2 DEF Find, FindStray, Locate, NothingLeft, ReadBeside, Goto
<1>3. CASE ReadPayload
  BY <1>3 DEF ReadPayload, Leave, TInv, TypeOK
<1>4. CASE PromoteAgain
  BY <1>4 DEF PromoteAgain, Proceed, reading
<1>5. CASE Send
  BY <1>5 DEF Send, reading
<1>6. CASE Looks \/ Keeps
  BY <1>6 DEF Looks, Keeps, Verify, Lock, Busy, CheckPending, CheckPublic, Record, RecordFails, Decide, Expire,
     Transition, Goto, Leave, Proceed, reading
<1>7. CASE Deliver \/ Defer \/ Refused \/ MarkPromote \/ DropPending \/ DropPublic \/ DropIndex \/ Crash
  BY <1>7 DEF Deliver, Defer, Refused, MarkPromote, DropPending, DropPublic, DropIndex, Crash, Leave, Proceed, reading
<1>8. CASE MarkFails
  BY <1>8, MarkFailsStep
<1> QED  BY <1>8, <1>1, <1>2, <1>3, <1>4, <1>5, <1>6, <1>7, StepCases DEF Reads

LEMMA MarksCarriedKept ==
    ASSUME astray' = FALSE, TInv, SInv, AInv, [Next]_vars
    PROVE  MarksCarried'
<1>1. TypeOK /\ Facts /\ Numbered /\ MarksCarried /\ (\A n \in recorded : n \in 1..published)
  BY Known, RecordedStep DEF TInv, AInv
<1>2. CASE MarkWrite \/ MarkFails
  <2>1. hpc = "markWrite" /\ raw \in Payload /\ hpc' \in {"markPromote", "retry"}
    BY <1>2, MarkStep, MarkFailsStep DEF MarkWrite, Goto
  <2>2. CASE Marked
    <3>1. pending' # None /\ pending'.marked
      BY <1>1, <1>2, <2>2, MarkStep DEF Marked, Facts
    <3>2. hpc' = "markPromote" => raw'.marked
      BY <1>2, MarkStep, MarkFailsStep DEF MarkWrite
    <3> QED  BY <2>1, <3>1, <3>2 DEF MarksCarried, Carries, ToRead, Kept, Locked
  <2>3. CASE MarkFails /\ UNCHANGED <<pending, public, recorded>>
    <3>1. hpc' = "retry"
      BY <2>3, MarkFailsStep
    <3> QED  BY <1>1, <2>1, <2>3, <3>1 DEF MarksCarried, Carries, ToRead, Kept, Locked
  <2> QED  BY <1>2, <2>2, <2>3, MarkStep
<1>3. CASE Publish
  <2>0. ~(MarkWrite \/ MarkFails)
    BY <1>1, <1>3, PublishStep, MarkFailsStep DEF MarkWrite, Goto
  <2>1. Carries(pending)'
    <3>1. pending'.n = published + 1 /\ ~(published + 1 \in recorded)
      BY <1>1, <1>3, PublishStep DEF Facts
    <3>2. recorded' = recorded \/ pending'.marked
      BY <2>0, RecordedStep
    <3> QED  BY <3>1, <3>2 DEF Carries
  <2>2. pending' # None /\ UNCHANGED <<public, raw, hpc, path>>
    BY <1>1, <1>3, PublishStep DEF reading, Facts
  <2>3. \A p \in Payload : p.n <= published /\ Carries(p) => (p.n \in recorded' => p.marked)
    <3>1. recorded' = recorded \/ recorded' = recorded \cup {published + 1}
      BY <2>0, RecordedStep
    <3> QED  BY <1>1, <3>1 DEF Carries, Facts
  <2>4. CASE public = None
    BY <1>1, <2>1, <2>2, <2>3, <2>4 DEF MarksCarried, Carries, TypeOK, Numbered, TInv, InHand
  <2>5. CASE public # None
    BY <1>1, <2>1, <2>2, <2>3, <2>5 DEF MarksCarried, Carries, TypeOK, Numbered, TInv, InHand
  <2> QED  BY <2>4, <2>5
<1>4. CASE ~Publish /\ ~(MarkWrite \/ MarkFails)
  <2>1. recorded' = recorded
    BY <1>4, RecordedStep
  <2>2. pending' # None => Carries(pending)'
    <3>1. pending' \in {pending, None}
      BY <1>4, DiskStep DEF DropPending, DropPublic, DropIndex
    <3> QED  BY <1>1, <2>1, <3>1 DEF MarksCarried, Carries
  <2>3. pending' = None /\ public' # None /\ hpc' # "dropPublic" => Carries(public)'
    <3> SUFFICES ASSUME pending' = None, public' # None, hpc' # "dropPublic"
                 PROVE  Carries(public)'
      OBVIOUS
    <3>1. CASE pending # None /\ public' = pending
      BY <1>1, <2>1, <3>1 DEF MarksCarried, Carries
    <3>2. CASE pending' = pending /\ public' = public /\ hpc # "dropPublic"
      BY <1>1, <2>1, <3>2 DEF MarksCarried, Carries
    <3>3. CASE pending' = pending /\ public' = public /\ hpc = "dropPublic"
      <4>1. public = raw \/ public = beside
        BY <3>3 DEF SInv, UnderLease, ReadPublic
      <4>2. hpc' = "dropPublic" \/ DropPublic \/ Crash
        <5>1. CASE Publish \/ RunnerMoves \/ Others \/ UNCHANGED vars
          BY <3>3, <5>1, Elsewheres
        <5>2. CASE Send
          BY <3>3, <5>2 DEF Send
        <5> QED
          BY <3>3, <5>1, <5>2, StepCases DEF Reads, Looks, Keeps, Find, FindStray, Locate, NothingLeft, ReadBeside, ReadPayload, PromoteAgain, Verify, Lock, Busy,
             CheckPending, CheckPublic, Record, RecordFails, Decide, Expire, Transition, Deliver, Defer, Refused, MarkWrite, MarkFails,
             MarkPromote, DropPending, DropIndex, Goto
      <4>3. DropPublic => public = raw
        BY <3>3 DEF DropPublic, ReadLeft, SInv, UnderLease
      <4>4. Crash => public = raw
        BY <3>3 DEF Crash, HalfRetired
      <4>5. Carries(raw)
        BY <1>1, <3>3 DEF MarksCarried, Kept, Locked
      <4> QED  BY <2>1, <3>3, <4>2, <4>3, <4>4, <4>5 DEF Carries
    <3>4. CASE DropPending \/ DropPublic \/ DropIndex
      <4>1. DropPending => hpc' = "dropPublic"
        BY DEF DropPending, Proceed
      <4>2. DropPublic \/ DropIndex => public' = raw /\ hpc \in Kept
        BY DEF DropPublic, DropIndex, ReadLeft, SInv, UnderLease, Kept, Locked
      <4> QED  BY <1>1, <2>1, <3>4, <4>1, <4>2 DEF MarksCarried, Carries
    <3> QED  BY <1>4, <3>1, <3>2, <3>3, <3>4, DiskStep
  <2>4. hpc' \in ToRead /\ path' = "public" /\ public' # None => Carries(public)'
    <3> SUFFICES ASSUME hpc' \in ToRead, path' = "public", public' # None
                 PROVE  Carries(public)'
      OBVIOUS
    <3>1. CASE pending # None /\ public' = pending
      BY <1>1, <2>1, <3>1 DEF MarksCarried, Carries
    <3>2. CASE hpc \in ToRead /\ path = "public" /\ public' = public
      BY <1>1, <2>1, <3>2 DEF MarksCarried, Carries
    <3>3. CASE pending = None /\ hpc # "dropPublic" /\ public' = public
      BY <1>1, <2>1, <3>3 DEF MarksCarried, Carries
    <3>4. ~(DropPending \/ DropPublic \/ DropIndex) \/ public' = public \/ public' = None
      BY DEF DropPending, DropPublic, DropIndex
    <3> QED  BY <1>4, <3>1, <3>2, <3>3, <3>4, DiskStep, ToReadStep
  <2>5. hpc' \in Kept => Carries(raw)'
    BY <1>1, <1>4, <2>1, KeptStep DEF MarksCarried, Carries
  <2>6. hpc' \in {"deliver", "await"} => ~raw'.marked
    <3>1. CASE hpc \in {"deliver", "await"} /\ raw' = raw
      BY <1>1, <3>1 DEF MarksCarried
    <3>2. CASE Publish \/ RunnerMoves \/ Others \/ UNCHANGED vars
      BY <3>1, <3>2, Elsewheres
    <3>3. CASE Reads \/ Looks
      BY <3>3 DEF Reads, Looks, Find, FindStray, Locate, NothingLeft, ReadBeside, ReadPayload, PromoteAgain, Verify, Lock, Busy, CheckPending, CheckPublic,
         Goto, Leave, Proceed
    <3>4. CASE Keeps
      BY <3>4 DEF Keeps, Record, RecordFails, Decide, Expire, Transition, Goto, Leave, Proceed, reading
    <3>5. CASE Defer \/ Send
      BY <3>1, <3>5 DEF Defer, Send, Proceed, reading
    <3>6. CASE Deliver \/ Refused \/ MarkPromote \/ DropPending \/ DropPublic \/ DropIndex \/ Crash
      BY <3>6 DEF Deliver, Refused, MarkPromote, DropPending, DropPublic, DropIndex, Crash, Leave, Proceed
    <3> QED  BY <1>4, <3>2, <3>3, <3>4, <3>5, <3>6, StepCases
  <2> QED  BY <2>2, <2>3, <2>4, <2>5, <2>6 DEF MarksCarried
<1> QED  BY <1>2, <1>3, <1>4

(* What is announced or waits to be grows by the payload in hand alone. *)
LEMMA NoticeGrows ==
    ASSUME TInv, [Next]_vars, NEW m \in Num, notices'[m] > 0 \/ m \in queued'
    PROVE  \/ notices[m] > 0 \/ m \in queued
           \/ (Deliver \/ Defer) /\ m = raw.n
<1>1. TypeOK /\ Facts
  BY Known DEF TInv
<1>2. CASE UNCHANGED <<notices, queued>>
  BY <1>2
<1>3. CASE Publish \/ RunnerMoves \/ Others \/ UNCHANGED vars
  BY <1>2, <1>3, Elsewheres
<1>4. CASE Reads \/ Looks \/ Keeps
  BY <1>2, <1>4 DEF Reads, Looks, Keeps, Find, FindStray, Locate, NothingLeft, ReadBeside, ReadPayload, PromoteAgain, Verify, Lock, Busy, CheckPending,
     CheckPublic, Record, RecordFails, Decide, Expire, Transition, notifier
<1>5. CASE MarkWrite \/ MarkFails \/ MarkPromote \/ DropPending \/ DropPublic \/ DropIndex
  BY <1>2, <1>5 DEF MarkWrite, MarkFails, MarkPromote, DropPending, DropPublic, DropIndex, notifier
<1>6. CASE Refused \/ Crash
  BY <1>6 DEF Refused, Crash
<1>7. CASE Defer
  BY <1>7 DEF Defer
<1>8. CASE Deliver
  BY <1>1, <1>8 DEF Deliver, Announce, TypeOK
<1>9. CASE Send
  <2>1. PICK n \in queued : notices' = [notices EXCEPT ![n] = @ + 1] /\ queued' = queued \ {n}
    BY <1>9 DEF Send, Announce
  <2>2. m # n => notices'[m] = notices[m]
    BY <1>1, <2>1 DEF TypeOK
  <2> QED  BY <2>1, <2>2
<1> QED  BY <1>3, <1>4, <1>5, <1>6, <1>7, <1>8, <1>9, StepCases

LEMMA InOrderKept ==
    ASSUME TInv, SInv, AInv, [Next]_vars
    PROVE  InOrder'
<1>1. TypeOK /\ Facts /\ Numbered /\ InOrder /\ published' \in Nat /\ published' >= published
  <2>1. TypeOK /\ Facts /\ Numbered /\ InOrder
    BY Known DEF TInv, AInv
  <2>2. published' = published + 1 \/ published' = published
    BY PublishStep, WritersKept
  <2> QED  BY <2>1, <2>2 DEF Facts
<1>2. (Deliver \/ Defer) => hpc \in Kept /\ raw.n \in 1..published /\ raw' = raw /\ hpc' \in {"accepted", "await"}
  BY RawPublished DEF Deliver, Defer, Proceed, reading, InHand, Kept
<1>3. \A n \in Num : notices'[n] > 0 => n <= published'
  BY <1>1, <1>2, NoticeGrows DEF InOrder, TypeOK, Facts
<1>4. ASSUME NEW k \in Nat, Newest(k), ~(Deliver \/ Defer)
      PROVE  Newest(k)'
  BY <1>4, NoticeGrows DEF Newest
<1>5. CASE ~(Deliver \/ Defer)
  <2>1. hpc' \in ToRead /\ path' = "public" /\ public' # None => Newest(public.n)'
    <3> SUFFICES ASSUME hpc' \in ToRead, path' = "public", public' # None
                 PROVE  Newest(public.n)'
      OBVIOUS
    <3>1. public' # None => public'.n \in Nat
      BY DiskTypesKept, Known DEF DiskTypes, Facts
    <3>2. PICK k \in Nat : k = public'.n
      BY <3>1
    <3>3. CASE pending # None /\ public' = pending
      <4>1. k = published
        BY <3>2, <3>3 DEF SInv, PendingNewest
      <4>2. k \in Nat /\ Newest(k)
        BY <1>1, <4>1, LastNewest DEF Facts
      <4>3. Newest(k)'
        BY <1>4, <1>5, <4>2
      <4> QED  BY <3>2, <4>3 DEF Newest
    <3>4. CASE hpc \in ToRead /\ path = "public" /\ public' = public
      BY <1>1, <1>4, <1>5, <3>2, <3>4 DEF InOrder, Newest
    <3>5. CASE pending = None /\ hpc # "dropPublic" /\ public' = public
      <4>1. k = published
        BY <3>2, <3>5, PublicNewest
      <4>2. k \in Nat /\ Newest(k)
        BY <1>1, <4>1, LastNewest DEF Facts
      <4>3. Newest(k)'
        BY <1>4, <1>5, <4>2
      <4> QED  BY <3>2, <4>3 DEF Newest
    <3>6. hpc \in ToRead /\ path = "public" => public' = public \/ (pending # None /\ public' = pending)
      <4>1. hpc \in ToRead => ~(DropPending \/ DropPublic \/ DropIndex \/ MarkWrite \/ MarkFails)
        BY DEF DropPending, DropPublic, DropIndex, MarkWrite, MarkFails, Goto, ToRead
      <4> QED  BY <4>1, DiskStep, PublishStep
    <3> QED  BY <3>3, <3>4, <3>5, <3>6, ToReadStep
  <2>2. hpc' \in Kept => Newest(raw.n)'
    <3> SUFFICES ASSUME hpc' \in Kept
                 PROVE  Newest(raw.n)'
      OBVIOUS
    <3>1. PICK k : k = raw'.n
      OBVIOUS
    <3>2. CASE hpc \in Kept /\ raw'.n = raw.n
      <4>1. k \in Nat /\ Newest(k)
        BY <1>1, <3>1, <3>2, RawPublished DEF InOrder, InHand, Facts
      <4> QED  BY <1>4, <1>5, <3>1, <4>1 DEF Newest
    <3>3. CASE hpc \in ToRead /\ path = "pending" /\ raw' = pending /\ pending # None
      <4>1. k = published
        BY <3>1, <3>3 DEF SInv, PendingNewest
      <4>2. k \in Nat /\ Newest(k)
        BY <1>1, <4>1, LastNewest DEF Facts
      <4>3. Newest(k)'
        BY <1>4, <1>5, <4>2
      <4> QED  BY <3>1, <4>3 DEF Newest
    <3>4. CASE hpc \in ToRead /\ path = "public" /\ raw' = public /\ public # None
      <4>1. k \in Nat /\ Newest(k)
        BY <1>1, <3>1, <3>4 DEF InOrder, Facts, TypeOK
      <4> QED  BY <1>4, <1>5, <3>1, <4>1 DEF Newest
    <3>5. MarkWrite => hpc \in Kept /\ raw'.n = raw.n
      BY MarkStep DEF MarkWrite, Kept, Locked
    <3> QED  BY <3>2, <3>3, <3>4, <3>5, KeptStep
  <2> QED  BY <1>3, <2>1, <2>2 DEF InOrder
<1>6. CASE Deliver \/ Defer
  <2>1. Newest(raw.n)'
    BY <1>1, <1>2, <1>6, NoticeGrows DEF InOrder, Newest
  <2>2. hpc' \notin ToRead
    BY <1>2, <1>6 DEF ToRead
  <2> QED  BY <1>3, <2>1, <2>2 DEF InOrder
<1> QED  BY <1>5, <1>6

LEMMA QueuedUnmarkedKept ==
    ASSUME TInv, SInv, AInv, [Next]_vars
    PROVE  QueuedUnmarked'
<1>1. TypeOK /\ Facts /\ Batch /\ QueuedUnmarked /\ MarksCarried
  BY Known DEF TInv, AInv
<1>2. CASE Publish
  <2>1. queued' = queued
    BY <1>2, PublishStep DEF notifier
  <2>2. ~(MarkWrite \/ MarkFails)
    BY <1>2, PublishStep, MarkFailsStep DEF MarkWrite, Goto
  <2> QED  BY <1>1, <2>1, <2>2, RecordedStep DEF QueuedUnmarked, TypeOK, Facts
<1>3. CASE MarkWrite \/ MarkFails
  <2>1. queued' = queued /\ recorded' \subseteq recorded \cup {raw.n} /\ State \in told
    BY <1>3, MarkStep DEF Marked, SInv, Delivery, Accepted
  <2> QED  BY <1>1, <2>1 DEF QueuedUnmarked, Batch, State
<1>4. CASE ~Publish /\ ~(MarkWrite \/ MarkFails)
  <2>1. recorded' = recorded
    BY <1>4, RecordedStep
  <2>2. queued' \subseteq queued \/ (Defer /\ queued' \subseteq queued \cup {raw.n})
    <3>1. CASE RunnerMoves \/ Others \/ UNCHANGED vars
      BY <3>1, Elsewheres
    <3>2. CASE Reads \/ Looks \/ Keeps
      BY <3>2 DEF Reads, Looks, Keeps, Find, FindStray, Locate, NothingLeft, ReadBeside, ReadPayload, PromoteAgain, Verify, Lock, Busy, CheckPending,
         CheckPublic, Record, RecordFails, Decide, Expire, Transition, notifier
    <3>3. CASE Deliver \/ Defer \/ Send \/ Refused \/ MarkPromote \/ DropPending \/ DropPublic \/ DropIndex \/ Crash
      BY <3>3 DEF Deliver, Defer, Send, Refused, MarkPromote, DropPending, DropPublic, DropIndex, Crash, notifier
    <3> QED  BY <1>4, <3>1, <3>2, <3>3, StepCases
  <2>3. Defer => raw.n \notin recorded
    BY <1>1 DEF Defer, MarksCarried, Carries, Kept
  <2> QED  BY <1>1, <2>1, <2>2, <2>3 DEF QueuedUnmarked
<1> QED  BY <1>2, <1>3, <1>4

LEMMA AInvInit == Init => AInv
<1> SUFFICES ASSUME Init PROVE AInv
  OBVIOUS
<1>1. MarksCarried /\ QueuedUnmarked
  BY DEF Init, MarksCarried, QueuedUnmarked, ToRead, Kept, Locked
<1>2. \A n \in Num : notices[n] = 0
  BY DEF Init
<1>3. InOrder
  BY <1>2, DeliveryConstants DEF Init, InOrder, ToRead, Kept, Locked, Num
<1> QED  BY <1>1, <1>3 DEF AInv

LEMMA AInvNext ==
    ASSUME astray' = FALSE, TInv, SInv, AInv, [Next]_vars
    PROVE  AInv'
BY MarksCarriedKept, InOrderKept, QueuedUnmarkedKept DEF AInv

(* A notice that is sent was handed to the notifier now, or waited. *)
LEMMA AnnouncedStep ==
    ASSUME TInv, SInv, AInv, [Next]_vars, NEW n \in Num
    PROVE  /\ notices'[n] > notices[n] => n \notin recorded
           /\ Handed(n) => \A m \in Num : notices[m] > 0 => m <= n
<1>1. TypeOK /\ Facts /\ Batch /\ MarksCarried /\ InOrder /\ QueuedUnmarked
  BY Known DEF TInv, AInv
<1>2. notices[n] \in Nat
  BY <1>1 DEF TypeOK, Facts
<1>3. CASE (Deliver \/ Defer) /\ n = raw.n
  BY <1>1, <1>3 DEF Deliver, Defer, MarksCarried, Carries, InOrder, Newest, Kept
<1>4. CASE notices'[n] = notices[n] /\ queued' \subseteq queued
  BY <1>2, <1>4 DEF Handed
<1>5. CASE Deliver /\ n # raw.n
  BY <1>1, <1>4, <1>5 DEF Deliver, Announce, TypeOK
<1>6. CASE Defer /\ n # raw.n
  BY <1>2, <1>6 DEF Defer, Handed
<1>7. CASE Send
  <2>1. PICK k \in queued : notices' = [notices EXCEPT ![k] = @ + 1] /\ queued' = queued \ {k}
    BY <1>7 DEF Send, Announce
  <2>2. CASE n = k
    BY <1>1, <2>1, <2>2 DEF QueuedUnmarked, Handed
  <2>3. CASE n # k
    BY <1>1, <1>4, <2>1, <2>3 DEF TypeOK
  <2> QED  BY <2>2, <2>3
<1>8. CASE Publish \/ RunnerMoves \/ Others \/ UNCHANGED vars
  BY <1>4, <1>8, Elsewheres
<1>9. CASE Reads \/ Looks \/ Keeps
  BY <1>4, <1>9 DEF Reads, Looks, Keeps, Find, FindStray, Locate, NothingLeft, ReadBeside, ReadPayload, PromoteAgain, Verify,
     Lock, Busy, CheckPending, CheckPublic, Record, RecordFails, Decide, Expire, Transition, notifier
<1>10. CASE Refused \/ MarkWrite \/ MarkFails \/ MarkPromote \/ DropPending \/ DropPublic \/ DropIndex \/ Crash
  BY <1>4, <1>10 DEF Refused, MarkWrite, MarkFails, MarkPromote, DropPending, DropPublic, DropIndex, Crash, notifier
<1> QED  BY <1>3, <1>5, <1>6, <1>7, <1>8, <1>9, <1>10, StepCases

LEMMA OrderedOrAstray ==
    TInv /\ TInv' /\ (SInv \/ astray) /\ (AInv \/ astray) /\ [Next]_vars => (AInv \/ astray)'
<1> SUFFICES ASSUME TInv, TInv', SInv \/ astray, AInv \/ astray, [Next]_vars
             PROVE  (AInv \/ astray)'
  OBVIOUS
<1>1. CASE astray
  BY <1>1, AstrayStays
<1>2. CASE SInv /\ AInv /\ astray' = FALSE
  BY <1>2, AInvNext
<1>3. astray' \in BOOLEAN
  BY DEF TInv, TypeOK
<1> QED  BY <1>1, <1>2, <1>3

(* NoSecondNotice: a payload whose delivery mark was written is not          *)
(* announced again, by the process that marked it or by one that came after  *)
(* a crash, and nothing is handed to the notifier after something newer was  *)
(* announced, up to the first event that astray records.                     *)
THEOREM NoSecondNotice == Spec => AnnouncedOnce
<1>1. TInv /\ (SInv \/ astray) /\ (AInv \/ astray) /\ [Next]_vars =>
        [~astray => \A n \in Num :
            /\ notices'[n] > notices[n] => n \notin recorded
            /\ Handed(n) => \A m \in Num : notices[m] > 0 => m <= n]_vars
  BY AnnouncedStep
<1> QED  BY Typed, SInvInit, AInvInit, SafeOrAstray, OrderedOrAstray, <1>1, PTL DEF Spec, AnnouncedOnce
=============================================================================
