---------------------------- MODULE ResultDelivery ----------------------------
(***************************************************************************)
(* How the result of a background run reaches its session                  *)
(* (src/src/runs/background/result-files.ts, result-watcher.ts, notify.ts).*)
(* The runner publishes payloads under one run id, each through a pending  *)
(* path that is then renamed onto the public one; whoever looks for the    *)
(* payload may do that rename, and it may be denied.  The watcher of the   *)
(* session's process reads the newest payload, keeps a replay of it, sends *)
(* a notice, marks the payload as delivered and retires it.  The runner    *)
(* publishes, and the watcher marks and retires, under the run's file      *)
(* lease (FileLease); lookups never take it.                               *)
(*                                                                         *)
(* A payload is known by its number; outcome[n] is the state it reports.   *)
(* The watcher is synchronous but for the wait for the notifier, so a      *)
(* reload cuts it short only there; a crash can come anywhere.  A removal  *)
(* or the write of an index can be denied, and the payload is there then   *)
(* without its index; crashes and denials are counted as mishaps.          *)
(***************************************************************************)
EXTENDS Naturals

CONSTANTS Interim,      \* outcomes the runner publishes before its last one
          Final,        \* outcomes it may end with
          Deferred,     \* outcomes whose notice waits in the batcher
          MaxPayloads,  \* bound on the payloads of the run
          MaxMishaps,   \* bound on crashes of the session's process and failed writes and removals
          None          \* no payload there

Num == 1..MaxPayloads
Outcome == Interim \cup Final \cup {"failed", "stopped"}
Payload == [n : Num, marked : BOOLEAN]

ASSUME DeliveryConstants ==
    /\ MaxPayloads \in Nat \ {0} /\ MaxMishaps \in Nat
    /\ Deferred \subseteq Final /\ Deferred \cap Interim = {} /\ Deferred \cap {"paused", "failed", "stopped"} = {}
    /\ None \notin Payload \cup Outcome

VARIABLES
    pending,    \* the pending path
    public,     \* the public path
    indexed,    \* are the index entries there?
    replay,     \* the payload the durable replay holds, 0 when none
    lease,      \* who holds the run's lease; "dead" when its owner died
    published,  \* payloads written so far
    outcome,    \* what each of them reports
    rpc,        \* where the runner is
    hpc,        \* where the watcher is
    path,       \* resultPath
    raw,        \* the payload it read
    beside,     \* publicAtRead, then stalePublic
    durable,    \* completionPersisted, and no observer failed
    seen,       \* completionSeen
    told,       \* outcomes the notifier has sent
    queued,     \* payloads whose notice waits in the batcher
    notices,    \* notices sent for each payload
    recorded,   \* payloads that were written with the delivery mark
    mishaps,
    astray      \* history: a stop wrote over a check, or an older payload was left alone

disk == <<pending, public, indexed>>
writers == <<published, outcome, rpc>>
reading == <<path, raw, beside>>
notifier == <<told, queued, notices>>
vars == <<disk, replay, lease, writers, hpc, reading, durable, seen, notifier, recorded, mishaps, astray>>

Locked == {"markPending", "markPublic", "markWrite", "markPromote",
           "checkPending", "checkPublic", "dropPending", "dropPublic", "dropIndex"}
HostPC == {"idle", "retry", "beside", "read", "promote", "beside2", "read2", "record", "decide",
           "deliver", "await", "accepted", "delivered", "mark", "retire"} \cup Locked

TypeOK ==
    /\ pending \in Payload \cup {None} /\ public \in Payload \cup {None}
    /\ indexed \in BOOLEAN
    /\ replay \in 0..MaxPayloads
    /\ published \in 0..MaxPayloads
    /\ outcome \in [Num -> Outcome \cup {None}]
    /\ \A n \in Num : outcome[n] # None <=> n <= published
    /\ rpc \in {"running", "locked", "written", "failing", "relocked", "exited", "dead"}
    /\ hpc \in HostPC
    /\ path \in {"pending", "public"}
    /\ raw \in Payload \cup {None} /\ beside \in Payload \cup {None}
    /\ durable \in BOOLEAN
    /\ seen \subseteq Outcome /\ told \subseteq Outcome
    /\ queued \subseteq 1..published
    /\ notices \in [Num -> 0..(MaxMishaps + 1)]
    /\ recorded \subseteq Num
    /\ mishaps \in 0..MaxMishaps /\ astray \in BOOLEAN
    /\ lease \in {"nobody", "runner", "host", "dead"}
    /\ lease = "host" <=> hpc \in Locked
    /\ lease = "runner" <=> rpc \in {"locked", "written", "relocked"}

Init ==
    /\ pending = None /\ public = None /\ indexed = FALSE
    /\ replay = 0
    /\ lease = "nobody"
    /\ published = 0 /\ outcome = [n \in Num |-> None]
    /\ rpc = "running"
    /\ hpc = "idle" /\ path = "public" /\ raw = None /\ beside = None
    /\ durable = FALSE /\ seen = {} /\ told = {} /\ queued = {}
    /\ notices = [n \in Num |-> 0]
    /\ recorded = {} /\ mishaps = 0 /\ astray = FALSE

-----------------------------------------------------------------------------
(* Files *)

(* One more thing has gone wrong with the process or the storage. *)
Mishap == mishaps < MaxMishaps /\ mishaps' = mishaps + 1
Storage(ok) == IF ok THEN UNCHANGED mishaps ELSE Mishap

(* writeIndexedPendingResultFile: the index entries, then the payload, which *)
(* is published all the same when the index cannot be written.              *)
WritePending(payload, ok) ==
    /\ indexed' = (ok \/ indexed)
    /\ pending' = payload
    /\ UNCHANGED public
    /\ Storage(ok)

(* promotePendingResultFile, when the rename goes through. *)
Promoted ==
    /\ pending # None
    /\ public' = pending
    /\ pending' = None
    /\ UNCHANGED indexed

(* It finds nothing to rename, or the rename is denied. *)
NotPromoted == UNCHANGED disk

(* Another process looks for the payload; it may have read the index before *)
(* a retirement removed it.                                                 *)
Lookup ==
    /\ Promoted
    /\ UNCHANGED <<replay, lease, writers, hpc, reading, durable, seen, notifier, recorded, mishaps, astray>>

(* Where fs.watch works, an event writes the index of the public payload.   *)
Reindex ==
    /\ public # None /\ indexed' = TRUE
    /\ UNCHANGED <<pending, public, replay, lease, writers, hpc, reading, durable, seen, notifier, recorded, mishaps, astray>>

(* withResultRunLease takes over from an owner that died. *)
Reclaim ==
    /\ lease = "dead" /\ lease' = "nobody"
    /\ UNCHANGED <<disk, replay, writers, hpc, reading, durable, seen, notifier, recorded, mishaps, astray>>

-----------------------------------------------------------------------------
(* The runner *)

RunnerGoto(from, to) == rpc = from /\ rpc' = to
RunnerRest == UNCHANGED <<replay, hpc, reading, durable, seen, notifier, recorded, astray>>

(* publishRunResult. *)
RunnerLock ==
    /\ RunnerGoto("running", "locked") \/ RunnerGoto("failing", "relocked")
    /\ published < MaxPayloads
    /\ lease = "nobody" /\ lease' = "runner"
    /\ UNCHANGED <<disk, published, outcome, mishaps>> /\ RunnerRest

(* The next payload reports o. *)
WriteResult(o, ok) ==
    /\ outcome' = [outcome EXCEPT ![published + 1] = o]
    /\ published' = published + 1
    /\ WritePending([n |-> published + 1, marked |-> FALSE], ok)

(* writeRecoverableStatusResult: what the status says, left for others to    *)
(* promote.                                                                 *)
PublishInterim ==
    /\ RunnerGoto("locked", "running")
    /\ \E o \in Interim, ok \in BOOLEAN : WriteResult(o, ok)
    /\ lease' = "nobody"
    /\ RunnerRest

(* The last result: written, ... *)
PublishFinal ==
    /\ RunnerGoto("locked", "written")
    /\ \E o \in Final : WriteResult(o, TRUE)
    /\ UNCHANGED lease /\ RunnerRest

(* ... promoted if it can be, and the runner leaves. *)
PromoteFinal ==
    /\ RunnerGoto("written", "exited")
    /\ Promoted \/ NotPromoted
    /\ lease' = "nobody"
    /\ UNCHANGED <<published, outcome, mishaps>> /\ RunnerRest

(* Its index cannot be written: the result is there, the write throws, ...   *)
PublishThrows ==
    /\ RunnerGoto("locked", "failing")
    /\ \E o \in Final : WriteResult(o, FALSE)
    /\ lease' = "nobody"
    /\ RunnerRest

(* ... and the status, failed now, is published over it. *)
PublishFailure ==
    /\ RunnerGoto("relocked", "exited")
    /\ \E ok \in BOOLEAN : WriteResult("failed", ok)
    /\ lease' = "nobody"
    /\ RunnerRest

(* It gives up its last publication when the lease stays busy, or dies. *)
RunnerGone ==
    /\ \/ rpc \in {"running", "failing"} /\ rpc' = "exited" /\ UNCHANGED lease
       \/ rpc \notin {"exited", "dead"} /\ rpc' = "dead"
          /\ lease' = IF lease = "runner" THEN "dead" ELSE lease
    /\ UNCHANGED <<disk, published, outcome, mishaps>> /\ RunnerRest

(* writeFailedRepair: a runner that died and left no result.  What is        *)
(* written here and by a stop is promoted by Lookup.                         *)
Repair ==
    /\ rpc = "dead" /\ published = 0
    /\ \E ok \in BOOLEAN : WriteResult("failed", ok)
    /\ UNCHANGED <<lease, rpc>> /\ RunnerRest

-----------------------------------------------------------------------------
(* sealPausedRun: the runner's exit is proved; the paused result is looked   *)
(* up, read if delivery has not removed it, and copied with a new state, its *)
(* delivery mark included.  No lease is taken.  A stop runs in the session's *)
(* own process, between two of the watcher's calls, or in another one, as    *)
(* when a relaunched workflow stops the run it re-attached: there it can     *)
(* come after the watcher's check under the lease.                           *)
Seal ==
    /\ rpc = "exited"
    /\ published \in 1..(MaxPayloads - 1)
    /\ outcome[published] = "paused"
    /\ outcome' = [outcome EXCEPT ![published + 1] = "stopped"]
    /\ published' = published + 1
    /\ LET existing == IF pending # None THEN pending ELSE public
           delivered == existing # None /\ existing.marked
       IN  /\ \E ok \in BOOLEAN : WritePending([n |-> published + 1, marked |-> delivered], ok)
           /\ recorded' = IF delivered THEN recorded \cup {published + 1} ELSE recorded
    /\ astray' = (astray \/ lease = "host")
    /\ UNCHANGED <<replay, lease, rpc, hpc, reading, durable, seen, notifier>>

-----------------------------------------------------------------------------
(* The watcher: handleResult *)

Goto(from, to) == hpc = from /\ hpc' = to
HostRest == UNCHANGED <<writers, mishaps, astray>>

(* Mutant: the lease is not given back on the way out. *)
LeaveHolding(to) ==
    /\ hpc' = to
    /\ path' = "public" /\ raw' = None /\ beside' = None
    /\ durable' = FALSE
    /\ UNCHANGED lease

(* handleResult returns, and has scheduled itself again or not.              *)
Leave(to) ==
    /\ hpc' = to
    /\ path' = "public" /\ raw' = None /\ beside' = None
    /\ durable' = FALSE
    /\ lease' = IF lease = "host" THEN "nobody" ELSE lease

(* It goes on, holding what it holds. *)
Proceed(to) ==
    /\ hpc' = to
    /\ UNCHANGED <<reading, durable, lease>>

(* resultPayloadPath, for a candidate of a scan or a retry: the index leads  *)
(* to the payload and promotes it, else the pending or the public file is it.*)
Locate ==
    /\ hpc' = "beside"
    /\ pending # None \/ public # None
    /\ \/ indexed /\ Promoted /\ path' = "public"
       \/ NotPromoted /\ path' = IF pending # None THEN "pending" ELSE "public"
    /\ UNCHANGED <<replay, lease, raw, beside, durable, seen, notifier, recorded>> /\ HostRest

(* A scan finds what is pending or indexed, a retry knows the run.           *)
Find ==
    /\ hpc = "retry" \/ (hpc = "idle" /\ (pending # None \/ indexed))
    /\ Locate

(* A payload without an index is seen by a scan while the session tracks the *)
(* run, or reported by fs.watch.                                            *)
FindStray == hpc = "idle" /\ pending = None /\ ~indexed /\ Locate

(* A retry finds nothing any more. *)
NothingLeft ==
    /\ Goto("retry", "idle")
    /\ pending = None /\ public = None
    /\ UNCHANGED <<disk, replay, lease, reading, durable, seen, notifier, recorded>> /\ HostRest

(* readPayload: what the public path holds, ... *)
ReadBeside ==
    /\ Goto("beside", "read") \/ Goto("beside2", "read2")
    /\ beside' = public
    /\ UNCHANGED <<disk, replay, lease, path, raw, durable, seen, notifier, recorded>> /\ HostRest

(* ... and then the payload itself. *)
ReadPayload ==
    /\ hpc \in {"read", "read2"}
    /\ LET content == IF path = "pending" THEN pending ELSE public IN
        IF content = None
        THEN Leave("idle")
        ELSE /\ raw' = content
             /\ hpc' = IF hpc = "read" THEN "promote" ELSE "record"
             /\ UNCHANGED <<path, beside, durable, lease>>
    /\ UNCHANGED <<disk, replay, seen, notifier, recorded>> /\ HostRest

(* Its identity is known now: what is pending is promoted once more, and     *)
(* read again from where it is then.                                        *)
PromoteAgain ==
    /\ hpc = "promote"
    /\ IF pending = None
       THEN NotPromoted /\ Proceed("record")
       ELSE /\ hpc' = "beside2"
            /\ \/ Promoted /\ path' = "public"
               \/ NotPromoted /\ path' = "pending"
            /\ UNCHANGED <<raw, beside, durable, lease>>
    /\ UNCHANGED <<replay, seen, notifier, recorded>> /\ HostRest

(* recordWaitCompletion. *)
Record ==
    /\ Goto("record", "decide")
    /\ durable' = TRUE
    /\ replay' = raw.n
    /\ UNCHANGED <<disk, lease, reading, seen, notifier, recorded>> /\ HostRest

(* The replay could not be made durable, or an observer failed. *)
RecordFails ==
    /\ Goto("record", "decide")
    /\ durable' = FALSE
    /\ replay' \in {replay, raw.n}
    /\ UNCHANGED <<disk, lease, reading, seen, notifier, recorded>> /\ HostRest

State == outcome[raw.n]     \* what completionKey tells apart within a run

(* Mutant: the delivery mark in the payload is not looked at. *)
DecideUnmarked ==
    /\ hpc = "decide"
    /\ IF State \in seen
       THEN seen' = seen /\ Proceed("delivered")
       ELSE UNCHANGED seen /\ Proceed("deliver")
    /\ UNCHANGED <<disk, replay, notifier, recorded>> /\ HostRest

(* Has this process delivered the outcome, or some process this payload?     *)
Decide ==
    /\ hpc = "decide"
    /\ IF State \in seen \/ raw.marked
       THEN seen' = seen \cup {State} /\ Proceed("delivered")
       ELSE UNCHANGED seen /\ Proceed("deliver")
    /\ UNCHANGED <<disk, replay, notifier, recorded>> /\ HostRest

(* An entry of completionSeen expires; the watcher is between two calls.     *)
Expire ==
    /\ hpc \in {"idle", "retry"}
    /\ \E o \in seen : seen' = seen \ {o}
    /\ UNCHANGED <<disk, replay, lease, hpc, reading, durable, notifier, recorded>> /\ HostRest

Announce(n) ==
    /\ notices' = [notices EXCEPT ![n] = @ + 1]
    /\ told' = told \cup {outcome[n]}

(* deliver of notify.ts: an outcome it has sent is accepted at once, another *)
(* is sent ...                                                              *)
Deliver ==
    /\ hpc = "deliver"
    /\ State \in told \/ State \notin Deferred
    /\ IF State \in told THEN UNCHANGED <<told, notices>> ELSE Announce(raw.n)
    /\ Proceed("accepted")
    /\ UNCHANGED <<disk, replay, seen, queued, recorded>> /\ HostRest

(* ... or waits in the batcher, joined by what has the same outcome. *)
Defer ==
    /\ hpc = "deliver"
    /\ State \in Deferred \ told
    /\ queued' = IF \E n \in queued : outcome[n] = State THEN queued ELSE queued \cup {raw.n}
    /\ Proceed("await")
    /\ UNCHANGED <<disk, replay, seen, told, notices, recorded>> /\ HostRest

(* The batch is sent; a watcher that waits for it goes on. *)
Send ==
    /\ \E n \in queued :
        /\ Announce(n)
        /\ queued' = queued \ {n}
        /\ hpc' = IF hpc = "await" /\ State = outcome[n] THEN "accepted" ELSE hpc
    /\ UNCHANGED <<disk, replay, lease, reading, durable, seen, recorded>> /\ HostRest

(* The session did not take the notice: not accepted. *)
Refused ==
    /\ \/ hpc = "deliver" /\ UNCHANGED queued
       \/ hpc = "await" /\ queued' = {}
    /\ State \notin told
    /\ Leave("retry")
    /\ UNCHANGED <<disk, replay, seen, told, notices, recorded>> /\ HostRest

(* stopResultWatcher, transitionResultDelivery: the call that waits owns     *)
(* nothing any more, retries are dropped; the notice stays in the batcher.   *)
Transition ==
    /\ hpc \in {"await", "retry"}
    /\ Leave("idle")
    /\ UNCHANGED <<disk, replay, seen, notifier, recorded>> /\ HostRest

(* readByConsumer: a payload the watcher has read, or the older one it saw   *)
(* on the public path.                                                      *)
ReadPending == pending \in {None, raw}
ReadPublic == public \in {None, raw, beside}

(* markReplacedPayload: the first look, without the lease. *)
Verify ==
    /\ hpc \in {"accepted", "delivered"}
    /\ IF ~ReadPending \/ ~ReadPublic THEN Leave("retry")
       ELSE IF hpc = "accepted" THEN Proceed("mark")
       ELSE IF durable THEN Proceed("retire") ELSE Leave("retry")
    /\ UNCHANGED <<disk, replay, seen, notifier, recorded>> /\ HostRest

(* withResultRunLease, by markDeliveredNotification and retireResultSnapshot.*)
Lock ==
    /\ Goto("mark", "markPending") \/ Goto("retire", "checkPending")
    /\ lease = "nobody" /\ lease' = "host"
    /\ UNCHANGED <<disk, replay, reading, durable, seen, notifier, recorded>> /\ HostRest

Busy ==
    /\ hpc \in {"mark", "retire"}
    /\ lease # "nobody"
    /\ Leave("retry")
    /\ UNCHANGED <<disk, replay, seen, notifier, recorded>> /\ HostRest

(* Mutant: only the public path is compared. *)
CheckPendingNot ==
    /\ hpc \in {"markPending", "checkPending"}
    /\ Proceed(IF hpc = "markPending" THEN "markPublic" ELSE "checkPublic")
    /\ UNCHANGED <<disk, replay, seen, notifier, recorded>> /\ HostRest

(* resultSnapshotReplaced, under the lease: the pending path first, ... *)
CheckPending ==
    /\ hpc \in {"markPending", "checkPending"}
    /\ IF ReadPending
       THEN Proceed(IF hpc = "markPending" THEN "markPublic" ELSE "checkPublic")
       ELSE Leave("retry")
    /\ UNCHANGED <<disk, replay, seen, notifier, recorded>> /\ HostRest

(* Mutant: the older payload that promotion could not replace counts as a    *)
(* newer one.                                                               *)
CheckPublicOnly ==
    /\ hpc \in {"markPublic", "checkPublic"}
    /\ IF public \in {None, raw}
       THEN Proceed(IF hpc = "markPublic" THEN "markWrite" ELSE "dropPending")
       ELSE Leave("retry")
    /\ UNCHANGED <<disk, replay, seen, notifier, recorded>> /\ HostRest

(* ... then the public one, where a lookup may have moved it meanwhile. *)
CheckPublic ==
    /\ hpc \in {"markPublic", "checkPublic"}
    /\ IF ReadPublic
       THEN Proceed(IF hpc = "markPublic" THEN "markWrite" ELSE "dropPending")
       ELSE Leave("retry")
    /\ UNCHANGED <<disk, replay, seen, notifier, recorded>> /\ HostRest

(* The payload is written again with the mark, ... *)
MarkWrite ==
    /\ Goto("markWrite", "markPromote")
    /\ WritePending([raw EXCEPT !.marked = TRUE], TRUE)
    /\ raw' = [raw EXCEPT !.marked = TRUE]
    /\ recorded' = recorded \cup {raw.n}
    /\ UNCHANGED <<replay, lease, path, beside, durable, seen, notifier>> /\ HostRest

(* ... or the write throws, with the payload in place or without; ... *)
MarkFails ==
    /\ hpc = "markWrite"
    /\ \/ WritePending([raw EXCEPT !.marked = TRUE], FALSE) /\ recorded' = recorded \cup {raw.n}
       \/ UNCHANGED <<disk, recorded>> /\ Mishap
    /\ Leave("retry")
    /\ UNCHANGED <<replay, seen, notifier, writers, astray>>

(* ... and promoted, or beside what the public path goes on holding. *)
MarkPromote ==
    /\ hpc = "markPromote"
    /\ \/ Promoted /\ beside' = None
       \/ NotPromoted /\ beside' = public
    /\ seen' = seen \cup {State}
    /\ lease' = "nobody"
    /\ IF durable THEN hpc' = "retire" /\ UNCHANGED <<path, raw, durable>>
       ELSE hpc' = "retry" /\ path' = "public" /\ raw' = None /\ durable' = FALSE
    /\ UNCHANGED <<replay, notifier, recorded>> /\ HostRest

(* retireResultSnapshot: what was read goes, path by path; a removal that is *)
(* denied does not keep it from the next one, ...                           *)
DropPending ==
    /\ hpc = "dropPending"
    /\ \E ok \in BOOLEAN :
        /\ Storage(ok) /\ (ok \/ pending = raw)
        /\ pending' = IF ok /\ pending = raw THEN None ELSE pending
    /\ UNCHANGED <<public, indexed>>
    /\ Proceed("dropPublic")
    /\ UNCHANGED <<replay, seen, notifier, recorded, writers, astray>>

ReadLeft == public # None /\ ReadPublic

DropPublic ==
    /\ hpc = "dropPublic"
    /\ \E ok \in BOOLEAN :
        /\ Storage(ok) /\ (ok \/ ReadLeft)
        /\ public' = IF ok /\ ReadLeft THEN None ELSE public
        /\ astray' = (astray \/ (~ok /\ public # raw))
    /\ UNCHANGED <<pending, indexed>>
    /\ Proceed("dropIndex")
    /\ UNCHANGED <<replay, seen, notifier, recorded, writers>>

(* ... removeResultIndex tries the pending path too, whatever it holds, and  *)
(* a payload that was not removed is tried again.                            *)
DropIndex ==
    /\ hpc = "dropIndex"
    /\ indexed' \in {FALSE, indexed} /\ pending' \in {None, pending}
    /\ UNCHANGED public
    /\ Leave(IF pending = raw \/ ReadLeft THEN "retry" ELSE "idle")
    /\ UNCHANGED <<replay, seen, notifier, recorded>> /\ HostRest

(* What is left of a retirement is an older payload alone. *)
HalfRetired == hpc = "dropPublic" /\ public \notin {None, raw}

(* The process dies and comes back: its memory is lost. *)
Crash ==
    /\ Mishap
    /\ astray' = (astray \/ HalfRetired)
    /\ hpc' = "idle" /\ path' = "public" /\ raw' = None /\ beside' = None
    /\ durable' = FALSE /\ seen' = {} /\ told' = {} /\ queued' = {}
    /\ lease' = IF lease = "host" THEN "dead" ELSE lease
    /\ UNCHANGED <<disk, replay, writers, notices, recorded>>

-----------------------------------------------------------------------------
Runner == RunnerLock \/ PublishInterim \/ PublishFinal \/ PromoteFinal \/ PublishThrows \/ PublishFailure \/ Repair
Reading == Find \/ NothingLeft \/ ReadBeside \/ ReadPayload \/ PromoteAgain
Mark == MarkWrite \/ MarkPromote
Retire == DropPending \/ DropPublic \/ DropIndex
Handle == Reading \/ Record \/ Decide \/ Verify \/ Lock \/ CheckPending \/ CheckPublic \/ Mark \/ Retire
Notify == Deliver \/ Defer \/ Send
Trouble == RecordFails \/ MarkFails \/ Refused \/ Transition \/ Busy \/ Expire \/ Crash \/ RunnerGone

Next == Runner \/ Seal \/ Lookup \/ Reindex \/ FindStray \/ Reclaim \/ Handle \/ Notify \/ Trouble

Spec == Init /\ [][Next]_vars

(* The watcher retries and scans for as long as it has something to deliver; *)
(* a replay and a notice that are tried again and again succeed at last.     *)
(* A runner that holds the lease goes on.                                   *)
FairSpec ==
    /\ Spec
    /\ WF_vars(Handle) /\ WF_vars(Reclaim)
    /\ WF_vars(PublishInterim \/ PublishFinal \/ PromoteFinal \/ PublishFailure)
    /\ SF_vars(Record) /\ SF_vars(Deliver) /\ SF_vars(Defer) /\ SF_vars(Send)
-----------------------------------------------------------------------------
OnDisk(n) == \E payload \in {pending, public} \ {None} : payload.n = n
Announced(o) == \E n \in 1..published : outcome[n] = o /\ notices[n] > 0

(* "A consumer leaves alone any result written after it read the run"        *)
(* (CHANGELOG.md): the newest payload is on disk until its outcome has been  *)
(* announced and the replay holds that payload.  A stopped result that       *)
(* inherits the mark of the paused one counts as delivered.                  *)
Delivered(n) == Announced(outcome[n]) \/ n \in recorded
NewestKept ==
    published = 0 \/ OnDisk(published) \/ (Delivered(published) /\ replay = published)

(* It is kept through denied renames, removals and index writes, and through *)
(* crashes, unless a stop came between the watcher's check and its write, or *)
(* an older payload was left alone on the public path.                       *)
NewestKeptOrAstray == astray \/ NewestKept

(* A payload whose delivery mark was written is not announced again, by this *)
(* process or after a crash, and the notifier is handed none older than one  *)
(* already announced, unless it was left alone on the public path.           *)
Handed(n) == \/ notices'[n] > notices[n] /\ n \notin queued
             \/ n \in queued' \ queued
AnnouncedOnce ==
    [][~astray => \A n \in Num :
        /\ notices'[n] > notices[n] => n \notin recorded
        /\ Handed(n) => \A m \in Num : notices[m] > 0 => m <= n]_vars

(* What the runner has published last is announced, kept for bg_wait and     *)
(* removed, whatever is denied on the way: or a crash or a session change    *)
(* leaves a payload without an index where only fs.watch or the run's job    *)
(* finds it, which takes a mishap.                                           *)
Settled ==
    /\ pending = None /\ public = None
    /\ replay = published /\ Delivered(published)
Unfindable == hpc = "idle" /\ pending = None /\ public # None /\ ~indexed
EventuallySettled ==
    \A n \in Num : published = n ~>
        published # n \/ Settled \/ astray \/ (Unfindable /\ mishaps > 0)
=============================================================================
