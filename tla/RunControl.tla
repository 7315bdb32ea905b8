----------------------------- MODULE RunControl -----------------------------
(***************************************************************************)
(* How a background run is stopped, interrupted, timed out and steered:    *)
(* other processes put request files in the control inbox of the run       *)
(* (src/src/runs/background/control-channel.ts), the runner polls them,    *)
(* and at its end closes the inbox, drains it once more and publishes its  *)
(* outcome (subagent-runner.ts); a stop of a run that has ended as paused  *)
(* seals it instead (src/src/runs/foreground/async-stop-action.ts).        *)
(*                                                                         *)
(* The runner is one JavaScript thread: what it does between two awaits is *)
(* split only at the file-system calls other processes can see.            *)
(***************************************************************************)
EXTENDS Naturals, FiniteSets

CONSTANTS Stopper,       \* processes that call the stop action
          Steerer,       \* processes that steer, once each
          MaxCalls,      \* bound: stops one process requests while the runner may read them
          Faults,        \* what may go wrong, of Fault
          MaxFaults      \* bound: how many kinds of it in one run

(* What the code lets go wrong and answers with a log entry at most:         *)
(* "close": closeStopInbox fails; "drain": the last read of the stop inbox  *)
(* leaves a file; "steerClose": the marker of the steering inbox is written *)
(* late; "steerDrain": the last read of that inbox leaves a file; "group":  *)
(* a dynamic group fails after the run was interrupted; "disowned": a run   *)
(* whose process still looks alive is given up after 24 hours; "lateProof": *)
(* the exit proof appears in the middle of a stop call.                     *)
Fault == {"close", "drain", "steerClose", "steerDrain", "group", "disowned", "lateProof"}

Req == Stopper \X (1..MaxCalls)      \* one request file each

ASSUME ControlConstants ==
    /\ MaxCalls \in Nat \ {0}
    /\ Faults \subseteq Fault

VARIABLES
    \* files
    stopFiles,      \* control/stop-requests
    closed,         \* the markers: stop-inbox-closed.json, steer-inbox-closed.json
    asked,          \* interrupt and timeout request files
    status,         \* status.json: state
    result,         \* the state of the last result file published
    proof,          \* process-terminal.json
    \* the runner
    rpc,            \* where it is
    st,             \* statusPayload.state
    flags,          \* of interrupted, stopped, timedOut, usageBudgetExceeded; "broken"
                    \* when a dynamic group has failed the run
    owes,           \* the files it still has to write for what it did: result, status
    work,           \* what the results of the steps amount to
    handled,        \* stop requests it has acted on
    steer,          \* every steering request: its file, then its lifecycle
    \* the callers
    spc, seen, calls,
    persisted,      \* stop requests whose requestAsyncStop has returned
    tpc,            \* where each steering caller is
    \* history
    final,          \* the result is the last word of the runner, or on a dead one
    faults          \* what has gone wrong

files == <<stopFiles, closed, asked>>
outcome == <<status, result, proof>>
told == <<final, faults>>
stopping == <<spc, seen, calls, persisted>>
callers == <<stopping, tpc>>
vars == <<files, outcome, rpc, st, flags, owes, work, handled, steer, callers, told>>

Ended == {"complete", "partial", "failed", "stopped"}
State == {"running", "paused"} \cup Ended
Scan == {"timeout", "interrupt", "steer"}
Teardown == {"close", "drain", "settle", "closeSteer", "drainSteer", "publish", "leaving"}
Gone == {"exited", "crashed"}
Drained == (Teardown \ {"close", "drain"}) \cup {"exited"}

TypeOK ==
    /\ stopFiles \subseteq Req /\ handled \subseteq Req /\ persisted \subseteq Req
    /\ closed \subseteq {"stop", "steer"}
    /\ asked \subseteq {"interrupt", "timeout"}
    /\ status \in State /\ st \in State
    /\ result \in State \cup {"none"}
    /\ proof \in {"pending", "observed", "unknown"}
    /\ rpc \in {"live"} \cup Scan \cup Teardown \cup Gone
    /\ flags \subseteq {"interrupted", "stopped", "timedOut", "exhausted", "broken"}
    /\ owes \subseteq {"result", "status"}
    /\ work \in {"none", "killed"} \cup (Ended \ {"stopped"})
    /\ steer \in [Steerer -> {"none", "filed", "routed", "delivered", "failed"}]
    /\ tpc \in [Steerer -> {"idle", "write", "recheck", "accepted", "refused"}]
    /\ spc \in [Stopper -> {"idle", "check", "request", "write", "recheck", "seal", "sealStatus"}]
    /\ seen \in [Stopper -> State]
    /\ calls \in [Stopper -> 0..MaxCalls]
    /\ final \in BOOLEAN /\ faults \subseteq Faults

Init ==
    /\ stopFiles = {} /\ handled = {} /\ persisted = {} /\ flags = {} /\ owes = {}
    /\ closed = {} /\ asked = {}
    /\ status = "running" /\ st = "running" /\ result = "none" /\ proof = "pending"
    /\ rpc = "live" /\ work = "none"
    /\ steer = [s \in Steerer |-> "none"] /\ tpc = [s \in Steerer |-> "idle"]
    /\ spc = [s \in Stopper |-> "idle"]
    /\ seen = [s \in Stopper |-> "running"]
    /\ calls = [s \in Stopper |-> 0]
    /\ final = FALSE /\ faults = {}

(* Its writes are synchronous: nothing else runs while it owes one. *)
Runner(from, to) == rpc = from /\ owes = {} /\ rpc' = to

(* A step that is a fault of the kind f, or none when ok. *)
Unless(ok, f) ==
    IF ok THEN UNCHANGED faults
    ELSE /\ f \in Faults
         /\ faults' = faults \cup {f}
         /\ Cardinality(faults') <= MaxFaults
-----------------------------------------------------------------------------
(* What the runner writes besides its markers *)

(* writeStatusPayload: the status, and before it a result that says the same *)
(* when the run no longer counts as running (writeRecoverableStatusResult). *)
(* A handler returns when both are written or given up.                     *)
Owe(state) == owes' = {"status"} \cup (IF state = "running" THEN {} ELSE {"result"})

(* Once the runner leaves, no other result of its follows. *)
ShowResult ==
    /\ "result" \in owes
    /\ result' = st
    /\ owes' = owes \ {"result"}
    /\ final' = (final \/ rpc = "leaving")
    /\ UNCHANGED <<files, status, proof, rpc, st, flags, work, handled, steer, callers, faults>>

(* A runner that leaves may find room on the disk for the status first. *)
ShowStatus ==
    /\ "status" \in owes
    /\ "result" \notin owes \/ rpc = "leaving"
    /\ status' = st
    /\ owes' = owes \ {"status"}
    /\ UNCHANGED <<files, result, proof, rpc, st, flags, work, handled, steer, callers, told>>

(* A write that finds no room is left to a timer, and the inbox watcher      *)
(* survives one that throws.                                                *)
Defer ==
    /\ owes # {} /\ rpc # "leaving"
    /\ \E f \in owes : owes' = owes \ {f}
    /\ UNCHANGED <<files, outcome, rpc, st, flags, work, handled, steer, callers, told>>

(* What was deferred, and the progress of the children, which is shown the   *)
(* same way; what is left of it is shown before the run is settled.         *)
Refresh ==
    /\ rpc \in {"live", "settle"} /\ owes = {}
    /\ Owe(st)
    /\ UNCHANGED <<files, outcome, rpc, st, flags, work, handled, steer, callers, told>>

-----------------------------------------------------------------------------
(* The runner's handlers *)

(* stopRunner, for a whole-run request. *)
StopRunner ==
    IF st \in {"running", "paused"} /\ flags \cap {"stopped", "timedOut"} = {}
    THEN flags' = (flags \ {"interrupted"}) \cup {"stopped"} /\ Owe(st)
    ELSE UNCHANGED <<flags, owes>>

(* Mutant: a stop takes the place of an interruption and is not noted. *)
HandleStopsUnmarked(reqs) ==
    /\ stopFiles' = stopFiles \ reqs
    /\ handled' = handled \cup reqs
    /\ flags' = IF reqs = {} THEN flags ELSE flags \ {"interrupted"}
    /\ UNCHANGED owes

(* consumeStopRequestPayloads: each file is read, removed, then acted on; one *)
(* that cannot be read or removed is left.                                  *)
HandleStops(reqs) ==
    /\ stopFiles' = stopFiles \ reqs
    /\ handled' = handled \cup reqs
    /\ IF reqs = {} THEN UNCHANGED <<flags, owes>> ELSE StopRunner

(* interruptRunner: it looks at the state, not at a stop or a timeout that   *)
(* has been noted, and shows the run as paused while it still goes on.      *)
InterruptRunner ==
    IF "interrupted" \notin flags /\ st = "running"
    THEN flags' = flags \cup {"interrupted"} /\ st' = "paused" /\ Owe("paused")
    ELSE UNCHANGED <<flags, st, owes>>

TimeoutRunner ==
    IF st = "running" /\ flags \cap {"timedOut", "stopped", "interrupted"} = {}
    THEN flags' = flags \cup {"timedOut"} /\ Owe(st)
    ELSE UNCHANGED <<flags, owes>>

(* deliverSteerRequest for the requests that were read. *)
HandleSteers(read) ==
    /\ steer' = [s \in Steerer |->
                   IF s \notin read THEN steer[s]
                   ELSE IF st = "running" THEN "routed" ELSE "failed"]
    /\ IF read = {} THEN UNCHANGED owes ELSE Owe(st)

Filed == {s \in Steerer : steer[s] = "filed"}

(* One check of watchAsyncControlInbox: stop, timeout, interrupt, steer. *)
ScanStops ==
    /\ Runner("live", "timeout")
    /\ \E reqs \in SUBSET stopFiles : HandleStops(reqs)
    /\ UNCHANGED <<closed, asked, outcome, st, work, steer, callers, told>>

ScanTimeout ==
    /\ Runner("timeout", "interrupt")
    /\ asked' = asked \ {"timeout"}
    /\ IF "timeout" \in asked THEN TimeoutRunner ELSE UNCHANGED <<flags, owes>>
    /\ UNCHANGED <<stopFiles, closed, outcome, st, work, handled, steer, callers, told>>

ScanInterrupt ==
    /\ Runner("interrupt", "steer")
    /\ asked' = asked \ {"interrupt"}
    /\ IF "interrupt" \in asked THEN InterruptRunner ELSE UNCHANGED <<flags, st, owes>>
    /\ UNCHANGED <<stopFiles, closed, outcome, work, handled, steer, callers, told>>

ScanSteers ==
    /\ Runner("steer", "live")
    /\ \E read \in SUBSET Filed : HandleSteers(read)
    /\ UNCHANGED <<files, outcome, st, flags, work, handled, callers, told>>

(* The interrupt signal and the deadline timer run between two checks. *)
Signal ==
    /\ rpc = "live" /\ owes = {}
    /\ asked' = asked \ {"interrupt"}
    /\ InterruptRunner
    /\ UNCHANGED <<stopFiles, closed, outcome, rpc, work, handled, steer, callers, told>>

Deadline ==
    /\ rpc = "live" /\ owes = {}
    /\ TimeoutRunner
    /\ UNCHANGED <<files, outcome, rpc, st, work, handled, steer, callers, told>>

(* A child confirms a steering message, or is found to have ended. *)
ChildAnswers(s) ==
    /\ rpc = "live" /\ owes = {} /\ steer[s] = "routed"
    /\ \E a \in {"delivered", "failed"} : steer' = [steer EXCEPT ![s] = a]
    /\ UNCHANGED <<files, outcome, rpc, st, flags, owes, work, handled, callers, told>>

(* The main loop, before it launches the next step. *)
ExhaustUsage ==
    /\ rpc = "live" /\ owes = {} /\ flags = {} /\ st = "running"
    /\ flags' = {"exhausted"} /\ st' = "failed" /\ Owe("failed")
    /\ UNCHANGED <<files, outcome, rpc, work, handled, steer, callers, told>>

(* A dynamic group cannot be expanded, or the acceptance of an empty one     *)
(* fails: the loop is left with the run failed, or stopped.  The acceptance *)
(* is awaited, so that the other handlers may have run meanwhile.           *)
FailGroup ==
    /\ rpc = "live" /\ owes = {} /\ flags \cap {"exhausted", "broken"} = {}
    /\ flags' = flags \cup {"broken"}
    /\ st' \in {"failed"} \cup (IF "stopped" \in flags THEN {"stopped"} ELSE {})
    /\ Owe(st')
    /\ Unless("interrupted" \notin flags, "group")
    /\ UNCHANGED <<files, outcome, rpc, work, handled, steer, callers, final>>

-----------------------------------------------------------------------------
(* The end of the run *)

(* The steps have ended, by themselves or because the loop was left: no      *)
(* more timers and scans.                                                   *)
EndWork ==
    /\ Runner("live", "close")
    /\ work' \in {"failed", "killed"} \cup
                 (IF "broken" \in flags THEN {} ELSE {"complete", "partial"})
    /\ flags' \in {flags} \cup (IF flags \cap {"stopped", "interrupted"} = {}
                                THEN {flags \cup {"timedOut"}} ELSE {})
    /\ UNCHANGED <<files, outcome, st, owes, handled, steer, callers, told>>

(* closeStopInbox; a failure is only logged. *)
CloseStopInbox ==
    /\ Runner("close", "drain")
    /\ closed' \in {closed, closed \cup {"stop"}}
    /\ Unless("stop" \in closed', "close")
    /\ UNCHANGED <<stopFiles, asked, outcome, st, flags, owes, work, handled, steer, callers,
                   final>>

(* The last consumeStopRequestPayloads has no error handler. *)
DrainStops ==
    /\ Runner("drain", "settle")
    /\ \E reqs \in SUBSET stopFiles : HandleStops(reqs) /\ Unless(reqs = stopFiles, "drain")
    /\ UNCHANGED <<closed, asked, outcome, st, work, steer, callers, final>>

SignalTerminated == work = "killed" /\ flags \cap {"stopped", "timedOut", "interrupted"} = {}

(* Mutant: an interruption is the last word. *)
FinalStatePausedFirst ==
    IF "interrupted" \in flags THEN "paused"
    ELSE IF "stopped" \in flags \/ SignalTerminated THEN "stopped"
    ELSE IF flags \cap {"timedOut", "exhausted"} # {} THEN "failed"
    ELSE work

(* Mutant: the end of a child by a signal is not looked at. *)
FinalStateRaw ==
    IF "stopped" \in flags THEN "stopped"
    ELSE IF flags \cap {"timedOut", "exhausted"} # {} THEN "failed"
    ELSE IF "interrupted" \in flags THEN "paused"
    ELSE work

(* The state that is published. *)
FinalState ==
    IF "stopped" \in flags \/ SignalTerminated THEN "stopped"
    ELSE IF flags \cap {"timedOut", "exhausted"} # {} THEN "failed"
    ELSE IF "interrupted" \in flags THEN "paused"
    ELSE work

(* From here on only the final result and then the status are written. *)
Settle ==
    /\ Runner("settle", "closeSteer")
    /\ st' = FinalState
    /\ UNCHANGED <<files, outcome, flags, owes, work, handled, steer, callers, told>>

(* closeSteerInbox: without room on the disk the write is only scheduled ... *)
CloseSteerInbox ==
    /\ Runner("closeSteer", "drainSteer")
    /\ closed' \in {closed, closed \cup {"steer"}}
    /\ Unless("steer" \in closed', "steerClose")
    /\ UNCHANGED <<stopFiles, asked, outcome, st, flags, owes, work, handled, steer, callers,
                   final>>

(* Mutant: the inbox is not read again once it is closed. *)
DrainSteersNot ==
    /\ Runner("drainSteer", "publish")
    /\ steer' = [s \in Steerer |-> IF steer[s] = "routed" THEN "failed" ELSE steer[s]]
    /\ UNCHANGED <<files, outcome, st, flags, owes, work, handled, callers, told>>

(* What is left in the inbox fails, and so does what no child has confirmed; *)
(* a request that cannot be read or removed is left, without a word.        *)
DrainSteers ==
    /\ Runner("drainSteer", "publish")
    /\ \E read \in SUBSET Filed :
          /\ steer' = [s \in Steerer |->
                         IF s \in read \/ steer[s] = "routed" THEN "failed" ELSE steer[s]]
          /\ Unless(read = Filed, "steerDrain")
    /\ UNCHANGED <<files, outcome, st, flags, owes, work, handled, callers, final>>

(* writeAsyncResultFile; when it throws, with the result published and not   *)
(* indexed or not published at all, the run has failed and says so instead. *)
Publish ==
    /\ Runner("publish", "leaving")
    /\ \/ /\ result' = st /\ final' = TRUE
          /\ owes' = {"status"}
          /\ UNCHANGED st
       \/ /\ result' \in {result, st}
          /\ st' = "failed"
          /\ owes' = {"result", "status"}
          /\ UNCHANGED final
    /\ UNCHANGED <<files, status, proof, flags, work, handled, steer, callers, faults>>

(* ... and tried again until it succeeds; the runner waits for that, leaves  *)
(* its process-terminal candidate and exits.                                *)
CloseSteerLate ==
    /\ rpc \in {"drainSteer", "publish", "leaving"}
    /\ "steer" \notin closed
    /\ closed' = closed \cup {"steer"}
    /\ UNCHANGED <<stopFiles, asked, outcome, rpc, st, flags, owes, work, handled, steer,
                   callers, told>>

Exit ==
    /\ Runner("leaving", "exited")
    /\ "steer" \in closed
    /\ UNCHANGED <<files, outcome, st, flags, owes, work, handled, steer, callers, told>>

(* Killed, or ended by an error nobody catches: what it owed is not written. *)
Crash ==
    /\ rpc \notin Gone
    /\ rpc' = "crashed" /\ owes' = {}
    /\ UNCHANGED <<files, outcome, st, flags, work, handled, steer, callers, told>>

(* finalizeProcessTerminal, in the process that launched the runner: only a  *)
(* runner that reached its end leaves a candidate.                          *)
ObserveExit ==
    /\ proof = "pending" /\ rpc \in Gone
    /\ proof' = IF rpc = "exited" THEN "observed" ELSE "unknown"
    /\ Unless(\A s \in Stopper : spc[s] = "idle", "lateProof")
    /\ UNCHANGED <<files, status, result, rpc, st, flags, owes, work, handled, steer,
                   callers, final>>

Scanning == ScanStops \/ ScanTimeout \/ ScanInterrupt \/ ScanSteers

Showing == ShowResult \/ ShowStatus \/ Defer \/ Refresh

Ending ==
    \/ CloseStopInbox \/ DrainStops \/ Settle
    \/ CloseSteerInbox \/ DrainSteers \/ Publish
    \/ CloseSteerLate \/ Exit

-----------------------------------------------------------------------------
(* stopAsyncRun: a synchronous call of the process s *)

Stop(s, from, to) ==
    /\ spc[s] = from
    /\ spc' = [spc EXCEPT ![s] = to]

(* reconcileAsyncRun repairs a status that says running: from the result     *)
(* file if there is one, else as failed if the runner's process is gone, or *)
(* if it has shown nothing for 24 hours.                                    *)
Repair ==
    \/ /\ status = "running" /\ result # "none"
       /\ status' = result
       /\ UNCHANGED <<result, told>>
    \/ /\ status = "running" /\ result = "none" /\ rpc = "crashed"
       /\ status' = "failed" /\ result' = "failed" /\ final' = TRUE
       /\ UNCHANGED faults
    \/ /\ status = "running" /\ result = "none" /\ rpc \notin Gone
       /\ status' = "failed" /\ result' = "failed"
       /\ Unless(FALSE, "disowned")
       /\ UNCHANGED final
    \/ /\ status # "running" \/ (result = "none" /\ rpc # "crashed")
       /\ UNCHANGED <<status, result, told>>

(* Only a running or paused run can be stopped. *)
Look(s) ==
    /\ calls[s] < MaxCalls \/ "stop" \in closed \/ rpc \in Gone
    /\ Repair
    /\ seen' = [seen EXCEPT ![s] = status']
    /\ Stop(s, "idle", IF status' \in {"running", "paused"} THEN "check" ELSE "idle")
    /\ UNCHANGED <<files, proof, rpc, st, flags, owes, work, handled, steer, calls,
                   persisted, tpc>>

(* Mutant: every stop goes through the inbox. *)
CheckPausedNot(s) ==
    /\ Stop(s, "check", "request")
    /\ UNCHANGED <<files, outcome, rpc, st, flags, owes, work, handled, steer, seen, calls,
                   persisted, tpc, told>>

(* deliverAsyncRunStop: a paused run with a closed inbox is only sealed. *)
CheckPaused(s) ==
    /\ Stop(s, "check", IF seen[s] = "paused" /\ "stop" \in closed THEN "seal" ELSE "request")
    /\ UNCHANGED <<files, outcome, rpc, st, flags, owes, work, handled, steer, seen, calls,
                   persisted, tpc, told>>

(* requestAsyncStop: the inbox is looked at before the request is written ...*)
Request(s) ==
    /\ Stop(s, "request", IF "stop" \in closed THEN "idle" ELSE "write")
    /\ UNCHANGED <<files, outcome, rpc, st, flags, owes, work, handled, steer, seen, calls,
                   persisted, tpc, told>>

Write(s) ==
    /\ Stop(s, "write", "recheck")
    /\ calls' = [calls EXCEPT ![s] = IF @ < MaxCalls THEN @ + 1 ELSE @]
    /\ stopFiles' = stopFiles \cup {<<s, calls'[s]>>}
    /\ UNCHANGED <<closed, asked, outcome, rpc, st, flags, owes, work, handled, steer,
                   seen, persisted, tpc, told>>

(* Mutant: the inbox is not looked at again after the write. *)
RecheckNot(s) ==
    /\ Stop(s, "recheck", IF seen[s] = "paused" THEN "seal" ELSE "idle")
    /\ persisted' = persisted \cup {<<s, calls[s]>>}
    /\ UNCHANGED <<files, outcome, rpc, st, flags, owes, work, handled, steer, seen, calls,
                   tpc, told>>

(* ... and again after it: a request that came too late is taken back.       *)
Recheck(s) ==
    /\ \/ /\ "stop" \in closed
          /\ Stop(s, "recheck", "idle")
          /\ stopFiles' = stopFiles \ {<<s, calls[s]>>}
          /\ UNCHANGED persisted
       \/ /\ "stop" \notin closed
          /\ Stop(s, "recheck", IF seen[s] = "paused" THEN "seal" ELSE "idle")
          /\ persisted' = persisted \cup {<<s, calls[s]>>}
          /\ UNCHANGED stopFiles
    /\ UNCHANGED <<closed, asked, outcome, rpc, st, flags, owes, work, handled, steer,
                   seen, calls, tpc, told>>

(* Mutant: a runner whose exit is not proved is taken for gone. *)
SealUnproved(s) ==
    /\ Stop(s, "seal", "sealStatus")
    /\ result' = "stopped"
    /\ UNCHANGED <<files, status, proof, rpc, st, flags, owes, work, handled, steer, seen, calls,
                   persisted, tpc, told>>

(* sealPausedRun: with the observed exit of the runner the stopped result    *)
(* and then the status are written; without it the caller is told to try    *)
(* again.                                                                   *)
Seal(s) ==
    /\ \/ proof = "observed" /\ Stop(s, "seal", "sealStatus") /\ result' = "stopped"
       \/ proof # "observed" /\ Stop(s, "seal", "idle") /\ UNCHANGED result
    /\ UNCHANGED <<files, status, proof, rpc, st, flags, owes, work, handled, steer, seen, calls,
                   persisted, tpc, told>>

SealStatus(s) ==
    /\ Stop(s, "sealStatus", "idle")
    /\ status' = "stopped"
    /\ UNCHANGED <<files, result, proof, rpc, st, flags, owes, work, handled, steer, seen, calls,
                   persisted, tpc, told>>

Stopping(s) ==
    \/ Look(s) \/ CheckPaused(s) \/ Request(s) \/ Write(s) \/ Recheck(s)
    \/ Seal(s) \/ SealStatus(s)

-----------------------------------------------------------------------------
(* The other requests *)

Interrupt ==
    /\ status = "running" /\ "interrupt" \notin asked
    /\ asked' = asked \cup {"interrupt"}
    /\ UNCHANGED <<stopFiles, closed, outcome, rpc, st, flags, owes, work, handled, steer,
                   callers, told>>

TimeOut ==
    /\ status = "running" /\ "timeout" \notin asked
    /\ asked' = asked \cup {"timeout"}
    /\ UNCHANGED <<stopFiles, closed, outcome, rpc, st, flags, owes, work, handled, steer,
                   callers, told>>

(* requestAsyncSteer, in the same three steps as requestAsyncStop. *)
Steer(s, from, to) ==
    /\ tpc[s] = from
    /\ tpc' = [tpc EXCEPT ![s] = to]
    /\ UNCHANGED <<files, outcome, rpc, st, flags, owes, work, handled, stopping, told>>

Steering(s) ==
    \/ Steer(s, "idle", IF "steer" \in closed THEN "refused" ELSE "write") /\ UNCHANGED steer
    \/ Steer(s, "write", "recheck") /\ steer' = [steer EXCEPT ![s] = "filed"]
    \/ /\ Steer(s, "recheck", IF "steer" \in closed THEN "refused" ELSE "accepted")
       /\ steer' = IF "steer" \in closed /\ steer[s] = "filed"
                   THEN [steer EXCEPT ![s] = "none"] ELSE steer

Next ==
    \/ Scanning \/ Showing \/ Signal \/ Deadline \/ ExhaustUsage \/ FailGroup
    \/ \E s \in Steerer : ChildAnswers(s) \/ Steering(s)
    \/ EndWork \/ Ending \/ Crash \/ ObserveExit
    \/ \E s \in Stopper : Stopping(s)
    \/ Interrupt \/ TimeOut

Spec == Init /\ [][Next]_vars

(* The inbox is polled and the teardown goes on while the runner lives; a    *)
(* file is not unreadable at every poll; what is owed is written once there *)
(* is room; the loop is left once a flag is set or the run has failed and   *)
(* the children have been aborted or have ended, in some turn between two   *)
(* polls; a stop call is synchronous, and its caller tries again when it is *)
(* told to.                                                                 *)
Fairness ==
    /\ SF_vars(Scanning) /\ SF_vars(Ending)
    /\ SF_vars(ScanStops /\ stopFiles' = {})
    /\ WF_vars(ShowResult \/ ShowStatus \/ Defer)
    /\ SF_vars((flags # {} \/ st # "running") /\ EndWork)
    /\ \A s \in Stopper : WF_vars(Stopping(s))

FairSpec == Spec /\ Fairness
-----------------------------------------------------------------------------
(* A stop that was accepted is read by the runner before it publishes: no    *)
(* "Stop requested" that the runner never read (CHANGELOG.md, 0.73.1),      *)
(* unless the marker or the last read of the inbox failed.                  *)
PersistedStopRead ==
    rpc \in Drained /\ faults \cap {"close", "drain"} = {} => persisted \subseteq handled

(* The last word on a run that accepted a stop is not complete, partial or   *)
(* paused: it cannot be resumed as if nobody had stopped it, whatever       *)
(* interrupts, timeouts and other stops it received in between and whatever *)
(* interim results it showed.                                               *)
StoppedNotResumable ==
    /\ final /\ result \in {"complete", "partial", "paused"}
    /\ faults \cap {"close", "drain", "group"} = {}
    => persisted = {}

(* A steering request that was accepted is settled when the run publishes:   *)
(* delivered, or recorded as failed; unless the marker of the steering      *)
(* inbox was late or its last read left a file.                             *)
AcceptedSteerSettled ==
    rpc \in {"publish", "leaving", "exited"} /\ faults \cap {"steerClose", "steerDrain"} = {} =>
        \A s \in Steerer : tpc[s] = "accepted" => steer[s] \in {"delivered", "failed"}

(* The last word on a run stays, except that a paused run can be stopped;    *)
(* and what was sealed as stopped is not written over.  (A stop call during *)
(* which the proof of the exit appears may seal a run that has just ended.)  *)
OutcomeFinal ==
    [][final /\ "lateProof" \notin faults =>
          /\ result \in Ended => result' = result
          /\ status = "stopped" /\ owes = {} => status' = "stopped"]_vars

(* A stop that was accepted ends the run, unless its runner dies first.      *)
StopEndsRun ==
    \A r \in Req : r \in persisted ~> rpc \in Gone

(* "That retry stops a paused run" (CHANGELOG.md): once its runner is proved *)
(* to have exited a paused run does not resist a caller who keeps asking.   *)
PausedRunStoppable ==
    (status = "paused" /\ proof = "observed") ~> status = "stopped"

-----------------------------------------------------------------------------
(* The run as the abstract specification sees it. *)
Run == INSTANCE RunOutcome WITH
    Outcome   <- Ended \cup {"paused"},
    Resumable <- {"complete", "partial", "paused"},
    open      <- "stop" \notin closed,
    accepted  <- persisted,
    exited    <- proof = "observed"

(* Every step of the callers, the inbox and the runner is a step of the      *)
(* promised run, as long as none of the faults below occurs: accepted stops *)
(* and last words that can be resumed exclude one another as it says,       *)
(* whatever the order of the files and the interim results.                 *)
ImplementsOutcome ==
    /\ Run!Init
    /\ [][Run!Next \/ faults' \cap {"close", "drain", "group", "lateProof"} # {}]_(Run!outcomeVars)
=============================================================================
