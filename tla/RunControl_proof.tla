-------------------------- MODULE RunControl_proof --------------------------
(***************************************************************************)
(* Proofs about RunControl, for any number of callers and requests and any *)
(* set of faults.  What holds only of a run without some fault is stated   *)
(* with the history of the faults, and proved step by step up to it.       *)
(***************************************************************************)
EXTENDS RunControl, TLAPS

(* A run that has begun to end knows what its steps amount to, and a caller *)
(* that looks at the inbox again has written a request.                     *)
TInv ==
    /\ TypeOK
    /\ rpc \in Teardown => work # "none"
    /\ \A s \in Stopper : spc[s] = "recheck" => calls[s] >= 1

(* What is recorded as gone wrong stays recorded. *)
LEMMA FaultsStay == [Next]_vars => faults \subseteq faults'
<1> SUFFICES ASSUME [Next]_vars PROVE faults \subseteq faults'
  OBVIOUS
<1>1. CASE Scanning \/ Showing \/ Signal \/ Deadline \/ ExhaustUsage \/ FailGroup \/ EndWork
  BY <1>1 DEF Scanning, ScanStops, ScanTimeout, ScanInterrupt, ScanSteers, Showing, ShowResult,
     ShowStatus, Defer, Refresh, Signal, Deadline, ExhaustUsage, FailGroup, EndWork, Unless, told
<1>2. CASE Ending \/ Crash \/ ObserveExit
  BY <1>2 DEF Ending, CloseStopInbox, DrainStops, Settle, CloseSteerInbox, DrainSteers, Publish,
     CloseSteerLate, Exit, Crash, ObserveExit, Unless, told
<1>3. ASSUME NEW s \in Stopper, Stopping(s) PROVE faults \subseteq faults'
  BY <1>3 DEF Stopping, Look, Repair, CheckPaused, Request, Write, Recheck, Seal, SealStatus,
     Unless, told
<1>4. ASSUME NEW s \in Steerer, ChildAnswers(s) \/ Steering(s) PROVE faults \subseteq faults'
  BY <1>4 DEF ChildAnswers, Steering, Steer, told
<1>5. CASE Interrupt \/ TimeOut \/ UNCHANGED vars
  BY <1>5 DEF Interrupt, TimeOut, vars, told
<1> QED
  BY <1>1, <1>2, <1>3, <1>4, <1>5 DEF Next

(* The runner's own steps keep the types. *)
LEMMA TInvRunner ==
    ASSUME TInv,
           \/ Scanning \/ Showing \/ Signal \/ Deadline \/ ExhaustUsage \/ FailGroup
           \/ EndWork \/ Ending \/ Crash \/ ObserveExit
    PROVE  TInv'
<1> USE DEF TInv, TypeOK, Scan, Teardown, Gone, Runner, files, outcome, stopping, callers, told,
            Owe
<1>1. CASE ScanStops
  BY <1>1 DEF ScanStops, HandleStops, StopRunner
<1>2. CASE ScanTimeout
  BY <1>2 DEF ScanTimeout, TimeoutRunner
<1>3. CASE ScanInterrupt \/ Signal
  <2>1. CASE ScanInterrupt
    BY <2>1 DEF ScanInterrupt, InterruptRunner, State
  <2>2. CASE Signal
    BY <2>2 DEF Signal, InterruptRunner, State
  <2> QED
    BY <1>3, <2>1, <2>2
<1>4. CASE ScanSteers
  BY <1>4 DEF ScanSteers, HandleSteers, Filed
<1>5. CASE Deadline
  BY <1>5 DEF Deadline, TimeoutRunner
<1>6. CASE ExhaustUsage
  BY <1>6 DEF ExhaustUsage, State, Ended
<1>7. CASE EndWork
  BY <1>7 DEF EndWork, State, Ended
<1>8. CASE CloseStopInbox
  BY <1>8 DEF CloseStopInbox, Unless
<1>9. CASE DrainStops
  BY <1>9 DEF DrainStops, HandleStops, StopRunner, Unless
<1>10. CASE Settle
  BY <1>10 DEF Settle, FinalState, SignalTerminated, State, Ended
<1>11. CASE CloseSteerInbox \/ CloseSteerLate
  BY <1>11 DEF CloseSteerInbox, CloseSteerLate, Unless
<1>12. CASE DrainSteers
  BY <1>12 DEF DrainSteers, Filed, Unless
<1>13. CASE Publish
  <2>1. final' \in BOOLEAN
    BY <1>13 DEF Publish
  <2>2. /\ result' \in State \cup {"none"} /\ st' \in State
        /\ owes' \subseteq {"result", "status"}
    BY <1>13 DEF Publish, State, Ended
  <2> QED
    BY <1>13, <2>1, <2>2 DEF Publish
<1>14. CASE Exit \/ Crash \/ ObserveExit
  BY <1>14 DEF Exit, Crash, ObserveExit, Unless
<1>15. CASE FailGroup
  BY <1>15 DEF FailGroup, State, Ended, Unless
<1>16. CASE Showing
  <2>1. CASE ShowResult
    <3>1. final' \in BOOLEAN
      BY <2>1 DEF ShowResult
    <3> QED
      BY <2>1, <3>1 DEF ShowResult
  <2>2. CASE ShowStatus
    BY <2>2 DEF ShowStatus
  <2>3. CASE Defer
    BY <2>3 DEF Defer
  <2>4. CASE Refresh
    BY <2>4 DEF Refresh
  <2> QED
    BY <1>16, <2>1, <2>2, <2>3, <2>4 DEF Showing
<1> QED
  BY <1>1, <1>2, <1>3, <1>4, <1>5, <1>6, <1>7, <1>8, <1>9, <1>10, <1>11, <1>12, <1>13, <1>14,
     <1>15, <1>16
  DEF Scanning, Ending

(* So do the callers'. *)
LEMMA TInvCaller ==
    ASSUME TInv,
           \/ \E s \in Stopper : Stopping(s)
           \/ \E s \in Steerer : Steering(s) \/ ChildAnswers(s)
           \/ Interrupt \/ TimeOut
    PROVE  TInv'
<1> USE DEF TInv, TypeOK, Scan, Teardown, Gone, files, outcome, stopping, callers, told
<1>1. ASSUME NEW s \in Stopper, Look(s) PROVE TInv'
  <2>1. /\ status' \in State /\ result' \in State \cup {"none"}
        /\ final' \in BOOLEAN /\ faults' \subseteq Faults
    BY <1>1 DEF Look, Repair, State, Ended, Unless
  <2>2. /\ spc' \in [Stopper -> {"idle", "check", "request", "write", "recheck", "seal",
                             "sealStatus"}]
        /\ seen' \in [Stopper -> State]
        /\ \A q \in Stopper : spc'[q] = "recheck" => spc[q] = "recheck"
    BY <1>1, <2>1 DEF Look, Stop
  <2> QED
    BY <1>1, <2>1, <2>2 DEF Look
<1>2. ASSUME NEW s \in Stopper, CheckPaused(s) \/ Request(s) PROVE TInv'
  <2>1. /\ spc' \in [Stopper -> {"idle", "check", "request", "write", "recheck", "seal",
                             "sealStatus"}]
        /\ \A q \in Stopper : spc'[q] = "recheck" => spc[q] = "recheck"
    <3>1. CASE CheckPaused(s)
      BY <3>1 DEF CheckPaused, Stop
    <3>2. CASE Request(s)
      BY <3>2 DEF Request, Stop
    <3> QED
      BY <1>2, <3>1, <3>2
  <2>2. UNCHANGED <<files, outcome, rpc, st, flags, owes, work, handled, steer, seen, calls,
                    persisted, tpc, told>>
    BY <1>2 DEF CheckPaused, Request
  <2> QED
    BY <2>1, <2>2
<1>3. ASSUME NEW s \in Stopper, Write(s) PROVE TInv'
  <2>1. calls' \in [Stopper -> 0..MaxCalls] /\ calls'[s] \in 1..MaxCalls
    BY <1>3, ControlConstants DEF Write
  <2>2. stopFiles' \subseteq Req
    BY <1>3, <2>1 DEF Write, Req
  <2> QED
    BY <1>3, <2>1, <2>2 DEF Write, Stop
<1>4. ASSUME NEW s \in Stopper, Recheck(s) PROVE TInv'
  BY <1>4 DEF Recheck, Stop, Req
<1>5. ASSUME NEW s \in Stopper, Seal(s) \/ SealStatus(s) PROVE TInv'
  <2>1. status' \in State /\ result' \in State \cup {"none"}
    BY <1>5 DEF Seal, SealStatus, State, Ended
  <2>2. /\ spc' \in [Stopper -> {"idle", "check", "request", "write", "recheck", "seal",
                                 "sealStatus"}]
        /\ \A q \in Stopper : spc'[q] = "recheck" => spc[q] = "recheck"
    BY <1>5 DEF Seal, SealStatus, Stop
  <2> QED
    BY <1>5, <2>1, <2>2 DEF Seal, SealStatus
<1>6. ASSUME NEW s \in Steerer, Steering(s) PROVE TInv'
  <2>1. /\ tpc' \in [Steerer -> {"idle", "write", "recheck", "accepted", "refused"}]
        /\ steer' \in [Steerer -> {"none", "filed", "routed", "delivered", "failed"}]
    BY <1>6 DEF Steering, Steer
  <2>2. UNCHANGED <<files, outcome, rpc, st, flags, owes, work, handled, stopping, told>>
    BY <1>6 DEF Steering, Steer
  <2> QED
    BY <2>1, <2>2
<1>7. ASSUME NEW s \in Steerer, ChildAnswers(s) PROVE TInv'
  BY <1>7 DEF ChildAnswers
<1>8. CASE Interrupt \/ TimeOut
  BY <1>8 DEF Interrupt, TimeOut
<1> QED
  BY <1>1, <1>2, <1>3, <1>4, <1>5, <1>6, <1>7, <1>8 DEF Stopping

(* Every step keeps the types. *)
LEMMA TInvStep == TInv /\ [Next]_vars => TInv'
<1> SUFFICES ASSUME TInv, [Next]_vars PROVE TInv'
  OBVIOUS
<1>1. CASE UNCHANGED vars
  BY <1>1 DEF TInv, TypeOK, vars, files, outcome, stopping, callers, told
<1>2. CASE Next
  BY <1>2, TInvRunner, TInvCaller DEF Next
<1> QED
  BY <1>1, <1>2

(* It holds at first. *)
LEMMA TInvInit == Init => TInv
<1> SUFFICES ASSUME Init PROVE TInv
  OBVIOUS
<1>1. final \in BOOLEAN
  BY DEF Init
<1>2. TypeOK
  BY <1>1, ControlConstants DEF Init, TypeOK, State, Ended
<1> QED
  BY <1>2 DEF Init, TInv, Teardown

(* Type correctness, for every set of callers and whatever fails. *)
THEOREM TypeCorrect == Spec => []TypeOK
<1>1. TInv => TypeOK
  BY DEF TInv
<1> QED
  BY <1>1, TInvInit, TInvStep, PTL DEF Spec
-----------------------------------------------------------------------------
(* The last word: the runner says it once, when it publishes or writes over  *)
(* a publication that failed, and exits only then.                          *)

Early == {"live"} \cup Scan \cup {"close", "drain", "settle"}
Late == {"closeSteer", "drainSteer", "publish", "leaving", "exited"}

Words ==
    /\ TInv
    /\ rpc \in Early \cup {"closeSteer", "drainSteer", "publish"} => ~final
    /\ rpc \in {"closeSteer", "drainSteer", "publish", "exited", "crashed"} => owes = {}
    /\ rpc \in Early /\ "result" \in owes => st # "running"
    /\ rpc \in Late => st # "running"
    /\ rpc = "leaving" => IF "result" \in owes THEN st = "failed" /\ ~final ELSE final
    /\ rpc = "exited" => final
    /\ final => result # "none"
    /\ proof = "observed" => rpc = "exited"

(* The steps of the runner do not move a caller. *)
LEMMA RunnerFrame ==
    ASSUME Scanning \/ Showing \/ Signal \/ Deadline \/ ExhaustUsage \/ FailGroup \/ EndWork
               \/ Ending \/ Crash \/ ObserveExit
    PROVE  UNCHANGED <<spc, seen, calls, persisted, tpc>>
BY DEF Scanning, ScanStops, ScanTimeout, ScanInterrupt, ScanSteers, Showing, ShowResult,
       ShowStatus, Defer, Refresh, Signal, Deadline, ExhaustUsage, FailGroup, EndWork, Ending,
       CloseStopInbox, DrainStops, Settle, CloseSteerInbox, DrainSteers, Publish,
       CloseSteerLate, Exit, Crash, ObserveExit, callers, stopping

(* Every step keeps it. *)
LEMMA WordsStep == Words /\ [Next]_vars => Words'
<1> SUFFICES ASSUME Words, [Next]_vars PROVE Words'
  OBVIOUS
<1>1. TInv'
  BY TInvStep DEF Words
<1> USE <1>1 DEF Words, Early, Late, Scan, Runner, files, outcome, told, Owe
<1>2. CASE Scanning \/ Signal \/ Deadline
  BY <1>2 DEF Scanning, ScanStops, HandleStops, StopRunner, ScanTimeout, TimeoutRunner,
     ScanInterrupt, InterruptRunner, ScanSteers, HandleSteers, Signal, Deadline
<1>3. CASE ShowResult
  <2>1. CASE rpc = "leaving"
    BY <1>3, <2>1 DEF ShowResult
  <2>2. CASE rpc # "leaving"
    <3>1. final' <=> final
      BY <1>3, <2>2 DEF ShowResult
    <3>2. st # "running" /\ st # "none" /\ result' = st /\ rpc \in Early
      BY <1>3, <2>2 DEF ShowResult, TInv, TypeOK, State, Ended, Teardown, Gone
    <3> QED
      BY <1>3, <2>2, <3>1, <3>2 DEF ShowResult
  <2> QED
    BY <2>1, <2>2
<1>4. CASE ShowStatus \/ Defer \/ Refresh
  BY <1>4 DEF ShowStatus, Defer, Refresh
<1>5. CASE ExhaustUsage \/ FailGroup
  BY <1>5 DEF ExhaustUsage, FailGroup
<1>6. CASE EndWork \/ CloseStopInbox \/ CloseSteerInbox \/ DrainSteers
  BY <1>6 DEF EndWork, CloseStopInbox, CloseSteerInbox, DrainSteers
<1>7. CASE DrainStops
  BY <1>7 DEF DrainStops, HandleStops, StopRunner
<1>8. CASE Settle
  <2>1. FinalState \in Ended \cup {"paused"}
    BY <1>8 DEF Settle, FinalState, SignalTerminated, TInv, TypeOK, Teardown, Ended
  <2> QED
    BY <1>8, <2>1 DEF Settle, Ended
<1>9. CASE Publish
  <2>1. CASE UNCHANGED st
    BY <1>9, <2>1 DEF Publish, TInv, TypeOK, State, Ended
  <2>2. CASE UNCHANGED final
    BY <1>9, <2>2 DEF Publish, TInv, TypeOK, State, Ended
  <2> QED
    BY <1>9, <2>1, <2>2 DEF Publish
<1>10. CASE CloseSteerLate \/ Exit \/ Crash
  BY <1>10 DEF CloseSteerLate, Exit, Crash, Gone
<1>11. CASE ObserveExit
  BY <1>11 DEF ObserveExit, Gone
<1>12. ASSUME NEW s \in Stopper, Look(s) PROVE Words'
  <2>1. UNCHANGED <<rpc, st, owes, proof>>
    BY <1>12 DEF Look
  <2>2. \/ UNCHANGED <<result, final>>
        \/ rpc = "crashed" /\ result' = "failed"
        \/ result = "none" /\ result' = "failed" /\ final' = final
    BY <1>12 DEF Look, Repair
  <2> QED
    BY <2>1, <2>2
<1>13. ASSUME NEW s \in Stopper,
              CheckPaused(s) \/ Request(s) \/ Write(s) \/ Recheck(s) \/ Seal(s) \/ SealStatus(s)
       PROVE  Words'
  BY <1>13 DEF CheckPaused, Request, Write, Recheck, Seal, SealStatus
<1>14. ASSUME NEW s \in Steerer, ChildAnswers(s) \/ Steering(s) PROVE Words'
  BY <1>14 DEF ChildAnswers, Steering, Steer
<1>15. CASE Interrupt \/ TimeOut \/ UNCHANGED vars
  BY <1>15 DEF Interrupt, TimeOut, vars
<1> QED
  BY <1>2, <1>3, <1>4, <1>5, <1>6, <1>7, <1>8, <1>9, <1>10, <1>11, <1>12, <1>13, <1>14, <1>15
  DEF Next, Showing, Ending, Stopping

LEMMA WordsAlways == Spec => []Words
<1>1. Init => Words
  <2> SUFFICES ASSUME Init PROVE Words
    OBVIOUS
  <2>1. TInv
    BY TInvInit
  <2> QED
    BY <2>1 DEF Init, Words, Early, Late, Scan
<1> QED
  BY <1>1, WordsStep, PTL DEF Spec
-----------------------------------------------------------------------------
(* What is left of a stop, from its request to its outcome: the argument for *)
(* PersistedStopRead and StoppedNotResumable, as long as the marker and the *)
(* last read of the stop inbox do not fail.                                 *)

Clean == faults \cap {"close", "drain"} = {}

(* The inbox is closed before the last drain. *)
ClosedInTime == rpc \in {"drain"} \cup Drained => "stop" \in closed

(* A request file is named once while somebody may read it. *)
Counted ==
    rpc # "crashed" => \A s \in Stopper :
        /\ spc[s] \in {"check", "request"} => calls[s] < MaxCalls \/ "stop" \in closed
        /\ spc[s] = "write" => calls[s] < MaxCalls
        /\ spc[s] = "recheck" => <<s, calls[s]>> \notin persisted
        /\ \A n \in 1..MaxCalls : <<s, n>> \in persisted => n <= calls[s]

(* A request that was written is in the inbox until it is handled, ... *)
Kept ==
    rpc # "crashed" =>
        /\ persisted \subseteq stopFiles \cup handled
        /\ \A s \in Stopper :
              spc[s] = "recheck" => <<s, calls[s]>> \in stopFiles \cup handled

(* ... and a handled one is noted in a flag, then in the state; a group that  *)
(* failed while the run was interrupted would make it forget a later stop.  *)
Heeded ==
    "group" \notin faults =>
        /\ rpc \in Early =>
              /\ st \in {"running", "paused"} \/ flags \cap {"exhausted", "broken"} # {}
              /\ "broken" \in flags => st # "running" /\ "interrupted" \notin flags
              /\ "broken" \in flags /\ rpc \in Teardown => work \in {"failed", "killed"}
              /\ handled # {} => flags \cap {"stopped", "timedOut", "exhausted", "broken"} # {}
        /\ rpc \in Late /\ handled # {} => st \in {"stopped", "failed"}

(* Once such a last word is out no stop can be accepted any more. *)
Resumable ==
    "group" \notin faults /\ final /\ result \in {"complete", "partial", "paused"} =>
        "stop" \in closed /\ persisted = {}

(* Read: PersistedStopRead while nothing has failed. *)
Read == rpc \in Drained => persisted \subseteq handled

StopInv ==
    /\ Words
    /\ ClosedInTime
    /\ Counted
    /\ Kept
    /\ Read
    /\ Heeded
    /\ Resumable

(* The runner acts on the stops it reads, and on all of them before it       *)
(* publishes.                                                               *)
LEMMA StopInvRunner ==
    ASSUME Clean', StopInv,
           \/ Scanning \/ Showing \/ Signal \/ Deadline \/ ExhaustUsage \/ FailGroup
           \/ EndWork \/ Ending \/ Crash \/ ObserveExit
    PROVE  (ClosedInTime /\ Counted /\ Kept /\ Read /\ Heeded /\ Resumable)'
<1>0. UNCHANGED <<spc, seen, calls, persisted, tpc>>
  BY RunnerFrame
<1> USE <1>0 DEF StopInv, Words, TInv, ClosedInTime, Counted, Kept, Read, Heeded, Resumable,
        Early, Late, Drained, Teardown, Gone, Scan, Runner, files, outcome, told
<1>1. CASE ScanStops
  BY <1>1 DEF ScanStops, HandleStops, StopRunner
<1>2. CASE ScanTimeout
  BY <1>2 DEF ScanTimeout, TimeoutRunner
<1>3. CASE ScanInterrupt
  BY <1>3 DEF ScanInterrupt, InterruptRunner
<1>4. CASE Signal
  BY <1>4 DEF Signal, InterruptRunner
<1>5. CASE ScanSteers
  BY <1>5 DEF ScanSteers
<1>6. CASE Deadline
  BY <1>6 DEF Deadline, TimeoutRunner
<1>7. CASE ExhaustUsage
  BY <1>7 DEF ExhaustUsage
<1>8. CASE EndWork
  BY <1>8 DEF EndWork
<1>9. CASE CloseStopInbox
  BY <1>9 DEF CloseStopInbox, Unless, Clean
<1>10. CASE DrainStops
  <2>1. PICK reqs \in SUBSET stopFiles : HandleStops(reqs) /\ Unless(reqs = stopFiles, "drain")
    BY <1>10 DEF DrainStops
  <2>2. reqs = stopFiles /\ faults' = faults
    BY <2>1 DEF Unless, Clean
  <2> QED
    BY <1>10, <2>1, <2>2 DEF DrainStops, HandleStops, StopRunner
<1>11. CASE Settle
  <2>1. "group" \notin faults /\ handled # {} => FinalState \in {"stopped", "failed"}
    BY <1>11 DEF Settle, FinalState, SignalTerminated
  <2> QED
    BY <1>11, <2>1 DEF Settle
<1>12. CASE CloseSteerInbox
  BY <1>12 DEF CloseSteerInbox, Unless
<1>13. CASE CloseSteerLate
  BY <1>13 DEF CloseSteerLate
<1>14. CASE DrainSteers
  BY <1>14 DEF DrainSteers, Unless
<1>15. CASE Publish
  <2>1. /\ rpc = "publish" /\ rpc' = "leaving"
        /\ UNCHANGED <<stopFiles, closed, flags, work, handled, faults>>
    BY <1>15 DEF Publish
  <2>2. "stop" \in closed /\ persisted \subseteq handled
    BY <2>1
  <2>3. "group" \notin faults /\ handled # {} => st \in {"stopped", "failed"}
    BY <2>1
  <2>4. CASE result' = st /\ UNCHANGED st
    BY <2>1, <2>2, <2>3, <2>4
  <2>5. CASE st' = "failed" /\ UNCHANGED final
    <3>1. ~final
      BY <2>1
    <3> QED
      BY <2>1, <2>2, <2>5, <3>1
  <2> QED
    BY <1>15, <2>4, <2>5 DEF Publish
<1>16. CASE ShowResult
  <2>1. UNCHANGED <<stopFiles, closed, rpc, st, flags, work, handled, faults>>
    BY <1>16 DEF ShowResult
  <2>2. CASE rpc = "leaving"
    <3>1. result' = "failed"
      BY <1>16, <2>2 DEF ShowResult
    <3> QED
      BY <2>1, <3>1
  <2>3. CASE rpc # "leaving"
    <3>1. final' <=> final
      BY <1>16, <2>3 DEF ShowResult
    <3>2. ~final
      BY <1>16, <2>3 DEF ShowResult, TypeOK
    <3> QED
      BY <2>1, <3>1, <3>2
  <2> QED
    BY <2>2, <2>3
<1>17. CASE Exit \/ Crash
  BY <1>17 DEF Exit, Crash
<1>18. CASE ObserveExit
  BY <1>18 DEF ObserveExit, Unless
<1>19. CASE FailGroup
  BY <1>19 DEF FailGroup, Unless
<1>20. CASE ShowStatus \/ Defer \/ Refresh
  BY <1>20 DEF ShowStatus, Defer, Refresh
<1> QED
  BY <1>1, <1>2, <1>3, <1>4, <1>5, <1>6, <1>7, <1>8, <1>9, <1>10, <1>11, <1>12, <1>13,
     <1>14, <1>15, <1>16, <1>17, <1>18, <1>19, <1>20 DEF Scanning, Showing, Ending

(* A caller's request is accepted only while the inbox is open. *)
LEMMA StopInvStopper ==
    ASSUME StopInv, NEW s \in Stopper, Stopping(s)
    PROVE  (ClosedInTime /\ Counted /\ Kept /\ Read /\ Heeded /\ Resumable)'
<1> USE ControlConstants DEF StopInv, Words, TInv, TypeOK, ClosedInTime, Counted, Kept,
        Read, Heeded, Resumable, Early, Late, Drained, Teardown, Gone, Scan,
        Stop, files, outcome, told
<1>1. CASE Look(s)
  <2>1. /\ UNCHANGED <<stopFiles, closed, rpc, st, flags, work, handled, calls, persisted>>
        /\ spc' = [spc EXCEPT ![s] = IF status' \in {"running", "paused"} THEN "check" ELSE "idle"]
        /\ calls[s] < MaxCalls \/ "stop" \in closed \/ rpc = "crashed" \/ rpc = "exited"
    BY <1>1 DEF Look
  <2>2. "group" \in faults => "group" \in faults'
    BY <1>1 DEF Look, Repair, Unless
  <2>3. UNCHANGED <<result, final>> \/ result' = "failed"
    BY <1>1 DEF Look, Repair
  <2>4. Counted'
    BY <2>1
  <2> QED
    BY <2>1, <2>2, <2>3, <2>4
<1>2. CASE CheckPaused(s)
  BY <1>2 DEF CheckPaused
<1>3. CASE Request(s)
  BY <1>3 DEF Request
<1>4. CASE Write(s)
  BY <1>4 DEF Write
<1>5. CASE Recheck(s)
  <2>1. CASE "stop" \in closed
    <3>1. /\ stopFiles' = stopFiles \ {<<s, calls[s]>>}
          /\ spc' = [spc EXCEPT ![s] = "idle"]
          /\ UNCHANGED <<closed, rpc, result, final, faults, st, flags, work, handled, calls, persisted>>
      BY <1>5, <2>1 DEF Recheck
    <3>2. Kept'
      BY <1>5, <3>1 DEF Recheck
    <3>3. Counted'
      BY <3>1
    <3> QED
      BY <3>1, <3>2, <3>3
  <2>2. CASE "stop" \notin closed
    <3>1. /\ spc' = [spc EXCEPT ![s] = IF seen[s] = "paused" THEN "seal" ELSE "idle"]
          /\ persisted' = persisted \cup {<<s, calls[s]>>}
          /\ UNCHANGED <<stopFiles, closed, rpc, result, final, faults, st, flags, work, handled, calls>>
      BY <1>5, <2>2 DEF Recheck
    <3>2. Kept'
      BY <1>5, <3>1 DEF Recheck
    <3>3. Counted'
      BY <3>1
    <3> QED
      BY <2>2, <3>1, <3>2, <3>3
  <2> QED
    BY <2>1, <2>2
<1>6. CASE Seal(s)
  BY <1>6 DEF Seal
<1>7. CASE SealStatus(s)
  BY <1>7 DEF SealStatus
<1> QED
  BY <1>1, <1>2, <1>3, <1>4, <1>5, <1>6, <1>7 DEF Stopping

(* Every step keeps the invariant. *)
LEMMA StopInvStep == StopInv /\ Clean' /\ [Next]_vars => StopInv'
<1> SUFFICES ASSUME StopInv, Clean', [Next]_vars PROVE StopInv'
  OBVIOUS
<1>1. Words'
  BY WordsStep DEF StopInv
<1>2. CASE UNCHANGED vars
  BY <1>1, <1>2 DEF StopInv, ClosedInTime, Counted, Kept, Read, Heeded, Resumable,
     vars, files, outcome, stopping, callers, told
<1>3. ASSUME NEW s \in Steerer, ChildAnswers(s) \/ Steering(s) PROVE StopInv'
  BY <1>1, <1>3 DEF ChildAnswers, Steering, Steer, StopInv, ClosedInTime, Counted, Kept,
     Read, Heeded, Resumable, files, outcome, stopping, callers, told
<1>4. CASE Interrupt \/ TimeOut
  BY <1>1, <1>4 DEF Interrupt, TimeOut, StopInv, ClosedInTime, Counted, Kept,
     Read, Heeded, Resumable, outcome, stopping, callers, told
<1> QED
  BY <1>1, <1>2, <1>3, <1>4, StopInvRunner, StopInvStopper DEF Next, StopInv

(* StopInv holds of every run up to the first failure of its stop inbox. *)
LEMMA StopInvAlways == Spec => [](StopInv \/ ~Clean)
<1>1. Init => StopInv
  <2> SUFFICES ASSUME Init PROVE StopInv
    OBVIOUS
  <2>1. Words
    <3>1. TInv
      BY TInvInit
    <3> QED
      BY <3>1 DEF Init, Words, Early, Late, Scan
  <2> QED
    BY <2>1, ControlConstants DEF Init, StopInv, ClosedInTime, Counted, Kept, Read,
       Heeded, Resumable, Early, Late, Drained, Teardown, Scan
<1>2. ~Clean /\ [Next]_vars => ~Clean'
  BY FaultsStay DEF Clean
<1> QED
  BY <1>1, <1>2, StopInvStep, PTL DEF Spec

(* A stop that was accepted is read before the run publishes: for every set *)
(* of callers, however the requests meet the closing and draining of the    *)
(* inbox, unless one of these two fails.                                    *)
THEOREM StopsAreRead == Spec => []PersistedStopRead
<1>1. StopInv \/ ~Clean => PersistedStopRead
  BY DEF StopInv, Clean, Read, PersistedStopRead
<1> QED
  BY <1>1, StopInvAlways, PTL

(* And it prevails: the last word on the run is none that can be resumed,   *)
(* whatever it has shown before.                                            *)
THEOREM StopsPrevail == Spec => []StoppedNotResumable
<1>1. StopInv \/ ~Clean => StoppedNotResumable
  BY DEF StopInv, Clean, Resumable, StoppedNotResumable
<1> QED
  BY <1>1, StopInvAlways, PTL
-----------------------------------------------------------------------------
(* What becomes of a steering request as long as the marker of the steering  *)
(* inbox is written at once and its last read leaves no file.               *)

SteerClean == faults \cap {"steerClose", "steerDrain"} = {}

Settled ==
    rpc \in {"publish", "leaving", "exited"} =>
        \A s \in Steerer : tpc[s] = "accepted" => steer[s] \in {"delivered", "failed"}

SteerInv ==
    /\ TInv
    /\ rpc \in Late \ {"closeSteer"} => "steer" \in closed
    /\ \A s \in Steerer : tpc[s] \in {"recheck", "accepted"} => steer[s] # "none"
    /\ Settled

(* Every step keeps it. *)
LEMMA SteerInvStep == SteerInv /\ SteerClean' /\ [Next]_vars => SteerInv'
<1> SUFFICES ASSUME SteerInv, SteerClean', [Next]_vars PROVE SteerInv'
  OBVIOUS
<1>1. TInv'
  BY TInvStep DEF SteerInv
<1> USE <1>1 DEF SteerInv, TInv, TypeOK, Settled, Late, Teardown, Gone, Scan, Runner,
        files, outcome, stopping, callers
<1>2. CASE ScanSteers
  BY <1>2 DEF ScanSteers, HandleSteers, Filed
<1>3. CASE ScanStops \/ ScanTimeout \/ ScanInterrupt \/ Signal \/ Deadline \/ ExhaustUsage
           \/ FailGroup \/ Showing
  BY <1>3 DEF ScanStops, ScanTimeout, ScanInterrupt, Signal, Deadline, ExhaustUsage, FailGroup,
     Showing, ShowResult, ShowStatus, Defer, Refresh
<1>4. CASE EndWork \/ CloseStopInbox \/ DrainStops \/ Settle
  BY <1>4 DEF EndWork, CloseStopInbox, DrainStops, Settle
<1>5. CASE CloseSteerInbox
  BY <1>5 DEF CloseSteerInbox, Unless, SteerClean
<1>6. CASE DrainSteers
  <2>1. /\ rpc = "drainSteer" /\ rpc' = "publish"
        /\ UNCHANGED <<closed, tpc>>
    BY <1>6 DEF DrainSteers
  <2>2. \A s \in Steerer : steer'[s] = IF steer[s] \in {"filed", "routed"} THEN "failed" ELSE steer[s]
    BY <1>6 DEF DrainSteers, Unless, Filed, SteerClean
  <2> QED
    BY <2>1, <2>2
<1>7. CASE CloseSteerLate \/ Publish \/ Exit \/ Crash \/ ObserveExit
  BY <1>7 DEF CloseSteerLate, Publish, Exit, Crash, ObserveExit
<1>8. ASSUME NEW s \in Steerer, ChildAnswers(s) PROVE SteerInv'
  BY <1>8 DEF ChildAnswers
<1>9. ASSUME NEW s \in Steerer, Steering(s) PROVE SteerInv'
  BY <1>9 DEF Steering, Steer
<1>10. ASSUME NEW s \in Stopper, Stopping(s) PROVE SteerInv'
  BY <1>10 DEF Stopping, Look, CheckPaused, Request, Write, Recheck, Seal, SealStatus, Stop
<1>11. CASE Interrupt \/ TimeOut
  BY <1>11 DEF Interrupt, TimeOut
<1>12. CASE UNCHANGED vars
  BY <1>12 DEF vars
<1> QED
  BY <1>2, <1>3, <1>4, <1>5, <1>6, <1>7, <1>8, <1>9, <1>10, <1>11, <1>12
  DEF Next, Scanning, Ending

(* A steering request that was accepted is settled when the run publishes,  *)
(* for every set of callers, unless its inbox fails.                        *)
THEOREM SteersAreSettled == Spec => []AcceptedSteerSettled
<1>1. Init => SteerInv
  <2> SUFFICES ASSUME Init PROVE SteerInv
    OBVIOUS
  <2>1. TInv
    BY TInvInit
  <2> QED
    BY <2>1 DEF Init, SteerInv, Settled, Late
<1>2. SteerInv \/ ~SteerClean => AcceptedSteerSettled
  BY DEF SteerInv, SteerClean, Settled, AcceptedSteerSettled
<1>3. ~SteerClean /\ [Next]_vars => ~SteerClean'
  BY FaultsStay DEF SteerClean
<1> QED
  BY <1>1, <1>2, <1>3, SteerInvStep, PTL DEF Spec
-----------------------------------------------------------------------------
(* What status and result say of each other: the argument for OutcomeFinal,  *)
(* as long as no exit proof appears in the middle of a stop call.           *)

InTime == "lateProof" \notin faults

(* A status that says paused at the exit has a paused result, or one that    *)
(* has been sealed meanwhile.                                               *)
PausedAtExit ==
    /\ rpc \in {"leaving", "exited"} =>
          /\ "status" \notin owes => status \in {st, "stopped"}
          /\ st = "paused" => final /\ result \in {"paused", "stopped"}

(* What a stop call is about to seal has not ended otherwise. *)
Sealable ==
    \A s \in Stopper :
        /\ spc[s] \in {"seal", "sealStatus"} => seen[s] = "paused"
        /\ spc[s] = "sealStatus" => proof = "observed" /\ result = "stopped"
        /\ proof = "observed" /\ spc[s] # "idle" /\ seen[s] = "paused"
              => result \in {"paused", "stopped"}

OutcomeInv ==
    /\ Words
    /\ PausedAtExit
    /\ Sealable

(* The runner's steps keep it. *)
LEMMA OutcomeInvRunner ==
    ASSUME InTime', OutcomeInv,
           \/ Scanning \/ Showing \/ Signal \/ Deadline \/ ExhaustUsage \/ FailGroup
           \/ EndWork \/ Ending \/ Crash \/ ObserveExit
    PROVE  (PausedAtExit /\ Sealable)'
<1>0. UNCHANGED <<spc, seen, calls, persisted, tpc>>
  BY RunnerFrame
<1> USE <1>0 DEF OutcomeInv, Words, PausedAtExit, Sealable, Early, Late, Scan, Runner, files,
        outcome, told
<1>1. CASE Scanning \/ Signal \/ Deadline
  BY <1>1 DEF Scanning, ScanStops, ScanTimeout, ScanInterrupt, ScanSteers, Signal, Deadline
<1>2. CASE ExhaustUsage \/ FailGroup \/ Refresh \/ Defer
  BY <1>2 DEF ExhaustUsage, FailGroup, Refresh, Defer
<1>3. CASE ShowResult
  <2>1. "result" \in owes /\ owes' = owes \ {"result"} /\ UNCHANGED <<rpc, st, status, proof>>
    BY <1>3 DEF ShowResult
  <2>2. rpc # "exited" /\ proof # "observed"
    BY <2>1
  <2>3. rpc = "leaving" => st = "failed"
    BY <2>1
  <2> QED
    BY <2>1, <2>2, <2>3
<1>4. CASE ShowStatus
  BY <1>4 DEF ShowStatus
<1>5. CASE EndWork \/ CloseStopInbox \/ DrainStops \/ CloseSteerInbox \/ DrainSteers \/ Settle
  BY <1>5 DEF EndWork, CloseStopInbox, DrainStops, CloseSteerInbox, DrainSteers, Settle
<1>6. CASE Publish
  BY <1>6 DEF Publish
<1>7. CASE CloseSteerLate
  BY <1>7 DEF CloseSteerLate
<1>8. CASE Exit \/ Crash
  BY <1>8 DEF Exit, Crash
<1>9. CASE ObserveExit
  <2>1. \A s \in Stopper : spc[s] = "idle"
    BY <1>9 DEF ObserveExit, Unless, InTime
  <2> QED
    BY <1>9, <2>1 DEF ObserveExit
<1> QED
  BY <1>1, <1>2, <1>3, <1>4, <1>5, <1>6, <1>7, <1>8, <1>9 DEF Showing, Ending

(* So do those of a stop call. *)
LEMMA OutcomeInvStopper ==
    ASSUME OutcomeInv, NEW s \in Stopper, Stopping(s)
    PROVE  (PausedAtExit /\ Sealable)'
<1> USE DEF OutcomeInv, Words, TInv, TypeOK, PausedAtExit, Sealable, Late, Stop, files
<1>1. CASE Look(s)
  <2>1. UNCHANGED <<rpc, st, owes, proof>>
    BY <1>1 DEF Look
  <2>2. \/ UNCHANGED <<status, result, final>>
        \/ status = "running" /\ result # "none" /\ status' = result /\ UNCHANGED <<result, final>>
        \/ status = "running" /\ result = "none" /\ status' = "failed" /\ result' = "failed"
              /\ (rpc = "crashed" \/ UNCHANGED final)
    BY <1>1 DEF Look, Repair, told
  <2>3. PausedAtExit'
    BY <2>1, <2>2
  <2>4. proof = "observed" => status \in {st, "stopped"} /\ status # "running"
    BY DEF State
  <2>5. proof = "observed" => UNCHANGED <<status, result>>
    BY <2>2, <2>4
  <2>6. proof = "observed" /\ status = "paused" => result \in {"paused", "stopped"}
    BY <2>4
  <2>7. /\ spc' = [spc EXCEPT ![s] = IF status' \in {"running", "paused"} THEN "check" ELSE "idle"]
        /\ seen' = [seen EXCEPT ![s] = status']
        /\ spc[s] = "idle"
    BY <1>1 DEF Look
  <2>8. \A q \in Stopper : spc[q] = "sealStatus" => UNCHANGED result
    BY <2>5
  <2>9. Sealable'
    <3> SUFFICES ASSUME NEW q \in Stopper
                 PROVE  /\ spc'[q] \in {"seal", "sealStatus"} => seen'[q] = "paused"
                        /\ spc'[q] = "sealStatus" => proof' = "observed" /\ result' = "stopped"
                        /\ proof' = "observed" /\ spc'[q] # "idle" /\ seen'[q] = "paused"
                              => result' \in {"paused", "stopped"}
      OBVIOUS
    <3>1. CASE q = s
      BY <2>1, <2>5, <2>6, <2>7, <3>1
    <3>2. CASE q # s
      BY <2>1, <2>5, <2>7, <2>8, <3>2
    <3> QED
      BY <3>1, <3>2
  <2> QED
    BY <2>3, <2>9
<1>2. CASE CheckPaused(s)
  BY <1>2 DEF CheckPaused, outcome, told
<1>3. CASE Request(s)
  BY <1>3 DEF Request, outcome, told
<1>4. CASE Write(s)
  BY <1>4 DEF Write, outcome, told
<1>5. CASE Recheck(s)
  <2>1. UNCHANGED <<rpc, st, owes, status, result, proof, final, seen>>
    BY <1>5 DEF Recheck, outcome, told
  <2>2. spc[s] = "recheck" /\ spc' = [spc EXCEPT ![s] = spc'[s]]
    BY <1>5 DEF Recheck
  <2>3. spc'[s] = "idle" \/ (spc'[s] = "seal" /\ seen[s] = "paused")
    BY <1>5 DEF Recheck
  <2> QED
    BY <2>1, <2>2, <2>3
<1>6. CASE Seal(s)
  <2>1. UNCHANGED <<rpc, st, owes, status, proof, final, seen>>
    BY <1>6 DEF Seal, told
  <2>2. CASE proof = "observed"
    BY <1>6, <2>1, <2>2 DEF Seal
  <2>3. CASE proof # "observed"
    BY <1>6, <2>1, <2>3 DEF Seal
  <2> QED
    BY <2>2, <2>3
<1>7. CASE SealStatus(s)
  BY <1>7 DEF SealStatus, told
<1> QED
  BY <1>1, <1>2, <1>3, <1>4, <1>5, <1>6, <1>7 DEF Stopping

(* Every step keeps it. *)
LEMMA OutcomeInvStep == OutcomeInv /\ InTime' /\ [Next]_vars => OutcomeInv'
<1> SUFFICES ASSUME OutcomeInv, InTime', [Next]_vars PROVE OutcomeInv'
  OBVIOUS
<1>1. Words'
  BY WordsStep DEF OutcomeInv
<1>2. CASE UNCHANGED vars
  BY <1>1, <1>2 DEF OutcomeInv, PausedAtExit, Sealable, vars, files, outcome,
     stopping, callers, told
<1>3. ASSUME NEW s \in Steerer, ChildAnswers(s) \/ Steering(s) PROVE OutcomeInv'
  BY <1>1, <1>3 DEF ChildAnswers, Steering, Steer, OutcomeInv, PausedAtExit,
     Sealable, outcome, stopping, callers, told
<1>4. CASE Interrupt \/ TimeOut
  BY <1>1, <1>4 DEF Interrupt, TimeOut, OutcomeInv, PausedAtExit, Sealable,
     outcome, stopping, callers, told
<1> QED
  BY <1>1, <1>2, <1>3, <1>4, OutcomeInvRunner, OutcomeInvStopper DEF Next, OutcomeInv

(* What a run shows at first satisfies it. *)
LEMMA OutcomeInvInit == Init => OutcomeInv
<1> SUFFICES ASSUME Init PROVE OutcomeInv
  OBVIOUS
<1>1. TInv
  BY TInvInit
<1> QED
  BY <1>1 DEF Init, OutcomeInv, Words, PausedAtExit, Sealable, Early, Late, Scan

(* OutcomeInv holds of every run up to the first late proof. *)
LEMMA OutcomeInvAlways == Spec => [](OutcomeInv \/ ~InTime)
<1>1. ~InTime /\ [Next]_vars => ~InTime'
  BY FaultsStay DEF InTime
<1> QED
  BY <1>1, OutcomeInvInit, OutcomeInvStep, PTL DEF Spec

(* Which steps write the status or the result. *)
LEMMA Writers ==
    ASSUME [Next]_vars
    PROVE  \/ ShowResult \/ ShowStatus \/ Publish
           \/ \E s \in Stopper : Look(s) \/ Seal(s) \/ SealStatus(s)
           \/ UNCHANGED <<status, result>>
BY DEF Next, Scanning, Showing, Ending, Stopping, Steering, Steer, ScanStops, ScanTimeout,
     ScanInterrupt, ScanSteers, Defer, Refresh, Signal, Deadline, ExhaustUsage, FailGroup,
     EndWork, CloseStopInbox, DrainStops, Settle, CloseSteerInbox, DrainSteers,
     CloseSteerLate, Exit, Crash, ObserveExit, ChildAnswers, CheckPaused, Request, Write,
     Recheck, Interrupt, TimeOut, vars, outcome

(* One step: a last word stays, and so does a sealed status. *)
LEMMA OutcomeStep ==
    ASSUME OutcomeInv, [Next]_vars, final
    PROVE  /\ result \in Ended => result' = result
           /\ status = "stopped" /\ owes = {} => status' = "stopped"
<1> USE DEF OutcomeInv, Words, Sealable, Ended, Early, Late, Scan, Runner
<1>1. CASE ShowResult
  BY <1>1 DEF ShowResult, TInv, TypeOK, Teardown, Gone
<1>2. CASE ShowStatus
  BY <1>2 DEF ShowStatus
<1>3. CASE Publish
  BY <1>3 DEF Publish
<1>4. ASSUME NEW s \in Stopper, Look(s)
      PROVE  (result \in Ended => result' = result) /\ (status = "stopped" => status' = "stopped")
  BY <1>4 DEF Look, Repair
<1>5. ASSUME NEW s \in Stopper, Seal(s) \/ SealStatus(s)
      PROVE  (result \in Ended => result' = result) /\ (status = "stopped" => status' = "stopped")
  BY <1>5 DEF Seal, SealStatus, Stop
<1>6. CASE UNCHANGED <<status, result>>
  BY <1>6
<1> QED
  BY <1>1, <1>2, <1>3, <1>4, <1>5, <1>6, Writers

(* The last word on a run is final, except that a paused run can be stopped; *)
(* and a run that was sealed as stopped stays so.                           *)
THEOREM OutcomesAreFinal == Spec => OutcomeFinal
<1>1. (OutcomeInv \/ ~InTime) /\ [Next]_vars =>
          [final /\ "lateProof" \notin faults =>
              /\ result \in Ended => result' = result
              /\ status = "stopped" /\ owes = {} => status' = "stopped"]_vars
  BY OutcomeStep DEF InTime
<1> QED
  BY <1>1, OutcomeInvAlways, PTL DEF Spec, OutcomeFinal
-----------------------------------------------------------------------------
(* That the files implement the promised run, up to the first fault that     *)
(* excuses it.                                                              *)

NoFault == faults \cap {"close", "drain", "group", "lateProof"} = {}

RefInv == StopInv /\ OutcomeInv

(* A step that touches none of it does not show. *)
LEMMA HiddenStep ==
    ASSUME ("stop" \in closed') <=> ("stop" \in closed),
           persisted' = persisted, result' = result, final' = final,
           (proof' = "observed") <=> (proof = "observed")
    PROVE  UNCHANGED Run!outcomeVars
BY DEF Run!outcomeVars

(* The runner closes its inbox, shows and publishes its outcome, and is seen *)
(* to have exited.                                                          *)
LEMMA RunnerImplementsOutcome ==
    ASSUME NoFault', RefInv,
           \/ Scanning \/ Showing \/ Signal \/ Deadline \/ ExhaustUsage \/ FailGroup
           \/ EndWork \/ Ending \/ Crash \/ ObserveExit
    PROVE  [Run!Next]_(Run!outcomeVars)
<1>0. persisted' = persisted
  BY RunnerFrame
<1>w. Words
  BY DEF RefInv, OutcomeInv
<1>1. CASE CloseStopInbox
  <2>1. closed' = closed \cup {"stop"} /\ result' = result /\ proof' = proof /\ final' = final
    BY <1>1 DEF CloseStopInbox, Unless, NoFault, outcome
  <2>2. Run!Close
    BY <1>0, <2>1 DEF Run!Close
  <2> QED
    BY <2>2 DEF Run!Next
<1>2. CASE Publish
  <2>1. rpc = "publish" /\ closed' = closed /\ proof' = proof
    BY <1>2 DEF Publish, Runner, files
  <2>2. /\ ~final /\ proof # "observed"
        /\ st \in Ended \cup {"paused"}
    BY <1>w, <2>1 DEF Words, TInv, TypeOK, State, Late
  <2>3. CASE result' = st /\ final' = TRUE
    <3>1. RefInv /\ "group" \notin faults
      BY <1>2 DEF NoFault, Publish
    <3>2. "stop" \in closed /\ persisted \subseteq handled
      BY <2>1, <3>1 DEF RefInv, StopInv, ClosedInTime, Read, Drained, Teardown
    <3>3. handled # {} => st \in {"stopped", "failed"}
      BY <2>1, <3>1 DEF RefInv, StopInv, Heeded, Late
    <3>4. st \in {"complete", "partial", "paused"} => persisted = {}
      BY <3>2, <3>3
    <3>5. Run!Publish(st)
      BY <1>0, <2>1, <2>2, <2>3, <3>2, <3>4 DEF Run!Publish
    <3> QED
      BY <2>2, <3>5 DEF Run!Next
  <2>4. CASE result' = result /\ final' = final
    BY <1>0, <2>1, <2>4, HiddenStep
  <2>5. CASE result' = st /\ final' = final
    <3>1. Run!Show(st)
      BY <1>0, <2>1, <2>2, <2>5 DEF Run!Show
    <3> QED
      BY <2>2, <3>1 DEF Run!Next
  <2> QED
    BY <1>2, <2>3, <2>4, <2>5 DEF Publish
<1>3. CASE ObserveExit
  <2>1. closed' = closed /\ result' = result /\ final' = final /\ proof = "pending"
    BY <1>3 DEF ObserveExit, files
  <2>2. CASE rpc = "exited"
    <3>1. "stop" \in closed /\ final
      BY <1>w, <2>2 DEF RefInv, StopInv, ClosedInTime, Drained, Words
    <3>2. proof' = "observed"
      BY <1>3, <2>2 DEF ObserveExit
    <3>3. Run!ProveExit
      BY <1>0, <2>1, <3>1, <3>2 DEF Run!ProveExit
    <3> QED
      BY <3>3 DEF Run!Next
  <2>3. CASE rpc # "exited"
    <3>1. proof' # "observed"
      BY <1>3, <2>3 DEF ObserveExit
    <3> QED
      BY <1>0, <2>1, <3>1, HiddenStep
  <2> QED
    BY <2>2, <2>3
<1>4. CASE CloseSteerInbox \/ CloseSteerLate
  BY <1>0, <1>4, HiddenStep DEF CloseSteerInbox, CloseSteerLate, outcome, told
<1>5. CASE ShowResult
  <2>1. "result" \in owes /\ result' = st /\ UNCHANGED <<closed, proof>>
    BY <1>5 DEF ShowResult, files
  <2>2. ~final /\ proof # "observed" /\ st \in Ended \cup {"paused"}
    BY <1>w, <2>1 DEF Words, TInv, TypeOK, State, Ended, Early, Teardown, Scan, Gone
  <2>3. CASE rpc = "leaving"
    <3>1. st = "failed"
      BY <1>w, <2>1, <2>3 DEF Words
    <3>2. final' = TRUE
      BY <1>5, <2>3 DEF ShowResult
    <3>3. Run!Publish("failed")
      BY <1>0, <2>1, <2>2, <3>1, <3>2 DEF Run!Publish
    <3> QED
      BY <3>3 DEF Run!Next, Ended
  <2>4. CASE rpc # "leaving"
    <3>1. final' <=> final
      BY <1>5, <2>4 DEF ShowResult
    <3>2. final' = final
      BY <1>5, <2>2, <3>1, <1>w DEF ShowResult, Words, TInv, TypeOK
    <3>3. Run!Show(st)
      BY <1>0, <2>1, <2>2, <3>2 DEF Run!Show
    <3> QED
      BY <2>2, <3>3 DEF Run!Next
  <2> QED
    BY <2>3, <2>4
<1>6. CASE UNCHANGED <<closed, result, proof, final>>
  BY <1>0, <1>6, HiddenStep
<1>7. \/ CloseStopInbox \/ Publish \/ ObserveExit \/ CloseSteerInbox \/ CloseSteerLate
      \/ ShowResult \/ UNCHANGED <<closed, result, proof, final>>
  <2>1. CASE Scanning \/ Signal \/ Deadline \/ ExhaustUsage \/ FailGroup
    BY <2>1 DEF Scanning, ScanStops, ScanTimeout, ScanInterrupt, ScanSteers, Signal, Deadline,
       ExhaustUsage, FailGroup, files, outcome, told
  <2>2. CASE Showing
    BY <2>2 DEF Showing, ShowStatus, Defer, Refresh, files, outcome, told
  <2>3. CASE EndWork \/ Ending \/ Crash \/ ObserveExit
    BY <2>3 DEF EndWork, Ending, DrainStops, Settle, DrainSteers, Exit, Crash, files, outcome,
       told
  <2> QED
    BY <2>1, <2>2, <2>3
<1> QED
  BY <1>1, <1>2, <1>3, <1>4, <1>5, <1>6, <1>7

(* A stop call repairs a run, is accepted, or seals a paused one. *)
LEMMA StopperImplementsOutcome ==
    ASSUME RefInv, NEW s \in Stopper, Stopping(s)
    PROVE  [Run!Next]_(Run!outcomeVars)
<1>w. Words
  BY DEF RefInv, OutcomeInv
<1>1. CASE Look(s)
  <2>1. closed' = closed /\ persisted' = persisted /\ proof' = proof
    BY <1>1 DEF Look, files
  <2>2. CASE result' = result /\ final' = final
    BY <2>1, <2>2, HiddenStep
  <2>3. CASE rpc = "crashed" /\ result = "none" /\ result' = "failed" /\ final' = TRUE
    <3>1. proof # "observed" /\ ~final
      BY <1>w, <2>3 DEF Words
    <3>2. Run!Publish("failed")
      BY <2>1, <2>3, <3>1 DEF Run!Publish
    <3> QED
      BY <3>2 DEF Run!Next, Ended
  <2>4. CASE result = "none" /\ result' = "failed" /\ final' = final
    <3>1. ~final
      BY <1>w, <2>4 DEF Words
    <3>2. Run!Show("failed")
      BY <2>1, <2>4, <3>1 DEF Run!Show
    <3> QED
      BY <3>2 DEF Run!Next, Ended
  <2> QED
    BY <1>1, <2>2, <2>3, <2>4 DEF Look, Repair, told
<1>2. CASE Recheck(s)
  <2>1. closed' = closed /\ result' = result /\ proof' = proof /\ final' = final
    BY <1>2 DEF Recheck, outcome, told
  <2>2. CASE persisted' = persisted
    BY <2>1, <2>2, HiddenStep
  <2>3. CASE persisted' # persisted
    <3>1. /\ "stop" \notin closed /\ spc[s] = "recheck"
          /\ persisted' = persisted \cup {<<s, calls[s]>>}
      BY <1>2, <2>3 DEF Recheck, Stop
    <3>2. <<s, calls[s]>> \in Req
      BY <1>w, <3>1, ControlConstants DEF Words, TInv, TypeOK, Req
    <3>3. Run!Accept(<<s, calls[s]>>)
      BY <2>1, <3>1 DEF Run!Accept
    <3> QED
      BY <3>2, <3>3 DEF Run!Next
  <2> QED
    BY <2>2, <2>3
<1>3. CASE Seal(s)
  <2>1. closed' = closed /\ persisted' = persisted /\ proof' = proof /\ final' = final
    BY <1>3 DEF Seal, files, told
  <2>2. CASE result' = result
    BY <2>1, <2>2, HiddenStep
  <2>3. CASE result' # result
    <3>1. proof = "observed" /\ result' = "stopped" /\ spc[s] = "seal"
      BY <1>3, <2>3 DEF Seal, Stop
    <3>2. result = "paused"
      BY <2>3, <3>1 DEF RefInv, OutcomeInv, Sealable
    <3>3. Run!Seal
      BY <2>1, <3>1, <3>2 DEF Run!Seal
    <3> QED
      BY <3>3 DEF Run!Next
  <2> QED
    BY <2>2, <2>3
<1>4. CASE CheckPaused(s) \/ Request(s) \/ Write(s) \/ SealStatus(s)
  BY <1>4, HiddenStep DEF CheckPaused, Request, Write, SealStatus, files, outcome, told
<1> QED
  BY <1>1, <1>2, <1>3, <1>4 DEF Stopping

(* Every step of the program is a step of the abstract run, or hidden. *)
LEMMA StepImplementsOutcome ==
    ASSUME NoFault', RefInv, [Next]_vars
    PROVE  [Run!Next]_(Run!outcomeVars)
<1>1. CASE UNCHANGED vars
  BY <1>1, HiddenStep DEF vars, files, outcome, callers, stopping, told
<1>2. ASSUME NEW s \in Steerer, ChildAnswers(s) \/ Steering(s)
      PROVE  [Run!Next]_(Run!outcomeVars)
  BY <1>2, HiddenStep DEF ChildAnswers, Steering, Steer, files, outcome, callers, stopping, told
<1>3. CASE Interrupt \/ TimeOut
  BY <1>3, HiddenStep DEF Interrupt, TimeOut, outcome, callers, stopping, told
<1> QED
  BY <1>1, <1>2, <1>3, RunnerImplementsOutcome, StopperImplementsOutcome DEF Next

(* The request files, markers, flags and the order in which they are written *)
(* and read implement the promised run, for every set of callers, as long    *)
(* as the stop inbox does not fail, no dynamic group does after an          *)
(* interrupt, and no exit proof comes in the middle of a stop call.         *)
THEOREM FilesImplementOutcome == Spec => ImplementsOutcome
<1>1. Init => Run!Init
  BY DEF Init, Run!Init
<1>2. (StopInv \/ ~Clean) /\ (OutcomeInv \/ ~InTime) /\ [Next]_vars =>
          [Run!Next \/ faults' \cap {"close", "drain", "group", "lateProof"} # {}]_(Run!outcomeVars)
  <2> SUFFICES ASSUME StopInv \/ ~Clean, OutcomeInv \/ ~InTime, [Next]_vars,
                      faults' \cap {"close", "drain", "group", "lateProof"} = {}
               PROVE  [Run!Next]_(Run!outcomeVars)
    OBVIOUS
  <2>1. Clean /\ InTime
    BY FaultsStay DEF Clean, InTime
  <2> QED
    BY <2>1, StepImplementsOutcome DEF RefInv, NoFault
<1> QED
  BY <1>1, <1>2, StopInvAlways, OutcomeInvAlways, PTL DEF Spec, ImplementsOutcome
=============================================================================
