---------------------------- MODULE HarnessProofs ----------------------------
(***************************************************************************)
(* The integration harness, for every length of its waiting loop: however  *)
(* the worker and the script interleave, the script leaves nothing behind, *)
(* is green only for a suite that passed, and starts the suite only when   *)
(* the worker is ready.                                                    *)
(***************************************************************************)
EXTENDS Harness, TLAPS

\* The suite has ended, and the script is on its way out.
Leaving == {"cleanup", "wait", "exited"}

\* The worker exists once the trap knows of it, and its socket is removed
\* only if it may have one; what the trap has waited for is gone.
TrapKnowsTheWorker ==
    /\ ~serverPid => worker = "none" /\ ~sockPath
    /\ serverPid  => worker # "none"
    /\ pc = "start" => ~serverPid
    /\ pc = "wait" => serverPid
    /\ pc = "exited" => ~Alive /\ (sockPath => sock = "none")

\* Status 0 is given to a suite that passed, and only the suite passes.
GreenFollowsThePass ==
    /\ pc \in Leaving /\ status = 0 => outcome = "passed"
    /\ outcome = "passed" => reached /\ pc \in {"report"} \cup Leaving

\* On a new directory what the log says, this worker wrote, and a socket that
\* is there is the one it made; either way it was listening.
WhatIsSeenIsTheWorker ==
    /\ fresh => log # "stale" /\ (log = "announced" => announced)
    /\ fresh /\ transport = "http" /\ announced => listening \/ worker = "dead"
    /\ transport = "unix" /\ serverPid /\ sock # "none" => listening \/ worker = "dead"
    /\ pc \in {"probe", "look"} => serverPid /\ NeedsServer
    /\ ReadinessGate

\* What the loop counts.
Turns ==
    /\ tries \in 0 .. MaxTries /\ status \in 0 .. 2
    /\ pc = "look" => tries < MaxTries

Configured ==
    /\ transport \in {"subprocess", "http", "unix", "other"}
    /\ preset \in BOOLEAN /\ otherUp \in BOOLEAN /\ fresh \in BOOLEAN

HInv ==
    /\ Turns
    /\ Configured
    /\ TypeOK
    /\ TrapKnowsTheWorker
    /\ GreenFollowsThePass
    /\ WhatIsSeenIsTheWorker

LEMMA InitHInv == Init => HInv
<1> SUFFICES ASSUME Init PROVE HInv
  OBVIOUS
<1>1. Turns /\ Configured
  BY TriesAssumption DEF Init, Turns, Configured
<1>2. TypeOK
  BY <1>1 DEF Init, TypeOK, Turns
<1>3. TrapKnowsTheWorker /\ GreenFollowsThePass
  BY DEF Init, TrapKnowsTheWorker, GreenFollowsThePass, Leaving
<1>4. WhatIsSeenIsTheWorker
  BY DEF Init, WhatIsSeenIsTheWorker, ReadinessGate
<1> QED BY <1>1, <1>2, <1>3, <1>4 DEF HInv

\* sed and head, as the four states of the log have it.
LEMMA PortOutcomes ==
    TypeOK /\ LookForPort =>
        /\ pc = "look" /\ transport = "http"
        /\ \/ log = "absent" /\ Exit(2)
           \/ log = "empty" /\ TryAgain
           \/ log = "stale" /\ Resolve("old")
           \/ log = "announced" /\ Resolve("own")
BY DEF TypeOK, LookForPort

LEMMA TurnsStep ==
    Turns /\ TypeOK /\ [Next]_vars => Turns'
<1> SUFFICES ASSUME Turns, TypeOK, [Next]_vars PROVE Turns'
  OBVIOUS
<1> USE DEF Turns, config, script, process
<1>1. CASE OpenLog
  BY <1>1 DEF OpenLog
<1>2. CASE Listen
  BY <1>2 DEF Listen
<1>3. CASE Announce
  BY <1>3 DEF Announce
<1>4. CASE Crash
  BY <1>4 DEF Crash, Die
<1>5. CASE Terminate
  BY <1>5 DEF Terminate, Die
<1>6. CASE UseBinary
  BY <1>6 DEF UseBinary, Resolve
<1>7. CASE UsePreset
  BY <1>7 DEF UsePreset, Resolve
<1>8. CASE UnknownTransport
  BY <1>8 DEF UnknownTransport, Exit
<1>9. CASE NotExecutable
  BY <1>9 DEF NotExecutable, Exit
<1>10. CASE Launch
  BY <1>10 DEF Launch
<1>11. CASE Probe
  BY <1>11 DEF Probe, Exit, Goto
<1>12. CASE LookForPort
  BY <1>12, PortOutcomes, TriesAssumption DEF Exit, Resolve, TryAgain
<1>13. CASE LookForSocket
  BY <1>13, TriesAssumption DEF LookForSocket, Resolve, TryAgain
<1>14. CASE TimedOut
  BY <1>14 DEF TimedOut, Exit
<1>15. CASE StageTests
  BY <1>15 DEF StageTests, Goto
<1>16. CASE StagingFails
  BY <1>16 DEF StagingFails, Exit
<1>17. CASE BeginSuite
  BY <1>17 DEF BeginSuite
<1>18. CASE EndSuite
  BY <1>18 DEF EndSuite
<1>19. CASE Report
  BY <1>19 DEF Report, Exit
<1>20. CASE Cleanup
  BY <1>20 DEF Cleanup, Goto, Removed
<1>21. CASE Waited
  BY <1>21 DEF Waited, Goto, Removed
<1>22. CASE UNCHANGED vars
  BY <1>22 DEF vars
<1> QED
  BY <1>1, <1>2, <1>3, <1>4, <1>5, <1>6, <1>7, <1>8, <1>9, <1>10, <1>11, <1>12,
     <1>13, <1>14, <1>15, <1>16, <1>17, <1>18, <1>19, <1>20, <1>21, <1>22
  DEF Next, Worker, Script, Exited

LEMMA TypeStep ==
    TypeOK /\ TrapKnowsTheWorker /\ Configured /\ Turns' /\ [Next]_vars => TypeOK'
<1> SUFFICES ASSUME TypeOK, TrapKnowsTheWorker, Configured, Turns', [Next]_vars PROVE TypeOK'
  OBVIOUS
<1> USE DEF TypeOK, Configured, Turns, config, script, process
<1>1. CASE OpenLog
  BY <1>1 DEF OpenLog
<1>2. CASE Listen
  BY <1>2 DEF Listen
<1>3. CASE Announce
  BY <1>3 DEF Announce
<1>4. CASE Crash
  <2>1. UNCHANGED script
    BY <1>4 DEF Crash, Die
  <2>2. worker' = "dead" /\ listening' = FALSE /\ UNCHANGED <<log, sock, announced>>
    BY <1>4 DEF Crash, Die
  <2>3. /\ serverPid' \in BOOLEAN /\ sockPath' \in BOOLEAN /\ reached' \in BOOLEAN
        /\ listening' \in BOOLEAN /\ announced' \in BOOLEAN
    BY <2>1, <2>2
  <2> QED BY <2>1, <2>2, <2>3
<1>5. CASE Terminate
  BY <1>5, ZenonT(60) DEF Terminate, Die
<1>6. CASE UseBinary
  BY <1>6 DEF UseBinary, Resolve
<1>7. CASE UsePreset
  BY <1>7 DEF UsePreset, Resolve
<1>8. CASE UnknownTransport
  BY <1>8 DEF UnknownTransport, Exit
<1>9. CASE NotExecutable
  BY <1>9 DEF NotExecutable, Exit
<1>10. CASE Launch
  <2>1. /\ serverPid' \in BOOLEAN /\ sockPath' \in BOOLEAN /\ reached' \in BOOLEAN
        /\ listening' \in BOOLEAN /\ announced' \in BOOLEAN
    BY <1>10 DEF Launch
  <2>2. pc' = "probe" /\ worker' = "forked" /\ sock' \in {"none", sock}
    BY <1>10 DEF Launch
  <2>3. UNCHANGED <<location, outcome, log, listening>> /\ ~listening
    BY <1>10 DEF Launch, TrapKnowsTheWorker
  <2> QED BY <2>1, <2>2, <2>3
<1>11. CASE Probe
  BY <1>11 DEF Probe, Exit, Goto
<1>12. CASE LookForPort
  BY <1>12, PortOutcomes DEF Exit, Resolve, TryAgain
<1>13. CASE LookForSocket
  BY <1>13 DEF LookForSocket, Resolve, TryAgain
<1>14. CASE TimedOut
  BY <1>14 DEF TimedOut, Exit
<1>15. CASE StageTests
  BY <1>15 DEF StageTests, Goto
<1>16. CASE StagingFails
  BY <1>16 DEF StagingFails, Exit
<1>17. CASE BeginSuite
  <2>1. Reachable \in BOOLEAN
    BY DEF Reachable
  <2> QED BY <1>17, <2>1 DEF BeginSuite
<1>18. CASE EndSuite
  BY <1>18 DEF EndSuite, Unconnected
<1>19. CASE Report
  BY <1>19 DEF Report, Exit
<1>20. CASE Cleanup
  BY <1>20 DEF Cleanup, Goto, Removed
<1>21. CASE Waited
  BY <1>21 DEF Waited, Goto, Removed
<1>22. CASE UNCHANGED vars
  BY <1>22 DEF vars
<1> QED
  BY <1>1, <1>2, <1>3, <1>4, <1>5, <1>6, <1>7, <1>8, <1>9, <1>10, <1>11, <1>12,
     <1>13, <1>14, <1>15, <1>16, <1>17, <1>18, <1>19, <1>20, <1>21, <1>22
  DEF Next, Worker, Script, Exited

LEMMA TrapStep ==
    TrapKnowsTheWorker /\ TypeOK /\ [Next]_vars => TrapKnowsTheWorker'
<1> SUFFICES ASSUME TrapKnowsTheWorker, TypeOK, [Next]_vars PROVE TrapKnowsTheWorker'
  OBVIOUS
<1> USE DEF TrapKnowsTheWorker, Alive, config, script, process
<1>1. CASE OpenLog
  BY <1>1 DEF OpenLog
<1>2. CASE Listen
  BY <1>2 DEF Listen
<1>3. CASE Announce
  BY <1>3 DEF Announce
<1>4. CASE Crash
  BY <1>4 DEF Crash, Die
<1>5. CASE Terminate
  BY <1>5 DEF Terminate, Die
<1>6. CASE UseBinary
  BY <1>6 DEF UseBinary, Resolve
<1>7. CASE UsePreset
  BY <1>7 DEF UsePreset, Resolve
<1>8. CASE UnknownTransport
  BY <1>8 DEF UnknownTransport, Exit
<1>9. CASE NotExecutable
  BY <1>9 DEF NotExecutable, Exit
<1>10. CASE Launch
  BY <1>10 DEF Launch
<1>11. CASE Probe
  BY <1>11 DEF Probe, Exit, Goto
<1>12. CASE LookForPort
  BY <1>12, PortOutcomes DEF Exit, Resolve, TryAgain
<1>13. CASE LookForSocket
  BY <1>13 DEF LookForSocket, Resolve, TryAgain
<1>14. CASE TimedOut
  BY <1>14 DEF TimedOut, Exit
<1>15. CASE StageTests
  BY <1>15 DEF StageTests, Goto
<1>16. CASE StagingFails
  BY <1>16 DEF StagingFails, Exit
<1>17. CASE BeginSuite
  BY <1>17 DEF BeginSuite
<1>18. CASE EndSuite
  BY <1>18 DEF EndSuite
<1>19. CASE Report
  BY <1>19 DEF Report, Exit
<1>20. CASE Cleanup
  BY <1>20 DEF Cleanup, Goto, Removed
<1>21. CASE Waited
  BY <1>21 DEF Waited, Goto, Removed
<1>22. CASE UNCHANGED vars
  BY <1>22 DEF vars
<1> QED
  BY <1>1, <1>2, <1>3, <1>4, <1>5, <1>6, <1>7, <1>8, <1>9, <1>10, <1>11, <1>12,
     <1>13, <1>14, <1>15, <1>16, <1>17, <1>18, <1>19, <1>20, <1>21, <1>22
  DEF Next, Worker, Script, Exited

LEMMA GreenStep ==
    GreenFollowsThePass /\ TypeOK /\ [Next]_vars => GreenFollowsThePass'
<1> SUFFICES ASSUME GreenFollowsThePass, TypeOK, [Next]_vars PROVE GreenFollowsThePass'
  OBVIOUS
<1> USE DEF GreenFollowsThePass, Leaving, config, script, process
<1>1. CASE OpenLog
  BY <1>1 DEF OpenLog
<1>2. CASE Listen
  BY <1>2 DEF Listen
<1>3. CASE Announce
  BY <1>3 DEF Announce
<1>4. CASE Crash
  BY <1>4 DEF Crash, Die
<1>5. CASE Terminate
  BY <1>5 DEF Terminate, Die
<1>6. CASE UseBinary
  BY <1>6 DEF UseBinary, Resolve
<1>7. CASE UsePreset
  BY <1>7 DEF UsePreset, Resolve
<1>8. CASE UnknownTransport
  BY <1>8 DEF UnknownTransport, Exit
<1>9. CASE NotExecutable
  BY <1>9 DEF NotExecutable, Exit
<1>10. CASE Launch
  BY <1>10 DEF Launch
<1>11. CASE Probe
  BY <1>11 DEF Probe, Exit, Goto
<1>12. CASE LookForPort
  BY <1>12, PortOutcomes DEF Exit, Resolve, TryAgain
<1>13. CASE LookForSocket
  BY <1>13 DEF LookForSocket, Resolve, TryAgain
<1>14. CASE TimedOut
  BY <1>14 DEF TimedOut, Exit
<1>15. CASE StageTests
  BY <1>15 DEF StageTests, Goto
<1>16. CASE StagingFails
  BY <1>16 DEF StagingFails, Exit
<1>17. CASE BeginSuite
  BY <1>17 DEF BeginSuite
<1>18. CASE EndSuite
  BY <1>18 DEF EndSuite, Unconnected
<1>19. CASE Report
  BY <1>19 DEF Report, Exit
<1>20. CASE Cleanup
  BY <1>20 DEF Cleanup, Goto, Removed
<1>21. CASE Waited
  BY <1>21 DEF Waited, Goto, Removed
<1>22. CASE UNCHANGED vars
  BY <1>22 DEF vars
<1> QED
  BY <1>1, <1>2, <1>3, <1>4, <1>5, <1>6, <1>7, <1>8, <1>9, <1>10, <1>11, <1>12,
     <1>13, <1>14, <1>15, <1>16, <1>17, <1>18, <1>19, <1>20, <1>21, <1>22
  DEF Next, Worker, Script, Exited

LEMMA SeenStep ==
    WhatIsSeenIsTheWorker /\ TrapKnowsTheWorker /\ TypeOK /\ Configured /\ [Next]_vars => WhatIsSeenIsTheWorker'
<1> SUFFICES ASSUME WhatIsSeenIsTheWorker, TrapKnowsTheWorker, TypeOK, Configured, [Next]_vars PROVE WhatIsSeenIsTheWorker'
  OBVIOUS
<1> USE DEF WhatIsSeenIsTheWorker, TrapKnowsTheWorker, TypeOK, Configured, ReadinessGate, NeedsServer, Alive, config, script, process
<1>1. CASE OpenLog
  BY <1>1 DEF OpenLog
<1>2. CASE Listen
  BY <1>2 DEF Listen
<1>3. CASE Announce
  BY <1>3 DEF Announce
<1>4. CASE Crash
  BY <1>4 DEF Crash, Die
<1>5. CASE Terminate
  BY <1>5 DEF Terminate, Die
<1>6. CASE UseBinary
  BY <1>6 DEF UseBinary, Resolve
<1>7. CASE UsePreset
  BY <1>7 DEF UsePreset, Resolve
<1>8. CASE UnknownTransport
  BY <1>8 DEF UnknownTransport, Exit
<1>9. CASE NotExecutable
  BY <1>9 DEF NotExecutable, Exit
<1>10. CASE Launch
  BY <1>10 DEF Launch
<1>11. CASE Probe
  BY <1>11 DEF Probe, Exit, Goto
<1>12. CASE LookForPort
  BY <1>12, PortOutcomes DEF Exit, Resolve, TryAgain
<1>13. CASE LookForSocket
  BY <1>13 DEF LookForSocket, Resolve, TryAgain
<1>14. CASE TimedOut
  BY <1>14 DEF TimedOut, Exit
<1>15. CASE StageTests
  BY <1>15 DEF StageTests, Goto
<1>16. CASE StagingFails
  BY <1>16 DEF StagingFails, Exit
<1>17. CASE BeginSuite
  BY <1>17 DEF BeginSuite
<1>18. CASE EndSuite
  BY <1>18 DEF EndSuite
<1>19. CASE Report
  BY <1>19 DEF Report, Exit
<1>20. CASE Cleanup
  BY <1>20 DEF Cleanup, Goto, Removed
<1>21. CASE Waited
  BY <1>21 DEF Waited, Goto, Removed
<1>22. CASE UNCHANGED vars
  BY <1>22 DEF vars
<1> QED
  BY <1>1, <1>2, <1>3, <1>4, <1>5, <1>6, <1>7, <1>8, <1>9, <1>10, <1>11, <1>12,
     <1>13, <1>14, <1>15, <1>16, <1>17, <1>18, <1>19, <1>20, <1>21, <1>22
  DEF Next, Worker, Script, Exited

LEMMA ConfigStep == TypeOK /\ [Next]_vars => UNCHANGED config
BY PortOutcomes
   DEF Next, Worker, Script, Exited, OpenLog, Listen, Announce, Crash, Terminate, Die,
       UseBinary, UsePreset, UnknownTransport, NotExecutable, Launch, Probe, LookForSocket,
       TimedOut, StageTests, StagingFails, BeginSuite, EndSuite, Report, Cleanup, Waited,
       Goto, Exit, Resolve, TryAgain, Removed, vars

LEMMA HarnessInv == Spec => []HInv
<1>1. HInv /\ [Next]_vars => HInv'
  BY ConfigStep, TurnsStep, TypeStep, TrapStep, GreenStep, SeenStep
  DEF HInv, Configured, config
<1> QED BY <1>1, InitHInv, PTL DEF Spec

-----------------------------------------------------------------------------
(* The script and the worker stay within their states, and the loop within *)
(* its turns, for every number of turns.                                   *)
THEOREM HarnessTyped == Spec => []TypeOK
<1>1. HInv => TypeOK
  BY DEF HInv
<1> QED BY <1>1, HarnessInv, PTL

(* However the script ends, neither the worker nor its socket is left      *)
(* (run-integration.sh, cleanup).                                          *)
THEOREM LeavesNothing == Spec => []NothingLeftBehind
<1>1. HInv => NothingLeftBehind
  BY DEF HInv, TrapKnowsTheWorker, NothingLeftBehind
<1> QED BY <1>1, HarnessInv, PTL

(* Status 0 is a suite that passed against a worker that was reached.      *)
THEOREM GreenIsTested == Spec => []GreenMeansTested
<1>1. HInv => GreenMeansTested
  BY DEF HInv, GreenFollowsThePass, Leaving, GreenMeansTested
<1> QED BY <1>1, HarnessInv, PTL

(* The suite is not begun before the worker has served its endpoint and    *)
(* announced it (the readiness gate).                                      *)
THEOREM GateHolds == Spec => []ReadinessGate
<1>1. HInv => ReadinessGate
  BY DEF HInv, WhatIsSeenIsTheWorker
<1> QED BY <1>1, HarnessInv, PTL
=============================================================================
