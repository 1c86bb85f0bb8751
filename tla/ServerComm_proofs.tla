------------------------- MODULE ServerComm_proofs -------------------------
(***************************************************************************)
(* The order in which DSServerCommImp::stop takes things down is right:    *)
(* each is gone only after the threads that use it.                        *)
(***************************************************************************)
EXTENDS ServerComm, TLAPS

Alive == {"polls", "handles", "locks"}

\* Where in stop a thread is known to be gone.
TimerGone ==
  ui \in {"deleteBeat", "stopRunning", "join", "clearList", "closeSocket", "shotDownFTP"}
    => timer = "none"

ReceiverGone ==
  ui \in {"clearList", "closeSocket", "shotDownFTP"} => receiver \notin Alive

\* The lock is held by a thread that runs.
Held ==
  /\ holder = "timer" => timer = "ticks"
  /\ holder = "receiver" => receiver = "locks"

\* Before Init nothing is there, and while it runs only what it has made.
Made ==
  /\ ~side => ui \in {"idle", "init"} /\ timer = "none" /\ receiver = "none"
  /\ ui = "startThread" => side /\ listed > 0 /\ receiver = "none"
  /\ listed > 0 => open
  /\ ftp => isFTPOn
  /\ ui = "closeSocket" => listed = 0
  /\ receiver \in {"none", "ended"} \cup Alive

CommInv ==
  /\ listed \in Nat
  /\ TimerGone /\ ReceiverGone /\ Held /\ Made
  /\ NothingUsedAfterStop
  /\ FtpDownAfterStop

----------------------------------------------------------------------------
(* The steps of stop *)

\* StopSteps as a relation between steps.
LEMMA StepOrder ==
  /\ AtStep("zeroPeriod") => ui = "zeroPeriod" /\ ui' = "awaitTimer"
  /\ AtStep("awaitTimer") => ui = "awaitTimer" /\ ui' = "deleteBeat"
  /\ AtStep("deleteBeat") => ui = "deleteBeat" /\ ui' = "stopRunning"
  /\ AtStep("stopRunning") => ui = "stopRunning" /\ ui' = "join"
  /\ AtStep("join") => ui = "join" /\ ui' = "clearList"
  /\ AtStep("clearList") => ui = "clearList" /\ ui' = "closeSocket"
  /\ AtStep("closeSocket") => ui = "closeSocket" /\ ui' = "shotDownFTP"
  /\ AtStep("shotDownFTP") => ui = "shotDownFTP" /\ ui' = "init"
  <1>1. /\ Len(StopSteps) = 9
        /\ StopSteps[1] = "zeroPeriod" /\ StopSteps[2] = "awaitTimer"
        /\ StopSteps[3] = "deleteBeat" /\ StopSteps[4] = "stopRunning"
        /\ StopSteps[5] = "join" /\ StopSteps[6] = "clearList"
        /\ StopSteps[7] = "closeSocket" /\ StopSteps[8] = "shotDownFTP"
        /\ StopSteps[9] = "init"
    BY DEF StopSteps
  <1>2. \A i \in 1 .. 8 : i = 1 \/ i = 2 \/ i = 3 \/ i = 4 \/ i = 5 \/ i = 6 \/ i = 7 \/ i = 8
    OBVIOUS
  <1>3. \A step : AtStep(step) =>
          /\ ui = step
          /\ \E i \in 1 .. 8 : StopSteps[i] = step /\ ui' = StopSteps[i + 1]
    BY <1>1 DEF AtStep
  <1>4. /\ 1 + 1 = 2 /\ 2 + 1 = 3 /\ 3 + 1 = 4 /\ 4 + 1 = 5
        /\ 5 + 1 = 6 /\ 6 + 1 = 7 /\ 7 + 1 = 8 /\ 8 + 1 = 9
    OBVIOUS
  <1> QED
    BY <1>1, <1>2, <1>3, <1>4

\* The steps at which the UI thread is in stop.
LEMMA StoppingSteps ==
  Stopping <=> ui \in {"zeroPeriod", "awaitTimer", "deleteBeat", "stopRunning", "join",
                       "clearList", "closeSocket", "shotDownFTP"}
  <1>1. /\ Len(StopSteps) = 9
        /\ StopSteps[1] = "zeroPeriod" /\ StopSteps[2] = "awaitTimer"
        /\ StopSteps[3] = "deleteBeat" /\ StopSteps[4] = "stopRunning"
        /\ StopSteps[5] = "join" /\ StopSteps[6] = "clearList"
        /\ StopSteps[7] = "closeSocket" /\ StopSteps[8] = "shotDownFTP"
    BY DEF StopSteps
  <1>2. 1 .. 9 - 1 = {1, 2, 3, 4, 5, 6, 7, 8}
    OBVIOUS
  <1>3. Stopping <=> \E i \in {1, 2, 3, 4, 5, 6, 7, 8} : ui = StopSteps[i]
    BY <1>1, <1>2, Zenon DEF Stopping
  <1> QED
    BY <1>1, <1>3

\* The step Stop begins with.
LEMMA FirstStep == StopSteps[1] = "zeroPeriod"
  BY DEF StopSteps

\* A step of stop keeps the invariant.
LEMMA StopKeeps ==
  ASSUME CommInv, Stop
  PROVE  CommInv'
  <1> USE DEF CommInv, TimerGone, ReceiverGone, Held, Made, Alive,
              NothingUsedAfterStop, FtpDownAfterStop, threads, resources, ftpServer
  <1>1. CASE ZeroPeriod
    BY <1>1, StepOrder DEF ZeroPeriod
  <1>2. CASE AwaitTimer
    BY <1>2, StepOrder DEF AwaitTimer
  <1>3. CASE DeleteBeat
    BY <1>3, StepOrder DEF DeleteBeat
  <1>4. CASE StopRunning
    BY <1>4, StepOrder DEF StopRunning
  <1>5. CASE Join
    BY <1>5, StepOrder DEF Join
  <1>6. CASE ClearList
    BY <1>6, StepOrder DEF ClearList
  <1>7. CASE CloseSocket
    BY <1>7, StepOrder DEF CloseSocket
  <1>8. CASE ShotDownFTP
    BY <1>8, StepOrder DEF ShotDownFTP, ShotDown
  <1> QED
    BY <1>1, <1>2, <1>3, <1>4, <1>5, <1>6, <1>7, <1>8 DEF Stop

\* Every other step of the UI thread does.
LEMMA UIKeeps ==
  ASSUME CommInv, ShowMonitoring \/ Restart \/ Checkbox \/ StartDeployTask
  PROVE  CommInv'
  <1> USE DEF CommInv, TimerGone, ReceiverGone, Held, Made, Alive,
              NothingUsedAfterStop, FtpDownAfterStop, threads, resources, ftpServer
  <1>1. CASE ShowMonitoring
    BY <1>1, FirstStep DEF ShowMonitoring
  <1>2. ASSUME NEW n \in 0 .. MaxServers, InitComm(n) PROVE CommInv'
    <2>1. n \in Nat
      BY ServersAssumption
    <2>2. CASE n = 0
      BY <1>2, <2>2 DEF InitComm, InitNeeded
    <2>3. CASE n > 0
      BY <1>2, <2>1, <2>3 DEF InitComm, InitNeeded
    <2> QED
      BY <2>1, <2>2, <2>3
  <1>3. CASE InitAgain
    BY <1>3 DEF InitAgain, InitNeeded
  <1>4. CASE StartThread
    BY <1>4 DEF StartThread
  <1>5. ASSUME NEW start \in BOOLEAN, SetMonitor(start) PROVE CommInv'
    BY <1>5 DEF SetMonitor
  <1>6. CASE StartDeployTask
    BY <1>6 DEF StartDeployTask, StartFTP
  <1> QED
    BY <1>1, <1>2, <1>3, <1>4, <1>5, <1>6 DEF Restart, Checkbox

\* And every step of the other threads.
LEMMA ThreadsKeep ==
  ASSUME CommInv, TimerThread \/ ReceiveThread
  PROVE  CommInv'
  <1> USE DEF CommInv, TimerGone, ReceiverGone, Held, Made, Alive,
              NothingUsedAfterStop, FtpDownAfterStop, threads, resources, ftpServer
  <1>1. CASE Tick
    BY <1>1 DEF Tick, AfterCallback
  <1>2. CASE TimerLocks
    BY <1>2 DEF TimerLocks
  <1>3. CASE TimerUnlocks
    BY <1>3 DEF TimerUnlocks, AfterCallback
  <1>4. CASE TimerEnds
    BY <1>4 DEF TimerEnds
  <1>5. CASE Poll
    BY <1>5 DEF Poll
  <1>6. CASE Handle
    BY <1>6 DEF Handle, ShotDown
  <1>7. CASE ReceiverLocks
    BY <1>7 DEF ReceiverLocks
  <1>8. CASE ReceiverUnlocks
    BY <1>8 DEF ReceiverUnlocks, StartFTP
  <1> QED
    BY <1>1, <1>2, <1>3, <1>4, <1>5, <1>6, <1>7, <1>8 DEF TimerThread, ReceiveThread

\* Together: no step breaks the invariant.
LEMMA NextKeeps == CommInv /\ [Next]_vars => CommInv'
  <1> SUFFICES ASSUME CommInv, [Next]_vars PROVE CommInv'
    OBVIOUS
  <1>1. CASE UNCHANGED vars
    BY <1>1 DEF vars, CommInv, TimerGone, ReceiverGone, Held, Made, Alive,
       NothingUsedAfterStop, FtpDownAfterStop, threads, resources, ftpServer
  <1> QED
    BY <1>1, StopKeeps, UIKeeps, ThreadsKeep DEF Next

\* It holds before the first Init.
LEMMA InitHolds == Init => CommInv
  BY DEF Init, CommInv, TimerGone, ReceiverGone, Held, Made, Alive,
     NothingUsedAfterStop, FtpDownAfterStop

----------------------------------------------------------------------------
(* The shape of the state *)

\* TypeOK with the steps of stop by their names, in two parts.
Modes ==
  /\ ui \in {"zeroPeriod", "awaitTimer", "deleteBeat", "stopRunning", "join",
            "clearList", "closeSocket", "shotDownFTP",
            "idle", "init", "startThread", "setMonitor"}
  /\ listed \in 0 .. MaxServers
  /\ timer \in {"none", "waits", "ticks"}
  /\ receiver \in {"none", "polls", "handles", "locks", "ended"}
  /\ holder \in {"none", "timer", "receiver"}
  /\ period => timer # "none"

Flags ==
  /\ side \in BOOLEAN /\ open \in BOOLEAN /\ beatTimer \in BOOLEAN
  /\ needSend \in BOOLEAN /\ period \in BOOLEAN /\ running \in BOOLEAN
  /\ ftp \in BOOLEAN /\ isFTPOn \in BOOLEAN

LEMMA ShapeIsType == CommInv /\ Modes /\ Flags => TypeOK
  <1> SUFFICES ASSUME CommInv, Modes, Flags PROVE TypeOK
    OBVIOUS
  <1>1. {side, open, beatTimer, needSend, period, running, ftp, isFTPOn} \subseteq BOOLEAN
    BY Zenon DEF Flags
  <1>2. Stopping \/ ui \in {"idle", "init", "startThread", "setMonitor"}
    BY StoppingSteps DEF Modes
  <1> QED
    BY <1>1, <1>2, Zenon DEF TypeOK, Modes, CommInv, Held

\* Every step keeps the modes: the timer thread is there as long as its period
\* is not zero.
LEMMA ModesKept == CommInv /\ Modes /\ [Next]_vars => Modes'
  <1> SUFFICES ASSUME CommInv, Modes, [Next]_vars PROVE Modes'
    OBVIOUS
  <1> USE DEF Modes, threads, resources, ftpServer
  <1>1. CASE Stop
    BY <1>1, StepOrder, ServersAssumption
       DEF Stop, ZeroPeriod, AwaitTimer, DeleteBeat, StopRunning, Join,
           ClearList, CloseSocket, ShotDownFTP
  <1>2. CASE ShowMonitoring
    BY <1>2, FirstStep DEF ShowMonitoring
  <1>3. CASE Checkbox
    BY <1>3 DEF Checkbox, SetMonitor
  <1>4. CASE StartDeployTask
    BY <1>4 DEF StartDeployTask
  <1>5. ASSUME NEW n \in 0 .. MaxServers, InitComm(n) PROVE Modes'
    <2>1. CASE n > 0
      BY <1>5, <2>1 DEF InitComm
    <2>2. CASE ~(n > 0)
      BY <1>5, <2>2 DEF InitComm
    <2> QED
      BY <2>1, <2>2
  <1>6. CASE InitAgain \/ StartThread
    BY <1>6 DEF InitAgain, StartThread
  <1>7. CASE ui = "setMonitor" /\ SetMonitor(TRUE)
    BY <1>7 DEF SetMonitor
  <1>8. CASE TimerThread
    BY <1>8 DEF TimerThread, Tick, TimerLocks, TimerUnlocks, TimerEnds, AfterCallback,
       CommInv, Held
  <1>9. CASE Poll
    BY <1>9 DEF Poll
  <1>10. CASE Handle \/ ReceiverLocks \/ ReceiverUnlocks
    BY <1>10 DEF Handle, ReceiverLocks, ReceiverUnlocks
  <1>11. CASE UNCHANGED vars
    BY <1>11 DEF vars
  <1> QED
    BY <1>1, <1>2, <1>3, <1>4, <1>5, <1>6, <1>7, <1>8, <1>9, <1>10, <1>11
       DEF Next, Restart, ReceiveThread

\* And the flags.
LEMMA FlagsKept == Flags /\ [Next]_vars => Flags'
  <1> SUFFICES ASSUME Flags, [Next]_vars PROVE Flags'
    OBVIOUS
  <1> USE DEF Flags, threads, resources, ftpServer
  <1>1. ShotDown \/ StartFTP \/ UNCHANGED ftpServer => ftp' \in BOOLEAN /\ isFTPOn' \in BOOLEAN
    BY Zenon DEF ShotDown, StartFTP
  <1>2. CASE Stop
    BY <1>1, <1>2, Zenon
       DEF Stop, ZeroPeriod, AwaitTimer, DeleteBeat, StopRunning, Join,
           ClearList, CloseSocket, ShotDownFTP
  <1>3. CASE ShowMonitoring \/ Checkbox \/ StartDeployTask
    BY <1>1, <1>3, Zenon DEF ShowMonitoring, Checkbox, SetMonitor, StartDeployTask
  <1>4. CASE Restart
    <2>1. ASSUME NEW n \in 0 .. MaxServers, InitComm(n) PROVE Flags'
      <3>1. (n > 0) \in BOOLEAN
        OBVIOUS
      <3> QED
        BY <2>1, <3>1, Zenon DEF InitComm
    <2>2. CASE InitAgain \/ StartThread
      BY <2>2, Zenon DEF InitAgain, StartThread
    <2>3. CASE ui = "setMonitor" /\ SetMonitor(TRUE)
      BY <2>3, Zenon DEF SetMonitor
    <2> QED
      BY <1>4, <2>1, <2>2, <2>3 DEF Restart
  <1>5. CASE TimerThread
    BY <1>5, Zenon DEF TimerThread, Tick, TimerLocks, TimerUnlocks, TimerEnds
  <1>6. CASE ReceiveThread
    BY <1>1, <1>6, Zenon DEF ReceiveThread, Poll, Handle, ReceiverLocks, ReceiverUnlocks
  <1>7. CASE UNCHANGED vars
    BY <1>7, Zenon DEF vars
  <1> QED
    BY <1>2, <1>3, <1>4, <1>5, <1>6, <1>7 DEF Next

----------------------------------------------------------------------------
(* The theorems *)

\* The state keeps its shape: _socketLock is held by a thread that is sending,
\* and the timer's thread does not end before its period is zero.
THEOREM TypeCorrect == Spec => []TypeOK
  <1>1. Init => Modes
    BY ServersAssumption, SMT DEF Init, Modes
  <1>2. Init => Flags
    BY Zenon DEF Init, Flags
  <1> QED
    BY <1>1, <1>2, InitHolds, NextKeeps, ModesKept, FlagsKept, ShapeIsType, PTL DEF Spec

\* Whatever stop takes down is no longer used by the timer or the receive
\* thread, and once stop has returned no thread brings the FTP server up again.
THEOREM QuietStop == Spec => []QuietAfterStop
  <1>1. CommInv => QuietAfterStop
    BY DEF CommInv, QuietAfterStop
  <1> QED
    BY <1>1, InitHolds, NextKeeps, PTL DEF Spec

\* The receive thread and the timer are started once.
THEOREM StartedOnce == Spec => InitOnce
  <1>1. CommInv /\ [Next]_vars =>
          [/\ receiver = "ended" => receiver' = "ended"
           /\ side /\ timer = "none" => timer' = "none"]_<<receiver, timer>>
    <2> SUFFICES ASSUME CommInv, [Next]_vars
                 PROVE  /\ receiver = "ended" => receiver' = "ended"
                        /\ side /\ timer = "none" => timer' = "none"
      OBVIOUS
    <2> USE DEF CommInv, Held, Made, threads, resources
    <2>1. CASE Stop
      BY <2>1 DEF Stop, ZeroPeriod, AwaitTimer, DeleteBeat, StopRunning, Join,
         ClearList, CloseSocket, ShotDownFTP
    <2>2. CASE Restart
      BY <2>2 DEF Restart, InitComm, InitNeeded, InitAgain, StartThread, SetMonitor
    <2>3. CASE TimerThread
      BY <2>3 DEF TimerThread, Tick, TimerLocks, TimerUnlocks, TimerEnds
    <2>4. CASE ReceiveThread
      BY <2>4 DEF ReceiveThread, Poll, Handle, ReceiverLocks, ReceiverUnlocks
    <2>5. CASE ShowMonitoring \/ Checkbox \/ StartDeployTask \/ UNCHANGED vars
      BY <2>5 DEF ShowMonitoring, Checkbox, SetMonitor, StartDeployTask, vars
    <2> QED
      BY <2>1, <2>2, <2>3, <2>4, <2>5 DEF Next
  <1> QED
    BY <1>1, InitHolds, NextKeeps, PTL DEF Spec, InitOnce
=============================================================================
