----------------------------- MODULE ServerComm -----------------------------
(***************************************************************************)
(* The life of the communication with the DSServers: DSServerComm, the     *)
(* DSServerCommImp it makes, its timer and its receive thread, and         *)
(* ControllManager::showMonitoring, which stops and initialises it.        *)
(*                                                                         *)
(* DSServerCommImp::stop takes down, one after the other, what the two     *)
(* other threads use without a lock: the TimerHeardBeat, the server list,  *)
(* the socket and the FTP server.  What is sent and received is abstracted *)
(* to the use of the list, the socket and _socketLock.                     *)
(***************************************************************************)
EXTENDS Naturals, Sequences

CONSTANT MaxServers   \* bound on the DSServers of a project

ASSUME ServersAssumption == MaxServers \in Nat \ {0}

VARIABLES
  ui,        \* the step of showMonitoring the UI thread is at, or "idle"
  side,      \* _side has been made
  listed,    \* the number of DSServers in _dsserverList
  open,      \* _socket is bound
  beatTimer, \* _hearBeatTimer is not null
  needSend,  \* TimerHeardBeat::_needSend
  period,    \* the period of _timer is not zero
  timer,     \* the thread of _timer: "none", "waits" or "ticks"
  running,   \* _running
  receiver,  \* the receive thread: "none", "polls", "handles" a datagram,
             \* "locks" to send or start the FTP server, or "ended"
  holder,    \* the thread that holds _socketLock, or "none"
  ftp,       \* the FTP server is up
  isFTPOn    \* _isFTPOn

ftpServer == <<ftp, isFTPOn>>
threads == <<timer, receiver, holder>>
resources == <<side, listed, open, beatTimer, period, running>>
vars == <<ui, threads, resources, needSend, ftpServer>>

Init ==
  /\ ui = "idle"
  /\ side = FALSE /\ listed = 0 /\ open = FALSE
  /\ beatTimer = FALSE /\ needSend = FALSE
  /\ period = FALSE /\ timer = "none"
  /\ running = FALSE /\ receiver = "none"
  /\ holder = "none"
  /\ ftp = FALSE /\ isFTPOn = FALSE

----------------------------------------------------------------------------
(* The UI thread: DSServerCommImp::stop *)

\* The steps of stop in their order, and other orders and omissions.
ListFirst ==
  <<"zeroPeriod", "awaitTimer", "deleteBeat", "clearList", "stopRunning", "join",
    "closeSocket", "shotDownFTP", "init">>
NoRunning ==
  <<"zeroPeriod", "awaitTimer", "deleteBeat", "join", "clearList",
    "closeSocket", "shotDownFTP", "init">>
StopSteps ==
  <<"zeroPeriod", "awaitTimer", "deleteBeat", "stopRunning", "join", "clearList",
    "closeSocket", "shotDownFTP", "init">>

\* showMonitoring: Stop does nothing before the first Init.
ShowMonitoring ==
  /\ ui = "idle"
  /\ ui' = IF side THEN StopSteps[1] ELSE "init"
  /\ UNCHANGED <<threads, resources, needSend, ftpServer>>

AtStep(step) ==
  \E i \in 1 .. Len(StopSteps) - 1 :
    StopSteps[i] = step /\ ui = step /\ ui' = StopSteps[i + 1]

\* Timer::stop; the thread may still start a callback before it sees the zero.
ZeroPeriod ==
  /\ AtStep("zeroPeriod")
  /\ period' = FALSE
  /\ UNCHANGED <<threads, side, listed, open, beatTimer, running, needSend, ftpServer>>

AwaitTimer ==
  /\ AtStep("awaitTimer")
  /\ timer = "none"
  /\ UNCHANGED <<threads, resources, needSend, ftpServer>>

DeleteBeat ==
  /\ AtStep("deleteBeat")
  /\ beatTimer' = FALSE
  /\ UNCHANGED <<threads, side, listed, open, period, running, needSend, ftpServer>>

StopRunning ==
  /\ AtStep("stopRunning")
  /\ running' = FALSE
  /\ UNCHANGED <<threads, side, listed, open, beatTimer, period, needSend, ftpServer>>

\* Joining a thread that was never started is skipped with _running.
Join ==
  /\ AtStep("join")
  /\ receiver \in {"none", "ended"}
  /\ UNCHANGED <<threads, resources, needSend, ftpServer>>

ClearList ==
  /\ AtStep("clearList")
  /\ listed' = 0
  /\ UNCHANGED <<threads, side, open, beatTimer, period, running, needSend, ftpServer>>

CloseSocket ==
  /\ AtStep("closeSocket")
  /\ open' = FALSE
  /\ UNCHANGED <<threads, side, listed, beatTimer, period, running, needSend, ftpServer>>

\* shotDownFTP, which the receive thread also calls, leaves the flag alone when it
\* stops a server.
ShotDown ==
  IF ftp /\ isFTPOn
    THEN ftp' = FALSE /\ UNCHANGED isFTPOn
    ELSE isFTPOn' = FALSE /\ UNCHANGED ftp
StartFTP == ftp' = (ftp \/ ~isFTPOn) /\ isFTPOn' = TRUE

ShotDownFTP ==
  /\ AtStep("shotDownFTP")
  /\ ShotDown
  /\ UNCHANGED <<threads, resources, needSend>>

----------------------------------------------------------------------------
(* The UI thread: DSServerComm::Init, SetMonitor and StartDeployTask *)

\* Whether Init makes and initialises a _side; the other form does so always.
InitAlways == TRUE
InitNeeded == ~side

\* DSServerCommImp::init with n DSServers, up to the start of the timer; with
\* none it has only bound the socket.
InitComm(n) ==
  /\ ui = "init"
  /\ InitNeeded
  /\ side' = TRUE /\ open' = TRUE /\ listed' = n
  /\ beatTimer' = (n > 0) /\ period' = (n > 0)
  /\ needSend' = FALSE
  /\ timer' = IF n > 0 THEN "waits" ELSE "none"
  /\ ui' = IF n > 0 THEN "startThread" ELSE "setMonitor"
  /\ UNCHANGED <<running, receiver, holder, ftpServer>>

\* Init of a _side that exists does nothing.
InitAgain ==
  /\ ui = "init"
  /\ ~InitNeeded
  /\ ui' = "setMonitor"
  /\ UNCHANGED <<threads, resources, needSend, ftpServer>>

StartThread ==
  /\ ui = "startThread"
  /\ running' = TRUE
  /\ receiver' = "polls"
  /\ ui' = "setMonitor"
  /\ UNCHANGED <<timer, holder, side, listed, open, beatTimer, period, needSend, ftpServer>>

\* setMonitor, from showMonitoring or from the checkbox.
SetMonitor(start) ==
  /\ (ui = "setMonitor" /\ start) \/ (ui = "idle" /\ side)
  /\ ui' = "idle"
  /\ needSend' = IF beatTimer THEN start ELSE needSend
  /\ UNCHANGED <<threads, resources, ftpServer>>

\* StartDeployTask with a _side: the lock is taken and given back in one step,
\* as the UI thread waits for nothing while it has it.
StartDeployTask ==
  /\ ui = "idle" /\ side
  /\ listed > 0
  /\ holder = "none"
  /\ StartFTP
  /\ UNCHANGED <<ui, threads, resources, needSend>>

----------------------------------------------------------------------------
(* The timer thread *)

\* After a callback the thread of Timer goes on if the period is not zero; the
\* other form is a timer that fires once.
OneShot == "none"
AfterCallback == IF period THEN "waits" ELSE "none"

\* onTimer begins, and returns at once when the heartbeat is off.
Tick ==
  /\ timer = "waits"
  /\ timer' = IF needSend THEN "ticks" ELSE AfterCallback
  /\ UNCHANGED <<ui, receiver, holder, resources, needSend, ftpServer>>

TimerLocks ==
  /\ timer = "ticks"
  /\ holder = "none"
  /\ holder' = "timer"
  /\ UNCHANGED <<ui, timer, receiver, resources, needSend, ftpServer>>

\* One DSServer is done, or sending to it throws; there may be another.
TimerUnlocks ==
  /\ holder = "timer"
  /\ holder' = "none"
  /\ timer' \in {AfterCallback} \cup (IF listed > 1 THEN {"ticks"} ELSE {})
  /\ UNCHANGED <<ui, receiver, resources, needSend, ftpServer>>

\* The thread is woken up by stop.
TimerEnds ==
  /\ timer = "waits"
  /\ ~period
  /\ timer' = "none"
  /\ UNCHANGED <<ui, receiver, holder, resources, needSend, ftpServer>>

----------------------------------------------------------------------------
(* The receive thread *)

\* The loop of run: _running is looked at once in a round.
Poll ==
  /\ receiver = "polls"
  /\ receiver' \in IF running THEN {"handles", "locks"} ELSE {"ended"}
  /\ UNCHANGED <<ui, timer, holder, resources, needSend, ftpServer>>

\* A datagram that nothing is sent for; the FTP server may be shut down.
Handle ==
  /\ receiver = "handles"
  /\ receiver' = "polls"
  /\ ShotDown \/ UNCHANGED ftpServer
  /\ UNCHANGED <<ui, timer, holder, resources, needSend>>

ReceiverLocks ==
  /\ receiver = "locks"
  /\ holder = "none"
  /\ holder' = "receiver"
  /\ UNCHANGED <<ui, timer, receiver, resources, needSend, ftpServer>>

\* A datagram or a delayed command has been sent, and the FTP server started
\* for it; an exception of sendDelayCommand ends the thread.
ReceiverUnlocks ==
  /\ holder = "receiver"
  /\ holder' = "none"
  /\ receiver' \in {"locks", "handles", "polls", "ended"}
  /\ StartFTP \/ UNCHANGED ftpServer
  /\ UNCHANGED <<ui, timer, resources, needSend>>

----------------------------------------------------------------------------
(* The specification *)

Stop ==
  \/ ZeroPeriod \/ AwaitTimer \/ DeleteBeat \/ StopRunning
  \/ Join \/ ClearList \/ CloseSocket \/ ShotDownFTP

\* What showMonitoring goes on to once Stop has returned.
Restart ==
  \/ \E n \in 0 .. MaxServers : InitComm(n)
  \/ InitAgain
  \/ StartThread
  \/ ui = "setMonitor" /\ SetMonitor(TRUE)

Checkbox == \E start \in BOOLEAN : ui = "idle" /\ SetMonitor(start)

TimerThread == Tick \/ TimerLocks \/ TimerUnlocks \/ TimerEnds

ReceiveThread == Poll \/ Handle \/ ReceiverLocks \/ ReceiverUnlocks

Next ==
  \/ ShowMonitoring \/ Stop \/ Restart \/ Checkbox \/ StartDeployTask
  \/ TimerThread \/ ReceiveThread

Spec == Init /\ [][Next]_vars

\* The threads run, the lock is given to whoever waits for it in the end, and
\* a callback and a round of the receive thread, which go through a finite
\* list, come to their end.
Fairness ==
  /\ WF_vars(Stop) /\ WF_vars(Restart)
  /\ WF_vars(TimerThread) /\ WF_vars(ReceiveThread)
  /\ SF_vars(TimerLocks) /\ SF_vars(ReceiverLocks)
  /\ SF_vars(TimerUnlocks /\ timer' # "ticks")
  /\ SF_vars(ReceiverUnlocks /\ receiver' \in {"polls", "ended"})

FairSpec == Spec /\ Fairness

----------------------------------------------------------------------------
(* Properties *)

Stopping == ui \in {StopSteps[i] : i \in 1 .. Len(StopSteps) - 1}

TypeOK ==
  /\ Stopping \/ ui \in {"idle", "init", "startThread", "setMonitor"}
  /\ listed \in 0 .. MaxServers
  /\ timer \in {"none", "waits", "ticks"}
  /\ receiver \in {"none", "polls", "handles", "locks", "ended"}
  /\ holder \in {"none", "timer", "receiver"}
  /\ (holder = "timer" => timer = "ticks") /\ (period => timer # "none")
  /\ (holder = "receiver" => receiver = "locks")
  /\ {side, open, beatTimer, needSend, period, running, ftp, isFTPOn} \subseteq BOOLEAN

\* What stop takes down, no other thread uses any more: the TimerHeardBeat, the
\* list and the socket outlive the timer, and the list and the socket outlive
\* the receive thread.
NothingUsedAfterStop ==
  /\ timer # "none" => beatTimer /\ listed > 0 /\ open
  /\ receiver \in {"polls", "handles", "locks"} => listed > 0 /\ open

\* When stop has returned the FTP server is down, whatever deployment or late
\* answer was under way.
FtpDownAfterStop == side /\ ~open /\ ui # "shotDownFTP" => ~ftp

\* Both: what DSServerCommImp::stop takes down is at rest, and stays down.
QuietAfterStop == NothingUsedAfterStop /\ FtpDownAfterStop

\* "start thread and timer, this causes this function can be called only
\* once": a receive thread or a timer that has ended is never followed by
\* another one, on the same socket or a new one.
InitOnce ==
  [][/\ receiver = "ended" => receiver' = "ended"
     /\ side /\ timer = "none" => timer' = "none"]_<<receiver, timer>>

\* stop, which waits for the timer and for the receive thread, returns.
StopReturns == Stopping ~> ui = "idle"
============================================================================
