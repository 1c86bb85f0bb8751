-------------------------- MODULE DeployScheduler --------------------------
(***************************************************************************)
(* The deployment engine of DSControl, network/DSServerCommImp.cpp.        *)
(*                                                                         *)
(* Two threads of the control program share the list of DSServers: the UI  *)
(* thread, which queues tasks and starts a deployment, and the receive     *)
(* thread, whose loop sends due delayed commands and dispatches replies.   *)
(* Both run startDeploy(), which scans the list without a lock and sends   *)
(* CMD_DEPLOY under the socket lock.  The remote DSServers and the UDP     *)
(* network are external: they are modelled from the commands the engine    *)
(* sends and the replies it understands.                                   *)
(*                                                                         *)
(* The k-th task queued for a server is the number k: queues are           *)
(* std::queue, so a server's queue is what lies between the number fetched *)
(* and the number enqueued, and its current task is the last one fetched.  *)
(* Datagrams in flight, and delayed commands, are sets: UDP keeps no order *)
(* and all delayed commands wait the same DELAY.                           *)
(***************************************************************************)
EXTENDS Naturals, FiniteSets

CONSTANTS
  N,             \* number of DSServers; 1..N is the address order of the map
  MaxTasks,      \* bound on the tasks assigned to one server
  MaxDeploys,    \* bound on the presses of the deploy button
  MayLose,       \* the network may lose datagrams
  MayDuplicate,  \* the network may deliver a datagram again
  MayFail,       \* a remote server may answer that a command failed
  MayGoSilent,   \* a remote server may stop answering heartbeats
  SendMayThrow   \* a send may throw even when the address is known

ASSUME NAssumption == N \in Nat \ {0}
ASSUME BoundAssumption == MaxTasks \in Nat /\ MaxDeploys \in Nat
ASSUME FlagAssumption ==
  {MayLose, MayDuplicate, MayFail, MayGoSilent, SendMayThrow} \subseteq BOOLEAN

Servers == 1 .. N
Threads == {"ui", "recv"}

VARIABLES
  assigned,   \* assigned[s]: names in DSServerComm::_task for s
  deploys,    \* how many times StartDeployTask was called
  enqueued,   \* enqueued[s]: tasks ever pushed on _deployTasks of s
  fetched,    \* fetched[s]: tasks ever popped; the last is _currentDeployTask
  start,      \* start[s]: _start of the current task of s
  complete,   \* complete[s]: _complete of the current task of s
  active,     \* active[s]: _isConnected
  addrKnown,  \* addrKnown[s]: _remoteAddress has been assigned
  delayed,    \* commands waiting in the _delayCommands of the servers
  ftpOn,      \* _isFTPOn
  ftpServer,  \* whether _ftpServer points to a started FTP server
  lock,       \* the thread holding _socketLock across several steps, or "none"
  pc,         \* pc[t]: where thread t is
  index,      \* index[t]: the position of t in a loop over the servers
  target,     \* target[t]: the server fetchDeployDSServer returned to t
  answered,   \* the reply onReDeploy is handling: its server and its status
  cmds,       \* commands in flight to the servers
  replies,    \* replies in flight to DSControl
  task,       \* task[s]: the task the remote server s last accepted, 0: none
  status      \* status[s]: how far the remote server s is with it

uiVars     == <<assigned, deploys>>
taskVars   == <<enqueued, fetched, start, complete>>
peerVars   == <<active, addrKnown>>
ftpVars    == <<ftpOn, ftpServer>>
threadVars == <<lock, pc, index, target, answered>>
netVars    == <<cmds, replies>>
remoteVars == <<task, status>>
vars == <<uiVars, taskVars, peerVars, delayed, ftpVars, threadVars, netVars,
          remoteVars>>

----------------------------------------------------------------------------
(* Datagrams *)

Status == {"waiting", "running", "done", "fail"}

Command == [kind : {"deploy", "check", "stop", "start", "leave"},
            srv  : Servers, task : Nat]

\* The task of a reply is not on the wire: only properties look at it.
Reply == [kind : {"deploy", "stop", "start", "leave"}, srv : Servers,
          status : Status, task : Nat]

Cmd(kind, s) == [kind |-> kind, srv |-> s, task |-> 0]
DeployCmd(s, k) == [kind |-> "deploy", srv |-> s, task |-> k]

----------------------------------------------------------------------------
(* DSServerStatus *)

\* hasDeployTask, and the form that takes an empty queue for one with a task.
HasTaskOffByOne(s) == fetched[s] <= enqueued[s]
HasTask(s) == fetched[s] < enqueued[s]
Running(s) == start[s] /\ ~complete[s]
NoCurrent(s) == fetched[s] = 0

\* The condition under which fetchDeployDSServer returns the active server s,
\* and the same condition when it forgets the queue of a server that is done.
OfferedNoQueue(s) == Running(s) \/ ~start[s]
Offered(s) == Running(s) \/ ~start[s] \/ HasTask(s)

\* fetchDeployTask leaves an incomplete current task where it is; the other
\* form also leaves the last one there.
KeepsLast(s) == ~NoCurrent(s) /\ (~complete[s] \/ ~HasTask(s))
KeepsCurrent(s) == ~NoCurrent(s) /\ ~complete[s]

\* The statuses on which onReDeploy goes on to startDeploy; the other form
\* takes a waiting server for one that has given up.
EndedOrWaiting == {"done", "fail", "waiting"}
Ended == {"done", "fail"}

\* The statuses on which onReDeploy marks the current task complete; the other
\* form does so before it looks at the outcome.
CompletingAny == {"done", "fail"}
Completing == {"done"}

\* The commands queued after the success of a control command: stop leads to
\* start and start to leave; the other form queues both after a stop.
AfterBoth(kind) == IF kind = "stop" THEN {"start", "leave"} ELSE {}
After(kind) == CASE kind = "stop"  -> {"start"}
                 [] kind = "start" -> {"leave"}
                 [] kind = "leave" -> {}

Init ==
  /\ assigned = [s \in Servers |-> 0]
  /\ deploys = 0
  /\ enqueued = [s \in Servers |-> 0]
  /\ fetched = [s \in Servers |-> 0]
  /\ start = [s \in Servers |-> FALSE]
  /\ complete = [s \in Servers |-> FALSE]
  /\ active = [s \in Servers |-> TRUE]
  /\ addrKnown = [s \in Servers |-> FALSE]
  /\ delayed = {}
  /\ ftpOn = FALSE
  /\ ftpServer = FALSE
  /\ lock = "none"
  /\ pc = [t \in Threads |-> "idle"]
  /\ index = [t \in Threads |-> 1]
  /\ target = [t \in Threads |-> 1]
  /\ answered = [srv |-> 1, status |-> "done"]
  /\ cmds = {}
  /\ replies = {}
  /\ task = [s \in Servers |-> 0]
  /\ status = [s \in Servers |-> "done"]

----------------------------------------------------------------------------
(* The UI thread, DSServerComm *)

\* The user picks one more application for server s.
AssignDeployTask(s) ==
  /\ pc["ui"] = "idle"
  /\ deploys < MaxDeploys
  /\ assigned[s] < MaxTasks
  /\ assigned' = [assigned EXCEPT ![s] = @ + 1]
  /\ UNCHANGED <<deploys, taskVars, peerVars, delayed, ftpVars, threadVars,
                 netVars, remoteVars>>

\* The deploy button: all of _task is queued again, server by server.
StartDeployTask ==
  /\ pc["ui"] = "idle"
  /\ deploys < MaxDeploys
  /\ deploys' = deploys + 1
  /\ pc' = [pc EXCEPT !["ui"] = "enqueue"]
  /\ index' = [index EXCEPT !["ui"] = 1]
  /\ UNCHANGED <<assigned, taskVars, peerVars, delayed, ftpVars, lock, target,
                 answered, netVars, remoteVars>>

\* setDeployTask: no lock protects the queue it pushes on.
SetDeployTask ==
  /\ pc["ui"] = "enqueue"
  /\ index["ui"] \in Servers
  /\ enqueued' = [enqueued EXCEPT ![index["ui"]] = @ + assigned[index["ui"]]]
  /\ index' = [index EXCEPT !["ui"] = IF @ < N THEN @ + 1 ELSE 1]
  /\ pc' = [pc EXCEPT !["ui"] = IF index["ui"] < N THEN "enqueue" ELSE "scan"]
  /\ UNCHANGED <<uiVars, fetched, start, complete, peerVars, delayed, ftpVars,
                 lock, target, answered, netVars, remoteVars>>

----------------------------------------------------------------------------
(* startDeploy, run by either thread *)

\* fetchDeployDSServer looks at the next server of the map.
Scan(t) ==
  /\ pc[t] = "scan"
  /\ index[t] \in Servers
  /\ IF active[index[t]] /\ Offered(index[t])
       THEN /\ target' = [target EXCEPT ![t] = index[t]]
            /\ pc' = [pc EXCEPT ![t] = "check"]
            /\ UNCHANGED index
       ELSE /\ index' = [index EXCEPT ![t] = @ + 1]
            /\ UNCHANGED <<target, pc>>
  /\ UNCHANGED <<uiVars, taskVars, peerVars, delayed, ftpVars, lock, answered,
                 netVars, remoteVars>>

\* fetchDeployDSServer found nothing: startDeploy returns false.
ScanEnds(t) ==
  /\ pc[t] = "scan"
  /\ index[t] \notin Servers
  /\ pc' = [pc EXCEPT ![t] = IF t = "recv" THEN "shut" ELSE "idle"]
  /\ UNCHANGED <<uiVars, taskVars, peerVars, delayed, ftpVars, lock, index,
                 target, answered, netVars, remoteVars>>

\* startDeploy returns true at once when the server's task is running.
Check(t) ==
  /\ pc[t] = "check"
  /\ pc' = [pc EXCEPT ![t] = IF Running(target[t]) THEN "idle" ELSE "fetch"]
  /\ UNCHANGED <<uiVars, taskVars, peerVars, delayed, ftpVars, lock, index,
                 target, answered, netVars, remoteVars>>

StartFTP == ftpOn' = TRUE /\ ftpServer' = (ftpServer \/ ~ftpOn)

\* starDeploy with the lock: fetchDeployTask keeps an incomplete current task,
\* pops the next one otherwise, and startFTP follows.
FetchDeployTask(t) ==
  LET s == target[t] IN
  /\ pc[t] = "fetch"
  /\ lock = "none"
  /\ KeepsCurrent(s) \/ HasTask(s)
  /\ IF KeepsCurrent(s)
       THEN UNCHANGED <<fetched, start, complete>>
       ELSE /\ fetched' = [fetched EXCEPT ![s] = @ + 1]
            /\ start' = [start EXCEPT ![s] = FALSE]
            /\ complete' = [complete EXCEPT ![s] = FALSE]
  /\ StartFTP
  /\ lock' = t
  /\ pc' = [pc EXCEPT ![t] = "send"]
  /\ UNCHANGED <<uiVars, enqueued, peerVars, delayed, index, target, answered,
                 netVars, remoteVars>>

\* starDeploy returns false, which startDeploy ignores: it returns true.
NothingToFetch(t) ==
  LET s == target[t] IN
  /\ pc[t] = "fetch"
  /\ lock = "none"
  /\ ~KeepsCurrent(s)
  /\ ~HasTask(s)
  /\ pc' = [pc EXCEPT ![t] = "idle"]
  /\ UNCHANGED <<uiVars, taskVars, peerVars, delayed, ftpVars, lock, index,
                 target, answered, netVars, remoteVars>>

SendDeploy(t) ==
  /\ pc[t] = "send"
  /\ addrKnown[target[t]]
  /\ cmds' = cmds \cup {DeployCmd(target[t], fetched[target[t]])}
  /\ pc' = [pc EXCEPT ![t] = "mark"]
  /\ UNCHANGED <<uiVars, taskVars, peerVars, delayed, ftpVars, lock, index,
                 target, answered, replies, remoteVars>>

\* A send that throws, always to the default address 0.0.0.0:0.  run() catches
\* what the receive thread throws; what leaves the UI slot ends the process.
SendDeployThrows(t) ==
  /\ pc[t] = "send"
  /\ ~addrKnown[target[t]] \/ SendMayThrow
  /\ lock' = "none"
  /\ pc' = IF t = "recv" THEN [pc EXCEPT !["recv"] = "idle"]
                         ELSE [u \in Threads |-> "dead"]
  /\ UNCHANGED <<uiVars, taskVars, peerVars, delayed, ftpVars, index, target,
                 answered, netVars, remoteVars>>

SetDeployStart(t) ==
  /\ pc[t] = "mark"
  /\ start' = [start EXCEPT ![target[t]] = TRUE]
  /\ lock' = "none"
  /\ pc' = [pc EXCEPT ![t] = "idle"]
  /\ UNCHANGED <<uiVars, enqueued, fetched, complete, peerVars, delayed,
                 ftpVars, index, target, answered, netVars, remoteVars>>

----------------------------------------------------------------------------
(* The receive thread *)

\* Taking a datagram off the network, which may hold another copy of it.
Consume(net, m) == {net \ {m}} \cup (IF MayDuplicate THEN {net} ELSE {})

\* onReHeartBeat; the fragments of the report are another module's matter.
OnReHeartBeat(s) ==
  /\ pc["recv"] = "idle"
  /\ ~(active[s] /\ addrKnown[s])
  /\ active' = [active EXCEPT ![s] = TRUE]
  /\ addrKnown' = [addrKnown EXCEPT ![s] = TRUE]
  /\ UNCHANGED <<uiVars, taskVars, delayed, ftpVars, threadVars, netVars,
                 remoteVars>>

\* onReDeploy, COMMAND_RUNNING and COMMAND_WAITING: check again later.
OnReDeployUnfinished(r) ==
  /\ pc["recv"] = "idle"
  /\ r.kind = "deploy" /\ r.status \notin Ended
  /\ replies' \in Consume(replies, r)
  /\ delayed' = delayed \cup {Cmd("check", r.srv)}
  /\ UNCHANGED <<uiVars, taskVars, peerVars, ftpVars, threadVars, cmds,
                 remoteVars>>

\* onReDeploy, COMMAND_DONE and COMMAND_FAIL: only the first marks the current
\* task complete, both go on to startDeploy.
OnReDeployFinished(r) ==
  /\ pc["recv"] = "idle"
  /\ r.kind = "deploy" /\ r.status \in Ended
  /\ replies' \in Consume(replies, r)
  /\ IF r.status \in Completing /\ ~NoCurrent(r.srv)
       THEN complete' = [complete EXCEPT ![r.srv] = TRUE]
       ELSE UNCHANGED complete
  /\ answered' = [srv |-> r.srv, status |-> r.status]
  /\ pc' = [pc EXCEPT !["recv"] = "scan"]
  /\ index' = [index EXCEPT !["recv"] = 1]
  /\ UNCHANGED <<uiVars, enqueued, fetched, start, peerVars, delayed, ftpVars,
                 lock, target, cmds, remoteVars>>

\* shotDownFTP leaves _isFTPOn alone when it stops a server; after a DONE the
\* application of the server that answered is restarted.
ShotDownFTP ==
  /\ pc["recv"] = "shut"
  /\ IF ftpServer /\ ftpOn
       THEN ftpServer' = FALSE /\ UNCHANGED ftpOn
       ELSE ftpOn' = FALSE /\ UNCHANGED ftpServer
  /\ delayed' = delayed \cup
       (IF answered.status = "done" THEN {Cmd("stop", answered.srv)} ELSE {})
  /\ pc' = [pc EXCEPT !["recv"] = "idle"]
  /\ UNCHANGED <<uiVars, taskVars, peerVars, lock, index, target, answered,
                 netVars, remoteVars>>

\* onReStop, onReStart, onReLeave; a failure ends the restart.
OnReControl(r) ==
  /\ pc["recv"] = "idle"
  /\ r.kind # "deploy"
  /\ replies' \in Consume(replies, r)
  /\ delayed' = delayed \cup
       {Cmd(k, r.srv) : k \in IF r.status = "done" THEN After(r.kind) ELSE {}}
  /\ UNCHANGED <<uiVars, taskVars, peerVars, ftpVars, threadVars, cmds,
                 remoteVars>>

\* dealDelayCommands: DELAY has passed for c.
SendDelayCommand(c) ==
  /\ pc["recv"] = "idle"
  /\ lock = "none"
  /\ addrKnown[c.srv]
  /\ delayed' = delayed \ {c}
  /\ cmds' = cmds \cup {c}
  /\ UNCHANGED <<uiVars, taskVars, peerVars, ftpVars, threadVars, replies,
                 remoteVars>>

\* run() does not guard this send: the exception ends the receive thread.
SendDelayCommandThrows(c) ==
  /\ pc["recv"] = "idle"
  /\ lock = "none"
  /\ ~addrKnown[c.srv] \/ SendMayThrow
  /\ pc' = [pc EXCEPT !["recv"] = "dead"]
  /\ UNCHANGED <<uiVars, taskVars, peerVars, delayed, ftpVars, lock, index,
                 target, answered, netVars, remoteVars>>

----------------------------------------------------------------------------
(* The timer thread: the last missed heartbeat the limit allows *)

LoseHeartBeat(s) ==
  /\ MayGoSilent
  /\ active[s]
  /\ active' = [active EXCEPT ![s] = FALSE]
  /\ UNCHANGED <<uiVars, taskVars, addrKnown, delayed, ftpVars, threadVars,
                 netVars, remoteVars>>

----------------------------------------------------------------------------
(* External: the remote DSServers and the network *)

Outcomes == IF MayFail THEN Status ELSE Status \ {"fail"}

ReplyTo(kind, s, st) ==
  [kind |-> kind, srv |-> s, status |-> st, task |-> task'[s]]

\* The server accepts a task and answers how far it got at once.
RemoteDeploy(c) ==
  /\ c.kind = "deploy"
  /\ cmds' \in Consume(cmds, c)
  /\ task' = [task EXCEPT ![c.srv] = c.task]
  /\ \E st \in Outcomes :
       /\ status' = [status EXCEPT ![c.srv] = st]
       /\ replies' = replies \cup {ReplyTo("deploy", c.srv, st)}
  /\ UNCHANGED <<uiVars, taskVars, peerVars, delayed, ftpVars, threadVars>>

\* The server goes on with its task: it downloads, then installs.
RemoteProgress(s) ==
  /\ \/ /\ status[s] = "waiting"
        /\ status' = [status EXCEPT ![s] = "running"]
     \/ /\ status[s] = "running"
        /\ \E st \in Outcomes \ {"waiting", "running"} :
             status' = [status EXCEPT ![s] = st]
  /\ UNCHANGED <<uiVars, taskVars, peerVars, delayed, ftpVars, threadVars,
                 netVars, task>>

RemoteCheck(c) ==
  /\ c.kind = "check"
  /\ cmds' \in Consume(cmds, c)
  /\ UNCHANGED task
  /\ replies' = replies \cup {ReplyTo("deploy", c.srv, status[c.srv])}
  /\ UNCHANGED <<uiVars, taskVars, peerVars, delayed, ftpVars, threadVars,
                 status>>

RemoteControl(c) ==
  /\ c.kind \in {"stop", "start", "leave"}
  /\ cmds' \in Consume(cmds, c)
  /\ UNCHANGED task
  /\ \E st \in Outcomes \ {"waiting", "running"} :
       replies' = replies \cup {ReplyTo(c.kind, c.srv, st)}
  /\ UNCHANGED <<uiVars, taskVars, peerVars, delayed, ftpVars, threadVars,
                 status>>

LoseCommand(c) ==
  /\ MayLose
  /\ cmds' = cmds \ {c}
  /\ UNCHANGED <<uiVars, taskVars, peerVars, delayed, ftpVars, threadVars,
                 replies, remoteVars>>

LoseReply(r) ==
  /\ MayLose
  /\ replies' = replies \ {r}
  /\ UNCHANGED <<uiVars, taskVars, peerVars, delayed, ftpVars, threadVars,
                 cmds, remoteVars>>

----------------------------------------------------------------------------
(* The specification *)

StartDeploy(t) ==
  \/ Scan(t) \/ ScanEnds(t) \/ Check(t)
  \/ FetchDeployTask(t) \/ NothingToFetch(t)
  \/ SendDeploy(t) \/ SendDeployThrows(t) \/ SetDeployStart(t)

UI == \/ \E s \in Servers : AssignDeployTask(s)
      \/ StartDeployTask
      \/ SetDeployTask

OnReply(r) == OnReDeployUnfinished(r) \/ OnReDeployFinished(r) \/ OnReControl(r)

Receive ==
  \/ \E r \in replies : OnReply(r)
  \/ \E c \in delayed : SendDelayCommand(c) \/ SendDelayCommandThrows(c)
  \/ ShotDownFTP

Peers == \E s \in Servers : OnReHeartBeat(s) \/ LoseHeartBeat(s)

RemoteAnswers ==
  \E c \in cmds : RemoteDeploy(c) \/ RemoteCheck(c) \/ RemoteControl(c)

Remote == RemoteAnswers \/ \E s \in Servers : RemoteProgress(s)

Loss == (\E c \in cmds : LoseCommand(c)) \/ (\E r \in replies : LoseReply(r))

Next ==
  \/ UI
  \/ \E t \in Threads : StartDeploy(t)
  \/ Receive
  \/ Peers
  \/ Remote
  \/ Loss

Spec == Init /\ [][Next]_vars

\* The threads are scheduled, the remote servers answer and come to an end,
\* and a datagram the network does not lose arrives.  The receive thread is
\* busy for at most one reply at a time, so that weak fairness is enough.
Fairness ==
  /\ WF_vars(SetDeployTask)
  /\ \A t \in Threads : WF_vars(StartDeploy(t))
  /\ WF_vars(Receive)
  /\ WF_vars(RemoteAnswers)
  /\ \A s \in Servers : WF_vars(RemoteProgress(s))

FairSpec == Spec /\ Fairness

----------------------------------------------------------------------------
(* Properties *)

\* The shape of the state; and no queue is popped more often than pushed,
\* which std::queue leaves undefined.
TypeOK ==
  /\ assigned \in [Servers -> Nat]
  /\ deploys \in 0 .. MaxDeploys
  /\ enqueued \in [Servers -> Nat]
  /\ fetched \in [Servers -> Nat]
  /\ start \in [Servers -> BOOLEAN]
  /\ complete \in [Servers -> BOOLEAN]
  /\ active \in [Servers -> BOOLEAN]
  /\ addrKnown \in [Servers -> BOOLEAN]
  /\ delayed \in SUBSET Command
  /\ ftpOn \in BOOLEAN
  /\ ftpServer \in BOOLEAN
  /\ lock \in Threads \cup {"none"}
  /\ pc \in [Threads -> {"idle", "enqueue", "scan", "check", "fetch", "send",
                         "mark", "shut", "dead"}]
  /\ index \in [Threads -> Nat \ {0}]
  /\ target \in [Threads -> Servers]
  /\ answered \in [srv : Servers, status : Status]
  /\ cmds \in SUBSET Command
  /\ replies \in SUBSET Reply
  /\ task \in [Servers -> Nat]
  /\ status \in [Servers -> Status]
  /\ \A s \in Servers : fetched[s] <= enqueued[s]

\* The first deployment, over a network that delivers nothing twice: what the
\* engine's protocol relies on without saying so.
FirstDeploy == deploys <= 1 /\ ~MayDuplicate

\* The remote server s has a task it has not finished.
Working(s) == status[s] \in {"waiting", "running"}

\* Whatever moves the deployment on: a thread inside startDeploy before its
\* command is out, or a datagram or delayed command.
Busy(t) == pc[t] \in {"enqueue", "scan", "check", "fetch", "send", "shut"}

AtMostOne(S) == \A x, y \in S : x = y

\* onReDeploy identifies a task by its server's address alone and startDeploy
\* looks at no queue of replies: that is sound because, in a first deployment,
\* one thing at most is under way: a thread about to send, one command in
\* flight, one delayed command, or one reply.
SingleToken ==
  FirstDeploy =>
    /\ AtMostOne(cmds) /\ AtMostOne(delayed) /\ AtMostOne(replies)
    /\ cmds = {} \/ delayed = {}
    /\ cmds = {} \/ replies = {}
    /\ delayed = {} \/ replies = {}
    /\ \A t \in Threads : Busy(t) =>
         /\ cmds = {} /\ delayed = {} /\ replies = {}
         /\ \A u \in Threads : Busy(u) => u = t

\* startDeploy "would not start new task before the last is completed": in a
\* first deployment no two remote servers work at the same time, even when
\* servers fall silent and come back, tasks fail and datagrams are lost.
AtMostOneWorking == FirstDeploy => AtMostOne({s \in Servers : Working(s)})

\* onReDeploy marks the current task complete on any COMMAND_DONE from its
\* server: in a first deployment that task is the one the server reports on,
\* and the server has indeed finished it.
CompleteIsDone ==
  FirstDeploy =>
    \A s \in Servers :
      complete[s] => task[s] = fetched[s] /\ status[s] = "done"

\* The FTP server that startFTP brings up for a deployment is not shut down
\* while a remote server may still be downloading from it.
FtpUpWhileWorking ==
  FirstDeploy => \A s \in Servers : Working(s) => ftpServer

\* The restart of the application (STOP, START, LEAVE) begins only when no
\* server is working any more.
RestartWhenIdle ==
  FirstDeploy =>
    ((\E c \in cmds \cup delayed : c.kind \in {"stop", "start", "leave"})
       => \A s \in Servers : ~Working(s))

\* If no server falls silent, the restart begins only when every queue of
\* every server is used up and its last task is complete.
RestartAfterAll ==
  FirstDeploy /\ ~MayGoSilent =>
    ((\E c \in cmds \cup delayed : c.kind \in {"stop", "start", "leave"})
       => \A s \in Servers : ~HasTask(s) /\ start[s] /\ complete[s])

\* A server is asked again to deploy a task it has accepted only if it failed.
NoResend ==
  [][FirstDeploy' =>
       \A c \in cmds' \ cmds :
         c.kind = "deploy" /\ task[c.srv] = c.task => status[c.srv] = "fail"
    ]_vars

\* startDeploy starts "a valid deploy task when it is called, untill finish
\* all tasks": if the first server has two tasks and every other one has one,
\* all are deployed, the application is restarted and the FTP server is down.
\* (With a single task on the first server, its COMMAND_DONE can overtake
\* setDeployStart, and the deployment stops.)
AllPicked ==
  /\ pc["ui"] = "enqueue" /\ index["ui"] = 1
  /\ \A s \in Servers : addrKnown[s] /\ assigned[s] >= (IF s = 1 THEN 2 ELSE 1)

AllDeployed ==
  /\ \A s \in Servers : ~HasTask(s) /\ complete[s]
  /\ cmds = {} /\ replies = {} /\ delayed = {}
  /\ ~ftpServer

DeploymentEnds == AllPicked ~> AllDeployed

----------------------------------------------------------------------------
(* What a comment of the code says *)

\* startDeploy "will start a valid deploy task when it is called, untill
\* finish all tasks": whatever becomes of a task, the ones queued behind it are
\* started in the end.
EveryTaskStarted ==
  \A s \in Servers : enqueued[s] = assigned[s] /\ ~HasTask(s)

AllStarted == AllPicked ~> EveryTaskStarted

============================================================================
