----------------------- MODULE DeployScheduler_proofs -----------------------
(***************************************************************************)
(* Proofs of the safety properties of DeployScheduler, for any number of   *)
(* servers and tasks, and whatever may be lost, fail or throw; and that    *)
(* the engine implements SequentialDeploy, in a deployment that is the     *)
(* only one and over a network that delivers nothing twice.                *)
(***************************************************************************)
EXTENDS DeployRefinement, TLAPS

USE NAssumption, BoundAssumption, FlagAssumption

\* The steps of Next, one by one: what every proof about a step splits on.
LEMMA NextCases ==
  ASSUME [Next]_vars
  PROVE  \/ \E s \in Servers : AssignDeployTask(s)
         \/ StartDeployTask
         \/ SetDeployTask
         \/ \E t \in Threads : Scan(t)
         \/ \E t \in Threads : ScanEnds(t)
         \/ \E t \in Threads : Check(t)
         \/ \E t \in Threads : FetchDeployTask(t)
         \/ \E t \in Threads : NothingToFetch(t)
         \/ \E t \in Threads : SendDeploy(t)
         \/ \E t \in Threads : SendDeployThrows(t)
         \/ \E t \in Threads : SetDeployStart(t)
         \/ \E r \in replies : OnReDeployUnfinished(r)
         \/ \E r \in replies : OnReDeployFinished(r)
         \/ \E r \in replies : OnReControl(r)
         \/ \E c \in delayed : SendDelayCommand(c)
         \/ \E c \in delayed : SendDelayCommandThrows(c)
         \/ ShotDownFTP
         \/ \E s \in Servers : OnReHeartBeat(s)
         \/ \E s \in Servers : LoseHeartBeat(s)
         \/ \E c \in cmds : RemoteDeploy(c)
         \/ \E s \in Servers : RemoteProgress(s)
         \/ \E c \in cmds : RemoteCheck(c)
         \/ \E c \in cmds : RemoteControl(c)
         \/ \E c \in cmds : LoseCommand(c)
         \/ \E r \in replies : LoseReply(r)
         \/ UNCHANGED vars
  BY DEF Next, UI, StartDeploy, Receive, OnReply, Peers, Remote,
         RemoteAnswers, Loss

\* Taking a datagram in adds nothing to the network.
LEMMA ConsumeSubset ==
  ASSUME NEW net, NEW m, NEW rest \in Consume(net, m)
  PROVE  /\ rest \subseteq net
         /\ ~MayDuplicate => rest = net \ {m}
  BY DEF Consume

\* Where a scan over the servers stands.
LEMMA UpTo ==
  \A i, s \in Servers : s < i + 1 => s < i \/ s = i
  BY DEF Servers

\* A scan that has left the range of the servers has looked at all of them.
LEMMA Beyond ==
  \A i \in Nat \ {0} : i \notin Servers => \A s \in Servers : s < i
  BY DEF Servers

----------------------------------------------------------------------------
(* Type correctness *)

\* The constructors build a state of the right shape.
LEMMA InitTypeOK == Init => TypeOK
  <1> SUFFICES ASSUME Init PROVE TypeOK
    OBVIOUS
  <1>1. 1 \in Servers /\ 0 \in 0 .. MaxDeploys
    BY DEF Servers
  <1>2. /\ target \in [Threads -> Servers]
        /\ answered \in [srv : Servers, status : Status]
    BY <1>1 DEF Init, Status
  <1>3. /\ pc \in [Threads -> {"idle", "enqueue", "scan", "check", "fetch",
                               "send", "mark", "shut", "dead"}]
        /\ index \in [Threads -> Nat \ {0}]
        /\ status \in [Servers -> Status]
    BY DEF Init, Status
  <1>4. /\ assigned \in [Servers -> Nat] /\ enqueued \in [Servers -> Nat]
        /\ fetched \in [Servers -> Nat] /\ task \in [Servers -> Nat]
        /\ start \in [Servers -> BOOLEAN] /\ complete \in [Servers -> BOOLEAN]
        /\ active \in [Servers -> BOOLEAN] /\ addrKnown \in [Servers -> BOOLEAN]
        /\ \A s \in Servers : fetched[s] <= enqueued[s]
    BY DEF Init
  <1> QED
    BY <1>1, <1>2, <1>3, <1>4 DEF Init, TypeOK

\* No step of a thread, a server or the network breaks the shape; in particular
\* fetchDeployTask pops a queue only after hasDeployTask found a task in it.
LEMMA NextTypeOK == TypeOK /\ [Next]_vars => TypeOK'
  <1> SUFFICES ASSUME TypeOK, [Next]_vars PROVE TypeOK'
    OBVIOUS
  <1> USE DEF TypeOK, Threads, uiVars, taskVars, peerVars, ftpVars,
          threadVars, netVars, remoteVars
  <1>1. ASSUME NEW s \in Servers, AssignDeployTask(s) PROVE TypeOK'
    BY <1>1 DEF AssignDeployTask
  <1>2. CASE StartDeployTask
    BY <1>2 DEF StartDeployTask
  <1>3. CASE SetDeployTask
    <2> DEFINE i == index["ui"]
    <2>1. i \in Servers /\ assigned[i] \in Nat
      BY <1>3 DEF SetDeployTask
    <2>2. enqueued' = [enqueued EXCEPT ![i] = @ + assigned[i]]
      BY <1>3 DEF SetDeployTask
    <2>3. /\ enqueued' \in [Servers -> Nat]
          /\ \A s \in Servers : fetched[s] <= enqueued'[s]
      BY <2>1, <2>2
    <2>4. index' \in [Threads -> Nat \ {0}] /\ pc' \in [Threads ->
            {"idle", "enqueue", "scan", "check", "fetch", "send", "mark",
             "shut", "dead"}]
      BY <1>3, <2>1 DEF SetDeployTask
    <2> QED
      BY <1>3, <2>3, <2>4 DEF SetDeployTask
  <1>4. ASSUME NEW t \in Threads, Scan(t) PROVE TypeOK'
    BY <1>4 DEF Scan
  <1>5. ASSUME NEW t \in Threads, ScanEnds(t) PROVE TypeOK'
    BY <1>5 DEF ScanEnds
  <1>6. ASSUME NEW t \in Threads, Check(t) PROVE TypeOK'
    BY <1>6 DEF Check
  <1>7. ASSUME NEW t \in Threads, FetchDeployTask(t) PROVE TypeOK'
    <2>1. CASE KeepsCurrent(target[t])
      BY <1>7, <2>1 DEF FetchDeployTask, StartFTP
    <2>2. CASE ~KeepsCurrent(target[t])
      <3>1. /\ fetched' = [fetched EXCEPT ![target[t]] = @ + 1]
            /\ fetched[target[t]] < enqueued[target[t]]
            /\ UNCHANGED enqueued
        BY <1>7, <2>2 DEF FetchDeployTask, HasTask
      <3>2. /\ fetched' \in [Servers -> Nat]
            /\ \A s \in Servers : fetched'[s] <= enqueued'[s]
        BY <3>1
      <3> QED
        BY <1>7, <2>2, <3>2 DEF FetchDeployTask, StartFTP
    <2> QED
      BY <2>1, <2>2
  <1>8. ASSUME NEW t \in Threads, NothingToFetch(t) PROVE TypeOK'
    BY <1>8 DEF NothingToFetch
  <1>9. ASSUME NEW t \in Threads, SendDeploy(t) PROVE TypeOK'
    <2>1. DeployCmd(target[t], fetched[target[t]]) \in Command
      BY DEF DeployCmd, Command
    <2> QED
      BY <1>9, <2>1 DEF SendDeploy
  <1>10. ASSUME NEW t \in Threads, SendDeployThrows(t) PROVE TypeOK'
    BY <1>10 DEF SendDeployThrows
  <1>11. ASSUME NEW t \in Threads, SetDeployStart(t) PROVE TypeOK'
    BY <1>11 DEF SetDeployStart
  <1>12. ASSUME NEW r \in replies, OnReDeployUnfinished(r) PROVE TypeOK'
    <2>1. Cmd("check", r.srv) \in Command
      BY DEF Cmd, Command, Reply
    <2> QED
      BY <1>12, <2>1, ConsumeSubset DEF OnReDeployUnfinished
  <1>13. ASSUME NEW r \in replies, OnReDeployFinished(r) PROVE TypeOK'
    <2>1. r.srv \in Servers /\ r.status \in Status
      BY DEF Reply
    <2>2. complete' \in [Servers -> BOOLEAN]
      BY <1>13 DEF OnReDeployFinished
    <2> QED
      BY <1>13, <2>1, <2>2, ConsumeSubset DEF OnReDeployFinished
  <1>14. ASSUME NEW r \in replies, OnReControl(r) PROVE TypeOK'
    <2>1. \A k \in After(r.kind) : Cmd(k, r.srv) \in Command
      BY <1>14 DEF OnReControl, After, Cmd, Command, Reply
    <2> QED
      BY <1>14, <2>1, ConsumeSubset DEF OnReControl
  <1>15. ASSUME NEW c \in delayed, SendDelayCommand(c) PROVE TypeOK'
    BY <1>15 DEF SendDelayCommand
  <1>16. ASSUME NEW c \in delayed, SendDelayCommandThrows(c) PROVE TypeOK'
    BY <1>16 DEF SendDelayCommandThrows
  <1>17. CASE ShotDownFTP
    <2>1. Cmd("stop", answered.srv) \in Command
      BY DEF Cmd, Command
    <2> QED
      BY <1>17, <2>1 DEF ShotDownFTP
  <1>18. ASSUME NEW s \in Servers, OnReHeartBeat(s) PROVE TypeOK'
    BY <1>18 DEF OnReHeartBeat
  <1>19. ASSUME NEW s \in Servers, LoseHeartBeat(s) PROVE TypeOK'
    BY <1>19 DEF LoseHeartBeat
  <1>20. ASSUME NEW c \in cmds, RemoteDeploy(c) PROVE TypeOK'
    <2>1. c.srv \in Servers /\ c.task \in Nat
      BY DEF Command
    <2>2. task' \in [Servers -> Nat]
      BY <1>20, <2>1 DEF RemoteDeploy
    <2>3. PICK st \in Status :
            /\ status' = [status EXCEPT ![c.srv] = st]
            /\ replies' = replies \cup {ReplyTo("deploy", c.srv, st)}
      BY <1>20 DEF RemoteDeploy, Outcomes
    <2>4. ReplyTo("deploy", c.srv, st) \in Reply
      BY <2>1, <2>2 DEF ReplyTo, Reply
    <2> QED
      BY <1>20, <2>2, <2>3, <2>4, ConsumeSubset DEF RemoteDeploy
  <1>21. ASSUME NEW s \in Servers, RemoteProgress(s) PROVE TypeOK'
    BY <1>21 DEF RemoteProgress, Outcomes, Status
  <1>22. ASSUME NEW c \in cmds, RemoteCheck(c) PROVE TypeOK'
    <2>1. ReplyTo("deploy", c.srv, status[c.srv]) \in Reply
      BY <1>22 DEF RemoteCheck, ReplyTo, Reply, Command
    <2> QED
      BY <1>22, <2>1, ConsumeSubset DEF RemoteCheck
  <1>23. ASSUME NEW c \in cmds, RemoteControl(c) PROVE TypeOK'
    <2>1. PICK st \in Status :
            replies' = replies \cup {ReplyTo(c.kind, c.srv, st)}
      BY <1>23 DEF RemoteControl, Outcomes
    <2>2. ReplyTo(c.kind, c.srv, st) \in Reply
      BY <1>23 DEF RemoteControl, ReplyTo, Reply, Command
    <2> QED
      BY <1>23, <2>1, <2>2, ConsumeSubset DEF RemoteControl
  <1>24. ASSUME NEW c \in cmds, LoseCommand(c) PROVE TypeOK'
    BY <1>24 DEF LoseCommand
  <1>25. ASSUME NEW r \in replies, LoseReply(r) PROVE TypeOK'
    BY <1>25 DEF LoseReply
  <1>26. CASE UNCHANGED vars
    BY <1>26 DEF vars
  <1> QED
    BY <1>1, <1>2, <1>3, <1>4, <1>5, <1>6, <1>7, <1>8, <1>9, <1>10, <1>11,
       <1>12, <1>13, <1>14, <1>15, <1>16, <1>17, <1>18, <1>19, <1>20, <1>21,
       <1>22, <1>23, <1>24, <1>25, <1>26, NextCases

\* The state keeps its shape, and no queue is popped when it is empty, whatever
\* the two threads and the network do.
THEOREM TypeCorrect == Spec => []TypeOK
  <1> QED
    BY InitTypeOK, NextTypeOK, PTL DEF Spec

----------------------------------------------------------------------------
(* The parts of the invariant *)

\* The socket lock is taken before the send and released after the task is
\* marked, however the send ends.
LEMMA ThreadStep ==
  ASSUME TypeOK, IInv, [Next]_vars
  PROVE  ThreadInv'
  <1> USE DEF TypeOK, Threads, FirstDeploy, IInv, ThreadInv,
         uiVars, taskVars, peerVars, ftpVars, threadVars, netVars, remoteVars
  <1>1. ASSUME NEW s \in Servers, AssignDeployTask(s) PROVE ThreadInv'
    BY <1>1 DEF AssignDeployTask
  <1>2. CASE StartDeployTask
    BY <1>2 DEF StartDeployTask
  <1>3. CASE SetDeployTask
    BY <1>3 DEF SetDeployTask
  <1>4. ASSUME NEW t \in Threads, Scan(t) PROVE ThreadInv'
    BY <1>4 DEF Scan, Offered, Running, HasTask
  <1>5. ASSUME NEW t \in Threads, ScanEnds(t) PROVE ThreadInv'
    BY <1>5 DEF ScanEnds
  <1>6. ASSUME NEW t \in Threads, Check(t) PROVE ThreadInv'
    BY <1>6 DEF Check, Running
  <1>7. ASSUME NEW t \in Threads, FetchDeployTask(t) PROVE ThreadInv'
    BY <1>7 DEF FetchDeployTask, StartFTP, KeepsCurrent, NoCurrent, HasTask
  <1>8. ASSUME NEW t \in Threads, NothingToFetch(t) PROVE ThreadInv'
    BY <1>8 DEF NothingToFetch, KeepsCurrent, NoCurrent, HasTask
  <1>9. ASSUME NEW t \in Threads, SendDeploy(t) PROVE ThreadInv'
    BY <1>9 DEF SendDeploy, DeployCmd
  <1>10. ASSUME NEW t \in Threads, SendDeployThrows(t) PROVE ThreadInv'
    BY <1>10 DEF SendDeployThrows
  <1>11. ASSUME NEW t \in Threads, SetDeployStart(t) PROVE ThreadInv'
    BY <1>11 DEF SetDeployStart
  <1>12. ASSUME NEW r \in replies, OnReDeployUnfinished(r) PROVE ThreadInv'
    BY <1>12 DEF OnReDeployUnfinished, Consume, Cmd, Ended
  <1>13. ASSUME NEW r \in replies, OnReDeployFinished(r) PROVE ThreadInv'
    BY <1>13 DEF OnReDeployFinished, Consume, Ended, Completing, NoCurrent
  <1>14. ASSUME NEW r \in replies, OnReControl(r) PROVE ThreadInv'
    BY <1>14 DEF OnReControl, Consume, Cmd, After
  <1>15. ASSUME NEW c \in delayed, SendDelayCommand(c) PROVE ThreadInv'
    BY <1>15 DEF SendDelayCommand
  <1>16. ASSUME NEW c \in delayed, SendDelayCommandThrows(c) PROVE ThreadInv'
    BY <1>16 DEF SendDelayCommandThrows
  <1>17. CASE ShotDownFTP
    BY <1>17 DEF ShotDownFTP, Cmd
  <1>18. ASSUME NEW s \in Servers, OnReHeartBeat(s) PROVE ThreadInv'
    BY <1>18 DEF OnReHeartBeat
  <1>19. ASSUME NEW s \in Servers, LoseHeartBeat(s) PROVE ThreadInv'
    BY <1>19 DEF LoseHeartBeat
  <1>20. ASSUME NEW c \in cmds, RemoteDeploy(c) PROVE ThreadInv'
    BY <1>20 DEF RemoteDeploy, Consume, ReplyTo, Outcomes
  <1>21. ASSUME NEW s \in Servers, RemoteProgress(s) PROVE ThreadInv'
    BY <1>21 DEF RemoteProgress, Outcomes
  <1>22. ASSUME NEW c \in cmds, RemoteCheck(c) PROVE ThreadInv'
    BY <1>22 DEF RemoteCheck, Consume, ReplyTo
  <1>23. ASSUME NEW c \in cmds, RemoteControl(c) PROVE ThreadInv'
    BY <1>23 DEF RemoteControl, Consume, ReplyTo, Outcomes
  <1>24. ASSUME NEW c \in cmds, LoseCommand(c) PROVE ThreadInv'
    BY <1>24 DEF LoseCommand
  <1>25. ASSUME NEW r \in replies, LoseReply(r) PROVE ThreadInv'
    BY <1>25 DEF LoseReply
  <1>26. CASE UNCHANGED vars
    BY <1>26 DEF vars
  <1> QED
    BY <1>1, <1>2, <1>3, <1>4, <1>5, <1>6, <1>7, <1>8, <1>9, <1>10,
       <1>11, <1>12, <1>13, <1>14, <1>15, <1>16, <1>17, <1>18, <1>19,
       <1>20, <1>21, <1>22, <1>23, <1>24, <1>25, <1>26, NextCases

\* Every handler and every remote step passes the one token on, and no step
\* makes a second one.
LEMMA TokenStep ==
  ASSUME TypeOK, IInv, [Next]_vars, FirstDeploy'
  PROVE  SingleToken'
  <1> USE DEF TypeOK, Threads, FirstDeploy, IInv, ThreadInv,
         SingleToken, BeforeInv, MessageInv, AtMostOne, Busy, AboutCurrent,
         Command, Reply,
         uiVars, taskVars, peerVars, ftpVars, threadVars, netVars, remoteVars
  <1>1. ASSUME NEW s \in Servers, AssignDeployTask(s) PROVE SingleToken'
    BY <1>1 DEF AssignDeployTask
  <1>2. CASE StartDeployTask
    BY <1>2 DEF StartDeployTask
  <1>3. CASE SetDeployTask
    BY <1>3 DEF SetDeployTask
  <1>4. ASSUME NEW t \in Threads, Scan(t) PROVE SingleToken'
    BY <1>4 DEF Scan, Offered, Running, HasTask
  <1>5. ASSUME NEW t \in Threads, ScanEnds(t) PROVE SingleToken'
    BY <1>5 DEF ScanEnds
  <1>6. ASSUME NEW t \in Threads, Check(t) PROVE SingleToken'
    BY <1>6 DEF Check, Running
  <1>7. ASSUME NEW t \in Threads, FetchDeployTask(t) PROVE SingleToken'
    BY <1>7 DEF FetchDeployTask, StartFTP, KeepsCurrent, NoCurrent, HasTask
  <1>8. ASSUME NEW t \in Threads, NothingToFetch(t) PROVE SingleToken'
    BY <1>8 DEF NothingToFetch, KeepsCurrent, NoCurrent, HasTask
  <1>9. ASSUME NEW t \in Threads, SendDeploy(t) PROVE SingleToken'
    BY <1>9 DEF SendDeploy, DeployCmd
  <1>10. ASSUME NEW t \in Threads, SendDeployThrows(t) PROVE SingleToken'
    BY <1>10 DEF SendDeployThrows
  <1>11. ASSUME NEW t \in Threads, SetDeployStart(t) PROVE SingleToken'
    BY <1>11 DEF SetDeployStart
  <1>12. ASSUME NEW r \in replies, OnReDeployUnfinished(r) PROVE SingleToken'
    BY <1>12 DEF OnReDeployUnfinished, Consume, Cmd, Ended
  <1>13. ASSUME NEW r \in replies, OnReDeployFinished(r) PROVE SingleToken'
    BY <1>13 DEF OnReDeployFinished, Consume, Ended, Completing, NoCurrent
  <1>14. ASSUME NEW r \in replies, OnReControl(r) PROVE SingleToken'
    BY <1>14 DEF OnReControl, Consume, Cmd, After
  <1>15. ASSUME NEW c \in delayed, SendDelayCommand(c) PROVE SingleToken'
    BY <1>15 DEF SendDelayCommand
  <1>16. ASSUME NEW c \in delayed, SendDelayCommandThrows(c) PROVE SingleToken'
    BY <1>16 DEF SendDelayCommandThrows
  <1>17. CASE ShotDownFTP
    BY <1>17 DEF ShotDownFTP, Cmd
  <1>18. ASSUME NEW s \in Servers, OnReHeartBeat(s) PROVE SingleToken'
    BY <1>18 DEF OnReHeartBeat
  <1>19. ASSUME NEW s \in Servers, LoseHeartBeat(s) PROVE SingleToken'
    BY <1>19 DEF LoseHeartBeat
  <1>20. ASSUME NEW c \in cmds, RemoteDeploy(c) PROVE SingleToken'
    BY <1>20 DEF RemoteDeploy, Consume, ReplyTo, Outcomes
  <1>21. ASSUME NEW s \in Servers, RemoteProgress(s) PROVE SingleToken'
    BY <1>21 DEF RemoteProgress, Outcomes
  <1>22. ASSUME NEW c \in cmds, RemoteCheck(c) PROVE SingleToken'
    BY <1>22 DEF RemoteCheck, Consume, ReplyTo
  <1>23. ASSUME NEW c \in cmds, RemoteControl(c) PROVE SingleToken'
    BY <1>23 DEF RemoteControl, Consume, ReplyTo, Outcomes
  <1>24. ASSUME NEW c \in cmds, LoseCommand(c) PROVE SingleToken'
    BY <1>24 DEF LoseCommand
  <1>25. ASSUME NEW r \in replies, LoseReply(r) PROVE SingleToken'
    BY <1>25 DEF LoseReply
  <1>26. CASE UNCHANGED vars
    BY <1>26 DEF vars
  <1> QED
    BY <1>1, <1>2, <1>3, <1>4, <1>5, <1>6, <1>7, <1>8, <1>9, <1>10,
       <1>11, <1>12, <1>13, <1>14, <1>15, <1>16, <1>17, <1>18, <1>19,
       <1>20, <1>21, <1>22, <1>23, <1>24, <1>25, <1>26, NextCases

\* Until the UI thread has fetched its first task nothing else moves.
LEMMA BeforeStep ==
  ASSUME TypeOK, IInv, [Next]_vars, FirstDeploy'
  PROVE  BeforeInv'
  <1> USE DEF TypeOK, Threads, FirstDeploy, IInv, ThreadInv,
         SingleToken, BeforeInv, Untouched, Working, AtMostOne, Busy, Command,
         Reply,
         uiVars, taskVars, peerVars, ftpVars, threadVars, netVars, remoteVars
  <1>1. ASSUME NEW s \in Servers, AssignDeployTask(s) PROVE BeforeInv'
    BY <1>1 DEF AssignDeployTask
  <1>2. CASE StartDeployTask
    BY <1>2 DEF StartDeployTask
  <1>3. CASE SetDeployTask
    BY <1>3 DEF SetDeployTask
  <1>4. ASSUME NEW t \in Threads, Scan(t) PROVE BeforeInv'
    BY <1>4 DEF Scan, Offered, Running, HasTask
  <1>5. ASSUME NEW t \in Threads, ScanEnds(t) PROVE BeforeInv'
    BY <1>5 DEF ScanEnds
  <1>6. ASSUME NEW t \in Threads, Check(t) PROVE BeforeInv'
    BY <1>6 DEF Check, Running
  <1>7. ASSUME NEW t \in Threads, FetchDeployTask(t) PROVE BeforeInv'
    BY <1>7 DEF FetchDeployTask, StartFTP, KeepsCurrent, NoCurrent, HasTask
  <1>8. ASSUME NEW t \in Threads, NothingToFetch(t) PROVE BeforeInv'
    BY <1>8 DEF NothingToFetch, KeepsCurrent, NoCurrent, HasTask
  <1>9. ASSUME NEW t \in Threads, SendDeploy(t) PROVE BeforeInv'
    BY <1>9 DEF SendDeploy, DeployCmd
  <1>10. ASSUME NEW t \in Threads, SendDeployThrows(t) PROVE BeforeInv'
    BY <1>10 DEF SendDeployThrows
  <1>11. ASSUME NEW t \in Threads, SetDeployStart(t) PROVE BeforeInv'
    BY <1>11 DEF SetDeployStart
  <1>12. ASSUME NEW r \in replies, OnReDeployUnfinished(r) PROVE BeforeInv'
    BY <1>12 DEF OnReDeployUnfinished, Consume, Cmd, Ended
  <1>13. ASSUME NEW r \in replies, OnReDeployFinished(r) PROVE BeforeInv'
    BY <1>13 DEF OnReDeployFinished, Consume, Ended, Completing, NoCurrent
  <1>14. ASSUME NEW r \in replies, OnReControl(r) PROVE BeforeInv'
    BY <1>14 DEF OnReControl, Consume, Cmd, After
  <1>15. ASSUME NEW c \in delayed, SendDelayCommand(c) PROVE BeforeInv'
    BY <1>15 DEF SendDelayCommand
  <1>16. ASSUME NEW c \in delayed, SendDelayCommandThrows(c) PROVE BeforeInv'
    BY <1>16 DEF SendDelayCommandThrows
  <1>17. CASE ShotDownFTP
    BY <1>17 DEF ShotDownFTP, Cmd
  <1>18. ASSUME NEW s \in Servers, OnReHeartBeat(s) PROVE BeforeInv'
    BY <1>18 DEF OnReHeartBeat
  <1>19. ASSUME NEW s \in Servers, LoseHeartBeat(s) PROVE BeforeInv'
    BY <1>19 DEF LoseHeartBeat
  <1>20. ASSUME NEW c \in cmds, RemoteDeploy(c) PROVE BeforeInv'
    BY <1>20 DEF RemoteDeploy, Consume, ReplyTo, Outcomes
  <1>21. ASSUME NEW s \in Servers, RemoteProgress(s) PROVE BeforeInv'
    BY <1>21 DEF RemoteProgress, Outcomes
  <1>22. ASSUME NEW c \in cmds, RemoteCheck(c) PROVE BeforeInv'
    BY <1>22 DEF RemoteCheck, Consume, ReplyTo
  <1>23. ASSUME NEW c \in cmds, RemoteControl(c) PROVE BeforeInv'
    BY <1>23 DEF RemoteControl, Consume, ReplyTo, Outcomes
  <1>24. ASSUME NEW c \in cmds, LoseCommand(c) PROVE BeforeInv'
    BY <1>24 DEF LoseCommand
  <1>25. ASSUME NEW r \in replies, LoseReply(r) PROVE BeforeInv'
    BY <1>25 DEF LoseReply
  <1>26. CASE UNCHANGED vars
    BY <1>26 DEF vars
  <1> QED
    BY <1>1, <1>2, <1>3, <1>4, <1>5, <1>6, <1>7, <1>8, <1>9, <1>10,
       <1>11, <1>12, <1>13, <1>14, <1>15, <1>16, <1>17, <1>18, <1>19,
       <1>20, <1>21, <1>22, <1>23, <1>24, <1>25, <1>26, NextCases

\* Commands and replies keep telling the truth about the current task: a new
\* task is fetched only when nothing about the last one is on its way.
LEMMA MessageStep ==
  ASSUME TypeOK, IInv, [Next]_vars, FirstDeploy'
  PROVE  MessageInv'
  <1> USE DEF TypeOK, Threads, FirstDeploy, IInv, ThreadInv,
         SingleToken, BeforeInv, Untouched, MessageInv, AboutCurrent, Ended,
         Working, AtMostOne, Busy, Command, Reply, Status,
         uiVars, taskVars, peerVars, ftpVars, threadVars, netVars, remoteVars
  <1>1. ASSUME NEW s \in Servers, AssignDeployTask(s) PROVE MessageInv'
    BY <1>1 DEF AssignDeployTask
  <1>2. CASE StartDeployTask
    BY <1>2 DEF StartDeployTask
  <1>3. CASE SetDeployTask
    BY <1>3 DEF SetDeployTask
  <1>4. ASSUME NEW t \in Threads, Scan(t) PROVE MessageInv'
    BY <1>4 DEF Scan, Offered, Running, HasTask
  <1>5. ASSUME NEW t \in Threads, ScanEnds(t) PROVE MessageInv'
    BY <1>5 DEF ScanEnds
  <1>6. ASSUME NEW t \in Threads, Check(t) PROVE MessageInv'
    BY <1>6 DEF Check, Running
  <1>7. ASSUME NEW t \in Threads, FetchDeployTask(t) PROVE MessageInv'
    BY <1>7 DEF FetchDeployTask, StartFTP, KeepsCurrent, NoCurrent, HasTask
  <1>8. ASSUME NEW t \in Threads, NothingToFetch(t) PROVE MessageInv'
    BY <1>8 DEF NothingToFetch, KeepsCurrent, NoCurrent, HasTask
  <1>9. ASSUME NEW t \in Threads, SendDeploy(t) PROVE MessageInv'
    BY <1>9 DEF SendDeploy, DeployCmd
  <1>10. ASSUME NEW t \in Threads, SendDeployThrows(t) PROVE MessageInv'
    BY <1>10 DEF SendDeployThrows
  <1>11. ASSUME NEW t \in Threads, SetDeployStart(t) PROVE MessageInv'
    BY <1>11 DEF SetDeployStart
  <1>12. ASSUME NEW r \in replies, OnReDeployUnfinished(r) PROVE MessageInv'
    BY <1>12 DEF OnReDeployUnfinished, Consume, Cmd, Ended
  <1>13. ASSUME NEW r \in replies, OnReDeployFinished(r) PROVE MessageInv'
    BY <1>13 DEF OnReDeployFinished, Consume, Ended, Completing, NoCurrent
  <1>14. ASSUME NEW r \in replies, OnReControl(r) PROVE MessageInv'
    BY <1>14 DEF OnReControl, Consume, Cmd, After
  <1>15. ASSUME NEW c \in delayed, SendDelayCommand(c) PROVE MessageInv'
    BY <1>15 DEF SendDelayCommand
  <1>16. ASSUME NEW c \in delayed, SendDelayCommandThrows(c) PROVE MessageInv'
    BY <1>16 DEF SendDelayCommandThrows
  <1>17. CASE ShotDownFTP
    BY <1>17 DEF ShotDownFTP, Cmd
  <1>18. ASSUME NEW s \in Servers, OnReHeartBeat(s) PROVE MessageInv'
    BY <1>18 DEF OnReHeartBeat
  <1>19. ASSUME NEW s \in Servers, LoseHeartBeat(s) PROVE MessageInv'
    BY <1>19 DEF LoseHeartBeat
  <1>20. ASSUME NEW c \in cmds, RemoteDeploy(c) PROVE MessageInv'
    BY <1>20 DEF RemoteDeploy, Consume, ReplyTo, Outcomes
  <1>21. ASSUME NEW s \in Servers, RemoteProgress(s) PROVE MessageInv'
    BY <1>21 DEF RemoteProgress, Outcomes
  <1>22. ASSUME NEW c \in cmds, RemoteCheck(c) PROVE MessageInv'
    BY <1>22 DEF RemoteCheck, Consume, ReplyTo
  <1>23. ASSUME NEW c \in cmds, RemoteControl(c) PROVE MessageInv'
    BY <1>23 DEF RemoteControl, Consume, ReplyTo, Outcomes
  <1>24. ASSUME NEW c \in cmds, LoseCommand(c) PROVE MessageInv'
    BY <1>24 DEF LoseCommand
  <1>25. ASSUME NEW r \in replies, LoseReply(r) PROVE MessageInv'
    BY <1>25 DEF LoseReply
  <1>26. CASE UNCHANGED vars
    BY <1>26 DEF vars
  <1> QED
    BY <1>1, <1>2, <1>3, <1>4, <1>5, <1>6, <1>7, <1>8, <1>9, <1>10,
       <1>11, <1>12, <1>13, <1>14, <1>15, <1>16, <1>17, <1>18, <1>19,
       <1>20, <1>21, <1>22, <1>23, <1>24, <1>25, <1>26, NextCases

\* While one server works on its task no other becomes outstanding, and every
\* message under way is about that server.
LEMMA OutstandingStep ==
  ASSUME TypeOK, IInv, [Next]_vars, FirstDeploy'
  PROVE  OutstandingInv'
  <1> USE DEF TypeOK, Threads, FirstDeploy, IInv, ThreadInv,
         SingleToken, BeforeInv, Untouched, MessageInv, OutstandingInv,
         Outstanding, AboutCurrent, Ended, Working, AtMostOne, Busy, Command,
         Reply, Status,
         uiVars, taskVars, peerVars, ftpVars, threadVars, netVars, remoteVars
  <1>1. ASSUME NEW s \in Servers, AssignDeployTask(s) PROVE OutstandingInv'
    BY <1>1 DEF AssignDeployTask
  <1>2. CASE StartDeployTask
    BY <1>2 DEF StartDeployTask
  <1>3. CASE SetDeployTask
    BY <1>3 DEF SetDeployTask
  <1>4. ASSUME NEW t \in Threads, Scan(t) PROVE OutstandingInv'
    BY <1>4 DEF Scan, Offered, Running, HasTask
  <1>5. ASSUME NEW t \in Threads, ScanEnds(t) PROVE OutstandingInv'
    BY <1>5 DEF ScanEnds
  <1>6. ASSUME NEW t \in Threads, Check(t) PROVE OutstandingInv'
    BY <1>6 DEF Check, Running
  <1>7. ASSUME NEW t \in Threads, FetchDeployTask(t) PROVE OutstandingInv'
    BY <1>7 DEF FetchDeployTask, StartFTP, KeepsCurrent, NoCurrent, HasTask
  <1>8. ASSUME NEW t \in Threads, NothingToFetch(t) PROVE OutstandingInv'
    BY <1>8 DEF NothingToFetch, KeepsCurrent, NoCurrent, HasTask
  <1>9. ASSUME NEW t \in Threads, SendDeploy(t) PROVE OutstandingInv'
    BY <1>9 DEF SendDeploy, DeployCmd
  <1>10. ASSUME NEW t \in Threads, SendDeployThrows(t) PROVE OutstandingInv'
    BY <1>10 DEF SendDeployThrows
  <1>11. ASSUME NEW t \in Threads, SetDeployStart(t) PROVE OutstandingInv'
    BY <1>11 DEF SetDeployStart
  <1>12. ASSUME NEW r \in replies, OnReDeployUnfinished(r) PROVE OutstandingInv'
    BY <1>12 DEF OnReDeployUnfinished, Consume, Cmd, Ended
  <1>13. ASSUME NEW r \in replies, OnReDeployFinished(r) PROVE OutstandingInv'
    BY <1>13 DEF OnReDeployFinished, Consume, Ended, Completing, NoCurrent
  <1>14. ASSUME NEW r \in replies, OnReControl(r) PROVE OutstandingInv'
    BY <1>14 DEF OnReControl, Consume, Cmd, After
  <1>15. ASSUME NEW c \in delayed, SendDelayCommand(c) PROVE OutstandingInv'
    BY <1>15 DEF SendDelayCommand
  <1>16. ASSUME NEW c \in delayed, SendDelayCommandThrows(c) PROVE OutstandingInv'
    BY <1>16 DEF SendDelayCommandThrows
  <1>17. CASE ShotDownFTP
    BY <1>17 DEF ShotDownFTP, Cmd
  <1>18. ASSUME NEW s \in Servers, OnReHeartBeat(s) PROVE OutstandingInv'
    BY <1>18 DEF OnReHeartBeat
  <1>19. ASSUME NEW s \in Servers, LoseHeartBeat(s) PROVE OutstandingInv'
    BY <1>19 DEF LoseHeartBeat
  <1>20. ASSUME NEW c \in cmds, RemoteDeploy(c) PROVE OutstandingInv'
    BY <1>20 DEF RemoteDeploy, Consume, ReplyTo, Outcomes
  <1>21. ASSUME NEW s \in Servers, RemoteProgress(s) PROVE OutstandingInv'
    BY <1>21 DEF RemoteProgress, Outcomes
  <1>22. ASSUME NEW c \in cmds, RemoteCheck(c) PROVE OutstandingInv'
    BY <1>22 DEF RemoteCheck, Consume, ReplyTo
  <1>23. ASSUME NEW c \in cmds, RemoteControl(c) PROVE OutstandingInv'
    BY <1>23 DEF RemoteControl, Consume, ReplyTo, Outcomes
  <1>24. ASSUME NEW c \in cmds, LoseCommand(c) PROVE OutstandingInv'
    BY <1>24 DEF LoseCommand
  <1>25. ASSUME NEW r \in replies, LoseReply(r) PROVE OutstandingInv'
    BY <1>25 DEF LoseReply
  <1>26. CASE UNCHANGED vars
    BY <1>26 DEF vars
  <1> QED
    BY <1>1, <1>2, <1>3, <1>4, <1>5, <1>6, <1>7, <1>8, <1>9, <1>10,
       <1>11, <1>12, <1>13, <1>14, <1>15, <1>16, <1>17, <1>18, <1>19,
       <1>20, <1>21, <1>22, <1>23, <1>24, <1>25, <1>26, NextCases

\* startFTP comes before the command is sent and shotDownFTP after the last
\* reply, so that the FTP server outlives every download.
LEMMA FtpStep ==
  ASSUME TypeOK, IInv, [Next]_vars, FirstDeploy'
  PROVE  FtpInv'
  <1> USE DEF TypeOK, Threads, FirstDeploy, IInv, ThreadInv,
         SingleToken, BeforeInv, Untouched, MessageInv, OutstandingInv,
         Outstanding, AboutCurrent, FtpInv, Ended, Working, AtMostOne, Busy,
         Command, Reply, Status,
         uiVars, taskVars, peerVars, ftpVars, threadVars, netVars, remoteVars
  <1>1. ASSUME NEW s \in Servers, AssignDeployTask(s) PROVE FtpInv'
    BY <1>1 DEF AssignDeployTask
  <1>2. CASE StartDeployTask
    BY <1>2 DEF StartDeployTask
  <1>3. CASE SetDeployTask
    BY <1>3 DEF SetDeployTask
  <1>4. ASSUME NEW t \in Threads, Scan(t) PROVE FtpInv'
    BY <1>4 DEF Scan, Offered, Running, HasTask
  <1>5. ASSUME NEW t \in Threads, ScanEnds(t) PROVE FtpInv'
    BY <1>5 DEF ScanEnds
  <1>6. ASSUME NEW t \in Threads, Check(t) PROVE FtpInv'
    BY <1>6 DEF Check, Running
  <1>7. ASSUME NEW t \in Threads, FetchDeployTask(t) PROVE FtpInv'
    BY <1>7 DEF FetchDeployTask, StartFTP, KeepsCurrent, NoCurrent, HasTask
  <1>8. ASSUME NEW t \in Threads, NothingToFetch(t) PROVE FtpInv'
    BY <1>8 DEF NothingToFetch, KeepsCurrent, NoCurrent, HasTask
  <1>9. ASSUME NEW t \in Threads, SendDeploy(t) PROVE FtpInv'
    BY <1>9 DEF SendDeploy, DeployCmd
  <1>10. ASSUME NEW t \in Threads, SendDeployThrows(t) PROVE FtpInv'
    BY <1>10 DEF SendDeployThrows
  <1>11. ASSUME NEW t \in Threads, SetDeployStart(t) PROVE FtpInv'
    BY <1>11 DEF SetDeployStart
  <1>12. ASSUME NEW r \in replies, OnReDeployUnfinished(r) PROVE FtpInv'
    BY <1>12 DEF OnReDeployUnfinished, Consume, Cmd, Ended
  <1>13. ASSUME NEW r \in replies, OnReDeployFinished(r) PROVE FtpInv'
    BY <1>13 DEF OnReDeployFinished, Consume, Ended, Completing, NoCurrent
  <1>14. ASSUME NEW r \in replies, OnReControl(r) PROVE FtpInv'
    BY <1>14 DEF OnReControl, Consume, Cmd, After
  <1>15. ASSUME NEW c \in delayed, SendDelayCommand(c) PROVE FtpInv'
    BY <1>15 DEF SendDelayCommand
  <1>16. ASSUME NEW c \in delayed, SendDelayCommandThrows(c) PROVE FtpInv'
    BY <1>16 DEF SendDelayCommandThrows
  <1>17. CASE ShotDownFTP
    BY <1>17 DEF ShotDownFTP, Cmd
  <1>18. ASSUME NEW s \in Servers, OnReHeartBeat(s) PROVE FtpInv'
    BY <1>18 DEF OnReHeartBeat
  <1>19. ASSUME NEW s \in Servers, LoseHeartBeat(s) PROVE FtpInv'
    BY <1>19 DEF LoseHeartBeat
  <1>20. ASSUME NEW c \in cmds, RemoteDeploy(c) PROVE FtpInv'
    BY <1>20 DEF RemoteDeploy, Consume, ReplyTo, Outcomes
  <1>21. ASSUME NEW s \in Servers, RemoteProgress(s) PROVE FtpInv'
    BY <1>21 DEF RemoteProgress, Outcomes
  <1>22. ASSUME NEW c \in cmds, RemoteCheck(c) PROVE FtpInv'
    BY <1>22 DEF RemoteCheck, Consume, ReplyTo
  <1>23. ASSUME NEW c \in cmds, RemoteControl(c) PROVE FtpInv'
    BY <1>23 DEF RemoteControl, Consume, ReplyTo, Outcomes
  <1>24. ASSUME NEW c \in cmds, LoseCommand(c) PROVE FtpInv'
    BY <1>24 DEF LoseCommand
  <1>25. ASSUME NEW r \in replies, LoseReply(r) PROVE FtpInv'
    BY <1>25 DEF LoseReply
  <1>26. CASE UNCHANGED vars
    BY <1>26 DEF vars
  <1> QED
    BY <1>1, <1>2, <1>3, <1>4, <1>5, <1>6, <1>7, <1>8, <1>9, <1>10,
       <1>11, <1>12, <1>13, <1>14, <1>15, <1>16, <1>17, <1>18, <1>19,
       <1>20, <1>21, <1>22, <1>23, <1>24, <1>25, <1>26, NextCases

\* The scan that ends without a server has found each of them used up, and
\* nothing gives a server a new task afterwards.
LEMMA RestartStep ==
  ASSUME TypeOK, IInv, [Next]_vars, FirstDeploy'
  PROVE  RestartInv'
  <1> USE DEF TypeOK, Threads, FirstDeploy, IInv, ThreadInv,
         SingleToken, BeforeInv, Untouched, RestartInv, UsedUp, HasTask,
         Offered, Running, AtMostOne, Busy, Command, Reply, Status,
         uiVars, taskVars, peerVars, ftpVars, threadVars, netVars, remoteVars
  <1>1. ASSUME NEW s \in Servers, AssignDeployTask(s) PROVE RestartInv'
    BY <1>1 DEF AssignDeployTask
  <1>2. CASE StartDeployTask
    BY <1>2 DEF StartDeployTask
  <1>3. CASE SetDeployTask
    BY <1>3 DEF SetDeployTask
  <1>4. ASSUME NEW t \in Threads, Scan(t) PROVE RestartInv'
    <2> SUFFICES ASSUME ~MayGoSilent, t = "recv" PROVE RestartInv'
      BY <1>4 DEF Scan
    <2> DEFINE i == index["recv"]
    <2>1. CASE Offered(i)
      BY <1>4, <2>1 DEF Scan
    <2>2. CASE ~Offered(i)
      <3>1. i \in Servers /\ active[i]
        BY <1>4 DEF Scan
      <3>2. UsedUp(i)
        BY <2>2, <3>1 DEF Offered, Running
      <3>3. index' = [index EXCEPT !["recv"] = i + 1] /\ pc' = pc
        BY <1>4, <2>2, <3>1 DEF Scan
      <3>5. \A s \in Servers : s < index'["recv"] => UsedUp(s)
        BY <1>4, <3>1, <3>2, <3>3, UpTo DEF Scan
      <3> QED
        BY <1>4, <3>3, <3>5 DEF Scan
    <2> QED
      BY <2>1, <2>2
  <1>5. ASSUME NEW t \in Threads, ScanEnds(t) PROVE RestartInv'
    <2>1. \A s \in Servers : s < index[t]
      BY <1>5, Beyond DEF ScanEnds
    <2> QED
      BY <1>5, <2>1 DEF ScanEnds
  <1>6. ASSUME NEW t \in Threads, Check(t) PROVE RestartInv'
    BY <1>6 DEF Check, Running
  <1>7. ASSUME NEW t \in Threads, FetchDeployTask(t) PROVE RestartInv'
    BY <1>7 DEF FetchDeployTask, StartFTP, KeepsCurrent, NoCurrent, HasTask
  <1>8. ASSUME NEW t \in Threads, NothingToFetch(t) PROVE RestartInv'
    BY <1>8 DEF NothingToFetch, KeepsCurrent, NoCurrent, HasTask
  <1>9. ASSUME NEW t \in Threads, SendDeploy(t) PROVE RestartInv'
    BY <1>9 DEF SendDeploy, DeployCmd
  <1>10. ASSUME NEW t \in Threads, SendDeployThrows(t) PROVE RestartInv'
    BY <1>10 DEF SendDeployThrows
  <1>11. ASSUME NEW t \in Threads, SetDeployStart(t) PROVE RestartInv'
    BY <1>11 DEF SetDeployStart
  <1>12. ASSUME NEW r \in replies, OnReDeployUnfinished(r) PROVE RestartInv'
    BY <1>12 DEF OnReDeployUnfinished, Consume, Cmd, Ended
  <1>13. ASSUME NEW r \in replies, OnReDeployFinished(r) PROVE RestartInv'
    <2>1. \A s \in Servers : ~(s < index'["recv"])
      BY <1>13 DEF OnReDeployFinished, Servers
    <2>2. pc'["recv"] = "scan" /\ cmds' = {} /\ delayed' = {} /\ replies' = {}
      BY <1>13, ConsumeSubset DEF OnReDeployFinished
    <2> QED
      BY <1>13, <2>1, <2>2 DEF OnReDeployFinished
  <1>14. ASSUME NEW r \in replies, OnReControl(r) PROVE RestartInv'
    BY <1>14 DEF OnReControl, Consume, Cmd, After
  <1>15. ASSUME NEW c \in delayed, SendDelayCommand(c) PROVE RestartInv'
    BY <1>15 DEF SendDelayCommand
  <1>16. ASSUME NEW c \in delayed, SendDelayCommandThrows(c) PROVE RestartInv'
    BY <1>16 DEF SendDelayCommandThrows
  <1>17. CASE ShotDownFTP
    BY <1>17 DEF ShotDownFTP, Cmd
  <1>18. ASSUME NEW s \in Servers, OnReHeartBeat(s) PROVE RestartInv'
    BY <1>18 DEF OnReHeartBeat
  <1>19. ASSUME NEW s \in Servers, LoseHeartBeat(s) PROVE RestartInv'
    BY <1>19 DEF LoseHeartBeat
  <1>20. ASSUME NEW c \in cmds, RemoteDeploy(c) PROVE RestartInv'
    BY <1>20 DEF RemoteDeploy, Consume, ReplyTo, Outcomes
  <1>21. ASSUME NEW s \in Servers, RemoteProgress(s) PROVE RestartInv'
    BY <1>21 DEF RemoteProgress, Outcomes
  <1>22. ASSUME NEW c \in cmds, RemoteCheck(c) PROVE RestartInv'
    BY <1>22 DEF RemoteCheck, Consume, ReplyTo
  <1>23. ASSUME NEW c \in cmds, RemoteControl(c) PROVE RestartInv'
    BY <1>23 DEF RemoteControl, Consume, ReplyTo, Outcomes
  <1>24. ASSUME NEW c \in cmds, LoseCommand(c) PROVE RestartInv'
    BY <1>24 DEF LoseCommand
  <1>25. ASSUME NEW r \in replies, LoseReply(r) PROVE RestartInv'
    BY <1>25 DEF LoseReply
  <1>26. CASE UNCHANGED vars
    BY <1>26 DEF vars
  <1> QED
    BY <1>1, <1>2, <1>3, <1>4, <1>5, <1>6, <1>7, <1>8, <1>9, <1>10,
       <1>11, <1>12, <1>13, <1>14, <1>15, <1>16, <1>17, <1>18, <1>19,
       <1>20, <1>21, <1>22, <1>23, <1>24, <1>25, <1>26, NextCases

----------------------------------------------------------------------------
(* The invariant *)

\* The invariant holds before anything was deployed.
LEMMA InitIInv == Init => IInv
  <1> SUFFICES ASSUME Init PROVE IInv
    OBVIOUS
  <1> USE DEF Init, Threads
  <1>1. ThreadInv
    BY DEF ThreadInv
  <1>2. SingleToken
    BY DEF SingleToken, AtMostOne, Busy
  <1>3. BeforeInv
    BY DEF BeforeInv, Untouched, Working
  <1>4. MessageInv
    BY DEF MessageInv, Working
  <1>5. OutstandingInv
    BY DEF OutstandingInv, Outstanding, AboutCurrent
  <1>6. FtpInv
    BY DEF FtpInv, Working
  <1>7. RestartInv
    BY DEF RestartInv
  <1> QED
    BY <1>1, <1>2, <1>3, <1>4, <1>5, <1>6, <1>7 DEF IInv

\* No step gives the duration of the first deployment back.
LEMMA FirstDeployStays ==
  ASSUME TypeOK, [Next]_vars, FirstDeploy'
  PROVE  FirstDeploy
  <1>1. StartDeployTask \/ UNCHANGED deploys
    BY NextCases DEF vars, uiVars, AssignDeployTask, SetDeployTask, Scan,
       ScanEnds, Check, FetchDeployTask, NothingToFetch, SendDeploy,
       SendDeployThrows, SetDeployStart, OnReDeployUnfinished,
       OnReDeployFinished, OnReControl, SendDelayCommand,
       SendDelayCommandThrows, ShotDownFTP, OnReHeartBeat, LoseHeartBeat,
       RemoteDeploy, RemoteProgress, RemoteCheck, RemoteControl, LoseCommand,
       LoseReply
  <1>2. CASE StartDeployTask
    BY <1>2 DEF StartDeployTask, TypeOK, FirstDeploy
  <1> QED
    BY <1>1, <1>2 DEF FirstDeploy

\* Each part is preserved by every step, given all parts before it.
LEMMA NextIInv == TypeOK /\ IInv /\ [Next]_vars => IInv'
  <1> SUFFICES ASSUME TypeOK, IInv, [Next]_vars PROVE IInv'
    OBVIOUS
  <1>1. ThreadInv'
    BY ThreadStep DEF IInv
  <1>2. CASE FirstDeploy'
    <2>1. SingleToken'
      BY <1>2, TokenStep
    <2>2. BeforeInv' /\ MessageInv' /\ OutstandingInv'
      BY <1>2, BeforeStep, MessageStep, OutstandingStep
    <2>3. FtpInv' /\ RestartInv'
      BY <1>2, FtpStep, RestartStep
    <2> QED
      BY <1>1, <2>1, <2>2, <2>3 DEF IInv
  <1>3. CASE ~FirstDeploy'
    BY <1>1, <1>3 DEF IInv, SingleToken
  <1> QED
    BY <1>2, <1>3

\* The invariant holds in every reachable state of the engine.
THEOREM Invariant == Spec => []IInv
  <1>1. TypeOK /\ IInv /\ [Next]_vars => IInv'
    BY NextIInv
  <1> QED
    BY <1>1, InitIInv, TypeCorrect, PTL DEF Spec

----------------------------------------------------------------------------
(* The properties *)

\* In a first deployment one thing at most is under way: a thread about to
\* send, one command, one delayed command, or one reply.
THEOREM OneToken == Spec => []SingleToken
  <1>1. IInv => SingleToken
    BY DEF IInv
  <1> QED
    BY <1>1, Invariant, PTL

\* A working server is outstanding: that is why the invariant speaks about it.
LEMMA WorkingOutstanding ==
  ASSUME TypeOK, IInv, FirstDeploy, NEW s \in Servers, Working(s)
  PROVE  Outstanding(s)
  BY DEF IInv, MessageInv, Working, Outstanding

\* startDeploy's promise not to start a task before the last is completed: in a
\* first deployment no two remote servers work at the same time.
THEOREM OneAtATime == Spec => []AtMostOneWorking
  <1>1. TypeOK /\ IInv => AtMostOneWorking
    BY WorkingOutstanding DEF IInv, OutstandingInv, AtMostOneWorking, AtMostOne
  <1> QED
    BY <1>1, TypeCorrect, Invariant, PTL

\* In a first deployment onReDeploy never marks a task complete that its server
\* has not finished, although no reply names its task.
THEOREM CompleteMeansDone == Spec => []CompleteIsDone
  <1>1. IInv => CompleteIsDone
    BY DEF IInv, MessageInv, AboutCurrent, CompleteIsDone
  <1> QED
    BY <1>1, Invariant, PTL

\* In a first deployment shotDownFTP never takes the FTP server away from a
\* remote server that is still working on its task.
THEOREM FtpStaysUp == Spec => []FtpUpWhileWorking
  <1>1. IInv => FtpUpWhileWorking
    BY DEF IInv, FtpInv, FtpUpWhileWorking
  <1> QED
    BY <1>1, Invariant, PTL

\* In a first deployment the application is stopped, started and left only
\* while no server works.
THEOREM RestartIdle == Spec => []RestartWhenIdle
  <1>1. TypeOK /\ IInv => RestartWhenIdle
    BY WorkingOutstanding DEF IInv, OutstandingInv, RestartWhenIdle
  <1> QED
    BY <1>1, TypeCorrect, Invariant, PTL

\* If no server falls silent the restart comes after every task of every server.
THEOREM RestartLast == Spec => []RestartAfterAll
  <1>1. IInv => RestartAfterAll
    BY DEF IInv, RestartInv, UsedUp, RestartAfterAll
  <1> QED
    BY <1>1, Invariant, PTL

\* A deploy command is sent by a thread inside startDeploy, when no server is
\* outstanding: the task it carries is new to the server, or has failed there.
LEMMA DeployIsFresh ==
  ASSUME TypeOK, IInv, [Next]_vars, FirstDeploy',
         NEW c \in cmds' \ cmds, c.kind = "deploy", task[c.srv] = c.task
  PROVE  status[c.srv] = "fail"
  <1>1. FirstDeploy
    BY FirstDeployStays
  <1>2. ASSUME NEW t \in Threads, SendDeploy(t) PROVE status[c.srv] = "fail"
    <2> DEFINE s == target[t]
    <2>1. c.srv = s /\ c.task = fetched[s] /\ s \in Servers
      BY <1>2 DEF SendDeploy, DeployCmd, TypeOK
    <2>2. Busy(t) /\ ~Outstanding(s)
      BY <1>1, <1>2, <2>1 DEF SendDeploy, Busy, IInv, OutstandingInv
    <2>3. fetched[s] > 0 /\ ~complete[s]
      BY <1>1, <1>2 DEF SendDeploy, IInv, MessageInv
    <2> QED
      BY <2>1, <2>2, <2>3 DEF Outstanding, AboutCurrent
  <1>3. ASSUME NEW d \in delayed, SendDelayCommand(d) PROVE FALSE
    BY <1>1, <1>3 DEF SendDelayCommand, IInv, MessageInv
  <1>4. (\E t \in Threads : SendDeploy(t))
          \/ (\E d \in delayed : SendDelayCommand(d))
    <2>1. ~(cmds' \subseteq cmds)
      OBVIOUS
    <2> QED
      BY <2>1, NextCases, ConsumeSubset
      DEF vars, uiVars, netVars, AssignDeployTask, StartDeployTask,
          SetDeployTask, Scan, ScanEnds, Check, FetchDeployTask,
          NothingToFetch, SendDeployThrows, SetDeployStart,
          OnReDeployUnfinished, OnReDeployFinished, OnReControl,
          SendDelayCommandThrows, ShotDownFTP, OnReHeartBeat, LoseHeartBeat,
          RemoteDeploy, RemoteProgress, RemoteCheck, RemoteControl,
          LoseCommand, LoseReply
  <1> QED
    BY <1>2, <1>3, <1>4

\* In a first deployment a server is asked again to deploy a task it accepted
\* only after the task failed, however startDeploy races with setDeployStart.
THEOREM NeverAskedTwice == Spec => NoResend
  <1> DEFINE A == FirstDeploy' =>
       \A c \in cmds' \ cmds :
         c.kind = "deploy" /\ task[c.srv] = c.task => status[c.srv] = "fail"
  <1>1. TypeOK /\ IInv /\ [Next]_vars => [A]_vars
    BY DeployIsFresh
  <1>2. NoResend <=> [][A]_vars
    BY DEF NoResend
  <1> QED
    BY <1>1, <1>2, TypeCorrect, Invariant, PTL DEF Spec

----------------------------------------------------------------------------
(* The refinement *)

\* Nothing is pending at first.
LEMMA InitPending == Init => PendingInv
  BY DEF Init, PendingInv, Pending

\* A task is popped when its server is through with the one before and nothing
\* is under way; from then on only its command is.
LEMMA PendingStep ==
  ASSUME TypeOK, IInv, PendingInv, [Next]_vars, FirstDeploy'
  PROVE  PendingInv'
  <1> USE DEF TypeOK, Threads, FirstDeploy, IInv, ThreadInv,
         SingleToken, BeforeInv, Untouched, MessageInv, PendingInv, Pending,
         AboutCurrent, Ended, Working, AtMostOne, Busy, Command, Reply, Status,
         uiVars, taskVars, peerVars, ftpVars, threadVars, netVars, remoteVars
  <1>1. ASSUME NEW s \in Servers, AssignDeployTask(s) PROVE PendingInv'
    BY <1>1 DEF AssignDeployTask
  <1>2. CASE StartDeployTask
    BY <1>2 DEF StartDeployTask
  <1>3. CASE SetDeployTask
    BY <1>3 DEF SetDeployTask
  <1>4. ASSUME NEW t \in Threads, Scan(t) PROVE PendingInv'
    BY <1>4 DEF Scan, Offered, Running, HasTask
  <1>5. ASSUME NEW t \in Threads, ScanEnds(t) PROVE PendingInv'
    BY <1>5 DEF ScanEnds
  <1>6. ASSUME NEW t \in Threads, Check(t) PROVE PendingInv'
    BY <1>6 DEF Check, Running
  <1>7. ASSUME NEW t \in Threads, FetchDeployTask(t) PROVE PendingInv'
    BY <1>7 DEF FetchDeployTask, StartFTP, KeepsCurrent, NoCurrent, HasTask
  <1>8. ASSUME NEW t \in Threads, NothingToFetch(t) PROVE PendingInv'
    BY <1>8 DEF NothingToFetch, KeepsCurrent, NoCurrent, HasTask
  <1>9. ASSUME NEW t \in Threads, SendDeploy(t) PROVE PendingInv'
    BY <1>9 DEF SendDeploy, DeployCmd
  <1>10. ASSUME NEW t \in Threads, SendDeployThrows(t) PROVE PendingInv'
    BY <1>10 DEF SendDeployThrows
  <1>11. ASSUME NEW t \in Threads, SetDeployStart(t) PROVE PendingInv'
    BY <1>11 DEF SetDeployStart
  <1>12. ASSUME NEW r \in replies, OnReDeployUnfinished(r) PROVE PendingInv'
    BY <1>12 DEF OnReDeployUnfinished, Consume, Cmd, Ended
  <1>13. ASSUME NEW r \in replies, OnReDeployFinished(r) PROVE PendingInv'
    BY <1>13 DEF OnReDeployFinished, Consume, Ended, Completing, NoCurrent
  <1>14. ASSUME NEW r \in replies, OnReControl(r) PROVE PendingInv'
    BY <1>14 DEF OnReControl, Consume, Cmd, After
  <1>15. ASSUME NEW c \in delayed, SendDelayCommand(c) PROVE PendingInv'
    BY <1>15 DEF SendDelayCommand
  <1>16. ASSUME NEW c \in delayed, SendDelayCommandThrows(c) PROVE PendingInv'
    BY <1>16 DEF SendDelayCommandThrows
  <1>17. CASE ShotDownFTP
    BY <1>17 DEF ShotDownFTP, Cmd
  <1>18. ASSUME NEW s \in Servers, OnReHeartBeat(s) PROVE PendingInv'
    BY <1>18 DEF OnReHeartBeat
  <1>19. ASSUME NEW s \in Servers, LoseHeartBeat(s) PROVE PendingInv'
    BY <1>19 DEF LoseHeartBeat
  <1>20. ASSUME NEW c \in cmds, RemoteDeploy(c) PROVE PendingInv'
    BY <1>20 DEF RemoteDeploy, Consume, ReplyTo, Outcomes
  <1>21. ASSUME NEW s \in Servers, RemoteProgress(s) PROVE PendingInv'
    BY <1>21 DEF RemoteProgress, Outcomes
  <1>22. ASSUME NEW c \in cmds, RemoteCheck(c) PROVE PendingInv'
    BY <1>22 DEF RemoteCheck, Consume, ReplyTo
  <1>23. ASSUME NEW c \in cmds, RemoteControl(c) PROVE PendingInv'
    BY <1>23 DEF RemoteControl, Consume, ReplyTo, Outcomes
  <1>24. ASSUME NEW c \in cmds, LoseCommand(c) PROVE PendingInv'
    BY <1>24 DEF LoseCommand
  <1>25. ASSUME NEW r \in replies, LoseReply(r) PROVE PendingInv'
    BY <1>25 DEF LoseReply
  <1>26. CASE UNCHANGED vars
    BY <1>26 DEF vars
  <1> QED
    BY <1>1, <1>2, <1>3, <1>4, <1>5, <1>6, <1>7, <1>8, <1>9, <1>10,
       <1>11, <1>12, <1>13, <1>14, <1>15, <1>16, <1>17, <1>18, <1>19,
       <1>20, <1>21, <1>22, <1>23, <1>24, <1>25, <1>26, NextCases

\* As long as there was one deployment at most, a popped task is accepted
\* before the next one is popped.
LEMMA NextPending == TypeOK /\ IInv /\ PendingInv /\ [Next]_vars => PendingInv'
  <1> SUFFICES ASSUME TypeOK, IInv, PendingInv, [Next]_vars PROVE PendingInv'
    OBVIOUS
  <1>1. CASE FirstDeploy'
    BY <1>1, PendingStep
  <1>2. CASE ~FirstDeploy'
    BY <1>2 DEF PendingInv
  <1> QED
    BY <1>1, <1>2

\* In a first deployment fetchDeployTask never pops a task while the one popped
\* before has not reached its server.
THEOREM PendingIsNext == Spec => []PendingInv
  <1> QED
    BY InitPending, NextPending, TypeCorrect, Invariant, PTL DEF Spec

----------------------------------------------------------------------------
(* The steps of the engine are steps of SequentialDeploy *)

\* While a deploy command is in flight no server works: a working server is
\* outstanding, and then only checks are in flight.
LEMMA NobodyWorks ==
  ASSUME TypeOK, IInv, FirstDeploy, NEW c \in cmds, c.kind = "deploy",
         NEW u \in Servers
  PROVE  ~Abstract!Works(u)
  BY WorkingOutstanding
  DEF Abstract!Works, Working, IInv, OutstandingInv

\* The server that accepts a deploy command takes its next task, or again the
\* one it failed.
LEMMA DeployTakes ==
  ASSUME TypeOK, IInv, PendingInv, FirstDeploy,
         NEW c \in cmds, RemoteDeploy(c)
  PROVE  Abstract!Next
  <1> DEFINE s == c.srv
  <1>1. s \in Servers /\ c.kind = "deploy" /\ c.task = fetched[s]
          /\ fetched[s] > 0 /\ ~complete[s]
    BY DEF RemoteDeploy, TypeOK, Command, IInv, MessageInv
  <1>2. Abstract!Take(s, c.task)
    <2>1. \A u \in Servers : ~Abstract!Works(u)
      BY <1>1, NobodyWorks
    <2>2. task' = [task EXCEPT ![s] = c.task]
      BY DEF RemoteDeploy
    <2>3. \E st \in {"waiting", "running", "done", "fail"} :
            status' = [status EXCEPT ![s] = st]
      BY DEF RemoteDeploy, Outcomes, Status
    <2> QED
      BY <2>1, <2>2, <2>3 DEF Abstract!Take
  <1>3. CASE Pending(s)
    <2>1. c.task = task[s] + 1 /\ status[s] = "done"
      BY <1>1, <1>3 DEF PendingInv
    <2> QED
      BY <1>1, <1>2, <2>1 DEF Abstract!Next, Abstract!TakeNext
  <1>4. CASE ~Pending(s)
    <2>1. c.task = task[s] /\ AboutCurrent(s)
      BY <1>1, <1>4 DEF Pending, AboutCurrent
    <2>2. ~Outstanding(s)
      BY <1>1 DEF IInv, OutstandingInv
    <2>3. status[s] = "fail"
      BY <1>1, <2>1, <2>2 DEF Outstanding
    <2> QED
      BY <1>1, <1>2, <2>1, <2>3 DEF Abstract!Next, Abstract!TakeAgain
  <1> QED
    BY <1>3, <1>4

\* What a server does on its own is progress.
LEMMA ProgressIsProgress ==
  ASSUME NEW s \in Servers, RemoteProgress(s)
  PROVE  Abstract!Next
  <1>1. Outcomes \ {"waiting", "running"} \subseteq {"done", "fail"}
    BY DEF Outcomes, Status
  <1>2. Abstract!Progress(s)
    BY <1>1 DEF RemoteProgress, Abstract!Progress
  <1> QED
    BY <1>2 DEF Abstract!Next

\* Every other step leaves the tasks of the servers alone.
LEMMA StepImplements ==
  ASSUME TypeOK, IInv, PendingInv, [Next]_vars, FirstDeploy
  PROVE  [Abstract!Next]_<<task, status>>
  <1>1. \/ \E c \in cmds : RemoteDeploy(c)
        \/ \E s \in Servers : RemoteProgress(s)
        \/ UNCHANGED <<task, status>>
    BY NextCases
    DEF vars, remoteVars, AssignDeployTask, StartDeployTask, SetDeployTask,
        Scan, ScanEnds, Check, FetchDeployTask, NothingToFetch, SendDeploy,
        SendDeployThrows, SetDeployStart, OnReDeployUnfinished,
        OnReDeployFinished, OnReControl, SendDelayCommand,
        SendDelayCommandThrows, ShotDownFTP, OnReHeartBeat, LoseHeartBeat,
        RemoteCheck, RemoteControl, LoseCommand, LoseReply
  <1> QED
    BY <1>1, DeployTakes, ProgressIsProgress

\* The engine implements the abstract specification: under fetchDeployDSServer
\* and startDeploy the remote servers work one after the other, each takes its
\* tasks in order and skips none, and takes one again only if it failed.
THEOREM Implements ==
  ASSUME MaxDeploys <= 1, ~MayDuplicate
  PROVE  Spec => Sequential
  <1>1. Init => Abstract!Init
    BY DEF Init, Abstract!Init
  <1>2. TypeOK => FirstDeploy
    BY BoundAssumption DEF TypeOK, FirstDeploy
  <1>3. TypeOK /\ IInv /\ PendingInv /\ [Next]_vars
          => [Abstract!Next]_<<task, status>>
    BY <1>2, StepImplements
  <1>4. Spec => Abstract!Spec
    BY <1>1, <1>3, TypeCorrect, Invariant, PendingIsNext, PTL
    DEF Spec, Abstract!Spec, Abstract!vars
  <1> QED
    BY <1>4 DEF Sequential

============================================================================
