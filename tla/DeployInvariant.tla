-------------------------- MODULE DeployInvariant --------------------------
(***************************************************************************)
(* The inductive invariant behind the safety properties of DeployScheduler *)
(* in a first deployment.  None of those properties is inductive: that two *)
(* servers never work together, say, rests on where the one token is and   *)
(* on what it says about the current task of its server.                   *)
(***************************************************************************)
EXTENDS DeployScheduler

\* A thread holds the socket lock exactly while it is between fetching a task
\* and marking it started; only the UI thread queues, only the other shuts.
ThreadInv ==
  /\ \A t \in Threads : lock = t <=> pc[t] \in {"send", "mark"}
  /\ pc["ui"] # "shut"
  /\ pc["recv"] # "enqueue"

\* Before the UI thread's first fetch nothing has happened yet.
Untouched ==
  /\ \A s \in Servers : fetched[s] = 0 /\ task[s] = 0 /\ ~start[s] /\ ~complete[s]
  /\ \A s \in Servers : ~Working(s)
  /\ ~ftpOn /\ ~ftpServer

BeforeInv ==
  /\ deploys = 0 =>
       /\ Untouched
       /\ \A t \in Threads : pc[t] \in {"idle", "dead"}
       /\ cmds = {} /\ delayed = {} /\ replies = {}
  /\ pc["ui"] \in {"enqueue", "scan", "check", "fetch"} =>
       Untouched /\ pc["recv"] \in {"idle", "dead"}

\* What a datagram says is about the current task of its server.
AboutCurrent(s) == fetched[s] > 0 /\ task[s] = fetched[s]

MessageInv ==
  /\ \A s \in Servers : task[s] <= fetched[s]
  /\ \A s \in Servers : complete[s] => AboutCurrent(s) /\ status[s] = "done"
  /\ \A s \in Servers : Working(s) => AboutCurrent(s)
  /\ \A c \in cmds : c.kind = "deploy" =>
       /\ c.task = fetched[c.srv]
       /\ fetched[c.srv] > 0
       /\ ~complete[c.srv]
  /\ \A c \in delayed : c.kind # "deploy"
  /\ \A c \in cmds \cup delayed : c.kind = "check" => AboutCurrent(c.srv)
  /\ \A r \in replies : r.kind = "deploy" =>
       /\ AboutCurrent(r.srv)
       /\ r.status \in Ended => status[r.srv] = r.status
  /\ \A t \in Threads : pc[t] = "send" =>
       fetched[target[t]] > 0 /\ ~complete[target[t]]

\* A server has accepted its current task, and its success or its failure has
\* not been heard of: then whatever is under way is about this server.
Outstanding(s) == AboutCurrent(s) /\ ~complete[s] /\ status[s] # "fail"

OutstandingInv ==
  \A s \in Servers : Outstanding(s) =>
    /\ \A u \in Servers : Outstanding(u) => u = s
    /\ \A t \in Threads : ~Busy(t)
    /\ \A c \in cmds \cup delayed : c.kind = "check" /\ c.srv = s
    /\ \A r \in replies : r.kind = "deploy" /\ r.srv = s

\* The FTP server runs as long as the token belongs to a deployment.
FtpInv ==
  /\ ftpServer => ftpOn
  /\ \A s \in Servers : Working(s) => ftpServer
  /\ \A c \in cmds \cup delayed : c.kind \in {"deploy", "check"} => ftpServer
  /\ \A r \in replies : r.kind = "deploy" => ftpServer
  /\ pc["recv"] \in {"scan", "check", "fetch", "send", "shut"} => ftpServer
  /\ pc["ui"] = "send" => ftpServer

\* When no server falls silent, what the receive thread has scanned in vain,
\* and every server once it shuts down, is done and has no more tasks.
UsedUp(s) == ~HasTask(s) /\ start[s] /\ complete[s]

RestartInv ==
  ~MayGoSilent =>
    /\ \A s \in Servers : active[s]
    /\ pc["recv"] = "scan" =>
         \A s \in Servers : s < index["recv"] => UsedUp(s)
    /\ pc["recv"] = "shut" => \A s \in Servers : UsedUp(s)
    /\ (\E c \in cmds \cup delayed : c.kind \in {"stop", "start", "leave"})
         => \A s \in Servers : UsedUp(s)
    /\ (\E r \in replies : r.kind # "deploy")
         => \A s \in Servers : UsedUp(s)

\* The invariant: the token, the threads, the messages, the outstanding task,
\* the FTP server and the restart, for as long as there was one deployment.
IInv ==
  /\ ThreadInv
  /\ SingleToken
  /\ FirstDeploy => BeforeInv /\ MessageInv /\ OutstandingInv
                    /\ FtpInv /\ RestartInv

============================================================================
