-------------------------- MODULE DeployRefinement --------------------------
(***************************************************************************)
(* The deployment engine implements SequentialDeploy in a first            *)
(* deployment: what the remote servers do under its commands, with lost    *)
(* datagrams, failed tasks, silent servers and throwing sends, is a        *)
(* sequential deployment.                                                  *)
(***************************************************************************)
EXTENDS DeployInvariant

Abstract == INSTANCE SequentialDeploy WITH job <- task, state <- status

\* fetchDeployTask has popped a task that its server has not accepted yet.
Pending(s) == fetched[s] # task[s]

\* Then the server is through with the task before, and nothing else is under
\* way; so a second task can not be popped before the first is accepted.
PendingInv ==
  FirstDeploy =>
    \A s \in Servers :
      /\ task[s] = 0 => status[s] = "done"
      /\ Pending(s) =>
           /\ fetched[s] = task[s] + 1 /\ status[s] = "done"
           /\ \A u \in Servers : Pending(u) => u = s
           /\ \A t \in Threads : Busy(t) => pc[t] = "send" /\ target[t] = s
           /\ \A c \in cmds : c.kind = "deploy" /\ c.srv = s
           /\ delayed = {} /\ replies = {}

\* fetchDeployDSServer and startDeploy hand out the tasks of all servers one
\* after the other: the engine implements the abstract specification.
Sequential == Abstract!Spec
============================================================================
