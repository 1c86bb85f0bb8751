-------------------------- MODULE SequentialDeploy --------------------------
(***************************************************************************)
(* What a deployment promises, seen from the DSServers alone: they work    *)
(* one after the other, each takes its tasks in the order in which they    *)
(* were queued and skips none, and a task is taken again only after it     *)
(* failed.  Threads, commands, replies and queues are out of sight.        *)
(***************************************************************************)
EXTENDS Naturals

CONSTANT Servers

VARIABLES
  job,    \* job[s]: the number of the task s took last, 0 before the first
  state   \* state[s]: how far s is with it

vars == <<job, state>>

Init ==
  /\ job = [s \in Servers |-> 0]
  /\ state = [s \in Servers |-> "done"]

Works(s) == state[s] \in {"waiting", "running"}

\* s takes a task, and may be through with it at once.
Take(s, k) ==
  /\ \A u \in Servers : ~Works(u)
  /\ job' = [job EXCEPT ![s] = k]
  /\ \E st \in {"waiting", "running", "done", "fail"} :
       state' = [state EXCEPT ![s] = st]

TakeNext(s) == state[s] = "done" /\ Take(s, job[s] + 1)

TakeAgain(s) == state[s] = "fail" /\ Take(s, job[s])

Progress(s) ==
  /\ UNCHANGED job
  /\ \/ /\ state[s] = "waiting"
        /\ state' = [state EXCEPT ![s] = "running"]
     \/ /\ state[s] = "running"
        /\ \E st \in {"done", "fail"} : state' = [state EXCEPT ![s] = st]

Next == \E s \in Servers : TakeNext(s) \/ TakeAgain(s) \/ Progress(s)

Spec == Init /\ [][Next]_vars
============================================================================
