# A verification project for DSControl

DSControl is a Qt desktop program: an editor in which a distributed system is
drawn (systems, subsystems, computers, applications, components and the
connections between them), and a client of the DSServers, one agent on each
computer of that system, which it watches and to which it deploys the generated
applications. This directory holds TLA+ models of its client part and of the
editor's core, the configurations TLC checks them with, and proofs of their
main theorems.

Paths are relative to `src/`. IMP stands for `network/DSServerCommImp.cpp`, COMM
for `network/DSServerComm.cpp`, NET for `network/NetDefine.h`, CM for
`manager/ControllManager.cpp` and DF for `nodeeditor/models/DataFlowModel.cpp`.

## 1. The system

### Parts, their state and their operations

| Part | State | Operations | Module |
|---|---|---|---|
| Deployment engine (IMP) | per DSServer: task queue, current task with `_start` and `_complete`, `_isConnected`, address, delayed commands; `_isFTPOn`, `_ftpServer`, `_socketLock` | `setDeployTask`, `startDeploy`, `fetchDeployDSServer`, `starDeploy`, `startFTP`, `shotDownFTP`, `onReDeploy`, `onReStop`, `onReStart`, `onReLeave`, `dealDelayCommands` | `DeployScheduler` |
| Heartbeat timer (IMP) | `_needSend`, per DSServer `_heartBeat` and `_isConnected` | `onTimer`, `recodeHeartBeatWithoutAnswer`, `resetHeartBeat`, `setNeedSend` | `HeartBeat` |
| Running information (IMP) | per DSServer `_tempRuningInfo`, `_runningInfo`, `_runningInformation` | `onReHeartBeat`, `setRuningInformation`, `appendRuningInformation`, `getRuningInformation` | `RunningInfo` |
| Datagram packages (NET) | buffers of `SendCommand` and `RecieveCommand` | `constructSendBuffer`, `getData`, `getMultiPakageContent`, `getMultiIndex` | `Package`, `PackageLink` |
| Communication lifecycle (COMM, IMP, CM) | `_side`, `_running`, threads, timer, socket, server list | `Init`, `Stop`, `SetMonitor`, `StartDeployTask`, `showMonitoring` | `ServerComm` |
| Project lifecycle (CM, `manager/Project.cpp`, `Platform.cpp`) | open project, content of the editor, project files, recent projects, the state of the window | new, open, save, save as, close, exit, start; deploy and monitor start the components above | `ProjectLifecycle` |
| Name registry (`nodeeditor/singletones/NameController.cpp`) | `allNames_`: base name to the set of its numbers; the caption of each node | `itemCaptionAddedSlot`, `changeItemCaption`, `itemCaptionRemovedSlot`, `containsCaption`, `clear` | `NodeCaptions` |
| Scene model (DF) | nodes with parents, connections | `addNode`, `removeNodeCommand`, `addConnection`, `removeConnectionCommand`, `setRelation`, `restore`, `clear` | `SceneUndo`, `NodeCaptions` |
| Undo stack (`nodeeditor/utils/undo`) | the commands with their saved states and pointers, the index of QUndoStack | push, macros, undo and redo of the node and connection commands | `SceneUndo` |
| Communication and message lists (`nodeeditor/lists`) | communications with row, id and name; each message's references (id and name) | add, remove, update, restore, the two slots of `MessageList`, the dialog of a message | `CommLists` |
| Monitor and deployment views (`ui/monitor`, `ui/deploy`, `manager/models`) | trees of computers, applications, threads; the assignment of applications to computers | update, drop, accept | planned |
| Generators, configuration, dialogs, drawing | files and widgets | - | not modelled (section 7) |

### How they interact

Three threads of the program and one of the FTP library share the
communication objects:

* the UI thread runs the editor, the manager and the facade `DSServerComm`; it
  queues tasks, starts deployments, starts and stops the communication;
* the receive thread (`DSServerCommImp::run`) loops: send the delayed commands
  that are due, read one datagram, dispatch it to an `onRe...` handler; the
  handlers send the next command, and run `startDeploy` again when a task ended;
* the timer thread (`TimerHeardBeat::onTimer`) sends a heartbeat to every
  DSServer and counts it as unanswered.

`_socketLock` is held around each send and around `starDeploy` as a whole. The
scan of the server list, the task queues, the heartbeat counters and the report
texts are shared without a lock. From the receive thread to the UI thread goes
a queued Qt signal that carries a pointer.

The protocol is UDP: a command is one datagram, its answer another, nothing is
numbered, nothing is sent twice by design. A deployment is a chain: CMD_DEPLOY,
its answer, a check every five seconds (`DELAY`) while the answer says waiting or running, and
on "done" the next task, on the same server or on the next one in address order;
when nothing is left, the FTP server is shut down and the application is
restarted by STOP, START, LEAVE, each after the success of the one before.

The editor runs on the UI thread alone; what interleaves there are the user's
edits. An edit pushes a command, QUndoStack runs it at once, and the command
calls back into the scene model, which may push further commands. Every node
that is added or about to be removed is told to the name registry. The table of
communications changes one list; the messages follow it by two signals, one with
a name and one with an id.

### What is hard, and what makes each part correct

* **Deployment engine.** Two threads in `startDeploy`, answers that overtake the
  flags they are about, lost datagrams, failing tasks, servers that fall silent
  and return, sends that throw in the middle. It is correct when servers
  work one at a time, tasks run in their order and none is skipped, a task
  marked complete is done, the FTP server outlives the downloads, and the
  restart comes last.
* **Heartbeat.** An unprotected counter. Correct when a server is inactive only
  if it missed enough heartbeats, when a silent one is found, and one that
  answers comes back.
* **Running information.** A report of several packages over a lossy network,
  restarted by every heartbeat, published through a pointer. Correct when only
  whole reports are shown, never an older one after a newer one, and when
  reports do arrive.
* **Packages.** Lengths and indexes in bytes and signed shorts, a buffer of 4096
  bytes. Correct when the receiver reads what was packed.
* **Lifecycle.** `stop` takes down piece by piece what two threads use.
  Correct when nothing is used after it is gone, and `stop` returns.
* **Names.** Two copies of one datum, the captions and the registry, that must
  agree through every order of adding, renaming, removing and bringing back.
  Correct when no two nodes show the same caption and numbers are reused.
* **Scene and undo.** Commands that push commands while the stack is walked, pointers
  and saved states that outlive the nodes, an edit (the drag) that is no command and
  that may be refused halfway.
  Correct when connections have their ends, undo and redo retrace the scenes,
  and no command finds its node gone or is deleted while it runs.
* **Lists.** Ids from the size of the list, used as rows elsewhere. Correct when a
  message refers to communications that exist, under the names they have.
* **Projects.** One editor object for all projects, filled and cleared by handlers
  that each react in their own way to the answer to "save changes?" and to a write
  that fails. Correct when the content moves whole between file and editor, two
  projects never mix, and an answer that saves loses nothing unless for a cause the
  model names.

`PROJECT.json` lists each of these hazards with its line and with the
properties that cover it, and the ones still uncovered.

## 2. Modules

```
DeployScheduler  <-- DeployInvariant <-- DeployRefinement --(INSTANCE)--> SequentialDeploy
Package <-- PackageLink      Package <-- RunningInfo      HeartBeat      ServerComm
NodeCaptions                 ProjectLifecycle            SceneUndo      CommLists
```

**DeployScheduler** is the engine with both threads and the network. A thread
has a program counter that follows `startDeploy`: `scan` (one server of
`fetchDeployDSServer` at a time, without a lock), `check`, `fetch` (with the
lock), `send`, `mark` (`setDeployStart`, after the send: the answer can be handled
before it only by the other thread), `shut`. The k-th task of a server is the
number k, so a queue is the pair `enqueued`, `fetched`. The remote DSServers are
external: they take a task, pass from waiting to running to done or failed, and
answer deploys, checks and control commands. Lost datagrams, silent servers,
failures and throwing sends are switched by constants. A send to a server that
has never answered a heartbeat goes to address 0.0.0.0:0 and throws; on the
receive thread `run` catches it, except around delayed commands, where the
thread ends; out of the UI slot it ends the process.

**DeployInvariant** is the inductive invariant; **SequentialDeploy** says what a
deployment promises seen from the DSServers alone; **DeployRefinement** maps one
to the other (`job <- task`, `state <- status`).

**HeartBeat** splits `_heartBeat++` into load, store and compare, and
`resetHeartBeat` into its two assignments; the comparison may use the register
or read the counter again, as the build may do for a data race. `unheard` counts the
heartbeats that were sent to a DSServer, not the increments, so that a DSServer the
loop does not reach in a tick has none.

**RunningInfo** keeps a text as the sequence of packages whose content it holds.
A *pull* is the chain of requests and packages that a heartbeat starts. The timer
may send the next heartbeat at any time, also during a pull, a datagram may be
lost or delivered twice, and the UI thread may read the string through
its pointer while `getRuningInformation` assigns it: such a read returns the old
text, the new one or `Torn`. Nothing numbers the reports, so packages of two pulls
that overlap, or a package that comes twice, do end up in one text. `mixed` says for
the pull under way, for the published and for the shown text whether its own pull
was disturbed in one of these two ways; about those the properties say only that they
do not last. A loss is no disturbance: it ends the pull, and what it has left
must not get into the next text.

**Package** holds the pure functions of NET with their widths; **PackageLink**
sends one package through them, of any size that the check of
`constructSendBuffer` lets through. That check counts the 7 bytes around a plain
payload also for a package of a series, which has 10 (NET:131), so that `sendBuf`
may be overrun: `written` counts the bytes, and what arrives then is left open.

**ServerComm** has one action per statement of `DSServerCommImp::stop`, and the
timer and receive threads reduced to what they use: the list, the socket, the
lock, the FTP server. `Poco::Timer` and the thread join are external.

**NodeCaptions** has the captions of the nodes and the registry. A text is a base, a
number and whether it is spelled the way the registry spells it; `split` takes
"Radar", "Radar_0" and "Radar_00" apart to the same base and number, but
`changeItemCaption` compares texts. One action per way in: a created node, a
component named after its file, a node brought back by a paste or a command, the
rename dialog (which asks `containsCaption`), the tree view (which does not),
removal, `Facade::clear`, and reopening a project, which registers default
captions and restores the saved ones behind the registry's back (DF:810).
`RegistryExact` is also the reason why what looks like a slip is none:
`itemCaptionRemovedSlot` drops a base whose last number is not the one removed
(NameController.cpp:171), but the two never differ.

**SceneUndo** keeps the scene, the stack and QUndoStack's index; a step that runs
many commands is a fold over a record of all of them. An entry of the stack is an
outermost macro: a removal is the commands for the connections, then for the
children, then its own. While a command is undone or redone no macro is open, and
what `removeNodeCommand` pushes goes onto the stack that is being walked
(`Pushed` with `at`): it cuts off what was undone, and at the limit deletes
the oldest entry. `AddConnectionCommand` makes a connection with a new uuid at
each redo, `RemoveConnectionCommand` restores from a state that is always empty
(a TODO at lines 29-30), which brings back either nothing or a connection
without names and uuid (a *phantom*; `ZeroRefused` says which); a phantom that is
removed does not come back, as its id is not valid
(RemoveConnectionCommand.cpp:41).

A drag (`Facade::nodeDropped`) moves a node without a command, and ends in one of
four ways. A component of a container is cut: its connections are removed, by a
command each, and its graphics item is taken out of the scene. If `paste` takes it
(`DragPasted`), it gets the item and the parent, and the connections are made again,
by a command each; if `canPaste` refuses (`DragRefused`), `paste` returns and
nothing is restored: the node keeps its parent, without connections and without an
item (`hidden`). A component of the main scene is not cut, because its parent
has no id and so no scene: `createComposite` gives it the parent and a further item
(`DragFromMain`). And a node whose item is missing makes `canCopy` use a null pointer
(`DragHidden`), as does whoever connects it (`NoItem`). Whether a drag is refused
depends on the types of node and target alone, so that it is a constant of the
node: `Misfits` are the components that no container but their own takes,
`External` those that may lie on the main scene. `removeNodeConnections` collects
what it removes in a map keyed by uuid, which holds one phantom (`Keyed`).

The model stops where the code does something undefined or fails an assertion
(`fault`) and remembers in `marks` what the user has done to the stack.

**CommLists** keeps the communications by row with id and name, and for each
message its references. `updateCommunication` uses the id as a row, as the code
does; where that is past the end `vector::at` throws and the model stops.

**ProjectLifecycle** has the open project, the editor's content as a set, what each
file holds, and the recent projects in the manager and in `recent.json`. The
editor is one object for all projects: `closeProject` clears it, but only when there
is a project (`AfterClose`), and `openProject` adds to what is in it. New, Close
and Exit ask whether to save and each reacts in its own way to the answer;
`AskNew` and `NewProject` are two steps because the dialog of New lies between
them. A write has three outcomes: the file is not opened, it is opened (and
emptied) and the write fails, or all is well; the first is silent, the second
is reported as a success (`write` returns -1, the code asks for 0). `causes`
remembers what went wrong.

The proofs are in modules named after the one they are about, with `_proofs`:
`DeployScheduler_proofs` (also of DeployInvariant and DeployRefinement),
`HeartBeat_proofs`, `RunningInfo_proofs` (also of Package and PackageLink),
`ServerComm_proofs`, `NodeCaptions_proofs`, `SceneUndo_proofs`, `CommLists_proofs`
and `ProjectLifecycle_proofs`.

## 3. Runs

Passing runs:

| Run | Configuration | Bounds | What it shows |
|---|---|---|---|
| `first_deploy` | `DeployRefinement_first.cfg` | 3 servers, up to 2 tasks each, one deployment; losses, failures, silent servers, throwing sends | one token, one working server, true completions, FTP up while it is needed, restart only when idle, no resend, a popped task reaches its server before the next pop, and the refinement of SequentialDeploy |
| `deploy_ends` | `DeployScheduler_live.cfg` | 2 servers, 2 tasks, good network, fair | every deployment with enough tasks ends with all tasks done and the FTP server down; the restart comes after all tasks |
| `package_link` | `PackageLink.cfg` | all sizes 0 .. 4089, the 16-bit words around every sign and byte boundary | payload lengths and indexes survive; a package of a series with 4087 to 4089 bytes overruns the buffer by 1 to 3 bytes, no other does |
| `report_pull` | `RunningInfo_pull.cfg` | reports of 1 to 3 packages, 2 reports, one datagram doubled, heartbeats and losses at any time, reads during the assignment | a pull that no other heartbeat overlaps and no doubled datagram meets shows a whole report, never an older one, whatever earlier pulls left; a torn text is read again; every heartbeat brings a newer report, loses a datagram or has its pull disturbed |
| `heartbeat_race` | `HeartBeat_race.cfg` | 3 servers of which the second cannot be sent to, limit 3, losses | inactive only when sent too many heartbeats without an answer (the one behind the unreachable one never), silent servers detected, answering ones return |
| `comm_stop` | `ServerComm_stop.cfg` | 0 to 2 servers | nothing used after stop, FTP down after stop, timer and thread started once, stop returns |
| `captions_edit` | `NodeCaptions_edit.cfg` | 3 nodes of 2 types (one a component), typed numbers 0 to 2, at most 2 nodes of a type | the registry is exact, captions are unique, the dialog keeps its word, the least free number is given |
| `undo_edit` | `SceneUndo_edit.cfg` | 2 containers, 2 components (one may lie on the main scene, one is refused by other containers), 1 wire, 3 commands in the stack, connections made twice; 1.9 million states | connections have their ends, and these their items; nodes follow the history unless something is dragged to another parent or positions shift; faults need a drag, such a shift, a remade connection, a phantom or an item that a refused drag has lost |
| `comm_lists` | `CommLists_edit.cfg` | 3 communications, 1 message, 1 typed name beside the default ones | while only the last communication is ever removed, references follow ids and names; if no name is given twice either, they change only with their communication or in their dialog |
| `project_work` | `ProjectLifecycle_work.cfg` | 3 files, 1 item of content, 2 recent projects, refused and short writes, removed files | nothing of one project gets into another, an opened project is the file's, an answer that saves loses content only for a named reason - all unless a recent project was missing when another was open |

Why the bounds are enough. In the engine the order of three servers
distinguishes before, at and after the current one, and two tasks distinguish
"more on this server" from "next server"; the theorems of section 5 hold for
every number. A report of three packages has a first, a middle and a last one;
two reports after the empty text let an old and a newer one meet, and the theorems
hold for any number. One doubled datagram is enough to mix packages, and a
loss may follow or precede it. The second of three servers is the one that cannot be
sent to, so that there is one before it and one behind it. The limit 3 of
the heartbeat (5 in the code, a parameter here) allows every interleaving of
increments and resets below and above it, and counts above the limit are not
told apart by the code. A third server adds nothing to `ServerComm`, which
only asks whether there is another one to send to.

Runs that find a disagreement between the code and what its comments say:

| Run | Property | What happens |
|---|---|---|
| `task_fails` | `AllStarted` | "untill finish all tasks" (IMP:376): a failed task stays "running" in the engine, and nothing behind it is started |
| `captions_reopen` | `TakenNameRefused` | "This name has already taken" (`nodeeditor/widgets/RenameDialog.cpp:10`): after reopening a project with renamed nodes the registry holds the numbers of the default captions, and the dialog accepts a caption that another node shows |

Observations that no run of their own checks: `startDeploy` returns true after
`starDeploy` found no task (IMP:387); a multi package with fewer than ten payload
bytes is not copied at all (NET:200; `LongContentKept` states it); a heartbeat
that throws leaves the servers after it without one, in every tick (IMP:195; the
premise `Reached` states it: they stay active, silent or not); with a single task on the first server its "done"
can overtake `setDeployStart`, after which the deployment stops
(`AllPicked` excludes it); `Init` after `Stop` does nothing because `_side` is
kept, so the communication stays down for the session (`InitOnce` states the
half that is a promise). Further ones, from counterexamples of these models with
other constants or without a premise:

* a server with no task, first in address order, is offered for ever and hides
  the later ones (IMP:366); `AllPicked` has every server picked because of it;
* a second press of the deploy button queues every task again, and the scan, in
  address order, offers an earlier server while a later one works, although
  `fetchDeployDSServer` "would not offer new DSServer before the current is
  completed" (IMP:353-354): the model with `MaxDeploys = 2`;
* `shotDownFTP` leaves `_isFTPOn` set, so the second deployment of a session has no
  FTP server (IMP:494);
* a heartbeat sent while a report is pulled starts a second chain of packages that
  mixes with the first, and a datagram delivered twice is appended twice (IMP:445):
  `"info"` and `"shown"` in `mixed` exempt such a text in `ShownWhole`;
* a package of a series with 4087 to 4089 bytes of payload passes the check of
  `constructSendBuffer`, which counts 7 bytes beside the payload instead of 10
  (NET:131), and 1 to 3 bytes are written past the end of `sendBuf`
  (`OverrunAtTop`). DSControl itself sends such packages only without payload;
* the monitor may read the string while the receive thread assigns it (IMP:463): the
  text is torn then, and read again with the signal that follows (`ShownWhole`);
* a reset of the heartbeat counter between the load and the store of the increment
  is lost (IMP:112): the disjunct about `raced` in `InactiveWhenUnheard`;
* undo after a drag: connect two components, drag one into a container added
  later, undo until that container is gone, and go on undoing:
  `removeConnectionCommand` runs for a connection whose end is missing, which
  `Q_ASSERT(checkIndex(...))` excludes (DF:444);
* redo after a redo: add two components, connect them, remove one, undo twice,
  redo twice: the connection has been made again under a new uuid, the macro does
  not remove it, so `RemoveNodeCommand::redo` pushes a command while the stack is
  being redone, and QUndoStack deletes the running one (`FaultsNeedACause` says
  that it takes such a connection, a phantom or a drag);
* three phantoms at one node (connect, disconnect, undo twice, for three wires):
  undoing the addition of that node removes them by commands of their own, pushed
  onto the stack that is being walked. If it is full, each push deletes the oldest
  entry and every position moves down by one, but `QUndoStack::undo` (external)
  has computed the new index before it called the command, so that the addition
  just undone counts as done and the nodes no longer follow the history; when the
  running entry is the oldest one, it is deleted while it runs. `"shifted"`
  marks this case;
* a drag that is refused: `cut` has already removed the connections and the item
  (Facade.cpp:897-899) when `paste` returns (Facade.cpp:978). The node stays in the
  model and cannot be seen; a later drag of it or connection to it, by a redo for
  instance, uses a null pointer: `"no item"` in `FaultsNeedACause`;
* a node dragged from the main scene into another gets a second item
  (Facade.cpp:308-326), and its connections keep the items of the first;
* two phantoms at a node that is dragged: `removeNodeConnections` collects what it
  removes in a map keyed by uuid, which holds one of them (Facade.cpp:1234), and the
  other stays at the node (`Keyed`);
* remove the first of two communications and rename the other: its id is 1, its row
  0, and `communications_.at(1)` throws (CommunicationList.cpp:330);
* type "Communication_1" for the first communication and add another one: it gets the
  same name by default, and when it is removed, the slot that follows names
  takes a message's reference to the first one away: `"clash"` in `RefsStay`;
* open a recent project whose file was removed while another project is open: the
  project becomes null but the page, the editor and the enabled actions stay
  (CM:302). Deploy then uses the null pointer (CM:963), Exit asks nothing, and New
  writes what is left into the new project's file: `EmptyWithoutProject` and
  `ShowsTheFile` exclude this case by `causes`;
* Save As chosen in New's "Do you want to save changes?", its file dialog
  cancelled: `actionNewProject` ignores that (Platform.cpp:652), and when its own
  dialog is accepted the content is gone; Close and Exit keep the project open in
  this case: `"cancelled"` in `SavedUnlessTold`;
* New does not look whether a file of that name exists and writes over it (CM:371),
  also over the file just saved: `"overwrote"` in `SavedUnlessTold`;
* Open and the recent projects ask nothing about unsaved changes (Platform.cpp:671);
* a project that is in the recent list is not moved to the front (CM:505), so at the
  limit the one used last may be the one that is dropped;
* a negative number typed after a base hides that 0 is taken from
  `expectedNumber`; the proofs assume natural numbers.

Deadlock is checked for `HeartBeat`, `ServerComm` and `NodeCaptions`. The other
modules have bounded work (one deployment, a number of reports, one package) or
stop where the program does (`fault`, `outOfRange`, `crashed`), and may end.

In `undo_edit` three commands of the code's fifty make the stack full after a few
edits, so that what the limit deletes is part of most behaviours; two containers
are needed to drag from one to another, and a connection that is made, made again
and removed needs two uuids. One component may be on the main scene and be dragged
from there, the other is refused, so that each end of a drag is met, at both ends of
the wire. Containers are interchangeable (`Symmetry`). Three
communications are a first, a middle and a last one, which is what a removal
tells apart; messages do not look at each other, so one stands for all. In
`project_work` three files are the open one and two others, of which the recent
list, full with two, has to drop one; content moves whole, so one item tells whether it
is there.

## 4. Fairness

* `DeployScheduler`: weak fairness of each thread's `startDeploy` and of the
  receive loop (threads are scheduled), of the remote answers and progress
  (assumption on the agents). The receive thread handles one token at a time in
  a first deployment, so weak fairness per thread is enough. Nothing is assumed
  about losses: the liveness run has none, as the code retries nothing.
* `RunningInfo`: weak fairness of the receive loop, the UI event loop and the agent;
  none of the timer, as `NewReportShown` starts from a heartbeat. Its `lost` and
  `"pull" \in mixed` are the two excuses of a network that repairs nothing: a
  datagram was lost since the last heartbeat, or the pull was disturbed. A
  read that meets the next assignment may be torn; what counts is the read after it.
  `MaxReports` ends the reports of the model, so the next heartbeat's
  report may be the one that never comes: this is why the property is about a
  heartbeat sent while fewer reports have been taken.
* `HeartBeat`: the timer fires and both threads run. Strong fairness of
  `ClearCount`: the socket is a queue, an answer in it is read in its turn even if
  it is absent and present again in the set that models it.
* `ServerComm`: strong fairness of the two `lock` steps (a mutex waited for is
  given in the end) and of leaving the two loops (the server list and the
  delayed commands of one round are finite).

The UI is never forced to do anything: no button is fair.

## 5. Theorems

All proofs are checked by TLAPS, for every value of the constants that the named
assumptions allow.

**Deployment** (`DeployScheduler_proofs`). `TypeCorrect`, `Invariant`, and from it
`OneToken`, `OneAtATime`, `CompleteMeansDone`, `FtpStaysUp`, `RestartIdle`,
`RestartLast` and `NeverAskedTwice`. None of these properties is inductive. The
argument of `IInv`: in a first deployment there is one *token*, a
thread about to send, or one command, delayed command or reply in flight
(`SingleToken`), and it says the truth about the server it concerns
(`MessageInv`: commands and replies are about the current task of their server).
A server that has accepted a task and has not been heard of (`Outstanding`)
therefore is what the token is about, and no other is (`OutstandingInv`); that
is why two never work together, and why "done" completes the right task although
it carries no number. `FtpInv` and `RestartInv` follow the token through its
states. `ThreadInv` and `BeforeInv` say where the threads can be. The receive
and the UI thread meet in `startDeploy` only with the lock, and only the
UI thread has the token before the first command. The action `SetDeployStart`
of a thread without the token is where the invariant needs care: it may set
`_start` of a later task, which no conjunct of safety depends on.

**Refinement** (`DeployScheduler_proofs`). `PendingIsNext`: a task popped and not
yet accepted is the successor of the one accepted last, its server is through,
and the token is on its way to it. `Implements`: with one deployment and
no duplicates, `Spec => Sequential`. Every step stutters in the abstract
specification except `RemoteDeploy`, which is `TakeNext` or `TakeAgain`, and
`RemoteProgress`.

**Heartbeat** (`HeartBeat_proofs`). `TypeCorrect`, and `InactiveOnlyUnheard` by an
invariant that bounds the counter, and the register of the timer in each
step of the increment, by the heartbeats sent since the last answer.

**Reports** (`RunningInfo_proofs`). Everything here holds with overlaps, losses,
doubled datagrams and reads during the assignment. `TypeCorrect`: an index that is
asked for is that of a package which is not complete, plus one, and fits into
a short. `WholeReports` by `PullInv` and `TextsInv`: an undisturbed pull has one
thing in flight; the text holds the first packages of the DSServer's report up to
the one in flight, so what is published from it is whole, and a text is as whole as
the one it was copied from, unless `mixed` names it. `NeverOlder` puts the texts in
the order of their age (`AgesInv`): no package on the screen is newer than any that
the DSServer took last, even in a mixture; `PullInv` is needed to know that what
an undisturbed pull publishes next is that last one.

**Packages** (`RunningInfo_proofs`). `PackageArrives`: all payload sizes that the check
lets through, those of the overrun included, and all words. The lemmas on bytes
and signed shorts it rests on are those that the reports need as well.

**Lifecycle** (`ServerComm_proofs`). `TypeCorrect`, `QuietStop` and `StartedOnce`, by
an invariant that says for each step of `stop` which threads are gone.

**Names** (`NodeCaptions_proofs`). `TypeCorrect`, `RegistryIsExact`,
`NoSharedCaption`, `DialogKeepsItsWord` and `NumbersReused`, for any nodes, bases,
numbers and limit, from `Assumption`: typed numbers are natural and reopened
projects are regular. The invariant `IInv` says that captions of living nodes are
spelled by the registry, differ, and have natural numbers, and that the
registry is their image. Without uniqueness exactness is not inductive (removing
one of two equal captions would unregister the other), and without
exactness uniqueness is not (the registry would give a number away that is in use).
The lemmas are about `expectedNumber`: on a finite set of naturals that contains
0 there is a first gap, found as a minimum of a well-founded order, and it is
not in the set. `Removed` may drop a whole base only when its last caption goes.

**Undo stack** (`SceneUndo_proofs`). `TypeCorrect`, `EndsKept`, `HistoryFollowed` and
`FaultsCaused`, for any nodes, wires, limit and number of connections, with every
nested push. A step here is a fold of commands over a scene and a stack that change
under it; the two folds (`PushedAll`, `Walked`) are recursive functions over an
interval, and what holds before and after each command is carried along them by
`UpTo`, induction over a set of naturals.

* `Structure` is the first invariant: the types, the ends of connections in the scene
  (`EndsThere`) and with their items (`ItemsThere`), and three facts about entries
  that hold even after a drag. Of the edits modelled only a removal makes a macro of
  several commands (`Formed`), so undoing an addition or a connection runs
  alone; a node that an undone entry would add again has a saved place (`Saved`); a
  component lies in a container that is in the scene, or on the main scene (`Nested`).
  The latter is what keeps ends: removing a container takes its children's
  connections away, and nothing is left in a container that is gone. Items are kept
  because a refused drag cuts every connection with a uuid before the item goes, and
  a connection that comes to a hidden node stops the model. `TypeCorrect` and
  `EndsKept` follow.
* `Inductive` adds what the stack tells of the scene (`Told`). That undo leads back
  to the scene before an entry says nothing about the entries below it,
  and that a command finds its node says nothing about what the next one
  finds; so each entry has to lead from the scene before it to the one after it by
  its own commands (`Leads`). An addition adds one node in an existing place
  (`AddLeads`); anything else removes nodes, children before parents and
  connections before both (`RestLeads`). That order is what makes it undoable: walked
  backwards, a parent is back before its children ask for it. `Chained` says that
  entries meet, and that the scene is where those around the index meet.
  `GoneForGood` says that a removed node is not brought back by a later entry (an id
  is drawn once); with it, no connection comes to such a node (`Unconnected`),
  and redoing a removal finds nothing to push, which is what would make QUndoStack
  delete the running command.
* The commands by which a drag cuts and joins are entries of their own that leave
  the nodes alone; so a refused drag (`DragRefusedTold`) keeps the history, while
  the drags that move a node set `"dragged"`.
* In the middle of an entry the scene is neither the one before nor the one after:
  `Back(e, k)` and `Ahead(e, k)` are the scenes with k of its commands undone or redone,
  and a walk goes from one to the next.

The premises of the last two are there because without them they are false:
`"dragged"`, `"shifted"`, for the deleted command also `"remade"` and `"phantom"`, and
for the missing item a hidden node; section 3 tells how each goes wrong.

**Lists** (`CommLists_proofs`). `TypeCorrect`, `ReferencesFollow` and
`ReferencesStay`, for any messages, names and bound. The invariant is that the id of
a communication is its row as long as only the last is removed (`IdIsRow`): it is what
makes the id that `updateCommunication` takes for a row one, the next id a
new one, and the sorting of `Reopen` do nothing. `NamesDiffer` under the premise that
no name is given twice makes the slot that follows names take the reference
of the removed communication and no other.

**Projects** (`ProjectLifecycle_proofs`). `TypeCorrect` (with it the bound of the
recent list, and that it names no file twice), `NoProjectNoContent`, `OpenedWhole` and
`AskedIsSaved`, for any files, content, limit and faults. The invariant adds to
`EmptyWithoutProject` what holds while the dialog of New is open (`SavedInNew`):
an answer that saves has been carried out, and what could undo it, a removed file,
leaves a cause. Without it the step that closes the old project would have nothing
to go by, as the save was a step earlier. `OpenedWhole` is what `AfterClose` needs
the invariant for: it clears nothing when there is no project, and that is right
only because the editor is empty then.

Assumptions: "no file" is not a file; the number of servers is positive, the bounds are naturals, the flags
are Booleans, a report has at most 32768 packages and its packages fit into a
datagram; node ids are finitely many (uuids of 128 bits), a container is no component,
and an id is none of the values that stand for no node and for the main scene.

Only model-checked: the liveness properties (`DeploymentEnds`, `NewReportShown`,
`SilentDetected`, `AnsweringReturns`, `StopReturns`), as TLAPS does not reason about
ENABLED. The two properties of the runs that expect a violation are false and
have no theorem.

## 6. Abstractions

* Datagrams in flight and delayed commands are sets: no order, no two equal
  ones; duplication is an option of consumption, in `RunningInfo` up to `MaxDoubled`
  times. All delayed commands wait the same time, so any of them may be due.
* Contents of commands other than what handlers look at are left out: file
  names, addresses, XML.
* Several queued `updatedMonitorData` signals are one pending flag, and one delivery
  stands for all of them: they read the same string.
* Counters are compared with a limit only and saturate above it.
* History variables (`unheard`, `raced`, `lost`, `mixed`) are read by properties only.
* FTP transfers are a property of the remote states waiting and running; a
  failing start of the FTP server, which `startFTP` swallows, is left out, so
  `FtpUpWhileWorking` is about shutting it down too early.
* `MaxTasks`, `MaxDeploys`, `MaxPackages`, `MaxReports`, `MaxDoubled` and `MaxServers`
  are bounds of the models, not of the code.
* The theorems about the engine are about a first deployment, by `FirstDeploy`;
  the observations of section 3 say what a second one does.
* `NodeCaptions`: undo and paste are one action, a node brought back with a caption the
  registry has once spelled. `AnyReopen = FALSE` restricts reopening to projects
  whose captions are the ones the registry would have given; `captions_reopen`
  shows what happens otherwise.
* `SceneUndo`: two levels of nodes for the five, a wire for the ports, messages
  and communications of a connection; a new node has an id no command knows
  (ids are uuids). A drag goes from the main scene or a container to a container;
  items are there or not there, and nothing is said of the second one that
  `createComposite` makes. The limits per type are in `NodeCaptions` and are not reached
  here. The scene starts empty; that a stack may know less than the scene holds,
  as after opening a project, is what its limit brings about.
* `CommLists`: "Communication_<id>" is the number id; a typed name is another one or
  one of these. `marks` remembers a removal that was not the last one's
  and a name given twice. The message dialog is one step (it is modal).
* `ProjectLifecycle`: what a project is made of is a set; a file that could not be
  written whole holds nothing (a truncated JSON document loads as nothing). All
  file names have the right extension, `recent.json` can be written, and what
  stays in the editor and comes again from a file is there once. The messages that a
  new project reads from the XML folder (CM:281) are not counted as content. The
  menu of recent projects, a copy of the list as of the last closing, is the list.
* `MaxUid`, `MaxComms` and `Limit` are bounds of the models; `UndoLimit` is 50 in the code.

## 7. Not modelled

* Calls of the facade before the first `Init` (null `_side`), exceptions of `bind`
  and `connect`: the process ends, there is no state to check.
* Generators (`OutXmlGenerator`, `ProjectDocumentCreator`, `IDEProjectCreator`,
  `ComponentCreator`, `CustomDesignerPluginGenerator`) and `MessagesDeserializer`:
  text in, text out.
* In the lists: device names and the other columns, protocols of messages, and the
  connections that a removed communication takes with it. The lambda that
  `Facade::createGraphicsConnect` connects for every connection uses frozen ids
  after the removal (undefined behaviour in drawing code).
* In the undo stack: the commands on positions, frames, texts and arrows, which
  change drawing only, and the macros that group several items: the removal of a
  selection and the paste from the clipboard (Facade.cpp:915-974), which is a macro
  of several additions. The theorems on the stack are about single edits.
* Of the project lifecycle: names, dates and uuids of projects, extraction and
  documentation, and `removeFromRecentProjects`, which nothing calls.
* The deployment dialog and the monitor's tree: sequential code around Qt item
  models. The deployment dialog's lambda over dead locals (CM:992) has no state to check.
* Configuration and settings: sequential access to files.
* Dialogs, drawing, menus, styles, the sniffer and update views: Qt widgets
  without a protocol.
* The monitor agent (`network/businessComponents/DSMonitor`): a program on
  another computer and another framework; modelled as the remote side.
* Bundled code (`3rdparty`, `fineftp`, `DSDesigner`), `testComponents`, `qt_plugin`,
  installer and scripts; `trash/` is not built.

## 8. Plan

Done, in this order: DeployScheduler with its invariant, proofs and refinement;
Package and PackageLink; RunningInfo; HeartBeat; ServerComm; NodeCaptions with its
proofs; SceneUndo; CommLists; ProjectLifecycle with its proofs; the invariants and
proofs of SceneUndo and CommLists, and every type invariant.

What would come next: `SceneUndo` with more than one wire in the run (the
theorems hold for any number), and an abstract stack of whole scenes which
it implements as long as `marks` is empty (`Chained` is that refinement's
invariant); the deployment dialog; the monitor's tree under updates.
