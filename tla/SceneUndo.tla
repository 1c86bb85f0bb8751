------------------------------ MODULE SceneUndo ------------------------------
(***************************************************************************)
(* The scene's nodes and connections (DataFlowModel) and the undo stack    *)
(* over them (UndoController, CommandStack, the commands of utils/undo).   *)
(*                                                                         *)
(* An edit pushes a command, and QUndoStack runs it.  What makes the stack *)
(* delicate is that running one command may push others: removing a node   *)
(* removes its connections and its children by commands of their own.  On  *)
(* the first removal they land in the open macro; when the removal happens *)
(* because some command is undone or redone no macro is open, and they are *)
(* pushed onto the stack that is being walked.                             *)
(*                                                                         *)
(* Two levels of nodes stand for the five: containers, and components in   *)
(* containers or on the main scene, which alone have connections.          *)
(* Dragging a node to another parent is an edit that is not a command; a   *)
(* drag that is refused halfway leaves the node without a graphics item.   *)
(***************************************************************************)
EXTENDS Integers, FiniteSets, Sequences, SequencesExt

CONSTANTS
  Containers, Components,  \* node ids
  External,     \* the components that may be dropped on the main scene
  Misfits,      \* the components that no parent but their own takes
  Outs, Ins,    \* the components whose output, whose input a user connects
  UndoLimit,    \* commands the stack keeps (50 in the code)
  MaxUid,       \* bound: connections ever made
  ZeroRefused   \* TRUE: message 0 does not use communication 0

ASSUME IdsDiffer == Containers \cap Components = {}
ASSUME PortsAreComponents == Outs \subseteq Components /\ Ins \subseteq Components
ASSUME ExternalAreComponents == External \subseteq Components
ASSUME IdsAreFinite == IsFiniteSet(Containers) /\ IsFiniteSet(Components)
ASSUME BoundsAreNat == UndoLimit \in Nat \ {0} /\ MaxUid \in Nat
ASSUME ZeroRefusedIsBool == ZeroRefused \in BOOLEAN

Nodes == Containers \cup Components
Wires == Outs \X Ins
Absent == 0      \* parent of an id that is not in the scene
Root == -1       \* parent of a node on the main scene
Empty == -2      \* a saved state that is still {}
NullUid == 0     \* the uuid of a connection restored from {}
Faults == {"none", "command deleted", "assertion", "node missing", "no item"}
Marks == {"dragged", "shifted", "remade", "phantom"}

ASSUME MarkersAreNoIds == Nodes \cap {Absent, Root, Empty} = {}

\* Containers are interchangeable: no definition chooses among them.
Symmetry == Permutations(Containers)

VARIABLES
  parent,   \* node -> its parent, Root or Absent
  conns,    \* the connections, in DataFlowModel::connections_ and at both ends
  stack,    \* the undo stack, an entry for each command or outermost macro
  index,    \* QUndoStack::index: entries 1 .. index are done
  hidden,   \* the components that have no graphics item on any scene
  nextUid,  \* uuid of the next connection
  fault,    \* what went wrong, if something did: the model stops there
  marks     \* what has happened to this stack (for the properties)

vars == <<parent, conns, stack, index, hidden, nextUid, fault, marks>>

Conn == [wire : Wires, uid : 0 .. MaxUid]
Command ==
  [op : {"add", "remove"}, node : Nodes, saved : Containers \cup {Root, Empty}]
    \cup [op : {"connect", "disconnect"}, conn : Conn]
Scene == [Nodes -> Containers \cup {Root, Absent}]
Entry == [cmds : Seq(Command), before : Scene, after : Scene]

TypeOK ==
  /\ parent \in Scene
  /\ conns \subseteq Conn
  /\ stack \in Seq(Entry) /\ Len(stack) <= UndoLimit
  /\ index \in 0 .. Len(stack)
  /\ hidden \subseteq Components
  /\ nextUid \in 1 .. MaxUid + 1
  /\ fault \in Faults
  /\ marks \subseteq Marks

----------------------------------------------------------------------------
\* The scene and the stack as one record, for steps that run many commands.
State ==
  [parent |-> parent, conns |-> conns, stack |-> stack, index |-> index,
   uid |-> nextUid, fault |-> fault, marks |-> marks, at |-> 0]

InScene(s, n) == s.parent[n] # Absent
NoItem(c) == {c.wire[1], c.wire[2]} \cap hidden # {}

\* s comes about, where of the nodes in the scene those in out have no item.
\* Whoever draws a new connection takes the items of its ends for granted.
Appears(s, out) ==
  /\ parent' = s.parent /\ conns' = s.conns
  /\ stack' = s.stack   /\ index' = s.index
  /\ hidden' = {n \in out : InScene(s, n)}
  /\ nextUid' = s.uid   /\ marks' = s.marks
  /\ fault' = IF \E c \in s.conns \ conns : NoItem(c) THEN "no item" ELSE s.fault

Become(s) == Appears(s, hidden)

EndsInScene(s, w) == InScene(s, w[1]) /\ InScene(s, w[2])
Children(s, n) == {m \in Nodes : s.parent[m] = n}
Family(s, n) == {n} \cup Children(s, n)

\* nodeConnections: a component's own, a container's through its children.
ConnsOf(s, n) ==
  {c \in s.conns : {c.wire[1], c.wire[2]} \cap Family(s, n) # {}}

AddOf(n, saved) == [op |-> "add", node |-> n, saved |-> saved]
RemoveOf(n, saved) == [op |-> "remove", node |-> n, saved |-> saved]
ConnectOf(c) == [op |-> "connect", conn |-> c]
DisconnectOf(c) == [op |-> "disconnect", conn |-> c]

\* The other form of Pushed, which does not count what the limit deletes.
PushedUncounted(s, cmds, after) ==
  LET kept == Append(SubSeq(s.stack, 1, s.index),
                     [cmds |-> cmds, before |-> s.parent, after |-> after])
  IN  [s EXCEPT !.stack = IF Len(kept) > UndoLimit THEN Tail(kept) ELSE kept,
                !.index = Len(kept)]

\* QUndoStack::push and endMacro with no other macro open: what was undone is
\* deleted, the entry appended, the oldest one deleted over the limit.  s.at is
\* the entry being undone meanwhile, 0 if none.
Pushed(s, cmds, after) ==
  LET kept == Append(SubSeq(s.stack, 1, s.index),
                     [cmds |-> cmds, before |-> s.parent, after |-> after])
      over == Len(kept) > UndoLimit
  IN  [s EXCEPT
         !.stack = IF over THEN Tail(kept) ELSE kept,
         !.index = IF over THEN Len(kept) - 1 ELSE Len(kept),
         !.at    = IF over THEN @ - 1 ELSE @,
         !.marks = IF over /\ s.at > 0 THEN @ \cup {"shifted"} ELSE @,
         !.fault = IF over /\ s.at = 1 THEN "command deleted" ELSE @]

\* The other form of Pulled removes the children first.
PulledChildrenFirst(s, n) ==
  LET out == SetToSeq(ConnsOf(s, n))
      kids == SetToSeq(Children(s, n))
  IN  [i \in DOMAIN kids |-> RemoveOf(kids[i], n)]
        \o [i \in DOMAIN out |-> DisconnectOf(out[i])]

\* The commands that removeNodeCommand(n) pushes: one for each connection,
\* then one for each child.
Pulled(s, n) ==
  LET out == SetToSeq(ConnsOf(s, n))
      kids == SetToSeq(Children(s, n))
  IN  [i \in DOMAIN out |-> DisconnectOf(out[i])]
        \o [i \in DOMAIN kids |-> RemoveOf(kids[i], n)]

\* The scene after it.
Gone(s, n) ==
  [s EXCEPT !.conns = @ \ ConnsOf(s, n),
            !.parent = [m \in Nodes |-> IF m \in Family(s, n) THEN Absent
                                                              ELSE @[m]]]

\* A command for a connection, or for the removal of a child, is pushed and run.
PushedRun(s, c) ==
  LET p == IF c.op = "remove" THEN [s.parent EXCEPT ![c.node] = Absent] ELSE s.parent
  IN  [Pushed(s, <<c>>, p) EXCEPT
         !.parent = p,
         !.conns  = CASE c.op = "connect"    -> @ \cup {c.conn}
                      [] c.op = "disconnect" -> @ \ {c.conn}
                      [] OTHER               -> @,
         !.uid    = IF c.op = "connect" THEN @ + 1 ELSE @]

\* The commands of a list, one after the other.
PushedAll(s, list) ==
  LET run[i \in 0 .. Len(list)] ==
        IF i = 0 THEN s ELSE PushedRun(run[i - 1], list[i])
  IN  run[Len(list)]

Disconnected(s, c) ==
  IF EndsInScene(s, c.wire) THEN [s EXCEPT !.conns = @ \ {c}]
                            ELSE [s EXCEPT !.fault = "assertion"]

\* The other form of PutBack forgets the parent.
PutOnMain(s, c) == [s EXCEPT !.parent[c.node] = Root]

\* DataFlowModel::addNode with a saved state: back under the old parent, or on
\* the main scene if that is gone.
PutBack(s, c) ==
  [s EXCEPT !.parent[c.node] =
     IF c.saved = Root \/ InScene(s, c.saved) THEN c.saved ELSE Root]

Save(s, i, saved) == [s EXCEPT !.stack[s.at].cmds[i].saved = saved]

----------------------------------------------------------------------------
\* Command i of entry s.at undone and redone.  The model stops at a command for a
\* node that is not in the scene: a connection's fails an assertion, a node's
\* forgets what it had saved.

UndoAdd(s, i, c) ==
  IF ~InScene(s, c.node) THEN [s EXCEPT !.fault = "node missing"]
  ELSE LET t == IF c.saved = Empty THEN Save(s, i, s.parent[c.node]) ELSE s
       IN  Gone(PushedAll(t, Pulled(t, c.node)), c.node)

UndoRemove(s, c) == IF InScene(s, c.node) THEN s ELSE PutBack(s, c)

UndoConnect(s, c) == Disconnected(s, c.conn)

\* The other form of UndoDisconnect does not look whether the ends are there.
UndoDisconnectUnchecked(s, c) ==
  IF c.conn.uid = NullUid \/ ZeroRefused THEN s
  ELSE [s EXCEPT !.conns = @ \cup {[wire |-> c.conn.wire, uid |-> NullUid]},
                 !.marks = @ \cup {"phantom"}]

\* The command has saved nothing, so what comes back, if message 0 and
\* communication 0 let it, is a connection without names and uuid: an id that is
\* not valid, so this one, once removed, does not come back.
UndoDisconnect(s, c) ==
  IF c.conn.uid = NullUid \/ ZeroRefused \/ ~EndsInScene(s, c.conn.wire) THEN s
  ELSE [s EXCEPT !.conns = @ \cup {[wire |-> c.conn.wire, uid |-> NullUid]},
                 !.marks = @ \cup {"phantom"}]

RedoAdd(s, c) == IF InScene(s, c.node) THEN s ELSE PutBack(s, c)

\* A push here deletes every entry from s.at on, this one included.
RedoRemove(s, i, c) ==
  IF ~InScene(s, c.node) THEN [s EXCEPT !.fault = "node missing"]
  ELSE IF Pulled(s, c.node) # <<>> THEN [s EXCEPT !.fault = "command deleted"]
  ELSE Gone(Save(s, i, s.parent[c.node]), c.node)

\* A connection that is redone is a new one, with a uuid of its own.
RedoConnect(s, i, c) ==
  IF ~EndsInScene(s, c.conn.wire) THEN s
  ELSE LET new == [c.conn EXCEPT !.uid = s.uid]
       IN  [s EXCEPT !.conns = @ \cup {new}, !.uid = @ + 1,
                     !.stack[s.at].cmds[i].conn = new,
                     !.marks = @ \cup {"remade"}]

RedoDisconnect(s, c) == Disconnected(s, c.conn)

UndoStep(s, i) ==
  LET c == s.stack[s.at].cmds[i]
  IN  IF s.fault # "none" THEN s ELSE
      CASE c.op = "add"          -> UndoAdd(s, i, c)
        [] c.op = "remove"       -> UndoRemove(s, c)
        [] c.op = "connect"      -> UndoConnect(s, c)
        [] c.op = "disconnect"   -> UndoDisconnect(s, c)

RedoStep(s, i) ==
  LET c == s.stack[s.at].cmds[i]
  IN  IF s.fault # "none" THEN s ELSE
      CASE c.op = "add"          -> RedoAdd(s, c)
        [] c.op = "remove"       -> RedoRemove(s, i, c)
        [] c.op = "connect"      -> RedoConnect(s, i, c)
        [] c.op = "disconnect"   -> RedoDisconnect(s, c)

\* The commands of entry s.at, undone from the last to the first or redone.
Walked(s, undo) ==
  LET n == Len(s.stack[s.at].cmds)
      run[i \in 0 .. n] ==
        IF i = 0 THEN s
        ELSE IF undo THEN UndoStep(run[i - 1], n + 1 - i) ELSE RedoStep(run[i - 1], i)
  IN  run[n]

----------------------------------------------------------------------------
Init ==
  /\ parent = [n \in Nodes |-> Absent]
  /\ conns = {}
  /\ stack = <<>> /\ index = 0
  /\ hidden = {}
  /\ nextUid = 1
  /\ fault = "none"
  /\ marks = {}

\* Ids are uuids: one that the scene or a command knows is never drawn again.
Fresh(n) ==
  /\ parent[n] = Absent
  /\ \A e \in Range(stack) : \A c \in Range(e.cmds) :
       c.op \in {"add", "remove"} => c.node # n

\* Facade::nodeDropped with a new node: createNode, then createComposite gives
\* it the parent.
AddNode(n, p) ==
  /\ Fresh(n)
  /\ IF p = Root THEN n \in Containers \cup External
                 ELSE n \in Components /\ parent[p] # Absent
  /\ LET q == [parent EXCEPT ![n] = p]
     IN  Become([Pushed(State, <<AddOf(n, Empty)>>, q) EXCEPT !.parent = q])

\* DataFlowModel::removeNode: the commands the removal pushes precede its own
\* in the macro.
RemoveNode(n) ==
  /\ parent[n] # Absent
  /\ LET g == Gone(State, n)
         m == Append(Pulled(State, n), RemoveOf(n, parent[n]))
     IN  Become([Pushed(State, m, g.parent) EXCEPT !.parent = g.parent,
                                                   !.conns = g.conns])

\* A new connection gets the next uuid.
JoinOf(w, uid) == ConnectOf([wire |-> w, uid |-> uid])

Connect(w) ==
  /\ nextUid <= MaxUid
  /\ EndsInScene(State, w)
  /\ Become(PushedRun(State, JoinOf(w, nextUid)))

Disconnect(c) == c \in conns /\ Become(PushedRun(State, DisconnectOf(c)))

\* removeNodeConnections: the uuid is the key of its map, so of the phantoms of
\* several wires it removes one.
Keyed(cs) ==
  LET phantoms == {c \in cs : c.uid = NullUid}
  IN  IF phantoms = {} THEN {cs} ELSE {(cs \ phantoms) \cup {c} : c \in phantoms}

\* cut: the connections go, by a command each, and then the item.
Cut(cs) == PushedAll(State, [i \in DOMAIN cs |-> DisconnectOf(cs[i])])

\* setRelation, which is not a command.
Relate(s, n, p) == [s EXCEPT !.parent[n] = p, !.marks = @ \cup {"dragged"}]

\* paste takes the node: it gets the parent, and the connections are made again.
DragPasted(n, p) ==
  /\ n \notin Misfits
  /\ \E out \in Keyed(ConnsOf(State, n)) :
       LET cs == SetToSeq(out)
           joins == [i \in DOMAIN cs |-> JoinOf(cs[i].wire, nextUid + i - 1)]
       IN  /\ nextUid + Len(cs) <= MaxUid + 1
           /\ Become(PushedAll(Relate(Cut(cs), n, p), joins))

\* canPaste refuses the types: paste returns, and nothing is restored.
DragRefused(n) ==
  /\ n \in Misfits
  /\ \E out \in Keyed(ConnsOf(State, n)) :
       Appears(Cut(SetToSeq(out)), hidden \cup {n})

\* A node on the main scene: its parent has no id and so no scene to cut it from,
\* and createComposite only gives it the parent and one more item.
DragFromMain(n, p) == Become(Relate(State, n, p))

\* canCopy asks the item of the node, which has none, for its type.
DragHidden ==
  /\ fault' = "no item"
  /\ UNCHANGED <<parent, conns, stack, index, hidden, nextUid, marks>>

\* Facade::nodeDropped with a component of the scene, on one that the deployment
\* types allow.
Drag(n, p) ==
  /\ parent[n] \notin {Absent, p} /\ parent[p] # Absent
  /\ CASE parent[n] = Root -> DragFromMain(n, p)
       [] n \in hidden     -> DragHidden
       [] OTHER            -> DragPasted(n, p) \/ DragRefused(n)

Undo ==
  /\ index > 0
  /\ LET s == [State EXCEPT !.at = index]
     IN  Become([Walked(s, TRUE) EXCEPT !.index = index - 1])

Redo ==
  /\ index < Len(stack)
  /\ nextUid <= MaxUid
  /\ LET s == [State EXCEPT !.at = index + 1]
     IN  Become([Walked(s, FALSE) EXCEPT !.index = index + 1])

\* Facade::clear
Clear ==
  /\ stack # <<>>
  /\ parent' = [n \in Nodes |-> Absent]
  /\ conns' = {} /\ stack' = <<>> /\ index' = 0
  /\ hidden' = {} /\ marks' = {}
  /\ UNCHANGED <<nextUid, fault>>

Next ==
  /\ fault = "none"
  /\ \/ \E n \in Nodes, p \in Containers \cup {Root} : AddNode(n, p)
     \/ \E n \in Nodes : RemoveNode(n)
     \/ \E w \in Wires : Connect(w)
     \/ \E c \in conns : Disconnect(c)
     \/ \E n \in Components, p \in Containers : Drag(n, p)
     \/ Undo
     \/ Redo
     \/ Clear

Spec == Init /\ [][Next]_vars

----------------------------------------------------------------------------
\* A connection's ends are in the scene, whatever is removed, undone, redone
\* and dragged: no connection keeps a pointer to a node that was deleted
\* (removeNodeCommand, AddConnectionCommand::redo).  And the ends of one that has
\* a uuid have their items, unless the program just met a missing one: a drag that
\* is refused has cut all of them (removeNodeConnections).
ConnectionsHaveEnds ==
  \A c \in conns :
    /\ EndsInScene(State, c.wire)
    /\ fault # "no item" /\ c.uid # NullUid => ~NoItem(c)

\* As long as nothing is dragged to another parent and the limit deletes nothing
\* while a command is being undone, undo and redo lead the nodes through exactly
\* the scenes they were in: each entry leads from the scene before it to the scene
\* after it, nested removals and the cuts of refused drags included.
Disturbed == marks \cap {"dragged", "shifted"} # {}

NodesFollowHistory ==
  (~Disturbed /\ fault = "none") =>
    /\ index > 0 => parent = stack[index].after
    /\ index < Len(stack) => parent = stack[index + 1].before

\* A command runs for a node that is not in the scene, or fails the assertion of
\* removeConnectionCommand that its ends are there, only if the stack was
\* disturbed so; and QUndoStack loses the command it is redoing
\* (RemoveNodeCommand::redo pushes) only then, or when a connection was made
\* again by a redo or came back as a phantom: edits, undos and redos alone never
\* get there.  And an item is missed only while a refused drag has left a node of
\* the scene without one.
FaultsNeedACause ==
  /\ fault \in {"assertion", "node missing"} => Disturbed
  /\ fault = "command deleted" => marks # {}
  /\ fault = "no item" => hidden # {}
=============================================================================
