--------------------------- MODULE SceneUndo_proofs ---------------------------
(***************************************************************************)
(* What the undo stack of the scene promises, for any containers and       *)
(* components, any limit of the stack and any number of connections.       *)
(***************************************************************************)
EXTENDS SceneUndo, FiniteSetTheorems, WellFoundedInduction, TLAPS

USE IdsDiffer, PortsAreComponents, BoundsAreNat, MarkersAreNoIds

----------------------------------------------------------------------------
(* The invariants *)

\* Containers are on the main scene, a component in one is in one of the scene.
Nested(p) ==
  /\ \A k \in Containers : p[k] \in {Root, Absent}
  /\ \A m \in Components : p[m] \in Containers => p[p[m]] # Absent

\* Of these edits only the removal of a node makes a macro; a removed node's place
\* is known.
Formed(e) ==
  \A i \in DOMAIN e.cmds :
    LET c == e.cmds[i]
    IN  /\ c.op \in {"add", "connect"} => Len(e.cmds) = 1
        /\ c.op = "remove" => c.saved # Empty
        /\ c.op \in {"add", "remove"} /\ c.node \in Containers => c.saved \in {Root, Empty}

\* The place of every node that the entry would add again is known.
Saved(e) == \A i \in DOMAIN e.cmds : e.cmds[i].op = "add" => e.cmds[i].saved # Empty

WellFormed ==
  /\ Nested(parent)
  /\ \A k \in DOMAIN stack : Formed(stack[k]) /\ (k > index => Saved(stack[k]))

EndsThere == \A c \in conns : EndsInScene(State, c.wire)

\* Where an end has no item, the connection is a phantom or was just being drawn.
ItemsThere ==
  /\ \A c \in conns : fault # "no item" /\ c.uid # NullUid => ~NoItem(c)
  /\ fault = "no item" => hidden # {}

Structure == TypeOK /\ EndsThere /\ ItemsThere /\ (fault = "none" => WellFormed)

\* Command i of e removes node m.
RemovesAt(e, i, m) == e.cmds[i].op = "remove" /\ e.cmds[i].node = m

Removed(e) == {m \in Nodes : \E i \in DOMAIN e.cmds : RemovesAt(e, i, m)}

\* An entry that adds a node leads from a scene where the id is unknown to the one
\* with the node, and has saved nothing but its place there.
AddLeads(e) ==
  LET c == e.cmds[1]
      p == e.after[c.node]
  IN  /\ e.before[c.node] = Absent /\ \A m \in Nodes : e.before[m] # c.node
      /\ p \in Containers => e.before[p] # Absent
      /\ p # Absent
      /\ e.after = [e.before EXCEPT ![c.node] = p]
      /\ c.saved \in {Empty, p}

\* Any other entry takes the nodes away that its commands remove, one by one: the
\* children of a node before it, its connections before any node.
RestLeads(e) ==
  /\ e.after = [m \in Nodes |-> IF m \in Removed(e) THEN Absent ELSE e.before[m]]
  /\ \A i \in DOMAIN e.cmds :
       LET c == e.cmds[i]
       IN  /\ c.op # "add"
           /\ c.op \in {"connect", "disconnect"} =>
                /\ e.before[c.conn.wire[1]] # Absent /\ e.before[c.conn.wire[2]] # Absent
                /\ \A j \in 1 .. i : e.cmds[j].op # "remove"
           /\ c.op = "remove" =>
                /\ c.saved = e.before[c.node] /\ e.before[c.node] # Absent
                /\ \A j \in DOMAIN e.cmds : RemovesAt(e, j, c.node) => j = i
                /\ \A m \in Nodes : e.before[m] = c.node =>
                     \E j \in 1 .. i - 1 : RemovesAt(e, j, m)
                /\ c.saved \in Containers /\ e.after[c.saved] = Absent =>
                     \E j \in i + 1 .. Len(e.cmds) : RemovesAt(e, j, c.saved)

Adds(e) == \E i \in DOMAIN e.cmds : e.cmds[i].op = "add"
Leads(e) == IF Adds(e) THEN AddLeads(e) ELSE RestLeads(e)

\* Each entry starts where the one before it ends, and the nodes are where the
\* entries around index meet.
Chained(s) ==
  /\ \A k \in 1 .. Len(s.stack) : Leads(s.stack[k])
  /\ \A k \in 1 .. Len(s.stack) - 1 : s.stack[k].after = s.stack[k + 1].before
  /\ s.index > 0 => s.parent = s.stack[s.index].after
  /\ s.index < Len(s.stack) => s.parent = s.stack[s.index + 1].before

\* What an entry removes, no later one brings back.
GoneForGood(s) ==
  \A k, j \in 1 .. Len(s.stack) : k <= j =>
    \A m \in Removed(s.stack[k]) : s.stack[j].after[m] = Absent

\* Without phantoms and connections made again, no node that an entry removes has
\* a connection, wherever in the stack the entry is.
Unconnected(s) ==
  \A k \in 1 .. Len(s.stack) : \A c \in s.conns :
    c.wire[1] \notin Removed(s.stack[k]) /\ c.wire[2] \notin Removed(s.stack[k])

Moved(s) == s.marks \cap {"dragged", "shifted"} # {}

\* What the stack tells of the scene.
Told(s) ==
  /\ ~Moved(s) /\ s.fault = "none" => Chained(s) /\ GoneForGood(s)
  /\ s.marks = {} /\ s.fault = "none" => Unconnected(s)
  /\ s.fault \in {"assertion", "node missing"} => Moved(s)
  /\ s.fault = "command deleted" => s.marks # {}

Inductive == Structure /\ Told(State)

----------------------------------------------------------------------------
(* Induction, and the sequences that list a set *)

\* Every set of naturals that is not empty has a least member.
LEMMA LeastNatural ==
  ASSUME NEW T \in SUBSET Nat, T # {}
  PROVE  \E m \in T : \A k \in T : m <= k
  <1>1. PICK m \in T : \A k \in T : ~ (<<k, m>> \in OpToRel(<, Nat))
    BY NatLessThanWellFounded, WFMin
  <1>2. \A k \in T : ~(k < m)
    BY <1>1 DEF OpToRel
  <1> QED
    BY <1>2

\* Induction up to n, over a set: what holds at 0 and is handed on holds at n.
LEMMA UpTo ==
  ASSUME NEW n \in Nat, NEW P, 0 \in P,
         \A i \in 1 .. n : i - 1 \in P => i \in P
  PROVE  \A i \in 0 .. n : i \in P
  <1> DEFINE T == {i \in 0 .. n : i \notin P}
  <1> SUFFICES ASSUME T # {} PROVE FALSE
    OBVIOUS
  <1>1. PICK m \in T : \A k \in T : m <= k
    <2>1. T \in SUBSET Nat
      OBVIOUS
    <2> HIDE DEF T
    <2> QED
      BY <2>1, LeastNatural
  <1>2. m \in 1 .. n /\ m - 1 \in 0 .. n /\ ~(m <= m - 1)
    OBVIOUS
  <1>3. m - 1 \in P
    BY <1>1, <1>2
  <1> QED
    BY <1>2, <1>3

\* The members of a finite set in a fixed order, each once.
LEMMA InOrder ==
  ASSUME NEW S, IsFiniteSet(S)
  PROVE  LET f == SetToSeq(S) IN
         /\ f \in Seq(S) /\ (S = {} <=> Len(f) = 0)
         /\ \A x \in S : \E i \in 1 .. Len(f) : f[i] = x
         /\ \A i, j \in 1 .. Len(f) : f[i] = f[j] => i = j
  <1> DEFINE n == Cardinality(S)
             f == SetToSeq(S)
  <1>1. n \in Nat /\ ExistsBijection(1 .. n, S)
    BY FS_CardinalityType
  <1>2. \E g \in [1 .. n -> S] : IsInjective(g)
    BY <1>1 DEF ExistsBijection, Bijection, Injection, IsInjective
  <1>3. f \in [1 .. n -> S] /\ IsInjective(f)
    BY <1>2, Zenon DEF SetToSeq
  <1> HIDE DEF f
  <1>4. f \in Injection(1 .. n, S)
    BY <1>3 DEF Injection, IsInjective
  <1>5. IsFiniteSet(1 .. n) /\ Cardinality(1 .. n) = n
    BY <1>1, FS_Interval
  <1>6. f \in Surjection(1 .. n, S)
    BY <1>4, <1>5, FS_Injection
  <1>7. f \in Seq(S) /\ Len(f) = n
    BY <1>1, <1>3
  <1>8. \A x \in S : \E i \in 1 .. n : f[i] = x
    BY <1>6 DEF Surjection
  <1>9. \A i, j \in 1 .. n : f[i] = f[j] => i = j
    BY <1>3 DEF IsInjective
  <1>10. S = {} <=> n = 0
    BY <1>1, <1>3, <1>8
  <1> QED
    BY <1>7, <1>8, <1>9, <1>10 DEF f

----------------------------------------------------------------------------
(* The commands of a list run one after the other *)

\* One push after the other, each from the state the one before it leaves.
PushRun(run, s, list) ==
  /\ run[0] = s
  /\ \A i \in 1 .. Len(list) : run[i] = PushedRun(run[i - 1], list[i])
  /\ PushedAll(s, list) = run[Len(list)]

LEMMA PushRunExists ==
  ASSUME NEW s, NEW list, Len(list) \in Nat
  PROVE  \E run : PushRun(run, s, list)
  <1> DEFINE n == Len(list)
             Upto(f, m) == f = [i \in 0 .. m |->
                                  IF i = 0 THEN s ELSE PushedRun(f[i - 1], list[i])]
             P == {m \in 0 .. n : \E f : Upto(f, m)}
  <1>1. 0 \in P
    <2> DEFINE f == [i \in 0 .. 0 |-> s]
    <2>1. Upto(f, 0) /\ 0 \in 0 .. n
      OBVIOUS
    <2> HIDE DEF Upto, f
    <2> QED
      BY <2>1
  <1>2. ASSUME NEW m \in 1 .. n, m - 1 \in P PROVE m \in P
    <2>1. PICK f : Upto(f, m - 1)
      BY <1>2, Zenon
    <2> DEFINE g == [i \in 0 .. m |-> IF i = m THEN PushedRun(f[m - 1], list[m]) ELSE f[i]]
    <2>2. ASSUME NEW i \in 0 .. m
          PROVE  g[i] = IF i = 0 THEN s ELSE PushedRun(g[i - 1], list[i])
      <3>1. CASE i = m
        BY <3>1
      <3>2. CASE i # m
        BY <2>1, <3>2
      <3> QED
        BY <3>1, <3>2
    <2>3. Upto(g, m)
      BY <2>2
    <2>4. m \in 0 .. n
      OBVIOUS
    <2> HIDE DEF Upto, g
    <2> QED
      BY <2>3, <2>4
  <1>3. n \in P
    <2> HIDE DEF P
    <2>1. \A i \in 0 .. n : i \in P
      BY <1>1, <1>2, UpTo
    <2> QED
      BY <2>1
  <1> DEFINE f == CHOOSE f : Upto(f, n)
  <1>4. Upto(f, n)
    BY <1>3, Zenon
  <1>5. PushedAll(s, list) = f[n]
    BY Zenon DEF PushedAll
  <1> HIDE DEF f
  <1>6. f[0] = s /\ \A i \in 1 .. n : f[i] = PushedRun(f[i - 1], list[i])
    BY <1>4
  <1>7. PushRun(f, s, list)
    BY <1>5, <1>6, Zenon DEF PushRun
  <1> QED
    BY <1>7, Zenon

\* The commands of the entry, undone from the last or redone from the first.
WalkRun(run, s, n, undo) ==
  /\ run[0] = s
  /\ \A i \in 1 .. n :
       run[i] = IF undo THEN UndoStep(run[i - 1], n + 1 - i) ELSE RedoStep(run[i - 1], i)
  /\ Walked(s, undo) = run[n]

LEMMA WalkRunExists ==
  ASSUME NEW s, NEW n \in Nat, n = Len(s.stack[s.at].cmds), NEW undo \in BOOLEAN
  PROVE  \E run : WalkRun(run, s, n, undo)
  <1> DEFINE Step(x, i) == IF undo THEN UndoStep(x, n + 1 - i) ELSE RedoStep(x, i)
             Upto(f, m) == f = [i \in 0 .. m |->
                                  IF i = 0 THEN s ELSE
                                  IF undo THEN UndoStep(f[i - 1], n + 1 - i) ELSE RedoStep(f[i - 1], i)]
             P == {m \in 0 .. n : \E f : Upto(f, m)}
  <1>1. 0 \in P
    <2> DEFINE f == [i \in 0 .. 0 |-> s]
    <2>1. Upto(f, 0) /\ 0 \in 0 .. n
      OBVIOUS
    <2> HIDE DEF Upto, f
    <2> QED
      BY <2>1
  <1>2. ASSUME NEW m \in 1 .. n, m - 1 \in P PROVE m \in P
    <2>1. PICK f : Upto(f, m - 1)
      BY <1>2, Zenon
    <2> DEFINE g == [i \in 0 .. m |-> IF i = m THEN Step(f[m - 1], m) ELSE f[i]]
    <2>2. ASSUME NEW i \in 0 .. m
          PROVE  g[i] = IF i = 0 THEN s ELSE Step(g[i - 1], i)
      <3>1. CASE i = m
        BY <3>1
      <3>2. CASE i # m
        BY <2>1, <3>2
      <3> QED
        BY <3>1, <3>2
    <2>3. Upto(g, m)
      BY <2>2
    <2>4. m \in 0 .. n
      OBVIOUS
    <2> HIDE DEF Upto, g
    <2> QED
      BY <2>3, <2>4
  <1>3. n \in P
    <2> HIDE DEF P
    <2>1. \A i \in 0 .. n : i \in P
      BY <1>1, <1>2, UpTo
    <2> QED
      BY <2>1
  <1> DEFINE f == CHOOSE f : Upto(f, n)
  <1>4. Upto(f, n)
    BY <1>3, Zenon
  <1>5. Walked(s, undo) = f[n]
    BY Zenon DEF Walked
  <1> HIDE DEF f
  <1>6. f[0] = s /\ \A i \in 1 .. n : f[i] = Step(f[i - 1], i)
    <2> DEFINE E(i) == IF i = 0 THEN s ELSE
                       IF undo THEN UndoStep(f[i - 1], n + 1 - i) ELSE RedoStep(f[i - 1], i)
    <2>1. f = [i \in 0 .. n |-> E(i)]
      BY <1>4, Zenon
    <2> HIDE DEF E
    <2>2. \A i \in 0 .. n : f[i] = E(i)
      BY <2>1, Zenon
    <2> USE DEF E
    <2>3. f[0] = s
      <3>1. 0 \in 0 .. n
        OBVIOUS
      <3> QED
        BY <2>2, <3>1, Zenon
    <2>4. ASSUME NEW i \in 1 .. n PROVE f[i] = Step(f[i - 1], i)
      <3>1. i \in 0 .. n /\ i # 0
        OBVIOUS
      <3> QED
        BY <2>2, <3>1, Zenon
    <2> QED
      BY <2>3, <2>4, Zenon
  <1>7. WalkRun(f, s, n, undo)
    BY <1>5, <1>6, Zenon DEF WalkRun
  <1> QED
    BY <1>7, Zenon

----------------------------------------------------------------------------
(* A push *)

\* What can go wrong in a step before the scene shows it.
Failures == Faults \ {"no item"}

SceneState ==
  [parent : Scene, conns : SUBSET Conn, stack : Seq(Entry), index : Nat,
   uid : Nat, fault : Failures, marks : SUBSET Marks, at : Int]

Sound(s) ==
  /\ s \in SceneState
  /\ Len(s.stack) <= UndoLimit /\ s.index <= Len(s.stack)

\* The oldest entry is deleted.
Over(s) == s.index = UndoLimit
Lost(s) == IF Over(s) THEN 1 ELSE 0

\* t has the entry e on top of what s had done.
Grown(s, t, e) ==
  /\ t.index = Len(t.stack)
  /\ Len(t.stack) = s.index + 1 - Lost(s)
  /\ t.stack[Len(t.stack)] = e
  /\ \A k \in 1 .. s.index - Lost(s) : t.stack[k] = s.stack[k + Lost(s)]
  /\ t.at = s.at - Lost(s)
  /\ t.marks = IF Over(s) /\ s.at > 0 THEN s.marks \cup {"shifted"} ELSE s.marks
  /\ t.fault = IF Over(s) /\ s.at = 1 THEN "command deleted" ELSE s.fault

LEMMA PushedFields ==
  ASSUME NEW s, Sound(s), NEW cmds \in Seq(Command), NEW after \in Scene
  PROVE  LET t == Pushed(s, cmds, after)
             e == [cmds |-> cmds, before |-> s.parent, after |-> after]
         IN  /\ Sound(t) /\ Grown(s, t, e) /\ e \in Entry
             /\ t.parent = s.parent /\ t.conns = s.conns /\ t.uid = s.uid
  <1> DEFINE e == [cmds |-> cmds, before |-> s.parent, after |-> after]
             kept == Append(SubSeq(s.stack, 1, s.index), e)
             over == Len(kept) > UndoLimit
             t == Pushed(s, cmds, after)
             stk == IF over THEN Tail(kept) ELSE kept
             idx == IF over THEN Len(kept) - 1 ELSE Len(kept)
             at == IF over THEN s.at - 1 ELSE s.at
             mks == IF over /\ s.at > 0 THEN s.marks \cup {"shifted"} ELSE s.marks
             flt == IF over /\ s.at = 1 THEN "command deleted" ELSE s.fault
  <1>1. /\ s \in SceneState /\ Len(s.stack) \in Nat /\ s.index \in 0 .. Len(s.stack)
        /\ s.stack \in Seq(Entry) /\ s.index <= UndoLimit /\ s.at \in Int
        /\ s.marks \in SUBSET Marks /\ s.fault \in Failures /\ s.parent \in Scene
        /\ s.conns \in SUBSET Conn /\ s.uid \in Nat
    BY DEF Sound, SceneState
  <1>2. e \in Entry
    BY <1>1 DEF Entry
  <1> HIDE DEF e
  <1> DEFINE sub == SubSeq(s.stack, 1, s.index)
  <1>3. sub \in Seq(Entry) /\ Len(sub) = s.index /\ \A k \in 1 .. s.index : sub[k] = s.stack[k]
    BY <1>1
  <1> HIDE DEF sub
  <1>4. /\ kept \in Seq(Entry) /\ Len(kept) = s.index + 1
        /\ kept[s.index + 1] = e
        /\ \A k \in 1 .. s.index : kept[k] = s.stack[k]
    <2>1. kept = Append(sub, e)
      BY DEF sub
    <2> QED
      BY <1>1, <1>2, <1>3, <2>1
  <1>5. t = [s EXCEPT !.stack = stk, !.index = idx, !.at = at, !.marks = mks, !.fault = flt]
    BY Zenon DEF Pushed, e
  <1> HIDE DEF kept
  <1>6. Tail(kept) \in Seq(Entry) /\ Len(Tail(kept)) = s.index
        /\ \A k \in 1 .. s.index : Tail(kept)[k] = kept[k + 1]
    BY <1>1, <1>4
  <1>7. over <=> Over(s)
    BY <1>1, <1>4 DEF Over
  <1>8. /\ stk \in Seq(Entry) /\ Len(stk) = s.index + 1 - Lost(s) /\ idx = Len(stk)
        /\ Len(stk) <= UndoLimit /\ idx \in Nat
    BY <1>1, <1>4, <1>6, <1>7 DEF Over, Lost
  <1>9. stk[Len(stk)] = e /\ \A k \in 1 .. s.index - Lost(s) : stk[k] = s.stack[k + Lost(s)]
    <2>1. CASE Over(s)
      <3>1. stk = Tail(kept) /\ Len(stk) = s.index /\ s.index = UndoLimit /\ Lost(s) = 1
        BY <1>6, <1>7, <2>1 DEF Over, Lost
      <3> QED
        BY <1>1, <1>4, <1>6, <3>1
    <2>2. CASE ~Over(s)
      <3>1. stk = kept /\ Len(stk) = s.index + 1 /\ Lost(s) = 0
        BY <1>4, <1>7, <2>2 DEF Lost
      <3> QED
        BY <1>1, <1>4, <3>1
    <2> QED
      BY <2>1, <2>2
  <1>10. at \in Int /\ at = s.at - Lost(s)
    BY <1>1, <1>7 DEF Lost
  <1>11. /\ mks \in SUBSET Marks /\ flt \in Failures
         /\ mks = (IF Over(s) /\ s.at > 0 THEN s.marks \cup {"shifted"} ELSE s.marks)
         /\ flt = (IF Over(s) /\ s.at = 1 THEN "command deleted" ELSE s.fault)
    BY <1>1, <1>7 DEF Marks, Faults, Failures
  <1> HIDE DEF stk, idx, at, mks, flt, t
  <1>12. /\ t.stack = stk /\ t.index = idx /\ t.at = at /\ t.marks = mks /\ t.fault = flt
         /\ t.parent = s.parent /\ t.conns = s.conns /\ t.uid = s.uid
    BY <1>1, <1>5 DEF SceneState
  <1>13. t \in SceneState
    BY <1>1, <1>5, <1>8, <1>10, <1>11 DEF SceneState
  <1>14. Sound(t)
    BY <1>8, <1>12, <1>13 DEF Sound
  <1>15. Grown(s, t, e)
    BY <1>8, <1>9, <1>10, <1>11, <1>12 DEF Grown
  <1> QED
    BY <1>2, <1>12, <1>14, <1>15 DEF t, e

\* The nodes and the connections that one command leaves.
ParentAfter(p, c) == IF c.op = "remove" THEN [p EXCEPT ![c.node] = Absent] ELSE p
ConnsAfter(C, c) ==
  CASE c.op = "connect"    -> C \cup {c.conn}
    [] c.op = "disconnect" -> C \ {c.conn}
    [] OTHER               -> C

LEMMA PushedRunFields ==
  ASSUME NEW s, Sound(s), NEW c \in Command
  PROVE  LET t == PushedRun(s, c)
             e == [cmds |-> <<c>>, before |-> s.parent, after |-> t.parent]
         IN  /\ Sound(t) /\ Grown(s, t, e) /\ e \in Entry
             /\ t.parent = ParentAfter(s.parent, c)
             /\ t.conns = ConnsAfter(s.conns, c)
             /\ t.uid = IF c.op = "connect" THEN s.uid + 1 ELSE s.uid
  <1> DEFINE p == ParentAfter(s.parent, c)
             C == ConnsAfter(s.conns, c)
             u == IF c.op = "connect" THEN s.uid + 1 ELSE s.uid
             g == Pushed(s, <<c>>, p)
             t == PushedRun(s, c)
             e == [cmds |-> <<c>>, before |-> s.parent, after |-> p]
  <1>1. s.parent \in Scene /\ s.conns \in SUBSET Conn /\ s.uid \in Nat
    BY DEF Sound, SceneState
  <1>2. p \in Scene
    BY <1>1 DEF ParentAfter, Scene
  <1>3. C \in SUBSET Conn
    BY <1>1 DEF ConnsAfter, Command
  <1>4. u \in Nat
    BY <1>1
  <1>5. <<c>> \in Seq(Command)
    OBVIOUS
  <1> HIDE DEF p
  <1>6. /\ Sound(g) /\ Grown(s, g, e) /\ e \in Entry
        /\ g.parent = s.parent /\ g.conns = s.conns /\ g.uid = s.uid
    BY <1>2, <1>5, PushedFields
  <1>7. t = [g EXCEPT !.parent = p, !.conns = C, !.uid = u]
    <2>1. t = [g EXCEPT !.parent = p,
                 !.conns  = CASE c.op = "connect"    -> g.conns \cup {c.conn}
                              [] c.op = "disconnect" -> g.conns \ {c.conn}
                              [] OTHER               -> g.conns,
                 !.uid    = IF c.op = "connect" THEN g.uid + 1 ELSE g.uid]
      BY Zenon DEF PushedRun, p, ParentAfter
    <2> HIDE DEF g
    <2> QED
      BY <1>6, <2>1 DEF ConnsAfter
  <1> HIDE DEF g, C, u, t, e
  <1>8. g \in SceneState
    BY <1>6 DEF Sound
  <1>9. /\ t.stack = g.stack /\ t.index = g.index /\ t.at = g.at /\ t.marks = g.marks
        /\ t.fault = g.fault /\ t.parent = p /\ t.conns = C /\ t.uid = u
    BY <1>7, <1>8 DEF SceneState
  <1>10. t \in SceneState
    BY <1>2, <1>3, <1>4, <1>7, <1>8 DEF SceneState
  <1>11. Sound(t)
    BY <1>6, <1>9, <1>10 DEF Sound
  <1>12. Grown(s, t, e)
    BY <1>6, <1>9 DEF Grown
  <1>13. e = [cmds |-> <<c>>, before |-> s.parent, after |-> t.parent]
    BY <1>9 DEF e
  <1> QED
    BY <1>6, <1>9, <1>11, <1>12, <1>13, Zenon DEF t, p, C, u

----------------------------------------------------------------------------
(* What the removal of a node pushes *)

LEMMA CommandTypes ==
  /\ \A n \in Nodes, x \in Containers \cup {Root, Empty} :
       AddOf(n, x) \in Command /\ RemoveOf(n, x) \in Command
  /\ \A c \in Conn : ConnectOf(c) \in Command /\ DisconnectOf(c) \in Command
  BY DEF Command, AddOf, RemoveOf, ConnectOf, DisconnectOf

LEMMA ConnIsFinite == IsFiniteSet(Conn)
  <1> DEFINE T == Wires \X (0 .. MaxUid)
             f == [p \in T |-> [wire |-> p[1], uid |-> p[2]]]
  <1>1. IsFiniteSet(Outs) /\ IsFiniteSet(Ins) /\ IsFiniteSet(0 .. MaxUid)
    BY IdsAreFinite, FS_Subset, FS_Interval
  <1>2. IsFiniteSet(Wires)
    BY <1>1, FS_Product DEF Wires
  <1>3. IsFiniteSet(T)
    BY <1>1, <1>2, FS_Product
  <1>4. f \in Surjection(T, Conn)
    <2>1. f \in [T -> Conn]
      BY DEF Conn
    <2>2. ASSUME NEW c \in Conn PROVE \E p \in T : f[p] = c
      <3>1. <<c.wire, c.uid>> \in T /\ f[<<c.wire, c.uid>>] = c
        BY DEF Conn
      <3> QED
        BY <3>1
    <2> HIDE DEF f
    <2> QED
      BY <2>1, <2>2 DEF Surjection
  <1> HIDE DEF f
  <1> QED
    BY <1>3, <1>4, FS_Surjection

LEMMA NodesAreFinite == IsFiniteSet(Nodes)
  BY IdsAreFinite, FS_Union DEF Nodes

\* Only a container has children.
LEMMA ChildrenOfContainer ==
  ASSUME NEW s, s.parent \in Scene, NEW n \in Nodes
  PROVE  Children(s, n) # {} => n \in Containers
  BY DEF Children, Scene, Nodes

\* The list: the connections of the node and of its children, then the children.
PulledWell(s, n, l) ==
  /\ l \in Seq(Command)
  /\ \A i \in 1 .. Len(l) :
       \/ l[i].op = "disconnect" /\ l[i].conn \in ConnsOf(s, n)
       \/ l[i].op = "remove" /\ l[i].node \in Children(s, n) /\ l[i].saved = n
  /\ \A c \in ConnsOf(s, n) : \E i \in 1 .. Len(l) : l[i].op = "disconnect" /\ l[i].conn = c
  /\ \A m \in Children(s, n) : \E i \in 1 .. Len(l) : l[i].op = "remove" /\ l[i].node = m
  /\ \A i, j \in 1 .. Len(l) : l[i].op = "disconnect" /\ l[j].op = "remove" => i < j
  /\ \A i, j \in 1 .. Len(l) :
       l[i].op = "remove" /\ l[j].op = "remove" /\ l[i].node = l[j].node => i = j

LEMMA PulledList ==
  ASSUME NEW s, s.parent \in Scene, s.conns \in SUBSET Conn, NEW n \in Nodes
  PROVE  PulledWell(s, n, Pulled(s, n))
  <1> DEFINE C == ConnsOf(s, n)
             K == Children(s, n)
             out == SetToSeq(C)
             kids == SetToSeq(K)
             a == [i \in DOMAIN out |-> DisconnectOf(out[i])]
             b == [i \in DOMAIN kids |-> RemoveOf(kids[i], n)]
             l == Pulled(s, n)
  <1>1. C \in SUBSET Conn /\ K \in SUBSET Nodes /\ IsFiniteSet(C) /\ IsFiniteSet(K)
    BY ConnIsFinite, NodesAreFinite, FS_Subset DEF ConnsOf, Children
  <1>2. l = a \o b
    BY Zenon DEF Pulled
  <1>3. K # {} => n \in Containers
    BY ChildrenOfContainer
  <1> HIDE DEF C, K
  <1>4. /\ out \in Seq(C)
        /\ \A x \in C : \E i \in 1 .. Len(out) : out[i] = x
    BY <1>1, InOrder, Zenon
  <1>5. /\ kids \in Seq(K) /\ (K = {} <=> Len(kids) = 0)
        /\ \A x \in K : \E i \in 1 .. Len(kids) : kids[i] = x
        /\ \A i, j \in 1 .. Len(kids) : kids[i] = kids[j] => i = j
    BY <1>1, InOrder, Zenon
  <1> HIDE DEF out, kids
  <1>6. /\ a \in Seq(Command) /\ Len(a) = Len(out) /\ Len(out) \in Nat
        /\ \A i \in 1 .. Len(out) :
             a[i].op = "disconnect" /\ a[i].conn = out[i] /\ out[i] \in C
    <2>1. Len(out) \in Nat /\ DOMAIN out = 1 .. Len(out)
          /\ \A i \in 1 .. Len(out) : out[i] \in C /\ out[i] \in Conn
      BY <1>1, <1>4
    <2>2. \A i \in 1 .. Len(out) : a[i] \in Command
      BY <2>1, CommandTypes
    <2>3. \A i \in 1 .. Len(out) : a[i].op = "disconnect" /\ a[i].conn = out[i]
      BY <2>1 DEF DisconnectOf
    <2> QED
      BY <2>1, <2>2, <2>3
  <1>7. /\ b \in Seq(Command) /\ Len(b) = Len(kids) /\ Len(kids) \in Nat
        /\ \A i \in 1 .. Len(kids) :
             /\ b[i].op = "remove" /\ b[i].node = kids[i] /\ b[i].saved = n
             /\ kids[i] \in K
    <2>1. Len(kids) \in Nat /\ DOMAIN kids = 1 .. Len(kids)
          /\ \A i \in 1 .. Len(kids) : kids[i] \in K /\ kids[i] \in Nodes
      BY <1>1, <1>5
    <2>2. \A i \in 1 .. Len(kids) : n \in Containers
      BY <1>3, <2>1
    <2>3. \A i \in 1 .. Len(kids) : b[i] \in Command
      BY <2>1, <2>2, CommandTypes
    <2>4. \A i \in 1 .. Len(kids) : b[i].op = "remove" /\ b[i].node = kids[i] /\ b[i].saved = n
      BY <2>1 DEF RemoveOf
    <2> QED
      BY <2>1, <2>3, <2>4
  <1> HIDE DEF a, b
  <1>8. /\ l \in Seq(Command) /\ Len(l) = Len(a) + Len(b)
        /\ \A i \in 1 .. Len(a) : l[i] = a[i]
        /\ \A i \in 1 .. Len(b) : l[Len(a) + i] = b[i]
        /\ \A i \in 1 .. Len(l) : i \in 1 .. Len(a) \/ (i > Len(a) /\ i - Len(a) \in 1 .. Len(b) /\ l[i] = b[i - Len(a)])
    <2>1. /\ l \in Seq(Command) /\ Len(l) = Len(a) + Len(b)
          /\ \A i \in 1 .. Len(a) + Len(b) :
               l[i] = IF i <= Len(a) THEN a[i] ELSE b[i - Len(a)]
      <3>1. a \in Seq(Command) /\ b \in Seq(Command)
        BY <1>6, <1>7
      <3>2. /\ a \o b \in Seq(Command) /\ Len(a \o b) = Len(a) + Len(b)
            /\ \A i \in 1 .. Len(a) + Len(b) :
                 (a \o b)[i] = IF i <= Len(a) THEN a[i] ELSE b[i - Len(a)]
        BY <3>1
      <3> HIDE DEF l
      <3> QED
        BY <1>2, <3>2
    <2> HIDE DEF l
    <2>2. \A i \in 1 .. Len(a) : l[i] = a[i]
      BY <1>6, <1>7, <2>1
    <2>3. \A i \in 1 .. Len(l) :
            i \in 1 .. Len(a) \/ (/\ i > Len(a) /\ i - Len(a) \in 1 .. Len(b)
                                  /\ l[i] = b[i - Len(a)])
      BY <1>6, <1>7, <2>1
    <2>4. ASSUME NEW i \in 1 .. Len(b) PROVE l[Len(a) + i] = b[i]
      <3>1. Len(a) + i \in 1 .. Len(a) + Len(b) /\ ~(Len(a) + i <= Len(a))
            /\ (Len(a) + i) - Len(a) = i
        BY <1>6, <1>7
      <3> QED
        BY <2>1, <3>1
    <2> QED
      BY <2>1, <2>2, <2>3, <2>4
  <1> HIDE DEF l
  <1>9. ASSUME NEW i \in 1 .. Len(l)
        PROVE  \/ i \in 1 .. Len(a) /\ l[i].op = "disconnect" /\ l[i].conn \in C
               \/ /\ i > Len(a) /\ i - Len(a) \in 1 .. Len(b) /\ l[i].op = "remove"
                  /\ l[i].node = kids[i - Len(a)] /\ l[i].node \in K /\ l[i].saved = n
    <2>1. CASE i \in 1 .. Len(a)
      BY <1>6, <1>8, <2>1
    <2>2. CASE i \notin 1 .. Len(a)
      BY <1>7, <1>8, <2>2
    <2> QED
      BY <2>1, <2>2
  <1>10. \A c \in C : \E i \in 1 .. Len(l) : l[i].op = "disconnect" /\ l[i].conn = c
    <2> TAKE c \in C
    <2>1. PICK i \in 1 .. Len(out) : out[i] = c
      BY <1>4
    <2>2. i \in 1 .. Len(l) /\ l[i] = a[i]
      BY <1>6, <1>7, <1>8
    <2> QED
      BY <1>6, <2>1, <2>2
  <1>11. \A m \in K : \E i \in 1 .. Len(l) : l[i].op = "remove" /\ l[i].node = m
    <2> TAKE m \in K
    <2>1. PICK i \in 1 .. Len(kids) : kids[i] = m
      BY <1>5
    <2>2. Len(a) + i \in 1 .. Len(l) /\ l[Len(a) + i] = b[i]
      BY <1>6, <1>7, <1>8
    <2> QED
      BY <1>7, <2>1, <2>2
  <1>12. \A i, j \in 1 .. Len(l) : l[i].op = "disconnect" /\ l[j].op = "remove" => i < j
    BY <1>6, <1>7, <1>8, <1>9
  <1>13. \A i, j \in 1 .. Len(l) :
           l[i].op = "remove" /\ l[j].op = "remove" /\ l[i].node = l[j].node => i = j
    <2> SUFFICES ASSUME NEW i \in 1 .. Len(l), NEW j \in 1 .. Len(l),
                        l[i].op = "remove", l[j].op = "remove", l[i].node = l[j].node
                 PROVE  i = j
      OBVIOUS
    <2>1. /\ i - Len(a) \in 1 .. Len(kids) /\ j - Len(a) \in 1 .. Len(kids)
          /\ kids[i - Len(a)] = kids[j - Len(a)]
      BY <1>7, <1>9
    <2>2. i - Len(a) = j - Len(a)
      BY <1>5, <2>1
    <2> QED
      BY <1>6, <2>2
  <1>14. \A i \in 1 .. Len(l) :
           \/ l[i].op = "disconnect" /\ l[i].conn \in C
           \/ l[i].op = "remove" /\ l[i].node \in K /\ l[i].saved = n
    BY <1>9
  <1> QED
    BY <1>8, <1>10, <1>11, <1>12, <1>13, <1>14, Zenon DEF PulledWell, C, K, l

----------------------------------------------------------------------------
(* A list pushed: what it does to the stack, the nodes and the connections *)

LEMMA GrownWithin ==
  ASSUME NEW s, NEW t, NEW e, Sound(s), Sound(t), Grown(s, t, e),
         NEW Late, e \in Late, NEW low \in Nat,
         \A k \in 1 .. Len(s.stack) : k >= low => s.stack[k] \in Late
  PROVE  \A k \in 1 .. Len(t.stack) : k >= low => t.stack[k] \in Late
  <1>1. s.index \in 0 .. Len(s.stack) /\ Len(s.stack) \in Nat /\ Lost(s) \in {0, 1}
        /\ Len(t.stack) \in Nat /\ (Lost(s) = 1 => s.index > 0)
    BY DEF Sound, SceneState, Lost, Over
  <1> SUFFICES ASSUME NEW k \in 1 .. Len(t.stack), k >= low PROVE t.stack[k] \in Late
    OBVIOUS
  <1>2. CASE k = Len(t.stack)
    BY <1>2 DEF Grown
  <1>3. CASE k # Len(t.stack)
    <2>0. Len(t.stack) = s.index + 1 - Lost(s)
      BY Zenon DEF Grown
    <2>1. k \in 1 .. s.index - Lost(s) /\ k + Lost(s) \in 1 .. Len(s.stack) /\ k + Lost(s) >= low
      BY <1>1, <1>3, <2>0
    <2>2. t.stack[k] = s.stack[k + Lost(s)]
      BY <2>1 DEF Grown
    <2> QED
      BY <2>1, <2>2
  <1> QED
    BY <1>2, <1>3

\* What a push does not touch: only a full stack while a command is being undone
\* leaves a mark or loses the command.
Quiet(s, t) ==
  /\ s.index <= t.index
  /\ s.marks \subseteq t.marks /\ t.marks \subseteq s.marks \cup {"shifted"}
  /\ t.fault \in {s.fault, "command deleted"}
  /\ t.fault # s.fault => "shifted" \in t.marks
  /\ s.at <= 0 => t.at <= 0 /\ t.marks = s.marks /\ t.fault = s.fault

LEMMA ListOnStack ==
  ASSUME NEW s, Sound(s), NEW list \in Seq(Command), NEW Late, NEW low \in Nat,
         \A k \in 1 .. Len(s.stack) : k >= low => s.stack[k] \in Late,
         \A i \in 1 .. Len(list) : \A p, q \in Scene :
           [cmds |-> <<list[i]>>, before |-> p, after |-> q] \in Late
  PROVE  LET t == PushedAll(s, list)
         IN  /\ Sound(t) /\ Quiet(s, t)
             /\ \A k \in 1 .. Len(t.stack) : k >= low => t.stack[k] \in Late
  <1> DEFINE n == Len(list)
  <1>1. n \in Nat /\ \A i \in 1 .. n : list[i] \in Command
    OBVIOUS
  <1>2. PICK run : PushRun(run, s, list)
    BY <1>1, PushRunExists
  <1>3. run[0] = s /\ \A i \in 1 .. n : run[i] = PushedRun(run[i - 1], list[i])
    BY <1>2, Zenon DEF PushRun
  <1>4. PushedAll(s, list) = run[n]
    BY <1>2, Zenon DEF PushRun
  <1> DEFINE Fits(t) == /\ Sound(t) /\ Quiet(s, t)
                        /\ \A k \in 1 .. Len(t.stack) : k >= low => t.stack[k] \in Late
             P == {i \in 0 .. n : Fits(run[i])}
  <1> HIDE DEF n
  <1>5. 0 \in P
    <2>1. Quiet(s, s)
      BY DEF Quiet, Sound, SceneState
    <2> QED
      BY <1>1, <1>3, <2>1
  <1>6. ASSUME NEW i \in 1 .. n, i - 1 \in P PROVE i \in P
    <2> DEFINE r == run[i - 1]
               t == run[i]
               e == [cmds |-> <<list[i]>>, before |-> r.parent, after |-> t.parent]
    <2>1. t = PushedRun(r, list[i]) /\ Fits(r) /\ list[i] \in Command
      BY <1>1, <1>3, <1>6
    <2> HIDE DEF r, t
    <2>2. Sound(t) /\ Grown(r, t, e)
      BY <2>1, PushedRunFields
    <2>3. r.parent \in Scene /\ t.parent \in Scene
      BY <2>1, <2>2 DEF Sound, SceneState
    <2>4. e \in Late
      BY <2>3 DEF n
    <2> HIDE DEF e
    <2>5. \A k \in 1 .. Len(t.stack) : k >= low => t.stack[k] \in Late
      BY <2>1, <2>2, <2>4, GrownWithin
    <2>6. Quiet(s, t)
      <3>1. /\ r.index \in Nat /\ t.index \in Nat /\ s.index \in Nat /\ Len(t.stack) \in Nat
            /\ r.at \in Int /\ s.at \in Int /\ Len(t.stack) <= UndoLimit
            /\ r.index <= UndoLimit
        BY <2>1, <2>2 DEF Sound, SceneState
      <3>12. /\ t.index = Len(t.stack) /\ Len(t.stack) = r.index + 1 - Lost(r)
             /\ t.at = r.at - Lost(r)
        BY <2>2, Zenon DEF Grown
      <3>2. r.index <= t.index
        BY <3>1, <3>12 DEF Lost, Over
      <3>3. t.marks = (IF Over(r) /\ r.at > 0 THEN r.marks \cup {"shifted"} ELSE r.marks)
        BY <2>2 DEF Grown
      <3>4. t.fault = IF Over(r) /\ r.at = 1 THEN "command deleted" ELSE r.fault
        BY <2>2 DEF Grown
      <3>5. r.at <= 0 => t.at <= 0
        BY <3>1, <3>12 DEF Lost
      <3>6. /\ s.index <= r.index /\ s.marks \subseteq r.marks
            /\ r.marks \subseteq s.marks \cup {"shifted"}
            /\ r.fault \in {s.fault, "command deleted"}
            /\ (r.fault # s.fault => "shifted" \in r.marks)
            /\ (s.at <= 0 => r.at <= 0 /\ r.marks = s.marks /\ r.fault = s.fault)
        BY <2>1, Zenon DEF Quiet
      <3>13. s.index <= r.index
        BY <3>6
      <3>14. s.at <= 0 => r.at <= 0
        BY <3>6
      <3>15. s.at <= 0 => r.marks = s.marks /\ r.fault = s.fault
        BY <3>6, Zenon
      <3>7. s.marks \subseteq t.marks /\ t.marks \subseteq s.marks \cup {"shifted"}
        BY <3>3, <3>6
      <3>8. s.at <= 0 => t.at <= 0 /\ t.marks = s.marks /\ t.fault = s.fault
        <4> SUFFICES ASSUME s.at <= 0 PROVE t.at <= 0 /\ t.marks = s.marks /\ t.fault = s.fault
          OBVIOUS
        <4>1. r.at <= 0 /\ ~(r.at > 0) /\ r.at # 1 /\ r.marks = s.marks /\ r.fault = s.fault
          BY <3>1, <3>14, <3>15
        <4> QED
          BY <3>3, <3>4, <3>5, <4>1
      <3>9. t.fault # s.fault => "shifted" \in t.marks
        <4>1. CASE Over(r) /\ r.at = 1
          <5>1. r.at > 0
            BY <4>1
          <5> QED
            BY <3>3, <4>1, <5>1
        <4>2. CASE ~(Over(r) /\ r.at = 1)
          <5>1. t.fault = r.fault /\ r.marks \subseteq t.marks
            BY <3>3, <3>4, <4>2
          <5> QED
            BY <3>6, <5>1
        <4> QED
          BY <4>1, <4>2
      <3>10. t.fault \in {s.fault, "command deleted"}
        BY <3>4, <3>6, Zenon
      <3>11. s.index <= t.index
        BY <3>1, <3>2, <3>13
      <3> QED
        BY <3>7, <3>8, <3>9, <3>10, <3>11, Zenon DEF Quiet
    <2>7. Fits(t)
      BY <2>2, <2>5, <2>6
    <2> QED
      BY <2>7, <1>1 DEF t
  <1>7. n \in P
    <2> HIDE DEF P
    <2>1. \A i \in 0 .. n : i \in P
      BY <1>1, <1>5, <1>6, UpTo
    <2> QED
      BY <1>1, <2>1
  <1> QED
    BY <1>4, <1>7

\* Connections and nodes taken out.
CutBy(list, i) == {c \in Conn : \E j \in 1 .. i : list[j].op = "disconnect" /\ list[j].conn = c}
TakenBy(list, i) == {m \in Nodes : \E j \in 1 .. i : list[j].op = "remove" /\ list[j].node = m}
Without(p, gone) == [m \in Nodes |-> IF m \in gone THEN Absent ELSE p[m]]

LEMMA RemovalsOnScene ==
  ASSUME NEW s, Sound(s), NEW list \in Seq(Command),
         \A i \in 1 .. Len(list) : list[i].op \in {"remove", "disconnect"}
  PROVE  LET t == PushedAll(s, list)
         IN  /\ Sound(t) /\ t.uid = s.uid
             /\ t.conns = s.conns \ CutBy(list, Len(list))
             /\ t.parent = Without(s.parent, TakenBy(list, Len(list)))
  <1> DEFINE n == Len(list)
  <1>1. n \in Nat /\ \A i \in 1 .. n : list[i] \in Command
    OBVIOUS
  <1>2. PICK run : PushRun(run, s, list)
    BY <1>1, PushRunExists
  <1>3. run[0] = s /\ \A i \in 1 .. n : run[i] = PushedRun(run[i - 1], list[i])
    BY <1>2, Zenon DEF PushRun
  <1>4. PushedAll(s, list) = run[n]
    BY <1>2, Zenon DEF PushRun
  <1> DEFINE Fits(t, i) == /\ Sound(t) /\ t.uid = s.uid
                           /\ t.conns = s.conns \ CutBy(list, i)
                           /\ t.parent = Without(s.parent, TakenBy(list, i))
             P == {i \in 0 .. n : Fits(run[i], i)}
  <1> HIDE DEF n
  <1>5. 0 \in P
    <2>1. CutBy(list, 0) = {} /\ TakenBy(list, 0) = {}
      BY DEF CutBy, TakenBy
    <2>2. s.parent = Without(s.parent, {})
      BY DEF Without, Sound, SceneState, Scene
    <2>3. s.conns = s.conns \ {}
      OBVIOUS
    <2>4. 0 \in 0 .. n /\ Fits(run[0], 0)
      <3>1. Sound(s) /\ s.conns = s.conns \ CutBy(list, 0)
            /\ s.parent = Without(s.parent, TakenBy(list, 0))
        BY <2>1, <2>2, <2>3, Zenon
      <3>2. Fits(s, 0)
        BY <3>1, Zenon
      <3> HIDE DEF Fits
      <3> QED
        BY <1>1, <1>3, <3>2
    <2> HIDE DEF Fits
    <2> QED
      BY <2>4
  <1>6. ASSUME NEW i \in 1 .. n, i - 1 \in P PROVE i \in P
    <2> DEFINE r == run[i - 1]
               t == run[i]
               c == list[i]
    <2>1. t = PushedRun(r, c) /\ Fits(r, i - 1) /\ c \in Command
          /\ c.op \in {"remove", "disconnect"}
      BY <1>1, <1>3, <1>6 DEF n
    <2> HIDE DEF r, t, c
    <2>2. /\ Sound(t) /\ t.parent = ParentAfter(r.parent, c)
          /\ t.conns = ConnsAfter(r.conns, c) /\ t.uid = r.uid
      BY <2>1, PushedRunFields
    <2>3. \A j \in 1 .. i : j \in 1 .. i - 1 \/ j = i
      OBVIOUS
    <2>4. i \in 1 .. i /\ \A j \in 1 .. i - 1 : j \in 1 .. i
      OBVIOUS
    <2>5. r.parent \in Scene /\ s.parent \in Scene
      BY <2>1 DEF Sound, SceneState
    <2>6. CASE c.op = "remove"
      <3>1. CutBy(list, i) = CutBy(list, i - 1)
        BY <2>3, <2>4, <2>6 DEF CutBy, c
      <3>2. TakenBy(list, i) = TakenBy(list, i - 1) \cup {c.node} /\ c.node \in Nodes
        BY <2>1, <2>3, <2>4, <2>6 DEF TakenBy, c, Command
      <3>3. t.conns = r.conns /\ t.parent = [r.parent EXCEPT ![c.node] = Absent]
        BY <2>2, <2>6 DEF ConnsAfter, ParentAfter
      <3>4. t.parent = Without(s.parent, TakenBy(list, i))
        BY <2>1, <2>5, <3>2, <3>3 DEF Without, Scene
      <3> QED
        BY <1>1, <2>1, <2>2, <3>1, <3>3, <3>4 DEF t
    <2>7. CASE c.op = "disconnect"
      <3>1. TakenBy(list, i) = TakenBy(list, i - 1)
        BY <2>3, <2>4, <2>7 DEF TakenBy, c
      <3>2. CutBy(list, i) = CutBy(list, i - 1) \cup {c.conn}
        BY <2>1, <2>3, <2>4, <2>7 DEF CutBy, c, Command
      <3>3. t.conns = r.conns \ {c.conn} /\ t.parent = r.parent
        BY <2>2, <2>7 DEF ConnsAfter, ParentAfter
      <3> QED
        BY <1>1, <2>1, <2>2, <3>1, <3>2, <3>3 DEF t
    <2> QED
      BY <2>1, <2>6, <2>7
  <1>7. n \in P
    <2> HIDE DEF P
    <2>1. \A i \in 0 .. n : i \in P
      BY <1>1, <1>5, <1>6, UpTo
    <2> QED
      BY <1>1, <2>1
  <1> QED
    BY <1>4, <1>7 DEF n

\* Connections made.
MadeBy(list, i) == {c \in Conn : \E j \in 1 .. i : list[j].conn = c}

LEMMA JoinsOnScene ==
  ASSUME NEW s, Sound(s), NEW list \in Seq(Command),
         \A i \in 1 .. Len(list) : list[i].op = "connect"
  PROVE  LET t == PushedAll(s, list)
         IN  /\ Sound(t) /\ t.uid = s.uid + Len(list)
             /\ t.conns = s.conns \cup MadeBy(list, Len(list))
             /\ t.parent = s.parent
  <1> DEFINE n == Len(list)
  <1>1. n \in Nat /\ \A i \in 1 .. n : list[i] \in Command
    OBVIOUS
  <1>2. PICK run : PushRun(run, s, list)
    BY <1>1, PushRunExists
  <1>3. run[0] = s /\ \A i \in 1 .. n : run[i] = PushedRun(run[i - 1], list[i])
    BY <1>2, Zenon DEF PushRun
  <1>4. PushedAll(s, list) = run[n]
    BY <1>2, Zenon DEF PushRun
  <1> DEFINE Fits(t, i) == /\ Sound(t) /\ t.uid = s.uid + i
                           /\ t.conns = s.conns \cup MadeBy(list, i)
                           /\ t.parent = s.parent
             P == {i \in 0 .. n : Fits(run[i], i)}
  <1> HIDE DEF n
  <1>5. 0 \in P
    <2>1. MadeBy(list, 0) = {}
      BY DEF MadeBy
    <2>2. s.uid = s.uid + 0 /\ s.conns = s.conns \cup {}
      BY DEF Sound, SceneState
    <2>3. Fits(s, 0)
      BY <2>1, <2>2, Zenon
    <2> HIDE DEF Fits
    <2> QED
      BY <1>1, <1>3, <2>3
  <1>6. ASSUME NEW i \in 1 .. n, i - 1 \in P PROVE i \in P
    <2> DEFINE r == run[i - 1]
               t == run[i]
               c == list[i]
    <2>1. t = PushedRun(r, c) /\ Fits(r, i - 1) /\ c \in Command /\ c.op = "connect"
      BY <1>1, <1>3, <1>6 DEF n
    <2> HIDE DEF r, t, c
    <2>2. /\ Sound(t) /\ t.parent = ParentAfter(r.parent, c)
          /\ t.conns = ConnsAfter(r.conns, c)
          /\ t.uid = IF c.op = "connect" THEN r.uid + 1 ELSE r.uid
      BY <2>1, PushedRunFields
    <2>3. t.parent = s.parent /\ t.conns = r.conns \cup {c.conn} /\ t.uid = r.uid + 1
      BY <2>1, <2>2 DEF ParentAfter, ConnsAfter
    <2>4. MadeBy(list, i) = MadeBy(list, i - 1) \cup {c.conn}
      <3>1. \A j \in 1 .. i : j \in 1 .. i - 1 \/ j = i
        OBVIOUS
      <3>2. i \in 1 .. i /\ \A j \in 1 .. i - 1 : j \in 1 .. i
        OBVIOUS
      <3>3. c.conn \in Conn
        BY <2>1 DEF Command
      <3> QED
        BY <3>1, <3>2, <3>3 DEF MadeBy, c
    <2>5. t.uid = s.uid + i
      <3>1. s.uid \in Nat
        BY DEF Sound, SceneState
      <3>2. r.uid = s.uid + (i - 1)
        BY <2>1
      <3> QED
        BY <1>1, <2>3, <3>1, <3>2
    <2>6. t.conns = s.conns \cup MadeBy(list, i)
      BY <2>1, <2>3, <2>4
    <2>7. Fits(t, i)
      BY <2>2, <2>3, <2>5, <2>6
    <2> HIDE DEF Fits
    <2> QED
      BY <1>1, <2>7 DEF t
  <1>7. n \in P
    <2> HIDE DEF P
    <2>1. \A i \in 0 .. n : i \in P
      BY <1>1, <1>5, <1>6, UpTo
    <2> QED
      BY <1>1, <2>1
  <1> QED
    BY <1>4, <1>7 DEF n

\* While a command is undone, disconnections pushed on a stack with room for them
\* lie on top of what was done, and lead nowhere.
OnTop(s, t, list, i) ==
  /\ t.index = s.index + i /\ t.at = s.at /\ t.marks = s.marks /\ t.fault = s.fault
  /\ IF i = 0 THEN t.stack = s.stack ELSE Len(t.stack) = s.index + i
  /\ \A k \in 1 .. s.index : t.stack[k] = s.stack[k]
  /\ \A j \in 1 .. i : t.stack[s.index + j] =
       [cmds |-> <<list[j]>>, before |-> s.parent, after |-> s.parent]

LEMMA CutsOnStack ==
  ASSUME NEW s, Sound(s), s.at > 0, NEW list \in Seq(Command),
         \A i \in 1 .. Len(list) : list[i].op = "disconnect",
         "shifted" \notin PushedAll(s, list).marks
  PROVE  OnTop(s, PushedAll(s, list), list, Len(list))
  <1> DEFINE n == Len(list)
  <1>1. n \in Nat /\ \A i \in 1 .. n : list[i] \in Command
    OBVIOUS
  <1>2. PICK run : PushRun(run, s, list)
    BY <1>1, PushRunExists
  <1>3. run[0] = s /\ \A i \in 1 .. n : run[i] = PushedRun(run[i - 1], list[i])
    BY <1>2, Zenon DEF PushRun
  <1>4. PushedAll(s, list) = run[n]
    BY <1>2, Zenon DEF PushRun
  <1> DEFINE Fits(t, i) == /\ Sound(t) /\ t.parent = s.parent
                           /\ "shifted" \in t.marks \/ OnTop(s, t, list, i)
             P == {i \in 0 .. n : Fits(run[i], i)}
  <1> HIDE DEF n
  <1>5. 0 \in P
    <2>1. s.index + 0 = s.index
      BY DEF Sound, SceneState
    <2>2. Fits(s, 0)
      BY <2>1 DEF OnTop
    <2> HIDE DEF Fits
    <2> QED
      BY <1>1, <1>3, <2>2
  <1>6. ASSUME NEW i \in 1 .. n, i - 1 \in P PROVE i \in P
    <2> DEFINE r == run[i - 1]
               t == run[i]
               c == list[i]
               e == [cmds |-> <<c>>, before |-> r.parent, after |-> t.parent]
    <2>1. t = PushedRun(r, c) /\ Fits(r, i - 1) /\ c \in Command /\ c.op = "disconnect"
      BY <1>1, <1>3, <1>6 DEF n
    <2> HIDE DEF r, t, c
    <2>2. /\ Sound(t) /\ t.parent = ParentAfter(r.parent, c) /\ Grown(r, t, e)
      BY <2>1, PushedRunFields
    <2>3. t.parent = s.parent /\ e = [cmds |-> <<c>>, before |-> s.parent, after |-> s.parent]
      BY <2>1, <2>2 DEF ParentAfter
    <2>4. t.marks = IF Over(r) /\ r.at > 0 THEN r.marks \cup {"shifted"} ELSE r.marks
      BY <2>2, Zenon DEF Grown
    <2>5. ASSUME "shifted" \notin t.marks PROVE OnTop(s, t, list, i)
      <3> HIDE DEF e
      <3>1. "shifted" \notin r.marks
        BY <2>4, <2>5
      <3>2. OnTop(s, r, list, i - 1)
        BY <2>1, <3>1
      <3>3. r.at = s.at /\ ~Over(r) /\ t.marks = s.marks
        BY <2>4, <2>5, <3>2 DEF OnTop
      <3>4. Lost(r) = 0
        BY <3>3 DEF Lost
      <3>5. /\ t.index = Len(t.stack) /\ Len(t.stack) = r.index + 1 - Lost(r)
            /\ t.at = r.at - Lost(r) /\ t.stack[Len(t.stack)] = e
            /\ t.fault = IF Over(r) /\ r.at = 1 THEN "command deleted" ELSE r.fault
        BY <2>2, Zenon DEF Grown
      <3>6. \A k \in 1 .. r.index - Lost(r) : t.stack[k] = r.stack[k + Lost(r)]
        BY <2>2, Zenon DEF Grown
      <3>7. /\ r.index = s.index + (i - 1) /\ r.fault = s.fault
            /\ \A k \in 1 .. s.index : r.stack[k] = s.stack[k]
            /\ \A j \in 1 .. i - 1 : r.stack[s.index + j] =
                 [cmds |-> <<list[j]>>, before |-> s.parent, after |-> s.parent]
        BY <3>2, Zenon DEF OnTop
      <3>8. s.index \in Nat /\ s.at \in Int /\ i \in Nat
        BY <1>1 DEF Sound, SceneState
      <3>9. t.index = s.index + i /\ Len(t.stack) = s.index + i /\ t.at = s.at
        BY <3>3, <3>4, <3>5, <3>7, <3>8
      <3>10. t.fault = s.fault
        BY <3>3, <3>5, <3>7
      <3>11. \A k \in 1 .. s.index + (i - 1) : t.stack[k] = r.stack[k]
        BY <3>4, <3>6, <3>7, <3>8
      <3>12. \A k \in 1 .. s.index : t.stack[k] = s.stack[k]
        BY <3>7, <3>8, <3>11
      <3>13. ASSUME NEW j \in 1 .. i
             PROVE  t.stack[s.index + j] =
                      [cmds |-> <<list[j]>>, before |-> s.parent, after |-> s.parent]
        <4>1. CASE j = i
          BY <2>3, <3>5, <3>9, <4>1 DEF c
        <4>2. CASE j # i
          <5>1. j \in 1 .. i - 1 /\ s.index + j \in 1 .. s.index + (i - 1)
            BY <3>8, <4>2
          <5> QED
            BY <3>7, <3>11, <5>1
        <4> QED
          BY <4>1, <4>2
      <3>14. i # 0
        BY <1>1
      <3> QED
        BY <3>3, <3>9, <3>10, <3>12, <3>13, <3>14, Zenon DEF OnTop
    <2>6. Fits(t, i)
      BY <2>2, <2>3, <2>5
    <2> HIDE DEF Fits
    <2> QED
      BY <1>1, <2>6 DEF t
  <1>7. n \in P
    <2> HIDE DEF P
    <2>1. \A i \in 0 .. n : i \in P
      BY <1>1, <1>5, <1>6, UpTo
    <2> QED
      BY <1>1, <2>1
  <1> QED
    BY <1>4, <1>7 DEF n

----------------------------------------------------------------------------
(* The structure of a state: what holds whatever was undone, redone or dragged *)

Ends(s) == \A c \in s.conns : EndsInScene(s, c.wire)

Strong(s) ==
  /\ Nested(s.parent)
  /\ \A k \in 1 .. Len(s.stack) : Formed(s.stack[k]) /\ (k > s.index => Saved(s.stack[k]))

Good(s) ==
  /\ Sound(s) /\ s.uid \in 1 .. MaxUid + 1 /\ Ends(s)
  /\ s.fault = "none" => Strong(s)

LEMMA StateIsGood ==
  ASSUME Structure, fault = "none"
  PROVE  Good(State)
  <1>1. State \in SceneState
    BY DEF Structure, TypeOK, State, SceneState, Faults, Failures
  <1>2. Sound(State)
    BY <1>1 DEF Structure, TypeOK, State, Sound
  <1>3. Ends(State)
    BY DEF Structure, EndsThere, Ends, State
  <1>4. Strong(State) \/ fault # "none"
    <2> SUFFICES ASSUME fault = "none" PROVE Strong(State)
      OBVIOUS
    <2>1. WellFormed /\ DOMAIN stack = 1 .. Len(stack)
      BY DEF Structure, TypeOK
    <2> QED
      BY <2>1 DEF WellFormed, Strong, State
  <1>5. State.uid \in 1 .. MaxUid + 1 /\ State.fault = fault
    BY DEF Structure, TypeOK, State
  <1> QED
    BY <1>2, <1>3, <1>4, <1>5 DEF Good

\* The nodes that lose their items have no connections but phantoms.
LEMMA GoodAppears ==
  ASSUME Structure, fault = "none", NEW s, Good(s),
         NEW out \in SUBSET Components, hidden \subseteq out, Appears(s, out),
         \A c \in s.conns : c.uid # NullUid => {c.wire[1], c.wire[2]} \cap (out \ hidden) = {}
  PROVE  Structure'
  <1> DEFINE missed == \E c \in s.conns \ conns : NoItem(c)
  <1>1. /\ parent' = s.parent /\ conns' = s.conns /\ stack' = s.stack /\ index' = s.index
        /\ nextUid' = s.uid /\ marks' = s.marks /\ hidden' = {n \in out : InScene(s, n)}
        /\ fault' = IF missed THEN "no item" ELSE s.fault
    BY Zenon DEF Appears
  <1>2. /\ s.parent \in Scene /\ s.conns \subseteq Conn /\ s.stack \in Seq(Entry)
        /\ s.index \in Nat /\ s.fault \in Failures /\ s.marks \subseteq Marks
        /\ Len(s.stack) <= UndoLimit /\ s.index <= Len(s.stack) /\ s.uid \in 1 .. MaxUid + 1
    BY DEF Good, Sound, SceneState
  <1>3. fault' \in Faults /\ (fault' = "no item" <=> missed)
    BY <1>1, <1>2 DEF Faults, Failures
  <1>4. TypeOK'
    <2>1. hidden' \subseteq Components
      BY <1>1
    <2>2. s.index \in 0 .. Len(s.stack)
      BY <1>2
    <2>3. /\ parent' \in Scene /\ conns' \subseteq Conn /\ stack' \in Seq(Entry)
          /\ Len(stack') <= UndoLimit /\ index' \in 0 .. Len(stack')
          /\ nextUid' \in 1 .. MaxUid + 1 /\ marks' \subseteq Marks
      BY <1>1, <1>2, <2>2, Zenon
    <2> QED
      BY <1>3, <2>1, <2>3, Zenon DEF TypeOK
  <1>5. EndsThere'
    BY <1>1 DEF Good, Ends, EndsThere, EndsInScene, InScene, State
  <1>6. ASSUME NEW c \in s.conns, ~missed, c.uid # NullUid
        PROVE  {c.wire[1], c.wire[2]} \cap hidden' = {}
    <2>1. {c.wire[1], c.wire[2]} \cap hidden = {}
      <3>1. CASE c \in conns
        BY <1>6, <3>1 DEF Structure, ItemsThere, NoItem
      <3>2. CASE c \notin conns
        BY <1>6, <3>2 DEF NoItem
      <3> QED
        BY <3>1, <3>2
    <2>2. {c.wire[1], c.wire[2]} \cap (out \ hidden) = {}
      BY <1>6
    <2> QED
      BY <1>1, <2>1, <2>2
  <1>7. ASSUME missed PROVE hidden' # {}
    <2>1. PICK c \in s.conns : NoItem(c)
      BY <1>7
    <2>2. EndsInScene(s, c.wire)
      BY DEF Good, Ends
    <2>3. PICK m \in {c.wire[1], c.wire[2]} : m \in hidden
      BY <2>1 DEF NoItem
    <2> QED
      BY <1>1, <2>2, <2>3 DEF EndsInScene
  <1> HIDE DEF missed
  <1>8. ItemsThere'
    BY <1>1, <1>3, <1>6, <1>7 DEF ItemsThere, NoItem
  <1>9. ASSUME fault' = "none" PROVE WellFormed'
    <2>1. Strong(s) /\ DOMAIN s.stack = 1 .. Len(s.stack)
      BY <1>1, <1>2, <1>9 DEF Good
    <2> QED
      BY <1>1, <2>1 DEF Strong, WellFormed
  <1> QED
    BY <1>4, <1>5, <1>8, <1>9 DEF Structure

LEMMA GoodBecomes ==
  ASSUME Structure, fault = "none", NEW s, Good(s), Become(s)
  PROVE  Structure'
  <1>1. hidden \in SUBSET Components /\ Appears(s, hidden)
    BY DEF Become, Structure, TypeOK
  <1>2. \A c \in s.conns : {c.wire[1], c.wire[2]} \cap (hidden \ hidden) = {}
    OBVIOUS
  <1> QED
    BY <1>1, <1>2, GoodAppears

\* A node and its children taken away.
LEMMA GoneFields ==
  ASSUME NEW s, Sound(s), NEW n \in Nodes
  PROVE  LET t == Gone(s, n)
         IN  /\ Sound(t)
             /\ t.parent = Without(s.parent, Family(s, n))
             /\ t.conns = s.conns \ ConnsOf(s, n)
             /\ t.stack = s.stack /\ t.index = s.index /\ t.uid = s.uid
             /\ t.fault = s.fault /\ t.marks = s.marks /\ t.at = s.at
  <1> DEFINE t == Gone(s, n)
             p == Without(s.parent, Family(s, n))
             C == s.conns \ ConnsOf(s, n)
  <1>1. s \in SceneState /\ s.parent \in Scene /\ s.conns \in SUBSET Conn
    BY DEF Sound, SceneState
  <1>2. p \in Scene /\ C \in SUBSET Conn
    BY <1>1 DEF Without, Scene
  <1>3. t = [s EXCEPT !.conns = C, !.parent = p]
    BY Zenon DEF Gone, Without
  <1> HIDE DEF p, C, t
  <1>4. t \in SceneState
    BY <1>1, <1>2, <1>3 DEF SceneState
  <1>5. /\ t.parent = p /\ t.conns = C
        /\ t.stack = s.stack /\ t.index = s.index /\ t.uid = s.uid
        /\ t.fault = s.fault /\ t.marks = s.marks /\ t.at = s.at
    BY <1>1, <1>3 DEF SceneState
  <1>6. Sound(t)
    BY <1>4, <1>5 DEF Sound
  <1> QED
    BY <1>5, <1>6, Zenon DEF t, p, C

LEMMA NestedWithout ==
  ASSUME NEW s, s.parent \in Scene, Nested(s.parent), NEW n \in Nodes
  PROVE  Nested(Without(s.parent, Family(s, n)))
  <1> DEFINE q == Without(s.parent, Family(s, n))
  <1>1. \A m \in Nodes : q[m] = IF m \in Family(s, n) THEN Absent ELSE s.parent[m]
    BY DEF Without
  <1>2. Containers \subseteq Nodes /\ Components \subseteq Nodes
    BY DEF Nodes
  <1>3. \A k \in Containers : q[k] \in {Root, Absent}
    BY <1>1, <1>2 DEF Nested
  <1>4. ASSUME NEW m \in Components, q[m] \in Containers PROVE q[q[m]] # Absent
    <2>1. m \in Nodes /\ q[m] \in Nodes /\ q[m] # Absent
      BY <1>2, <1>4 DEF Nodes
    <2>2. m \notin Family(s, n) /\ q[m] = s.parent[m]
      BY <1>1, <2>1
    <2>3. s.parent[q[m]] # Absent /\ s.parent[q[m]] \in {Root, Absent}
      BY <1>4, <2>2 DEF Nested
    <2>4. q[m] # n
      BY <2>1, <2>2 DEF Family, Children
    <2>5. q[m] \notin Children(s, n)
      BY <2>3 DEF Children, Nodes
    <2>6. q[m] \notin Family(s, n)
      BY <2>4, <2>5 DEF Family
    <2> QED
      BY <1>1, <2>1, <2>3, <2>6
  <1> HIDE DEF q
  <1>5. Nested(q)
    BY <1>3, <1>4 DEF Nested
  <1> QED
    BY <1>5 DEF q

\* Connections that do not touch what goes away keep their ends.
LEMMA EndsWithout ==
  ASSUME NEW s, NEW t, s.parent \in Scene, s.conns \in SUBSET Conn, Ends(s),
         NEW n \in Nodes,
         t.parent = Without(s.parent, Family(s, n)), t.conns \subseteq s.conns \ ConnsOf(s, n)
  PROVE  Ends(t)
  <1> SUFFICES ASSUME NEW c \in t.conns PROVE EndsInScene(t, c.wire)
    BY DEF Ends
  <1>1. c \in s.conns /\ c \notin ConnsOf(s, n) /\ c \in Conn
    OBVIOUS
  <1>2. c.wire[1] \in Nodes /\ c.wire[2] \in Nodes
    BY <1>1 DEF Conn, Wires, Nodes
  <1>3. c.wire[1] \notin Family(s, n) /\ c.wire[2] \notin Family(s, n)
    BY <1>1 DEF ConnsOf
  <1>4. s.parent[c.wire[1]] # Absent /\ s.parent[c.wire[2]] # Absent
    BY <1>1 DEF Ends, EndsInScene, InScene
  <1>5. t.parent[c.wire[1]] # Absent /\ t.parent[c.wire[2]] # Absent
    BY <1>2, <1>3, <1>4 DEF Without
  <1> QED
    BY <1>5 DEF EndsInScene, InScene

\* The commands that removing n pushes have led from s to t, and g is t without n.
PulledTo(s, n, t, g) ==
  /\ Sound(t) /\ Sound(g)
  /\ g.parent = Without(s.parent, Family(s, n))
  /\ g.conns = s.conns \ ConnsOf(s, n)
  /\ g.uid = s.uid /\ g.stack = t.stack /\ g.index = t.index
  /\ g.fault = t.fault /\ g.marks = t.marks /\ g.at = t.at

LEMMA PulledAway ==
  ASSUME NEW s, Sound(s), NEW n \in Nodes
  PROVE  LET t == PushedAll(s, Pulled(s, n)) IN PulledTo(s, n, t, Gone(t, n))
  <1> DEFINE l == Pulled(s, n)
             t == PushedAll(s, l)
             g == Gone(t, n)
  <1>1. s.parent \in Scene /\ s.conns \in SUBSET Conn
    BY DEF Sound, SceneState
  <1>2. PulledWell(s, n, l)
    BY <1>1, PulledList
  <1> HIDE DEF l
  <1>3. l \in Seq(Command) /\ \A i \in 1 .. Len(l) : l[i].op \in {"remove", "disconnect"}
    BY <1>2 DEF PulledWell
  <1>4. /\ Sound(t) /\ t.uid = s.uid /\ t.conns = s.conns \ CutBy(l, Len(l))
        /\ t.parent = Without(s.parent, TakenBy(l, Len(l)))
    BY <1>3, RemovalsOnScene
  <1> HIDE DEF t
  <1>5. CutBy(l, Len(l)) = ConnsOf(s, n)
    <2>1. ConnsOf(s, n) \subseteq Conn
      BY <1>1 DEF ConnsOf
    <2>2. ASSUME NEW c \in CutBy(l, Len(l)) PROVE c \in ConnsOf(s, n)
      <3>1. PICK i \in 1 .. Len(l) : l[i].op = "disconnect" /\ l[i].conn = c
        BY DEF CutBy
      <3> QED
        BY <1>2, <3>1 DEF PulledWell
    <2>3. ASSUME NEW c \in ConnsOf(s, n) PROVE c \in CutBy(l, Len(l))
      <3>1. \E i \in 1 .. Len(l) : l[i].op = "disconnect" /\ l[i].conn = c
        BY <1>2, Zenon DEF PulledWell
      <3> QED
        BY <2>1, <3>1 DEF CutBy
    <2> QED
      BY <2>2, <2>3
  <1>6. TakenBy(l, Len(l)) = Children(s, n)
    <2>1. ASSUME NEW m \in TakenBy(l, Len(l)) PROVE m \in Children(s, n)
      <3>1. PICK i \in 1 .. Len(l) : l[i].op = "remove" /\ l[i].node = m
        BY DEF TakenBy
      <3> QED
        BY <1>2, <3>1 DEF PulledWell
    <2>2. ASSUME NEW m \in Children(s, n) PROVE m \in TakenBy(l, Len(l))
      <3>1. \E i \in 1 .. Len(l) : l[i].op = "remove" /\ l[i].node = m
        BY <1>2, Zenon DEF PulledWell
      <3> QED
        BY <3>1 DEF TakenBy, Children
    <2> QED
      BY <2>1, <2>2
  <1>7. t.parent = Without(s.parent, Children(s, n)) /\ t.conns = s.conns \ ConnsOf(s, n)
    BY <1>4, <1>5, <1>6
  <1>8. Children(t, n) = {}
    BY <1>7 DEF Children, Without, Nodes
  <1>9. Family(t, n) = {n} /\ Without(t.parent, {n}) = Without(s.parent, Family(s, n))
    BY <1>7, <1>8 DEF Family, Without
  <1>10. ConnsOf(t, n) \subseteq ConnsOf(s, n)
    BY <1>7, <1>9 DEF ConnsOf, Family
  <1>11. /\ Sound(g) /\ g.parent = Without(t.parent, Family(t, n))
         /\ g.conns = t.conns \ ConnsOf(t, n)
         /\ g.stack = t.stack /\ g.index = t.index /\ g.uid = t.uid
         /\ g.fault = t.fault /\ g.marks = t.marks /\ g.at = t.at
    BY <1>4, GoneFields
  <1> HIDE DEF g
  <1>12. g.parent = Without(s.parent, Family(s, n)) /\ g.conns = s.conns \ ConnsOf(s, n)
    BY <1>7, <1>9, <1>10, <1>11
  <1>13. PulledTo(s, n, t, g)
    BY <1>4, <1>11, <1>12, Zenon DEF PulledTo
  <1> QED
    BY <1>13, Zenon DEF g, t, l

----------------------------------------------------------------------------
(* Every edit keeps the structure *)

LEMMA StrongGrown ==
  ASSUME NEW s, NEW t, NEW e, Sound(s), Sound(t), Grown(s, t, e), e \in Entry,
         Strong(s), Formed(e), Nested(t.parent)
  PROVE  Strong(t)
  <1> DEFINE Late == {x \in Entry : Formed(x)}
  <1>1. e \in Late
    OBVIOUS
  <1>2. \A k \in 1 .. Len(s.stack) : k >= 0 => s.stack[k] \in Late
    BY DEF Strong, Sound, SceneState
  <1> HIDE DEF Late
  <1>3. \A k \in 1 .. Len(t.stack) : k >= 0 => t.stack[k] \in Late
    BY <1>1, <1>2, GrownWithin
  <1>4. t.index = Len(t.stack) /\ Len(t.stack) \in Nat
    BY DEF Grown, Sound, SceneState
  <1>5. \A k \in 1 .. Len(t.stack) : k >= 0 /\ ~(k > t.index)
    BY <1>4
  <1> QED
    BY <1>3, <1>5 DEF Strong, Late

\* The step leads to r and pushes the entry e.
Pushes(r, e) ==
  /\ Become(r) /\ Good(r) /\ Grown(State, r, e) /\ e \in Entry /\ Formed(e)
  /\ e.before = parent /\ e.after = r.parent

LEMMA AddNodePushes ==
  ASSUME Structure, fault = "none", NEW n \in Nodes, NEW p \in Containers \cup {Root},
         AddNode(n, p)
  PROVE  \E r, e : /\ Pushes(r, e) /\ e.cmds = <<AddOf(n, Empty)>>
                   /\ r.parent = [parent EXCEPT ![n] = p] /\ r.conns = conns
  <1> DEFINE s == State
             q == [parent EXCEPT ![n] = p]
             c == AddOf(n, Empty)
             g == Pushed(s, <<c>>, q)
             e == [cmds |-> <<c>>, before |-> s.parent, after |-> q]
             r == [g EXCEPT !.parent = q]
  <1>1. Good(s) /\ s.parent = parent /\ s.conns = conns /\ s.fault = "none" /\ s.at = 0
        /\ s.uid = nextUid
    BY StateIsGood DEF State
  <1>2. /\ parent[n] = Absent /\ (n \in Containers => p = Root)
        /\ p # Root => p \in Containers /\ parent[p] # Absent
        /\ Become(r)
    BY DEF AddNode, Fresh
  <1> HIDE DEF s
  <1>3. Sound(s) /\ Strong(s) /\ Ends(s) /\ s.uid \in 1 .. MaxUid + 1 /\ parent \in Scene
    BY <1>1 DEF Good, Sound, SceneState
  <1>4. c \in Command /\ <<c>> \in Seq(Command) /\ q \in Scene
    BY <1>3, CommandTypes DEF Scene
  <1> HIDE DEF q
  <1>5. /\ Sound(g) /\ Grown(s, g, e) /\ e \in Entry
        /\ g.parent = s.parent /\ g.conns = s.conns /\ g.uid = s.uid
    BY <1>3, <1>4, PushedFields
  <1> HIDE DEF g
  <1>6. /\ r \in SceneState /\ r.parent = q /\ r.conns = conns /\ r.stack = g.stack
        /\ r.index = g.index /\ r.uid = s.uid /\ r.fault = g.fault /\ r.marks = g.marks /\ r.at = g.at
    BY <1>1, <1>4, <1>5 DEF Sound, SceneState
  <1> HIDE DEF r
  <1>7. Sound(r) /\ Grown(s, r, e)
    BY <1>5, <1>6 DEF Sound, Grown
  <1>8. Ends(r)
    <2> SUFFICES ASSUME NEW w \in conns PROVE EndsInScene(r, w.wire)
      BY <1>6 DEF Ends
    <2>1. w.wire[1] \in Nodes /\ w.wire[2] \in Nodes
      BY <1>1, <1>3 DEF Sound, SceneState, Conn, Wires, Nodes
    <2>2. parent[w.wire[1]] # Absent /\ parent[w.wire[2]] # Absent
      BY <1>1, <1>3 DEF Ends, EndsInScene, InScene
    <2>3. q[w.wire[1]] # Absent /\ q[w.wire[2]] # Absent
      BY <1>2, <1>3, <2>1, <2>2 DEF q, Scene
    <2> QED
      BY <1>6, <2>3 DEF EndsInScene, InScene
  <1>9. Nested(q)
    <2>1. Nested(parent) /\ \A m \in Nodes : q[m] = IF m = n THEN p ELSE parent[m]
      BY <1>1, <1>3 DEF Strong, q, Scene
    <2>2. \A k \in Containers : k \in Nodes /\ q[k] \in {Root, Absent}
      BY <1>2, <2>1 DEF Nested, Nodes
    <2>3. ASSUME NEW m \in Components, q[m] \in Containers PROVE q[q[m]] # Absent
      <3>1. m \in Nodes /\ q[m] \in Nodes /\ n \in Nodes /\ Root \notin Nodes /\ Absent \notin Nodes
        BY <2>3 DEF Nodes
      <3>2. CASE m = n
        <4>1. q[m] = p /\ p \in Containers /\ parent[p] # Absent /\ p # n
          BY <1>2, <2>1, <2>3, <3>1, <3>2
        <4> QED
          BY <2>1, <3>1, <4>1
      <3>3. CASE m # n
        <4>1. q[m] = parent[m] /\ parent[q[m]] # Absent
          BY <2>1, <2>3, <3>1, <3>3 DEF Nested
        <4> QED
          BY <1>2, <2>1, <3>1, <4>1
      <3> QED
        BY <3>2, <3>3
    <2> HIDE DEF q
    <2> QED
      BY <2>2, <2>3 DEF Nested
  <1>10. Formed(e)
    <2>1. e.cmds = <<c>> /\ c.op = "add" /\ c.saved = Empty /\ DOMAIN e.cmds = {1} /\ Len(e.cmds) = 1
      BY DEF AddOf
    <2> HIDE DEF e, c
    <2> QED
      BY <2>1 DEF Formed
  <1>11. Strong(r)
    BY <1>3, <1>5, <1>6, <1>7, <1>9, <1>10, StrongGrown
  <1>12. Good(r)
    BY <1>3, <1>6, <1>7, <1>8, <1>11 DEF Good
  <1>13. Pushes(r, e)
    BY <1>1, <1>2, <1>5, <1>6, <1>7, <1>10, <1>12 DEF Pushes, s
  <1> QED
    BY <1>6, <1>13 DEF q

LEMMA RemoveNodePushes ==
  ASSUME Structure, fault = "none", NEW n \in Nodes, RemoveNode(n)
  PROVE  \E r, e : /\ Pushes(r, e) /\ e.cmds = Append(Pulled(State, n), RemoveOf(n, parent[n]))
                   /\ r.parent = Without(parent, Family(State, n))
                   /\ r.conns = conns \ ConnsOf(State, n)
  <1> DEFINE s == State
             l == Pulled(s, n)
             h == Gone(s, n)
             c == RemoveOf(n, parent[n])
             m == Append(l, c)
             g == Pushed(s, m, h.parent)
             e == [cmds |-> m, before |-> s.parent, after |-> h.parent]
             r == [g EXCEPT !.parent = h.parent, !.conns = h.conns]
  <1>1. Good(s) /\ s.parent = parent /\ s.conns = conns /\ s.fault = "none" /\ s.at = 0
        /\ s.uid = nextUid
    BY StateIsGood DEF State
  <1>2. parent[n] # Absent /\ Become(r)
    BY DEF RemoveNode
  <1> HIDE DEF s
  <1>3. Sound(s) /\ Strong(s) /\ Ends(s) /\ s.uid \in 1 .. MaxUid + 1 /\ parent \in Scene
        /\ conns \in SUBSET Conn /\ Nested(parent)
    BY <1>1 DEF Good, Sound, SceneState, Strong
  <1>4. /\ Sound(h) /\ h.parent = Without(parent, Family(s, n))
        /\ h.conns = conns \ ConnsOf(s, n)
    BY <1>1, <1>3, GoneFields
  <1>5. PulledWell(s, n, l)
    BY <1>1, <1>3, PulledList
  <1> HIDE DEF l, h
  <1>6. c \in Command
    <2>1. parent[n] \in Containers \cup {Root, Empty}
      BY <1>2, <1>3 DEF Scene
    <2> QED
      BY <2>1, CommandTypes
  <1>7. l \in Seq(Command) /\ \A i \in 1 .. Len(l) : l[i].op \in {"disconnect", "remove"}
    BY <1>5 DEF PulledWell
  <1>8. /\ m \in Seq(Command) /\ Len(m) = Len(l) + 1 /\ Len(l) \in Nat
        /\ m[Len(l) + 1] = c /\ \A i \in 1 .. Len(l) : m[i] = l[i]
    BY <1>6, <1>7
  <1>9. h.parent \in Scene /\ h.conns \in SUBSET Conn
    BY <1>4 DEF Sound, SceneState
  <1> HIDE DEF m
  <1>10. /\ Sound(g) /\ Grown(s, g, e) /\ e \in Entry
         /\ g.parent = s.parent /\ g.conns = s.conns /\ g.uid = s.uid
    BY <1>3, <1>8, <1>9, PushedFields
  <1> HIDE DEF g
  <1>11. /\ r \in SceneState /\ r.parent = h.parent /\ r.conns = h.conns /\ r.stack = g.stack
         /\ r.index = g.index /\ r.uid = s.uid /\ r.fault = g.fault /\ r.marks = g.marks
         /\ r.at = g.at
    BY <1>9, <1>10 DEF Sound, SceneState
  <1> HIDE DEF r
  <1>12. Sound(r) /\ Grown(s, r, e)
    BY <1>10, <1>11 DEF Sound, Grown
  <1>13. Ends(r)
    BY <1>1, <1>3, <1>4, <1>11, EndsWithout
  <1>14. Nested(r.parent)
    BY <1>1, <1>3, <1>4, <1>11, NestedWithout
  <1>15. Formed(e)
    <2>1. e.cmds = m /\ DOMAIN e.cmds = 1 .. Len(l) + 1
      BY <1>8
    <2>2. Root # Empty
      BY DEF Root, Empty
    <2> HIDE DEF e
    <2>3. ASSUME NEW i \in 1 .. Len(l)
          PROVE  /\ m[i].op \in {"disconnect", "remove"}
                 /\ m[i].op = "remove" => m[i].saved # Empty /\ m[i].node \notin Containers
      <3>1. m[i] = l[i] /\ l[i].op \in {"disconnect", "remove"}
        BY <1>7, <1>8
      <3>2. ASSUME l[i].op = "remove"
            PROVE  l[i].node \in Children(s, n) /\ l[i].saved = n
        BY <1>5, <3>2 DEF PulledWell
      <3>3. ASSUME l[i].op = "remove" PROVE l[i].saved # Empty /\ l[i].node \notin Containers
        <4>1. parent[l[i].node] = n /\ n \in Nodes
          BY <1>1, <3>2, <3>3 DEF Children
        <4> QED
          BY <1>3, <3>2, <3>3, <4>1 DEF Nested
      <3> QED
        BY <3>1, <3>3
    <2>4. c.op = "remove" /\ c.node = n /\ c.saved = parent[n]
      BY DEF RemoveOf
    <2>5. c.saved # Empty /\ (n \in Containers => c.saved = Root)
      <3>1. parent[n] \in Containers \cup {Root} /\ (n \in Containers => parent[n] = Root)
        BY <1>2, <1>3 DEF Scene, Nested
      <3>2. Empty \notin Containers
        BY DEF Nodes
      <3> QED
        BY <2>2, <2>4, <3>1, <3>2
    <2> HIDE DEF c
    <2>6. \A i \in 1 .. Len(l) + 1 : i \in 1 .. Len(l) \/ m[i] = c
      BY <1>8
    <2>7. ASSUME NEW i \in 1 .. Len(l) + 1
          PROVE  /\ m[i].op \in {"disconnect", "remove"}
                 /\ m[i].op = "remove" => m[i].saved # Empty
                 /\ m[i].op = "remove" /\ m[i].node \in Containers => m[i].saved \in {Root, Empty}
      <3>1. CASE i \in 1 .. Len(l)
        BY <2>3, <3>1
      <3>2. CASE m[i] = c
        BY <2>4, <2>5, <3>2
      <3> QED
        BY <2>6, <3>1, <3>2
    <2> QED
      BY <2>1, <2>7 DEF Formed
  <1>16. Strong(r)
    BY <1>3, <1>10, <1>12, <1>14, <1>15, StrongGrown
  <1>17. Good(r)
    BY <1>3, <1>11, <1>12, <1>13, <1>16 DEF Good
  <1>18. Pushes(r, e)
    BY <1>1, <1>2, <1>10, <1>11, <1>12, <1>15, <1>17 DEF Pushes, s
  <1> QED
    BY <1>4, <1>11, <1>18 DEF m, l, s

LEMMA ConnectionPushes ==
  ASSUME Structure, fault = "none", NEW c \in Command, c.op \in {"connect", "disconnect"},
         c.op = "connect" => nextUid <= MaxUid /\ EndsInScene(State, c.conn.wire),
         Become(PushedRun(State, c))
  PROVE  \E r, e : /\ Pushes(r, e) /\ e.cmds = <<c>>
                   /\ r.parent = parent /\ r.conns = ConnsAfter(conns, c)
  <1> DEFINE s == State
             t == PushedRun(s, c)
             e == [cmds |-> <<c>>, before |-> s.parent, after |-> t.parent]
  <1>1. Good(s) /\ s.fault = "none"
    BY StateIsGood DEF State
  <1>2. Become(t) /\ (c.op = "connect" => s.uid <= MaxUid /\ EndsInScene(s, c.conn.wire))
    BY DEF State
  <1> HIDE DEF s
  <1>3. Sound(s) /\ Strong(s) /\ Ends(s) /\ s.uid \in 1 .. MaxUid + 1 /\ Nested(s.parent)
    BY <1>1 DEF Good, Strong
  <1>4. /\ Sound(t) /\ Grown(s, t, e) /\ e \in Entry
        /\ t.parent = ParentAfter(s.parent, c)
        /\ t.conns = ConnsAfter(s.conns, c)
        /\ t.uid = IF c.op = "connect" THEN s.uid + 1 ELSE s.uid
    BY <1>3, PushedRunFields
  <1>5. Formed(e)
    <2>1. e.cmds = <<c>> /\ DOMAIN e.cmds = {1} /\ Len(e.cmds) = 1
      OBVIOUS
    <2> HIDE DEF e
    <2> QED
      BY <2>1 DEF Formed
  <1> HIDE DEF t, e
  <1>6. t.parent = s.parent
    BY <1>4 DEF ParentAfter
  <1>7. Strong(t)
    BY <1>3, <1>4, <1>5, <1>6, StrongGrown
  <1>8. Ends(t)
    <2> SUFFICES ASSUME NEW w \in t.conns PROVE EndsInScene(s, w.wire)
      BY <1>6 DEF Ends, EndsInScene, InScene
    <2>1. w \in s.conns \/ (c.op = "connect" /\ w = c.conn)
      BY <1>4 DEF ConnsAfter
    <2> QED
      BY <1>2, <1>3, <2>1 DEF Ends
  <1>9. t.uid \in 1 .. MaxUid + 1
    BY <1>2, <1>3, <1>4
  <1>10. Good(t)
    BY <1>4, <1>7, <1>8, <1>9 DEF Good
  <1>11. s.parent = parent /\ s.conns = conns
    BY DEF s, State
  <1>12. Pushes(t, e)
    <2>1. e.before = s.parent /\ e.after = t.parent
      BY DEF e
    <2> QED
      BY <1>2, <1>4, <1>5, <1>10, <1>11, <2>1 DEF Pushes, s, e
  <1>13. e.cmds = <<c>>
    BY DEF e
  <1> QED
    BY <1>4, <1>6, <1>11, <1>12, <1>13

LEMMA ConnectPushes ==
  ASSUME Structure, fault = "none", NEW w \in Wires, Connect(w)
  PROVE  \E r, e : /\ Pushes(r, e) /\ e.cmds = <<JoinOf(w, nextUid)>>
                   /\ r.parent = parent /\ r.conns = conns \cup {[wire |-> w, uid |-> nextUid]}
  <1> DEFINE c == JoinOf(w, nextUid)
  <1>1. nextUid <= MaxUid /\ EndsInScene(State, w) /\ Become(PushedRun(State, c))
    BY DEF Connect
  <1>2. c \in Command
    <2>1. [wire |-> w, uid |-> nextUid] \in Conn
      BY <1>1 DEF Structure, TypeOK, Conn
    <2> QED
      BY <2>1, CommandTypes DEF JoinOf
  <1>3. c.op = "connect" /\ c.conn = [wire |-> w, uid |-> nextUid] /\ c.conn.wire = w
    BY DEF JoinOf, ConnectOf
  <1> HIDE DEF c
  <1>4. \E r, e : /\ Pushes(r, e) /\ e.cmds = <<c>>
                  /\ r.parent = parent /\ r.conns = ConnsAfter(conns, c)
    BY <1>1, <1>2, <1>3, ConnectionPushes
  <1>5. ConnsAfter(conns, c) = conns \cup {[wire |-> w, uid |-> nextUid]}
    BY <1>3 DEF ConnsAfter
  <1> QED
    BY <1>4, <1>5 DEF c

LEMMA DisconnectPushes ==
  ASSUME Structure, fault = "none", NEW x \in conns, Disconnect(x)
  PROVE  \E r, e : /\ Pushes(r, e) /\ e.cmds = <<DisconnectOf(x)>>
                   /\ r.parent = parent /\ r.conns = conns \ {x}
  <1> DEFINE c == DisconnectOf(x)
  <1>1. Become(PushedRun(State, c))
    BY DEF Disconnect
  <1>2. c \in Command
    BY CommandTypes DEF Structure, TypeOK
  <1>3. c.op = "disconnect" /\ c.conn = x
    BY DEF DisconnectOf
  <1> HIDE DEF c
  <1>4. \E r, e : /\ Pushes(r, e) /\ e.cmds = <<c>>
                  /\ r.parent = parent /\ r.conns = ConnsAfter(conns, c)
    BY <1>1, <1>2, <1>3, ConnectionPushes
  <1>5. ConnsAfter(conns, c) = conns \ {x}
    BY <1>3 DEF ConnsAfter
  <1> QED
    BY <1>4, <1>5 DEF c

\* A list that adds no node and removes only components whose place is known.
Plain(list) ==
  /\ list \in Seq(Command)
  /\ \A i \in 1 .. Len(list) :
       /\ list[i].op # "add"
       /\ list[i].op = "remove" => list[i].saved # Empty /\ list[i].node \notin Containers

LEMMA PlainOnStack ==
  ASSUME NEW s, Sound(s), NEW list, Plain(list), NEW low \in Nat,
         \A k \in 1 .. Len(s.stack) : Formed(s.stack[k]),
         \A k \in 1 .. Len(s.stack) : k >= low => Saved(s.stack[k])
  PROVE  LET t == PushedAll(s, list)
         IN  /\ Sound(t) /\ Quiet(s, t)
             /\ \A k \in 1 .. Len(t.stack) : Formed(t.stack[k])
             /\ \A k \in 1 .. Len(t.stack) : k >= low => Saved(t.stack[k])
  <1> DEFINE All == {e \in Entry : Formed(e)}
             Late == {e \in Entry : Saved(e)}
             t == PushedAll(s, list)
  <1>1. list \in Seq(Command)
    BY DEF Plain
  <1>2. ASSUME NEW i \in 1 .. Len(list), NEW p \in Scene, NEW q \in Scene
        PROVE  LET e == [cmds |-> <<list[i]>>, before |-> p, after |-> q]
               IN  e \in All /\ e \in Late
    <2> DEFINE c == list[i]
               e == [cmds |-> <<c>>, before |-> p, after |-> q]
    <2>1. c \in Command
      BY <1>1
    <2>2. c.op # "add" /\ (c.op = "remove" => c.saved # Empty /\ c.node \notin Containers)
      BY DEF Plain
    <2> HIDE DEF c
    <2>3. e \in Entry /\ e.cmds = <<c>> /\ DOMAIN e.cmds = {1} /\ Len(e.cmds) = 1
      BY <2>1 DEF Entry
    <2> HIDE DEF e
    <2>4. Formed(e) /\ Saved(e)
      BY <2>2, <2>3 DEF Formed, Saved
    <2> QED
      BY <2>3, <2>4 DEF e, c
  <1>3. \A k \in 1 .. Len(s.stack) : s.stack[k] \in Entry
    BY DEF Sound, SceneState
  <1>4. /\ \A k \in 1 .. Len(s.stack) : k >= 0 => s.stack[k] \in All
        /\ \A k \in 1 .. Len(s.stack) : k >= low => s.stack[k] \in Late
    BY <1>3
  <1>5. /\ \A i \in 1 .. Len(list) : \A p, q \in Scene :
             [cmds |-> <<list[i]>>, before |-> p, after |-> q] \in All
        /\ \A i \in 1 .. Len(list) : \A p, q \in Scene :
             [cmds |-> <<list[i]>>, before |-> p, after |-> q] \in Late
    BY <1>2
  <1> HIDE DEF All, Late, t
  <1>6. /\ Sound(t) /\ Quiet(s, t)
        /\ \A k \in 1 .. Len(t.stack) : k >= 0 => t.stack[k] \in All
    BY <1>1, <1>4, <1>5, ListOnStack DEF t
  <1>7. \A k \in 1 .. Len(t.stack) : k >= low => t.stack[k] \in Late
    BY <1>1, <1>4, <1>5, ListOnStack DEF t
  <1>8. \A k \in 1 .. Len(t.stack) : k >= 0
    OBVIOUS
  <1> QED
    BY <1>6, <1>7, <1>8 DEF All, Late, t

\* What removing a node pushes is such a list.
LEMMA PulledIsPlain ==
  ASSUME NEW s, Sound(s), Nested(s.parent), NEW n \in Nodes
  PROVE  Plain(Pulled(s, n))
  <1> DEFINE l == Pulled(s, n)
  <1>1. s.parent \in Scene /\ s.conns \in SUBSET Conn
    BY DEF Sound, SceneState
  <1>2. PulledWell(s, n, l)
    BY <1>1, PulledList
  <1> HIDE DEF l
  <1>3. ASSUME NEW i \in 1 .. Len(l)
        PROVE  /\ l[i].op # "add"
               /\ l[i].op = "remove" => l[i].saved # Empty /\ l[i].node \notin Containers
    <2>1. \/ l[i].op = "disconnect"
          \/ l[i].op = "remove" /\ l[i].node \in Children(s, n) /\ l[i].saved = n
      BY <1>2 DEF PulledWell
    <2>2. CASE l[i].op = "disconnect"
      BY <2>2
    <2>3. CASE l[i].op = "remove" /\ l[i].node \in Children(s, n) /\ l[i].saved = n
      <3>1. s.parent[l[i].node] = n
        BY <2>3 DEF Children
      <3> QED
        BY <2>3, <3>1 DEF Nested
    <2> QED
      BY <2>1, <2>2, <2>3
  <1> QED
    BY <1>2, <1>3 DEF PulledWell, Plain, l

\* Removing the connections of a node of the scene, one command each.
LEMMA CutKeeps ==
  ASSUME Structure, fault = "none", NEW n \in Nodes, NEW out \in Keyed(ConnsOf(State, n))
  PROVE  LET cs == SetToSeq(out)
             u == Cut(cs)
         IN  /\ cs \in Seq(conns)
             /\ Sound(u) /\ Quiet(State, u) /\ u.uid = nextUid
             /\ u.parent = parent /\ u.conns \subseteq conns
             /\ \A c \in u.conns : c.uid # NullUid => n \notin {c.wire[1], c.wire[2]}
             /\ \A k \in 1 .. Len(u.stack) : Formed(u.stack[k])
             /\ \A k \in 1 .. Len(u.stack) : k >= index + 1 => Saved(u.stack[k])
  <1> DEFINE s == State
             C == ConnsOf(s, n)
             cs == SetToSeq(out)
             list == [i \in DOMAIN cs |-> DisconnectOf(cs[i])]
             u == Cut(cs)
  <1>1. Good(s) /\ s.parent = parent /\ s.conns = conns /\ s.uid = nextUid /\ s.index = index
        /\ s.fault = "none"
    BY StateIsGood DEF State
  <1>2. u = PushedAll(s, list)
    BY Zenon DEF Cut
  <1> HIDE DEF s, u
  <1>3. Sound(s) /\ Strong(s) /\ parent \in Scene /\ conns \in SUBSET Conn /\ index \in Nat
    BY <1>1 DEF Good, Sound, SceneState
  <1>4. /\ out \in SUBSET C /\ C \in SUBSET conns
        /\ \A c \in C : c.uid # NullUid => c \in out
    <2>1. C \in SUBSET conns
      BY <1>1 DEF ConnsOf
    <2> DEFINE phantoms == {c \in C : c.uid = NullUid}
    <2>2. out \in IF phantoms = {} THEN {C} ELSE {(C \ phantoms) \cup {c} : c \in phantoms}
      BY Zenon DEF Keyed, s
    <2> HIDE DEF C
    <2> QED
      BY <2>1, <2>2
  <1>5. \A c \in conns : n \in {c.wire[1], c.wire[2]} => c \in C
    BY <1>1 DEF ConnsOf, Family
  <1> HIDE DEF C
  <1>6. cs \in Seq(out) /\ \A c \in out : \E i \in 1 .. Len(cs) : cs[i] = c
    <2>1. IsFiniteSet(out)
      BY <1>3, <1>4, ConnIsFinite, FS_Subset
    <2> QED
      BY <2>1, InOrder, Zenon
  <1> HIDE DEF cs
  <1>7. cs \in Seq(conns)
    BY <1>4, <1>6
  <1>8. Len(cs) \in Nat /\ DOMAIN cs = 1 .. Len(cs) /\ \A i \in 1 .. Len(cs) : cs[i] \in Conn
    BY <1>3, <1>7
  <1>9. /\ list \in Seq(Command) /\ Len(list) = Len(cs)
        /\ \A i \in 1 .. Len(list) : list[i].op = "disconnect" /\ list[i].conn = cs[i]
    <2>1. \A i \in 1 .. Len(cs) : list[i] \in Command
      BY <1>8, CommandTypes
    <2>2. \A i \in 1 .. Len(cs) : list[i].op = "disconnect" /\ list[i].conn = cs[i]
      BY <1>8 DEF DisconnectOf
    <2> QED
      BY <1>8, <2>1, <2>2
  <1> HIDE DEF list
  <1>10. /\ u.uid = s.uid /\ u.conns = s.conns \ CutBy(list, Len(list))
         /\ u.parent = parent
    <2>1. \A i \in 1 .. Len(list) : list[i].op \in {"remove", "disconnect"}
      BY <1>9
    <2>2. TakenBy(list, Len(list)) = {}
      BY <1>9 DEF TakenBy
    <2>3. /\ u.uid = s.uid /\ u.conns = s.conns \ CutBy(list, Len(list))
          /\ u.parent = Without(s.parent, TakenBy(list, Len(list)))
      BY <1>2, <1>3, <1>9, <2>1, RemovalsOnScene
    <2>4. Without(parent, {}) = parent
      BY <1>3 DEF Without, Scene
    <2> QED
      BY <1>1, <2>2, <2>3, <2>4
  <1>11. ASSUME NEW c \in u.conns, c.uid # NullUid PROVE n \notin {c.wire[1], c.wire[2]}
    <2> SUFFICES ASSUME n \in {c.wire[1], c.wire[2]} PROVE FALSE
      OBVIOUS
    <2>1. c \in conns /\ c \notin CutBy(list, Len(list)) /\ c \in Conn
      BY <1>1, <1>3, <1>10
    <2>2. c \in out
      BY <1>4, <1>5, <1>11, <2>1
    <2>3. PICK i \in 1 .. Len(list) : cs[i] = c
      BY <1>6, <1>9, <2>2
    <2> QED
      BY <1>9, <2>1, <2>3 DEF CutBy
  <1>12. Plain(list)
    BY <1>9 DEF Plain
  <1> DEFINE low == index + 1
  <1>13. /\ low \in Nat
         /\ \A k \in 1 .. Len(s.stack) : Formed(s.stack[k])
         /\ \A k \in 1 .. Len(s.stack) : k >= low => Saved(s.stack[k])
    BY <1>1, <1>3 DEF Strong, Sound, SceneState
  <1> HIDE DEF low
  <1>14. /\ Sound(u) /\ Quiet(s, u)
         /\ \A k \in 1 .. Len(u.stack) : Formed(u.stack[k])
         /\ \A k \in 1 .. Len(u.stack) : k >= low => Saved(u.stack[k])
    BY <1>2, <1>3, <1>12, <1>13, PlainOnStack
  <1> QED
    BY <1>1, <1>7, <1>10, <1>11, <1>14 DEF s, u, cs, low

\* A component gets another parent.
LEMMA RelateKeeps ==
  ASSUME NEW u, Sound(u), Nested(u.parent), NEW n \in Components, NEW p \in Containers,
         u.parent[p] # Absent
  PROVE  LET m == Relate(u, n, p)
         IN  /\ Sound(m) /\ Nested(m.parent) /\ m.conns = u.conns /\ m.stack = u.stack
             /\ m.index = u.index /\ m.uid = u.uid /\ m.fault = u.fault /\ m.at = u.at
             /\ "dragged" \in m.marks
             /\ \A x \in Nodes : u.parent[x] # Absent => m.parent[x] # Absent
  <1> DEFINE q == [u.parent EXCEPT ![n] = p]
             marked == u.marks \cup {"dragged"}
             m == Relate(u, n, p)
  <1>1. u \in SceneState /\ u.parent \in Scene /\ n \in Nodes /\ p \in Nodes /\ n \notin Containers
    BY DEF Sound, SceneState, Nodes
  <1>2. q \in Scene /\ marked \in SUBSET Marks /\ "dragged" \in marked
    BY <1>1 DEF Scene, SceneState, Marks
  <1>3. m = [u EXCEPT !.parent = q, !.marks = marked]
    BY <1>1 DEF Relate, SceneState
  <1>4. \A x \in Nodes : q[x] = IF x = n THEN p ELSE u.parent[x]
    BY <1>1 DEF Scene
  <1> HIDE DEF q, marked, m
  <1>5. /\ m \in SceneState /\ m.parent = q /\ m.marks = marked /\ m.conns = u.conns
        /\ m.stack = u.stack /\ m.index = u.index /\ m.uid = u.uid /\ m.fault = u.fault
        /\ m.at = u.at
    BY <1>1, <1>2, <1>3 DEF SceneState
  <1>6. Sound(m)
    BY <1>5 DEF Sound
  <1>7. Nested(q)
    <2>1. \A k \in Containers : q[k] \in {Root, Absent}
      BY <1>1, <1>4 DEF Nested, Nodes
    <2>2. ASSUME NEW x \in Components, q[x] \in Containers PROVE q[q[x]] # Absent
      <3>1. x \in Nodes /\ q[x] \in Nodes /\ q[x] # n
        BY <1>1, <2>2 DEF Nodes
      <3>2. q[q[x]] = u.parent[q[x]]
        BY <1>4, <3>1
      <3>3. CASE x = n
        BY <1>1, <1>4, <3>2, <3>3
      <3>4. CASE x # n
        BY <1>4, <2>2, <3>1, <3>2, <3>4 DEF Nested
      <3> QED
        BY <3>3, <3>4
    <2> QED
      BY <2>1, <2>2 DEF Nested
  <1>8. \A x \in Nodes : u.parent[x] # Absent => q[x] # Absent
    BY <1>1, <1>4
  <1> QED
    BY <1>2, <1>5, <1>6, <1>7, <1>8 DEF m

LEMMA DragFromMainKeeps ==
  ASSUME Structure, fault = "none", NEW n \in Components, NEW p \in Containers,
         parent[p] # Absent, DragFromMain(n, p)
  PROVE  Structure' /\ "dragged" \in marks'
  <1> DEFINE s == State
             m == Relate(s, n, p)
  <1>1. Good(s) /\ s.fault = "none" /\ s.parent = parent /\ Become(m)
    BY StateIsGood DEF State, DragFromMain
  <1> HIDE DEF s
  <1>2. Sound(s) /\ Strong(s) /\ Ends(s) /\ s.uid \in 1 .. MaxUid + 1 /\ Nested(s.parent)
    BY <1>1 DEF Good, Strong
  <1>3. /\ Sound(m) /\ Nested(m.parent) /\ m.conns = s.conns /\ m.stack = s.stack
        /\ m.index = s.index /\ m.uid = s.uid /\ m.fault = s.fault /\ "dragged" \in m.marks
        /\ \A x \in Nodes : s.parent[x] # Absent => m.parent[x] # Absent
    BY <1>1, <1>2, RelateKeeps
  <1> HIDE DEF m
  <1>4. Ends(m)
    <2> SUFFICES ASSUME NEW c \in s.conns PROVE EndsInScene(m, c.wire)
      BY <1>3 DEF Ends
    <2>1. c.wire[1] \in Nodes /\ c.wire[2] \in Nodes
      BY <1>2 DEF Sound, SceneState, Conn, Wires, Nodes
    <2>2. s.parent[c.wire[1]] # Absent /\ s.parent[c.wire[2]] # Absent
      BY <1>2 DEF Ends, EndsInScene, InScene
    <2> QED
      BY <1>3, <2>1, <2>2 DEF EndsInScene, InScene
  <1>5. Strong(m)
    BY <1>2, <1>3 DEF Strong
  <1>6. Good(m)
    BY <1>2, <1>3, <1>4, <1>5 DEF Good
  <1>7. marks' = m.marks
    BY <1>1 DEF Become, Appears
  <1> QED
    BY <1>1, <1>3, <1>6, <1>7, GoodBecomes

LEMMA DragPastedKeeps ==
  ASSUME Structure, fault = "none", NEW n \in Components, NEW p \in Containers,
         parent[p] # Absent, DragPasted(n, p)
  PROVE  Structure' /\ "dragged" \in marks'
  <1> DEFINE Joins(cs) == [i \in DOMAIN cs |-> JoinOf(cs[i].wire, nextUid + i - 1)]
  <1>1. PICK out \in Keyed(ConnsOf(State, n)) :
          LET cs == SetToSeq(out)
          IN  /\ nextUid + Len(cs) <= MaxUid + 1
              /\ Become(PushedAll(Relate(Cut(cs), n, p), Joins(cs)))
    BY Zenon DEF DragPasted
  <1> DEFINE s == State
             cs == SetToSeq(out)
             cut == Cut(cs)
             moved == Relate(cut, n, p)
             l2 == Joins(cs)
             t == PushedAll(moved, l2)
  <1>2. /\ Good(s) /\ s.parent = parent /\ s.conns = conns /\ s.uid = nextUid
        /\ s.index = index /\ s.fault = "none"
    BY StateIsGood DEF State
  <1>3. nextUid + Len(cs) <= MaxUid + 1 /\ Become(t)
    BY <1>1
  <1>4. n \in Nodes
    BY DEF Nodes
  <1>5. /\ cs \in Seq(conns) /\ Sound(cut) /\ Quiet(s, cut) /\ cut.uid = nextUid
        /\ cut.parent = parent /\ cut.conns \subseteq conns
        /\ \A k \in 1 .. Len(cut.stack) : Formed(cut.stack[k])
        /\ \A k \in 1 .. Len(cut.stack) : k >= index + 1 => Saved(cut.stack[k])
    BY <1>4, CutKeeps
  <1> HIDE DEF s, cs, cut
  <1>6. Sound(s) /\ Strong(s) /\ Ends(s) /\ nextUid \in 1 .. MaxUid + 1 /\ Nested(parent)
        /\ parent \in Scene /\ conns \in SUBSET Conn /\ index \in Nat
    BY <1>2 DEF Good, Strong, Sound, SceneState
  <1>7. Len(cs) \in Nat /\ DOMAIN cs = 1 .. Len(cs)
        /\ \A i \in 1 .. Len(cs) : cs[i] \in conns /\ cs[i] \in Conn
    BY <1>5, <1>6
  <1>8. /\ l2 \in Seq(Command) /\ Len(l2) = Len(cs)
        /\ \A i \in 1 .. Len(cs) : l2[i].op = "connect" /\ l2[i].conn.wire = cs[i].wire
    <2>1. ASSUME NEW i \in 1 .. Len(cs)
          PROVE  l2[i] \in Command /\ l2[i].op = "connect" /\ l2[i].conn.wire = cs[i].wire
      <3> DEFINE x == [wire |-> cs[i].wire, uid |-> nextUid + i - 1]
      <3>1. nextUid + i - 1 \in 0 .. MaxUid
        BY <1>3, <1>6, <1>7
      <3>2. cs[i].wire \in Wires
        BY <1>7 DEF Conn
      <3>3. x \in Conn
        BY <3>1, <3>2 DEF Conn
      <3>4. l2[i] = ConnectOf(x)
        BY <1>7 DEF JoinOf
      <3>5. ConnectOf(x) \in Command
        BY <3>3, CommandTypes
      <3>6. ConnectOf(x).op = "connect" /\ ConnectOf(x).conn.wire = cs[i].wire
        BY DEF ConnectOf
      <3> QED
        BY <3>4, <3>5, <3>6
    <2> HIDE DEF l2
    <2>2. \A i \in 1 .. Len(cs) : l2[i] \in Command
      BY <2>1
    <2>3. l2 \in Seq(Command) /\ Len(l2) = Len(cs)
      BY <1>7, <2>2 DEF l2
    <2> QED
      BY <2>1, <2>3
  <1> HIDE DEF l2
  <1>9. Plain(l2)
    BY <1>8 DEF Plain
  <1>10. /\ Sound(moved) /\ Nested(moved.parent) /\ moved.conns = cut.conns
         /\ moved.stack = cut.stack /\ moved.index = cut.index /\ moved.uid = cut.uid
         /\ "dragged" \in moved.marks
         /\ \A x \in Nodes : parent[x] # Absent => moved.parent[x] # Absent
    BY <1>5, <1>6, RelateKeeps
  <1> HIDE DEF moved
  <1> DEFINE low == index + 1
  <1>11. low \in Nat /\ \A k \in 1 .. Len(moved.stack) : k >= low => Saved(moved.stack[k])
    BY <1>5, <1>6, <1>10
  <1> HIDE DEF low
  <1>12. /\ Sound(t) /\ Quiet(moved, t)
         /\ \A k \in 1 .. Len(t.stack) : Formed(t.stack[k])
         /\ \A k \in 1 .. Len(t.stack) : k >= low => Saved(t.stack[k])
    BY <1>5, <1>9, <1>10, <1>11, PlainOnStack
  <1>13. /\ t.uid = moved.uid + Len(l2) /\ t.parent = moved.parent
         /\ t.conns = moved.conns \cup MadeBy(l2, Len(l2))
    <2>1. \A i \in 1 .. Len(l2) : l2[i].op = "connect"
      BY <1>8
    <2> QED
      BY <1>8, <1>10, <2>1, JoinsOnScene
  <1> HIDE DEF t
  <1>14. Ends(t)
    <2> SUFFICES ASSUME NEW c \in t.conns PROVE EndsInScene(t, c.wire)
      BY DEF Ends
    <2>1. PICK x \in conns : c.wire = x.wire
      <3>1. CASE c \in conns
        BY <3>1
      <3>2. CASE c \notin conns
        <4>1. c \in MadeBy(l2, Len(l2))
          BY <1>5, <1>10, <1>13, <3>2
        <4>2. PICK j \in 1 .. Len(l2) : l2[j].conn = c
          BY <4>1 DEF MadeBy
        <4> QED
          BY <1>7, <1>8, <4>2
      <3> QED
        BY <3>1, <3>2
    <2>2. x.wire[1] \in Nodes /\ x.wire[2] \in Nodes
      BY <1>6 DEF Conn, Wires, Nodes
    <2>3. parent[x.wire[1]] # Absent /\ parent[x.wire[2]] # Absent
      BY <1>2, <1>6 DEF Ends, EndsInScene, InScene
    <2> QED
      BY <1>10, <1>13, <2>1, <2>2, <2>3 DEF EndsInScene, InScene
  <1>15. Strong(t)
    <2>1. s.index <= t.index /\ s.index \in Nat /\ t.index \in Nat
      <3>1. s.index <= cut.index /\ cut.index <= t.index
        BY <1>5, <1>10, <1>12, Zenon DEF Quiet
      <3>2. s.index \in Nat /\ cut.index \in Nat /\ t.index \in Nat
        BY <1>5, <1>6, <1>12 DEF Sound, SceneState
      <3> QED
        BY <3>1, <3>2
    <2>2. \A k \in 1 .. Len(t.stack) : k > t.index => k >= low
      BY <1>2, <2>1 DEF low
    <2> QED
      BY <1>10, <1>12, <1>13, <2>2 DEF Strong
  <1>16. t.uid \in 1 .. MaxUid + 1
    BY <1>3, <1>5, <1>6, <1>7, <1>8, <1>10, <1>13
  <1>17. Good(t)
    BY <1>12, <1>14, <1>15, <1>16 DEF Good
  <1>18. "dragged" \in t.marks
    BY <1>10, <1>12 DEF Quiet
  <1>19. marks' = t.marks
    BY <1>3 DEF Become, Appears
  <1> QED
    BY <1>3, <1>17, <1>18, <1>19, GoodBecomes

LEMMA DragRefusedKeeps ==
  ASSUME Structure, fault = "none", NEW n \in Components, DragRefused(n)
  PROVE  Structure'
  <1>1. PICK out \in Keyed(ConnsOf(State, n)) : Appears(Cut(SetToSeq(out)), hidden \cup {n})
    BY Zenon DEF DragRefused
  <1> DEFINE s == State
             u == Cut(SetToSeq(out))
  <1>2. /\ Good(s) /\ s.parent = parent /\ s.conns = conns /\ s.index = index
        /\ s.uid = nextUid /\ s.fault = "none"
    BY StateIsGood DEF State
  <1>3. n \in Nodes
    BY DEF Nodes
  <1>4. /\ Sound(u) /\ Quiet(s, u) /\ u.uid = nextUid
        /\ u.parent = parent /\ u.conns \subseteq conns
        /\ \A c \in u.conns : c.uid # NullUid => n \notin {c.wire[1], c.wire[2]}
        /\ \A k \in 1 .. Len(u.stack) : Formed(u.stack[k])
        /\ \A k \in 1 .. Len(u.stack) : k >= index + 1 => Saved(u.stack[k])
    BY <1>3, CutKeeps
  <1>5. Appears(u, hidden \cup {n})
    BY <1>1
  <1> HIDE DEF s, u
  <1>6. Sound(s) /\ Strong(s) /\ Ends(s) /\ s.uid \in 1 .. MaxUid + 1 /\ index \in Nat
    BY <1>2 DEF Good, Sound, SceneState
  <1>7. Ends(u)
    BY <1>2, <1>4, <1>6 DEF Ends, EndsInScene, InScene
  <1>8. Strong(u)
    <2>1. index <= u.index /\ u.index \in Nat
      BY <1>2, <1>4 DEF Quiet, Sound, SceneState
    <2>2. \A k \in 1 .. Len(u.stack) : k > u.index => k >= index + 1
      BY <1>6, <2>1
    <2>3. Nested(u.parent)
      BY <1>2, <1>4, <1>6 DEF Strong
    <2> QED
      BY <1>4, <2>2, <2>3 DEF Strong
  <1>9. Good(u)
    BY <1>2, <1>4, <1>6, <1>7, <1>8 DEF Good
  <1>10. hidden \cup {n} \in SUBSET Components
    BY DEF Structure, TypeOK
  <1>11. \A c \in u.conns : c.uid # NullUid =>
           {c.wire[1], c.wire[2]} \cap ((hidden \cup {n}) \ hidden) = {}
    BY <1>4
  <1> QED
    BY <1>5, <1>9, <1>10, <1>11, GoodAppears

LEMMA DragHiddenKeeps ==
  ASSUME Structure, fault = "none", NEW n \in hidden, DragHidden
  PROVE  Structure'
  <1>1. fault' = "no item" /\ UNCHANGED <<parent, conns, stack, index, hidden, nextUid, marks>>
    BY DEF DragHidden
  <1>2. TypeOK'
    BY <1>1 DEF Structure, TypeOK, Faults
  <1>3. EndsThere'
    BY <1>1 DEF Structure, EndsThere, EndsInScene, InScene, State
  <1>4. ItemsThere'
    BY <1>1 DEF ItemsThere
  <1> QED
    BY <1>1, <1>2, <1>3, <1>4 DEF Structure

\* The four ends of a drag.
LEMMA DragEnds ==
  ASSUME NEW n \in Components, NEW p \in Containers, Drag(n, p)
  PROVE  /\ parent[p] # Absent
         /\ \/ DragFromMain(n, p)
            \/ DragPasted(n, p)
            \/ DragRefused(n)
            \/ n \in hidden /\ DragHidden
  BY Zenon DEF Drag

LEMMA DragKeeps ==
  ASSUME Structure, fault = "none", NEW n \in Components, NEW p \in Containers, Drag(n, p)
  PROVE  Structure'
  BY DragEnds, DragFromMainKeeps, DragPastedKeeps, DragRefusedKeeps, DragHiddenKeeps

LEMMA ClearKeeps ==
  ASSUME Structure, fault = "none", Clear
  PROVE  Structure'
  <1>1. TypeOK'
    BY DEF Structure, Clear, TypeOK, Scene
  <1>2. EndsThere' /\ ItemsThere'
    BY DEF Clear, EndsThere, ItemsThere
  <1>3. WellFormed'
    BY DEF Clear, WellFormed, Nested, Nodes
  <1> QED
    BY <1>1, <1>2, <1>3 DEF Structure

----------------------------------------------------------------------------
(* The single commands, undone and redone *)

\* Where a node comes back.
Place(s, c) == IF c.saved = Root \/ InScene(s, c.saved) THEN c.saved ELSE Root

LEMMA PutBackFields ==
  ASSUME NEW s, Sound(s), NEW c \in Command, c.op \in {"add", "remove"}, c.saved # Empty,
         c.node \in Containers => c.saved \in {Root, Empty}
  PROVE  LET t == PutBack(s, c)
         IN  /\ Sound(t)
             /\ t.parent = [s.parent EXCEPT ![c.node] = Place(s, c)]
             /\ Place(s, c) # Absent
             /\ t.conns = s.conns /\ t.stack = s.stack /\ t.index = s.index /\ t.uid = s.uid
             /\ t.fault = s.fault /\ t.marks = s.marks /\ t.at = s.at
             /\ Ends(s) => Ends(t)
             /\ Nested(s.parent) /\ s.parent[c.node] = Absent => Nested(t.parent)
  <1> DEFINE t == PutBack(s, c)
             v == Place(s, c)
             p == s.parent
             q == [p EXCEPT ![c.node] = v]
  <1>1. s \in SceneState /\ p \in Scene /\ s.conns \in SUBSET Conn
    BY DEF Sound, SceneState
  <1>2. /\ c.node \in Nodes /\ c.saved \in Containers \cup {Root}
        /\ (c.node \in Containers => c.saved = Root)
    BY DEF Command
  <1>3. v \in Containers \cup {Root} /\ v # Absent /\ (c.node \in Containers => v = Root)
        /\ (v \in Containers => p[v] # Absent)
    <2>1. Root \notin Containers /\ Absent \notin Containers /\ Root # Absent
      BY DEF Nodes, Root, Absent
    <2> QED
      BY <1>2, <2>1 DEF Place, InScene
  <1>4. t = [s EXCEPT !.parent = q]
    <2>1. t = [s EXCEPT !.parent[c.node] = v]
      BY Zenon DEF PutBack, Place
    <2> HIDE DEF v, t
    <2> QED
      BY <1>1, <2>1 DEF SceneState
  <1> HIDE DEF v, t
  <1>5. q \in Scene /\ \A m \in Nodes : q[m] = IF m = c.node THEN v ELSE p[m]
    BY <1>1, <1>2, <1>3 DEF Scene
  <1> HIDE DEF q
  <1>6. /\ t \in SceneState /\ t.parent = q
        /\ t.conns = s.conns /\ t.stack = s.stack /\ t.index = s.index /\ t.uid = s.uid
        /\ t.fault = s.fault /\ t.marks = s.marks /\ t.at = s.at
    BY <1>1, <1>4, <1>5 DEF SceneState
  <1>7. Sound(t)
    BY <1>6 DEF Sound
  <1>8. ASSUME Ends(s) PROVE Ends(t)
    <2> SUFFICES ASSUME NEW w \in s.conns PROVE EndsInScene(t, w.wire)
      BY <1>6 DEF Ends
    <2>1. w.wire[1] \in Nodes /\ w.wire[2] \in Nodes
      BY <1>1 DEF Conn, Wires, Nodes
    <2>2. p[w.wire[1]] # Absent /\ p[w.wire[2]] # Absent
      BY <1>8 DEF Ends, EndsInScene, InScene
    <2>3. q[w.wire[1]] # Absent /\ q[w.wire[2]] # Absent
      BY <1>3, <1>5, <2>1, <2>2
    <2> QED
      BY <1>6, <2>3 DEF EndsInScene, InScene
  <1>9. ASSUME Nested(p), p[c.node] = Absent PROVE Nested(q)
    <2>1. \A k \in Containers : q[k] \in {Root, Absent}
      BY <1>3, <1>5, <1>9 DEF Nested, Nodes
    <2>2. ASSUME NEW m \in Components, q[m] \in Containers PROVE q[q[m]] # Absent
      <3>1. m \in Nodes /\ q[m] \in Nodes
        BY <2>2 DEF Nodes
      <3>2. p[q[m]] # Absent
        <4>1. CASE m = c.node
          BY <1>3, <1>5, <2>2, <3>1, <4>1
        <4>2. CASE m # c.node
          BY <1>5, <1>9, <2>2, <3>1, <4>2 DEF Nested
        <4> QED
          BY <4>1, <4>2
      <3> QED
        BY <1>3, <1>5, <3>1, <3>2
    <2> QED
      BY <2>1, <2>2 DEF Nested
  <1> QED
    BY <1>3, <1>6, <1>7, <1>8, <1>9, Zenon DEF t, v, q, p

\* A node's place is saved in the command.
Keeps(s, i) ==
  /\ s.at \in 1 .. Len(s.stack) /\ i \in 1 .. Len(s.stack[s.at].cmds)
  /\ s.stack[s.at].cmds[i].op \in {"add", "remove"}

\* t is s with x as the place in command i.
SavesPlace(s, t, i, x) ==
  LET e == s.stack[s.at]
      f == t.stack[s.at]
  IN  /\ Sound(t)
      /\ t.parent = s.parent /\ t.conns = s.conns /\ t.index = s.index /\ t.uid = s.uid
      /\ t.fault = s.fault /\ t.marks = s.marks /\ t.at = s.at
      /\ Len(t.stack) = Len(s.stack)
      /\ \A k \in 1 .. Len(s.stack) : k # s.at => t.stack[k] = s.stack[k]
      /\ f \in Entry /\ f.before = e.before /\ f.after = e.after
      /\ Len(f.cmds) = Len(e.cmds)
      /\ \A j \in 1 .. Len(e.cmds) : j # i => f.cmds[j] = e.cmds[j]
      /\ f.cmds[i].op = e.cmds[i].op /\ f.cmds[i].node = e.cmds[i].node
      /\ f.cmds[i].saved = x

LEMMA SaveFields ==
  ASSUME NEW s, Sound(s), NEW i, Keeps(s, i), NEW x \in Containers \cup {Root}
  PROVE  SavesPlace(s, Save(s, i, x), i, x)
  <1> DEFINE t == Save(s, i, x)
             e == s.stack[s.at]
             c == e.cmds[i]
             c2 == [c EXCEPT !.saved = x]
             l2 == [e.cmds EXCEPT ![i] = c2]
             e2 == [e EXCEPT !.cmds = l2]
             k2 == [s.stack EXCEPT ![s.at] = e2]
  <1>0. /\ s.at \in 1 .. Len(s.stack) /\ i \in 1 .. Len(e.cmds)
        /\ c.op \in {"add", "remove"}
    BY DEF Keeps
  <1>1. s \in SceneState /\ s.stack \in Seq(Entry) /\ Len(s.stack) \in Nat /\ e \in Entry
    BY <1>0 DEF Sound, SceneState
  <1>2. e.cmds \in Seq(Command) /\ Len(e.cmds) \in Nat /\ c \in Command
    BY <1>0, <1>1 DEF Entry
  <1>3. t = [s EXCEPT !.stack = k2]
    BY <1>1, Zenon DEF Save
  <1> HIDE DEF c
  <1>4. c2 \in Command /\ c2.op = c.op /\ c2.node = c.node /\ c2.saved = x
    BY <1>0, <1>2 DEF Command, c
  <1> HIDE DEF c2
  <1>5. l2 \in Seq(Command) /\ Len(l2) = Len(e.cmds) /\ l2[i] = c2
        /\ \A j \in 1 .. Len(e.cmds) : j # i => l2[j] = e.cmds[j]
    BY <1>0, <1>2, <1>4
  <1> HIDE DEF l2
  <1>6. e2 \in Entry /\ e2.cmds = l2 /\ e2.before = e.before /\ e2.after = e.after
    BY <1>1, <1>5 DEF Entry
  <1> HIDE DEF e2
  <1>7. k2 \in Seq(Entry) /\ Len(k2) = Len(s.stack) /\ k2[s.at] = e2
        /\ \A k \in 1 .. Len(s.stack) : k # s.at => k2[k] = s.stack[k]
    BY <1>0, <1>1, <1>6
  <1> HIDE DEF k2, t
  <1>8. /\ t \in SceneState /\ t.stack = k2
        /\ t.parent = s.parent /\ t.conns = s.conns /\ t.index = s.index /\ t.uid = s.uid
        /\ t.fault = s.fault /\ t.marks = s.marks /\ t.at = s.at
    BY <1>1, <1>3, <1>7 DEF SceneState
  <1>9. Sound(t)
    BY <1>7, <1>8 DEF Sound
  <1>10. t.stack[s.at] = e2 /\ e2.cmds[i] = c2
    BY <1>5, <1>6, <1>7, <1>8
  <1>11. /\ Len(t.stack) = Len(s.stack)
         /\ \A k \in 1 .. Len(s.stack) : k # s.at => t.stack[k] = s.stack[k]
    BY <1>7, <1>8
  <1>12. /\ Len(e2.cmds) = Len(e.cmds)
         /\ \A j \in 1 .. Len(e.cmds) : j # i => e2.cmds[j] = e.cmds[j]
    BY <1>5, <1>6
  <1>13. c = e.cmds[i]
    BY DEF c
  <1> HIDE DEF e
  <1> QED
    BY <1>4, <1>6, <1>8, <1>9, <1>10, <1>11, <1>12, <1>13, Zenon DEF SavesPlace, t, e

\* t differs from s in connections, fault and marks only.
SameStack(s, t) == t.stack = s.stack /\ t.index = s.index /\ t.at = s.at

LEMMA FaultFields ==
  ASSUME NEW s, Sound(s), NEW f \in Failures
  PROVE  LET t == [s EXCEPT !.fault = f]
         IN  /\ Sound(t) /\ SameStack(s, t) /\ t.parent = s.parent /\ t.conns = s.conns
             /\ t.uid = s.uid /\ t.fault = f /\ t.marks = s.marks /\ (Ends(s) => Ends(t))
  <1> DEFINE t == [s EXCEPT !.fault = f]
  <1>1. s \in SceneState
    BY DEF Sound
  <1>2. /\ t \in SceneState /\ t.stack = s.stack /\ t.index = s.index /\ t.at = s.at
        /\ t.parent = s.parent /\ t.conns = s.conns
        /\ t.uid = s.uid /\ t.fault = f /\ t.marks = s.marks
    BY <1>1 DEF SceneState
  <1> HIDE DEF t
  <1>3. Sound(t)
    BY <1>2 DEF Sound
  <1>4. Ends(s) => Ends(t)
    BY <1>2 DEF Ends, EndsInScene, InScene
  <1> QED
    BY <1>2, <1>3, <1>4, Zenon DEF SameStack, t

LEMMA DisconnectedFields ==
  ASSUME NEW s, Sound(s), NEW c \in Conn
  PROVE  LET t == Disconnected(s, c)
         IN  /\ Sound(t) /\ SameStack(s, t) /\ t.parent = s.parent /\ t.uid = s.uid
             /\ t.marks = s.marks /\ t.conns \subseteq s.conns /\ (Ends(s) => Ends(t))
             /\ EndsInScene(s, c.wire) => t.fault = s.fault /\ t.conns = s.conns \ {c}
             /\ ~EndsInScene(s, c.wire) => t.fault = "assertion"
  <1> DEFINE t == Disconnected(s, c)
  <1>1. CASE EndsInScene(s, c.wire)
    <2> DEFINE C == s.conns \ {c}
    <2>1. s \in SceneState /\ C \in SUBSET Conn /\ C \subseteq s.conns
      BY DEF Sound, SceneState
    <2>2. t = [s EXCEPT !.conns = C]
      BY <1>1, Zenon DEF Disconnected
    <2> HIDE DEF t, C
    <2>3. /\ t \in SceneState /\ t.stack = s.stack /\ t.index = s.index /\ t.at = s.at
          /\ t.parent = s.parent /\ t.conns = C
          /\ t.uid = s.uid /\ t.fault = s.fault /\ t.marks = s.marks
      BY <2>1, <2>2 DEF SceneState
    <2>4. Sound(t)
      BY <2>3 DEF Sound
    <2>5. Ends(s) => Ends(t)
      BY <2>1, <2>3 DEF Ends, EndsInScene, InScene
    <2> QED
      BY <1>1, <2>1, <2>3, <2>4, <2>5 DEF SameStack, t, C
  <1>2. CASE ~EndsInScene(s, c.wire)
    <2>1. t = [s EXCEPT !.fault = "assertion"]
      BY <1>2, Zenon DEF Disconnected
    <2>2. "assertion" \in Failures
      BY DEF Faults, Failures
    <2> HIDE DEF t
    <2>3. /\ Sound(t) /\ SameStack(s, t) /\ t.parent = s.parent /\ t.conns = s.conns
          /\ t.uid = s.uid /\ t.fault = "assertion" /\ t.marks = s.marks /\ (Ends(s) => Ends(t))
      BY <2>1, <2>2, FaultFields
    <2> QED
      BY <1>2, <2>3 DEF t
  <1> QED
    BY <1>1, <1>2

LEMMA UndoDisconnectFields ==
  ASSUME NEW s, Sound(s), NEW c \in Command, c.op = "disconnect"
  PROVE  LET t == UndoDisconnect(s, c)
         IN  /\ Sound(t) /\ SameStack(s, t) /\ t.parent = s.parent /\ t.uid = s.uid
             /\ t.fault = s.fault /\ (Ends(s) => Ends(t))
             /\ t = s \/ t.marks = s.marks \cup {"phantom"}
  <1> DEFINE t == UndoDisconnect(s, c)
             new == [wire |-> c.conn.wire, uid |-> NullUid]
  <1> DEFINE stays == c.conn.uid = NullUid \/ ZeroRefused \/ ~EndsInScene(s, c.conn.wire)
  <1>1. CASE stays
    <2>1. t = s
      BY <1>1, Zenon DEF UndoDisconnect
    <2> QED
      BY <2>1 DEF SameStack
  <1>2. CASE ~stays
    <2> DEFINE C == s.conns \cup {new}
               M == s.marks \cup {"phantom"}
    <2>1. new \in Conn /\ new.wire = c.conn.wire
      BY DEF Command, Conn, NullUid
    <2>2. t = [s EXCEPT !.conns = C, !.marks = M]
      BY <1>2, Zenon DEF UndoDisconnect
    <2> HIDE DEF t, new
    <2>3. s \in SceneState /\ C \in SUBSET Conn /\ M \in SUBSET Marks
      BY <2>1 DEF Sound, SceneState, Marks
    <2>4. Ends(s) => \A w \in C : EndsInScene(s, w.wire)
      BY <1>2, <2>1 DEF Ends
    <2> HIDE DEF C, M
    <2>5. /\ t \in SceneState /\ t.stack = s.stack /\ t.index = s.index /\ t.at = s.at
          /\ t.parent = s.parent /\ t.conns = C
          /\ t.uid = s.uid /\ t.fault = s.fault /\ t.marks = M
      BY <2>2, <2>3 DEF SceneState
    <2>6. Sound(t)
      BY <2>5 DEF Sound
    <2>7. Ends(s) => Ends(t)
      BY <2>4, <2>5 DEF Ends, EndsInScene, InScene
    <2> QED
      BY <2>5, <2>6, <2>7 DEF SameStack, t, M
  <1> QED
    BY <1>1, <1>2

\* A command of an entry that adds no node, undone: the stack stays as it is.
Steady(s, x) ==
  /\ Sound(x) /\ SameStack(s, x) /\ x.uid = s.uid /\ Ends(x)
  /\ x.fault = "none" => Nested(x.parent)
  /\ s.marks \subseteq x.marks

LEMMA UndoStepSteady ==
  ASSUME NEW s, NEW x, Steady(s, x), NEW i,
         s.at \in 1 .. Len(s.stack), i \in 1 .. Len(s.stack[s.at].cmds),
         Formed(s.stack[s.at]), s.stack[s.at] \in Entry,
         s.stack[s.at].cmds[i].op # "add"
  PROVE  Steady(s, UndoStep(x, i))
  <1> DEFINE e == s.stack[s.at]
             c == e.cmds[i]
             t == UndoStep(x, i)
  <1>1. Sound(x) /\ SameStack(s, x) /\ x.uid = s.uid /\ Ends(x) /\ s.marks \subseteq x.marks
    BY DEF Steady
  <1>2. x.stack[x.at].cmds[i] = c
    BY <1>1 DEF SameStack
  <1>3. c \in Command /\ i \in DOMAIN e.cmds
    BY DEF Entry
  <1>4. /\ c.op = "remove" => c.saved # Empty
        /\ c.op = "remove" /\ c.node \in Containers => c.saved \in {Root, Empty}
    BY <1>3 DEF Formed
  <1>5. c.op \in {"remove", "connect", "disconnect"}
    BY <1>3 DEF Command
  <1> HIDE DEF c, e
  <1>6. CASE x.fault # "none"
    <2>1. t = x
      BY <1>6, Zenon DEF UndoStep
    <2> QED
      BY <2>1
  <1>7. CASE x.fault = "none" /\ c.op = "remove"
    <2>1. t = UndoRemove(x, c)
      BY <1>2, <1>7 DEF UndoStep
    <2>2. CASE InScene(x, c.node)
      BY <2>1, <2>2 DEF UndoRemove
    <2>3. CASE ~InScene(x, c.node)
      <3>1. t = PutBack(x, c)
        BY <2>1, <2>3 DEF UndoRemove
      <3>2. x.parent[c.node] = Absent /\ Nested(x.parent)
        BY <1>7, <2>3 DEF InScene, Steady
      <3> HIDE DEF t
      <3>3. /\ Sound(t) /\ t.stack = x.stack /\ t.index = x.index /\ t.uid = x.uid /\ t.at = x.at
            /\ t.marks = x.marks /\ (Ends(x) => Ends(t))
            /\ Nested(x.parent) /\ x.parent[c.node] = Absent => Nested(t.parent)
        BY <1>1, <1>3, <1>4, <1>7, <3>1, PutBackFields
      <3>4. SameStack(s, t)
        BY <1>1, <3>3 DEF SameStack
      <3> QED
        BY <1>1, <3>2, <3>3, <3>4, Zenon DEF Steady, t
    <2> QED
      BY <2>2, <2>3
  <1>8. CASE x.fault = "none" /\ c.op = "connect"
    <2>1. t = Disconnected(x, c.conn) /\ c.conn \in Conn
      BY <1>2, <1>3, <1>8 DEF UndoStep, UndoConnect, Command
    <2> HIDE DEF t
    <2>2. /\ Sound(t) /\ SameStack(x, t) /\ t.parent = x.parent /\ t.uid = x.uid
          /\ t.marks = x.marks /\ (Ends(x) => Ends(t))
      BY <1>1, <2>1, DisconnectedFields
    <2>3. SameStack(s, t)
      BY <1>1, <2>2 DEF SameStack
    <2> QED
      BY <1>1, <1>8, <2>2, <2>3, Zenon DEF Steady, t
  <1>9. CASE x.fault = "none" /\ c.op = "disconnect"
    <2>1. t = UndoDisconnect(x, c)
      BY <1>2, <1>3, <1>9 DEF UndoStep
    <2> HIDE DEF t
    <2>2. /\ Sound(t) /\ SameStack(x, t) /\ t.parent = x.parent /\ t.uid = x.uid
          /\ (Ends(x) => Ends(t)) /\ (t = x \/ t.marks = x.marks \cup {"phantom"})
      BY <1>1, <1>3, <1>9, <2>1, UndoDisconnectFields
    <2>3. SameStack(s, t) /\ s.marks \subseteq t.marks
      BY <1>1, <2>2 DEF SameStack
    <2> QED
      BY <1>1, <1>9, <2>2, <2>3, Zenon DEF Steady, t
  <1> QED
    BY <1>5, <1>6, <1>7, <1>8, <1>9

\* The addition of a node, undone: the one command that pushes others.
UndoesAdd(s) ==
  /\ Good(s) /\ s.fault = "none" /\ s.at \in 1 .. Len(s.stack) /\ s.at = s.index
  /\ Len(s.stack[s.at].cmds) = 1 /\ s.stack[s.at].cmds[1].op = "add"

LEMMA UndoAddFields ==
  ASSUME NEW s, UndoesAdd(s)
  PROVE  LET c == s.stack[s.at].cmds[1]
             t == UndoAdd(s, 1, c)
         IN  /\ Sound(t) /\ t.uid = s.uid /\ Ends(t) /\ s.index <= t.index
             /\ s.marks \subseteq t.marks
             /\ t.fault = "node missing" => ~InScene(s, c.node)
             /\ t.fault \in {"none", "node missing", "command deleted"}
             /\ t.fault = "command deleted" => "shifted" \in t.marks
             /\ t.fault = "none" =>
                  /\ Nested(t.parent)
                  /\ \A k \in 1 .. Len(t.stack) : Formed(t.stack[k])
                  /\ \A k \in 1 .. Len(t.stack) : k >= s.at => Saved(t.stack[k])
  <1> DEFINE e == s.stack[s.at]
             c == e.cmds[1]
             t == UndoAdd(s, 1, c)
  <1>1. Sound(s) /\ Ends(s) /\ Strong(s) /\ Nested(s.parent) /\ s.fault = "none"
    BY DEF UndoesAdd, Good, Strong
  <1>2. /\ e \in Entry /\ e.cmds \in Seq(Command) /\ c \in Command /\ 1 \in 1 .. Len(e.cmds)
        /\ DOMAIN e.cmds = {1} /\ Formed(e) /\ s.index \in Nat /\ s.parent \in Scene
        /\ s.conns \in SUBSET Conn
    <2>1. /\ s.index \in Nat /\ s.parent \in Scene /\ s.conns \in SUBSET Conn
          /\ s.stack \in Seq(Entry) /\ s.at \in 1 .. Len(s.stack)
      BY <1>1 DEF UndoesAdd, Sound, SceneState
    <2>2. e \in Entry /\ Formed(e)
      BY <1>1, <2>1 DEF Strong
    <2> HIDE DEF e
    <2>3. e.cmds \in Seq(Command) /\ Len(e.cmds) = 1
      BY <2>2 DEF Entry, UndoesAdd, e
    <2>4. DOMAIN e.cmds = {1} /\ 1 \in 1 .. Len(e.cmds) /\ c \in Command
      BY <2>3
    <2> QED
      BY <2>1, <2>2, <2>3, <2>4
  <1>3. c.node \in Nodes /\ (c.node \in Containers => c.saved \in {Root, Empty})
    BY <1>2 DEF Formed, Command, UndoesAdd
  <1>6. Len(e.cmds) = 1 /\ c.op = "add" /\ s.at \in 1 .. Len(s.stack)
    BY DEF UndoesAdd
  <1>4. CASE ~InScene(s, c.node)
    <2>1. t = [s EXCEPT !.fault = "node missing"]
      BY <1>4, Zenon DEF UndoAdd
    <2>2. "node missing" \in Failures
      BY DEF Faults, Failures
    <2> HIDE DEF t
    <2>3. /\ Sound(t) /\ SameStack(s, t) /\ t.uid = s.uid /\ t.fault = "node missing"
          /\ t.marks = s.marks /\ Ends(t)
      BY <1>1, <2>1, <2>2, FaultFields
    <2>4. s.index <= t.index
      <3>1. s.index \in Nat
        BY <1>2
      <3>2. t.index = s.index
        BY <2>3, Zenon DEF SameStack
      <3> QED
        BY <3>1, <3>2
    <2> QED
      BY <1>4, <2>3, <2>4 DEF t
  <1>5. CASE InScene(s, c.node)
    <2> DEFINE b == IF c.saved = Empty THEN Save(s, 1, s.parent[c.node]) ELSE s
               u == PushedAll(b, Pulled(b, c.node))
    <2>1. t = Gone(u, c.node)
      BY <1>5, Zenon DEF UndoAdd
    <2>2. s.parent[c.node] \in Containers \cup {Root}
          /\ (c.node \in Containers => s.parent[c.node] = Root)
      BY <1>1, <1>2, <1>3, <1>5 DEF InScene, Scene, Nested
    <2>3. Empty \notin Containers /\ Empty # Root
      BY DEF Nodes, Empty, Root
    <2>4. /\ Sound(b) /\ b.parent = s.parent /\ b.conns = s.conns /\ b.index = s.index
          /\ b.uid = s.uid /\ b.fault = "none" /\ b.marks = s.marks
          /\ Len(b.stack) = Len(s.stack)
          /\ \A k \in 1 .. Len(s.stack) : Formed(b.stack[k])
          /\ \A k \in 1 .. Len(s.stack) : k >= s.at => Saved(b.stack[k])
      <3>1. CASE c.saved = Empty
        <4> DEFINE f == b.stack[s.at]
        <4>1. b = Save(s, 1, s.parent[c.node])
          BY <3>1
        <4> HIDE DEF b
        <4>2. /\ Sound(b) /\ b.parent = s.parent /\ b.conns = s.conns /\ b.index = s.index
              /\ b.uid = s.uid /\ b.fault = s.fault /\ b.marks = s.marks
              /\ Len(b.stack) = Len(s.stack)
              /\ \A k \in 1 .. Len(s.stack) : k # s.at => b.stack[k] = s.stack[k]
              /\ f \in Entry /\ Len(f.cmds) = Len(e.cmds)
              /\ f.cmds[1].op = c.op /\ f.cmds[1].node = c.node
              /\ f.cmds[1].saved = s.parent[c.node]
          <5>1. c.op \in {"add", "remove"} /\ s.at \in 1 .. Len(s.stack)
            BY <1>6
          <5>2. Keeps(s, 1)
            BY <1>2, <5>1 DEF Keeps
          <5> HIDE DEF c, e
          <5> DEFINE v == s.parent[c.node]
          <5>3. v \in Containers \cup {Root} /\ b = Save(s, 1, v)
            BY <2>2, <4>1
          <5> HIDE DEF v
          <5>0. SavesPlace(s, b, 1, v)
            BY <1>1, <5>2, <5>3, SaveFields
          <5>4. /\ Sound(b) /\ b.parent = s.parent /\ b.conns = s.conns /\ b.index = s.index
                /\ b.uid = s.uid /\ b.fault = s.fault /\ b.marks = s.marks
                /\ Len(b.stack) = Len(s.stack)
            BY <5>0, Zenon DEF SavesPlace
          <5>5. \A k \in 1 .. Len(s.stack) : k # s.at => b.stack[k] = s.stack[k]
            BY <5>0, Zenon DEF SavesPlace
          <5>6. /\ f \in Entry /\ Len(f.cmds) = Len(s.stack[s.at].cmds)
                /\ f.cmds[1].op = s.stack[s.at].cmds[1].op
                /\ f.cmds[1].node = s.stack[s.at].cmds[1].node
                /\ f.cmds[1].saved = v
            BY <5>0, Zenon DEF SavesPlace
          <5> QED
            BY <5>4, <5>5, <5>6 DEF c, e, v
        <4>3. DOMAIN f.cmds = {1} /\ Len(f.cmds) = 1
          BY <1>2, <1>6, <4>2 DEF Entry
        <4> HIDE DEF f, c, e
        <4>4. Formed(f)
          BY <1>6, <2>2, <4>2, <4>3 DEF Formed
        <4>5. Saved(f)
          BY <2>2, <2>3, <4>2, <4>3 DEF Saved
        <4>6. \A k \in 1 .. Len(s.stack) : k = s.at \/ (k # s.at /\ (k >= s.at => k > s.index))
          BY <1>2 DEF UndoesAdd
        <4>7. \A k \in 1 .. Len(s.stack) : Formed(b.stack[k])
          BY <1>1, <4>2, <4>4 DEF f, Strong
        <4>8. \A k \in 1 .. Len(s.stack) : k >= s.at => Saved(b.stack[k])
          BY <1>1, <4>2, <4>5, <4>6 DEF f, Strong
        <4> QED
          BY <1>1, <4>2, <4>7, <4>8
      <3>2. CASE c.saved # Empty
        <4>1. Saved(e)
          BY <1>2, <3>2 DEF Saved
        <4>2. b = s
          BY <3>2
        <4>3. \A k \in 1 .. Len(s.stack) : k = s.at \/ (k # s.at /\ (k >= s.at => k > s.index))
          BY <1>2 DEF UndoesAdd
        <4> HIDE DEF b
        <4> QED
          BY <1>1, <4>1, <4>2, <4>3 DEF Strong
      <3> QED
        BY <3>1, <3>2
    <2> HIDE DEF b
    <2>5. Plain(Pulled(b, c.node))
      BY <1>1, <1>3, <2>4, PulledIsPlain
    <2>6. /\ Sound(u) /\ Quiet(b, u)
          /\ \A k \in 1 .. Len(u.stack) : Formed(u.stack[k])
          /\ \A k \in 1 .. Len(u.stack) : k >= s.at => Saved(u.stack[k])
      <3>1. s.at \in Nat
        BY <1>2 DEF UndoesAdd
      <3> QED
        BY <2>4, <2>5, <3>1, PlainOnStack
    <2>12. PulledTo(b, c.node, u, t)
      <3>1. PulledTo(b, c.node, u, Gone(u, c.node))
        BY <1>3, <2>4, PulledAway, Zenon
      <3> QED
        BY <2>1, <3>1, Zenon
    <2> HIDE DEF t, u
    <2>7. /\ Sound(t) /\ t.parent = Without(b.parent, Family(b, c.node))
          /\ t.conns = b.conns \ ConnsOf(b, c.node)
          /\ t.uid = b.uid /\ t.stack = u.stack /\ t.index = u.index
          /\ t.fault = u.fault /\ t.marks = u.marks
      BY <2>12, Zenon DEF PulledTo
    <2>8. Ends(b) /\ b.parent \in Scene /\ b.conns \in SUBSET Conn
      BY <1>1, <1>2, <2>4 DEF Ends, EndsInScene, InScene
    <2>9. Ends(t)
      BY <1>3, <2>7, <2>8, EndsWithout
    <2>10. Nested(t.parent)
      BY <1>1, <1>3, <2>4, <2>7, <2>8, NestedWithout
    <2>11. /\ s.index <= t.index /\ s.marks \subseteq t.marks
           /\ t.fault \in {"none", "command deleted"}
           /\ t.fault = "command deleted" => "shifted" \in t.marks
      <3>1. /\ b.index <= u.index /\ b.marks \subseteq u.marks
            /\ u.fault \in {b.fault, "command deleted"}
            /\ (u.fault # b.fault => "shifted" \in u.marks)
        BY <2>6, Zenon DEF Quiet
      <3> QED
        BY <2>4, <2>7, <3>1
    <2> QED
      BY <1>5, <2>4, <2>6, <2>7, <2>9, <2>10, <2>11 DEF t
  <1> QED
    BY <1>4, <1>5

\* An entry that adds no node, undone.
LEMMA UndoRestFields ==
  ASSUME NEW s, Good(s), s.fault = "none", s.at \in 1 .. Len(s.stack),
         NEW n \in Nat, n = Len(s.stack[s.at].cmds),
         \A i \in 1 .. n : s.stack[s.at].cmds[i].op # "add"
  PROVE  Steady(s, Walked(s, TRUE))
  <1> DEFINE e == s.stack[s.at]
  <1>1. PICK run : WalkRun(run, s, n, TRUE)
    BY WalkRunExists
  <1>2. run[0] = s /\ \A i \in 1 .. n : run[i] = UndoStep(run[i - 1], n + 1 - i)
    BY <1>1 DEF WalkRun
  <1>3. Walked(s, TRUE) = run[n]
    BY <1>1, Zenon DEF WalkRun
  <1>4. e \in Entry /\ Formed(e)
    BY DEF Good, Strong, Sound, SceneState
  <1> DEFINE P == {i \in 0 .. n : Steady(s, run[i])}
  <1>5. 0 \in P
    <2>1. Steady(s, s)
      BY DEF Good, Strong, Steady, SameStack
    <2> QED
      BY <1>2, <2>1
  <1>6. ASSUME NEW i \in 1 .. n, i - 1 \in P PROVE i \in P
    <2> DEFINE x == run[i - 1]
               k == n + 1 - i
    <2>1. Steady(s, x) /\ k \in 1 .. n /\ run[i] = UndoStep(x, k)
      BY <1>2, <1>6
    <2> HIDE DEF x, k
    <2>2. Steady(s, UndoStep(x, k))
      BY <1>4, <2>1, UndoStepSteady
    <2> QED
      BY <2>1, <2>2
  <1>7. n \in P
    <2> HIDE DEF P
    <2>1. \A i \in 0 .. n : i \in P
      BY <1>5, <1>6, UpTo
    <2> QED
      BY <2>1
  <1> QED
    BY <1>3, <1>7

\* What the index is set to after the walk.
LEMMA IndexSet ==
  ASSUME NEW s, Sound(s), NEW k \in Nat, k <= Len(s.stack)
  PROVE  LET t == [s EXCEPT !.index = k]
         IN  /\ Sound(t) /\ t.parent = s.parent /\ t.conns = s.conns /\ t.stack = s.stack
             /\ t.index = k /\ t.uid = s.uid /\ t.fault = s.fault /\ t.marks = s.marks
             /\ (Ends(s) => Ends(t))
  <1> DEFINE t == [s EXCEPT !.index = k]
  <1>1. /\ t \in SceneState /\ t.parent = s.parent /\ t.conns = s.conns /\ t.stack = s.stack
        /\ t.index = k /\ t.uid = s.uid /\ t.fault = s.fault /\ t.marks = s.marks
    BY DEF Sound, SceneState
  <1> HIDE DEF t
  <1>2. Sound(t)
    BY <1>1 DEF Sound
  <1>3. Ends(s) => Ends(t)
    BY <1>1 DEF Ends, EndsInScene, InScene
  <1> QED
    BY <1>1, <1>2, <1>3 DEF t

\* The state that a walk starts in.
LEMMA WalkStarts ==
  ASSUME Structure, fault = "none", NEW k \in 1 .. Len(stack)
  PROVE  LET s == [State EXCEPT !.at = k]
         IN  /\ Good(s) /\ Strong(s) /\ s.fault = "none" /\ s.at = k /\ s.index = index
             /\ s.stack = stack
             /\ s.parent = parent /\ s.conns = conns /\ s.uid = nextUid /\ s.marks = marks
             /\ s.stack[s.at] \in Entry /\ Formed(s.stack[s.at])
  <1> DEFINE s == [State EXCEPT !.at = k]
  <1>1. Good(State) /\ State.fault = "none"
    BY StateIsGood DEF State
  <1>2. State \in SceneState /\ Strong(State)
    BY <1>1 DEF Good, Sound
  <1>3. /\ s \in SceneState /\ s.at = k /\ s.parent = parent /\ s.conns = conns
        /\ s.stack = stack /\ s.index = index /\ s.uid = nextUid /\ s.fault = fault
        /\ s.marks = marks
    BY <1>2 DEF SceneState, State
  <1>4. /\ State.parent = parent /\ State.conns = conns
        /\ State.stack = stack /\ State.index = index /\ State.uid = nextUid
    BY DEF State
  <1> HIDE DEF s
  <1>5. Sound(s)
    BY <1>1, <1>3, <1>4 DEF Good, Sound
  <1>6. Ends(s)
    BY <1>1, <1>3, <1>4 DEF Good, Ends, EndsInScene, InScene
  <1>7. Strong(s)
    BY <1>2, <1>3, <1>4 DEF Strong
  <1>8. Good(s)
    BY <1>1, <1>3, <1>4, <1>5, <1>6, <1>7 DEF Good
  <1>9. k \in 1 .. Len(s.stack) /\ s.stack \in Seq(Entry)
    BY <1>3, <1>5 DEF Sound, SceneState
  <1>10. s.stack[k] \in Entry /\ Formed(s.stack[k])
    BY <1>7, <1>9 DEF Strong
  <1> QED
    BY <1>3, <1>7, <1>8, <1>10 DEF s

\* An entry either is one addition, or adds nothing.
LEMMA OneAddition ==
  ASSUME NEW e \in Entry, Formed(e)
  PROVE  /\ Len(e.cmds) \in Nat /\ e.cmds \in Seq(Command)
         /\ Adds(e) => Len(e.cmds) = 1 /\ e.cmds[1].op = "add"
         /\ ~Adds(e) => \A i \in 1 .. Len(e.cmds) : e.cmds[i].op # "add"
  <1>1. e.cmds \in Seq(Command) /\ Len(e.cmds) \in Nat /\ DOMAIN e.cmds = 1 .. Len(e.cmds)
    BY DEF Entry
  <1>2. ASSUME Adds(e) PROVE Len(e.cmds) = 1 /\ e.cmds[1].op = "add"
    <2>1. PICK i \in DOMAIN e.cmds : e.cmds[i].op = "add"
      BY <1>2 DEF Adds
    <2>2. Len(e.cmds) = 1
      BY <2>1 DEF Formed
    <2>3. i = 1
      BY <1>1, <2>1, <2>2
    <2> QED
      BY <2>1, <2>2, <2>3
  <1>3. ASSUME ~Adds(e) PROVE \A i \in 1 .. Len(e.cmds) : e.cmds[i].op # "add"
    BY <1>1, <1>3 DEF Adds
  <1> QED
    BY <1>1, <1>2, <1>3

\* An entry of one command is walked in one step.
LEMMA OneStep ==
  ASSUME NEW s, Len(s.stack[s.at].cmds) = 1
  PROVE  Walked(s, TRUE) = UndoStep(s, 1) /\ Walked(s, FALSE) = RedoStep(s, 1)
  <1>1. PICK run : WalkRun(run, s, 1, TRUE)
    BY WalkRunExists
  <1>2. PICK run2 : WalkRun(run2, s, 1, FALSE)
    BY WalkRunExists
  <1>3. 1 \in 1 .. 1 /\ 1 + 1 - 1 = 1 /\ 1 - 1 = 0
    OBVIOUS
  <1>4. Walked(s, TRUE) = UndoStep(s, 1)
    BY <1>1, <1>3 DEF WalkRun
  <1>5. Walked(s, FALSE) = RedoStep(s, 1)
    BY <1>2, <1>3 DEF WalkRun
  <1> QED
    BY <1>4, <1>5

LEMMA UndoKeeps ==
  ASSUME Structure, fault = "none", Undo
  PROVE  Structure'
  <1> DEFINE s == [State EXCEPT !.at = index]
             e == s.stack[s.at]
             w == Walked(s, TRUE)
             r == [w EXCEPT !.index = index - 1]
  <1>1. index \in 1 .. Len(stack) /\ Become(r)
    BY DEF Undo, Structure, TypeOK
  <1>2. /\ Good(s) /\ Strong(s) /\ s.fault = "none" /\ s.at = index /\ s.index = index
        /\ s.stack = stack /\ s.uid = nextUid /\ e \in Entry /\ Formed(e)
    BY <1>1, WalkStarts
  <1> HIDE DEF s
  <1>3. s.at \in 1 .. Len(s.stack) /\ s.index \in Nat /\ index - 1 \in Nat
    BY <1>1, <1>2
  <1>4. \A k \in 1 .. Len(w.stack) : k > index - 1 <=> k >= s.at
    BY <1>2, <1>3
  <1>5. CASE Adds(e)
    <2> DEFINE c == e.cmds[1]
    <2>1. Len(e.cmds) = 1 /\ c.op = "add"
      BY <1>2, <1>5, OneAddition
    <2>2. w = UndoAdd(s, 1, c)
      BY <1>2, <2>1, OneStep DEF UndoStep
    <2>3. UndoesAdd(s)
      BY <1>2, <1>3, <2>1 DEF UndoesAdd
    <2> HIDE DEF w, e
    <2>4. /\ Sound(w) /\ w.uid = s.uid /\ Ends(w) /\ s.index <= w.index
          /\ w.fault = "none" =>
               /\ Nested(w.parent)
               /\ \A k \in 1 .. Len(w.stack) : Formed(w.stack[k])
               /\ \A k \in 1 .. Len(w.stack) : k >= s.at => Saved(w.stack[k])
      BY <2>2, <2>3, UndoAddFields DEF e
    <2>5. index - 1 <= Len(w.stack)
      <3>1. w.index \in Nat /\ w.index <= Len(w.stack) /\ Len(w.stack) \in Nat
        BY <2>4 DEF Sound, SceneState
      <3>2. s.index <= w.index
        BY <2>4
      <3> QED
        BY <1>2, <1>3, <3>1, <3>2
    <2>6. /\ Sound(r) /\ r.parent = w.parent /\ r.stack = w.stack /\ r.index = index - 1
          /\ r.uid = w.uid /\ r.fault = w.fault /\ Ends(r)
      BY <1>3, <2>4, <2>5, IndexSet
    <2> HIDE DEF r
    <2>7. r.fault = "none" => Strong(r)
      BY <1>4, <2>4, <2>6 DEF Strong
    <2>8. Good(r)
      BY <1>2, <2>4, <2>6, <2>7 DEF Good
    <2> QED
      BY <1>1, <2>8, GoodBecomes DEF r, w, s
  <1>6. CASE ~Adds(e)
    <2>1. \A i \in 1 .. Len(e.cmds) : e.cmds[i].op # "add"
      BY <1>2, <1>6, OneAddition
    <2>2. Len(e.cmds) \in Nat
      BY <1>2, OneAddition
    <2>3. Steady(s, w)
      BY <1>2, <1>3, <2>1, <2>2, UndoRestFields
    <2> HIDE DEF w
    <2>4. Sound(w) /\ w.stack = s.stack /\ w.uid = s.uid /\ Ends(w)
          /\ (w.fault = "none" => Nested(w.parent))
      BY <2>3 DEF Steady, SameStack
    <2>5. index - 1 <= Len(w.stack)
      BY <1>1, <1>2, <2>4
    <2>6. /\ Sound(r) /\ r.parent = w.parent /\ r.stack = w.stack /\ r.index = index - 1
          /\ r.uid = w.uid /\ r.fault = w.fault /\ Ends(r)
      BY <1>3, <2>4, <2>5, IndexSet
    <2> HIDE DEF r
    <2>7. Saved(e)
      BY <1>6 DEF Saved, Adds
    <2>8. \A k \in 1 .. Len(s.stack) : k > index - 1 => k = s.at \/ k > s.index
      BY <1>1, <1>2
    <2>9. \A k \in 1 .. Len(s.stack) : Formed(s.stack[k]) /\ (k > index - 1 => Saved(s.stack[k]))
      BY <1>2, <2>7, <2>8 DEF Strong
    <2>10. r.fault = "none" => Strong(r)
      BY <2>4, <2>6, <2>9 DEF Strong
    <2>11. Good(r)
      BY <1>2, <2>4, <2>6, <2>10 DEF Good
    <2> QED
      BY <1>1, <2>11, GoodBecomes DEF r, w, s
  <1> QED
    BY <1>5, <1>6

\* Entry s.at of x is the one of s with other places saved in its removals.
Alike(s, x) ==
  LET e == s.stack[s.at]
      f == x.stack[s.at]
  IN  /\ Len(x.stack) = Len(s.stack)
      /\ \A k \in 1 .. Len(s.stack) : k # s.at => x.stack[k] = s.stack[k]
      /\ Formed(f) /\ Len(f.cmds) = Len(e.cmds) /\ f.before = e.before /\ f.after = e.after
      /\ \A j \in 1 .. Len(e.cmds) :
           /\ f.cmds[j].op = e.cmds[j].op
           /\ e.cmds[j].op = "remove" => f.cmds[j].node = e.cmds[j].node
           /\ e.cmds[j].op = "disconnect" => f.cmds[j] = e.cmds[j]

Redone(s, x) ==
  /\ Sound(x) /\ x.index = s.index /\ x.at = s.at /\ x.uid = s.uid /\ Ends(x)
  /\ Alike(s, x) /\ x.marks = s.marks
  /\ x.fault = "none" => Nested(x.parent)

\* A removal of what has no connections and no children, redone: t is x without
\* the node, and its place is saved.
RemovalRedone(x, t, i, c) ==
  LET e == x.stack[x.at]
      f == t.stack[x.at]
  IN  /\ InScene(x, c.node) /\ Pulled(x, c.node) = <<>>
      /\ Sound(t) /\ t.index = x.index /\ t.at = x.at /\ t.uid = x.uid /\ t.marks = x.marks
      /\ t.fault = "none" /\ Ends(t) /\ Nested(t.parent)
      /\ t.parent = Without(x.parent, Family(x, c.node))
      /\ t.conns = x.conns \ ConnsOf(x, c.node)
      /\ x.parent[c.node] \in Containers \cup {Root}
      /\ c.node \in Containers => x.parent[c.node] = Root
      /\ Len(t.stack) = Len(x.stack)
      /\ \A k \in 1 .. Len(x.stack) : k # x.at => t.stack[k] = x.stack[k]
      /\ f \in Entry /\ f.before = e.before /\ f.after = e.after
      /\ Len(f.cmds) = Len(e.cmds)
      /\ \A j \in 1 .. Len(e.cmds) : j # i => f.cmds[j] = e.cmds[j]
      /\ f.cmds[i].op = c.op /\ f.cmds[i].node = c.node
      /\ f.cmds[i].saved = x.parent[c.node]

\* The three ends of a removal that is redone.
LEMMA RedoRemoveFields ==
  ASSUME NEW x, Sound(x), Ends(x), Nested(x.parent), NEW i, Keeps(x, i),
         NEW c, c = x.stack[x.at].cmds[i], c.op = "remove", x.fault = "none"
  PROVE  LET t == RedoRemove(x, i, c)
         IN  \/ t = [x EXCEPT !.fault = "node missing"] /\ ~InScene(x, c.node)
             \/ /\ t = [x EXCEPT !.fault = "command deleted"] /\ InScene(x, c.node)
                /\ Pulled(x, c.node) # <<>>
             \/ RemovalRedone(x, t, i, c)
  <1> DEFINE t == RedoRemove(x, i, c)
             v == x.parent[c.node]
             b == Save(x, i, v)
  <1>1. CASE ~InScene(x, c.node)
    BY <1>1 DEF RedoRemove
  <1>2. CASE InScene(x, c.node) /\ Pulled(x, c.node) # <<>>
    BY <1>2 DEF RedoRemove
  <1>3. CASE InScene(x, c.node) /\ Pulled(x, c.node) = <<>>
    <2>1. t = Gone(b, c.node)
      BY <1>3, Zenon DEF RedoRemove
    <2>2. c.node \in Nodes
      <3>1. x.at \in 1 .. Len(x.stack) /\ i \in 1 .. Len(x.stack[x.at].cmds)
        BY DEF Keeps
      <3>2. x.stack[x.at] \in Entry
        BY <3>1 DEF Sound, SceneState
      <3>3. c \in Command
        BY <3>1, <3>2 DEF Entry
      <3> QED
        BY <3>3 DEF Command
    <2>3. x.parent \in Scene /\ x.conns \in SUBSET Conn
      BY DEF Sound, SceneState
    <2>4. v \in Containers \cup {Root} /\ (c.node \in Containers => v = Root)
      BY <1>3, <2>2, <2>3 DEF InScene, Scene, Nested
    <2> HIDE DEF v
    <2>0. SavesPlace(x, b, i, v)
      BY <2>4, SaveFields
    <2> HIDE DEF b
    <2>5. /\ Sound(b) /\ b.parent = x.parent /\ b.conns = x.conns /\ b.index = x.index
          /\ b.uid = x.uid /\ b.fault = x.fault /\ b.marks = x.marks /\ b.at = x.at
          /\ Len(b.stack) = Len(x.stack)
          /\ \A k \in 1 .. Len(x.stack) : k # x.at => b.stack[k] = x.stack[k]
      BY <2>0, Zenon DEF SavesPlace
    <2>6. LET e == x.stack[x.at]
              f == b.stack[x.at]
          IN  /\ f \in Entry /\ f.before = e.before /\ f.after = e.after
              /\ Len(f.cmds) = Len(e.cmds)
              /\ \A j \in 1 .. Len(e.cmds) : j # i => f.cmds[j] = e.cmds[j]
              /\ f.cmds[i].op = c.op /\ f.cmds[i].node = c.node
              /\ f.cmds[i].saved = v
      <3>1. x.stack[x.at].cmds[i] = c
        OBVIOUS
      <3> QED
        BY <2>0, <3>1, Zenon DEF SavesPlace
    <2> HIDE DEF t
    <2>7. /\ Sound(t) /\ t.parent = Without(b.parent, Family(b, c.node))
          /\ t.conns = b.conns \ ConnsOf(b, c.node)
          /\ t.stack = b.stack /\ t.index = b.index /\ t.uid = b.uid
          /\ t.fault = b.fault /\ t.marks = b.marks /\ t.at = b.at
      <3> DEFINE g == Gone(b, c.node)
      <3>1. Sound(b)
        BY <2>5, Zenon
      <3>2. /\ Sound(g) /\ g.parent = Without(b.parent, Family(b, c.node))
            /\ g.conns = b.conns \ ConnsOf(b, c.node)
            /\ g.stack = b.stack /\ g.index = b.index /\ g.uid = b.uid
            /\ g.fault = b.fault /\ g.marks = b.marks /\ g.at = b.at
        BY <2>2, <3>1, GoneFields
      <3>3. t = g
        BY <2>1
      <3> HIDE DEF g
      <3> QED
        BY <3>2, <3>3
    <2>8. Family(b, c.node) = Family(x, c.node) /\ ConnsOf(b, c.node) = ConnsOf(x, c.node)
      BY <2>5 DEF Family, Children, ConnsOf
    <2>9. /\ t.parent = Without(x.parent, Family(x, c.node))
          /\ t.conns = x.conns \ ConnsOf(x, c.node)
      BY <2>5, <2>7, <2>8
    <2>10. Ends(t)
      BY <2>2, <2>3, <2>9, EndsWithout
    <2>11. Nested(t.parent)
      BY <2>2, <2>3, <2>9, NestedWithout
    <2>12. t.fault = "none" /\ Sound(t) /\ t.index = x.index /\ t.at = x.at
           /\ t.uid = x.uid /\ t.marks = x.marks /\ t.stack = b.stack
      BY <2>5, <2>7
    <2>13. RemovalRedone(x, t, i, c)
      BY <1>3, <2>4, <2>5, <2>6, <2>9, <2>10, <2>11, <2>12 DEF RemovalRedone, v
    <2> QED
      BY <2>13 DEF t
  <1> QED
    BY <1>1, <1>2, <1>3

\* One command of an entry of disconnections and removals, redone.
LEMMA RedoStepKeeps ==
  ASSUME NEW s, NEW x, Redone(s, x), s.at \in 1 .. Len(s.stack), s.stack[s.at] \in Entry,
         NEW i \in 1 .. Len(s.stack[s.at].cmds),
         s.stack[s.at].cmds[i].op \in {"remove", "disconnect"}
  PROVE  Redone(s, RedoStep(x, i))
  <1> DEFINE e == s.stack[s.at]
             g == x.stack[s.at]
             c == g.cmds[i]
             t == RedoStep(x, i)
  <1>1. /\ Sound(x) /\ x.index = s.index /\ x.at = s.at /\ x.uid = s.uid /\ Ends(x)
        /\ Alike(s, x) /\ x.marks = s.marks
    BY DEF Redone
  <1>2. /\ Len(x.stack) = Len(s.stack) /\ Formed(g) /\ Len(g.cmds) = Len(e.cmds)
        /\ \A k \in 1 .. Len(s.stack) : k # s.at => x.stack[k] = s.stack[k]
        /\ g.before = e.before /\ g.after = e.after
        /\ \A j \in 1 .. Len(e.cmds) :
             /\ g.cmds[j].op = e.cmds[j].op
             /\ e.cmds[j].op = "remove" => g.cmds[j].node = e.cmds[j].node
             /\ e.cmds[j].op = "disconnect" => g.cmds[j] = e.cmds[j]
    BY <1>1, Zenon DEF Alike
  <1>3. g \in Entry /\ c \in Command /\ e.cmds \in Seq(Command)
    <2>1. x.stack \in Seq(Entry) /\ s.at \in 1 .. Len(x.stack)
      BY <1>1, <1>2 DEF Sound, SceneState
    <2>2. g \in Entry
      BY <2>1
    <2>3. g.cmds \in Seq(Command) /\ i \in 1 .. Len(g.cmds)
      BY <1>2, <2>2 DEF Entry
    <2> QED
      BY <2>2, <2>3 DEF Entry
  <1>4. c.op \in {"remove", "disconnect"}
    BY <1>2
  <1>5. c = x.stack[x.at].cmds[i]
    BY <1>1
  <1>6. CASE x.fault # "none"
    <2>1. t = x
      BY <1>6, Zenon DEF RedoStep
    <2> QED
      BY <2>1
  <1>7. CASE x.fault = "none" /\ c.op = "disconnect"
    <2>1. t = Disconnected(x, c.conn) /\ c.conn \in Conn
      BY <1>3, <1>5, <1>7 DEF RedoStep, RedoDisconnect, Command
    <2> HIDE DEF t, c
    <2>2. /\ Sound(t) /\ SameStack(x, t) /\ t.parent = x.parent /\ t.uid = x.uid
          /\ t.marks = x.marks /\ (Ends(x) => Ends(t))
      BY <1>1, <2>1, DisconnectedFields
    <2>3. t.stack = x.stack /\ t.index = x.index /\ t.at = x.at
      BY <2>2, Zenon DEF SameStack
    <2>4. Alike(s, t)
      BY <1>1, <2>3, Zenon DEF Alike
    <2>5. Nested(t.parent)
      BY <1>7, <2>2 DEF Redone
    <2>6. t.index = s.index /\ t.at = s.at /\ t.uid = s.uid /\ t.marks = s.marks
      BY <1>1, <2>2, <2>3, Zenon
    <2> QED
      BY <1>1, <2>2, <2>4, <2>5, <2>6, Zenon DEF Redone, t
  <1>8. CASE x.fault = "none" /\ c.op = "remove"
    <2>1. t = RedoRemove(x, i, c)
      BY <1>5, <1>8, Zenon DEF RedoStep
    <2>2. Keeps(x, i) /\ Nested(x.parent)
      BY <1>1, <1>2, <1>8 DEF Keeps, Redone
    <2> DEFINE f == t.stack[s.at]
    <2> HIDE DEF t, c, g, e, f
    <2>3. CASE \E m \in Failures : t = [x EXCEPT !.fault = m] /\ m # "none"
      <3>1. PICK m \in Failures : t = [x EXCEPT !.fault = m] /\ m # "none"
        BY <2>3
      <3>2. /\ Sound(t) /\ SameStack(x, t) /\ t.uid = x.uid /\ t.fault = m
            /\ t.marks = x.marks /\ (Ends(x) => Ends(t))
        BY <1>1, <3>1, FaultFields
      <3>3. t.stack = x.stack /\ t.index = x.index /\ t.at = x.at
        BY <3>2, Zenon DEF SameStack
      <3>4. Alike(s, t)
        BY <1>1, <3>3, Zenon DEF Alike
      <3>5. t.index = s.index /\ t.at = s.at /\ t.uid = s.uid /\ t.marks = s.marks
        BY <1>1, <3>2, <3>3, Zenon
      <3> QED
        BY <1>1, <3>1, <3>2, <3>4, <3>5, Zenon DEF Redone, t
    <2>4. CASE ~\E m \in Failures : t = [x EXCEPT !.fault = m] /\ m # "none"
      <3>1. "node missing" \in Failures /\ "command deleted" \in Failures
            /\ "node missing" # "none" /\ "command deleted" # "none"
        BY DEF Faults, Failures
      <3>2. t # [x EXCEPT !.fault = "node missing"] /\ t # [x EXCEPT !.fault = "command deleted"]
        BY <2>4, <3>1, Zenon
      <3>13. RemovalRedone(x, t, i, c)
        BY <1>1, <1>5, <1>8, <2>1, <2>2, <3>2, RedoRemoveFields, Zenon
      <3>3. /\ Sound(t) /\ t.index = x.index /\ t.at = x.at /\ t.uid = x.uid /\ t.marks = x.marks
            /\ t.fault = "none" /\ Ends(t) /\ Nested(t.parent)
            /\ x.parent[c.node] \in Containers \cup {Root}
            /\ c.node \in Containers => x.parent[c.node] = Root
            /\ Len(t.stack) = Len(x.stack)
            /\ \A k \in 1 .. Len(x.stack) : k # x.at => t.stack[k] = x.stack[k]
        BY <3>13 DEF RemovalRedone
      <3>4. /\ f \in Entry /\ f.before = g.before /\ f.after = g.after
            /\ Len(f.cmds) = Len(g.cmds)
        BY <1>1, <3>13 DEF RemovalRedone, f, g
      <3>5. \A j \in 1 .. Len(g.cmds) : j # i => f.cmds[j] = g.cmds[j]
        BY <1>1, <3>13 DEF RemovalRedone, f, g
      <3>6. f.cmds[i].op = c.op /\ f.cmds[i].node = c.node /\ f.cmds[i].saved = x.parent[c.node]
        BY <1>1, <3>13 DEF RemovalRedone, f, g
      <3>7. Formed(f)
        <4> SUFFICES ASSUME NEW j \in DOMAIN f.cmds
                     PROVE  /\ f.cmds[j].op \in {"add", "connect"} => Len(f.cmds) = 1
                            /\ f.cmds[j].op = "remove" => f.cmds[j].saved # Empty
                            /\ f.cmds[j].op \in {"add", "remove"} /\ f.cmds[j].node \in Containers
                                 => f.cmds[j].saved \in {Root, Empty}
          BY DEF Formed
        <4>1. DOMAIN f.cmds = 1 .. Len(f.cmds) /\ DOMAIN g.cmds = 1 .. Len(g.cmds)
          BY <1>3, <3>4 DEF Entry
        <4>2. j \in 1 .. Len(g.cmds) /\ j \in DOMAIN g.cmds
          BY <3>4, <4>1
        <4>3. CASE j = i
          <5>1. Empty \notin Containers /\ Empty # Root
            BY DEF Nodes, Empty, Root
          <5> QED
            BY <1>8, <3>3, <3>6, <4>3, <5>1
        <4>4. CASE j # i
          BY <1>2, <3>4, <3>5, <4>2, <4>4 DEF Formed
        <4> QED
          BY <4>3, <4>4
      <3>8. ASSUME NEW j \in 1 .. Len(e.cmds)
            PROVE  /\ f.cmds[j].op = e.cmds[j].op
                   /\ e.cmds[j].op = "remove" => f.cmds[j].node = e.cmds[j].node
                   /\ e.cmds[j].op = "disconnect" => f.cmds[j] = e.cmds[j]
        <4>1. CASE j = i
          <5>1. c = g.cmds[i]
            BY DEF c
          <5>2. e.cmds[i].op = "remove" /\ c.node = e.cmds[i].node
            BY <1>2, <1>8, <5>1 DEF e
          <5> QED
            BY <1>8, <3>6, <4>1, <5>2
        <4>2. CASE j # i
          <5>1. f.cmds[j] = g.cmds[j]
            BY <1>2, <3>5, <4>2
          <5> QED
            BY <1>2, <5>1
        <4> QED
          BY <4>1, <4>2
      <3>9. Len(f.cmds) = Len(e.cmds) /\ f.before = e.before /\ f.after = e.after
        BY <1>2, <3>4
      <3>10. Len(t.stack) = Len(s.stack)
             /\ \A k \in 1 .. Len(s.stack) : k # s.at => t.stack[k] = s.stack[k]
        BY <1>1, <1>2, <3>3
      <3>11. Alike(s, t)
        BY <3>7, <3>8, <3>9, <3>10, Zenon DEF Alike, e, f
      <3>12. t.index = s.index /\ t.at = s.at /\ t.uid = s.uid /\ t.marks = s.marks
        BY <1>1, <3>3, Zenon
      <3> QED
        BY <3>3, <3>11, <3>12, Zenon DEF Redone, t
    <2> QED
      BY <2>3, <2>4
  <1> QED
    BY <1>4, <1>6, <1>7, <1>8

\* Such an entry, redone.
LEMMA RedoRestFields ==
  ASSUME NEW s, Good(s), s.fault = "none", s.at \in 1 .. Len(s.stack),
         NEW n \in Nat, n = Len(s.stack[s.at].cmds),
         \A i \in 1 .. n : s.stack[s.at].cmds[i].op \in {"remove", "disconnect"}
  PROVE  Redone(s, Walked(s, FALSE))
  <1>1. PICK run : WalkRun(run, s, n, FALSE)
    BY WalkRunExists
  <1>2. run[0] = s /\ \A i \in 1 .. n : run[i] = RedoStep(run[i - 1], i)
    BY <1>1 DEF WalkRun
  <1>3. Walked(s, FALSE) = run[n]
    BY <1>1, Zenon DEF WalkRun
  <1>4. s.stack[s.at] \in Entry /\ Formed(s.stack[s.at])
    BY DEF Good, Strong, Sound, SceneState
  <1> DEFINE P == {i \in 0 .. n : Redone(s, run[i])}
  <1>5. 0 \in P
    <2>1. Alike(s, s)
      BY <1>4 DEF Alike
    <2>2. Redone(s, s)
      BY <2>1 DEF Good, Strong, Redone
    <2> QED
      BY <1>2, <2>2
  <1>6. ASSUME NEW i \in 1 .. n, i - 1 \in P PROVE i \in P
    <2> DEFINE x == run[i - 1]
    <2>1. Redone(s, x) /\ run[i] = RedoStep(x, i)
      BY <1>2, <1>6
    <2> HIDE DEF x
    <2>2. Redone(s, RedoStep(x, i))
      BY <1>4, <2>1, RedoStepKeeps
    <2> QED
      BY <2>1, <2>2
  <1>7. n \in P
    <2> HIDE DEF P
    <2>1. \A i \in 0 .. n : i \in P
      BY <1>5, <1>6, UpTo
    <2> QED
      BY <2>1
  <1> QED
    BY <1>3, <1>7

\* A connection made again: its command names the new one.
Remade(s, t) ==
  LET e == s.stack[s.at]
      f == t.stack[s.at]
  IN  /\ Len(t.stack) = Len(s.stack)
      /\ \A k \in 1 .. Len(s.stack) : k # s.at => t.stack[k] = s.stack[k]
      /\ f \in Entry /\ f.before = e.before /\ f.after = e.after /\ Len(f.cmds) = 1
      /\ f.cmds[1].op = "connect" /\ f.cmds[1].conn.wire = e.cmds[1].conn.wire
      /\ "remade" \in t.marks

LEMMA RedoConnectFields ==
  ASSUME NEW s, Sound(s), Ends(s), s.uid \in 1 .. MaxUid,
         s.at \in 1 .. Len(s.stack), Len(s.stack[s.at].cmds) = 1,
         NEW c \in Command, c = s.stack[s.at].cmds[1], c.op = "connect"
  PROVE  LET t == RedoConnect(s, 1, c)
         IN  /\ Sound(t) /\ Ends(t) /\ t.parent = s.parent /\ t.index = s.index
             /\ t.fault = s.fault /\ t.uid \in 1 .. MaxUid + 1 /\ s.marks \subseteq t.marks
             /\ t = s \/ Remade(s, t)
  <1> DEFINE t == RedoConnect(s, 1, c)
             e == s.stack[s.at]
             new == [c.conn EXCEPT !.uid = s.uid]
             C == s.conns \cup {new}
             u == s.uid + 1
             M == s.marks \cup {"remade"}
             c2 == [c EXCEPT !.conn = new]
             l2 == [e.cmds EXCEPT ![1] = c2]
             e2 == [e EXCEPT !.cmds = l2]
             k2 == [s.stack EXCEPT ![s.at] = e2]
  <1>1. s \in SceneState /\ s.stack \in Seq(Entry) /\ Len(s.stack) \in Nat /\ e \in Entry
    BY DEF Sound, SceneState
  <1>2. e.cmds \in Seq(Command) /\ c.conn \in Conn
    BY <1>1 DEF Entry, Command
  <1>3. CASE ~EndsInScene(s, c.conn.wire)
    <2>1. t = s
      BY <1>3, Zenon DEF RedoConnect
    <2>2. s.uid \in 1 .. MaxUid + 1
      OBVIOUS
    <2> QED
      BY <2>1, <2>2
  <1>4. CASE EndsInScene(s, c.conn.wire)
    <2>1. t = [s EXCEPT !.conns = C, !.uid = u, !.stack = k2, !.marks = M]
      <3>1. t = [s EXCEPT !.conns = C, !.uid = s.uid + 1,
                     !.stack[s.at].cmds[1].conn = new, !.marks = M]
        BY <1>4, Zenon DEF RedoConnect
      <3>2. [s.stack EXCEPT ![s.at].cmds[1].conn = new] = k2
        BY Zenon
      <3> HIDE DEF t, C, M, new, k2
      <3>3. [s EXCEPT !.stack[s.at].cmds[1].conn = new] = [s EXCEPT !.stack = k2]
        BY <3>2, Zenon
      <3> QED
        BY <3>1, <3>2, <3>3, Zenon
    <2>2. new \in Conn /\ new.wire = c.conn.wire
      BY <1>2 DEF Conn
    <2> HIDE DEF new
    <2>3. c2 \in Command /\ c2.op = "connect" /\ c2.conn = new
      BY <2>2 DEF Command
    <2> HIDE DEF c2
    <2>4. l2 \in Seq(Command) /\ Len(l2) = 1 /\ l2[1] = c2
      BY <1>2, <2>3
    <2> HIDE DEF l2
    <2>5. e2 \in Entry /\ e2.cmds = l2 /\ e2.before = e.before /\ e2.after = e.after
      BY <1>1, <2>4 DEF Entry
    <2> HIDE DEF e2
    <2>6. k2 \in Seq(Entry) /\ Len(k2) = Len(s.stack) /\ k2[s.at] = e2
          /\ \A k \in 1 .. Len(s.stack) : k # s.at => k2[k] = s.stack[k]
      BY <1>1, <2>5
    <2>7. C \in SUBSET Conn /\ u \in Nat /\ u \in 1 .. MaxUid + 1 /\ M \in SUBSET Marks
          /\ s.marks \subseteq M /\ "remade" \in M
      BY <1>1, <2>2 DEF SceneState, Marks
    <2>8. \A w \in C : EndsInScene(s, w.wire)
      BY <1>4, <2>2 DEF Ends
    <2> HIDE DEF k2, C, u, M, t
    <2>9. /\ t \in SceneState /\ t.stack = k2 /\ t.conns = C /\ t.uid = u /\ t.marks = M
          /\ t.parent = s.parent /\ t.index = s.index /\ t.fault = s.fault
      BY <1>1, <2>1, <2>6, <2>7 DEF SceneState
    <2>10. Sound(t)
      BY <2>6, <2>9 DEF Sound
    <2>11. Ends(t)
      BY <2>8, <2>9 DEF Ends, EndsInScene, InScene
    <2>12. Remade(s, t)
      BY <2>2, <2>3, <2>4, <2>5, <2>6, <2>7, <2>9 DEF Remade
    <2> QED
      BY <2>7, <2>9, <2>10, <2>11, <2>12 DEF t
  <1> QED
    BY <1>3, <1>4

LEMMA RedoKeeps ==
  ASSUME Structure, fault = "none", Redo
  PROVE  Structure'
  <1> DEFINE s == [State EXCEPT !.at = index + 1]
             e == s.stack[s.at]
             w == Walked(s, FALSE)
             r == [w EXCEPT !.index = index + 1]
  <1>1. index \in Nat /\ index + 1 \in 1 .. Len(stack) /\ nextUid \in 1 .. MaxUid /\ Become(r)
    BY DEF Redo, Structure, TypeOK
  <1>2. /\ Good(s) /\ Strong(s) /\ s.fault = "none" /\ s.at = index + 1 /\ s.index = index
        /\ s.stack = stack /\ s.uid = nextUid /\ e \in Entry /\ Formed(e)
    BY <1>1, WalkStarts
  <1> HIDE DEF s
  <1>3. /\ s.at \in 1 .. Len(s.stack) /\ s.index \in Nat /\ index + 1 \in Nat
        /\ index + 1 <= Len(s.stack) /\ s.uid \in 1 .. MaxUid
    BY <1>1, <1>2
  <1>4. Sound(s) /\ Ends(s) /\ Nested(s.parent)
    BY <1>2 DEF Good, Strong
  <1>5. \A k \in 1 .. Len(s.stack) : k > index + 1 => k # s.at /\ Saved(s.stack[k])
    <2>1. \A k \in 1 .. Len(s.stack) : k > index + 1 => k # s.at /\ k > s.index
      BY <1>2, <1>3
    <2> QED
      BY <1>2, <2>1 DEF Strong
  <1>6. ASSUME Sound(w), Ends(w), w.uid \in 1 .. MaxUid + 1,
               w.fault = "none" => Nested(w.parent),
               Len(w.stack) = Len(s.stack), Formed(w.stack[s.at]),
               \A k \in 1 .. Len(s.stack) : k # s.at => w.stack[k] = s.stack[k]
        PROVE  Structure'
    <2> HIDE DEF w
    <2>1. /\ Sound(r) /\ r.parent = w.parent /\ r.stack = w.stack /\ r.index = index + 1
          /\ r.uid = w.uid /\ r.fault = w.fault /\ Ends(r)
      BY <1>3, <1>6, IndexSet
    <2> HIDE DEF r
    <2>2. \A k \in 1 .. Len(s.stack) : Formed(w.stack[k])
      BY <1>2, <1>6 DEF Strong
    <2>3. \A k \in 1 .. Len(s.stack) : k > index + 1 => Saved(w.stack[k])
      BY <1>5, <1>6
    <2>4. r.fault = "none" => Strong(r)
      BY <1>6, <2>1, <2>2, <2>3 DEF Strong
    <2>5. Good(r)
      BY <1>6, <2>1, <2>4 DEF Good
    <2> QED
      BY <1>1, <2>5, GoodBecomes DEF r, w, s
  <1>7. CASE Adds(e)
    <2> DEFINE c == e.cmds[1]
    <2>1. Len(e.cmds) = 1 /\ c.op = "add" /\ e.cmds \in Seq(Command)
      BY <1>2, <1>7, OneAddition
    <2>2. c \in Command
      BY <2>1
    <2>3. w = RedoAdd(s, c)
      BY <1>2, <2>1, OneStep DEF RedoStep
    <2>4. CASE InScene(s, c.node)
      <3>1. w = s
        BY <2>3, <2>4, Zenon DEF RedoAdd
      <3>2. s.uid \in 1 .. MaxUid + 1
        BY <1>3
      <3> HIDE DEF w
      <3> QED
        BY <1>2, <1>4, <1>6, <3>1, <3>2
    <2>5. CASE ~InScene(s, c.node)
      <3>1. w = PutBack(s, c) /\ s.parent[c.node] = Absent
        BY <2>3, <2>5 DEF RedoAdd, InScene
      <3>2. c.saved # Empty
        <4>1. s.at > s.index
          BY <1>2, <1>3
        <4>2. Saved(e)
          BY <1>2, <1>3, <4>1 DEF Strong
        <4>3. 1 \in DOMAIN e.cmds
          BY <2>1
        <4> QED
          BY <2>1, <4>2, <4>3 DEF Saved
      <3>3. c.node \in Containers => c.saved \in {Root, Empty}
        <4>1. 1 \in DOMAIN e.cmds
          BY <2>1
        <4> QED
          BY <1>2, <2>1, <4>1 DEF Formed
      <3>4. s.uid \in 1 .. MaxUid + 1
        BY <1>3
      <3>6. c.op \in {"add", "remove"}
        BY <2>1
      <3> HIDE DEF w, c, e
      <3>5. /\ Sound(w) /\ w.stack = s.stack /\ w.uid = s.uid /\ Ends(w) /\ Nested(w.parent)
        BY <1>4, <2>2, <3>1, <3>2, <3>3, <3>6, PutBackFields
      <3> QED
        BY <1>2, <1>6, <3>4, <3>5 DEF e
    <2> QED
      BY <2>4, <2>5
  <1>8. CASE ~Adds(e) /\ \E i \in 1 .. Len(e.cmds) : e.cmds[i].op = "connect"
    <2> DEFINE c == e.cmds[1]
    <2>1. e.cmds \in Seq(Command) /\ Len(e.cmds) = 1 /\ c.op = "connect"
      <3>1. e.cmds \in Seq(Command) /\ Len(e.cmds) \in Nat
        BY <1>2, OneAddition
      <3>2. PICK i \in 1 .. Len(e.cmds) : e.cmds[i].op = "connect"
        BY <1>8
      <3>3. Len(e.cmds) = 1
        BY <1>2, <3>1, <3>2 DEF Formed
      <3>4. i = 1
        BY <3>3
      <3> QED
        BY <3>1, <3>2, <3>3, <3>4
    <2>2. c \in Command
      BY <2>1
    <2>3. w = RedoConnect(s, 1, c)
      BY <1>2, <2>1, OneStep DEF RedoStep
    <2>4. c = s.stack[s.at].cmds[1] /\ Len(s.stack[s.at].cmds) = 1
      BY <2>1
    <2> HIDE DEF w, c
    <2>5. /\ Sound(w) /\ Ends(w) /\ w.parent = s.parent
          /\ w.uid \in 1 .. MaxUid + 1
      BY <1>3, <1>4, <2>1, <2>2, <2>3, <2>4, RedoConnectFields
    <2>6. w = s \/ Remade(s, w)
      BY <1>3, <1>4, <2>1, <2>2, <2>3, <2>4, RedoConnectFields
    <2>7. CASE w = s
      BY <1>2, <1>4, <1>6, <2>5, <2>7
    <2>8. CASE Remade(s, w)
      <3> DEFINE f == w.stack[s.at]
      <3>1. /\ Len(w.stack) = Len(s.stack)
            /\ \A k \in 1 .. Len(s.stack) : k # s.at => w.stack[k] = s.stack[k]
            /\ f \in Entry /\ Len(f.cmds) = 1 /\ f.cmds[1].op = "connect"
        BY <2>8 DEF Remade
      <3>2. DOMAIN f.cmds = {1}
        BY <3>1 DEF Entry
      <3> HIDE DEF f
      <3>3. Formed(f)
        BY <3>1, <3>2 DEF Formed
      <3> QED
        BY <1>4, <1>6, <2>5, <3>1, <3>3 DEF f
    <2> QED
      BY <2>6, <2>7, <2>8
  <1>9. CASE ~Adds(e) /\ ~\E i \in 1 .. Len(e.cmds) : e.cmds[i].op = "connect"
    <2>1. /\ e.cmds \in Seq(Command) /\ Len(e.cmds) \in Nat
          /\ \A i \in 1 .. Len(e.cmds) : e.cmds[i].op # "add"
      BY <1>2, <1>9, OneAddition
    <2>2. ASSUME NEW i \in 1 .. Len(e.cmds) PROVE e.cmds[i].op \in {"remove", "disconnect"}
      <3>1. e.cmds[i] \in Command
        BY <2>1
      <3> QED
        BY <1>9, <2>1, <3>1 DEF Command
    <2>3. Redone(s, w)
      BY <1>2, <1>3, <2>1, <2>2, RedoRestFields
    <2> HIDE DEF w
    <2>4. Sound(w) /\ w.uid = s.uid /\ Ends(w) /\ (w.fault = "none" => Nested(w.parent))
          /\ Alike(s, w)
      BY <2>3, Zenon DEF Redone
    <2>5. Len(w.stack) = Len(s.stack) /\ Formed(w.stack[s.at])
          /\ \A k \in 1 .. Len(s.stack) : k # s.at => w.stack[k] = s.stack[k]
      BY <2>4, Zenon DEF Alike
    <2>6. w.uid \in 1 .. MaxUid + 1
      BY <1>3, <2>4
    <2> QED
      BY <1>6, <2>4, <2>5, <2>6
  <1> QED
    BY <1>7, <1>8, <1>9

----------------------------------------------------------------------------
(* Types and ends *)

LEMMA StructureInductive ==
  /\ Init => Structure
  /\ Structure /\ [Next]_vars => Structure'
  <1>1. ASSUME Init PROVE Structure
    <2>1. TypeOK
      BY <1>1 DEF Init, TypeOK, Scene, Faults
    <2>2. EndsThere /\ ItemsThere
      BY <1>1 DEF Init, EndsThere, ItemsThere
    <2>3. WellFormed
      BY <1>1 DEF Init, WellFormed, Nested, Nodes
    <2> QED
      BY <2>1, <2>2, <2>3 DEF Structure
  <1>2. ASSUME Structure, Next PROVE Structure'
    <2>1. fault = "none"
      BY <1>2 DEF Next
    <2>2. CASE \E n \in Nodes, p \in Containers \cup {Root} : AddNode(n, p)
      BY <1>2, <2>1, <2>2, AddNodePushes, GoodBecomes DEF Pushes
    <2>3. CASE \E n \in Nodes : RemoveNode(n)
      BY <1>2, <2>1, <2>3, RemoveNodePushes, GoodBecomes DEF Pushes
    <2>4. CASE \E w \in Wires : Connect(w)
      BY <1>2, <2>1, <2>4, ConnectPushes, GoodBecomes DEF Pushes
    <2>5. CASE \E c \in conns : Disconnect(c)
      BY <1>2, <2>1, <2>5, DisconnectPushes, GoodBecomes DEF Pushes
    <2>6. CASE \E n \in Components, p \in Containers : Drag(n, p)
      BY <1>2, <2>1, <2>6, DragKeeps
    <2>7. CASE Undo
      BY <1>2, <2>1, <2>7, UndoKeeps
    <2>8. CASE Redo
      BY <1>2, <2>1, <2>8, RedoKeeps
    <2>9. CASE Clear
      BY <1>2, <2>1, <2>9, ClearKeeps
    <2> QED
      BY <1>2, <2>2, <2>3, <2>4, <2>5, <2>6, <2>7, <2>8, <2>9 DEF Next
  <1>3. ASSUME Structure, UNCHANGED vars PROVE Structure'
    BY <1>3 DEF vars, Structure, TypeOK, EndsThere, EndsInScene, InScene, State,
                ItemsThere, NoItem, WellFormed, Nested, Formed, Saved
  <1> QED
    BY <1>1, <1>2, <1>3

\* The nodes, the connections and the stack keep their types, the stack its limit and
\* the index its range, whatever is undone, redone and dragged, faults included.
THEOREM TypeCorrect == Spec => []TypeOK
  <1>1. Structure => TypeOK
    BY DEF Structure
  <1> QED
    BY <1>1, StructureInductive, PTL DEF Spec

\* No connection outlives a node at one of its ends (removeNodeCommand,
\* AddConnectionCommand::redo, RemoveConnectionCommand::undo), in any order of edits,
\* undos and redos, and none that has a uuid is left at a node that a refused drag took
\* the item from (Facade::cut, removeNodeConnections).
THEOREM EndsKept == Spec => []ConnectionsHaveEnds
  <1>1. Structure => ConnectionsHaveEnds
    BY DEF Structure, EndsThere, ItemsThere, ConnectionsHaveEnds
  <1> QED
    BY <1>1, StructureInductive, PTL DEF Spec

----------------------------------------------------------------------------
(* Every edit continues the history *)

\* The history is a matter of these fields.
LEMMA ToldAlike ==
  ASSUME NEW s, NEW u, Told(s),
         u.parent = s.parent, u.conns = s.conns, u.stack = s.stack,
         u.index = s.index, u.fault = s.fault, u.marks = s.marks
  PROVE  Told(u)
  <1>1. GoneForGood(s) => GoneForGood(u)
    BY DEF GoneForGood
  <1>2. Chained(s) => Chained(u)
    BY DEF Chained
  <1>3. Unconnected(s) => Unconnected(u)
    BY Zenon DEF Unconnected
  <1>4. Moved(s) <=> Moved(u)
    BY Zenon DEF Moved
  <1> QED
    BY <1>1, <1>2, <1>3, <1>4, Zenon DEF Told

LEMMA ToldAppears ==
  ASSUME NEW s, Told(s), NEW out, Appears(s, out)
  PROVE  Told(State)'
  <1>1. /\ State'.parent = s.parent /\ State'.conns = s.conns /\ State'.stack = s.stack
        /\ State'.index = s.index /\ State'.marks = s.marks
        /\ State'.fault \in {s.fault, "no item"}
    BY DEF Appears, State
  <1> DEFINE u == State'
  <1> HIDE DEF u
  <1>2. ASSUME u.fault = s.fault PROVE Told(u)
    BY <1>1, <1>2, ToldAlike, Zenon DEF u
  <1>3. ASSUME u.fault = "no item" PROVE Told(u)
    BY <1>3 DEF Told
  <1>4. Told(u)
    BY <1>1, <1>2, <1>3 DEF u
  <1> QED
    BY <1>4 DEF u, Told, Moved, Chained, GoneForGood, Unconnected

LEMMA ToldBecomes ==
  ASSUME NEW s, Told(s), Become(s)
  PROVE  Told(State)'
  BY ToldAppears DEF Become

\* Of what was dragged or shifted the stack need not tell anything.
LEMMA MovedIsTold ==
  ASSUME NEW s, Moved(s)
  PROVE  Told(s)
  BY DEF Moved, Told

\* An entry that leads somewhere takes away what it removes.
LEMMA RemovedIsGone ==
  ASSUME NEW e \in Entry, Formed(e), Leads(e)
  PROVE  /\ Removed(e) \subseteq Nodes
         /\ Adds(e) => Removed(e) = {}
         /\ \A m \in Removed(e) : e.after[m] = Absent
  <1>1. Len(e.cmds) \in Nat /\ DOMAIN e.cmds = 1 .. Len(e.cmds)
    BY DEF Entry
  <1>2. Removed(e) \subseteq Nodes
    BY DEF Removed
  <1>3. ASSUME Adds(e) PROVE Removed(e) = {}
    <2>1. Len(e.cmds) = 1 /\ e.cmds[1].op = "add"
      BY <1>3, OneAddition
    <2> QED
      BY <1>1, <2>1 DEF Removed, RemovesAt
  <1>4. ASSUME ~Adds(e) PROVE \A m \in Removed(e) : e.after[m] = Absent
    BY <1>2, <1>4 DEF Leads, RestLeads
  <1> QED
    BY <1>2, <1>3, <1>4

\* What the entries that are done have removed is not in the scene.
LEMMA RemovedIsAbsent ==
  ASSUME NEW s, Sound(s), Chained(s), GoneForGood(s), NEW k \in 1 .. s.index,
         NEW m \in Removed(s.stack[k])
  PROVE  s.parent[m] = Absent
  <1>1. s.index \in Nat /\ s.index \in 1 .. Len(s.stack) /\ k \in 1 .. Len(s.stack) /\ k <= s.index
    BY DEF Sound, SceneState
  <1>2. s.stack[s.index].after[m] = Absent
    BY <1>1 DEF GoneForGood
  <1> QED
    BY <1>1, <1>2 DEF Chained

\* An entry that leads from the scene to the next one continues the chain.
LEMMA ChainGrown ==
  ASSUME NEW s, NEW t, NEW e \in Entry, Sound(s), Sound(t), Grown(s, t, e),
         Chained(s), GoneForGood(s), Formed(e), Leads(e),
         e.before = s.parent, e.after = t.parent,
         \A k \in 1 .. s.index : \A m \in Removed(s.stack[k]) : t.parent[m] = Absent
  PROVE  Chained(t) /\ GoneForGood(t)
  <1>1. s.index \in 0 .. Len(s.stack) /\ Len(s.stack) \in Nat /\ Lost(s) \in {0, 1}
        /\ Len(t.stack) \in Nat /\ (Lost(s) = 1 => s.index > 0) /\ s.index \in Nat
    BY DEF Sound, SceneState, Lost, Over
  <1>2. t.index = Len(t.stack) /\ Len(t.stack) = s.index + 1 - Lost(s)
        /\ t.stack[Len(t.stack)] = e
    BY Zenon DEF Grown
  <1> DEFINE n == Len(t.stack)
             l == Lost(s)
  <1>3. \A k \in 1 .. n - 1 : k + l \in 1 .. s.index /\ t.stack[k] = s.stack[k + l]
    <2>1. \A k \in 1 .. s.index - Lost(s) : t.stack[k] = s.stack[k + Lost(s)]
      BY Zenon DEF Grown
    <2> QED
      BY <1>1, <1>2, <2>1
  <1>4. \A k \in 1 .. n : k \in 1 .. n - 1 \/ k = n
    BY <1>1
  <1>5. n \in 1 .. n /\ n \in Nat
    BY <1>1, <1>2
  <1> HIDE DEF n
  <1>6. t.index = n /\ t.stack[n] = e /\ Len(t.stack) = n /\ l \in {0, 1} /\ n = s.index + 1 - l
    BY <1>1, <1>2 DEF n
  <1> HIDE DEF l
  <1>7. \A k \in 1 .. n : Leads(t.stack[k])
    <2>1. \A k \in 1 .. s.index : Leads(s.stack[k])
      BY <1>1 DEF Chained
    <2> QED
      BY <1>3, <1>4, <1>6, <2>1
  <1>8. ASSUME NEW k \in 1 .. n - 1 PROVE t.stack[k].after = t.stack[k + 1].before
    <2>1. CASE k + 1 = n
      <3>1. k + l = s.index /\ s.index > 0
        BY <1>1, <1>3, <1>6, <2>1
      <3>2. t.stack[k].after = s.parent
        BY <1>3, <3>1 DEF Chained
      <3> QED
        BY <1>6, <2>1, <3>2
    <2>2. CASE k + 1 # n
      <3>0. k + 1 \in 1 .. n - 1
        BY <1>5, <2>2
      <3>4. (k + 1) + l \in 1 .. s.index /\ t.stack[k + 1] = s.stack[(k + 1) + l]
        BY <1>3, <3>0
      <3>5. k + l \in 1 .. s.index /\ t.stack[k] = s.stack[k + l]
        BY <1>3
      <3>1. (k + 1) + l = (k + l) + 1 /\ k + l \in 1 .. Len(s.stack) - 1
        BY <1>1, <1>6, <3>4, <3>5
      <3>2. s.stack[k + l].after = s.stack[(k + l) + 1].before
        BY <3>1 DEF Chained
      <3> QED
        BY <3>1, <3>2, <3>4, <3>5
    <2> QED
      BY <2>1, <2>2
  <1>9. Chained(t)
    BY <1>5, <1>6, <1>7, <1>8 DEF Chained
  <1>10. ASSUME NEW k \in 1 .. n, NEW j \in 1 .. n, k <= j, NEW m \in Removed(t.stack[k])
         PROVE  t.stack[j].after[m] = Absent
    <2>1. CASE j \in 1 .. n - 1
      <3>1. k \in 1 .. n - 1
        BY <1>5, <1>10, <2>1
      <3>2. k + l <= j + l /\ k + l \in 1 .. Len(s.stack) /\ j + l \in 1 .. Len(s.stack)
        BY <1>1, <1>3, <1>6, <1>10, <2>1, <3>1
      <3>3. m \in Removed(s.stack[k + l])
        BY <1>3, <1>10, <3>1
      <3>4. s.stack[j + l].after[m] = Absent
        BY <3>2, <3>3 DEF GoneForGood
      <3> QED
        BY <1>3, <2>1, <3>4
    <2>2. CASE j = n /\ k \in 1 .. n - 1
      BY <1>3, <1>6, <1>10, <2>2
    <2>3. CASE j = n /\ k = n
      BY <1>6, <1>10, <2>3, RemovedIsGone
    <2> QED
      BY <1>4, <2>1, <2>2, <2>3
  <1>11. GoneForGood(t)
    BY <1>6, <1>10 DEF GoneForGood
  <1> QED
    BY <1>9, <1>11

\* No connection comes to a node that an entry removes.
LEMMA UnconnectedGrown ==
  ASSUME NEW s, NEW t, NEW e \in Entry, Sound(s), Sound(t), Grown(s, t, e), Unconnected(s),
         \A c \in t.conns : c.wire[1] \notin Removed(e) /\ c.wire[2] \notin Removed(e),
         \A c \in t.conns : c \in s.conns \/ \A k \in 1 .. s.index :
           c.wire[1] \notin Removed(s.stack[k]) /\ c.wire[2] \notin Removed(s.stack[k])
  PROVE  Unconnected(t)
  <1>1. s.index \in 0 .. Len(s.stack) /\ Len(s.stack) \in Nat /\ Lost(s) \in {0, 1}
        /\ Len(t.stack) \in Nat /\ s.index \in Nat
    BY DEF Sound, SceneState, Lost, Over
  <1>2. Len(t.stack) = s.index + 1 - Lost(s) /\ t.stack[Len(t.stack)] = e
    BY Zenon DEF Grown
  <1>3. \A k \in 1 .. s.index - Lost(s) : t.stack[k] = s.stack[k + Lost(s)]
    BY Zenon DEF Grown
  <1> SUFFICES ASSUME NEW k \in 1 .. Len(t.stack), NEW c \in t.conns
               PROVE  c.wire[1] \notin Removed(t.stack[k]) /\ c.wire[2] \notin Removed(t.stack[k])
    BY DEF Unconnected
  <1>4. CASE k = Len(t.stack)
    BY <1>2, <1>4
  <1>5. CASE k # Len(t.stack)
    <2>1. k \in 1 .. s.index - Lost(s) /\ k + Lost(s) \in 1 .. s.index
          /\ k + Lost(s) \in 1 .. Len(s.stack)
      BY <1>1, <1>2, <1>5
    <2>2. t.stack[k] = s.stack[k + Lost(s)]
      BY <1>3, <2>1
    <2> QED
      BY <2>1, <2>2 DEF Unconnected
  <1> QED
    BY <1>4, <1>5

\* A state without a fault that an edit leads to.
Edited(s, t, e) ==
  /\ Sound(s) /\ Sound(t) /\ Grown(s, t, e) /\ e \in Entry /\ Formed(e)
  /\ e.before = s.parent /\ e.after = t.parent
  /\ s.fault = "none" /\ s.at <= 0 /\ Told(s)

LEMMA EditTold ==
  ASSUME NEW s, NEW t, NEW e, Edited(s, t, e),
         Chained(s) /\ GoneForGood(s) =>
           /\ Leads(e)
           /\ \A k \in 1 .. s.index : \A m \in Removed(s.stack[k]) : t.parent[m] = Absent,
         \A c \in t.conns : c.wire[1] \notin Removed(e) /\ c.wire[2] \notin Removed(e),
         \A c \in t.conns : c \in s.conns \/ EndsInScene(s, c.wire)
  PROVE  Told(t)
  <1>0. /\ Sound(s) /\ Sound(t) /\ Grown(s, t, e) /\ e \in Entry /\ Formed(e)
        /\ e.before = s.parent /\ e.after = t.parent /\ s.fault = "none" /\ Told(s)
    BY DEF Edited
  <1>1. t.marks = s.marks /\ t.fault = "none"
    <2>1. ~(s.at > 0) /\ s.at # 1 /\ s.fault = "none"
      <3>1. s.at \in Int /\ s.at <= 0 /\ s.fault = "none"
        BY DEF Edited, Sound, SceneState
      <3> QED
        BY <3>1
    <2> QED
      BY <1>0, <2>1 DEF Grown
  <1>2. ASSUME ~Moved(t) PROVE Chained(t) /\ GoneForGood(t)
    <2>1. Chained(s) /\ GoneForGood(s)
      BY <1>0, <1>1, <1>2 DEF Told, Moved
    <2> QED
      BY <1>0, <2>1, ChainGrown
  <1>3. ASSUME t.marks = {} PROVE Unconnected(t)
    <2>1. Chained(s) /\ GoneForGood(s) /\ Unconnected(s)
      BY <1>0, <1>1, <1>3 DEF Told, Moved
    <2>2. ASSUME NEW c \in t.conns, EndsInScene(s, c.wire), NEW k \in 1 .. s.index
          PROVE  c.wire[1] \notin Removed(s.stack[k]) /\ c.wire[2] \notin Removed(s.stack[k])
      BY <1>0, <2>1, <2>2, RemovedIsAbsent DEF EndsInScene, InScene
    <2> QED
      BY <1>0, <2>1, <2>2, UnconnectedGrown
  <1> QED
    BY <1>1, <1>2, <1>3 DEF Told

LEMMA StateIsTold ==
  ASSUME Structure, fault = "none", Told(State), NEW r, NEW e, Pushes(r, e)
  PROVE  /\ Edited(State, r, e) /\ Sound(State) /\ Strong(State) /\ Ends(State)
         /\ State.parent = parent /\ State.conns = conns /\ State.stack = stack
         /\ State.index = index /\ parent \in Scene /\ conns \in SUBSET Conn /\ Nested(parent)
  <1>1. /\ State.parent = parent /\ State.conns = conns /\ State.stack = stack
        /\ State.index = index /\ State.fault = "none" /\ State.at <= 0
    BY DEF State
  <1>2. Good(State) /\ Good(r)
    BY StateIsGood DEF Pushes
  <1>3. Sound(State) /\ Strong(State) /\ Ends(State) /\ Sound(r)
    BY <1>1, <1>2, Zenon DEF Good
  <1>4. parent \in Scene /\ conns \in SUBSET Conn /\ Nested(parent)
    BY <1>1, <1>3 DEF Sound, SceneState, Strong
  <1>5. Edited(State, r, e)
    BY <1>1, <1>3, Zenon DEF Edited, Pushes
  <1> QED
    BY <1>1, <1>3, <1>4, <1>5

LEMMA AddNodeTold ==
  ASSUME Structure, fault = "none", Told(State), NEW n \in Nodes,
         NEW p \in Containers \cup {Root}, AddNode(n, p)
  PROVE  Told(State)'
  <1>1. PICK r, e : /\ Pushes(r, e) /\ e.cmds = <<AddOf(n, Empty)>>
                    /\ r.parent = [parent EXCEPT ![n] = p] /\ r.conns = conns
    BY AddNodePushes
  <1> DEFINE s == State
  <1>2. /\ Edited(s, r, e) /\ Sound(s) /\ Strong(s)
        /\ s.parent = parent /\ s.conns = conns /\ s.stack = stack
        /\ s.index = index /\ parent \in Scene /\ Nested(parent)
    BY <1>1, StateIsTold
  <1>3. e \in Entry /\ Formed(e) /\ e.before = parent /\ e.after = r.parent /\ Become(r)
    BY <1>1 DEF Pushes
  <1>4. parent[n] = Absent
    BY DEF AddNode, Fresh
  <1>5. \A k \in 1 .. Len(stack) : \A c \in Range(stack[k].cmds) :
          c.op \in {"add", "remove"} => c.node # n
    <2>1. stack \in Seq(Entry)
      BY DEF Structure, TypeOK
    <2>2. \A x \in Range(stack) : \A c \in Range(x.cmds) :
            c.op \in {"add", "remove"} => c.node # n
      BY DEF AddNode, Fresh
    <2> QED
      BY <2>1, <2>2 DEF Range
  <1>6. p # Root => parent[p] # Absent
    BY DEF AddNode
  <1> HIDE DEF s
  <1> DEFINE c == AddOf(n, Empty)
  <1>7. c.op = "add" /\ c.node = n /\ c.saved = Empty
    BY DEF AddOf
  <1> HIDE DEF c
  <1>8. e.cmds[1] = c /\ DOMAIN e.cmds = {1} /\ 1 \in DOMAIN e.cmds
    BY <1>1 DEF c
  <1>9. Adds(e) /\ Removed(e) = {}
    BY <1>7, <1>8 DEF Adds, Removed, RemovesAt
  <1>10. ASSUME NEW k \in 1 .. s.index, NEW m \in Removed(s.stack[k])
         PROVE  m # n /\ m \in Nodes
    <2>1. k \in 1 .. Len(stack) /\ stack[k] \in Entry
      BY <1>2 DEF Sound, SceneState
    <2>2. m \in Nodes
      BY DEF Removed
    <2>3. PICK i \in DOMAIN stack[k].cmds : RemovesAt(stack[k], i, m)
      BY <1>2 DEF Removed
    <2>4. stack[k].cmds[i] \in Range(stack[k].cmds)
      BY <2>3 DEF Range
    <2> QED
      BY <1>5, <2>1, <2>2, <2>3, <2>4 DEF RemovesAt
  <1>11. ASSUME Chained(s), GoneForGood(s)
         PROVE  /\ Leads(e)
                /\ \A k \in 1 .. s.index : \A m \in Removed(s.stack[k]) : r.parent[m] = Absent
    <2>1. Root # Absent /\ Root \notin Nodes /\ Absent \notin Nodes
      BY DEF Root, Absent
    <2>2. p # Absent /\ r.parent[n] = p /\ \A m \in Nodes : m # n => r.parent[m] = parent[m]
      BY <1>1, <1>2, <2>1 DEF Scene, Nodes
    <2>3. \A m \in Nodes : parent[m] # n
      <3> SUFFICES ASSUME NEW m \in Nodes, parent[m] = n PROVE FALSE
        OBVIOUS
      <3>1. n \in Containers /\ m \notin Containers
        BY <1>2, <2>1 DEF Scene, Nested
      <3>2. m \in Components /\ parent[m] \in Containers
        BY <3>1 DEF Nodes
      <3>3. parent[parent[m]] # Absent
        BY <1>2, <3>2 DEF Nested
      <3> QED
        BY <1>4, <3>3
    <2>4. p \in Containers => parent[p] # Absent
      BY <1>6, <2>1 DEF Nodes
    <2>5. AddLeads(e)
      <3> DEFINE b == e.before
                 a == e.after
      <3>1. b = parent /\ a = [b EXCEPT ![n] = p] /\ a[n] = p
        BY <1>1, <1>3, <2>2
      <3> HIDE DEF a, b
      <3>2. b[n] = Absent /\ \A m \in Nodes : b[m] # n
        BY <1>4, <2>3, <3>1
      <3>3. a[n] # Absent /\ (a[n] \in Containers => b[a[n]] # Absent)
            /\ a = [b EXCEPT ![n] = a[n]] /\ Empty \in {Empty, a[n]}
        BY <2>2, <2>4, <3>1
      <3>4. e.cmds[1].node = n /\ e.cmds[1].saved = Empty
        BY <1>7, <1>8
      <3> QED
        BY <3>2, <3>3, <3>4, Zenon DEF AddLeads, a, b
    <2>6. \A k \in 1 .. s.index : \A m \in Removed(s.stack[k]) : s.parent[m] = Absent
      BY <1>2, <1>11, RemovedIsAbsent
    <2>7. \A k \in 1 .. s.index : \A m \in Removed(s.stack[k]) : r.parent[m] = Absent
      BY <1>2, <1>10, <2>2, <2>6
    <2> QED
      BY <1>9, <2>5, <2>7 DEF Leads
  <1>12. Told(r)
    BY <1>1, <1>2, <1>9, <1>11, EditTold
  <1> QED
    BY <1>3, <1>12, ToldBecomes

\* An entry with one command for a connection leads nowhere.
LEMMA ConnectionLeads ==
  ASSUME NEW e \in Entry, NEW c \in Command, c.op \in {"connect", "disconnect"},
         e.cmds = <<c>>, e.after = e.before,
         e.before[c.conn.wire[1]] # Absent, e.before[c.conn.wire[2]] # Absent
  PROVE  Leads(e) /\ ~Adds(e) /\ Removed(e) = {}
  <1>1. e.before \in Scene /\ e.cmds[1] = c /\ DOMAIN e.cmds = {1} /\ c.op # "add" /\ c.op # "remove"
    BY DEF Entry
  <1>2. ~Adds(e) /\ Removed(e) = {}
    BY <1>1 DEF Adds, Removed, RemovesAt
  <1>3. e.after = [m \in Nodes |-> IF m \in Removed(e) THEN Absent ELSE e.before[m]]
    BY <1>1, <1>2 DEF Scene
  <1>4. \A j \in 1 .. 1 : e.cmds[j].op # "remove"
    BY <1>1
  <1>5. RestLeads(e)
    <2> SUFFICES ASSUME NEW i \in DOMAIN e.cmds
                 PROVE  LET d == e.cmds[i]
                        IN  /\ d.op # "add"
                            /\ d.op \in {"connect", "disconnect"} =>
                                 /\ e.before[d.conn.wire[1]] # Absent
                                 /\ e.before[d.conn.wire[2]] # Absent
                                 /\ \A j \in 1 .. i : e.cmds[j].op # "remove"
                            /\ d.op # "remove"
      BY <1>3, Zenon DEF RestLeads
    <2>1. i = 1 /\ e.cmds[i] = c
      BY <1>1
    <2> QED
      BY <1>1, <1>4, <2>1
  <1> QED
    BY <1>2, <1>5 DEF Leads

LEMMA ConnectTold ==
  ASSUME Structure, fault = "none", Told(State), NEW w \in Wires, Connect(w)
  PROVE  Told(State)'
  <1> DEFINE x == [wire |-> w, uid |-> nextUid]
             c == JoinOf(w, nextUid)
             s == State
  <1>1. PICK r, e : /\ Pushes(r, e) /\ e.cmds = <<c>>
                    /\ r.parent = parent /\ r.conns = conns \cup {x}
    BY ConnectPushes
  <1>2. /\ Edited(s, r, e) /\ Sound(s) /\ s.parent = parent /\ s.conns = conns
        /\ s.index = index
    BY <1>1, StateIsTold
  <1>3. e \in Entry /\ Formed(e) /\ e.before = parent /\ e.after = r.parent /\ Become(r)
    BY <1>1 DEF Pushes
  <1>4. EndsInScene(s, w) /\ x \in Conn /\ c \in Command
    <2>1. EndsInScene(s, w) /\ nextUid \in 0 .. MaxUid
      BY DEF Connect, Structure, TypeOK
    <2>2. x \in Conn
      BY <2>1 DEF Conn
    <2> QED
      BY <2>1, <2>2, CommandTypes DEF JoinOf
  <1>5. c.op = "connect" /\ c.conn.wire = w /\ x.wire = w
    BY DEF JoinOf, ConnectOf
  <1> HIDE DEF s, c, x
  <1>6. parent[w[1]] # Absent /\ parent[w[2]] # Absent
    BY <1>2, <1>4 DEF EndsInScene, InScene
  <1>7. Leads(e) /\ Removed(e) = {}
    BY <1>1, <1>3, <1>4, <1>5, <1>6, ConnectionLeads
  <1>8. \A d \in r.conns : d \in s.conns \/ EndsInScene(s, d.wire)
    BY <1>1, <1>2, <1>4, <1>5
  <1>9. Chained(s) /\ GoneForGood(s) =>
          \A k \in 1 .. s.index : \A m \in Removed(s.stack[k]) : r.parent[m] = Absent
    BY <1>1, <1>2, RemovedIsAbsent
  <1>10. Told(r)
    BY <1>2, <1>7, <1>8, <1>9, EditTold
  <1> QED
    BY <1>3, <1>10, ToldBecomes

LEMMA DisconnectTold ==
  ASSUME Structure, fault = "none", Told(State), NEW x \in conns, Disconnect(x)
  PROVE  Told(State)'
  <1> DEFINE c == DisconnectOf(x)
             s == State
  <1>1. PICK r, e : /\ Pushes(r, e) /\ e.cmds = <<c>>
                    /\ r.parent = parent /\ r.conns = conns \ {x}
    BY DisconnectPushes
  <1>2. /\ Edited(s, r, e) /\ Sound(s) /\ Ends(s) /\ s.parent = parent /\ s.conns = conns
        /\ s.index = index /\ conns \in SUBSET Conn
    BY <1>1, StateIsTold
  <1>3. e \in Entry /\ Formed(e) /\ e.before = parent /\ e.after = r.parent /\ Become(r)
    BY <1>1 DEF Pushes
  <1>4. x \in Conn /\ c \in Command
    BY <1>2, CommandTypes
  <1>5. c.op = "disconnect" /\ c.conn = x
    BY DEF DisconnectOf
  <1> HIDE DEF s, c
  <1>6. parent[x.wire[1]] # Absent /\ parent[x.wire[2]] # Absent
    BY <1>2 DEF Ends, EndsInScene, InScene
  <1>7. Leads(e) /\ Removed(e) = {}
    BY <1>1, <1>3, <1>4, <1>5, <1>6, ConnectionLeads
  <1>8. \A d \in r.conns : d \in s.conns
    BY <1>1, <1>2
  <1>9. Chained(s) /\ GoneForGood(s) =>
          \A k \in 1 .. s.index : \A m \in Removed(s.stack[k]) : r.parent[m] = Absent
    BY <1>1, <1>2, RemovedIsAbsent
  <1>10. Told(r)
    BY <1>2, <1>7, <1>8, <1>9, EditTold
  <1> QED
    BY <1>3, <1>10, ToldBecomes

\* Nobody is in a family twice, and only a container has children.
LEMMA FamilyIsFlat ==
  ASSUME NEW s, s.parent \in Scene, Nested(s.parent), NEW n \in Nodes
  PROVE  /\ s.parent[n] # n /\ n \notin Children(s, n)
         /\ \A m \in Children(s, n) : n \in Containers /\ m \notin Containers /\ Children(s, m) = {}
         /\ s.parent[n] \in Containers =>
              s.parent[n] \notin Family(s, n) /\ s.parent[s.parent[n]] # Absent
  <1> DEFINE p == s.parent
  <1>1. p \in [Nodes -> Containers \cup {Root, Absent}] /\ \A k \in Containers : p[k] \in {Root, Absent}
    BY DEF Scene, Nested
  <1>2. Root \notin Nodes /\ Absent \notin Nodes /\ \A k \in Containers : k \in Nodes
    BY DEF Nodes
  <1>3. ASSUME NEW a \in Nodes, NEW b \in Nodes, p[a] = b
        PROVE  b \in Containers /\ a \notin Containers
    BY <1>1, <1>2, <1>3
  <1> HIDE DEF p
  <1>4. p[n] # n
    BY <1>3
  <1>5. ASSUME NEW m \in Nodes, p[m] = n
        PROVE  n \in Containers /\ m \notin Containers /\ \A q \in Nodes : p[q] # m
    BY <1>3, <1>5
  <1>6. ASSUME p[n] \in Containers
        PROVE  p[n] \in Nodes /\ p[p[n]] # n /\ p[p[n]] # Absent
    <2>1. p[n] \in Nodes
      BY <1>2, <1>6
    <2>2. n \in Components
      BY <1>3, <2>1 DEF Nodes
    <2> QED
      BY <1>3, <1>6, <2>1, <2>2 DEF Nested, p
  <1>7. \A m \in Nodes : (m \in Children(s, n) <=> p[m] = n)
    BY DEF Children, p
  <1>8. \A m \in Children(s, n) : m \in Nodes /\ Children(s, m) = {q \in Nodes : p[q] = m}
    BY DEF Children, p
  <1>9. n \notin Children(s, n)
    BY <1>4, <1>7
  <1>10. \A m \in Children(s, n) : n \in Containers /\ m \notin Containers /\ Children(s, m) = {}
    BY <1>5, <1>7, <1>8
  <1>11. p[n] \in Containers => p[n] \notin Family(s, n) /\ p[p[n]] # Absent
    BY <1>4, <1>6, <1>7 DEF Family
  <1> QED
    BY <1>4, <1>9, <1>10, <1>11 DEF p

\* The commands of a removal: the connections, the children, the node.
Removal(s, n, e) ==
  /\ e.cmds = Append(Pulled(s, n), RemoveOf(n, s.parent[n]))
  /\ e.before = s.parent /\ e.after = Without(s.parent, Family(s, n))

LEMMA RemovalLeads ==
  ASSUME NEW s, s.parent \in Scene, Nested(s.parent), s.conns \in SUBSET Conn, Ends(s),
         NEW n \in Nodes, s.parent[n] # Absent, NEW e \in Entry, Removal(s, n, e)
  PROVE  ~Adds(e) /\ Removed(e) = Family(s, n) /\ RestLeads(e)
  <1> DEFINE l == Pulled(s, n)
             N == Len(l)
             p == s.parent
             c == RemoveOf(n, p[n])
             E == e.cmds
  <1>1. PulledWell(s, n, l)
    BY PulledList
  <1>2. l \in Seq(Command) /\ N \in Nat /\ E = Append(l, c) /\ e.before = p
        /\ e.after = Without(p, Family(s, n))
    BY <1>1 DEF PulledWell, Removal
  <1>3. c.op = "remove" /\ c.node = n /\ c.saved = p[n]
    BY DEF RemoveOf
  <1> HIDE DEF l, c
  <1>4. DOMAIN E = 1 .. N + 1 /\ Len(E) = N + 1 /\ E[N + 1] = c /\ \A i \in 1 .. N : E[i] = l[i]
    BY <1>2
  <1> HIDE DEF N, E
  <1>5. /\ p[n] # n /\ n \notin Children(s, n)
        /\ \A m \in Children(s, n) : n \in Containers /\ m \notin Containers /\ Children(s, m) = {}
        /\ p[n] \in Containers => p[n] \notin Family(s, n) /\ p[p[n]] # Absent
    BY FamilyIsFlat
  <1>6. Children(s, n) \subseteq Nodes /\ \A m \in Nodes : m \in Children(s, n) <=> p[m] = n
    BY DEF Children
  <1> HIDE DEF p
  <1>7. \A i \in 1 .. N + 1 : i \in 1 .. N \/ i = N + 1
    BY <1>2 DEF N
  <1>8. \A i \in 1 .. N : i \in 1 .. N + 1 /\ i < N + 1
    BY <1>2 DEF N
  <1>9. ASSUME NEW i \in 1 .. N
        PROVE  \/ E[i].op = "disconnect" /\ E[i].conn \in ConnsOf(s, n)
               \/ E[i].op = "remove" /\ E[i].node \in Children(s, n) /\ E[i].saved = n
    BY <1>1, <1>4 DEF PulledWell, N
  <1>10. \A m \in Children(s, n) : \E i \in 1 .. N : RemovesAt(e, i, m)
    BY <1>1, <1>4 DEF PulledWell, N, RemovesAt, E
  <1>11. E[N + 1].op = "remove" /\ E[N + 1].node = n /\ E[N + 1].saved = p[n]
    BY <1>3, <1>4
  <1>12. N + 1 \in 1 .. N + 1
    BY <1>2 DEF N
  <1>13. RemovesAt(e, N + 1, n)
    BY <1>11 DEF RemovesAt, E
  <1>14. \A i \in 1 .. N, m \in Nodes : RemovesAt(e, i, m) => m \in Children(s, n)
    BY <1>9 DEF RemovesAt, E
  <1>15. \A m \in Nodes : RemovesAt(e, N + 1, m) => m = n
    BY <1>11 DEF RemovesAt, E
  <1>16. Removed(e) = Family(s, n)
    <2>1. \A m \in Removed(e) : m \in Family(s, n)
      BY <1>4, <1>7, <1>14, <1>15 DEF Removed, Family, E
    <2>2. \A m \in Family(s, n) : m \in Removed(e)
      BY <1>4, <1>6, <1>8, <1>10, <1>12, <1>13 DEF Removed, Family, E
    <2> QED
      BY <2>1, <2>2
  <1>17. ~Adds(e)
    BY <1>4, <1>7, <1>9, <1>11 DEF Adds, E
  <1>18. e.after = [m \in Nodes |-> IF m \in Removed(e) THEN Absent ELSE e.before[m]]
    BY <1>2, <1>16 DEF Without
  <1>19. ASSUME NEW i \in 1 .. N + 1, E[i].op \in {"connect", "disconnect"}
         PROVE  /\ p[E[i].conn.wire[1]] # Absent /\ p[E[i].conn.wire[2]] # Absent
                /\ \A j \in 1 .. i : E[j].op # "remove"
    <2>1. i \in 1 .. N /\ E[i].op = "disconnect" /\ E[i].conn \in ConnsOf(s, n)
      BY <1>7, <1>9, <1>11, <1>19
    <2>2. E[i].conn \in s.conns
      BY <2>1 DEF ConnsOf
    <2>3. \A j \in 1 .. i : j \in 1 .. N /\ ~(i < j)
      BY <1>2, <2>1 DEF N
    <2>4. \A j \in 1 .. N : E[j].op = "remove" => i < j
      BY <1>1, <1>4, <2>1 DEF PulledWell, N
    <2> QED
      BY <2>2, <2>3, <2>4 DEF Ends, EndsInScene, InScene, p
  <1>20. ASSUME NEW i \in 1 .. N, E[i].op = "remove"
         PROVE  LET d == E[i]
                IN  /\ d.saved = p[d.node] /\ p[d.node] # Absent
                    /\ \A j \in 1 .. N + 1 : RemovesAt(e, j, d.node) => j = i
                    /\ \A m \in Nodes : p[m] # d.node
                    /\ RemovesAt(e, N + 1, d.saved)
    <2> DEFINE d == E[i]
    <2>1. d.node \in Children(s, n) /\ d.saved = n
      BY <1>9, <1>20
    <2>2. d.node \in Nodes /\ p[d.node] = n /\ d.node # n
      BY <1>5, <1>6, <2>1
    <2>3. n # Absent
      BY DEF Absent
    <2>4. \A m \in Nodes : p[m] # d.node
      <3>1. Children(s, d.node) = {}
        BY <1>5, <2>1
      <3> QED
        BY <3>1 DEF Children, p
    <2>5. ASSUME NEW j \in 1 .. N + 1, RemovesAt(e, j, d.node) PROVE j = i
      <3>1. j \in 1 .. N
        BY <1>7, <1>15, <2>2, <2>5
      <3>2. E[j].op = "remove" /\ E[j].node = E[i].node
        BY <2>5 DEF RemovesAt, E
      <3>3. l[j].op = "remove" /\ l[i].op = "remove" /\ l[j].node = l[i].node
        BY <1>4, <1>20, <3>1, <3>2
      <3> QED
        BY <1>1, <3>1, <3>3 DEF PulledWell, N
    <2> QED
      BY <1>13, <2>1, <2>2, <2>3, <2>4, <2>5
  <1>21. /\ \A j \in 1 .. N + 1 : RemovesAt(e, j, n) => j = N + 1
         /\ \A m \in Nodes : p[m] = n => \E j \in 1 .. N : RemovesAt(e, j, m)
         /\ p[n] \in Containers => e.after[p[n]] # Absent
    <2>1. \A j \in 1 .. N + 1 : RemovesAt(e, j, n) => j = N + 1
      BY <1>5, <1>7, <1>14
    <2>2. \A m \in Nodes : p[m] = n => \E j \in 1 .. N : RemovesAt(e, j, m)
      BY <1>6, <1>10
    <2>3. p[n] \in Containers => e.after[p[n]] # Absent
      BY <1>2, <1>5 DEF Without, Nodes
    <2> QED
      BY <2>1, <2>2, <2>3
  <1>22. N + 1 - 1 = N /\ p[n] # Absent /\ \A i \in 1 .. N : N + 1 \in i + 1 .. N + 1
    BY <1>2 DEF N, p
  <1>23. RestLeads(e)
    <2> SUFFICES ASSUME NEW i \in DOMAIN e.cmds
        PROVE
          LET d == e.cmds[i]
          IN  /\ d.op # "add"
              /\ d.op \in {"connect", "disconnect"} =>
                   /\ e.before[d.conn.wire[1]] # Absent /\ e.before[d.conn.wire[2]] # Absent
                   /\ \A j \in 1 .. i : e.cmds[j].op # "remove"
              /\ d.op = "remove" =>
                   /\ d.saved = e.before[d.node] /\ e.before[d.node] # Absent
                   /\ \A j \in DOMAIN e.cmds : RemovesAt(e, j, d.node) => j = i
                   /\ \A m \in Nodes : e.before[m] = d.node =>
                        \E j \in 1 .. i - 1 : RemovesAt(e, j, m)
                   /\ d.saved \in Containers /\ e.after[d.saved] = Absent =>
                        \E j \in i + 1 .. Len(e.cmds) : RemovesAt(e, j, d.saved)
      BY <1>18, Zenon DEF RestLeads
    <2>1. i \in 1 .. N + 1 /\ E[i].op # "add" /\ (i \in 1 .. N \/ i = N + 1)
      BY <1>4, <1>7, <1>9, <1>11 DEF E
    <2>2. /\ E[i].op \in {"connect", "disconnect"} =>
               /\ e.before[E[i].conn.wire[1]] # Absent /\ e.before[E[i].conn.wire[2]] # Absent
               /\ \A j \in 1 .. i : E[j].op # "remove"
      BY <1>2, <1>19, <2>1
    <2>3. CASE i \in 1 .. N
      <3>1. E[i].op = "remove" =>
              /\ E[i].saved = e.before[E[i].node] /\ e.before[E[i].node] # Absent
              /\ \A j \in DOMAIN E : RemovesAt(e, j, E[i].node) => j = i
              /\ \A m \in Nodes : e.before[m] # E[i].node
              /\ \E j \in i + 1 .. Len(E) : RemovesAt(e, j, E[i].saved)
        BY <1>2, <1>4, <1>20, <1>22, <2>3
      <3> QED
        BY <2>1, <2>2, <3>1, Zenon DEF E
    <2>4. CASE i = N + 1
      <3>1. /\ E[i].saved = e.before[E[i].node] /\ e.before[E[i].node] # Absent
            /\ \A j \in DOMAIN E : RemovesAt(e, j, E[i].node) => j = i
            /\ \A m \in Nodes : e.before[m] = E[i].node =>
                 \E j \in 1 .. i - 1 : RemovesAt(e, j, m)
            /\ E[i].saved \in Containers => e.after[E[i].saved] # Absent
        BY <1>2, <1>4, <1>11, <1>21, <1>22, <2>4
      <3> QED
        BY <2>1, <2>2, <3>1, Zenon DEF E
    <2> QED
      BY <2>1, <2>3, <2>4
  <1> QED
    BY <1>16, <1>17, <1>23

LEMMA RemoveNodeTold ==
  ASSUME Structure, fault = "none", Told(State), NEW n \in Nodes, RemoveNode(n)
  PROVE  Told(State)'
  <1> DEFINE s == State
  <1>1. PICK r, e : /\ Pushes(r, e) /\ e.cmds = Append(Pulled(s, n), RemoveOf(n, parent[n]))
                    /\ r.parent = Without(parent, Family(s, n))
                    /\ r.conns = conns \ ConnsOf(s, n)
    BY RemoveNodePushes
  <1>2. /\ Edited(s, r, e) /\ Sound(s) /\ Ends(s) /\ s.parent = parent /\ s.conns = conns
        /\ s.index = index /\ parent \in Scene /\ conns \in SUBSET Conn /\ Nested(parent)
    BY <1>1, StateIsTold
  <1>3. e \in Entry /\ Formed(e) /\ e.before = parent /\ e.after = r.parent /\ Become(r)
    BY <1>1 DEF Pushes
  <1>4. parent[n] # Absent
    BY DEF RemoveNode
  <1> HIDE DEF s
  <1>5. Removal(s, n, e)
    BY <1>1, <1>2, <1>3 DEF Removal
  <1>6. ~Adds(e) /\ Removed(e) = Family(s, n) /\ RestLeads(e)
    BY <1>2, <1>3, <1>4, <1>5, RemovalLeads
  <1>7. Leads(e)
    BY <1>6 DEF Leads
  <1>8. \A c \in r.conns : c.wire[1] \notin Removed(e) /\ c.wire[2] \notin Removed(e)
    BY <1>1, <1>2, <1>6 DEF ConnsOf
  <1>9. \A c \in r.conns : c \in s.conns
    BY <1>1, <1>2
  <1>10. ASSUME Chained(s), GoneForGood(s), NEW k \in 1 .. s.index, NEW m \in Removed(s.stack[k])
         PROVE  r.parent[m] = Absent
    <2>1. s.parent[m] = Absent
      BY <1>2, <1>10, RemovedIsAbsent
    <2>2. m \in Nodes
      BY DEF Removed
    <2> QED
      BY <1>1, <1>2, <2>1, <2>2 DEF Without
  <1>11. Told(r)
    BY <1>2, <1>7, <1>8, <1>9, <1>10, EditTold
  <1> QED
    BY <1>3, <1>11, ToldBecomes

\* Cutting connections leads nowhere, one command after the other.
LEMMA CutsTold ==
  ASSUME NEW s, Sound(s), Ends(s), s.fault = "none", s.at <= 0, Told(s),
         NEW list \in Seq(Command),
         \A i \in 1 .. Len(list) : list[i].op = "disconnect" /\ list[i].conn \in s.conns
  PROVE  Told(PushedAll(s, list))
  <1> DEFINE n == Len(list)
  <1>1. n \in Nat /\ \A i \in 1 .. n : list[i] \in Command
    OBVIOUS
  <1>2. PICK run : PushRun(run, s, list)
    BY <1>1, PushRunExists
  <1>3. run[0] = s /\ \A i \in 1 .. n : run[i] = PushedRun(run[i - 1], list[i])
    BY <1>2, Zenon DEF PushRun
  <1>4. PushedAll(s, list) = run[n]
    BY <1>2, Zenon DEF PushRun
  <1> DEFINE Fits(t) == /\ Sound(t) /\ t.parent = s.parent /\ t.conns \subseteq s.conns
                        /\ t.fault = "none" /\ t.at <= 0 /\ Told(t)
             P == {i \in 0 .. n : Fits(run[i])}
  <1>5. \A i \in 1 .. n : list[i].op = "disconnect" /\ list[i].conn \in s.conns
    OBVIOUS
  <1> HIDE DEF n
  <1>6. 0 \in P
    BY <1>1, <1>3
  <1>7. ASSUME NEW i \in 1 .. n, i - 1 \in P PROVE i \in P
    <2> DEFINE r == run[i - 1]
               t == run[i]
               c == list[i]
               e == [cmds |-> <<c>>, before |-> r.parent, after |-> t.parent]
    <2>1. Fits(r)
      BY <1>7
    <2>2. c \in Command /\ c.op = "disconnect" /\ c.conn \in s.conns /\ t = PushedRun(r, c)
      BY <1>1, <1>3, <1>5
    <2> HIDE DEF r, t, c
    <2>3. /\ Sound(t) /\ Grown(r, t, e) /\ e \in Entry
          /\ t.parent = ParentAfter(r.parent, c) /\ t.conns = ConnsAfter(r.conns, c)
      BY <2>1, <2>2, PushedRunFields
    <2>4. t.parent = s.parent /\ t.conns \subseteq r.conns
      BY <2>1, <2>2, <2>3 DEF ParentAfter, ConnsAfter
    <2>5. /\ e.cmds = <<c>> /\ e.before = r.parent /\ e.after = t.parent
          /\ e.cmds[1] = c /\ DOMAIN e.cmds = {1} /\ Len(e.cmds) = 1
      OBVIOUS
    <2> HIDE DEF e
    <2>6. Formed(e)
      BY <2>2, <2>5 DEF Formed
    <2>7. e.before[c.conn.wire[1]] # Absent /\ e.before[c.conn.wire[2]] # Absent
      BY <2>1, <2>2, <2>5 DEF Ends, EndsInScene, InScene
    <2>8. Leads(e) /\ Removed(e) = {}
      BY <2>1, <2>2, <2>3, <2>4, <2>5, <2>7, ConnectionLeads
    <2>9. Edited(r, t, e)
      BY <2>1, <2>3, <2>5, <2>6 DEF Edited
    <2>10. Chained(r) /\ GoneForGood(r) =>
             \A k \in 1 .. r.index : \A m \in Removed(r.stack[k]) : t.parent[m] = Absent
      BY <2>1, <2>4, RemovedIsAbsent
    <2>11. \A d \in t.conns : d \in r.conns
      BY <2>4
    <2>12. Told(t)
      BY <2>8, <2>9, <2>10, <2>11, EditTold
    <2>13. t.fault = "none" /\ t.at <= 0
      <3>1. r.at \in Int /\ r.at <= 0 /\ r.fault = "none" /\ Lost(r) \in {0, 1}
        BY <2>1 DEF Sound, SceneState, Lost
      <3>2. t.at = r.at - Lost(r) /\ (r.at = 1 \/ t.fault = r.fault)
        BY <2>3, Zenon DEF Grown
      <3> QED
        BY <3>1, <3>2
    <2>14. Fits(t)
      BY <2>1, <2>3, <2>4, <2>12, <2>13
    <2> HIDE DEF Fits
    <2> QED
      BY <1>1, <2>14 DEF t
  <1>8. n \in P
    <2> HIDE DEF P
    <2>1. \A i \in 0 .. n : i \in P
      BY <1>1, <1>6, <1>7, UpTo
    <2> QED
      BY <1>1, <2>1
  <1> QED
    BY <1>4, <1>8

\* A refused drag moves no node, so the stack tells of the scene as before.
LEMMA DragRefusedTold ==
  ASSUME Structure, fault = "none", Told(State), NEW n \in Components, DragRefused(n)
  PROVE  Told(State)'
  <1>1. PICK out \in Keyed(ConnsOf(State, n)) : Appears(Cut(SetToSeq(out)), hidden \cup {n})
    BY Zenon DEF DragRefused
  <1> DEFINE s == State
             cs == SetToSeq(out)
             list == [i \in DOMAIN cs |-> DisconnectOf(cs[i])]
             u == Cut(cs)
  <1>2. Good(s) /\ s.conns = conns /\ s.fault = "none" /\ s.at <= 0 /\ Told(s)
    BY StateIsGood DEF State
  <1>3. n \in Nodes
    BY DEF Nodes
  <1>4. cs \in Seq(conns)
    BY <1>3, CutKeeps
  <1>5. u = PushedAll(s, list)
    BY Zenon DEF Cut
  <1> HIDE DEF s, cs
  <1>6. Sound(s) /\ Ends(s) /\ conns \in SUBSET Conn
    BY <1>2 DEF Good, Sound, SceneState
  <1>7. /\ list \in Seq(Command)
        /\ \A i \in 1 .. Len(list) : list[i].op = "disconnect" /\ list[i].conn \in s.conns
    <2>1. \A i \in 1 .. Len(cs) : cs[i] \in conns /\ cs[i] \in Conn
      BY <1>4, <1>6
    <2>2. \A i \in 1 .. Len(cs) : list[i] \in Command
      BY <1>4, <2>1, CommandTypes
    <2>3. \A i \in 1 .. Len(cs) : list[i].op = "disconnect" /\ list[i].conn = cs[i]
      BY <1>4 DEF DisconnectOf
    <2>4. list \in Seq(Command) /\ Len(list) = Len(cs)
      <3>1. Len(cs) \in Nat /\ DOMAIN cs = 1 .. Len(cs)
        BY <1>4
      <3>2. DOMAIN list = 1 .. Len(cs) /\ \A i \in DOMAIN list : list[i] \in Command
        BY <2>2, <3>1
      <3>3. list = [i \in 1 .. Len(cs) |-> list[i]]
        BY <3>1
      <3> HIDE DEF list
      <3> QED
        BY <3>1, <3>2, <3>3
    <2> QED
      BY <1>2, <2>1, <2>3, <2>4
  <1> HIDE DEF list
  <1>8. Told(u)
    BY <1>2, <1>5, <1>6, <1>7, CutsTold
  <1>9. Appears(u, hidden \cup {n})
    BY <1>1 DEF cs
  <1> QED
    BY <1>8, <1>9, ToldAppears

\* Any other drag either is marked or finds no item.
LEMMA DragTold ==
  ASSUME Structure, fault = "none", Told(State),
         NEW n \in Components, NEW p \in Containers, Drag(n, p)
  PROVE  Told(State)'
  <1> DEFINE u == State'
  <1>1. u.marks = marks' /\ u.fault = fault'
    BY DEF State
  <1> HIDE DEF u
  <1>2. CASE DragFromMain(n, p) \/ DragPasted(n, p)
    <2>1. "dragged" \in marks'
      BY <1>2, DragEnds, DragFromMainKeeps, DragPastedKeeps
    <2>2. Told(u)
      BY <1>1, <2>1, MovedIsTold DEF Moved
    <2> QED
      BY <2>2 DEF u, Told, Moved, Chained, GoneForGood, Unconnected
  <1>3. CASE DragHidden
    <2>1. u.fault = "no item"
      BY <1>1, <1>3 DEF DragHidden
    <2>2. Told(u)
      BY <2>1 DEF Told
    <2> QED
      BY <2>2 DEF u, Told, Moved, Chained, GoneForGood, Unconnected
  <1>4. CASE DragRefused(n)
    BY <1>4, DragRefusedTold
  <1> QED
    BY <1>2, <1>3, <1>4, DragEnds

\* With nothing on the stack and no fault there is nothing to tell.
LEMMA NothingTold ==
  ASSUME NEW s, s.stack = <<>>, s.index = 0, s.fault = "none"
  PROVE  Told(s)
  <1>1. Chained(s) /\ GoneForGood(s) /\ Unconnected(s)
    BY DEF Chained, GoneForGood, Unconnected
  <1> QED
    BY <1>1, Zenon DEF Told

LEMMA ClearTold ==
  ASSUME fault = "none", Clear
  PROVE  Told(State)'
  <1>1. (State').stack = <<>> /\ (State').index = 0 /\ (State').fault = "none"
    BY DEF State, Clear
  <1> DEFINE u == State'
  <1> HIDE DEF u
  <1>2. u.stack = <<>> /\ u.index = 0 /\ u.fault = "none"
    BY <1>1, Zenon DEF u
  <1>3. Told(u)
    BY <1>2, NothingTold
  <1> QED
    BY <1>3 DEF u, Told, Moved, Chained, GoneForGood, Unconnected

----------------------------------------------------------------------------
(* Undo and redo lead along it *)

\* An entry that tells the same story.
Like(e, f) ==
  /\ f.before = e.before /\ f.after = e.after /\ Removed(f) = Removed(e)
  /\ Leads(e) => Leads(f)

\* The stack has the same length and tells the same story, and the nodes are where
\* the entries around the index of t meet.
LEMMA SameStory ==
  ASSUME NEW s, NEW t, Len(t.stack) = Len(s.stack), Len(s.stack) \in Nat,
         \A k \in 1 .. Len(s.stack) : Like(s.stack[k], t.stack[k]),
         t.index \in 0 .. Len(s.stack),
         t.index > 0 => t.parent = s.stack[t.index].after,
         t.index < Len(s.stack) => t.parent = s.stack[t.index + 1].before
  PROVE  /\ Chained(s) => Chained(t)
         /\ GoneForGood(s) => GoneForGood(t)
         /\ t.conns \subseteq s.conns /\ Unconnected(s) => Unconnected(t)
  <1> DEFINE n == Len(s.stack)
  <1>1. \A k \in 1 .. n : /\ t.stack[k].before = s.stack[k].before
                          /\ t.stack[k].after = s.stack[k].after
                          /\ Removed(t.stack[k]) = Removed(s.stack[k])
                          /\ Leads(s.stack[k]) => Leads(t.stack[k])
    BY Zenon DEF Like
  <1>2. ASSUME Chained(s) PROVE Chained(t)
    <2>1. \A k \in 1 .. n : Leads(t.stack[k])
      BY <1>1, <1>2 DEF Chained
    <2>2. ASSUME NEW k \in 1 .. n - 1 PROVE t.stack[k].after = t.stack[k + 1].before
      <3>1. k \in 1 .. n /\ k + 1 \in 1 .. n
        OBVIOUS
      <3>2. s.stack[k].after = s.stack[k + 1].before
        BY <1>2 DEF Chained
      <3> QED
        BY <1>1, <3>1, <3>2
    <2>3. t.index > 0 => t.index \in 1 .. n
      OBVIOUS
    <2>4. t.index < n => t.index + 1 \in 1 .. n
      OBVIOUS
    <2>5. t.index > 0 => t.parent = t.stack[t.index].after
      BY <1>1, <2>3
    <2>6. t.index < n => t.parent = t.stack[t.index + 1].before
      BY <1>1, <2>4
    <2> QED
      BY <2>1, <2>2, <2>5, <2>6 DEF Chained
  <1>3. ASSUME GoneForGood(s) PROVE GoneForGood(t)
    BY <1>1, <1>3 DEF GoneForGood
  <1>4. ASSUME t.conns \subseteq s.conns, Unconnected(s) PROVE Unconnected(t)
    BY <1>1, <1>4 DEF Unconnected
  <1> QED
    BY <1>2, <1>3, <1>4

\* So undo and redo are told when they only lose connections and take no mark away.
LEMMA StoryTold ==
  ASSUME NEW s, NEW t, Told(s), s.fault = "none", t.fault = "none", s.marks \subseteq t.marks,
         Len(t.stack) = Len(s.stack), Len(s.stack) \in Nat,
         t.index \in 0 .. Len(s.stack),
         ~Moved(s) =>
           /\ \A k \in 1 .. Len(s.stack) : Like(s.stack[k], t.stack[k])
           /\ t.index > 0 => t.parent = s.stack[t.index].after
           /\ t.index < Len(s.stack) => t.parent = s.stack[t.index + 1].before,
         t.marks = {} => t.conns \subseteq s.conns
  PROVE  Told(t)
  <1>1. CASE Moved(s)
    <2>1. Moved(t)
      BY <1>1 DEF Moved
    <2> QED
      BY <2>1, MovedIsTold
  <1>2. CASE ~Moved(s)
    <2>1. Chained(s) /\ GoneForGood(s)
      BY <1>2 DEF Told
    <2>2. Chained(t) /\ GoneForGood(t)
      BY <1>2, <2>1, SameStory
    <2>3. ASSUME t.marks = {} PROVE Unconnected(t)
      <3>1. s.marks = {}
        BY <2>3
      <3>2. Unconnected(s)
        BY <3>1 DEF Told
      <3> QED
        BY <1>2, <2>3, <3>2, SameStory
    <2> QED
      BY <2>2, <2>3 DEF Told
  <1> QED
    BY <1>1, <1>2

LEMMA LikeItself == \A e : Like(e, e)
  BY DEF Like

\* The nodes when the commands from k on are undone.
Back(e, k) ==
  [m \in Nodes |-> IF \E l \in k .. Len(e.cmds) : RemovesAt(e, l, m) THEN e.before[m]
                                                                      ELSE e.after[m]]

UndoneTo(s, x, k) ==
  /\ Steady(s, x) /\ x.fault = "none" /\ x.parent = Back(s.stack[s.at], k)
  /\ x.marks = {} => x.conns \subseteq s.conns

\* What the entry of a removal says of one of its commands.
Taking(e, k, c) ==
  /\ c \in Command /\ c.node \in Nodes /\ RemovesAt(e, k, c.node)
  /\ c.saved = e.before[c.node] /\ e.before[c.node] # Absent
  /\ e.after[c.node] = Absent
  /\ \A j \in 1 .. Len(e.cmds) : RemovesAt(e, j, c.node) => j = k
  /\ \A m \in Nodes : e.before[m] = c.node => \E j \in 1 .. k - 1 : RemovesAt(e, j, m)
  /\ c.saved \in Containers /\ e.after[c.saved] = Absent =>
       \E j \in k + 1 .. Len(e.cmds) : RemovesAt(e, j, c.saved)

LEMMA RemovalLed ==
  ASSUME NEW e \in Entry, RestLeads(e), NEW k \in 1 .. Len(e.cmds), e.cmds[k].op = "remove"
  PROVE  Taking(e, k, e.cmds[k])
  <1> DEFINE c == e.cmds[k]
  <1>1. DOMAIN e.cmds = 1 .. Len(e.cmds) /\ c \in Command /\ k \in DOMAIN e.cmds
    BY DEF Entry
  <1>2. /\ c.saved = e.before[c.node] /\ e.before[c.node] # Absent
        /\ \A j \in DOMAIN e.cmds : RemovesAt(e, j, c.node) => j = k
        /\ \A m \in Nodes : e.before[m] = c.node => \E j \in 1 .. k - 1 : RemovesAt(e, j, m)
        /\ c.saved \in Containers /\ e.after[c.saved] = Absent =>
             \E j \in k + 1 .. Len(e.cmds) : RemovesAt(e, j, c.saved)
    BY <1>1, Zenon DEF RestLeads
  <1>3. c.node \in Nodes /\ RemovesAt(e, k, c.node)
    BY <1>1 DEF Command, RemovesAt
  <1>4. e.after = [m \in Nodes |-> IF m \in Removed(e) THEN Absent ELSE e.before[m]]
    BY Zenon DEF RestLeads
  <1> HIDE DEF c
  <1>5. c.node \in Removed(e)
    BY <1>1, <1>3 DEF Removed
  <1>6. e.after[c.node] = Absent
    BY <1>3, <1>4, <1>5
  <1> QED
    BY <1>1, <1>2, <1>3, <1>6, Zenon DEF Taking, c

\* What it says of a command for a connection.
LEMMA ConnectionLed ==
  ASSUME NEW e \in Entry, RestLeads(e), NEW k \in 1 .. Len(e.cmds),
         e.cmds[k].op \in {"connect", "disconnect"}
  PROVE  LET w == e.cmds[k].conn.wire
         IN  /\ e.cmds[k] \in Command /\ e.cmds[k].conn \in Conn
             /\ w[1] \in Nodes /\ w[2] \in Nodes
             /\ e.before[w[1]] # Absent /\ e.before[w[2]] # Absent
             /\ \A j \in 1 .. k : e.cmds[j].op # "remove"
  <1> DEFINE c == e.cmds[k]
  <1>1. DOMAIN e.cmds = 1 .. Len(e.cmds) /\ c \in Command /\ k \in DOMAIN e.cmds
    BY DEF Entry
  <1>2. /\ e.before[c.conn.wire[1]] # Absent /\ e.before[c.conn.wire[2]] # Absent
        /\ \A j \in 1 .. k : e.cmds[j].op # "remove"
    BY <1>1, Zenon DEF RestLeads
  <1>3. c.conn \in Conn
    BY <1>1 DEF Command
  <1>4. c.conn.wire[1] \in Nodes /\ c.conn.wire[2] \in Nodes
    BY <1>3 DEF Conn, Wires, Nodes
  <1> QED
    BY <1>1, <1>2, <1>3, <1>4

\* Where undoing starts and ends.
LEMMA BackEnds ==
  ASSUME NEW e \in Entry, RestLeads(e)
  PROVE  Back(e, Len(e.cmds) + 1) = e.after /\ Back(e, 1) = e.before
  <1> DEFINE n == Len(e.cmds)
  <1>1. n \in Nat /\ DOMAIN e.cmds = 1 .. n /\ e.before \in Scene /\ e.after \in Scene
    BY DEF Entry
  <1>2. e.after = [m \in Nodes |-> IF m \in Removed(e) THEN Absent ELSE e.before[m]]
    BY Zenon DEF RestLeads
  <1> HIDE DEF n
  <1>3. Back(e, n + 1) = e.after
    <2>1. n + 1 .. n = {}
      BY <1>1
    <2> QED
      BY <1>1, <2>1 DEF Back, Scene, n
  <1>4. Back(e, 1) = e.before
    <2>1. \A m \in Nodes : m \in Removed(e) <=> \E l \in 1 .. n : RemovesAt(e, l, m)
      BY <1>1 DEF Removed
    <2>2. \A m \in Nodes : Back(e, 1)[m] = e.before[m]
      BY <1>2, <2>1 DEF Back, n
    <2> QED
      BY <1>1, <2>2 DEF Back, Scene
  <1> QED
    BY <1>3, <1>4 DEF n

\* A command that is no removal leaves the nodes, a removal brings its node back.
LEMMA BackBy ==
  ASSUME NEW e \in Entry, NEW k \in 1 .. Len(e.cmds)
  PROVE  /\ e.cmds[k].op # "remove" => Back(e, k) = Back(e, k + 1)
         /\ e.cmds[k].op = "remove" =>
              Back(e, k) = [Back(e, k + 1) EXCEPT ![e.cmds[k].node] = e.before[e.cmds[k].node]]
  <1> DEFINE n == Len(e.cmds)
  <1>1. n \in Nat
    BY DEF Entry
  <1> HIDE DEF n
  <1>5. \A l \in k .. n : l = k \/ l \in k + 1 .. n
    BY <1>1
  <1>6. k \in k .. n /\ \A l \in k + 1 .. n : l \in k .. n
    BY <1>1 DEF n
  <1>7. ASSUME e.cmds[k].op # "remove" PROVE Back(e, k) = Back(e, k + 1)
    <2>1. \A m \in Nodes : ~RemovesAt(e, k, m)
      BY <1>7 DEF RemovesAt
    <2>2. \A m \in Nodes : (\E l \in k .. n : RemovesAt(e, l, m))
                             <=> (\E l \in k + 1 .. n : RemovesAt(e, l, m))
      BY <1>5, <1>6, <2>1
    <2> QED
      BY <2>2 DEF Back, n
  <1>8. ASSUME e.cmds[k].op = "remove"
        PROVE  Back(e, k) = [Back(e, k + 1) EXCEPT ![e.cmds[k].node] = e.before[e.cmds[k].node]]
    <2> DEFINE q == e.cmds[k].node
    <2>1. \A m \in Nodes : RemovesAt(e, k, m) <=> m = q
      BY <1>8 DEF RemovesAt
    <2> HIDE DEF q
    <2>2. \A m \in Nodes : m # q => ((\E l \in k .. n : RemovesAt(e, l, m))
                             <=> (\E l \in k + 1 .. n : RemovesAt(e, l, m)))
      BY <1>5, <1>6, <2>1
    <2>3. \A m \in Nodes : m = q => \E l \in k .. n : RemovesAt(e, l, m)
      BY <1>6, <2>1
    <2> QED
      BY <2>2, <2>3 DEF Back, n, q
  <1> QED
    BY <1>7, <1>8 DEF n

LEMMA UndoStepLeads ==
  ASSUME NEW s, NEW x, NEW e, s.at \in 1 .. Len(s.stack), e = s.stack[s.at],
         e \in Entry, Formed(e), RestLeads(e), NEW k \in 1 .. Len(e.cmds),
         UndoneTo(s, x, k + 1)
  PROVE  UndoneTo(s, UndoStep(x, k), k)
  <1> DEFINE n == Len(e.cmds)
             c == e.cmds[k]
             t == UndoStep(x, k)
             B == Back(e, k + 1)
  <1>1. /\ Steady(s, x) /\ x.fault = "none" /\ x.parent = B
        /\ x.marks = {} => x.conns \subseteq s.conns
    BY DEF UndoneTo
  <1>2. Sound(x) /\ SameStack(s, x) /\ s.marks \subseteq x.marks
    BY <1>1 DEF Steady
  <1>3. x.stack[x.at].cmds[k] = c
    BY <1>2 DEF SameStack
  <1>4. n \in Nat /\ c \in Command /\ k \in DOMAIN e.cmds
    BY DEF Entry
  <1>5. c.op \in {"remove", "connect", "disconnect"}
    <2>1. c.op # "add"
      BY <1>4, Zenon DEF RestLeads
    <2> QED
      BY <1>4, <2>1 DEF Command
  <1>6. Steady(s, t)
    <2>1. c.op # "add"
      BY <1>5
    <2> QED
      BY <1>1, <2>1, UndoStepSteady
  <1>7. ASSUME NEW m \in Nodes, e.before[m] # Absent, \A j \in 1 .. k : ~RemovesAt(e, j, m)
        PROVE  B[m] # Absent
    <2>1. CASE \E l \in k + 1 .. n : RemovesAt(e, l, m)
      BY <1>7, <2>1 DEF Back
    <2>2. CASE ~\E l \in k + 1 .. n : RemovesAt(e, l, m)
      <3>1. \A l \in 1 .. n : l \in 1 .. k \/ l \in k + 1 .. n
        OBVIOUS
      <3>2. m \notin Removed(e)
        BY <1>4, <1>7, <2>2, <3>1 DEF Removed, Entry
      <3>3. e.after[m] = e.before[m]
        BY <3>2 DEF RestLeads
      <3> QED
        BY <1>7, <2>2, <3>3 DEF Back
    <2> QED
      BY <2>1, <2>2
  <1> HIDE DEF B, n
  <1>8. CASE c.op = "remove"
    <2>1. t = UndoRemove(x, c)
      BY <1>1, <1>3, <1>8 DEF UndoStep
    <2>2. /\ c.node \in Nodes /\ c.saved = e.before[c.node] /\ e.before[c.node] # Absent
          /\ e.after[c.node] = Absent
          /\ \A j \in 1 .. n : RemovesAt(e, j, c.node) => j = k
          /\ c.saved \in Containers /\ e.after[c.saved] = Absent =>
               \E j \in k + 1 .. n : RemovesAt(e, j, c.saved)
      <3>1. Taking(e, k, c)
        BY <1>8, RemovalLed
      <3> QED
        BY <3>1, Zenon DEF Taking, n
    <2>3. /\ c.saved # Empty
          /\ c.node \in Containers => c.saved \in {Root, Empty}
      BY <1>4, <1>8 DEF Formed
    <2>4. B[c.node] = Absent
      <3>1. \A l \in k + 1 .. n : l \in 1 .. n /\ l # k
        BY <1>4
      <3>2. ~\E l \in k + 1 .. n : RemovesAt(e, l, c.node)
        BY <2>2, <3>1
      <3> QED
        BY <2>2, <3>2 DEF B, Back, n
    <2>5. t = PutBack(x, c)
      BY <1>1, <2>1, <2>4 DEF UndoRemove, InScene
    <2>6. c.saved \in Containers \cup {Root}
      BY <2>2 DEF Entry, Scene
    <2>7. c.saved \in Containers => B[c.saved] # Absent
      <3> SUFFICES ASSUME c.saved \in Containers PROVE B[c.saved] # Absent
        OBVIOUS
      <3>1. c.saved \in Nodes
        BY DEF Nodes
      <3>2. CASE \E j \in k + 1 .. n : RemovesAt(e, j, c.saved)
        <4>1. PICK j \in k + 1 .. n : RemovesAt(e, j, c.saved)
          BY <3>2
        <4>2. j \in 1 .. Len(e.cmds) /\ e.cmds[j].op = "remove" /\ e.cmds[j].node = c.saved
          BY <1>4, <4>1 DEF RemovesAt, n
        <4>3. e.before[c.saved] # Absent
          <5>1. Taking(e, j, e.cmds[j])
            BY <4>2, RemovalLed
          <5> QED
            BY <4>2, <5>1, Zenon DEF Taking
        <4> QED
          BY <3>1, <3>2, <4>3 DEF B, Back, n
      <3>3. CASE ~\E j \in k + 1 .. n : RemovesAt(e, j, c.saved)
        <4>1. e.after[c.saved] # Absent
          BY <2>2, <3>3
        <4> QED
          BY <3>1, <3>3, <4>1 DEF B, Back, n
      <3> QED
        BY <3>2, <3>3
    <2>8. Place(x, c) = c.saved
      BY <1>1, <2>6, <2>7 DEF Place, InScene
    <2> HIDE DEF t, c
    <2>12. c.op \in {"add", "remove"} /\ c.saved # Empty
           /\ (c.node \in Containers => c.saved \in {Root, Empty})
      BY <1>8, <2>3
    <2>9. /\ t.parent = [x.parent EXCEPT ![c.node] = Place(x, c)]
          /\ t.conns = x.conns /\ t.fault = x.fault /\ t.marks = x.marks
      BY <1>2, <1>4, <2>5, <2>12, PutBackFields
    <2>10. t.parent = [B EXCEPT ![c.node] = e.before[c.node]]
      BY <1>1, <2>2, <2>8, <2>9
    <2>11. Back(e, k) = [B EXCEPT ![c.node] = e.before[c.node]]
      BY <1>8, BackBy DEF B, c
    <2> QED
      BY <1>1, <1>6, <2>9, <2>10, <2>11, Zenon DEF UndoneTo, t
  <1>9. CASE c.op \in {"connect", "disconnect"}
    <2>1. /\ c.conn \in Conn /\ c.conn.wire[1] \in Nodes /\ c.conn.wire[2] \in Nodes
          /\ e.before[c.conn.wire[1]] # Absent /\ e.before[c.conn.wire[2]] # Absent
          /\ \A j \in 1 .. k : e.cmds[j].op # "remove"
      BY <1>9, ConnectionLed
    <2>2. EndsInScene(x, c.conn.wire)
      BY <1>1, <1>7, <2>1 DEF EndsInScene, InScene, RemovesAt
    <2>3. Back(e, k) = B
      <3>1. e.cmds[k].op # "remove"
        BY <1>9
      <3> QED
        BY <3>1, BackBy DEF B
    <2>4. CASE c.op = "connect"
      <3>1. t = Disconnected(x, c.conn)
        BY <1>1, <1>3, <2>4 DEF UndoStep, UndoConnect
      <3> HIDE DEF t, c
      <3>2. /\ t.parent = x.parent /\ t.marks = x.marks /\ t.conns \subseteq x.conns
            /\ t.fault = x.fault
        BY <1>2, <2>1, <2>2, <3>1, DisconnectedFields
      <3> QED
        BY <1>1, <1>6, <2>3, <3>2 DEF UndoneTo, t
    <2>5. CASE c.op = "disconnect"
      <3>1. t = UndoDisconnect(x, c)
        BY <1>1, <1>3, <2>5 DEF UndoStep
      <3> HIDE DEF t, c
      <3>2. /\ t.parent = x.parent /\ t.fault = x.fault
            /\ t = x \/ t.marks = x.marks \cup {"phantom"}
        BY <1>2, <1>4, <2>5, <3>1, UndoDisconnectFields
      <3>3. t.marks = {} => t.conns \subseteq s.conns
        BY <1>1, <3>2
      <3> QED
        BY <1>1, <1>6, <2>3, <3>2, <3>3, Zenon DEF UndoneTo, t
    <2> QED
      BY <1>9, <2>4, <2>5
  <1> QED
    BY <1>5, <1>8, <1>9

LEMMA WalkTold ==
  ASSUME Structure, fault = "none", Told(State), NEW k \in 1 .. Len(stack)
  PROVE  LET s == [State EXCEPT !.at = k]
         IN  /\ Told(s) /\ Good(s) /\ Strong(s) /\ s.fault = "none" /\ s.at = k
             /\ s.index = index /\ s.stack = stack /\ s.marks = marks
             /\ s.stack[k] \in Entry /\ Formed(s.stack[k])
             /\ Len(s.stack) \in Nat
  <1> DEFINE s == [State EXCEPT !.at = k]
  <1>1. /\ s.parent = State.parent /\ s.conns = State.conns /\ s.stack = State.stack
        /\ s.index = State.index /\ s.fault = State.fault /\ s.marks = State.marks
    BY DEF State
  <1>2. /\ Good(s) /\ Strong(s) /\ s.fault = "none" /\ s.at = k
        /\ s.index = index /\ s.stack = stack /\ s.marks = marks
        /\ s.stack[s.at] \in Entry /\ Formed(s.stack[s.at])
    BY WalkStarts
  <1> HIDE DEF s
  <1>3. Told(s)
    BY <1>1, ToldAlike
  <1>4. Len(s.stack) \in Nat
    BY <1>2 DEF Good, Sound, SceneState
  <1> QED
    BY <1>2, <1>3, <1>4 DEF s

\* An entry that adds no node, undone.
LEMMA UndoRestLeads ==
  ASSUME NEW s, Good(s), s.fault = "none", s.at \in 1 .. Len(s.stack),
         NEW e \in Entry, e = s.stack[s.at], Formed(e), RestLeads(e), s.parent = e.after
  PROVE  UndoneTo(s, Walked(s, TRUE), 1)
  <1> DEFINE n == Len(e.cmds)
  <1>0. n \in Nat /\ n = Len(s.stack[s.at].cmds)
    BY DEF Entry
  <1> HIDE DEF n
  <1>1. PICK run : WalkRun(run, s, n, TRUE)
    BY <1>0, WalkRunExists
  <1>2. run[0] = s /\ \A i \in 1 .. n : run[i] = UndoStep(run[i - 1], n + 1 - i)
    BY <1>1 DEF WalkRun
  <1>3. Walked(s, TRUE) = run[n]
    BY <1>1, Zenon DEF WalkRun
  <1> DEFINE P == {i \in 0 .. n : UndoneTo(s, run[i], n + 1 - i)}
  <1>4. 0 \in P
    <2>1. Steady(s, s)
      BY DEF Good, Strong, Steady, SameStack
    <2>2. Back(e, n + 1) = e.after
      BY BackEnds DEF n
    <2>3. UndoneTo(s, s, n + 1)
      BY <2>1, <2>2, Zenon DEF UndoneTo
    <2>4. n + 1 - 0 = n + 1
      BY <1>0
    <2> QED
      BY <1>0, <1>2, <2>3, <2>4
  <1>5. ASSUME NEW i \in 1 .. n, i - 1 \in P PROVE i \in P
    <2> DEFINE x == run[i - 1]
               k == n + 1 - i
    <2>1. n + 1 - (i - 1) = k + 1 /\ k \in 1 .. n /\ run[i] = UndoStep(x, k)
      BY <1>0, <1>2
    <2>2. UndoneTo(s, x, k + 1)
      BY <1>5, <2>1
    <2> HIDE DEF x, k
    <2>3. UndoneTo(s, UndoStep(x, k), k)
      BY <2>1, <2>2, UndoStepLeads DEF n
    <2>4. i \in 0 .. n
      BY <1>0
    <2> QED
      BY <2>1, <2>3, <2>4 DEF k
  <1>6. n \in P
    <2> HIDE DEF P
    <2>1. \A i \in 0 .. n : i \in P
      BY <1>0, <1>4, <1>5, UpTo
    <2> QED
      BY <1>0, <2>1
  <1>7. n + 1 - n = 1
    BY <1>0
  <1> QED
    BY <1>3, <1>6, <1>7

LEMMA UndoRestTold ==
  ASSUME NEW s, Good(s), Told(s), s.fault = "none", s.at \in 1 .. Len(s.stack), s.at = s.index,
         NEW e \in Entry, e = s.stack[s.at], Formed(e), ~Adds(e),
         Len(s.stack) \in Nat
  PROVE  Told([Walked(s, TRUE) EXCEPT !.index = s.index - 1])
  <1> DEFINE w == Walked(s, TRUE)
             r == [w EXCEPT !.index = s.index - 1]
  <1>1. Len(e.cmds) \in Nat /\ \A i \in 1 .. Len(e.cmds) : e.cmds[i].op # "add"
    BY OneAddition
  <1>2. Steady(s, w)
    BY <1>1, UndoRestFields
  <1> HIDE DEF w
  <1>3. /\ Sound(w) /\ w.stack = s.stack /\ s.marks \subseteq w.marks
    BY <1>2 DEF Steady, SameStack
  <1>4. s.index - 1 \in Nat /\ s.index - 1 <= Len(w.stack) /\ s.index \in 1 .. Len(s.stack)
        /\ s.index - 1 \in 0 .. Len(s.stack)
    BY <1>3
  <1>5. /\ r.parent = w.parent /\ r.stack = s.stack /\ r.index = s.index - 1
        /\ r.fault = w.fault /\ r.marks = w.marks /\ r.conns = w.conns
    BY <1>3, <1>4, IndexSet
  <1> HIDE DEF r
  <1>6. CASE Moved(s)
    <2>1. Moved(r)
      BY <1>3, <1>5, <1>6 DEF Moved
    <2> QED
      BY <2>1, MovedIsTold DEF r, w
  <1>7. CASE ~Moved(s)
    <2>1. Chained(s) /\ GoneForGood(s)
      BY <1>7 DEF Told
    <2>2. RestLeads(e) /\ s.parent = e.after
      BY <1>4, <2>1 DEF Chained, Leads
    <2>3. UndoneTo(s, w, 1)
      BY <2>2, UndoRestLeads DEF w
    <2>4. w.fault = "none" /\ w.parent = Back(e, 1)
          /\ (w.marks = {} => w.conns \subseteq s.conns)
      BY <2>3, Zenon DEF UndoneTo
    <2>5. Back(e, 1) = e.before
      BY <2>2, BackEnds
    <2>6. r.index > 0 => r.parent = s.stack[r.index].after
      <3>1. r.index > 0 => r.index \in 1 .. Len(s.stack) - 1 /\ r.index + 1 = s.index
        BY <1>4, <1>5
      <3>2. r.index > 0 => s.stack[r.index].after = e.before
        BY <2>1, <3>1 DEF Chained
      <3> QED
        BY <1>5, <2>4, <2>5, <3>2
    <2>7. r.parent = s.stack[r.index + 1].before
      <3>1. r.index + 1 = s.index
        BY <1>4, <1>5
      <3> QED
        BY <1>5, <2>4, <2>5, <3>1
    <2>8. \A k \in 1 .. Len(s.stack) : Like(s.stack[k], r.stack[k])
      BY <1>5, LikeItself
    <2>9. r.fault = "none" /\ s.marks \subseteq r.marks /\ Len(r.stack) = Len(s.stack)
          /\ r.index \in 0 .. Len(s.stack) /\ (r.marks = {} => r.conns \subseteq s.conns)
      BY <1>3, <1>4, <1>5, <2>4
    <2>10. Told(r)
      BY <2>6, <2>7, <2>8, <2>9, StoryTold
    <2> QED
      BY <2>10 DEF r, w
  <1> QED
    BY <1>6, <1>7

\* An entry that leaves the nodes where they are.
Flat(p, g) == g.before = p /\ g.after = p /\ Leads(g) /\ Removed(g) = {}

\* What undoing an addition pushes lies flat on the entry that is undone.
LEMMA StoryTopped ==
  ASSUME NEW s, NEW t, Len(s.stack) \in Nat, Len(t.stack) \in Nat,
         s.index \in 1 .. Len(s.stack), s.index <= Len(t.stack), t.index = s.index - 1,
         \A k \in 1 .. s.index : Like(s.stack[k], t.stack[k]),
         \A k \in s.index + 1 .. Len(t.stack) : Flat(s.parent, t.stack[k]),
         t.parent = s.stack[s.index].before, Chained(s), GoneForGood(s)
  PROVE  /\ Chained(t) /\ GoneForGood(t)
         /\ t.conns \subseteq s.conns /\ Unconnected(s) => Unconnected(t)
  <1> DEFINE n == Len(t.stack)
             x == s.index
  <1>1. n \in Nat /\ x \in 1 .. n /\ x \in 1 .. Len(s.stack) /\ \A k \in 1 .. x : k \in 1 .. Len(s.stack)
    OBVIOUS
  <1>2. \A k \in 1 .. x : /\ t.stack[k].before = s.stack[k].before
                          /\ t.stack[k].after = s.stack[k].after
                          /\ Removed(t.stack[k]) = Removed(s.stack[k])
                          /\ Leads(s.stack[k]) => Leads(t.stack[k])
    BY Zenon DEF Like
  <1>3. \A k \in x + 1 .. n : /\ t.stack[k].before = s.parent /\ t.stack[k].after = s.parent
                              /\ Leads(t.stack[k]) /\ Removed(t.stack[k]) = {}
    BY Zenon DEF Flat
  <1> HIDE DEF n, x
  <1>4. x \in Nat /\ x <= n /\ x > 0 /\ \A k \in 1 .. n : k \in 1 .. x \/ k \in x + 1 .. n
    BY <1>1
  <1>5. s.stack[x].after = s.parent /\ t.stack[x].after = s.parent
    <2>1. s.stack[x].after = s.parent
      BY <1>1, <1>4 DEF Chained, x
    <2> QED
      BY <1>2, <1>4, <2>1
  <1>6. \A k \in 1 .. n : Leads(t.stack[k])
    <2>1. \A k \in 1 .. x : Leads(s.stack[k])
      BY <1>1 DEF Chained
    <2> QED
      BY <1>2, <1>3, <1>4, <2>1
  <1>7. ASSUME NEW k \in 1 .. n - 1 PROVE t.stack[k].after = t.stack[k + 1].before
    <2>1. CASE k < x
      <3>1. k \in 1 .. x /\ k + 1 \in 1 .. x /\ k \in 1 .. Len(s.stack) - 1
        BY <1>1, <1>4, <2>1
      <3>2. s.stack[k].after = s.stack[k + 1].before
        BY <3>1 DEF Chained
      <3> QED
        BY <1>2, <3>1, <3>2
    <2>2. CASE k = x
      <3>1. k + 1 \in x + 1 .. n
        BY <1>1, <2>2
      <3> QED
        BY <1>3, <1>5, <2>2, <3>1
    <2>3. CASE k > x
      <3>1. k \in x + 1 .. n /\ k + 1 \in x + 1 .. n
        BY <1>1, <2>3
      <3> QED
        BY <1>3, <3>1
    <2> QED
      BY <1>4, <2>1, <2>2, <2>3
  <1>8. t.index > 0 => t.parent = t.stack[t.index].after
    <2> SUFFICES ASSUME t.index > 0 PROVE t.parent = t.stack[t.index].after
      OBVIOUS
    <2>1. t.index \in 1 .. n - 1 /\ t.index + 1 = x /\ x \in 1 .. x
      BY <1>1, <1>4 DEF x
    <2>2. t.stack[t.index].after = t.stack[x].before
      BY <1>7, <2>1
    <2> QED
      BY <1>2, <2>1, <2>2 DEF x
  <1>9. t.parent = t.stack[t.index + 1].before
    <2>1. t.index + 1 = x /\ x \in 1 .. x
      BY <1>4 DEF x
    <2> QED
      BY <1>2, <2>1 DEF x
  <1>10. Chained(t)
    BY <1>6, <1>7, <1>8, <1>9 DEF Chained, n
  <1>11. ASSUME NEW k \in 1 .. n, NEW j \in 1 .. n, k <= j, NEW m \in Removed(t.stack[k])
         PROVE  t.stack[j].after[m] = Absent
    <2>1. k \in 1 .. x
      BY <1>3, <1>4, <1>11
    <2>2. m \in Removed(s.stack[k])
      BY <1>2, <1>11, <2>1
    <2>3. CASE j \in 1 .. x
      <3>1. k \in 1 .. Len(s.stack) /\ j \in 1 .. Len(s.stack)
        BY <1>1, <2>1, <2>3
      <3>2. s.stack[j].after[m] = Absent
        BY <1>11, <2>2, <3>1 DEF GoneForGood
      <3> QED
        BY <1>2, <2>3, <3>2
    <2>4. CASE j \in x + 1 .. n
      <3>1. k <= x
        BY <2>1
      <3>2. s.stack[x].after[m] = Absent
        BY <1>1, <2>1, <2>2, <3>1 DEF GoneForGood
      <3> QED
        BY <1>3, <1>5, <2>4, <3>2
    <2> QED
      BY <1>4, <2>3, <2>4
  <1>12. GoneForGood(t)
    BY <1>11 DEF GoneForGood, n
  <1>13. ASSUME t.conns \subseteq s.conns, Unconnected(s) PROVE Unconnected(t)
    <2> SUFFICES ASSUME NEW k \in 1 .. n, NEW c \in t.conns
                 PROVE  c.wire[1] \notin Removed(t.stack[k]) /\ c.wire[2] \notin Removed(t.stack[k])
      BY DEF Unconnected, n
    <2>1. CASE k \in 1 .. x
      BY <1>1, <1>2, <1>13, <2>1 DEF Unconnected
    <2>2. CASE k \in x + 1 .. n
      BY <1>3, <2>2
    <2> QED
      BY <1>4, <2>1, <2>2
  <1> QED
    BY <1>10, <1>12, <1>13

\* An entry that adds a node, whatever it has saved.
Adding(e, f) ==
  /\ f \in Entry /\ f.before = e.before /\ f.after = e.after /\ Len(f.cmds) = 1
  /\ f.cmds[1].op = "add" /\ f.cmds[1].node = e.cmds[1].node
  /\ f.cmds[1].saved \in {Empty, e.after[e.cmds[1].node]}

LEMMA AddingLike ==
  ASSUME NEW e \in Entry, Len(e.cmds) = 1, e.cmds[1].op = "add", NEW f, Adding(e, f)
  PROVE  Like(e, f)
  <1>1. DOMAIN e.cmds = {1} /\ DOMAIN f.cmds = {1}
    BY DEF Entry, Adding
  <1>2. Removed(e) = {} /\ Removed(f) = {} /\ Adds(f) /\ Adds(e)
    BY <1>1 DEF Removed, RemovesAt, Adding, Adds
  <1>3. AddLeads(e) => AddLeads(f)
    BY Zenon DEF AddLeads, Adding
  <1> QED
    BY <1>2, <1>3, Zenon DEF Like, Leads, Adding

\* The scene that an addition leads to, and back from.
LEMMA AdditionLed ==
  ASSUME NEW e \in Entry, AddLeads(e), e.cmds[1] \in Command, e.cmds[1].op = "add"
  PROVE  LET n == e.cmds[1].node
         IN  /\ n \in Nodes /\ e.after[n] \in Containers \cup {Root}
             /\ {m \in Nodes : e.after[m] = n} = {}
             /\ Without(e.after, {n}) = e.before
             /\ e.after[n] \in Containers => e.before[e.after[n]] # Absent
             /\ e.before[n] = Absent /\ e.after = [e.before EXCEPT ![n] = e.after[n]]
             /\ e.cmds[1].saved \in {Empty, e.after[n]}
  <1> DEFINE n == e.cmds[1].node
             a == e.after
             b == e.before
  <1>1. n \in Nodes
    BY DEF Command
  <1>2. a \in [Nodes -> Containers \cup {Root, Absent}] /\ b \in [Nodes -> Containers \cup {Root, Absent}]
    BY DEF Entry, Scene
  <1>3. /\ b[n] = Absent /\ \A m \in Nodes : b[m] # n
        /\ a[n] \in Containers => b[a[n]] # Absent
        /\ a[n] # Absent /\ a = [b EXCEPT ![n] = a[n]] /\ e.cmds[1].saved \in {Empty, a[n]}
    BY Zenon DEF AddLeads
  <1> HIDE DEF n, a, b
  <1>4. a[n] \in Containers \cup {Root}
    BY <1>1, <1>2, <1>3
  <1>5. a[n] # n
    <2>1. Root \notin Nodes
      OBVIOUS
    <2> QED
      BY <1>1, <1>3, <1>4, <2>1
  <1>6. \A m \in Nodes : a[m] # n
    BY <1>2, <1>3, <1>5
  <1>7. Without(a, {n}) = b
    BY <1>1, <1>2, <1>3 DEF Without
  <1> QED
    BY <1>1, <1>3, <1>4, <1>6, <1>7 DEF n, a, b

\* A place is not the one of an id that is not in the scene.
LEMMA PlaceIsThere ==
  ASSUME NEW p \in Containers \cup {Root}
  PROVE  p # Absent
  BY DEF Root, Absent, Nodes

LEMMA UndoAddTold ==
  ASSUME NEW s, UndoesAdd(s), Told(s), NEW e \in Entry, e = s.stack[s.at], Len(s.stack) \in Nat
  PROVE  Told([UndoAdd(s, 1, e.cmds[1]) EXCEPT !.index = s.index - 1])
  <1> DEFINE c == e.cmds[1]
             n == c.node
             w == UndoAdd(s, 1, c)
             r == [w EXCEPT !.index = s.index - 1]
  <1>1. /\ Good(s) /\ s.fault = "none" /\ s.at \in 1 .. Len(s.stack) /\ s.at = s.index
        /\ Len(e.cmds) = 1 /\ c.op = "add"
    BY DEF UndoesAdd
  <1>2. Sound(w) /\ s.index <= w.index /\ s.marks \subseteq w.marks
    BY UndoAddFields
  <1> HIDE DEF w
  <1>3. /\ s.index \in 1 .. Len(s.stack) /\ s.index - 1 \in Nat /\ s.index - 1 <= Len(w.stack)
        /\ s.index - 1 \in 0 .. Len(s.stack) /\ s.index <= Len(w.stack) /\ Len(w.stack) \in Nat
    <2>1. w.index \in Nat /\ w.index <= Len(w.stack) /\ Len(w.stack) \in Nat
      BY <1>2 DEF Sound, SceneState
    <2> QED
      BY <1>1, <1>2, <2>1
  <1>4. /\ r.parent = w.parent /\ r.conns = w.conns /\ r.stack = w.stack
        /\ r.index = s.index - 1 /\ r.fault = w.fault /\ r.marks = w.marks
    BY <1>2, <1>3, IndexSet
  <1> HIDE DEF r
  <1>5. CASE Moved(s) \/ "shifted" \in w.marks
    <2>1. Moved(r)
      BY <1>2, <1>4, <1>5 DEF Moved
    <2> QED
      BY <2>1, MovedIsTold DEF r, w
  <1>6. CASE ~Moved(s) /\ "shifted" \notin w.marks
    <2>1. Chained(s) /\ GoneForGood(s)
      BY <1>1, <1>6 DEF Told
    <2>2. c \in Command /\ DOMAIN e.cmds = {1}
      BY <1>1 DEF Entry
    <2>3. Adds(e)
      BY <1>1, <2>2 DEF Adds
    <2>4. AddLeads(e) /\ s.parent = e.after
      BY <1>1, <1>3, <2>1, <2>3 DEF Chained, Leads
    <2>5. /\ n \in Nodes /\ e.after[n] \in Containers \cup {Root}
          /\ {m \in Nodes : e.after[m] = n} = {} /\ Without(e.after, {n}) = e.before
          /\ c.saved \in {Empty, e.after[n]}
      BY <1>1, <2>2, <2>4, AdditionLed
    <2>6. InScene(s, n)
      <3>1. e.after[n] # Absent
        BY <2>5, PlaceIsThere, Zenon
      <3> QED
        BY <2>4, <3>1, Zenon DEF InScene
    <2> DEFINE b == IF c.saved = Empty THEN Save(s, 1, s.parent[n]) ELSE s
               l == Pulled(b, n)
               u == PushedAll(b, l)
    <2>7. w = Gone(u, n)
      BY <2>6, Zenon DEF UndoAdd, w
    <2>8. Sound(s) /\ Ends(s)
      BY <1>1, Zenon DEF Good
    <2>9. /\ Sound(b) /\ b.parent = s.parent /\ b.conns = s.conns /\ b.index = s.index
          /\ b.fault = "none" /\ b.marks = s.marks /\ b.at = s.at
          /\ Len(b.stack) = Len(s.stack) /\ \A k \in 1 .. Len(s.stack) : Like(s.stack[k], b.stack[k])
      <3>1. CASE c.saved = Empty
        <4>1. Keeps(s, 1)
          BY <1>1 DEF Keeps
        <4>2. SavesPlace(s, b, 1, e.after[n])
          BY <2>4, <2>5, <2>8, <3>1, <4>1, SaveFields
        <4> HIDE DEF b
        <4>3. /\ Sound(b) /\ b.parent = s.parent /\ b.conns = s.conns /\ b.index = s.index
              /\ b.fault = s.fault /\ b.marks = s.marks /\ b.at = s.at
              /\ Len(b.stack) = Len(s.stack)
              /\ \A k \in 1 .. Len(s.stack) : k # s.at => b.stack[k] = s.stack[k]
          BY <4>2, Zenon DEF SavesPlace
        <4>4. Adding(e, b.stack[s.at])
          <5>1. LET f == b.stack[s.at]
                IN  /\ f \in Entry /\ f.before = e.before /\ f.after = e.after
                    /\ Len(f.cmds) = Len(e.cmds)
                    /\ f.cmds[1].op = c.op /\ f.cmds[1].node = n
                    /\ f.cmds[1].saved = e.after[n]
            BY <4>2, Zenon DEF SavesPlace
          <5> QED
            BY <1>1, <5>1, Zenon DEF Adding
        <4>5. Like(e, b.stack[s.at])
          BY <1>1, <4>4, AddingLike
        <4>6. \A k \in 1 .. Len(s.stack) : Like(s.stack[k], b.stack[k])
          BY <4>3, <4>5, LikeItself
        <4> QED
          BY <1>1, <4>3, <4>6
      <3>2. CASE c.saved # Empty
        BY <1>1, <2>8, <3>2, LikeItself
      <3> QED
        BY <3>1, <3>2
    <2> HIDE DEF b
    <2>22. Sound(b) /\ b.parent = e.after /\ b.conns = s.conns
      BY <2>4, <2>9, Zenon
    <2>10. b.parent \in Scene /\ b.conns \in SUBSET Conn
      BY <2>22 DEF Sound, SceneState
    <2>11. Children(b, n) = {} /\ Family(b, n) = {n}
      <3>1. Children(b, n) = {}
        BY <2>5, <2>22, Zenon DEF Children
      <3> QED
        BY <3>1 DEF Family
    <2>12. PulledWell(b, n, l)
      BY <2>5, <2>10, PulledList
    <2>13. l \in Seq(Command) /\ Len(l) \in Nat
           /\ \A i \in 1 .. Len(l) : l[i].op = "disconnect" /\ l[i].conn \in s.conns
      <3> HIDE DEF l
      <3>1. l \in Seq(Command) /\ Len(l) \in Nat
        BY <2>12 DEF PulledWell
      <3>2. ConnsOf(b, n) \subseteq s.conns
        BY <2>22 DEF ConnsOf
      <3>3. \A i \in 1 .. Len(l) :
              \/ l[i].op = "disconnect" /\ l[i].conn \in ConnsOf(b, n)
              \/ l[i].op = "remove" /\ l[i].node \in Children(b, n) /\ l[i].saved = n
        BY <2>12, Zenon DEF PulledWell
      <3> QED
        BY <2>11, <3>1, <3>2, <3>3
    <2> DEFINE g == Gone(u, n)
    <2>23. PulledTo(b, n, u, g)
      <3>1. Sound(b) /\ n \in Nodes
        BY <2>5, <2>22, Zenon
      <3> QED
        BY <3>1, PulledAway, Zenon
    <2> HIDE DEF g
    <2>21. /\ g.parent = Without(b.parent, Family(b, n)) /\ g.conns = b.conns \ ConnsOf(b, n)
           /\ g.stack = u.stack /\ g.fault = u.fault /\ g.marks = u.marks
      BY <2>23, Zenon DEF PulledTo
    <2>14. /\ w.parent = Without(b.parent, Family(b, n)) /\ w.conns \subseteq b.conns
           /\ w.stack = u.stack /\ w.fault = u.fault /\ w.marks = u.marks
      BY <2>7, <2>21 DEF g
    <2> HIDE DEF l, u
    <2>15. w.parent = e.before /\ w.conns \subseteq s.conns
      <3>1. w.parent = Without(e.after, {n})
        BY <2>11, <2>14, <2>22, Zenon
      <3> QED
        BY <2>5, <2>14, <2>22, <3>1, Zenon
    <2>16. OnTop(b, u, l, Len(l))
      BY <1>1, <1>6, <2>9, <2>13, <2>14, CutsOnStack DEF u
    <2>17. /\ u.marks = s.marks /\ u.fault = "none"
           /\ IF Len(l) = 0 THEN u.stack = b.stack ELSE Len(u.stack) = s.index + Len(l)
           /\ \A k \in 1 .. s.index : u.stack[k] = b.stack[k]
           /\ \A j \in 1 .. Len(l) : u.stack[s.index + j] =
                [cmds |-> <<l[j]>>, before |-> s.parent, after |-> s.parent]
      BY <2>9, <2>16, Zenon DEF OnTop
    <2>18. r.fault = "none" /\ r.marks = s.marks
      BY <1>4, <2>14, <2>17
    <2>19. CASE Len(l) = 0
      <3>1. r.stack = b.stack
        BY <1>4, <2>14, <2>17, <2>19
      <3>2. r.index > 0 => r.parent = s.stack[r.index].after
        <4>1. r.index > 0 => r.index \in 1 .. Len(s.stack) - 1 /\ r.index + 1 = s.index
          BY <1>3, <1>4
        <4>2. r.index > 0 => s.stack[r.index].after = e.before
          BY <1>1, <2>1, <4>1 DEF Chained
        <4> QED
          BY <1>4, <2>15, <4>2
      <3>3. r.parent = s.stack[r.index + 1].before
        <4>1. r.index + 1 = s.index
          BY <1>3, <1>4
        <4> QED
          BY <1>1, <1>4, <2>15, <4>1
      <3>4. Len(r.stack) = Len(s.stack) /\ r.index \in 0 .. Len(s.stack)
            /\ \A k \in 1 .. Len(s.stack) : Like(s.stack[k], r.stack[k])
        BY <1>3, <1>4, <2>9, <3>1
      <3>5. Told(r)
        BY <1>1, <1>4, <2>15, <2>18, <3>2, <3>3, <3>4, StoryTold
      <3> QED
        BY <3>5 DEF r, w
    <2>20. CASE Len(l) # 0
      <3>1. Len(r.stack) = s.index + Len(l) /\ Len(r.stack) \in Nat
            /\ \A k \in 1 .. s.index : r.stack[k] = b.stack[k]
        BY <1>3, <1>4, <2>14, <2>17, <2>20
      <3>2. \A k \in 1 .. s.index : Like(s.stack[k], r.stack[k])
        BY <1>3, <2>9, <3>1
      <3>3. ASSUME NEW k \in s.index + 1 .. Len(r.stack) PROVE Flat(s.parent, r.stack[k])
        <4> DEFINE j == k - s.index
                   d == l[j]
                   h == [cmds |-> <<d>>, before |-> s.parent, after |-> s.parent]
        <4>1. j \in 1 .. Len(l) /\ s.index + j = k
          BY <1>3, <2>13, <3>1
        <4> HIDE DEF j
        <4>2. d \in Command /\ d.op = "disconnect" /\ d.conn \in s.conns
          BY <2>13, <4>1
        <4>3. r.stack[k] = h
          BY <1>4, <2>14, <2>17, <4>1
        <4> HIDE DEF d
        <4>4. s.parent[d.conn.wire[1]] # Absent /\ s.parent[d.conn.wire[2]] # Absent
          BY <2>8, <4>2 DEF Ends, EndsInScene, InScene
        <4>5. h \in Entry /\ h.cmds = <<d>> /\ h.before = s.parent /\ h.after = s.parent
          BY <2>8, <4>2 DEF Entry, Sound, SceneState
        <4> HIDE DEF h
        <4>6. Leads(h) /\ Removed(h) = {}
          BY <4>2, <4>4, <4>5, ConnectionLeads
        <4> QED
          BY <4>3, <4>5, <4>6 DEF Flat
      <3>4. r.parent = s.stack[s.index].before
        BY <1>1, <1>4, <2>15
      <3>5. /\ Chained(r) /\ GoneForGood(r)
            /\ r.conns \subseteq s.conns /\ Unconnected(s) => Unconnected(r)
        <4>1. s.index <= Len(r.stack) /\ r.index = s.index - 1
          BY <1>3, <1>4
        <4> QED
          BY <1>3, <2>1, <3>1, <3>2, <3>3, <3>4, <4>1, StoryTopped
      <3>6. r.marks = {} => Unconnected(r)
        BY <1>1, <1>4, <2>15, <2>18, <3>5 DEF Told
      <3>7. Told(r)
        BY <2>18, <3>5, <3>6 DEF Told
      <3> QED
        BY <3>7 DEF r, w
    <2> QED
      BY <2>19, <2>20
  <1> QED
    BY <1>5, <1>6

LEMMA UndoTold ==
  ASSUME Structure, fault = "none", Told(State), Undo
  PROVE  Told(State)'
  <1> DEFINE s == [State EXCEPT !.at = index]
             e == s.stack[s.at]
             r == [Walked(s, TRUE) EXCEPT !.index = index - 1]
  <1>1. index \in 1 .. Len(stack) /\ Become(r)
    BY DEF Undo, Structure, TypeOK
  <1>2. /\ Told(s) /\ Good(s) /\ s.fault = "none" /\ s.at = index /\ s.index = index
        /\ s.stack = stack /\ e \in Entry /\ Formed(e) /\ Len(s.stack) \in Nat
    BY <1>1, WalkTold
  <1> HIDE DEF s
  <1>3. s.at \in 1 .. Len(s.stack) /\ s.at = s.index
    BY <1>1, <1>2
  <1>4. Told(r)
    <2>1. CASE Adds(e)
      <3>1. Len(e.cmds) = 1 /\ e.cmds[1].op = "add"
        BY <1>2, <2>1, OneAddition
      <3>2. Walked(s, TRUE) = UndoAdd(s, 1, e.cmds[1])
        BY <1>2, <3>1, OneStep DEF UndoStep
      <3>3. UndoesAdd(s)
        BY <1>2, <1>3, <3>1 DEF UndoesAdd
      <3> QED
        BY <1>2, <3>2, <3>3, UndoAddTold
    <2>2. CASE ~Adds(e)
      BY <1>2, <1>3, <2>2, UndoRestTold
    <2> QED
      BY <2>1, <2>2
  <1> HIDE DEF r
  <1> QED
    BY <1>1, <1>4, ToldBecomes

\* The nodes when the first k commands are redone.
Ahead(e, k) ==
  [m \in Nodes |-> IF \E l \in 1 .. k : RemovesAt(e, l, m) THEN Absent ELSE e.before[m]]

RedoneTo(s, x, k) ==
  /\ Redone(s, x) /\ x.stack = s.stack /\ x.fault = "none"
  /\ x.parent = Ahead(s.stack[s.at], k) /\ x.conns \subseteq s.conns

\* The stack lost the command that was being redone, and that has a cause.
Broken(s, x) == Sound(x) /\ x.marks = s.marks /\ x.fault = "command deleted" /\ s.marks # {}

LEMMA AheadEnds ==
  ASSUME NEW e \in Entry, RestLeads(e)
  PROVE  Ahead(e, 0) = e.before /\ Ahead(e, Len(e.cmds)) = e.after
  <1> DEFINE n == Len(e.cmds)
  <1>1. n \in Nat /\ DOMAIN e.cmds = 1 .. n /\ e.before \in Scene /\ e.after \in Scene
    BY DEF Entry
  <1>2. e.after = [m \in Nodes |-> IF m \in Removed(e) THEN Absent ELSE e.before[m]]
    BY Zenon DEF RestLeads
  <1> HIDE DEF n
  <1>3. Ahead(e, 0) = e.before
    BY <1>1 DEF Ahead, Scene
  <1>4. \A m \in Nodes : m \in Removed(e) <=> \E l \in 1 .. n : RemovesAt(e, l, m)
    BY <1>1 DEF Removed
  <1>5. Ahead(e, n) = e.after
    BY <1>2, <1>4 DEF Ahead
  <1> QED
    BY <1>3, <1>5 DEF n

LEMMA AheadBy ==
  ASSUME NEW e \in Entry, NEW k \in 1 .. Len(e.cmds)
  PROVE  /\ e.cmds[k].op # "remove" => Ahead(e, k) = Ahead(e, k - 1)
         /\ e.cmds[k].op = "remove" => Ahead(e, k) = Without(Ahead(e, k - 1), {e.cmds[k].node})
  <1>1. \A l \in 1 .. k : l = k \/ l \in 1 .. k - 1
    OBVIOUS
  <1>2. k \in 1 .. k /\ \A l \in 1 .. k - 1 : l \in 1 .. k
    OBVIOUS
  <1>3. ASSUME e.cmds[k].op # "remove" PROVE Ahead(e, k) = Ahead(e, k - 1)
    <2>1. \A m \in Nodes : ~RemovesAt(e, k, m)
      BY <1>3 DEF RemovesAt
    <2>2. \A m \in Nodes : (\E l \in 1 .. k : RemovesAt(e, l, m))
                             <=> (\E l \in 1 .. k - 1 : RemovesAt(e, l, m))
      BY <1>1, <1>2, <2>1
    <2> QED
      BY <2>2 DEF Ahead
  <1>4. ASSUME e.cmds[k].op = "remove"
        PROVE  Ahead(e, k) = Without(Ahead(e, k - 1), {e.cmds[k].node})
    <2> DEFINE q == e.cmds[k].node
    <2>1. \A m \in Nodes : RemovesAt(e, k, m) <=> m = q
      BY <1>4 DEF RemovesAt
    <2> HIDE DEF q
    <2>2. \A m \in Nodes : m # q => ((\E l \in 1 .. k : RemovesAt(e, l, m))
                             <=> (\E l \in 1 .. k - 1 : RemovesAt(e, l, m)))
      BY <1>1, <1>2, <2>1
    <2>3. \A m \in Nodes : m = q => \E l \in 1 .. k : RemovesAt(e, l, m)
      BY <1>2, <2>1
    <2> QED
      BY <2>2, <2>3 DEF Ahead, Without, q
  <1> QED
    BY <1>3, <1>4

\* Nobody pulls anything who has no connection and no child.
LEMMA NothingPulled ==
  ASSUME NEW x, x.parent \in Scene, x.conns \in SUBSET Conn, NEW n \in Nodes,
         ConnsOf(x, n) = {}, Children(x, n) = {}
  PROVE  Pulled(x, n) = <<>>
  <1> DEFINE l == Pulled(x, n)
  <1>1. PulledWell(x, n, l)
    BY PulledList
  <1> HIDE DEF l
  <1>2. l \in Seq(Command) /\ Len(l) \in Nat
    BY <1>1 DEF PulledWell
  <1>3. \A i \in 1 .. Len(l) :
          \/ l[i].op = "disconnect" /\ l[i].conn \in ConnsOf(x, n)
          \/ l[i].op = "remove" /\ l[i].node \in Children(x, n) /\ l[i].saved = n
    BY <1>1, Zenon DEF PulledWell
  <1>4. ~(1 \in 1 .. Len(l))
    BY <1>3
  <1>5. Len(l) = 0
    BY <1>2, <1>4
  <1> QED
    BY <1>2, <1>5 DEF l

LEMMA SameCommands ==
  ASSUME NEW p \in Seq(Command), NEW q \in Seq(Command), Len(p) = Len(q),
         \A j \in 1 .. Len(q) : p[j] = q[j]
  PROVE  p = q
  OBVIOUS

\* A removal that finds the node where it was before changes no entry.
LEMMA SameRemoval ==
  ASSUME NEW x, NEW t, Sound(x), NEW i, Keeps(x, i), NEW c, c = x.stack[x.at].cmds[i],
         c.op = "remove", RemovalRedone(x, t, i, c), c.saved = x.parent[c.node]
  PROVE  t.stack = x.stack
  <1> DEFINE e == x.stack[x.at]
             f == t.stack[x.at]
  <1>1. /\ Sound(t) /\ Len(t.stack) = Len(x.stack)
        /\ \A k \in 1 .. Len(x.stack) : k # x.at => t.stack[k] = x.stack[k]
    BY Zenon DEF RemovalRedone
  <1>2. /\ f \in Entry /\ f.before = e.before /\ f.after = e.after
        /\ Len(f.cmds) = Len(e.cmds)
        /\ \A j \in 1 .. Len(e.cmds) : j # i => f.cmds[j] = e.cmds[j]
        /\ f.cmds[i].op = c.op /\ f.cmds[i].node = c.node
        /\ f.cmds[i].saved = x.parent[c.node]
    BY Zenon DEF RemovalRedone
  <1>3. x.at \in 1 .. Len(x.stack) /\ i \in 1 .. Len(e.cmds)
    BY DEF Keeps
  <1>4. x.stack \in Seq(Entry) /\ t.stack \in Seq(Entry) /\ e \in Entry
    BY <1>1, <1>3 DEF Sound, SceneState
  <1> HIDE DEF e, f
  <1>5. e.cmds \in Seq(Command) /\ f.cmds \in Seq(Command)
    BY <1>2, <1>4 DEF Entry
  <1> DEFINE d == f.cmds[i]
  <1>6. d \in Command /\ c \in Command
    <2>1. \A q \in Seq(Command) : \A j \in 1 .. Len(q) : q[j] \in Command
      OBVIOUS
    <2>2. i \in 1 .. Len(f.cmds)
      BY <1>2, <1>3, Zenon
    <2>3. f.cmds[i] \in Command /\ e.cmds[i] \in Command
      BY <1>3, <1>5, <2>1, <2>2, Zenon
    <2> QED
      BY <2>3, Zenon DEF e
  <1>7. d.op = c.op /\ d.node = c.node /\ d.saved = c.saved
    BY <1>2
  <1> HIDE DEF d
  <1>8. d = c
    <2>1. /\ d = [op |-> d.op, node |-> d.node, saved |-> d.saved]
          /\ c = [op |-> c.op, node |-> c.node, saved |-> c.saved]
      BY <1>6, <1>7 DEF Command
    <2> QED
      BY <1>7, <2>1
  <1>9. \A j \in 1 .. Len(e.cmds) : f.cmds[j] = e.cmds[j]
    BY <1>2, <1>8 DEF d, e
  <1>10. f.cmds = e.cmds
    <2>1. Len(f.cmds) = Len(e.cmds)
      BY <1>2, Zenon
    <2> QED
      BY <1>5, <1>9, <2>1, SameCommands, Zenon
  <1>11. f = e
    <2>1. /\ f = [cmds |-> f.cmds, before |-> f.before, after |-> f.after]
          /\ e = [cmds |-> e.cmds, before |-> e.before, after |-> e.after]
      BY <1>2, <1>4 DEF Entry
    <2> QED
      BY <1>2, <1>10, <2>1
  <1>12. \A k \in 1 .. Len(x.stack) : t.stack[k] = x.stack[k]
    BY <1>1, <1>11 DEF e, f
  <1> QED
    BY <1>1, <1>4, <1>12

LEMMA RedoStepLeads ==
  ASSUME NEW s, NEW x, NEW e, s.at \in 1 .. Len(s.stack), e = s.stack[s.at],
         e \in Entry, RestLeads(e), NEW k \in 1 .. Len(e.cmds),
         e.cmds[k].op \in {"remove", "disconnect"}, RedoneTo(s, x, k - 1),
         s.marks = {} => \A c \in s.conns :
           c.wire[1] \notin Removed(e) /\ c.wire[2] \notin Removed(e)
  PROVE  RedoneTo(s, RedoStep(x, k), k) \/ Broken(s, RedoStep(x, k))
  <1> DEFINE c == e.cmds[k]
             t == RedoStep(x, k)
             A == Ahead(e, k - 1)
  <1>1. /\ Redone(s, x) /\ x.stack = s.stack /\ x.fault = "none" /\ x.parent = A
        /\ x.conns \subseteq s.conns
    BY DEF RedoneTo
  <1>2. Sound(x) /\ Ends(x) /\ Nested(x.parent) /\ x.at = s.at /\ x.marks = s.marks
    BY <1>1, Zenon DEF Redone
  <1>3. x.stack[x.at].cmds[k] = c
    BY <1>1, <1>2
  <1>4. Redone(s, t)
    BY <1>1, RedoStepKeeps
  <1>5. x.parent \in Scene /\ x.conns \in SUBSET Conn
    BY <1>2 DEF Sound, SceneState
  <1> HIDE DEF A
  <1>6. CASE c.op = "disconnect"
    <2>1. /\ c.conn \in Conn /\ c.conn.wire[1] \in Nodes /\ c.conn.wire[2] \in Nodes
          /\ e.before[c.conn.wire[1]] # Absent /\ e.before[c.conn.wire[2]] # Absent
          /\ \A j \in 1 .. k : e.cmds[j].op # "remove"
      BY <1>6, ConnectionLed
    <2>2. \A j \in 1 .. k - 1 : \A m \in Nodes : ~RemovesAt(e, j, m)
      <3>1. \A j \in 1 .. k - 1 : j \in 1 .. k
        OBVIOUS
      <3>2. \A j \in 1 .. k - 1 : e.cmds[j].op # "remove"
        BY <2>1, <3>1
      <3> QED
        BY <3>2, Zenon DEF RemovesAt
    <2>3. EndsInScene(x, c.conn.wire)
      BY <1>1, <2>1, <2>2 DEF EndsInScene, InScene, A, Ahead
    <2>4. t = Disconnected(x, c.conn)
      BY <1>1, <1>3, <1>6 DEF RedoStep, RedoDisconnect
    <2>5. Ahead(e, k) = A
      BY <1>6, AheadBy DEF A
    <2> HIDE DEF t, c
    <2>6. /\ SameStack(x, t) /\ t.parent = x.parent /\ t.conns \subseteq x.conns
          /\ t.fault = x.fault
      BY <1>2, <2>1, <2>3, <2>4, DisconnectedFields
    <2>7. t.stack = s.stack /\ t.conns \subseteq s.conns
      BY <1>1, <2>6 DEF SameStack
    <2>8. t.parent = Ahead(e, k) /\ t.fault = "none"
      BY <1>1, <2>5, <2>6
    <2> QED
      BY <1>4, <2>7, <2>8 DEF RedoneTo, t
  <1>7. CASE c.op = "remove"
    <2> DEFINE n == c.node
    <2>1. /\ c \in Command /\ n \in Nodes /\ RemovesAt(e, k, n)
          /\ c.saved = e.before[n] /\ e.before[n] # Absent
          /\ \A j \in 1 .. Len(e.cmds) : RemovesAt(e, j, n) => j = k
          /\ \A m \in Nodes : e.before[m] = n => \E j \in 1 .. k - 1 : RemovesAt(e, j, m)
      <3>1. e.cmds[k].op = "remove"
        BY <1>7
      <3>2. Taking(e, k, c)
        BY <3>1, RemovalLed
      <3> QED
        BY <3>2, Zenon DEF Taking
    <2>2. n \in Removed(e)
      <3>1. k \in DOMAIN e.cmds
        BY DEF Entry
      <3> QED
        BY <2>1, <3>1, Zenon DEF Removed
    <2>3. A[n] = e.before[n] /\ InScene(x, n)
      <3>1. \A j \in 1 .. k - 1 : j \in 1 .. Len(e.cmds) /\ j # k
        OBVIOUS
      <3>2. ~\E j \in 1 .. k - 1 : RemovesAt(e, j, n)
        BY <2>1, <3>1
      <3>3. A[n] = e.before[n]
        BY <2>1, <3>2 DEF A, Ahead
      <3> QED
        BY <1>1, <2>1, <3>3 DEF InScene
    <2>4. Children(x, n) = {}
      <3> SUFFICES ASSUME NEW m \in Nodes, A[m] = n PROVE FALSE
        BY <1>1 DEF Children
      <3>1. n # Absent
        BY <2>1 DEF Absent
      <3>2. ~(\E j \in 1 .. k - 1 : RemovesAt(e, j, m)) /\ e.before[m] = n
        BY <3>1 DEF A, Ahead
      <3> QED
        BY <2>1, <3>2
    <2>5. Keeps(x, k)
      BY <1>1, <1>2, <1>3, <1>7 DEF Keeps
    <2>6. t = RedoRemove(x, k, c)
      BY <1>1, <1>3, <1>7, Zenon DEF RedoStep
    <2>7. c = x.stack[x.at].cmds[k]
      BY <1>3
    <2> HIDE DEF t, c
    <2>8. \/ t = [x EXCEPT !.fault = "node missing"] /\ ~InScene(x, n)
          \/ /\ t = [x EXCEPT !.fault = "command deleted"] /\ InScene(x, n)
             /\ Pulled(x, n) # <<>>
          \/ RemovalRedone(x, t, k, c)
      BY <1>1, <1>2, <1>7, <2>5, <2>6, <2>7, RedoRemoveFields
    <2>9. CASE t = [x EXCEPT !.fault = "command deleted"] /\ Pulled(x, n) # <<>>
      <3>1. "command deleted" \in Failures
        BY DEF Faults, Failures
      <3>2. Sound(t) /\ t.fault = "command deleted" /\ t.marks = x.marks
        BY <1>2, <2>9, <3>1, FaultFields
      <3>3. s.marks # {}
        <4> SUFFICES ASSUME s.marks = {} PROVE FALSE
          OBVIOUS
        <4>1. Family(x, n) = {n}
          BY <2>4 DEF Family
        <4>2. \A y \in x.conns : y.wire[1] # n /\ y.wire[2] # n
          BY <1>1, <2>2
        <4>3. ConnsOf(x, n) = {}
          BY <4>1, <4>2 DEF ConnsOf
        <4> QED
          BY <1>5, <2>1, <2>4, <2>9, <4>3, NothingPulled
      <3> QED
        BY <1>2, <3>2, <3>3 DEF Broken, t
    <2>10. CASE RemovalRedone(x, t, k, c)
      <3>1. /\ t.fault = "none" /\ t.parent = Without(x.parent, Family(x, n))
            /\ t.conns = x.conns \ ConnsOf(x, n)
        BY <2>10, Zenon DEF RemovalRedone
      <3>2. c.saved = x.parent[n]
        BY <1>1, <2>1, <2>3
      <3>3. t.stack = x.stack
        BY <1>2, <1>7, <2>5, <2>7, <2>10, <3>2, SameRemoval
      <3>4. t.parent = Without(A, {n})
        BY <1>1, <2>4, <3>1 DEF Family
      <3>5. Ahead(e, k) = Without(A, {n})
        BY <1>7, AheadBy DEF A, c
      <3>6. t.conns \subseteq s.conns /\ t.stack = s.stack /\ t.parent = Ahead(e, k)
        BY <1>1, <3>1, <3>3, <3>4, <3>5
      <3> QED
        BY <1>4, <3>1, <3>6 DEF RedoneTo, t
    <2> QED
      BY <2>3, <2>8, <2>9, <2>10
  <1> QED
    BY <1>6, <1>7

\* An entry of disconnections and removals, redone.
LEMMA RedoRestLeads ==
  ASSUME NEW s, Good(s), s.fault = "none", s.at \in 1 .. Len(s.stack),
         NEW e \in Entry, e = s.stack[s.at], Formed(e), RestLeads(e), s.parent = e.before,
         \A i \in 1 .. Len(e.cmds) : e.cmds[i].op \in {"remove", "disconnect"},
         s.marks = {} => \A c \in s.conns :
           c.wire[1] \notin Removed(e) /\ c.wire[2] \notin Removed(e)
  PROVE  LET w == Walked(s, FALSE)
         IN  RedoneTo(s, w, Len(e.cmds)) \/ Broken(s, w)
  <1> DEFINE n == Len(e.cmds)
             Fits(x, i) == RedoneTo(s, x, i) \/ Broken(s, x)
  <1>0. n \in Nat /\ n = Len(s.stack[s.at].cmds)
    BY DEF Entry
  <1> HIDE DEF n
  <1>1. PICK run : WalkRun(run, s, n, FALSE)
    BY <1>0, WalkRunExists
  <1>2. run[0] = s /\ \A i \in 1 .. n : run[i] = RedoStep(run[i - 1], i)
    BY <1>1 DEF WalkRun
  <1>3. Walked(s, FALSE) = run[n]
    BY <1>1, Zenon DEF WalkRun
  <1> DEFINE P == {i \in 0 .. n : Fits(run[i], i)}
  <1>4. 0 \in P
    <2>1. Alike(s, s)
      BY Zenon DEF Alike
    <2>2. Redone(s, s)
      BY <2>1, Zenon DEF Good, Strong, Redone
    <2>3. Ahead(e, 0) = e.before
      BY AheadEnds
    <2>4. RedoneTo(s, s, 0)
      BY <2>2, <2>3 DEF RedoneTo
    <2> QED
      BY <1>0, <1>2, <2>4
  <1>5. ASSUME NEW i \in 1 .. n, i - 1 \in P PROVE i \in P
    <2> DEFINE x == run[i - 1]
    <2>1. i \in 0 .. n /\ i \in 1 .. Len(e.cmds) /\ run[i] = RedoStep(x, i)
      BY <1>0, <1>2 DEF n
    <2>2. Fits(x, i - 1)
      BY <1>5
    <2> HIDE DEF x
    <2>3. CASE RedoneTo(s, x, i - 1)
      <3>1. e.cmds[i].op \in {"remove", "disconnect"}
        BY <2>1
      <3>2. RedoneTo(s, RedoStep(x, i), i) \/ Broken(s, RedoStep(x, i))
        BY <2>1, <2>3, <3>1, RedoStepLeads, Zenon
      <3> QED
        BY <2>1, <3>2
    <2>4. CASE Broken(s, x)
      <3>1. x.fault # "none"
        BY <2>4, Zenon DEF Broken
      <3>2. RedoStep(x, i) = x
        BY <3>1, Zenon DEF RedoStep
      <3> QED
        BY <2>1, <2>4, <3>2
    <2> QED
      BY <2>2, <2>3, <2>4
  <1>6. n \in P
    <2> HIDE DEF P
    <2>1. \A i \in 0 .. n : i \in P
      BY <1>0, <1>4, <1>5, UpTo
    <2> QED
      BY <1>0, <2>1
  <1> QED
    BY <1>3, <1>6 DEF n

\* What a redo does that only follows the entry that comes next.
LEMMA ForwardTold ==
  ASSUME NEW s, NEW w, Told(s), s.fault = "none", Sound(w), w.fault = "none",
         s.marks \subseteq w.marks, Len(s.stack) \in Nat,
         NEW k \in 1 .. Len(s.stack), Len(w.stack) = Len(s.stack),
         ~Moved(s) =>
           /\ \A j \in 1 .. Len(s.stack) : Like(s.stack[j], w.stack[j])
           /\ w.parent = s.stack[k].after,
         w.marks = {} => w.conns \subseteq s.conns
  PROVE  Told([w EXCEPT !.index = k])
  <1> DEFINE r == [w EXCEPT !.index = k]
  <1>1. k \in Nat /\ k <= Len(w.stack)
    OBVIOUS
  <1>2. /\ r.parent = w.parent /\ r.conns = w.conns /\ r.stack = w.stack
        /\ r.index = k /\ r.fault = w.fault /\ r.marks = w.marks
    BY <1>1, IndexSet
  <1> HIDE DEF r
  <1>3. ASSUME ~Moved(s)
        PROVE  /\ \A j \in 1 .. Len(s.stack) : Like(s.stack[j], r.stack[j])
               /\ r.index > 0 => r.parent = s.stack[r.index].after
               /\ r.index < Len(s.stack) => r.parent = s.stack[r.index + 1].before
    <2>1. k < Len(s.stack) => k \in 1 .. Len(s.stack) - 1
      OBVIOUS
    <2>2. Chained(s)
      BY <1>3 DEF Told
    <2>3. k < Len(s.stack) => s.stack[k].after = s.stack[k + 1].before
      BY <2>1, <2>2 DEF Chained
    <2> QED
      BY <1>2, <1>3, <2>3
  <1>4. Len(r.stack) = Len(s.stack) /\ r.index \in 0 .. Len(s.stack) /\ r.fault = "none"
        /\ s.marks \subseteq r.marks /\ (r.marks = {} => r.conns \subseteq s.conns)
    BY <1>2
  <1>5. Told(r)
    BY <1>3, <1>4, StoryTold
  <1> QED
    BY <1>5 DEF r

\* A state that is about to redo entry e.
Redoes(s, e) ==
  /\ Good(s) /\ Told(s) /\ s.fault = "none" /\ s.at = s.index + 1 /\ s.at \in 1 .. Len(s.stack)
  /\ Len(s.stack) \in Nat /\ s.index \in Nat
  /\ e = s.stack[s.at] /\ e \in Entry /\ Formed(e) /\ Saved(e)

LEMMA RedoesFrom ==
  ASSUME NEW s, NEW e, Redoes(s, e), ~Moved(s)
  PROVE  /\ s.parent = e.before /\ Leads(e)
         /\ s.marks = {} => \A c \in s.conns :
              c.wire[1] \notin Removed(e) /\ c.wire[2] \notin Removed(e)
  <1>1. /\ Told(s) /\ s.fault = "none" /\ s.at = s.index + 1 /\ s.at \in 1 .. Len(s.stack)
        /\ Len(s.stack) \in Nat /\ s.index \in Nat /\ e = s.stack[s.at]
    BY Zenon DEF Redoes
  <1>2. Chained(s) /\ (s.marks = {} => Unconnected(s))
    BY <1>1, Zenon DEF Told
  <1>3. s.index < Len(s.stack)
    BY <1>1
  <1>4. s.parent = e.before /\ Leads(e)
    BY <1>1, <1>2, <1>3 DEF Chained
  <1> QED
    BY <1>1, <1>2, <1>4 DEF Unconnected

LEMMA RedoAddTold ==
  ASSUME NEW s, NEW e, Redoes(s, e), Adds(e)
  PROVE  Told([Walked(s, FALSE) EXCEPT !.index = s.index + 1])
  <1> DEFINE c == e.cmds[1]
             w == Walked(s, FALSE)
             k == s.index + 1
  <1>1. /\ Good(s) /\ Told(s) /\ s.fault = "none" /\ s.at = k /\ k \in 1 .. Len(s.stack)
        /\ Len(s.stack) \in Nat /\ s.index \in Nat
        /\ e = s.stack[s.at] /\ e \in Entry /\ Formed(e) /\ Saved(e)
    BY Zenon DEF Redoes
  <1>2. Len(e.cmds) = 1 /\ c.op = "add" /\ e.cmds \in Seq(Command)
    BY <1>1, OneAddition
  <1>3. c \in Command /\ 1 \in DOMAIN e.cmds
    BY <1>2
  <1>4. w = RedoAdd(s, c)
    BY <1>1, <1>2, OneStep DEF RedoStep
  <1>5. Sound(s)
    BY <1>1, Zenon DEF Good
  <1>6. c.saved # Empty /\ (c.node \in Containers => c.saved \in {Root, Empty})
    BY <1>1, <1>2, <1>3 DEF Saved, Formed
  <1> HIDE DEF w, c, k
  <1>7. /\ Sound(w) /\ w.stack = s.stack /\ w.conns = s.conns /\ w.fault = s.fault
        /\ w.marks = s.marks
        /\ ~InScene(s, c.node) => w.parent = [s.parent EXCEPT ![c.node] = Place(s, c)]
    <2>1. CASE InScene(s, c.node)
      BY <1>4, <1>5, <2>1 DEF RedoAdd
    <2>2. CASE ~InScene(s, c.node)
      <3>1. w = PutBack(s, c)
        BY <1>4, <2>2 DEF RedoAdd
      <3>2. c.op \in {"add", "remove"}
        BY <1>2
      <3> QED
        BY <1>3, <1>5, <1>6, <3>1, <3>2, PutBackFields
    <2> QED
      BY <2>1, <2>2
  <1>8. ASSUME ~Moved(s)
        PROVE  /\ \A j \in 1 .. Len(s.stack) : Like(s.stack[j], w.stack[j])
               /\ w.parent = s.stack[k].after
    <2>1. s.parent = e.before /\ AddLeads(e)
      BY <1>8, RedoesFrom DEF Leads
    <2> DEFINE n == c.node
    <2>2. /\ n \in Nodes /\ e.after[n] \in Containers \cup {Root}
          /\ e.after[n] \in Containers => e.before[e.after[n]] # Absent
          /\ e.before[n] = Absent /\ e.after = [e.before EXCEPT ![n] = e.after[n]]
          /\ c.saved \in {Empty, e.after[n]}
      BY <1>1, <1>2, <1>3, <2>1, AdditionLed DEF c
    <2>3. Place(s, c) = e.after[n] /\ ~InScene(s, n)
      BY <1>6, <2>1, <2>2 DEF Place, InScene
    <2>4. w.parent = e.after
      BY <1>7, <2>1, <2>2, <2>3
    <2> QED
      BY <1>1, <1>7, <2>4, LikeItself
  <1>9. w.fault = "none" /\ s.marks \subseteq w.marks /\ Len(w.stack) = Len(s.stack)
        /\ w.conns \subseteq s.conns
    BY <1>1, <1>7
  <1>10. Told([w EXCEPT !.index = k])
    BY <1>1, <1>7, <1>8, <1>9, ForwardTold
  <1> QED
    BY <1>10 DEF w, k

LEMMA RedoConnectTold ==
  ASSUME NEW s, NEW e, Redoes(s, e), s.uid \in 1 .. MaxUid, Len(e.cmds) = 1,
         e.cmds[1].op = "connect"
  PROVE  Told([Walked(s, FALSE) EXCEPT !.index = s.index + 1])
  <1> DEFINE c == e.cmds[1]
             w == Walked(s, FALSE)
             k == s.index + 1
  <1>1. /\ Good(s) /\ Told(s) /\ s.fault = "none" /\ s.at = k /\ k \in 1 .. Len(s.stack)
        /\ Len(s.stack) \in Nat /\ s.index \in Nat
        /\ e = s.stack[s.at] /\ e \in Entry /\ Formed(e)
    BY Zenon DEF Redoes
  <1>2. c \in Command /\ DOMAIN e.cmds = {1} /\ c.op = "connect"
    BY <1>1 DEF Entry
  <1>3. w = RedoConnect(s, 1, c)
    BY <1>1, <1>2, OneStep DEF RedoStep
  <1>4. Sound(s) /\ Ends(s) /\ s.at \in 1 .. Len(s.stack)
    BY <1>1 DEF Good
  <1>5. c = s.stack[s.at].cmds[1] /\ Len(s.stack[s.at].cmds) = 1
    BY <1>1
  <1>6. ~Adds(e) /\ Removed(e) = {}
    BY <1>2 DEF Adds, Removed, RemovesAt
  <1> HIDE DEF w, c, k
  <1>7. /\ Sound(w) /\ w.parent = s.parent /\ w.fault = s.fault /\ s.marks \subseteq w.marks
        /\ w = s \/ Remade(s, w)
    BY <1>2, <1>3, <1>4, <1>5, RedoConnectFields
  <1>8. Len(w.stack) = Len(s.stack) /\ (w.marks = {} => w.conns \subseteq s.conns)
    <2>1. CASE w = s
      BY <2>1
    <2>2. CASE Remade(s, w)
      BY <2>2 DEF Remade
    <2> QED
      BY <1>7, <2>1, <2>2
  <1>9. ASSUME ~Moved(s)
        PROVE  /\ \A j \in 1 .. Len(s.stack) : Like(s.stack[j], w.stack[j])
               /\ w.parent = s.stack[k].after
    <2>1. s.parent = e.before /\ RestLeads(e)
      BY <1>6, <1>9, RedoesFrom DEF Leads
    <2>2. e.after = e.before
      <3>1. e.after = [m \in Nodes |-> IF m \in Removed(e) THEN Absent ELSE e.before[m]]
        BY <2>1, Zenon DEF RestLeads
      <3> QED
        BY <1>1, <1>6, <3>1 DEF Entry, Scene
    <2>3. CASE w = s
      BY <1>1, <1>7, <2>1, <2>2, <2>3, LikeItself
    <2>4. CASE Remade(s, w)
      <3> DEFINE f == w.stack[s.at]
                 d == f.cmds[1]
      <3>1. /\ \A j \in 1 .. Len(s.stack) : j # s.at => w.stack[j] = s.stack[j]
            /\ f \in Entry /\ f.before = e.before /\ f.after = e.after /\ Len(f.cmds) = 1
            /\ d.op = "connect" /\ d.conn.wire = c.conn.wire
        BY <1>1, <2>4 DEF Remade, c
      <3> HIDE DEF f
      <3>2. d \in Command /\ f.cmds = <<d>>
        BY <3>1 DEF Entry
      <3> HIDE DEF d
      <3>3. e.before[c.conn.wire[1]] # Absent /\ e.before[c.conn.wire[2]] # Absent
        <4>1. 1 \in 1 .. Len(e.cmds) /\ e.cmds[1].op \in {"connect", "disconnect"}
          BY <1>2 DEF c
        <4> QED
          BY <1>1, <2>1, <4>1, ConnectionLed DEF c
      <3>4. Leads(f) /\ Removed(f) = {}
        <4>1. d.op \in {"connect", "disconnect"}
          BY <3>1
        <4> QED
          BY <2>2, <3>1, <3>2, <3>3, <4>1, ConnectionLeads
      <3>5. Like(e, f)
        BY <1>6, <3>1, <3>4 DEF Like
      <3>6. \A j \in 1 .. Len(s.stack) : Like(s.stack[j], w.stack[j])
        BY <1>1, <3>1, <3>5, LikeItself DEF f
      <3> QED
        BY <1>1, <1>7, <2>1, <2>2, <3>6
    <2> QED
      BY <1>7, <2>3, <2>4
  <1>10. w.fault = "none"
    BY <1>1, <1>7
  <1>11. Told([w EXCEPT !.index = k])
    BY <1>1, <1>7, <1>8, <1>9, <1>10, ForwardTold
  <1> QED
    BY <1>11 DEF w, k

LEMMA RedoRestTold ==
  ASSUME NEW s, NEW e, Redoes(s, e), ~Adds(e),
         \A i \in 1 .. Len(e.cmds) : e.cmds[i].op \in {"remove", "disconnect"}
  PROVE  Told([Walked(s, FALSE) EXCEPT !.index = s.index + 1])
  <1> DEFINE w == Walked(s, FALSE)
             k == s.index + 1
             r == [w EXCEPT !.index = k]
  <1>1. /\ Good(s) /\ Told(s) /\ s.fault = "none" /\ s.at = k /\ k \in 1 .. Len(s.stack)
        /\ Len(s.stack) \in Nat /\ s.index \in Nat /\ s.at \in 1 .. Len(s.stack)
        /\ e = s.stack[s.at] /\ e \in Entry /\ Formed(e)
    BY Zenon DEF Redoes
  <1>2. Redone(s, w)
    <2>1. Len(e.cmds) \in Nat
      BY <1>1, OneAddition
    <2> QED
      BY <1>1, <2>1, RedoRestFields
  <1> HIDE DEF w
  <1>3. Sound(w) /\ w.marks = s.marks /\ Len(w.stack) = Len(s.stack)
    BY <1>2, Zenon DEF Redone, Alike
  <1>4. k \in Nat /\ k <= Len(w.stack)
    BY <1>1, <1>3
  <1>5. r.fault = w.fault /\ r.marks = w.marks
    BY <1>3, <1>4, IndexSet
  <1> HIDE DEF r, k
  <1>6. CASE Moved(s)
    <2>1. Moved(r)
      BY <1>3, <1>5, <1>6 DEF Moved
    <2> QED
      BY <2>1, MovedIsTold DEF r, w, k
  <1>7. CASE ~Moved(s)
    <2>1. /\ s.parent = e.before /\ RestLeads(e)
          /\ s.marks = {} => \A c \in s.conns :
               c.wire[1] \notin Removed(e) /\ c.wire[2] \notin Removed(e)
      BY <1>7, RedoesFrom DEF Leads
    <2>2. RedoneTo(s, w, Len(e.cmds)) \/ Broken(s, w)
      BY <1>1, <2>1, RedoRestLeads DEF w
    <2>3. CASE RedoneTo(s, w, Len(e.cmds))
      <3>1. w.stack = s.stack /\ w.fault = "none" /\ w.conns \subseteq s.conns
            /\ w.parent = Ahead(e, Len(e.cmds))
        BY <1>1, <2>3, Zenon DEF RedoneTo
      <3>2. Ahead(e, Len(e.cmds)) = e.after
        BY <1>1, <2>1, AheadEnds
      <3>3. /\ \A j \in 1 .. Len(s.stack) : Like(s.stack[j], w.stack[j])
            /\ w.parent = s.stack[k].after
        BY <1>1, <3>1, <3>2, LikeItself
      <3>4. s.marks \subseteq w.marks
        BY <1>3
      <3>5. Told([w EXCEPT !.index = k])
        BY <1>1, <1>3, <3>1, <3>3, <3>4, ForwardTold
      <3> QED
        BY <3>5 DEF w, k
    <2>4. CASE Broken(s, w)
      <3>1. r.fault = "command deleted" /\ r.marks # {}
        BY <1>3, <1>5, <2>4 DEF Broken
      <3>2. Told(r)
        BY <3>1 DEF Told
      <3> QED
        BY <3>2 DEF r, w, k
    <2> QED
      BY <2>2, <2>3, <2>4
  <1> QED
    BY <1>6, <1>7

LEMMA RedoTold ==
  ASSUME Structure, fault = "none", Told(State), Redo
  PROVE  Told(State)'
  <1> DEFINE s == [State EXCEPT !.at = index + 1]
             e == s.stack[s.at]
             r == [Walked(s, FALSE) EXCEPT !.index = index + 1]
  <1>1. index \in Nat /\ index + 1 \in 1 .. Len(stack) /\ nextUid \in 1 .. MaxUid /\ Become(r)
    BY DEF Redo, Structure, TypeOK
  <1>2. /\ Told(s) /\ Good(s) /\ Strong(s) /\ s.fault = "none" /\ s.at = index + 1
        /\ s.index = index /\ s.stack = stack /\ e \in Entry /\ Formed(e) /\ Len(s.stack) \in Nat
    BY <1>1, WalkTold
  <1>3. s.uid \in 1 .. MaxUid
    BY <1>1, WalkStarts
  <1> HIDE DEF s
  <1>4. Saved(e)
    <2>1. s.at > s.index /\ s.at \in 1 .. Len(s.stack)
      BY <1>1, <1>2
    <2> QED
      BY <1>2, <2>1 DEF Strong
  <1>5. Redoes(s, e)
    BY <1>1, <1>2, <1>4 DEF Redoes
  <1>6. Told(r)
    <2>1. CASE Adds(e)
      BY <1>2, <1>5, <2>1, RedoAddTold
    <2>2. CASE ~Adds(e) /\ \E i \in 1 .. Len(e.cmds) : e.cmds[i].op = "connect"
      <3>1. e.cmds \in Seq(Command) /\ Len(e.cmds) \in Nat
        BY <1>2, OneAddition
      <3>2. PICK i \in 1 .. Len(e.cmds) : e.cmds[i].op = "connect"
        BY <2>2
      <3>3. Len(e.cmds) = 1
        BY <1>2, <3>1, <3>2 DEF Formed
      <3>4. e.cmds[1].op = "connect"
        BY <3>2, <3>3
      <3> QED
        BY <1>2, <1>3, <1>5, <3>3, <3>4, RedoConnectTold
    <2>3. CASE ~Adds(e) /\ ~\E i \in 1 .. Len(e.cmds) : e.cmds[i].op = "connect"
      <3>1. /\ e.cmds \in Seq(Command) /\ Len(e.cmds) \in Nat
            /\ \A i \in 1 .. Len(e.cmds) : e.cmds[i].op # "add"
        BY <1>2, <2>3, OneAddition
      <3>2. ASSUME NEW i \in 1 .. Len(e.cmds) PROVE e.cmds[i].op \in {"remove", "disconnect"}
        <4>1. e.cmds[i] \in Command
          BY <3>1
        <4> QED
          BY <2>3, <3>1, <4>1 DEF Command
      <3> QED
        BY <1>2, <1>5, <2>3, <3>2, RedoRestTold
    <2> QED
      BY <2>1, <2>2, <2>3
  <1> HIDE DEF r
  <1> QED
    BY <1>1, <1>6, ToldBecomes

LEMMA ToldInductive ==
  /\ Init => Inductive
  /\ Inductive /\ [Next]_vars => Inductive'
  <1>1. ASSUME Init PROVE Told(State)
    <2>1. State.stack = <<>> /\ State.index = 0 /\ State.fault = "none"
      BY <1>1 DEF Init, State
    <2> QED
      BY <2>1, NothingTold
  <1>2. ASSUME Structure, Told(State), Next PROVE Told(State)'
    <2>1. fault = "none"
      BY <1>2 DEF Next
    <2>2. CASE \E n \in Nodes, p \in Containers \cup {Root} : AddNode(n, p)
      BY <1>2, <2>1, <2>2, AddNodeTold
    <2>3. CASE \E n \in Nodes : RemoveNode(n)
      BY <1>2, <2>1, <2>3, RemoveNodeTold
    <2>4. CASE \E w \in Wires : Connect(w)
      BY <1>2, <2>1, <2>4, ConnectTold
    <2>5. CASE \E c \in conns : Disconnect(c)
      BY <1>2, <2>1, <2>5, DisconnectTold
    <2>6. CASE \E n \in Components, p \in Containers : Drag(n, p)
      BY <1>2, <2>1, <2>6, DragTold
    <2>7. CASE Undo
      BY <1>2, <2>1, <2>7, UndoTold
    <2>8. CASE Redo
      BY <1>2, <2>1, <2>8, RedoTold
    <2>9. CASE Clear
      BY <2>1, <2>9, ClearTold
    <2> QED
      BY <1>2, <2>2, <2>3, <2>4, <2>5, <2>6, <2>7, <2>8, <2>9 DEF Next
  <1>3. ASSUME Told(State), UNCHANGED vars PROVE Told(State)'
    <2> DEFINE u == State'
    <2>1. u = State
      BY <1>3 DEF vars, State
    <2> HIDE DEF u
    <2>2. Told(u)
      BY <1>3, <2>1
    <2> QED
      BY <2>2 DEF u, Told, Moved, Chained, GoneForGood, Unconnected
  <1> QED
    BY <1>1, <1>2, <1>3, StructureInductive DEF Inductive

\* Undo and redo lead the nodes through exactly the scenes they were in: while nothing
\* was dragged and the limit deleted nothing during an undo, the nodes are where the
\* entry below the index ended and where the entry above it starts (UndoController,
\* AddNodeCommand, RemoveNodeCommand), removals of whole containers and the cuts of
\* refused drags included.
THEOREM HistoryFollowed == Spec => []NodesFollowHistory
  <1>1. ASSUME Inductive PROVE NodesFollowHistory
    <2>1. State.parent = parent /\ State.stack = stack /\ State.index = index
          /\ State.fault = fault /\ State.marks = marks
      BY DEF State
    <2>2. ASSUME ~Disturbed, fault = "none" PROVE Chained(State)
      BY <1>1, <2>1, <2>2 DEF Inductive, Told, Moved, Disturbed
    <2>3. Len(stack) \in Nat /\ index \in 0 .. Len(stack)
      BY <1>1 DEF Inductive, Structure, TypeOK
    <2> QED
      BY <2>1, <2>2, <2>3 DEF NodesFollowHistory, Chained
  <1> QED
    BY <1>1, ToldInductive, PTL DEF Spec

\* No command runs for a node that is not there and no assertion fails unless the stack
\* was disturbed, and the stack loses the command it redoes (RemoveNodeCommand::redo)
\* only if something was dragged or shifted, or a connection was made again or came
\* back as a phantom; a missing item is met only where a refused drag left a node of the
\* scene without one.
THEOREM FaultsCaused == Spec => []FaultsNeedACause
  <1>1. ASSUME Inductive PROVE FaultsNeedACause
    <2>1. State.fault = fault /\ State.marks = marks
      BY DEF State
    <2> QED
      BY <1>1, <2>1 DEF Inductive, Structure, ItemsThere, Told, Moved, Disturbed,
                        FaultsNeedACause
  <1> QED
    BY <1>1, ToldInductive, PTL DEF Spec
=============================================================================
