---------------------------- MODULE NodeCaptions ----------------------------
(***************************************************************************)
(* The captions of the scene's nodes and the registry that numbers them:   *)
(* NameController keeps, for every base name, the set of numbers in use,   *)
(* and DataFlowModel calls it when a node is added, renamed or about to be *)
(* removed.  Two copies of one datum: the caption each node shows and the  *)
(* number the registry holds for it.                                       *)
(*                                                                         *)
(* A text a user types, or a caption, is a base, a number, and whether the *)
(* text is spelled the way the registry spells it ("Radar_2").  "Radar"    *)
(* and "Radar_02" split to base and number too but are other texts, which  *)
(* matters where a new caption is compared with the present one.           *)
(***************************************************************************)
EXTENDS Integers, FiniteSets

CONSTANTS
  Nodes,           \* node ids
  Kinds,           \* node types; each one's default caption is its own name
  ComponentKinds,  \* types whose new node takes the caption of a component file
  Bases,           \* base names, the default captions among them
  Numbers,         \* numbers a user types after a base
  Limit,           \* how many nodes of one type the model admits
  AnyReopen        \* TRUE: any project is reopened, FALSE: see Reopen

ASSUME NodesFinite == IsFiniteSet(Nodes)
NoNode == "no node"

ASSUME NoNodeIsNoKind == NoNode \notin Kinds
ASSUME KindsAreBases == ComponentKinds \subseteq Kinds /\ Kinds \subseteq Bases
ASSUME NumbersAreInts == Numbers \subseteq Int
ASSUME LimitIsNat == Limit \in Nat
ASSUME AnyReopenIsBool == AnyReopen \in BOOLEAN

VARIABLES
  kind,      \* node -> its type, or NoNode while the id is not in use
  caption,   \* node -> its caption
  allNames   \* base -> numbers registered ({}: the base is not in the map)

vars == <<kind, caption, allNames>>

Caption == [base : Bases, num : Int, spelled : BOOLEAN]
Text == [base : Bases, num : Numbers, spelled : BOOLEAN]
Default(k) == [base |-> k, num |-> 0, spelled |-> FALSE]
Alive == {n \in Nodes : kind[n] # NoNode}
NumbersOf(b) == {caption[n].num : n \in {m \in Alive : caption[m].base = b}}

TypeOK ==
  /\ kind \in [Nodes -> Kinds \cup {NoNode}]
  /\ caption \in [Nodes -> Caption]
  /\ allNames \in [Bases -> SUBSET Int]

----------------------------------------------------------------------------
\* The registry's operations, from the old registry to the new one.

\* expectedNumber: 0 if that is free (the set is sorted, so a negative number
\* hides a 0 that is taken), else the number after the first one whose
\* successor is free; the other form goes to the end of the set.
LastOf(S) == CHOOSE i \in S : \A j \in S : j <= i
FirstGap(S) ==
  CHOOSE i \in S : i + 1 \notin S /\ \A j \in S : j + 1 \notin S => i <= j

ExpectedNumber(S) ==
  IF 0 \notin S \/ \E i \in S : i < 0 THEN 0 ELSE FirstGap(S) + 1

\* The number a caption is registered under; the other form keeps the typed one.
NumberTyped(names, t) == t.num
NumberFor(names, t) ==
  IF t.num \in names[t.base] THEN ExpectedNumber(names[t.base]) ELSE t.num

\* itemCaptionAddedSlot: if even the number it chose is taken the node keeps
\* the caption it has, which the registry does not know.
Added(names, old, t) ==
  LET i == NumberFor(names, t)
  IN  IF i \in names[t.base]
      THEN [names |-> names, caption |-> old]
      ELSE [names   |-> [names EXCEPT ![t.base] = @ \cup {i}],
            caption |-> [base |-> t.base, num |-> i, spelled |-> TRUE]]

\* itemCaptionRemovedSlot: the last number of a base goes with the base,
\* whichever number it is; the other form takes the base at any size.
BaseRemoved(names, c) == [names EXCEPT ![c.base] = {}]
Removed(names, c) ==
  [names EXCEPT ![c.base] = IF Cardinality(@) > 1 THEN @ \ {c.num} ELSE {}]

\* changeItemCaption
Changed(names, old, t) ==
  IF t = old THEN [names |-> names, caption |-> old]
             ELSE Added(Removed(names, old), old, t)

\* containsCaption, and the form that looks at the expected number only.
ContainsExpected(t) ==
  /\ allNames[t.base] # {}
  /\ ExpectedNumber(allNames[t.base]) \in allNames[t.base]
ContainsCaption(t) ==
  /\ allNames[t.base] # {}
  /\ \/ t.num \in allNames[t.base]
     \/ ExpectedNumber(allNames[t.base]) \in allNames[t.base]

----------------------------------------------------------------------------
Init ==
  /\ kind = [n \in Nodes |-> NoNode]
  /\ caption \in {[n \in Nodes |-> Default(k)] : k \in Kinds}
  /\ allNames = [b \in Bases |-> {}]

CanAddNode(n, k) ==
  /\ n \notin Alive
  /\ Cardinality({m \in Alive : kind[m] = k}) < Limit

Show(n, r) ==
  /\ caption' = [caption EXCEPT ![n] = r.caption]
  /\ allNames' = r.names

\* DataFlowModel::addNode, with the caption of the type or, for a node that a
\* command or a paste brings back, the caption it was saved with.
PutNode(n, k, t) ==
  /\ CanAddNode(n, k)
  /\ kind' = [kind EXCEPT ![n] = k]
  /\ Show(n, Added(allNames, t, t))

RestoreNode(n, k, t) == t.spelled /\ PutNode(n, k, t)

\* Facade::createNode: a component is then renamed after its file.
CreateNode(n, k) == k \notin ComponentKinds /\ PutNode(n, k, Default(k))

CreateComponent(n, k, t) ==
  /\ k \in ComponentKinds
  /\ CanAddNode(n, k)
  /\ kind' = [kind EXCEPT ![n] = k]
  /\ LET r == Added(allNames, Default(k), Default(k))
     IN  Show(n, Changed(r.names, r.caption, t))

Rename(n, t) ==
  /\ n \in Alive
  /\ Show(n, Changed(allNames, caption[n], t))
  /\ UNCHANGED kind

\* The rename dialog refuses a name that is taken; editing in the tree view
\* does not ask.
RenameInDialog(n, t) == ~ContainsCaption(t) /\ Rename(n, t)
EditInTree(n, t) == Rename(n, t)

RemoveNode(n) ==
  /\ n \in Alive
  /\ kind' = [kind EXCEPT ![n] = NoNode]
  /\ allNames' = Removed(allNames, caption[n])
  /\ UNCHANGED caption

\* Facade::clear, and the form that leaves the map without its bases.
ClearMap ==
  /\ Alive # {}
  /\ kind' = [n \in Nodes |-> NoNode]
  /\ allNames' = <<>>
  /\ UNCHANGED caption
Clear ==
  /\ Alive # {}
  /\ kind' = [n \in Nodes |-> NoNode]
  /\ allNames' = [b \in Bases |-> {}]
  /\ UNCHANGED caption

\* DataFlowModel::restore adds every saved node with its type's default
\* caption, which is what the registry counts, then gives the node its saved
\* caption behind the registry's back; the changeItemCaption that follows
\* compares the caption with itself.
Reloaded ==
  [b \in Bases |-> 0 .. Cardinality({n \in Alive : kind[n] = b}) - 1]

Exact(names) ==
  \A b \in Bases : names[b] = NumbersOf(b)

\* Facade::clear and Facade::restore of the same nodes.  Unless AnyReopen,
\* only projects whose captions are the ones the registry would have given.
Reopen ==
  /\ Alive # {}
  /\ AnyReopen \/ Exact(Reloaded)
  /\ allNames' = Reloaded
  /\ UNCHANGED <<kind, caption>>

Next ==
  \/ \E n \in Nodes, k \in Kinds : CreateNode(n, k)
  \/ \E n \in Nodes, k \in Kinds, t \in Text : CreateComponent(n, k, t)
  \/ \E n \in Nodes, k \in Kinds, t \in Text : RestoreNode(n, k, t)
  \/ \E n \in Nodes, t \in Text : RenameInDialog(n, t)
  \/ \E n \in Nodes, t \in Text : EditInTree(n, t)
  \/ \E n \in Nodes : RemoveNode(n)
  \/ Clear
  \/ Reopen

Spec == Init /\ [][Next]_vars

----------------------------------------------------------------------------
\* The registry holds exactly the numbers the living nodes' captions show,
\* each in the registry's spelling: the two copies never drift apart over
\* adding, renaming, removing, undoing and pasting (NameController::allNames_
\* against NodeImp::caption).
RegistryExact ==
  /\ Exact(allNames)
  /\ \A n \in Alive : caption[n].spelled

\* No two nodes of a project show the same caption, which is what the registry
\* is for (NameController::itemCaptionAddedSlot).
CaptionsUnique ==
  \A m, n \in Alive : caption[m] = caption[n] => m = n

\* A name the rename dialog accepts is the name the node ends up with, number
\* included, although the node's old name leaves the registry in between
\* (Facade::renameNode, NameController::changeItemCaption).
RenamedAsTyped ==
  [][\A n \in Nodes, t \in Text :
        RenameInDialog(n, t) =>
          caption'[n].base = t.base /\ caption'[n].num = t.num]_vars

\* A new node gets the least number that no node with its base shows, so
\* numbers are reused and never skipped (NameController::expectedNumber
\* against its reference definition).
LeastFreeNumber ==
  [][\A n \in Nodes, k \in Kinds :
        CreateNode(n, k) =>
          /\ caption'[n].num \notin NumbersOf(k)
          /\ \A i \in 0 .. caption'[n].num - 1 : i \in NumbersOf(k)]_vars

\* The rename dialog says of a name that is in use "This name has already
\* taken. Enter a different name." (RenameDialog.cpp:10): it never accepts
\* the caption of another node.
TakenNameRefused ==
  [][\A n \in Nodes, t \in Text :
        RenameInDialog(n, t) =>
          \A m \in Alive \ {n} :
             ~(caption[m].base = t.base /\ caption[m].num = t.num)]_vars
=============================================================================
