------------------------ MODULE NodeCaptions_proofs ------------------------
(***************************************************************************)
(* What the registry of names guarantees for any nodes, bases and limits,  *)
(* when no user types a negative number and no project is reopened whose   *)
(* captions the registry would not have given: the registry is exact and   *)
(* the captions are unique.                                                *)
(***************************************************************************)
EXTENDS NodeCaptions, FiniteSetTheorems, WellFoundedInduction, TLAPS

\* Every set of naturals that is not empty has a least member.
LEMMA LeastNatural ==
  ASSUME NEW T \in SUBSET Nat, T # {}
  PROVE  \E m \in T : \A k \in T : m <= k
<1>1. PICK m \in T : \A k \in T : ~ (<<k, m>> \in OpToRel(<, Nat))
  BY NatLessThanWellFounded, WFMin
<1>2. \A k \in T : ~(k < m)
  BY <1>1 DEF OpToRel
<1> QED
  BY <1>2

\* A finite set of naturals has a member whose successor is not in it.
LEMMA GapExists ==
  ASSUME NEW S \in SUBSET Nat, IsFiniteSet(S), 0 \in S
  PROVE  \E i \in S : i + 1 \notin S
<1> SUFFICES ASSUME \A i \in S : i + 1 \in S PROVE FALSE
  OBVIOUS
<1> DEFINE f == [i \in S |-> i + 1]
<1>1. f \in Injection(S, S \ {0})
  <2>1. f \in [S -> S \ {0}]
    OBVIOUS
  <2>2. \A a, b \in S : f[a] = f[b] => a = b
    OBVIOUS
  <2> QED BY <2>1, <2>2 DEF Injection, IsInjective
<1>2. IsFiniteSet(S \ {0}) /\ Cardinality(S \ {0}) = Cardinality(S) - 1
  BY FS_RemoveElement
<1>3. Cardinality(S) <= Cardinality(S \ {0})
  BY <1>1, <1>2, FS_Injection
<1>4. Cardinality(S) \in Nat
  BY FS_CardinalityType
<1> QED
  BY <1>2, <1>3, <1>4

\* expectedNumber returns the least number not registered for the base.
LEMMA ExpectedIsLeastFree ==
  ASSUME NEW S \in SUBSET Nat, IsFiniteSet(S), S # {}
  PROVE  /\ ExpectedNumber(S) \in Nat \ S
         /\ \A i \in 0 .. ExpectedNumber(S) - 1 : i \in S
<1>1. CASE 0 \notin S
  BY <1>1 DEF ExpectedNumber
<1>2. CASE 0 \in S
  <2> DEFINE G == {i \in S : i + 1 \notin S}
             g == FirstGap(S)
  <2>1. \E i \in S : i + 1 \notin S /\ \A j \in S : j + 1 \notin S => i <= j
    <3>1. G # {} /\ G \in SUBSET Nat
      BY <1>2, GapExists
    <3> QED BY <3>1, LeastNatural
  <2>2. g \in S /\ g + 1 \notin S /\ \A j \in S : j + 1 \notin S => g <= j
    BY <2>1 DEF FirstGap
  <2>3. ExpectedNumber(S) = g + 1
    BY <1>2 DEF ExpectedNumber
  <2>4. \A i \in 0 .. g : i \in S
    <3> DEFINE B == {i \in 0 .. g : i \notin S}
    <3> HIDE DEF g
    <3>1. SUFFICES ASSUME B # {} PROVE FALSE
      OBVIOUS
    <3>2. B \in SUBSET Nat
      BY <2>2
    <3>3. PICK m \in B : \A k \in B : m <= k
      BY <3>1, <3>2, LeastNatural
    <3>4. m # 0 /\ m - 1 \in 0 .. g /\ m - 1 \in S
      BY <3>3, <1>2, <2>2
    <3>5. (m - 1) + 1 \notin S
      BY <3>3
    <3> QED BY <3>3, <3>4, <3>5, <2>2
  <2> HIDE DEF g
  <2> QED BY <2>2, <2>3, <2>4
<1> QED
  BY <1>1, <1>2

----------------------------------------------------------------------------
\* The invariant over any set A of nodes with captions c, so that the middle
\* of a rename, where the node's old number is gone, can be spoken about.
Nums(A, c, b) == {c[n].num : n \in {m \in A : c[m].base = b}}

Good(A, c, names) ==
  /\ A \in SUBSET Nodes
  /\ c \in [Nodes -> Caption]
  /\ \A n \in A : c[n].spelled /\ c[n].num \in Nat
  /\ names = [b \in Bases |-> Nums(A, c, b)]
  /\ \A m, n \in A : c[m] = c[n] => m = n

IInv ==
  /\ kind \in [Nodes -> Kinds \cup {NoNode}]
  /\ Good(Alive, caption, allNames)

\* The numbers of a base are a finite set of naturals.
LEMMA NumsFinite ==
  ASSUME NEW A, NEW c, NEW names, Good(A, c, names), NEW b \in Bases
  PROVE  names[b] \in SUBSET Nat /\ IsFiniteSet(names[b])
<1> DEFINE M == {m \in A : c[m].base = b}
           f == [n \in M |-> c[n].num]
<1>1. IsFiniteSet(M)
  BY NodesFinite, FS_Subset DEF Good
<1>2. f \in Surjection(M, Nums(A, c, b))
  BY DEF Surjection, Nums
<1>3. IsFiniteSet(Nums(A, c, b))
  BY <1>1, <1>2, FS_Surjection
<1> QED
  BY <1>3 DEF Good, Nums

\* itemCaptionRemovedSlot leaves the registry exact for the other nodes.
LEMMA RemovedGood ==
  ASSUME NEW A, NEW c, NEW names, Good(A, c, names), NEW n \in A
  PROVE  Good(A \ {n}, c, Removed(names, c[n]))
<1> DEFINE b == c[n].base
           S == names[b]
<1>1. n \in Nodes /\ c[n] \in Caption /\ b \in Bases /\ c[n].num \in S
  BY DEF Good, Caption, Nums
<1>2. IsFiniteSet(S)
  BY <1>1, NumsFinite
<1>3. (IF Cardinality(S) > 1 THEN S \ {c[n].num} ELSE {}) = S \ {c[n].num}
  <2>1. SUFFICES ASSUME ~(Cardinality(S) > 1) PROVE S = {c[n].num}
    BY <1>1
  <2>2. Cardinality(S) \in Nat /\ Cardinality(S) # 0
    BY <1>1, <1>2, FS_CardinalityType, FS_EmptySet
  <2>3. Cardinality(S) = 1
    BY <2>1, <2>2
  <2> QED BY <1>1, <1>2, <2>3, FS_Singleton
<1>4. \A m \in A \ {n} : c[m].base = b => c[m].num # c[n].num
  <2> TAKE m \in A \ {n}
  <2>1. c[m] \in Caption /\ c[n] \in Caption /\ c[m].spelled /\ c[n].spelled
    BY DEF Good
  <2>2. c[m] # c[n]
    BY DEF Good
  <2>3. c[m].base = b /\ c[m].num = c[n].num => c[m] = c[n]
    BY <2>1 DEF Caption
  <2> QED BY <2>2, <2>3
<1>5. Nums(A \ {n}, c, b) = S \ {c[n].num}
  BY <1>1, <1>4 DEF Good, Nums
<1>6. \A d \in Bases \ {b} : Nums(A \ {n}, c, d) = names[d]
  BY DEF Good, Nums
<1>7. Removed(names, c[n]) = [d \in Bases |-> Nums(A \ {n}, c, d)]
  <2>1. names = [d \in Bases |-> names[d]]
    BY DEF Good
  <2> QED BY <1>1, <1>3, <1>5, <1>6, <2>1 DEF Removed
<1> QED
  BY <1>7 DEF Good

\* itemCaptionAddedSlot finds a free number and registers it with the node.
LEMMA AddedGood ==
  ASSUME NEW A, NEW c, NEW names, Good(A, c, names),
         NEW n \in Nodes, n \notin A, NEW old,
         NEW t \in Caption, t.num \in Nat
  PROVE  LET r == Added(names, old, t)
             i == NumberFor(names, t)
         IN  /\ i \in Nat \ names[t.base]
             /\ r.caption = [base |-> t.base, num |-> i, spelled |-> TRUE]
             /\ Good(A \cup {n}, [c EXCEPT ![n] = r.caption], r.names)
<1> DEFINE b == t.base
           i == NumberFor(names, t)
           r == Added(names, old, t)
           C == [base |-> b, num |-> i, spelled |-> TRUE]
           d == [c EXCEPT ![n] = C]
<1>1. b \in Bases
  BY DEF Caption
<1>2. i \in Nat \ names[b]
  BY <1>1, NumsFinite, ExpectedIsLeastFree DEF NumberFor
<1> HIDE DEF i
<1>3. r = [names |-> [names EXCEPT ![b] = @ \cup {i}], caption |-> C]
  BY <1>2 DEF Added, i
<1>4. d \in [Nodes -> Caption] /\ d[n] = C /\ \A m \in A : d[m] = c[m]
  BY <1>1, <1>2 DEF Good, Caption
<1> HIDE DEF d
<1>5. [names EXCEPT ![b] = @ \cup {i}] = [e \in Bases |-> Nums(A \cup {n}, d, e)]
  <2>1. Nums(A \cup {n}, d, b) = Nums(A, c, b) \cup {i}
    BY <1>4 DEF Nums
  <2>2. \A e \in Bases \ {b} : Nums(A \cup {n}, d, e) = Nums(A, c, e)
    BY <1>4 DEF Nums
  <2> QED BY <1>1, <2>1, <2>2 DEF Good
<1>6. \A m \in A : d[m] # d[n]
  <2> TAKE m \in A
  <2>1. c[m].base = b => c[m].num # i
    BY <1>1, <1>2 DEF Good, Nums
  <2> QED BY <1>4, <2>1
<1>7. \A m \in A \cup {n} : d[m].spelled /\ d[m].num \in Nat
  BY <1>2, <1>4 DEF Good
<1>8. \A m, k \in A \cup {n} : d[m] = d[k] => m = k
  BY <1>4, <1>6 DEF Good
<1>9. Good(A \cup {n}, d, [names EXCEPT ![b] = @ \cup {i}])
  BY <1>4, <1>5, <1>7, <1>8 DEF Good
<1> QED
  BY <1>2, <1>3, <1>9 DEF i, d

\* changeItemCaption: out and in again.
LEMMA ChangedGood ==
  ASSUME NEW A, NEW c, NEW names, Good(A, c, names), NEW n \in A,
         NEW t \in Caption, t.num \in Nat
  PROVE  LET r == Changed(names, c[n], t)
         IN  Good(A, [c EXCEPT ![n] = r.caption], r.names)
<1>1. n \in Nodes /\ c \in [Nodes -> Caption] /\ (A \ {n}) \cup {n} = A
  BY DEF Good
<1>2. CASE t = c[n]
  BY <1>1, <1>2 DEF Changed
<1>3. CASE t # c[n]
  <2> DEFINE R == Removed(names, c[n])
             r == Added(R, c[n], t)
             i == NumberFor(R, t)
  <2>1. Good(A \ {n}, c, R)
    BY RemovedGood
  <2>2. Changed(names, c[n], t) = r
    BY <1>3 DEF Changed
  <2> HIDE DEF R
  <2>3. n \in Nodes /\ n \notin A \ {n}
    BY <1>1
  <2>4. /\ r.caption = [base |-> t.base, num |-> i, spelled |-> TRUE]
        /\ Good((A \ {n}) \cup {n}, [c EXCEPT ![n] = r.caption], r.names)
    <3> DEFINE B == A \ {n}
    <3>1. Good(B, c, R) /\ n \notin B
      BY <2>1, <2>3
    <3> HIDE DEF B
    <3>2. /\ r.caption = [base |-> t.base, num |-> i, spelled |-> TRUE]
          /\ Good(B \cup {n}, [c EXCEPT ![n] = r.caption], r.names)
      BY <2>3, <3>1, AddedGood
    <3> QED BY <3>2 DEF B
  <2> QED BY <1>1, <2>2, <2>4 DEF R
<1> QED
  BY <1>2, <1>3

----------------------------------------------------------------------------
Assumption == Numbers \subseteq Nat /\ ~AnyReopen

LEMMA TextIsCaption ==
  ASSUME Assumption, NEW t \in Text
  PROVE  t \in Caption /\ t.num \in Nat
BY NumbersAreInts DEF Assumption, Text, Caption

LEMMA DefaultIsCaption ==
  ASSUME NEW k \in Kinds
  PROVE  Default(k) \in Caption /\ Default(k).num = 0 /\ Default(k).base = k
BY KindsAreBases DEF Default, Caption

LEMMA InitEstablishes == Init => IInv
<1> SUFFICES ASSUME Init PROVE IInv
  OBVIOUS
<1>1. Alive = {}
  BY DEF Init, Alive
<1>2. caption \in [Nodes -> Caption]
  BY DefaultIsCaption DEF Init
<1> QED
  BY <1>1, <1>2 DEF Init, IInv, Good, Nums

LEMMA PutNodeKeeps ==
  ASSUME IInv, NEW n \in Nodes, NEW k \in Kinds,
         NEW t \in Caption, t.num \in Nat, PutNode(n, k, t)
  PROVE  IInv'
<1>1. n \notin Alive /\ Alive' = Alive \cup {n}
  BY NoNodeIsNoKind DEF PutNode, CanAddNode, IInv, Alive
<1>2. Good(Alive \cup {n}, caption', allNames')
  BY <1>1, AddedGood DEF IInv, PutNode, Show
<1> QED
  BY <1>1, <1>2 DEF IInv, PutNode

LEMMA CreateComponentKeeps ==
  ASSUME IInv, NEW n \in Nodes, NEW k \in Kinds,
         NEW t \in Caption, t.num \in Nat, CreateComponent(n, k, t)
  PROVE  IInv'
<1> DEFINE D == Default(k)
           r == Added(allNames, D, D)
           c == [caption EXCEPT ![n] = r.caption]
           q == Changed(r.names, c[n], t)
           B == Alive \cup {n}
<1>1. n \notin Alive /\ Alive' = B
  BY NoNodeIsNoKind DEF CreateComponent, CanAddNode, IInv, Alive
<1>2. D \in Caption /\ D.num \in Nat
  BY DefaultIsCaption
<1>3. caption \in [Nodes -> Caption] /\ c[n] = r.caption
  BY DEF IInv, Good
<1>4. caption' = [c EXCEPT ![n] = q.caption] /\ allNames' = q.names
  BY <1>3 DEF CreateComponent, Show
<1> HIDE DEF D
<1>5. Good(B, c, r.names)
  BY <1>1, <1>2, AddedGood DEF IInv
<1> HIDE DEF c, r
<1>6. n \in B
  OBVIOUS
<1> HIDE DEF B
<1>7. Good(B, [c EXCEPT ![n] = q.caption], q.names)
  BY <1>5, <1>6, ChangedGood
<1> QED
  BY <1>1, <1>4, <1>7 DEF IInv, CreateComponent

LEMMA RenameKeeps ==
  ASSUME IInv, NEW n \in Nodes, NEW t \in Caption, t.num \in Nat, Rename(n, t)
  PROVE  IInv'
<1>1. n \in Alive /\ Alive' = Alive
  BY DEF Rename, Alive
<1>2. Good(Alive, caption', allNames')
  BY <1>1, ChangedGood DEF IInv, Rename, Show
<1> QED
  BY <1>1, <1>2 DEF IInv, Rename

LEMMA RemoveNodeKeeps ==
  ASSUME IInv, NEW n \in Nodes, RemoveNode(n)
  PROVE  IInv'
<1>1. n \in Alive /\ Alive' = Alive \ {n}
  BY DEF IInv, RemoveNode, Alive
<1>2. Good(Alive \ {n}, caption, Removed(allNames, caption[n]))
  BY <1>1, RemovedGood DEF IInv
<1> QED
  BY <1>1, <1>2 DEF IInv, RemoveNode

LEMMA ClearKeeps == ASSUME IInv, Clear PROVE IInv'
<1>1. Alive' = {}
  BY DEF Clear, Alive
<1> QED
  BY <1>1 DEF IInv, Good, Clear, Nums

LEMMA ReopenKeeps == ASSUME IInv, Assumption, Reopen PROVE IInv'
<1>1. Alive' = Alive /\ UNCHANGED <<kind, caption>>
  BY DEF Reopen, Alive
<1>2. allNames' = [b \in Bases |-> Nums(Alive, caption, b)]
  BY DEF Reopen, Assumption, Exact, Reloaded, NumbersOf, Nums
<1> QED
  BY <1>1, <1>2 DEF IInv, Good

LEMMA NextKeeps == ASSUME IInv, Assumption, [Next]_vars PROVE IInv'
<1>1. CASE \E n \in Nodes, k \in Kinds : CreateNode(n, k)
  BY <1>1, PutNodeKeeps, DefaultIsCaption DEF CreateNode
<1>2. CASE \E n \in Nodes, k \in Kinds, t \in Text : CreateComponent(n, k, t)
  BY <1>2, CreateComponentKeeps, TextIsCaption
<1>3. CASE \E n \in Nodes, k \in Kinds, t \in Text : RestoreNode(n, k, t)
  BY <1>3, PutNodeKeeps, TextIsCaption DEF RestoreNode
<1>4. CASE \E n \in Nodes, t \in Text : RenameInDialog(n, t)
  BY <1>4, RenameKeeps, TextIsCaption DEF RenameInDialog
<1>5. CASE \E n \in Nodes, t \in Text : EditInTree(n, t)
  BY <1>5, RenameKeeps, TextIsCaption DEF EditInTree
<1>6. CASE \E n \in Nodes : RemoveNode(n)
  BY <1>6, RemoveNodeKeeps
<1>7. CASE Clear
  BY <1>7, ClearKeeps
<1>8. CASE Reopen
  BY <1>8, ReopenKeeps
<1>9. CASE UNCHANGED vars
  BY <1>9 DEF IInv, Good, Alive, vars, Nums
<1> QED
  BY <1>1, <1>2, <1>3, <1>4, <1>5, <1>6, <1>7, <1>8, <1>9 DEF Next

LEMMA AlwaysGood == ASSUME Assumption PROVE Spec => []IInv
<1>1. IInv /\ [Next]_vars => IInv'
  BY NextKeeps
<1> QED
  BY <1>1, InitEstablishes, PTL DEF Spec

LEMMA GoodIsExact == IInv => TypeOK /\ RegistryExact /\ CaptionsUnique
<1> SUFFICES ASSUME IInv PROVE TypeOK /\ RegistryExact /\ CaptionsUnique
  OBVIOUS
<1>1. \A b \in Bases : allNames[b] = NumbersOf(b)
  BY DEF IInv, Good, Nums, NumbersOf
<1>2. allNames \in [Bases -> SUBSET Int]
  <2>1. \A b \in Bases : Nums(Alive, caption, b) \in SUBSET Int
    BY DEF IInv, Good, Nums
  <2> QED BY <2>1 DEF IInv, Good
<1> QED
  BY <1>1, <1>2 DEF IInv, Good, TypeOK, RegistryExact, Exact, CaptionsUnique

----------------------------------------------------------------------------
\* The state keeps its shape (kinds, captions, the map allNames_).
THEOREM TypeCorrect == Assumption => (Spec => []TypeOK)
<1> SUFFICES ASSUME Assumption PROVE Spec => []TypeOK
  OBVIOUS
<1> QED
  BY AlwaysGood, GoodIsExact, PTL

\* NameController::allNames_ holds exactly the numbers the living nodes'
\* captions show.
THEOREM RegistryIsExact == Assumption => (Spec => []RegistryExact)
<1> SUFFICES ASSUME Assumption PROVE Spec => []RegistryExact
  OBVIOUS
<1> QED
  BY AlwaysGood, GoodIsExact, PTL

\* No two nodes show the same caption, however nodes are added, renamed,
\* removed and brought back (itemCaptionAddedSlot, itemCaptionRemovedSlot).
THEOREM NoSharedCaption == Assumption => (Spec => []CaptionsUnique)
<1> SUFFICES ASSUME Assumption PROVE Spec => []CaptionsUnique
  OBVIOUS
<1> QED
  BY AlwaysGood, GoodIsExact, PTL

\* A name the rename dialog accepts is the name the node gets
\* (Facade::renameNode).
THEOREM DialogKeepsItsWord == Assumption => (Spec => RenamedAsTyped)
<1> SUFFICES ASSUME Assumption PROVE Spec => RenamedAsTyped
  OBVIOUS
<1> DEFINE A == \A n \in Nodes, t \in Text :
                  RenameInDialog(n, t) =>
                    caption'[n].base = t.base /\ caption'[n].num = t.num
<1>1. IInv /\ [Next]_vars => [A]_vars
  <2> SUFFICES ASSUME IInv, NEW n \in Nodes, NEW t \in Text,
                      RenameInDialog(n, t)
               PROVE  caption'[n].base = t.base /\ caption'[n].num = t.num
    OBVIOUS
  <2> DEFINE r == Changed(allNames, caption[n], t)
             R == Removed(allNames, caption[n])
  <2>1. n \in Alive /\ t \in Caption /\ t.num \in Nat /\ t.base \in Bases
    BY TextIsCaption DEF RenameInDialog, Rename, Caption
  <2>2. caption' = [caption EXCEPT ![n] = r.caption] /\ n \in DOMAIN caption
    BY DEF RenameInDialog, Rename, Show, IInv, Good
  <2>3. CASE t = caption[n]
    BY <2>2, <2>3 DEF Changed
  <2>4. CASE t # caption[n]
    <3>1. t.num \notin allNames[t.base]
      BY DEF RenameInDialog, ContainsCaption
    <3>2. t.num \notin R[t.base]
      <4>1. R[t.base] \subseteq allNames[t.base]
        BY <2>1 DEF Removed, IInv, Good
      <4> QED BY <3>1, <4>1
    <3>3. r.caption = [base |-> t.base, num |-> t.num, spelled |-> TRUE]
      BY <2>4, <3>2 DEF Changed, Added, NumberFor
    <3> QED BY <2>2, <3>3
  <2> QED BY <2>3, <2>4
<1>2. RenamedAsTyped <=> [][A]_vars
  BY DEF RenamedAsTyped
<1> QED
  BY <1>1, <1>2, AlwaysGood, PTL DEF Spec

\* A new node gets the least number free for its type's name
\* (NameController::expectedNumber).
THEOREM NumbersReused == Assumption => (Spec => LeastFreeNumber)
<1> SUFFICES ASSUME Assumption PROVE Spec => LeastFreeNumber
  OBVIOUS
<1> DEFINE A == \A n \in Nodes, k \in Kinds :
                  CreateNode(n, k) =>
                    /\ caption'[n].num \notin NumbersOf(k)
                    /\ \A i \in 0 .. caption'[n].num - 1 : i \in NumbersOf(k)
<1>1. IInv /\ [Next]_vars => [A]_vars
  <2> SUFFICES ASSUME IInv, NEW n \in Nodes, NEW k \in Kinds, CreateNode(n, k)
               PROVE  /\ caption'[n].num \notin NumbersOf(k)
                      /\ \A i \in 0 .. caption'[n].num - 1 : i \in NumbersOf(k)
    OBVIOUS
  <2> DEFINE D == Default(k)
             S == NumbersOf(k)
             i == NumberFor(allNames, D)
  <2>1. D \in Caption /\ D.num = 0 /\ D.base = k /\ k \in Bases
    BY DefaultIsCaption, KindsAreBases
  <2>2. allNames[k] = S
    BY <2>1 DEF IInv, Good, Nums, NumbersOf
  <2>3. S \in SUBSET Nat /\ IsFiniteSet(S)
    BY <2>1, <2>2, NumsFinite DEF IInv
  <2>4. caption'[n] = [base |-> k, num |-> i, spelled |-> TRUE]
    <3>1. n \notin Alive /\ n \in DOMAIN caption
      BY DEF CreateNode, PutNode, CanAddNode, IInv, Good
    <3>2. caption' = [caption EXCEPT ![n] = Added(allNames, D, D).caption]
      BY DEF CreateNode, PutNode, Show
    <3> HIDE DEF D
    <3>3. Added(allNames, D, D).caption
            = [base |-> D.base, num |-> i, spelled |-> TRUE]
      <4>1. Good(Alive, caption, allNames) /\ D.num \in Nat
        BY <2>1 DEF IInv
      <4>2. i \in Nat \ allNames[k]
        BY <2>1, <2>3, <2>2, ExpectedIsLeastFree DEF NumberFor
      <4> QED BY <2>1, <4>2 DEF Added
    <3> QED BY <2>1, <3>1, <3>2, <3>3
  <2>5. i = IF 0 \in S THEN ExpectedNumber(S) ELSE 0
    BY <2>1, <2>2 DEF NumberFor
  <2> HIDE DEF S, i
  <2>6. i \notin S /\ \A j \in 0 .. i - 1 : j \in S
    BY <2>3, <2>5, ExpectedIsLeastFree
  <2> QED BY <2>4, <2>6 DEF S
<1>2. LeastFreeNumber <=> [][A]_vars
  BY DEF LeastFreeNumber
<1> QED
  BY <1>1, <1>2, AlwaysGood, PTL DEF Spec
=============================================================================
