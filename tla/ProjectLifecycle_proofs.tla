---------------------- MODULE ProjectLifecycle_proofs ----------------------
(***************************************************************************)
(* Proofs of the properties of ProjectLifecycle, for any files, content,   *)
(* limit of the recent list and faults.  What the lists of recent projects *)
(* hold matters to none of them.                                           *)
(***************************************************************************)
EXTENDS ProjectLifecycle, WellFoundedInduction, TLAPS

USE FilesAssumption

\* The types of what the properties are about.
Shape ==
  /\ current \in Files \cup {NoFile}
  /\ disk \in [Files -> SUBSET Items] /\ present \subseteq Files
  /\ editor \subseteq Items

\* Nothing has gone wrong that loses content.
Clean == causes \cap (Causes \ {"orphan"}) = {}

\* While the dialog of New is open, what the user asked to save is saved.
SavedInNew ==
  ui = "new" /\ current # NoFile /\ answer \in {"save", "saveAs"} /\ Clean
    => \E f \in present : disk[f] = editor

ProjectInv == Shape /\ EmptyWithoutProject /\ SavedInNew

\* A write that is done puts the content into the file and touches no other.
LEMMA Writes ==
  ASSUME Shape, NEW f \in Files, NEW c \in SUBSET Items, NEW o,
         WriteProject(f, c, o)
  PROVE  /\ disk' \in [Files -> SUBSET Items] /\ present' \subseteq Files
         /\ present \subseteq present'
         /\ disk'[f] \in {c, {}, disk[f]}
         /\ o = "done" => /\ f \in present' /\ disk'[f] = c
                          /\ \A g \in Files \ {f} : disk'[g] = disk[g]
  <1>1. CASE o = "refused"
    BY <1>1 DEF WriteProject, files, Shape
  <1>2. CASE o # "refused"
    BY <1>2 DEF WriteProject, Shape
  <1> QED
    BY <1>1, <1>2

\* An answer that saves, with a write that is done, leaves the content in a file.
LEMMA Saves ==
  ASSUME Shape, NEW a, NEW f \in Files \cup {NoFile}, NEW o,
         ShowSavingDialog(a, f), SaveAsAnswered(a, f, o)
  PROVE  /\ disk' \in [Files -> SUBSET Items] /\ present' \subseteq Files
         /\ a = "save" \/ (a = "saveAs" /\ f # NoFile) =>
              (o = "done" => \E g \in present' : disk'[g] = editor)
         /\ current # NoFile => a \in Answers
  <1>1. CASE a = "save"
    <2>1. current \in Files
      BY <1>1 DEF ShowSavingDialog, Shape
    <2>2. WriteProject(current, editor, o)
      BY <1>1 DEF SaveAsAnswered
    <2> QED
      BY <1>1, <2>1, <2>2, Writes DEF ShowSavingDialog, Shape
  <1>2. CASE a = "saveAs" /\ f # NoFile
    <2>1. WriteProject(f, editor, o)
      BY <1>2 DEF SaveAsAnswered
    <2> QED
      BY <1>2, <2>1, Writes DEF ShowSavingDialog, Shape
  <1>3. CASE a # "save" /\ ~(a = "saveAs" /\ f # NoFile)
    BY <1>3 DEF SaveAsAnswered, ShowSavingDialog, files, Shape
  <1> QED
    BY <1>1, <1>2, <1>3

\* A fault is remembered.
LEMMA Faultless ==
  ASSUME NEW o, NEW more, NEW now, now = causes \cup Fault(o) \cup more,
         now \cap (Causes \ {"orphan"}) = {}
  PROVE  o = "done" /\ Clean /\ more \cap (Causes \ {"orphan"}) = {}
  BY DEF Fault, Causes, Clean

----------------------------------------------------------------------------
(* The steps *)

LEMMA InitHolds == Init => ProjectInv
  BY DEF Init, ProjectInv, Shape, EmptyWithoutProject, SavedInNew

\* Asking and going on to the dialog of New.
LEMMA AskKeeps ==
  ASSUME ProjectInv, NEW a \in Answers \cup {"unknown"},
         NEW f \in Files \cup {NoFile}, NEW o, AskNew(a, f, o)
  PROVE  ProjectInv'
  <1>1. /\ disk' \in [Files -> SUBSET Items] /\ present' \subseteq Files
        /\ a = "save" \/ (a = "saveAs" /\ f # NoFile) =>
             (o = "done" => \E g \in present' : disk'[g] = editor)
    BY Saves DEF AskNew, ProjectInv
  <1>2. Shape'
    BY <1>1 DEF AskNew, ProjectInv, Shape
  <1>3. EmptyWithoutProject'
    <2>1. "orphan" \notin causes' => "orphan" \notin causes
      BY DEF AskNew
    <2> QED
      BY <2>1 DEF AskNew, ProjectInv, EmptyWithoutProject
  <1>4. SavedInNew'
    <2> SUFFICES ASSUME answer' \in {"save", "saveAs"}, Clean'
                 PROVE  \E g \in present' : disk'[g] = editor'
      BY DEF SavedInNew
    <2> DEFINE more == IF a = "saveAs" /\ f = NoFile THEN {"cancelled"} ELSE {}
    <2>1. o = "done" /\ more \cap (Causes \ {"orphan"}) = {}
      BY Faultless DEF AskNew, Clean
    <2>2. ~(a = "saveAs" /\ f = NoFile)
      BY <2>1 DEF Causes
    <2>3. answer' = a /\ editor' = editor
      BY DEF AskNew, ShowSavingDialog
    <2> QED
      BY <1>1, <2>1, <2>2, <2>3
  <1> QED
    BY <1>2, <1>3, <1>4 DEF ProjectInv

\* Creating, opening and leaving.
LEMMA ChangeKeeps ==
  ASSUME ProjectInv,
         \/ \E f \in Files, o \in Outcomes : NewProject(f, o)
         \/ \E f \in Files : OpenProject(f)
         \/ \E a \in Answers \cup {"unknown"}, f \in Files \cup {NoFile},
               o \in Outcomes : CloseProject(a, f, o) \/ CloseEvent(a, f, o)
  PROVE  ProjectInv'
  <1>0. AfterClose \in SUBSET Items
    BY DEF AfterClose, ProjectInv, Shape
  <1>1. ASSUME NEW f \in Files, NEW o \in Outcomes, NewProject(f, o)
        PROVE  ProjectInv'
    <2>1. disk' \in [Files -> SUBSET Items] /\ present' \subseteq Files
      BY <1>0, <1>1, Writes DEF NewProject, ProjectInv
    <2> QED
      BY <1>0, <1>1, <2>1 DEF NewProject, ProjectInv, Shape,
         EmptyWithoutProject, SavedInNew
  <1>2. ASSUME NEW f \in Files, OpenProject(f) PROVE ProjectInv'
    <2>1. Shape'
      BY <1>0, <1>2 DEF OpenProject, ProjectInv, Shape
    <2> QED
      BY <1>2, <2>1 DEF OpenProject, ProjectInv, EmptyWithoutProject, SavedInNew
  <1>3. ASSUME NEW a \in Answers \cup {"unknown"}, NEW f \in Files \cup {NoFile},
               NEW o \in Outcomes, CloseProject(a, f, o) \/ CloseEvent(a, f, o)
        PROVE  ProjectInv'
    <2>1. disk' \in [Files -> SUBSET Items] /\ present' \subseteq Files
      BY <1>3, Saves DEF CloseProject, CloseEvent, ProjectInv
    <2>2. current' = NoFile /\ shown' = FALSE /\ editor' = {}
      BY <1>3 DEF CloseProject, CloseEvent, AfterClose
    <2>3. ui' # "new" /\ ui' # "crashed"
      BY <1>3 DEF CloseProject, CloseEvent
    <2> QED
      BY <2>1, <2>2, <2>3 DEF ProjectInv, Shape, EmptyWithoutProject, SavedInNew
  <1> QED
    BY <1>1, <1>2, <1>3

\* Everything else.
LEMMA NextKeeps == ProjectInv /\ [Next]_vars => ProjectInv'
  <1> SUFFICES ASSUME ProjectInv, [Next]_vars PROVE ProjectInv'
    OBVIOUS
  <1> USE DEF ProjectInv, Shape, EmptyWithoutProject, SavedInNew
  <1>1. CASE Start
    BY <1>1 DEF Start
  <1>2. ASSUME NEW i \in Items, Edit(i) PROVE ProjectInv'
    BY <1>2 DEF Edit, files
  <1>3. ASSUME NEW f \in Files, NEW o, SaveProjectAs(f, o) PROVE ProjectInv'
    <2>1. disk' \in [Files -> SUBSET Items] /\ present' \subseteq Files
      BY <1>3, Writes DEF SaveProjectAs
    <2> QED
      BY <1>3, <2>1 DEF SaveProjectAs
  <1>4. ASSUME NEW o, SaveProject(o) PROVE ProjectInv'
    <2>1. disk' \in [Files -> SUBSET Items] /\ present' \subseteq Files
      BY <1>4, Writes DEF SaveProject
    <2> QED
      BY <1>4, <2>1 DEF SaveProject
  <1>5. CASE RejectNew
    BY <1>5 DEF RejectNew, files
  <1>6. ASSUME NEW f \in Files, OpenMissing(f) PROVE ProjectInv'
    BY <1>6 DEF OpenMissing, files
  <1>7. CASE OpenDeployProject
    BY <1>7 DEF OpenDeployProject, files
  <1>8. ASSUME NEW f \in Files, RemoveFile(f) PROVE ProjectInv'
    <2>1. "removed" \in causes' \cap (Causes \ {"orphan"})
      BY <1>8 DEF RemoveFile, Causes
    <2> QED
      BY <1>8, <2>1 DEF RemoveFile, Clean
  <1>9. CASE UNCHANGED vars
    BY <1>9 DEF vars, files, Clean
  <1> QED
    BY <1>1, <1>2, <1>3, <1>4, <1>5, <1>6, <1>7, <1>8, <1>9, AskKeeps,
       ChangeKeeps DEF Next

LEMMA Always == Spec => []ProjectInv
  BY InitHolds, NextKeeps, PTL DEF Spec

----------------------------------------------------------------------------
(* Induction and recursion up to a number *)

\* Every set of naturals that is not empty has a least member.
LEMMA LeastNatural ==
  ASSUME NEW T \in SUBSET Nat, T # {}
  PROVE  \E m \in T : \A k \in T : m <= k
  <1>1. PICK m \in T : \A k \in T : ~ (<<k, m>> \in OpToRel(<, Nat))
    BY NatLessThanWellFounded, WFMin
  <1>2. \A k \in T : ~(k < m)
    BY <1>1 DEF OpToRel
  <1> QED
    BY <1>2

\* Induction up to n, over a set: what holds at 0 and is handed on holds at n.
LEMMA UpTo ==
  ASSUME NEW n \in Nat, NEW P, 0 \in P, \A i \in 1 .. n : i - 1 \in P => i \in P
  PROVE  \A i \in 0 .. n : i \in P
  <1> DEFINE T == {i \in 0 .. n : i \notin P}
  <1> SUFFICES ASSUME T # {} PROVE FALSE
    OBVIOUS
  <1>1. PICK m \in T : \A k \in T : m <= k
    <2>1. T \in SUBSET Nat
      OBVIOUS
    <2> HIDE DEF T
    <2> QED
      BY <2>1, LeastNatural
  <1>2. m \in 1 .. n /\ m - 1 \in 0 .. n /\ ~(m <= m - 1)
    OBVIOUS
  <1>3. m - 1 \in P
    BY <1>1, <1>2
  <1> QED
    BY <1>2, <1>3

\* f is defined up to n by recursion, from a with step.
Recurses(f, n, S, a, step) ==
  /\ f \in [0 .. n -> S] /\ f[0] = a
  /\ \A i \in 1 .. n : f[i] = step[i][f[i - 1]]

\* There is such a function.
LEMMA RecursionUpTo ==
  ASSUME NEW S, NEW n \in Nat, NEW a \in S, NEW step \in [1 .. n -> [S -> S]]
  PROVE  \E f : Recurses(f, n, S, a, step)
  <1> DEFINE Good(f, m) == Recurses(f, m, S, a, step)
             P == {m \in 0 .. n : \E f : Good(f, m)}
  <1>1. 0 \in P
    <2>1. Good([i \in 0 .. 0 |-> a], 0) /\ 0 \in 0 .. n
      BY DEF Recurses
    <2> HIDE DEF Good
    <2> QED
      BY <2>1, Zenon
  <1>2. ASSUME NEW m \in 1 .. n, m - 1 \in P PROVE m \in P
    <2>1. PICK f : Good(f, m - 1)
      BY <1>2, Zenon
    <2> DEFINE g == [i \in 0 .. m |-> IF i = m THEN step[m][f[m - 1]] ELSE f[i]]
    <2>2. f[m - 1] \in S /\ step[m][f[m - 1]] \in S
      BY <2>1 DEF Recurses
    <2>3. g \in [0 .. m -> S] /\ g[0] = a
      BY <2>1, <2>2 DEF Recurses
    <2>4. ASSUME NEW i \in 1 .. m PROVE g[i] = step[i][g[i - 1]]
      <3>1. CASE i = m
        BY <3>1
      <3>2. CASE i # m
        BY <2>1, <3>2 DEF Recurses
      <3> QED
        BY <3>1, <3>2
    <2>5. Good(g, m)
      BY <2>3, <2>4, Zenon DEF Recurses
    <2>6. m \in 0 .. n
      OBVIOUS
    <2> HIDE DEF Good, g
    <2> QED
      BY <2>5, <2>6
  <1>3. n \in P
    <2> HIDE DEF P
    <2>1. \A i \in 0 .. n : i \in P
      BY <1>1, <1>2, UpTo
    <2> QED
      BY <2>1
  <1> QED
    BY <1>3, Zenon

----------------------------------------------------------------------------
(* The lists of recent projects *)

\* The files of a list that exist are a list of its kind.
LEMMA ExistingListed ==
  ASSUME NEW list \in Seq(Files), IsInjective(list)
  PROVE  /\ Existing(list) \in Seq(Files) /\ Len(Existing(list)) <= Len(list)
         /\ IsInjective(Existing(list))
  <1> DEFINE n == Len(list)
             Body(F) == [i \in 0 .. n |->
               IF i = 0 THEN <<>>
               ELSE IF list[i] \in present THEN Append(F[i - 1], list[i]) ELSE F[i - 1]]
             got == CHOOSE F : F = Body(F)
             step == [i \in 1 .. n |-> [q \in Seq(Files) |->
               IF list[i] \in present THEN Append(q, list[i]) ELSE q]]
  <1>1. n \in Nat /\ \A i \in 1 .. n : list[i] \in Files
    OBVIOUS
  <1> HIDE DEF n
  <1>2. step \in [1 .. n -> [Seq(Files) -> Seq(Files)]]
    BY <1>1
  <1>3. PICK f \in [0 .. n -> Seq(Files)] :
          f[0] = <<>> /\ \A i \in 1 .. n : f[i] = step[i][f[i - 1]]
    <2>1. <<>> \in Seq(Files)
      OBVIOUS
    <2> HIDE DEF step
    <2>2. \E f : Recurses(f, n, Seq(Files), <<>>, step)
      BY <1>1, <1>2, <2>1, RecursionUpTo
    <2> QED
      BY <2>2, Zenon DEF Recurses
  <1>4. f = Body(f)
    <2>1. \A i \in 0 .. n : f[i] = Body(f)[i]
      <3> SUFFICES ASSUME NEW i \in 0 .. n PROVE f[i] = Body(f)[i]
        OBVIOUS
      <3>1. CASE i = 0
        BY <1>3, <3>1
      <3>2. CASE i # 0
        <4>1. i \in 1 .. n /\ f[i - 1] \in Seq(Files)
          BY <1>1, <1>3, <3>2
        <4>2. f[i] = IF list[i] \in present THEN Append(f[i - 1], list[i]) ELSE f[i - 1]
          BY <1>3, <4>1
        <4> QED
          BY <3>2, <4>2
      <3> QED
        BY <3>1, <3>2
    <2> QED
      BY <1>3, <2>1
  <1>5. got = Body(got)
    <2> HIDE DEF Body
    <2> QED
      BY <1>4
  <1> HIDE DEF got
  <1> DEFINE Fits(i) ==
        /\ got[i] \in Seq(Files) /\ Len(got[i]) <= i /\ IsInjective(got[i])
        /\ \A k \in DOMAIN got[i] : \E j \in 1 .. i : got[i][k] = list[j]
             P == {i \in 0 .. n : Fits(i)}
  <1>6. 0 \in P
    <2>1. got[0] = <<>> /\ 0 \in 0 .. n
      BY <1>1, <1>5
    <2>2. <<>> \in Seq(Files) /\ Len(<<>>) = 0 /\ DOMAIN <<>> = {}
      OBVIOUS
    <2>3. Fits(0)
      BY <2>1, <2>2 DEF IsInjective
    <2> QED
      BY <2>1, <2>3
  <1>7. ASSUME NEW i \in 1 .. n, i - 1 \in P PROVE i \in P
    <2>1. Fits(i - 1)
      BY <1>7
    <2>2. got[i] = IF list[i] \in present THEN Append(got[i - 1], list[i]) ELSE got[i - 1]
      <3>1. i \in 0 .. n /\ i # 0
        BY <1>1
      <3>2. got[i] = Body(got)[i]
        BY <1>5, Zenon
      <3> QED
        BY <3>1, <3>2, Zenon
    <2>3. CASE list[i] \in present
      <3> DEFINE q == got[i - 1]
                 r == got[i]
      <3>1. r = Append(q, list[i]) /\ q \in Seq(Files) /\ list[i] \in Files
        BY <1>1, <2>1, <2>2, <2>3
      <3> HIDE DEF q, r
      <3>2. /\ r \in Seq(Files) /\ Len(r) = Len(q) + 1 /\ r[Len(q) + 1] = list[i]
            /\ DOMAIN r = 1 .. Len(q) + 1 /\ DOMAIN q = 1 .. Len(q) /\ Len(q) \in Nat
            /\ \A k \in 1 .. Len(q) : r[k] = q[k]
        BY <3>1
      <3>0. /\ Len(q) <= i - 1 /\ IsInjective(q)
            /\ \A k \in DOMAIN q : \E j \in 1 .. i - 1 : q[k] = list[j]
        BY <2>1 DEF q
      <3>3. \A k \in 1 .. Len(q) : q[k] # list[i]
        <4> SUFFICES ASSUME NEW k \in 1 .. Len(q), q[k] = list[i] PROVE FALSE
          OBVIOUS
        <4>1. PICK j \in 1 .. i - 1 : q[k] = list[j]
          BY <3>0, <3>2
        <4>2. j \in DOMAIN list /\ i \in DOMAIN list /\ j # i
          BY <1>1 DEF n
        <4> QED
          BY <4>1, <4>2 DEF IsInjective
      <3>4. IsInjective(r)
        <4> SUFFICES ASSUME NEW k \in 1 .. Len(q) + 1, NEW l \in 1 .. Len(q) + 1, r[k] = r[l]
                     PROVE  k = l
          BY <3>2 DEF IsInjective
        <4>1. CASE k = Len(q) + 1 /\ l # Len(q) + 1
          BY <3>2, <3>3, <4>1
        <4>2. CASE k # Len(q) + 1 /\ l = Len(q) + 1
          BY <3>2, <3>3, <4>2
        <4>3. CASE k # Len(q) + 1 /\ l # Len(q) + 1
          <5>1. k \in DOMAIN q /\ l \in DOMAIN q /\ q[k] = q[l]
            BY <3>2, <4>3
          <5> QED
            BY <3>0, <5>1 DEF IsInjective
        <4> QED
          BY <4>1, <4>2, <4>3
      <3>5. \A k \in DOMAIN r : \E j \in 1 .. i : r[k] = list[j]
        <4> SUFFICES ASSUME NEW k \in 1 .. Len(q) + 1 PROVE \E j \in 1 .. i : r[k] = list[j]
          BY <3>2
        <4>1. CASE k = Len(q) + 1
          BY <3>2, <4>1
        <4>2. CASE k # Len(q) + 1
          <5>1. k \in DOMAIN q
            BY <3>2, <4>2
          <5>2. PICK j \in 1 .. i - 1 : q[k] = list[j]
            BY <3>0, <5>1
          <5> QED
            BY <3>2, <5>1, <5>2
        <4> QED
          BY <4>1, <4>2
      <3>6. Len(r) <= i
        BY <3>0, <3>2
      <3>7. Fits(i)
        BY <3>2, <3>4, <3>5, <3>6, Zenon DEF r
      <3> QED
        BY <3>7, <1>1
    <2>4. CASE list[i] \notin present
      BY <2>1, <2>2, <2>4
    <2> QED
      BY <2>3, <2>4
  <1>8. n \in P
    <2> HIDE DEF P
    <2>1. \A i \in 0 .. n : i \in P
      BY <1>1, <1>6, <1>7, UpTo
    <2> QED
      BY <1>1, <2>1
  <1>9. Existing(list) = got[n]
    BY Zenon DEF Existing, got, n, Body
  <1> QED
    BY <1>8, <1>9 DEF n

\* A project that is not in the list is put first, and the list stays in its limit.
LEMMA AddedFirst ==
  ASSUME RecentList(recent), NEW f \in Files, ~Listed(recent, f)
  PROVE  RecentList(<<f>> \o Shorter(recent))
  <1> DEFINE q == Shorter(recent)
             r == <<f>> \o q
  <1>1. /\ q \in Seq(Files) /\ Len(q) \in Nat /\ Len(q) + 1 <= MaxRecent
        /\ \A i \in 1 .. Len(q) : q[i] = recent[i] /\ i \in DOMAIN recent
    <2>1. CASE Len(recent) = MaxRecent
      BY <2>1, RecentAssumption DEF RecentList, Shorter
    <2>2. CASE Len(recent) # MaxRecent
      BY <2>2, RecentAssumption DEF RecentList, Shorter
    <2> QED
      BY <2>1, <2>2
  <1> HIDE DEF q
  <1>2. /\ r \in Seq(Files) /\ Len(r) = Len(q) + 1 /\ r[1] = f
        /\ DOMAIN r = 1 .. Len(q) + 1
        /\ \A i \in 2 .. Len(q) + 1 : r[i] = q[i - 1]
    BY <1>1
  <1> HIDE DEF r
  <1>3. \A i \in 2 .. Len(q) + 1 :
          /\ i - 1 \in DOMAIN recent /\ r[i] = recent[i - 1] /\ r[i] # f
    BY <1>1, <1>2 DEF Listed
  <1>4. ASSUME NEW i \in DOMAIN r, NEW j \in DOMAIN r, r[i] = r[j] PROVE i = j
    <2>1. CASE i = 1 \/ j = 1
      BY <1>1, <1>2, <1>3, <1>4, <2>1
    <2>2. CASE i # 1 /\ j # 1
      <3>1. i \in 2 .. Len(q) + 1 /\ j \in 2 .. Len(q) + 1
        BY <1>1, <1>2, <2>2
      <3>2. recent[i - 1] = recent[j - 1] => i - 1 = j - 1
        BY <1>3, <3>1 DEF RecentList, IsInjective
      <3> QED
        BY <1>3, <1>4, <3>1, <3>2
    <2> QED
      BY <2>1, <2>2
  <1> QED
    BY <1>1, <1>2, <1>4 DEF RecentList, IsInjective, q, r

\* The shape of what Shape leaves out.
Lists ==
  /\ RecentList(recent) /\ RecentList(recentFile)
  /\ shown \in BOOLEAN /\ ui \in {"off", "ready", "new", "crashed"}
  /\ answer \in Answers \cup {"unknown"} /\ causes \subseteq Causes

\* What saving and opening do to the lists.
LEMMA ListsSaved ==
  ASSUME Lists, NEW f \in Files, SaveToRecentProjects(f)
  PROVE  RecentList(recent') /\ RecentList(recentFile')
  BY AddedFirst DEF Lists, SaveToRecentProjects

LEMMA ListsWritten ==
  ASSUME Lists, NEW f \in Files, NEW c, NEW o, WriteProject(f, c, o)
  PROVE  RecentList(recent') /\ RecentList(recentFile')
  BY ListsSaved DEF WriteProject, files, Lists

LEMMA ListsAnswered ==
  ASSUME Shape, Lists, NEW a, NEW f \in Files \cup {NoFile}, NEW o,
         ShowSavingDialog(a, f), SaveAsAnswered(a, f, o)
  PROVE  RecentList(recent') /\ RecentList(recentFile')
  <1>1. CASE a = "save"
    <2>1. current \in Files
      BY <1>1 DEF ShowSavingDialog, Shape
    <2> QED
      BY <1>1, <2>1, ListsWritten DEF SaveAsAnswered
  <1>2. CASE a = "saveAs" /\ f # NoFile
    BY <1>2, ListsWritten DEF SaveAsAnswered
  <1>3. CASE a # "save" /\ ~(a = "saveAs" /\ f # NoFile)
    BY <1>3 DEF SaveAsAnswered, files, Lists
  <1> QED
    BY <1>1, <1>2, <1>3

LEMMA ListsKept == Shape /\ Lists /\ [Next]_vars => Lists'
  <1> SUFFICES ASSUME Shape, Lists, [Next]_vars PROVE Lists'
    OBVIOUS
  <1>0. \A o : Fault(o) \subseteq Causes
    BY DEF Fault, Causes
  <1>1. CASE Start
    <2>1. RecentList(Existing(recentFile))
      <3>1. recentFile \in Seq(Files) /\ IsInjective(recentFile) /\ Len(recentFile) <= MaxRecent
        BY DEF Lists, RecentList
      <3>2. /\ Existing(recentFile) \in Seq(Files)
            /\ Len(Existing(recentFile)) <= Len(recentFile)
            /\ IsInjective(Existing(recentFile))
        BY <3>1, ExistingListed
      <3> QED
        BY <3>1, <3>2, RecentAssumption DEF RecentList
    <2> QED
      BY <1>1, <2>1 DEF Start, Lists
  <1>2. ASSUME NEW o \in Outcomes, NEW f \in Files,
               SaveProject(o) \/ SaveProjectAs(f, o) \/ NewProject(f, o)
        PROVE  Lists'
    <2>1. RecentList(recent') /\ RecentList(recentFile')
      <3>1. current # NoFile => current \in Files
        BY DEF Shape
      <3> QED
        BY <1>2, <3>1, ListsWritten DEF SaveProject, SaveProjectAs, NewProject
    <2>2. causes' \subseteq Causes
      BY <1>0, <1>2 DEF SaveProject, SaveProjectAs, NewProject, Lists, Causes
    <2> QED
      BY <1>2, <2>1, <2>2 DEF SaveProject, SaveProjectAs, NewProject, Lists
  <1>3. ASSUME NEW a \in Answers \cup {"unknown"}, NEW f \in Files \cup {NoFile},
               NEW o \in Outcomes,
               AskNew(a, f, o) \/ CloseProject(a, f, o) \/ CloseEvent(a, f, o)
        PROVE  Lists'
    <2>1. RecentList(recent') /\ RecentList(recentFile')
      BY <1>3, ListsAnswered DEF AskNew, CloseProject, CloseEvent
    <2>2. causes' \subseteq Causes
      BY <1>0, <1>3 DEF AskNew, CloseProject, CloseEvent, Lists, Causes
    <2> QED
      BY <1>3, <2>1, <2>2 DEF AskNew, CloseProject, CloseEvent, ShowSavingDialog, Lists
  <1>4. ASSUME NEW f \in Files, OpenProject(f) PROVE Lists'
    BY <1>4, ListsSaved DEF OpenProject, Lists
  <1>5. ASSUME NEW f \in Files, OpenMissing(f) \/ RemoveFile(f) PROVE Lists'
    BY <1>5 DEF OpenMissing, RemoveFile, files, Lists, Causes
  <1>6. ASSUME NEW i \in Items, Edit(i) PROVE Lists'
    BY <1>6 DEF Edit, files, Lists
  <1>7. CASE RejectNew \/ OpenDeployProject \/ UNCHANGED vars
    BY <1>7 DEF RejectNew, OpenDeployProject, vars, files, Lists
  <1>8. ASSUME NEW o \in Outcomes, SaveProject(o) PROVE Lists'
    <2>1. current \in Files
      BY <1>8 DEF SaveProject, Shape
    <2> QED
      BY <1>2, <1>8, <2>1
  <1> QED
    BY <1>1, <1>2, <1>3, <1>4, <1>5, <1>6, <1>7, <1>8 DEF Next

----------------------------------------------------------------------------
(* The theorems *)

\* The state keeps its shape: above all the list of recent projects stays in its
\* limit and names no project twice, in memory and in recent.json.
THEOREM TypeCorrect == Spec => []TypeOK
  <1>1. Init => Lists
    <2>1. <<>> \in Seq(Files) /\ Len(<<>>) = 0 /\ DOMAIN <<>> = {}
      OBVIOUS
    <2>2. RecentList(<<>>)
      BY <2>1, RecentAssumption DEF RecentList, IsInjective
    <2> QED
      BY <2>2 DEF Init, Lists
  <1>2. ProjectInv /\ Lists => TypeOK
    BY DEF ProjectInv, Shape, Lists, TypeOK
  <1>3. ProjectInv => Shape
    BY DEF ProjectInv
  <1> QED
    BY <1>1, <1>2, <1>3, Always, ListsKept, PTL DEF Spec

\* While no recent project was missing, the page is shown exactly for an open
\* project, the editor is empty without one, and no action meets a null project.
THEOREM NoProjectNoContent == Spec => []EmptyWithoutProject
  <1>1. ProjectInv => EmptyWithoutProject
    BY DEF ProjectInv
  <1> QED
    BY <1>1, Always, PTL

\* An opened project shows what its file holds, a new one nothing.
THEOREM OpenedWhole == Spec => ShowsTheFile
  <1> DEFINE A ==
        "orphan" \notin causes =>
          \A f \in Files :
            /\ OpenProject(f) => editor' = disk[f]
            /\ \A o \in Outcomes :
                 NewProject(f, o) => editor' = {} /\ disk'[f] \in {{}, disk[f]}
  <1>1. ProjectInv /\ [Next]_vars => [A]_vars
    <2> SUFFICES ASSUME ProjectInv, "orphan" \notin causes, NEW f \in Files
                 PROVE  /\ OpenProject(f) => editor' = disk[f]
                        /\ \A o \in Outcomes :
                             NewProject(f, o) =>
                               editor' = {} /\ disk'[f] \in {{}, disk[f]}
      OBVIOUS
    <2>1. AfterClose = {}
      BY DEF AfterClose, ProjectInv, EmptyWithoutProject
    <2>2. OpenProject(f) => editor' = disk[f]
      BY <2>1 DEF OpenProject
    <2>3. ASSUME NEW o \in Outcomes, NewProject(f, o)
          PROVE  editor' = {} /\ disk'[f] \in {{}, disk[f]}
      <3>1. WriteProject(f, {}, o) /\ editor' = {}
        BY <2>1, <2>3 DEF NewProject
      <3> QED
        BY <3>1, Writes DEF ProjectInv
    <2> QED
      BY <2>2, <2>3
  <1>2. ShowsTheFile <=> [][A]_vars
    BY DEF ShowsTheFile
  <1> QED
    BY <1>1, <1>2, Always, PTL DEF Spec

\* A step that leaves a project after an answer that saves, with nothing wrong.
LEMMA LeaveSaves ==
  ASSUME ProjectInv, LeaveAsked, current # NoFile,
         answer' \in {"save", "saveAs"}, causes' \cap (Causes \ {"orphan"}) = {}
  PROVE  Kept
  <1>1. ASSUME NEW f \in Files, NEW o \in Outcomes, NewProject(f, o)
        PROVE  Kept
    <2> DEFINE more == IF disk[f] # {} THEN {"overwrote"} ELSE {}
    <2>0. causes' = causes \cup Fault(o) \cup more
      BY <1>1 DEF NewProject
    <2> HIDE DEF more
    <2>1. o = "done" /\ Clean /\ more \cap (Causes \ {"orphan"}) = {}
      BY <2>0, Faultless
    <2> USE DEF more
    <2>2. disk[f] = {}
      BY <2>1 DEF Causes
    <2>3. PICK g \in present : disk[g] = editor
      BY <1>1, <2>1 DEF ProjectInv, SavedInNew, NewProject
    <2>4. WriteProject(f, {}, o)
      BY <1>1 DEF NewProject, AfterClose
    <2>5. /\ present \subseteq present'
          /\ disk'[f] = {} /\ \A h \in Files \ {f} : disk'[h] = disk[h]
      BY <2>1, <2>4, Writes DEF ProjectInv
    <2>6. disk'[g] = editor /\ g \in present'
      BY <2>2, <2>3, <2>5 DEF ProjectInv, Shape
    <2> QED
      BY <2>6 DEF Kept
  <1>2. ASSUME NEW a \in Answers, NEW f \in Files \cup {NoFile},
               NEW o \in Outcomes, CloseProject(a, f, o) \/ CloseEvent(a, f, o)
        PROVE  Kept
    <2>1. causes' = causes \cup Fault(o) \cup {}
      BY <1>2 DEF CloseProject, CloseEvent
    <2>2. o = "done"
      BY <2>1, Faultless
    <2>3. a \in {"save", "saveAs"} /\ (a = "saveAs" => f # NoFile)
      BY <1>2 DEF CloseProject, CloseEvent, ShowSavingDialog
    <2> QED
      BY <1>2, <2>2, <2>3, Saves DEF CloseProject, CloseEvent, ProjectInv, Kept
  <1> QED
    BY <1>1, <1>2 DEF LeaveAsked

\* Whoever asks to save loses nothing, unless one of the named things happened.
THEOREM AskedIsSaved == Spec => SavedUnlessTold
  <1> DEFINE A ==
        LeaveAsked /\ current # NoFile /\ answer' \in {"save", "saveAs"}
          => Kept \/ causes' \cap (Causes \ {"orphan"}) # {}
  <1>1. ProjectInv /\ [Next]_vars => [A]_vars
    BY LeaveSaves
  <1>2. SavedUnlessTold <=> [][A]_vars
    BY DEF SavedUnlessTold
  <1> QED
    BY <1>1, <1>2, Always, PTL DEF Spec
============================================================================
