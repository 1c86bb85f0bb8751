-------------------------- MODULE CommLists_proofs --------------------------
(***************************************************************************)
(* What the references of the messages promise, for any number of          *)
(* communications, messages and typed names: while only the last           *)
(* communication is ever removed, the id of a communication is its row,    *)
(* and that is what keeps the two slots of MessageList in step.            *)
(***************************************************************************)
EXTENDS CommLists, FiniteSetTheorems, WellFoundedInduction, TLAPS

USE MaxCommsIsNat

----------------------------------------------------------------------------
(* Rows, and sequences without one of theirs *)

\* Every set of naturals that is not empty has a least member.
LEMMA LeastNatural ==
  ASSUME NEW T \in SUBSET Nat, T # {}
  PROVE  \E m \in T : \A k \in T : m <= k
  <1>1. PICK m \in T : \A k \in T : ~ (<<k, m>> \in OpToRel(<, Nat))
    BY NatLessThanWellFounded, WFMin
  <1>2. \A k \in T : ~(k < m)
    BY <1>1 DEF OpToRel
  <1> QED
    BY <1>2

\* Induction up to n, over a set: what holds at 1 and is handed on holds at n.
LEMMA UpTo ==
  ASSUME NEW n \in Nat, NEW P, n > 0 => 1 \in P,
         \A i \in 2 .. n : i - 1 \in P => i \in P
  PROVE  \A i \in 1 .. n : i \in P
  <1> DEFINE T == {i \in 1 .. n : i \notin P}
  <1> SUFFICES ASSUME T # {} PROVE FALSE
    OBVIOUS
  <1>1. PICK m \in T : \A k \in T : m <= k
    <2>1. T \in SUBSET Nat
      OBVIOUS
    <2> HIDE DEF T
    <2> QED
      BY <2>1, LeastNatural
  <1>2. m \in 2 .. n /\ m - 1 \in 1 .. n /\ ~(m <= m - 1)
    OBVIOUS
  <1>3. m - 1 \in P
    BY <1>1, <1>2
  <1> QED
    BY <1>2, <1>3

\* The first of some rows is one of them, and none is before it.
LEMMA FirstRow ==
  ASSUME NEW n \in Nat, NEW I \in SUBSET (1 .. n)
  PROVE  /\ I = {} => First(I) = 0
         /\ I # {} => First(I) \in I /\ \A i \in I : First(I) <= i
  <1>1. CASE I # {}
    <2>1. \E m \in I : \A k \in I : m <= k
      BY <1>1, LeastNatural
    <2> QED
      BY <1>1, <2>1 DEF First, Min
  <1> QED
    BY <1>1 DEF First

\* Looking a communication up finds it, by its id and by its name.
LEMMA FoundById ==
  ASSUME NEW s \in Seq(Comm), NEW id
  PROVE  /\ RowOfId(s, id) = 0 => \A k \in DOMAIN s : s[k].id # id
         /\ RowOfId(s, id) # 0 => RowOfId(s, id) \in DOMAIN s
                                  /\ s[RowOfId(s, id)].id = id
  <1> DEFINE I == {k \in DOMAIN s : s[k].id = id}
  <1>1. Len(s) \in Nat /\ DOMAIN s = 1 .. Len(s) /\ I \in SUBSET (1 .. Len(s))
    OBVIOUS
  <1>2. RowOfId(s, id) = First(I)
    BY DEF RowOfId
  <1>3. First(I) = 0 \/ First(I) \in I
    <2> HIDE DEF I
    <2> QED
      BY <1>1, FirstRow
  <1>4. I # {} => First(I) \in I
    <2> HIDE DEF I
    <2> QED
      BY <1>1, FirstRow
  <1> QED
    BY <1>1, <1>2, <1>3, <1>4

LEMMA FoundByName ==
  ASSUME NEW s \in Seq(Comm), NEW name
  PROVE  /\ RowOfName(s, name) = 0 => \A k \in DOMAIN s : s[k].name # name
         /\ RowOfName(s, name) # 0 => RowOfName(s, name) \in DOMAIN s
                                      /\ s[RowOfName(s, name)].name = name
  <1> DEFINE I == {k \in DOMAIN s : s[k].name = name}
  <1>1. Len(s) \in Nat /\ DOMAIN s = 1 .. Len(s) /\ I \in SUBSET (1 .. Len(s))
    OBVIOUS
  <1>2. RowOfName(s, name) = First(I)
    BY DEF RowOfName
  <1>3. First(I) = 0 \/ First(I) \in I
    <2> HIDE DEF I
    <2> QED
      BY <1>1, FirstRow
  <1>4. I # {} => First(I) \in I
    <2> HIDE DEF I
    <2> QED
      BY <1>1, FirstRow
  <1> QED
    BY <1>1, <1>2, <1>3, <1>4

\* Taking one out leaves the others, in their order.
LEMMA Removed ==
  ASSUME NEW S, NEW s \in Seq(S), NEW k \in DOMAIN s
  PROVE  /\ RemoveAt(s, k) \in Seq(S)
         /\ Len(RemoveAt(s, k)) = Len(s) - 1
         /\ \A i \in 1 .. Len(s) - 1 :
              RemoveAt(s, k)[i] = IF i < k THEN s[i] ELSE s[i + 1]
  <1> DEFINE a == SubSeq(s, 1, k - 1)
             b == SubSeq(s, k + 1, Len(s))
  <1>1. k \in 1 .. Len(s) /\ Len(s) \in Nat
    OBVIOUS
  <1>2. /\ a \in Seq(S) /\ Len(a) = k - 1
        /\ \A i \in 1 .. k - 1 : a[i] = s[i]
    BY <1>1
  <1>3. /\ b \in Seq(S) /\ Len(b) = Len(s) - k
        /\ \A i \in 1 .. Len(s) - k : b[i] = s[k + i]
    BY <1>1
  <1>4. RemoveAt(s, k) = a \o b
    BY DEF RemoveAt
  <1> HIDE DEF a, b
  <1>5. /\ a \o b \in Seq(S) /\ Len(a \o b) = Len(s) - 1
        /\ \A i \in 1 .. Len(s) - 1 :
             (a \o b)[i] = IF i <= k - 1 THEN a[i] ELSE b[i - (k - 1)]
    BY <1>1, <1>2, <1>3
  <1>6. ASSUME NEW i \in 1 .. Len(s) - 1
        PROVE  (a \o b)[i] = IF i < k THEN s[i] ELSE s[i + 1]
    <2>1. CASE i < k
      BY <1>1, <1>2, <1>5, <2>1
    <2>2. CASE ~(i < k)
      <3>1. i - (k - 1) \in 1 .. Len(s) - k /\ k + (i - (k - 1)) = i + 1
        BY <1>1, <2>2
      <3> QED
        BY <1>1, <1>3, <1>5, <2>2, <3>1
    <2> QED
      BY <2>1, <2>2
  <1> QED
    BY <1>4, <1>5, <1>6

\* The names in a fixed order, each once.
LEMMA InOrder ==
  ASSUME NEW S, IsFiniteSet(S)
  PROVE  /\ SetToSeq(S) \in [1 .. Cardinality(S) -> S]
         /\ Cardinality(S) \in Nat
         /\ IsInjective(SetToSeq(S))
  <1>1. Cardinality(S) \in Nat /\ ExistsBijection(1 .. Cardinality(S), S)
    BY FS_CardinalityType
  <1>2. \E f \in [1 .. Cardinality(S) -> S] : IsInjective(f)
    BY <1>1 DEF ExistsBijection, Bijection, Injection, IsInjective
  <1> QED
    BY <1>1, <1>2 DEF SetToSeq

\* A list has finitely many names.
LEMMA NamesFinite ==
  ASSUME NEW s \in Seq(Comm)
  PROVE  IsFiniteSet(NamesOf(s))
  <1> DEFINE f == [k \in 1 .. Len(s) |-> s[k].name]
  <1>1. Len(s) \in Nat /\ DOMAIN s = 1 .. Len(s)
    OBVIOUS
  <1>2. f \in Surjection(1 .. Len(s), NamesOf(s))
    BY <1>1 DEF Surjection, NamesOf
  <1>3. IsFiniteSet(1 .. Len(s))
    BY <1>1, FS_Interval
  <1> HIDE DEF f
  <1> QED
    BY <1>2, <1>3, FS_Surjection

----------------------------------------------------------------------------
(* What the two slots of the message list make of a message's references *)

\* The slot for a removal only takes references out; where a message has each
\* name once it takes out just those of the name.
LEMMA ForgottenRefs ==
  ASSUME TypeOK, NEW m \in Messages, NEW name
  PROVE  /\ Forgotten(name)[m] \in Seq(Comm)
         /\ Range(Forgotten(name)[m]) \subseteq Range(refs[m])
         /\ IsInjective(NameColumn(refs[m])) =>
              /\ IsInjective(NameColumn(Forgotten(name)[m]))
              /\ Range(Forgotten(name)[m]) = {r \in Range(refs[m]) : r.name # name}
  <1> DEFINE q == refs[m]
             r == Forgotten(name)[m]
             k == RowOfName(q, name)
  <1>1. q \in Seq(Comm) /\ Len(q) \in Nat /\ DOMAIN q = 1 .. Len(q)
    BY DEF TypeOK
  <1>2. r = IF k = 0 THEN q ELSE RemoveAt(q, k)
    BY DEF Forgotten
  <1>3. /\ k = 0 => \A i \in DOMAIN q : q[i].name # name
        /\ k # 0 => k \in DOMAIN q /\ q[k].name = name
    <2> HIDE DEF q
    <2> QED
      BY <1>1, FoundByName
  <1>4. CASE k = 0
    BY <1>1, <1>2, <1>3, <1>4 DEF Range
  <1>5. CASE k # 0
    <2>1. /\ r \in Seq(Comm) /\ Len(r) = Len(q) - 1
          /\ \A i \in 1 .. Len(q) - 1 : r[i] = IF i < k THEN q[i] ELSE q[i + 1]
      <3> HIDE DEF q, k, r
      <3> QED
        BY <1>1, <1>2, <1>3, <1>5, Removed
    <2> HIDE DEF q, k, r
    <2>2. DOMAIN r = 1 .. Len(q) - 1 /\ k \in 1 .. Len(q) /\ q[k].name = name
      BY <1>1, <1>3, <1>5, <2>1
    <2>3. \A i \in DOMAIN r : \E j \in DOMAIN q : j # k /\ r[i] = q[j] /\ j = IF i < k THEN i ELSE i + 1
      BY <1>1, <2>1, <2>2
    <2>4. \A j \in DOMAIN q : j # k => \E i \in DOMAIN r : r[i] = q[j]
      <3> SUFFICES ASSUME NEW j \in DOMAIN q, j # k PROVE \E i \in DOMAIN r : r[i] = q[j]
        OBVIOUS
      <3>1. CASE j < k
        BY <1>1, <2>1, <2>2, <3>1
      <3>2. CASE j > k
        <4>1. j - 1 \in DOMAIN r /\ ~(j - 1 < k) /\ (j - 1) + 1 = j
          BY <1>1, <2>2, <3>2
        <4>2. r[j - 1] = q[j]
          BY <2>1, <2>2, <4>1
        <4> QED
          BY <4>1, <4>2
      <3> QED
        BY <1>1, <2>2, <3>1, <3>2
    <2>5. Range(r) \subseteq Range(q)
      BY <2>3 DEF Range
    <2>6. ASSUME IsInjective(NameColumn(q))
          PROVE  /\ IsInjective(NameColumn(r))
                 /\ Range(r) = {c \in Range(q) : c.name # name}
      <3>1. \A i, j \in DOMAIN q : q[i].name = q[j].name => i = j
        BY <2>6 DEF IsInjective, NameColumn
      <3>2. \A j \in DOMAIN q : j # k => q[j].name # name
        BY <1>1, <2>2, <3>1
      <3>3. Range(r) = {c \in Range(q) : c.name # name}
        BY <2>2, <2>3, <2>4, <3>2 DEF Range
      <3>4. ASSUME NEW i \in DOMAIN r, NEW j \in DOMAIN r, r[i].name = r[j].name
            PROVE  i = j
        <4> DEFINE At(x) == IF x < k THEN x ELSE x + 1
        <4>1. At(i) \in DOMAIN q /\ At(j) \in DOMAIN q /\ r[i] = q[At(i)] /\ r[j] = q[At(j)]
          BY <1>1, <2>1, <2>2
        <4>2. At(i) = At(j)
          BY <3>1, <3>4, <4>1
        <4> QED
          BY <1>1, <2>2, <4>2
      <3> QED
        BY <3>3, <3>4 DEF IsInjective, NameColumn
    <2> QED
      BY <2>1, <2>5, <2>6 DEF q, r
  <1> QED
    BY <1>4, <1>5

\* The slot for a renaming changes one reference at most, that with the id, and
\* only its name.
LEMMA FollowedRefs ==
  ASSUME TypeOK, NEW s \in Seq(Comm), NEW id, \E k \in DOMAIN s : s[k].id = id,
         NEW m \in Messages
  PROVE  /\ Followed(s, id)[m] \in Seq(Comm)
         /\ DOMAIN Followed(s, id)[m] = DOMAIN refs[m]
         /\ NameOf(s, id) \in {s[k].name : k \in {l \in DOMAIN s : s[l].id = id}}
         /\ RowOfId(refs[m], id) = 0 => Followed(s, id)[m] = refs[m]
         /\ \A i \in DOMAIN refs[m] :
              Followed(s, id)[m][i] =
                IF i = RowOfId(refs[m], id)
                THEN [id |-> id, name |-> NameOf(s, id)] ELSE refs[m][i]
  <1> DEFINE q == refs[m]
             r == Followed(s, id)[m]
             k == RowOfId(q, id)
  <1>1. q \in Seq(Comm) /\ Len(q) \in Nat /\ DOMAIN q = 1 .. Len(q)
    BY DEF TypeOK
  <1>2. RowOfId(s, id) \in DOMAIN s /\ s[RowOfId(s, id)].id = id
    BY FoundById
  <1>3. NameOf(s, id) \in {s[l].name : l \in {l \in DOMAIN s : s[l].id = id}}
    BY <1>2 DEF NameOf
  <1>4. NameOf(s, id) \in Names
    <2>1. s[RowOfId(s, id)] \in Comm
      BY <1>2
    <2> QED
      BY <2>1 DEF NameOf, Comm
  <1>5. r = IF k = 0 THEN q ELSE [q EXCEPT ![k].name = NameOf(s, id)]
    BY DEF Followed
  <1>6. k # 0 => k \in DOMAIN q /\ q[k].id = id
    <2> HIDE DEF q
    <2> QED
      BY <1>1, FoundById
  <1> HIDE DEF q, r, k
  <1>7. CASE k = 0
    <2>1. \A i \in DOMAIN q : i # k
      BY <1>1, <1>7
    <2>2. r = q
      BY <1>5, <1>7
    <2> QED
      BY <1>1, <1>3, <2>1, <2>2 DEF q, r, k
  <1>8. CASE k # 0
    <2>1. k \in DOMAIN q /\ q[k].id = id /\ q[k] \in Comm
      BY <1>1, <1>6, <1>8
    <2>2. [q[k] EXCEPT !.name = NameOf(s, id)] = [id |-> id, name |-> NameOf(s, id)]
      BY <2>1 DEF Comm
    <2>3. [id |-> id, name |-> NameOf(s, id)] \in Comm
      BY <1>4, <2>1 DEF Comm
    <2>4. r = [q EXCEPT ![k] = [id |-> id, name |-> NameOf(s, id)]]
      BY <1>5, <1>8, <2>2
    <2>5. /\ r \in Seq(Comm) /\ DOMAIN r = DOMAIN q
          /\ \A i \in DOMAIN q :
               r[i] = IF i = k THEN [id |-> id, name |-> NameOf(s, id)] ELSE q[i]
      BY <1>1, <2>1, <2>3, <2>4
    <2> QED
      BY <1>3, <1>8, <2>5 DEF q, r, k
  <1> QED
    BY <1>7, <1>8

----------------------------------------------------------------------------
(* The invariant *)

\* While only the last communication is removed the id of each is its row.
IdIsRow ==
  "gap" \notin marks => \A k \in DOMAIN comms : comms[k].id = k - 1

\* While no default name is given twice either, the names differ.
NamesDiffer == marks = {} => IsInjective(NameColumn(comms))

CommInv == TypeOK /\ IdIsRow /\ NamesDiffer /\ RefsFollow

\* What is typed, in the form the steps use.
LEMMA Shapes ==
  ASSUME TypeOK
  PROVE  /\ comms \in Seq(Comm) /\ Len(comms) \in Nat /\ DOMAIN comms = 1 .. Len(comms)
         /\ \A k \in DOMAIN comms :
              comms[k] \in Comm /\ comms[k].id \in 0 .. MaxComms /\ comms[k].name \in Names
         /\ \A m \in Messages : /\ refs[m] \in Seq(Comm) /\ Len(refs[m]) \in Nat
                                /\ DOMAIN refs[m] = 1 .. Len(refs[m])
  <1>1. /\ comms \in Seq(Comm) /\ Len(comms) \in Nat /\ DOMAIN comms = 1 .. Len(comms)
        /\ \A m \in Messages : refs[m] \in Seq(Comm)
    BY DEF TypeOK
  <1>2. \A k \in DOMAIN comms : comms[k] \in Comm
    BY <1>1
  <1>3. \A k \in DOMAIN comms : comms[k].id \in 0 .. MaxComms /\ comms[k].name \in Names
    BY <1>2 DEF Comm, Ids
  <1> QED
    BY <1>1, <1>2, <1>3

LEMMA AddKeeps ==
  ASSUME CommInv, AddCommunication
  PROVE  CommInv'
  <1> DEFINE new == [id |-> Len(comms), name |-> Len(comms)]
  <1>1. /\ comms' = Append(comms, new) /\ Len(comms) < MaxComms
        /\ marks' = marks \cup (IF Len(comms) \in NamesOf(comms) THEN {"clash"} ELSE {})
        /\ UNCHANGED <<refs, outOfRange>>
    BY DEF AddCommunication, NewId, Default
  <1>2. TypeOK
    BY DEF CommInv
  <1>3. new \in Comm
    BY <1>1, <1>2, Shapes DEF Comm, Ids, Names
  <1> HIDE DEF new
  <1>4. /\ comms' \in Seq(Comm) /\ Len(comms') = Len(comms) + 1
        /\ DOMAIN comms' = 1 .. Len(comms) + 1
        /\ \A k \in DOMAIN comms : comms'[k] = comms[k]
        /\ comms'[Len(comms) + 1] = new
    BY <1>1, <1>2, <1>3, Shapes
  <1>5. TypeOK'
    BY <1>1, <1>2, <1>4, Shapes DEF TypeOK, Marks
  <1>6. IdIsRow'
    BY <1>1, <1>2, <1>4, Shapes DEF CommInv, IdIsRow, new
  <1>7. NamesDiffer'
    <2> SUFFICES ASSUME marks' = {}, NEW i \in DOMAIN comms', NEW j \in DOMAIN comms',
                        comms'[i].name = comms'[j].name
                 PROVE  i = j
      BY DEF NamesDiffer, IsInjective, NameColumn
    <2>1. marks = {} /\ Len(comms) \notin NamesOf(comms)
      BY <1>1
    <2>2. \A k \in DOMAIN comms : comms[k].name # Len(comms)
      BY <2>1 DEF NamesOf
    <2>3. \A k, l \in DOMAIN comms : comms[k].name = comms[l].name => k = l
      BY <2>1 DEF CommInv, NamesDiffer, IsInjective, NameColumn
    <2>4. \A k \in DOMAIN comms' : k \in DOMAIN comms \/ k = Len(comms) + 1
      BY <1>2, <1>4, Shapes
    <2> QED
      BY <1>4, <2>2, <2>3, <2>4 DEF new
  <1>8. RefsFollow'
    <2>1. Range(comms) \subseteq Range(comms')
      BY <1>2, <1>4, Shapes DEF Range
    <2> QED
      BY <1>1, <2>1 DEF CommInv, RefsFollow
  <1> QED
    BY <1>5, <1>6, <1>7, <1>8 DEF CommInv

\* What removing does, in rows.
LEMMA RemovedRow ==
  ASSUME TypeOK, NEW row \in DOMAIN comms, RemoveCommunication(row)
  PROVE  \E found \in DOMAIN comms :
           /\ comms[found].id = comms[row].id
           /\ comms' \in Seq(Comm) /\ Len(comms') = Len(comms) - 1
           /\ DOMAIN comms' = 1 .. Len(comms) - 1
           /\ \A i \in 1 .. Len(comms) - 1 :
                comms'[i] = IF i < found THEN comms[i] ELSE comms[i + 1]
           /\ refs' = Forgotten(comms[found].name)
           /\ marks' = marks \cup (IF found < Len(comms) THEN {"gap"} ELSE {})
           /\ UNCHANGED outOfRange
  <1> DEFINE found == RowOfId(comms, comms[row].id)
  <1>1. found \in DOMAIN comms /\ comms[found].id = comms[row].id
    BY FoundById, Shapes
  <1>2. /\ comms' = RemoveAt(comms, found)
        /\ refs' = Forgotten(comms[found].name)
        /\ marks' = marks \cup (IF found < Len(comms) THEN {"gap"} ELSE {})
        /\ UNCHANGED outOfRange
    BY DEF RemoveCommunication
  <1> HIDE DEF found
  <1>3. /\ comms' \in Seq(Comm) /\ Len(comms') = Len(comms) - 1
        /\ \A i \in 1 .. Len(comms) - 1 :
             comms'[i] = IF i < found THEN comms[i] ELSE comms[i + 1]
    BY <1>1, <1>2, Removed, Shapes
  <1>4. DOMAIN comms' = 1 .. Len(comms) - 1
    BY <1>3
  <1> QED
    BY <1>1, <1>2, <1>3, <1>4

LEMMA RemoveKeeps ==
  ASSUME CommInv, NEW row \in DOMAIN comms, RemoveCommunication(row)
  PROVE  CommInv'
  <1>1. TypeOK
    BY DEF CommInv
  <1>2. PICK found \in DOMAIN comms :
           /\ comms[found].id = comms[row].id
           /\ comms' \in Seq(Comm) /\ Len(comms') = Len(comms) - 1
           /\ DOMAIN comms' = 1 .. Len(comms) - 1
           /\ \A i \in 1 .. Len(comms) - 1 :
                comms'[i] = IF i < found THEN comms[i] ELSE comms[i + 1]
           /\ refs' = Forgotten(comms[found].name)
           /\ marks' = marks \cup (IF found < Len(comms) THEN {"gap"} ELSE {})
           /\ UNCHANGED outOfRange
    BY <1>1, RemovedRow
  <1>3. /\ refs' = [m \in Messages |-> refs'[m]]
        /\ \A m \in Messages : refs'[m] \in Seq(Comm)
    BY <1>1, <1>2, ForgottenRefs DEF Forgotten
  <1>4. TypeOK'
    BY <1>1, <1>2, <1>3, Shapes DEF TypeOK, Marks
  <1>5. ASSUME "gap" \notin marks'
        PROVE  /\ found = Len(comms) /\ "gap" \notin marks /\ marks' = marks
               /\ \A i \in DOMAIN comms' : comms'[i] = comms[i] /\ i \in DOMAIN comms
    <2>1. found = Len(comms) /\ "gap" \notin marks /\ marks' = marks
      BY <1>1, <1>2, <1>5, Shapes
    <2> QED
      BY <1>1, <1>2, <2>1, Shapes
  <1>6. IdIsRow'
    BY <1>5 DEF IdIsRow, CommInv
  <1>7. NamesDiffer'
    BY <1>5 DEF NamesDiffer, CommInv, IsInjective, NameColumn
  <1>8. RefsFollow'
    <2> SUFFICES ASSUME "gap" \notin marks'
                 PROVE  /\ \A m \in Messages :
                             /\ Range(refs'[m]) \subseteq Range(comms')
                             /\ IsInjective(NameColumn(refs'[m]))
                        /\ ~outOfRange'
      BY DEF RefsFollow
    <2>1. ASSUME NEW m \in Messages
          PROVE  /\ Range(refs'[m]) \subseteq Range(comms')
                 /\ IsInjective(NameColumn(refs'[m]))
      <3>1. /\ Range(refs[m]) \subseteq Range(comms)
            /\ IsInjective(NameColumn(refs[m]))
        BY <1>5 DEF CommInv, RefsFollow
      <3>2. /\ Range(refs'[m]) = {r \in Range(refs[m]) : r.name # comms[found].name}
            /\ IsInjective(NameColumn(refs'[m]))
        BY <1>1, <1>2, <3>1, ForgottenRefs
      <3>3. ASSUME NEW r \in Range(refs'[m]) PROVE r \in Range(comms')
        <4>1. r \in Range(comms) /\ r.name # comms[found].name
          BY <3>1, <3>2
        <4>2. PICK k \in DOMAIN comms : r = comms[k]
          BY <4>1 DEF Range
        <4>3. k \in DOMAIN comms'
          BY <1>1, <1>2, <1>5, <4>1, <4>2, Shapes
        <4> QED
          BY <1>5, <4>2, <4>3 DEF Range
      <3> QED
        BY <3>2, <3>3
    <2> QED
      BY <1>2, <1>5, <2>1 DEF CommInv, RefsFollow
  <1> QED
    BY <1>4, <1>6, <1>7, <1>8 DEF CommInv

\* What renaming does when the id is a row at all.
LEMMA RenamedRow ==
  ASSUME TypeOK, NEW row \in DOMAIN comms, NEW name \in Names, Rename(row, name),
         ~(comms[row].id + 1 > Len(comms))
  PROVE  /\ comms' \in Seq(Comm) /\ Len(comms') = Len(comms)
         /\ DOMAIN comms' = DOMAIN comms
         /\ comms[row].id + 1 \in DOMAIN comms
         /\ \A k \in DOMAIN comms : comms'[k].id = comms[k].id
         /\ \/ comms' = comms
            \/ /\ comms'[comms[row].id + 1].name = name
               /\ \A k \in DOMAIN comms :
                    k # comms[row].id + 1 =>
                      comms[k].name # name /\ comms'[k] = comms[k]
         /\ refs' = Followed(comms', comms[row].id)
         /\ UNCHANGED <<outOfRange, marks>>
  <1> DEFINE at == comms[row].id + 1
             taken == \E k \in DOMAIN comms : k # at /\ comms[k].name = name
  <1>1. at \in DOMAIN comms
    BY Shapes
  <1>2. /\ comms' = IF taken THEN comms ELSE [comms EXCEPT ![at].name = name]
        /\ refs' = Followed(comms', comms[row].id)
        /\ UNCHANGED <<outOfRange, marks>>
    BY DEF Rename
  <1> HIDE DEF at
  <1>3. CASE taken
    BY <1>1, <1>2, <1>3, Shapes DEF at
  <1>4. CASE ~taken
    <2>1. comms[at] \in Comm
      BY <1>1, Shapes
    <2>2. [comms[at] EXCEPT !.name = name] \in Comm
      BY <2>1 DEF Comm
    <2>3. /\ [comms[at] EXCEPT !.name = name].id = comms[at].id
          /\ [comms[at] EXCEPT !.name = name].name = name
      BY <2>1 DEF Comm
    <2>4. /\ comms' \in Seq(Comm) /\ Len(comms') = Len(comms)
          /\ DOMAIN comms' = DOMAIN comms
          /\ comms'[at] = [comms[at] EXCEPT !.name = name]
          /\ \A k \in DOMAIN comms : k # at => comms'[k] = comms[k]
      BY <1>1, <1>2, <1>4, <2>2, Shapes
    <2> QED
      BY <1>1, <1>2, <1>4, <2>3, <2>4 DEF at
  <1> QED
    BY <1>3, <1>4

LEMMA RenameKeeps ==
  ASSUME CommInv, NEW row \in DOMAIN comms, NEW name \in Names, Rename(row, name)
  PROVE  CommInv'
  <1> DEFINE id == comms[row].id
  <1>1. TypeOK
    BY DEF CommInv
  <1>2. "gap" \notin marks => id + 1 = row
    BY <1>1, Shapes DEF CommInv, IdIsRow
  <1>3. CASE id + 1 > Len(comms)
    <2>1. outOfRange' = TRUE /\ UNCHANGED <<comms, refs, marks>>
      BY <1>3 DEF Rename
    <2>2. "gap" \in marks
      BY <1>1, <1>2, <1>3, Shapes
    <2> QED
      BY <2>1, <2>2 DEF CommInv, TypeOK, IdIsRow, NamesDiffer, RefsFollow
  <1>4. CASE ~(id + 1 > Len(comms))
    <2>1. /\ comms' \in Seq(Comm) /\ Len(comms') = Len(comms)
          /\ DOMAIN comms' = DOMAIN comms
          /\ id + 1 \in DOMAIN comms
          /\ \A k \in DOMAIN comms : comms'[k].id = comms[k].id
          /\ \/ comms' = comms
             \/ /\ comms'[id + 1].name = name
                /\ \A k \in DOMAIN comms :
                     k # id + 1 => comms[k].name # name /\ comms'[k] = comms[k]
          /\ refs' = Followed(comms', id)
          /\ UNCHANGED <<outOfRange, marks>>
      BY <1>1, <1>4, RenamedRow
    <2>2. \E k \in DOMAIN comms' : comms'[k].id = id
      BY <2>1
    <2> HIDE DEF id
    <2>3. ASSUME NEW m \in Messages
          PROVE  /\ refs'[m] \in Seq(Comm)
                 /\ DOMAIN refs'[m] = DOMAIN refs[m]
                 /\ NameOf(comms', id) \in
                      {comms'[k].name : k \in {l \in DOMAIN comms' : comms'[l].id = id}}
                 /\ \A i \in DOMAIN refs[m] :
                      refs'[m][i] = IF i = RowOfId(refs[m], id)
                                    THEN [id |-> id, name |-> NameOf(comms', id)]
                                    ELSE refs[m][i]
      <3> DEFINE now == comms'
      <3>1. now \in Seq(Comm) /\ \E k \in DOMAIN now : now[k].id = id
        BY <2>1, <2>2
      <3>2. refs' = Followed(now, id)
        BY <2>1
      <3> HIDE DEF now
      <3>3. /\ refs'[m] \in Seq(Comm)
            /\ DOMAIN refs'[m] = DOMAIN refs[m]
            /\ NameOf(now, id) \in
                 {now[k].name : k \in {l \in DOMAIN now : now[l].id = id}}
            /\ \A i \in DOMAIN refs[m] :
                 refs'[m][i] = IF i = RowOfId(refs[m], id)
                               THEN [id |-> id, name |-> NameOf(now, id)]
                               ELSE refs[m][i]
        BY <1>1, <3>1, <3>2, FollowedRefs
      <3> QED
        BY <3>3 DEF now
    <2>4. TypeOK'
      <3>1. refs' = [m \in Messages |-> refs'[m]]
        BY <2>1 DEF Followed
      <3> QED
        BY <1>1, <2>1, <2>3, <3>1, Shapes DEF TypeOK
    <2>5. IdIsRow'
      BY <2>1 DEF IdIsRow, CommInv
    <2>6. NamesDiffer'
      BY <2>1 DEF NamesDiffer, CommInv, IsInjective, NameColumn
    <2>7. RefsFollow'
      <3> SUFFICES ASSUME "gap" \notin marks, NEW m \in Messages
                   PROVE  /\ Range(refs'[m]) \subseteq Range(comms')
                          /\ IsInjective(NameColumn(refs'[m]))
        BY <2>1 DEF RefsFollow, CommInv
      <3>1. /\ id + 1 = row /\ id = comms[row].id
            /\ \A k \in DOMAIN comms : comms[k].id = k - 1
        BY <1>2 DEF CommInv, IdIsRow, id
      <3>2. /\ \A i \in DOMAIN refs[m] : \E j \in DOMAIN comms : refs[m][i] = comms[j]
            /\ \A i, j \in DOMAIN refs[m] : refs[m][i].name = refs[m][j].name => i = j
        <4>1. Range(refs[m]) \subseteq Range(comms) /\ IsInjective(NameColumn(refs[m]))
          BY DEF CommInv, RefsFollow
        <4>2. \A i \in DOMAIN refs[m] : \E j \in DOMAIN comms : refs[m][i] = comms[j]
          BY <4>1, Zenon DEF Range
        <4> QED
          BY <4>1, <4>2 DEF IsInjective, NameColumn
      <3>3. NameOf(comms', id) = comms'[row].name
        <4>1. PICK k \in DOMAIN comms' : comms'[k].id = id /\ NameOf(comms', id) = comms'[k].name
          BY <2>3
        <4>2. k - 1 = row - 1 /\ k \in 1 .. Len(comms)
          BY <1>1, <2>1, <3>1, <4>1, Shapes
        <4> QED
          BY <1>1, <4>1, <4>2, Shapes
      <3>4. comms'[row] = [id |-> id, name |-> NameOf(comms', id)]
        <4>1. comms'[row] \in Comm /\ comms'[row].id = id
          BY <2>1, <3>1
        <4> QED
          BY <3>3, <4>1 DEF Comm
      <3>5. ASSUME NEW i \in DOMAIN refs[m], NEW j \in DOMAIN comms, refs[m][i] = comms[j]
            PROVE  refs'[m][i] = comms'[j]
        <4> DEFINE k == RowOfId(refs[m], id)
        <4>1. /\ k = 0 => \A l \in DOMAIN refs[m] : refs[m][l].id # id
              /\ k # 0 => k \in DOMAIN refs[m] /\ refs[m][k].id = id
          BY <1>1, FoundById, Shapes
        <4> HIDE DEF k
        <4>2. CASE j = row
          <5>1. refs[m][i].id = id /\ k # 0
            BY <3>1, <3>5, <4>1, <4>2
          <5>2. PICK l \in DOMAIN comms : refs[m][k] = comms[l]
            BY <3>2, <4>1, <5>1
          <5>3. l - 1 = row - 1 /\ l \in 1 .. Len(comms) /\ row \in 1 .. Len(comms)
            BY <1>1, <3>1, <4>1, <5>1, <5>2, Shapes
          <5>4. refs[m][k] = refs[m][i]
            BY <3>5, <4>2, <5>2, <5>3
          <5>5. k = i
            BY <3>2, <4>1, <5>1, <5>4
          <5> QED
            BY <2>3, <3>4, <4>2, <5>5 DEF k
        <4>3. CASE j # row
          <5>1. refs[m][i].id # id
            <6>1. comms[j].id = j - 1 /\ id = row - 1 /\ j \in 1 .. Len(comms)
                  /\ row \in 1 .. Len(comms)
              BY <1>1, <3>1, Shapes
            <6> QED
              BY <3>5, <4>3, <6>1
          <5>2. i # k
            BY <1>1, <4>1, <5>1, Shapes
          <5>3. refs'[m][i] = refs[m][i]
            BY <2>3, <5>2 DEF k
          <5>4. comms'[j] = comms[j]
            BY <2>1, <3>1, <4>3
          <5> QED
            BY <3>5, <5>3, <5>4
        <4> QED
          BY <4>2, <4>3
      <3>6. Range(refs'[m]) \subseteq Range(comms')
        BY <2>1, <2>3, <3>2, <3>5 DEF Range
      <3>7. ASSUME NEW i \in DOMAIN refs[m], NEW j \in DOMAIN refs[m],
                   refs'[m][i].name = refs'[m][j].name
            PROVE  i = j
        <4>1. PICK a \in DOMAIN comms : refs[m][i] = comms[a]
          BY <3>2
        <4>2. PICK b \in DOMAIN comms : refs[m][j] = comms[b]
          BY <3>2
        <4>3. refs'[m][i] = comms'[a] /\ refs'[m][j] = comms'[b]
          BY <3>5, <4>1, <4>2
        <4>4. a = b \/ comms[a].name = comms[b].name
          BY <2>1, <3>7, <4>3
        <4> QED
          BY <3>2, <4>1, <4>2, <4>4
      <3> QED
        BY <2>3, <3>6, <3>7 DEF IsInjective, NameColumn
    <2> QED
      BY <2>4, <2>5, <2>6, <2>7 DEF CommInv
  <1> QED
    BY <1>3, <1>4

\* What the dialog of a message saves.
LEMMA ChooseKeeps ==
  ASSUME CommInv, NEW m \in Messages, NEW checked \in SUBSET NamesOf(comms),
         Choose(m, checked)
  PROVE  CommInv'
  <1> DEFINE last == SetToSeq(checked)
             n == Cardinality(checked)
             new == [k \in DOMAIN last |-> comms[RowOfName(comms, last[k])]]
  <1>1. TypeOK
    BY DEF CommInv
  <1>2. n \in Nat /\ last \in [1 .. n -> checked] /\ IsInjective(last)
    <2>1. IsFiniteSet(NamesOf(comms))
      BY <1>1, NamesFinite, Shapes
    <2>2. IsFiniteSet(checked)
      BY <2>1, FS_Subset
    <2> QED
      BY <2>2, InOrder
  <1>3. refs' = [refs EXCEPT ![m] = new] /\ UNCHANGED <<comms, outOfRange, marks>>
    BY DEF Choose
  <1> HIDE DEF last, n
  <1>4. \A k \in 1 .. n : /\ RowOfName(comms, last[k]) \in DOMAIN comms
                          /\ comms[RowOfName(comms, last[k])].name = last[k]
    <2> SUFFICES ASSUME NEW k \in 1 .. n
                 PROVE  /\ RowOfName(comms, last[k]) \in DOMAIN comms
                        /\ comms[RowOfName(comms, last[k])].name = last[k]
      OBVIOUS
    <2>1. \E l \in DOMAIN comms : comms[l].name = last[k]
      BY <1>2 DEF NamesOf
    <2> QED
      BY <1>1, <2>1, FoundByName, Shapes
  <1>5. /\ DOMAIN new = 1 .. n
        /\ \A k \in 1 .. n : /\ new[k] \in Range(comms) /\ new[k] \in Comm
                             /\ new[k].name = last[k]
    BY <1>1, <1>2, <1>4, Shapes DEF Range
  <1>6. new \in Seq(Comm)
    <2>1. new = [k \in 1 .. n |-> new[k]]
      BY <1>2
    <2> HIDE DEF new
    <2> QED
      BY <1>2, <1>5, <2>1
  <1> HIDE DEF new
  <1>7. Range(new) \subseteq Range(comms) /\ IsInjective(NameColumn(new))
    <2>1. Range(new) \subseteq Range(comms)
      BY <1>5 DEF Range
    <2>2. \A i, j \in DOMAIN new : new[i].name = new[j].name => i = j
      BY <1>2, <1>5 DEF IsInjective
    <2> QED
      BY <2>1, <2>2 DEF IsInjective, NameColumn
  <1>8. /\ refs' \in [Messages -> Seq(Comm)] /\ refs'[m] = new
        /\ \A other \in Messages : other # m => refs'[other] = refs[other]
    BY <1>1, <1>3, <1>6 DEF TypeOK
  <1>9. TypeOK'
    BY <1>1, <1>3, <1>8 DEF TypeOK
  <1>10. RefsFollow'
    BY <1>3, <1>7, <1>8 DEF RefsFollow, CommInv
  <1> QED
    BY <1>3, <1>9, <1>10 DEF CommInv, IdIsRow, NamesDiffer

\* The list that comes back sorted by id is the list that was saved, as long as
\* the ids are the rows.
LEMMA ReopenKeeps ==
  ASSUME CommInv, Reopen
  PROVE  CommInv' /\ ("gap" \notin marks => comms' = comms)
  <1> DEFINE n == Len(comms)
  <1>1. TypeOK
    BY DEF CommInv
  <1>2. comms \in Seq(Comm) /\ n \in Nat /\ DOMAIN comms = 1 .. n
    BY <1>1, Shapes
  <1>3. PICK p \in Bijection(1 .. n, 1 .. n) : comms' = [k \in 1 .. n |-> comms[p[k]]]
    <2>1. comms' \in {[k \in DOMAIN comms |-> comms[p[k]]] :
                        p \in Bijection(DOMAIN comms, DOMAIN comms)}
      BY DEF Reopen
    <2> HIDE DEF n
    <2> QED
      BY <1>2, <2>1
  <1>4. \A k \in 1 .. n - 1 : comms'[k].id <= comms'[k + 1].id
    BY DEF Reopen
  <1>5. UNCHANGED <<refs, outOfRange, marks>>
    BY DEF Reopen
  <1>6. /\ p \in [1 .. n -> 1 .. n]
        /\ \A i, j \in 1 .. n : p[i] = p[j] => i = j
    BY <1>3 DEF Bijection, Injection, IsInjective
  <1> HIDE DEF n
  <1>7. comms' \in Seq(Comm) /\ Len(comms') = n /\ DOMAIN comms' = 1 .. n
    BY <1>2, <1>3, <1>6
  <1>8. TypeOK'
    BY <1>1, <1>5, <1>7 DEF TypeOK, n
  <1>9. ASSUME "gap" \notin marks PROVE comms' = comms
    <2>1. \A k \in 1 .. n : comms'[k] = comms[p[k]] /\ comms'[k].id = p[k] - 1
      BY <1>2, <1>3, <1>6, <1>9 DEF CommInv, IdIsRow
    <2>2. \A k \in 1 .. n - 1 : p[k] < p[k + 1]
      <3> SUFFICES ASSUME NEW k \in 1 .. n - 1 PROVE p[k] < p[k + 1]
        OBVIOUS
      <3>1. k \in 1 .. n /\ k + 1 \in 1 .. n
        BY <1>2
      <3>2. p[k] - 1 <= p[k + 1] - 1
        BY <1>4, <2>1, <3>1
      <3>3. p[k] # p[k + 1]
        BY <1>6, <3>1
      <3> QED
        BY <1>6, <3>1, <3>2, <3>3
    <2>3. \A k \in 1 .. n : p[k] >= k
      <3> DEFINE P == {k \in 1 .. n : p[k] >= k}
      <3>1. n > 0 => 1 \in P
        BY <1>2, <1>6
      <3>2. ASSUME NEW i \in 2 .. n, i - 1 \in P PROVE i \in P
        <4>1. i - 1 \in 1 .. n - 1 /\ (i - 1) + 1 = i /\ i \in 1 .. n
          BY <1>2
        <4>2. p[i - 1] < p[i] /\ p[i - 1] >= i - 1
          BY <2>2, <3>2, <4>1
        <4>3. p[i] \in 1 .. n /\ p[i - 1] \in 1 .. n
          BY <1>2, <1>6, <4>1
        <4>4. p[i] >= i
          BY <4>2, <4>3
        <4> QED
          BY <4>1, <4>4
      <3> HIDE DEF P
      <3>3. \A i \in 1 .. n : i \in P
        BY <1>2, <3>1, <3>2, UpTo
      <3> QED
        BY <3>3 DEF P
    <2>4. \A k \in 1 .. n : p[n + 1 - k] <= n + 1 - k
      <3> DEFINE P == {k \in 1 .. n : p[n + 1 - k] <= n + 1 - k}
      <3>1. n > 0 => 1 \in P
        BY <1>2, <1>6
      <3>2. ASSUME NEW i \in 2 .. n, i - 1 \in P PROVE i \in P
        <4>1. /\ n + 1 - i \in 1 .. n - 1 /\ (n + 1 - i) + 1 = n + 1 - (i - 1)
              /\ i \in 1 .. n /\ n + 1 - i \in 1 .. n /\ n + 1 - (i - 1) \in 1 .. n
          BY <1>2
        <4>2. p[n + 1 - i] < p[n + 1 - (i - 1)] /\ p[n + 1 - (i - 1)] <= n + 1 - (i - 1)
          BY <2>2, <3>2, <4>1
        <4> QED
          BY <1>2, <1>6, <4>1, <4>2
      <3> HIDE DEF P
      <3>3. \A i \in 1 .. n : i \in P
        BY <1>2, <3>1, <3>2, UpTo
      <3> QED
        BY <3>3 DEF P
    <2>5. \A k \in 1 .. n : p[k] = k
      <3> SUFFICES ASSUME NEW k \in 1 .. n PROVE p[k] = k
        OBVIOUS
      <3>1. n + 1 - k \in 1 .. n /\ n + 1 - (n + 1 - k) = k
        BY <1>2
      <3>2. p[k] <= k
        BY <2>4, <3>1
      <3> QED
        BY <1>6, <2>3, <3>2
    <2> QED
      BY <1>2, <1>7, <2>1, <2>5
  <1>10. IdIsRow' /\ RefsFollow'
    BY <1>5, <1>9 DEF CommInv, IdIsRow, RefsFollow
  <1>11. NamesDiffer'
    BY <1>5, <1>9 DEF CommInv, NamesDiffer
  <1> QED
    BY <1>8, <1>9, <1>10, <1>11 DEF CommInv

\* Together.
LEMMA NextKeeps == CommInv /\ [Next]_vars => CommInv'
  <1> SUFFICES ASSUME CommInv, [Next]_vars PROVE CommInv'
    OBVIOUS
  <1>1. CASE UNCHANGED vars
    BY <1>1 DEF vars, CommInv, TypeOK, IdIsRow, NamesDiffer, RefsFollow
  <1> QED
    BY <1>1, AddKeeps, RemoveKeeps, RenameKeeps, ChooseKeeps, ReopenKeeps DEF Next

LEMMA InitHolds == Init => CommInv
  <1> SUFFICES ASSUME Init PROVE CommInv
    OBVIOUS
  <1>1. /\ comms = <<>> /\ comms \in Seq(Comm) /\ Len(comms) = 0 /\ DOMAIN comms = {}
        /\ <<>> \in Seq(Comm) /\ DOMAIN <<>> = {}
    BY DEF Init
  <1>2. \A m \in Messages : refs[m] = <<>>
    BY DEF Init
  <1>3. TypeOK
    <2>1. refs = [m \in Messages |-> <<>>] /\ outOfRange = FALSE /\ marks = {}
      BY DEF Init
    <2>2. refs \in [Messages -> Seq(Comm)]
      BY <1>1, <2>1
    <2> QED
      <3>1. Len(comms) <= MaxComms
        BY <1>1
      <3>2. outOfRange \in BOOLEAN /\ marks \subseteq Marks
        BY <2>1
      <3> QED
        BY <1>1, <2>2, <3>1, <3>2 DEF TypeOK
  <1>4. RefsFollow
    BY <1>1, <1>2 DEF Init, RefsFollow, Range, IsInjective, NameColumn
  <1> QED
    BY <1>1, <1>3, <1>4 DEF CommInv, IdIsRow, NamesDiffer, IsInjective, NameColumn

LEMMA Always == Spec => []CommInv
  BY InitHolds, NextKeeps, PTL DEF Spec

----------------------------------------------------------------------------
(* What a step does to the references of a message *)

LEMMA RemoveStays ==
  ASSUME CommInv, marks' = {}, NEW row \in DOMAIN comms, RemoveCommunication(row),
         NEW m \in Messages
  PROVE  IdsOf(refs'[m]) = IdsOf(refs[m]) \cap IdsOf(comms')
  <1>1. TypeOK
    BY DEF CommInv
  <1>2. PICK found \in DOMAIN comms :
           /\ DOMAIN comms' = 1 .. Len(comms) - 1
           /\ \A i \in 1 .. Len(comms) - 1 :
                comms'[i] = IF i < found THEN comms[i] ELSE comms[i + 1]
           /\ refs' = Forgotten(comms[found].name)
           /\ marks' = marks \cup (IF found < Len(comms) THEN {"gap"} ELSE {})
    BY <1>1, RemovedRow
  <1>3. /\ marks = {} /\ found = Len(comms)
        /\ \A i \in DOMAIN comms' : comms'[i] = comms[i] /\ i \in DOMAIN comms
        /\ \A i \in DOMAIN comms : i \in DOMAIN comms' <=> i # found
    <2>1. marks = {} /\ ~(found < Len(comms))
      BY <1>2
    <2>2. found = Len(comms)
      BY <1>1, <2>1, Shapes
    <2>3. \A i \in DOMAIN comms' : comms'[i] = comms[i] /\ i \in DOMAIN comms
      BY <1>1, <1>2, <2>2, Shapes
    <2>4. \A i \in DOMAIN comms : i \in DOMAIN comms' <=> i # found
      BY <1>1, <1>2, <2>2, Shapes
    <2> QED
      BY <2>1, <2>2, <2>3, <2>4
  <1>4. /\ \A i, j \in DOMAIN comms : comms[i].name = comms[j].name => i = j
        /\ \A i, j \in DOMAIN comms : comms[i].id = comms[j].id => i = j
    <2>1. \A i, j \in DOMAIN comms : comms[i].name = comms[j].name => i = j
      BY <1>3 DEF CommInv, NamesDiffer, IsInjective, NameColumn
    <2>2. \A i \in DOMAIN comms : comms[i].id = i - 1
      BY <1>3 DEF CommInv, IdIsRow
    <2> QED
      BY <1>1, <2>1, <2>2, Shapes
  <1>5. Range(refs[m]) \subseteq Range(comms) /\ IsInjective(NameColumn(refs[m]))
    BY <1>3 DEF CommInv, RefsFollow
  <1>6. Range(refs'[m]) = {r \in Range(refs[m]) : r.name # comms[found].name}
    BY <1>1, <1>2, <1>5, ForgottenRefs
  <1>7. \A s : IdsOf(s) = {r.id : r \in Range(s)}
    BY DEF IdsOf, Range
  <1>8. \A r \in Range(refs[m]) :
          r.name # comms[found].name <=> r.id \in IdsOf(comms')
    <2> SUFFICES ASSUME NEW r \in Range(refs[m])
                 PROVE  r.name # comms[found].name <=> r.id \in IdsOf(comms')
      OBVIOUS
    <2>1. PICK k \in DOMAIN comms : r = comms[k]
      BY <1>5 DEF Range
    <2>2. r.name # comms[found].name <=> k # found
      BY <1>4, <2>1
    <2>3. r.id \in IdsOf(comms') <=> k \in DOMAIN comms'
      BY <1>3, <1>4, <2>1 DEF IdsOf
    <2> QED
      BY <1>3, <2>2, <2>3
  <1> QED
    BY <1>6, <1>7, <1>8

LEMMA StepStays ==
  ASSUME CommInv, marks' = {}, [Next]_vars, NEW m \in Messages
  PROVE  \/ IdsOf(refs'[m]) = IdsOf(refs[m]) \cap IdsOf(comms')
         \/ \E checked \in SUBSET NamesOf(comms) : Choose(m, checked)
  <1>0. TypeOK
    BY DEF CommInv
  <1>1. "gap" \notin marks => IdsOf(refs[m]) \subseteq IdsOf(comms)
    BY DEF CommInv, RefsFollow, IdsOf, Range
  <1>2. CASE AddCommunication
    <2>1. "gap" \notin marks /\ refs' = refs
      BY <1>2 DEF AddCommunication
    <2>2. IdsOf(comms) \subseteq IdsOf(comms')
      <3>1. comms' = Append(comms, [id |-> NewId, name |-> Default(NewId)])
        BY <1>2 DEF AddCommunication
      <3>2. \A k \in DOMAIN comms : k \in DOMAIN comms' /\ comms'[k] = comms[k]
        BY <1>0, <3>1, Shapes
      <3> QED
        BY <3>2 DEF IdsOf
    <2> QED
      BY <1>1, <2>1, <2>2
  <1>3. ASSUME NEW row \in DOMAIN comms, RemoveCommunication(row)
        PROVE  IdsOf(refs'[m]) = IdsOf(refs[m]) \cap IdsOf(comms')
    BY <1>3, RemoveStays
  <1>4. ASSUME NEW row \in DOMAIN comms, NEW name \in Names, Rename(row, name)
        PROVE  IdsOf(refs'[m]) = IdsOf(refs[m]) \cap IdsOf(comms')
    <2>1. CASE comms[row].id + 1 > Len(comms)
      BY <1>1, <1>4, <2>1 DEF Rename
    <2>2. CASE ~(comms[row].id + 1 > Len(comms))
      <3> DEFINE now == comms'
                 id == comms[row].id
      <3>1. /\ now \in Seq(Comm) /\ DOMAIN now = DOMAIN comms
            /\ \A k \in DOMAIN comms : now[k].id = comms[k].id
            /\ refs' = Followed(now, id)
            /\ UNCHANGED marks
        BY <1>0, <1>4, <2>2, RenamedRow
      <3>2. \E k \in DOMAIN now : now[k].id = id
        BY <3>1
      <3>3. IdsOf(now) = IdsOf(comms)
        BY <3>1 DEF IdsOf
      <3> HIDE DEF now, id
      <3>4. /\ DOMAIN refs'[m] = DOMAIN refs[m]
            /\ \A i \in DOMAIN refs[m] :
                 refs'[m][i] = IF i = RowOfId(refs[m], id)
                               THEN [id |-> id, name |-> NameOf(now, id)]
                               ELSE refs[m][i]
        BY <1>0, <3>1, <3>2, FollowedRefs
      <3>5. RowOfId(refs[m], id) # 0 => refs[m][RowOfId(refs[m], id)].id = id
        BY <1>0, FoundById, Shapes
      <3>6. \A i \in DOMAIN refs[m] : refs'[m][i].id = refs[m][i].id
        <4>1. \A i \in DOMAIN refs[m] : i # 0
          BY <1>0, Shapes
        <4> QED
          BY <3>4, <3>5, <4>1
      <3>7. IdsOf(refs'[m]) = IdsOf(refs[m])
        BY <3>4, <3>6 DEF IdsOf
      <3> QED
        BY <1>1, <3>1, <3>3, <3>7 DEF now
    <2> QED
      BY <2>1, <2>2
  <1>5. ASSUME NEW other \in Messages, NEW checked \in SUBSET NamesOf(comms),
               Choose(other, checked)
        PROVE  \/ IdsOf(refs'[m]) = IdsOf(refs[m]) \cap IdsOf(comms')
               \/ Choose(m, checked)
    <2>1. CASE other = m
      BY <1>5, <2>1
    <2>2. CASE other # m
      <3>1. refs'[m] = refs[m] /\ comms' = comms /\ marks' = marks
        BY <1>0, <1>5, <2>2 DEF Choose, TypeOK
      <3> QED
        BY <1>1, <3>1
    <2> QED
      BY <2>1, <2>2
  <1>6. CASE Reopen
    <2>1. refs' = refs /\ marks' = marks
      BY <1>6 DEF Reopen
    <2>2. comms' = comms
      BY <1>6, <2>1, ReopenKeeps
    <2> QED
      BY <1>1, <2>1, <2>2
  <1>7. CASE UNCHANGED vars
    BY <1>1, <1>7 DEF vars
  <1> QED
    BY <1>2, <1>3, <1>4, <1>5, <1>6, <1>7 DEF Next

----------------------------------------------------------------------------
(* The theorems *)

\* The lists and the references keep their shape, whatever is removed.
THEOREM TypeCorrect == Spec => []TypeOK
  <1>1. CommInv => TypeOK
    BY DEF CommInv
  <1> QED
    BY <1>1, Always, PTL

\* While only the last communication is ever removed, a message refers to
\* communications of the list, by id and by name, to each name once, and no
\* renaming is out of range.
THEOREM ReferencesFollow == Spec => []RefsFollow
  <1>1. CommInv => RefsFollow
    BY DEF CommInv
  <1> QED
    BY <1>1, Always, PTL

\* If no name is given twice either, a message loses a reference only with the
\* communication it refers to, or in its own dialog.
THEOREM ReferencesStay == Spec => RefsStay
  <1> DEFINE A ==
        marks' = {} =>
          \A m \in Messages :
            \/ IdsOf(refs'[m]) = IdsOf(refs[m]) \cap IdsOf(comms')
            \/ \E checked \in SUBSET NamesOf(comms) : Choose(m, checked)
  <1>1. CommInv /\ [Next]_vars => [A]_vars
    BY StepStays
  <1>2. RefsStay <=> [][A]_vars
    BY DEF RefsStay
  <1> QED
    BY <1>1, <1>2, Always, PTL DEF Spec
============================================================================
