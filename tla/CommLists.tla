------------------------------ MODULE CommLists ------------------------------
(***************************************************************************)
(* The communications and the messages that refer to them                  *)
(* (CommunicationList, MessageList), as the communications table and the   *)
(* dialog of a message's communications edit them.                         *)
(*                                                                         *)
(* A communication has an id, given from the size of the list, a row, and  *)
(* a name.  The table removes by id, renames by an id that is used as a    *)
(* row, the messages follow a removal by name and a renaming by id.        *)
(***************************************************************************)
EXTENDS Integers, FiniteSets, Sequences, SequencesExt

CONSTANTS
  Messages,   \* rows of the message table
  Typed,      \* names a user types, beside the default ones
  MaxComms    \* bound: communications in the list

ASSUME MaxCommsIsNat == MaxComms \in Nat

VARIABLES
  comms,    \* the communications by row (rows count from 1, ids from 0)
  refs,     \* message -> its references to communications
  outOfRange, \* communications_.at has thrown: the program ends
  marks     \* what the user has done so far (for the properties)

vars == <<comms, refs, outOfRange, marks>>

Ids == 0 .. MaxComms
Default(id) == id        \* stands for "Communication_<id>"
Names == Ids \cup Typed
Comm == [id : Ids, name : Names]
Marks == {"gap", "clash"}

NameColumn(s) == [k \in DOMAIN s |-> s[k].name]
NamesOf(s) == {s[k].name : k \in DOMAIN s}
IdsOf(s) == {s[k].id : k \in DOMAIN s}
First(rows) == IF rows = {} THEN 0 ELSE Min(rows)
RowOfId(s, id) == First({k \in DOMAIN s : s[k].id = id})
RowOfName(s, name) == First({k \in DOMAIN s : s[k].name = name})

TypeOK ==
  /\ comms \in Seq(Comm) /\ Len(comms) <= MaxComms
  /\ refs \in [Messages -> Seq(Comm)]
  /\ outOfRange \in BOOLEAN
  /\ marks \subseteq Marks

----------------------------------------------------------------------------
Init ==
  /\ comms = <<>>
  /\ refs = [m \in Messages |-> <<>>]
  /\ outOfRange = FALSE
  /\ marks = {}

\* The id is the size of the list, whatever ids are in it; the other form is
\* what addCommunication returns.
IdFromLast == Len(comms) - 1
NewId == Len(comms)

AddCommunication ==
  /\ Len(comms) < MaxComms
  /\ LET id == NewId
     IN  /\ comms' = Append(comms, [id |-> id, name |-> Default(id)])
         /\ marks' = marks \cup IF Default(id) \in NamesOf(comms) THEN {"clash"}
                                                                  ELSE {}
  /\ UNCHANGED <<refs, outOfRange>>

\* The other form of Forgotten: the slot is not connected.
NotForgotten(name) == refs

\* The slot of the message list: each message loses its first reference with
\* that name.
Forgotten(name) ==
  [m \in Messages |->
     LET k == RowOfName(refs[m], name)
     IN  IF k = 0 THEN refs[m] ELSE RemoveAt(refs[m], k)]

\* Facade::removeCommunication takes a row, CommunicationList's an id.
RemoveCommunication(row) ==
  LET id == comms[row].id
      found == RowOfId(comms, id)
  IN  /\ comms' = RemoveAt(comms, found)
      /\ refs' = Forgotten(comms[found].name)
      /\ marks' = marks \cup IF found < Len(comms) THEN {"gap"} ELSE {}
      /\ UNCHANGED outOfRange

\* CommunicationList::communicationName
NameOf(s, id) == s[RowOfId(s, id)].name

\* The other form of Followed looks for the new name, not for the id.
FollowedByName(s, id) ==
  [m \in Messages |->
     LET k == RowOfName(refs[m], NameOf(s, id))
     IN  IF k = 0 THEN refs[m] ELSE [refs[m] EXCEPT ![k].name = NameOf(s, id)]]

\* The other slot: each message's first reference with that id gets the name.
Followed(s, id) ==
  [m \in Messages |->
     LET k == RowOfId(refs[m], id)
     IN  IF k = 0 THEN refs[m] ELSE [refs[m] EXCEPT ![k].name = NameOf(s, id)]]

\* CommunicationModel::setData passes the id of the row, updateCommunication
\* takes it for the row.  A name another communication has is refused, and the
\* update announced all the same.
Rename(row, name) ==
  LET id == comms[row].id
      at == id + 1
      taken == \E k \in DOMAIN comms : k # at /\ comms[k].name = name
      renamed == IF taken THEN comms ELSE [comms EXCEPT ![at].name = name]
  IN  IF at > Len(comms)
      THEN outOfRange' = TRUE /\ UNCHANGED <<comms, refs, marks>>
      ELSE /\ comms' = renamed
           /\ refs' = Followed(renamed, id)
           /\ UNCHANGED <<outOfRange, marks>>

\* MsgCommDialog, Save: the names that are checked (in a fixed order), each with
\* the id of the first communication of that name; the names as they were are
\* not saved again.
Choose(m, checked) ==
  LET last == SetToSeq(checked)
  IN  /\ last # NameColumn(refs[m]) \/ last = <<>>
      /\ refs' = [refs EXCEPT ![m] =
           [k \in DOMAIN last |-> comms[RowOfName(comms, last[k])]]]
      /\ UNCHANGED <<comms, outOfRange, marks>>

\* The project is saved, cleared and restored: the list comes back sorted by id
\* (std::sort, which may exchange equal ids).
Reopen ==
  /\ comms' \in {[k \in DOMAIN comms |-> comms[p[k]]] :
                   p \in Bijection(DOMAIN comms, DOMAIN comms)}
  /\ \A k \in 1 .. Len(comms) - 1 : comms'[k].id <= comms'[k + 1].id
  /\ UNCHANGED <<refs, outOfRange, marks>>

Next ==
  /\ ~outOfRange
  /\ \/ AddCommunication
     \/ \E row \in DOMAIN comms : RemoveCommunication(row)
     \/ \E row \in DOMAIN comms, name \in Names : Rename(row, name)
     \/ \E m \in Messages, checked \in SUBSET NamesOf(comms) : Choose(m, checked)
     \/ Reopen

Spec == Init /\ [][Next]_vars

----------------------------------------------------------------------------
\* As long as only the last communication is ever removed, what a message refers
\* to is a communication of the list, by id and by name, and each name once, even
\* when two communications have one name (a default name the user had typed
\* before): the slot that follows names and the one that follows ids agree, and
\* renaming finds its row (MessageList's slots, updateCommunication).
RefsFollow ==
  "gap" \notin marks =>
    /\ \A m \in Messages :
         Range(refs[m]) \subseteq Range(comms) /\ IsInjective(NameColumn(refs[m]))
    /\ ~outOfRange

\* If no name is given twice either, a message loses a reference only to the
\* communication that is removed or in its own dialog, and gains one only there:
\* nothing that is done to another communication touches it.
RefsStay ==
  [][ marks' = {} =>
        \A m \in Messages :
          \/ IdsOf(refs'[m]) = IdsOf(refs[m]) \cap IdsOf(comms')
          \/ \E checked \in SUBSET NamesOf(comms) : Choose(m, checked) ]_vars
=============================================================================
