-------------------------- MODULE HeartBeat_proofs --------------------------
(***************************************************************************)
(* A DSServer is inactive only after enough heartbeats without an answer,  *)
(* or after an answer that came in the middle of an increment.             *)
(***************************************************************************)
EXTENDS HeartBeat, TLAPS

----------------------------------------------------------------------------
(* The types *)

\* Counted stays within its bound and does not lose a count below it.
LEMMA CountedBounds ==
  ASSUME NEW n \in Nat
  PROVE  /\ Counted(n) \in 0 .. MAX_HEARD_COUNT + 1
         /\ Counted(n) <= n
         /\ n > MAX_HEARD_COUNT => Counted(n) > MAX_HEARD_COUNT
  BY CountAssumption DEF Counted

\* The larger of two counts is counted as the larger.
LEMMA CountedMonotone ==
  ASSUME NEW m \in Nat, NEW n \in Nat, m <= n
  PROVE  Counted(m) <= Counted(n)
  BY CountAssumption DEF Counted

\* The initial state has the types.
LEMMA TypeInit == Init => TypeOK
  <1> SUFFICES ASSUME Init PROVE TypeOK
    OBVIOUS
  <1>1. 0 \in 0 .. MAX_HEARD_COUNT + 1 /\ 0 \in 0 .. NServers
    BY CountAssumption, ServersAssumption
  <1>2. /\ [s \in Servers |-> 0] \in [Servers -> 0 .. MAX_HEARD_COUNT + 1]
        /\ [s \in Servers |-> TRUE] \in [Servers -> BOOLEAN]
        /\ [s \in Servers |-> FALSE] \in [Servers -> BOOLEAN]
    BY <1>1
  <1> QED
    BY <1>1, <1>2, Zenon DEF Init, TypeOK

\* Every step keeps the types.
LEMMA TypeStep == TypeOK /\ [Next]_vars => TypeOK'
  <1> SUFFICES ASSUME TypeOK, [Next]_vars PROVE TypeOK'
    OBVIOUS
  <1>0. 0 \in 0 .. MAX_HEARD_COUNT + 1 /\ NServers \in Nat /\ NServers > 0
    BY CountAssumption, ServersAssumption
  <1>1. ASSUME NEW start \in BOOLEAN, SetMonitor(start) PROVE TypeOK'
    BY <1>1 DEF TypeOK, SetMonitor, timer, network, history
  <1>2. CASE OnTimer
    BY <1>0, <1>2 DEF TypeOK, OnTimer, network, history
  <1>3. ASSUME NEW s \in Servers, Send(s) PROVE TypeOK'
    <2>1. Counted(unheard[s] + 1) \in 0 .. MAX_HEARD_COUNT + 1
      <3>1. unheard[s] \in Nat
        BY CountAssumption DEF TypeOK
      <3> QED
        BY <3>1, CountedBounds
    <2> QED
      BY <1>3, <2>1 DEF TypeOK, Send, Servers
  <1>4. ASSUME NEW s \in Servers, SendThrows(s) PROVE TypeOK'
    BY <1>0, <1>4 DEF TypeOK, SendThrows, network, history
  <1>5. ASSUME NEW s \in Servers, Load(s) PROVE TypeOK'
    BY <1>0, <1>5 DEF TypeOK, Load, network, history, Servers
  <1>6. ASSUME NEW s \in Servers, Store(s) PROVE TypeOK'
    <2>1. loaded \in Nat
      BY CountAssumption DEF TypeOK
    <2>2. Counted(loaded + 1) \in 0 .. MAX_HEARD_COUNT + 1
      BY <2>1, CountedBounds
    <2> QED
      BY <1>0, <1>6, <2>2 DEF TypeOK, Store, network, history, Servers
  <1>7. ASSUME NEW s \in Servers, Compare(s) PROVE TypeOK'
    <2>1. connected \in [Servers -> BOOLEAN]
      BY DEF TypeOK
    <2>2. [connected EXCEPT ![s] = FALSE] \in [Servers -> BOOLEAN]
      BY <2>1
    <2>3. connected' \in [Servers -> BOOLEAN]
      BY <1>7, <2>1, <2>2, Zenon DEF Compare
    <2>4. at' \in 0 .. NServers /\ step' = "send" /\ loaded' = 0
      BY <1>0, <1>7 DEF Compare, Servers
    <2>5. UNCHANGED <<needSend, beat, clearing, network, history>>
      BY <1>7, Zenon DEF Compare
    <2> QED
      BY <1>0, <2>3, <2>4, <2>5 DEF TypeOK, network, history
  <1>8. ASSUME NEW s \in Servers, ClearCount(s) PROVE TypeOK'
    <2>1. 1 \in 0 .. MAX_HEARD_COUNT + 1
      BY CountAssumption
    <2> QED
      BY <1>0, <1>8, <2>1 DEF TypeOK, ClearCount, ClearedCount, timer, Servers
  <1>9. ASSUME NEW s \in Servers, Connect(s) PROVE TypeOK'
    BY <1>0, <1>9 DEF TypeOK, Connect, Activated, timer, network, history, Servers
  <1>10. ASSUME NEW s \in Servers, Answer(s) \/ GoDown(s) \/ ComeBack(s) \/ Lose(s)
         PROVE  TypeOK'
    BY <1>10 DEF TypeOK, Answer, GoDown, ComeBack, Lose, timer, history
  <1>11. CASE UNCHANGED vars
    BY <1>11 DEF TypeOK, vars, timer, network, history
  <1> QED
    BY <1>1, <1>2, <1>3, <1>4, <1>5, <1>6, <1>7, <1>8, <1>9, <1>10, <1>11, Zenon
       DEF Next, Tick, Reset

\* The state keeps its shape: onTimer is at a DSServer of the list or outside
\* of its loop, and the counts stay within their bound.
THEOREM TypeCorrect == Spec => []TypeOK
  <1>1. Init => TypeOK
    BY TypeInit
  <1> QED
    BY <1>1, TypeStep, PTL DEF Spec

----------------------------------------------------------------------------
(* The invariant *)

\* Without a race the count is not above the heartbeats really unanswered, in
\* memory or in the register of the timer thread, with the one that was sent and
\* is being counted.
CountOfUnheard(s) ==
  ~raced[s] =>
    /\ beat[s] <= unheard[s]
    /\ at = s /\ step = "load" => Counted(beat[s] + 1) <= unheard[s]
    /\ at = s /\ step \in {"store", "compare"} => Counted(loaded + 1) <= unheard[s]

InactiveUnheard(s) ==
  ~connected[s] /\ clearing # s => raced[s] \/ unheard[s] > MAX_HEARD_COUNT

BeatInv == TypeOK /\ \A s \in Servers : CountOfUnheard(s) /\ InactiveUnheard(s)

\* The counts as numbers.
LEMMA Counts ==
  ASSUME TypeOK, NEW s \in Servers
  PROVE  /\ beat[s] \in Nat /\ unheard[s] \in Nat /\ loaded \in Nat
         /\ unheard[s] <= MAX_HEARD_COUNT + 1
  BY CountAssumption DEF TypeOK

\* The heartbeat is sent: it is unanswered before it is counted.
LEMMA SendStep ==
  ASSUME BeatInv, NEW t \in Servers, Send(t), NEW s \in Servers
  PROVE  CountOfUnheard(s)' /\ InactiveUnheard(s)'
  <1>1. /\ beat[s] \in Nat /\ unheard[s] \in Nat
        /\ beat[s] <= MAX_HEARD_COUNT + 1
    BY Counts, CountAssumption DEF BeatInv, TypeOK
  <1>2. CountOfUnheard(s) /\ InactiveUnheard(s)
    BY DEF BeatInv
  <1>3. CASE s = t
    <2>1. /\ unheard'[s] = Counted(unheard[s] + 1) /\ step' = "load"
          /\ UNCHANGED <<at, beat, connected, clearing, raced>>
      BY <1>3 DEF Send, BeatInv, TypeOK
    <2>2. unheard[s] > MAX_HEARD_COUNT => unheard'[s] > MAX_HEARD_COUNT
      BY <1>1, <2>1, CountedBounds, CountAssumption
    <2>3. beat[s] <= unheard[s] =>
            beat[s] <= unheard'[s] /\ Counted(beat[s] + 1) <= unheard'[s]
      <3>1. beat[s] <= unheard[s] => Counted(beat[s] + 1) <= unheard'[s]
        BY <1>1, <2>1, CountedMonotone
      <3>2. beat[s] <= Counted(beat[s] + 1) /\ Counted(beat[s] + 1) \in Nat
        BY <1>1, CountAssumption DEF Counted
      <3>3. unheard'[s] \in Nat
        BY <1>1, <2>1, CountAssumption DEF Counted
      <3> QED
        BY <1>1, <3>1, <3>2, <3>3
    <2> QED
      BY <1>2, <2>1, <2>2, <2>3 DEF CountOfUnheard, InactiveUnheard
  <1>4. CASE s # t
    BY <1>2, <1>4 DEF CountOfUnheard, InactiveUnheard, Send, BeatInv, TypeOK
  <1> QED
    BY <1>3, <1>4

\* The count is loaded.
LEMMA LoadStep ==
  ASSUME BeatInv, NEW t \in Servers, Load(t), NEW s \in Servers
  PROVE  CountOfUnheard(s)' /\ InactiveUnheard(s)'
  <1>1. CountOfUnheard(s) /\ InactiveUnheard(s)
    BY DEF BeatInv
  <1>2. CASE s = t
    BY <1>1, <1>2 DEF CountOfUnheard, InactiveUnheard, Load, history
  <1>3. CASE s # t
    BY <1>1, <1>3 DEF CountOfUnheard, InactiveUnheard, Load, history
  <1> QED
    BY <1>2, <1>3

\* The increment of the count.
LEMMA StoreStep ==
  ASSUME BeatInv, NEW t \in Servers, Store(t), NEW s \in Servers
  PROVE  CountOfUnheard(s)' /\ InactiveUnheard(s)'
  <1>2. CountOfUnheard(s) /\ InactiveUnheard(s)
    BY DEF BeatInv
  <1>3. CASE s = t
    <2>1. beat'[s] = Counted(loaded + 1)
      BY <1>3 DEF Store, BeatInv, TypeOK
    <2> QED
      BY <1>2, <1>3, <2>1 DEF CountOfUnheard, InactiveUnheard, Store, history
  <1>4. CASE s # t
    BY <1>2, <1>4 DEF CountOfUnheard, InactiveUnheard, Store, history, BeatInv, TypeOK
  <1> QED
    BY <1>3, <1>4

\* The comparison, of the register or of the count read again.
LEMMA CompareStep ==
  ASSUME BeatInv, NEW t \in Servers, Compare(t), NEW s \in Servers
  PROVE  CountOfUnheard(s)' /\ InactiveUnheard(s)'
  <1>1. /\ beat[s] \in Nat /\ unheard[s] \in Nat /\ loaded \in Nat
        /\ Counted(loaded + 1) \in Nat
    BY Counts, CountedBounds, CountAssumption DEF BeatInv
  <1>2. CountOfUnheard(s) /\ InactiveUnheard(s)
    BY DEF BeatInv
  <1>3. step' = "send" /\ UNCHANGED <<beat, unheard, raced, clearing>>
    BY DEF Compare, history
  <1>4. CountOfUnheard(s)'
    BY <1>2, <1>3 DEF CountOfUnheard
  <1>5. connected'[s] = connected[s] \/ raced[s] \/ unheard[s] > MAX_HEARD_COUNT
    <2>1. CASE s # t
      BY <2>1 DEF Compare, BeatInv, TypeOK
    <2>2. CASE s = t
      <3>1. ~raced[s] => beat[s] <= unheard[s] /\ Counted(loaded + 1) <= unheard[s]
        BY <1>2, <2>2 DEF CountOfUnheard, Compare
      <3>2. PICK n \in {Counted(loaded + 1), beat[s]} :
              connected' = IF OverLimit(n) THEN [connected EXCEPT ![s] = FALSE] ELSE connected
        BY <2>2, Zenon DEF Compare
      <3>3. n > MAX_HEARD_COUNT => raced[s] \/ unheard[s] > MAX_HEARD_COUNT
        BY <1>1, <3>1, CountAssumption
      <3>4. ~OverLimit(n) => connected' = connected
        BY <3>2, Zenon
      <3> QED
        BY <3>3, <3>4, Zenon DEF OverLimit
    <2> QED
      BY <2>1, <2>2
  <1> QED
    BY <1>2, <1>3, <1>4, <1>5 DEF InactiveUnheard

\* The answer clears the count, and marks itself when it came too early for
\* that to last.
LEMMA ClearCountStep ==
  ASSUME BeatInv, NEW t \in Servers, ClearCount(t), NEW s \in Servers
  PROVE  CountOfUnheard(s)' /\ InactiveUnheard(s)'
  <1>1. beat[s] \in Nat /\ unheard[s] \in Nat
    BY Counts DEF BeatInv
  <1>2. CountOfUnheard(s) /\ InactiveUnheard(s)
    BY DEF BeatInv
  <1>3. CASE s = t
    <2>1. /\ beat'[s] = 0 /\ clearing' = s /\ UNCHANGED timer
          /\ unheard'[s] = IF at = s /\ step = "load" THEN 1 ELSE 0
      BY <1>3 DEF ClearCount, ClearedCount, BeatInv, TypeOK
    <2>2. ~raced'[s] => ~(at = s /\ step \in {"store", "compare"})
      <3> DEFINE Early == at = s /\ step \in {"store", "compare"}
      <3>1. raced \in [Servers -> BOOLEAN]
        BY DEF BeatInv, TypeOK
      <3>2. raced' = [raced EXCEPT ![s] = Early]
        BY <1>3, Zenon DEF ClearCount
      <3> HIDE DEF Early
      <3>3. raced'[s] = Early
        BY <3>1, <3>2, Zenon
      <3> QED
        BY <3>3, Zenon DEF Early
    <2>3. Counted(beat'[s] + 1) = 1
      BY <2>1, CountAssumption DEF Counted
    <2> QED
      BY <2>1, <2>2, <2>3 DEF CountOfUnheard, InactiveUnheard, timer
  <1>4. CASE s # t
    <2>1. 0 # s
      BY DEF Servers
    <2> QED
      BY <1>2, <1>4, <2>1 DEF CountOfUnheard, InactiveUnheard, ClearCount, timer,
         BeatInv, TypeOK
  <1> QED
    BY <1>3, <1>4

\* Every step keeps the invariant.
LEMMA BeatStep == BeatInv /\ [Next]_vars => BeatInv'
  <1> SUFFICES ASSUME BeatInv, [Next]_vars, NEW s \in Servers
               PROVE  CountOfUnheard(s)' /\ InactiveUnheard(s)'
    BY TypeStep, Zenon DEF BeatInv
  <1>0. TypeOK /\ CountOfUnheard(s) /\ InactiveUnheard(s)
    BY DEF BeatInv
  <1>1. ASSUME NEW start \in BOOLEAN, SetMonitor(start)
        PROVE  CountOfUnheard(s)' /\ InactiveUnheard(s)'
    BY <1>0, <1>1 DEF CountOfUnheard, InactiveUnheard, SetMonitor, timer, history
  <1>2. CASE OnTimer
    BY <1>0, <1>2 DEF TypeOK, CountOfUnheard, InactiveUnheard, OnTimer, history
  <1>3. ASSUME NEW t \in Servers, SendThrows(t)
        PROVE  CountOfUnheard(s)' /\ InactiveUnheard(s)'
    <2>1. at' # s /\ UNCHANGED <<beat, connected, clearing, history>>
      BY <1>3 DEF SendThrows, Servers
    <2> QED
      BY <1>0, <2>1 DEF CountOfUnheard, InactiveUnheard, history
  <1>4. ASSUME NEW t \in Servers, Connect(t)
        PROVE  CountOfUnheard(s)' /\ InactiveUnheard(s)'
    BY <1>0, <1>4 DEF CountOfUnheard, InactiveUnheard, Connect, Activated,
       timer, history, TypeOK
  <1>5. ASSUME NEW t \in Servers, Answer(t) \/ GoDown(t) \/ ComeBack(t) \/ Lose(t)
        PROVE  CountOfUnheard(s)' /\ InactiveUnheard(s)'
    BY <1>0, <1>5 DEF CountOfUnheard, InactiveUnheard, Answer, GoDown, ComeBack,
       Lose, timer, history
  <1>6. CASE UNCHANGED vars
    BY <1>0, <1>6 DEF CountOfUnheard, InactiveUnheard, vars, timer, history
  <1> QED
    BY <1>1, <1>2, <1>3, <1>4, <1>5, <1>6,
       SendStep, LoadStep, StoreStep, CompareStep, ClearCountStep, Zenon
       DEF Next, Tick, Reset

\* A DSServer is taken for inactive only when more heartbeats than the limit
\* were sent to it without an answer, or the last answer lost a race.
THEOREM InactiveOnlyUnheard == Spec => []InactiveWhenUnheard
  <1>1. Init => BeatInv
    BY TypeInit DEF Init, BeatInv, CountOfUnheard, InactiveUnheard
  <1>2. BeatInv => InactiveWhenUnheard
    BY Zenon DEF BeatInv, InactiveUnheard, InactiveWhenUnheard
  <1> QED
    BY <1>1, <1>2, BeatStep, PTL DEF Spec
=============================================================================
