----------------------------- MODULE HeartBeat -----------------------------
(***************************************************************************)
(* Which DSServers DSControl takes for active: the timer thread of         *)
(* TimerHeardBeat counts every heartbeat it sends as one without answer,   *)
(* the receive thread of DSServerCommImp clears the count with an answer.  *)
(* The count is a plain int that no lock protects, so its increment is a   *)
(* load, a store and a comparison that the other thread can run between.   *)
(* The comparison may use the value in the register or read the count      *)
(* again.  The checkbox of MonitorWidget starts and stops the heartbeat.   *)
(***************************************************************************)
EXTENDS Naturals

CONSTANTS
  NServers,        \* DSServers, numbered in the order of _dsserverList
  MAX_HEARD_COUNT, \* heartbeats without answer an active DSServer may have
  BadAddresses,    \* DSServers whose address cannot be sent to
  MayLose          \* the network may lose datagrams

ASSUME ServersAssumption == NServers \in Nat \ {0}
ASSUME CountAssumption == MAX_HEARD_COUNT \in Nat
ASSUME AddressAssumption == BadAddresses \subseteq 1 .. NServers
ASSUME LoseAssumption == MayLose \in BOOLEAN

Servers == 1 .. NServers

VARIABLES
  needSend,  \* _needSend
  at,        \* the DSServer onTimer is at, 0 outside of onTimer
  step,      \* what onTimer does next for it
  loaded,    \* the count it has loaded
  beat,      \* _heartBeat
  connected, \* _isConnected
  clearing,  \* the DSServer resetHeartBeat is in the middle of, or 0
  requests,  \* CMD_HEARTBEAT in flight
  replies,   \* CMD_RE_HEARTBEAT in flight
  down,      \* DSServers that do not answer
  unheard,   \* history: heartbeats sent since the last answer
  raced      \* history: the last answer came while the count was being increased

timer == <<at, step, loaded>>
network == <<requests, replies, down>>
history == <<unheard, raced>>
vars == <<needSend, timer, beat, connected, clearing, network, history>>

\* Counts above the limit are not told apart.
Counted(n) == IF n > MAX_HEARD_COUNT THEN MAX_HEARD_COUNT + 1 ELSE n

Init ==
  /\ needSend = FALSE
  /\ at = 0 /\ step = "send" /\ loaded = 0
  /\ beat = [s \in Servers |-> 0]
  /\ connected = [s \in Servers |-> TRUE]
  /\ clearing = 0
  /\ requests = {} /\ replies = {} /\ down = {}
  /\ unheard = [s \in Servers |-> 0]
  /\ raced = [s \in Servers |-> FALSE]

----------------------------------------------------------------------------
(* The UI thread *)

SetMonitor(start) ==
  /\ needSend' = start
  /\ UNCHANGED <<timer, beat, connected, clearing, network, history>>

----------------------------------------------------------------------------
(* The timer thread *)

OnTimer ==
  /\ at = 0
  /\ needSend
  /\ at' = 1
  /\ UNCHANGED <<needSend, step, loaded, beat, connected, clearing, network, history>>

\* sendCommand of the heartbeat.
Send(s) ==
  /\ at = s /\ step = "send"
  /\ s \notin BadAddresses
  /\ requests' = requests \cup {s}
  /\ unheard' = [unheard EXCEPT ![s] = Counted(@ + 1)]
  /\ step' = "load"
  /\ UNCHANGED <<needSend, at, loaded, beat, connected, clearing, replies, down, raced>>

\* An exception of SocketAddress or sendTo leaves onTimer; the Timer goes on.
SendThrows(s) ==
  /\ at = s /\ step = "send"
  /\ s \in BadAddresses
  /\ at' = 0
  /\ UNCHANGED <<needSend, step, loaded, beat, connected, clearing, network, history>>

\* recodeHeartBeatWithoutAnswer in its steps.
Load(s) ==
  /\ at = s /\ step = "load"
  /\ loaded' = beat[s]
  /\ step' = "store"
  /\ UNCHANGED <<needSend, at, beat, connected, clearing, network, history>>

Store(s) ==
  /\ at = s /\ step = "store"
  /\ beat' = [beat EXCEPT ![s] = Counted(loaded + 1)]
  /\ step' = "compare"
  /\ UNCHANGED <<needSend, at, loaded, connected, clearing, network, history>>

\* The comparison with the limit; the other forms are one off and the reverse.
AtLimit(n) == n >= MAX_HEARD_COUNT
BelowLimit(n) == n < MAX_HEARD_COUNT
OverLimit(n) == n > MAX_HEARD_COUNT

Compare(s) ==
  /\ at = s /\ step = "compare"
  /\ \E n \in {Counted(loaded + 1), beat[s]} :
       connected' = IF OverLimit(n) THEN [connected EXCEPT ![s] = FALSE] ELSE connected
  /\ at' = IF s = NServers THEN 0 ELSE s + 1
  /\ step' = "send" /\ loaded' = 0
  /\ UNCHANGED <<needSend, beat, clearing, network, history>>

----------------------------------------------------------------------------
(* The receive thread *)

\* The count resetHeartBeat leaves; the other form takes back one heartbeat.
DecreasedCount(n) == n - 1
ClearedCount(n) == 0

\* The state it leaves; the other form leaves it alone.
KeptState(active) == active
Activated(active) == TRUE

\* resetHeartBeat, called from onReHeartBeat, in its two assignments.  A heartbeat
\* that onTimer has sent and not counted yet stays one without answer.
ClearCount(s) ==
  /\ clearing = 0
  /\ s \in replies
  /\ replies' = replies \ {s}
  /\ beat' = [beat EXCEPT ![s] = ClearedCount(@)]
  /\ clearing' = s
  /\ unheard' = [unheard EXCEPT ![s] = IF at = s /\ step = "load" THEN 1 ELSE 0]
  /\ raced' = [raced EXCEPT ![s] = at = s /\ step \in {"store", "compare"}]
  /\ UNCHANGED <<needSend, timer, connected, requests, down>>

Connect(s) ==
  /\ clearing = s
  /\ connected' = [connected EXCEPT ![s] = Activated(@)]
  /\ clearing' = 0
  /\ UNCHANGED <<needSend, timer, beat, network, history>>

----------------------------------------------------------------------------
(* External: the DSServers and the network *)

Answer(s) ==
  /\ s \in requests
  /\ requests' = requests \ {s}
  /\ replies' = replies \cup ({s} \ down)
  /\ UNCHANGED <<needSend, timer, beat, connected, clearing, down, history>>

GoDown(s) ==
  /\ s \notin down
  /\ down' = down \cup {s}
  /\ UNCHANGED <<needSend, timer, beat, connected, clearing, requests, replies, history>>

ComeBack(s) ==
  /\ s \in down
  /\ down' = down \ {s}
  /\ UNCHANGED <<needSend, timer, beat, connected, clearing, requests, replies, history>>

Lose(s) ==
  /\ MayLose
  /\ s \in requests \cup replies
  /\ \/ requests' = requests \ {s} /\ UNCHANGED replies
     \/ replies' = replies \ {s} /\ UNCHANGED requests
  /\ UNCHANGED <<needSend, timer, beat, connected, clearing, down, history>>

----------------------------------------------------------------------------
(* The specification *)

Tick(s) == Send(s) \/ SendThrows(s) \/ Load(s) \/ Store(s) \/ Compare(s)

Reset(s) == ClearCount(s) \/ Connect(s)

Next ==
  \/ \E start \in BOOLEAN : SetMonitor(start)
  \/ OnTimer
  \/ \E s \in Servers :
       Tick(s) \/ Reset(s) \/ Answer(s) \/ GoDown(s) \/ ComeBack(s) \/ Lose(s)

Spec == Init /\ [][Next]_vars

\* The timer fires again and again, both threads run, every datagram that is
\* not lost arrives.  The socket is read in the order of arrival, so that an
\* answer is not passed over for ever (SF).  Nobody has to press the checkbox.
Fairness ==
  /\ WF_vars(OnTimer)
  /\ \A s \in Servers :
       WF_vars(Tick(s)) /\ SF_vars(ClearCount(s)) /\ WF_vars(Connect(s)) /\ WF_vars(Answer(s))

FairSpec == Spec /\ Fairness

----------------------------------------------------------------------------
(* Properties *)

TypeOK ==
  /\ needSend \in BOOLEAN
  /\ at \in 0 .. NServers /\ step \in {"send", "load", "store", "compare"}
  /\ (at = 0 => step = "send") /\ clearing \in 0 .. NServers
  /\ loaded \in 0 .. MAX_HEARD_COUNT + 1
  /\ {beat, unheard} \subseteq [Servers -> 0 .. MAX_HEARD_COUNT + 1]
  /\ {connected, raced} \subseteq [Servers -> BOOLEAN]
  /\ requests \cup replies \cup down \subseteq Servers

\* A DSServer loses its active state only after it was sent more heartbeats
\* without an answer than recodeHeartBeatWithoutAnswer allows, unless the last
\* answer came in the middle of its increment: a DSServer that onTimer does not
\* reach, because the send to one before it throws, stays active.
InactiveWhenUnheard ==
  \A s \in Servers : ~connected[s] /\ clearing # s =>
    raced[s] \/ unheard[s] > MAX_HEARD_COUNT

\* The heartbeat reaches a DSServer: onTimer leaves none before it.
Reached(s) == \A t \in BadAddresses : t > s

\* A DSServer that goes down is taken for inactive, for good, if the heartbeat
\* stays on; an answer on its way or a lost update only delays it.
SilentDetected ==
  \A s \in Servers : Reached(s) =>
    (<>[](needSend /\ s \in down) => <>[](~connected[s]))

\* A DSServer that stays up is active again and again, whatever the races, once
\* the network loses nothing any more.
AnsweringReturns ==
  \A s \in Servers : Reached(s) =>
    (<>[][\A t \in Servers : ~Lose(t)]_vars /\ <>[](needSend /\ s \notin down)
      => []<>connected[s])

============================================================================
