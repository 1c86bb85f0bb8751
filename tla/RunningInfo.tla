---------------------------- MODULE RunningInfo ----------------------------
(***************************************************************************)
(* How DSControl gets the running information of one DSServer: a report of *)
(* several packages, pulled one by one.                                    *)
(*                                                                         *)
(* The timer thread asks for package 0 with every heartbeat; the receive   *)
(* thread, in onReHeartBeat, stores a first package and appends any other, *)
(* asks for the next one, and publishes what it has with the last one.     *)
(* The signal that tells the UI thread is queued, and carries a pointer to *)
(* the string in DSServerStatus, not the string: the UI thread may read it *)
(* while the receive thread assigns it.                                    *)
(*                                                                         *)
(* Text is a sequence of the packages whose content it holds.  The         *)
(* DSServer is external: it takes a new report when it is asked for        *)
(* package 0, and answers only for packages its report has.                *)
(***************************************************************************)
EXTENDS Package, Sequences

CONSTANTS
  MaxPackages,   \* bound on the packages of a report
  MaxReports,    \* bound on the reports a DSServer takes
  MaxDoubled,    \* bound on the datagrams that are delivered again
  LastSizes      \* payload sizes the last package of a report may have

\* An index has 16 bits and a sign.
ASSUME PackagesAssumption ==
  MaxPackages \in Nat \ {0} /\ MaxPackages <= 32768 /\ MaxReports \in Nat
ASSUME SizesAssumption ==
  \A size \in LastSizes : size \in Nat /\ size + MULTI_ADDITIONAL_SIZE <= MAX_BUF
ASSUME DoubledAssumption == MaxDoubled \in Nat

BLOCK_SIZE == 1024

VARIABLES
  report,    \* the DSServer's report: its number, packages and last payload
  requests,  \* CMD_HEARTBEAT in flight: the indexes asked for
  replies,   \* CMD_RE_HEARTBEAT in flight
  temp,      \* _tempRuningInfo
  info,      \* _runningInfo, and _runningInformation, its copy for the UI
  writing,   \* getRuningInformation is assigning _runningInformation
  pending,   \* updatedMonitorData is queued for the UI thread
  shown,     \* the text MonitorWidget got last
  lost,      \* history: a datagram was lost since the last heartbeat
  doubled,   \* datagrams that were delivered again
  mixed      \* history: what comes from a disturbed pull, one that another
             \* heartbeat overlapped or a datagram delivered twice

vars ==
  <<report, requests, replies, temp, info, writing, pending, shown, lost,
    doubled, mixed>>

Report == [number : 0 .. MaxReports, packages : 1 .. MaxPackages,
           last : LastSizes \cup {BLOCK_SIZE}]

\* The package of report r with the given index.
PackageOf(r, index) ==
  [report |-> r.number, index |-> index, complete |-> index + 1 = r.packages,
   size |-> IF index + 1 = r.packages THEN r.last ELSE BLOCK_SIZE]

\* What a reader may find in a string that another thread is assigning: no
\* package of any report.
Torn == <<[report |-> -1, index |-> 0, complete |-> FALSE, size |-> 0]>>

Packages ==
  UNION {{PackageOf(r, i) : i \in 0 .. r.packages - 1} : r \in Report}

\* What getMultiPakageContent leaves in the block of a package.
Text(p) == IF Content(Multi(p.size, p.index)) > 0 THEN <<p>> ELSE <<>>

Init ==
  /\ report = [number |-> 0, packages |-> 1, last |-> BLOCK_SIZE]
  /\ requests = {} /\ replies = {}
  /\ temp = <<>> /\ info = <<>>
  /\ writing = FALSE /\ pending = FALSE
  /\ shown = <<>>
  /\ lost = FALSE /\ doubled = 0 /\ mixed = {}

\* A text is as disturbed as the one it was taken from.
Carried(from, to) == IF from \in mixed THEN mixed \cup {to} ELSE mixed \ {to}

----------------------------------------------------------------------------
(* The timer thread *)

\* Nothing of a pull is under way.
Idle == requests = {} /\ replies = {} /\ ~writing

\* onTimer sends its heartbeat whether or not the last report has been pulled.
OnTimer ==
  /\ requests' = requests \cup {0}
  /\ lost' = FALSE
  /\ mixed' = IF Idle THEN mixed \ {"pull"} ELSE mixed \cup {"pull"}
  /\ UNCHANGED <<report, replies, temp, info, writing, pending, shown, doubled>>

----------------------------------------------------------------------------
(* The receive thread *)

\* A datagram is delivered, for the last time or not.
Taken(net, left, m) ==
  \/ left = net \ {m} /\ UNCHANGED <<doubled, mixed>>
  \/ /\ doubled < MaxDoubled
     /\ left = net
     /\ doubled' = doubled + 1 /\ mixed' = mixed \cup {"pull"}

\* setRuningInformation or appendRuningInformation, by the index; the other
\* form appends every package.
StoredAppend(p) == temp \o Text(p)
Stored(p) == IF p.index = 0 THEN Text(p) ELSE temp \o Text(p)

\* The index asked for next; the other forms ask for the same one again and
\* take the bytes of the package for packages.
SameIndex(p) == p.index
ByteIndex(p) == p.index + p.size
AskedNext(p) == NextIndex(p.index)

\* onReHeartBeat of a package that is not the last.
OnPackage(p) ==
  /\ ~writing
  /\ ~p.complete
  /\ Taken(replies, replies', p)
  /\ temp' = Stored(p)
  /\ requests' = requests \cup {AskedNext(p)}
  /\ UNCHANGED <<report, info, writing, pending, shown, lost>>

\* onReHeartBeat of the last package, up to the assignment of the string.
OnLastPackage(p) ==
  /\ ~writing
  /\ p.complete
  /\ Taken(replies, replies', p)
  /\ temp' = Stored(p)
  /\ writing' = TRUE
  /\ UNCHANGED <<report, requests, info, pending, shown, lost>>

\* onReHeartBeat once the string is assigned: emit updatedMonitorData.  The
\* other form publishes the report before, which leaves the one of
\* the last time.
InfoBefore == info
Published == temp
Publish ==
  /\ writing
  /\ info' = Published
  /\ writing' = FALSE
  /\ pending' = TRUE
  /\ mixed' = Carried("pull", "info")
  /\ UNCHANGED <<report, requests, replies, temp, shown, lost, doubled>>

----------------------------------------------------------------------------
(* The UI thread *)

\* ControllManager::UpdatedMonitorData reads the string as it is now, which may
\* be in the middle of an assignment: one delivery stands for all that are queued.
UpdatedMonitorData ==
  /\ pending
  /\ pending' = FALSE
  /\ \/ shown' = info /\ mixed' = Carried("info", "shown")
     \/ writing /\ shown' \in {temp, Torn} /\ mixed' = Carried("pull", "shown")
  /\ UNCHANGED <<report, requests, replies, temp, info, writing, lost, doubled>>

----------------------------------------------------------------------------
(* External: the DSServer and the network *)

\* Asked for package 0 the DSServer takes a new report.
RemoteReport ==
  /\ 0 \in requests
  /\ report.number < MaxReports
  /\ Taken(requests, requests', 0)
  /\ \E n \in 1 .. MaxPackages, size \in LastSizes :
       report' = [number |-> report.number + 1, packages |-> n, last |-> size]
  /\ replies' = replies \cup {PackageOf(report', 0)}
  /\ UNCHANGED <<temp, info, writing, pending, shown, lost>>

RemotePackage(i) ==
  /\ i > 0
  /\ Taken(requests, requests', i)
  /\ replies' = replies \cup
       (IF i < report.packages THEN {PackageOf(report, i)} ELSE {})
  /\ UNCHANGED <<report, temp, info, writing, pending, shown, lost>>

LoseRequest(i) ==
  /\ requests' = requests \ {i}
  /\ lost' = TRUE
  /\ UNCHANGED <<report, replies, temp, info, writing, pending, shown, doubled, mixed>>

LoseReply(p) ==
  /\ replies' = replies \ {p}
  /\ lost' = TRUE
  /\ UNCHANGED <<report, requests, temp, info, writing, pending, shown, doubled, mixed>>

----------------------------------------------------------------------------
(* The specification *)

OnReHeartBeat == Publish \/ \E p \in replies : OnPackage(p) \/ OnLastPackage(p)

Remote == RemoteReport \/ \E i \in requests : RemotePackage(i)

Loss == (\E i \in requests : LoseRequest(i)) \/ (\E p \in replies : LoseReply(p))

Next ==
  \/ OnTimer
  \/ OnReHeartBeat
  \/ UpdatedMonitorData
  \/ Remote
  \/ Loss

Spec == Init /\ [][Next]_vars

\* The receive and the UI thread run, and the DSServer answers.
Fairness ==
  /\ WF_vars(OnReHeartBeat)
  /\ WF_vars(UpdatedMonitorData)
  /\ WF_vars(Remote)

FairSpec == Spec /\ Fairness

----------------------------------------------------------------------------
(* Properties *)

TypeOK ==
  /\ report \in Report
  /\ requests \subseteq 0 .. MaxPackages - 1
  /\ replies \subseteq Packages
  /\ {temp, info} \subseteq Seq(Packages)
  /\ shown \in Seq(Packages) \/ shown = Torn
  /\ {writing, pending, lost} \subseteq BOOLEAN
  /\ doubled \in 0 .. MaxDoubled
  /\ mixed \subseteq {"pull", "info", "shown"}

\* The first n packages of a report.
FirstPackages(r, n) == [j \in 1 .. n |-> PackageOf(r, j - 1)]

\* A text is a whole report: all of its packages once and in their order.
Whole(text) ==
  \E r \in Report : text = FirstPackages(r, r.packages)

WholeOrNone(text) == text = <<>> \/ Whole(text)

\* Every payload is long enough for getMultiPakageContent.
Copied == \A size \in LastSizes : size >= MULTI_ADDITIONAL_SIZE

\* Whatever is lost before, between and during the pulls, what onReHeartBeat
\* publishes and MonitorWidget shows is a whole report, unless its own pull was
\* disturbed: what a disturbed or unfinished pull has left in _tempRuningInfo
\* does not get into the next one.  And a text that was read through the pointer
\* while it was assigned does not stay: the next signal is under way.
ShownWhole ==
  Copied =>
    /\ "info" \in mixed \/ WholeOrNone(info)
    /\ "shown" \in mixed \/ shown = Torn \/ WholeOrNone(shown)
    /\ shown = Torn => writing \/ pending

\* What MonitorWidget is shown from an undisturbed pull is not nothing and not
\* older than any package of what it replaces, be that a mixture of reports.
NotOlder(new, old) ==
  new # <<>> /\ \A i \in DOMAIN old : new[1].report >= old[i].report
NeverBack ==
  [][Copied /\ Torn \notin {shown, shown'} /\ "shown" \notin mixed' =>
       NotOlder(shown', shown)]_shown

\* A heartbeat leads to a whole report on the screen that is newer than what the
\* DSServer had taken before it, to the loss of a datagram, or to a disturbed
\* pull: no text is ever stuck in _tempRuningInfo, whatever earlier losses and
\* earlier mixtures have left there.
NewReportShown ==
  \A k \in 0 .. MaxReports - 1 :
    (0 \in requests /\ report.number = k)
      ~> \/ lost
         \/ "pull" \in mixed
         \/ Whole(shown) /\ shown[1].report > k
============================================================================
