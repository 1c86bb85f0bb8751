------------------------- MODULE RunningInfo_proofs -------------------------
(***************************************************************************)
(* What the operators of Package do for every payload and index; that a    *)
(* package keeps what it carries; and the pull of a report: until another  *)
(* heartbeat overlaps it or a datagram is delivered twice, at most one     *)
(* thing of a pull is under way, and it says how far the text in           *)
(* _tempRuningInfo has come.                                               *)
(***************************************************************************)
EXTENDS RunningInfo, PackageLink, TLAPS

(* The operators of Package *)

\* A number below 65536 is made up of its high and its low byte, as
\* constructSendBuffer takes it apart and getDataLenght puts it together.
LEMMA TwoBytes ==
  ASSUME NEW n \in Int, 0 <= n, n < 65536
  PROVE  256 * Byte(n \div 256) + Byte(n) = n
  <1>1. n \div 256 \in Int /\ 0 <= n \div 256 /\ n \div 256 < 256
    BY SMT
  <1>2. 256 * (n \div 256) + (n % 256) = n
    BY Z3
  <1> QED
    BY <1>1, <1>2, Z3 DEF Byte

\* A short is the number it was made from or 65536 less.
LEMMA ShortCases ==
  ASSUME NEW w \in Int, 0 <= w, w < 65536
  PROVE  Short(w) = IF w < 32768 THEN w ELSE w - 65536
  <1>1. CASE w < 32768
    BY <1>1, Z3 DEF Short
  <1>2. CASE w >= 32768
    BY <1>2, Z3 DEF Short
  <1> QED
    BY <1>1, <1>2

\* Taking the two bytes of a short apart, as addMultiFlag does, and together
\* again, as getMultiIndex does, gives it back.
LEMMA ShortBytes ==
  ASSUME NEW w \in Int, 0 <= w, w < 65536
  PROVE  Short(256 * Byte(Short(w) \div 256) + Byte(Short(w))) = Short(w)
  <1>1. 256 * Byte(w \div 256) + Byte(w) = w
    BY TwoBytes
  <1>2. CASE w < 32768
    BY <1>1, <1>2, ShortCases
  <1>3. CASE w >= 32768
    <2>1. Short(w) = w - 65536
      BY <1>3, ShortCases
    <2>2. /\ (w - 65536) % 256 = w % 256
          /\ (w - 65536) \div 256 = (w \div 256) - 256
      BY Z3
    <2>3. w \div 256 \in Int /\ ((w \div 256) - 256) % 256 = (w \div 256) % 256
      BY Z3
    <2> QED
      BY <1>1, <2>1, <2>2, <2>3 DEF Byte
  <1> QED
    BY <1>2, <1>3

\* What each package that fits gives the receiver.
LEMMA PlainData ==
  ASSUME NEW n \in Nat, Fits(n)
  PROVE  Data(Plain(n)) = n
  <1>1. Plain(n).total = n + ADDITIONAL_SIZE
    BY Zenon DEF Plain
  <1> QED
    BY <1>1 DEF Data, Fits, LessSizeT, MAX_BUF, ADDITIONAL_SIZE

\* A payload shorter than the marks makes the comparison with a size_t fail.
LEMMA MultiContent ==
  ASSUME NEW n \in Nat, NEW i, n + MULTI_ADDITIONAL_SIZE <= MAX_BUF
  PROVE  Content(Multi(n, i)) = IF n >= MULTI_ADDITIONAL_SIZE THEN n ELSE 0
  <1>1. n \in Int /\ 0 <= n /\ n < 32768
    BY DEF MAX_BUF, MULTI_ADDITIONAL_SIZE
  <1>2. 256 * Byte(n \div 256) + Byte(n) = n
    BY <1>1, TwoBytes
  <1>3. Short(n) = n
    BY <1>1, ShortCases
  <1>4. /\ Multi(n, i).lenHigh = Byte(n \div 256)
        /\ Multi(n, i).lenLow = Byte(n)
    BY Zenon DEF Multi
  <1>5. Content(Multi(n, i)) =
          IF LessSizeT(MAX_BUF, n - MULTI_ADDITIONAL_SIZE) THEN 0 ELSE n
    BY <1>2, <1>3, <1>4, Zenon DEF Content
  <1> QED
    BY <1>1, <1>5 DEF LessSizeT, MAX_BUF, MULTI_ADDITIONAL_SIZE

\* The next index is the next number as long as it fits into a short.
LEMMA NextOfIndex ==
  ASSUME NEW i \in Nat, i + 1 < 32768
  PROVE  NextIndex(i) = i + 1
  BY ShortCases DEF NextIndex

----------------------------------------------------------------------------
(* One package over the link *)

\* The receiver reads the index that was sent.
LEMMA MultiIndexKept ==
  ASSUME NEW n, NEW w \in Words
  PROVE  MultiIndex(Multi(n, Short(w))) = Short(w)
  <1>1. w \in Int /\ 0 <= w /\ w < 65536
    BY WordsAssumption
  <1>2. Short(256 * Byte(Short(w) \div 256) + Byte(Short(w))) = Short(w)
    BY <1>1, ShortBytes
  <1>3. /\ Multi(n, Short(w)).indexHigh = Byte(Short(w) \div 256)
        /\ Multi(n, Short(w)).indexLow = Byte(Short(w))
    BY Zenon DEF Multi
  <1>4. MultiIndex(Multi(n, Short(w))) =
          Short(256 * Byte(Short(w) \div 256) + Byte(Short(w)))
    BY <1>3, Zenon DEF MultiIndex
  <1> QED
    BY <1>2, <1>4, Zenon

\* A payload that was chosen to fit, and what was copied of it.
LinkInv ==
  /\ payload \in Nat /\ Fits(payload)
  /\ PackageKept

\* A plain package is as long as its payload and its marks, and one of a series
\* three bytes longer, whatever the check let through.
LEMMA Totals ==
  ASSUME NEW n \in Nat, Fits(n), NEW i
  PROVE  /\ Plain(n).total = n + ADDITIONAL_SIZE
         /\ Multi(n, i).total = n + MULTI_ADDITIONAL_SIZE
  BY Zenon DEF Plain, Multi

\* Every payload that passes the check arrives as it was sent in a plain package;
\* so do, in a package of a series, the index, and the content unless it is
\* shorter than its marks, up to a payload of 4086 bytes.  From 4087 to 4089 the
\* package is written one to three bytes past the end of the buffer.
THEOREM PackageArrives == LinkSpec => []PackageKept
  <1>1. LinkInit => LinkInv
    <2>1. MAX_BUF \in Int /\ ADDITIONAL_SIZE \in Int
      BY DEF MAX_BUF, ADDITIONAL_SIZE
    <2>2. LinkInit => payload \in Nat /\ Fits(payload) /\ kind = "none"
      BY <2>1 DEF LinkInit
    <2> QED
      BY <2>2 DEF LinkInv, PackageKept, PlainKept, OverrunAtTop, LongContentKept,
         IndexKept
  <1>2. LinkInv /\ [LinkNext]_linkVars => LinkInv'
    <2> SUFFICES ASSUME LinkInv, [LinkNext]_linkVars PROVE LinkInv'
      OBVIOUS
    <2> USE DEF LinkInv, PackageKept, PlainKept, OverrunAtTop, LongContentKept,
        IndexKept
    <2>1. CASE SendPlain
      <3>1. written' <= MAX_BUF
        BY <2>1, Totals DEF SendPlain, Fits, MAX_BUF, ADDITIONAL_SIZE
      <3> QED
        BY <2>1, <3>1, PlainData DEF SendPlain, Arrives
    <2>2. ASSUME NEW w \in Words, SendMulti(Short(w)) PROVE LinkInv'
      <3>1. /\ payload' = payload /\ kind' = "multi" /\ sentIndex' = Short(w)
            /\ written' = payload + MULTI_ADDITIONAL_SIZE
        BY <2>2, Totals, Zenon DEF SendMulti
      <3>2. payload \in Nat /\ payload + 7 <= 4096
        BY DEF Fits, MAX_BUF, ADDITIONAL_SIZE
      <3>3. OverrunAtTop'
        BY <3>1, <3>2 DEF Roomy, MAX_BUF, MULTI_ADDITIONAL_SIZE
      <3>4. ASSUME payload <= Roomy
            PROVE  /\ copied' = IF payload >= MULTI_ADDITIONAL_SIZE THEN payload ELSE 0
                   /\ seen' = sentIndex'
        <4>1. payload + MULTI_ADDITIONAL_SIZE <= MAX_BUF
          BY <3>2, <3>4 DEF Roomy, MAX_BUF, MULTI_ADDITIONAL_SIZE
        <4>2. /\ copied' = Content(Multi(payload, Short(w)))
              /\ seen' = MultiIndex(Multi(payload, Short(w)))
          BY <2>2, <3>1, <4>1, Zenon DEF SendMulti, Arrives
        <4> QED
          BY <3>1, <3>2, <4>1, <4>2, MultiIndexKept, MultiContent
      <3>5. LongContentKept' /\ IndexKept'
        <4>1. Roomy' = Roomy
          BY DEF Roomy
        <4> QED
          BY <3>1, <3>4, Zenon
      <3>6. PlainKept'
        BY <3>1, Zenon
      <3> QED
        BY <3>1, <3>3, <3>5, <3>6, Zenon
    <2>3. CASE UNCHANGED linkVars
      BY <2>3 DEF linkVars
    <2> QED
      BY <2>1, <2>2, <2>3 DEF LinkNext
  <1>3. LinkInv => PackageKept
    BY DEF LinkInv
  <1> QED
    BY <1>1, <1>2, <1>3, PTL DEF LinkSpec

----------------------------------------------------------------------------
(* The pull of a report *)

\* What is under way, and what has been pulled when it is.
Asked ==
  /\ replies = {} /\ ~writing
  /\ \E i \in Nat : /\ requests = {i}
                    /\ i > 0 => /\ i < report.packages
                                /\ temp = FirstPackages(report, i)

Answered ==
  /\ requests = {} /\ ~writing
  /\ \E i \in Nat : /\ i < report.packages
                    /\ replies = {PackageOf(report, i)}
                    /\ i > 0 => temp = FirstPackages(report, i)

Writing ==
  /\ requests = {} /\ replies = {} /\ writing
  /\ temp = FirstPackages(report, report.packages)

PullInv ==
  /\ report \in Report
  /\ "pull" \in mixed \/ Asked \/ Answered \/ Writing \/ Idle

----------------------------------------------------------------------------
(* Facts about texts *)

\* The packages of a report have one of the payloads the assumptions allow.
LEMMA ReportSizes ==
  ASSUME NEW r \in Report, Copied, NEW i \in Nat
  PROVE  /\ PackageOf(r, i).size \in Nat
         /\ PackageOf(r, i).size >= MULTI_ADDITIONAL_SIZE
         /\ PackageOf(r, i).size + MULTI_ADDITIONAL_SIZE <= MAX_BUF
         /\ PackageOf(r, i).index = i
         /\ PackageOf(r, i).complete = (i + 1 = r.packages)
  <1>1. BLOCK_SIZE \in Nat /\ BLOCK_SIZE >= MULTI_ADDITIONAL_SIZE
        /\ BLOCK_SIZE + MULTI_ADDITIONAL_SIZE <= MAX_BUF
    BY DEF BLOCK_SIZE, MULTI_ADDITIONAL_SIZE, MAX_BUF
  <1>2. r.last \in LastSizes \cup {BLOCK_SIZE}
    BY DEF Report
  <1>3. \A size \in LastSizes \cup {BLOCK_SIZE} :
          /\ size \in Nat /\ size >= MULTI_ADDITIONAL_SIZE
          /\ size + MULTI_ADDITIONAL_SIZE <= MAX_BUF
    BY <1>1, SizesAssumption, Zenon DEF Copied
  <1>4. PackageOf(r, i).size = IF i + 1 = r.packages THEN r.last ELSE BLOCK_SIZE
    BY Zenon DEF PackageOf
  <1> QED
    BY <1>2, <1>3, <1>4, Zenon DEF PackageOf

\* getMultiPakageContent copies every package of a report.
LEMMA TextOfPackage ==
  ASSUME NEW r \in Report, Copied, NEW i \in Nat
  PROVE  Text(PackageOf(r, i)) = <<PackageOf(r, i)>>
  <1> DEFINE p == PackageOf(r, i)
  <1> HIDE DEF p
  <1>1. /\ p.size \in Nat /\ p.size >= MULTI_ADDITIONAL_SIZE
        /\ p.size + MULTI_ADDITIONAL_SIZE <= MAX_BUF
    BY ReportSizes, Zenon DEF p
  <1>2. Content(Multi(p.size, p.index)) = p.size
    BY <1>1, MultiContent, Zenon
  <1>3. Content(Multi(p.size, p.index)) > 0
    BY <1>1, <1>2 DEF MULTI_ADDITIONAL_SIZE
  <1>4. Text(p) = <<p>>
    BY <1>3, Zenon DEF Text
  <1> QED
    BY <1>4 DEF p

\* Storing package i after the first i packages gives the first i + 1.
LEMMA StoredNext ==
  ASSUME NEW r \in Report, Copied, NEW i \in Nat,
         i > 0 => temp = FirstPackages(r, i)
  PROVE  Stored(PackageOf(r, i)) = FirstPackages(r, i + 1)
  <1>1. Text(PackageOf(r, i)) = <<PackageOf(r, i)>> /\ PackageOf(r, i).index = i
    BY TextOfPackage, ReportSizes, Zenon
  <1>2. CASE i = 0
    <2>1. Stored(PackageOf(r, i)) = <<PackageOf(r, i)>>
      BY <1>1, <1>2, Zenon DEF Stored
    <2>2. FirstPackages(r, i + 1) = <<PackageOf(r, i)>>
      <3> DEFINE P(j) == PackageOf(r, j)
      <3> HIDE DEF P
      <3>1. [j \in 1 .. i + 1 |-> P(j - 1)] = <<P(i)>>
        BY <1>2
      <3> QED
        BY <3>1 DEF P, FirstPackages
    <2> QED
      BY <2>1, <2>2
  <1>3. CASE i > 0
    <2>1. Stored(PackageOf(r, i)) = FirstPackages(r, i) \o <<PackageOf(r, i)>>
      <3>1. i # 0 /\ temp = FirstPackages(r, i)
        BY <1>3
      <3> QED
        BY <1>1, <3>1, Zenon DEF Stored
    <2>2. FirstPackages(r, i) \o <<PackageOf(r, i)>> = FirstPackages(r, i + 1)
      <3> DEFINE P(j) == PackageOf(r, j)
      <3> HIDE DEF P
      <3>1. [j \in 1 .. i |-> P(j - 1)] \o <<P(i)>> = [j \in 1 .. i + 1 |-> P(j - 1)]
        OBVIOUS
      <3> QED
        BY <3>1 DEF P, FirstPackages
    <2> QED
      BY <2>1, <2>2
  <1> QED
    BY <1>2, <1>3

\* A whole report, as the reader is meant to see it.
LEMMA AllPackages ==
  ASSUME NEW r \in Report, temp = FirstPackages(r, r.packages)
  PROVE  Whole(temp)
  BY Zenon DEF Whole

----------------------------------------------------------------------------
(* Every step keeps the invariant *)

\* In an undisturbed pull nothing is delivered twice.
LEMMA TakenOnce ==
  ASSUME NEW net, NEW left, NEW m, Taken(net, left, m), "pull" \notin mixed'
  PROVE  left = net \ {m} /\ "pull" \notin mixed
  BY Zenon DEF Taken

\* A mark of another text does not disturb the pull.
LEMMA CarriedElsewhere ==
  ASSUME NEW from, NEW to, mixed' = Carried(from, to), to # "pull"
  PROVE  "pull" \in mixed' <=> "pull" \in mixed
  BY Zenon DEF Carried

\* The timer starts a pull that is not disturbed only when nothing is under way.
LEMMA StepOnTimer ==
  ASSUME PullInv, OnTimer
  PROVE  PullInv'
  <1>1. report' = report
    BY Zenon DEF OnTimer
  <1>2. ASSUME "pull" \notin mixed' PROVE Asked'
    <2>1. Idle
      BY <1>2, Zenon DEF OnTimer
    <2>2. requests' = {0} /\ replies' = {} /\ ~writing'
      BY <2>1, Zenon DEF OnTimer, Idle
    <2>3. 0 \in Nat /\ ~(0 > 0)
      OBVIOUS
    <2> QED
      BY <2>2, <2>3, Zenon DEF Asked
  <1> QED
    BY <1>1, <1>2, Zenon DEF PullInv, Report

\* A package that is not the last makes the text one package longer.
LEMMA StepOnPackage ==
  ASSUME Copied, PullInv, NEW p \in replies, OnPackage(p)
  PROVE  PullInv'
  <1>1. report' = report
    BY Zenon DEF OnPackage
  <1>2. ASSUME "pull" \notin mixed' PROVE Asked'
    <2>1. replies' = replies \ {p} /\ "pull" \notin mixed
      BY <1>2, TakenOnce, Zenon DEF OnPackage
    <2>2. Answered
      BY <2>1, Zenon DEF PullInv, Asked, Answered, Writing, Idle, OnPackage
    <2>3. PICK i \in Nat : /\ i < report.packages
                           /\ replies = {PackageOf(report, i)}
                           /\ i > 0 => temp = FirstPackages(report, i)
      BY <2>2, Zenon DEF Answered
    <2>4. p = PackageOf(report, i) /\ report \in Report
      BY <2>3, Zenon DEF PullInv
    <2>5. p.index = i /\ i + 1 # report.packages
      BY <2>4, ReportSizes, Zenon DEF OnPackage
    <2>6. temp' = FirstPackages(report, i + 1)
      BY <2>3, <2>4, StoredNext, Zenon DEF OnPackage
    <2>7. i + 1 \in Nat /\ i + 1 > 0 /\ i + 1 < report.packages
      BY <2>3, <2>4, <2>5 DEF Report
    <2>8. AskedNext(p) = i + 1
      <3>1. i + 1 < 32768
        BY <2>4, <2>7, PackagesAssumption DEF Report
      <3> QED
        BY <2>5, <3>1, NextOfIndex DEF AskedNext
    <2>9. requests' = {i + 1} /\ replies' = {} /\ ~writing'
      <3>1. requests = {}
        BY <2>2, Zenon DEF Answered
      <3> QED
        BY <2>1, <2>3, <2>4, <2>8, <3>1, Zenon DEF OnPackage
    <2> QED
      BY <1>1, <2>6, <2>7, <2>9, Zenon DEF Asked, FirstPackages
  <1> QED
    BY <1>1, <1>2, Zenon DEF PullInv, Report

\* The last package completes the text.
LEMMA StepOnLastPackage ==
  ASSUME Copied, PullInv, NEW p \in replies, OnLastPackage(p)
  PROVE  PullInv'
  <1>1. report' = report
    BY Zenon DEF OnLastPackage
  <1>2. ASSUME "pull" \notin mixed' PROVE Writing'
    <2>1. replies' = replies \ {p} /\ "pull" \notin mixed
      BY <1>2, TakenOnce, Zenon DEF OnLastPackage
    <2>2. Answered
      BY <2>1, Zenon DEF PullInv, Asked, Answered, Writing, Idle, OnLastPackage
    <2>3. PICK i \in Nat : /\ i < report.packages
                           /\ replies = {PackageOf(report, i)}
                           /\ i > 0 => temp = FirstPackages(report, i)
      BY <2>2, Zenon DEF Answered
    <2>4. p = PackageOf(report, i) /\ report \in Report
      BY <2>3, Zenon DEF PullInv
    <2>5. i + 1 = report.packages
      BY <2>4, ReportSizes, Zenon DEF OnLastPackage
    <2>6. temp' = FirstPackages(report, report.packages)
      BY <2>3, <2>4, <2>5, StoredNext, Zenon DEF OnLastPackage
    <2>7. requests' = {} /\ replies' = {} /\ writing'
      <3>1. requests = {}
        BY <2>2, Zenon DEF Answered
      <3> QED
        BY <2>1, <2>3, <2>4, <3>1, Zenon DEF OnLastPackage
    <2> QED
      BY <1>1, <2>6, <2>7, Zenon DEF Writing, FirstPackages
  <1> QED
    BY <1>1, <1>2, Zenon DEF PullInv, Report

\* With the emit a pull is over.
LEMMA StepPublish ==
  ASSUME PullInv, Publish
  PROVE  PullInv'
  <1>1. report' = report
    BY Zenon DEF Publish
  <1>2. ASSUME "pull" \notin mixed' PROVE Idle'
    <2>1. "pull" \notin mixed
      BY <1>2, CarriedElsewhere, Zenon DEF Publish
    <2>2. Writing
      BY <2>1, Zenon DEF PullInv, Asked, Answered, Writing, Idle, Publish
    <2> QED
      BY <2>2, Zenon DEF Writing, Idle, Publish
  <1> QED
    BY <1>1, <1>2, Zenon DEF PullInv, Report

\* A new report is taken when none is being pulled.
LEMMA StepRemoteReport ==
  ASSUME PullInv, RemoteReport
  PROVE  PullInv'
  <1>1. report' \in Report /\ 0 \in Nat /\ 0 < report'.packages /\ ~(0 > 0)
    BY PackagesAssumption DEF RemoteReport, PullInv, Report
  <1>2. ASSUME "pull" \notin mixed' PROVE Answered'
    <2>1. requests' = requests \ {0} /\ "pull" \notin mixed
      BY <1>2, TakenOnce, Zenon DEF RemoteReport
    <2>2. Asked /\ requests = {0}
      BY <2>1, Zenon DEF PullInv, Asked, Answered, Writing, Idle, RemoteReport
    <2>3. requests' = {} /\ replies' = {PackageOf(report', 0)} /\ ~writing'
      BY <2>1, <2>2, Zenon DEF Asked, RemoteReport
    <2> QED
      BY <1>1, <2>3, Zenon DEF Answered, PackageOf
  <1> QED
    BY <1>1, <1>2, Zenon DEF PullInv, Report

\* The package asked for is the next one of the report being pulled.
LEMMA StepRemotePackage ==
  ASSUME PullInv, NEW i \in requests, RemotePackage(i)
  PROVE  PullInv'
  <1>1. report' = report /\ temp' = temp
    BY Zenon DEF RemotePackage
  <1>2. ASSUME "pull" \notin mixed' PROVE Answered'
    <2>1. requests' = requests \ {i} /\ "pull" \notin mixed
      BY <1>2, TakenOnce, Zenon DEF RemotePackage
    <2>2. Asked /\ requests = {i} /\ i \in Nat
      BY <2>1, Zenon DEF PullInv, Asked, Answered, Writing, Idle
    <2>3. i > 0 /\ i < report.packages /\ temp = FirstPackages(report, i)
      BY <2>2, Zenon DEF Asked, RemotePackage
    <2>4. requests' = {} /\ replies' = {PackageOf(report, i)} /\ ~writing'
      BY <2>1, <2>2, <2>3, Zenon DEF Asked, RemotePackage
    <2> QED
      BY <1>1, <2>2, <2>3, <2>4, Zenon DEF Answered, PackageOf, FirstPackages
  <1> QED
    BY <1>1, <1>2, Zenon DEF PullInv, Report

\* A step that moves nothing of the pull.
LEMMA StepNone ==
  ASSUME PullInv, UNCHANGED <<report, requests, replies, temp, writing>>,
         "pull" \in mixed' <=> "pull" \in mixed
  PROVE  PullInv'
  <1>1. Asked => Asked'
    BY Zenon DEF Asked, FirstPackages, PackageOf
  <1>2. Answered => Answered'
    BY Zenon DEF Answered, FirstPackages, PackageOf
  <1>3. Writing => Writing'
    BY Zenon DEF Writing, FirstPackages, PackageOf
  <1>4. Idle => Idle'
    BY Zenon DEF Idle
  <1> QED
    BY <1>1, <1>2, <1>3, <1>4, Zenon DEF PullInv, Report

\* A loss ends the pull; the text is taken up again with the next report.
LEMMA StepLoss ==
  ASSUME PullInv, Loss
  PROVE  PullInv'
  <1>1. UNCHANGED <<report, temp, writing, mixed>>
        /\ requests' \subseteq requests /\ replies' \subseteq replies
    BY Zenon DEF Loss, LoseRequest, LoseReply
  <1>2. \/ (requests' = {} /\ replies' = {}) \/ UNCHANGED <<requests, replies>>
        \/ "pull" \in mixed
    BY <1>1, Zenon DEF PullInv, Asked, Answered, Writing, Idle
  <1>3. CASE UNCHANGED <<requests, replies>>
    BY <1>1, <1>3, StepNone, Zenon
  <1>4. CASE requests' = {} /\ replies' = {}
    <2>1. "pull" \in mixed \/ Idle' \/ Writing'
      BY <1>1, <1>4, Zenon DEF PullInv, Asked, Answered, Writing, Idle,
         FirstPackages, PackageOf
    <2> QED
      BY <1>1, <2>1, Zenon DEF PullInv, Report
  <1>5. CASE "pull" \in mixed
    BY <1>1, <1>5, Zenon DEF PullInv, Report
  <1> QED
    BY <1>2, <1>3, <1>4, <1>5

LEMMA StepPull ==
  ASSUME Copied, PullInv, [Next]_vars
  PROVE  PullInv'
  <1>1. CASE OnTimer
    BY <1>1, StepOnTimer
  <1>2. CASE OnReHeartBeat
    BY <1>2, StepPublish, StepOnPackage, StepOnLastPackage, Zenon DEF OnReHeartBeat
  <1>3. CASE UpdatedMonitorData
    <2>1. "pull" \in mixed' <=> "pull" \in mixed
      BY <1>3, CarriedElsewhere, Zenon DEF UpdatedMonitorData
    <2> QED
      BY <1>3, <2>1, StepNone, Zenon DEF UpdatedMonitorData
  <1>4. CASE Remote
    BY <1>4, StepRemoteReport, StepRemotePackage, Zenon DEF Remote
  <1>5. CASE Loss
    BY <1>5, StepLoss
  <1>6. CASE UNCHANGED vars
    BY <1>6, StepNone, Zenon DEF vars
  <1> QED
    BY <1>1, <1>2, <1>3, <1>4, <1>5, <1>6, Zenon DEF Next

----------------------------------------------------------------------------
(* The state keeps its shape, whatever the network and the timer do *)

\* A package that was sent belongs to a report and has a place in it.
LEMMA PlaceOfPackage ==
  ASSUME NEW p \in Packages
  PROVE  /\ p.index \in 0 .. MaxPackages - 1
         /\ ~p.complete => p.index + 1 \in 0 .. MaxPackages - 1
  <1>1. PICK r \in Report : \E i \in 0 .. r.packages - 1 : p = PackageOf(r, i)
    BY Zenon DEF Packages
  <1> PICK i \in 0 .. r.packages - 1 : p = PackageOf(r, i)
    BY <1>1
  <1>2. p.index = i /\ p.complete = (i + 1 = r.packages)
    BY Zenon DEF PackageOf
  <1>3. r.packages \in 1 .. MaxPackages
    BY DEF Report
  <1>4. ~p.complete => i + 1 # r.packages
    BY <1>2, Zenon
  <1>5. i \in 0 .. MaxPackages - 1
    BY <1>3, PackagesAssumption
  <1>6. i + 1 # r.packages => i + 1 \in 0 .. MaxPackages - 1
    BY <1>3, PackagesAssumption
  <1> QED
    BY <1>2, <1>4, <1>5, <1>6, Zenon

\* The package a report has at a place is one of the packages.
LEMMA PackageAtPlace ==
  ASSUME NEW r \in Report, NEW i \in 0 .. r.packages - 1
  PROVE  PackageOf(r, i) \in Packages
  <1>1. PackageOf(r, i) \in {PackageOf(r, j) : j \in 0 .. r.packages - 1}
    OBVIOUS
  <1> QED
    BY <1>1, Zenon DEF Packages

\* What is stored is a sequence of what was there and of what has arrived.
LEMMA StoredTyped ==
  ASSUME NEW S, NEW p \in S, temp \in Seq(S)
  PROVE  Stored(p) \in Seq(S)
  <1>1. Text(p) \in Seq(S)
    <2>1. <<p>> \in Seq(S) /\ <<>> \in Seq(S)
      OBVIOUS
    <2> QED
      BY <2>1, Zenon DEF Text
  <1>2. temp \o Text(p) \in Seq(S)
    BY <1>1
  <1> QED
    BY <1>1, <1>2, Zenon DEF Stored

\* What is in flight after a delivery was in flight before it; the histories of
\* the network keep their shape.
LEMMA TakenTyped ==
  ASSUME NEW net, NEW left, NEW m, Taken(net, left, m),
         doubled \in 0 .. MaxDoubled, mixed \subseteq {"pull", "info", "shown"}
  PROVE  /\ left \subseteq net
         /\ doubled' \in 0 .. MaxDoubled /\ mixed' \subseteq {"pull", "info", "shown"}
  <1>1. left \subseteq net /\ mixed' \subseteq {"pull", "info", "shown"}
    BY Zenon DEF Taken
  <1>2. doubled' \in 0 .. MaxDoubled
    BY DoubledAssumption DEF Taken
  <1> QED
    BY <1>1, <1>2

\* Every request asks for a package that a report may have, every reply carries
\* one, and the texts are made of them: onReHeartBeat never asks for an index
\* that does not fit into a short, however requests and reports overlap.
THEOREM TypeCorrect == Spec => []TypeOK
  <1>1. Init => TypeOK
    <2> SUFFICES ASSUME Init PROVE TypeOK
      OBVIOUS
    <2>1. report \in Report
      BY PackagesAssumption DEF Init, Report
    <2>2. <<>> \in Seq(Packages) /\ 0 \in 0 .. MaxDoubled
      BY DoubledAssumption
    <2> QED
      BY <2>1, <2>2, Zenon DEF Init, TypeOK
  <1>2. TypeOK /\ [Next]_vars => TypeOK'
    <2> SUFFICES ASSUME TypeOK, [Next]_vars PROVE TypeOK'
      OBVIOUS
    <2> USE DEF TypeOK
    <2>1. CASE OnTimer
      <3>1. 0 \in 0 .. MaxPackages - 1
        BY PackagesAssumption
      <3> QED
        BY <2>1, <3>1, Zenon DEF OnTimer
    <2>2. ASSUME NEW p \in replies, OnPackage(p) PROVE TypeOK'
      <3>1. p \in Packages /\ ~p.complete
        BY <2>2, Zenon DEF OnPackage
      <3>2. p.index \in Nat /\ p.index + 1 < 32768
            /\ p.index + 1 \in 0 .. MaxPackages - 1
        BY <3>1, PlaceOfPackage, PackagesAssumption
      <3>3. AskedNext(p) \in 0 .. MaxPackages - 1
        BY <3>2, NextOfIndex DEF AskedNext
      <3>4. temp' \in Seq(Packages)
        BY <2>2, <3>1, StoredTyped, Zenon DEF OnPackage
      <3>5. replies' \subseteq replies /\ doubled' \in 0 .. MaxDoubled
            /\ mixed' \subseteq {"pull", "info", "shown"}
        BY <2>2, TakenTyped, Zenon DEF OnPackage
      <3> QED
        BY <2>2, <3>3, <3>4, <3>5, Zenon DEF OnPackage
    <2>3. ASSUME NEW p \in replies, OnLastPackage(p) PROVE TypeOK'
      <3>1. temp' \in Seq(Packages)
        BY <2>3, StoredTyped, Zenon DEF OnLastPackage
      <3>2. replies' \subseteq replies /\ doubled' \in 0 .. MaxDoubled
            /\ mixed' \subseteq {"pull", "info", "shown"}
        BY <2>3, TakenTyped, Zenon DEF OnLastPackage
      <3> QED
        BY <2>3, <3>1, <3>2, Zenon DEF OnLastPackage
    <2>4. CASE Publish
      BY <2>4, Zenon DEF Publish, Published, Carried
    <2>5. CASE UpdatedMonitorData
      BY <2>5, Zenon DEF UpdatedMonitorData, Carried
    <2>6. CASE RemoteReport
      <3>1. report' \in Report /\ 0 \in 0 .. report'.packages - 1
        BY <2>6, PackagesAssumption DEF RemoteReport, Report
      <3>2. PackageOf(report', 0) \in Packages
        BY <3>1, PackageAtPlace
      <3>3. requests' \subseteq requests /\ doubled' \in 0 .. MaxDoubled
            /\ mixed' \subseteq {"pull", "info", "shown"}
        BY <2>6, TakenTyped, Zenon DEF RemoteReport
      <3> QED
        BY <2>6, <3>1, <3>2, <3>3, Zenon DEF RemoteReport, Packages, Report, PackageOf
    <2>7. ASSUME NEW i \in requests, RemotePackage(i) PROVE TypeOK'
      <3>1. i < report.packages => PackageOf(report, i) \in Packages
        <4>1. i \in 0 .. MaxPackages - 1 /\ report.packages \in 1 .. MaxPackages
          BY DEF Report
        <4>2. i < report.packages => i \in 0 .. report.packages - 1
          BY <4>1, PackagesAssumption
        <4> QED
          BY <4>2, PackageAtPlace
      <3>2. requests' \subseteq requests /\ doubled' \in 0 .. MaxDoubled
            /\ mixed' \subseteq {"pull", "info", "shown"}
        BY <2>7, TakenTyped, Zenon DEF RemotePackage
      <3> QED
        BY <2>7, <3>1, <3>2, Zenon DEF RemotePackage
    <2>8. CASE Loss
      BY <2>8, Zenon DEF Loss, LoseRequest, LoseReply
    <2>9. CASE UNCHANGED vars
      BY <2>9, Zenon DEF vars
    <2> QED
      BY <2>1, <2>2, <2>3, <2>4, <2>5, <2>6, <2>7, <2>8, <2>9, Zenon
         DEF Next, OnReHeartBeat, Remote
  <1> QED
    BY <1>1, <1>2, PTL DEF Spec

----------------------------------------------------------------------------
(* The texts *)

\* What is published and shown, as ShownWhole promises it.
TextsInv ==
  /\ "info" \in mixed \/ WholeOrNone(info)
  /\ "shown" \in mixed \/ shown = Torn \/ WholeOrNone(shown)
  /\ shown = Torn => writing \/ pending

\* A text that is being assigned in an undisturbed pull is whole.
LEMMA WritingWhole ==
  ASSUME PullInv, writing, "pull" \notin mixed
  PROVE  Writing /\ report \in Report /\ Whole(temp)
  BY AllPackages, Zenon DEF PullInv, Asked, Answered, Writing, Idle

\* The steps that leave the texts alone can only mark the pull.
LEMMA TextsAlone ==
  ASSUME [Next]_vars, ~Publish, ~UpdatedMonitorData
  PROVE  /\ UNCHANGED <<info, shown, pending>> /\ (writing => writing')
         /\ "info" \in mixed' <=> "info" \in mixed
         /\ "shown" \in mixed' <=> "shown" \in mixed
  <1> DEFINE Alone == /\ UNCHANGED <<info, shown, pending>> /\ (writing => writing')
                      /\ "info" \in mixed' <=> "info" \in mixed
                      /\ "shown" \in mixed' <=> "shown" \in mixed
  <1>1. OnTimer => Alone
    BY DEF OnTimer, Idle
  <1>2. ASSUME NEW p \in replies PROVE OnPackage(p) => Alone
    BY Zenon DEF OnPackage, Taken
  <1>3. ASSUME NEW p \in replies PROVE OnLastPackage(p) => Alone
    BY Zenon DEF OnLastPackage, Taken
  <1>4. RemoteReport => Alone
    BY DEF RemoteReport, Taken
  <1>5. ASSUME NEW i \in requests PROVE RemotePackage(i) => Alone
    BY DEF RemotePackage, Taken
  <1>6. Loss => Alone
    BY DEF Loss, LoseRequest, LoseReply
  <1>7. UNCHANGED vars => Alone
    BY DEF vars
  <1>8. Alone
    <2> HIDE DEF Alone
    <2> QED
      BY <1>1, <1>2, <1>3, <1>4, <1>5, <1>6, <1>7, Zenon
         DEF Next, OnReHeartBeat, Remote
  <1> QED
    BY <1>8

\* What a reader may find during an assignment is no text of packages.
LEMMA TornIsNoText == Torn \notin Seq(Packages)
  <1>1. \A p \in Packages : p.report \in 0 .. MaxReports
    BY DEF Packages, PackageOf, Report
  <1>2. Torn[1].report = -1 /\ Len(Torn) = 1
    BY DEF Torn
  <1>3. ASSUME Torn \in Seq(Packages) PROVE FALSE
    <2>1. Torn[1] \in Packages
      BY <1>2, <1>3
    <2> QED
      BY <1>1, <1>2, <2>1, PackagesAssumption
  <1> QED
    BY <1>3

LEMMA StepTexts ==
  ASSUME TypeOK, PullInv, TextsInv, [Next]_vars
  PROVE  TextsInv'
  <1>1. CASE Publish
    <2>1. "shown" \in mixed' <=> "shown" \in mixed
      BY <1>1, Zenon DEF Publish, Carried
    <2>2. "info" \notin mixed' => "pull" \notin mixed
      BY <1>1, Zenon DEF Publish, Carried
    <2>3. info' = temp /\ writing /\ pending' /\ shown' = shown
      BY <1>1, Zenon DEF Publish, Published
    <2> QED
      BY <2>1, <2>2, <2>3, WritingWhole, Zenon DEF TextsInv, WholeOrNone, Whole
  <1>2. CASE UpdatedMonitorData
    <2>1. /\ info' = info /\ writing' = writing
          /\ "info" \in mixed' <=> "info" \in mixed
      BY <1>2, Zenon DEF UpdatedMonitorData, Carried
    <2>2. CASE shown' = info /\ mixed' = Carried("info", "shown")
      <3>1. "shown" \notin mixed' => "info" \notin mixed
        BY <2>2, Zenon DEF Carried
      <3>2. shown' = Torn => writing'
        BY <2>2, TornIsNoText, Zenon DEF TypeOK
      <3> QED
        BY <2>1, <2>2, <3>1, <3>2, Zenon DEF TextsInv, WholeOrNone, Whole
    <2>3. CASE writing /\ shown' \in {temp, Torn} /\ mixed' = Carried("pull", "shown")
      <3>1. "shown" \notin mixed' => "pull" \notin mixed
        BY <2>3, Zenon DEF Carried
      <3> QED
        BY <2>1, <2>3, <3>1, WritingWhole, Zenon DEF TextsInv, WholeOrNone, Whole
    <2> QED
      BY <1>2, <2>2, <2>3, Zenon DEF UpdatedMonitorData
  <1>3. CASE ~Publish /\ ~UpdatedMonitorData
    BY <1>3, TextsAlone, Zenon DEF TextsInv, WholeOrNone, Whole
  <1> QED
    BY <1>1, <1>2, <1>3

\* The invariants of the pull and of its texts.
LEMMA PullInvariant ==
  ASSUME Copied
  PROVE  Spec => [](PullInv /\ TextsInv)
  <1>1. Init => PullInv /\ TextsInv
    <2> SUFFICES ASSUME Init PROVE PullInv /\ TextsInv
      OBVIOUS
    <2>1. report \in Report
      BY PackagesAssumption DEF Init, Report
    <2>2. shown # Torn
      BY DEF Init, Torn
    <2> QED
      BY <2>1, <2>2, Zenon DEF Init, PullInv, TextsInv, Idle, WholeOrNone
  <1>2. TypeOK /\ PullInv /\ TextsInv /\ [Next]_vars => (PullInv /\ TextsInv)'
    BY StepPull, StepTexts
  <1> QED
    BY <1>1, <1>2, TypeCorrect, PTL DEF Spec

\* Whatever the network loses and delivers twice, whenever the heartbeats come
\* and however many packages a report has: a text that is not a whole report
\* comes from a pull that was disturbed itself, and a torn one is read again.
THEOREM WholeReports == Spec => []ShownWhole
  <1>1. CASE Copied
    <2>1. Spec => [](PullInv /\ TextsInv)
      BY <1>1, PullInvariant
    <2>2. TextsInv => ShownWhole
      BY DEF TextsInv, ShownWhole
    <2> QED
      BY <2>1, <2>2, PTL
  <1>2. CASE ~Copied
    <2>1. ShownWhole
      BY <1>2, Zenon DEF ShownWhole
    <2> QED
      BY <2>1, PTL
  <1> QED
    BY <1>1, <1>2

----------------------------------------------------------------------------
(* What is shown only becomes newer *)

\* The packages of the reports up to number n.
UpTo(n) == {p \in Packages : p.report <= n}

\* Nothing in flight, stored or shown is newer than the report the DSServer has
\* taken last; and an undisturbed text that is to be shown is not older than the
\* one on the screen.
AgesInv ==
  /\ replies \subseteq UpTo(report.number)
  /\ {temp, info} \subseteq Seq(UpTo(report.number))
  /\ shown = Torn \/ shown \in Seq(UpTo(report.number))
  /\ pending /\ "info" \notin mixed /\ shown # Torn => NotOlder(info, shown)

\* A later report only adds to the packages.
LEMMA UpToGrows ==
  ASSUME NEW n \in Int, NEW m \in Int, n <= m
  PROVE  /\ UpTo(n) \subseteq UpTo(m)
         /\ Seq(UpTo(n)) \subseteq Seq(UpTo(m))
  <1>1. \A p \in Packages : p.report \in Int
    BY PackagesAssumption DEF Packages, PackageOf, Report
  <1>2. UpTo(n) \subseteq UpTo(m)
    BY <1>1 DEF UpTo
  <1> QED
    BY <1>2

\* A whole text of the last report is not older than anything.
LEMMA WholeNotOlder ==
  ASSUME NEW r \in Report, NEW text, text = FirstPackages(r, r.packages),
         NEW old \in Seq(UpTo(r.number))
  PROVE  NotOlder(text, old)
  <1>1. r.packages \in Nat /\ 1 <= r.packages /\ r.number \in Nat
    BY PackagesAssumption DEF Report
  <1> DEFINE P(j) == PackageOf(r, j)
  <1>2. P(0).report = r.number
    BY Zenon DEF PackageOf
  <1>3. text = [j \in 1 .. r.packages |-> P(j - 1)]
    BY Zenon DEF FirstPackages
  <1> HIDE DEF P
  <1>4. text # <<>> /\ text[1].report = r.number
    <2>1. /\ [j \in 1 .. r.packages |-> P(j - 1)][1] = P(0)
          /\ [j \in 1 .. r.packages |-> P(j - 1)] # <<>>
      BY <1>1
    <2> QED
      BY <1>2, <1>3, <2>1, Zenon
  <1>5. \A i \in DOMAIN old : old[i].report <= r.number
    <2>1. \A i \in DOMAIN old : old[i] \in UpTo(r.number)
      OBVIOUS
    <2> QED
      BY <2>1, Zenon DEF UpTo
  <1> QED
    BY <1>4, <1>5 DEF NotOlder

\* What is stored consists of packages that were there or have arrived.
LEMMA AgesOnPackage ==
  ASSUME AgesInv, NEW p \in replies, OnPackage(p) \/ OnLastPackage(p)
  PROVE  AgesInv'
  <1>1. p \in UpTo(report.number) /\ temp \in Seq(UpTo(report.number))
    BY Zenon DEF AgesInv
  <1>2. temp' \in Seq(UpTo(report.number))
    BY <1>1, StoredTyped, Zenon DEF OnPackage, OnLastPackage
  <1>3. /\ UNCHANGED <<report, info, shown, pending>> /\ replies' \subseteq replies
        /\ "info" \notin mixed' => "info" \notin mixed
    BY DEF OnPackage, OnLastPackage, Taken
  <1> QED
    BY <1>2, <1>3, Zenon DEF AgesInv, UpTo, NotOlder

\* A package of the DSServer belongs to the report it has taken last.
LEMMA AgesRemote ==
  ASSUME TypeOK, PullInv', AgesInv, Remote
  PROVE  AgesInv'
  <1>1. report \in Report /\ report' \in Report
    BY Zenon DEF TypeOK, PullInv, Report
  <1>2. report.number \in Int /\ report'.number \in Int
    BY <1>1, PackagesAssumption DEF Report
  <1>3. /\ report.number <= report'.number /\ UNCHANGED <<temp, info, shown, pending>>
        /\ "info" \notin mixed' => "info" \notin mixed
    <2>1. CASE RemoteReport
      BY <1>2, <2>1 DEF RemoteReport, Taken
    <2>2. ASSUME NEW i \in requests, RemotePackage(i)
          PROVE  /\ report' = report /\ UNCHANGED <<temp, info, shown, pending>>
                 /\ "info" \notin mixed' => "info" \notin mixed
      BY <2>2 DEF RemotePackage, Taken
    <2>3. report' = report => report.number <= report'.number
      BY <1>2
    <2> QED
      BY <2>1, <2>2, <2>3, Zenon DEF Remote
  <1>4. /\ UpTo(report.number) \subseteq UpTo(report'.number)
        /\ Seq(UpTo(report.number)) \subseteq Seq(UpTo(report'.number))
    BY <1>2, <1>3, UpToGrows
  <1>5. \A i \in 0 .. report'.packages - 1 : PackageOf(report', i) \in UpTo(report'.number)
    <2> TAKE i \in 0 .. report'.packages - 1
    <2>1. PackageOf(report', i) \in Packages
      BY <1>1, PackageAtPlace
    <2>2. PackageOf(report', i).report = report'.number
      BY Zenon DEF PackageOf
    <2> QED
      BY <1>2, <2>1, <2>2 DEF UpTo
  <1>6. replies' \subseteq UpTo(report'.number)
    <2>1. CASE RemoteReport
      <3>1. 0 \in 0 .. report'.packages - 1
        BY <1>1, PackagesAssumption DEF Report
      <3> QED
        BY <1>4, <1>5, <2>1, <3>1, Zenon DEF RemoteReport, AgesInv
    <2>2. ASSUME NEW i \in requests, RemotePackage(i)
          PROVE  replies' \subseteq UpTo(report'.number)
      <3>1. report' = report
        BY <2>2, Zenon DEF RemotePackage
      <3>2. i < report.packages => i \in 0 .. report'.packages - 1
        BY <1>1, <3>1, PackagesAssumption DEF TypeOK, Report
      <3> QED
        BY <1>4, <1>5, <2>2, <3>1, <3>2, Zenon DEF RemotePackage, AgesInv
    <2> QED
      BY <2>1, <2>2, Zenon DEF Remote
  <1> QED
    BY <1>3, <1>4, <1>6, Zenon DEF AgesInv, NotOlder

\* Every step keeps the ages in order, and shows nothing older from an
\* undisturbed pull.
LEMMA AgesStep ==
  ASSUME TypeOK, PullInv, PullInv', AgesInv, [Next]_vars
  PROVE  /\ AgesInv'
         /\ Torn \notin {shown, shown'} /\ "shown" \notin mixed' =>
              shown' = shown \/ NotOlder(shown', shown)
  <1>1. ASSUME writing, "pull" \notin mixed, shown # Torn PROVE NotOlder(temp, shown)
    BY <1>1, WritingWhole, WholeNotOlder, Zenon DEF Writing, AgesInv
  <1>2. CASE Publish
    <2>1. info' = temp /\ UNCHANGED <<report, replies, temp, shown>> /\ writing
      BY <1>2, Zenon DEF Publish, Published
    <2>2. "info" \notin mixed' => "pull" \notin mixed
      BY <1>2, Zenon DEF Publish, Carried
    <2> QED
      BY <1>1, <2>1, <2>2, Zenon DEF AgesInv, NotOlder
  <1>3. CASE UpdatedMonitorData
    <2>1. pending /\ ~pending' /\ UNCHANGED <<report, replies, temp, info, writing>>
      BY <1>3, Zenon DEF UpdatedMonitorData
    <2>2. CASE shown' = info /\ mixed' = Carried("info", "shown")
      <3>1. "shown" \notin mixed' => "info" \notin mixed
        BY <2>2, Zenon DEF Carried
      <3> QED
        BY <2>1, <2>2, <3>1, Zenon DEF AgesInv
    <2>3. CASE writing /\ shown' \in {temp, Torn} /\ mixed' = Carried("pull", "shown")
      <3>1. "shown" \notin mixed' => "pull" \notin mixed
        BY <2>3, Zenon DEF Carried
      <3> QED
        BY <1>1, <2>1, <2>3, <3>1, Zenon DEF AgesInv
    <2> QED
      BY <1>3, <2>2, <2>3, Zenon DEF UpdatedMonitorData
  <1>4. CASE Remote
    <2>1. shown' = shown
      BY <1>4, Zenon DEF Remote, RemoteReport, RemotePackage
    <2> QED
      BY <1>4, <2>1, AgesRemote
  <1>5. ASSUME NEW p \in replies, OnPackage(p) \/ OnLastPackage(p)
        PROVE  AgesInv' /\ shown' = shown
    BY <1>5, AgesOnPackage, Zenon DEF OnPackage, OnLastPackage
  <1>6. CASE OnTimer \/ Loss \/ UNCHANGED vars
    <2>1. /\ UNCHANGED <<report, temp, info, shown, pending>>
          /\ replies' \subseteq replies
          /\ "info" \notin mixed' => "info" \notin mixed
      BY <1>6 DEF OnTimer, Loss, LoseRequest, LoseReply, vars
    <2> QED
      BY <2>1, Zenon DEF AgesInv, NotOlder
  <1> QED
    BY <1>2, <1>3, <1>4, <1>5, <1>6, Zenon DEF Next, OnReHeartBeat

\* What MonitorWidget is shown from an undisturbed pull is never older than what
\* it replaces nor nothing, whatever is lost, overlaps or is delivered twice before,
\* and for any number of reports.
THEOREM NeverOlder == Spec => NeverBack
  <1>1. CASE Copied
    <2>1. Spec => [](PullInv /\ TextsInv)
      BY <1>1, PullInvariant
    <2>2. Init => AgesInv
      <3>1. \A S : <<>> \in Seq(S) /\ NotOlder(<<>>, <<>>) = FALSE
        BY DEF NotOlder
      <3> QED
        BY <3>1, Zenon DEF Init, AgesInv
    <2>3. TypeOK /\ PullInv /\ PullInv' /\ AgesInv /\ [Next]_vars => AgesInv'
      BY AgesStep
    <2>4. TypeOK /\ PullInv /\ PullInv' /\ AgesInv /\ [Next]_vars =>
            [Copied /\ Torn \notin {shown, shown'} /\ "shown" \notin mixed' =>
               NotOlder(shown', shown)]_shown
      BY AgesStep
    <2> QED
      BY <2>1, <2>2, <2>3, <2>4, TypeCorrect, PTL DEF Spec, NeverBack
  <1>2. CASE ~Copied
    <2>1. [Copied /\ Torn \notin {shown, shown'} /\ "shown" \notin mixed' =>
             NotOlder(shown', shown)]_shown
      BY <1>2, Zenon
    <2> QED
      BY <2>1, PTL DEF NeverBack
  <1> QED
    BY <1>1, <1>2
=============================================================================
