---------------------------- MODULE PackageLink ----------------------------
(***************************************************************************)
(* A package through constructSendBuffer and out of a RecieveCommand, for  *)
(* every size of payload that the check of constructSendBuffer lets        *)
(* through, up to where it writes past the end of the buffer.              *)
(***************************************************************************)
EXTENDS Package

\* Indexes of packages of a series, as the 16 bits of a short.
CONSTANT Words

ASSUME WordsAssumption == \A w \in Words : w \in Nat /\ w < 65536

VARIABLES
  kind,      \* what was sent: "none", "plain" or "multi"
  payload,   \* the size of its payload
  sentIndex, \* its index
  written,   \* how many bytes constructSendBuffer wrote to sendBuf
  copied,    \* the number of payload bytes the receiver copied
  seen       \* the index the receiver read

linkVars == <<kind, payload, sentIndex, written, copied, seen>>

\* A command with its payload, as setData leaves it, for each payload that the
\* check of constructSendBuffer lets through.
LinkInit ==
  /\ kind = "none"
  /\ payload \in {n \in 0 .. MAX_BUF : Fits(n)}
  /\ sentIndex = 0 /\ written = 0 /\ copied = 0 /\ seen = 0

\* What was written past the end of sendBuf is undefined: the datagram may still
\* arrive, or nothing does.
Arrives(kept) == IF written' <= MAX_BUF THEN {kept} ELSE {kept, 0}

SendPlain ==
  /\ kind = "none"
  /\ kind' = "plain"
  /\ written' = Plain(payload).total
  /\ copied' \in Arrives(Data(Plain(payload)))
  /\ UNCHANGED <<payload, sentIndex, seen>>

SendMulti(i) ==
  /\ kind = "none"
  /\ kind' = "multi" /\ sentIndex' = i
  /\ written' = Multi(payload, i).total
  /\ copied' \in Arrives(Content(Multi(payload, i)))
  /\ seen' \in Arrives(MultiIndex(Multi(payload, i)))
  /\ UNCHANGED payload

LinkNext == SendPlain \/ \E w \in Words : SendMulti(Short(w))

LinkSpec == LinkInit /\ [][LinkNext]_linkVars

----------------------------------------------------------------------------
(* Properties *)

\* getData gives onReDeploy exactly the payload that was sent, whatever its
\* size: no mark is taken for payload and no byte of it is left out.
PlainKept == kind = "plain" => written <= MAX_BUF /\ copied = payload

\* The largest payload whose package of a series has room in sendBuf.
Roomy == MAX_BUF - MULTI_ADDITIONAL_SIZE

\* constructSendBuffer lets a package of a series through by the size of a plain
\* one: it writes past the end of sendBuf for the payloads of the three bytes
\* between the two, by as many bytes, and for no other.
OverrunAtTop ==
  kind = "multi" =>
    IF payload <= Roomy THEN written <= MAX_BUF
                        ELSE written - MAX_BUF = payload - Roomy /\ payload - Roomy <= 3

\* Up to there getMultiPakageContent gives onReHeartBeat the whole of a payload
\* that is at least as long as the marks around it; a shorter one it does not
\* copy.
LongContentKept ==
  kind = "multi" /\ payload <= Roomy =>
    copied = IF payload >= MULTI_ADDITIONAL_SIZE THEN payload ELSE 0

\* So does the index of a package survive the two bytes it travels in, the
\* negative ones that an index has after 32767 included.
IndexKept == kind = "multi" /\ payload <= Roomy => seen = sentIndex

\* What a package carries, the receiver reads (constructSendBuffer against
\* getData, getMultiPakageContent and getMultiIndex), a package of a series with
\* 4087 to 4089 bytes excepted: that one is written past the end of sendBuf.
PackageKept == PlainKept /\ OverrunAtTop /\ LongContentKept /\ IndexKept
============================================================================
