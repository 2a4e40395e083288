--------------------------- MODULE SdoServerProofs --------------------------
(***************************************************************************)
(* Proofs about SdoServer, for every dictionary, every set of transfers    *)
(* and every timeout: an abort lacks its reason only after the transmit    *)
(* object was full, the server stays within its buffer, and with clients   *)
(* that wait for the answers of a transfer before they begin the next, no  *)
(* variable mixes two transfers and success is true.                       *)
(***************************************************************************)
EXTENDS SdoServer, SequenceTheorems, TLAPS

(* An abort that does not say why.                                         *)
Unexplained(m) == m.cs = "abort" /\ m.code = "NONE"

(* The messages of a sequence are explained, or the excuse holds.          *)
Honest(s, excuse) ==
  \E S : s \in Seq(S) /\ \A m \in S : Unexplained(m) => excuse

(* A server that is to send an abort knows the reason, and forgets it only *)
(* with the call, when the transmit object was full.                       *)
ReasonKnown ==
  state = "ABORT" => codeLost \/ (pc # "between" /\ abortCode # "NONE")

IInv ==
  /\ ReasonKnown
  /\ Honest(bus, codeLost)
  /\ Honest(held, codeLost)

---------------------------------------------------------------------------
(* Honest sequences                                                        *)

LEMMA HonestEmpty == ASSUME NEW excuse PROVE Honest(<< >>, excuse)
  <1> DEFINE none == {}
  <1>1. << >> \in Seq(none)
    OBVIOUS
  <1>2. ASSUME NEW m \in none PROVE Unexplained(m) => excuse
    <2>1. FALSE
      BY <1>2
    <2> QED BY <2>1
  <1> HIDE DEF none
  <1> QED BY <1>1, <1>2 DEF Honest

LEMMA HonestOne ==
  ASSUME NEW excuse, NEW m, Unexplained(m) => excuse
  PROVE  Honest(<<m>>, excuse)
  <1>1. <<m>> \in Seq({m}) OBVIOUS
  <1>2. \A n \in {m} : Unexplained(n) => excuse OBVIOUS
  <1> QED BY <1>1, <1>2 DEF Honest

(* An excuse that holds at a later time does as well.                      *)
LEMMA HonestWeaker ==
  ASSUME NEW s, NEW excuse, NEW other, Honest(s, excuse), excuse => other
  PROVE  Honest(s, other)
  BY Zenon DEF Honest

LEMMA HonestConcat ==
  ASSUME NEW s, NEW t, NEW excuse, Honest(s, excuse), Honest(t, excuse)
  PROVE  Honest(s \o t, excuse)
  <1>1. PICK S : s \in Seq(S) /\ \A m \in S : Unexplained(m) => excuse
    BY DEF Honest
  <1>2. PICK T : t \in Seq(T) /\ \A m \in T : Unexplained(m) => excuse
    BY DEF Honest
  <1>3. s \in Seq(S \cup T) /\ t \in Seq(S \cup T)
    BY <1>1, <1>2, SeqMonotonic
  <1>4. s \o t \in Seq(S \cup T)
    BY <1>3, ConcatProperties
  <1>5. \A m \in S \cup T : Unexplained(m) => excuse
    BY <1>1, <1>2
  <1> QED BY <1>4, <1>5 DEF Honest

LEMMA HonestAppend ==
  ASSUME NEW s, NEW m, NEW excuse, Honest(s, excuse), Unexplained(m) => excuse
  PROVE  Honest(Append(s, m), excuse)
  <1>1. PICK S : s \in Seq(S) /\ \A n \in S : Unexplained(n) => excuse
    BY DEF Honest
  <1>2. s \in Seq(S \cup {m})
    BY <1>1, SeqMonotonic
  <1>3. Append(s, m) \in Seq(S \cup {m})
    BY <1>2
  <1>4. \A n \in S \cup {m} : Unexplained(n) => excuse
    BY <1>1
  <1> QED BY <1>3, <1>4 DEF Honest

(* A frame leaves its mailbox.                                             *)
LEMMA HonestRemove ==
  ASSUME NEW s, NEW excuse, Honest(s, excuse), NEW k \in 1..Len(s)
  PROVE  Honest(RemoveAt(s, k), excuse)
  <1>1. PICK S : s \in Seq(S) /\ \A m \in S : Unexplained(m) => excuse
    BY DEF Honest
  <1>2. Len(s) \in Nat /\ \A i \in 1..Len(s) : s[i] \in S
    BY <1>1
  <1>3. k - 1 \in Int /\ k + 1 \in Int /\ 1 \in Int /\ Len(s) \in Int
    BY <1>2
  <1>4. (\A i \in 1..(k - 1) : s[i] \in S) /\ (\A i \in (k + 1)..Len(s) : s[i] \in S)
    BY <1>2
  <1>5. SubSeq(s, 1, k - 1) \in Seq(S) /\ SubSeq(s, k + 1, Len(s)) \in Seq(S)
    BY <1>3, <1>4, SubSeqProperties
  <1>6. SubSeq(s, 1, k - 1) \o SubSeq(s, k + 1, Len(s)) \in Seq(S)
    BY <1>5, ConcatProperties
  <1> QED BY <1>1, <1>6 DEF Honest, RemoveAt

---------------------------------------------------------------------------
(* The actions                                                             *)

LEMMA InitIInv == Init => IInv
  BY HonestEmpty DEF Init, IInv, ReasonKnown

(* What Send leaves on the bus and in the transmit object.                 *)
LEMMA SendHonest ==
  ASSUME NEW m, IInv, Send(m), Unexplained(m) => codeLost, codeLost' = codeLost
  PROVE  Honest(bus', codeLost') /\ Honest(held', codeLost')
  <1>1. CASE bus' = Append(bus, m) /\ UNCHANGED held
    BY <1>1, HonestAppend DEF IInv
  <1>2. CASE held' = <<m>> /\ UNCHANGED bus
    BY <1>2, HonestOne DEF IInv
  <1> QED BY <1>1, <1>2 DEF Send

(* A request, an abort of the client included, gives no reason to abort.   *)
LEMMA DeliverKeeps ==
  ASSUME IInv, NEW f, Deliver(f), UNCHANGED <<callSide, codeLost>>
  PROVE  ReasonKnown'
  BY DEF IInv, ReasonKnown, Deliver, Receive, callSide, slot

LEMMA BusShrinks ==
  ASSUME IInv, NEW k \in 1..Len(bus), bus' = RemoveAt(bus, k),
         UNCHANGED <<held, codeLost>>
  PROVE  Honest(bus', codeLost') /\ Honest(held', codeLost')
  BY HonestRemove DEF IInv

LEMMA HandleKeeps == ASSUME IInv, Handle PROVE ReasonKnown'
  <1>0. pc' = "timers" /\ codeLost' = codeLost
    BY DEF Handle
  <1>1. CASE DownloadInitiate
    BY <1>0, <1>1 DEF DownloadInitiate, DownloadExpedited, DownloadSegmented, EndCase, ReasonKnown
  <1>2. CASE DownloadSegment
    BY <1>0, <1>2 DEF DownloadSegment, EndCase, ReasonKnown
  <1>3. CASE UploadInitiate
    BY <1>0, <1>3 DEF UploadInitiate, EndCase, ReasonKnown
  <1>4. CASE UploadSegment
    BY <1>0, <1>4 DEF UploadSegment, EndCase, ReasonKnown
  <1>5. CASE Unknown
    BY <1>0, <1>5 DEF Unknown, EndCase, ReasonKnown
  <1> QED BY <1>1, <1>2, <1>3, <1>4, <1>5 DEF Handle

LEMMA RespondKeeps == ASSUME IInv, Respond PROVE IInv'
  <1>0. codeLost' = codeLost /\ abortCode' = abortCode /\ pc = "respond"
    BY DEF Respond
  <1>1. CASE RespondDownload
    <2> DEFINE r == [Response("download_segment") EXCEPT !.toggle = toggle, !.obj = NoObject]
    <2>a. Response("download").cs # "abort" /\ r.cs # "abort"
      BY DEF Response
    <2>b. Send(Response("download")) \/ Send(r)
      BY <1>1 DEF RespondDownload
    <2>1. PICK m : Send(m) /\ m.cs # "abort"
      BY <2>a, <2>b
    <2>2. ReasonKnown'
      BY <1>0, <1>1 DEF RespondDownload, IInv, ReasonKnown
    <2> QED BY <1>0, <2>1, <2>2, SendHonest DEF IInv, Unexplained
  <1>2. CASE RespondUploadInitiate
    <2> DEFINE r == [Response("upload") EXCEPT !.parts = buf]
    <2>a. Response("upload").cs # "abort" /\ r.cs # "abort"
      BY DEF Response
    <2>b. Send(Response("upload")) \/ Send(r)
      BY <1>2 DEF RespondUploadInitiate
    <2>1. PICK m : Send(m) /\ m.cs # "abort"
      BY <2>a, <2>b
    <2>2. ReasonKnown'
      BY <1>2 DEF RespondUploadInitiate, ReasonKnown
    <2> QED BY <1>0, <2>1, <2>2, SendHonest DEF IInv, Unexplained
  <1>3. CASE RespondUploadSegment
    <2> DEFINE p == buf[bufOffsetRd + 1]
               last == bufOffsetRd + 1 = Len(buf)
               r == [Response("upload_segment") EXCEPT !.toggle = toggle, !.last = last,
                                                       !.parts = <<p>>, !.obj = NoObject]
    <2>a. r.cs # "abort"
      BY DEF Response
    <2>b. Send(r)
      BY <1>3 DEF RespondUploadSegment
    <2>1. PICK m : Send(m) /\ m.cs # "abort"
      BY <2>a, <2>b
    <2>2. ReasonKnown'
      BY <1>3 DEF RespondUploadSegment, ReasonKnown
    <2> QED BY <1>0, <2>1, <2>2, SendHonest DEF IInv, Unexplained
  <1>4. CASE RespondAbort /\ state = "ABORT"
    <2> DEFINE m == [Response("abort") EXCEPT !.code = abortCode]
    <2>1. Send(m) /\ state' = "IDLE"
      BY <1>4 DEF RespondAbort
    <2>2. m.code = abortCode
      BY DEF Response
    <2>3. Unexplained(m) => codeLost
      BY <1>4, <2>2 DEF IInv, ReasonKnown, Unexplained
    <2> HIDE DEF m
    <2> QED BY <1>0, <2>1, <2>3, SendHonest DEF IInv, ReasonKnown
  <1>5. CASE RespondAbort /\ state # "ABORT"
    BY <1>0, <1>5 DEF RespondAbort, IInv, ReasonKnown, tx
  <1> QED BY <1>1, <1>2, <1>3, <1>4, <1>5 DEF Respond

LEMMA HearKeeps == ASSUME IInv, NEW k \in 1..Len(bus), Hear(k) PROVE IInv'
  <1>0. bus' = RemoveAt(bus, k) /\ UNCHANGED <<held, callSide, codeLost>>
    BY DEF Hear, callSide
  <1>1. Honest(bus', codeLost') /\ Honest(held', codeLost')
    BY <1>0, BusShrinks
  <1>2. UNCHANGED <<state, slot>> \/ \E f : Deliver(f)
    BY DEF Hear
  <1>3. ReasonKnown'
    BY <1>0, <1>2, DeliverKeeps DEF IInv, ReasonKnown, callSide
  <1> QED BY <1>1, <1>3 DEF IInv

LEMMA NextIInv == IInv /\ [Next]_vars => IInv'
  <1> SUFFICES ASSUME IInv, [Next]_vars PROVE IInv'
    OBVIOUS
  <1> DEFINE Quiescent == UNCHANGED <<bus, held, codeLost>>
  <1>0. Quiescent => Honest(bus, codeLost)' /\ Honest(held, codeLost)'
    BY DEF IInv
  <1>1. CASE \E allowed \in BOOLEAN : Begin(allowed)
    <2>1. Quiescent /\ ReasonKnown'
      BY <1>1 DEF Begin, IInv, ReasonKnown, tx
    <2> QED BY <1>0, <2>1 DEF IInv
  <1>2. CASE Lookup
    <2>1. Quiescent
      BY <1>2 DEF Lookup, tx
    <2>2. CASE state # "IDLE"
      BY <1>0, <1>2, <2>1, <2>2 DEF Lookup, IInv, ReasonKnown
    <2>3. CASE state = "IDLE"
      <3> DEFINE code == LookupCode(CANrxData)
      <3>1. abortCode' = code /\ pc' = "test" /\ (state' = "ABORT" => code # "NONE")
        BY <1>2, <2>3 DEF Lookup
      <3> HIDE DEF code
      <3> QED BY <1>0, <2>1, <3>1 DEF IInv, ReasonKnown
    <2> QED BY <2>2, <2>3
  <1>3. CASE Test
    BY <1>0, <1>3 DEF Test, IInv, ReasonKnown, tx
  <1>4. CASE Switch
    BY <1>0, <1>4 DEF Switch, IInv, ReasonKnown, tx
  <1>5. CASE Handle
    <2>1. Quiescent
      BY <1>5 DEF Handle, tx
    <2> QED BY <1>0, <1>5, <2>1, HandleKeeps DEF IInv
  <1>6. CASE \E elapsed \in 1..MaxElapsed : Timers(elapsed)
    <2>1. PICK elapsed \in 1..MaxElapsed : Timers(elapsed)
      BY <1>6
    <2>2. UNCHANGED <<bus, held>> /\ (codeLost => codeLost')
      BY <2>1 DEF Timers, tx
    <2>3. Honest(bus', codeLost') /\ Honest(held', codeLost')
      BY <2>2, HonestWeaker DEF IInv
    <2>4. state' = "ABORT" => abortCode' # "NONE" \/ codeLost
      BY <2>1 DEF Timers, EndCase, TimeoutCode, IInv, ReasonKnown
    <2>5. state' = "ABORT" => pc' # "between" \/ codeLost'
      BY <2>1 DEF Timers
    <2> QED BY <2>2, <2>3, <2>4, <2>5 DEF IInv, ReasonKnown
  <1>7. CASE Transmit
    BY <1>0, <1>7 DEF Transmit, IInv, ReasonKnown, tx
  <1>8. CASE Respond
    BY <1>8, RespondKeeps
  <1>9. CASE Sent
    BY <1>0, <1>9 DEF Sent, IInv, ReasonKnown, tx
  <1>10. CASE TxIsr
    <2>1. Honest(bus', codeLost') /\ Honest(held', codeLost')
      BY <1>10, HonestConcat, HonestEmpty DEF TxIsr, IInv, serverSide
    <2> QED BY <1>10, <2>1 DEF TxIsr, serverSide, IInv, ReasonKnown
  <1>11. CASE Lose
    BY <1>11, BusShrinks DEF Lose, serverSide, IInv, ReasonKnown
  <1>12. CASE \E j \in Jobs : Start(j)
    <2>1. Quiescent /\ UNCHANGED callSide /\ \E f : Deliver(f)
      BY <1>12 DEF Start, callSide, tx
    <2> QED BY <1>0, <2>1, DeliverKeeps DEF IInv
  <1>13. CASE GiveUp
    <2>1. Quiescent /\ UNCHANGED callSide /\ \E f : Deliver(f)
      BY <1>13 DEF GiveUp, callSide, tx
    <2> QED BY <1>0, <2>1, DeliverKeeps DEF IInv
  <1>14. CASE \E k \in 1..Len(bus) : Hear(k)
    BY <1>14, HearKeeps
  <1>15. CASE UNCHANGED vars
    BY <1>0, <1>15 DEF vars, tx, IInv, ReasonKnown
  <1> QED BY <1>1, <1>2, <1>3, <1>4, <1>5, <1>6, <1>7, <1>8, <1>9, <1>10, <1>11,
             <1>12, <1>13, <1>14, <1>15 DEF Next, Process, Client

(* The invariant holds in every state of the server and its clients.       *)
THEOREM Invariance == Spec => []IInv
  BY InitIInv, NextIInv, PTL DEF Spec

(* For every dictionary, all transfers and any loss of frames: an abort    *)
(* without a reason, code 0, is on the bus only after the transmit object  *)
(* of the server was full when the reason was found.  (abortCode, a local  *)
(* variable of CO_SDOserver_process.)                                      *)
THEOREM AbortsKeepReason == Spec => []OnlyFullLosesCode
  <1>1. IInv => OnlyFullLosesCode
    <2> SUFFICES ASSUME IInv, NEW k \in 1..Len(bus),
                        bus[k].cs = "abort", bus[k].code = "NONE"
                 PROVE  codeLost
      BY DEF OnlyFullLosesCode
    <2>1. PICK S : bus \in Seq(S) /\ \A m \in S : Unexplained(m) => codeLost
      BY DEF IInv, Honest
    <2>2. bus[k] \in S
      BY <2>1
    <2> QED BY <2>1, <2>2 DEF Unexplained
  <1> QED BY <1>1, Invariance, PTL

---------------------------------------------------------------------------
(* The types: the server's buffer and its counts                           *)

(* A part that has bytes.                                                  *)
GoodPart == {p \in Part : p.part >= 1 /\ 7 * (p.part - 1) < p.of}

(* A request carries one part at most, and a segment that is not the last  *)
(* carries seven bytes.                                                    *)
GoodRequest(f) ==
  /\ f \in Requests
  /\ f.parts \in Seq(GoodPart) /\ Len(f.parts) <= 1
  /\ f.ind => f.size >= 1
  /\ f.cs = "download_segment" =>
       Len(f.parts) = 1 /\ (~f.last => Count(f.parts[1]) = 7)

GoodValue(v) ==
  /\ v \in [parts : Seq(Part), size : Nat]
  /\ v.parts \in Seq(GoodPart) /\ Len(v.parts) >= 1 /\ Len(v.parts) <= 4

(* Between two segments the buffer holds the bytes counted, and no more    *)
(* than the variable takes.                                                *)
Filling ==
  /\ obj \in Objects /\ sizeTran = 7 * Len(buf) /\ sizeTran <= Dict[obj].size
  /\ bufOffsetRd = 0

(* An upload has a part left to send.                                      *)
Reading == bufOffsetRd < Len(buf) /\ sizeTran <= 7 * bufOffsetRd

(* What a state of the transfer has to find.                               *)
Mode(s) ==
  /\ s \in {"DOWNLOAD_INITIATE_REQ", "DOWNLOAD_INITIATE_RSP"} => obj \in Objects
  /\ s = "DOWNLOAD_SEGMENT_REQ" => Filling
  /\ s = "DOWNLOAD_SEGMENT_RSP" => finished \/ Filling
  /\ s \in {"UPLOAD_INITIATE_REQ", "UPLOAD_INITIATE_RSP", "UPLOAD_SEGMENT_REQ",
            "UPLOAD_SEGMENT_RSP"} => Reading

(* The state is read once for the switch and once for the answer; what the *)
(* interrupt makes of it in between does not matter.                       *)
Modes ==
  /\ Mode(state)
  /\ pc \in {"handle", "respond", "sent"} => Mode(cur)
  /\ pc = "sent" => cur \in {"DOWNLOAD_INITIATE_RSP", "DOWNLOAD_SEGMENT_RSP"}

CallOK ==
  /\ state \in States /\ cur \in States
  /\ timeoutTimer \in 0..(SDOtimeoutTime + MaxElapsed - 1)
  /\ pc \in {"between", "lookup", "test", "switch", "handle", "timers", "transmit",
             "respond", "sent"}
  /\ isNew \in BOOLEAN /\ abortCode \in AbortCodes /\ codeLost \in BOOLEAN

SlotOK == CANrxNew \in BOOLEAN /\ GoodRequest(CANrxData)

TransferOK ==
  /\ obj \in Names /\ sizeInd \in Nat /\ sizeTran \in 0..BufferSize
  /\ finished \in BOOLEAN /\ toggle \in {0, 1}
  /\ buf \in Seq(GoodPart) /\ Len(buf) <= 4 /\ bufOffsetRd \in 0..Len(buf)

TxOK ==
  /\ held \in Seq(Responses) /\ Len(held) <= 1
  /\ bus \in Seq(Responses) /\ Len(bus) <= InFlight

ObjectOK ==
  /\ object \in [Objects -> [parts : Seq(Part), size : Nat]]
  /\ \A o \in Objects : GoodValue(object[o])

(* A client in a transfer has parts left to send.                          *)
ClientOK ==
  /\ client \in {"idle", "initiate", "segment"} /\ job \in Jobs \cup {NoJob}
  /\ id \in 0..MaxJobs /\ got \in Seq(Part)
  /\ outcome \in {"NONE", "OK", "FAILED"} /\ hasty \in BOOLEAN
  /\ client # "idle" => job \in Jobs /\ id \in 1..MaxJobs
  /\ client = "initiate" => got = << >>
  /\ client = "segment" /\ job.kind = "download" => Len(got) < (job.len + 6) \div 7

TypeInv == CallOK /\ SlotOK /\ TransferOK /\ TxOK /\ ObjectOK /\ ClientOK /\ Modes

LEMMA CountRange ==
  ASSUME NEW p \in GoodPart
  PROVE  Count(p) \in 1..7
  BY DEF Count, GoodPart, Part

LEMMA PartsGood ==
  ASSUME NEW i \in 0..MaxJobs, NEW n \in Nat \ {0}
  PROVE  /\ Parts(i, n) \in Seq(GoodPart)
         /\ Len(Parts(i, n)) = (n + 6) \div 7
         /\ Len(Parts(i, n)) \in Nat \ {0}
         /\ n <= 4 => Len(Parts(i, n)) = 1
         /\ n <= 23 => Len(Parts(i, n)) <= 4
         /\ \A k \in 1..Len(Parts(i, n)) : /\ Parts(i, n)[k] \in GoodPart
                                           /\ k < Len(Parts(i, n)) => Count(Parts(i, n)[k]) = 7
  <1> DEFINE m == (n + 6) \div 7
  <1>1. m \in Nat /\ m >= 1 /\ 7 * m <= n + 6 /\ (n <= 4 => m = 1) /\ (n <= 23 => m <= 4)
    OBVIOUS
  <1>2. Parts(i, n) = [k \in 1..m |-> [job |-> i, part |-> k, of |-> n]]
    BY DEF Parts
  <1> HIDE DEF m
  <1>3. ASSUME NEW k \in 1..m
        PROVE  /\ [job |-> i, part |-> k, of |-> n] \in GoodPart
               /\ k < m => Count([job |-> i, part |-> k, of |-> n]) = 7
    BY <1>1 DEF GoodPart, Part, Count
  <1>4. Parts(i, n) \in [1..m -> GoodPart]
    BY <1>2, <1>3
  <1>5. Parts(i, n) \in Seq(GoodPart) /\ Len(Parts(i, n)) = m
    BY <1>1, <1>4, SeqDef
  <1>6. \A k \in 1..m : Parts(i, n)[k] = [job |-> i, part |-> k, of |-> n]
    BY <1>2
  <1> QED BY <1>1, <1>3, <1>5, <1>6 DEF m

LEMMA PartsAreParts == ASSUME NEW s \in Seq(GoodPart) PROVE s \in Seq(Part)
  <1>1. GoodPart \subseteq Part BY DEF GoodPart
  <1> QED BY <1>1, SeqMonotonic

LEMMA ValueGood ==
  ASSUME NEW i \in 0..MaxJobs, NEW n \in 1..23
  PROVE  GoodValue(Value(i, n))
  <1>1. n \in Nat \ {0} /\ n <= 23
    OBVIOUS
  <1>2. Parts(i, n) \in Seq(GoodPart) /\ Len(Parts(i, n)) >= 1 /\ Len(Parts(i, n)) <= 4
    <2>1. Parts(i, n) \in Seq(GoodPart) /\ Len(Parts(i, n)) \in Nat \ {0}
          /\ Len(Parts(i, n)) <= 4
      BY <1>1, PartsGood
    <2>2. \A x \in Nat \ {0} : x >= 1
      OBVIOUS
    <2> QED BY <2>1, <2>2, Zenon
  <1>3. Parts(i, n) \in Seq(Part)
    BY <1>2, PartsAreParts
  <1> QED BY <1>1, <1>2, <1>3 DEF GoodValue, Value

(* The requests of the clients                                             *)
LEMMA AbortGood == GoodRequest(Request("abort"))
  <1>1. << >> \in Seq(GoodPart) /\ << >> \in Seq(Part) /\ Len(<< >>) = 0
    BY EmptySeq
  <1>2. NoObject \in Names /\ "abort" \in Kinds
    BY DEF Names, Kinds
  <1> QED BY <1>1, <1>2 DEF GoodRequest, Request, Requests

LEMMA JobIs ==
  ASSUME NEW j \in Jobs
  PROVE  /\ j.kind \in {"download", "upload"} /\ j.obj \in Names
         /\ j.len \in Nat \ {0} /\ j.len <= BufferSize
         /\ j.ind \in BOOLEAN /\ j.valid \in BOOLEAN
  BY SdoServerAssumption DEF Names, BufferSize

LEMMA FirstGood ==
  ASSUME NEW j \in Jobs, NEW i \in 0..MaxJobs
  PROVE  GoodRequest(First(j, i))
  <1>0. << >> \in Seq(GoodPart) /\ << >> \in Seq(Part) /\ Len(<< >>) = 0
    BY EmptySeq
  <1> DEFINE ps == IF j.len <= 4 THEN Parts(i, j.len) ELSE << >>
  <1>1. ps \in Seq(GoodPart) /\ Len(ps) <= 1
    <2>1. j.len \in Nat \ {0}
      BY JobIs
    <2>2. Parts(i, j.len) \in Seq(GoodPart) /\ (j.len <= 4 => Len(Parts(i, j.len)) = 1)
      BY <2>1, PartsGood
    <2>3. CASE j.len <= 4
      <3>1. ps = Parts(i, j.len) /\ Len(ps) = 1 /\ ps \in Seq(GoodPart)
        BY <2>2, <2>3
      <3> HIDE DEF ps
      <3> QED BY <3>1
    <2>4. CASE ~(j.len <= 4)
      <3>1. ps = << >> /\ Len(ps) = 0 /\ ps \in Seq(GoodPart)
        BY <1>0, <2>4
      <3> HIDE DEF ps
      <3> QED BY <3>1
    <2> QED BY <2>3, <2>4
  <1>2. ps \in Seq(Part)
    BY <1>1, PartsAreParts
  <1>3. {"download", "upload"} \subseteq Kinds
    BY DEF Kinds
  <1>4. CASE j.kind = "upload"
    <2>1. First(j, i) = [cs |-> "upload", obj |-> j.obj, toggle |-> 0, last |-> FALSE,
                         ind |-> FALSE, size |-> 0, parts |-> << >>, valid |-> TRUE]
      BY <1>4 DEF First, Request
    <2> QED BY <1>0, <1>3, <2>1, JobIs DEF GoodRequest, Requests
  <1>5. CASE j.kind # "upload"
    <2>1. First(j, i) = [cs |-> "download", obj |-> j.obj, toggle |-> 0, last |-> FALSE,
                         ind |-> j.ind, size |-> j.len, parts |-> ps, valid |-> j.valid]
      BY <1>5 DEF First, Request
    <2> HIDE DEF ps
    <2> QED BY <1>1, <1>2, <1>3, <2>1, JobIs DEF GoodRequest, Requests
  <1> QED BY <1>4, <1>5

LEMMA NextRequestGood ==
  ASSUME job \in Jobs, id \in 0..MaxJobs, NEW done \in Seq(Part),
         job.kind = "download" => Len(done) < (job.len + 6) \div 7
  PROVE  GoodRequest(NextRequest(done))
  <1> DEFINE t  == Len(done) % 2
             ps == Parts(id, job.len)
             k  == Len(done) + 1
  <1>1. t \in {0, 1} /\ Len(done) \in Nat
    OBVIOUS
  <1>2. NoObject \in Names /\ {"upload_segment", "download_segment"} \subseteq Kinds
    BY DEF Names, Kinds
  <1>3. CASE job.kind = "upload"
    <2>1. << >> \in Seq(GoodPart) /\ << >> \in Seq(Part) /\ Len(<< >>) = 0
      BY EmptySeq
    <2>2. NextRequest(done) = [cs |-> "upload_segment", obj |-> NoObject, toggle |-> t,
                               last |-> FALSE, ind |-> FALSE, size |-> 0, parts |-> << >>,
                               valid |-> TRUE]
      BY <1>3 DEF NextRequest, Request
    <2> QED BY <1>1, <1>2, <2>1, <2>2 DEF GoodRequest, Requests
  <1>4. CASE job.kind # "upload"
    <2> DEFINE last == k = Len(ps)
    <2>1. NextRequest(done) = [cs |-> "download_segment", obj |-> NoObject, toggle |-> t,
                               last |-> last, ind |-> FALSE, size |-> 0,
                               parts |-> <<ps[k]>>, valid |-> job.valid]
      BY <1>4 DEF NextRequest, Request
    <2>2. job.kind = "download" /\ job.len \in Nat \ {0} /\ job.valid \in BOOLEAN
      BY <1>4, JobIs
    <2>3. ps[k] \in GoodPart /\ (~last => Count(ps[k]) = 7)
      <3> DEFINE m == Len(ps)
      <3>1. /\ m \in Nat /\ m = (job.len + 6) \div 7
            /\ \A l \in 1..m : ps[l] \in GoodPart /\ (l < m => Count(ps[l]) = 7)
        BY <2>2, PartsGood
      <3>2. Len(done) < m
        BY <2>2, <3>1
      <3> HIDE DEF ps
      <3>3. k \in 1..m /\ (~last => k < m)
        BY <1>1, <3>1, <3>2
      <3> QED BY <3>1, <3>3
    <2>4. last \in BOOLEAN
      OBVIOUS
    <2> HIDE DEF ps, k, t, last
    <2>5. <<ps[k]>> \in Seq(GoodPart) /\ Len(<<ps[k]>>) = 1 /\ <<ps[k]>>[1] = ps[k]
      BY <2>3
    <2>6. <<ps[k]>> \in Seq(Part)
      BY <2>5, PartsAreParts
    <2> QED BY <1>1, <1>2, <2>1, <2>2, <2>3, <2>4, <2>5, <2>6 DEF GoodRequest, Requests
  <1> QED BY <1>3, <1>4

LEMMA TypeInvType == TypeInv => TypeOK
  <1> SUFFICES ASSUME TypeInv PROVE TypeOK
    OBVIOUS
  <1>1. buf \in Seq(Part) /\ 7 * Len(buf) <= BufferSize
    <2>1. Len(buf) \in Nat /\ Len(buf) <= 4 /\ buf \in Seq(GoodPart)
      BY DEF TypeInv, TransferOK
    <2>2. buf \in Seq(Part)
      BY <2>1, PartsAreParts
    <2>3. \A n \in Nat : n <= 4 => 7 * n <= 32
      OBVIOUS
    <2> QED BY <2>1, <2>2, <2>3 DEF BufferSize
  <1>2. CANrxData \in Requests
    BY DEF TypeInv, SlotOK, GoodRequest
  <1> QED BY <1>1, <1>2, Zenon
          DEF TypeInv, TypeOK, CallOK, SlotOK, TransferOK, TxOK, ObjectOK, ClientOK

(* What a request on its way leaves.                                       *)
LEMMA DeliverType ==
  ASSUME TypeInv, NEW f, GoodRequest(f), Deliver(f)
  PROVE  state' \in States /\ state' \in {state, "IDLE"} /\ SlotOK'
  <1>1. GoodRequest(CANrxData) /\ state \in States /\ CANrxNew \in BOOLEAN
    BY DEF TypeInv, CallOK, SlotOK
  <1>2. state' \in {state, "IDLE"} /\ CANrxData' \in {CANrxData, f} /\ CANrxNew' \in {CANrxNew, TRUE}
    BY DEF Deliver, Receive, slot
  <1>3. state' \in States
    BY <1>1, <1>2 DEF States
  <1>4. GoodRequest(CANrxData') /\ CANrxNew' \in BOOLEAN
    BY <1>1, <1>2
  <1>5. GoodRequest(CANrxData)' = GoodRequest(CANrxData')
    BY DEF GoodRequest
  <1> QED BY <1>2, <1>3, <1>4, <1>5 DEF SlotOK

(* What a step leaves alone keeps its types.                               *)
LEMMA Frame ==
  ASSUME TypeInv
  PROVE  /\ UNCHANGED slot => SlotOK'
         /\ UNCHANGED transfer => TransferOK'
         /\ UNCHANGED tx => TxOK'
         /\ UNCHANGED object => ObjectOK'
         /\ UNCHANGED clientSide => ClientOK'
         /\ state' \in {state, "IDLE"} /\ UNCHANGED <<transfer, pc, cur>> => Modes'
         /\ state' \in {state, "IDLE", "ABORT"} /\ UNCHANGED transfer
            /\ pc' \notin {"handle", "respond", "sent"} => Modes'
  <1>1. UNCHANGED slot => SlotOK'
    BY DEF TypeInv, SlotOK, slot, GoodRequest
  <1>2. UNCHANGED transfer => TransferOK'
    BY DEF TypeInv, TransferOK, transfer
  <1>3. UNCHANGED tx => TxOK'
    BY DEF TypeInv, TxOK, tx
  <1>4. UNCHANGED object => ObjectOK'
    BY DEF TypeInv, ObjectOK, GoodValue
  <1>5. UNCHANGED clientSide => ClientOK'
    BY DEF TypeInv, ClientOK, clientSide
  <1>6. state' \in {state, "IDLE"} /\ UNCHANGED <<transfer, pc, cur>> => Modes'
    BY DEF TypeInv, Modes, Mode, Filling, Reading, transfer
  <1>7. state' \in {state, "IDLE", "ABORT"} /\ UNCHANGED transfer
        /\ pc' \notin {"handle", "respond", "sent"} => Modes'
    BY DEF TypeInv, Modes, Mode, Filling, Reading, transfer
  <1> QED BY <1>1, <1>2, <1>3, <1>4, <1>5, <1>6, <1>7

LEMMA SendType ==
  ASSUME TypeInv, NEW m \in Responses, Send(m)
  PROVE  TxOK'
  <1>1. /\ held \in Seq(Responses) /\ Len(held) <= 1
        /\ bus \in Seq(Responses) /\ Len(bus) <= InFlight
    BY DEF TypeInv, TxOK
  <1>2. CASE Len(bus) < InFlight /\ bus' = Append(bus, m) /\ UNCHANGED held
    BY <1>1, <1>2, SdoServerAssumption DEF TxOK
  <1>3. CASE held' = <<m>> /\ UNCHANGED bus
    BY <1>1, <1>3 DEF TxOK
  <1> QED BY <1>2, <1>3 DEF Send

LEMMA InitTypeInv == Init => TypeInv
  <1> SUFFICES ASSUME Init PROVE TypeInv
    OBVIOUS
  <1>1. /\ << >> \in Seq(Part) /\ << >> \in Seq(GoodPart) /\ << >> \in Seq(Responses)
        /\ Len(<< >>) = 0
    BY EmptySeq
  <1>2. ASSUME NEW o \in Objects PROVE GoodValue(object[o])
    <2>1. Dict[o].size \in 1..23
      BY SdoServerAssumption DEF BufferSize
    <2>2. 0 \in 0..MaxJobs
      BY SdoServerAssumption
    <2>3. object[o] = Value(0, Dict[o].size)
      BY DEF Init
    <2> QED BY <2>1, <2>2, <2>3, ValueGood
  <1>3. SlotOK
    BY AbortGood DEF Init, SlotOK
  <1>4. ObjectOK
    <2>1. object = [o \in Objects |-> Value(0, Dict[o].size)]
      BY DEF Init
    <2>2. \A o \in Objects : object[o] \in [parts : Seq(Part), size : Nat]
      BY <1>2 DEF GoodValue
    <2> QED BY <1>2, <2>1, <2>2 DEF ObjectOK
  <1>5. CallOK
    <2>1. 0 \in 0..(SDOtimeoutTime + MaxElapsed - 1)
      BY SdoServerAssumption
    <2>2. "IDLE" \in States /\ "NONE" \in AbortCodes
      BY DEF States, AbortCodes
    <2> QED BY <2>1, <2>2, Zenon DEF Init, CallOK
  <1>6. TransferOK
    <2>1. NoObject \in Names /\ 0 \in 0..BufferSize /\ 0 \in Nat
      BY DEF Names, BufferSize
    <2>2. buf \in Seq(GoodPart) /\ Len(buf) <= 4 /\ bufOffsetRd \in 0..Len(buf)
      BY <1>1 DEF Init
    <2>3. /\ obj = NoObject /\ sizeInd = 0 /\ sizeTran = 0 /\ toggle \in {0, 1}
          /\ finished \in BOOLEAN
      BY DEF Init
    <2> QED BY <2>1, <2>2, <2>3, Zenon DEF TransferOK
  <1>7. TxOK
    BY <1>1, SdoServerAssumption DEF Init, TxOK
  <1>8. ClientOK
    <2>1. got \in Seq(Part) /\ 0 \in 0..MaxJobs
      BY <1>1, SdoServerAssumption DEF Init
    <2>2. /\ client = "idle" /\ job = NoJob /\ id = 0 /\ hasty \in BOOLEAN
          /\ outcome = "NONE"
      BY DEF Init
    <2> QED BY <2>1, <2>2 DEF ClientOK
  <1> QED BY <1>3, <1>4, <1>5, <1>6, <1>7, <1>8 DEF TypeInv, Modes, Mode, Init

LEMMA BeginType ==
  ASSUME TypeInv, NEW allowed \in BOOLEAN, Begin(allowed)
  PROVE  TypeInv'
  <1>1. /\ UNCHANGED transfer /\ UNCHANGED tx /\ UNCHANGED object /\ UNCHANGED clientSide
        /\ UNCHANGED <<CANrxData, timeoutTimer, cur, codeLost>>
        /\ isNew' = CANrxNew /\ abortCode' = "NONE"
        /\ state' \in {state, "IDLE"} /\ CANrxNew' \in {CANrxNew, FALSE}
        /\ pc' \in {"lookup", "timers", "between"}
    BY DEF Begin
  <1>2. "IDLE" \in States /\ "NONE" \in AbortCodes
    BY DEF States, AbortCodes
  <1>3. CallOK' /\ SlotOK'
    BY <1>1, <1>2 DEF TypeInv, CallOK, SlotOK, GoodRequest
  <1> QED BY <1>1, <1>3, Frame DEF TypeInv

LEMMA LookupType == ASSUME TypeInv, Lookup PROVE TypeInv'
  <1>1. /\ UNCHANGED slot /\ UNCHANGED tx /\ UNCHANGED object /\ UNCHANGED clientSide
        /\ UNCHANGED <<timeoutTimer, isNew, cur, codeLost>> /\ pc' = "test"
    BY DEF Lookup
  <1>2. CASE state # "IDLE"
    <2>1. UNCHANGED <<state, transfer, abortCode>>
      BY <1>2 DEF Lookup
    <2>2. CallOK'
      BY <1>1, <2>1 DEF TypeInv, CallOK
    <2> QED BY <1>1, <2>1, <2>2, Frame DEF TypeInv, transfer
  <1>3. CASE state = "IDLE"
    <2> DEFINE f == CANrxData
               code == LookupCode(CANrxData)
    <2>1. /\ abortCode' = code
          /\ state' = (IF code # "NONE" THEN "ABORT"
                       ELSE IF f.cs = "upload" THEN "UPLOAD_INITIATE_REQ"
                       ELSE "DOWNLOAD_INITIATE_REQ")
          /\ obj' = IF code = "CMD" THEN obj ELSE f.obj
          /\ UNCHANGED toggle
          /\ IF code = "NONE" /\ f.cs = "upload"
               THEN Load(f.obj)
               ELSE UNCHANGED <<buf, sizeInd, bufOffsetRd, sizeTran, finished>>
      BY <1>3 DEF Lookup
    <2>2. code \in AbortCodes /\ (code = "NONE" => f.obj \in Objects)
      BY DEF LookupCode, AbortCodes, Exists
    <2>3. f.obj \in Names
      BY DEF TypeInv, SlotOK, GoodRequest, Requests
    <2> HIDE DEF code, f
    <2>4. CallOK'
      BY <1>1, <2>1, <2>2 DEF TypeInv, CallOK, States
    <2>5. CASE code = "NONE" /\ f.cs = "upload"
      <3>1. GoodValue(object[f.obj])
        BY <2>2, <2>5 DEF TypeInv, ObjectOK
      <3>2. /\ buf' = object[f.obj].parts /\ sizeInd' = object[f.obj].size
            /\ bufOffsetRd' = 0 /\ sizeTran' = 0 /\ finished' = TRUE
        BY <2>1, <2>5 DEF Load
      <3>3. /\ buf' \in Seq(GoodPart) /\ Len(buf') <= 4 /\ Len(buf') >= 1
            /\ sizeInd' \in Nat
        BY <3>1, <3>2 DEF GoodValue
      <3>4. bufOffsetRd' \in 0..Len(buf') /\ bufOffsetRd' < Len(buf') /\ sizeTran' <= 7 * bufOffsetRd'
        BY <3>2, <3>3
      <3>5. TransferOK'
        <4>1. 0 \in 0..BufferSize /\ toggle' \in {0, 1} /\ obj' \in Names
          BY <2>1, <2>3 DEF TypeInv, TransferOK, BufferSize
        <4>2. sizeTran' \in 0..BufferSize /\ finished' \in BOOLEAN
          BY <3>2, <4>1
        <4> QED BY <3>3, <3>4, <4>1, <4>2, Zenon DEF TransferOK
      <3>6. Modes'
        <4>1. state' = "UPLOAD_INITIATE_REQ"
          BY <2>1, <2>5
        <4>2. Mode(state)'
          BY <3>4, <4>1 DEF Mode, Reading
        <4> QED BY <1>1, <4>2 DEF Modes
      <3> QED BY <1>1, <2>4, <3>5, <3>6, Frame DEF TypeInv
    <2>6. CASE ~(code = "NONE" /\ f.cs = "upload")
      <3>1. UNCHANGED <<buf, sizeInd, bufOffsetRd, sizeTran, finished, toggle>>
        BY <2>1, <2>6
      <3>2. TransferOK'
        BY <2>1, <2>3, <3>1 DEF TypeInv, TransferOK
      <3>3. state' = "ABORT" \/ (state' = "DOWNLOAD_INITIATE_REQ" /\ obj' \in Objects)
        BY <2>1, <2>2, <2>6
      <3>4. Modes'
        BY <1>1, <3>3 DEF Modes, Mode
      <3> QED BY <1>1, <2>4, <3>2, <3>4, Frame DEF TypeInv
    <2> QED BY <2>5, <2>6
  <1> QED BY <1>2, <1>3

LEMMA TestType == ASSUME TypeInv, Test PROVE TypeInv'
  <1>1. /\ UNCHANGED slot /\ UNCHANGED transfer /\ UNCHANGED tx /\ UNCHANGED object
        /\ UNCHANGED clientSide
        /\ UNCHANGED <<state, timeoutTimer, isNew, cur, abortCode, codeLost>>
        /\ pc' \in {"timers", "switch"}
    BY DEF Test
  <1>2. CallOK'
    BY <1>1 DEF TypeInv, CallOK
  <1> QED BY <1>1, <1>2, Frame DEF TypeInv

LEMMA SwitchType == ASSUME TypeInv, Switch \/ Transmit PROVE TypeInv'
  <1>1. /\ UNCHANGED slot /\ UNCHANGED transfer /\ UNCHANGED tx /\ UNCHANGED object
        /\ UNCHANGED clientSide
        /\ UNCHANGED <<state, timeoutTimer, isNew, abortCode, codeLost>>
        /\ pc' \in {"handle", "respond"} /\ cur' = state
    BY DEF Switch, Transmit
  <1>2. CallOK'
    BY <1>1 DEF TypeInv, CallOK
  <1>3. Modes'
    BY <1>1 DEF TypeInv, Modes, Mode, Filling, Reading, transfer
  <1> QED BY <1>1, <1>2, <1>3, Frame DEF TypeInv

LEMMA SizeCodeIs ==
  ASSUME NEW n
  PROVE  /\ SizeCode(n) \in {"DATA_LONG", "DATA_SHORT", "NONE"}
         /\ SizeCode(n) = "NONE" => ~(n > Dict[obj].size)
  BY DEF SizeCode

LEMMA NotAbove == \A x, y \in Nat : ~(x > y) => x <= y
  OBVIOUS

LEMMA BelowThree == \A x, y, z \in Nat : x = 7 * z /\ x <= y /\ y <= 23 => z <= 3
  OBVIOUS

LEMMA DictIs ==
  ASSUME NEW o \in Objects
  PROVE  Dict[o].size \in 1..23
  BY SdoServerAssumption DEF BufferSize

(* What every case of Handle leaves alone, and the code it ends with.      *)
LEMMA HandleFrame ==
  ASSUME TypeInv, Handle
  PROVE  /\ SlotOK' /\ TxOK' /\ ClientOK' /\ pc = "handle" /\ pc' = "timers"
         /\ Mode(cur) /\ GoodRequest(CANrxData)
         /\ \A code \in AbortCodes, next \in States : EndCase(code, next) => CallOK'
         /\ Mode(state)' => Modes'
  <1>1. /\ UNCHANGED slot /\ UNCHANGED tx /\ UNCHANGED clientSide
        /\ UNCHANGED <<timeoutTimer, isNew, cur, codeLost>> /\ pc = "handle" /\ pc' = "timers"
    BY DEF Handle
  <1>2. SlotOK' /\ TxOK' /\ ClientOK'
    BY <1>1, Frame
  <1>3. ASSUME NEW code \in AbortCodes, NEW next \in States, EndCase(code, next) PROVE CallOK'
    <2>1. state' \in States /\ abortCode' \in AbortCodes
      BY <1>3 DEF EndCase, States
    <2> QED BY <1>1, <2>1 DEF TypeInv, CallOK
  <1>4. Mode(state)' => Modes'
    BY <1>1 DEF Modes
  <1> QED BY <1>1, <1>2, <1>3, <1>4 DEF TypeInv, Modes, SlotOK

LEMMA ExpeditedType ==
  ASSUME TypeInv, Handle, cur = "DOWNLOAD_INITIATE_REQ", DownloadExpedited
  PROVE  TypeInv'
  <1> DEFINE f == CANrxData
             n == IF f.ind THEN f.size ELSE IF Dict[obj].size < 4 THEN Dict[obj].size ELSE 4
             code == IF SizeCode(n) # "NONE" THEN SizeCode(n) ELSE WriteCode(f)
  <1>1. obj \in Objects /\ GoodRequest(f)
    BY HandleFrame DEF Mode
  <1>2. /\ EndCase(code, "DOWNLOAD_INITIATE_RSP") /\ f.parts # << >>
        /\ IF code = "NONE"
             THEN object' = [object EXCEPT ![obj] = Value(f.parts[1].job, n)] /\ finished' = TRUE
             ELSE UNCHANGED <<object, finished>>
        /\ UNCHANGED <<obj, sizeInd, sizeTran, toggle, buf, bufOffsetRd>>
    BY DEF DownloadExpedited
  <1>3. n \in Nat /\ n >= 1
    <2>1. f.ind => f.size \in Nat /\ f.size >= 1
      BY <1>1 DEF GoodRequest, Requests
    <2>2. Dict[obj].size \in 1..23
      BY <1>1, DictIs
    <2> QED BY <2>1, <2>2
  <1> HIDE DEF n
  <1>4. code \in AbortCodes /\ (code = "NONE" => SizeCode(n) = "NONE")
    BY SizeCodeIs DEF WriteCode, AbortCodes
  <1>5. CallOK'
    BY <1>2, <1>4, HandleFrame DEF States
  <1>6. TransferOK'
    BY <1>2 DEF TypeInv, TransferOK
  <1>7. Modes'
    <2>1. state' \in {"DOWNLOAD_INITIATE_RSP", "ABORT"} /\ obj' \in Objects
      BY <1>1, <1>2 DEF EndCase
    <2> QED BY <2>1, HandleFrame DEF Mode
  <1>8. ObjectOK'
    <2>1. CASE code = "NONE"
      <3>1. n <= Dict[obj].size /\ Dict[obj].size \in 1..23
        BY <1>1, <1>3, <1>4, <2>1, SizeCodeIs, DictIs
      <3>2. n \in 1..23
        BY <1>3, <3>1
      <3>3. f.parts[1].job \in 0..MaxJobs
        <4>1. f.parts \in Seq(GoodPart)
          BY <1>1 DEF GoodRequest
        <4>2. f.parts[1] \in GoodPart
          BY <1>2, <4>1
        <4> QED BY <4>2 DEF GoodPart, Part
      <3> DEFINE v == Value(f.parts[1].job, n)
      <3>4. GoodValue(v)
        BY <3>2, <3>3, ValueGood
      <3>5. object' = [object EXCEPT ![obj] = v]
        BY <1>2, <2>1
      <3> HIDE DEF v
      <3>6. object' \in [Objects -> [parts : Seq(Part), size : Nat]]
        BY <3>4, <3>5 DEF TypeInv, ObjectOK, GoodValue
      <3>7. \A o \in Objects : GoodValue(object'[o])
        BY <3>4, <3>5 DEF TypeInv, ObjectOK
      <3> QED BY <3>6, <3>7 DEF ObjectOK, GoodValue
    <2>2. CASE code # "NONE"
      BY <1>2, <2>2, Frame
    <2> QED BY <2>1, <2>2
  <1> QED BY <1>5, <1>6, <1>7, <1>8, HandleFrame DEF TypeInv

LEMMA SegmentedType ==
  ASSUME TypeInv, Handle, cur = "DOWNLOAD_INITIATE_REQ", DownloadSegmented
  PROVE  TypeInv'
  <1> DEFINE f == CANrxData
             code == IF f.ind THEN SizeCode(f.size) ELSE "NONE"
  <1>1. obj \in Objects /\ GoodRequest(f)
    BY HandleFrame DEF Mode
  <1>2. /\ EndCase(code, "DOWNLOAD_INITIATE_RSP")
        /\ sizeInd' = IF f.ind THEN f.size ELSE 0
        /\ finished' = IF code = "NONE" THEN FALSE ELSE finished
        /\ UNCHANGED <<obj, sizeTran, toggle, buf, bufOffsetRd, object>>
    BY DEF DownloadSegmented
  <1>3. code \in AbortCodes
    BY SizeCodeIs DEF AbortCodes
  <1>4. CallOK'
    BY <1>2, <1>3, HandleFrame DEF States
  <1> HIDE DEF code
  <1>5. TransferOK'
    <2>1. f.size \in Nat
      BY <1>1 DEF GoodRequest, Requests
    <2>2. sizeInd' \in Nat /\ finished' \in BOOLEAN
      BY <1>2, <2>1 DEF TypeInv, TransferOK
    <2> QED BY <1>2, <2>2 DEF TypeInv, TransferOK
  <1>6. Modes'
    <2>1. state' \in {"DOWNLOAD_INITIATE_RSP", "ABORT"} /\ obj' \in Objects
      BY <1>1, <1>2 DEF EndCase
    <2> QED BY <2>1, HandleFrame DEF Mode
  <1> QED BY <1>2, <1>4, <1>5, <1>6, HandleFrame, Frame DEF TypeInv

(* A segment fits: what is in the buffer is less than the variable, and a  *)
(* segment that takes it past the variable is the last to be kept.         *)
LEMMA SegmentType ==
  ASSUME TypeInv, Handle, DownloadSegment
  PROVE  TypeInv'
  <1> DEFINE f      == CANrxData
             p      == f.parts[1]
             n      == sizeTran + Count(p)
             sizes  == IF n > Dict[obj].size THEN "DATA_LONG"
                       ELSE IF f.last THEN ValidateCode(n) ELSE "NONE"
             writes == f.last /\ sizes = "NONE"
             code   == IF writes THEN WriteCode(f) ELSE sizes
  <1>1. /\ cur = "DOWNLOAD_SEGMENT_REQ" /\ f.cs = "download_segment" /\ finished' = f.last
        /\ UNCHANGED <<obj, sizeInd, toggle, bufOffsetRd>>
    BY DEF DownloadSegment
  <1>2. Filling /\ GoodRequest(f)
    BY <1>1, HandleFrame DEF Mode
  <1>3. /\ f.last \in BOOLEAN /\ f.parts \in Seq(GoodPart) /\ Len(f.parts) = 1
        /\ ~f.last => Count(p) = 7
    BY <1>1, <1>2 DEF GoodRequest, Requests
  <1>4. p \in GoodPart /\ Count(p) \in 1..7
    BY <1>3, CountRange
  <1>5. CASE f.toggle # toggle
    <2>1. EndCase("TOGGLE_BIT", state) /\ UNCHANGED <<sizeTran, buf, object>>
      BY <1>5 DEF DownloadSegment
    <2>2. CallOK' /\ state' = "ABORT"
      <3>1. "TOGGLE_BIT" \in AbortCodes /\ state \in States
        BY DEF AbortCodes, TypeInv, CallOK
      <3>2. state' = "ABORT"
        BY <2>1 DEF EndCase
      <3> QED BY <2>1, <3>1, <3>2, HandleFrame
    <2>3. TransferOK'
      BY <1>1, <1>3, <2>1 DEF TypeInv, TransferOK
    <2>4. Modes'
      BY <2>2, HandleFrame DEF Mode
    <2> QED BY <2>1, <2>2, <2>3, <2>4, HandleFrame, Frame DEF TypeInv
  <1>6. CASE f.toggle = toggle
    <2>1. /\ EndCase(code, "DOWNLOAD_SEGMENT_RSP")
          /\ sizeTran' = n
          /\ buf' = IF writes THEN << >> ELSE buf \o f.parts
          /\ object' = IF writes /\ code = "NONE"
                         THEN [object EXCEPT ![obj] = [parts |-> buf \o f.parts, size |-> n]]
                         ELSE object
      BY <1>6 DEF DownloadSegment
    <2>2. obj \in Objects /\ Dict[obj].size \in 1..23 /\ Len(buf) \in Nat /\ Len(buf) <= 3
      <3>1. obj \in Objects /\ sizeTran <= Dict[obj].size /\ sizeTran \in Nat
        BY <1>2 DEF Filling, TypeInv, TransferOK, BufferSize
      <3>3. Dict[obj].size \in 1..23
        BY <3>1, DictIs
      <3>2. Len(buf) \in Nat
        BY DEF TypeInv, TransferOK
      <3>4. Dict[obj].size \in Nat /\ Dict[obj].size <= 23
        BY <3>3
      <3>5. sizeTran = 7 * Len(buf)
        BY <1>2 DEF Filling
      <3>6. Len(buf) <= 3
        BY <3>1, <3>2, <3>4, <3>5, BelowThree, Zenon
      <3> QED BY <3>1, <3>2, <3>3, <3>6
    <2>3. /\ n \in Nat /\ n <= 32 /\ n >= 1 /\ (~f.last => n = 7 * (Len(buf) + 1))
      BY <1>2, <1>3, <1>4, <2>2 DEF Filling
    <2>4. /\ buf \o f.parts \in Seq(GoodPart)
          /\ Len(buf \o f.parts) = Len(buf) + 1
      <3>1. buf \in Seq(GoodPart) /\ f.parts \in Seq(GoodPart) /\ Len(f.parts) = 1
        BY <1>3 DEF TypeInv, TransferOK
      <3> HIDE DEF f
      <3>2. /\ buf \o f.parts \in Seq(GoodPart)
            /\ Len(buf \o f.parts) = Len(buf) + Len(f.parts)
        BY <3>1, ConcatProperties, Zenon
      <3> QED BY <3>1, <3>2
    <2>5. code \in AbortCodes /\ (code = "NONE" /\ ~f.last => ~(n > Dict[obj].size))
      <3>1. ValidateCode(n) \in AbortCodes
        BY SizeCodeIs DEF ValidateCode, AbortCodes
      <3>2. WriteCode(f) \in AbortCodes
        BY DEF WriteCode, AbortCodes
      <3>3. {"DATA_LONG", "NONE"} \subseteq AbortCodes
        BY DEF AbortCodes
      <3> HIDE DEF n, f
      <3> QED BY <3>1, <3>2, <3>3
    <2> HIDE DEF n, code, writes, f
    <2>6. CallOK'
      BY <2>1, <2>5, HandleFrame DEF States
    <2>7. buf' \in Seq(GoodPart) /\ Len(buf') <= 4 /\ (~f.last => buf' = buf \o f.parts)
      <3>1. << >> \in Seq(GoodPart) /\ Len(<< >>) = 0
        BY EmptySeq
      <3>2. CASE writes
        BY <2>1, <3>1, <3>2 DEF writes
      <3>3. CASE ~writes
        <4>1. buf' = buf \o f.parts
          BY <2>1, <3>3
        <4> QED BY <2>2, <2>4, <4>1
      <3> QED BY <3>2, <3>3
    <2>8. TransferOK'
      <3>1. bufOffsetRd' = 0 /\ 0 \in 0..Len(buf')
        BY <1>1, <1>2, <2>7 DEF Filling
      <3>2. sizeTran' \in 0..BufferSize
        BY <2>1, <2>3 DEF BufferSize
      <3>3. obj' \in Names /\ sizeInd' \in Nat /\ toggle' \in {0, 1} /\ finished' \in BOOLEAN
        BY <1>1, <1>3 DEF TypeInv, TransferOK
      <3> QED BY <2>7, <3>1, <3>2, <3>3, Zenon DEF TransferOK
    <2>9. Modes'
      <3>1. CASE code # "NONE"
        <4>1. state' = "ABORT"
          BY <2>1, <3>1 DEF EndCase
        <4> QED BY <4>1, HandleFrame DEF Mode
      <3>2. CASE code = "NONE" /\ f.last
        <4>1. state' = "DOWNLOAD_SEGMENT_RSP" /\ finished'
          BY <1>1, <2>1, <3>2 DEF EndCase
        <4> QED BY <4>1, HandleFrame DEF Mode
      <3>3. CASE code = "NONE" /\ ~f.last
        <4>1. state' = "DOWNLOAD_SEGMENT_RSP"
          BY <2>1, <3>3 DEF EndCase
        <4>2. sizeTran' = 7 * Len(buf')
          BY <2>1, <2>3, <2>4, <2>7, <3>3
        <4>3. sizeTran' <= Dict[obj'].size
          <5>1. ~(n > Dict[obj].size) /\ obj' = obj /\ sizeTran' = n
            BY <1>1, <2>1, <2>5, <3>3
          <5>2. Dict[obj].size \in Nat /\ n \in Nat
            <6>1. \A x \in 1..23 : x \in Nat
              OBVIOUS
            <6> QED BY <2>2, <2>3, <6>1, Zenon
          <5>3. n <= Dict[obj].size
            BY <5>1, <5>2, NotAbove, Zenon
          <5> QED BY <5>1, <5>3
        <4>4. Filling'
          BY <1>1, <1>2, <4>2, <4>3 DEF Filling
        <4> QED BY <4>1, <4>4, HandleFrame DEF Mode
      <3> QED BY <3>1, <3>2, <3>3
    <2>10. ObjectOK'
      <3> DEFINE v == [parts |-> buf \o f.parts, size |-> n]
      <3>1. CASE writes /\ code = "NONE"
        <4>1. GoodValue(v)
          <5>1. buf \o f.parts \in Seq(Part)
            BY <2>4, PartsAreParts
          <5> QED BY <2>2, <2>3, <2>4, <5>1 DEF GoodValue
        <4>2. object' = [object EXCEPT ![obj] = v]
          BY <2>1, <3>1
        <4> HIDE DEF v
        <4>3. object' \in [Objects -> [parts : Seq(Part), size : Nat]]
          BY <4>1, <4>2 DEF TypeInv, ObjectOK, GoodValue
        <4>4. \A o \in Objects : GoodValue(object'[o])
          BY <4>1, <4>2 DEF TypeInv, ObjectOK
        <4> QED BY <4>3, <4>4 DEF ObjectOK, GoodValue
      <3>2. CASE ~(writes /\ code = "NONE")
        BY <2>1, <3>2, Frame
      <3> QED BY <3>1, <3>2
    <2> QED BY <2>6, <2>8, <2>9, <2>10, HandleFrame DEF TypeInv
  <1> QED BY <1>5, <1>6

LEMMA HandleType == ASSUME TypeInv, Handle PROVE TypeInv'
  <1>1. CASE DownloadInitiate
    BY <1>1, ExpeditedType, SegmentedType DEF DownloadInitiate
  <1>2. CASE DownloadSegment
    BY <1>2, SegmentType
  <1>3. CASE UploadInitiate \/ UploadSegment
    <2>1. /\ UNCHANGED transfer /\ UNCHANGED object
          /\ cur \in {"UPLOAD_INITIATE_REQ", "UPLOAD_SEGMENT_REQ"}
      BY <1>3 DEF UploadInitiate, UploadSegment
    <2>2. PICK code \in {"NONE", "TOGGLE_BIT"},
               next \in {"UPLOAD_INITIATE_RSP", "UPLOAD_SEGMENT_RSP"} : EndCase(code, next)
      BY <1>3 DEF UploadInitiate, UploadSegment
    <2>3. CallOK'
      BY <2>2, HandleFrame DEF AbortCodes, States
    <2>4. Modes'
      <3>1. state' \in {"UPLOAD_INITIATE_RSP", "UPLOAD_SEGMENT_RSP", "ABORT"}
        BY <2>2 DEF EndCase
      <3>2. Reading
        BY <2>1, HandleFrame DEF Mode
      <3>3. Reading'
        BY <2>1, <3>2 DEF Reading, transfer
      <3> QED BY <3>1, <3>3, HandleFrame DEF Mode
    <2> QED BY <2>1, <2>3, <2>4, HandleFrame, Frame DEF TypeInv
  <1>4. CASE Unknown
    <2>1. UNCHANGED transfer /\ UNCHANGED object /\ EndCase("CMD", state)
      BY <1>4 DEF Unknown
    <2>2. CallOK'
      <3>1. "CMD" \in AbortCodes /\ state \in States
        BY DEF AbortCodes, TypeInv, CallOK
      <3> QED BY <2>1, <3>1, HandleFrame
    <2>3. Modes'
      <3>1. state' = "ABORT"
        BY <2>1 DEF EndCase
      <3> QED BY <3>1, HandleFrame DEF Mode
    <2> QED BY <2>1, <2>2, <2>3, HandleFrame, Frame DEF TypeInv
  <1> QED BY <1>1, <1>2, <1>3, <1>4 DEF Handle

LEMMA TimersType ==
  ASSUME TypeInv, NEW elapsed \in 1..MaxElapsed, Timers(elapsed)
  PROVE  TypeInv'
  <1>1. /\ UNCHANGED transfer /\ UNCHANGED tx /\ UNCHANGED object /\ UNCHANGED clientSide
        /\ UNCHANGED <<CANrxData, isNew, cur>>
        /\ CANrxNew' \in {FALSE, CANrxNew} /\ timeoutTimer' = Timer(elapsed)
        /\ state' \in {state, "ABORT"} /\ abortCode' \in {abortCode, "TIMEOUT"}
        /\ pc' \in {"transmit", "between"} /\ codeLost' \in BOOLEAN
    BY DEF Timers, EndCase, TimeoutCode
  <1>2. CallOK'
    <2>1. Timer(elapsed) \in 0..(SDOtimeoutTime + MaxElapsed - 1)
      <3>1. timeoutTimer \in 0..(SDOtimeoutTime + MaxElapsed - 1)
        BY DEF TypeInv, CallOK
      <3> QED BY <3>1, SdoServerAssumption DEF Timer
    <2>2. state' \in States /\ abortCode' \in AbortCodes
      BY <1>1 DEF TypeInv, CallOK, States, AbortCodes
    <2> QED BY <1>1, <2>1, <2>2 DEF TypeInv, CallOK
  <1>3. SlotOK'
    BY <1>1 DEF TypeInv, SlotOK, GoodRequest
  <1>4. Modes'
    BY <1>1, Frame
  <1> QED BY <1>1, <1>2, <1>3, <1>4, Frame DEF TypeInv

(* What every answer leaves alone.                                         *)
LEMMA RespondFrame ==
  ASSUME TypeInv, Respond
  PROVE  /\ SlotOK' /\ ObjectOK' /\ ClientOK' /\ pc = "respond" /\ Mode(cur) /\ cur' = cur
         /\ state' \in States /\ timeoutTimer' \in {0, timeoutTimer}
            /\ pc' \in {"between", "sent"} => CallOK'
         /\ Mode(state)' /\ pc' = "between" => Modes'
  <1>1. /\ UNCHANGED slot /\ UNCHANGED object /\ UNCHANGED clientSide
        /\ UNCHANGED <<isNew, cur, abortCode, codeLost>> /\ pc = "respond"
    BY DEF Respond
  <1>2. SlotOK' /\ ObjectOK' /\ ClientOK'
    BY <1>1, Frame
  <1>3. ASSUME state' \in States, timeoutTimer' \in {0, timeoutTimer}, pc' \in {"between", "sent"}
        PROVE  CallOK'
    <2>1. timeoutTimer' \in 0..(SDOtimeoutTime + MaxElapsed - 1)
      BY <1>3, SdoServerAssumption DEF TypeInv, CallOK
    <2> QED BY <1>1, <1>3, <2>1 DEF TypeInv, CallOK
  <1>4. Mode(state)' /\ pc' = "between" => Modes'
    BY <1>1 DEF Modes
  <1> QED BY <1>1, <1>2, <1>3, <1>4 DEF TypeInv, Modes

(* The answers are messages.                                               *)
LEMMA ResponseType ==
  ASSUME TypeInv, NEW cs \in Kinds
  PROVE  /\ Response(cs) \in Responses
         /\ [Response(cs) EXCEPT !.toggle = toggle, !.obj = NoObject] \in Responses
         /\ [Response(cs) EXCEPT !.parts = buf] \in Responses
         /\ \A c \in AbortCodes : [Response(cs) EXCEPT !.code = c] \in Responses
         /\ \A last \in BOOLEAN, p \in Part :
              [Response(cs) EXCEPT !.toggle = toggle, !.last = last,
                                   !.parts = <<p>>, !.obj = NoObject] \in Responses
  <1>1. << >> \in Seq(Part)
    BY EmptySeq
  <1>2. obj \in Names /\ NoObject \in Names /\ toggle \in {0, 1} /\ buf \in Seq(Part)
        /\ "NONE" \in AbortCodes
    <2>1. buf \in Seq(GoodPart)
      BY DEF TypeInv, TransferOK
    <2>2. buf \in Seq(Part)
      BY <2>1, PartsAreParts
    <2> QED BY <2>2 DEF TypeInv, TransferOK, Names, AbortCodes
  <1>3. Response(cs) = [cs |-> cs, obj |-> obj, toggle |-> 0, last |-> FALSE,
                        parts |-> << >>, code |-> "NONE"]
    BY DEF Response
  <1>4. Response(cs) \in Responses
    BY <1>1, <1>2, <1>3 DEF Responses
  <1>5. ASSUME NEW r \in Responses PROVE [r EXCEPT !.toggle = toggle, !.obj = NoObject] \in Responses
    BY <1>2 DEF Responses
  <1>6. ASSUME NEW r \in Responses PROVE [r EXCEPT !.parts = buf] \in Responses
    BY <1>2 DEF Responses
  <1>7. ASSUME NEW r \in Responses, NEW c \in AbortCodes PROVE [r EXCEPT !.code = c] \in Responses
    BY DEF Responses
  <1>8. ASSUME NEW r \in Responses, NEW last \in BOOLEAN, NEW p \in Part
        PROVE  [r EXCEPT !.toggle = toggle, !.last = last,
                         !.parts = <<p>>, !.obj = NoObject] \in Responses
    <2>1. <<p>> \in Seq(Part)
      OBVIOUS
    <2> QED BY <1>2, <2>1 DEF Responses
  <1> QED BY <1>4, <1>5, <1>6, <1>7, <1>8, Zenon

LEMMA OnePartMore ==
  \A s, r, l, c \in Nat :
    s <= 7 * r /\ r < l /\ l <= 4 /\ c <= 7 => s + c \in 0..32 /\ s + c <= 7 * (r + 1)
  OBVIOUS

LEMMA RespondType == ASSUME TypeInv, Respond PROVE TypeInv'
  <1>0. /\ state \in States /\ toggle \in {0, 1} /\ obj \in Names /\ sizeInd \in Nat
        /\ "download" \in Kinds /\ "download_segment" \in Kinds /\ "upload" \in Kinds
        /\ "upload_segment" \in Kinds /\ "abort" \in Kinds
    BY DEF TypeInv, CallOK, TransferOK, Kinds
  <1>1. CASE RespondDownload
    <2>1. /\ cur \in {"DOWNLOAD_INITIATE_RSP", "DOWNLOAD_SEGMENT_RSP"}
          /\ pc' = "sent" /\ timeoutTimer' = 0 /\ toggle' \in {toggle, 1 - toggle}
          /\ UNCHANGED <<state, obj, sizeInd, sizeTran, finished, buf, bufOffsetRd>>
          /\ \/ Send(Response("download"))
             \/ Send([Response("download_segment") EXCEPT !.toggle = toggle, !.obj = NoObject])
      BY <1>1 DEF RespondDownload
    <2>2. TxOK'
      <3>1. /\ Response("download") \in Responses
            /\ [Response("download_segment") EXCEPT !.toggle = toggle, !.obj = NoObject]
                 \in Responses
        BY <1>0, ResponseType, Zenon
      <3> QED BY <2>1, <3>1, SendType
    <2>3. TransferOK'
      <3>1. toggle' \in {0, 1}
        BY <1>0, <2>1
      <3> QED BY <2>1, <3>1 DEF TypeInv, TransferOK
    <2>4. Modes'
      <3>1. cur' = cur /\ Mode(cur) /\ Mode(state)
        BY RespondFrame DEF TypeInv, Modes
      <3>2. Mode(cur)' /\ Mode(state)'
        BY <2>1, <3>1 DEF Mode, Filling, Reading
      <3> QED BY <2>1, <3>1, <3>2 DEF Modes
    <2>5. CallOK'
      BY <1>0, <2>1, RespondFrame
    <2> QED BY <2>2, <2>3, <2>4, <2>5, RespondFrame DEF TypeInv
  <1>2. CASE RespondUploadInitiate
    <2>1. /\ cur = "UPLOAD_INITIATE_RSP" /\ pc' = "between"
          /\ state' \in {"IDLE", "UPLOAD_SEGMENT_REQ"} /\ toggle' \in {toggle, 0}
          /\ timeoutTimer' \in {timeoutTimer, 0}
          /\ UNCHANGED <<obj, sizeInd, sizeTran, finished, buf, bufOffsetRd>>
          /\ Send([Response("upload") EXCEPT !.parts = buf]) \/ Send(Response("upload"))
      BY <1>2 DEF RespondUploadInitiate
    <2>2. TxOK'
      <3>1. Response("upload") \in Responses /\ [Response("upload") EXCEPT !.parts = buf] \in Responses
        BY <1>0, ResponseType, Zenon
      <3> QED BY <2>1, <3>1, SendType
    <2>3. TransferOK'
      BY <1>0, <2>1 DEF TypeInv, TransferOK
    <2>4. Modes'
      <3>1. Reading
        BY <2>1, RespondFrame DEF Mode
      <3>2. Mode(state)'
        BY <2>1, <3>1 DEF Mode, Reading
      <3> QED BY <2>1, <3>2, RespondFrame
    <2>5. CallOK'
      BY <2>1, RespondFrame DEF States
    <2> QED BY <2>2, <2>3, <2>4, <2>5, RespondFrame DEF TypeInv
  <1>3. CASE RespondUploadSegment
    <2> DEFINE p == buf[bufOffsetRd + 1]
               last == bufOffsetRd + 1 = Len(buf)
    <2>1. /\ cur = "UPLOAD_SEGMENT_RSP" /\ pc' = "between"
          /\ Send([Response("upload_segment") EXCEPT !.toggle = toggle, !.last = last,
                                                     !.parts = <<p>>, !.obj = NoObject])
          /\ state' = (IF last THEN "IDLE" ELSE "UPLOAD_SEGMENT_REQ")
          /\ timeoutTimer' = IF last THEN timeoutTimer ELSE 0
          /\ toggle' = 1 - toggle /\ bufOffsetRd' = bufOffsetRd + 1
          /\ sizeTran' = sizeTran + Count(p)
          /\ UNCHANGED <<obj, sizeInd, finished, buf>>
      BY <1>3 DEF RespondUploadSegment
    <2>2. /\ Reading /\ buf \in Seq(GoodPart) /\ Len(buf) \in Nat /\ Len(buf) <= 4
          /\ bufOffsetRd \in Nat /\ sizeTran \in Nat
      <3>1. Reading
        BY <2>1, RespondFrame DEF Mode
      <3>2. /\ buf \in Seq(GoodPart) /\ Len(buf) <= 4 /\ bufOffsetRd \in 0..Len(buf)
            /\ sizeTran \in 0..BufferSize
        BY DEF TypeInv, TransferOK
      <3> QED BY <3>1, <3>2 DEF BufferSize
    <2>3. p \in GoodPart /\ Count(p) \in 1..7
      <3>1. bufOffsetRd + 1 \in 1..Len(buf)
        BY <2>2 DEF Reading
      <3>2. p \in GoodPart
        BY <2>2, <3>1
      <3> QED BY <3>2, CountRange
    <2>4. TxOK'
      <3>1. last \in BOOLEAN /\ p \in Part
        BY <2>3 DEF GoodPart
      <3> HIDE DEF p, last
      <3>2. [Response("upload_segment") EXCEPT !.toggle = toggle, !.last = last,
                                               !.parts = <<p>>, !.obj = NoObject] \in Responses
        BY <1>0, <3>1, ResponseType, Zenon
      <3> QED BY <2>1, <3>2, SendType
    <2> HIDE DEF p
    <2>5. /\ bufOffsetRd' \in 0..Len(buf') /\ sizeTran' \in 0..BufferSize
          /\ sizeTran' <= 7 * bufOffsetRd' /\ (~last => bufOffsetRd' < Len(buf'))
      <3>1. bufOffsetRd < Len(buf) /\ sizeTran <= 7 * bufOffsetRd
        BY <2>2 DEF Reading
      <3>2. Len(buf') = Len(buf) /\ bufOffsetRd' = bufOffsetRd + 1
        BY <2>1
      <3>3. sizeTran' = sizeTran + Count(p)
        BY <2>1
      <3>4. ~last => bufOffsetRd + 1 # Len(buf)
        OBVIOUS
      <3> HIDE DEF last
      <3>5. bufOffsetRd' \in 0..Len(buf') /\ (~last => bufOffsetRd' < Len(buf'))
        BY <2>2, <3>1, <3>2, <3>4
      <3>6. sizeTran' \in 0..BufferSize /\ sizeTran' <= 7 * bufOffsetRd'
        <4>1. Count(p) \in Nat /\ Count(p) <= 7
          BY <2>3
        <4>2. sizeTran + Count(p) \in 0..32 /\ sizeTran + Count(p) <= 7 * (bufOffsetRd + 1)
          BY <2>2, <3>1, <4>1, OnePartMore, Zenon
        <4> QED BY <3>2, <3>3, <4>2 DEF BufferSize
      <3> QED BY <3>5, <3>6
    <2>6. TransferOK'
      BY <1>0, <2>1, <2>2, <2>5 DEF TypeInv, TransferOK
    <2>7. Modes'
      <3>1. Mode(state)'
        BY <2>1, <2>5 DEF Mode, Reading
      <3> QED BY <2>1, <3>1, RespondFrame
    <2>8. CallOK'
      BY <2>1, RespondFrame DEF States
    <2> QED BY <2>4, <2>6, <2>7, <2>8, RespondFrame DEF TypeInv
  <1>4. CASE RespondAbort
    <2>1. /\ pc' = "between" /\ state' \in {state, "IDLE"}
          /\ UNCHANGED transfer /\ UNCHANGED timeoutTimer
          /\ UNCHANGED tx \/ Send([Response("abort") EXCEPT !.code = abortCode])
      BY <1>4 DEF RespondAbort
    <2>2. TxOK'
      <3>1. abortCode \in AbortCodes
        BY DEF TypeInv, CallOK
      <3>2. [Response("abort") EXCEPT !.code = abortCode] \in Responses
        BY <1>0, <3>1, ResponseType, Zenon
      <3> QED BY <2>1, <3>2, SendType, Frame
    <2>3. CallOK'
      BY <1>0, <2>1, RespondFrame DEF States
    <2> QED BY <2>1, <2>2, <2>3, RespondFrame, Frame DEF TypeInv
  <1> QED BY <1>1, <1>2, <1>3, <1>4 DEF Respond

LEMMA SentType == ASSUME TypeInv, Sent PROVE TypeInv'
  <1>1. /\ UNCHANGED slot /\ UNCHANGED tx /\ UNCHANGED object /\ UNCHANGED clientSide
        /\ UNCHANGED <<obj, sizeInd, finished, timeoutTimer, isNew, cur, abortCode, codeLost>>
        /\ pc = "sent" /\ pc' = "between"
        /\ state' = (IF finished THEN "IDLE" ELSE "DOWNLOAD_SEGMENT_REQ")
    BY DEF Sent
  <1>2. CallOK'
    BY <1>1 DEF TypeInv, CallOK, States
  <1>3. Mode(cur) /\ cur \in {"DOWNLOAD_INITIATE_RSP", "DOWNLOAD_SEGMENT_RSP"}
    BY <1>1 DEF TypeInv, Modes
  <1>4. CASE cur = "DOWNLOAD_INITIATE_RSP" /\ ~finished
    <2>1. toggle' = 0 /\ sizeTran' = 0 /\ buf' = << >> /\ bufOffsetRd' = 0
      BY <1>4 DEF Sent
    <2>2. buf' \in Seq(GoodPart) /\ Len(buf') = 0
      BY <2>1, EmptySeq
    <2>3. TransferOK'
      BY <1>1, <2>1, <2>2 DEF TypeInv, TransferOK, BufferSize
    <2>4. Filling'
      <3>1. obj \in Objects
        BY <1>3, <1>4 DEF Mode
      <3>2. Dict[obj].size \in 1..23
        BY <3>1, DictIs
      <3>3. 0 <= Dict[obj].size
        BY <3>2
      <3> QED BY <1>1, <2>1, <2>2, <3>1, <3>3 DEF Filling
    <2>5. Modes'
      BY <1>1, <1>4, <2>4 DEF Modes, Mode
    <2> QED BY <1>1, <1>2, <2>3, <2>5, Frame DEF TypeInv
  <1>5. CASE ~(cur = "DOWNLOAD_INITIATE_RSP" /\ ~finished)
    <2>1. UNCHANGED <<toggle, sizeTran, buf, bufOffsetRd>>
      BY <1>5 DEF Sent
    <2>2. TransferOK'
      BY <1>1, <2>1 DEF TypeInv, TransferOK
    <2>3. finished \/ Filling
      BY <1>3, <1>5 DEF Mode
    <2>4. Modes'
      BY <1>1, <2>1, <2>3 DEF Modes, Mode, Filling
    <2> QED BY <1>1, <1>2, <2>2, <2>4, Frame DEF TypeInv
  <1> QED BY <1>4, <1>5

LEMMA RemoveType ==
  ASSUME NEW s \in Seq(Responses), NEW k \in 1..Len(s)
  PROVE  RemoveAt(s, k) \in Seq(Responses) /\ Len(RemoveAt(s, k)) = Len(s) - 1
  <1>1. Len(s) \in Nat /\ \A i \in 1..Len(s) : s[i] \in Responses
    OBVIOUS
  <1>2. k - 1 \in Int /\ k + 1 \in Int /\ 1 \in Int /\ Len(s) \in Int
    BY <1>1
  <1>3. (\A i \in 1..(k - 1) : s[i] \in Responses)
        /\ (\A i \in (k + 1)..Len(s) : s[i] \in Responses)
    BY <1>1
  <1>4. /\ SubSeq(s, 1, k - 1) \in Seq(Responses) /\ SubSeq(s, k + 1, Len(s)) \in Seq(Responses)
        /\ Len(SubSeq(s, 1, k - 1)) = k - 1 /\ Len(SubSeq(s, k + 1, Len(s))) = Len(s) - k
    BY <1>1, <1>2, <1>3, SubSeqProperties
  <1> DEFINE a == SubSeq(s, 1, k - 1)
             b == SubSeq(s, k + 1, Len(s))
  <1> HIDE DEF a, b
  <1>5. a \o b \in Seq(Responses) /\ Len(a \o b) = Len(a) + Len(b)
    BY <1>4, ConcatProperties, Zenon DEF a, b
  <1>6. Len(a) = k - 1 /\ Len(b) = Len(s) - k /\ RemoveAt(s, k) = a \o b
    BY <1>4 DEF RemoveAt, a, b
  <1>7. Len(RemoveAt(s, k)) = (k - 1) + (Len(s) - k)
    BY <1>5, <1>6, Zenon
  <1>8. (k - 1) + (Len(s) - k) = Len(s) - 1
    BY <1>1
  <1>9. RemoveAt(s, k) \in Seq(Responses)
    BY <1>5, <1>6, Zenon
  <1> QED BY <1>7, <1>8, <1>9, Zenon

LEMMA BusType ==
  ASSUME TypeInv
  PROVE  /\ held \in Seq(Responses) /\ Len(held) \in Nat /\ Len(held) <= 1
         /\ bus \in Seq(Responses) /\ Len(bus) \in Nat /\ Len(bus) <= InFlight
         /\ \A k \in 1..Len(bus) : /\ bus[k] \in Responses
                                   /\ bus' = RemoveAt(bus, k) /\ UNCHANGED held => TxOK'
  <1>1. /\ held \in Seq(Responses) /\ Len(held) \in Nat /\ Len(held) <= 1
        /\ bus \in Seq(Responses) /\ Len(bus) \in Nat /\ Len(bus) <= InFlight
    BY DEF TypeInv, TxOK
  <1>2. ASSUME NEW k \in 1..Len(bus), bus' = RemoveAt(bus, k), UNCHANGED held PROVE TxOK'
    <2>1. bus' \in Seq(Responses) /\ Len(bus') = Len(bus) - 1
      BY <1>1, <1>2, RemoveType
    <2>2. Len(bus') <= InFlight
      BY <1>1, <2>1, SdoServerAssumption
    <2> QED BY <1>1, <1>2, <2>1, <2>2 DEF TxOK
  <1>3. \A k \in 1..Len(bus) : bus[k] \in Responses
    BY <1>1
  <1> QED BY <1>1, <1>2, <1>3

(* What the bus leaves alone on the side of the server.                    *)
LEMMA ServerFrame ==
  ASSUME TypeInv, UNCHANGED callSide
  PROVE  /\ TransferOK' /\ ObjectOK'
         /\ state' \in States => CallOK'
         /\ state' \in {state, "IDLE"} => Modes'
  <1>1. /\ UNCHANGED transfer /\ UNCHANGED object
        /\ UNCHANGED <<timeoutTimer, pc, isNew, cur, abortCode, codeLost>>
    BY DEF callSide
  <1>2. state' \in States => CallOK'
    BY <1>1 DEF TypeInv, CallOK
  <1> QED BY <1>1, <1>2, Frame

LEMMA TxIsrType == ASSUME TypeInv, TxIsr PROVE TypeInv'
  <1>1. /\ held # << >> /\ Len(bus) < InFlight /\ bus' = bus \o held /\ held' = << >>
        /\ UNCHANGED clientSide /\ UNCHANGED slot /\ UNCHANGED callSide /\ UNCHANGED state
    BY DEF TxIsr, serverSide, callSide
  <1>2. TxOK'
    <2>1. bus \o held \in Seq(Responses) /\ Len(bus \o held) = Len(bus) + Len(held)
      BY BusType, ConcatProperties, Zenon
    <2>2. Len(bus') <= InFlight
      BY <1>1, <2>1, BusType, SdoServerAssumption
    <2>3. held' \in Seq(Responses) /\ Len(held') <= 1
      BY <1>1, EmptySeq
    <2> QED BY <1>1, <2>1, <2>2, <2>3 DEF TxOK
  <1>3. state' \in States
    BY <1>1 DEF TypeInv, CallOK
  <1> QED BY <1>1, <1>2, <1>3, ServerFrame, Frame DEF TypeInv

LEMMA LoseType == ASSUME TypeInv, Lose PROVE TypeInv'
  <1>1. /\ UNCHANGED clientSide /\ UNCHANGED slot /\ UNCHANGED callSide /\ UNCHANGED state
        /\ UNCHANGED held
    BY DEF Lose, serverSide, callSide
  <1>2. TxOK'
    <2>1. PICK k \in 1..Len(bus) : bus' = RemoveAt(bus, k)
      BY DEF Lose
    <2> QED BY <1>1, <2>1, BusType
  <1>3. state' \in States
    BY <1>1 DEF TypeInv, CallOK
  <1> QED BY <1>1, <1>2, <1>3, ServerFrame, Frame DEF TypeInv

LEMMA StartType == ASSUME TypeInv, NEW j \in Jobs, Start(j) PROVE TypeInv'
  <1>1. /\ client' = "initiate" /\ job' = j /\ id' = id + 1
        /\ got' = << >> /\ outcome' = "NONE" /\ Deliver(First(j, id + 1))
        /\ hasty' = (hasty \/ ~Quiet) /\ UNCHANGED callSide /\ UNCHANGED tx
    BY DEF Start
  <1>2. id + 1 \in 1..MaxJobs
    <2>1. id < MaxHastyJobs \/ id < MaxJobs
      BY DEF Start
    <2> QED BY <2>1, SdoServerAssumption DEF TypeInv, ClientOK
  <1>3. state' \in States /\ state' \in {state, "IDLE"} /\ SlotOK'
    BY <1>1, <1>2, FirstGood, DeliverType
  <1>4. ClientOK'
    <2>1. got' \in Seq(Part) /\ id' \in 1..MaxJobs
      BY <1>1, <1>2, EmptySeq
    <2> QED BY <1>1, <2>1 DEF ClientOK
  <1> QED BY <1>1, <1>3, <1>4, ServerFrame, Frame DEF TypeInv

(* A client that has stopped has nothing left to send.                     *)
LEMMA StopType ==
  ASSUME TypeInv, NEW how \in {"OK", "FAILED"}, Stop(how), got' \in Seq(Part)
  PROVE  ClientOK'
  BY DEF TypeInv, ClientOK, Stop

LEMMA GiveUpType == ASSUME TypeInv, GiveUp PROVE TypeInv'
  <1>1. /\ Stop("FAILED") /\ Deliver(Request("abort"))
        /\ got' = got /\ UNCHANGED callSide /\ UNCHANGED tx
    BY DEF GiveUp
  <1>2. state' \in States /\ state' \in {state, "IDLE"} /\ SlotOK'
    BY <1>1, AbortGood, DeliverType
  <1>3. ClientOK'
    <2>1. got' \in Seq(Part)
      BY <1>1 DEF TypeInv, ClientOK
    <2> QED BY <1>1, <2>1, StopType
  <1> QED BY <1>1, <1>2, <1>3, ServerFrame, Frame DEF TypeInv

(* The parts done are parts, and unless they are all one is left.          *)
LEMMA DoneType ==
  ASSUME TypeInv, client # "idle", NEW r \in Responses
  PROVE  /\ Done(r) \in Seq(Part)
         /\ job.kind = "download" /\ ~Complete(r) => Len(Done(r)) < (job.len + 6) \div 7
  <1>1. /\ job \in Jobs /\ id \in 0..MaxJobs /\ got \in Seq(Part)
        /\ client = "initiate" => got = << >>
        /\ client = "segment" /\ job.kind = "download" => Len(got) < (job.len + 6) \div 7
        /\ client \in {"initiate", "segment"}
    BY DEF TypeInv, ClientOK
  <1> DEFINE ps == Parts(id, job.len)
             m  == (job.len + 6) \div 7
  <1>2. r.parts \in Seq(Part)
    BY DEF Responses
  <1>3. /\ Len(ps) = m /\ m \in Nat /\ m >= 1
        /\ \A k \in 1..m : ps[k] \in Part
    <2>1. job.len \in Nat \ {0}
      BY <1>1, JobIs
    <2>2. /\ Len(ps) = m /\ Len(ps) \in Nat \ {0}
          /\ \A k \in 1..Len(ps) : ps[k] \in GoodPart
      BY <1>1, <2>1, PartsGood
    <2> HIDE DEF m, ps
    <2> QED BY <2>2 DEF GoodPart
  <1> HIDE DEF m, ps
  <1>4. CASE job.kind = "upload"
    <2>1. Done(r) = got \o r.parts
      BY <1>4 DEF Done
    <2> QED BY <1>1, <1>2, <1>4, <2>1
  <1>5. CASE job.kind # "upload" /\ client = "initiate" /\ job.len > 4
    <2>1. Done(r) = << >>
      BY <1>5 DEF Done
    <2>2. Done(r) \in Seq(Part) /\ Len(Done(r)) = 0
      BY <2>1, EmptySeq
    <2> QED BY <1>3, <2>2 DEF m
  <1>6. CASE job.kind # "upload" /\ ~(client = "initiate" /\ job.len > 4)
    <2>1. Done(r) = Append(got, ps[Len(got) + 1])
      BY <1>6 DEF Done, ps
    <2>2. Len(got) < m /\ Len(got) \in Nat
      <3>1. job.kind = "download"
        BY <1>1, <1>6, JobIs
      <3>2. CASE client = "initiate"
        <4>1. Len(got) = 0
          BY <1>1, <3>2
        <4> QED BY <1>3, <4>1
      <3>3. CASE client = "segment"
        BY <1>1, <3>1, <3>3 DEF m
      <3> QED BY <1>1, <3>2, <3>3
    <2>3. ps[Len(got) + 1] \in Part
      <3>1. Len(got) + 1 \in 1..m
        BY <1>3, <2>2
      <3> QED BY <1>3, <3>1
    <2>4. Done(r) \in Seq(Part) /\ Len(Done(r)) = Len(got) + 1
      BY <1>1, <2>1, <2>3
    <2>5. ~Complete(r) => Len(Done(r)) # m
      BY <1>3, <1>6 DEF Complete, ps
    <2> QED BY <1>3, <2>2, <2>4, <2>5 DEF m
  <1> QED BY <1>4, <1>5, <1>6

LEMMA HearType == ASSUME TypeInv, NEW k \in 1..Len(bus), Hear(k) PROVE TypeInv'
  <1> DEFINE r == bus[k]
  <1>1. bus' = RemoveAt(bus, k) /\ UNCHANGED held /\ UNCHANGED callSide
    BY DEF Hear
  <1>2. TxOK' /\ r \in Responses
    BY <1>1, BusType
  <1>3. state \in States /\ got \in Seq(Part) /\ hasty \in BOOLEAN
    BY DEF TypeInv, CallOK, ClientOK
  <1> SUFFICES state' \in States /\ state' \in {state, "IDLE"} /\ SlotOK' /\ ClientOK'
    BY <1>1, <1>2, ServerFrame DEF TypeInv
  <1>4. CASE UNCHANGED <<clientSide, state, slot>>
    BY <1>3, <1>4, Frame
  <1>5. CASE Stop("FAILED") /\ UNCHANGED <<got, state, slot>>
    <2>1. SlotOK'
      BY <1>5, Frame
    <2> QED BY <1>3, <1>5, <2>1, StopType
  <1>6. CASE client # "idle" /\ r.cs # "abort" /\ Expected(r) /\ got' = Done(r)
             /\ Complete(r) /\ Stop("OK") /\ UNCHANGED <<state, slot>>
    <2>1. SlotOK'
      BY <1>6, Frame
    <2>2. got' \in Seq(Part)
      BY <1>2, <1>6, DoneType
    <2> QED BY <1>3, <1>6, <2>1, <2>2, StopType
  <1>7. CASE client # "idle" /\ got' = Done(r) /\ ~Complete(r)
             /\ client' = "segment" /\ Deliver(NextRequest(Done(r)))
             /\ UNCHANGED <<job, id, outcome, hasty>>
    <2>1. /\ Done(r) \in Seq(Part)
          /\ job.kind = "download" => Len(Done(r)) < (job.len + 6) \div 7
      BY <1>2, <1>7, DoneType
    <2>2. job \in Jobs /\ id \in 1..MaxJobs /\ outcome \in {"NONE", "OK", "FAILED"}
      BY <1>7 DEF TypeInv, ClientOK
    <2>3. GoodRequest(NextRequest(Done(r)))
      BY <2>1, <2>2, NextRequestGood
    <2>4. state' \in States /\ state' \in {state, "IDLE"} /\ SlotOK'
      BY <1>7, <2>3, DeliverType
    <2>5. ClientOK'
      BY <1>3, <1>7, <2>1, <2>2 DEF ClientOK
    <2> QED BY <2>4, <2>5
  <1>8. CASE Stop("FAILED") /\ Deliver(Request("abort")) /\ got' = got
    <2>1. state' \in States /\ state' \in {state, "IDLE"} /\ SlotOK'
      BY <1>8, AbortGood, DeliverType
    <2> QED BY <1>3, <1>8, <2>1, StopType
  <1> QED BY <1>4, <1>5, <1>6, <1>7, <1>8 DEF Hear

LEMMA NextTypeInv == TypeInv /\ [Next]_vars => TypeInv'
  <1> SUFFICES ASSUME TypeInv, [Next]_vars PROVE TypeInv'
    OBVIOUS
  <1>1. CASE Process
    BY <1>1, BeginType, LookupType, TestType, SwitchType, HandleType, TimersType,
       RespondType, SentType DEF Process
  <1>2. CASE TxIsr \/ Lose
    BY <1>2, TxIsrType, LoseType
  <1>3. CASE Client
    BY <1>3, StartType, GiveUpType, HearType DEF Client
  <1>4. CASE UNCHANGED vars
    <2>1. /\ UNCHANGED callSide /\ UNCHANGED tx /\ UNCHANGED clientSide /\ UNCHANGED slot
          /\ state' = state
      BY <1>4 DEF vars, callSide
    <2>2. state' \in States
      BY <2>1 DEF TypeInv, CallOK
    <2> QED BY <2>1, <2>2, ServerFrame, Frame DEF TypeInv
  <1> QED BY <1>1, <1>2, <1>3, <1>4 DEF Next

(* The server stays within its buffer whatever the clients ask for, lose   *)
(* and abort: the size of the object bounds what a download is let in, and *)
(* an upload that is not at its end has a part left to send (CO_SDO_receive*)
(* and CO_SDOserver_process).                                              *)
THEOREM TypeCorrect == Spec => []TypeOK
  <1>1. Init => TypeInv
    BY InitTypeInv
  <1>2. TypeInv /\ [Next]_vars => TypeInv'
    BY NextTypeInv
  <1>3. TypeInv => TypeOK
    BY TypeInvType
  <1> QED BY <1>1, <1>2, <1>3, PTL DEF Spec

---------------------------------------------------------------------------
(* Whole values, and true success: what a client that waits can rely on    *)

Answering == {"DOWNLOAD_INITIATE_RSP", "DOWNLOAD_SEGMENT_RSP", "UPLOAD_INITIATE_RSP",
              "UPLOAD_SEGMENT_RSP"}
Starting  == {"DOWNLOAD_INITIATE_REQ", "UPLOAD_INITIATE_REQ"}

(* Where the call in progress leads to: a case or an answer that has begun *)
(* is not stopped by what the interrupt makes of the state.                *)
Turn ==
  IF pc \in {"handle", "respond"} THEN cur
  ELSE IF pc # "sent" THEN state
  ELSE IF finished THEN "IDLE" ELSE "DOWNLOAD_SEGMENT_REQ"

(* The reset after the answer to a first request is still to come.         *)
Fresh  == pc = "sent" /\ cur = "DOWNLOAD_INITIATE_RSP" /\ ~finished
Buf    == IF Fresh THEN << >> ELSE buf
Toggle == IF Fresh THEN 0 ELSE toggle
Offset == IF Fresh THEN 0 ELSE bufOffsetRd

(* A request waits or is being looked at.                                  *)
Pending == CANrxNew /\ ~(pc = "timers" /\ isNew)

(* The parts of the client's transfer, and those of the server's variable. *)
Mine   == Parts(id, job.len)
Theirs == object[job.obj].parts

Begins(s, t) == Len(s) <= Len(t) /\ \A i \in 1..Len(s) : s[i] = t[i]

Written == object[job.obj] = Value(id, job.len)

(* If the server still waits for a segment, it is the one after k.         *)
Sync(k) ==
  IF job.kind = "download"
    THEN Turn = "DOWNLOAD_SEGMENT_REQ" =>
           obj = job.obj /\ Toggle = k % 2 /\ Len(Buf) = k /\ Begins(Buf, Mine)
    ELSE Turn = "UPLOAD_SEGMENT_REQ" =>
           obj = job.obj /\ Toggle = k % 2 /\ Buf = Theirs /\ Offset = k

(* The steps of the call.                                                  *)
CallKnown ==
  /\ pc \in {"lookup", "test", "switch", "handle"} => isNew
  /\ isNew /\ pc \in {"lookup", "test", "switch", "handle", "timers"} => CANrxNew
  /\ pc \in {"handle", "respond"} => state \in {cur, "IDLE"}
  /\ Turn \in Starting => pc \in {"test", "switch", "handle"}
  /\ Turn \in Answering => ~Pending

(* The requests of the client: its first one, and the one after the parts  *)
(* it got.                                                                 *)
IsFirst(f) ==
  /\ got = << >> /\ f.cs = job.kind /\ f.obj = job.obj
  /\ job.kind = "download" => /\ f.ind = job.ind /\ f.size = job.len
                              /\ f.parts = IF job.len <= 4 THEN Mine ELSE << >>

IsNext(f) ==
  /\ f.toggle = Len(got) % 2
  /\ IF job.kind = "download"
       THEN /\ f.cs = "download_segment" /\ Len(got) < Len(Mine)
            /\ f.parts = <<Mine[Len(got) + 1]>> /\ (f.last <=> Len(got) + 1 = Len(Mine))
       ELSE f.cs = "upload_segment"

(* The request in the slot is the client's last one, and the server is     *)
(* ready for it.                                                           *)
SlotKnown ==
  /\ CANrxNew => IsFirst(CANrxData) \/ IsNext(CANrxData)
  /\ Pending /\ IsNext(CANrxData) => Sync(Len(got))
  /\ Turn \in Starting =>
       /\ IsFirst(CANrxData) /\ obj = job.obj
       /\ job.kind = "download" <=> Turn = "DOWNLOAD_INITIATE_REQ"

(* What an answer that is due will tell.                                   *)
DownloadKnown ==
  /\ Turn = "DOWNLOAD_INITIATE_RSP" =>
       /\ job.kind = "download" /\ obj = job.obj /\ got = << >>
       /\ (finished <=> job.len <= 4) /\ (finished => Written)
  /\ Turn = "DOWNLOAD_SEGMENT_RSP" =>
       /\ job.kind = "download" /\ obj = job.obj /\ Toggle = Len(got) % 2
       /\ (finished <=> Len(got) + 1 = Len(Mine)) /\ (finished => Written)
       /\ ~finished => Len(Buf) = Len(got) + 1 /\ Begins(Buf, Mine)

UploadKnown ==
  /\ job.kind = "upload" => got = << >> \/ Begins(got, Theirs)
  /\ Turn \in {"UPLOAD_INITIATE_REQ", "UPLOAD_INITIATE_RSP"} =>
       /\ job.kind = "upload" /\ obj = job.obj /\ got = << >>
       /\ Buf = Theirs /\ Offset = 0
  /\ Turn = "UPLOAD_SEGMENT_RSP" =>
       /\ job.kind = "upload" /\ obj = job.obj /\ Toggle = Len(got) % 2
       /\ Buf = Theirs /\ Offset = Len(got)

(* The answers that are true of the server.                                *)
Truths ==
  { m \in Responses :
      /\ m.cs = "download" =>
           /\ job.kind = "download" /\ got = << >>
           /\ IF job.len <= 4 THEN Written ELSE Sync(0)
      /\ m.cs = "download_segment" =>
           /\ job.kind = "download"
           /\ IF Len(got) + 1 = Len(Mine) THEN Written ELSE Sync(Len(got) + 1)
      /\ m.cs = "upload" =>
           /\ job.kind = "upload" /\ got = << >> /\ ~m.last
           /\ IF m.parts = << >> THEN Sync(0) ELSE m.parts = Theirs
      /\ m.cs = "upload_segment" =>
           /\ job.kind = "upload" /\ Theirs \in Seq(Part) /\ Len(got) < Len(Theirs)
           /\ m.parts = <<Theirs[Len(got) + 1]>>
           /\ (m.last <=> Len(got) + 1 = Len(Theirs))
           /\ ~m.last => Sync(Len(got) + 1) }

NoAnswerIn(s) == \A k \in 1..Len(s) : s[k].cs = "abort"
NoAnswer      == NoAnswerIn(held) /\ NoAnswerIn(bus)

(* One answer at most is under way, and it is true; none is under way      *)
(* while another is to come.                                               *)
Traffic ==
  /\ \A k \in 1..Len(bus) : bus[k] \in Truths
  /\ \A k \in 1..Len(held) : held[k] \in Truths
  /\ \A j, k \in 1..Len(bus) : bus[j].cs # "abort" /\ bus[k].cs # "abort" => j = k
  /\ NoAnswerIn(held) \/ NoAnswerIn(bus)

OneDue == CANrxNew \/ Turn \in Answering => NoAnswer

(* After a success nothing is left to happen.                              *)
OverKnown ==
  outcome = "OK" =>
    /\ client = "idle" /\ ~CANrxNew /\ NoAnswer /\ Turn \notin Answering
    /\ IF job.kind = "download" THEN Written ELSE got = Theirs

Whole == \A o \in Objects : \E i \in 0..id, n \in 1..Dict[o].size : object[o] = Value(i, n)

Agreed ==
  /\ CallKnown /\ SlotKnown /\ DownloadKnown /\ UploadKnown
  /\ Traffic /\ OneDue /\ OverKnown /\ Whole

LEMMA AbortsTrue ==
  ASSUME NEW m \in Responses, m.cs = "abort"
  PROVE  m \in Truths /\ m \in Truths'
  BY DEF Truths

LEMMA RemoveIs ==
  ASSUME NEW s \in Seq(Responses), NEW k \in 1..Len(s), NEW i \in 1..(Len(s) - 1)
  PROVE  RemoveAt(s, k)[i] = s[IF i < k THEN i ELSE i + 1]
  <1>1. Len(s) \in Nat /\ \A l \in 1..Len(s) : s[l] \in Responses
    OBVIOUS
  <1>2. k - 1 \in Int /\ k + 1 \in Int /\ 1 \in Int /\ Len(s) \in Int
    BY <1>1
  <1>3. (\A l \in 1..(k - 1) : s[l] \in Responses)
        /\ (\A l \in (k + 1)..Len(s) : s[l] \in Responses)
    BY <1>1
  <1> DEFINE a == SubSeq(s, 1, k - 1)
             b == SubSeq(s, k + 1, Len(s))
  <1>4. /\ a \in Seq(Responses) /\ b \in Seq(Responses)
        /\ Len(a) = k - 1 /\ Len(b) = Len(s) - k
        /\ \A l \in 1..(k - 1) : a[l] = s[l]
        /\ \A l \in 1..(Len(s) - k) : b[l] = s[k + l]
    BY <1>1, <1>2, <1>3, SubSeqProperties
  <1>5. RemoveAt(s, k) = a \o b
    BY DEF RemoveAt
  <1> HIDE DEF a, b
  <1>6. CASE i < k
    <2>1. i \in 1..(k - 1)
      BY <1>1, <1>6
    <2>2. (a \o b)[i] = a[i]
      BY <1>4, <2>1
    <2> QED BY <1>4, <1>5, <1>6, <2>1, <2>2
  <1>7. CASE ~(i < k)
    <2>1. i - (k - 1) \in 1..(Len(s) - k) /\ i \in 1..(Len(a) + Len(b)) /\ ~(i <= Len(a))
      BY <1>1, <1>4, <1>7
    <2>2. (a \o b)[i] = b[i - (k - 1)]
      BY <1>4, <2>1
    <2>3. b[i - (k - 1)] = s[k + (i - (k - 1))]
      BY <1>4, <2>1
    <2>4. k + (i - (k - 1)) = i + 1
      BY <1>1
    <2> QED BY <1>5, <1>7, <2>2, <2>3, <2>4
  <1> QED BY <1>6, <1>7

(* What can be said of the messages under way after a step.                *)
LEMMA BusIs ==
  ASSUME TypeInv, Agreed
  PROVE  /\ \A k \in 1..Len(bus) : bus[k] \in Truths /\ bus[k] \in Responses
         /\ \A k \in 1..Len(held) : held[k] \in Truths /\ held[k] \in Responses
         /\ \A j, k \in 1..Len(bus) : bus[j].cs # "abort" /\ bus[k].cs # "abort" => j = k
         /\ NoAnswerIn(held) \/ NoAnswerIn(bus)
  BY BusType DEF Agreed, Traffic

(* Aborts alone are always true.                                           *)
LEMMA SilentTraffic ==
  ASSUME TxOK', NoAnswer'
  PROVE  Traffic'
  <1>1. /\ \A k \in 1..Len(bus') : bus'[k] \in Responses /\ bus'[k].cs = "abort"
        /\ \A k \in 1..Len(held') : held'[k] \in Responses /\ held'[k].cs = "abort"
    BY DEF TxOK, NoAnswer, NoAnswerIn
  <1>2. /\ \A k \in 1..Len(bus') : bus'[k] \in Truths'
        /\ \A k \in 1..Len(held') : held'[k] \in Truths'
    BY <1>1, AbortsTrue
  <1>3. NoAnswerIn(held)'
    BY DEF NoAnswer
  <1> QED BY <1>1, <1>2, <1>3 DEF Traffic

LEMMA SameTraffic ==
  ASSUME TypeInv, Agreed, UNCHANGED tx
  PROVE  /\ NoAnswer' = NoAnswer
         /\ (\A m \in Truths : m \in Truths') => Traffic'
  <1>1. UNCHANGED <<held, bus>>
    BY DEF tx
  <1>2. NoAnswer' = NoAnswer
    BY <1>1 DEF NoAnswer, NoAnswerIn
  <1>3. (\A m \in Truths : m \in Truths') => Traffic'
    BY <1>1, BusIs DEF Traffic, NoAnswerIn
  <1> QED BY <1>2, <1>3

(* A frame leaves its mailbox; if it is an answer there is no other.       *)
LEMMA LessTraffic ==
  ASSUME TypeInv, Agreed, NEW k \in 1..Len(bus), bus' = RemoveAt(bus, k), UNCHANGED held
  PROVE  /\ NoAnswer => NoAnswer'
         /\ bus[k].cs # "abort" => NoAnswer'
         /\ (\A m \in Truths : m \in Truths') => Traffic'
  <1>1. /\ bus \in Seq(Responses) /\ Len(bus) \in Nat
        /\ Len(bus') = Len(bus) - 1
    BY BusType, RemoveType
  <1> DEFINE at(i) == IF i < k THEN i ELSE i + 1
  <1>2. \A i \in 1..Len(bus') : /\ bus'[i] = bus[at(i)]
                                /\ at(i) \in 1..Len(bus) /\ at(i) # k
    BY <1>1, RemoveIs
  <1>3. \A i, j \in 1..Len(bus') : at(i) = at(j) => i = j
    BY <1>1
  <1> HIDE DEF at
  <1>4. NoAnswerIn(held)' = NoAnswerIn(held)
    BY DEF NoAnswerIn
  <1>5. NoAnswerIn(bus) => NoAnswerIn(bus)'
    BY <1>2 DEF NoAnswerIn
  <1>6. bus[k].cs # "abort" => NoAnswer'
    <2> SUFFICES ASSUME bus[k].cs # "abort" PROVE NoAnswer'
      OBVIOUS
    <2>1. NoAnswerIn(held)
      BY BusIs DEF NoAnswerIn
    <2>2. \A i \in 1..Len(bus) : i # k => bus[i].cs = "abort"
      BY BusIs
    <2>3. NoAnswerIn(bus)'
      BY <1>2, <2>2 DEF NoAnswerIn
    <2> QED BY <1>4, <2>1, <2>3 DEF NoAnswer
  <1>7. (\A m \in Truths : m \in Truths') => Traffic'
    <2> SUFFICES ASSUME \A m \in Truths : m \in Truths' PROVE Traffic'
      OBVIOUS
    <2>1. \A i \in 1..Len(bus') : bus'[i] \in Truths'
      BY <1>2, BusIs
    <2>2. \A i \in 1..Len(held') : held'[i] \in Truths'
      BY BusIs
    <2>3. ASSUME NEW i \in 1..Len(bus'), NEW j \in 1..Len(bus'),
                 bus'[i].cs # "abort", bus'[j].cs # "abort"
          PROVE  i = j
      <3>1. bus[at(i)].cs # "abort" /\ bus[at(j)].cs # "abort"
            /\ at(i) \in 1..Len(bus) /\ at(j) \in 1..Len(bus)
        BY <1>2, <2>3
      <3>2. at(i) = at(j)
        BY <3>1, BusIs
      <3> QED BY <1>3, <3>2
    <2>4. NoAnswerIn(held)' \/ NoAnswerIn(bus)'
      BY <1>4, <1>5, BusIs
    <2> QED BY <2>1, <2>2, <2>3, <2>4 DEF Traffic
  <1> QED BY <1>4, <1>5, <1>6, <1>7 DEF NoAnswer

LEMMA MovedTraffic ==
  ASSUME TypeInv, Agreed, bus' = bus \o held, held' = << >>
  PROVE  /\ NoAnswer => NoAnswer'
         /\ (\A m \in Truths : m \in Truths') => Traffic'
  <1>1. /\ bus \in Seq(Responses) /\ Len(bus) \in Nat
        /\ held \in Seq(Responses) /\ Len(held) \in Nat /\ Len(held) <= 1
    BY BusType
  <1>2. /\ Len(bus') = Len(bus) + Len(held)
        /\ \A i \in 1..(Len(bus) + Len(held)) :
             bus'[i] = IF i <= Len(bus) THEN bus[i] ELSE held[i - Len(bus)]
    BY <1>1
  <1>3. NoAnswerIn(held)'
    BY DEF NoAnswerIn
  <1>4. NoAnswer => NoAnswerIn(bus)'
    BY <1>1, <1>2 DEF NoAnswer, NoAnswerIn
  <1>5. (\A m \in Truths : m \in Truths') => Traffic'
    <2> SUFFICES ASSUME \A m \in Truths : m \in Truths' PROVE Traffic'
      OBVIOUS
    <2>1. \A i \in 1..Len(bus') : bus'[i] \in Truths
      BY <1>1, <1>2, BusIs
    <2>2. ASSUME NEW i \in 1..Len(bus'), NEW j \in 1..Len(bus'),
                 bus'[i].cs # "abort", bus'[j].cs # "abort"
          PROVE  i = j
      <3>1. CASE NoAnswerIn(held)
        <4>1. i \in 1..Len(bus) /\ j \in 1..Len(bus)
          BY <1>1, <1>2, <2>2, <3>1 DEF NoAnswerIn
        <4> QED BY <1>1, <1>2, <2>2, <4>1, BusIs
      <3>2. CASE NoAnswerIn(bus)
        <4>1. ~(i <= Len(bus)) /\ ~(j <= Len(bus))
          BY <1>1, <1>2, <2>2, <3>2 DEF NoAnswerIn
        <4> QED BY <1>1, <1>2, <4>1
      <3> QED BY <3>1, <3>2, BusIs
    <2>3. \A i \in 1..Len(held') : held'[i] \in Truths'
      OBVIOUS
    <2> QED BY <1>3, <2>1, <2>2, <2>3 DEF Traffic
  <1> QED BY <1>3, <1>4, <1>5 DEF NoAnswer

(* An abort of the server comes between, but is no answer.                 *)
LEMMA AbortTraffic ==
  ASSUME TypeInv, Agreed, NEW m \in Responses, m.cs = "abort", Send(m)
  PROVE  /\ NoAnswer => NoAnswer'
         /\ (\A r \in Truths : r \in Truths') => Traffic'
  <1>1. /\ bus \in Seq(Responses) /\ Len(bus) \in Nat
        /\ held \in Seq(Responses) /\ Len(held) \in Nat
    BY BusType
  <1>2. CASE bus' = Append(bus, m) /\ UNCHANGED held
    <2>1. /\ Len(bus') = Len(bus) + 1
          /\ \A i \in 1..(Len(bus) + 1) : bus'[i] = IF i <= Len(bus) THEN bus[i] ELSE m
      BY <1>1, <1>2
    <2>2. (NoAnswerIn(bus)' = NoAnswerIn(bus)) /\ (NoAnswerIn(held)' = NoAnswerIn(held))
      BY <1>1, <1>2, <2>1 DEF NoAnswerIn
    <2>3. (\A r \in Truths : r \in Truths') => Traffic'
      <3> SUFFICES ASSUME \A r \in Truths : r \in Truths' PROVE Traffic'
        OBVIOUS
      <3>1. \A i \in 1..Len(bus') : bus'[i] \in Truths
        BY <1>1, <2>1, AbortsTrue, BusIs
      <3>2. \A i, j \in 1..Len(bus') :
              bus'[i].cs # "abort" /\ bus'[j].cs # "abort" => i = j
        BY <1>1, <2>1, BusIs
      <3>3. \A i \in 1..Len(held') : held'[i] \in Truths'
        BY <1>2, BusIs
      <3> QED BY <2>2, <3>1, <3>2, <3>3, BusIs DEF Traffic
    <2> QED BY <2>2, <2>3 DEF NoAnswer
  <1>3. CASE held' = <<m>> /\ UNCHANGED bus
    <2>1. NoAnswerIn(held)' /\ (NoAnswerIn(bus)' = NoAnswerIn(bus))
      BY <1>3 DEF NoAnswerIn
    <2>2. (\A r \in Truths : r \in Truths') => Traffic'
      BY <1>3, <2>1, AbortsTrue, BusIs DEF Traffic
    <2> QED BY <2>1, <2>2 DEF NoAnswer
  <1> QED BY <1>2, <1>3 DEF Send

(* An answer is given when none is under way.                              *)
LEMMA AnswerTraffic ==
  ASSUME TypeInv, NoAnswer, NEW m \in Truths', Send(m)
  PROVE  Traffic'
  <1>1. /\ bus \in Seq(Responses) /\ Len(bus) \in Nat
        /\ held \in Seq(Responses) /\ Len(held) \in Nat
        /\ \A i \in 1..Len(bus) : bus[i] \in Truths' /\ bus[i].cs = "abort"
        /\ \A i \in 1..Len(held) : held[i] \in Truths' /\ held[i].cs = "abort"
    BY BusType, AbortsTrue DEF NoAnswer, NoAnswerIn
  <1>2. CASE bus' = Append(bus, m) /\ UNCHANGED held
    <2>1. /\ Len(bus') = Len(bus) + 1
          /\ \A i \in 1..(Len(bus) + 1) : bus'[i] = IF i <= Len(bus) THEN bus[i] ELSE m
      <3>1. m \in Responses
        BY DEF Truths
      <3> QED BY <1>1, <1>2, <3>1
    <2> QED BY <1>1, <1>2, <2>1 DEF Traffic, NoAnswerIn
  <1>3. CASE held' = <<m>> /\ UNCHANGED bus
    BY <1>1, <1>3 DEF Traffic, NoAnswerIn
  <1> QED BY <1>2, <1>3 DEF Send

(* What holds while neither the data nor the turn moves on.                *)
LEMMA Kept ==
  ASSUME Turn' \in {Turn, "IDLE", "ABORT"},
         UNCHANGED <<obj, Buf, Toggle, Offset, object, job, id, got>>
  PROVE  /\ \A m \in Truths : m \in Truths'
         /\ Mine' = Mine /\ Theirs' = Theirs /\ (Written' <=> Written)
         /\ Sync(Len(got)) => Sync(Len(got))'
         /\ UploadKnown => UploadKnown'
         /\ DownloadKnown /\ UNCHANGED finished => DownloadKnown'
         /\ Whole => Whole'
  <1>1. Mine' = Mine /\ Theirs' = Theirs /\ (Written' <=> Written)
    BY DEF Mine, Theirs, Written
  <1>2. /\ Turn' = "DOWNLOAD_SEGMENT_REQ" => Turn = "DOWNLOAD_SEGMENT_REQ"
        /\ Turn' = "UPLOAD_SEGMENT_REQ" => Turn = "UPLOAD_SEGMENT_REQ"
    OBVIOUS
  <1>3. \A m \in Truths : m \in Truths'
    BY <1>1, <1>2 DEF Truths, Sync, Begins
  <1>4. Sync(Len(got)) => Sync(Len(got))'
    BY <1>1, <1>2 DEF Sync, Begins
  <1>5. UploadKnown => UploadKnown'
    BY <1>1 DEF UploadKnown, Begins
  <1>6. DownloadKnown /\ UNCHANGED finished => DownloadKnown'
    BY <1>1 DEF DownloadKnown, Begins
  <1>7. Whole => Whole'
    BY DEF Whole
  <1> QED BY <1>1, <1>3, <1>4, <1>5, <1>6, <1>7

(* A step of the call, or of the bus, that leaves the transfer alone.      *)
LEMMA StepKept ==
  ASSUME TypeInv, Agreed,
         Turn' \in {Turn, "IDLE", "ABORT"},
         UNCHANGED <<obj, Buf, Toggle, Offset, object, job, id, got, CANrxData, finished>>,
         CANrxNew' => CANrxNew, Pending' => Pending, CallKnown',
         Traffic', NoAnswer => NoAnswer',
         outcome' = "OK" => outcome = "OK" /\ client' = client
  PROVE  Agreed'
  <1>1. Turn' \in Answering => Turn' = Turn
    BY DEF Answering
  <1>2. Turn' \in Starting => Turn' = Turn
    BY DEF Starting
  <1>3. Mine' = Mine /\ Theirs' = Theirs /\ (Written' <=> Written)
        /\ (Sync(Len(got)) => Sync(Len(got))')
    BY Kept
  <1>6. SlotKnown'
    <2>1. IsFirst(CANrxData) => IsFirst(CANrxData)'
      BY <1>3 DEF IsFirst
    <2>2. IsNext(CANrxData)' <=> IsNext(CANrxData)
      BY <1>3 DEF IsNext
    <2>3. SlotKnown
      BY DEF Agreed
    <2> QED BY <1>2, <1>3, <2>1, <2>2, <2>3 DEF SlotKnown
  <1>7. DownloadKnown' /\ UploadKnown' /\ Whole'
    BY Kept DEF Agreed
  <1>8. OneDue'
    BY <1>1 DEF Agreed, OneDue
  <1>9. OverKnown'
    <2>1. OverKnown
      BY DEF Agreed
    <2> QED BY <1>1, <1>3, <2>1 DEF OverKnown
  <1> QED BY <1>6, <1>7, <1>8, <1>9 DEF Agreed

(* The steps of the call, outside the answers.                             *)
LEMMA TurnIs ==
  /\ pc \in {"handle", "respond"} => Turn = cur
  /\ pc \notin {"handle", "respond", "sent"} => Turn = state
  /\ pc # "sent" => ~Fresh /\ Buf = buf /\ Toggle = toggle /\ Offset = bufOffsetRd
  BY DEF Turn, Fresh, Buf, Toggle, Offset

LEMMA TurnNext ==
  /\ pc' \in {"handle", "respond"} => Turn' = cur'
  /\ pc' \notin {"handle", "respond", "sent"} => Turn' = state'
  /\ pc' # "sent" => ~Fresh' /\ Buf' = buf' /\ Toggle' = toggle' /\ Offset' = bufOffsetRd'
  BY DEF Turn, Fresh, Buf, Toggle, Offset

LEMMA BeginAgreed ==
  ASSUME TypeInv, Agreed, NEW allowed \in BOOLEAN, Begin(allowed)
  PROVE  Agreed'
  <1>1. /\ UNCHANGED transfer /\ UNCHANGED tx /\ UNCHANGED object /\ UNCHANGED clientSide
        /\ UNCHANGED CANrxData /\ pc = "between" /\ isNew' = CANrxNew
        /\ \/ /\ pc' = (IF CANrxNew THEN "lookup" ELSE "timers")
              /\ UNCHANGED <<state, CANrxNew>>
           \/ state' = "IDLE" /\ CANrxNew' = FALSE /\ pc' = "between"
    BY DEF Begin
  <1>2. /\ Turn' \in {Turn, "IDLE", "ABORT"}
        /\ UNCHANGED <<obj, Buf, Toggle, Offset, finished>>
    BY <1>1, TurnIs, TurnNext DEF transfer
  <1>3. CANrxNew \in BOOLEAN
    BY DEF TypeInv, SlotOK
  <1>4. (CANrxNew' => CANrxNew) /\ (Pending' => Pending)
    BY <1>1, <1>3 DEF Pending
  <1>5. CallKnown'
    <2>1. Turn' \notin Starting
      BY <1>1, TurnIs, TurnNext DEF Agreed, CallKnown, Starting
    <2>2. Turn' \in Answering => ~Pending'
      BY <1>1, <1>4, TurnIs, TurnNext DEF Agreed, CallKnown, Answering
    <2> QED BY <1>1, <1>3, <2>1, <2>2 DEF CallKnown
  <1>6. Traffic' /\ (NoAnswer => NoAnswer')
    BY <1>1, <1>2, SameTraffic, Kept DEF clientSide
  <1> QED BY <1>1, <1>2, <1>4, <1>5, <1>6, StepKept DEF clientSide

LEMMA TestAgreed ==
  ASSUME TypeInv, Agreed, Test \/ Switch \/ Transmit
  PROVE  Agreed'
  <1>1. /\ UNCHANGED transfer /\ UNCHANGED tx /\ UNCHANGED object /\ UNCHANGED clientSide
        /\ UNCHANGED <<state, CANrxNew, CANrxData, isNew>>
        /\ \/ /\ pc = "test" /\ cur' = cur
              /\ pc' = IF state \in {"IDLE", "ABORT"} THEN "timers" ELSE "switch"
           \/ pc = "switch" /\ pc' = "handle" /\ cur' = state
           \/ pc = "transmit" /\ pc' = "respond" /\ cur' = state
    BY DEF Test, Switch, Transmit, slot
  <1>2. Turn' = Turn /\ UNCHANGED <<obj, Buf, Toggle, Offset, finished>>
    BY <1>1, TurnIs, TurnNext DEF transfer
  <1>3. Pending' => Pending
    BY <1>1 DEF Pending
  <1>4. CallKnown'
    <2>1. CallKnown /\ Turn = state
      BY <1>1, TurnIs DEF Agreed
    <2>2. (Turn' \in Starting <=> state \in Starting)
          /\ (state \in Starting => state \notin {"IDLE", "ABORT"})
      BY <1>2, <2>1 DEF Starting
    <2>3. Turn' \in Answering => ~Pending'
      BY <1>2, <1>3, <2>1 DEF CallKnown
    <2> QED BY <1>1, <2>1, <2>2, <2>3 DEF CallKnown
  <1>5. Traffic' /\ (NoAnswer => NoAnswer')
    BY <1>1, <1>2, SameTraffic, Kept DEF clientSide
  <1> QED BY <1>1, <1>2, <1>3, <1>4, <1>5, StepKept DEF clientSide

LEMMA TimersAgreed ==
  ASSUME TypeInv, Agreed, NEW elapsed \in 1..MaxElapsed, Timers(elapsed)
  PROVE  Agreed'
  <1>1. /\ UNCHANGED transfer /\ UNCHANGED tx /\ UNCHANGED object /\ UNCHANGED clientSide
        /\ UNCHANGED <<CANrxData, isNew>>
        /\ CANrxNew' = (IF isNew THEN FALSE ELSE CANrxNew)
        /\ state' \in {state, "ABORT"} /\ pc = "timers" /\ pc' \in {"transmit", "between"}
    BY DEF Timers, EndCase
  <1>2. /\ Turn' \in {Turn, "IDLE", "ABORT"}
        /\ UNCHANGED <<obj, Buf, Toggle, Offset, finished>>
    BY <1>1, TurnIs, TurnNext DEF transfer
  <1>3. (CANrxNew' => CANrxNew) /\ (Pending' => Pending)
    BY <1>1 DEF Pending
  <1>4. CallKnown'
    <2>1. CallKnown /\ Turn = state /\ Turn' = state'
      BY <1>1, TurnIs, TurnNext DEF Agreed
    <2>2. Turn' \notin Starting
      BY <1>1, <2>1 DEF CallKnown, Starting
    <2>3. Turn' \in Answering => ~Pending'
      BY <1>1, <1>3, <2>1 DEF CallKnown, Answering
    <2> QED BY <1>1, <2>2, <2>3 DEF CallKnown
  <1>5. Traffic' /\ (NoAnswer => NoAnswer')
    BY <1>1, <1>2, SameTraffic, Kept DEF clientSide
  <1> QED BY <1>1, <1>2, <1>3, <1>4, <1>5, StepKept DEF clientSide

LEMMA SentAgreed == ASSUME TypeInv, Agreed, Sent PROVE Agreed'
  <1>1. /\ UNCHANGED tx /\ UNCHANGED object /\ UNCHANGED clientSide
        /\ UNCHANGED <<CANrxNew, CANrxData, isNew, obj, finished, cur>>
        /\ pc = "sent" /\ pc' = "between"
        /\ state' = (IF finished THEN "IDLE" ELSE "DOWNLOAD_SEGMENT_REQ")
        /\ IF cur = "DOWNLOAD_INITIATE_RSP" /\ ~finished
             THEN toggle' = 0 /\ buf' = << >> /\ bufOffsetRd' = 0
             ELSE UNCHANGED <<toggle, buf, bufOffsetRd>>
    BY DEF Sent, slot
  <1>2. Turn' = Turn /\ UNCHANGED <<Buf, Toggle, Offset>>
    BY <1>1, TurnNext DEF Turn, Buf, Toggle, Offset, Fresh
  <1>3. Pending' => Pending
    BY <1>1 DEF Pending
  <1>4. CallKnown'
    <2>1. Turn' \notin Starting /\ Turn' \notin Answering
      BY <1>1, TurnNext DEF Starting, Answering
    <2> QED BY <1>1, <2>1 DEF CallKnown
  <1>5. Traffic' /\ (NoAnswer => NoAnswer')
    BY <1>1, <1>2, SameTraffic, Kept DEF clientSide
  <1> QED BY <1>1, <1>2, <1>3, <1>4, <1>5, StepKept DEF clientSide

(* What a step of the bus leaves alone on the side of the server.          *)
LEMMA SideKept ==
  ASSUME state' \in {state, "IDLE"}, UNCHANGED callSide
  PROVE  /\ Turn' \in {Turn, "IDLE", "ABORT"}
         /\ state' = state => Turn' = Turn
         /\ UNCHANGED <<obj, Buf, Toggle, Offset, finished, object, pc, isNew, cur>>
  <1>1. UNCHANGED <<obj, toggle, buf, bufOffsetRd, finished, object, pc, isNew, cur>>
    BY DEF callSide, transfer
  <1> QED BY <1>1 DEF Turn, Fresh, Buf, Toggle, Offset

(* The client leaves the slot as it is, or aborts.                         *)
LEMMA SlotKept ==
  ASSUME TypeInv, Agreed, state' \in {state, "IDLE"}, UNCHANGED callSide, UNCHANGED slot,
         UNCHANGED <<job, id, got>>,
         (\A m \in Truths : m \in Truths') => Traffic',
         NoAnswer => NoAnswer',
         outcome' = "OK" => outcome = "OK" /\ client' = client
  PROVE  Agreed'
  <1>1. UNCHANGED <<CANrxNew, CANrxData>>
    BY DEF slot
  <1>2. /\ Turn' \in {Turn, "IDLE", "ABORT"}
        /\ UNCHANGED <<obj, Buf, Toggle, Offset, finished, object, pc, isNew, cur>>
    BY SideKept
  <1>3. Pending' => Pending
    BY <1>1, <1>2 DEF Pending
  <1>4. CallKnown'
    <2>1. CallKnown
      BY DEF Agreed
    <2>2. (Turn' \in Starting => Turn \in Starting) /\ (Turn' \in Answering => Turn \in Answering)
      BY <1>2 DEF Starting, Answering
    <2> QED BY <1>1, <1>2, <1>3, <2>1, <2>2 DEF CallKnown
  <1>5. Traffic'
    BY <1>2, Kept
  <1> QED BY <1>1, <1>2, <1>3, <1>4, <1>5, StepKept

LEMMA TxIsrAgreed == ASSUME TypeInv, Agreed, TxIsr PROVE Agreed'
  <1>1. /\ bus' = bus \o held /\ held' = << >> /\ UNCHANGED callSide /\ UNCHANGED slot
        /\ UNCHANGED <<state, client, job, id, got, outcome>>
    BY DEF TxIsr, serverSide, callSide, clientSide
  <1>2. (NoAnswer => NoAnswer') /\ ((\A m \in Truths : m \in Truths') => Traffic')
    BY <1>1, MovedTraffic
  <1> QED BY <1>1, <1>2, SlotKept

LEMMA LoseAgreed == ASSUME TypeInv, Agreed, Lose PROVE Agreed'
  <1>1. /\ UNCHANGED callSide /\ UNCHANGED slot /\ UNCHANGED held
        /\ UNCHANGED <<state, client, job, id, got, outcome>>
    BY DEF Lose, serverSide, callSide, clientSide
  <1>2. PICK k \in 1..Len(bus) : bus' = RemoveAt(bus, k)
    BY DEF Lose
  <1>3. (NoAnswer => NoAnswer') /\ ((\A m \in Truths : m \in Truths') => Traffic')
    BY <1>1, <1>2, LessTraffic
  <1> QED BY <1>1, <1>3, SlotKept

LEMMA StutterAgreed == ASSUME TypeInv, Agreed, UNCHANGED vars PROVE Agreed'
  <1>1. /\ UNCHANGED callSide /\ UNCHANGED slot /\ UNCHANGED tx
        /\ UNCHANGED <<state, client, job, id, got, outcome>>
    BY DEF vars, callSide, clientSide
  <1> QED BY <1>1, SameTraffic, SlotKept

(* An abort of the client is not stored.                                   *)
LEMMA ClientAborts ==
  ASSUME Deliver(Request("abort"))
  PROVE  state' \in {state, "IDLE"} /\ UNCHANGED slot
  BY DEF Deliver, Receive, Request

LEMMA GiveUpAgreed == ASSUME TypeInv, Agreed, GiveUp PROVE Agreed'
  <1>1. /\ UNCHANGED callSide /\ UNCHANGED tx /\ Deliver(Request("abort"))
        /\ UNCHANGED <<job, id, got>> /\ outcome' = "FAILED"
    BY DEF GiveUp, Stop
  <1> QED BY <1>1, ClientAborts, SameTraffic, SlotKept

LEMMA RespondAbortAgreed ==
  ASSUME TypeInv, Agreed, Respond, RespondAbort
  PROVE  Agreed'
  <1>1. /\ UNCHANGED transfer /\ UNCHANGED object /\ UNCHANGED clientSide
        /\ UNCHANGED <<CANrxNew, CANrxData, isNew>>
        /\ pc = "respond" /\ pc' = "between" /\ cur \notin Answering
    BY DEF Respond, RespondAbort, slot, Answering
  <1>2. state' \in {state, "IDLE"} /\ state \in {cur, "IDLE"} /\ Turn = cur
    BY <1>1, TurnIs DEF RespondAbort, Agreed, CallKnown
  <1>3. /\ Turn' \in {Turn, "IDLE", "ABORT"}
        /\ UNCHANGED <<obj, Buf, Toggle, Offset, finished>>
    BY <1>1, <1>2, TurnIs, TurnNext DEF transfer
  <1>4. Pending' => Pending
    BY <1>1 DEF Pending
  <1>5. CallKnown'
    <2>1. Turn' \notin Starting
      BY <1>1, <1>2, <1>3 DEF Agreed, CallKnown, Starting
    <2>2. Turn' \notin Answering
      BY <1>1, <1>2, <1>3 DEF Answering
    <2> QED BY <1>1, <2>1, <2>2 DEF CallKnown
  <1>6. Traffic' /\ (NoAnswer => NoAnswer')
    <2>1. \A m \in Truths : m \in Truths'
      BY <1>1, <1>3, Kept DEF clientSide
    <2>2. CASE UNCHANGED tx
      BY <2>1, <2>2, SameTraffic
    <2>3. CASE ~UNCHANGED tx
      <3> DEFINE m == [Response("abort") EXCEPT !.code = abortCode]
      <3>1. Send(m)
        BY <2>3 DEF RespondAbort
      <3>2. m \in Responses
        <4>1. "abort" \in Kinds /\ abortCode \in AbortCodes
          BY DEF Kinds, TypeInv, CallOK
        <4> QED BY <4>1, ResponseType, Zenon
      <3>3. m.cs = "abort"
        BY DEF Response
      <3> HIDE DEF m
      <3> QED BY <2>1, <3>1, <3>2, <3>3, AbortTraffic
    <2> QED BY <2>2, <2>3
  <1> QED BY <1>1, <1>3, <1>4, <1>5, <1>6, StepKept DEF clientSide

---------------------------------------------------------------------------
(* A request is taken                                                      *)

(* While a request waits no answer is under way, and the client has not    *)
(* ended well.                                                             *)
LEMMA Waiting ==
  ASSUME TypeInv, Agreed, CANrxNew
  PROVE  /\ NoAnswer /\ outcome # "OK"
         /\ TxOK' /\ UNCHANGED tx => NoAnswer' /\ Traffic'
  <1>1. NoAnswer /\ outcome # "OK"
    BY DEF Agreed, OneDue, OverKnown
  <1>2. TxOK' /\ UNCHANGED tx => NoAnswer' /\ Traffic'
    BY <1>1, SameTraffic, SilentTraffic
  <1> QED BY <1>1, <1>2

LEMMA LookupAgreed == ASSUME TypeInv, Agreed, Lookup PROVE Agreed'
  <1>1. /\ UNCHANGED tx /\ UNCHANGED object /\ UNCHANGED clientSide
        /\ UNCHANGED <<CANrxNew, CANrxData, isNew, toggle>> /\ pc = "lookup" /\ pc' = "test"
    BY DEF Lookup, slot, transfer
  <1>2. isNew /\ CANrxNew
    BY <1>1 DEF Agreed, CallKnown
  <1>3. NoAnswer' /\ Traffic' /\ outcome # "OK"
    BY <1>1, <1>2, Waiting, Frame
  <1>4. Turn = state /\ Turn' = state'
    BY <1>1, TurnIs, TurnNext
  <1>5. CASE state # "IDLE"
    <2>1. UNCHANGED state /\ UNCHANGED transfer
      BY <1>5 DEF Lookup
    <2>2. Turn' = Turn /\ UNCHANGED <<obj, Buf, Toggle, Offset, finished>>
      BY <1>1, <2>1, TurnIs, TurnNext DEF transfer
    <2>3. Pending' => Pending
      BY <1>1 DEF Pending
    <2>4. CallKnown'
      BY <1>1, <1>2, <2>2, <2>3 DEF Agreed, CallKnown
    <2> QED BY <1>1, <1>3, <2>2, <2>3, <2>4, StepKept DEF clientSide
  <1>6. CASE state = "IDLE"
    <2> DEFINE f == CANrxData
               code == LookupCode(CANrxData)
    <2>1. /\ state' = (IF code # "NONE" THEN "ABORT"
                       ELSE IF f.cs = "upload" THEN "UPLOAD_INITIATE_REQ"
                       ELSE "DOWNLOAD_INITIATE_REQ")
          /\ obj' = IF code = "CMD" THEN obj ELSE f.obj
          /\ code = "NONE" /\ f.cs = "upload" => buf' = object[f.obj].parts /\ bufOffsetRd' = 0
      BY <1>6 DEF Lookup, Load
    <2>2. code = "NONE" => f.cs \in {"upload", "download"} /\ f.obj \in Objects
      BY DEF LookupCode, Exists
    <2>3. IsFirst(f) \/ IsNext(f)
      BY <1>2 DEF Agreed, SlotKnown
    <2>4. IsNext(f) => f.cs \in {"download_segment", "upload_segment"}
      BY DEF IsNext
    <2>5. code = "NONE" => IsFirst(f) /\ got = << >> /\ f.cs = job.kind /\ f.obj = job.obj
      BY <2>2, <2>3, <2>4 DEF IsFirst
    <2> HIDE DEF code
    <2>6. Turn' \in {"ABORT", "UPLOAD_INITIATE_REQ", "DOWNLOAD_INITIATE_REQ"}
      BY <1>4, <2>1
    <2>7. CallKnown'
      BY <1>1, <1>2, <2>6 DEF CallKnown, Answering
    <2>8. UNCHANGED <<job, id, got, object>> /\ Mine' = Mine /\ Theirs' = Theirs
      BY <1>1 DEF clientSide, Mine, Theirs
    <2>9. SlotKnown'
      <3>1. (IsFirst(f) => IsFirst(f)') /\ (IsNext(f) <=> IsNext(f)')
        BY <1>1, <2>8 DEF IsFirst, IsNext
      <3>2. CANrxNew' => IsFirst(CANrxData)' \/ IsNext(CANrxData)'
        BY <2>3, <3>1
      <3>3. Sync(Len(got))'
        BY <2>6 DEF Sync
      <3>4. Turn' \in Starting =>
               /\ IsFirst(CANrxData)' /\ obj' = job'.obj
               /\ job'.kind = "download" <=> Turn' = "DOWNLOAD_INITIATE_REQ"
        <4> SUFFICES ASSUME Turn' \in Starting
                     PROVE /\ IsFirst(CANrxData)' /\ obj' = job'.obj
                           /\ job'.kind = "download" <=> Turn' = "DOWNLOAD_INITIATE_REQ"
          OBVIOUS
        <4>1. code = "NONE"
          BY <1>4, <2>1 DEF Starting
        <4> QED BY <1>4, <2>1, <2>2, <2>5, <2>8, <3>1, <4>1
      <3> QED BY <3>2, <3>3, <3>4 DEF SlotKnown
    <2>10. DownloadKnown'
      BY <2>6 DEF DownloadKnown
    <2>11. UploadKnown'
      <3>1. job'.kind = "upload" => got' = << >> \/ Begins(got', Theirs')
        BY <2>8 DEF Agreed, UploadKnown, Begins
      <3>2. Turn' = "UPLOAD_INITIATE_REQ" =>
              /\ job'.kind = "upload" /\ obj' = job'.obj /\ got' = << >>
              /\ Buf' = Theirs' /\ Offset' = 0
        <4> SUFFICES ASSUME Turn' = "UPLOAD_INITIATE_REQ"
                     PROVE  /\ job'.kind = "upload" /\ obj' = job'.obj /\ got' = << >>
                            /\ Buf' = Theirs' /\ Offset' = 0
          OBVIOUS
        <4>1. code = "NONE" /\ f.cs = "upload"
          BY <1>4, <2>1
        <4>2. Buf' = object[f.obj].parts /\ Offset' = 0
          BY <1>1, <2>1, <4>1, TurnNext
        <4>3. Theirs' = object[job.obj].parts
          BY <2>8 DEF Theirs
        <4> QED BY <2>1, <2>5, <2>8, <4>1, <4>2, <4>3
      <3> QED BY <2>6, <3>1, <3>2 DEF UploadKnown, Begins
    <2>12. OneDue' /\ OverKnown' /\ Whole'
      BY <1>1, <1>3 DEF OneDue, OverKnown, Whole, clientSide, Agreed
    <2> QED BY <1>3, <2>7, <2>9, <2>10, <2>11, <2>12 DEF Agreed
  <1> QED BY <1>5, <1>6

(* What every case leaves alone, and what an abort needs.                  *)
LEMMA CaseFrame ==
  ASSUME TypeInv, Agreed, Handle
  PROVE  /\ pc = "handle" /\ pc' = "timers" /\ Turn = cur /\ Turn' = state'
         /\ CANrxNew /\ Pending /\ outcome # "OK"
         /\ UNCHANGED <<CANrxData, job, id, got>> /\ Mine' = Mine
         /\ Traffic' /\ OneDue' /\ OverKnown'
         /\ Turn' \notin Starting => CallKnown' /\ SlotKnown'
         /\ Buf = buf /\ Toggle = toggle /\ Offset = bufOffsetRd
         /\ Buf' = buf' /\ Toggle' = toggle' /\ Offset' = bufOffsetRd'
         /\ UNCHANGED object => Whole' /\ Theirs' = Theirs
         /\ UNCHANGED object /\ Turn' = "ABORT" => Agreed'
  <1>1. /\ UNCHANGED tx /\ UNCHANGED clientSide
        /\ UNCHANGED <<CANrxNew, CANrxData, isNew>> /\ pc = "handle" /\ pc' = "timers"
    BY DEF Handle, slot
  <1>2. isNew /\ CANrxNew
    BY <1>1 DEF Agreed, CallKnown
  <1>3. NoAnswer' /\ Traffic' /\ outcome # "OK"
    BY <1>1, <1>2, Waiting, Frame
  <1>4. /\ Turn = cur /\ Turn' = state'
        /\ Buf = buf /\ Toggle = toggle /\ Offset = bufOffsetRd
        /\ Buf' = buf' /\ Toggle' = toggle' /\ Offset' = bufOffsetRd'
    BY <1>1, TurnIs, TurnNext
  <1>5. UNCHANGED <<job, id, got, outcome>> /\ Mine' = Mine
    BY <1>1 DEF clientSide, Mine
  <1>6. Pending /\ ~Pending'
    BY <1>1, <1>2 DEF Pending
  <1>7. OneDue' /\ OverKnown'
    BY <1>3, <1>5 DEF OneDue, OverKnown
  <1>8. ASSUME Turn' \notin Starting PROVE CallKnown' /\ SlotKnown'
    <2>1. CallKnown'
      BY <1>1, <1>2, <1>6, <1>8 DEF CallKnown
    <2>2. IsFirst(CANrxData) \/ IsNext(CANrxData)
      BY <1>2 DEF Agreed, SlotKnown
    <2>3. IsFirst(CANrxData)' \/ IsNext(CANrxData)'
      BY <1>1, <1>5, <2>2 DEF IsFirst, IsNext
    <2> QED BY <1>6, <1>8, <2>1, <2>3 DEF SlotKnown
  <1>9. UNCHANGED object => Whole' /\ Theirs' = Theirs
    BY <1>5 DEF Agreed, Whole, Theirs
  <1>10. ASSUME UNCHANGED object, Turn' = "ABORT" PROVE Agreed'
    <2>1. DownloadKnown'
      BY <1>10 DEF DownloadKnown
    <2>2. UploadKnown'
      BY <1>5, <1>9, <1>10 DEF Agreed, UploadKnown, Begins
    <2>3. Turn' \notin Starting
      BY <1>10 DEF Starting
    <2> QED BY <1>3, <1>7, <1>8, <1>9, <1>10, <2>1, <2>2, <2>3 DEF Agreed
  <1> QED BY <1>1, <1>2, <1>3, <1>4, <1>5, <1>6, <1>7, <1>8, <1>9, <1>10

(* A download that goes on keeps what an upload needs to know.             *)
LEMMA CaseDownload ==
  ASSUME TypeInv, Agreed, Handle, job.kind = "download", Whole', DownloadKnown',
         Turn' \in {"DOWNLOAD_INITIATE_RSP", "DOWNLOAD_SEGMENT_RSP"}
  PROVE  Agreed'
  <1>1. UploadKnown'
    BY CaseFrame DEF UploadKnown
  <1>2. Turn' \notin Starting
    BY DEF Starting
  <1> QED BY <1>1, <1>2, CaseFrame DEF Agreed

(* The parts of a transfer, one by one.                                    *)
LEMMA MineIs ==
  ASSUME TypeInv, job.kind = "download"
  PROVE  /\ job \in Jobs /\ id \in 0..MaxJobs
         /\ job.len \in Nat \ {0}
         /\ Len(Mine) = (job.len + 6) \div 7 /\ Len(Mine) \in Nat \ {0}
         /\ Mine \in Seq(GoodPart)
         /\ job.len <= 4 => Len(Mine) = 1
         /\ \A k \in 1..Len(Mine) : Mine[k] = [job |-> id, part |-> k, of |-> job.len]
         /\ \A k \in 1..Len(Mine) : k < Len(Mine) => Count(Mine[k]) = 7
  <1>1. job \in Jobs /\ id \in 0..MaxJobs
    BY DEF TypeInv, ClientOK, NoJob
  <1>2. job.len \in Nat \ {0}
    BY <1>1, JobIs
  <1>3. /\ Mine \in Seq(GoodPart) /\ Len(Mine) = (job.len + 6) \div 7
        /\ Len(Mine) \in Nat \ {0} /\ (job.len <= 4 => Len(Mine) = 1)
        /\ \A k \in 1..Len(Mine) : k < Len(Mine) => Count(Mine[k]) = 7
    BY <1>1, <1>2, PartsGood DEF Mine
  <1>4. \A k \in 1..Len(Mine) : Mine[k] = [job |-> id, part |-> k, of |-> job.len]
    <2>1. Mine = [k \in 1..((job.len + 6) \div 7) |-> [job |-> id, part |-> k, of |-> job.len]]
      BY DEF Mine, Parts
    <2> QED BY <1>3, <2>1
  <1> QED BY <1>1, <1>2, <1>3, <1>4

(* A variable that is written is a whole value of this transfer.           *)
LEMMA WriteWhole ==
  ASSUME TypeInv, Agreed, NEW n \in Nat \ {0}, obj \in Objects, obj = job.obj,
         n = job.len, ~(n > Dict[obj].size), UNCHANGED <<job, id>>,
         object' = [object EXCEPT ![obj] = Value(id, n)]
  PROVE  Written' /\ Whole'
  <1>1. id \in Nat /\ object \in [Objects -> [parts : Seq(Part), size : Nat]]
    BY SdoServerAssumption DEF TypeInv, ClientOK, ObjectOK
  <1>2. Dict[obj].size \in 1..23
    BY DictIs
  <1>3. n \in 1..Dict[obj].size
    BY <1>2
  <1>4. object'[obj] = Value(id, n) /\ \A o \in Objects : o # obj => object'[o] = object[o]
    BY <1>1
  <1>5. Written'
    <2>1. object'[job'.obj] = Value(id', job'.len)
      BY <1>4
    <2> QED BY <2>1 DEF Written
  <1>6. Whole'
    <2> SUFFICES ASSUME NEW o \in Objects
                 PROVE  \E i \in 0..id, l \in 1..Dict[o].size : object'[o] = Value(i, l)
      BY DEF Whole
    <2>1. CASE o = obj
      <3>1. id \in 0..id
        BY <1>1
      <3> QED BY <1>3, <1>4, <2>1, <3>1
    <2>2. CASE o # obj
      <3>1. object'[o] = object[o]
        BY <1>4, <2>2
      <3>2. \E i \in 0..id, l \in 1..Dict[o].size : object[o] = Value(i, l)
        BY DEF Agreed, Whole
      <3> QED BY <3>1, <3>2
    <2> QED BY <2>1, <2>2
  <1> QED BY <1>5, <1>6

LEMMA ExpeditedAgreed ==
  ASSUME TypeInv, Agreed, Handle, cur = "DOWNLOAD_INITIATE_REQ", DownloadExpedited
  PROVE  Agreed'
  <1> DEFINE f == CANrxData
             n == IF f.ind THEN f.size ELSE IF Dict[obj].size < 4 THEN Dict[obj].size ELSE 4
             code == IF SizeCode(n) # "NONE" THEN SizeCode(n) ELSE WriteCode(f)
  <1>1. /\ EndCase(code, "DOWNLOAD_INITIATE_RSP") /\ f.parts # << >>
        /\ IF code = "NONE"
             THEN object' = [object EXCEPT ![obj] = Value(f.parts[1].job, n)] /\ finished' = TRUE
             ELSE UNCHANGED <<object, finished>>
        /\ UNCHANGED obj
    BY DEF DownloadExpedited
  <1>2. obj \in Objects
    BY HandleFrame DEF Mode
  <1>3. IsFirst(f) /\ obj = job.obj /\ job.kind = "download"
    BY CaseFrame DEF Agreed, SlotKnown, Starting
  <1>4. job.len <= 4 /\ f.parts = Mine /\ f.ind = job.ind /\ f.size = job.len /\ got = << >>
    BY <1>1, <1>3 DEF IsFirst
  <1>5. n = job.len /\ n \in Nat \ {0}
    <2>1. job \in Jobs /\ job.len \in Nat \ {0}
      BY <1>3, MineIs
    <2>2. ~job.ind => job.len = IF Dict[obj].size < 4 THEN Dict[obj].size ELSE 4
      BY <1>2, <1>3, <1>4, <2>1, SdoServerAssumption
    <2> QED BY <1>4, <2>1, <2>2
  <1>6. f.parts[1].job = id
    <2>1. Len(Mine) = 1 /\ \A k \in 1..Len(Mine) : Mine[k] = [job |-> id, part |-> k, of |-> job.len]
      BY <1>3, <1>4, MineIs
    <2>2. Mine[1] = [job |-> id, part |-> 1, of |-> job.len]
      BY <2>1
    <2> QED BY <1>4, <2>2
  <1>7. code = "NONE" => SizeCode(n) = "NONE"
    OBVIOUS
  <1> HIDE DEF n, code
  <1>8. CASE code # "NONE"
    BY <1>1, <1>8, CaseFrame DEF EndCase
  <1>9. CASE code = "NONE"
    <2>1. Turn' = "DOWNLOAD_INITIATE_RSP" /\ finished'
      BY <1>1, <1>9, CaseFrame DEF EndCase
    <2>2. Written' /\ Whole'
      <3>1. object' = [object EXCEPT ![obj] = Value(id, n)]
        BY <1>1, <1>6, <1>9
      <3>2. ~(n > Dict[obj].size)
        BY <1>7, <1>9, SizeCodeIs
      <3> QED BY <1>2, <1>3, <1>5, <3>1, <3>2, CaseFrame, WriteWhole
    <2>3. DownloadKnown'
      BY <1>1, <1>3, <1>4, <2>1, <2>2, CaseFrame DEF DownloadKnown
    <2> QED BY <1>3, <2>1, <2>2, <2>3, CaseDownload
  <1> QED BY <1>8, <1>9

LEMMA SegmentedAgreed ==
  ASSUME TypeInv, Agreed, Handle, cur = "DOWNLOAD_INITIATE_REQ", DownloadSegmented
  PROVE  Agreed'
  <1> DEFINE f == CANrxData
             code == IF f.ind THEN SizeCode(f.size) ELSE "NONE"
  <1>1. /\ EndCase(code, "DOWNLOAD_INITIATE_RSP") /\ f.parts = << >>
        /\ finished' = IF code = "NONE" THEN FALSE ELSE finished
        /\ UNCHANGED <<obj, object>>
    BY DEF DownloadSegmented
  <1> HIDE DEF code
  <1>2. IsFirst(f) /\ obj = job.obj /\ job.kind = "download"
    BY CaseFrame DEF Agreed, SlotKnown, Starting
  <1>3. ~(job.len <= 4) /\ got = << >>
    <2>1. job.len <= 4 => Len(Mine) = 1
      BY <1>2, MineIs
    <2>2. Len(<< >>) = 0
      OBVIOUS
    <2>3. got = << >> /\ (job.len <= 4 => f.parts = Mine)
      BY <1>2 DEF IsFirst
    <2> QED BY <1>1, <2>1, <2>2, <2>3
  <1>4. CASE code # "NONE"
    BY <1>1, <1>4, CaseFrame DEF EndCase
  <1>5. CASE code = "NONE"
    <2>1. Turn' = "DOWNLOAD_INITIATE_RSP" /\ finished' = FALSE
      BY <1>1, <1>5, CaseFrame DEF EndCase
    <2>2. DownloadKnown'
      <3>1. job' = job /\ got' = got
        BY CaseFrame
      <3>2. finished' <=> job'.len <= 4
        BY <1>3, <2>1, <3>1
      <3> QED BY <1>1, <1>2, <1>3, <2>1, <3>1, <3>2, Zenon DEF DownloadKnown
    <2> QED BY <1>1, <1>2, <2>1, <2>2, CaseFrame, CaseDownload
  <1> QED BY <1>4, <1>5

(* The bytes of the last part are what is left.                            *)
LEMMA LastBytes ==
  \A l, k \in Nat :
    k + 1 = (l + 6) \div 7 =>
      7 * k + (IF 7 * (k + 1) <= l THEN 7 ELSE l - 7 * ((k + 1) - 1)) = l
  OBVIOUS

LEMMA SegmentAgreed ==
  ASSUME TypeInv, Agreed, Handle, DownloadSegment
  PROVE  Agreed'
  <1> DEFINE f      == CANrxData
             p      == f.parts[1]
             n      == sizeTran + Count(p)
             sizes  == IF n > Dict[obj].size THEN "DATA_LONG"
                       ELSE IF f.last THEN ValidateCode(n) ELSE "NONE"
             writes == f.last /\ sizes = "NONE"
             code   == IF writes THEN WriteCode(f) ELSE sizes
             k      == Len(got)
  <1>1. /\ cur = "DOWNLOAD_SEGMENT_REQ" /\ f.cs = "download_segment" /\ finished' = f.last
        /\ UNCHANGED <<obj, toggle>>
    BY DEF DownloadSegment
  <1>2. Filling
    BY <1>1, HandleFrame DEF Mode
  <1>3. IsNext(f) /\ job.kind = "download"
    <2>1. IsFirst(f) \/ IsNext(f)
      BY CaseFrame DEF Agreed, SlotKnown
    <2>2. job.kind \in {"download", "upload"}
      BY JobIs DEF TypeInv, ClientOK, NoJob
    <2> QED BY <1>1, <2>1, <2>2 DEF IsFirst, IsNext
  <1>4. /\ f.toggle = k % 2 /\ k < Len(Mine) /\ f.parts = <<Mine[k + 1]>>
        /\ (f.last <=> k + 1 = Len(Mine))
    BY <1>1, <1>3 DEF IsNext
  <1>5. obj = job.obj /\ toggle = k % 2 /\ Len(buf) = k /\ Begins(buf, Mine)
    <2>1. Sync(Len(got))
      BY <1>3, CaseFrame DEF Agreed, SlotKnown
    <2> QED BY <1>1, <1>3, <2>1, CaseFrame DEF Sync
  <1>6. k \in Nat /\ k + 1 \in 1..Len(Mine) /\ Len(Mine) \in Nat
    <2>1. k \in Nat
      BY DEF TypeInv, ClientOK
    <2>2. Len(Mine) \in Nat /\ k < Len(Mine)
      BY <1>3, <1>4, MineIs
    <2> HIDE DEF k
    <2> QED BY <2>1, <2>2
  <1>7. /\ EndCase(code, "DOWNLOAD_SEGMENT_RSP")
        /\ buf' = IF writes THEN << >> ELSE buf \o f.parts
        /\ object' = IF writes /\ code = "NONE"
                       THEN [object EXCEPT ![obj] = [parts |-> buf \o f.parts, size |-> n]]
                       ELSE object
    BY <1>4, <1>5 DEF DownloadSegment
  <1>8. p = Mine[k + 1] /\ buf \o f.parts = Append(buf, p)
    <2>1. buf \in Seq(GoodPart)
      BY DEF TypeInv, TransferOK
    <2>2. Mine[k + 1] \in GoodPart
      BY <1>3, <1>6, MineIs
    <2> QED BY <1>4, <2>1, <2>2
  <1>9. /\ Append(buf, p) \in Seq(GoodPart) /\ Len(Append(buf, p)) = k + 1
        /\ Begins(Append(buf, p), Mine)
    <2>1. buf \in Seq(GoodPart)
      BY DEF TypeInv, TransferOK
    <2>2. p \in GoodPart
      BY <1>3, <1>6, <1>8, MineIs
    <2> HIDE DEF p, f, k
    <2>3. /\ Append(buf, p) \in Seq(GoodPart) /\ Len(Append(buf, p)) = k + 1
          /\ \A i \in 1..(k + 1) : Append(buf, p)[i] = IF i <= k THEN buf[i] ELSE p
      BY <1>5, <1>6, <2>1, <2>2
    <2>4. \A i \in 1..(k + 1) : Append(buf, p)[i] = Mine[i]
      BY <1>5, <1>6, <1>8, <2>3 DEF Begins
    <2> QED BY <1>6, <2>3, <2>4 DEF Begins
  <1>10. /\ writes => f.last /\ ~(n > Dict[obj].size)
         /\ code = "NONE" /\ f.last => writes
    OBVIOUS
  <1>11. f.last => n = job.len /\ Append(buf, p) = Mine
    <2> SUFFICES ASSUME f.last PROVE n = job.len /\ Append(buf, p) = Mine
      OBVIOUS
    <2>1. k + 1 = Len(Mine) /\ Len(Mine) = (job.len + 6) \div 7 /\ job.len \in Nat
      BY <1>3, <1>4, MineIs
    <2>2. p = [job |-> id, part |-> k + 1, of |-> job.len]
      BY <1>3, <1>6, <1>8, MineIs
    <2>3. Count(p) = IF 7 * (k + 1) <= job.len THEN 7 ELSE job.len - 7 * ((k + 1) - 1)
      BY <2>2 DEF Count
    <2>4. n = 7 * k + Count(p)
      BY <1>2, <1>5 DEF Filling
    <2>5. n = job.len
      <3> HIDE DEF n, k, p
      <3> QED BY <1>6, <2>1, <2>3, <2>4, LastBytes, Zenon
    <2>6. Append(buf, p) = Mine
      <3>1. Mine \in Seq(GoodPart)
        BY <1>3, MineIs
      <3> HIDE DEF p, f, k
      <3>2. /\ Len(Append(buf, p)) = Len(Mine)
            /\ \A i \in 1..Len(Mine) : Append(buf, p)[i] = Mine[i]
        BY <1>9, <2>1 DEF Begins
      <3> QED BY <1>9, <3>1, <3>2, SeqEqual
    <2> QED BY <2>5, <2>6
  <1> HIDE DEF n, sizes, writes, code, p
  <1>12. CASE code # "NONE"
    BY <1>7, <1>12, CaseFrame DEF EndCase
  <1>13. CASE code = "NONE"
    <2>1. Turn' = "DOWNLOAD_SEGMENT_RSP"
      BY <1>7, <1>13, CaseFrame DEF EndCase
    <2>2. /\ obj' = job'.obj /\ job'.kind = "download" /\ Toggle' = Len(got') % 2
          /\ got' = got /\ Mine' = Mine
      BY <1>1, <1>3, <1>5, CaseFrame
    <2>3. finished' <=> Len(got') + 1 = Len(Mine')
      BY <1>1, <1>4, <2>2
    <2>4. CASE f.last
      <3>1. Written' /\ Whole'
        <4>1. writes
          BY <1>10, <1>13, <2>4
        <4>2. n = job.len /\ buf \o f.parts = Parts(id, n) /\ ~(n > Dict[obj].size)
          BY <1>8, <1>10, <1>11, <2>4, <4>1 DEF Mine
        <4>3. object' = [object EXCEPT ![obj] = Value(id, n)]
          BY <1>7, <1>13, <4>1, <4>2 DEF Value
        <4>4. n \in Nat \ {0} /\ obj \in Objects
          BY <1>2, <1>3, <4>2, MineIs DEF Filling
        <4> QED BY <1>5, <4>2, <4>3, <4>4, CaseFrame, WriteWhole
      <3>2. DownloadKnown'
        BY <1>1, <2>1, <2>2, <2>3, <2>4, <3>1 DEF DownloadKnown
      <3> QED BY <1>3, <2>1, <3>1, <3>2, CaseDownload
    <2>5. CASE ~f.last
      <3>1. ~writes
        BY <1>10, <2>5
      <3>2. object' = object /\ buf' = Append(buf, p)
        BY <1>7, <1>8, <3>1
      <3>3. Len(Buf') = Len(got') + 1 /\ Begins(Buf', Mine')
        BY <1>9, <2>2, <3>2, CaseFrame
      <3>4. DownloadKnown'
        BY <1>1, <2>1, <2>2, <2>3, <2>5, <3>3 DEF DownloadKnown, Begins
      <3> QED BY <1>3, <2>1, <3>2, <3>4, CaseFrame, CaseDownload
    <2> QED BY <2>4, <2>5
  <1> QED BY <1>12, <1>13

LEMMA UploadCaseAgreed ==
  ASSUME TypeInv, Agreed, Handle, UploadInitiate \/ UploadSegment
  PROVE  Agreed'
  <1>1. UNCHANGED transfer /\ UNCHANGED object
    BY DEF UploadInitiate, UploadSegment
  <1>2. UNCHANGED <<obj, Buf, Toggle, Offset>>
    BY <1>1, CaseFrame DEF transfer
  <1>3. job' = job /\ got' = got /\ Theirs' = Theirs /\ Whole'
    BY <1>1, CaseFrame
  <1>4. job.kind = "upload" => got = << >> \/ Begins(got, Theirs)
    BY DEF Agreed, UploadKnown
  <1>5. CASE state' = "ABORT"
    BY <1>1, <1>5, CaseFrame
  <1>6. CASE state' # "ABORT"
    <2>1. Turn' \in {"UPLOAD_INITIATE_RSP", "UPLOAD_SEGMENT_RSP"}
      BY <1>6, CaseFrame DEF UploadInitiate, UploadSegment, EndCase
    <2>2. UploadKnown'
      <3>1. CASE UploadInitiate
        <4>1. Turn = "UPLOAD_INITIATE_REQ" /\ Turn' = "UPLOAD_INITIATE_RSP"
          BY <3>1, CaseFrame DEF UploadInitiate, EndCase
        <4> QED BY <1>2, <1>3, <4>1 DEF Agreed, UploadKnown, Begins
      <3>2. CASE UploadSegment
        <4>1. /\ Turn = "UPLOAD_SEGMENT_REQ" /\ Turn' = "UPLOAD_SEGMENT_RSP"
              /\ CANrxData.cs = "upload_segment"
          BY <1>6, <3>2, CaseFrame DEF UploadSegment, EndCase
        <4>2. IsNext(CANrxData) /\ job.kind = "upload"
          <5>1. IsFirst(CANrxData) \/ IsNext(CANrxData)
            BY CaseFrame DEF Agreed, SlotKnown
          <5>2. job.kind \in {"download", "upload"}
            BY JobIs DEF TypeInv, ClientOK, NoJob
          <5> QED BY <4>1, <5>1, <5>2 DEF IsFirst, IsNext
        <4>3. /\ obj = job.obj /\ Toggle = Len(got) % 2 /\ Buf = Theirs /\ Offset = Len(got)
          BY <4>1, <4>2, CaseFrame DEF Agreed, SlotKnown, Sync
        <4> QED BY <1>2, <1>3, <1>4, <4>1, <4>2, <4>3 DEF UploadKnown, Begins
      <3> QED BY <3>1, <3>2
    <2>3. DownloadKnown'
      BY <2>1 DEF DownloadKnown
    <2>4. Turn' \notin Starting
      BY <2>1 DEF Starting
    <2> QED BY <1>3, <2>2, <2>3, <2>4, CaseFrame DEF Agreed
  <1> QED BY <1>5, <1>6

LEMMA HandleAgreed == ASSUME TypeInv, Agreed, Handle PROVE Agreed'
  <1>1. CASE Unknown
    BY <1>1, CaseFrame DEF Unknown, EndCase
  <1> QED BY <1>1, ExpeditedAgreed, SegmentedAgreed, SegmentAgreed, UploadCaseAgreed
          DEF Handle, DownloadInitiate

---------------------------------------------------------------------------
(* An answer is given                                                      *)

(* The toggle bit of the next segment.                                     *)
LEMMA Parity == \A k \in Nat : 1 - (k % 2) = (k + 1) % 2
  OBVIOUS

(* What is left to show of an answer: that it is true, and what the server *)
(* does next.                                                              *)
LEMMA AnswerAgreed ==
  ASSUME TypeInv, Agreed, Respond, cur \in Answering, TransferOK',
         NEW m \in Truths', Send(m),
         Turn' \in {"IDLE", "DOWNLOAD_SEGMENT_REQ", "UPLOAD_SEGMENT_REQ"}
  PROVE  Agreed'
  <1>1. /\ UNCHANGED object /\ UNCHANGED clientSide
        /\ UNCHANGED <<CANrxNew, CANrxData, isNew, cur>>
        /\ pc = "respond" /\ pc' \in {"between", "sent"}
    BY DEF Respond, RespondDownload, RespondUploadInitiate, RespondUploadSegment,
           RespondAbort, slot, Answering
  <1>2. Turn = cur /\ ~CANrxNew
    <2>1. Turn = cur
      BY <1>1, TurnIs
    <2>2. ~Pending
      BY <2>1 DEF Agreed, CallKnown
    <2> QED BY <1>1, <2>1, <2>2 DEF Pending
  <1>3. NoAnswer /\ outcome # "OK"
    BY <1>2 DEF Agreed, OneDue, OverKnown
  <1>4. Traffic'
    BY <1>3, AnswerTraffic
  <1>5. Turn' \notin Answering /\ Turn' \notin Starting
    BY DEF Answering, Starting
  <1>6. UNCHANGED <<job, id, got, outcome>> /\ Theirs' = Theirs
    BY <1>1 DEF clientSide, Theirs
  <1>7. CallKnown' /\ SlotKnown'
    BY <1>1, <1>2, <1>5 DEF CallKnown, SlotKnown, Pending
  <1>8. DownloadKnown'
    BY DEF DownloadKnown
  <1>9. UploadKnown'
    <2>1. job'.kind = "upload" => got' = << >> \/ Begins(got', Theirs')
      BY <1>6 DEF Agreed, UploadKnown, Begins
    <2> QED BY <2>1 DEF UploadKnown, Begins
  <1>10. OneDue' /\ OverKnown'
    BY <1>1, <1>2, <1>3, <1>5, <1>6 DEF OneDue, OverKnown
  <1>11. Whole'
    BY <1>1, <1>6 DEF Agreed, Whole
  <1> QED BY <1>4, <1>7, <1>8, <1>9, <1>10, <1>11 DEF Agreed

LEMMA RespondDownloadAgreed ==
  ASSUME TypeInv, Agreed, Respond, RespondDownload, TypeInv'
  PROVE  Agreed'
  <1>1. /\ cur \in {"DOWNLOAD_INITIATE_RSP", "DOWNLOAD_SEGMENT_RSP"}
        /\ pc = "respond" /\ pc' = "sent" /\ cur' = cur
        /\ UNCHANGED <<obj, finished, buf, bufOffsetRd, job, id, got>> /\ UNCHANGED object
    BY DEF RespondDownload, Respond, clientSide
  <1>2. Turn = cur /\ cur \in Answering /\ Buf = buf /\ Toggle = toggle
    BY <1>1, TurnIs DEF Answering
  <1>3. /\ Turn' = (IF finished THEN "IDLE" ELSE "DOWNLOAD_SEGMENT_REQ")
        /\ Fresh' <=> cur = "DOWNLOAD_INITIATE_RSP" /\ ~finished
    BY <1>1 DEF Turn, Fresh
  <1>4. Mine' = Mine /\ (Written' <=> Written)
    BY <1>1 DEF Mine, Written
  <1>5. DownloadKnown
    BY DEF Agreed
  <1>6. "download" \in Kinds /\ "download_segment" \in Kinds
    BY DEF Kinds
  <1>7. CASE cur = "DOWNLOAD_INITIATE_RSP"
    <2> DEFINE m == Response("download")
    <2>1. Send(m)
      BY <1>7 DEF RespondDownload
    <2>2. m \in Responses /\ m.cs = "download"
      <3>1. m \in Responses
        BY <1>6, ResponseType, Zenon
      <3> QED BY <3>1 DEF Response
    <2> HIDE DEF m
    <2>3. /\ job.kind = "download" /\ obj = job.obj /\ got = << >>
          /\ (finished <=> job.len <= 4) /\ (finished => Written)
      BY <1>2, <1>5, <1>7 DEF DownloadKnown
    <2>4. ~finished => Sync(0)'
      <3> SUFFICES ASSUME ~finished PROVE Sync(0)'
        OBVIOUS
      <3>1. Toggle' = 0 /\ Buf' = << >>
        BY <1>3, <1>7 DEF Toggle, Buf
      <3>2. Len(Buf') = 0 /\ Begins(Buf', Mine')
        <4>1. Len(Mine) \in Nat
          BY <2>3, MineIs
        <4> QED BY <1>4, <3>1, <4>1 DEF Begins
      <3> QED BY <1>1, <2>3, <3>1, <3>2 DEF Sync
    <2>5. m \in Truths'
      BY <1>1, <1>4, <2>2, <2>3, <2>4 DEF Truths
    <2> QED BY <1>2, <1>3, <2>1, <2>5, AnswerAgreed DEF TypeInv
  <1>8. CASE cur = "DOWNLOAD_SEGMENT_RSP"
    <2> DEFINE m == [Response("download_segment") EXCEPT !.toggle = toggle, !.obj = NoObject]
    <2>1. Send(m) /\ toggle' = 1 - toggle
      BY <1>8 DEF RespondDownload
    <2>2. m \in Responses /\ m.cs = "download_segment"
      <3>1. m \in Responses
        BY <1>6, ResponseType, Zenon
      <3> QED BY <3>1 DEF Response
    <2> HIDE DEF m
    <2>3. /\ job.kind = "download" /\ obj = job.obj /\ Toggle = Len(got) % 2
          /\ (finished <=> Len(got) + 1 = Len(Mine)) /\ (finished => Written)
          /\ ~finished => Len(Buf) = Len(got) + 1 /\ Begins(Buf, Mine)
      BY <1>2, <1>5, <1>8 DEF DownloadKnown
    <2>4. ~finished => Sync(Len(got) + 1)'
      <3> SUFFICES ASSUME ~finished PROVE Sync(Len(got) + 1)'
        OBVIOUS
      <3>1. Toggle' = 1 - toggle /\ Buf' = Buf
        BY <1>1, <1>2, <1>3, <1>8, <2>1 DEF Toggle, Buf
      <3>2. Len(got) \in Nat
        BY DEF TypeInv, ClientOK
      <3>3. Toggle' = (Len(got) + 1) % 2
        BY <1>2, <2>3, <3>1, <3>2, Parity, Zenon
      <3> QED BY <1>1, <1>4, <2>3, <3>1, <3>3 DEF Sync, Begins
    <2>5. m \in Truths'
      BY <1>1, <1>4, <2>2, <2>3, <2>4 DEF Truths
    <2> QED BY <1>2, <1>3, <2>1, <2>5, AnswerAgreed DEF TypeInv
  <1> QED BY <1>1, <1>7, <1>8

LEMMA RespondUploadInitiateAgreed ==
  ASSUME TypeInv, Agreed, Respond, RespondUploadInitiate, TypeInv'
  PROVE  Agreed'
  <1>1. /\ cur = "UPLOAD_INITIATE_RSP" /\ pc = "respond" /\ pc' = "between"
        /\ UNCHANGED <<obj, buf, bufOffsetRd, job, id, got>> /\ UNCHANGED object
        /\ state' \in {"IDLE", "UPLOAD_SEGMENT_REQ"}
    BY DEF RespondUploadInitiate, Respond, clientSide
  <1>2. /\ Turn = cur /\ cur \in Answering /\ Turn' = state'
        /\ Buf = buf /\ Offset = bufOffsetRd
        /\ Buf' = buf' /\ Offset' = bufOffsetRd' /\ Toggle' = toggle'
    BY <1>1, TurnIs, TurnNext DEF Answering
  <1>3. Theirs' = Theirs
    BY <1>1 DEF Theirs
  <1>4. job.kind = "upload" /\ obj = job.obj /\ got = << >> /\ buf = Theirs /\ bufOffsetRd = 0
    BY <1>1, <1>2 DEF Agreed, UploadKnown
  <1>5. "upload" \in Kinds
    BY DEF Kinds
  <1>6. CASE sizeInd \in 1..4
    <2> DEFINE m == [Response("upload") EXCEPT !.parts = buf]
    <2>1. Send(m) /\ state' = "IDLE"
      BY <1>6 DEF RespondUploadInitiate
    <2>2. m \in Responses
      BY <1>5, ResponseType, Zenon
    <2>3. m.cs = "upload" /\ m.parts = Theirs /\ m.last = FALSE
      BY <1>4 DEF Response
    <2> HIDE DEF m
    <2>4. m.parts # << >>
      <3>1. Reading
        BY <1>1, RespondFrame DEF Mode
      <3>2. Len(<< >>) = 0
        OBVIOUS
      <3> QED BY <1>4, <2>3, <3>1, <3>2 DEF Reading
    <2>5. m \in Truths'
      BY <1>1, <1>3, <1>4, <2>2, <2>3, <2>4 DEF Truths
    <2> QED BY <1>1, <1>2, <2>1, <2>5, AnswerAgreed DEF TypeInv
  <1>7. CASE sizeInd \notin 1..4
    <2> DEFINE m == Response("upload")
    <2>1. Send(m) /\ toggle' = 0
      BY <1>7 DEF RespondUploadInitiate
    <2>2. m \in Responses
      BY <1>5, ResponseType, Zenon
    <2>3. m.cs = "upload" /\ m.parts = << >> /\ m.last = FALSE
      BY DEF Response
    <2> HIDE DEF m
    <2>4. Sync(0)'
      BY <1>1, <1>2, <1>3, <1>4, <2>1 DEF Sync
    <2>5. m \in Truths'
      BY <1>1, <1>4, <2>2, <2>3, <2>4 DEF Truths
    <2> QED BY <1>1, <1>2, <2>1, <2>5, AnswerAgreed DEF TypeInv
  <1> QED BY <1>6, <1>7

LEMMA RespondUploadSegmentAgreed ==
  ASSUME TypeInv, Agreed, Respond, RespondUploadSegment, TypeInv'
  PROVE  Agreed'
  <1> DEFINE p == buf[bufOffsetRd + 1]
             last == bufOffsetRd + 1 = Len(buf)
             m == [Response("upload_segment") EXCEPT !.toggle = toggle, !.last = last,
                                                     !.parts = <<p>>, !.obj = NoObject]
  <1>1. /\ cur = "UPLOAD_SEGMENT_RSP" /\ pc = "respond" /\ pc' = "between"
        /\ UNCHANGED <<obj, buf, job, id, got>> /\ UNCHANGED object
        /\ state' = (IF last THEN "IDLE" ELSE "UPLOAD_SEGMENT_REQ")
        /\ toggle' = 1 - toggle /\ bufOffsetRd' = bufOffsetRd + 1 /\ Send(m)
    BY DEF RespondUploadSegment, Respond, clientSide
  <1>2. /\ Turn = cur /\ cur \in Answering /\ Turn' = state'
        /\ Buf = buf /\ Offset = bufOffsetRd /\ Toggle = toggle
        /\ Buf' = buf' /\ Offset' = bufOffsetRd' /\ Toggle' = toggle'
    BY <1>1, TurnIs, TurnNext DEF Answering
  <1>3. Theirs' = Theirs
    BY <1>1 DEF Theirs
  <1>4. /\ job.kind = "upload" /\ obj = job.obj /\ toggle = Len(got) % 2
        /\ buf = Theirs /\ bufOffsetRd = Len(got)
    BY <1>1, <1>2 DEF Agreed, UploadKnown
  <1>5. /\ Len(got) < Len(Theirs) /\ Len(got) \in Nat
        /\ p = Theirs[Len(got) + 1] /\ p \in Part /\ Theirs \in Seq(Part)
    <2>1. Reading
      BY <1>1, RespondFrame DEF Mode
    <2>2. buf \in Seq(GoodPart) /\ Len(got) \in Nat
      BY DEF TypeInv, TransferOK, ClientOK
    <2>3. buf \in Seq(Part)
      BY <2>2, PartsAreParts
    <2>4. Len(got) + 1 \in 1..Len(buf)
      BY <1>4, <2>1, <2>2 DEF Reading
    <2> QED BY <1>4, <2>1, <2>2, <2>3, <2>4 DEF Reading
  <1>6. m \in Responses
    <2>1. last \in BOOLEAN /\ "upload_segment" \in Kinds
      BY DEF Kinds
    <2> HIDE DEF last, p
    <2> QED BY <1>5, <2>1, ResponseType, Zenon
  <1>7. /\ m.cs = "upload_segment" /\ m.parts = <<p>>
        /\ (m.last <=> Len(got) + 1 = Len(Theirs))
    <2>1. m.cs = "upload_segment" /\ m.parts = <<p>> /\ (m.last <=> last)
      BY DEF Response
    <2> QED BY <1>4, <2>1
  <1> HIDE DEF m
  <1>8. Sync(Len(got) + 1)'
    <2>1. Toggle' = (Len(got) + 1) % 2
      BY <1>1, <1>2, <1>4, <1>5, Parity, Zenon
    <2> QED BY <1>1, <1>2, <1>3, <1>4, <2>1 DEF Sync
  <1>9. m \in Truths'
    BY <1>1, <1>3, <1>4, <1>5, <1>6, <1>7, <1>8 DEF Truths
  <1>10. Turn' \in {"IDLE", "UPLOAD_SEGMENT_REQ"}
    BY <1>1, <1>2
  <1> QED BY <1>1, <1>2, <1>9, <1>10, AnswerAgreed DEF TypeInv

LEMMA RespondAgreed == ASSUME TypeInv, Agreed, Respond, TypeInv' PROVE Agreed'
  BY RespondDownloadAgreed, RespondUploadInitiateAgreed, RespondUploadSegmentAgreed,
     RespondAbortAgreed DEF Respond

---------------------------------------------------------------------------
(* The client goes on                                                      *)

(* A server that waits for a segment, or for nothing.                      *)
AtRest == ~CANrxNew /\ Turn \notin Answering /\ Turn \notin Starting

(* A request on its way to such a server.                                  *)
LEMMA RequestAgreed ==
  ASSUME TypeInv, Agreed, AtRest, NEW f, f.cs # "abort", Deliver(f),
         UNCHANGED callSide, NoAnswer', Traffic', outcome' # "OK",
         IsFirst(f)' \/ IsNext(f)', IsNext(f)' => Sync(Len(got))',
         UploadKnown', Whole'
  PROVE  Agreed'
  <1>1. state' = state /\ (CANrxNew' => CANrxData' = f)
    BY DEF Deliver, Receive, AtRest, slot
  <1>2. Turn' = Turn /\ pc' = pc /\ isNew' = isNew /\ cur' = cur
    BY <1>1, SideKept
  <1>3. CallKnown'
    <2>1. pc \in {"lookup", "test", "switch", "handle", "timers"} => ~isNew
      BY DEF Agreed, CallKnown, AtRest
    <2>2. CallKnown
      BY DEF Agreed
    <2> QED BY <1>1, <1>2, <2>1, <2>2 DEF CallKnown, AtRest
  <1>4. SlotKnown'
    <2>1. IsFirst(f)' => (CANrxNew' => IsFirst(CANrxData)')
      BY <1>1 DEF IsFirst
    <2>2. IsNext(f)' <=> (CANrxNew' => IsNext(CANrxData)') /\ IsNext(f)'
      BY <1>1 DEF IsNext
    <2>3. CANrxNew' /\ IsNext(CANrxData)' => IsNext(f)'
      BY <1>1 DEF IsNext
    <2> QED BY <1>2, <2>1, <2>2, <2>3 DEF SlotKnown, AtRest, Pending
  <1>5. DownloadKnown'
    BY <1>2 DEF DownloadKnown, AtRest, Answering
  <1>6. OneDue' /\ OverKnown'
    BY DEF OneDue, OverKnown
  <1> QED BY <1>3, <1>4, <1>5, <1>6 DEF Agreed

LEMMA QuietRests ==
  ASSUME TypeInv, Quiet
  PROVE  AtRest /\ NoAnswer
  <1>1. pc = "between" /\ ~CANrxNew /\ held = << >> /\ bus = << >>
        /\ state \in {"IDLE", "DOWNLOAD_SEGMENT_REQ", "UPLOAD_SEGMENT_REQ"}
    BY DEF Quiet
  <1>2. NoAnswer
    BY <1>1 DEF NoAnswer, NoAnswerIn
  <1>3. Turn = state
    BY <1>1, TurnIs
  <1> QED BY <1>1, <1>2, <1>3 DEF AtRest, Answering, Starting

LEMMA StartAgreed ==
  ASSUME TypeInv, Agreed, NEW j \in Jobs, Start(j), Quiet
  PROVE  Agreed'
  <1>1. /\ job' = j /\ id' = id + 1 /\ got' = << >> /\ outcome' = "NONE"
        /\ Deliver(First(j, id + 1)) /\ UNCHANGED callSide /\ UNCHANGED tx
    BY DEF Start
  <1>0. PICK f : f = First(j, id + 1)
    OBVIOUS
  <1>2. /\ f.cs = j.kind /\ f.obj = j.obj
        /\ j.kind = "download" =>
             /\ f.ind = j.ind /\ f.size = j.len
             /\ f.parts = IF j.len <= 4 THEN Parts(id + 1, j.len) ELSE << >>
    <2>1. CASE j.kind = "upload"
      BY <1>0, <2>1 DEF First, Request
    <2>2. CASE j.kind # "upload"
      <3>1. j.kind = "download"
        BY <2>2, JobIs
      <3> QED BY <1>0, <3>1 DEF First, Request
    <2> QED BY <2>1, <2>2
  <1>3. f.cs \in {"download", "upload"}
    BY <1>2, JobIs
  <1>4. IsFirst(f)'
    <2>1. Mine' = Parts(id + 1, j.len)
      BY <1>1 DEF Mine
    <2> QED BY <1>1, <1>2, <2>1 DEF IsFirst
  <1>5. ~IsNext(f)'
    BY <1>1, <1>3 DEF IsNext
  <1>6. AtRest /\ NoAnswer
    BY QuietRests
  <1>7. NoAnswer' /\ Traffic'
    BY <1>1, <1>6, SameTraffic, SilentTraffic, Frame
  <1>8. state' = state
    BY <1>0, <1>1, <1>3 DEF Deliver, Receive
  <1>9. Turn' = Turn
    BY <1>1, <1>8, SideKept
  <1>10. UploadKnown'
    BY <1>1, <1>6, <1>9 DEF UploadKnown, AtRest, Answering, Starting
  <1>11. Whole'
    <2>1. object' = object /\ id \in Nat /\ id' = id + 1
      BY <1>1, SdoServerAssumption DEF callSide, TypeInv, ClientOK
    <2>2. \A i \in 0..id : i \in 0..(id + 1)
      BY <2>1
    <2> QED BY <2>1, <2>2 DEF Agreed, Whole
  <1> QED BY <1>0, <1>1, <1>3, <1>4, <1>5, <1>6, <1>7, <1>10, <1>11,
             RequestAgreed

(* The client takes the answer it waits for, and it is true.               *)
LEMMA HeardTrue ==
  ASSUME TypeInv, Agreed, NEW k \in 1..Len(bus), bus' = RemoveAt(bus, k), UNCHANGED held,
         UNCHANGED callSide, bus[k].cs # "abort", client # "idle", TxOK'
  PROVE  /\ bus[k] \in Truths /\ AtRest /\ outcome # "OK"
         /\ NoAnswer' /\ Traffic'
  <1>1. ~NoAnswer
    <2>1. \A i \in 1..Len(bus) : NoAnswerIn(bus) => bus[i].cs = "abort"
      BY DEF NoAnswerIn
    <2> QED BY <2>1 DEF NoAnswer
  <1>2. ~CANrxNew /\ Turn \notin Answering /\ outcome # "OK"
    BY <1>1 DEF Agreed, OneDue, OverKnown
  <1>3. Turn \notin Starting
    BY <1>2 DEF Agreed, CallKnown
  <1>4. NoAnswer' /\ Traffic'
    BY LessTraffic, SilentTraffic
  <1> QED BY <1>2, <1>3, <1>4, BusIs DEF AtRest

(* What a true answer makes of the parts that are done.                    *)
LEMMA DownloadDone ==
  ASSUME TypeInv, Agreed, client # "idle", job.kind = "download",
         NEW r \in Truths, r.cs # "abort", Expected(r)
  PROVE  IF Complete(r) THEN Written ELSE Sync(Len(Done(r)))
  <1>1. /\ job.len \in Nat \ {0} /\ Len(Mine) \in Nat \ {0} /\ got \in Seq(Part)
        /\ Mine = Parts(id, job.len) /\ (job.len <= 4 => Len(Mine) = 1)
    BY MineIs DEF TypeInv, ClientOK, Mine
  <1>2. Complete(r) <=> Len(Done(r)) = Len(Mine)
    BY <1>1 DEF Complete
  <1>3. CASE client = "initiate"
    <2>1. r.cs = "download"
      BY <1>3 DEF Expected
    <2>2. got = << >> /\ IF job.len <= 4 THEN Written ELSE Sync(0)
      BY <2>1 DEF Truths
    <2>3. CASE job.len <= 4
      <3>1. Written
        BY <2>2, <2>3
      <3>2. Len(Done(r)) = 1
        <4>1. ~(job.len > 4)
          BY <1>1, <2>3
        <4>2. Done(r) = Append(got, Parts(id, job.len)[Len(got) + 1])
          BY <4>1 DEF Done
        <4>3. \A x : Len(Append(<< >>, x)) = 1
          OBVIOUS
        <4> QED BY <2>2, <4>2, <4>3, Zenon
      <3> QED BY <1>1, <1>2, <2>3, <3>1, <3>2
    <2>4. CASE ~(job.len <= 4)
      <3>1. Sync(0)
        BY <2>2, <2>4
      <3>2. job.len > 4
        BY <1>1, <2>4
      <3>3. Done(r) = << >>
        BY <1>3, <3>2 DEF Done
      <3>4. Len(Done(r)) = 0
        BY <3>3
      <3>5. ~Complete(r)
        BY <1>1, <1>2, <3>4
      <3> QED BY <3>1, <3>4, <3>5
    <2> QED BY <2>3, <2>4
  <1>4. CASE client # "initiate"
    <2>1. r.cs = "download_segment"
      BY <1>4 DEF Expected
    <2>2. IF Len(got) + 1 = Len(Mine) THEN Written ELSE Sync(Len(got) + 1)
      BY <2>1 DEF Truths
    <2>3. Len(Done(r)) = Len(got) + 1
      <3>1. Done(r) = Append(got, Parts(id, job.len)[Len(got) + 1])
        BY <1>4 DEF Done
      <3>2. \A x : Len(Append(got, x)) = Len(got) + 1
        <4> TAKE x
        <4>1. got \in Seq(Part \cup {x})
          BY <1>1, SeqMonotonic
        <4> QED BY <4>1
      <3> QED BY <3>1, <3>2, Zenon
    <2> QED BY <1>2, <2>2, <2>3, Zenon
  <1> QED BY <1>3, <1>4

LEMMA UploadDone ==
  ASSUME TypeInv, Agreed, client # "idle", job.kind = "upload",
         NEW r \in Truths, r.cs # "abort", Expected(r)
  PROVE  /\ IF Complete(r) THEN Done(r) = Theirs ELSE Sync(Len(Done(r)))
         /\ Done(r) = << >> \/ Begins(Done(r), Theirs)
  <1>1. got \in Seq(Part) /\ r.parts \in Seq(Part) /\ Done(r) = got \o r.parts
    BY DEF TypeInv, ClientOK, Truths, Responses, Done
  <1>2. Complete(r) <=> r.last \/ (client = "initiate" /\ r.parts # << >>)
    BY DEF Complete
  <1>3. CASE client = "initiate"
    <2>1. r.cs = "upload"
      BY <1>3 DEF Expected
    <2>2. /\ got = << >> /\ ~r.last
          /\ IF r.parts = << >> THEN Sync(0) ELSE r.parts = Theirs
      BY <2>1 DEF Truths
    <2>3. Done(r) = r.parts
      BY <1>1, <2>2
    <2>4. CASE r.parts = << >>
      <3>1. Len(Done(r)) = 0 /\ Sync(0) /\ ~Complete(r) /\ Done(r) = << >>
        BY <1>2, <2>2, <2>3, <2>4
      <3> QED BY <3>1
    <2>5. CASE r.parts # << >>
      <3>1. Done(r) = Theirs /\ Complete(r)
        BY <1>2, <1>3, <2>2, <2>3, <2>5
      <3>2. Begins(Theirs, Theirs)
        <4>1. Len(Theirs) \in Nat
          BY <1>1, <2>3, <3>1
        <4> QED BY <4>1 DEF Begins
      <3> QED BY <3>1, <3>2
    <2> QED BY <2>4, <2>5
  <1>4. CASE client # "initiate"
    <2>1. r.cs = "upload_segment"
      BY <1>4 DEF Expected
    <2> DEFINE k == Len(got)
    <2>2. /\ Theirs \in Seq(Part) /\ k < Len(Theirs) /\ r.parts = <<Theirs[k + 1]>>
          /\ (r.last <=> k + 1 = Len(Theirs)) /\ (~r.last => Sync(k + 1))
      BY <2>1 DEF Truths
    <2>3. k \in Nat /\ Len(Theirs) \in Nat /\ Theirs[k + 1] \in Part
      <3>1. k \in Nat /\ Len(Theirs) \in Nat
        BY <1>1, <2>2
      <3>2. k + 1 \in 1..Len(Theirs)
        BY <2>2, <3>1
      <3> QED BY <2>2, <3>1, <3>2
    <2>4. /\ Done(r) \in Seq(Part) /\ Len(Done(r)) = k + 1
          /\ \A i \in 1..(k + 1) : Done(r)[i] = IF i <= k THEN got[i] ELSE Theirs[k + 1]
      BY <1>1, <2>2, <2>3
    <2>5. \A i \in 1..k : got[i] = Theirs[i]
      <3>1. got = << >> \/ Begins(got, Theirs)
        BY DEF Agreed, UploadKnown
      <3> QED BY <3>1 DEF Begins
    <2>6. Begins(Done(r), Theirs)
      <3>1. \A i \in 1..(k + 1) : Done(r)[i] = Theirs[i]
        BY <2>3, <2>4, <2>5
      <3> QED BY <2>2, <2>3, <2>4, <3>1 DEF Begins
    <2>7. r.last => Done(r) = Theirs
      <3> SUFFICES ASSUME r.last PROVE Done(r) = Theirs
        OBVIOUS
      <3>1. Len(Done(r)) = Len(Theirs) /\ \A i \in 1..Len(Done(r)) : Done(r)[i] = Theirs[i]
        BY <2>2, <2>4, <2>6 DEF Begins
      <3> QED BY <2>2, <2>4, <3>1, SeqEqual
    <2> QED BY <1>2, <1>4, <2>2, <2>4, <2>6, <2>7
  <1> QED BY <1>3, <1>4

(* The transfer is over, and well.                                         *)
LEMMA HearLast ==
  ASSUME TypeInv, Agreed, NEW k \in 1..Len(bus), bus' = RemoveAt(bus, k), UNCHANGED held,
         UNCHANGED callSide, TxOK', client # "idle", bus[k].cs # "abort", Expected(bus[k]),
         Complete(bus[k]), got' = Done(bus[k]), Stop("OK"), UNCHANGED <<state, slot>>
  PROVE  Agreed'
  <1>1. /\ bus[k] \in Truths /\ ~CANrxNew /\ Turn \notin Answering /\ Turn \notin Starting
        /\ NoAnswer' /\ Traffic'
    BY HeardTrue DEF AtRest
  <1>2. Turn' = Turn /\ UNCHANGED <<object, pc, isNew, cur, CANrxNew, CANrxData>>
    BY SideKept DEF slot
  <1>3. client' = "idle" /\ UNCHANGED <<job, id>>
    BY DEF Stop
  <1>4. Theirs' = Theirs /\ (Written' <=> Written) /\ job.kind \in {"download", "upload"}
    BY <1>2, <1>3, JobIs DEF Theirs, Written, TypeInv, ClientOK
  <1>5. OverKnown'
    <2>1. job.kind = "download" => Written
      BY <1>1, DownloadDone
    <2>2. job.kind = "upload" => got' = Theirs
      BY <1>1, UploadDone
    <2> QED BY <1>1, <1>2, <1>3, <1>4, <2>1, <2>2 DEF OverKnown
  <1>6. UploadKnown'
    <2>1. job.kind = "upload" => got' = << >> \/ Begins(got, Theirs)'
      BY <1>1, <1>4, UploadDone DEF Begins
    <2> QED BY <1>1, <1>2, <1>3, <2>1 DEF UploadKnown, Begins, Answering, Starting
  <1>7. CallKnown' /\ SlotKnown' /\ DownloadKnown' /\ OneDue'
    BY <1>1, <1>2 DEF Agreed, CallKnown, SlotKnown, DownloadKnown, OneDue, Pending, Answering
  <1>8. Whole'
    BY <1>2, <1>3 DEF Agreed, Whole
  <1> QED BY <1>1, <1>5, <1>6, <1>7, <1>8 DEF Agreed

(* Another segment is asked for, or sent.                                  *)
LEMMA HearNext ==
  ASSUME TypeInv, Agreed, NEW k \in 1..Len(bus), bus' = RemoveAt(bus, k), UNCHANGED held,
         UNCHANGED callSide, TxOK', client # "idle", bus[k].cs # "abort", Expected(bus[k]),
         ~Complete(bus[k]), got' = Done(bus[k]), Deliver(NextRequest(Done(bus[k]))),
         UNCHANGED <<job, id, outcome>>
  PROVE  Agreed'
  <1>1. /\ bus[k] \in Truths /\ AtRest /\ outcome # "OK" /\ NoAnswer' /\ Traffic'
    BY HeardTrue
  <1>2. PICK f : f = NextRequest(Done(bus[k]))
    OBVIOUS
  <1>3. /\ f.toggle = Len(got') % 2
        /\ job.kind = "upload" => f.cs = "upload_segment"
        /\ job.kind # "upload" => /\ f.cs = "download_segment"
                                  /\ f.parts = <<Mine[Len(got') + 1]>>
                                  /\ (f.last <=> Len(got') + 1 = Len(Mine))
    BY <1>2 DEF NextRequest, Request, Mine
  <1>4. f.cs # "abort" /\ job.kind \in {"download", "upload"} /\ Mine' = Mine
    BY <1>3, JobIs DEF TypeInv, ClientOK, Mine
  <1>5. IsNext(f)'
    <2>1. job.kind = "download" => Len(got') < Len(Mine)
      <3>1. job.kind = "download" => Len(got') < (job.len + 6) \div 7
        BY <1>1, DoneType DEF Truths
      <3> QED BY <3>1, MineIs
    <2> QED BY <1>3, <1>4, <2>1 DEF IsNext
  <1>6. state' = state
    BY <1>2, <1>4 DEF Deliver, Receive
  <1>7. Turn' = Turn /\ UNCHANGED <<obj, Buf, Toggle, Offset, object>>
    BY <1>6, SideKept
  <1>8. Theirs' = Theirs
    BY <1>7 DEF Theirs
  <1>9. Sync(Len(got))'
    <2>1. Sync(Len(Done(bus[k])))
      BY <1>1, <1>4, DownloadDone, UploadDone
    <2> QED BY <1>4, <1>7, <1>8, <2>1 DEF Sync, Begins
  <1>10. UploadKnown'
    <2>1. job.kind = "upload" => got' = << >> \/ Begins(got, Theirs)'
      BY <1>1, <1>8, UploadDone DEF Begins
    <2> QED BY <1>1, <1>7, <2>1 DEF UploadKnown, Begins, AtRest, Answering, Starting
  <1>11. Whole'
    BY <1>7 DEF Agreed, Whole
  <1> QED BY <1>1, <1>2, <1>4, <1>5, <1>9, <1>10, <1>11, RequestAgreed

LEMMA HearAgreed ==
  ASSUME TypeInv, Agreed, NEW k \in 1..Len(bus), Hear(k), TypeInv'
  PROVE  Agreed'
  <1>1. bus' = RemoveAt(bus, k) /\ UNCHANGED held /\ UNCHANGED callSide /\ TxOK'
    BY DEF Hear, TypeInv
  <1>2. (NoAnswer => NoAnswer') /\ ((\A m \in Truths : m \in Truths') => Traffic')
    BY <1>1, LessTraffic
  <1>3. CASE UNCHANGED clientSide /\ UNCHANGED state /\ UNCHANGED slot
    BY <1>1, <1>2, <1>3, SlotKept DEF clientSide
  <1>4. CASE Stop("FAILED") /\ UNCHANGED got /\ UNCHANGED state /\ UNCHANGED slot
    BY <1>1, <1>2, <1>4, SlotKept DEF Stop
  <1>5. CASE Stop("FAILED") /\ UNCHANGED got /\ Deliver(Request("abort"))
    BY <1>1, <1>2, <1>5, ClientAborts, SlotKept DEF Stop
  <1>6. CASE /\ client # "idle" /\ bus[k].cs # "abort" /\ Expected(bus[k])
             /\ got' = Done(bus[k])
             /\ Complete(bus[k]) /\ Stop("OK") /\ UNCHANGED <<state, slot>>
    BY <1>1, <1>6, HearLast
  <1>7. CASE /\ client # "idle" /\ bus[k].cs # "abort" /\ Expected(bus[k])
             /\ got' = Done(bus[k])
             /\ ~Complete(bus[k]) /\ Deliver(NextRequest(Done(bus[k])))
             /\ UNCHANGED <<job, id, outcome>>
    BY <1>1, <1>7, HearNext
  <1> QED BY <1>3, <1>4, <1>5, <1>6, <1>7 DEF Hear

---------------------------------------------------------------------------
(* The theorems                                                            *)

(* Server and client agree as long as every client waits.                  *)
Concord == TypeInv /\ (~hasty => Agreed)

LEMMA InitConcord == Init => Concord
  <1> SUFFICES ASSUME Init PROVE Concord
    OBVIOUS
  <1>1. Turn = "IDLE" /\ ~CANrxNew /\ pc = "between" /\ isNew = FALSE
    BY DEF Init, Turn
  <1>2. NoAnswer /\ Traffic
    BY DEF Init, NoAnswer, NoAnswerIn, Traffic
  <1>3. CallKnown /\ SlotKnown /\ DownloadKnown /\ OneDue
    BY <1>1, <1>2 DEF CallKnown, SlotKnown, DownloadKnown, OneDue, Starting, Answering, Pending
  <1>4. UploadKnown /\ OverKnown
    BY <1>1 DEF Init, UploadKnown, OverKnown
  <1>5. Whole
    <2> SUFFICES ASSUME NEW o \in Objects
                 PROVE  \E i \in 0..id, n \in 1..Dict[o].size : object[o] = Value(i, n)
      BY DEF Whole
    <2>1. object[o] = Value(0, Dict[o].size) /\ 0 \in 0..id
      BY DEF Init
    <2>2. Dict[o].size \in 1..Dict[o].size
      BY DictIs
    <2> QED BY <2>1, <2>2
  <1> QED BY <1>2, <1>3, <1>4, <1>5, InitTypeInv DEF Concord, Agreed

LEMMA NextConcord == Concord /\ [Next]_vars => Concord'
  <1> SUFFICES ASSUME Concord, [Next]_vars PROVE Concord'
    OBVIOUS
  <1>1. TypeInv /\ TypeInv'
    BY NextTypeInv DEF Concord
  <1> SUFFICES ASSUME ~hasty' PROVE Agreed'
    BY <1>1 DEF Concord
  <1>2. CASE Process
    <2>1. ~hasty
      BY <1>2 DEF Process, Begin, Lookup, Test, Switch, Handle, Timers, Transmit, Respond,
                  Sent, clientSide
    <2>2. Agreed
      BY <2>1 DEF Concord
    <2> QED BY <1>1, <1>2, <2>2, BeginAgreed, LookupAgreed, TestAgreed, HandleAgreed,
               TimersAgreed, RespondAgreed, SentAgreed DEF Process
  <1>3. CASE TxIsr \/ Lose \/ UNCHANGED vars
    <2>1. ~hasty
      BY <1>3 DEF TxIsr, Lose, vars, clientSide
    <2> QED BY <1>1, <1>3, <2>1, TxIsrAgreed, LoseAgreed, StutterAgreed DEF Concord
  <1>4. CASE Client
    <2>1. CASE \E j \in Jobs : Start(j)
      <3>1. PICK j \in Jobs : Start(j)
        BY <2>1
      <3>2. Quiet /\ ~hasty
        BY <3>1 DEF Start
      <3> QED BY <1>1, <3>1, <3>2, StartAgreed DEF Concord
    <2>2. CASE GiveUp
      <3>1. ~hasty
        BY <2>2 DEF GiveUp, Stop
      <3> QED BY <1>1, <2>2, <3>1, GiveUpAgreed DEF Concord
    <2>3. CASE \E k \in 1..Len(bus) : Hear(k)
      <3>1. PICK k \in 1..Len(bus) : Hear(k)
        BY <2>3
      <3>2. ~hasty
        BY <3>1 DEF Hear, Stop, clientSide
      <3> QED BY <1>1, <3>1, <3>2, HearAgreed DEF Concord
    <2> QED BY <1>4, <2>1, <2>2, <2>3 DEF Client
  <1> QED BY <1>2, <1>3, <1>4 DEF Next

(* For every dictionary, all transfers and any loss of frames: while every *)
(* client waits for the answers of the transfer before, each variable      *)
(* holds all the parts of one transfer, in order (CO_SDO_receive and       *)
(* CO_SDOserver_process).                                                  *)
THEOREM ValuesAreWhole == Spec => []WholeValues
  <1>1. Init => Concord
    BY InitConcord
  <1>2. Concord /\ [Next]_vars => Concord'
    BY NextConcord
  <1>3. Concord => WholeValues
    BY DEF Concord, Agreed, Whole, WholeValues
  <1> QED BY <1>1, <1>2, <1>3, PTL DEF Spec

(* Such a client can trust success: what it has downloaded is in the       *)
(* variable, and what it has uploaded is the variable's (the answers of    *)
(* CO_SDOserver_process).                                                  *)
THEOREM SuccessIsTrue == Spec => []PatientTrue
  <1>1. Init => Concord
    BY InitConcord
  <1>2. Concord /\ [Next]_vars => Concord'
    BY NextConcord
  <1>3. Concord => PatientTrue
    <2> SUFFICES ASSUME Concord, outcome = "OK", ~hasty
                 PROVE  IF job.kind = "download"
                          THEN object[job.obj] = Value(id, job.len)
                          ELSE got = object[job.obj].parts
      BY DEF PatientTrue
    <2> QED BY DEF Concord, Agreed, OverKnown, Written, Theirs
  <1> QED BY <1>1, <1>2, <1>3, PTL DEF Spec

=============================================================================
