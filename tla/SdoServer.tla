----------------------------- MODULE SdoServer -----------------------------
(***************************************************************************)
(* The SDO server (CO_SDOserver.c) as this program builds it: expedited    *)
(* and segmented transfers, no block transfers.  The receive interrupt     *)
(* leaves one request at a time for CO_SDOserver_process in the mainline   *)
(* task, and takes an abort of the client at any point of it.              *)
(*                                                                         *)
(* The data of a transfer are parts of seven bytes and a rest; a part is   *)
(* known by the transfer it belongs to.  Every variable of the keypad's    *)
(* dictionary fits the buffer of the server, so that data go between the   *)
(* two in one piece.  The client stands for any that keeps to the          *)
(* protocol: it may give up at any time, frames may be lost both ways, and *)
(* two answers in mailboxes leave in any order.                            *)
(***************************************************************************)
EXTENDS Integers, Sequences, SequencesExt

CONSTANTS
  Dict,             (* the objects: [size, string, read, write]            *)
  Jobs,             (* the transfers clients make                          *)
  MaxJobs,          (* bound: transfers in a run                           *)
  MaxHastyJobs,     (* bound: transfers of clients that do not wait        *)
  SDOtimeoutTime,   (* in the unit of the elapsed time                     *)
  MaxElapsed,       (* bound: the longest time between two calls           *)
  InFlight,         (* mailboxes the server's messages may occupy          *)
  NoObject          (* index 0, before the first request                   *)

BufferSize == 32    (* CO_CONFIG_SDO_SRV_BUFFER_SIZE                       *)
Objects    == DOMAIN Dict
Names      == Objects \cup {j.obj : j \in Jobs} \cup {NoObject}

ASSUME SdoServerAssumption ==
  /\ \A o \in Objects : Dict[o] \in [size : 1..(BufferSize - 9), string : BOOLEAN,
                                     read : BOOLEAN, write : BOOLEAN]
  /\ \A j \in Jobs : /\ DOMAIN j = {"kind", "obj", "len", "ind", "valid"}
                     /\ j.kind \in {"download", "upload"}
                     /\ j.len \in 1..BufferSize /\ {j.ind, j.valid} \subseteq BOOLEAN
                     /\ j.obj # NoObject
                     /\ j.kind = "download" /\ j.len <= 4 /\ ~j.ind /\ j.obj \in Objects =>
                          j.len = IF Dict[j.obj].size < 4 THEN Dict[j.obj].size ELSE 4
  /\ MaxJobs \in Nat \ {0} /\ MaxHastyJobs \in 0..MaxJobs
  /\ SDOtimeoutTime \in Nat \ {0} /\ MaxElapsed \in Nat \ {0} /\ InFlight \in Nat \ {0}
  /\ NoObject \notin Objects

VARIABLES
  state, CANrxNew, CANrxData,             (* shared with the interrupt     *)
  obj, sizeInd, sizeTran, finished, toggle, buf, bufOffsetRd, timeoutTimer,
  pc, isNew, cur, abortCode,              (* the call in progress          *)
  held, bus,            (* the transmit object; messages in mailboxes      *)
  object,               (* the values of the dictionary                    *)
  client, job, id, got, (* what the client does, and the parts acknowledged*)
  outcome,              (* how its last transfer ended                     *)
  hasty,                (* history: it began while an answer of the        *)
                        (* transfer before was still to come               *)
  codeLost              (* history: a full buffer kept an abort waiting    *)

slot       == <<CANrxNew, CANrxData>>
transfer   == <<obj, sizeInd, sizeTran, finished, toggle, buf, bufOffsetRd>>
tx         == <<held, bus>>
clientSide == <<client, job, id, got, outcome, hasty>>
vars == <<state, slot, transfer, timeoutTimer, pc, isNew, cur, abortCode,
          tx, object, clientSide, codeLost>>

---------------------------------------------------------------------------
(* Data and messages                                                       *)

Part == [job : 0..MaxJobs, part : Nat, of : Nat]

(* The bytes of a part.                                                    *)
Count(p) == IF 7 * p.part <= p.of THEN 7 ELSE p.of - 7 * (p.part - 1)

(* The parts of n bytes of a transfer, and a variable that holds them.     *)
Parts(i, n) == [k \in 1..((n + 6) \div 7) |-> [job |-> i, part |-> k, of |-> n]]
Value(i, n) == [parts |-> Parts(i, n), size |-> n]

Kinds == {"abort", "download", "upload", "download_segment", "upload_segment"}

Requests == [cs : Kinds, obj : Names, toggle : {0, 1}, last : BOOLEAN, ind : BOOLEAN,
             size : Nat, parts : Seq(Part), valid : BOOLEAN]

Request(cs) == [cs |-> cs, obj |-> NoObject, toggle |-> 0, last |-> FALSE, ind |-> FALSE,
                size |-> 0, parts |-> << >>, valid |-> TRUE]

AbortCodes == {"NONE", "TOGGLE_BIT", "TIMEOUT", "CMD", "UNSUPPORTED_ACCESS", "WRITEONLY",
               "READONLY", "NOT_EXIST", "DATA_LONG", "DATA_SHORT", "INVALID_VALUE"}

Responses == [cs : Kinds, obj : Names, toggle : {0, 1}, last : BOOLEAN,
              parts : Seq(Part), code : AbortCodes]

Response(cs) == [cs |-> cs, obj |-> obj, toggle |-> 0, last |-> FALSE,
                 parts |-> << >>, code |-> "NONE"]

States == {"IDLE", "ABORT", "DOWNLOAD_INITIATE_REQ", "DOWNLOAD_INITIATE_RSP",
           "DOWNLOAD_SEGMENT_REQ", "DOWNLOAD_SEGMENT_RSP", "UPLOAD_INITIATE_REQ",
           "UPLOAD_INITIATE_RSP", "UPLOAD_SEGMENT_REQ", "UPLOAD_SEGMENT_RSP"}

NoJob == [kind |-> "upload", obj |-> NoObject, len |-> 1, ind |-> FALSE, valid |-> TRUE]

(* The server's own limits: the buffer, and a timer that stops within one  *)
(* call of its limit however long the transmit object stays full.          *)
TypeOK ==
  /\ state \in States /\ cur \in States
  /\ CANrxNew \in BOOLEAN /\ CANrxData \in Requests
  /\ obj \in Names /\ sizeInd \in Nat /\ sizeTran \in 0..BufferSize
  /\ finished \in BOOLEAN /\ toggle \in {0, 1}
  /\ buf \in Seq(Part) /\ 7 * Len(buf) <= BufferSize /\ bufOffsetRd \in 0..Len(buf)
  /\ timeoutTimer \in 0..(SDOtimeoutTime + MaxElapsed - 1)
  /\ pc \in {"between", "lookup", "test", "switch", "handle", "timers", "transmit",
             "respond", "sent"}
  /\ isNew \in BOOLEAN /\ abortCode \in AbortCodes
  /\ held \in Seq(Responses) /\ Len(held) <= 1
  /\ bus \in Seq(Responses) /\ Len(bus) <= InFlight
  /\ object \in [Objects -> [parts : Seq(Part), size : Nat]]
  /\ client \in {"idle", "initiate", "segment"} /\ job \in Jobs \cup {NoJob}
  /\ id \in 0..MaxJobs /\ got \in Seq(Part)
  /\ outcome \in {"NONE", "OK", "FAILED"}
  /\ hasty \in BOOLEAN /\ codeLost \in BOOLEAN

(* CO_SDOserver_init.                                                      *)
Init ==
  /\ state = "IDLE" /\ CANrxNew = FALSE /\ CANrxData = Request("abort")
  /\ obj = NoObject /\ sizeInd = 0 /\ sizeTran = 0 /\ finished = FALSE
  /\ toggle = 0 /\ buf = << >> /\ bufOffsetRd = 0 /\ timeoutTimer = 0
  /\ pc = "between" /\ isNew = FALSE /\ cur = "IDLE" /\ abortCode = "NONE"
  /\ held = << >> /\ bus = << >>
  /\ object = [o \in Objects |-> Value(0, Dict[o].size)]
  /\ client = "idle" /\ job = NoJob /\ id = 0 /\ got = << >> /\ outcome = "NONE"
  /\ hasty = FALSE /\ codeLost = FALSE

---------------------------------------------------------------------------
(* The receive interrupt: CO_SDO_receive                                   *)

Receive(f) ==
  /\ state' = IF f.cs = "abort" THEN "IDLE" ELSE state
  /\ IF f.cs = "abort" \/ CANrxNew
       THEN UNCHANGED slot
       ELSE CANrxNew' = TRUE /\ CANrxData' = f

(* A request on its way: received, or lost.                                *)
Deliver(f) == Receive(f) \/ UNCHANGED <<state, slot>>

---------------------------------------------------------------------------
(* The call: CO_SDOserver_process                                          *)

(* CO_CANsend of the server's transmit object; the messages of the other   *)
(* objects may have all mailboxes.                                         *)
Send(m) ==
  \/ Len(bus) < InFlight /\ bus' = Append(bus, m) /\ UNCHANGED held
  \/ held' = <<m>> /\ UNCHANGED bus

(* The first tests: SDO is allowed in pre-operational and operational.     *)
Begin(allowed) ==
  /\ pc = "between"
  /\ state # "IDLE" \/ CANrxNew
  /\ isNew' = CANrxNew /\ abortCode' = "NONE"
  /\ IF allowed
       THEN pc' = (IF CANrxNew THEN "lookup" ELSE "timers") /\ UNCHANGED <<state, CANrxNew>>
       ELSE state' = "IDLE" /\ CANrxNew' = FALSE /\ pc' = "between"
  /\ UNCHANGED <<CANrxData, transfer, timeoutTimer, cur, tx, object, clientSide, codeLost>>

(* OD_find and OD_getSub: the index and the sub-index are in the           *)
(* dictionary.                                                             *)
Exists(o) == o \in Objects

(* What forbids the transfer a first request asks for: the object and its  *)
(* attributes.                                                             *)
LookupCode(f) ==
  IF f.cs \notin {"download", "upload"} THEN "CMD"
  ELSE IF ~Exists(f.obj) THEN "NOT_EXIST"
  ELSE IF ~Dict[f.obj].read /\ ~Dict[f.obj].write THEN "UNSUPPORTED_ACCESS"
  ELSE IF f.cs = "upload" /\ ~Dict[f.obj].read THEN "WRITEONLY"
  ELSE IF f.cs = "download" /\ ~Dict[f.obj].write THEN "READONLY"
  ELSE "NONE"

(* Mutant: the offset of the last upload is kept.                          *)
Load_KeepsOffset(o) ==
  /\ buf' = object[o].parts /\ sizeInd' = object[o].size
  /\ bufOffsetRd' = bufOffsetRd /\ sizeTran' = 0 /\ finished' = TRUE

(* readFromOd of a whole variable.                                         *)
Load(o) ==
  /\ buf' = object[o].parts /\ sizeInd' = object[o].size
  /\ bufOffsetRd' = 0 /\ sizeTran' = 0 /\ finished' = TRUE

Lookup ==
  /\ pc = "lookup"
  /\ pc' = "test"
  /\ IF state # "IDLE"
       THEN UNCHANGED <<state, transfer, abortCode>>
       ELSE LET f == CANrxData code == LookupCode(CANrxData) IN
            /\ abortCode' = code
            /\ state' = (IF code # "NONE" THEN "ABORT"
                         ELSE IF f.cs = "upload" THEN "UPLOAD_INITIATE_REQ"
                         ELSE "DOWNLOAD_INITIATE_REQ")
            /\ obj' = IF code = "CMD" THEN obj ELSE f.obj
            /\ IF code = "NONE" /\ f.cs = "upload"
                 THEN Load(f.obj)
                 ELSE UNCHANGED <<buf, sizeInd, bufOffsetRd, sizeTran, finished>>
            /\ UNCHANGED toggle
  /\ UNCHANGED <<slot, timeoutTimer, isNew, cur, tx, object, clientSide, codeLost>>

(* The state is read again for the test and for the switch.                *)
Test ==
  /\ pc = "test"
  /\ pc' = IF state \in {"IDLE", "ABORT"} THEN "timers" ELSE "switch"
  /\ UNCHANGED <<state, slot, transfer, timeoutTimer, isNew, cur, abortCode, tx, object,
                 clientSide, codeLost>>

Switch ==
  /\ pc = "switch"
  /\ pc' = "handle" /\ cur' = state
  /\ UNCHANGED <<state, slot, transfer, timeoutTimer, isNew, abortCode, tx, object,
                 clientSide, codeLost>>

(* The state a case ends in, by the abort code it found.                   *)
EndCase(code, next) ==
  /\ state' = (IF code = "NONE" THEN next ELSE "ABORT")
  /\ abortCode' = code

(* A size against that of the object; strings may be shorter.              *)
SizeCode(n) ==
  CASE n > Dict[obj].size                          -> "DATA_LONG"
    [] n < Dict[obj].size /\ ~Dict[obj].string     -> "DATA_SHORT"
    [] OTHER                                       -> "NONE"

(* What the write function of the object says of the data.                 *)
WriteCode(f) == IF f.valid THEN "NONE" ELSE "INVALID_VALUE"

(* Expedited: up to four bytes come with the first request.                *)
DownloadExpedited ==
  LET f    == CANrxData
      n    == IF f.ind THEN f.size
              ELSE IF Dict[obj].size < 4 THEN Dict[obj].size ELSE 4
      code == IF SizeCode(n) # "NONE" THEN SizeCode(n) ELSE WriteCode(f)
  IN /\ f.parts # << >>
     /\ EndCase(code, "DOWNLOAD_INITIATE_RSP")
     /\ IF code = "NONE"
          THEN object' = [object EXCEPT ![obj] = Value(f.parts[1].job, n)] /\ finished' = TRUE
          ELSE UNCHANGED <<object, finished>>
     /\ UNCHANGED <<obj, sizeInd, sizeTran, toggle, buf, bufOffsetRd>>

(* Segmented: the first request may tell the size.                         *)
DownloadSegmented ==
  LET f    == CANrxData
      code == IF f.ind THEN SizeCode(f.size) ELSE "NONE"
  IN /\ f.parts = << >>
     /\ sizeInd' = IF f.ind THEN f.size ELSE 0
     /\ finished' = IF code = "NONE" THEN FALSE ELSE finished
     /\ EndCase(code, "DOWNLOAD_INITIATE_RSP")
     /\ UNCHANGED <<obj, sizeTran, toggle, buf, bufOffsetRd, object>>

DownloadInitiate == cur = "DOWNLOAD_INITIATE_REQ" /\ (DownloadExpedited \/ DownloadSegmented)

(* validateAndWriteToOD, before it writes: n bytes have come in all.       *)
ValidateCode(n) ==
  IF sizeInd > 0 /\ n # sizeInd
    THEN IF n > sizeInd THEN "DATA_LONG" ELSE "DATA_SHORT"
    ELSE SizeCode(n)

(* A segment is kept in the buffer; the last one writes the variable.      *)
DownloadSegment ==
  LET f       == CANrxData
      n       == sizeTran + Count(f.parts[1])
      sizes   == IF n > Dict[obj].size THEN "DATA_LONG"
                 ELSE IF f.last THEN ValidateCode(n) ELSE "NONE"
      writes  == f.last /\ sizes = "NONE"
      code    == IF writes THEN WriteCode(f) ELSE sizes
  IN /\ cur = "DOWNLOAD_SEGMENT_REQ"
     /\ f.cs = "download_segment"
     /\ finished' = f.last
     /\ IF f.toggle # toggle
          THEN EndCase("TOGGLE_BIT", state) /\ UNCHANGED <<sizeTran, buf, object>>
          ELSE /\ EndCase(code, "DOWNLOAD_SEGMENT_RSP")
               /\ sizeTran' = n
               /\ buf' = IF writes THEN << >> ELSE buf \o f.parts
               /\ object' = IF writes /\ code = "NONE"
                              THEN [object EXCEPT ![obj] = [parts |-> buf \o f.parts, size |-> n]]
                              ELSE object
     /\ UNCHANGED <<obj, sizeInd, toggle, bufOffsetRd>>

UploadInitiate ==
  /\ cur = "UPLOAD_INITIATE_REQ"
  /\ EndCase("NONE", "UPLOAD_INITIATE_RSP")
  /\ UNCHANGED <<transfer, object>>

UploadSegment ==
  /\ cur = "UPLOAD_SEGMENT_REQ"
  /\ CANrxData.cs = "upload_segment"
  /\ EndCase(IF CANrxData.toggle # toggle THEN "TOGGLE_BIT" ELSE "NONE", "UPLOAD_SEGMENT_RSP")
  /\ UNCHANGED <<transfer, object>>

(* A wrong command for the state, or a state that waits for no command:    *)
(* an answer not yet sent, or a server the interrupt has just made idle.   *)
Unknown ==
  /\ ~(cur \in {"DOWNLOAD_INITIATE_REQ", "UPLOAD_INITIATE_REQ"})
  /\ ~(cur = "DOWNLOAD_SEGMENT_REQ" /\ CANrxData.cs = "download_segment")
  /\ ~(cur = "UPLOAD_SEGMENT_REQ" /\ CANrxData.cs = "upload_segment")
  /\ EndCase("CMD", state)
  /\ UNCHANGED <<transfer, object>>

Handle ==
  /\ pc = "handle"
  /\ pc' = "timers"
  /\ \/ DownloadInitiate
     \/ DownloadSegment
     \/ UploadInitiate
     \/ UploadSegment
     \/ Unknown
  /\ UNCHANGED <<slot, timeoutTimer, isNew, cur, tx, clientSide, codeLost>>

(* Mutant: the timer counts on past its limit.                             *)
Timer_Unguarded(elapsed) == IF isNew THEN 0 ELSE timeoutTimer + elapsed

(* Mutant: the timer is set to the elapsed time, not advanced by it.       *)
Timer_Restarts(elapsed) == IF isNew THEN 0 ELSE elapsed

(* The timer of this call: a request has set it to 0 and takes no time.    *)
Timer(elapsed) ==
  IF isNew THEN 0
  ELSE IF timeoutTimer < SDOtimeoutTime THEN timeoutTimer + elapsed ELSE timeoutTimer

(* Mutant: the timeout sets the state alone.                               *)
TimeoutCode_Forgotten == "NONE"

TimeoutCode == "TIMEOUT"

(* A full transmit object ends the call here; abortCode goes with it.      *)
Timers(elapsed) ==
  /\ pc = "timers"
  /\ CANrxNew' = IF isNew THEN FALSE ELSE CANrxNew
  /\ timeoutTimer' = Timer(elapsed)
  /\ IF Timer(elapsed) >= SDOtimeoutTime
       THEN EndCase(TimeoutCode, "ABORT")
       ELSE UNCHANGED <<state, abortCode>>
  /\ pc' = IF held = << >> THEN "transmit" ELSE "between"
  /\ codeLost' = (codeLost \/ (held # << >> /\ state' = "ABORT"))
  /\ UNCHANGED <<CANrxData, transfer, isNew, cur, tx, object, clientSide>>

Transmit ==
  /\ pc = "transmit"
  /\ pc' = "respond" /\ cur' = state
  /\ UNCHANGED <<state, slot, transfer, timeoutTimer, isNew, abortCode, tx, object,
                 clientSide, codeLost>>

RespondDownload ==
  /\ cur \in {"DOWNLOAD_INITIATE_RSP", "DOWNLOAD_SEGMENT_RSP"}
  /\ pc' = "sent" /\ timeoutTimer' = 0
  /\ IF cur = "DOWNLOAD_INITIATE_RSP"
       THEN Send(Response("download")) /\ UNCHANGED toggle
       ELSE Send([Response("download_segment") EXCEPT !.toggle = toggle, !.obj = NoObject])
            /\ toggle' = 1 - toggle
  /\ UNCHANGED <<state, obj, sizeInd, sizeTran, finished, buf, bufOffsetRd>>

RespondUploadInitiate ==
  /\ cur = "UPLOAD_INITIATE_RSP"
  /\ pc' = "between"
  /\ IF sizeInd \in 1..4
       THEN /\ state' = "IDLE" /\ UNCHANGED <<toggle, timeoutTimer>>
            /\ Send([Response("upload") EXCEPT !.parts = buf])
       ELSE /\ state' = "UPLOAD_SEGMENT_REQ" /\ toggle' = 0 /\ timeoutTimer' = 0
            /\ Send(Response("upload"))
  /\ UNCHANGED <<obj, sizeInd, sizeTran, finished, buf, bufOffsetRd>>

RespondUploadSegment ==
  LET p    == buf[bufOffsetRd + 1]
      last == bufOffsetRd + 1 = Len(buf)
  IN /\ cur = "UPLOAD_SEGMENT_RSP"
     /\ pc' = "between"
     /\ Send([Response("upload_segment") EXCEPT !.toggle = toggle, !.last = last,
                                                !.parts = <<p>>, !.obj = NoObject])
     /\ state' = (IF last THEN "IDLE" ELSE "UPLOAD_SEGMENT_REQ")
     /\ timeoutTimer' = IF last THEN timeoutTimer ELSE 0
     /\ toggle' = 1 - toggle /\ bufOffsetRd' = bufOffsetRd + 1
     /\ sizeTran' = sizeTran + Count(p)
     /\ UNCHANGED <<obj, sizeInd, finished, buf>>

(* Nothing to answer, or an abort: the state is read once more.            *)
RespondAbort ==
  /\ cur \notin {"DOWNLOAD_INITIATE_RSP", "DOWNLOAD_SEGMENT_RSP",
                 "UPLOAD_INITIATE_RSP", "UPLOAD_SEGMENT_RSP"}
  /\ pc' = "between"
  /\ IF state = "ABORT"
       THEN state' = "IDLE" /\ Send([Response("abort") EXCEPT !.code = abortCode])
       ELSE UNCHANGED <<state, tx>>
  /\ UNCHANGED <<transfer, timeoutTimer>>

Respond ==
  /\ pc = "respond"
  /\ \/ RespondDownload
     \/ RespondUploadInitiate
     \/ RespondUploadSegment
     \/ RespondAbort
  /\ UNCHANGED <<slot, isNew, cur, abortCode, object, clientSide, codeLost>>

(* Mutant: the count and the buffer of the transfer before are kept.       *)
Sent_KeepsBuffer ==
  /\ pc = "sent"
  /\ pc' = "between"
  /\ state' = (IF finished THEN "IDLE" ELSE "DOWNLOAD_SEGMENT_REQ")
  /\ toggle' = IF cur = "DOWNLOAD_INITIATE_RSP" /\ ~finished THEN 0 ELSE toggle
  /\ UNCHANGED <<slot, obj, sizeInd, sizeTran, buf, bufOffsetRd, finished, timeoutTimer,
                 isNew, cur, abortCode, tx, object, clientSide, codeLost>>

(* The answer to a download is out before the state changes.               *)
Sent ==
  /\ pc = "sent"
  /\ pc' = "between"
  /\ state' = (IF finished THEN "IDLE" ELSE "DOWNLOAD_SEGMENT_REQ")
  /\ IF cur = "DOWNLOAD_INITIATE_RSP" /\ ~finished
       THEN toggle' = 0 /\ sizeTran' = 0 /\ buf' = << >> /\ bufOffsetRd' = 0
       ELSE UNCHANGED <<toggle, sizeTran, buf, bufOffsetRd>>
  /\ UNCHANGED <<slot, obj, sizeInd, finished, timeoutTimer, isNew, cur, abortCode,
                 tx, object, clientSide, codeLost>>

Process ==
  \/ \E allowed \in BOOLEAN : Begin(allowed)
  \/ Lookup
  \/ Test
  \/ Switch
  \/ Handle
  \/ \E elapsed \in 1..MaxElapsed : Timers(elapsed)
  \/ Transmit
  \/ Respond
  \/ Sent

---------------------------------------------------------------------------
(* The bus and the client                                                  *)

serverSide == <<state, slot, transfer, timeoutTimer, pc, isNew, cur, abortCode, object,
                codeLost>>
callSide   == <<transfer, timeoutTimer, pc, isNew, cur, abortCode, object, codeLost>>

(* The transmit interrupt finds a mailbox for the message that waits.  It  *)
(* may never do so: CAN_SendMessage clears the count after a scan that     *)
(* left the object full (WaitingMessageSent of CanTx).                     *)
TxIsr ==
  /\ held # << >> /\ Len(bus) < InFlight
  /\ bus' = bus \o held /\ held' = << >>
  /\ UNCHANGED <<serverSide, clientSide>>

(* A frame is destroyed, and not repeated.                                 *)
Lose ==
  /\ \E k \in 1..Len(bus) : bus' = RemoveAt(bus, k)
  /\ UNCHANGED <<held, serverSide, clientSide>>

First(j, i) ==
  IF j.kind = "upload"
    THEN [Request("upload") EXCEPT !.obj = j.obj]
    ELSE [Request("download") EXCEPT !.obj = j.obj, !.ind = j.ind, !.size = j.len,
                                     !.valid = j.valid,
                                     !.parts = IF j.len <= 4 THEN Parts(i, j.len) ELSE << >>]

(* The request after the parts done.                                       *)
NextRequest(done) ==
  LET t == Len(done) % 2  ps == Parts(id, job.len) IN
  IF job.kind = "upload"
    THEN [Request("upload_segment") EXCEPT !.toggle = t]
    ELSE [Request("download_segment") EXCEPT !.toggle = t, !.parts = <<ps[Len(done) + 1]>>,
                                             !.last = Len(done) + 1 = Len(ps),
                                             !.valid = job.valid]

(* No answer is under way and the server has none to give.                 *)
Quiet ==
  /\ pc = "between" /\ ~CANrxNew /\ held = << >> /\ bus = << >>
  /\ state \in {"IDLE", "DOWNLOAD_SEGMENT_REQ", "UPLOAD_SEGMENT_REQ"}

Start(j) ==
  /\ client = "idle"
  /\ id < IF hasty \/ ~Quiet THEN MaxHastyJobs ELSE MaxJobs
  /\ client' = "initiate" /\ job' = j /\ id' = id + 1
  /\ got' = << >> /\ outcome' = "NONE"
  /\ Deliver(First(j, id + 1))
  /\ hasty' = (hasty \/ ~Quiet)
  /\ UNCHANGED <<callSide, tx>>

Stop(how) ==
  /\ client' = "idle" /\ outcome' = how
  /\ UNCHANGED <<job, id, hasty>>

GiveUp ==
  /\ client # "idle"
  /\ Stop("FAILED") /\ Deliver(Request("abort"))
  /\ UNCHANGED <<got, callSide, tx>>

(* What the client waits for.                                              *)
Expected(r) ==
  IF client = "initiate"
    THEN r.cs = job.kind /\ r.obj = job.obj
    ELSE r.toggle = Len(got) % 2
         /\ r.cs = (IF job.kind = "upload" THEN "upload_segment" ELSE "download_segment")

(* The parts done with an answer, and whether they are all.                *)
Done(r) ==
  IF job.kind = "upload" THEN got \o r.parts
  ELSE IF client = "initiate" /\ job.len > 4 THEN << >>
  ELSE Append(got, Parts(id, job.len)[Len(got) + 1])

Complete(r) ==
  IF job.kind = "upload"
    THEN r.last \/ (client = "initiate" /\ r.parts # << >>)
    ELSE Len(Done(r)) = Len(Parts(id, job.len))

Hear(k) ==
  LET r == bus[k] IN
  /\ bus' = RemoveAt(bus, k)
  /\ \/ /\ client = "idle"
        /\ UNCHANGED <<clientSide, state, slot>>
     \/ /\ client # "idle" /\ r.cs = "abort"
        /\ Stop("FAILED")
        /\ UNCHANGED <<got, state, slot>>
     \/ /\ client # "idle" /\ r.cs # "abort" /\ Expected(r)
        /\ got' = Done(r)
        /\ IF Complete(r)
             THEN Stop("OK") /\ UNCHANGED <<state, slot>>
             ELSE /\ client' = "segment" /\ Deliver(NextRequest(Done(r)))
                  /\ UNCHANGED <<job, id, outcome, hasty>>
     \/ /\ client # "idle" /\ r.cs # "abort" /\ ~Expected(r)
        /\ Stop("FAILED") /\ Deliver(Request("abort"))
        /\ UNCHANGED got
  /\ UNCHANGED <<held, callSide>>

Client ==
  \/ \E j \in Jobs : Start(j)
  \/ GiveUp
  \/ \E k \in 1..Len(bus) : Hear(k)

Next == Process \/ TxIsr \/ Lose \/ Client

Spec == Init /\ [][Next]_vars

(* The mainline task calls.  The client need not do anything, and nothing  *)
(* is promised of a message that waits in the transmit object: the         *)
(* interrupt clears CANtxCount with objects still full, so that the server *)
(* may be left with one for as long as nobody is refused a mailbox.        *)
FairSpec == Spec /\ WF_vars(Process)

---------------------------------------------------------------------------
(* Properties                                                              *)

(* A variable holds all the parts of one transfer, in order: what an      *)
(* aborted, lost or timed out download has left in the buffer never        *)
(* reaches it (the resets after the answer to a first request, the toggle  *)
(* bit, and the sizes validateAndWriteToOD compares).  It takes clients    *)
(* that begin when no answer of the transfer before is still to come: an   *)
(* answer to a segment tells only the toggle bit, and one that a client    *)
(* takes for its own lets it skip a segment.                               *)
WholeValues ==
  ~hasty =>
    \A o \in Objects : \E i \in 0..id, n \in 1..Dict[o].size : object[o] = Value(i, n)

(* Such a client may give up whenever it likes and still trust success: a  *)
(* download that ended well has written what it sent, an upload has        *)
(* brought what the variable holds, whatever was lost, refused or timed    *)
(* out before.                                                             *)
PatientTrue ==
  outcome = "OK" /\ ~hasty =>
    IF job.kind = "download"
      THEN object[job.obj] = Value(id, job.len)
      ELSE got = object[job.obj].parts

(* Every abort tells its reason, unless the transmit object was full when  *)
(* the reason was found: abortCode is a local variable of the call, and    *)
(* the call that sends the abort has none.                                 *)
OnlyFullLosesCode ==
  \A k \in 1..Len(bus) : bus[k].cs = "abort" /\ bus[k].code = "NONE" => codeLost

(* Whatever the client leaves undone, the server ends the transfer: the    *)
(* timeout of CO_SDOserver_process counts whenever nothing is received,    *)
(* also while the transmit object is full.  It is idle again, ready for    *)
(* the next client, if the object does not stay full for ever, which the   *)
(* driver does not guarantee (WaitingMessageSent of CanTx).                *)
ServerFree ==
  /\ state # "IDLE" ~> state \in {"ABORT", "IDLE"}
  /\ []<>(held = << >>) => (state # "IDLE" ~> state = "IDLE")

=============================================================================
