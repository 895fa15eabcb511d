------------------------------ MODULE Twi_proofs ------------------------------
(***************************************************************************)
(* Proofs about module Twi.                                                *)
(*                                                                         *)
(* The master calls tell the truth and give the bus back, and as a slave   *)
(* the node takes and gives the bytes of every transfer in order, for      *)
(* every length of the buffer, every setting of the time-outs, any number  *)
(* of other masters and a node that is master and slave by turns, as long  *)
(* as it is Alone: no other master addresses it during a call of its own.  *)
(* (The run with an expected violation shows one that is.)                 *)
(***************************************************************************)
EXTENDS Twi, SequenceTheorems, TLAPS

-----------------------------------------------------------------------------
(* The inductive invariant.                                                *)

MasterStates == {"MTX", "MRX"}
SlaveStates == {"SRX", "STX"}
MasterStatus ==
  {"START", "REP_START", "MT_SLA_ACK", "MT_SLA_NACK", "MT_DATA_ACK", "MT_DATA_NACK",
   "MR_SLA_ACK", "MR_SLA_NACK", "MR_DATA_ACK", "MR_DATA_NACK", "ARB_LOST",
   "BUS_ERROR"}

\* "requestFrom(address, 0)": the length less one is the largest of its type.
ZeroRead == "read" \in Calls /\ 0 \in Lengths

TwiRecord ==
  [state : {"READY"} \cup MasterStates \cup SlaveStates, sendStop : BOOLEAN,
   inRepStart : BOOLEAN,
   slarw : {TW_READ, TW_WRITE}, error : {"none"} \cup MasterStatus,
   masterIndex : Nat, masterLength : 0 .. Byte - 1, masterBuffer : [Index -> Nat],
   txIndex : 0 .. Byte - 1, txLength : 0 .. BufLen, txBuffer : [Index -> Nat],
   rxIndex : 0 .. BufLen, rxBuffer : [Index -> Nat]]

HwRecord ==
  [doing : {"idle", "held", "address", "send", "receive", "stop", "listen", "answer"},
   twint : BOOLEAN, status : {"NO_INFO"} \cup MasterStatus \cup SlaveStatus,
   sta : BOOLEAN, ea : BOOLEAN, ie : BOOLEAN, dr : Nat]

RecordInv ==
  /\ twi \in TwiRecord /\ hw \in HwRecord
  /\ bus \in {"free", "us", "other", "addressed"}
  /\ pc \in {"idle", "waitReady", "claim", "prepare", "address", "wait", "result"}
  /\ call \in {"write", "read"} /\ len \in Nat /\ ret \in Nat
  /\ timeout \in TimeoutSettings /\ timed_out \in BOOLEAN /\ expired \in BOOLEAN
  /\ acked \in Seq(Nat) /\ given \in Nat

\* The phases of the hardware and the bus: nothing to do; a repeated start that
\* nobody is interrupted for; a start asked for; a byte on its way; an event
\* the handler has not seen; a stop that did not come.
Quiet == hw.doing = "idle" /\ ~hw.twint /\ ~hw.sta /\ bus # "us"
Between ==
  /\ hw.sta /\ ~hw.ie /\ bus = "us"
  /\ \/ hw.doing = "idle" /\ ~hw.twint
     \/ hw.doing = "held" /\ hw.twint /\ hw.status = "REP_START"
Starting == hw.doing = "idle" /\ ~hw.twint /\ hw.sta /\ hw.ie /\ bus # "us"
Moving ==
  /\ hw.doing \in {"address", "send", "receive"}
  /\ ~hw.twint /\ ~hw.sta /\ hw.ie /\ bus = "us"
Held ==
  /\ hw.doing = "held" /\ hw.twint /\ hw.ie
  /\ \/ hw.status \in MasterStatus \ {"ARB_LOST"} /\ bus = "us"
     \/ hw.status = "ARB_LOST" /\ bus = "other"
Stuck == hw.doing \in {"stop", "idle"} /\ ~hw.twint /\ ~hw.sta

\* Another master has addressed this node, which the handler has not seen; and
\* the transfer that follows, up to whatever end of it the driver gets to see.
Summoned == hw.doing = "held" /\ hw.twint /\ hw.status \in Addressing /\ bus # "us"
Serving ==
  /\ ~twi.inRepStart /\ ~hw.sta /\ bus # "us" /\ pc \in {"idle", "waitReady"}
  /\ hw.doing \in {"idle", "held", "listen", "answer", "stop"}
  /\ hw.twint <=> hw.doing = "held"
  /\ hw.twint => hw.status \in SlaveStatus \cup {"BUS_ERROR"}

\* Whose state it is, and what the hardware does meanwhile.
Active == twi.state \in MasterStates /\ pc # "prepare"

PhaseInv ==
  /\ twi.state = "READY" \/ pc = "prepare" =>
       IF twi.inRepStart THEN Between ELSE Quiet \/ Summoned
  /\ Active =>
       /\ ~twi.inRepStart
       /\ Starting \/ Between \/ Moving \/ Held \/ Stuck \/ Summoned
  /\ twi.state \in SlaveStates => Serving
  /\ pc = "address" => Between
  /\ pc \in {"claim", "result"} => twi.state = "READY"
  /\ pc \in {"prepare", "address"} => twi.state = MasterState
  /\ pc = "wait" => twi.state \in {MasterState, "READY"}

\* The state a call claims is not mixed up with that of the call before.
CallInv ==
  /\ pc # "idle" => call \in Calls /\ len \in Lengths /\ len <= BufLen
  /\ pc \in {"address", "wait", "result"} =>
       IF call = "read" THEN twi.slarw = TW_READ /\ twi.masterLength = (len - 1) % Byte
                        ELSE twi.slarw = TW_WRITE /\ twi.masterLength = len

\* The bytes before the index, or all, as the call wants them.
BufferInv ==
  /\ twi.slarw = TW_WRITE =>
       /\ twi.masterLength <= BufLen /\ twi.masterIndex <= twi.masterLength
       /\ \A j \in Index : j < twi.masterLength => twi.masterBuffer[j] = j + 1
       /\ \A k \in 1 .. Len(acked) : acked[k] = k
  /\ twi.slarw = TW_READ =>
       /\ twi.masterIndex <= twi.masterLength + 1
       /\ twi.masterLength < BufLen \/ (ZeroRead /\ twi.masterLength = Byte - 1)
       /\ \A j \in Index : j < twi.masterIndex => twi.masterBuffer[j] = j + 1

\* How far a transfer has come, on the bus and in the driver.
Fresh == twi.masterIndex = 0 /\ acked = <<>> /\ given = 0
Clean == nacked = "none" /\ twi.error = "none"

ProgressInv ==
  Active =>
    /\ twi.slarw = IF twi.state = "MRX" THEN TW_READ ELSE TW_WRITE
    /\ Starting \/ Between => Fresh /\ Clean
    /\ Moving =>
         /\ Clean
         /\ hw.doing = "address" => Fresh /\ hw.dr = twi.slarw
         /\ hw.doing = "send" =>
              /\ twi.slarw = TW_WRITE /\ hw.dr = twi.masterIndex
              /\ twi.masterIndex = Len(acked) + 1
         /\ hw.doing = "receive" =>
              /\ twi.slarw = TW_READ /\ given = twi.masterIndex
              /\ twi.masterIndex <= twi.masterLength
              /\ hw.ea <=> twi.masterIndex < twi.masterLength
    /\ Held =>
         /\ twi.error = "none"
         /\ hw.status \in {"START", "REP_START"} => Fresh /\ Clean
         /\ hw.status = "MT_SLA_ACK" => twi.slarw = TW_WRITE /\ Fresh /\ Clean
         /\ hw.status = "MT_SLA_NACK" => twi.slarw = TW_WRITE /\ nacked = "address"
         /\ hw.status = "MT_DATA_ACK" =>
              twi.slarw = TW_WRITE /\ Clean /\ twi.masterIndex = Len(acked)
         /\ hw.status = "MT_DATA_NACK" => twi.slarw = TW_WRITE /\ nacked = "data"
         /\ hw.status = "MR_SLA_ACK" => twi.slarw = TW_READ /\ Fresh /\ Clean
         /\ hw.status = "MR_SLA_NACK" => twi.slarw = TW_READ /\ nacked = "address"
         /\ hw.status \in {"MR_DATA_ACK", "MR_DATA_NACK"} =>
              /\ twi.slarw = TW_READ /\ Clean
              /\ given = twi.masterIndex + 1 /\ hw.dr = given
         /\ hw.status = "MR_DATA_ACK" => twi.masterIndex < twi.masterLength
         /\ hw.status = "MR_DATA_NACK" => twi.masterIndex = twi.masterLength

\* What a transfer has come to when the handler has left the call's state.
Ended ==
  IF twi.slarw = TW_READ
  THEN nacked # "none" \/ twi.error # "none" \/ twi.masterIndex = twi.masterLength + 1
  ELSE /\ twi.error = "none" => nacked = "none" /\ Len(acked) = twi.masterLength
       /\ twi.error = "MT_SLA_NACK" => nacked = "address"
       /\ twi.error = "MT_DATA_NACK" => nacked = "data"

EndedInv == pc = "result" \/ (pc = "wait" /\ twi.state = "READY") => Ended

\* Once a call has returned what it says stays true until the next one.
TruthInv ==
  /\ WriteTruthful /\ ReadTruthful
  /\ pc = "idle" /\ call = "write" /\ ret \in {0, 2, 3} =>
       twi.state \notin MasterStates
  /\ pc = "idle" /\ call = "read" /\ len <= BufLen /\ ~expired =>
       twi.state \notin MasterStates

MasterInv ==
  /\ RecordInv /\ PhaseInv /\ CallInv /\ BufferInv /\ ProgressInv /\ EndedInv
  /\ TruthInv

\* As a slave.
SlaveTypes == taken \in Seq(Nat) /\ replied \in Seq(Nat) /\ supplied \in Seq(Nat)

\* The k-th byte of what another master sends is k, and the buffer holds the
\* bytes before the index.
Stored(n) == twi.rxIndex = IF n < BufLen THEN n ELSE BufLen
BytesInv ==
  /\ \A k \in 1 .. Len(taken) : taken[k] = k
  /\ \A j \in Index : j < twi.rxIndex => twi.rxBuffer[j] = j + 1

\* A transfer to this node: all the bytes but, until it is handled, the last
\* are in the buffer, as far as they fit, and the callback is still to come.
ListenInv ==
  /\ hw.doing = "listen" => Stored(Len(taken)) /\ delivered = NoCallback
  /\ hw.twint /\ hw.status \in {"SR_SLA_ACK", "SR_ARB_LOST"} =>
       taken = <<>> /\ delivered = NoCallback
  /\ hw.twint /\ hw.status = "SR_DATA_ACK" =>
       /\ delivered = NoCallback /\ hw.dr = Len(taken)
       /\ Len(taken) > 0 /\ Stored(Len(taken) - 1)
  /\ hw.twint /\ hw.status = "SR_STOP" => Stored(Len(taken))

\* A transfer from this node: what TWDR holds is the next byte of those the
\* callback supplied, and TWEA says whether there is one after it.
Loaded ==
  /\ twi.txLength = Len(supplied)
  /\ \A j \in Index : j < twi.txLength => twi.txBuffer[j] = supplied[j + 1]
AnswerInv ==
  /\ hw.doing = "answer" =>
       /\ Loaded /\ twi.txIndex = Len(replied) + 1 /\ twi.txIndex <= twi.txLength
       /\ hw.dr = supplied[twi.txIndex] /\ (hw.ea <=> twi.txIndex < twi.txLength)
  /\ hw.twint /\ hw.status \in {"ST_SLA_ACK", "ST_ARB_LOST"} => replied = <<>>
  /\ hw.twint /\ hw.status = "ST_DATA_ACK" =>
       Loaded /\ twi.txIndex = Len(replied) /\ twi.txIndex < twi.txLength

SlaveInv == SlaveTypes /\ BytesInv /\ ListenInv /\ AnswerInv /\ SlaveTruthful

-----------------------------------------------------------------------------
(* The records of the driver and the hardware.                             *)

LEMMA TwcrForm ==
  ASSUME hw \in HwRecord, NEW sta \in BOOLEAN, NEW sto \in BOOLEAN,
         NEW ea \in BOOLEAN, NEW ie \in BOOLEAN,
         ~sta \/ ~hw.twint \/ hw.status \notin SlaveStatus
  PROVE  LET h == Twcr(sta, sto, ea, ie) IN
         /\ h \in HwRecord
         /\ ~h.twint /\ h.sta = sta /\ h.ea = ea /\ h.ie = ie
         /\ h.dr = hw.dr /\ h.status = hw.status
         /\ h.doing = IF hw.twint THEN Resume(hw.status, sta, sto) ELSE hw.doing
<1>1. Resume(hw.status, sta, sto)
        \in {"idle", "address", "send", "receive", "listen", "answer"}
  BY DEF Resume
<1>. DEFINE next == IF hw.twint THEN Resume(hw.status, sta, sto) ELSE hw.doing
<1>2. next \in {"idle", "held", "address", "send", "receive", "stop", "listen", "answer"}
  BY <1>1 DEF HwRecord
<1>3. hw.twint => Resume(hw.status, sta /\ hw.status \notin SlaveStatus, sto)
                  = Resume(hw.status, sta, sto)
  BY DEF Resume
<1>4. Twcr(sta, sto, ea, ie) =
        [hw EXCEPT !.twint = FALSE, !.sta = sta, !.ea = ea, !.ie = ie, !.doing = next]
  BY <1>3 DEF Twcr
<1>. HIDE DEF next
<1>5. LET h == Twcr(sta, sto, ea, ie) IN
      /\ h \in HwRecord
      /\ ~h.twint /\ h.sta = sta /\ h.ea = ea /\ h.ie = ie
      /\ h.dr = hw.dr /\ h.status = hw.status /\ h.doing = next
  BY <1>2, <1>4 DEF HwRecord
<1>. QED
  BY <1>5 DEF next

LEMMA ReplyForm ==
  ASSUME hw \in HwRecord, hw.twint, NEW ack \in BOOLEAN
  PROVE  LET h == Reply(ack) IN
         /\ h \in HwRecord
         /\ ~h.twint /\ ~h.sta /\ h.ea = ack /\ h.ie /\ h.status = hw.status
         /\ h.doing = Resume(hw.status, FALSE, FALSE)
BY TwcrForm DEF Reply

LEMMA ReplyWithForm ==
  ASSUME hw \in HwRecord, hw.twint, NEW ack \in BOOLEAN, NEW byte \in Nat
  PROVE  LET h == ReplyWith(ack, byte) IN
         /\ h \in HwRecord /\ h.dr = byte
         /\ ~h.twint /\ ~h.sta /\ h.ea = ack /\ h.ie /\ h.status = hw.status
         /\ h.doing = Resume(hw.status, FALSE, FALSE)
<1>. DEFINE r == Reply(ack)
<1>1. ReplyWith(ack, byte) = [r EXCEPT !.dr = byte]
  BY DEF ReplyWith
<1>2. /\ r \in HwRecord
      /\ ~r.twint /\ ~r.sta /\ r.ea = ack /\ r.ie /\ r.status = hw.status
      /\ r.doing = Resume(hw.status, FALSE, FALSE)
  BY ReplyForm
<1>. HIDE DEF r
<1>3. LET h == [r EXCEPT !.dr = byte] IN
      /\ h \in HwRecord /\ h.dr = byte
      /\ h.twint = r.twint /\ h.sta = r.sta /\ h.ea = r.ea /\ h.ie = r.ie
      /\ h.status = r.status /\ h.doing = r.doing
  BY <1>2 DEF HwRecord
<1>. QED
  BY <1>1, <1>2, <1>3

\* What the handler leaves when it ends a transfer, d being the driver before.
Outcome(d) ==
  /\ twi' \in TwiRecord /\ hw' \in HwRecord
  /\ bus' \in {"free", "us", "other", "addressed"}
  /\ timed_out' \in BOOLEAN
  /\ twi'.slarw = d.slarw /\ twi'.error = d.error
  /\ twi'.masterIndex = d.masterIndex /\ twi'.masterLength = d.masterLength
  /\ twi'.masterBuffer = d.masterBuffer
  /\ \/ twi'.state = "READY" /\ IF twi'.inRepStart THEN Between' ELSE Quiet'
     \/ twi'.state = d.state /\ ~twi'.inRepStart /\ Stuck'

LEMMA InitDriverForm ==
  ASSUME RecordInv, NEW d \in TwiRecord, timeout.reset,
         twi' = InitDriver(d), hw' = InitHw, timed_out' = TRUE,
         bus' = IF bus = "addressed" THEN "other" ELSE Released
  PROVE  Outcome(d) /\ twi'.state = "READY" /\ ~twi'.inRepStart /\ Quiet'
<1>1. /\ twi' \in TwiRecord /\ twi'.slarw = d.slarw /\ twi'.error = d.error
      /\ twi'.masterIndex = d.masterIndex /\ twi'.masterLength = d.masterLength
      /\ twi'.masterBuffer = d.masterBuffer /\ twi'.state = "READY"
      /\ ~twi'.inRepStart
  BY DEF InitDriver, TwiRecord
<1>2. /\ hw' \in HwRecord /\ hw'.doing = "idle" /\ ~hw'.twint /\ ~hw'.sta
  BY DEF RecordInv, InitHw, HwRecord
<1>3. bus' \in {"free", "other"}
  BY DEF RecordInv, Released
<1>4. timed_out' \in BOOLEAN
  OBVIOUS
<1>. QED
  BY <1>1, <1>2, <1>3, <1>4 DEF Outcome, Quiet

LEMMA StopForm ==
  ASSUME RecordInv, hw.twint, NEW d \in TwiRecord, ~d.inRepStart, Stop(d)
  PROVE  Outcome(d) /\ (bus' = "us" => bus = "us")
<1>. DEFINE h == Twcr(FALSE, TRUE, TRUE, TRUE)
<1>1. h \in HwRecord /\ ~h.twint /\ ~h.sta /\ h.doing = "idle"
  <2>1. Resume(hw.status, FALSE, TRUE) = "idle"
    BY DEF Resume
  <2>2. /\ h \in HwRecord /\ ~h.twint /\ h.sta = FALSE
        /\ h.doing = IF hw.twint THEN Resume(hw.status, FALSE, TRUE) ELSE hw.doing
    BY TwcrForm, Zenon DEF RecordInv
  <2>. QED
    BY <2>1, <2>2
<1>2. CASE StopDone(d)
  <2>1. /\ twi' = [d EXCEPT !.state = "READY"] /\ hw' = h /\ bus' = Released
        /\ timed_out' = timed_out
    BY <1>2 DEF StopDone
  <2>2. /\ twi' \in TwiRecord /\ twi'.slarw = d.slarw /\ twi'.error = d.error
        /\ twi'.masterIndex = d.masterIndex /\ twi'.masterLength = d.masterLength
        /\ twi'.masterBuffer = d.masterBuffer /\ twi'.state = "READY"
        /\ ~twi'.inRepStart
    BY <2>1 DEF TwiRecord
  <2>3. bus' \in {"free", "other", "addressed"} /\ timed_out' \in BOOLEAN
    BY <2>1 DEF RecordInv, Released
  <2>. HIDE DEF h
  <2>. QED
    BY <1>1, <2>1, <2>2, <2>3 DEF Outcome, Quiet
<1>3. CASE StopStuck(d) /\ timeout.reset
  <2>1. /\ twi' = InitDriver(d) /\ hw' = InitHw /\ timed_out' = TRUE
        /\ bus' = IF bus = "addressed" THEN "other" ELSE Released
    BY <1>3 DEF StopStuck, HandleTimeout
  <2>. QED
    BY <1>3, <2>1, InitDriverForm DEF Quiet
<1>4. CASE StopStuck(d) /\ ~timeout.reset
  <2>1. /\ twi' = d /\ hw' = [h EXCEPT !.doing = "stop"] /\ timed_out' = TRUE
        /\ bus' = bus
    BY <1>4 DEF StopStuck, HandleTimeout
  <2>. HIDE DEF h
  <2>2. hw' \in HwRecord /\ hw'.doing = "stop" /\ ~hw'.twint /\ ~hw'.sta
    BY <1>1, <2>1 DEF HwRecord
  <2>3. timed_out' \in BOOLEAN /\ bus' \in {"free", "us", "other", "addressed"}
    BY <2>1 DEF RecordInv
  <2>. QED
    BY <2>1, <2>2, <2>3 DEF Outcome, Stuck
<1>. QED
  BY <1>2, <1>3, <1>4 DEF Stop

LEMMA RepStartForm ==
  ASSUME RecordInv, hw.twint, hw.status \in MasterStatus, bus = "us",
         NEW d \in TwiRecord, RepStart(d)
  PROVE  Outcome(d)
<1>1. /\ twi' \in TwiRecord /\ twi'.slarw = d.slarw /\ twi'.error = d.error
      /\ twi'.masterIndex = d.masterIndex /\ twi'.masterLength = d.masterLength
      /\ twi'.masterBuffer = d.masterBuffer /\ twi'.state = "READY"
      /\ twi'.inRepStart
  BY DEF RepStart, TwiRecord
<1>. DEFINE h == Twcr(TRUE, FALSE, FALSE, FALSE)
<1>2. /\ hw' \in HwRecord /\ hw'.doing = "idle" /\ ~hw'.twint /\ hw'.sta /\ ~hw'.ie
  <2>1. Resume(hw.status, TRUE, FALSE) = "idle"
    BY DEF Resume
  <2>2. /\ h \in HwRecord /\ ~h.twint /\ h.sta = TRUE /\ h.ie = FALSE
        /\ h.doing = IF hw.twint THEN Resume(hw.status, TRUE, FALSE) ELSE hw.doing
    <3>1. hw \in HwRecord /\ hw.status \notin SlaveStatus
      BY DEF RecordInv, MasterStatus, SlaveStatus
    <3>. QED
      BY <3>1, TwcrForm, Zenon
  <2>3. hw' = h
    BY DEF RepStart
  <2>. QED
    BY <2>1, <2>2, <2>3
<1>3. bus' = "us" /\ timed_out' \in BOOLEAN
  BY DEF RepStart, RecordInv
<1>. QED
  BY <1>1, <1>2, <1>3 DEF Outcome, Between

LEMMA EndForm ==
  ASSUME RecordInv, hw.twint, hw.status \in MasterStatus, bus = "us",
         NEW d \in TwiRecord, ~d.inRepStart, EndTransfer(d)
  PROVE  Outcome(d)
BY StopForm, RepStartForm DEF EndTransfer

LEMMA ReleaseForm ==
  ASSUME RecordInv, hw.twint, hw.status = "ARB_LOST", bus = "other", NEW d \in TwiRecord,
         ~d.inRepStart, ReleaseBus(d), UNCHANGED <<bus, timed_out>>
  PROVE  Outcome(d)
<1>1. /\ twi' \in TwiRecord /\ twi'.slarw = d.slarw /\ twi'.error = d.error
      /\ twi'.masterIndex = d.masterIndex /\ twi'.masterLength = d.masterLength
      /\ twi'.masterBuffer = d.masterBuffer /\ twi'.state = "READY"
      /\ ~twi'.inRepStart
  BY DEF ReleaseBus, TwiRecord
<1>2. /\ hw' \in HwRecord /\ hw'.doing = "idle" /\ ~hw'.twint /\ ~hw'.sta
  BY TwcrForm DEF ReleaseBus, RecordInv, Resume
<1>3. bus' = "other" /\ timed_out' \in BOOLEAN
  BY DEF RecordInv
<1>. QED
  BY <1>1, <1>2, <1>3 DEF Outcome, Quiet

-----------------------------------------------------------------------------
(* What holds when a step is taken.                                        *)

\* The handler runs for an event of a transfer of this node's own.
LEMMA InterruptForm ==
  ASSUME MasterInv, hw.twint, hw.ie, hw.status \in MasterStatus,
         hw.status # "BUS_ERROR" \/ twi.state \notin SlaveStates
  PROVE  Active /\ Held /\ pc \in {"idle", "waitReady", "wait"} /\ ~twi.inRepStart
<1>1. twi.state \notin SlaveStates /\ ~Summoned
  BY DEF MasterInv, PhaseInv, Serving, Summoned, Addressing, SlaveStatus, MasterStatus
<1>2. Active
  BY <1>1 DEF MasterInv, PhaseInv, RecordInv, TwiRecord, Active, Quiet, Between
<1>. QED
  BY <1>1, <1>2 DEF MasterInv, PhaseInv, RecordInv, Active, MasterStates, Starting,
     Between, Moving, Held, Stuck

\* The hardware moves a byte of a transfer of this node's own.
LEMMA MovingForm ==
  ASSUME MasterInv, hw.doing \in {"address", "send", "receive"}
  PROVE  Active /\ Moving /\ pc \in {"idle", "waitReady", "wait"} /\ ~twi.inRepStart
<1>1. twi.state \notin SlaveStates /\ ~Summoned
  BY DEF MasterInv, PhaseInv, Serving, Summoned
<1>2. Active
  BY <1>1 DEF MasterInv, PhaseInv, RecordInv, TwiRecord, Active, Quiet, Between
<1>. QED
  BY <1>1, <1>2 DEF MasterInv, PhaseInv, RecordInv, Active, MasterStates, Starting,
     Between, Moving, Held, Stuck

\* Nothing that is under way can change what a call has said.
LEMMA TruthKept ==
  ASSUME TruthInv, twi.state \in MasterStates, UNCHANGED <<pc, call, len, data, ret, expired>>
  PROVE  TruthInv'
BY DEF TruthInv, WriteTruthful, ReadTruthful

\* The end of a transfer, for every way the handler has to end one.
LEMMA EndStep ==
  ASSUME MasterInv, Active, pc \in {"idle", "waitReady", "wait"},
         UNCHANGED <<locals, timeout, expired, master>>,
         NEW d \in TwiRecord, d.state = twi.state, d.slarw = twi.slarw,
         d.masterLength = twi.masterLength, Outcome(d),
         BufferInv', Ended'
  PROVE  MasterInv'
<1>0. RecordInv /\ PhaseInv /\ CallInv /\ ProgressInv /\ TruthInv
  BY DEF MasterInv
<1>1. UNCHANGED <<pc, call, len, data, ret, timeout, expired, acked, nacked, given>>
  BY DEF locals, master
<1>2. RecordInv'
  BY <1>0, <1>1 DEF RecordInv, Outcome
<1>3. PhaseInv'
  BY <1>0, <1>1 DEF PhaseInv, Outcome, Active, MasterState, MasterStates, SlaveStates
<1>4. CallInv'
  BY <1>0, <1>1 DEF CallInv, Outcome
<1>5. ProgressInv'
  <2>1. CASE twi'.state = "READY"
    BY <2>1 DEF ProgressInv, Active, MasterStates
  <2>2. CASE twi'.state = d.state /\ Stuck'
    <3>1. ~Starting' /\ ~Between' /\ ~Moving' /\ ~Held'
      BY <2>2 DEF Stuck, Starting, Between, Moving, Held
    <3>. QED
      BY <1>0, <1>1, <2>2, <3>1 DEF ProgressInv, Outcome, Active
  <2>. QED
    BY <2>1, <2>2 DEF Outcome
<1>6. EndedInv'
  BY DEF EndedInv
<1>7. TruthInv'
  BY <1>0, <1>1, TruthKept DEF Active, MasterStates
<1>. QED
  BY <1>2, <1>3, <1>4, <1>5, <1>6, <1>7 DEF MasterInv

\* A step of a transfer under way that does not end it.
LEMMA ActiveStep ==
  ASSUME MasterInv, Active, UNCHANGED <<locals, timeout, timed_out, expired>>,
         twi' \in TwiRecord, hw' \in HwRecord,
         bus' \in {"free", "us", "other", "addressed"},
         acked' \in Seq(Nat), given' \in Nat,
         twi'.state = twi.state, ~twi'.inRepStart, twi'.slarw = twi.slarw,
         twi'.masterLength = twi.masterLength,
         Starting' \/ Between' \/ Moving' \/ Held' \/ Stuck' \/ Summoned',
         pc = "address" => Between', BufferInv', ProgressInv'
  PROVE  MasterInv'
<1>0. RecordInv /\ PhaseInv /\ CallInv /\ TruthInv
  BY DEF MasterInv
<1>1. /\ pc \notin {"claim", "prepare", "result"} /\ Active'
      /\ UNCHANGED <<pc, call, len, data, ret, timeout, timed_out, expired>>
  BY <1>0 DEF PhaseInv, Active, MasterStates, locals
<1>2. RecordInv'
  BY <1>0, <1>1 DEF RecordInv
<1>3. PhaseInv'
  BY <1>0, <1>1 DEF PhaseInv, Active, MasterState, MasterStates, SlaveStates
<1>4. CallInv'
  BY <1>0, <1>1 DEF CallInv
<1>5. EndedInv'
  BY <1>1 DEF EndedInv, Active, MasterStates
<1>6. TruthInv'
  BY <1>0, <1>1, TruthKept DEF Active, MasterStates
<1>. QED
  BY <1>2, <1>3, <1>4, <1>5, <1>6 DEF MasterInv

\* A step of the hardware or of another master between two transfers.
LEMMA IdleStep ==
  ASSUME MasterInv, ~Active, twi.state \notin SlaveStates,
         UNCHANGED <<twi, locals, timeout, timed_out, expired, master>>,
         hw' \in HwRecord, bus' \in {"free", "us", "other", "addressed"},
         IF twi.inRepStart THEN Between' ELSE Quiet' \/ Summoned'
  PROVE  MasterInv'
<1>0. /\ RecordInv /\ PhaseInv /\ CallInv /\ BufferInv /\ EndedInv /\ TruthInv
      /\ UNCHANGED <<pc, call, len, data, ret, timeout, timed_out, expired>>
      /\ UNCHANGED <<twi, acked, nacked, given>>
  BY DEF MasterInv, locals, master
<1>1. ~Active' /\ pc # "address"
  BY <1>0 DEF PhaseInv, Active, MasterState, MasterStates
<1>2. RecordInv'
  BY <1>0 DEF RecordInv
<1>3. PhaseInv'
  BY <1>0, <1>1 DEF PhaseInv, MasterState
<1>4. CallInv' /\ BufferInv'
  BY <1>0 DEF CallInv, BufferInv
<1>5. ProgressInv'
  BY <1>1 DEF ProgressInv
<1>6. EndedInv' /\ TruthInv'
  BY <1>0 DEF EndedInv, Ended, TruthInv, WriteTruthful, ReadTruthful
<1>. QED
  BY <1>2, <1>3, <1>4, <1>5, <1>6 DEF MasterInv

-----------------------------------------------------------------------------
(* The handler's steps.                                                    *)

LEMMA IsrStartStep ==
  ASSUME MasterInv, IsrStart
  PROVE  MasterInv'
<1>0. RecordInv /\ ProgressInv /\ BufferInv /\ twi.slarw \in Nat
  BY DEF MasterInv, RecordInv, TwiRecord, TW_READ, TW_WRITE
<1>1. /\ hw.twint /\ hw.ie /\ hw.status \in {"START", "REP_START"}
      /\ hw' = ReplyWith(TRUE, twi.slarw)
      /\ UNCHANGED <<twi, bus, timed_out, locals, timeout, expired, master>>
      /\ UNCHANGED <<acked, nacked, given, pc>>
  BY DEF IsrStart, Interrupt, IsrFrame, locals, master
<1>2. Active /\ Held /\ pc # "address" /\ ~twi.inRepStart
  BY <1>1, InterruptForm DEF MasterStatus
<1>3. Resume(hw.status, FALSE, FALSE) = "address"
  BY <1>1 DEF Resume
<1>4. /\ hw' \in HwRecord /\ hw'.doing = "address" /\ hw'.dr = twi.slarw
      /\ ~hw'.twint /\ ~hw'.sta /\ hw'.ie
  BY <1>0, <1>1, <1>3, ReplyWithForm DEF RecordInv
<1>5. Moving' /\ ~Starting' /\ ~Between' /\ ~Held'
  BY <1>1, <1>2, <1>4 DEF Held, Moving, Starting, Between
<1>6. Fresh' /\ Clean' /\ twi.slarw = IF twi.state = "MRX" THEN TW_READ ELSE TW_WRITE
  BY <1>0, <1>1, <1>2 DEF ProgressInv, Fresh, Clean
<1>7. BufferInv'
  BY <1>0, <1>1 DEF BufferInv
<1>8. ProgressInv'
  BY <1>1, <1>4, <1>5, <1>6 DEF ProgressInv
<1>. QED
  BY <1>0, <1>1, <1>2, <1>4, <1>5, <1>7, <1>8, ActiveStep DEF RecordInv

LEMMA IsrMasterSendStep ==
  ASSUME MasterInv, IsrMasterSend
  PROVE  MasterInv'
<1>0. RecordInv /\ ProgressInv /\ BufferInv
  BY DEF MasterInv
<1>1. /\ hw.twint /\ hw.ie /\ hw.status \in {"MT_SLA_ACK", "MT_DATA_ACK"}
      /\ UNCHANGED <<locals, timeout, expired, master>>
      /\ UNCHANGED <<acked, nacked, given, pc>>
  BY DEF IsrMasterSend, Interrupt, IsrFrame, locals, master
<1>2. /\ Active /\ Held /\ ~twi.inRepStart /\ bus = "us"
      /\ pc \in {"idle", "waitReady", "wait"} /\ hw.status \in MasterStatus
  BY <1>1, InterruptForm DEF Held, MasterStatus
<1>3. /\ twi.slarw = TW_WRITE /\ Clean /\ twi.masterIndex = Len(acked)
      /\ twi.slarw = IF twi.state = "MRX" THEN TW_READ ELSE TW_WRITE
  BY <1>0, <1>1, <1>2 DEF ProgressInv, Fresh
<1>4. /\ twi \in TwiRecord /\ BufLen \in Nat
      /\ twi.masterIndex \in Nat /\ twi.masterLength \in Nat /\ TW_WRITE # TW_READ
  BY <1>0, TwiAssumption DEF RecordInv, TwiRecord, TW_WRITE, TW_READ
<1>5. CASE twi.masterIndex < twi.masterLength
  <2>1. /\ hw' = ReplyWith(TRUE, twi.masterBuffer[twi.masterIndex])
        /\ twi' = [twi EXCEPT !.masterIndex = @ + 1]
        /\ UNCHANGED <<bus, timed_out>>
    BY <1>5 DEF IsrMasterSend
  <2>2. twi.masterIndex \in Index /\ twi.masterBuffer[twi.masterIndex] = twi.masterIndex + 1
    BY <1>0, <1>3, <1>4, <1>5 DEF BufferInv, Index
  <2>3. Resume(hw.status, FALSE, FALSE) = "send"
    BY <1>1 DEF Resume
  <2>4. /\ hw' \in HwRecord /\ hw'.doing = "send" /\ hw'.dr = twi.masterIndex + 1
        /\ ~hw'.twint /\ ~hw'.sta /\ hw'.ie
    <3>. DEFINE b == twi.masterBuffer[twi.masterIndex]
    <3>1. b \in Nat /\ b = twi.masterIndex + 1 /\ hw' = ReplyWith(TRUE, b)
      BY <1>4, <2>1, <2>2
    <3>. HIDE DEF b
    <3>. QED
      BY <1>0, <1>1, <2>3, <3>1, ReplyWithForm DEF RecordInv
  <2>5. /\ twi' \in TwiRecord /\ twi'.state = twi.state /\ twi'.slarw = twi.slarw
        /\ twi'.error = twi.error /\ ~twi'.inRepStart
        /\ twi'.masterIndex = twi.masterIndex + 1
        /\ twi'.masterLength = twi.masterLength /\ twi'.masterBuffer = twi.masterBuffer
    BY <1>2, <1>4, <2>1 DEF TwiRecord
  <2>6. Moving' /\ ~Starting' /\ ~Between' /\ ~Held'
    BY <1>2, <2>1, <2>4 DEF Held, Moving, Starting, Between
  <2>7. BufferInv'
    BY <1>0, <1>1, <1>3, <1>4, <1>5, <2>5 DEF BufferInv
  <2>8. ProgressInv'
    BY <1>1, <1>3, <2>4, <2>5, <2>6 DEF ProgressInv, Clean
  <2>. QED
    BY <1>0, <1>1, <1>2, <2>1, <2>4, <2>5, <2>6, <2>7, <2>8, ActiveStep DEF RecordInv
<1>6. CASE ~(twi.masterIndex < twi.masterLength)
  <2>1. EndTransfer(twi)
    BY <1>6 DEF IsrMasterSend
  <2>2. Outcome(twi)
    BY <1>0, <1>1, <1>2, <1>4, <2>1, EndForm
  <2>3. /\ twi'.slarw = twi.slarw /\ twi'.error = twi.error
        /\ twi'.masterIndex = twi.masterIndex
        /\ twi'.masterLength = twi.masterLength /\ twi'.masterBuffer = twi.masterBuffer
    BY <2>2 DEF Outcome
  <2>4. BufferInv'
    BY <1>0, <1>1, <2>3 DEF BufferInv
  <2>5. Len(acked) = twi.masterLength
    BY <1>0, <1>3, <1>4, <1>6 DEF BufferInv
  <2>6. Ended'
    BY <1>1, <1>3, <1>4, <2>3, <2>5 DEF Ended, Clean
  <2>. QED
    BY <1>1, <1>2, <1>4, <2>2, <2>4, <2>6, EndStep
<1>. QED
  BY <1>5, <1>6

\* The endings with an error: what the call will return for it is what happened.
LEMMA FailedStep ==
  ASSUME MasterInv, Active, pc \in {"idle", "waitReady", "wait"},
         UNCHANGED <<locals, timeout, expired, master>>,
         NEW e \in {"none"} \cup MasterStatus, Outcome([twi EXCEPT !.error = e]),
         twi.slarw = TW_READ => nacked # "none" \/ e # "none",
         twi.slarw = TW_WRITE => e # "none",
         e = "MT_SLA_NACK" => nacked = "address",
         e = "MT_DATA_NACK" => nacked = "data"
  PROVE  MasterInv'
<1>. DEFINE d == [twi EXCEPT !.error = e]
<1>1. RecordInv /\ BufferInv /\ UNCHANGED <<acked, nacked, given>>
  BY DEF MasterInv, master
<1>2. /\ d \in TwiRecord /\ d.state = twi.state /\ d.slarw = twi.slarw
      /\ d.error = e /\ d.masterIndex = twi.masterIndex
      /\ d.masterLength = twi.masterLength /\ d.masterBuffer = twi.masterBuffer
  BY <1>1 DEF RecordInv, TwiRecord
<1>3. Outcome(d)
  OBVIOUS
<1>. HIDE DEF d
<1>4. /\ twi'.slarw = twi.slarw /\ twi'.error = e /\ twi'.masterIndex = twi.masterIndex
      /\ twi'.masterLength = twi.masterLength /\ twi'.masterBuffer = twi.masterBuffer
  BY <1>2, <1>3 DEF Outcome
<1>5. BufferInv'
  BY <1>1, <1>4 DEF BufferInv
<1>6. twi.slarw \in {TW_READ, TW_WRITE}
  BY <1>1 DEF RecordInv, TwiRecord
<1>7. Ended'
  BY <1>1, <1>4, <1>6 DEF Ended
<1>. QED
  BY <1>2, <1>3, <1>5, <1>7, EndStep

LEMMA IsrMasterNackStep ==
  ASSUME MasterInv, IsrMasterNack
  PROVE  MasterInv'
<1>0. RecordInv /\ ProgressInv
  BY DEF MasterInv
<1>1. /\ hw.twint /\ hw.ie /\ hw.status \in {"MT_SLA_NACK", "MT_DATA_NACK"}
      /\ UNCHANGED <<locals, timeout, expired, master>>
      /\ Stop([twi EXCEPT !.error = hw.status])
  BY DEF IsrMasterNack, Interrupt, IsrFrame, NackError
<1>2. Active /\ Held /\ ~twi.inRepStart /\ pc \in {"idle", "waitReady", "wait"}
  BY <1>1, InterruptForm DEF MasterStatus
<1>3. /\ twi.slarw = TW_WRITE /\ TW_WRITE # TW_READ
      /\ hw.status = "MT_SLA_NACK" => nacked = "address"
      /\ hw.status = "MT_DATA_NACK" => nacked = "data"
  BY <1>0, <1>1, <1>2 DEF ProgressInv, TW_WRITE, TW_READ
<1>4. hw.status \in MasterStatus /\ hw.status # "none"
  BY <1>1 DEF MasterStatus
<1>5. Outcome([twi EXCEPT !.error = hw.status])
  <2>1. [twi EXCEPT !.error = hw.status] \in TwiRecord
    BY <1>0, <1>4 DEF RecordInv, TwiRecord
  <2>2. ~[twi EXCEPT !.error = hw.status].inRepStart
    BY <1>0, <1>2 DEF RecordInv, TwiRecord
  <2>. QED
    BY <1>0, <1>1, <2>1, <2>2, StopForm
<1>. QED
  BY <1>1, <1>2, <1>3, <1>4, <1>5, FailedStep

LEMMA IsrBusErrorStep ==
  ASSUME MasterInv, IsrBusError, twi.state \notin SlaveStates
  PROVE  MasterInv'
<1>0. RecordInv
  BY DEF MasterInv
<1>1. /\ hw.twint /\ hw.ie /\ hw.status = "BUS_ERROR"
      /\ UNCHANGED <<locals, timeout, expired, master>>
      /\ Stop([twi EXCEPT !.error = "BUS_ERROR"])
  BY DEF IsrBusError, Interrupt, IsrFrame
<1>2. Active /\ ~twi.inRepStart /\ pc \in {"idle", "waitReady", "wait"}
  BY <1>1, InterruptForm DEF MasterStatus
<1>3. Outcome([twi EXCEPT !.error = "BUS_ERROR"])
  <2>1. /\ [twi EXCEPT !.error = "BUS_ERROR"] \in TwiRecord
        /\ ~[twi EXCEPT !.error = "BUS_ERROR"].inRepStart
    BY <1>0, <1>2 DEF RecordInv, TwiRecord, MasterStatus
  <2>. QED
    BY <1>0, <1>1, <2>1, StopForm
<1>. QED
  BY <1>1, <1>2, <1>3, FailedStep DEF MasterStatus

LEMMA IsrArbLostStep ==
  ASSUME MasterInv, IsrArbLost
  PROVE  MasterInv'
<1>0. RecordInv
  BY DEF MasterInv
<1>1. /\ hw.twint /\ hw.ie /\ hw.status = "ARB_LOST"
      /\ UNCHANGED <<locals, timeout, expired, master>>
      /\ ReleaseBus([twi EXCEPT !.error = "ARB_LOST"]) /\ UNCHANGED <<bus, timed_out>>
  BY DEF IsrArbLost, Interrupt, IsrFrame
<1>2. /\ Active /\ ~twi.inRepStart /\ bus = "other"
      /\ pc \in {"idle", "waitReady", "wait"}
  BY <1>1, InterruptForm DEF Held, MasterStatus
<1>3. Outcome([twi EXCEPT !.error = "ARB_LOST"])
  <2>1. /\ [twi EXCEPT !.error = "ARB_LOST"] \in TwiRecord
        /\ ~[twi EXCEPT !.error = "ARB_LOST"].inRepStart
    BY <1>0, <1>2 DEF RecordInv, TwiRecord, MasterStatus
  <2>. QED
    BY <1>0, <1>1, <1>2, <2>1, ReleaseForm
<1>. QED
  BY <1>1, <1>2, <1>3, FailedStep DEF MasterStatus

LEMMA IsrReadNackStep ==
  ASSUME MasterInv, IsrReadNack
  PROVE  MasterInv'
<1>0. RecordInv /\ ProgressInv
  BY DEF MasterInv
<1>1. /\ hw.twint /\ hw.ie /\ hw.status = "MR_SLA_NACK"
      /\ UNCHANGED <<locals, timeout, expired, master>> /\ Stop(twi)
  BY DEF IsrReadNack, Interrupt, IsrFrame
<1>2. Active /\ Held /\ ~twi.inRepStart /\ pc \in {"idle", "waitReady", "wait"}
  BY <1>1, InterruptForm DEF MasterStatus
<1>3. twi.slarw = TW_READ /\ nacked = "address" /\ twi.error = "none" /\ TW_WRITE # TW_READ
  BY <1>0, <1>1, <1>2 DEF ProgressInv, TW_WRITE, TW_READ
<1>4. twi \in TwiRecord /\ Outcome(twi) /\ [twi EXCEPT !.error = "none"] = twi
  BY <1>0, <1>1, <1>2, <1>3, StopForm DEF RecordInv, TwiRecord
<1>. QED
  BY <1>1, <1>2, <1>3, <1>4, FailedStep

\* A byte received goes to its place, or, past the end of the buffer, nowhere.
LEMMA ReceivedForm ==
  ASSUME RecordInv
  PROVE  /\ Received \in TwiRecord /\ Received.state = twi.state
         /\ Received.slarw = twi.slarw /\ Received.error = twi.error
         /\ Received.inRepStart = twi.inRepStart
         /\ Received.masterLength = twi.masterLength
         /\ Received.masterIndex = twi.masterIndex + 1
         /\ \A j \in Index : Received.masterBuffer[j] =
              IF j = twi.masterIndex THEN hw.dr ELSE twi.masterBuffer[j]
<1>. DEFINE buffer == Store(twi.masterBuffer, twi.masterIndex, hw.dr)
<1>1. /\ twi \in TwiRecord /\ hw.dr \in Nat /\ twi.masterIndex \in Nat
      /\ twi.masterBuffer \in [Index -> Nat]
  BY DEF RecordInv, TwiRecord, HwRecord
<1>2. /\ buffer \in [Index -> Nat]
      /\ \A j \in Index : buffer[j] =
           IF j = twi.masterIndex THEN hw.dr ELSE twi.masterBuffer[j]
  BY <1>1 DEF Store
<1>. DEFINE next == twi.masterIndex + 1
<1>3. /\ Received = [twi EXCEPT !.masterBuffer = buffer, !.masterIndex = next]
      /\ next \in Nat
  BY <1>1 DEF Received
<1>. HIDE DEF buffer, next
<1>4. /\ Received \in TwiRecord /\ Received.state = twi.state
      /\ Received.slarw = twi.slarw /\ Received.error = twi.error
      /\ Received.inRepStart = twi.inRepStart
      /\ Received.masterLength = twi.masterLength
      /\ Received.masterIndex = next /\ Received.masterBuffer = buffer
  BY <1>1, <1>2, <1>3 DEF TwiRecord
<1>. QED
  BY <1>2, <1>4 DEF next

LEMMA IsrMasterReceiveStep ==
  ASSUME MasterInv, IsrMasterReceive
  PROVE  MasterInv'
<1>0. RecordInv /\ ProgressInv /\ BufferInv
  BY DEF MasterInv
<1>1. /\ hw.twint /\ hw.ie /\ hw.status \in {"MR_SLA_ACK", "MR_DATA_ACK"}
      /\ UNCHANGED <<locals, timeout, expired, master, bus, timed_out>>
      /\ UNCHANGED <<acked, nacked, given, pc>>
      /\ twi' = IF hw.status = "MR_DATA_ACK" THEN Received ELSE twi
      /\ hw' = Reply(MoreExpected(twi'))
  BY DEF IsrMasterReceive, Interrupt, IsrFrame, locals, master
<1>2. Active /\ Held /\ pc # "address" /\ ~twi.inRepStart /\ bus = "us"
  BY <1>1, InterruptForm DEF Held, MasterStatus
<1>3. /\ twi.slarw = TW_READ /\ Clean /\ TW_READ # TW_WRITE
      /\ twi.slarw = IF twi.state = "MRX" THEN TW_READ ELSE TW_WRITE
      /\ hw.status = "MR_SLA_ACK" => Fresh
      /\ hw.status = "MR_DATA_ACK" =>
           /\ given = twi.masterIndex + 1 /\ hw.dr = given
           /\ twi.masterIndex < twi.masterLength
  BY <1>0, <1>1, <1>2 DEF ProgressInv, TW_WRITE, TW_READ
<1>4. /\ twi \in TwiRecord /\ twi.masterIndex \in Nat /\ twi.masterLength \in Nat
      /\ BufLen \in Nat
  BY <1>0, TwiAssumption DEF RecordInv, TwiRecord
<1>5. /\ twi' \in TwiRecord /\ twi'.state = twi.state /\ twi'.slarw = twi.slarw
      /\ twi'.error = twi.error /\ ~twi'.inRepStart
      /\ twi'.masterLength = twi.masterLength
      /\ twi'.masterIndex = given /\ given \in Nat /\ given <= twi.masterLength
      /\ \A j \in Index : j < given => twi'.masterBuffer[j] = j + 1
  <2>1. CASE hw.status = "MR_SLA_ACK"
    BY <1>0, <1>1, <1>2, <1>3, <1>4, <2>1 DEF BufferInv, Fresh
  <2>2. CASE hw.status = "MR_DATA_ACK"
    <3>1. twi' = Received
      BY <1>1, <2>2
    <3>2. /\ twi' \in TwiRecord /\ twi'.state = twi.state /\ twi'.slarw = twi.slarw
          /\ twi'.error = twi.error /\ twi'.inRepStart = twi.inRepStart
          /\ twi'.masterLength = twi.masterLength
          /\ twi'.masterIndex = twi.masterIndex + 1
          /\ \A j \in Index : twi'.masterBuffer[j] =
               IF j = twi.masterIndex THEN hw.dr ELSE twi.masterBuffer[j]
      BY <1>0, <3>1, ReceivedForm, Zenon
    <3>3. \A j \in Index : j \in Nat
      BY <1>4 DEF Index
    <3>4. \A j \in Index : j < given => twi'.masterBuffer[j] = j + 1
      BY <1>0, <1>3, <1>4, <2>2, <3>2, <3>3 DEF BufferInv
    <3>. QED
      BY <1>2, <1>3, <1>4, <2>2, <3>2, <3>4
  <2>. QED
    BY <1>1, <2>1, <2>2
<1>6. Resume(hw.status, FALSE, FALSE) = "receive"
  BY <1>1 DEF Resume
<1>7. /\ hw' \in HwRecord /\ hw'.doing = "receive"
      /\ ~hw'.twint /\ ~hw'.sta /\ hw'.ie /\ (hw'.ea <=> given < twi.masterLength)
  <2>. DEFINE ack == MoreExpected(twi')
  <2>1. ack \in BOOLEAN /\ (ack <=> given < twi.masterLength) /\ hw' = Reply(ack)
    BY <1>1, <1>5 DEF MoreExpected
  <2>. HIDE DEF ack
  <2>2. /\ hw' \in HwRecord /\ hw'.doing = "receive"
        /\ ~hw'.twint /\ ~hw'.sta /\ hw'.ie /\ hw'.ea = ack
    BY <1>0, <1>1, <1>6, <2>1, ReplyForm DEF RecordInv
  <2>. QED
    BY <2>1, <2>2
<1>8. Moving' /\ ~Starting' /\ ~Between' /\ ~Held'
  BY <1>1, <1>2, <1>7 DEF Held, Moving, Starting, Between
<1>9. BufferInv'
  BY <1>0, <1>3, <1>4, <1>5 DEF BufferInv
<1>10. ProgressInv'
  BY <1>1, <1>3, <1>5, <1>7, <1>8 DEF ProgressInv, Clean
<1>. QED
  BY <1>0, <1>1, <1>2, <1>5, <1>7, <1>8, <1>9, <1>10, ActiveStep DEF RecordInv

LEMMA IsrMasterLastStep ==
  ASSUME MasterInv, IsrMasterLast
  PROVE  MasterInv'
<1>0. RecordInv /\ ProgressInv /\ BufferInv
  BY DEF MasterInv
<1>1. /\ hw.twint /\ hw.ie /\ hw.status = "MR_DATA_NACK"
      /\ UNCHANGED <<locals, timeout, expired, master>>
      /\ UNCHANGED <<acked, nacked, given>> /\ EndTransfer(Received)
  BY DEF IsrMasterLast, Interrupt, IsrFrame, master
<1>2. /\ Active /\ Held /\ ~twi.inRepStart /\ bus = "us"
      /\ pc \in {"idle", "waitReady", "wait"} /\ hw.status \in MasterStatus
  BY <1>1, InterruptForm DEF Held, MasterStatus
<1>3. /\ twi.slarw = TW_READ /\ TW_READ # TW_WRITE
      /\ given = twi.masterIndex + 1 /\ hw.dr = given
      /\ twi.masterIndex = twi.masterLength
  BY <1>0, <1>1, <1>2 DEF ProgressInv, TW_WRITE, TW_READ
<1>4. /\ twi.masterIndex \in Nat /\ twi.masterLength \in Nat /\ BufLen \in Nat
  BY <1>0, TwiAssumption DEF RecordInv, TwiRecord
<1>. DEFINE d == Received
<1>5. /\ d \in TwiRecord /\ d.state = twi.state /\ d.slarw = twi.slarw
      /\ ~d.inRepStart /\ d.masterLength = twi.masterLength
      /\ d.masterIndex = twi.masterIndex + 1
      /\ \A j \in Index : d.masterBuffer[j] =
           IF j = twi.masterIndex THEN hw.dr ELSE twi.masterBuffer[j]
  BY <1>0, <1>2, ReceivedForm, Zenon
<1>6. EndTransfer(d)
  BY <1>1
<1>. HIDE DEF d
<1>7. Outcome(d)
  BY <1>0, <1>1, <1>2, <1>5, <1>6, EndForm
<1>8. /\ twi'.slarw = twi.slarw /\ twi'.masterLength = twi.masterLength
      /\ twi'.masterIndex = twi.masterIndex + 1 /\ twi'.masterBuffer = d.masterBuffer
  BY <1>5, <1>7 DEF Outcome
<1>9. \A j \in Index : j \in Nat /\ (j < twi.masterIndex + 1 => d.masterBuffer[j] = j + 1)
  <2>1. \A j \in Index : j \in Nat
    BY <1>4 DEF Index
  <2>. QED
    BY <1>0, <1>3, <1>4, <1>5, <2>1 DEF BufferInv
<1>10. BufferInv'
  BY <1>0, <1>3, <1>4, <1>8, <1>9 DEF BufferInv
<1>11. Ended'
  BY <1>3, <1>8 DEF Ended
<1>. QED
  BY <1>1, <1>2, <1>5, <1>7, <1>10, <1>11, EndStep

\* The handler runs for an event of another master's transfer with this node.
LEMMA ServingForm ==
  ASSUME MasterInv, Alone, hw.twint, hw.status \in SlaveStatus
  PROVE  /\ ~twi.inRepStart /\ bus # "us" /\ pc \in {"idle", "waitReady"}
         /\ hw.status \notin Addressing => twi.state \in SlaveStates
<1>1. ~Between /\ ~Held /\ ~Quiet /\ ~Starting /\ ~Moving /\ ~Stuck
  BY DEF Between, Held, Quiet, Starting, Moving, Stuck, SlaveStatus, MasterStatus
<1>2. CASE twi.state \in SlaveStates
  BY <1>2 DEF MasterInv, PhaseInv, Serving
<1>3. CASE twi.state \notin SlaveStates
  <2>1. Summoned /\ ~twi.inRepStart
    BY <1>1, <1>3 DEF MasterInv, PhaseInv, RecordInv, TwiRecord, Active
  <2>. QED
    BY <2>1 DEF Summoned, Alone
<1>. QED
  BY <1>2, <1>3

\* A step of such a transfer, or its end: nothing a call has said is touched.
LEMMA ServeStep ==
  ASSUME MasterInv, pc \in {"idle", "waitReady"},
         UNCHANGED <<locals, timeout, expired, master>>,
         twi' \in TwiRecord, hw' \in HwRecord, timed_out' \in BOOLEAN,
         bus' \in {"free", "us", "other", "addressed"},
         twi'.slarw = twi.slarw, twi'.masterIndex = twi.masterIndex,
         twi'.masterLength = twi.masterLength, twi'.masterBuffer = twi.masterBuffer,
         twi'.error = twi.error \/ twi'.error = "BUS_ERROR",
         \/ twi'.state \in SlaveStates /\ Serving'
         \/ twi'.state = "READY" /\ ~twi'.inRepStart /\ Quiet'
  PROVE  MasterInv'
<1>0. /\ RecordInv /\ CallInv /\ BufferInv /\ TruthInv
      /\ UNCHANGED <<pc, call, len, data, ret, timeout, expired, acked, nacked, given>>
  BY DEF MasterInv, locals, master
<1>1. twi'.state \notin MasterStates /\ ~Active'
  BY <1>0 DEF SlaveStates, MasterStates, Active
<1>2. RecordInv'
  BY <1>0 DEF RecordInv
<1>3. PhaseInv'
  BY <1>0, <1>1 DEF PhaseInv, SlaveStates
<1>4. CallInv' /\ BufferInv'
  BY <1>0 DEF CallInv, BufferInv
<1>5. ProgressInv' /\ EndedInv'
  BY <1>0, <1>1 DEF ProgressInv, EndedInv
<1>6. TruthInv'
  BY <1>0, <1>1 DEF TruthInv, WriteTruthful, ReadTruthful
<1>. QED
  BY <1>2, <1>3, <1>4, <1>5, <1>6 DEF MasterInv

\* The fields of the master's calls and those of the slave's answers.
MasterPart(d) == <<d.inRepStart, d.slarw, d.error, d.masterIndex, d.masterLength,
                   d.masterBuffer>>
SlavePart(d) == <<d.rxIndex, d.rxBuffer, d.txIndex, d.txLength, d.txBuffer>>

\* What every case of the handler for such an event comes to.
LEMMA ServedStep ==
  ASSUME MasterInv, Alone, hw.twint, hw.status \in SlaveStatus,
         UNCHANGED <<locals, timeout, expired, master, bus, timed_out>>,
         twi' \in TwiRecord, MasterPart(twi') = MasterPart(twi),
         hw' \in HwRecord, ~hw'.twint, ~hw'.sta,
         \/ twi'.state \in SlaveStates /\ hw'.doing \in {"idle", "listen", "answer"}
         \/ twi'.state = "READY" /\ hw'.doing = "idle"
  PROVE  MasterInv'
<1>1. ~twi.inRepStart /\ bus # "us" /\ pc \in {"idle", "waitReady"}
  BY ServingForm
<1>2. /\ ~twi'.inRepStart /\ twi'.slarw = twi.slarw /\ twi'.error = twi.error
      /\ twi'.masterIndex = twi.masterIndex /\ twi'.masterLength = twi.masterLength
      /\ twi'.masterBuffer = twi.masterBuffer
  BY <1>1 DEF MasterPart
<1>3. bus' = bus /\ pc' = pc /\ bus \in {"free", "us", "other", "addressed"}
      /\ timed_out' \in BOOLEAN
  BY DEF locals, MasterInv, RecordInv
<1>4. \/ twi'.state \in SlaveStates /\ Serving'
      \/ twi'.state = "READY" /\ ~twi'.inRepStart /\ Quiet'
  BY <1>1, <1>2, <1>3 DEF Serving, Quiet
<1>. QED
  BY <1>1, <1>2, <1>3, <1>4, ServeStep

\* A bus error in the middle of it.
LEMMA ServingErrorStep ==
  ASSUME MasterInv, IsrBusError, twi.state \in SlaveStates
  PROVE  MasterInv'
<1>. DEFINE d == [twi EXCEPT !.error = "BUS_ERROR"]
<1>0. RecordInv /\ Serving
  BY DEF MasterInv, PhaseInv
<1>1. /\ hw.twint /\ UNCHANGED <<locals, timeout, expired, master>> /\ Stop(d)
  BY DEF IsrBusError, Interrupt, IsrFrame
<1>2. /\ d \in TwiRecord /\ ~d.inRepStart /\ d.slarw = twi.slarw
      /\ d.error = "BUS_ERROR" /\ d.state = twi.state
      /\ d.masterIndex = twi.masterIndex /\ d.masterLength = twi.masterLength
      /\ d.masterBuffer = twi.masterBuffer
  BY <1>0 DEF RecordInv, TwiRecord, MasterStatus, Serving
<1>. HIDE DEF d
<1>3. Outcome(d) /\ (bus' = "us" => bus = "us")
  BY <1>0, <1>1, <1>2, StopForm
<1>4. pc \in {"idle", "waitReady"} /\ pc' = pc /\ bus # "us"
  BY <1>0, <1>1 DEF Serving, locals
<1>5. ~(twi'.state = "READY" /\ twi'.inRepStart)
  BY <1>1, <1>2, <1>0 DEF Stop, StopDone, StopStuck, HandleTimeout, InitDriver, TwiRecord
<1>6. \/ twi'.state \in SlaveStates /\ Serving'
      \/ twi'.state = "READY" /\ ~twi'.inRepStart /\ Quiet'
  BY <1>2, <1>3, <1>4, <1>5 DEF Outcome, Serving, Stuck
<1>. QED
  BY <1>1, <1>2, <1>3, <1>4, <1>6, ServeStep DEF Outcome

-----------------------------------------------------------------------------
(* The steps of the bus.                                                   *)

\* An event raised.
LEMMA RaiseForm ==
  ASSUME hw \in HwRecord, NEW s \in MasterStatus \cup SlaveStatus, Raise(s)
  PROVE  /\ hw' \in HwRecord /\ hw'.twint /\ hw'.status = s /\ hw'.doing = "held"
         /\ hw'.sta = hw.sta /\ hw'.ea = hw.ea /\ hw'.ie = hw.ie /\ hw'.dr = hw.dr
BY DEF Raise, HwRecord

LEMMA RaiseWithForm ==
  ASSUME hw \in HwRecord, NEW s \in MasterStatus \cup SlaveStatus, NEW b \in Nat, RaiseWith(s, b)
  PROVE  /\ hw' \in HwRecord /\ hw'.twint /\ hw'.status = s /\ hw'.doing = "held"
         /\ hw'.sta = hw.sta /\ hw'.ea = hw.ea /\ hw'.ie = hw.ie /\ hw'.dr = b
BY DEF RaiseWith, HwRecord

\* Another master sends to this node or takes from it.
LEMMA ListeningForm ==
  ASSUME MasterInv, hw.doing \in {"listen", "answer"}
  PROVE  twi.state \in SlaveStates /\ Serving
<1>1. ~Between /\ ~Held /\ ~Quiet /\ ~Starting /\ ~Moving /\ ~Stuck /\ ~Summoned
  BY DEF Between, Held, Quiet, Starting, Moving, Stuck, Summoned
<1>2. twi.state \in SlaveStates
  BY <1>1 DEF MasterInv, PhaseInv, RecordInv, TwiRecord, Active
<1>. QED
  BY <1>2 DEF MasterInv, PhaseInv

LEMMA HwStartStep ==
  ASSUME MasterInv, HwStart
  PROVE  MasterInv'
<1>0. RecordInv /\ PhaseInv /\ ProgressInv /\ BufferInv
  BY DEF MasterInv
<1>. DEFINE s == IF bus = "us" THEN "REP_START" ELSE "START"
<1>1. /\ hw.doing = "idle" /\ hw.sta /\ bus \in {"free", "us"} /\ Raise(s) /\ bus' = "us"
      /\ UNCHANGED <<twi, locals, timeout, timed_out, expired, master>>
      /\ UNCHANGED <<acked, nacked, given, pc>>
  BY DEF HwStart, BusFrame, locals, master
<1>2. s \in MasterStatus /\ s = IF bus = "us" THEN "REP_START" ELSE "START"
  BY DEF MasterStatus
<1>. HIDE DEF s
<1>3. /\ hw' \in HwRecord /\ hw'.twint /\ hw'.status = s /\ hw'.doing = "held"
      /\ hw'.sta = hw.sta /\ hw'.ie = hw.ie
  BY <1>0, <1>1, <1>2, RaiseForm DEF RecordInv
<1>4. Between => Between'
  BY <1>1, <1>2, <1>3 DEF Between
<1>5. CASE Active
  <2>1. Starting \/ Between
    BY <1>0, <1>1, <1>5 DEF PhaseInv, Moving, Held, Stuck, Summoned
  <2>2. Fresh /\ Clean /\ ~twi.inRepStart
        /\ twi.slarw = IF twi.state = "MRX" THEN TW_READ ELSE TW_WRITE
    BY <1>0, <1>5, <2>1 DEF ProgressInv, PhaseInv
  <2>3. Fresh' /\ Clean'
    BY <1>1, <2>2 DEF Fresh, Clean
  <2>4. Starting => Held'
    BY <1>1, <1>2, <1>3 DEF Starting, Held, MasterStatus
  <2>5. pc = "address" => Between
    BY <1>0 DEF PhaseInv
  <2>6. BufferInv'
    BY <1>0, <1>1 DEF BufferInv
  <2>7. ProgressInv'
    <3>1. ~Moving' /\ hw'.status \in {"START", "REP_START"}
      BY <1>2, <1>3 DEF Moving
    <3>. QED
      BY <1>1, <2>2, <2>3, <3>1 DEF ProgressInv, Clean
  <2>. QED
    BY <1>0, <1>1, <1>3, <1>4, <1>5, <2>1, <2>2, <2>4, <2>5, <2>6, <2>7, ActiveStep
       DEF RecordInv
<1>6. CASE ~Active
  <2>1. twi.inRepStart /\ Between /\ twi.state \notin SlaveStates
    BY <1>0, <1>1, <1>6
       DEF PhaseInv, Active, RecordInv, TwiRecord, Quiet, Summoned, Serving
  <2>. QED
    BY <1>1, <1>3, <1>4, <1>6, <2>1, IdleStep
<1>. QED
  BY <1>5, <1>6

LEMMA HwAddressStep ==
  ASSUME MasterInv, HwAddress
  PROVE  MasterInv'
<1>0. RecordInv /\ ProgressInv /\ BufferInv
  BY DEF MasterInv
<1>1. /\ hw.doing = "address"
      /\ UNCHANGED <<twi, locals, timeout, timed_out, expired, bus, acked, given, pc>>
  BY DEF HwAddress, BusFrame, locals
<1>2. Active /\ Moving /\ pc # "address" /\ ~twi.inRepStart
  BY <1>1, MovingForm
<1>3. /\ Fresh /\ Clean /\ hw.dr = twi.slarw /\ TW_READ # TW_WRITE
      /\ twi.slarw = IF twi.state = "MRX" THEN TW_READ ELSE TW_WRITE
  BY <1>0, <1>1, <1>2 DEF ProgressInv, TW_READ, TW_WRITE
<1>4. PICK ack \in BOOLEAN :
        /\ Raise(IF hw.dr = TW_WRITE
                 THEN IF ack THEN "MT_SLA_ACK" ELSE "MT_SLA_NACK"
                 ELSE IF ack THEN "MR_SLA_ACK" ELSE "MR_SLA_NACK")
        /\ nacked' = IF ack THEN nacked ELSE "address"
  BY DEF HwAddress
<1>. DEFINE s == IF hw.dr = TW_WRITE
                 THEN IF ack THEN "MT_SLA_ACK" ELSE "MT_SLA_NACK"
                 ELSE IF ack THEN "MR_SLA_ACK" ELSE "MR_SLA_NACK"
<1>5. /\ s \in MasterStatus \ {"ARB_LOST"} /\ Raise(s)
      /\ s \in IF hw.dr = TW_WRITE THEN {"MT_SLA_ACK", "MT_SLA_NACK"}
                                   ELSE {"MR_SLA_ACK", "MR_SLA_NACK"}
      /\ s \in {"MT_SLA_ACK", "MR_SLA_ACK"} => nacked' = nacked
      /\ s \in {"MT_SLA_NACK", "MR_SLA_NACK"} => nacked' = "address"
  BY <1>4 DEF MasterStatus
<1>. HIDE DEF s
<1>6. /\ hw' \in HwRecord /\ hw'.twint /\ hw'.status = s /\ hw'.doing = "held"
      /\ hw'.ie = hw.ie
  BY <1>0, <1>5, RaiseForm DEF RecordInv
<1>7. Held' /\ ~Moving' /\ ~Starting' /\ ~Between'
  BY <1>1, <1>2, <1>5, <1>6 DEF Held, Moving, Starting, Between
<1>8. BufferInv'
  BY <1>0, <1>1 DEF BufferInv
<1>9. ProgressInv'
  BY <1>0, <1>1, <1>3, <1>5, <1>6, <1>7 DEF ProgressInv, Fresh, Clean
<1>. QED
  BY <1>0, <1>1, <1>2, <1>6, <1>7, <1>8, <1>9, ActiveStep DEF RecordInv

LEMMA HwSendStep ==
  ASSUME MasterInv, HwSend
  PROVE  MasterInv'
<1>0. RecordInv /\ ProgressInv /\ BufferInv
  BY DEF MasterInv
<1>1. /\ hw.doing = "send"
      /\ UNCHANGED <<twi, locals, timeout, timed_out, expired, bus, given, pc>>
  BY DEF HwSend, BusFrame, locals
<1>2. Active /\ Moving /\ pc # "address" /\ ~twi.inRepStart
  BY <1>1, MovingForm
<1>3. /\ Clean /\ twi.slarw = TW_WRITE /\ TW_READ # TW_WRITE
      /\ hw.dr = twi.masterIndex /\ twi.masterIndex = Len(acked) + 1
      /\ twi.slarw = IF twi.state = "MRX" THEN TW_READ ELSE TW_WRITE
  BY <1>0, <1>1, <1>2 DEF ProgressInv, TW_READ, TW_WRITE
<1>4. acked \in Seq(Nat) /\ hw.dr \in Nat /\ hw \in HwRecord
  BY <1>0 DEF RecordInv, HwRecord
<1>5. CASE Raise("MT_DATA_ACK") /\ acked' = Append(acked, hw.dr) /\ nacked' = nacked
  <2>1. /\ hw' \in HwRecord /\ hw'.twint /\ hw'.status = "MT_DATA_ACK"
        /\ hw'.doing = "held" /\ hw'.ie = hw.ie
    BY <1>4, <1>5, RaiseForm DEF MasterStatus
  <2>2. Held' /\ ~Moving' /\ ~Starting' /\ ~Between'
    BY <1>1, <1>2, <2>1 DEF Held, Moving, Starting, Between, MasterStatus
  <2>3. /\ acked' \in Seq(Nat) /\ Len(acked') = Len(acked) + 1
        /\ \A k \in 1 .. Len(acked') :
             acked'[k] = IF k <= Len(acked) THEN acked[k] ELSE hw.dr
    BY <1>4, <1>5
  <2>4. BufferInv'
    BY <1>0, <1>1, <1>3, <1>4, <2>3 DEF BufferInv
  <2>5. ProgressInv'
    BY <1>1, <1>3, <1>5, <2>1, <2>2, <2>3 DEF ProgressInv, Clean
  <2>. QED
    BY <1>0, <1>1, <1>2, <2>1, <2>2, <2>3, <2>4, <2>5, ActiveStep DEF RecordInv
<1>6. CASE Raise("MT_DATA_NACK") /\ acked' = acked /\ nacked' = "data"
  <2>1. /\ hw' \in HwRecord /\ hw'.twint /\ hw'.status = "MT_DATA_NACK"
        /\ hw'.doing = "held" /\ hw'.ie = hw.ie
    BY <1>4, <1>6, RaiseForm DEF MasterStatus
  <2>2. Held' /\ ~Moving' /\ ~Starting' /\ ~Between'
    BY <1>1, <1>2, <2>1 DEF Held, Moving, Starting, Between, MasterStatus
  <2>3. BufferInv'
    BY <1>0, <1>1, <1>6 DEF BufferInv
  <2>4. ProgressInv'
    BY <1>1, <1>3, <1>6, <2>1, <2>2 DEF ProgressInv, Clean
  <2>. QED
    BY <1>0, <1>1, <1>2, <1>6, <2>1, <2>2, <2>3, <2>4, ActiveStep DEF RecordInv
<1>. QED
  BY <1>5, <1>6 DEF HwSend

LEMMA HwReceiveStep ==
  ASSUME MasterInv, HwReceive
  PROVE  MasterInv'
<1>0. RecordInv /\ ProgressInv /\ BufferInv
  BY DEF MasterInv
<1>. DEFINE s == IF hw.ea THEN "MR_DATA_ACK" ELSE "MR_DATA_NACK"
            b == given + 1
<1>1. /\ hw.doing = "receive" /\ RaiseWith(s, b) /\ given' = b
      /\ UNCHANGED <<twi, locals, timeout, timed_out, expired, bus, acked, nacked, pc>>
  BY DEF HwReceive, BusFrame, locals
<1>2. Active /\ Moving /\ pc # "address" /\ ~twi.inRepStart
  BY <1>1, MovingForm
<1>3. /\ Clean /\ twi.slarw = TW_READ /\ TW_READ # TW_WRITE
      /\ given = twi.masterIndex /\ twi.masterIndex <= twi.masterLength
      /\ (hw.ea <=> twi.masterIndex < twi.masterLength)
      /\ twi.slarw = IF twi.state = "MRX" THEN TW_READ ELSE TW_WRITE
  BY <1>0, <1>1, <1>2 DEF ProgressInv, TW_READ, TW_WRITE
<1>4. /\ hw \in HwRecord /\ given \in Nat /\ b \in Nat /\ b = given + 1
      /\ twi.masterIndex \in Nat /\ twi.masterLength \in Nat
  BY <1>0 DEF RecordInv, HwRecord, TwiRecord
<1>5. /\ s \in {"MR_DATA_ACK", "MR_DATA_NACK"}
      /\ s = "MR_DATA_ACK" => twi.masterIndex < twi.masterLength
      /\ s = "MR_DATA_NACK" => twi.masterIndex = twi.masterLength
  BY <1>3, <1>4
<1>. HIDE DEF s, b
<1>6. /\ hw' \in HwRecord /\ hw'.twint /\ hw'.status = s /\ hw'.doing = "held"
      /\ hw'.ie = hw.ie /\ hw'.dr = b
  BY <1>1, <1>4, <1>5, RaiseWithForm DEF MasterStatus
<1>7. Held' /\ ~Moving' /\ ~Starting' /\ ~Between'
  BY <1>1, <1>2, <1>5, <1>6 DEF Held, Moving, Starting, Between, MasterStatus
<1>8. BufferInv'
  BY <1>0, <1>1 DEF BufferInv
<1>9. ProgressInv'
  BY <1>1, <1>3, <1>4, <1>5, <1>6, <1>7 DEF ProgressInv, Clean
<1>. QED
  BY <1>0, <1>1, <1>2, <1>4, <1>6, <1>7, <1>8, <1>9, ActiveStep DEF RecordInv

LEMMA HwStopStep ==
  ASSUME MasterInv, HwStop
  PROVE  MasterInv'
<1>0. RecordInv /\ PhaseInv /\ ProgressInv /\ BufferInv
  BY DEF MasterInv
<1>1. /\ hw.doing = "stop" /\ hw' = [hw EXCEPT !.doing = "idle"] /\ bus' = Released
      /\ UNCHANGED <<twi, locals, timeout, timed_out, expired, acked, nacked, given, pc>>
      /\ UNCHANGED master
  BY DEF HwStop, BusFrame, locals, master
<1>2. ~Between /\ ~Quiet /\ ~Starting /\ ~Moving /\ ~Held /\ ~Summoned
  BY <1>1 DEF Between, Quiet, Starting, Moving, Held, Summoned
<1>3. /\ hw' \in HwRecord /\ hw'.doing = "idle" /\ hw'.twint = hw.twint
      /\ hw'.sta = hw.sta /\ bus' \in {"free", "other", "addressed"}
  BY <1>0, <1>1 DEF RecordInv, HwRecord, Released
<1>4. CASE twi.state \in SlaveStates
  <2>1. Serving /\ ~hw.twint
    BY <1>0, <1>1, <1>4 DEF PhaseInv, Serving
  <2>2. Serving'
    BY <1>1, <1>3, <2>1 DEF Serving
  <2>3. pc \in {"idle", "waitReady"} /\ twi \in TwiRecord /\ timed_out \in BOOLEAN
    BY <1>0, <2>1 DEF Serving, RecordInv
  <2>. QED
    BY <1>1, <1>3, <1>4, <2>2, <2>3, ServeStep
<1>5. CASE twi.state \notin SlaveStates
  <2>1. Active /\ Stuck /\ pc # "address" /\ ~twi.inRepStart
    BY <1>0, <1>2, <1>5 DEF PhaseInv, Active, RecordInv, TwiRecord
  <2>2. ~hw'.twint /\ ~hw'.sta
    BY <1>3, <2>1 DEF Stuck
  <2>3. Stuck' /\ ~Starting' /\ ~Between' /\ ~Moving' /\ ~Held'
    BY <1>3, <2>2 DEF Stuck, Starting, Between, Moving, Held
  <2>4. BufferInv'
    BY <1>0, <1>1 DEF BufferInv
  <2>5. ProgressInv'
    BY <1>0, <1>1, <2>1, <2>3 DEF ProgressInv
  <2>. QED
    BY <1>0, <1>1, <1>3, <2>1, <2>3, <2>4, <2>5, ActiveStep DEF RecordInv
<1>. QED
  BY <1>4, <1>5

LEMMA HwBusErrorStep ==
  ASSUME MasterInv, HwBusError
  PROVE  MasterInv'
<1>0. RecordInv /\ PhaseInv /\ ProgressInv /\ BufferInv
  BY DEF MasterInv
<1>1. /\ hw.doing \in {"address", "send", "receive", "listen", "answer"}
      /\ Raise("BUS_ERROR")
      /\ UNCHANGED <<twi, locals, timeout, timed_out, expired, bus, pc>>
      /\ UNCHANGED <<acked, nacked, given, master>>
  BY DEF HwBusError, BusFrame, locals, master
<1>2. /\ hw' \in HwRecord /\ hw'.twint /\ hw'.status = "BUS_ERROR"
      /\ hw'.doing = "held" /\ hw'.ie = hw.ie /\ hw'.sta = hw.sta
  BY <1>0, <1>1, RaiseForm DEF RecordInv, MasterStatus
<1>3. CASE hw.doing \in {"address", "send", "receive"}
  <2>1. Active /\ Moving /\ pc # "address" /\ ~twi.inRepStart
    BY <1>3, MovingForm
  <2>2. Clean /\ twi.slarw = IF twi.state = "MRX" THEN TW_READ ELSE TW_WRITE
    BY <1>0, <2>1 DEF ProgressInv
  <2>3. Held' /\ ~Moving' /\ ~Starting' /\ ~Between'
    BY <1>1, <1>2, <2>1 DEF Held, Moving, Starting, Between, MasterStatus
  <2>4. BufferInv'
    BY <1>0, <1>1 DEF BufferInv
  <2>5. ProgressInv'
    BY <1>1, <1>2, <2>2, <2>3 DEF ProgressInv, Clean
  <2>. QED
    BY <1>0, <1>1, <1>2, <2>1, <2>3, <2>4, <2>5, ActiveStep DEF RecordInv
<1>4. CASE hw.doing \in {"listen", "answer"}
  <2>1. twi.state \in SlaveStates /\ Serving
    BY <1>4, ListeningForm
  <2>2. Serving' /\ pc \in {"idle", "waitReady"}
    BY <1>1, <1>2, <2>1 DEF Serving
  <2>3. twi \in TwiRecord /\ timed_out \in BOOLEAN
        /\ bus \in {"free", "us", "other", "addressed"}
    BY <1>0 DEF RecordInv
  <2>. QED
    BY <1>1, <1>2, <2>1, <2>2, <2>3, ServeStep
<1>. QED
  BY <1>1, <1>3, <1>4

LEMMA HwArbLostStep ==
  ASSUME MasterInv, HwArbLost
  PROVE  MasterInv'
<1>0. RecordInv /\ ProgressInv /\ BufferInv
  BY DEF MasterInv
<1>1. /\ hw.doing \in {"address", "send"}
      /\ UNCHANGED <<twi, locals, timeout, timed_out, expired, pc>>
      /\ UNCHANGED <<acked, nacked, given>>
  BY DEF HwArbLost, BusFrame, locals, master
<1>2. PICK s \in {"ARB_LOST", "SR_ARB_LOST", "ST_ARB_LOST"} :
        /\ Raise(s)
        /\ bus' = IF s = "ARB_LOST" THEN "other" ELSE "addressed"
  BY DEF HwArbLost
<1>3. Active /\ Moving /\ pc # "address" /\ ~twi.inRepStart
  BY <1>1, MovingForm
<1>4. Clean /\ twi.slarw = IF twi.state = "MRX" THEN TW_READ ELSE TW_WRITE
  BY <1>0, <1>3 DEF ProgressInv
<1>5. /\ hw' \in HwRecord /\ hw'.twint /\ hw'.status = s
      /\ hw'.doing = "held" /\ hw'.ie = hw.ie
  BY <1>0, <1>2, RaiseForm DEF RecordInv, MasterStatus, SlaveStatus
<1>6. /\ ~Moving' /\ ~Starting' /\ ~Between'
      /\ IF s = "ARB_LOST" THEN Held' ELSE Summoned' /\ ~Held'
  BY <1>1, <1>2, <1>3, <1>5
     DEF Held, Moving, Starting, Between, Summoned, Addressing, MasterStatus
<1>7. BufferInv'
  BY <1>0, <1>1 DEF BufferInv
<1>8. ProgressInv'
  BY <1>1, <1>4, <1>5, <1>6 DEF ProgressInv, Clean
<1>. QED
  BY <1>0, <1>1, <1>2, <1>3, <1>5, <1>6, <1>7, <1>8, ActiveStep DEF RecordInv

\* Another master takes the free bus, or gives it back.
LEMMA OtherStep ==
  ASSUME MasterInv, OtherStarts \/ OtherEnds
  PROVE  MasterInv'
<1>0. RecordInv /\ PhaseInv /\ ProgressInv /\ BufferInv
  BY DEF MasterInv
<1>1. /\ UNCHANGED <<hw, twi, locals, timeout, timed_out, expired, master>>
      /\ UNCHANGED <<acked, nacked, given, pc>>
      /\ bus' \in {"free", "other"} /\ bus # "us"
      /\ bus = "other" => hw.doing = "idle"
  BY <1>0 DEF OtherStarts, OtherEnds, BusFrame, locals, master, RecordInv
<1>2. CASE Active
  <2>1. ~Between /\ ~Moving /\ ~Between' /\ ~Moving'
    BY <1>1 DEF Between, Moving
  <2>2. ~Held
    BY <1>1 DEF Held
  <2>3. ~Held'
    <3>1. hw.doing # "held" \/ Summoned
      BY <1>0, <1>2, <2>1, <2>2 DEF PhaseInv, Starting, Stuck
    <3>. QED
      BY <1>1, <3>1 DEF Held, Summoned, Addressing, MasterStatus
  <2>4. /\ (Starting => Starting') /\ (Starting' => Starting) /\ (Stuck => Stuck')
        /\ (Summoned => Summoned')
    BY <1>1 DEF Starting, Stuck, Summoned
  <2>5. BufferInv'
    BY <1>0, <1>1 DEF BufferInv
  <2>6. (Fresh => Fresh') /\ (Clean => Clean')
    BY <1>1 DEF Fresh, Clean
  <2>7. ProgressInv'
    BY <1>0, <1>1, <1>2, <2>1, <2>3, <2>4, <2>6 DEF ProgressInv
  <2>8. (Starting \/ Stuck \/ Summoned) /\ pc # "address" /\ ~twi.inRepStart
    BY <1>0, <1>2, <2>1, <2>2 DEF PhaseInv
  <2>. QED
    BY <1>0, <1>1, <1>2, <2>4, <2>5, <2>7, <2>8, ActiveStep DEF RecordInv
<1>3. CASE ~Active /\ twi.state \notin SlaveStates
  <2>1. ~twi.inRepStart /\ (Quiet \/ Summoned)
    BY <1>0, <1>1, <1>3 DEF PhaseInv, Active, RecordInv, TwiRecord, Between
  <2>2. Quiet' \/ Summoned'
    BY <1>1, <2>1 DEF Quiet, Summoned
  <2>. QED
    BY <1>0, <1>1, <1>3, <2>1, <2>2, IdleStep DEF RecordInv
<1>4. CASE twi.state \in SlaveStates
  <2>1. Serving' /\ pc \in {"idle", "waitReady"}
    BY <1>0, <1>1, <1>4 DEF PhaseInv, Serving
  <2>2. twi \in TwiRecord /\ hw \in HwRecord /\ timed_out \in BOOLEAN
    BY <1>0 DEF RecordInv
  <2>. QED
    BY <1>1, <1>4, <2>1, <2>2, ServeStep
<1>. QED
  BY <1>2, <1>3, <1>4

\* Another master addresses this node.
LEMMA OtherAddressesStep ==
  ASSUME MasterInv, OtherAddresses
  PROVE  MasterInv'
<1>0. RecordInv /\ PhaseInv /\ BufferInv
  BY DEF MasterInv
<1>1. /\ UNCHANGED <<twi, locals, timeout, timed_out, expired, master>>
      /\ UNCHANGED <<acked, nacked, given, pc>>
      /\ bus = "other" /\ bus' = "addressed" /\ hw.doing = "idle"
  BY DEF OtherAddresses, BusFrame, locals, master
<1>2. PICK s \in {"SR_SLA_ACK", "ST_SLA_ACK"} : Raise(s)
  BY DEF OtherAddresses
<1>3. /\ hw' \in HwRecord /\ hw'.twint /\ hw'.status = s /\ hw'.doing = "held"
      /\ hw'.sta = hw.sta
  BY <1>0, <1>2, RaiseForm DEF RecordInv, SlaveStatus
<1>4. Summoned' /\ ~Starting' /\ ~Between' /\ ~Moving' /\ ~Held' /\ ~Between
  BY <1>1, <1>3
     DEF Summoned, Addressing, Starting, Between, Moving, Held, MasterStatus
<1>5. CASE Active
  <2>1. BufferInv'
    BY <1>0, <1>1 DEF BufferInv
  <2>2. ProgressInv'
    BY <1>0, <1>1, <1>4, <1>5 DEF MasterInv, ProgressInv
  <2>3. pc # "address" /\ ~twi.inRepStart
    BY <1>0, <1>4, <1>5 DEF PhaseInv
  <2>. QED
    BY <1>0, <1>1, <1>3, <1>4, <1>5, <2>1, <2>2, <2>3, ActiveStep DEF RecordInv
<1>6. CASE ~Active /\ twi.state \notin SlaveStates
  <2>1. ~twi.inRepStart
    BY <1>0, <1>4, <1>6 DEF PhaseInv, Active, RecordInv, TwiRecord
  <2>. QED
    BY <1>1, <1>3, <1>4, <1>6, <2>1, IdleStep
<1>7. CASE twi.state \in SlaveStates
  <2>1. Serving' /\ pc \in {"idle", "waitReady"}
    BY <1>0, <1>1, <1>3, <1>7 DEF PhaseInv, Serving, SlaveStatus
  <2>2. twi \in TwiRecord /\ timed_out \in BOOLEAN
    BY <1>0 DEF RecordInv
  <2>. QED
    BY <1>1, <1>3, <1>7, <2>1, <2>2, ServeStep
<1>. QED
  BY <1>5, <1>6, <1>7

\* It sends a byte, takes one, or ends.
LEMMA OtherServedStep ==
  ASSUME MasterInv, SlaveTypes, OtherSends \/ OtherStops \/ OtherTakes
  PROVE  MasterInv'
<1>0. RecordInv
  BY DEF MasterInv
<1>1. /\ UNCHANGED <<twi, locals, timeout, timed_out, expired, master, pc>>
      /\ bus' \in {bus, "free", "other"} /\ hw.doing \in {"listen", "answer"}
  BY DEF OtherSends, OtherStops, OtherTakes, BusFrame, locals
<1>2. twi.state \in SlaveStates /\ Serving
  BY <1>1, ListeningForm
<1>3. \/ \E s \in SlaveStatus : Raise(s)
      \/ RaiseWith("SR_DATA_ACK", Len(taken) + 1)
  BY DEF OtherSends, OtherStops, OtherTakes, SlaveStatus
<1>4. /\ hw' \in HwRecord /\ hw'.twint /\ hw'.status \in SlaveStatus
      /\ hw'.doing = "held" /\ hw'.sta = hw.sta
  <2>1. CASE \E s \in SlaveStatus : Raise(s)
    BY <1>0, <2>1, RaiseForm DEF RecordInv
  <2>2. CASE RaiseWith("SR_DATA_ACK", Len(taken) + 1)
    <3>1. Len(taken) + 1 \in Nat
      BY DEF SlaveTypes
    <3>. QED
      BY <1>0, <2>2, <3>1, RaiseWithForm DEF RecordInv, SlaveStatus
  <2>. QED
    BY <1>3, <2>1, <2>2
<1>5. Serving' /\ pc \in {"idle", "waitReady"}
  BY <1>1, <1>2, <1>4 DEF Serving
<1>6. /\ twi \in TwiRecord /\ timed_out \in BOOLEAN
      /\ bus' \in {"free", "us", "other", "addressed"}
  BY <1>0, <1>1 DEF RecordInv
<1>. QED
  BY <1>1, <1>2, <1>4, <1>5, <1>6, ServeStep

LEMMA BusStep ==
  ASSUME MasterInv, SlaveTypes, Bus \/ Intrusion
  PROVE  MasterInv'
BY HwStartStep, HwAddressStep, HwSendStep, HwReceiveStep, HwStopStep, HwBusErrorStep,
   HwArbLostStep, OtherStep, OtherAddressesStep, OtherServedStep DEF Bus, Intrusion

-----------------------------------------------------------------------------
(* The steps of the sketch.                                                *)

LEMMA CallStep ==
  ASSUME MasterInv, NEW c \in Calls, NEW n \in Lengths, Call(c, n)
  PROVE  MasterInv'
<1>0. MasterInv
  OBVIOUS
<1>1. /\ pc = "idle" /\ call' = c /\ len' = n /\ expired' = FALSE /\ data' = <<>>
      /\ IF n > BufLen THEN pc' = "idle" /\ ret' = IF c = "read" THEN 0 ELSE 1
                       ELSE pc' = "waitReady" /\ ret' = ret
      /\ UNCHANGED <<twi, hw, bus, timeout, timed_out, acked, nacked, given>>
  BY DEF Call, TooLong, CallFrame, master
<1>2. n \in Nat /\ BufLen \in Nat /\ c \in {"write", "read"} /\ 0 \in Nat /\ 1 \in Nat
  BY TwiAssumption
<1>3. expired' \in BOOLEAN
  BY <1>1
<1>4. RecordInv'
  BY <1>0, <1>1, <1>2, <1>3 DEF MasterInv, RecordInv
<1>5. PhaseInv'
  BY <1>0, <1>1 DEF MasterInv, PhaseInv, Active, Between, Quiet, Starting, Moving, Held,
     Stuck, Summoned, Serving
<1>6. CallInv' /\ BufferInv' /\ EndedInv'
  BY <1>0, <1>1, <1>2 DEF MasterInv, CallInv, BufferInv, EndedInv
<1>7. ProgressInv'
  BY <1>0, <1>1 DEF MasterInv, ProgressInv, Active, Fresh, Clean, Between, Starting,
     Moving, Held
<1>8. TruthInv'
  <2>1. Positions(0) = <<>>
    BY DEF Positions
  <2>. QED
    BY <1>1, <1>2, <2>1 DEF TruthInv, WriteTruthful, ReadTruthful
<1>. QED
  BY <1>4, <1>5, <1>6, <1>7, <1>8 DEF MasterInv

LEMMA WaitReadyStep ==
  ASSUME MasterInv, WaitReady
  PROVE  MasterInv'
<1>0. MasterInv
  OBVIOUS
<1>1. /\ pc = "waitReady" /\ twi.state = "READY" /\ pc' = "claim"
      /\ UNCHANGED <<call, len, data, ret, twi, hw, bus, timeout, timed_out, expired>>
      /\ UNCHANGED <<acked, nacked, given>>
  BY DEF WaitReady, Goto, CallFrame, master
<1>2. RecordInv' /\ CallInv' /\ BufferInv' /\ EndedInv' /\ TruthInv'
  BY <1>0, <1>1 DEF MasterInv, RecordInv, CallInv, BufferInv, EndedInv, TruthInv,
     WriteTruthful, ReadTruthful
<1>3. PhaseInv'
  BY <1>0, <1>1
     DEF MasterInv, PhaseInv, Active, MasterStates, SlaveStates, Between, Quiet, Summoned
<1>4. ProgressInv'
  BY <1>1 DEF ProgressInv, Active, MasterStates
<1>. QED
  BY <1>2, <1>3, <1>4 DEF MasterInv

LEMMA ClaimStep ==
  ASSUME MasterInv, Claim
  PROVE  MasterInv'
<1>0. MasterInv
  OBVIOUS
<1>1. /\ pc = "claim" /\ pc' = "prepare" /\ twi' = [twi EXCEPT !.state = MasterState]
      /\ UNCHANGED <<call, len, data, ret, hw, bus, timeout, timed_out, expired>>
      /\ UNCHANGED <<acked, nacked, given>>
  BY DEF Claim, Goto, CallFrame, master
<1>2. MasterState \in MasterStates
  BY DEF MasterState, MasterStates
<1>3. /\ twi' \in TwiRecord /\ twi'.state = MasterState
      /\ twi'.inRepStart = twi.inRepStart /\ twi'.slarw = twi.slarw
      /\ twi'.masterIndex = twi.masterIndex /\ twi'.masterLength = twi.masterLength
      /\ twi'.masterBuffer = twi.masterBuffer
  BY <1>0, <1>1, <1>2 DEF MasterInv, RecordInv, TwiRecord
<1>4. RecordInv' /\ CallInv' /\ BufferInv' /\ EndedInv' /\ TruthInv'
  BY <1>0, <1>1, <1>3 DEF MasterInv, RecordInv, CallInv, BufferInv, EndedInv, TruthInv,
     WriteTruthful, ReadTruthful
<1>5. PhaseInv'
  BY <1>0, <1>1, <1>3
     DEF MasterInv, PhaseInv, Active, MasterState, SlaveStates, Between, Quiet, Summoned
<1>6. ProgressInv'
  BY <1>1 DEF ProgressInv, Active
<1>. QED
  BY <1>4, <1>5, <1>6 DEF MasterInv

\* What a call writes before it starts.
LEMMA PreparedForm ==
  ASSUME MasterInv, pc = "prepare", NEW stop \in BOOLEAN, NEW d, d = Prepared(stop)
  PROVE  /\ d \in TwiRecord /\ d.state = twi.state /\ d.inRepStart = twi.inRepStart
         /\ d.error = "none" /\ d.masterIndex = 0
         /\ d.slarw = IF call = "read" THEN TW_READ ELSE TW_WRITE
         /\ d.masterLength = IF call = "read" THEN (len - 1) % Byte ELSE len
         /\ call # "read" =>
              \A j \in Index : j < len => d.masterBuffer[j] = j + 1
<1>1. /\ twi \in TwiRecord /\ len \in 0 .. Byte - 1 /\ BufLen \in Nat /\ Byte \in Nat \ {0}
  BY TwiAssumption DEF MasterInv, RecordInv, CallInv
<1>. DEFINE length == IF call = "read" THEN (len - 1) % Byte ELSE len
            buffer == IF call = "read" THEN twi.masterBuffer
                      ELSE [i \in Index |-> IF i < len THEN i + 1 ELSE twi.masterBuffer[i]]
            address == IF call = "read" THEN TW_READ ELSE TW_WRITE
<1>2. length \in 0 .. Byte - 1
  <2>1. (len - 1) % Byte \in 0 .. Byte - 1
    BY <1>1
  <2>. QED
    BY <1>1, <2>1
<1>3. /\ buffer \in [Index -> Nat]
      /\ call # "read" => \A j \in Index : j < len => buffer[j] = j + 1
  <2>1. twi.masterBuffer \in [Index -> Nat] /\ \A j \in Index : j \in Nat /\ j + 1 \in Nat
    BY <1>1 DEF TwiRecord, Index
  <2>. QED
    BY <2>1
<1>4. address \in {TW_READ, TW_WRITE}
  OBVIOUS
<1>5. d = [twi EXCEPT !.sendStop = stop, !.error = "none", !.masterIndex = 0,
                      !.masterLength = length, !.masterBuffer = buffer,
                      !.slarw = address]
  BY DEF Prepared
<1>. HIDE DEF length, buffer, address
<1>6. /\ d \in TwiRecord /\ d.state = twi.state /\ d.inRepStart = twi.inRepStart
      /\ d.error = "none" /\ d.masterIndex = 0 /\ d.slarw = address
      /\ d.masterLength = length /\ d.masterBuffer = buffer
  <2>. DEFINE e == [twi EXCEPT !.sendStop = stop, !.error = "none", !.masterIndex = 0]
  <2>1. d = [e EXCEPT !.masterLength = length, !.masterBuffer = buffer,
                      !.slarw = address]
    BY <1>1, <1>5 DEF TwiRecord
  <2>2. /\ e \in TwiRecord /\ e.state = twi.state /\ e.inRepStart = twi.inRepStart
        /\ e.error = "none" /\ e.masterIndex = 0
    BY <1>1 DEF TwiRecord
  <2>. HIDE DEF e
  <2>. QED
    BY <1>2, <1>3, <1>4, <2>1, <2>2 DEF TwiRecord
<1>. QED
  BY <1>3, <1>6 DEF length, address

LEMMA PrepareStep ==
  ASSUME MasterInv, Alone, Prepare
  PROVE  MasterInv'
<1>0. MasterInv
  OBVIOUS
<1>1. /\ pc = "prepare"
      /\ UNCHANGED <<call, len, data, ret, bus, timeout, timed_out, expired>>
      /\ acked' = <<>> /\ nacked' = "none" /\ given' = 0
  BY DEF Prepare, Goto, CallFrame
<1>2. PICK stop \in BOOLEAN :
        IF twi.inRepStart
        THEN /\ twi' = [Prepared(stop) EXCEPT !.inRepStart = FALSE]
             /\ pc' = "address" /\ hw' = hw
        ELSE /\ twi' = Prepared(stop) /\ pc' = "wait"
             /\ hw' = Twcr(TRUE, FALSE, TRUE, TRUE)
  BY DEF Prepare, Goto
<1>. DEFINE d == Prepared(stop)
<1>3. /\ d \in TwiRecord /\ d.state = twi.state /\ d.inRepStart = twi.inRepStart
      /\ d.error = "none" /\ d.masterIndex = 0
      /\ d.slarw = IF call = "read" THEN TW_READ ELSE TW_WRITE
      /\ d.masterLength = IF call = "read" THEN (len - 1) % Byte ELSE len
      /\ call # "read" => \A j \in Index : j < len => d.masterBuffer[j] = j + 1
  BY <1>1, PreparedForm
<1>4. twi' = IF twi.inRepStart THEN [d EXCEPT !.inRepStart = FALSE] ELSE d
  BY <1>2
<1>. HIDE DEF d
<1>5. /\ twi' \in TwiRecord /\ twi'.state = twi.state /\ ~twi'.inRepStart
      /\ twi'.error = "none" /\ twi'.masterIndex = 0
      /\ twi'.slarw = d.slarw /\ twi'.masterLength = d.masterLength
      /\ twi'.masterBuffer = d.masterBuffer
  BY <1>3, <1>4 DEF TwiRecord
<1>6. /\ call \in Calls /\ call \in {"write", "read"} /\ len \in Lengths /\ len <= BufLen
      /\ len \in 0 .. Byte - 1 /\ BufLen \in Nat \ {0} /\ Byte \in Nat /\ Byte > BufLen
      /\ twi.state = MasterState /\ TW_READ # TW_WRITE
  BY <1>0, <1>1, TwiAssumption
     DEF MasterInv, RecordInv, CallInv, PhaseInv, TW_READ, TW_WRITE
<1>7. /\ hw' \in HwRecord /\ (Starting' \/ Between')
      /\ pc' = "address" => Between'
      /\ pc' \in {"address", "wait"}
  <2>1. CASE twi.inRepStart
    BY <1>0, <1>1, <1>2, <2>1 DEF MasterInv, RecordInv, PhaseInv, Between
  <2>2. CASE ~twi.inRepStart
    <3>1. Quiet /\ hw \in HwRecord /\ hw' = Twcr(TRUE, FALSE, TRUE, TRUE)
      BY <1>0, <1>1, <1>2, <2>2 DEF MasterInv, RecordInv, PhaseInv, Summoned, Alone
    <3>2. LET h == Twcr(TRUE, FALSE, TRUE, TRUE) IN
          /\ h \in HwRecord /\ ~h.twint /\ h.sta = TRUE /\ h.ie = TRUE
          /\ h.doing = IF hw.twint THEN Resume(hw.status, TRUE, FALSE) ELSE hw.doing
      <4>1. ~hw.twint
        BY <3>1 DEF Quiet
      <4>. QED
        BY <3>1, <4>1, TwcrForm, Zenon
    <3>3. Starting'
      BY <1>1, <3>1, <3>2 DEF Quiet, Starting
    <3>. QED
      BY <1>2, <2>2, <3>1, <3>2, <3>3
  <2>. QED
    BY <2>1, <2>2
<1>8. acked' \in Seq(Nat) /\ Len(acked') = 0 /\ given' \in Nat
  BY <1>1
<1>9. RecordInv'
  BY <1>0, <1>1, <1>5, <1>7, <1>8 DEF MasterInv, RecordInv
<1>10. PhaseInv'
  BY <1>1, <1>5, <1>6, <1>7
     DEF PhaseInv, MasterState, Active, MasterStates, SlaveStates
<1>11. CallInv'
  BY <1>1, <1>3, <1>5, <1>6 DEF CallInv
<1>12. BufferInv'
  <2>1. CASE call = "read" /\ len = 0
    <3>1. (0 - 1) % Byte = Byte - 1
      BY <1>6
    <3>. QED
      BY <1>3, <1>5, <1>6, <2>1, <3>1 DEF BufferInv, ZeroRead, Index
  <2>2. CASE call = "read" /\ len # 0
    <3>1. (len - 1) % Byte = len - 1
      BY <1>6, <2>2
    <3>. QED
      BY <1>3, <1>5, <1>6, <2>2, <3>1 DEF BufferInv, Index
  <2>3. CASE call # "read"
    BY <1>3, <1>5, <1>6, <1>8, <2>3 DEF BufferInv
  <2>. QED
    BY <2>1, <2>2, <2>3
<1>13. ProgressInv'
  <2>1. ~Moving' /\ ~Held' /\ Fresh' /\ Clean'
    BY <1>1, <1>5, <1>7 DEF Moving, Held, Fresh, Clean, Starting, Between
  <2>2. twi'.slarw = IF twi'.state = "MRX" THEN TW_READ ELSE TW_WRITE
    BY <1>3, <1>5, <1>6 DEF MasterState
  <2>. QED
    BY <2>1, <2>2 DEF ProgressInv
<1>14. EndedInv' /\ TruthInv'
  BY <1>5, <1>6, <1>7 DEF EndedInv, TruthInv, WriteTruthful, ReadTruthful, MasterState
<1>. QED
  BY <1>9, <1>10, <1>11, <1>12, <1>13, <1>14 DEF MasterInv

LEMMA AddressStep ==
  ASSUME MasterInv, Address
  PROVE  MasterInv'
<1>0. MasterInv
  OBVIOUS
<1>. DEFINE h == Twcr(FALSE, FALSE, TRUE, TRUE)
<1>1. /\ pc = "address" /\ hw.twint /\ pc' = "wait" /\ hw' = [h EXCEPT !.dr = twi.slarw]
      /\ UNCHANGED <<call, len, data, ret, twi, bus, timeout, timed_out, expired>>
      /\ UNCHANGED <<acked, nacked, given>>
  BY DEF Address, Goto, CallFrame, master
<1>2. /\ Between /\ hw.status = "REP_START" /\ bus = "us" /\ hw \in HwRecord
      /\ twi.state = MasterState /\ Active /\ twi.slarw \in Nat
  BY <1>0, <1>1 DEF MasterInv, PhaseInv, RecordInv, Between, Active, MasterState,
     MasterStates, TwiRecord, TW_READ, TW_WRITE
<1>3. Resume(hw.status, FALSE, FALSE) = "address"
  BY <1>2 DEF Resume
<1>4. /\ h \in HwRecord /\ ~h.twint /\ h.sta = FALSE /\ h.ie = TRUE
      /\ h.doing = IF hw.twint THEN Resume(hw.status, FALSE, FALSE) ELSE hw.doing
  BY <1>2, TwcrForm, Zenon
<1>. HIDE DEF h
<1>5. /\ hw' \in HwRecord /\ hw'.doing = "address" /\ hw'.dr = twi.slarw
      /\ ~hw'.twint /\ ~hw'.sta /\ hw'.ie
  BY <1>1, <1>2, <1>3, <1>4 DEF HwRecord
<1>6. Moving' /\ ~Starting' /\ ~Between' /\ ~Held'
  BY <1>1, <1>2, <1>5 DEF Moving, Starting, Between, Held
<1>7. /\ Fresh /\ Clean /\ ~twi.inRepStart
      /\ twi.slarw = IF twi.state = "MRX" THEN TW_READ ELSE TW_WRITE
  BY <1>0, <1>2 DEF MasterInv, ProgressInv, PhaseInv
<1>8. RecordInv'
  BY <1>0, <1>1, <1>5 DEF MasterInv, RecordInv
<1>9. PhaseInv'
  BY <1>1, <1>2, <1>6, <1>7
     DEF PhaseInv, Active, MasterState, MasterStates, SlaveStates
<1>10. CallInv' /\ BufferInv'
  BY <1>0, <1>1 DEF MasterInv, CallInv, BufferInv
<1>11. ProgressInv'
  BY <1>1, <1>5, <1>6, <1>7 DEF ProgressInv, Fresh, Clean
<1>12. EndedInv' /\ TruthInv'
  BY <1>1, <1>2 DEF EndedInv, TruthInv, WriteTruthful, ReadTruthful, MasterState
<1>. QED
  BY <1>8, <1>9, <1>10, <1>11, <1>12 DEF MasterInv

LEMMA WaitStep ==
  ASSUME MasterInv, Wait
  PROVE  MasterInv'
<1>0. MasterInv
  OBVIOUS
<1>1. /\ pc = "wait" /\ pc' = "result" /\ twi.state # MasterState
      /\ UNCHANGED <<call, len, data, ret, twi, hw, bus, timeout, timed_out, expired>>
      /\ UNCHANGED <<acked, nacked, given>>
  BY DEF Wait, Goto, CallFrame, master
<1>2. twi.state = "READY" /\ Ended
  BY <1>0, <1>1 DEF MasterInv, PhaseInv, EndedInv
<1>3. RecordInv' /\ CallInv' /\ BufferInv' /\ EndedInv' /\ TruthInv'
  BY <1>0, <1>1, <1>2 DEF MasterInv, RecordInv, CallInv, BufferInv, EndedInv, Ended,
     TruthInv, WriteTruthful, ReadTruthful
<1>4. PhaseInv'
  BY <1>0, <1>1, <1>2
     DEF MasterInv, PhaseInv, Active, MasterStates, SlaveStates, Between, Quiet, Summoned
<1>5. ProgressInv'
  BY <1>1, <1>2 DEF ProgressInv, Active, MasterStates
<1>. QED
  BY <1>3, <1>4, <1>5 DEF MasterInv

\* The code is returned for what happened, and the bytes read are those sent.
LEMMA ResultStep ==
  ASSUME MasterInv, Result
  PROVE  MasterInv'
<1>0. MasterInv
  OBVIOUS
<1>1. /\ pc = "result" /\ pc' = "idle"
      /\ UNCHANGED <<call, len, twi, hw, bus, timeout, timed_out, expired>>
      /\ UNCHANGED <<acked, nacked, given>>
      /\ call = "read" => /\ ret' = ReadLength
                          /\ data' = Prefix(twi.masterBuffer, ReadLength)
      /\ call # "read" => ret' = ResultCode(twi.error)
  BY DEF Result, Return, CallFrame, master
<1>2. /\ twi.state = "READY" /\ Ended /\ TW_READ # TW_WRITE /\ len \in Nat
      /\ call = "read" => twi.slarw = TW_READ /\ twi.masterLength = (len - 1) % Byte
      /\ call # "read" => twi.slarw = TW_WRITE /\ twi.masterLength = len
      /\ BufLen \in Nat /\ Byte \in Nat /\ BufLen < Byte /\ len <= BufLen
      /\ twi.masterIndex \in Nat /\ call \in {"read", "write"} /\ acked \in Seq(Nat)
  BY <1>0, <1>1, TwiAssumption DEF MasterInv, PhaseInv, EndedInv, CallInv, RecordInv,
     TwiRecord, TW_READ, TW_WRITE
<1>3. ret' \in Nat
  BY <1>1, <1>2 DEF ReadLength, ResultCode
<1>4. RecordInv'
  BY <1>0, <1>1, <1>3 DEF MasterInv, RecordInv
<1>5. PhaseInv'
  BY <1>0, <1>1, <1>2
     DEF MasterInv, PhaseInv, Active, MasterStates, SlaveStates, Between, Quiet, Summoned
<1>6. CallInv' /\ BufferInv' /\ EndedInv'
  BY <1>0, <1>1 DEF MasterInv, CallInv, BufferInv, EndedInv
<1>7. ProgressInv'
  BY <1>1, <1>2 DEF ProgressInv, Active, MasterStates
<1>8. TruthInv'
  <2>1. CASE call = "write"
    <3>1. /\ ret' = 0 => twi.error = "none"
          /\ ret' = 2 => twi.error = "MT_SLA_NACK"
          /\ ret' = 3 => twi.error = "MT_DATA_NACK"
      BY <1>1, <2>1 DEF ResultCode
    <3>2. twi.error = "none" => nacked = "none" /\ acked = Positions(len)
      <4>1. twi.error = "none" => nacked = "none" /\ Len(acked) = len
        BY <1>2, <2>1 DEF Ended
      <4>2. \A k \in 1 .. Len(acked) : acked[k] = k
        BY <1>0, <1>2, <2>1 DEF MasterInv, BufferInv
      <4>. QED
        BY <1>2, <4>1, <4>2 DEF Positions
    <3>3. /\ twi.error = "MT_SLA_NACK" => nacked = "address"
          /\ twi.error = "MT_DATA_NACK" => nacked = "data"
      BY <1>2, <2>1 DEF Ended
    <3>. QED
      BY <1>1, <1>2, <2>1, <3>1, <3>2, <3>3
         DEF TruthInv, WriteTruthful, ReadTruthful, MasterStates
  <2>2. CASE call = "read"
    <3>. DEFINE n == ReadLength
    <3>1. /\ n \in Nat /\ n <= len /\ n <= twi.masterIndex /\ n <= BufLen
          /\ n < len => n = twi.masterIndex
          /\ ret' = n /\ data' = Prefix(twi.masterBuffer, n)
      BY <1>1, <1>2, <2>2 DEF ReadLength
    <3>. HIDE DEF n
    <3>2. \A k \in 1 .. n : twi.masterBuffer[k - 1] = k
      <4>1. \A j \in Index : j < twi.masterIndex => twi.masterBuffer[j] = j + 1
        BY <1>0, <1>2, <2>2 DEF MasterInv, BufferInv
      <4>2. \A k \in 1 .. n : k - 1 \in Index /\ k - 1 < twi.masterIndex /\ (k - 1) + 1 = k
        BY <1>2, <3>1 DEF Index
      <4>. QED
        BY <4>1, <4>2
    <3>3. Prefix(twi.masterBuffer, n) = Positions(n)
      BY <3>2 DEF Prefix, Positions
    <3>4. n < len => nacked # "none" \/ twi.error # "none"
      <4>. SUFFICES ASSUME n < len, nacked = "none", twi.error = "none"
                    PROVE  FALSE
        OBVIOUS
      <4>1. twi.masterIndex = twi.masterLength + 1
        BY <1>2, <2>2 DEF Ended
      <4>2. (len - 1) % Byte = len - 1
        <5>1. len - 1 \in 0 .. Byte - 1 /\ Byte \in Nat /\ Byte > 0
          BY <1>2, <3>1
        <5>. DEFINE last == len - 1
        <5>2. last \in 0 .. Byte - 1
          BY <5>1
        <5>. HIDE DEF last
        <5>3. last % Byte = last
          BY <5>1, <5>2
        <5>. QED
          BY <5>3 DEF last
      <4>. QED
        BY <1>2, <2>2, <3>1, <4>1, <4>2
    <3>. QED
      BY <1>1, <1>2, <2>2, <3>1, <3>3, <3>4
         DEF TruthInv, WriteTruthful, ReadTruthful, MasterStates
  <2>. QED
    BY <1>2, <2>1, <2>2
<1>. QED
  BY <1>4, <1>5, <1>6, <1>7, <1>8 DEF MasterInv

LEMMA GiveUpStep ==
  ASSUME MasterInv, GiveUp
  PROVE  MasterInv'
<1>0. MasterInv
  OBVIOUS
<1>1. /\ pc \in {"waitReady", "address", "wait"} /\ pc' = "idle" /\ expired' = TRUE
      /\ ret' = (IF call = "read" THEN 0 ELSE 5) /\ data' = <<>>
      /\ UNCHANGED <<call, len, timeout, acked, nacked, given>>
      /\ HandleTimeout(twi, hw)
  BY DEF GiveUp, Return, CallFrame, master
<1>2. twi \in TwiRecord /\ RecordInv
  BY <1>0 DEF MasterInv, RecordInv
<1>3. expired' \in BOOLEAN /\ ret' \in Nat
  BY <1>1
<1>4. TruthInv'
  <2>1. Positions(0) = <<>>
    BY DEF Positions
  <2>. QED
    BY <1>1, <1>2, <2>1 DEF TruthInv, WriteTruthful, ReadTruthful, RecordInv
<1>5. EndedInv'
  BY <1>1 DEF EndedInv
<1>6. CASE timeout.reset
  <2>1. /\ Outcome(twi) /\ twi'.state = "READY" /\ ~twi'.inRepStart /\ Quiet'
    BY <1>1, <1>2, <1>6, InitDriverForm DEF HandleTimeout
  <2>2. RecordInv'
    BY <1>1, <1>2, <1>3, <2>1 DEF RecordInv, Outcome
  <2>3. PhaseInv' /\ ProgressInv'
    BY <1>1, <2>1 DEF PhaseInv, ProgressInv, Active, MasterStates, SlaveStates
  <2>4. CallInv' /\ BufferInv'
    BY <1>0, <1>1, <2>1 DEF MasterInv, CallInv, BufferInv, Outcome
  <2>. QED
    BY <1>4, <1>5, <2>2, <2>3, <2>4 DEF MasterInv
<1>7. CASE ~timeout.reset
  <2>1. twi' = twi /\ hw' = hw /\ bus' = bus /\ timed_out' = TRUE
    BY <1>1, <1>7 DEF HandleTimeout
  <2>2. timed_out' \in BOOLEAN
    BY <2>1
  <2>3. RecordInv'
    BY <1>1, <1>2, <1>3, <2>1, <2>2 DEF RecordInv
  <2>4. PhaseInv'
    BY <1>0, <1>1, <2>1 DEF MasterInv, PhaseInv, Active, Between, Quiet, Starting,
       Moving, Held, Stuck, Summoned, Serving
  <2>5. CallInv' /\ BufferInv'
    BY <1>0, <1>1, <2>1 DEF MasterInv, CallInv, BufferInv
  <2>6. ProgressInv'
    BY <1>0, <1>1, <2>1 DEF MasterInv, ProgressInv, Active, Fresh, Clean, Between,
       Starting, Moving, Held
  <2>. QED
    BY <1>4, <1>5, <2>3, <2>4, <2>5, <2>6 DEF MasterInv
<1>. QED
  BY <1>6, <1>7

LEMMA SetTimeoutStep ==
  ASSUME MasterInv, NEW s \in Timeouts, SetTimeout(s)
  PROVE  MasterInv'
<1>0. MasterInv
  OBVIOUS
<1>1. /\ timeout' = s /\ timed_out' = FALSE
      /\ UNCHANGED <<pc, call, len, data, ret, twi, hw, bus, expired>>
      /\ UNCHANGED <<acked, nacked, given>>
  BY DEF SetTimeout, locals, master
<1>2. timed_out' \in BOOLEAN /\ s \in TimeoutSettings
  BY <1>1, TwiAssumption
<1>3. RecordInv'
  BY <1>0, <1>1, <1>2 DEF MasterInv, RecordInv
<1>4. PhaseInv'
  BY <1>0, <1>1 DEF MasterInv, PhaseInv, MasterState, Active, Between, Quiet, Starting,
     Moving, Held, Stuck, Summoned, Serving
<1>5. CallInv' /\ BufferInv' /\ EndedInv' /\ TruthInv'
  BY <1>0, <1>1 DEF MasterInv, CallInv, BufferInv, EndedInv, Ended, TruthInv,
     WriteTruthful, ReadTruthful
<1>6. ProgressInv'
  BY <1>0, <1>1 DEF MasterInv, ProgressInv, Active, Fresh, Clean, Between, Starting,
     Moving, Held
<1>. QED
  BY <1>3, <1>4, <1>5, <1>6 DEF MasterInv

-----------------------------------------------------------------------------
(* What leaves the slave's side alone.                                     *)

SlaveKept ==
  /\ SlavePart(twi') = SlavePart(twi) /\ UNCHANGED slave
  /\ hw'.doing \in {"listen", "answer"} => hw' = hw
  /\ hw'.twint /\ hw'.status \in SlaveStatus =>
       hw.twint /\ hw'.status = hw.status /\ hw'.dr = hw.dr

LEMMA KeptStep ==
  ASSUME SlaveInv, SlaveKept
  PROVE  SlaveInv'
<1>1. /\ UNCHANGED <<taken, replied, delivered, supplied>>
      /\ twi'.rxIndex = twi.rxIndex /\ twi'.rxBuffer = twi.rxBuffer
      /\ twi'.txIndex = twi.txIndex /\ twi'.txLength = twi.txLength
      /\ twi'.txBuffer = twi.txBuffer
  BY DEF SlaveKept, slave, SlavePart
<1>2. SlaveTypes' /\ BytesInv' /\ SlaveTruthful'
  BY <1>1 DEF SlaveInv, SlaveTypes, BytesInv, SlaveTruthful
<1>3. ListenInv'
  BY <1>1 DEF SlaveKept, SlaveInv, ListenInv, Stored, SlaveStatus
<1>4. AnswerInv'
  BY <1>1 DEF SlaveKept, SlaveInv, AnswerInv, Loaded, SlaveStatus
<1>. QED
  BY <1>2, <1>3, <1>4 DEF SlaveInv

\* The endings of a transfer of this node's own, and a bus error in any.
LEMMA EndKept ==
  ASSUME RecordInv, hw.twint, hw.status \in MasterStatus, NEW d \in TwiRecord,
         Stop(d) \/ RepStart(d) \/ (ReleaseBus(d) /\ hw.status = "ARB_LOST")
  PROVE  SlavePart(twi') = SlavePart(d) /\ ~hw'.twint /\ hw'.doing \in {"idle", "stop"}
<1>1. /\ hw \in HwRecord /\ hw.status \notin SlaveStatus
      /\ Resume(hw.status, FALSE, TRUE) = "idle" /\ Resume(hw.status, TRUE, FALSE) = "idle"
  BY DEF RecordInv, MasterStatus, SlaveStatus, Resume
<1>. DEFINE stopped == Twcr(FALSE, TRUE, TRUE, TRUE)
            started == Twcr(TRUE, FALSE, FALSE, FALSE)
            released == Twcr(FALSE, FALSE, TRUE, TRUE)
<1>2. stopped \in HwRecord /\ ~stopped.twint /\ stopped.doing = "idle"
  <2>1. /\ stopped \in HwRecord /\ ~stopped.twint
        /\ stopped.doing = IF hw.twint THEN Resume(hw.status, FALSE, TRUE) ELSE hw.doing
    BY <1>1, TwcrForm, Zenon
  <2>. QED
    BY <1>1, <2>1
<1>3. ~started.twint /\ started.doing = "idle"
  <2>1. /\ ~started.twint
        /\ started.doing = IF hw.twint THEN Resume(hw.status, TRUE, FALSE) ELSE hw.doing
    BY <1>1, TwcrForm, Zenon
  <2>. QED
    BY <1>1, <2>1
<1>4. /\ ~released.twint
      /\ released.doing = IF hw.twint THEN Resume(hw.status, FALSE, FALSE) ELSE hw.doing
  BY <1>1, TwcrForm, Zenon
<1>5. InitHw.doing = "idle" /\ ~InitHw.twint
  BY <1>1 DEF InitHw, HwRecord
<1>. HIDE DEF stopped, started, released
<1>6. CASE Stop(d)
  <2>1. /\ twi' \in {d, [d EXCEPT !.state = "READY"], InitDriver(d)}
        /\ hw' \in {stopped, [stopped EXCEPT !.doing = "stop"], InitHw}
    BY <1>6 DEF Stop, StopDone, StopStuck, HandleTimeout, stopped
  <2>2. SlavePart(twi') = SlavePart(d)
    BY <2>1 DEF InitDriver, TwiRecord, SlavePart
  <2>3. ~hw'.twint /\ hw'.doing \in {"idle", "stop"}
    BY <1>2, <1>5, <2>1 DEF HwRecord
  <2>. QED
    BY <2>2, <2>3
<1>7. CASE RepStart(d)
  <2>1. twi' = [d EXCEPT !.inRepStart = TRUE, !.state = "READY"] /\ hw' = started
    BY <1>7 DEF RepStart, started
  <2>. QED
    BY <1>3, <2>1 DEF TwiRecord, SlavePart
<1>8. CASE ReleaseBus(d) /\ hw.status = "ARB_LOST"
  <2>1. twi' = [d EXCEPT !.state = "READY"] /\ hw' = released
    BY <1>8 DEF ReleaseBus, released
  <2>2. SlavePart(twi') = SlavePart(d)
    BY <2>1 DEF TwiRecord, SlavePart
  <2>3. Resume(hw.status, FALSE, FALSE) = "idle"
    BY <1>8 DEF Resume
  <2>4. hw'.doing = "idle" /\ ~hw'.twint
    BY <1>4, <2>1, <2>3
  <2>. QED
    BY <2>2, <2>4
<1>. QED
  BY <1>6, <1>7, <1>8

\* The handler in this node's own transfers.
LEMMA HandlerKept ==
  ASSUME RecordInv, Handler, hw.status \in MasterStatus
  PROVE  SlaveKept
<1>1. /\ hw.twint /\ hw \in HwRecord /\ twi \in TwiRecord /\ hw.dr \in Nat
      /\ hw.status \notin SlaveStatus
  BY DEF Handler, IsrStart, IsrMasterSend, IsrMasterNack, IsrArbLost, IsrMasterReceive,
     IsrMasterLast, IsrReadNack, IsrSlaveAddressed, IsrSlaveData, IsrSlaveStop,
     IsrSlaveNack, IsrSlaveRequest, IsrSlaveSent, IsrSlaveDone, IsrBusError, Interrupt,
     RecordInv, HwRecord, MasterStatus, SlaveStatus
<1>2. Resume(hw.status, FALSE, FALSE) \notin {"listen", "answer"}
  BY <1>1 DEF Resume, SlaveStatus
<1>3. /\ Received \in TwiRecord /\ SlavePart(Received) = SlavePart(twi)
      /\ \A e \in MasterStatus : /\ [twi EXCEPT !.error = e] \in TwiRecord
                                /\ SlavePart([twi EXCEPT !.error = e]) = SlavePart(twi)
  <2>1. Received \in TwiRecord
    BY ReceivedForm
  <2>2. SlavePart(Received) = SlavePart(twi)
    BY <1>1 DEF Received, SlavePart, TwiRecord
  <2>. QED
    BY <1>1, <2>1, <2>2 DEF SlavePart, TwiRecord
<1>4. \/ \E d \in TwiRecord :
           /\ SlavePart(d) = SlavePart(twi)
           /\ Stop(d) \/ RepStart(d) \/ (ReleaseBus(d) /\ hw.status = "ARB_LOST")
      \/ /\ SlavePart(twi') = SlavePart(twi)
         /\ \E ack \in BOOLEAN : hw' = Reply(ack) \/ \E b : hw' = ReplyWith(ack, b)
  <2>1. CASE IsrStart
    BY <2>1 DEF IsrStart
  <2>2. CASE IsrMasterSend
    <3>1. CASE twi.masterIndex < twi.masterLength
      <4>. DEFINE b == twi.masterBuffer[twi.masterIndex]
      <4>1. hw' = ReplyWith(TRUE, b) /\ twi' = [twi EXCEPT !.masterIndex = @ + 1]
        BY <2>2, <3>1 DEF IsrMasterSend
      <4>2. SlavePart(twi') = SlavePart(twi)
        BY <1>1, <4>1 DEF SlavePart, TwiRecord
      <4>. HIDE DEF b
      <4>. QED
        BY <4>1, <4>2
    <3>2. CASE ~(twi.masterIndex < twi.masterLength)
      BY <1>1, <2>2, <3>2 DEF IsrMasterSend, EndTransfer
    <3>. QED
      BY <3>1, <3>2
  <2>3. CASE IsrMasterNack \/ IsrBusError \/ IsrArbLost
    <3>1. \E e \in MasterStatus :
            \/ Stop([twi EXCEPT !.error = e])
            \/ ReleaseBus([twi EXCEPT !.error = e]) /\ hw.status = "ARB_LOST"
      BY <2>3 DEF IsrMasterNack, IsrBusError, IsrArbLost, NackError, Interrupt,
         MasterStatus
    <3>. QED
      BY <1>3, <3>1
  <2>4. CASE IsrMasterReceive
    <3>1. twi' \in {twi, Received} /\ hw' = Reply(MoreExpected(twi'))
      BY <2>4 DEF IsrMasterReceive
    <3>2. MoreExpected(twi') \in BOOLEAN
      BY DEF MoreExpected
    <3>. QED
      BY <1>3, <3>1, <3>2
  <2>5. CASE IsrMasterLast
    BY <1>3, <2>5 DEF IsrMasterLast, EndTransfer
  <2>6. CASE IsrReadNack
    BY <1>1, <2>6 DEF IsrReadNack
  <2>. QED
    BY <1>1, <2>1, <2>2, <2>3, <2>4, <2>5, <2>6
       DEF Handler, IsrSlaveAddressed, IsrSlaveData, IsrSlaveStop, IsrSlaveNack,
       IsrSlaveRequest, IsrSlaveSent, IsrSlaveDone, Interrupt, SlaveStatus
<1>5. /\ SlavePart(twi') = SlavePart(twi)
      /\ ~hw'.twint /\ hw'.doing \notin {"listen", "answer"}
  <2>1. ASSUME NEW d \in TwiRecord, SlavePart(d) = SlavePart(twi),
               Stop(d) \/ RepStart(d) \/ (ReleaseBus(d) /\ hw.status = "ARB_LOST")
        PROVE  /\ SlavePart(twi') = SlavePart(twi)
               /\ ~hw'.twint /\ hw'.doing \notin {"listen", "answer"}
    BY <1>1, <2>1, EndKept
  <2>2. ASSUME NEW ack \in BOOLEAN,
               hw' = Reply(ack) \/ \E b : hw' = ReplyWith(ack, b)
        PROVE  ~hw'.twint /\ hw'.doing \notin {"listen", "answer"}
    <3>1. /\ Reply(ack) \in HwRecord /\ ~Reply(ack).twint
          /\ Reply(ack).doing \notin {"listen", "answer"}
      BY <1>1, <1>2, ReplyForm
    <3>. QED
      BY <2>2, <3>1 DEF ReplyWith, HwRecord
  <2>. QED
    BY <1>4, <2>1, <2>2
<1>6. UNCHANGED slave
  BY <1>1 DEF Handler, IsrStart, IsrMasterSend, IsrMasterNack, IsrArbLost,
     IsrMasterReceive, IsrMasterLast, IsrReadNack, IsrSlaveAddressed, IsrSlaveData,
     IsrSlaveStop, IsrSlaveNack, IsrSlaveRequest, IsrSlaveSent, IsrSlaveDone,
     IsrBusError, Interrupt, SlaveStatus
<1>. QED
  BY <1>5, <1>6 DEF SlaveKept

\* The bus, as far as it does not carry another master's transfer with this node.
LEMMA BusKept ==
  ASSUME MasterInv,
         \/ HwStart \/ HwAddress \/ HwSend \/ HwReceive \/ HwStop \/ HwBusError
         \/ HwArbLost /\ Raise("ARB_LOST") /\ UNCHANGED slave
         \/ OtherStarts \/ OtherEnds
  PROVE  SlaveKept
<1>0. hw \in HwRecord
  BY DEF MasterInv, RecordInv
<1>1. UNCHANGED <<twi, slave>>
  BY DEF HwStart, HwAddress, HwSend, HwReceive, HwStop, HwBusError, HwArbLost,
     OtherStarts, OtherEnds, BusFrame
<1>2. CASE OtherStarts \/ OtherEnds
  BY <1>1, <1>2 DEF SlaveKept, OtherStarts, OtherEnds
<1>3. CASE HwStop
  <2>1. /\ hw'.doing = "idle" /\ hw'.twint = hw.twint /\ hw'.status = hw.status
        /\ hw'.dr = hw.dr
    BY <1>0, <1>3 DEF HwStop, HwRecord
  <2>. QED
    BY <1>1, <2>1 DEF SlaveKept
<1>4. ASSUME NEW s \in MasterStatus, Raise(s) \/ \E b \in Nat : RaiseWith(s, b)
      PROVE  SlaveKept
  <2>1. hw'.doing = "held" /\ hw'.status = s
    BY <1>0, <1>4 DEF Raise, RaiseWith, HwRecord
  <2>2. s \notin SlaveStatus
    BY DEF MasterStatus, SlaveStatus
  <2>. QED
    BY <1>1, <2>1, <2>2 DEF SlaveKept
<1>5. CASE HwReceive
  <2>1. \E s \in MasterStatus : RaiseWith(s, given + 1)
    BY <1>5 DEF HwReceive, MasterStatus
  <2>2. given + 1 \in Nat
    BY DEF MasterInv, RecordInv
  <2>. QED
    BY <1>4, <2>1, <2>2
<1>6. CASE HwArbLost /\ Raise("ARB_LOST") /\ UNCHANGED slave
  BY <1>4, <1>6 DEF MasterStatus
<1>7. CASE HwStart \/ HwAddress \/ HwSend \/ HwBusError
  <2>1. \E s \in MasterStatus : Raise(s)
    BY <1>7 DEF HwStart, HwAddress, HwSend, HwBusError, MasterStatus
  <2>. QED
    BY <1>4, <2>1
<1>. QED
  BY <1>2, <1>3, <1>5, <1>6, <1>7

\* The sketch, whatever it does.
LEMMA SketchKept ==
  ASSUME MasterInv, Alone,
         \/ Running \/ GiveUp
         \/ \E c \in Calls, n \in Lengths : Call(c, n)
         \/ \E s \in Timeouts : SetTimeout(s)
  PROVE  SlaveKept
<1>0. RecordInv /\ PhaseInv /\ twi \in TwiRecord /\ hw \in HwRecord
  BY DEF MasterInv, RecordInv
<1>1. UNCHANGED slave
  BY DEF Running, WaitReady, Claim, Prepare, Address, Wait, Result, GiveUp, Call,
     CallFrame, SetTimeout
<1>2. CASE Claim
  BY <1>0, <1>1, <1>2 DEF SlaveKept, Claim, TwiRecord, SlavePart
<1>3. CASE Prepare
  <2>1. PICK stop \in BOOLEAN :
          IF twi.inRepStart
          THEN twi' = [Prepared(stop) EXCEPT !.inRepStart = FALSE] /\ hw' = hw
          ELSE twi' = Prepared(stop) /\ hw' = Twcr(TRUE, FALSE, TRUE, TRUE)
    BY <1>3 DEF Prepare
  <2>2. SlavePart(Prepared(stop)) = SlavePart(twi)
    BY <1>0 DEF Prepared, SlavePart, TwiRecord
  <2>3. SlavePart([Prepared(stop) EXCEPT !.inRepStart = FALSE]) = SlavePart(twi)
    BY <1>0 DEF Prepared, SlavePart, TwiRecord
  <2>4. CASE twi.inRepStart
    BY <1>1, <2>1, <2>3, <2>4 DEF SlaveKept
  <2>5. CASE ~twi.inRepStart
    <3>1. Quiet
      BY <1>0, <1>3, <2>5 DEF PhaseInv, Summoned, Alone, Prepare
    <3>. DEFINE h == Twcr(TRUE, FALSE, TRUE, TRUE)
    <3>2. ~h.twint /\ h.doing = hw.doing
      <4>1. ~hw.twint
        BY <3>1 DEF Quiet
      <4>2. /\ ~h.twint
            /\ h.doing = IF hw.twint THEN Resume(hw.status, TRUE, FALSE) ELSE hw.doing
        BY <1>0, <4>1, TwcrForm, Zenon
      <4>. QED
        BY <4>1, <4>2
    <3>3. hw' = h
      BY <2>1, <2>5
    <3>. HIDE DEF h
    <3>. QED
      BY <1>1, <2>1, <2>2, <2>5, <3>1, <3>2, <3>3 DEF SlaveKept, Quiet
  <2>. QED
    BY <2>4, <2>5
<1>4. CASE Address
  <2>. DEFINE h == Twcr(FALSE, FALSE, TRUE, TRUE)
  <2>1. hw.twint /\ hw.status = "REP_START" /\ hw' = [h EXCEPT !.dr = twi.slarw] /\ twi' = twi
    BY <1>0, <1>4 DEF PhaseInv, Between, Address
  <2>2. /\ h \in HwRecord /\ ~h.twint
        /\ h.doing = IF hw.twint THEN Resume(hw.status, FALSE, FALSE) ELSE hw.doing
    BY <1>0, TwcrForm, Zenon
  <2>3. Resume(hw.status, FALSE, FALSE) = "address"
    BY <2>1 DEF Resume
  <2>. HIDE DEF h
  <2>4. ~hw'.twint /\ hw'.doing = "address"
    BY <2>1, <2>2, <2>3 DEF HwRecord
  <2>. QED
    BY <1>1, <2>1, <2>4 DEF SlaveKept
<1>5. CASE GiveUp
  <2>1. CASE timeout.reset
    <3>1. twi' = InitDriver(twi) /\ hw' = InitHw
      BY <1>5, <2>1 DEF GiveUp, HandleTimeout
    <3>2. SlavePart(twi') = SlavePart(twi) /\ ~hw'.twint /\ hw'.doing = "idle"
      BY <1>0, <3>1 DEF InitDriver, InitHw, TwiRecord, HwRecord, SlavePart
    <3>. QED
      BY <1>1, <3>2 DEF SlaveKept
  <2>2. CASE ~timeout.reset
    BY <1>1, <1>5, <2>2 DEF SlaveKept, GiveUp, HandleTimeout
  <2>. QED
    BY <2>1, <2>2
<1>6. CASE UNCHANGED <<twi, hw>>
  BY <1>1, <1>6 DEF SlaveKept
<1>. QED
  BY <1>2, <1>3, <1>4, <1>5, <1>6
     DEF Running, WaitReady, Wait, Result, Call, SetTimeout

-----------------------------------------------------------------------------
(* The handler in another master's transfer with this node.                *)

\* A step after which nothing is under way.
LEMMA ServedIdle ==
  ASSUME SlaveInv, ~hw'.twint, hw'.doing = "idle",
         UNCHANGED <<taken, replied, supplied>>, BytesInv', SlaveTruthful'
  PROVE  SlaveInv'
<1>1. SlaveTypes'
  BY DEF SlaveInv, SlaveTypes
<1>2. ListenInv' /\ AnswerInv'
  BY DEF ListenInv, AnswerInv
<1>. QED
  BY <1>1, <1>2 DEF SlaveInv

LEMMA SlaveAddressedStep ==
  ASSUME MasterInv, Alone, SlaveInv, IsrSlaveAddressed
  PROVE  MasterInv' /\ SlaveInv'
<1>0. /\ twi \in TwiRecord /\ hw \in HwRecord
      /\ SlaveTypes /\ BytesInv /\ ListenInv /\ SlaveTruthful
  BY DEF MasterInv, RecordInv, SlaveInv
<1>1. /\ hw.twint /\ hw.status \in {"SR_SLA_ACK", "SR_ARB_LOST"} /\ hw' = Reply(TRUE)
      /\ twi' = [twi EXCEPT !.state = "SRX", !.rxIndex = 0]
      /\ UNCHANGED <<locals, timeout, expired, master, bus, timed_out>>
      /\ UNCHANGED <<taken, replied, delivered, supplied>>
  BY DEF IsrSlaveAddressed, Interrupt, IsrFrame, slave, ReceiveInto
<1>2. Resume(hw.status, FALSE, FALSE) = "listen"
  BY <1>1 DEF Resume
<1>3. hw' \in HwRecord /\ ~hw'.twint /\ ~hw'.sta /\ hw'.doing = "listen"
  BY <1>0, <1>1, <1>2, ReplyForm
<1>4. /\ taken = <<>> /\ delivered = NoCallback /\ Len(taken) = 0
      /\ BufLen \in Nat \ {0} /\ 0 \in 0 .. BufLen
  BY <1>0, <1>1, TwiAssumption DEF ListenInv
<1>5. /\ twi' \in TwiRecord /\ twi'.rxIndex = 0 /\ twi'.rxBuffer = twi.rxBuffer
      /\ twi'.state \in SlaveStates /\ MasterPart(twi') = MasterPart(twi)
  BY <1>0, <1>1, <1>4 DEF TwiRecord, SlaveStates, MasterPart
<1>6. MasterInv'
  BY <1>1, <1>3, <1>5, ServedStep DEF SlaveStatus
<1>7. SlaveTypes' /\ BytesInv'
  <2>1. \A j \in Index : ~(j < 0)
    BY <1>4 DEF Index
  <2>. QED
    BY <1>0, <1>1, <1>5, <2>1 DEF SlaveTypes, BytesInv
<1>8. ListenInv' /\ AnswerInv'
  <2>1. Stored(Len(taken))'
    BY <1>1, <1>4, <1>5 DEF Stored
  <2>. QED
    BY <1>1, <1>3, <1>4, <2>1 DEF ListenInv, AnswerInv
<1>9. SlaveTruthful'
  BY <1>0, <1>1 DEF SlaveTruthful
<1>. QED
  BY <1>6, <1>7, <1>8, <1>9 DEF SlaveInv

LEMMA SlaveDataStep ==
  ASSUME MasterInv, Alone, SlaveInv, IsrSlaveData
  PROVE  MasterInv' /\ SlaveInv'
<1>0. /\ twi \in TwiRecord /\ hw \in HwRecord
      /\ SlaveTypes /\ BytesInv /\ ListenInv /\ SlaveTruthful
  BY DEF MasterInv, RecordInv, SlaveInv
<1>1. /\ hw.twint /\ hw.status = "SR_DATA_ACK"
      /\ IF twi.rxIndex < BufLen
         THEN /\ twi' = [twi EXCEPT !.rxBuffer[twi.rxIndex] = hw.dr,
                                    !.rxIndex = twi.rxIndex + 1]
              /\ hw' = Reply(TRUE)
         ELSE twi' = twi /\ hw' = Reply(FALSE)
      /\ UNCHANGED <<locals, timeout, expired, master, bus, timed_out>>
      /\ UNCHANGED <<taken, replied, delivered, supplied>>
  BY DEF IsrSlaveData, Interrupt, IsrFrame, slave, RoomFor
<1>2. Resume(hw.status, FALSE, FALSE) = "listen"
  BY <1>1 DEF Resume
<1>3. hw' \in HwRecord /\ ~hw'.twint /\ ~hw'.sta /\ hw'.doing = "listen"
  BY <1>0, <1>1, <1>2, ReplyForm
<1>4. /\ delivered = NoCallback /\ hw.dr = Len(taken) /\ Len(taken) \in Nat
      /\ Len(taken) > 0 /\ Stored(Len(taken) - 1)
      /\ BufLen \in Nat \ {0} /\ twi.rxIndex \in 0 .. BufLen
      /\ hw.dr \in Nat /\ twi.rxBuffer \in [Index -> Nat]
  BY <1>0, <1>1, TwiAssumption DEF ListenInv, SlaveTypes, TwiRecord, HwRecord
<1>5. /\ twi' \in TwiRecord /\ twi'.state = twi.state
      /\ MasterPart(twi') = MasterPart(twi) /\ Stored(Len(taken))'
      /\ \A j \in Index : j < twi'.rxIndex => twi'.rxBuffer[j] = j + 1
  <2>1. CASE twi.rxIndex < BufLen
    <3>1. twi.rxIndex = Len(taken) - 1
      BY <1>4, <2>1 DEF Stored
    <3>. DEFINE buffer == [twi.rxBuffer EXCEPT ![twi.rxIndex] = hw.dr]
                next == twi.rxIndex + 1
    <3>2. /\ buffer \in [Index -> Nat] /\ next \in 0 .. BufLen
          /\ twi' = [twi EXCEPT !.rxBuffer = buffer, !.rxIndex = next]
      <4>1. buffer \in [Index -> Nat]
        BY <1>4
      <4>2. next \in 0 .. BufLen
        BY <1>4, <2>1
      <4>. QED
        BY <1>0, <1>1, <1>4, <2>1, <4>1, <4>2 DEF TwiRecord
    <3>3. \A j \in Index : j < next => buffer[j] = j + 1
      <4>1. \A j \in Index : j \in Nat
        BY <1>4 DEF Index
      <4>. QED
        BY <1>0, <1>4, <3>1, <4>1 DEF BytesInv
    <3>4. next = IF Len(taken) < BufLen THEN Len(taken) ELSE BufLen
      BY <1>4, <2>1, <3>1
    <3>. HIDE DEF buffer, next
    <3>5. /\ twi' \in TwiRecord /\ twi'.rxBuffer = buffer /\ twi'.rxIndex = next
          /\ twi'.state = twi.state /\ MasterPart(twi') = MasterPart(twi)
      BY <1>0, <3>2 DEF TwiRecord, MasterPart
    <3>. QED
      BY <1>1, <3>3, <3>4, <3>5 DEF Stored
  <2>2. CASE ~(twi.rxIndex < BufLen)
    BY <1>0, <1>1, <1>4, <2>2 DEF BytesInv, Stored
  <2>. QED
    BY <2>1, <2>2
<1>6. MasterInv'
  <2>1. twi.state \in SlaveStates
    BY <1>1, ServingForm DEF SlaveStatus, Addressing
  <2>. QED
    BY <1>1, <1>3, <1>5, <2>1, ServedStep DEF SlaveStatus
<1>7. SlaveTypes' /\ BytesInv'
  BY <1>0, <1>1, <1>5 DEF SlaveTypes, BytesInv
<1>8. ListenInv' /\ AnswerInv'
  BY <1>1, <1>3, <1>4, <1>5 DEF ListenInv, AnswerInv
<1>9. SlaveTruthful'
  BY <1>0, <1>1 DEF SlaveTruthful
<1>. QED
  BY <1>6, <1>7, <1>8, <1>9 DEF SlaveInv

\* What is given to the callback is what fitted of what was taken.
LEMMA SlaveStopStep ==
  ASSUME MasterInv, Alone, SlaveInv, IsrSlaveStop
  PROVE  MasterInv' /\ SlaveInv'
<1>0. /\ twi \in TwiRecord /\ hw \in HwRecord
      /\ SlaveTypes /\ BytesInv /\ ListenInv /\ SlaveTruthful
  BY DEF MasterInv, RecordInv, SlaveInv
<1>1. /\ hw.twint /\ hw.status = "SR_STOP" /\ hw' = Twcr(FALSE, FALSE, TRUE, TRUE)
      /\ twi' = [[twi EXCEPT !.rxIndex = 0] EXCEPT !.state = "READY"]
      /\ delivered' = Prefix(twi.rxBuffer, twi.rxIndex)
      /\ UNCHANGED <<locals, timeout, expired, master, bus, timed_out>>
      /\ UNCHANGED <<taken, replied, supplied>>
  BY DEF IsrSlaveStop, Interrupt, IsrFrame, ReleaseBus
<1>2. Resume(hw.status, FALSE, FALSE) = "idle"
  BY <1>1 DEF Resume
<1>3. hw' \in HwRecord /\ ~hw'.twint /\ ~hw'.sta /\ hw'.doing = "idle"
  BY <1>0, <1>1, <1>2, TwcrForm
<1>4. /\ Stored(Len(taken)) /\ taken \in Seq(Nat)
      /\ BufLen \in Nat \ {0} /\ 0 \in 0 .. BufLen /\ twi.rxIndex \in 0 .. BufLen
  BY <1>0, <1>1, TwiAssumption DEF ListenInv, SlaveTypes, TwiRecord
<1>5. /\ twi' \in TwiRecord /\ twi'.rxIndex = 0 /\ twi'.rxBuffer = twi.rxBuffer
      /\ twi'.state = "READY" /\ MasterPart(twi') = MasterPart(twi)
  BY <1>0, <1>1, <1>4 DEF TwiRecord, MasterPart
<1>6. BytesInv'
  <2>1. \A j \in Index : ~(j < 0)
    BY <1>4 DEF Index
  <2>. QED
    BY <1>0, <1>1, <1>5, <2>1 DEF BytesInv
<1>7. SlaveTruthful'
  <2>. DEFINE n == twi.rxIndex
  <2>1. n \in Nat /\ n <= BufLen /\ n <= Len(taken) /\
        n = IF Len(taken) < BufLen THEN Len(taken) ELSE BufLen
    BY <1>4 DEF Stored
  <2>2. delivered' = [k \in 1 .. n |-> k]
    <3>1. \A k \in 1 .. n : k - 1 \in Index /\ k - 1 < twi.rxIndex /\ (k - 1) + 1 = k
      BY <1>4, <2>1 DEF Index
    <3>2. \A k \in 1 .. n : twi.rxBuffer[k - 1] = k
      BY <1>0, <3>1 DEF BytesInv
    <3>. QED
      BY <1>1, <3>2 DEF Prefix
  <2>. HIDE DEF n
  <2>3. SubSeq(taken, 1, n) = [k \in 1 .. n |-> k]
    <3>1. \A k \in 1 .. n : taken[k] = k
      BY <1>0, <1>4, <2>1 DEF BytesInv
    <3>. DEFINE s == SubSeq(taken, 1, n)
    <3>2. \A i \in 1 .. n : taken[i] \in Nat
      BY <3>1, <2>1
    <3>3. /\ s \in Seq(Nat) /\ Len(s) = IF 1 <= n THEN n - 1 + 1 ELSE 0
          /\ \A i \in 1 .. n - 1 + 1 : s[i] = taken[1 + i - 1]
      BY <2>1, <3>2, SubSeqProperties
    <3>. HIDE DEF s
    <3>4. /\ s \in Seq(Nat) /\ Len(s) = n
          /\ \A i \in 1 .. n : s[i] = i
      <4>1. n - 1 + 1 = n /\ \A i \in 1 .. n : 1 + i - 1 = i
        BY <2>1
      <4>2. Len(s) = n
        BY <2>1, <3>3, <4>1
      <4>3. \A i \in 1 .. n : s[i] = taken[i]
        BY <3>3, <4>1
      <4>. QED
        BY <3>1, <3>3, <4>2, <4>3
    <3>5. s = [k \in 1 .. n |-> k]
      BY <2>1, <3>4
    <3>. QED
      BY <3>5 DEF s
  <2>. QED
    BY <1>0, <1>1, <2>1, <2>2, <2>3 DEF SlaveTruthful
<1>8. MasterInv'
  BY <1>1, <1>3, <1>5, ServedStep DEF SlaveStatus
<1>9. SlaveInv'
  BY <1>1, <1>3, <1>6, <1>7, ServedIdle
<1>. QED
  BY <1>8, <1>9

\* The other endings: a byte refused, the last byte sent.
LEMMA SlaveEndStep ==
  ASSUME MasterInv, Alone, SlaveInv, IsrSlaveNack \/ IsrSlaveDone
  PROVE  MasterInv' /\ SlaveInv'
<1>0. twi \in TwiRecord /\ hw \in HwRecord /\ SlaveTypes /\ BytesInv /\ SlaveTruthful
  BY DEF MasterInv, RecordInv, SlaveInv
<1>1. /\ hw.twint /\ hw.status \in {"SR_DATA_NACK", "ST_DATA_NACK", "ST_LAST_DATA"}
      /\ \E ack \in BOOLEAN : hw' = Twcr(FALSE, FALSE, ack, TRUE)
      /\ twi' \in {twi, [twi EXCEPT !.state = "READY"]}
      /\ UNCHANGED <<locals, timeout, expired, master, bus, timed_out>>
      /\ UNCHANGED <<taken, replied, delivered, supplied>>
  BY DEF IsrSlaveNack, IsrSlaveDone, Interrupt, IsrFrame, slave, ReleaseBus, Reply
<1>2. Resume(hw.status, FALSE, FALSE) = "idle"
  BY <1>1 DEF Resume
<1>3. hw' \in HwRecord /\ ~hw'.twint /\ ~hw'.sta /\ hw'.doing = "idle"
  <2>1. PICK ack \in BOOLEAN : hw' = Twcr(FALSE, FALSE, ack, TRUE)
    BY <1>1
  <2>. QED
    BY <1>0, <1>1, <1>2, <2>1, TwcrForm
<1>4. /\ twi' \in TwiRecord /\ twi'.rxIndex = twi.rxIndex /\ twi'.rxBuffer = twi.rxBuffer
      /\ twi'.state \in {twi.state, "READY"} /\ MasterPart(twi') = MasterPart(twi)
  BY <1>0, <1>1 DEF TwiRecord, MasterPart
<1>5. BytesInv' /\ SlaveTruthful'
  BY <1>0, <1>1, <1>4 DEF BytesInv, SlaveTruthful
<1>6. MasterInv'
  <2>1. twi.state \in SlaveStates
    BY <1>1, ServingForm DEF SlaveStatus, Addressing
  <2>. QED
    BY <1>1, <1>3, <1>4, <2>1, ServedStep DEF SlaveStatus
<1>7. SlaveInv'
  BY <1>1, <1>3, <1>5, ServedIdle
<1>. QED
  BY <1>6, <1>7

\* twi_transmit() in the callback, and the first byte into TWDR.
LEMMA SlaveRequestStep ==
  ASSUME MasterInv, Alone, SlaveInv, IsrSlaveRequest
  PROVE  MasterInv' /\ SlaveInv'
<1>0. /\ twi \in TwiRecord /\ hw \in HwRecord
      /\ SlaveTypes /\ BytesInv /\ AnswerInv /\ SlaveTruthful
  BY DEF MasterInv, RecordInv, SlaveInv
<1>1. /\ hw.twint /\ hw.status \in {"ST_SLA_ACK", "ST_ARB_LOST"}
      /\ UNCHANGED <<locals, timeout, expired, master, bus, timed_out>>
      /\ UNCHANGED <<taken, replied, delivered>>
  BY DEF IsrSlaveRequest, Interrupt, IsrFrame
<1>2. PICK n \in 0 .. BufLen :
        SendNext(Requested(n)) /\ supplied' = IF n = 0 THEN <<0>> ELSE Positions(n)
  BY DEF IsrSlaveRequest
<1>3. /\ replied = <<>> /\ Len(replied) = 0 /\ replied \in Seq(Nat)
      /\ BufLen \in Nat \ {0} /\ Byte \in Nat /\ Byte > BufLen /\ twi \in TwiRecord
      /\ twi.txBuffer \in [Index -> Nat] /\ n \in Nat /\ n <= BufLen
  BY <1>0, <1>1, TwiAssumption DEF AnswerInv, SlaveTypes, TwiRecord
<1>. DEFINE length == IF n = 0 THEN 1 ELSE n
            buffer == [i \in Index |-> IF i < n THEN i + 1
                                       ELSE IF n = 0 /\ i = 0 THEN 0 ELSE twi.txBuffer[i]]
            d == Requested(n)
<1>4. length \in 0 .. BufLen /\ length >= 1 /\ 0 \in Index /\ length \in Nat
  BY <1>3 DEF Index
<1>5. buffer \in [Index -> Nat]
  <2>1. \A i \in Index : i \in Nat /\ i + 1 \in Nat
    BY <1>3 DEF Index
  <2>. QED
    BY <1>3, <2>1
<1>6. /\ supplied' \in Seq(Nat) /\ Len(supplied') = length
      /\ \A j \in Index : j < length => buffer[j] = supplied'[j + 1]
  <2>1. CASE n = 0
    BY <1>2, <1>3, <2>1 DEF Index
  <2>2. CASE n # 0
    <3>1. supplied' = [k \in 1 .. n |-> k] /\ length = n
      BY <1>2, <2>2 DEF Positions
    <3>2. supplied' \in Seq(Nat) /\ Len(supplied') = n
      BY <1>3, <3>1
    <3>3. \A j \in Index : j < n => j + 1 \in 1 .. n /\ buffer[j] = j + 1
      BY <1>3 DEF Index
    <3>. QED
      BY <3>1, <3>2, <3>3
  <2>. QED
    BY <2>1, <2>2
<1>7. d = [twi EXCEPT !.state = "STX", !.txIndex = 0, !.txLength = length,
                      !.txBuffer = buffer]
  BY DEF Requested, RequestedFrom
<1>. HIDE DEF length, buffer
<1>8. /\ d \in TwiRecord /\ d.txIndex = 0 /\ d.txLength = length /\ d.txBuffer = buffer
      /\ d.rxIndex = twi.rxIndex /\ d.rxBuffer = twi.rxBuffer
      /\ d.state \in SlaveStates /\ MasterPart(d) = MasterPart(twi)
  <2>1. 0 \in 0 .. Byte - 1
    BY <1>3
  <2>. QED
    BY <1>3, <1>4, <1>5, <1>7, <2>1 DEF TwiRecord, SlaveStates, MasterPart
<1>9. twi' = [d EXCEPT !.txIndex = 1] /\ hw' = ReplyWith(1 < length, buffer[0])
  <2>1. (0 + 1) % Byte = 1 /\ 0 + 1 = 1
    BY <1>3
  <2>2. SendNext(d)
    BY <1>2
  <2>. HIDE DEF d
  <2>. QED
    BY <1>4, <1>8, <2>1, <2>2 DEF SendNext, NextByte
<1>. HIDE DEF d
<1>10. /\ twi' \in TwiRecord /\ twi'.txIndex = 1 /\ twi'.txLength = length
       /\ twi'.txBuffer = buffer
       /\ twi'.rxIndex = twi.rxIndex /\ twi'.rxBuffer = twi.rxBuffer
       /\ twi'.state \in SlaveStates /\ MasterPart(twi') = MasterPart(twi)
  <2>1. 1 \in 0 .. Byte - 1
    BY <1>3
  <2>. QED
    BY <1>8, <1>9, <2>1 DEF TwiRecord, MasterPart
<1>11. Resume(hw.status, FALSE, FALSE) = "answer"
  BY <1>1 DEF Resume
<1>12. /\ hw' \in HwRecord /\ ~hw'.twint /\ ~hw'.sta /\ hw'.doing = "answer"
       /\ hw'.dr = supplied'[1] /\ (hw'.ea <=> 1 < length)
  <2>. DEFINE ack == 1 < length
              byte == buffer[0]
  <2>1. ack \in BOOLEAN /\ byte \in Nat /\ byte = supplied'[1] /\ hw' = ReplyWith(ack, byte)
    BY <1>4, <1>5, <1>6, <1>9
  <2>. HIDE DEF ack, byte
  <2>2. /\ hw' \in HwRecord /\ ~hw'.twint /\ ~hw'.sta /\ hw'.doing = "answer"
        /\ hw'.dr = byte /\ hw'.ea = ack
    BY <1>0, <1>1, <1>11, <2>1, ReplyWithForm
  <2>. QED
    BY <2>1, <2>2 DEF ack
<1>13. SlaveTypes'
  BY <1>0, <1>1, <1>6 DEF SlaveTypes
<1>14. BytesInv'
  BY <1>0, <1>1, <1>10 DEF BytesInv
<1>15. ListenInv' /\ AnswerInv'
  <2>1. Loaded'
    BY <1>6, <1>10 DEF Loaded
  <2>. QED
    BY <1>1, <1>3, <1>4, <1>10, <1>12, <2>1 DEF ListenInv, AnswerInv
<1>16. SlaveTruthful'
  BY <1>0, <1>1, <1>3, <1>4, <1>6 DEF SlaveTruthful
<1>17. MasterInv'
  BY <1>1, <1>10, <1>12, ServedStep DEF SlaveStatus
<1>. QED
  BY <1>13, <1>14, <1>15, <1>16, <1>17 DEF SlaveInv

LEMMA SlaveSentStep ==
  ASSUME MasterInv, Alone, SlaveInv, IsrSlaveSent
  PROVE  MasterInv' /\ SlaveInv'
<1>0. /\ twi \in TwiRecord /\ hw \in HwRecord
      /\ SlaveTypes /\ BytesInv /\ AnswerInv /\ SlaveTruthful
  BY DEF MasterInv, RecordInv, SlaveInv
<1>1. /\ hw.twint /\ hw.status = "ST_DATA_ACK" /\ SendNext(twi)
      /\ UNCHANGED <<locals, timeout, expired, master, bus, timed_out>>
      /\ UNCHANGED <<taken, replied, delivered, supplied>>
  BY DEF IsrSlaveSent, Interrupt, IsrFrame, slave
<1>2. /\ Loaded /\ twi.txIndex = Len(replied) /\ twi.txIndex < twi.txLength
      /\ BufLen \in Nat \ {0} /\ Byte \in Nat /\ Byte > BufLen /\ twi \in TwiRecord
      /\ twi.txIndex \in 0 .. Byte - 1 /\ twi.txLength \in 0 .. BufLen
      /\ twi.txBuffer \in [Index -> Nat]
  BY <1>0, <1>1, TwiAssumption DEF AnswerInv, SlaveTypes, TwiRecord
<1>. DEFINE next == twi.txIndex + 1
            ack == next < twi.txLength
            byte == twi.txBuffer[twi.txIndex]
<1>3. /\ next \in 0 .. Byte - 1 /\ next % Byte = next /\ twi.txIndex \in Index
      /\ next <= twi.txLength
  <2>1. /\ next \in 0 .. Byte - 1
        /\ twi.txIndex \in Index /\ next <= twi.txLength
    BY <1>2 DEF Index
  <2>2. Byte \in Nat /\ Byte > 0
    BY <1>2
  <2>. HIDE DEF next
  <2>3. next % Byte = next
    BY <2>1, <2>2
  <2>. QED
    BY <2>1, <2>3
<1>4. byte \in Nat /\ byte = supplied[next]
  BY <1>2, <1>3 DEF Loaded
<1>5. twi' = [twi EXCEPT !.txIndex = next] /\ hw' = ReplyWith(ack, byte)
  BY <1>1, <1>3 DEF SendNext, NextByte
<1>6. ack \in BOOLEAN /\ (ack <=> next < twi.txLength)
  OBVIOUS
<1>7. next = Len(replied) + 1
  BY <1>2
<1>. HIDE DEF next, ack, byte
<1>8. /\ twi' \in TwiRecord /\ twi'.txIndex = next /\ twi'.txLength = twi.txLength
      /\ twi'.txBuffer = twi.txBuffer
      /\ twi'.rxIndex = twi.rxIndex /\ twi'.rxBuffer = twi.rxBuffer
      /\ twi'.state = twi.state /\ MasterPart(twi') = MasterPart(twi)
  BY <1>2, <1>3, <1>5 DEF TwiRecord, MasterPart
<1>9. Resume(hw.status, FALSE, FALSE) = "answer"
  BY <1>1 DEF Resume
<1>10. /\ hw' \in HwRecord /\ ~hw'.twint /\ ~hw'.sta /\ hw'.doing = "answer"
       /\ hw'.dr = byte /\ hw'.ea = ack
  BY <1>0, <1>1, <1>4, <1>5, <1>6, <1>9, ReplyWithForm
<1>11. SlaveTypes'
  BY <1>0, <1>1 DEF SlaveTypes
<1>12. BytesInv' /\ SlaveTruthful'
  BY <1>0, <1>1, <1>8 DEF BytesInv, SlaveTruthful
<1>13. ListenInv' /\ AnswerInv'
  <2>1. Loaded'
    BY <1>1, <1>2, <1>8 DEF Loaded
  <2>. QED
    BY <1>1, <1>3, <1>4, <1>6, <1>7, <1>8, <1>10, <2>1 DEF ListenInv, AnswerInv
<1>14. MasterInv'
  <2>1. twi.state \in SlaveStates
    BY <1>1, ServingForm DEF SlaveStatus, Addressing
  <2>. QED
    BY <1>1, <1>8, <1>10, <2>1, ServedStep DEF SlaveStatus
<1>. QED
  BY <1>11, <1>12, <1>13, <1>14 DEF SlaveInv

-----------------------------------------------------------------------------
(* The bus in another master's transfer with this node.                    *)

\* It addresses this node: the history begins anew.
LEMMA SummonedStep ==
  ASSUME MasterInv, SlaveInv, NEW s \in Addressing, Raise(s), UNCHANGED twi,
         taken' = <<>>, replied' = <<>>, delivered' = NoCallback, supplied' = <<>>
  PROVE  SlaveInv'
<1>0. hw \in HwRecord /\ SlaveTypes /\ BytesInv
  BY DEF MasterInv, RecordInv, SlaveInv
<1>1. hw'.twint /\ hw'.status = s /\ hw'.doing = "held"
  BY <1>0, RaiseForm DEF Addressing, SlaveStatus
<1>2. <<>> \in Seq(Nat) /\ Len(<<>>) = 0
  OBVIOUS
<1>3. SlaveTypes'
  BY <1>2 DEF SlaveTypes
<1>4. BytesInv' /\ SlaveTruthful'
  BY <1>0, <1>2 DEF BytesInv, SlaveTruthful
<1>5. ListenInv' /\ AnswerInv'
  BY <1>1 DEF ListenInv, AnswerInv, Addressing
<1>. QED
  BY <1>3, <1>4, <1>5 DEF SlaveInv

LEMMA SendsStep ==
  ASSUME MasterInv, SlaveInv, OtherSends
  PROVE  SlaveInv'
<1>0. SlaveTypes /\ BytesInv /\ ListenInv /\ SlaveTruthful
  BY DEF SlaveInv
<1>1. /\ hw.doing = "listen" /\ hw \in HwRecord /\ taken \in Seq(Nat)
      /\ UNCHANGED <<twi, replied, delivered, supplied>>
  BY <1>0 DEF OtherSends, BusFrame, SlaveTypes, MasterInv, RecordInv
<1>2. /\ Stored(Len(taken)) /\ delivered = NoCallback /\ Len(taken) \in Nat
      /\ (NoCallback = delivered' => SlaveTruthful')
  BY <1>0, <1>1 DEF ListenInv, SlaveTruthful
<1>3. CASE hw.ea
  <2>. DEFINE n == Len(taken) + 1
  <2>1. RaiseWith("SR_DATA_ACK", n) /\ taken' = Append(taken, n)
    BY <1>3 DEF OtherSends
  <2>2. n \in Nat /\ n > 0 /\ n - 1 = Len(taken)
    BY <1>2
  <2>3. /\ taken' \in Seq(Nat) /\ Len(taken') = n
        /\ \A k \in 1 .. n : taken'[k] = IF k <= Len(taken) THEN taken[k] ELSE n
    BY <1>1, <2>1, <2>2
  <2>4. \A k \in 1 .. n : taken'[k] = k
    BY <1>0, <1>2, <2>3 DEF BytesInv
  <2>. HIDE DEF n
  <2>5. /\ hw'.twint /\ hw'.status = "SR_DATA_ACK" /\ hw'.doing = "held" /\ hw'.dr = n
    BY <1>1, <2>1, <2>2, RaiseWithForm DEF SlaveStatus
  <2>6. SlaveTypes' /\ BytesInv'
    BY <1>0, <1>1, <2>3, <2>4 DEF SlaveTypes, BytesInv
  <2>7. Stored(Len(taken) - 1)'
    BY <1>1, <1>2, <2>2, <2>3 DEF Stored
  <2>8. ListenInv' /\ AnswerInv'
    BY <1>1, <1>2, <2>2, <2>3, <2>5, <2>7 DEF ListenInv, AnswerInv
  <2>. QED
    BY <1>1, <1>2, <2>6, <2>8 DEF SlaveInv
<1>4. CASE ~hw.ea
  <2>1. Raise("SR_DATA_NACK") /\ taken' = taken
    BY <1>4 DEF OtherSends
  <2>2. hw'.twint /\ hw'.status = "SR_DATA_NACK" /\ hw'.doing = "held"
    BY <1>1, <2>1, RaiseForm DEF SlaveStatus
  <2>3. SlaveTypes' /\ BytesInv'
    BY <1>0, <1>1, <2>1 DEF SlaveTypes, BytesInv
  <2>4. ListenInv' /\ AnswerInv'
    BY <2>2 DEF ListenInv, AnswerInv
  <2>. QED
    BY <1>1, <1>2, <2>3, <2>4 DEF SlaveInv
<1>. QED
  BY <1>3, <1>4

LEMMA StopsStep ==
  ASSUME MasterInv, SlaveInv, OtherStops
  PROVE  SlaveInv'
<1>0. SlaveTypes /\ BytesInv /\ ListenInv /\ SlaveTruthful
  BY DEF SlaveInv
<1>1. /\ hw.doing = "listen" /\ hw \in HwRecord /\ Raise("SR_STOP")
      /\ UNCHANGED <<twi, taken, replied, delivered, supplied>>
  BY DEF OtherStops, BusFrame, slave, MasterInv, RecordInv
<1>2. hw'.twint /\ hw'.status = "SR_STOP" /\ hw'.doing = "held"
  BY <1>1, RaiseForm DEF SlaveStatus
<1>3. SlaveTypes' /\ BytesInv' /\ SlaveTruthful'
  BY <1>0, <1>1 DEF SlaveTypes, BytesInv, SlaveTruthful
<1>4. ListenInv' /\ AnswerInv'
  BY <1>0, <1>1, <1>2 DEF ListenInv, AnswerInv, Stored
<1>. QED
  BY <1>3, <1>4 DEF SlaveInv

\* The byte that goes out is the next of those supplied.
LEMMA TakesStep ==
  ASSUME MasterInv, SlaveInv, OtherTakes
  PROVE  SlaveInv'
<1>0. SlaveTypes /\ BytesInv /\ AnswerInv /\ SlaveTruthful
  BY DEF SlaveInv
<1>1. /\ hw.doing = "answer" /\ hw \in HwRecord /\ twi \in TwiRecord
      /\ replied' = Append(replied, hw.dr)
      /\ UNCHANGED <<twi, taken, delivered, supplied>>
  BY DEF OtherTakes, BusFrame, MasterInv, RecordInv
<1>2. PICK s \in {"ST_DATA_NACK", "ST_DATA_ACK", "ST_LAST_DATA"} :
        Raise(s) /\ (s = "ST_DATA_ACK" => hw.ea)
  BY DEF OtherTakes
<1>3. hw'.twint /\ hw'.status = s /\ hw'.doing = "held"
  BY <1>1, <1>2, RaiseForm DEF SlaveStatus
<1>4. /\ Loaded /\ twi.txIndex = Len(replied) + 1 /\ twi.txIndex <= twi.txLength
      /\ hw.dr = supplied[twi.txIndex] /\ (hw.ea <=> twi.txIndex < twi.txLength)
      /\ hw.dr \in Nat /\ replied \in Seq(Nat) /\ supplied \in Seq(Nat)
      /\ twi.txIndex \in Nat /\ twi.txLength \in Nat /\ twi.txLength = Len(supplied)
  BY <1>0, <1>1, TwiAssumption
     DEF AnswerInv, SlaveTypes, HwRecord, TwiRecord, Loaded
<1>5. /\ replied' \in Seq(Nat) /\ Len(replied') = Len(replied) + 1
      /\ \A k \in 1 .. Len(replied') :
           replied'[k] = IF k <= Len(replied) THEN replied[k] ELSE hw.dr
  BY <1>1, <1>4
<1>6. SlaveTypes'
  BY <1>0, <1>1, <1>5 DEF SlaveTypes
<1>7. BytesInv'
  BY <1>0, <1>1 DEF BytesInv
<1>8. SlaveTruthful'
  <2>1. Len(replied) \in Nat /\ Len(replied') <= Len(supplied)
    BY <1>4, <1>5
  <2>2. \A k \in 1 .. Len(replied) : replied[k] = supplied[k]
    BY <1>0 DEF SlaveTruthful
  <2>3. Len(replied') = Len(replied) + 1 /\ twi.txIndex = Len(replied) + 1
    BY <1>4, <1>5
  <2>4. ASSUME NEW k \in 1 .. Len(replied')
        PROVE  replied'[k] = supplied[k]
    <3>1. replied'[k] = IF k <= Len(replied) THEN replied[k] ELSE hw.dr
      BY <1>5
    <3>2. k \in 1 .. Len(replied) \/ (k = twi.txIndex /\ ~(k <= Len(replied)))
      BY <2>1, <2>3
    <3>3. CASE k \in 1 .. Len(replied)
      BY <2>1, <2>2, <3>1, <3>3
    <3>4. CASE k = twi.txIndex /\ ~(k <= Len(replied))
      BY <1>4, <3>1, <3>4
    <3>. QED
      BY <3>2, <3>3, <3>4
  <2>. QED
    BY <1>0, <1>1, <2>1, <2>4 DEF SlaveTruthful
<1>9. ListenInv' /\ AnswerInv'
  <2>1. Loaded' /\ twi'.txIndex = Len(replied')
    BY <1>1, <1>4, <1>5 DEF Loaded
  <2>. QED
    BY <1>1, <1>2, <1>3, <1>4, <2>1 DEF ListenInv, AnswerInv
<1>. QED
  BY <1>6, <1>7, <1>8, <1>9 DEF SlaveInv

LEMMA SlaveBusStep ==
  ASSUME MasterInv, SlaveInv, Bus \/ Intrusion
  PROVE  SlaveInv'
<1>1. CASE OtherAddresses
  <2>1. PICK s \in Addressing : Raise(s)
    BY <1>1 DEF OtherAddresses, Addressing
  <2>. QED
    BY <1>1, <2>1, SummonedStep DEF OtherAddresses, BusFrame
<1>2. CASE HwArbLost
  <2>1. CASE Raise("ARB_LOST") /\ UNCHANGED slave
    BY <1>2, <2>1, BusKept, KeptStep
  <2>2. CASE ~(Raise("ARB_LOST") /\ UNCHANGED slave)
    <3>1. PICK s \in Addressing : Raise(s)
      BY <1>2, <2>2 DEF HwArbLost, Addressing
    <3>. QED
      BY <1>2, <2>2, <3>1, SummonedStep DEF HwArbLost, BusFrame
  <2>. QED
    BY <2>1, <2>2
<1>. QED
  BY <1>1, <1>2, BusKept, KeptStep, SendsStep, StopsStep, TakesStep DEF Bus, Intrusion

-----------------------------------------------------------------------------
(* The invariant.                                                          *)

Inv == MasterInv /\ SlaveInv

LEMMA HandlerStep ==
  ASSUME Inv, Alone, Handler
  PROVE  Inv'
<1>0. MasterInv /\ SlaveInv /\ RecordInv
  BY DEF Inv, MasterInv
<1>1. CASE hw.status \in SlaveStatus
  BY <1>0, <1>1, SlaveAddressedStep, SlaveDataStep, SlaveStopStep, SlaveEndStep,
     SlaveRequestStep, SlaveSentStep
     DEF Inv, Handler, IsrStart, IsrMasterSend, IsrMasterNack, IsrArbLost,
     IsrMasterReceive, IsrMasterLast, IsrReadNack, IsrBusError, Interrupt, SlaveStatus
<1>2. CASE hw.status \notin SlaveStatus
  <2>1. /\ ~IsrSlaveAddressed /\ ~IsrSlaveData /\ ~IsrSlaveStop /\ ~IsrSlaveNack
        /\ ~IsrSlaveRequest /\ ~IsrSlaveSent /\ ~IsrSlaveDone
    BY <1>2 DEF IsrSlaveAddressed, IsrSlaveData, IsrSlaveStop, IsrSlaveNack,
       IsrSlaveRequest, IsrSlaveSent, IsrSlaveDone, Interrupt, SlaveStatus
  <2>2. hw.status \in MasterStatus
    BY <2>1 DEF Handler, IsrStart, IsrMasterSend, IsrMasterNack, IsrArbLost,
       IsrMasterReceive, IsrMasterLast, IsrReadNack, IsrBusError, Interrupt, MasterStatus
  <2>3. SlaveInv'
    BY <1>0, <2>2, HandlerKept, KeptStep
  <2>4. MasterInv'
    BY <1>0, <2>1, IsrStartStep, IsrMasterSendStep, IsrMasterNackStep, IsrArbLostStep,
       IsrMasterReceiveStep, IsrMasterLastStep, IsrReadNackStep, IsrBusErrorStep,
       ServingErrorStep DEF Handler
  <2>. QED
    BY <2>3, <2>4 DEF Inv
<1>. QED
  BY <1>1, <1>2

LEMMA SketchStep ==
  ASSUME Inv, Alone,
         \/ Running \/ GiveUp
         \/ \E c \in Calls, n \in Lengths : Call(c, n)
         \/ \E s \in Timeouts : SetTimeout(s)
  PROVE  Inv'
<1>0. MasterInv /\ SlaveInv
  BY DEF Inv
<1>1. SlaveInv'
  BY <1>0, SketchKept, KeptStep
<1>2. MasterInv'
  BY <1>0, WaitReadyStep, ClaimStep, PrepareStep, AddressStep, WaitStep, ResultStep,
     CallStep, GiveUpStep, SetTimeoutStep DEF Running
<1>. QED
  BY <1>1, <1>2 DEF Inv

LEMMA Initial == Init => MasterInv
<1>. SUFFICES ASSUME Init PROVE MasterInv
  OBVIOUS
<1>1. /\ twi.state = "READY" /\ ~twi.inRepStart /\ twi.slarw = TW_WRITE
      /\ twi.masterIndex = 0 /\ twi.masterLength = 0
      /\ hw.doing = "idle" /\ ~hw.twint /\ ~hw.sta /\ bus = "free"
      /\ pc = "idle" /\ call = "write" /\ ret = 1 /\ len = 0 /\ TW_READ # TW_WRITE
      /\ acked = <<>> /\ given = 0
  BY DEF Init, TW_READ, TW_WRITE
<1>2. twi \in TwiRecord
  <2>1. [i \in Index |-> 0] \in [Index -> Nat] /\ BufLen \in Nat /\ Byte \in Nat /\ 0 < Byte
    BY TwiAssumption
  <2>. QED
    BY <2>1 DEF Init, TwiRecord
<1>3. hw \in HwRecord
  BY DEF Init, HwRecord
<1>4. timeout \in TimeoutSettings /\ timed_out \in BOOLEAN /\ expired \in BOOLEAN
  BY DEF Init, NoTimeout, TimeoutSettings
<1>5. RecordInv
  BY <1>1, <1>2, <1>3, <1>4 DEF RecordInv
<1>6. PhaseInv /\ CallInv /\ ProgressInv /\ EndedInv
  BY <1>1 DEF PhaseInv, CallInv, ProgressInv, EndedInv, Active, MasterStates,
     SlaveStates, Quiet
<1>7. BufferInv /\ TruthInv
  <2>1. Len(acked) = 0 /\ BufLen \in Nat /\ \A j \in Index : ~(j < 0)
    BY <1>1, TwiAssumption DEF Index
  <2>. QED
    BY <1>1, <2>1 DEF BufferInv, TruthInv, WriteTruthful, ReadTruthful
<1>. QED
  BY <1>5, <1>6, <1>7 DEF MasterInv

LEMMA SlaveInitial == Init => SlaveInv
<1>. SUFFICES ASSUME Init PROVE SlaveInv
  OBVIOUS
<1>1. <<>> \in Seq(Nat) /\ Len(<<>>) = 0 /\ hw.doing = "idle" /\ ~hw.twint
  BY DEF Init
<1>2. SlaveTypes
  BY <1>1 DEF Init, SlaveTypes
<1>3. BytesInv
  <2>1. \A j \in Index : ~(j < 0)
    BY TwiAssumption DEF Index
  <2>. QED
    BY <1>1, <2>1 DEF Init, BytesInv
<1>4. ListenInv /\ AnswerInv
  BY <1>1 DEF ListenInv, AnswerInv
<1>5. SlaveTruthful
  BY <1>1 DEF Init, SlaveTruthful
<1>. QED
  BY <1>2, <1>3, <1>4, <1>5 DEF SlaveInv

\* A step taken while the node is alone keeps the invariant.
LEMMA Invariant == Inv /\ Alone /\ [Next]_vars => Inv'
<1>. SUFFICES ASSUME Inv, Alone, [Next]_vars PROVE Inv'
  OBVIOUS
<1>0. MasterInv /\ SlaveInv
  BY DEF Inv
<1>1. CASE UNCHANGED vars
  <2>1. /\ UNCHANGED <<pc, call, len, data, ret, twi, hw, bus, timeout, timed_out>>
        /\ UNCHANGED <<expired, acked, nacked, given, slave>>
    BY <1>1 DEF vars, locals, master
  <2>2. MasterInv'
    BY <1>0, <2>1 DEF MasterInv, RecordInv, PhaseInv, CallInv, BufferInv, ProgressInv,
       EndedInv, TruthInv, WriteTruthful, ReadTruthful, Active, MasterState, Fresh,
       Clean, Ended, Between, Quiet, Starting, Moving, Held, Stuck, Summoned, Serving
  <2>3. SlaveInv'
    BY <1>0, <2>1, KeptStep DEF SlaveKept
  <2>. QED
    BY <2>2, <2>3 DEF Inv
<1>2. CASE Bus \/ Intrusion
  <2>1. SlaveTypes
    BY <1>0 DEF SlaveInv
  <2>. QED
    BY <1>0, <1>2, <2>1, BusStep, SlaveBusStep DEF Inv
<1>3. CASE Spin
  BY <1>1, <1>3 DEF Spin
<1>. QED
  BY <1>1, <1>2, <1>3, HandlerStep, SketchStep DEF Next

LEMMA Inductive == Spec /\ []Alone => []Inv
<1>1. Init => Inv
  BY Initial, SlaveInitial DEF Inv
<1>. QED
  BY <1>1, Invariant, PTL DEF Spec

-----------------------------------------------------------------------------
(* The theorems.                                                           *)

\* What twi_writeTo() returns is true of the bus: success when the device took
\* every byte in order, a refusal when it refused, whatever time-outs, errors
\* and other masters came between, and whatever these want of this node while
\* it makes no call of its own.
THEOREM WriteCorrect == Spec /\ []Alone => []WriteTruthful
<1>1. Inv => WriteTruthful
  BY DEF Inv, MasterInv, TruthInv
<1>. QED
  BY Inductive, <1>1, PTL

\* twi_readFrom() returns the bytes the device sent, in order, and fewer than
\* asked for only when it or the bus refused.
THEOREM ReadCorrect == Spec /\ []Alone => []ReadTruthful
<1>1. Inv => ReadTruthful
  BY DEF Inv, MasterInv, TruthInv
<1>. QED
  BY Inductive, <1>1, PTL

\* A driver that is ready and not between a transfer and its repeated start
\* does not hold the bus, and its index never leaves the buffer, unless the
\* sketch asks for no byte at all.
THEOREM ReleaseCorrect ==
  ASSUME ~ZeroRead
  PROVE  Spec /\ []Alone => []BusReleased
<1>1. Inv => BusReleased
  <2>. SUFFICES ASSUME Inv PROVE BusReleased
    OBVIOUS
  <2>0. RecordInv /\ PhaseInv /\ BufferInv
    BY DEF Inv, MasterInv
  <2>1. /\ BufLen \in Nat /\ Byte \in Nat
        /\ twi.masterIndex \in Nat /\ twi.masterLength \in Nat
        /\ twi.slarw \in {TW_READ, TW_WRITE}
    BY <2>0, TwiAssumption DEF RecordInv, TwiRecord
  <2>2. twi.masterIndex <= BufLen /\ twi.masterLength <= BufLen
    BY <2>0, <2>1 DEF BufferInv
  <2>3. TypeOK
    BY <2>0, <2>1, <2>2
       DEF RecordInv, TwiRecord, HwRecord, TypeOK, States, MasterStates, SlaveStates
  <2>4. twi.state = "READY" /\ ~twi.inRepStart => bus # "us"
    BY <2>0 DEF PhaseInv, Quiet, Summoned
  <2>. QED
    BY <2>3, <2>4 DEF BusReleased
<1>. QED
  BY Inductive, <1>1, PTL

\* As a slave, between its own calls or waiting to make one: the receive
\* callback is given the bytes another master sent, in order, as far as
\* twi_rxBuffer has room, and that master gets the bytes the request callback
\* supplied, in order, across bus errors, time-outs and any number of masters.
THEOREM SlaveCorrect == Spec /\ []Alone => []SlaveTruthful
<1>1. Inv => SlaveTruthful
  BY DEF Inv, SlaveInv
<1>. QED
  BY Inductive, <1>1, PTL

-----------------------------------------------------------------------------
(* When a node is alone.                                                   *)

\* No master addresses this node, so its hardware reports no such event.
Unaddressed ==
  /\ hw.doing \notin {"listen", "answer"}
  /\ hw.twint => hw.status \notin SlaveStatus

LEMMA UnaddressedStep ==
  ASSUME ~Addressed, Inv, Unaddressed, [Next]_vars
  PROVE  Unaddressed'
<1>0. MasterInv /\ RecordInv /\ Alone
  BY DEF Inv, MasterInv, Unaddressed, Alone, Addressing, SlaveStatus
<1>1. CASE UNCHANGED vars
  BY <1>1 DEF vars, Unaddressed
<1>2. SlaveKept => Unaddressed'
  BY DEF SlaveKept, Unaddressed
<1>3. CASE Handler
  <2>1. hw.twint /\ hw.status \in MasterStatus
    BY <1>3 DEF Unaddressed, SlaveStatus, MasterStatus, Handler, IsrStart, IsrMasterSend,
       IsrMasterNack, IsrArbLost, IsrMasterReceive, IsrMasterLast, IsrReadNack,
       IsrSlaveAddressed, IsrSlaveData, IsrSlaveStop, IsrSlaveNack, IsrSlaveRequest,
       IsrSlaveSent, IsrSlaveDone, IsrBusError, Interrupt
  <2>. QED
    BY <1>0, <1>2, <1>3, <2>1, HandlerKept
<1>4. CASE Bus \/ Intrusion
  <2>1. /\ ~OtherAddresses /\ ~OtherSends /\ ~OtherStops /\ ~OtherTakes
        /\ HwArbLost => Raise("ARB_LOST") /\ UNCHANGED slave
    BY DEF OtherAddresses, OtherSends, OtherStops, OtherTakes, HwArbLost, Unaddressed
  <2>. QED
    BY <1>0, <1>2, <1>4, <2>1, BusKept DEF Bus, Intrusion
<1>5. CASE Spin
  BY <1>1, <1>5 DEF Spin
<1>. QED
  BY <1>0, <1>1, <1>2, <1>3, <1>4, <1>5, SketchKept DEF Next

\* A node that nobody addresses is alone, and so is one that is only a slave:
\* the theorems above hold of either without their premise.
THEOREM AloneHolds ==
  ASSUME ~Addressed \/ Calls = {}
  PROVE  Spec => []Alone
<1>1. CASE ~Addressed
  <2>1. Init => Inv /\ Unaddressed
    BY Initial, SlaveInitial DEF Inv, Init, Unaddressed
  <2>2. Inv /\ Unaddressed => Alone
    BY DEF Unaddressed, Alone, Addressing, SlaveStatus
  <2>3. Inv /\ Unaddressed /\ [Next]_vars => Inv' /\ Unaddressed'
    BY <1>1, <2>2, Invariant, UnaddressedStep
  <2>. QED
    BY <2>1, <2>2, <2>3, PTL DEF Spec
<1>2. CASE Calls = {}
  <2>. DEFINE Idle == pc = "idle"
  <2>1. Init => Idle
    BY DEF Init
  <2>2. Idle => Alone
    BY DEF Alone
  <2>3. Idle /\ [Next]_vars => Idle'
    <3>. SUFFICES ASSUME pc = "idle", Next PROVE pc' = "idle"
      BY DEF vars, locals
    <3>1. CASE Handler
      BY <3>1 DEF Handler, IsrStart, IsrMasterSend, IsrMasterNack, IsrArbLost,
         IsrMasterReceive, IsrMasterLast, IsrReadNack, IsrSlaveAddressed, IsrSlaveData,
         IsrSlaveStop, IsrSlaveNack, IsrSlaveRequest, IsrSlaveSent, IsrSlaveDone,
         IsrBusError, IsrFrame, locals
    <3>2. CASE Bus \/ Intrusion
      BY <3>2 DEF Bus, Intrusion, HwStart, HwAddress, HwSend, HwReceive, HwStop,
         OtherSends, OtherStops, OtherTakes, OtherEnds, HwBusError, HwArbLost,
         OtherStarts, OtherAddresses, BusFrame, locals
    <3>3. ~Running /\ ~GiveUp /\ ~Spin /\ ~\E c \in Calls, n \in Lengths : Call(c, n)
      BY <1>2 DEF Running, WaitReady, Claim, Prepare, Address, Wait, Result, GiveUp, Spin
    <3>4. CASE \E s \in Timeouts : SetTimeout(s)
      BY <3>4 DEF SetTimeout, locals
    <3>. QED
      BY <3>1, <3>2, <3>3, <3>4 DEF Next
  <2>. HIDE DEF Idle
  <2>. QED
    BY <2>1, <2>2, <2>3, PTL DEF Spec
<1>. QED
  BY <1>1, <1>2

=============================================================================
