---------------------------- MODULE ALPSFramer ----------------------------
(***************************************************************************)
(* Byte framing and packet dispatch of ApplePS2ALPSGlidePoint.             *)
(*                                                                         *)
(* Two contexts share the ring buffer _ringBuffer:                         *)
(*   - interruptOccurred (interrupt context) is the single producer: it    *)
(*     resynchronises on a start byte, stores one byte per call at         *)
(*     head()+_packetByteCount and publishes a packet with advanceHead;    *)
(*   - packetReady (work loop) is the single consumer: it drains every     *)
(*     queued packet, dispatching ALPS packets to process_packet and       *)
(*     skipping bare 3-byte PS/2 packets with advanceTail(3).              *)
(* The device side sends ALPS packets (a sync byte and PktSize-1 data      *)
(* bytes with bit 7 clear), and, on interleaving models, bare PS/2         *)
(* packets whose two delta bytes can take any value; a byte may be lost.   *)
(*                                                                         *)
(* Bytes are abstracted to the classes the framer tells apart:             *)
(*   SYNC  (b & mask0) = byte0, the profile's start byte (bit 7 set);      *)
(*   BARE  (b & 0xc8) = 0x08, a bare PS/2 start byte (bit 7 clear);        *)
(*   DATA  any other byte except 0x80;                                     *)
(*   X80   exactly 0x80.                                                   *)
(* For every profile of alps_model_data and setDefaults these classes are  *)
(* disjoint.  A data byte with bit 7 clear may or may not match the bare   *)
(* pattern; that choice is made where it matters, at cursor 0.            *)
(* Every stored byte keeps the ghost identity <<pid, idx>> of the device   *)
(* packet and position it came from; pid 0 is the zeroed initial buffer.   *)
(***************************************************************************)
EXTENDS Naturals, Sequences, SequencesExt

CONSTANTS
    PktSize,      \* modelData.pktsize: 6, or 8 for ALPS_PROTO_V4
    RingSize,     \* capacity in bytes of _ringBuffer
    Interleaved,  \* the device interleaves bare PS/2 packets
    MaxPackets,   \* bound on the packets the device sends
    MaxLost,      \* bound on the bytes lost on the wire
    DeltaClasses  \* byte classes a bare packet's delta bytes can take

ASSUME PktSize \in {6, 8}
ASSUME RingSize % PktSize = 0 /\ RingSize >= 2 * PktSize
ASSUME Interleaved \in BOOLEAN
ASSUME MaxPackets \in Nat /\ MaxLost \in Nat
ASSUME DeltaClasses \subseteq {"data", "sync", "x80"}

kPacketLengthSmall == 3

SYNC == "sync"
BARE == "bare"
DATA == "data"
X80  == "x80"

Entry(c, p, i) == [cls |-> c, pid |-> p, idx |-> i]
Entries == [cls : {SYNC, BARE, DATA}, pid : 0..MaxPackets, idx : 0..PktSize - 1]
Id(e) == <<e.pid, e.idx>>
Ids(s) == [k \in DOMAIN s |-> Id(s[k])]

VARIABLES
    wire,        \* bytes of the device's current packet not yet sent
    npk,         \* packets the device has started
    lost,        \* bytes lost so far
    sentAlps,    \* ghost: ALPS packets the device sent, as Ids sequences
    ring,        \* _ringBuffer contents
    head,        \* _ringBuffer head index (next packet slot)
    tail,        \* _ringBuffer tail index (oldest unconsumed byte)
    cursor,      \* _packetByteCount
    signalled,   \* interruptOccurred returned kPS2IR_packetReady
    draining,    \* packetReady is running its loop
    frames,      \* ghost: ALPS frames published by the producer, as Ids
    dispatched   \* ghost: packets passed to process_packet, as Ids

deviceVars == <<wire, npk, lost, sentAlps>>
vars == <<wire, npk, lost, sentAlps, ring, head, tail, cursor,
          signalled, draining, frames, dispatched>>

(* RingBuffer::count, RingBuffer::tail and the packet process_packet reads *)
(* contiguously from tail(); bytes past the array end are not the ring's.  *)
\* Seeded fault: the count forgets that head wraps before tail does.
CountNoWrap == IF head >= tail THEN head - tail ELSE 0
Count == (head + RingSize - tail) % RingSize
OOB == Entry(DATA, 0, 0)
TailPacket ==
    [i \in 1..PktSize |-> IF tail + i - 1 < RingSize THEN ring[tail + i - 1]
                                                     ELSE OOB]

TypeOK ==
    /\ wire \in Seq([cls : {SYNC, BARE, DATA, X80}, pid : 1..MaxPackets,
                     idx : 0..PktSize - 1])
    /\ npk \in 0..MaxPackets /\ lost \in 0..MaxLost
    /\ ring \in [0..RingSize - 1 -> Entries]
    /\ head \in 0..RingSize - 1 /\ tail \in 0..RingSize - 1
    /\ cursor \in 0..PktSize - 1
    /\ signalled \in BOOLEAN /\ draining \in BOOLEAN

Init ==
    /\ wire = <<>> /\ npk = 0 /\ lost = 0 /\ sentAlps = <<>>
    /\ ring = [i \in 0..RingSize - 1 |-> Entry(DATA, 0, 0)]
    /\ head = 0 /\ tail = 0 /\ cursor = 0
    /\ signalled = FALSE /\ draining = FALSE
    /\ frames = <<>> /\ dispatched = <<>>

-----------------------------------------------------------------------------
(* Device side.                                                            *)

AlpsPacket(p) ==
    <<Entry(SYNC, p, 0)>> \o [i \in 1..PktSize - 1 |-> Entry(DATA, p, i)]

SendAlpsPacket ==
    /\ wire = <<>> /\ npk < MaxPackets
    /\ wire' = AlpsPacket(npk + 1)
    /\ npk' = npk + 1
    /\ sentAlps' = Append(sentAlps, Ids(AlpsPacket(npk + 1)))
    /\ UNCHANGED <<lost, ring, head, tail, cursor, signalled, draining,
                   frames, dispatched>>

(* A bare PS/2 packet: start byte, then X and Y deltas.                   *)
SendBarePacket ==
    /\ Interleaved /\ wire = <<>> /\ npk < MaxPackets
    /\ \E dx, dy \in DeltaClasses :
          wire' = <<Entry(BARE, npk + 1, 0), Entry(dx, npk + 1, 1),
                    Entry(dy, npk + 1, 2)>>
    /\ npk' = npk + 1
    /\ UNCHANGED <<lost, sentAlps, ring, head, tail, cursor, signalled,
                   draining, frames, dispatched>>

LoseByte ==
    /\ wire /= <<>> /\ lost < MaxLost
    /\ wire' = Tail(wire)
    /\ lost' = lost + 1
    /\ UNCHANGED <<npk, sentAlps, ring, head, tail, cursor, signalled,
                   draining, frames, dispatched>>

-----------------------------------------------------------------------------
(* interruptOccurred(data), for the next byte on the wire.  The device     *)
(* cannot lap the consumer: the work loop drains the ring first.           *)

(* A byte at cursor 0 starts a packet if it matches the bare PS/2 pattern  *)
(* or the profile's start byte; any other byte is dropped (resync).        *)
IsPacketStart(b, matchesBare) == matchesBare \/ b.cls = SYNC

(* Seeded faults in the completion test: one byte late, one byte early,   *)
(* and the bare-pattern test on the first byte dropped.                    *)
PacketCompleteLate(n, first) ==
    n = PktSize + 1 \/ (n = kPacketLengthSmall /\ first.cls = BARE)
PacketCompleteEarly(n, first) ==
    n = PktSize - 1 \/ (n = kPacketLengthSmall /\ first.cls = BARE)
PacketCompleteAnyStart(n, first) == n = PktSize \/ n = kPacketLengthSmall

(* The packet at head() is complete: pktsize bytes, or 3 bytes of a packet *)
(* whose first byte matches the bare PS/2 pattern.                         *)
PacketComplete(n, first) ==
    n = PktSize \/ (n = kPacketLengthSmall /\ first.cls = BARE)

(* Class of a byte as stored: only its first byte can be BARE.             *)
Stored(b, matchesBare) ==
    Entry(IF cursor = 0 /\ matchesBare THEN BARE
          ELSE IF b.cls = SYNC THEN SYNC ELSE DATA, b.pid, b.idx)

InterruptOccurred ==
    /\ wire /= <<>>
    /\ Count + PktSize < RingSize
    /\ wire' = Tail(wire)
    /\ LET b == Head(wire) IN
       \E matchesBare \in IF b.cls = DATA THEN BOOLEAN ELSE {b.cls = BARE} :
         \/ /\ cursor = 0 /\ ~IsPacketStart(b, matchesBare)
            /\ UNCHANGED <<ring, head, cursor, signalled, frames>>
         \/ /\ cursor >= 1 /\ b.cls = X80
            /\ cursor' = 0
            /\ UNCHANGED <<ring, head, signalled, frames>>
         \/ /\ cursor = 0 => IsPacketStart(b, matchesBare)
            /\ cursor >= 1 => b.cls /= X80
            /\ LET ring2 == [ring EXCEPT ![head + cursor] = Stored(b, matchesBare)]
                   n     == cursor + 1
               IN
               /\ ring' = ring2
               /\ IF PacketComplete(n, ring2[head])
                  THEN /\ head' = (head + PktSize) % RingSize
                       /\ cursor' = 0
                       /\ signalled' = TRUE
                       /\ frames' = IF ring2[head].cls = BARE THEN frames
                                    ELSE Append(frames,
                                           Ids([i \in 1..n |-> ring2[head + i - 1]]))
                  ELSE /\ cursor' = n
                       /\ UNCHANGED <<head, signalled, frames>>
    /\ UNCHANGED <<npk, lost, sentAlps, tail, draining, dispatched>>

-----------------------------------------------------------------------------
(* packetReady, one loop iteration per step: the interrupt may preempt the *)
(* work loop between iterations.                                           *)

(* Seeded fault: the loop waits for more than one whole packet.           *)
DrainMoreStrict == Count > PktSize

(* The loop condition: a whole packet of pktsize bytes is queued.          *)
DrainMore == Count >= PktSize

(* A queued packet that does not start with the profile's byte is a bare  *)
(* PS/2 packet: it is skipped, and the tail moves by 3 bytes.              *)
BareSkip == kPacketLengthSmall

PacketReadyStart ==
    /\ signalled /\ ~draining
    /\ signalled' = FALSE /\ draining' = TRUE
    /\ UNCHANGED <<deviceVars, ring, head, tail, cursor, frames, dispatched>>

PacketReadyDispatch ==
    /\ draining /\ DrainMore
    /\ ring[tail].cls = SYNC
    /\ dispatched' = Append(dispatched, Ids(TailPacket))
    /\ tail' = (tail + PktSize) % RingSize
    /\ UNCHANGED <<deviceVars, ring, head, cursor, signalled, draining, frames>>

PacketReadySkipBare ==
    /\ draining /\ DrainMore
    /\ ring[tail].cls /= SYNC
    /\ tail' = (tail + BareSkip) % RingSize
    /\ UNCHANGED <<deviceVars, ring, head, cursor, signalled, draining,
                   frames, dispatched>>

PacketReadyEnd ==
    /\ draining /\ ~DrainMore
    /\ draining' = FALSE
    /\ UNCHANGED <<deviceVars, ring, head, tail, cursor, signalled,
                   frames, dispatched>>

Next ==
    \/ SendAlpsPacket \/ SendBarePacket \/ LoseByte
    \/ InterruptOccurred
    \/ PacketReadyStart \/ PacketReadyDispatch \/ PacketReadySkipBare
    \/ PacketReadyEnd

(* The work loop runs whenever it is signalled; the device may fall silent. *)
Fairness ==
    /\ WF_vars(PacketReadyStart) /\ WF_vars(PacketReadyDispatch)
    /\ WF_vars(PacketReadySkipBare) /\ WF_vars(PacketReadyEnd)

Spec == Init /\ [][Next]_vars /\ Fairness

-----------------------------------------------------------------------------
(* Properties.                                                             *)

(* The work loop hands process_packet exactly the ALPS frames that         *)
(* interruptOccurred published, each once, in order, none skipped: the     *)
(* advanceHead/advanceTail arithmetic of the two contexts stays aligned.   *)
FramesDispatchedInOrder == IsPrefix(dispatched, frames)

(* On a line that lost no byte, every ALPS packet the device sent reaches  *)
(* process_packet whole and in order, bare PS/2 packets interleaved or not. *)
NoAlpsPacketLost == lost = 0 => IsPrefix(dispatched, sentAlps)

(* Every frame interruptOccurred publishes is eventually dispatched by     *)
(* packetReady.                                                            *)
AllFramesDispatched ==
    \A k \in 1..MaxPackets : (Len(frames) >= k) ~> (Len(dispatched) >= k)

(* A packet published into the ring never stays there: whenever a whole   *)
(* packet is queued, packetReady eventually brings the ring below one      *)
(* packet again, whatever bytes were lost on the wire.                     *)
PacketsNotStranded == (Count >= PktSize) ~> (Count < PktSize)


-----------------------------------------------------------------------------
(* Refinement of ALPSPacketQueue.  A frame is mapped to the number of the  *)
(* pad's packet when it is that packet whole, with its bytes in order, and *)
(* to 0 (GARBLED) otherwise; the queue is lossy once a byte was lost.      *)

PacketOf(f) ==
    IF /\ Len(f) = PktSize /\ f[1][1] > 0
       /\ \A i \in 1..PktSize : f[i] = <<f[1][1], i - 1>>
    THEN f[1][1] ELSE 0

PacketNumbers(s) == [i \in 1..Len(s) |-> PacketOf(s[i])]

Queue == INSTANCE ALPSPacketQueue
            WITH Packets <- 1..MaxPackets, GARBLED <- 0,
                 sent <- PacketNumbers(sentAlps),
                 pub <- PacketNumbers(frames),
                 out <- PacketNumbers(dispatched),
                 lossy <- lost > 0

(* The framer and the drain loop together implement the packet queue: on  *)
(* a clean line interruptOccurred publishes exactly the pad's ALPS packets *)
(* in order, bare PS/2 packets interleaved or not, and packetReady hands   *)
(* each of them to process_packet once, in order and eventually, until the *)
(* line loses a byte.                                                      *)
RefinesPacketQueue == Queue!Spec
=============================================================================
