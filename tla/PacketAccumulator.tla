-------------------------- MODULE PacketAccumulator --------------------------
(***************************************************************************)
(* How readLoop cuts the byte stream of the socket into packets            *)
(* (packetAccumulator, channel.go).  The node sends each packet behind its *)
(* size; the socket hands the bytes over in chunks that respect no border. *)
(* MCWire checks it together with other parts that share no state.         *)
(***************************************************************************)
EXTENDS Integers, Sequences

CONSTANTS Sizes,    \* the sizes of the packets the node sends, in order, each an int32
          Payload,  \* the bytes of each: as many as its size, none if that is no size
          MaxChunk  \* the most bytes one Read returns (messageBufferSize)

MaxInt32 == 2147483647

(* What a node sends. *)
ASSUME PacketsAssumption ==
    /\ Sizes \in Seq(Int) /\ DOMAIN Payload = DOMAIN Sizes /\ MaxChunk \in Nat
    /\ \A k \in DOMAIN Sizes :
          /\ -MaxInt32 - 1 <= Sizes[k] /\ Sizes[k] <= MaxInt32
          /\ Payload[k] \in Seq(0..255)
          /\ Len(Payload[k]) = IF Sizes[k] < 1 THEN 0 ELSE Sizes[k]

VARIABLES pos,         \* bytes read from the socket so far
          buf,         \* pa.buf
          currentSize, \* pa.currentSize
          packets,     \* what data() has returned
          state        \* "read", "data" or "closed": where readLoop is

packetVars == <<pos, buf, currentSize, packets, state>>

IntBytes == 4

(* A size on the wire: little endian, two's complement. *)
SizeBytes(n) ==
    LET low == IF n < 0 THEN n + MaxInt32 + 1 ELSE n
    IN  <<low % 256, (low \div 256) % 256, ((low \div 256) \div 256) % 256,
          (((low \div 256) \div 256) \div 256) + (IF n < 0 THEN 128 ELSE 0)>>

(* int32(binary.LittleEndian.Uint32(..)) *)
Int32(b) ==
    LET low == b[1] + 256 * (b[2] + 256 * (b[3] + 256 * (b[4] % 128)))
    IN  IF b[4] >= 128 THEN low - MaxInt32 - 1 ELSE low

(* Where in the stream each packet ends, and the byte at each place. *)
PayloadBytes(k) == IF Sizes[k] < 1 THEN 0 ELSE Sizes[k]

Ends[k \in 0..Len(Sizes)] == IF k = 0 THEN 0 ELSE Ends[k - 1] + IntBytes + PayloadBytes(k)

PacketAt(i) == CHOOSE k \in 1..Len(Sizes) : Ends[k - 1] < i /\ i <= Ends[k]

ByteOf(k, j) == IF j <= IntBytes THEN SizeBytes(Sizes[k])[j] ELSE Payload[k][j - IntBytes]

Stream == [i \in 1..Ends[Len(Sizes)] |-> ByteOf(PacketAt(i), i - Ends[PacketAt(i) - 1])]

newPacketAccumulator ==
    /\ pos = 0 /\ buf = <<>> /\ currentSize = 0
    /\ packets = <<>> /\ state = "read"

(* append *)
Read == /\ state = "read" /\ state' = "data"
        /\ \E n \in 1..MaxChunk :
              /\ pos + n <= Len(Stream)
              /\ buf' = buf \o SubSeq(Stream, pos + 1, pos + n)
              /\ pos' = pos + n
        /\ UNCHANGED <<currentSize, packets>>

SizePending == currentSize <= 0

(* processData: the size of the next packet is taken off the buffer. *)
TakeSize == /\ state = "data" /\ SizePending /\ Len(buf) >= IntBytes
            /\ Int32(buf) >= 1
            /\ currentSize' = Int32(buf)
            /\ buf' = SubSeq(buf, IntBytes + 1, Len(buf))
            /\ UNCHANGED <<pos, packets, state>>

(* It panics on a size that is no size; readLoop recovers and closes. *)
BadSize == /\ state = "data" /\ SizePending /\ Len(buf) >= IntBytes
           /\ Int32(buf) < 1
           /\ state' = "closed"
           /\ UNCHANGED <<pos, buf, currentSize, packets>>

(* Mutant: what follows the packet in the buffer is dropped with it. *)
TakePacketDropRest == /\ state = "data" /\ ~SizePending /\ Len(buf) >= currentSize
                      /\ packets' = Append(packets, SubSeq(buf, 1, currentSize))
                      /\ buf' = <<>> /\ currentSize' = 0
                      /\ UNCHANGED <<pos, state>>

(* data: the packet, and what follows it in the buffer stays. *)
TakePacket == /\ state = "data" /\ ~SizePending /\ Len(buf) >= currentSize
              /\ packets' = Append(packets, SubSeq(buf, 1, currentSize))
              /\ buf' = SubSeq(buf, currentSize + 1, Len(buf))
              /\ currentSize' = 0
              /\ UNCHANGED <<pos, state>>

(* data returns nil: not enough bytes, back to the socket. *)
NeedMore == /\ state = "data" /\ state' = "read"
            /\ Len(buf) < IF SizePending THEN IntBytes ELSE currentSize
            /\ UNCHANGED <<pos, buf, currentSize, packets>>

PacketNext == Read \/ TakeSize \/ BadSize \/ TakePacket \/ NeedMore

PacketSpec == newPacketAccumulator /\ [][PacketNext]_packetVars

-----------------------------------------------------------------------------
(* Correctness.                                                            *)

(* The packets the node sends before its first illegal size. *)
LegalCount == CHOOSE n \in 0..Len(Sizes) : /\ \A k \in 1..n : Sizes[k] >= 1
                                           /\ n < Len(Sizes) => Sizes[n + 1] < 1

(* What data() returns are the packets the node sent, whole and in order,  *)
(* wherever the chunks end; readLoop goes back to the socket only when it  *)
(* has handed on every packet that has arrived; and an illegal size closes *)
(* the channel right there: nothing behind it is taken for a packet, and   *)
(* nothing before it is lost.                                              *)
PacketsIntact ==
    /\ packets = [k \in 1..Len(packets) |-> Payload[k]] /\ Len(packets) <= LegalCount
    /\ state = "read" => \A n \in 1..LegalCount : pos >= Ends[n] => Len(packets) >= n
    /\ state = "closed" => Len(packets) = LegalCount /\ LegalCount < Len(Sizes)
    /\ state = "read" /\ LegalCount < Len(Sizes) => pos < Ends[LegalCount] + IntBytes
=============================================================================
