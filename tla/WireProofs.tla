------------------------------ MODULE WireProofs ------------------------------
(***************************************************************************)
(* What three components keep of what crosses the wire, for any packets,   *)
(* chunks, keys, values, policies and features there are: the packet       *)
(* accumulator hands on the packets that were sent, whole and in order;    *)
(* a cache operation does what it means; and the two ends of a handshake   *)
(* agree on the features.                                                  *)
(***************************************************************************)
EXTENDS PacketAccumulator, CacheOperations, BitSet, SequenceTheorems, Induction

(***************************************************************************)
(* The packet accumulator.  The packets handed on are those that were      *)
(* sent, none is held back, and an illegal size ends the stream.  The      *)
(* invariant ties the buffer to its place in the stream.                   *)
(***************************************************************************)


-----------------------------------------------------------------------------
(* Sizes.                                                                  *)

LEMMA DigitsOf ==
    ASSUME NEW q \in Nat
    PROVE  \E d \in Nat, x \in 0 .. 255 : d = q \div 256 /\ x = q % 256 /\ q = 256 * d + x
<1>1. PICK d \in Int, x \in Int : d = q \div 256 /\ x = q % 256
  BY SMT
<1>2. q = 256 * d + x
  BY <1>1, SMT
<1>3. d >= 0 /\ 0 <= x /\ x < 256
  BY <1>1, SMT
<1> QED BY <1>1, <1>2, <1>3, SMT

(* A size is read as it was written, every int32 of them. *)
LEMMA SizeSurvives ==
    ASSUME NEW n \in Int, -MaxInt32 - 1 <= n, n <= MaxInt32, NEW b, \A j \in 1 .. 4 : b[j] = SizeBytes(n)[j]
    PROVE  Int32(b) = n
<1>1. PICK m \in Nat : m = MaxInt32
  BY SMT DEF MaxInt32
<1>2. PICK low \in Nat : low = (IF n < 0 THEN n + m + 1 ELSE n) /\ low <= m
  BY <1>1
<1>3. PICK q1 \in Nat, x1 \in 0 .. 255 : q1 = low \div 256 /\ x1 = low % 256 /\ low = 256 * q1 + x1
  BY DigitsOf
<1>4. PICK q2 \in Nat, x2 \in 0 .. 255 : q2 = q1 \div 256 /\ x2 = q1 % 256 /\ q1 = 256 * q2 + x2
  BY DigitsOf
<1>5. PICK q3 \in Nat, x3 \in 0 .. 255 : q3 = q2 \div 256 /\ x3 = q2 % 256 /\ q2 = 256 * q3 + x3
  BY DigitsOf
<1>6. q3 < 128
  BY <1>1, <1>2, <1>3, <1>4, <1>5, SMT DEF MaxInt32
<1>7. PICK s \in {0, 128} : s = IF n < 0 THEN 128 ELSE 0
  OBVIOUS
<1>8. b[1] = x1 /\ b[2] = x2 /\ b[3] = x3 /\ b[4] = q3 + s
  BY <1>1, <1>2, <1>3, <1>4, <1>5, <1>7 DEF SizeBytes
<1>9. b[4] % 128 = q3 /\ (b[4] >= 128 <=> n < 0)
  BY <1>6, <1>7, <1>8
<1>10. b[1] + 256 * (b[2] + 256 * (b[3] + 256 * (b[4] % 128))) = low
  BY <1>3, <1>4, <1>5, <1>8, <1>9
<1>11. Int32(b) = IF b[4] >= 128 THEN low - m - 1 ELSE low
  BY <1>1, <1>10 DEF Int32
<1> QED BY <1>2, <1>9, <1>11

-----------------------------------------------------------------------------
(* The stream: packets one behind the other.                               *)

LEMMA EndsAre ==
    /\ Ends \in [0 .. Len(Sizes) -> Nat] /\ Ends[0] = 0
    /\ \A k \in 1 .. Len(Sizes) : Ends[k] = Ends[k - 1] + IntBytes + Len(Payload[k])
<1> DEFINE R(h) == h = [k \in 0 .. Len(Sizes) |-> IF k = 0 THEN 0 ELSE h[k - 1] + IntBytes + PayloadBytes(k)]
<1>1. PICK n \in Nat : n = Len(Sizes) /\ DOMAIN Sizes = 1 .. n
  BY PacketsAssumption
<1>2. PICK F \in [Nat \X (1 .. n) -> Nat] : \A x \in Nat, k \in 1 .. n : F[<<x, k>>] = x + IntBytes + PayloadBytes(k)
  <2>1. \A k \in 1 .. n : PayloadBytes(k) \in Nat
    BY <1>1, PacketsAssumption DEF PayloadBytes
  <2>2. PICK F : F = [y \in Nat \X (1 .. n) |-> y[1] + IntBytes + PayloadBytes(y[2])]
    OBVIOUS
  <2>3. F \in [Nat \X (1 .. n) -> Nat]
    BY <2>1, <2>2 DEF IntBytes
  <2> QED BY <2>2, <2>3
<1>3. PICK g : Recurs(g, Nat, 0, n, F)
  BY RecursionExists
<1>4. g \in [0 .. n -> Nat] /\ g[0] = 0 /\ \A k \in 1 .. n : g[k] = g[k - 1] + IntBytes + PayloadBytes(k)
  <2>1. g \in [0 .. n -> Nat] /\ g[0] = 0 /\ \A k \in 1 .. n : g[k] = F[<<g[k - 1], k>>]
    BY <1>3 DEF Recurs
  <2>2. \A k \in 1 .. n : k - 1 \in 0 .. n
    BY <1>1
  <2> QED BY <1>2, <2>1, <2>2
<1>5. R(g)
  <2>1. g = [k \in 0 .. Len(Sizes) |-> g[k]]
    BY <1>1, <1>4
  <2>2. \A k \in 0 .. Len(Sizes) : g[k] = IF k = 0 THEN 0 ELSE g[k - 1] + IntBytes + PayloadBytes(k)
    BY <1>1, <1>4
  <2> QED BY <2>1, <2>2
<1>6. R(Ends)
  <2>1. Ends = CHOOSE h : R(h)
    BY DEF Ends
  <2> HIDE DEF R
  <2> QED BY <1>5, <2>1
<1>7. \A k \in 0 .. n : Ends[k] = IF k = 0 THEN 0 ELSE Ends[k - 1] + IntBytes + Len(Payload[k])
  <2>1. \A k \in 1 .. n : Len(Payload[k]) = PayloadBytes(k)
    BY <1>1, PacketsAssumption DEF PayloadBytes
  <2>2. \A k \in 0 .. n : Ends[k] = IF k = 0 THEN 0 ELSE Ends[k - 1] + IntBytes + PayloadBytes(k)
    BY <1>1, <1>6
  <2>3. \A k \in 0 .. n : k # 0 => k \in 1 .. n
    BY <1>1
  <2> HIDE DEF R
  <2> QED BY <2>1, <2>2, <2>3
<1>8. Ends = [k \in 0 .. n |-> Ends[k]]
  BY <1>1, <1>6
<1> HIDE DEF R
<1> DEFINE T == {k \in Nat : k <= n => Ends[k] \in Nat}
<1>9. 0 \in T
  BY <1>1, <1>7
<1>10. ASSUME NEW k \in Nat, k \in T
       PROVE  k + 1 \in T
  <2>1. SUFFICES ASSUME k + 1 <= n
                 PROVE  Ends[k + 1] \in Nat
    OBVIOUS
  <2>2. k + 1 \in 0 .. n /\ k + 1 # 0 /\ (k + 1) - 1 = k /\ Ends[k] \in Nat /\ k + 1 \in 1 .. n
    BY <1>1, <1>10, <2>1
  <2>3. Ends[k + 1] = Ends[k] + IntBytes + Len(Payload[k + 1])
    BY <1>7, <2>2
  <2>4. Len(Payload[k + 1]) \in Nat
    BY <1>1, <2>2, PacketsAssumption
  <2> QED BY <2>2, <2>3, <2>4 DEF IntBytes
<1> HIDE DEF T
<1>11. \A k \in Nat : k \in T
  BY <1>9, <1>10, InductionOnNat
<1>12. Ends \in [0 .. n -> Nat]
  BY <1>8, <1>11 DEF T
<1>13. \A k \in 1 .. n : k \in 0 .. n /\ k # 0
  BY <1>1
<1> QED BY <1>1, <1>7, <1>12, <1>13

(* Of two packets the later ends later, by its size at least. *)
LEMMA EndsGrow ==
    ASSUME NEW k \in 0 .. Len(Sizes), NEW m \in k .. Len(Sizes)
    PROVE  Ends[k] <= Ends[m] /\ (k < m => Ends[k] + IntBytes + Len(Payload[k + 1]) <= Ends[m])
<1>0. PICK n \in Nat : n = Len(Sizes) /\ DOMAIN Sizes = 1 .. n /\ \A i \in 1 .. n : Len(Payload[i]) \in Nat
  BY PacketsAssumption
<1> DEFINE After(i) == Ends[k] <= Ends[i] /\ (k < i => Ends[k] + IntBytes + Len(Payload[k + 1]) <= Ends[i])
           T == {i \in Nat : After(i)}
<1>1. k \in T
  BY <1>0, EndsAre
<1>2. ASSUME NEW i \in Nat, k <= i, i < n, i \in T
      PROVE  i + 1 \in T
  <2>1. i + 1 \in 1 .. n /\ (i + 1) - 1 = i /\ i \in 0 .. n /\ i + 1 \in 0 .. n
    BY <1>2
  <2>2. Ends[i + 1] = Ends[i] + IntBytes + Len(Payload[i + 1])
    BY <1>0, <2>1, EndsAre
  <2>3. Ends[i + 1] \in Nat /\ Ends[i] \in Nat /\ Ends[k] \in Nat /\ Len(Payload[i + 1]) \in Nat
    BY <1>0, <2>1, EndsAre
  <2>4. Ends[k] <= Ends[i] /\ (k < i => Ends[k] + IntBytes + Len(Payload[k + 1]) <= Ends[i])
    BY <1>2
  <2>5. Ends[k] <= Ends[i + 1]
    BY <2>2, <2>3, <2>4 DEF IntBytes
  <2>6. Ends[k] + IntBytes + Len(Payload[k + 1]) <= Ends[i + 1]
    <3>1. CASE i = k
      <4>1. PICK a \in Int, y \in Int : a = Ends[k] /\ y = Len(Payload[k + 1])
        BY <2>3, <3>1
      <4>2. Ends[i + 1] = a + IntBytes + y
        BY <2>2, <3>1, <4>1
      <4> QED BY <4>1, <4>2, SMT DEF IntBytes
    <3>2. CASE i # k
      <4>1. k < i /\ k + 1 \in 1 .. n
        BY <1>0, <1>2, <3>2
      <4>2. Len(Payload[k + 1]) \in Nat
        BY <1>0, <4>1
      <4>3. PICK a \in Int, b \in Int, c \in Int, x \in Int : a = Ends[k] /\ b = Ends[i] /\ c = Ends[i + 1] /\ x = Len(Payload[k + 1])
        <5>1. Ends[k] \in Int /\ Ends[i] \in Int /\ Ends[i + 1] \in Int /\ Len(Payload[k + 1]) \in Int
          BY <2>3, <4>2
        <5> QED BY <5>1
      <4>4. PICK y \in Nat : y = Len(Payload[i + 1])
        BY <2>3
      <4>5. a + IntBytes + x <= b
        BY <2>4, <4>1, <4>3
      <4>6. c = b + IntBytes + y
        BY <2>2, <4>3, <4>4
      <4>7. a + IntBytes + x <= c
        BY <4>5, <4>6, SMT DEF IntBytes
      <4> QED BY <4>3, <4>7
    <3> QED BY <3>1, <3>2
  <2> QED BY <2>5, <2>6
<1> HIDE DEF T
<1>3. PICK a \in Nat, b \in Nat : a = k /\ b = n
  <2>1. k \in Nat
    BY <1>0
  <2> QED BY <1>0, <2>1
<1>4. a \in T /\ \A i \in Nat : a <= i /\ i < b /\ i \in T => i + 1 \in T
  BY <1>1, <1>2, <1>3
<1>5. \A i \in a .. b : i \in T
  BY <1>4, InductionUpTo
<1>6. m \in T
  BY <1>0, <1>3, <1>5
<1> QED BY <1>6 DEF T

(* The k-th packet lies in the stream behind those before it: its size, then its bytes. *)
LEMMA StreamIsPackets ==
    ASSUME NEW k \in 1 .. Len(Sizes), NEW j \in 1 .. (IntBytes + Len(Payload[k]))
    PROVE  /\ Ends[k - 1] + j \in 1 .. Len(Stream)
           /\ Stream[Ends[k - 1] + j] = ByteOf(k, j)
<1>0. PICK n \in Nat : n = Len(Sizes) /\ DOMAIN Sizes = 1 .. n /\ \A i \in 1 .. n : Len(Payload[i]) \in Nat
  BY PacketsAssumption
<1>1. /\ k - 1 \in 0 .. n /\ k \in 0 .. n /\ n \in k .. n /\ Ends[k - 1] \in Nat /\ Ends[k] \in Nat /\ Ends[n] \in Nat
      /\ Ends[k] = Ends[k - 1] + IntBytes + Len(Payload[k])
  <2>1. k - 1 \in 0 .. n /\ k \in 0 .. n /\ n \in k .. n /\ n \in 0 .. n
    BY <1>0
  <2>2. \A i \in 0 .. n : Ends[i] \in Nat
    BY <1>0, EndsAre
  <2>3. Ends[k] = Ends[k - 1] + IntBytes + Len(Payload[k])
    BY EndsAre
  <2> QED BY <2>1, <2>2, <2>3
<1>2. PICK i \in Nat : i = Ends[k - 1] + j
  BY <1>0, <1>1 DEF IntBytes
<1>3. Ends[k - 1] < i /\ i <= Ends[k] /\ i - Ends[k - 1] = j
  <2>1. PICK a \in Nat, b \in Nat, x \in Nat : a = Ends[k - 1] /\ b = Ends[k] /\ x = Len(Payload[k])
    BY <1>0, <1>1
  <2>2. b = a + IntBytes + x /\ i = a + j /\ j \in 1 .. (IntBytes + x)
    BY <1>1, <1>2, <2>1
  <2>3. a < i /\ i <= b /\ i - a = j
    BY <2>2, SMT DEF IntBytes
  <2> QED BY <2>1, <2>3
<1>4. Ends[k] <= Ends[n]
  BY <1>0, <1>1, EndsGrow
<1>5. i \in 1 .. Ends[n]
  BY <1>1, <1>3, <1>4
<1>6. ASSUME NEW m \in 1 .. n, Ends[m - 1] < i, i <= Ends[m]
      PROVE  m = k
  <2>0. m - 1 \in 0 .. n /\ m \in 0 .. n /\ Ends[m - 1] \in Nat /\ Ends[m] \in Nat
    BY <1>0, EndsAre
  <2>1. CASE m < k
    <3>1. k - 1 \in m .. n
      BY <1>0, <1>1, <2>1
    <3>2. Ends[m] <= Ends[k - 1]
      BY <1>0, <2>0, <3>1, EndsGrow
    <3> QED BY <1>1, <1>3, <1>6, <2>0, <3>2
  <2>2. CASE k < m
    <3>1. m - 1 \in k .. n
      BY <1>0, <1>1, <2>0, <2>2
    <3>2. Ends[k] <= Ends[m - 1]
      BY <1>0, <1>1, <3>1, EndsGrow
    <3> QED BY <1>1, <1>3, <1>6, <2>0, <3>2
  <2> QED BY <1>0, <2>1, <2>2
<1>7. PacketAt(i) = k
  BY <1>0, <1>3, <1>6 DEF PacketAt
<1>8. Len(Stream) = Ends[n] /\ Stream[i] = ByteOf(PacketAt(i), i - Ends[PacketAt(i) - 1])
  <2>1. Stream = [x \in 1 .. Ends[n] |-> ByteOf(PacketAt(x), x - Ends[PacketAt(x) - 1])]
    BY <1>0 DEF Stream
  <2> HIDE DEF PacketAt, ByteOf
  <2>2. DOMAIN Stream = 1 .. Ends[n] /\ Stream[i] = ByteOf(PacketAt(i), i - Ends[PacketAt(i) - 1])
    BY <1>5, <2>1
  <2> QED BY <1>1, <2>1, <2>2
<1> QED BY <1>2, <1>3, <1>5, <1>7, <1>8

LEMMA StreamEnds ==
    Len(Stream) = Ends[Len(Sizes)] /\ DOMAIN Stream = 1 .. Len(Stream) /\ Len(Stream) \in Nat
<1>1. PICK e \in Nat : e = Ends[Len(Sizes)]
  <2>1. Len(Sizes) \in 0 .. Len(Sizes)
    BY PacketsAssumption
  <2> QED BY <2>1, EndsAre
<1>2. Stream = [i \in 1 .. e |-> ByteOf(PacketAt(i), i - Ends[PacketAt(i) - 1])]
  BY <1>1 DEF Stream
<1>3. DOMAIN Stream = 1 .. e /\ Len(Stream) = e
  BY <1>2
<1> QED BY <1>1, <1>3

LEMMA LegalCountIs ==
    /\ LegalCount \in 0 .. Len(Sizes) /\ \A k \in 1 .. LegalCount : Sizes[k] >= 1
    /\ LegalCount < Len(Sizes) => Sizes[LegalCount + 1] < 1
<1> DEFINE Stops == {n \in Nat : n <= Len(Sizes) /\ (n = Len(Sizes) \/ Sizes[n + 1] < 1)}
           Is(n) == (\A k \in 1 .. n : Sizes[k] >= 1) /\ (n < Len(Sizes) => Sizes[n + 1] < 1)
<1>0. Len(Sizes) \in Nat /\ \A k \in 1 .. Len(Sizes) : Sizes[k] \in Int
  BY PacketsAssumption
<1>1. PICK n \in Stops : \A m \in Stops : n <= m
  <2>1. Stops \subseteq Nat /\ Len(Sizes) \in Stops
    BY <1>0
  <2> HIDE DEF Stops
  <2> QED BY <2>1, LeastNumber
<1>2. ASSUME NEW k \in 1 .. n, ~(Sizes[k] >= 1)
      PROVE  FALSE
  <2>1. k - 1 \in Nat /\ k - 1 < n /\ (k - 1) + 1 = k /\ Sizes[k] < 1
    BY <1>0, <1>1, <1>2
  <2>2. k - 1 \in Stops
    BY <1>1, <2>1
  <2> HIDE DEF Stops
  <2>3. n <= k - 1
    BY <1>1, <2>2
  <2>4. n \in Nat
    BY <1>1 DEF Stops
  <2> QED BY <2>1, <2>3, <2>4
<1>3. n \in 0 .. Len(Sizes) /\ Is(n)
  BY <1>0, <1>1, <1>2
<1>4. LegalCount = CHOOSE m \in 0 .. Len(Sizes) : Is(m)
  BY DEF LegalCount
<1> HIDE DEF Is
<1>5. LegalCount \in 0 .. Len(Sizes) /\ Is(LegalCount)
  BY <1>3, <1>4
<1> QED BY <1>5 DEF Is

-----------------------------------------------------------------------------
(* The invariant.                                                          *)

(* The buffer is the stretch of the stream before pos. *)
Buffered ==
    /\ buf \in Seq({Stream[i] : i \in 1 .. Len(Stream)})
    /\ pos \in Nat /\ pos <= Len(Stream) /\ Len(buf) <= pos
    /\ \A i \in 1 .. Len(buf) : buf[i] = Stream[pos - Len(buf) + i]

(* What has been handed on are the first packets of the stream. *)
HandedOn ==
    /\ packets \in Seq(Seq(0 .. 255)) /\ Len(packets) <= LegalCount
    /\ \A k \in 1 .. Len(packets) : packets[k] = Payload[k]

(* The buffer starts where a packet does, or behind the size of one. *)
AtBorder ==
    \/ currentSize = 0 /\ pos - Len(buf) = Ends[Len(packets)]
    \/ /\ Len(packets) < LegalCount /\ currentSize = Sizes[Len(packets) + 1]
       /\ pos - Len(buf) = Ends[Len(packets)] + IntBytes

(* readLoop waits for the socket when the buffer holds too little, and it  *)
(* has stopped at a size that is none.                                     *)
Waiting ==
    /\ state \in {"read", "data", "closed"}
    /\ state = "read" => Len(buf) < IF SizePending THEN IntBytes ELSE currentSize
    /\ state = "closed" => Len(packets) = LegalCount /\ LegalCount < Len(Sizes)

Cut == Buffered /\ HandedOn /\ AtBorder /\ Waiting

(* Bytes taken off the front of the buffer leave it a stretch of the stream. *)
LEMMA FrontTaken ==
    ASSUME Buffered, NEW d \in Nat, d <= Len(buf), buf' = SubSeq(buf, d + 1, Len(buf)), pos' = pos
    PROVE  Buffered' /\ Len(buf') = Len(buf) - d
<1> DEFINE B == {Stream[i] : i \in 1 .. Len(Stream)}
<1>1. buf \in Seq(B) /\ pos \in Nat /\ pos <= Len(Stream) /\ Len(buf) <= pos
  BY DEF Buffered
<1>2. \A i \in 1 .. Len(buf) : buf[i] = Stream[pos - Len(buf) + i]
  BY DEF Buffered
<1> HIDE DEF B
<1>3. PICK l \in Nat, p \in Nat : l = Len(buf) /\ p = pos /\ d <= l /\ l <= p
  BY <1>1
<1>4. /\ buf' \in Seq(B) /\ Len(buf') = l - d
      /\ \A i \in 1 .. (l - d) : buf'[i] = buf[d + i]
  BY <1>1, <1>3
<1>5. ASSUME NEW i \in 1 .. (l - d)
      PROVE  buf'[i] = Stream[p - (l - d) + i]
  <2>1. d + i \in 1 .. l /\ p - l + (d + i) = p - (l - d) + i
    BY <1>3
  <2> QED BY <1>2, <1>3, <1>4, <2>1
<1>6. l - d <= p /\ pos' = p /\ p <= Len(Stream)
  BY <1>1, <1>3
<1> QED BY <1>3, <1>4, <1>5, <1>6 DEF Buffered, B

(* A size at the front of the buffer is that of the next packet. *)
LEMMA SizeIsNext ==
    ASSUME Buffered, HandedOn, AtBorder, SizePending, Len(buf) >= IntBytes
    PROVE  /\ currentSize = 0 /\ pos - Len(buf) = Ends[Len(packets)]
           /\ Len(packets) < Len(Sizes) /\ Int32(buf) = Sizes[Len(packets) + 1]
<1>0. PICK m \in Nat, c \in Nat : /\ m = Len(Sizes) /\ c = LegalCount /\ c <= m /\ DOMAIN Sizes = 1 .. m
                                  /\ \A k \in 1 .. c : Sizes[k] >= 1
                                  /\ \A k \in 1 .. m : Sizes[k] \in Int
  BY LegalCountIs, PacketsAssumption
<1>1. PICK n \in Nat : n = Len(packets) /\ n <= c
  BY <1>0 DEF HandedOn
<1>2. PICK l \in Nat, p \in Nat : l = Len(buf) /\ p = pos /\ l <= p /\ p <= Len(Stream) /\ l >= 4
  BY DEF Buffered, IntBytes
<1>3. currentSize = 0 /\ p - l = Ends[n]
  <2>1. CASE n < c /\ currentSize = Sizes[n + 1]
    <3>1. n + 1 \in 1 .. c /\ n + 1 \in 1 .. m
      BY <1>0, <2>1
    <3>2. Sizes[n + 1] >= 1 /\ Sizes[n + 1] \in Int
      BY <1>0, <3>1
    <3> QED BY <2>1, <3>2 DEF SizePending
  <2> QED BY <1>0, <1>1, <1>2, <2>1 DEF AtBorder
<1>4. n < m
  <2>1. Len(Stream) = Ends[m]
    BY <1>0, StreamEnds
  <2> QED BY <1>0, <1>1, <1>2, <1>3, <2>1
<1>5. n + 1 \in 1 .. m /\ (n + 1) - 1 = n
  BY <1>4
<1>6. ASSUME NEW j \in 1 .. 4
      PROVE  buf[j] = SizeBytes(Sizes[n + 1])[j]
  <2>1. j \in 1 .. l
    BY <1>2
  <2>2. buf[j] = Stream[Ends[n] + j]
    BY <1>2, <1>3, <2>1 DEF Buffered
  <2>3. PICK x \in Nat : x = Len(Payload[n + 1])
    BY <1>0, <1>5, PacketsAssumption
  <2>4. j \in 1 .. (IntBytes + x)
    BY DEF IntBytes
  <2>5. Stream[Ends[n] + j] = ByteOf(n + 1, j)
    BY <1>0, <1>5, <2>3, <2>4, StreamIsPackets
  <2>6. ByteOf(n + 1, j) = SizeBytes(Sizes[n + 1])[j]
    BY DEF ByteOf, IntBytes
  <2> QED BY <2>2, <2>5, <2>6
<1>7. PICK z \in Int : z = Sizes[n + 1] /\ -MaxInt32 - 1 <= z /\ z <= MaxInt32
  BY <1>0, <1>5, PacketsAssumption
<1>8. Int32(buf) = z
  BY <1>6, <1>7, SizeSurvives
<1> QED BY <1>0, <1>1, <1>2, <1>3, <1>4, <1>7, <1>8

(* A size that has been read has its packet behind it. *)
LEMMA PacketIsNext ==
    ASSUME Buffered, HandedOn, AtBorder, ~SizePending
    PROVE  /\ Len(packets) < LegalCount /\ Len(packets) + 1 \in 1 .. Len(Sizes)
           /\ currentSize \in Nat /\ currentSize = Len(Payload[Len(packets) + 1])
           /\ pos - Len(buf) = Ends[Len(packets)] + IntBytes
           /\ currentSize <= Len(buf) => SubSeq(buf, 1, currentSize) = Payload[Len(packets) + 1]
<1>0. PICK m \in Nat, c \in Nat : /\ m = Len(Sizes) /\ c = LegalCount /\ c <= m /\ DOMAIN Sizes = 1 .. m
                                  /\ \A k \in 1 .. c : Sizes[k] >= 1
                                  /\ \A k \in 1 .. m : Sizes[k] \in Int /\ Payload[k] \in Seq(0 .. 255)
                                  /\ \A k \in 1 .. m : Len(Payload[k]) = IF Sizes[k] < 1 THEN 0 ELSE Sizes[k]
  <2>1. Len(Sizes) \in Nat /\ LegalCount \in Nat /\ LegalCount <= Len(Sizes)
    <3>1. Len(Sizes) \in Nat
      BY PacketsAssumption
    <3> QED BY <3>1, LegalCountIs
  <2>2. PICK m \in Nat, c \in Nat : m = Len(Sizes) /\ c = LegalCount
    BY <2>1
  <2>3. DOMAIN Sizes = 1 .. m /\ \A k \in 1 .. c : Sizes[k] >= 1
    BY <2>2, LegalCountIs, PacketsAssumption
  <2>4. \A k \in 1 .. m : Sizes[k] \in Int /\ Payload[k] \in Seq(0 .. 255)
    BY <2>3, PacketsAssumption
  <2>5. \A k \in 1 .. m : Len(Payload[k]) = IF Sizes[k] < 1 THEN 0 ELSE Sizes[k]
    BY <2>3, PacketsAssumption
  <2> QED BY <2>1, <2>2, <2>3, <2>4, <2>5
<1>1. PICK n \in Nat : n = Len(packets) /\ n <= c
  BY <1>0 DEF HandedOn
<1>2. PICK l \in Nat, p \in Nat : l = Len(buf) /\ p = pos /\ l <= p /\ p <= Len(Stream)
  BY DEF Buffered
<1>3. n < c /\ currentSize = Sizes[n + 1] /\ p - l = Ends[n] + IntBytes
  BY <1>0, <1>1, <1>2 DEF AtBorder, SizePending
<1>4. n + 1 \in 1 .. c /\ n + 1 \in 1 .. m /\ (n + 1) - 1 = n
  BY <1>0, <1>3
<1>5. PICK s \in Nat : s = currentSize /\ s = Len(Payload[n + 1])
  BY <1>0, <1>3, <1>4
<1>6. PICK e \in Nat : e = Ends[n]
  <2>1. n \in 0 .. m
    BY <1>0, <1>4
  <2> QED BY <1>0, <2>1, EndsAre
<1>7. ASSUME s <= l
      PROVE  SubSeq(buf, 1, s) = Payload[n + 1]
  <2>1. ASSUME NEW j \in 1 .. s
        PROVE  buf[j] = Payload[n + 1][j]
    <3>1. j \in 1 .. l /\ p - l + j = e + (j + IntBytes)
      BY <1>2, <1>3, <1>6, <1>7 DEF IntBytes
    <3>2. buf[j] = Stream[e + (j + IntBytes)]
      BY <1>2, <3>1 DEF Buffered
    <3>3. j + IntBytes \in 1 .. (IntBytes + s)
      BY DEF IntBytes
    <3>4. Stream[e + (j + IntBytes)] = ByteOf(n + 1, j + IntBytes)
      BY <1>0, <1>4, <1>5, <1>6, <3>3, StreamIsPackets
    <3>5. ByteOf(n + 1, j + IntBytes) = Payload[n + 1][j]
      BY DEF ByteOf, IntBytes
    <3> QED BY <3>2, <3>4, <3>5
  <2>2. PICK q : q = Payload[n + 1] /\ q \in Seq(0 .. 255) /\ Len(q) = s
    BY <1>0, <1>4, <1>5
  <2>3. PICK B : buf \in Seq(B) /\ Len(buf) = l
    BY <1>2 DEF Buffered
  <2>4. SubSeq(buf, 1, s) \in Seq(B) /\ Len(SubSeq(buf, 1, s)) = s /\ \A j \in 1 .. s : SubSeq(buf, 1, s)[j] = buf[j]
    BY <1>7, <2>3
  <2>5. \A j \in 1 .. s : SubSeq(buf, 1, s)[j] = q[j]
    BY <2>1, <2>2, <2>4
  <2>6. PICK t : t = SubSeq(buf, 1, s)
    OBVIOUS
  <2>7. t = [j \in 1 .. s |-> t[j]] /\ q = [j \in 1 .. s |-> q[j]]
    <3>1. PICK C : q \in Seq(C)
      BY <2>2
    <3>2. q = [j \in 1 .. Len(q) |-> q[j]]
      BY <3>1
    <3>3. t = [j \in 1 .. Len(t) |-> t[j]]
      BY <2>4, <2>6
    <3> QED BY <2>2, <2>4, <2>6, <3>2, <3>3
  <2>8. t = q
    BY <2>5, <2>6, <2>7
  <2> QED BY <2>2, <2>6, <2>8
<1> QED BY <1>0, <1>1, <1>2, <1>3, <1>4, <1>5, <1>7

-----------------------------------------------------------------------------
(* Every step keeps it. *)
LEMMA InitCut == ASSUME newPacketAccumulator PROVE Cut
<1>1. Ends[0] = 0
  BY EndsAre
<1>2. LegalCount \in Nat /\ Len(Stream) \in Nat
  <2>1. Len(Sizes) \in Nat
    BY PacketsAssumption
  <2> QED BY <2>1, LegalCountIs, StreamEnds
<1>3. Buffered /\ HandedOn
  BY <1>2 DEF newPacketAccumulator, Buffered, HandedOn
<1>4. AtBorder /\ Waiting
  BY <1>1 DEF newPacketAccumulator, AtBorder, Waiting, SizePending, IntBytes
<1> QED BY <1>3, <1>4 DEF Cut

LEMMA ReadCut == ASSUME Cut, Read PROVE Cut'
<1> USE DEF Cut
<1> DEFINE B == {Stream[i] : i \in 1 .. Len(Stream)}
<1>1. PICK n \in 1 .. MaxChunk : /\ pos + n <= Len(Stream) /\ pos' = pos + n
                                 /\ buf' = buf \o SubSeq(Stream, pos + 1, pos + n)
  BY DEF Read
<1>2. n \in Nat
  BY PacketsAssumption
<1>3. PICK l \in Nat, p \in Nat, t \in Nat : l = Len(buf) /\ p = pos /\ l <= p /\ t = Len(Stream) /\ p + n <= t
  <2>1. Len(Stream) \in Nat
    BY StreamEnds
  <2>2. pos \in Nat /\ Len(buf) \in Nat /\ Len(buf) <= pos
    BY DEF Buffered
  <2> QED BY <1>1, <2>1, <2>2
<1>4. buf \in Seq(B) /\ \A i \in 1 .. l : buf[i] = Stream[p - l + i]
  BY <1>3 DEF Buffered
<1>5. Stream \in Seq(B)
  <2>1. Stream = [i \in 1 .. t |-> Stream[i]]
    BY <1>3, StreamEnds DEF Stream
  <2> QED BY <1>3, <2>1
<1> HIDE DEF B
<1>6. PICK x : x = SubSeq(Stream, p + 1, p + n)
  OBVIOUS
<1>7. x \in Seq(B) /\ Len(x) = n /\ \A i \in 1 .. n : x[i] = Stream[p + i]
  BY <1>2, <1>3, <1>5, <1>6
<1>8. buf' = buf \o x /\ pos' = p + n
  BY <1>1, <1>3, <1>6
<1>9. /\ buf' \in Seq(B) /\ Len(buf') = l + n
      /\ \A i \in 1 .. (l + n) : buf'[i] = IF i <= l THEN buf[i] ELSE x[i - l]
  <2>1. PICK b \in Seq(B) : b = buf /\ Len(b) = l
    BY <1>3, <1>4
  <2>2. b \o x \in Seq(B) /\ Len(b \o x) = l + n
    BY <1>2, <1>7, <2>1
  <2>3. \A i \in 1 .. (l + n) : (b \o x)[i] = IF i <= l THEN b[i] ELSE x[i - l]
    BY <1>2, <1>3, <1>7, <2>1
  <2> QED BY <1>8, <2>1, <2>2, <2>3
<1>10. ASSUME NEW i \in 1 .. (l + n)
       PROVE  buf'[i] = Stream[(p + n) - (l + n) + i]
  <2>1. (p + n) - (l + n) + i = p - l + i
    BY <1>2, <1>3
  <2>2. CASE i <= l
    <3>1. i \in 1 .. l
      BY <1>2, <1>3, <2>2
    <3> QED BY <1>4, <1>9, <2>1, <2>2, <3>1
  <2>3. CASE ~(i <= l)
    <3>1. i - l \in 1 .. n /\ p + (i - l) = p - l + i
      BY <1>2, <1>3, <2>3
    <3> QED BY <1>7, <1>9, <2>1, <2>3, <3>1
  <2> QED BY <2>2, <2>3
<1>11. Buffered'
  <2>1. p + n \in Nat /\ l + n <= p + n
    BY <1>2, <1>3
  <2> QED BY <1>3, <1>8, <1>9, <1>10, <2>1 DEF Buffered, B
<1>12. pos' - Len(buf') = pos - Len(buf)
  BY <1>2, <1>3, <1>8, <1>9
<1>13. HandedOn' /\ AtBorder' /\ Waiting'
  BY <1>12 DEF Read, HandedOn, AtBorder, Waiting
<1> QED BY <1>11, <1>13

LEMMA TakeSizeCut == ASSUME Cut, TakeSize PROVE Cut'
<1> USE DEF Cut
<1>0. SizePending /\ Len(buf) >= IntBytes /\ Int32(buf) >= 1
  BY DEF TakeSize
<1>1. /\ pos - Len(buf) = Ends[Len(packets)]
      /\ Len(packets) < Len(Sizes) /\ Int32(buf) = Sizes[Len(packets) + 1]
  BY <1>0, SizeIsNext
<1>2. Buffered' /\ Len(buf') = Len(buf) - IntBytes
  BY <1>0, FrontTaken DEF TakeSize, IntBytes
<1>3. PICK n \in Nat, c \in Nat, m \in Nat : /\ n = Len(packets) /\ c = LegalCount /\ m = Len(Sizes)
                                             /\ n <= c /\ n < m /\ c <= m
  <2>1. Len(Sizes) \in Nat
    BY PacketsAssumption
  <2>2. LegalCount \in Nat /\ LegalCount <= Len(Sizes)
    BY <2>1, LegalCountIs
  <2>3. Len(packets) \in Nat /\ Len(packets) <= LegalCount
    BY DEF HandedOn
  <2> QED BY <1>1, <2>1, <2>2, <2>3
<1>4. n < c
  <2>1. Sizes[n + 1] >= 1 /\ Sizes[n + 1] \in Int
    BY <1>0, <1>1, <1>3, PacketsAssumption
  <2>2. n # c
    BY <1>3, <2>1, LegalCountIs
  <2> QED BY <1>3, <2>2
<1>5. pos' - Len(buf') = Ends[n] + IntBytes
  <2>1. PICK l \in Nat, p \in Nat : l = Len(buf) /\ p = pos
    BY DEF Buffered
  <2>2. p - l = Ends[n] /\ pos' = p /\ Len(buf') = l - IntBytes
    BY <1>1, <1>2, <1>3, <2>1 DEF TakeSize
  <2> QED BY <2>2 DEF IntBytes
<1>6. packets' = packets /\ currentSize' = Sizes[n + 1] /\ state' = "data"
  BY <1>1, <1>3 DEF TakeSize
<1>7. HandedOn' /\ AtBorder' /\ Waiting'
  BY <1>3, <1>4, <1>5, <1>6 DEF HandedOn, AtBorder, Waiting
<1> QED BY <1>2, <1>7

LEMMA BadSizeCut == ASSUME Cut, BadSize PROVE Cut'
<1> USE DEF Cut
<1>0. SizePending /\ Len(buf) >= IntBytes /\ Int32(buf) < 1
  BY DEF BadSize
<1>1. Len(packets) < Len(Sizes) /\ Int32(buf) = Sizes[Len(packets) + 1]
  BY <1>0, SizeIsNext
<1>2. PICK n \in Nat, c \in Nat, m \in Nat : /\ n = Len(packets) /\ c = LegalCount /\ m = Len(Sizes)
                                             /\ n <= c /\ n < m /\ c <= m
  <2>1. Len(Sizes) \in Nat
    BY PacketsAssumption
  <2>2. LegalCount \in Nat /\ LegalCount <= Len(Sizes)
    BY <2>1, LegalCountIs
  <2>3. Len(packets) \in Nat /\ Len(packets) <= LegalCount
    BY DEF HandedOn
  <2> QED BY <1>1, <2>1, <2>2, <2>3
<1>3. n = c
  <2>1. Sizes[n + 1] < 1 /\ Sizes[n + 1] \in Int
    BY <1>0, <1>1, <1>2, PacketsAssumption
  <2>2. CASE n < c
    <3>1. n + 1 \in 1 .. c
      BY <1>2, <2>2
    <3>2. Sizes[n + 1] >= 1
      BY <1>2, <3>1, LegalCountIs
    <3> QED BY <2>1, <3>2
  <2> QED BY <1>2, <2>2
<1>4. UNCHANGED <<pos, buf, currentSize, packets>> /\ state' = "closed"
  BY DEF BadSize
<1>5. Buffered' /\ HandedOn' /\ AtBorder'
  BY <1>4 DEF Buffered, HandedOn, AtBorder
<1>6. Waiting'
  BY <1>2, <1>3, <1>4 DEF Waiting
<1> QED BY <1>5, <1>6

LEMMA TakePacketCut == ASSUME Cut, TakePacket PROVE Cut'
<1> USE DEF Cut
<1>0. ~SizePending /\ Len(buf) >= currentSize
  BY DEF TakePacket
<1>1. PICK n \in Nat, c \in Nat, s \in Nat, l \in Nat, p \in Nat, e \in Nat :
         /\ n = Len(packets) /\ c = LegalCount /\ s = currentSize /\ l = Len(buf) /\ p = pos /\ e = Ends[n]
         /\ n < c /\ s <= l /\ p - l = e + IntBytes /\ n + 1 \in 1 .. Len(Sizes)
         /\ s = Len(Payload[n + 1]) /\ SubSeq(buf, 1, s) = Payload[n + 1]
  <2>1. Len(Sizes) \in Nat
    BY PacketsAssumption
  <2>2. LegalCount \in Nat
    BY <2>1, LegalCountIs
  <2>3. Len(packets) \in Nat /\ Len(buf) \in Nat /\ pos \in Nat
    BY DEF HandedOn, Buffered
  <2>4. /\ Len(packets) < LegalCount /\ Len(packets) + 1 \in 1 .. Len(Sizes)
        /\ currentSize \in Nat /\ currentSize = Len(Payload[Len(packets) + 1])
        /\ pos - Len(buf) = Ends[Len(packets)] + IntBytes
        /\ currentSize <= Len(buf) => SubSeq(buf, 1, currentSize) = Payload[Len(packets) + 1]
    BY <1>0, PacketIsNext
  <2>5. Len(packets) \in 0 .. Len(Sizes)
    BY <2>1, <2>3, <2>4
  <2>6. Ends[Len(packets)] \in Nat
    BY <2>5, EndsAre
  <2> QED BY <1>0, <2>2, <2>3, <2>4, <2>6
<1>2. Buffered' /\ Len(buf') = l - s
  BY <1>1, FrontTaken DEF TakePacket
<1>3. Ends[n + 1] = e + IntBytes + s
  <2>1. (n + 1) - 1 = n
    OBVIOUS
  <2> QED BY <1>1, <2>1, EndsAre
<1>4. Payload[n + 1] \in Seq(0 .. 255)
  BY <1>1, PacketsAssumption
<1>5. packets' = Append(packets, Payload[n + 1]) /\ currentSize' = 0 /\ pos' = p /\ state' = "data"
  BY <1>1 DEF TakePacket
<1>6. packets \in Seq(Seq(0 .. 255)) /\ \A k \in 1 .. n : packets[k] = Payload[k]
  BY <1>1 DEF HandedOn
<1>7. /\ packets' \in Seq(Seq(0 .. 255)) /\ Len(packets') = n + 1
      /\ \A k \in 1 .. (n + 1) : packets'[k] = Payload[k]
  <2>1. PICK q \in Seq(0 .. 255) : q = Payload[n + 1]
    BY <1>4
  <2> QED BY <1>1, <1>5, <1>6, <2>1
<1>8. HandedOn'
  BY <1>1, <1>7 DEF HandedOn
<1>9. AtBorder'
  <2>1. p - (l - s) = Ends[n + 1]
    BY <1>1, <1>3 DEF IntBytes
  <2> QED BY <1>2, <1>5, <1>7, <2>1 DEF AtBorder
<1>10. Waiting'
  BY <1>5 DEF Waiting
<1> QED BY <1>2, <1>8, <1>9, <1>10

LEMMA NeedMoreCut == ASSUME Cut, NeedMore PROVE Cut'
<1>1. Buffered' /\ HandedOn' /\ AtBorder'
  BY DEF NeedMore, Cut, Buffered, HandedOn, AtBorder
<1>2. Waiting'
  BY DEF NeedMore, Waiting, SizePending
<1> QED BY <1>1, <1>2 DEF Cut

LEMMA NextCut == ASSUME Cut, [PacketNext]_packetVars PROVE Cut'
<1>1. CASE PacketNext
  BY <1>1, ReadCut, TakeSizeCut, BadSizeCut, TakePacketCut, NeedMoreCut DEF PacketNext
<1>2. CASE UNCHANGED packetVars
  BY <1>2 DEF packetVars, Cut, Buffered, HandedOn, AtBorder, Waiting, SizePending
<1> QED BY <1>1, <1>2

-----------------------------------------------------------------------------
(* The property.                                                           *)

(* A packet that has not been handed on has not arrived as long as         *)
(* readLoop waits for the socket.                                          *)
LEMMA NoneHeldBack ==
    ASSUME Cut, state = "read"
    PROVE  /\ \A k \in 1 .. LegalCount : pos >= Ends[k] => Len(packets) >= k
           /\ LegalCount < Len(Sizes) => pos < Ends[LegalCount] + IntBytes
<1> USE DEF Cut
<1>1. PICK n \in Nat, c \in Nat, m \in Nat, l \in Nat, p \in Nat :
         /\ n = Len(packets) /\ c = LegalCount /\ m = Len(Sizes) /\ l = Len(buf) /\ p = pos
         /\ n <= c /\ c <= m /\ l <= p
  <2>1. Len(Sizes) \in Nat
    BY PacketsAssumption
  <2>2. LegalCount \in Nat /\ LegalCount <= Len(Sizes)
    BY <2>1, LegalCountIs
  <2>3. Len(packets) \in Nat /\ Len(packets) <= LegalCount
    BY DEF HandedOn
  <2>4. Len(buf) \in Nat /\ pos \in Nat /\ Len(buf) <= pos
    BY DEF Buffered
  <2> QED BY <2>1, <2>2, <2>3, <2>4
<1>2. \A k \in 0 .. m : Ends[k] \in Nat
  BY <1>1, EndsAre
<1>3. CASE SizePending
  <2>1. p - l = Ends[n] /\ l < IntBytes
    <3>1. l < IntBytes
      BY <1>1, <1>3 DEF Waiting
    <3>2. CASE n < c /\ currentSize = Sizes[n + 1]
      <4>1. n + 1 \in 1 .. c /\ n + 1 \in 1 .. m
        BY <1>1, <3>2
      <4>2. Sizes[n + 1] >= 1 /\ Sizes[n + 1] \in Int
        BY <1>1, <4>1, LegalCountIs, PacketsAssumption
      <4> QED BY <1>3, <3>2, <4>2 DEF SizePending
    <3> QED BY <1>1, <3>1, <3>2 DEF AtBorder
  <2>2. p < Ends[n] + IntBytes
    BY <1>1, <1>2, <2>1 DEF IntBytes
  <2>3. ASSUME NEW k \in 1 .. c, p >= Ends[k], n < k
        PROVE  FALSE
    <3>1. n \in 0 .. m /\ k \in n .. m /\ n + 1 \in 1 .. m
      BY <1>1, <2>3
    <3>2. PICK x \in Nat : x = Len(Payload[n + 1])
      BY <1>1, <3>1, PacketsAssumption
    <3>3. Ends[n] + IntBytes + x <= Ends[k]
      BY <1>1, <2>3, <3>1, <3>2, EndsGrow
    <3>4. PICK a \in Nat, b \in Nat : a = Ends[n] /\ b = Ends[k]
      <4>1. k \in 0 .. m
        BY <1>1
      <4> QED BY <1>2, <3>1, <4>1
    <3>5. p >= b /\ p < a + IntBytes /\ a + IntBytes + x <= b
      BY <2>2, <2>3, <3>3, <3>4
    <3> QED BY <3>5, SMT DEF IntBytes
  <2>4. Ends[n] <= Ends[c]
    <3>1. n \in 0 .. m /\ c \in n .. m
      BY <1>1
    <3> QED BY <1>1, <3>1, EndsGrow
  <2>5. p < Ends[c] + IntBytes
    <3>1. PICK a \in Nat, b \in Nat : a = Ends[n] /\ b = Ends[c]
      <4>1. n \in 0 .. m /\ c \in 0 .. m
        BY <1>1
      <4> QED BY <1>2, <4>1
    <3>2. a <= b /\ p < a + IntBytes
      BY <2>2, <2>4, <3>1
    <3> QED BY <3>1, <3>2 DEF IntBytes
  <2>6. \A k \in 1 .. c : p >= Ends[k] => n >= k
    BY <1>1, <2>3
  <2> QED BY <1>1, <2>5, <2>6
<1>4. CASE ~SizePending
  <2>1. /\ n < c /\ n + 1 \in 1 .. m /\ currentSize = Len(Payload[n + 1]) /\ currentSize \in Nat
        /\ p - l = Ends[n] + IntBytes
    BY <1>1, <1>4, PacketIsNext
  <2>2. PICK s \in Nat : s = Len(Payload[n + 1]) /\ l < s
    BY <1>1, <1>4, <2>1 DEF Waiting
  <2>3. ASSUME NEW k \in 1 .. c, n < k
        PROVE  p < Ends[k]
    <3>1. n \in 0 .. m /\ k \in n .. m /\ k \in 0 .. m
      BY <1>1, <2>3
    <3>2. Ends[n] + IntBytes + s <= Ends[k]
      BY <1>1, <2>2, <2>3, <3>1, EndsGrow
    <3>3. PICK a \in Nat, b \in Nat : a = Ends[n] /\ b = Ends[k]
      BY <1>2, <3>1
    <3>4. p - l = a + IntBytes /\ a + IntBytes + s <= b
      BY <2>1, <3>2, <3>3
    <3> QED BY <2>2, <3>3, <3>4 DEF IntBytes
  <2>4. c \in 1 .. c
    BY <2>1
  <2>5. \A k \in 1 .. c : p >= Ends[k] => n >= k
    <3>1. ASSUME NEW k \in 1 .. c, p >= Ends[k], n < k
          PROVE  FALSE
      <4>1. Ends[k] \in Nat
        BY <1>1, <1>2
      <4> QED BY <2>3, <3>1, <4>1
    <3> QED BY <1>1, <3>1
  <2>6. p < Ends[c] + IntBytes
    <3>1. p < Ends[c] /\ Ends[c] \in Nat
      BY <1>1, <1>2, <2>1, <2>3, <2>4
    <3> QED BY <3>1 DEF IntBytes
  <2> QED BY <1>1, <2>5, <2>6
<1> QED BY <1>3, <1>4

LEMMA CutIsIntact == ASSUME Cut PROVE PacketsIntact
<1>1. packets = [k \in 1 .. Len(packets) |-> Payload[k]] /\ Len(packets) <= LegalCount
  BY DEF Cut, HandedOn
<1>2. state = "closed" => Len(packets) = LegalCount /\ LegalCount < Len(Sizes)
  BY DEF Cut, Waiting
<1> QED BY <1>1, <1>2, NoneHeldBack DEF PacketsIntact

(* The packets readLoop hands on are those the node sent, whole and in     *)
(* order, whatever they hold and wherever the chunks of the socket end;    *)
(* none is kept back, and the stream ends at a size that is none           *)
(* (packetAccumulator, channel.go).                                        *)
THEOREM PacketsAreIntact == PacketSpec => []PacketsIntact
<1>1. newPacketAccumulator => Cut
  BY InitCut
<1>2. Cut /\ [PacketNext]_packetVars => Cut'
  BY NextCut
<1>3. Cut => PacketsIntact
  BY CutIsIntact
<1> QED BY <1>1, <1>2, <1>3, PTL DEF PacketSpec

(***************************************************************************)
(* The cache operations.  A request is decoded by its opcode alone: the    *)
(* arguments the node takes of its values are those of the call, so that   *)
(* what it runs is what the operation means.                               *)
(***************************************************************************)
Map(s) == s = [k \in Keys |-> s[k]]

LEMMA ListsAre ==
    ASSUME NEW S, NEW l \in Lists(S)
    PROVE  l \in Seq(NilOr(S))
<1>1. PICK m \in 0 .. MaxKeys : l \in [1 .. m -> NilOr(S)]
  BY DEF Lists, BoundedSeq, SeqOf
<1> QED BY <1>1, OperationsAssumption

LEMMA CountInFront ==
    ASSUME NEW S, NEW l \in Seq(S), NEW n \in Nat
    PROVE  (<<n>> \o l)[1] = n /\ \A i \in 1 .. Len(l) : (<<n>> \o l)[i + 1] = l[i]
  OBVIOUS

LEMMA ListIsRead ==
    ASSUME NEW S, NEW l \in Seq(S)
    PROVE  SubSeq(<<Len(l)>> \o l, 2, 1 + (<<Len(l)>> \o l)[1]) = l
<1>1. PICK n \in Nat : n = Len(l)
  OBVIOUS
<1>2. PICK c : c = <<n>> \o l
  OBVIOUS
<1>3. c \in Seq(S \cup {n}) /\ Len(c) = n + 1 /\ c[1] = n /\ \A i \in 1 .. n : c[i + 1] = l[i]
  BY <1>1, <1>2
<1>4. SubSeq(c, 2, 1 + n) = [i \in 1 .. n |-> c[i + 1]]
  BY <1>3
<1>5. SubSeq(c, 2, 1 + n) = [i \in 1 .. n |-> l[i]]
  BY <1>3, <1>4
<1>6. l = [i \in 1 .. n |-> l[i]]
  BY <1>1
<1> QED BY <1>1, <1>2, <1>3, <1>5, <1>6

(* What PutAll writes of its pairs. *)
PairCells(ks, vs) == [c \in 1 .. 2 * Len(ks) |-> IF c % 2 = 1 THEN ks[c \div 2 + 1] ELSE vs[c \div 2]]

LEMMA PairsAreRead ==
    ASSUME NEW S, NEW ks \in Seq(S), NEW vs \in Seq(S), Len(ks) = Len(vs), NEW cells,
           cells = <<Len(ks)>> \o PairCells(ks, vs)
    PROVE  NodeArguments("PutAll", cells) = [keys |-> ks, values |-> vs]
<1>1. PICK n \in Nat : n = Len(ks) /\ n = Len(vs)
  OBVIOUS
<1>2. PICK p : p = PairCells(ks, vs) /\ p = [c \in 1 .. 2 * n |-> IF c % 2 = 1 THEN ks[c \div 2 + 1] ELSE vs[c \div 2]]
  BY <1>1 DEF PairCells
<1>3. p \in Seq(S) /\ Len(p) = 2 * n
  <2>1. ASSUME NEW c \in 1 .. 2 * n
        PROVE  (IF c % 2 = 1 THEN ks[c \div 2 + 1] ELSE vs[c \div 2]) \in S
    <3>1. CASE c % 2 = 1
      <4>1. c \div 2 + 1 \in 1 .. n
        BY <3>1
      <4> QED BY <1>1, <3>1, <4>1
    <3>2. CASE c % 2 # 1
      <4>1. c \div 2 \in 1 .. n
        BY <3>2
      <4> QED BY <1>1, <3>2, <4>1
    <3> QED BY <3>1, <3>2
  <2>2. PICK m \in Nat : m = 2 * n
    OBVIOUS
  <2>3. p \in [1 .. m -> S]
    BY <1>2, <2>1, <2>2
  <2>4. p \in Seq(S) /\ Len(p) = m
    BY <2>3
  <2> QED BY <2>2, <2>4
<1>4. cells = <<n>> \o p
  BY <1>1, <1>2
<1>5. cells[1] = n /\ \A c \in 1 .. 2 * n : cells[c + 1] = p[c]
  <2>1. PICK m \in Nat : m = 2 * n
    OBVIOUS
  <2>2. PICK q \in Seq(S) : q = p /\ Len(q) = m
    BY <1>3, <2>1
  <2>3. cells[1] = n /\ \A c \in 1 .. m : cells[c + 1] = q[c]
    <3>1. (<<n>> \o q)[1] = n /\ \A c \in 1 .. Len(q) : (<<n>> \o q)[c + 1] = q[c]
      BY CountInFront
    <3>2. cells = <<n>> \o q
      BY <1>4, <2>2
    <3>3. Len(q) = m
      BY <2>2
    <3> QED BY <3>1, <3>2, <3>3, Zenon
  <2> QED BY <2>1, <2>2, <2>3
<1>6. ASSUME NEW i \in 1 .. n
      PROVE  cells[2 * i] = ks[i] /\ cells[2 * i + 1] = vs[i]
  <2>1. /\ 2 * i - 1 \in 1 .. 2 * n /\ 2 * i \in 1 .. 2 * n /\ (2 * i - 1) + 1 = 2 * i
        /\ (2 * i - 1) % 2 = 1 /\ (2 * i - 1) \div 2 + 1 = i /\ (2 * i) % 2 = 0 /\ (2 * i) \div 2 = i
    OBVIOUS
  <2>2. p[2 * i - 1] = ks[i]
    <3>1. PICK c \in 1 .. 2 * n : c = 2 * i - 1
      BY <2>1
    <3>2. p[c] = ks[c \div 2 + 1]
      BY <1>2, <2>1, <3>1
    <3> QED BY <2>1, <3>1, <3>2
  <2>3. p[2 * i] = vs[i]
    <3>1. PICK c \in 1 .. 2 * n : c = 2 * i
      BY <2>1
    <3>2. p[c] = vs[c \div 2]
      BY <1>2, <2>1, <3>1
    <3> QED BY <2>1, <3>1, <3>2
  <2> QED BY <1>5, <2>1, <2>2, <2>3
<1>7. ks = [i \in 1 .. n |-> ks[i]] /\ vs = [i \in 1 .. n |-> vs[i]]
  BY <1>1
<1>8. [i \in 1 .. cells[1] |-> cells[2 * i]] = ks /\ [i \in 1 .. cells[1] |-> cells[2 * i + 1]] = vs
  BY <1>5, <1>6, <1>7
<1>9. NodeArguments("PutAll", cells)
        = [keys |-> [i \in 1 .. cells[1] |-> cells[2 * i]], values |-> [i \in 1 .. cells[1] |-> cells[2 * i + 1]]]
  BY DEF NodeArguments
<1> QED BY <1>8, <1>9

(* What the calls are given. *)
LEMMA GivenToOne ==
    ASSUME NEW k, NEW v, NEW w
    PROVE  /\ Absent \in Given([key |-> k]) <=> Absent \in Range(<<k>>)
           /\ Absent \in Given([key |-> k, value |-> v]) <=> Absent \in Range(<<k, v>>)
           /\ Absent \in Given([key |-> k, oldValue |-> v]) <=> Absent \in Range(<<k, v>>)
           /\ Absent \in Given([key |-> k, oldValue |-> v, newValue |-> w]) <=> Absent \in Range(<<k, v, w>>)
<1>1. Absent \in Range(<<k>>) <=> Absent = k
  BY DEF Range
<1>2. Absent \in Range(<<k, v>>) <=> Absent = k \/ Absent = v
  BY DEF Range
<1>3. Absent \in Range(<<k, v, w>>) <=> Absent = k \/ Absent = v \/ Absent = w
  BY DEF Range
<1>4. Absent \in Given([key |-> k]) <=> Absent = k
  BY DEF Given
<1>5. Absent \in Given([key |-> k, value |-> v]) <=> Absent = k \/ Absent = v
  BY DEF Given
<1>6. Absent \in Given([key |-> k, oldValue |-> v]) <=> Absent = k \/ Absent = v
  BY DEF Given
<1>7. Absent \in Given([key |-> k, oldValue |-> v, newValue |-> w]) <=> Absent = k \/ Absent = v \/ Absent = w
  BY DEF Given
<1> QED BY <1>1, <1>2, <1>3, <1>4, <1>5, <1>6, <1>7

LEMMA GivenToSeveral ==
    ASSUME NEW ks, NEW vs
    PROVE  /\ Absent \in Given([keys |-> ks]) <=> Absent \in Range(ks)
           /\ Absent \in Given([keys |-> ks, values |-> vs]) <=> Absent \in Range(ks) \/ Absent \in Range(vs)
           /\ Given(<<>>) = {}
<1>1. Absent \in Given([keys |-> ks]) <=> Absent \in Range(ks)
  BY DEF Given
<1>2. Absent \in Given([keys |-> ks, values |-> vs]) <=> Absent \in Range(ks) \/ Absent \in Range(vs)
  BY DEF Given
<1>3. Given(<<>>) = {}
  BY DEF Given
<1> QED BY <1>1, <1>2, <1>3

-----------------------------------------------------------------------------
(* The operations keep a map a map. *)

OneKeyOps == {"Get", "Put", "GetAndPut", "GetAndReplace", "GetAndPutIfAbsent", "GetAndRemove", "PutIfAbsent",
              "Replace", "ReplaceIfEquals", "Remove", "RemoveIfEquals", "ContainsKey", "Clear"}

LEMMA OneKeyMap ==
    ASSUME NEW op \in OneKeyOps, NEW s, Map(s), NEW a, "key" \in DOMAIN a, "keys" \notin DOMAIN a
    PROVE  Map(Meaning(op, s, a).store)
<1> DEFINE Out(c, v) == IF c THEN [s EXCEPT ![a.key] = v] ELSE s
<1>1. ASSUME NEW c \in BOOLEAN, NEW v
      PROVE  Map(Out(c, v))
  <2>1. PICK t : t = [s EXCEPT ![a.key] = v]
    OBVIOUS
  <2>2. t = [k \in Keys |-> IF k = a.key THEN v ELSE s[k]]
    BY <2>1 DEF Map
  <2>3. Map(t)
    BY <2>2 DEF Map
  <2>4. CASE c
    BY <2>1, <2>3, <2>4
  <2>5. CASE ~c
    BY <2>5
  <2> QED BY <2>4, <2>5
<1>2. Meaning(op, s, a) = Single(op, s, a)
  BY DEF Meaning
<1>3. \E c \in BOOLEAN : \E v : Single(op, s, a).store = Out(c, v)
  <2>1. CASE op \in {"Get", "ContainsKey"}
    <3>1. Single(op, s, a).store = Out(FALSE, Absent)
      BY <2>1 DEF Single
    <3> QED BY <3>1
  <2>2. CASE op \in {"Put", "GetAndPut"}
    <3>1. Single(op, s, a).store = Out(TRUE, a.value)
      BY <2>2 DEF Single
    <3> QED BY <3>1
  <2>3. CASE op \in {"GetAndReplace", "Replace"}
    <3>1. Single(op, s, a).store = Out(s[a.key] # Absent, a.value)
      BY <2>3 DEF Single
    <3> QED BY <3>1
  <2>4. CASE op \in {"GetAndPutIfAbsent", "PutIfAbsent"}
    <3>1. Single(op, s, a).store = Out(s[a.key] = Absent, a.value)
      BY <2>4 DEF Single
    <3> QED BY <3>1
  <2>5. CASE op \in {"GetAndRemove", "Remove", "Clear"}
    <3>1. Single(op, s, a).store = Out(TRUE, Absent)
      BY <2>5 DEF Single
    <3> QED BY <3>1
  <2>6. CASE op = "ReplaceIfEquals"
    <3>1. Single(op, s, a).store = Out(s[a.key] = a.oldValue, a.newValue)
      BY <2>6 DEF Single
    <3> QED BY <3>1
  <2>7. CASE op = "RemoveIfEquals"
    <3>1. Single(op, s, a).store = Out(s[a.key] = a.oldValue, Absent)
      BY <2>7 DEF Single
    <3> QED BY <3>1
  <2> QED BY <2>1, <2>2, <2>3, <2>4, <2>5, <2>6, <2>7 DEF OneKeyOps
<1> HIDE DEF Out
<1> QED BY <1>1, <1>2, <1>3

LEMMA SeveralKeysMap ==
    ASSUME NEW op \in {"GetAll", "PutAll", "ContainsKeys", "RemoveKeys", "ClearKeys"}, NEW s, Map(s),
           NEW a, "keys" \in DOMAIN a, "key" \notin DOMAIN a
    PROVE  Map(Meaning(op, s, a).store)
<1>1. Meaning(op, s, a) = Several(op, s, a)
  BY DEF Meaning
<1>2. Map(Several(op, s, a).store)
  BY DEF Several, Map
<1> QED BY <1>1, <1>2

LEMMA WholeMap ==
    ASSUME NEW op \in {"Size", "RemoveAll", "ClearAll"}, NEW s, Map(s)
    PROVE  Map(Meaning(op, s, <<>>).store)
<1>1. Meaning(op, s, <<>>) = Whole(op, s)
  <2>1. DOMAIN <<>> = {}
    OBVIOUS
  <2> QED BY <2>1 DEF Meaning
<1>2. Map(Whole(op, s).store)
  BY DEF Whole, Map
<1> QED BY <1>1, <1>2

-----------------------------------------------------------------------------
(* Expiry policies. *)

LEMMA DurationKept ==
    ASSUME NEW d \in Int, NEW runs, runs = MillisToDuration(DurationToMillis(d))
    PROVE  /\ d > 0 => d - runs \in 0 .. Millisecond - 1
           /\ d \in DurationUnchanged .. 0 => runs = d
           /\ d < DurationUnchanged => runs = DurationUnchanged
<1>1. CASE d > 0
  <2>1. PICK q \in Int, r \in Int : q = d \div 1000000 /\ r = d % 1000000
    BY SMT
  <2>2. d = 1000000 * q + r /\ 0 <= r /\ r < 1000000 /\ 0 <= q
    BY <1>1, <2>1, SMT
  <2>3. DurationToMillis(d) = q
    BY <1>1, <2>1, SMT DEF DurationToMillis, DurationUnchanged, Millisecond
  <2>4. runs = 1000000 * q
    BY <2>2, <2>3 DEF MillisToDuration, Millisecond
  <2>5. PICK m \in Int : m = 1000000 * q
    BY SMT
  <2>6. d = m + r /\ runs = m
    BY <2>2, <2>4, <2>5, SMT
  <2>7. d - runs = r /\ Millisecond - 1 = 999999
    BY <2>6, SMT DEF Millisecond
  <2>8. d - runs \in 0 .. Millisecond - 1
    BY <2>2, <2>7, SMT
  <2> QED BY <1>1, <2>8, SMT DEF DurationUnchanged
<1>2. CASE d <= 0
  BY <1>2, SMT DEF MillisToDuration, DurationToMillis, DurationUnchanged
<1> QED BY <1>1, <1>2

LEMMA PolicyKept ==
    ASSUME NEW p \in Policies, last'.policy = p, last'.ran = NodePolicy(PolicyCells(p))
    PROVE  PolicyArrives'
<1>1. CASE p = Absent
  BY <1>1 DEF PolicyArrives
<1>2. CASE p # Absent
  <2>1. p \in [creation : Int, access : Int, update : Int]
    BY <1>2, OperationsAssumption
  <2>2. /\ last'.ran.creation = DurationToMillis(p.creation) /\ last'.ran.access = DurationToMillis(p.access)
        /\ last'.ran.update = DurationToMillis(p.update)
    BY <1>2 DEF NodePolicy, PolicyCells
  <2>3. p.creation \in Int /\ p.access \in Int /\ p.update \in Int
    BY <2>1
  <2>4. ASSUME NEW d \in {"creation", "access", "update"}
        PROVE  last'.ran[d] = DurationToMillis(last'.policy[d]) /\ last'.policy[d] \in Int
    BY <2>2, <2>3
  <2> QED BY <2>4, DurationKept DEF PolicyArrives
<1> QED BY <1>1, <1>2

-----------------------------------------------------------------------------
(* What is left behind by a call that is refused, that has nothing to do,  *)
(* or whose request is answered.                                           *)

LeftBehind == CallMeans /\ Map(store') /\ PolicyArrives'

LEMMA Refused ==
    ASSUME NEW op, NEW a, Absent \in Given(a), Map(store), Returns(op, a, TRUE, Absent)
    PROVE  LeftBehind
<1>1. last' = [op |-> op, args |-> a, err |-> TRUE, ret |-> Absent, policy |-> Absent, ran |-> Absent] /\ store' = store
  BY DEF Returns
<1> QED BY <1>1 DEF LeftBehind, CallMeans, PolicyArrives

LEMMA NothingToDo ==
    ASSUME NEW op, NEW a, NEW ret, Absent \notin Given(a), Map(store), Returns(op, a, FALSE, ret),
           Meaning(op, store, a).store = store, Meaning(op, store, a).ret = ret
    PROVE  LeftBehind
<1>1. last' = [op |-> op, args |-> a, err |-> FALSE, ret |-> ret, policy |-> Absent, ran |-> Absent] /\ store' = store
  BY DEF Returns
<1> QED BY <1>1 DEF LeftBehind, CallMeans, PolicyArrives

LEMMA Answered ==
    ASSUME NEW op, NEW a, NEW code, NEW cells, Absent \notin Given(a), Sends(op, a, code, cells),
           NodeOp(code) = op, NodeArguments(op, cells) = a, Map(Meaning(op, store, a).store)
    PROVE  LeftBehind
<1>1. NodeRuns(code, cells, store) = Meaning(op, store, a)
  BY DEF NodeRuns
<1>2. PICK p \in Policies :
          /\ store' = Meaning(op, store, a).store
          /\ last' = [op |-> op, args |-> a, err |-> FALSE, ret |-> Meaning(op, store, a).ret,
                      policy |-> p, ran |-> NodePolicy(PolicyCells(p))]
  BY <1>1 DEF Sends
<1>3. /\ last'.op = op /\ last'.args = a /\ last'.err = FALSE /\ last'.ret = Meaning(op, store, a).ret
      /\ last'.policy = p /\ last'.ran = NodePolicy(PolicyCells(p))
  BY <1>2
<1>4. PolicyArrives'
  BY <1>3, PolicyKept
<1>5. CallMeans
  BY <1>2, <1>3 DEF CallMeans
<1> QED BY <1>2, <1>4, <1>5 DEF LeftBehind

LEMMA OnKeyMeans ==
    ASSUME NEW op \in OneKeyOps, NEW a, NEW code, NEW cells, Map(store), OnKey(op, a, code, cells),
           "key" \in DOMAIN a, "keys" \notin DOMAIN a, Absent \in Given(a) <=> Absent \in Range(cells),
           NodeOp(code) = op, NodeArguments(op, cells) = a
    PROVE  LeftBehind
<1>1. CASE Absent \in Range(cells)
  BY <1>1, Refused DEF OnKey
<1>2. CASE Absent \notin Range(cells)
  <2>1. Sends(op, a, code, cells)
    BY <1>2 DEF OnKey
  <2> QED BY <1>2, <2>1, OneKeyMap, Answered
<1> QED BY <1>1, <1>2

LEMMA OnKeysMeans ==
    ASSUME NEW op \in {"GetAll", "ContainsKeys", "RemoveKeys", "ClearKeys"}, NEW ks \in Lists(Keys), NEW code, NEW ret,
           Map(store), OnKeys(op, [keys |-> ks], code, ret, ks), NodeOp(code) = op,
           Meaning(op, store, [keys |-> <<>>]).ret = ret
    PROVE  LeftBehind
<1> DEFINE a == [keys |-> ks]
<1>1. ks \in Seq(NilOr(Keys))
  BY ListsAre
<1>2. Absent \in Given(a) <=> Absent \in Range(ks)
  BY GivenToSeveral
<1>3. DOMAIN a = {"keys"}
  OBVIOUS
<1>4. CASE ks = <<>>
  <2>1. Range(ks) = {}
    BY <1>4 DEF Range
  <2>2. Returns(op, a, FALSE, ret)
    BY <1>4, <2>1 DEF OnKeys
  <2>3. Meaning(op, store, a).store = store
    <3>1. Meaning(op, store, a) = Several(op, store, a)
      BY <1>3 DEF Meaning
    <3>2. a.keys = ks
      OBVIOUS
    <3>3. Several(op, store, a).store = store
      BY <2>1, <3>2 DEF Several, Map
    <3> QED BY <3>1, <3>3
  <2>4. Meaning(op, store, a).ret = ret
    BY <1>4
  <2> HIDE DEF a
  <2> QED BY <1>2, <2>1, <2>2, <2>3, <2>4, NothingToDo
<1>5. CASE ks # <<>> /\ Absent \in Range(ks)
  <2>1. Returns(op, a, TRUE, Absent)
    BY <1>5 DEF OnKeys
  <2> HIDE DEF a
  <2> QED BY <1>2, <1>5, <2>1, Refused
<1>6. CASE ks # <<>> /\ Absent \notin Range(ks)
  <2> DEFINE cells == <<Len(ks)>> \o ks
  <2>1. Sends(op, a, code, cells)
    BY <1>6 DEF OnKeys
  <2>2. SubSeq(cells, 2, 1 + cells[1]) = ks
    BY <1>1, ListIsRead
  <2> HIDE DEF cells
  <2>3. NodeArguments(op, cells) = a
    BY <2>2 DEF NodeArguments
  <2>4. Map(Meaning(op, store, a).store)
    <3> HIDE DEF a
    <3>1. "keys" \in DOMAIN a /\ "key" \notin DOMAIN a
      BY <1>3
    <3> QED BY <3>1, SeveralKeysMap
  <2> HIDE DEF a
  <2> QED BY <1>2, <1>6, <2>1, <2>3, <2>4, Answered
<1> QED BY <1>4, <1>5, <1>6

-----------------------------------------------------------------------------
(* One step per operation.                                                 *)

LEMMA KeyMeans ==
    ASSUME NEW op \in {"Get", "GetAndRemove", "ContainsKey", "Remove", "Clear"}, NEW k, NEW code, NodeOp(code) = op,
           Map(store), OnKey(op, [key |-> k], code, <<k>>)
    PROVE  LeftBehind
<1>1. PICK a, cells : a = [key |-> k] /\ cells = <<k>>
  OBVIOUS
<1>2. NodeArguments(op, cells) = a
  BY <1>1 DEF NodeArguments
<1>3. "key" \in DOMAIN a /\ "keys" \notin DOMAIN a
  BY <1>1
<1>4. Absent \in Given(a) <=> Absent \in Range(cells)
  BY <1>1, GivenToOne
<1>5. OnKey(op, a, code, cells)
  BY <1>1
<1>6. op \in OneKeyOps
  BY DEF OneKeyOps
<1> QED BY <1>2, <1>3, <1>4, <1>5, <1>6, OnKeyMeans

LEMMA KeyValueMeans ==
    ASSUME NEW op \in {"Put", "PutIfAbsent", "GetAndPut", "GetAndReplace", "GetAndPutIfAbsent", "Replace"},
           NEW k, NEW v, NEW code, NodeOp(code) = op,
           Map(store), OnKey(op, [key |-> k, value |-> v], code, <<k, v>>)
    PROVE  LeftBehind
<1>1. PICK a, cells : a = [key |-> k, value |-> v] /\ cells = <<k, v>>
  OBVIOUS
<1>2. NodeArguments(op, cells) = a
  BY <1>1 DEF NodeArguments
<1>3. "key" \in DOMAIN a /\ "keys" \notin DOMAIN a
  BY <1>1
<1>4. Absent \in Given(a) <=> Absent \in Range(cells)
  BY <1>1, GivenToOne
<1>5. OnKey(op, a, code, cells)
  BY <1>1
<1>6. op \in OneKeyOps
  BY DEF OneKeyOps
<1> QED BY <1>2, <1>3, <1>4, <1>5, <1>6, OnKeyMeans

LEMMA RemoveIfEqualsMeans ==
    ASSUME Map(store), RemoveIfEquals
    PROVE  LeftBehind
<1>1. PICK k \in NilOr(Keys), v \in NilOr(Values) : OnKey("RemoveIfEquals", [key |-> k, oldValue |-> v], 1017, <<k, v>>)
  BY DEF RemoveIfEquals
<1>2. PICK a, cells : a = [key |-> k, oldValue |-> v] /\ cells = <<k, v>>
  OBVIOUS
<1>3. NodeArguments("RemoveIfEquals", cells) = a
  BY <1>2 DEF NodeArguments
<1>4. "key" \in DOMAIN a /\ "keys" \notin DOMAIN a
  BY <1>2
<1>5. Absent \in Given(a) <=> Absent \in Range(cells)
  BY <1>2, GivenToOne
<1>6. OnKey("RemoveIfEquals", a, 1017, cells)
  BY <1>1, <1>2
<1>7. "RemoveIfEquals" \in OneKeyOps /\ NodeOp(1017) = "RemoveIfEquals"
  BY DEF OneKeyOps, NodeOp
<1> QED BY <1>3, <1>4, <1>5, <1>6, <1>7, OnKeyMeans

LEMMA ReplaceIfEqualsMeans ==
    ASSUME Map(store), ReplaceIfEquals
    PROVE  LeftBehind
<1>1. PICK k \in NilOr(Keys), v \in NilOr(Values), w \in NilOr(Values) :
          OnKey("ReplaceIfEquals", [key |-> k, oldValue |-> v, newValue |-> w], 1010, <<k, v, w>>)
  BY DEF ReplaceIfEquals
<1>2. PICK a, cells : a = [key |-> k, oldValue |-> v, newValue |-> w] /\ cells = <<k, v, w>>
  OBVIOUS
<1>3. NodeArguments("ReplaceIfEquals", cells) = a
  BY <1>2 DEF NodeArguments
<1>4. "key" \in DOMAIN a /\ "keys" \notin DOMAIN a
  BY <1>2
<1>5. Absent \in Given(a) <=> Absent \in Range(cells)
  BY <1>2, GivenToOne
<1>6. OnKey("ReplaceIfEquals", a, 1010, cells)
  BY <1>1, <1>2
<1>7. "ReplaceIfEquals" \in OneKeyOps /\ NodeOp(1010) = "ReplaceIfEquals"
  BY DEF OneKeyOps, NodeOp
<1> QED BY <1>3, <1>4, <1>5, <1>6, <1>7, OnKeyMeans

LEMMA WholeMeans ==
    ASSUME NEW op \in {"Size", "RemoveAll", "ClearAll"}, NEW code, NodeOp(code) = op,
           Map(store), Sends(op, <<>>, code, <<>>)
    PROVE  LeftBehind
<1>1. NodeArguments(op, <<>>) = <<>>
  BY DEF NodeArguments
<1>2. Absent \notin Given(<<>>)
  BY GivenToSeveral
<1> QED BY <1>1, <1>2, WholeMap, Answered

(* A list of several keys or values has a nil if one of its cells is. *)
LEMMA PairsHaveNil ==
    ASSUME NEW S, NEW ks \in Seq(S), NEW vs \in Seq(S), Len(ks) = Len(vs), NEW cells,
           cells = PairCells(ks, vs)
    PROVE  Absent \in Range(cells) <=> Absent \in Range(ks) \/ Absent \in Range(vs)
<1>1. PICK n \in Nat : n = Len(ks) /\ n = Len(vs)
  OBVIOUS
<1>2. /\ DOMAIN ks = 1 .. n /\ DOMAIN vs = 1 .. n
      /\ cells = [c \in 1 .. 2 * n |-> IF c % 2 = 1 THEN ks[c \div 2 + 1] ELSE vs[c \div 2]]
  BY <1>1 DEF PairCells
<1>3. ASSUME NEW i \in 1 .. n
      PROVE  ks[i] \in Range(cells) /\ vs[i] \in Range(cells)
  <2>1. /\ 2 * i - 1 \in 1 .. 2 * n /\ 2 * i \in 1 .. 2 * n
        /\ (2 * i - 1) % 2 = 1 /\ (2 * i - 1) \div 2 + 1 = i /\ (2 * i) % 2 = 0 /\ (2 * i) \div 2 = i
    OBVIOUS
  <2>2. PICK c \in 1 .. 2 * n, d \in 1 .. 2 * n : c = 2 * i - 1 /\ d = 2 * i
    BY <2>1
  <2>3. cells[c] = ks[c \div 2 + 1] /\ cells[d] = vs[d \div 2]
    BY <1>2, <2>1, <2>2
  <2>4. cells[c] = ks[i] /\ cells[d] = vs[i]
    BY <2>1, <2>2, <2>3
  <2> QED BY <1>2, <2>4 DEF Range
<1>4. ASSUME NEW c \in 1 .. 2 * n
      PROVE  cells[c] \in Range(ks) \/ cells[c] \in Range(vs)
  <2>1. CASE c % 2 = 1
    <3>1. c \div 2 + 1 \in 1 .. n
      BY <2>1
    <3>2. cells[c] = ks[c \div 2 + 1]
      BY <1>2, <2>1
    <3> QED BY <1>2, <3>1, <3>2 DEF Range
  <2>2. CASE c % 2 # 1
    <3>1. c \div 2 \in 1 .. n
      BY <2>2
    <3>2. cells[c] = vs[c \div 2]
      BY <1>2, <2>2
    <3> QED BY <1>2, <3>1, <3>2 DEF Range
  <2> QED BY <2>1, <2>2
<1>5. ASSUME Absent \in Range(cells)
      PROVE  Absent \in Range(ks) \/ Absent \in Range(vs)
  <2>1. PICK c \in 1 .. 2 * n : cells[c] = Absent
    BY <1>2, <1>5 DEF Range
  <2> QED BY <1>4, <2>1
<1>6. ASSUME Absent \in Range(ks) \/ Absent \in Range(vs)
      PROVE  Absent \in Range(cells)
  <2>1. PICK i \in 1 .. n : ks[i] = Absent \/ vs[i] = Absent
    BY <1>2, <1>6 DEF Range
  <2> QED BY <1>3, <2>1
<1> QED BY <1>5, <1>6

LEMMA PutAllMeans ==
    ASSUME Map(store), PutAll
    PROVE  LeftBehind
<1>1. PICK ks \in Lists(Keys), vs \in Lists(Values) :
          /\ Len(ks) = Len(vs)
          /\ CASE ks = <<>> -> Returns("PutAll", [keys |-> ks, values |-> vs], FALSE, Absent)
               [] Absent \in Range(PairCells(ks, vs)) -> Returns("PutAll", [keys |-> ks, values |-> vs], TRUE, Absent)
               [] OTHER -> Sends("PutAll", [keys |-> ks, values |-> vs], 1004, <<Len(ks)>> \o PairCells(ks, vs))
  BY DEF PutAll, PairCells
<1>2. PICK a, pairs : a = [keys |-> ks, values |-> vs] /\ pairs = PairCells(ks, vs)
  OBVIOUS
<1>4. ks \in Seq(NilOr(Keys) \cup NilOr(Values)) /\ vs \in Seq(NilOr(Keys) \cup NilOr(Values))
  <2>1. ks \in Seq(NilOr(Keys)) /\ vs \in Seq(NilOr(Values))
    BY ListsAre
  <2> QED BY <2>1
<1>5. Absent \in Given(a) <=> Absent \in Range(pairs)
  <2>1. Absent \in Range(pairs) <=> Absent \in Range(ks) \/ Absent \in Range(vs)
    BY <1>1, <1>2, <1>4, PairsHaveNil
  <2> QED BY <1>2, <2>1, GivenToSeveral
<1>6. "keys" \in DOMAIN a /\ "key" \notin DOMAIN a /\ a.keys = ks
  BY <1>2
<1>7. CASE ks = <<>>
  <2>1. Len(ks) = 0 /\ Len(vs) = 0 /\ DOMAIN ks = {}
    BY <1>1, <1>7
  <2>2. DOMAIN pairs = {}
    BY <1>2, <2>1 DEF PairCells
  <2>3. Range(pairs) = {}
    BY <2>2 DEF Range
  <2>4. Returns("PutAll", a, FALSE, Absent)
    BY <1>1, <1>2, <1>7, <2>3
  <2>5. Meaning("PutAll", store, a) = Several("PutAll", store, a)
    BY <1>6 DEF Meaning
  <2>6. Several("PutAll", store, a).ret = Absent /\ Several("PutAll", store, a).store = store
    BY <1>6, <2>1 DEF Several, Map
  <2> QED BY <1>5, <2>3, <2>4, <2>5, <2>6, NothingToDo
<1>8. CASE ks # <<>> /\ Absent \in Range(pairs)
  <2>1. Returns("PutAll", a, TRUE, Absent)
    BY <1>1, <1>2, <1>8
  <2> QED BY <1>5, <1>8, <2>1, Refused
<1>9. CASE ks # <<>> /\ Absent \notin Range(pairs)
  <2>1. PICK cells : cells = <<Len(ks)>> \o pairs
    OBVIOUS
  <2>2. Sends("PutAll", a, 1004, cells)
    BY <1>1, <1>2, <1>9, <2>1
  <2>3. cells = <<Len(ks)>> \o PairCells(ks, vs) /\ Len(ks) = Len(vs)
    BY <1>1, <1>2, <2>1
  <2>4. NodeArguments("PutAll", cells) = [keys |-> ks, values |-> vs]
    BY <1>4, <2>3, PairsAreRead
  <2>5. NodeArguments("PutAll", cells) = a
    BY <1>2, <2>4
  <2>6. Map(Meaning("PutAll", store, a).store)
    BY <1>6, SeveralKeysMap
  <2>7. NodeOp(1004) = "PutAll"
    BY DEF NodeOp
  <2> QED BY <1>5, <1>9, <2>2, <2>5, <2>6, <2>7, Answered
<1> QED BY <1>7, <1>8, <1>9

LEMMA NodeOps ==
    /\ NodeOp(1000) = "Get" /\ NodeOp(1011) = "ContainsKey" /\ NodeOp(1016) = "Remove"
    /\ NodeOp(1007) = "GetAndRemove" /\ NodeOp(1014) = "Clear" /\ NodeOp(1001) = "Put"
    /\ NodeOp(1002) = "PutIfAbsent" /\ NodeOp(1005) = "GetAndPut" /\ NodeOp(1006) = "GetAndReplace"
    /\ NodeOp(1008) = "GetAndPutIfAbsent" /\ NodeOp(1009) = "Replace" /\ NodeOp(1003) = "GetAll"
    /\ NodeOp(1012) = "ContainsKeys" /\ NodeOp(1018) = "RemoveKeys" /\ NodeOp(1015) = "ClearKeys"
    /\ NodeOp(1019) = "RemoveAll" /\ NodeOp(1013) = "ClearAll" /\ NodeOp(1020) = "Size"
  BY DEF NodeOp

LEMMA OfNothing ==
    /\ Meaning("GetAll", store, [keys |-> <<>>]).ret = {}
    /\ Meaning("ContainsKeys", store, [keys |-> <<>>]).ret = TRUE
    /\ Meaning("RemoveKeys", store, [keys |-> <<>>]).ret = Absent
    /\ Meaning("ClearKeys", store, [keys |-> <<>>]).ret = Absent
<1>1. PICK a : a = [keys |-> <<>>]
  OBVIOUS
<1>2. ASSUME NEW op
      PROVE  Meaning(op, store, a) = Several(op, store, a)
  BY <1>1 DEF Meaning
<1>3. Range(a.keys) = {}
  BY <1>1 DEF Range
<1>4. /\ Several("GetAll", store, a).ret = {} /\ Several("ContainsKeys", store, a).ret = TRUE
      /\ Several("RemoveKeys", store, a).ret = Absent /\ Several("ClearKeys", store, a).ret = Absent
  BY <1>3 DEF Several
<1> QED BY <1>1, <1>2, <1>4

(* The invariant: the store is a map of the keys, and the last call ran    *)
(* under the policy of its handle.                                         *)
OperationsKept == Map(store) /\ PolicyArrives

LEMMA OperationsStart ==
    ASSUME OperationInit
    PROVE  OperationsKept
<1>1. store = [k \in Keys |-> Absent] /\ last.policy = Absent
  BY DEF OperationInit
<1>2. Map(store)
  BY <1>1 DEF Map
<1> QED BY <1>1, <1>2 DEF OperationsKept, PolicyArrives

LEMMA OperationMeans ==
    ASSUME OperationsKept, OperationNext
    PROVE  LeftBehind
<1>1. Map(store)
  BY DEF OperationsKept
<1>2. CASE Get
  BY <1>1, <1>2, NodeOps, KeyMeans DEF Get
<1>3. CASE ContainsKey
  BY <1>1, <1>3, NodeOps, KeyMeans DEF ContainsKey
<1>4. CASE RemoveKey
  BY <1>1, <1>4, NodeOps, KeyMeans DEF RemoveKey
<1>5. CASE GetAndRemove
  BY <1>1, <1>5, NodeOps, KeyMeans DEF GetAndRemove
<1>6. CASE ClearKey
  BY <1>1, <1>6, NodeOps, KeyMeans DEF ClearKey
<1>7. CASE Put
  BY <1>1, <1>7, NodeOps, KeyValueMeans DEF Put
<1>8. CASE PutIfAbsent
  BY <1>1, <1>8, NodeOps, KeyValueMeans DEF PutIfAbsent
<1>9. CASE GetAndPut
  BY <1>1, <1>9, NodeOps, KeyValueMeans DEF GetAndPut
<1>10. CASE GetAndReplace
  BY <1>1, <1>10, NodeOps, KeyValueMeans DEF GetAndReplace
<1>11. CASE GetAndPutIfAbsent
  BY <1>1, <1>11, NodeOps, KeyValueMeans DEF GetAndPutIfAbsent
<1>12. CASE Replace
  BY <1>1, <1>12, NodeOps, KeyValueMeans DEF Replace
<1>13. CASE RemoveIfEquals
  BY <1>1, <1>13, RemoveIfEqualsMeans
<1>14. CASE ReplaceIfEquals
  BY <1>1, <1>14, ReplaceIfEqualsMeans
<1>15. CASE GetAll
  <2>1. PICK ret : ret = {}
    OBVIOUS
  <2>2. PICK ks \in Lists(Keys) : OnKeys("GetAll", [keys |-> ks], 1003, ret, ks)
    BY <1>15, <2>1 DEF GetAll
  <2>3. Meaning("GetAll", store, [keys |-> <<>>]).ret = ret /\ NodeOp(1003) = "GetAll"
    BY <2>1, NodeOps, OfNothing
  <2> QED BY <1>1, <2>2, <2>3, OnKeysMeans
<1>16. CASE ContainsKeys
  <2> DEFINE Runs(r) == \E ks \in Lists(Keys) : OnKeys("ContainsKeys", [keys |-> ks], 1012, r, ks)
  <2>1. Runs(TRUE)
    BY <1>16 DEF ContainsKeys
  <2>2. PICK ret : ret = Meaning("ContainsKeys", store, [keys |-> <<>>]).ret
    OBVIOUS
  <2>3. ret \in {TRUE}
    BY <2>2, OfNothing
  <2>4. Runs(ret)
    <3> HIDE DEF Runs
    <3> QED BY <2>1, <2>3, Zenon
  <2>5. PICK ks \in Lists(Keys) : OnKeys("ContainsKeys", [keys |-> ks], 1012, ret, ks)
    BY <2>4
  <2>6. NodeOp(1012) = "ContainsKeys" /\ Meaning("ContainsKeys", store, [keys |-> <<>>]).ret = ret
    BY <2>2, NodeOps
  <2> QED BY <1>1, <2>5, <2>6, OnKeysMeans
<1>17. CASE RemoveKeys
  <2>1. PICK ks \in Lists(Keys) : OnKeys("RemoveKeys", [keys |-> ks], 1018, Absent, ks)
    BY <1>17 DEF RemoveKeys
  <2> QED BY <1>1, <2>1, NodeOps, OfNothing, OnKeysMeans
<1>18. CASE ClearKeys
  <2>1. PICK ks \in Lists(Keys) : OnKeys("ClearKeys", [keys |-> ks], 1015, Absent, ks)
    BY <1>18 DEF ClearKeys
  <2> QED BY <1>1, <2>1, NodeOps, OfNothing, OnKeysMeans
<1>19. CASE PutAll
  BY <1>1, <1>19, PutAllMeans
<1>20. CASE RemoveAll
  BY <1>1, <1>20, NodeOps, WholeMeans DEF RemoveAll
<1>21. CASE ClearAll
  BY <1>1, <1>21, NodeOps, WholeMeans DEF ClearAll
<1>22. CASE Size
  BY <1>1, <1>22, NodeOps, WholeMeans DEF Size
<1> QED BY <1>2, <1>3, <1>4, <1>5, <1>6, <1>7, <1>8, <1>9, <1>10, <1>11, <1>12, <1>13, <1>14, <1>15, <1>16, <1>17, <1>18, <1>19, <1>20, <1>21, <1>22
        DEF OperationNext

(* No step changes the store or the last call but an operation. *)
LEMMA OperationStep ==
    ASSUME OperationsKept, [OperationNext]_operationVars
    PROVE  OperationsKept' /\ [CallMeans]_operationVars
<1>1. CASE OperationNext
  <2>1. LeftBehind
    BY <1>1, OperationMeans
  <2> QED BY <2>1 DEF LeftBehind, OperationsKept, Map
<1>2. CASE UNCHANGED operationVars
  <2>1. store' = store /\ last' = last
    BY <1>2 DEF operationVars
  <2> QED BY <1>2, <2>1 DEF OperationsKept, Map, PolicyArrives
<1> QED BY <1>1, <1>2

(* Every operation does what it means, of whatever keys and values, however *)
(* many a call names: its opcode and the order of the values it writes are  *)
(* those the node takes it by, and a nil fails it without a trace.          *)
THEOREM OperationsAreMeant == OperationSpec => OperationsMean
<1>1. OperationInit => OperationsKept
  BY OperationsStart
<1>2. OperationsKept /\ [OperationNext]_operationVars => OperationsKept' /\ [CallMeans]_operationVars
  BY OperationStep
<1> QED BY <1>1, <1>2, PTL DEF OperationSpec, OperationsMean

(* Every expiry policy reaches the node as it was asked for, to the         *)
(* millisecond, whatever the durations.                                     *)
THEOREM PoliciesArrive == OperationSpec => []PolicyArrives
<1>1. OperationInit => OperationsKept
  BY OperationsStart
<1>2. OperationsKept /\ [OperationNext]_operationVars => OperationsKept'
  BY OperationStep
<1>3. OperationsKept => PolicyArrives
  BY DEF OperationsKept
<1> QED BY <1>1, <1>2, <1>3, PTL DEF OperationSpec

(***************************************************************************)
(* The bit set.  Every set of features has its one bits in the first word. *)
(***************************************************************************)

Ids == 0 .. WordBits - 1

InUse(S) == IF S = {} THEN 0 ELSE 1

(* The words stand for S. *)
WordsOf(words, S) ==
    /\ S \subseteq Ids
    /\ words \in Seq(SUBSET Ids)
    /\ Len(words) >= 1
    /\ words[1] = S
    /\ \A w \in 2 .. Len(words) : words[w] = {}

(* The bit set stands for S, and has the words in use that S needs. *)
Holds(bs, S) == \E words : WordsOf(words, S) /\ bs = [words |-> words, wordsInUse |-> InUse(S)]

LEMMA MaxIs ==
    ASSUME NEW T, T \subseteq Int, NEW m \in T, \A x \in T : x <= m
    PROVE  Max(T) = m
<1>1. PICK x : x = Max(T)
  OBVIOUS
<1>2. \E y \in T : \A z \in T : y >= z
  OBVIOUS
<1>3. x \in T /\ \A z \in T : x >= z
  BY <1>1, <1>2 DEF Max
<1>4. x \in Int /\ m \in Int /\ x >= m /\ x <= m
  BY <1>3
<1> QED BY <1>1, <1>4

LEMMA Recalculated ==
    ASSUME NEW S, NEW words, WordsOf(words, S), NEW used \in 1 .. Len(words)
    PROVE  Holds(RecalculateWordsInUse([words |-> words, wordsInUse |-> used]), S)
<1>1. PICK T : T = {0} \cup {w \in 1 .. used : words[w] # {}}
  OBVIOUS
<1>2. T = IF S = {} THEN {0} ELSE {0, 1}
  <2>1. ASSUME NEW w \in 1 .. used
        PROVE  words[w] # {} <=> w = 1 /\ S # {}
    BY DEF WordsOf
  <2>2. 1 \in 1 .. used
    OBVIOUS
  <2> QED BY <1>1, <2>1, <2>2
<1>3. Max(T) = InUse(S)
  <2>1. T \subseteq Int /\ InUse(S) \in T /\ \A x \in T : x <= InUse(S)
    BY <1>2 DEF InUse
  <2> QED BY <2>1, MaxIs
<1>4. RecalculateWordsInUse([words |-> words, wordsInUse |-> used]) = [words |-> words, wordsInUse |-> InUse(S)]
  BY <1>1, <1>3 DEF RecalculateWordsInUse
<1> QED BY <1>4 DEF Holds

LEMMA FirstWord ==
    ASSUME NEW i \in Ids
    PROVE  WordIndex(i) = 0 /\ BitIndex(i) = i
<1>1. i \in 0 .. 63
  BY DEF Ids, WordBits
<1>2. i \div 64 = 0
  BY <1>1
<1> QED BY <1>2 DEF WordIndex, BitIndex, WordBits

LEMMA FirstReplaced ==
    ASSUME NEW S, NEW words, WordsOf(words, S), NEW R, R \subseteq Ids
    PROVE  WordsOf([words EXCEPT ![1] = R], R)
<1>1. PICK n \in Nat : n = Len(words) /\ n >= 1
  BY DEF WordsOf
<1>2. words \in [1 .. n -> SUBSET Ids]
  BY <1>1 DEF WordsOf
<1>3. PICK t : t = [words EXCEPT ![1] = R]
  OBVIOUS
<1>4. t \in [1 .. n -> SUBSET Ids] /\ t[1] = R /\ \A w \in 2 .. n : t[w] = words[w]
  BY <1>1, <1>2, <1>3
<1>5. t \in Seq(SUBSET Ids) /\ Len(t) = n
  BY <1>4
<1> QED BY <1>1, <1>3, <1>4, <1>5 DEF WordsOf

LEMMA FeatureSet ==
    ASSUME NEW bs, NEW S, Holds(bs, S), NEW i \in Ids
    PROVE  Holds(Set(bs, i), S \cup {i})
<1>1. PICK words : WordsOf(words, S) /\ bs = [words |-> words, wordsInUse |-> InUse(S)]
  BY DEF Holds
<1>2. Max({InUse(S), 0 + 1}) = 1
  <2>1. {InUse(S), 0 + 1} \subseteq Int /\ 1 \in {InUse(S), 0 + 1} /\ \A x \in {InUse(S), 0 + 1} : x <= 1
    BY DEF InUse
  <2> QED BY <2>1, MaxIs
<1>3. Len(words) > 0
  BY <1>1 DEF WordsOf
<1>4. ExpandTo(bs, 0) = [words |-> words, wordsInUse |-> 1]
  BY <1>1, <1>2, <1>3 DEF ExpandTo
<1>5. Set(bs, i) = [words |-> [words EXCEPT ![1] = S \cup {i}], wordsInUse |-> 1]
  <2>1. Set(bs, i) = [ExpandTo(bs, 0) EXCEPT !.words[0 + 1] = @ \cup {i}]
    BY FirstWord DEF Set
  <2>2. words[1] = S
    BY <1>1 DEF WordsOf
  <2> QED BY <1>4, <2>1, <2>2
<1>6. WordsOf([words EXCEPT ![1] = S \cup {i}], S \cup {i})
  <2>1. S \cup {i} \subseteq Ids
    BY <1>1 DEF WordsOf
  <2> QED BY <1>1, <2>1, FirstReplaced
<1>7. InUse(S \cup {i}) = 1
  BY DEF InUse
<1> QED BY <1>5, <1>6, <1>7 DEF Holds

LEMMA FeatureCleared ==
    ASSUME NEW bs, NEW S, Holds(bs, S), NEW i \in Ids
    PROVE  Holds(Clear(bs, i), S \ {i})
<1>1. PICK words : WordsOf(words, S) /\ bs = [words |-> words, wordsInUse |-> InUse(S)]
  BY DEF Holds
<1>2. CASE S = {}
  <2>1. 0 >= bs.wordsInUse
    BY <1>1, <1>2 DEF InUse
  <2>2. Clear(bs, i) = bs
    BY <2>1, FirstWord DEF Clear
  <2>3. S \ {i} = S
    BY <1>2
  <2> QED BY <2>2, <2>3
<1>3. CASE S # {}
  <2>1. ~ (0 >= bs.wordsInUse) /\ bs = [words |-> words, wordsInUse |-> 1]
    BY <1>1, <1>3 DEF InUse
  <2>2. Clear(bs, i) = RecalculateWordsInUse([bs EXCEPT !.words[0 + 1] = @ \ {i}])
    BY <2>1, FirstWord DEF Clear
  <2>3. words[1] = S /\ Len(words) >= 1 /\ words \in Seq(SUBSET Ids)
    BY <1>1 DEF WordsOf
  <2>4. PICK t : t = [words EXCEPT ![1] = S \ {i}]
    OBVIOUS
  <2>5. [bs EXCEPT !.words[0 + 1] = @ \ {i}] = [words |-> t, wordsInUse |-> 1]
    <3>1. bs.words = words /\ bs.words[1] = S
      BY <2>1, <2>3
    <3>2. [bs EXCEPT !.words[0 + 1] = @ \ {i}] = [bs EXCEPT !.words = t]
      BY <2>4, <3>1
    <3> QED BY <2>1, <3>2
  <2>6. WordsOf(t, S \ {i})
    <3>1. S \ {i} \subseteq Ids
      BY <1>1 DEF WordsOf
    <3> QED BY <1>1, <2>4, <3>1, FirstReplaced
  <2>7. 1 \in 1 .. Len(t)
    BY <2>6 DEF WordsOf
  <2> QED BY <2>2, <2>5, <2>6, <2>7, Recalculated
<1> QED BY <1>2, <1>3

-----------------------------------------------------------------------------
(* Masks. *)

(* The bytes are those of S, up to its last one bit at least. *)
BytesOf(data, S) ==
    /\ data \in Seq(SUBSET (0 .. 7))
    /\ \A k \in 1 .. Len(data) : data[k] = OctetOf(S, k - 1)
    /\ \A x \in S : x < 8 * Len(data)

LEMMA OctetIs ==
    ASSUME NEW S, NEW k, NEW b
    PROVE  b \in OctetOf(S, k) <=> b \in 0 .. 7 /\ 8 * k + b \in S
  BY DEF OctetOf, ByteBits

LEMMA BeyondIsEmpty ==
    ASSUME NEW S, S \subseteq Ids, NEW n \in Nat, \A x \in S : x < 8 * n, NEW k \in Nat, n <= k
    PROVE  OctetOf(S, k) = {}
<1>1. ASSUME NEW b \in OctetOf(S, k)
      PROVE  FALSE
  <2>1. b \in 0 .. 7 /\ 8 * k + b \in S
    BY <1>1, OctetIs
  <2> QED BY <2>1
<1> QED BY <1>1

(* Reading whatever bytes of S gives S: the bytes that are missing of the  *)
(* last word are empty.                                                    *)
LEMMA BytesAreRead ==
    ASSUME NEW S, S \subseteq Ids, NEW data, BytesOf(data, S)
    PROVE  Holds(FromBytes(data), S)
<1>1. PICK n \in Nat : n = Len(data)
  BY DEF BytesOf
<1>2. CASE n = 0
  <2>1. data = <<>> /\ S = {}
    <3>1. data = <<>>
      <4>1. PICK T : data \in Seq(T)
        BY DEF BytesOf
      <4> QED BY <1>1, <1>2, <4>1, EmptySeq
    <3>2. ASSUME NEW x \in S
          PROVE  FALSE
      <4>1. x \in 0 .. 63 /\ x < 0
        BY <1>1, <1>2 DEF BytesOf, Ids, WordBits
      <4> QED BY <4>1
    <3>3. S = {}
      BY <3>2
    <3> QED BY <3>1, <3>3
  <2>2. FromBytes(data) = [words |-> <<{}>>, wordsInUse |-> 0]
    BY <2>1 DEF FromBytes, New
  <2>3. WordsOf(<<{}>>, S)
    BY <2>1 DEF WordsOf
  <2>4. InUse(S) = 0
    BY <2>1 DEF InUse
  <2> QED BY <2>2, <2>3, <2>4 DEF Holds
<1>3. CASE n > 0
  <2>1. PICK r \in Int : r = (0 - n) % 8
    OBVIOUS
  <2>2. PICK q \in Int : q = (n + r) \div 8
    BY <2>1
  <2>3. r \in 0 .. 7 /\ n + r = 8 * q /\ q >= 1
    BY <1>3, <2>1, <2>2
  <2>4. PICK pad : pad = [i \in 1 .. r |-> {}]
    OBVIOUS
  <2>5. pad \in Seq(SUBSET (0 .. 7)) /\ Len(pad) = r /\ \A i \in 1 .. r : pad[i] = {}
    BY <2>3, <2>4
  <2>6. PICK padded : padded = data \o pad
    OBVIOUS
  <2>7. /\ Len(padded) = 8 * q
        /\ \A j \in 1 .. 8 * q : padded[j] = IF j <= n THEN data[j] ELSE pad[j - n]
    <3>1. PICK T : data \in Seq(T) /\ pad \in Seq(T)
      BY <2>5 DEF BytesOf
    <3>2. /\ Len(padded) = n + r
          /\ \A j \in 1 .. n + r : padded[j] = IF j <= n THEN data[j] ELSE pad[j - n]
      <4>1. /\ Len(data \o pad) = Len(data) + Len(pad)
            /\ \A j \in 1 .. Len(data) + Len(pad) :
                   (data \o pad)[j] = IF j <= Len(data) THEN data[j] ELSE pad[j - Len(data)]
        BY <3>1, ConcatProperties
      <4>2. n = Len(data) /\ Len(pad) = r /\ padded = data \o pad
        BY <1>1, <2>5, <2>6
      <4> QED BY <4>1, <4>2, Zenon
    <3> QED BY <2>3, <3>2
  <2>8. ASSUME NEW j \in 1 .. 8 * q
        PROVE  padded[j] = OctetOf(S, j - 1)
    <3>1. CASE j <= n
      BY <1>1, <2>7, <3>1 DEF BytesOf
    <3>2. CASE j > n
      <4>1. padded[j] = {}
        <5>1. j - n \in 1 .. r
          BY <2>3, <3>2
        <5> QED BY <2>5, <2>7, <3>2, <5>1
      <4>2. \A x \in S : x < 8 * n
        BY <1>1 DEF BytesOf
      <4>3. j - 1 \in Nat /\ n <= j - 1
        BY <3>2
      <4> QED BY <4>1, <4>2, <4>3, BeyondIsEmpty
    <3> QED BY <3>1, <3>2
  <2>9. PICK words : words = [w \in 1 .. q |-> {i \in Ids : i % 8 \in padded[8 * (w - 1) + i \div 8 + 1]}]
    OBVIOUS
  <2>10. words \in Seq(SUBSET Ids) /\ Len(words) = q
    <3>1. words \in [1 .. q -> SUBSET Ids] /\ q \in Nat
      BY <2>3, <2>9
    <3> QED BY <3>1
  <2>11. ASSUME NEW w \in 1 .. q, NEW i \in Ids
         PROVE  i \in words[w] <=> 64 * (w - 1) + i \in S
    <3>1. PICK d \in Int, m \in Int : d = i \div 8 /\ m = i % 8
      BY DEF Ids, WordBits
    <3>2. d \in 0 .. 7 /\ m \in 0 .. 7 /\ i = 8 * d + m
      BY <3>1 DEF Ids, WordBits
    <3>3. PICK j \in 1 .. 8 * q : j = 8 * (w - 1) + d + 1
      BY <3>2
    <3>4. i \in words[w] <=> m \in padded[j]
      BY <2>9, <3>1, <3>3
    <3>5. m \in padded[j] <=> 8 * (j - 1) + m \in S
      BY <2>8, <3>2, OctetIs
    <3>6. 8 * (j - 1) + m = 64 * (w - 1) + i
      BY <3>2, <3>3
    <3> QED BY <3>4, <3>5, <3>6
  <2>12. words[1] = S
    <3>1. 1 \in 1 .. q
      BY <2>3
    <3>2. words[1] \subseteq Ids
      BY <2>3, <2>10
    <3>3. \A i \in Ids : i \in words[1] <=> i \in S
      <4>1. ASSUME NEW i \in Ids
            PROVE  i \in words[1] <=> i \in S
        <5>1. 64 * (1 - 1) + i = i
          BY DEF Ids, WordBits
        <5> QED BY <2>11, <3>1, <5>1
      <4> QED BY <4>1
    <3> QED BY <3>2, <3>3
  <2>13. ASSUME NEW w \in 2 .. q
         PROVE  words[w] = {}
    <3>1. words[w] \subseteq Ids
      BY <2>10
    <3>2. ASSUME NEW i \in Ids, i \in words[w]
          PROVE  FALSE
      <4>1. 64 * (w - 1) + i \in S
        BY <2>11, <3>2
      <4>2. 64 * (w - 1) + i \in 0 .. 63
        BY <4>1 DEF Ids, WordBits
      <4> QED BY <4>2 DEF Ids, WordBits
    <3> QED BY <3>1, <3>2
  <2>14. WordsOf(words, S)
    BY <2>3, <2>10, <2>12, <2>13 DEF WordsOf
  <2>15. FromBytes(data) = RecalculateWordsInUse([words |-> words, wordsInUse |-> q])
    <3>1. data # <<>>
      BY <1>1, <1>3
    <3>2. padded = data \o [i \in 1 .. (0 - Len(data)) % 8 |-> {}]
      BY <1>1, <2>1, <2>4, <2>6
    <3>3. Len(padded) \div 8 = q
      BY <2>2, <2>3, <2>7
    <3> QED BY <2>9, <3>1, <3>2, <3>3 DEF FromBytes, Ids
  <2>16. q \in 1 .. Len(words)
    BY <2>3, <2>10
  <2> QED BY <2>14, <2>15, <2>16, Recalculated
<1> QED BY <1>2, <1>3

(* The mask of the client: the bytes of its first word, or none. *)
LEMMA OwnBytes ==
    ASSUME NEW bs, NEW S, Holds(bs, S)
    PROVE  BytesOf(Bytes(bs), S)
<1>1. PICK words : WordsOf(words, S) /\ bs = [words |-> words, wordsInUse |-> InUse(S)]
  BY DEF Holds
<1>2. PICK n \in Nat : n = 8 * InUse(S)
  BY DEF InUse
<1>3. PICK data : data = Bytes(bs)
  OBVIOUS
<1>4. data = [i \in 1 .. n |-> OctetOf(words[(i - 1) \div 8 + 1], (i - 1) % 8)]
  BY <1>1, <1>2, <1>3 DEF Bytes, ByteBits
<1>5. ASSUME NEW i \in 1 .. n
      PROVE  data[i] = OctetOf(S, i - 1)
  <2>1. i \in 1 .. 8
    BY <1>2 DEF InUse
  <2>2. (i - 1) \div 8 + 1 = 1 /\ (i - 1) % 8 = i - 1
    BY <2>1
  <2>3. words[1] = S
    BY <1>1 DEF WordsOf
  <2> QED BY <1>4, <2>2, <2>3
<1>6. data \in Seq(SUBSET (0 .. 7)) /\ Len(data) = n
  <2>1. \A i \in 1 .. n : data[i] \in SUBSET (0 .. 7)
    BY <1>5 DEF OctetOf, ByteBits
  <2>2. data \in [1 .. n -> SUBSET (0 .. 7)]
    BY <1>4, <2>1
  <2> QED BY <2>2
<1>7. ASSUME NEW x \in S
      PROVE  x < 8 * n
  <2>1. x \in 0 .. 63
    BY <1>1 DEF WordsOf, Ids, WordBits
  <2>2. n = 8
    BY <1>2 DEF InUse
  <2> QED BY <2>1, <2>2
<1> QED BY <1>3, <1>5, <1>6, <1>7 DEF BytesOf

(* The mask of a node, up to its last one bit. *)
LEMMA MaskBytes ==
    ASSUME NEW S, S \subseteq Ids
    PROVE  BytesOf(NodeMask(S), S)
<1>1. PICK m \in -1 .. 63 : m \in {-1} \cup S /\ \A x \in S : x <= m
  <2>1. S \subseteq 0 .. 63
    BY DEF Ids, WordBits
  <2>2. CASE S = {}
    BY <2>2
  <2>3. CASE S # {}
    <3>1. PICK T : T = {n \in 0 .. 63 : 63 - n \in S}
      OBVIOUS
    <3>2. T \subseteq Nat /\ T # {}
      <4>1. PICK x \in S : x \in 0 .. 63
        BY <2>1, <2>3
      <4>2. PICK y \in 0 .. 63 : 63 - y = x
        <5>1. 63 - x \in 0 .. 63 /\ 63 - (63 - x) = x
          BY <4>1
        <5> QED BY <5>1
      <4>3. y \in T
        BY <3>1, <4>1, <4>2
      <4>4. T \subseteq Nat
        BY <3>1
      <4> QED BY <4>3, <4>4
    <3>3. PICK n \in T : \A k \in T : n <= k
      BY <3>2, LeastNumber
    <3>4. ASSUME NEW x \in S
          PROVE  x <= 63 - n
      <4>1. PICK y \in 0 .. 63 : x \in 0 .. 63 /\ y = 63 - x /\ 63 - y = x
        <5>1. x \in 0 .. 63 /\ 63 - x \in 0 .. 63 /\ 63 - (63 - x) = x
          BY <2>1
        <5> QED BY <5>1
      <4>2. y \in T
        BY <3>1, <4>1
      <4>3. n \in 0 .. 63 /\ n <= y
        BY <3>1, <3>3, <4>2
      <4> QED BY <4>1, <4>3
    <3>5. 63 - n \in S /\ 63 - n \in -1 .. 63
      BY <3>1
    <3> QED BY <3>4, <3>5
  <2> QED BY <2>2, <2>3
<1>2. Max({-1} \cup S) = m
  <2>1. PICK T : T = {-1} \cup S
    OBVIOUS
  <2>2. T \subseteq Int /\ m \in T /\ \A x \in T : x <= m
    BY <1>1, <2>1 DEF Ids, WordBits
  <2>3. Max(T) = m
    BY <2>2, MaxIs
  <2> QED BY <2>1, <2>3
<1>3. PICK n \in Nat : n = m \div 8 + 1 /\ m < 8 * n
  <2>1. m \div 8 + 1 \in Nat /\ m < 8 * (m \div 8 + 1)
    OBVIOUS
  <2> QED BY <2>1
<1>4. PICK mask : mask = NodeMask(S)
  OBVIOUS
<1>5. mask = [k \in 1 .. n |-> OctetOf(S, k - 1)]
  BY <1>2, <1>3, <1>4 DEF NodeMask, ByteBits
<1>6. mask \in Seq(SUBSET (0 .. 7)) /\ Len(mask) = n
  <2>1. \A k \in 1 .. n : OctetOf(S, k - 1) \in SUBSET (0 .. 7)
    BY DEF OctetOf, ByteBits
  <2>2. mask \in [1 .. n -> SUBSET (0 .. 7)]
    BY <1>5, <2>1
  <2> QED BY <2>2
<1>7. \A x \in S : x < 8 * n
  BY <1>1, <1>3 DEF Ids, WordBits
<1> QED BY <1>4, <1>5, <1>6, <1>7 DEF BytesOf

(* And with whatever empty bytes behind it. *)
LEMMA NodeBytes ==
    ASSUME NEW S, S \subseteq Ids, NEW excess \in Nat
    PROVE  BytesOf(NodeMask(S) \o [i \in 1 .. excess |-> {}], S)
<1>1. PICK mask : mask = NodeMask(S) /\ BytesOf(mask, S)
  BY MaskBytes
<1>2. PICK n \in Nat : n = Len(mask)
  BY <1>1 DEF BytesOf
<1>3. /\ mask \in Seq(SUBSET (0 .. 7)) /\ \A x \in S : x < 8 * n
      /\ \A k \in 1 .. n : mask[k] = OctetOf(S, k - 1)
  BY <1>1, <1>2 DEF BytesOf
<1>4. PICK rest : rest = [i \in 1 .. excess |-> {}]
  OBVIOUS
<1>5. rest \in Seq(SUBSET (0 .. 7)) /\ Len(rest) = excess
  <2>1. rest \in [1 .. excess -> SUBSET (0 .. 7)]
    BY <1>4
  <2> QED BY <2>1
<1>6. PICK data : data = mask \o rest
  OBVIOUS
<1>7. /\ data \in Seq(SUBSET (0 .. 7)) /\ Len(data) = n + excess
       /\ \A k \in 1 .. n + excess : data[k] = IF k <= n THEN mask[k] ELSE rest[k - n]
  <2>1. PICK T : T = SUBSET (0 .. 7)
    OBVIOUS
  <2>2. /\ mask \o rest \in Seq(T) /\ Len(mask \o rest) = Len(mask) + Len(rest)
        /\ \A k \in 1 .. Len(mask) + Len(rest) :
               (mask \o rest)[k] = IF k <= Len(mask) THEN mask[k] ELSE rest[k - Len(mask)]
    BY <1>3, <1>5, <2>1, ConcatProperties
  <2>3. Len(mask) = n /\ Len(rest) = excess /\ data = mask \o rest
    BY <1>2, <1>5, <1>6
  <2> QED BY <2>1, <2>2, <2>3, Zenon
<1>8. ASSUME NEW k \in 1 .. Len(data)
       PROVE  data[k] = OctetOf(S, k - 1)
  <2>1. CASE k <= n
    BY <1>3, <1>7, <2>1
  <2>2. CASE k > n
    <3>1. k \in 1 .. n + excess /\ k - n \in 1 .. excess /\ ~(k <= n)
      BY <1>7, <2>2
    <3>2. data[k] = {}
      BY <1>4, <1>7, <3>1
    <3>3. k - 1 \in Nat /\ n <= k - 1
      BY <2>2
    <3> QED BY <1>3, <3>2, <3>3, BeyondIsEmpty
  <2> QED BY <1>7, <2>1, <2>2
<1>9. ASSUME NEW x \in S
       PROVE  x < 8 * Len(data)
  BY <1>3, <1>7 DEF Ids, WordBits
<1> QED BY <1>1, <1>4, <1>6, <1>7, <1>8, <1>9 DEF BytesOf

(* The node reads of such bytes what they stand for. *)
LEMMA NodeReadsThem ==
    ASSUME NEW S, S \subseteq Ids, NEW data, BytesOf(data, S)
    PROVE  NodeReads(data) = S
<1>1. PICK n \in Nat : n = Len(data) /\ DOMAIN data = 1 .. n
  BY DEF BytesOf
<1>2. ASSUME NEW x
      PROVE  x \in NodeReads(data) <=> \E k \in 1 .. n : \E b \in data[k] : x = 8 * (k - 1) + b
  BY <1>1 DEF NodeReads, ByteBits
<1>3. ASSUME NEW k \in 1 .. n, NEW b
      PROVE  b \in data[k] <=> b \in 0 .. 7 /\ 8 * (k - 1) + b \in S
  <2>1. data[k] = OctetOf(S, k - 1)
    BY <1>1 DEF BytesOf
  <2> QED BY <2>1, OctetIs
<1>4. ASSUME NEW x \in NodeReads(data)
      PROVE  x \in S
  BY <1>2, <1>3
<1>5. ASSUME NEW x \in S
      PROVE  x \in NodeReads(data)
  <2>1. x \in Nat /\ x < 8 * n
    BY <1>1 DEF BytesOf, Ids, WordBits
  <2>2. PICK d \in Int, b \in Int : d = x \div 8 /\ b = x % 8
    BY <2>1
  <2>3. d >= 0 /\ d < n /\ b \in 0 .. 7 /\ x = 8 * d + b
    BY <2>1, <2>2
  <2>4. PICK k \in 1 .. n : k = d + 1
    BY <2>3
  <2>5. x = 8 * (k - 1) + b
    BY <2>3, <2>4
  <2>6. b \in data[k]
    BY <1>3, <2>3, <2>5
  <2> QED BY <1>2, <2>5, <2>6
<1> QED BY <1>4, <1>5

-----------------------------------------------------------------------------
(* What is tested, and equality. *)

LEMMA TestedAre ==
    ASSUME NEW bs, NEW S, Holds(bs, S)
    PROVE  Members(bs, Ids) = S
<1>1. PICK words : WordsOf(words, S) /\ bs = [words |-> words, wordsInUse |-> InUse(S)]
  BY DEF Holds
<1>2. ASSUME NEW i \in Ids
      PROVE  Test(bs, i) <=> i \in S
  <2>1. Test(bs, i) <=> 0 < InUse(S) /\ i \in words[0 + 1]
    BY <1>1, FirstWord DEF Test, Word
  <2>2. words[0 + 1] = S
    BY <1>1 DEF WordsOf
  <2> QED BY <2>1, <2>2 DEF InUse
<1>3. S \subseteq Ids
  BY <1>1 DEF WordsOf
<1> QED BY <1>2, <1>3 DEF Members

LEMMA SameAreEqual ==
    ASSUME NEW a, NEW b, NEW S, Holds(a, S), Holds(b, S)
    PROVE  Equals(a, b)
<1>1. a.wordsInUse = InUse(S) /\ a.words[1] = S
  BY DEF Holds, WordsOf
<1>2. b.wordsInUse = InUse(S) /\ b.words[1] = S
  BY DEF Holds, WordsOf
<1>3. \A w \in 1 .. InUse(S) : w = 1
  BY DEF InUse
<1> QED BY <1>1, <1>2, <1>3 DEF Equals

(* The invariant: the bit set stands for the features. *)
BitsHold == features \subseteq FeatureIds /\ Holds(bits, features)

LEMMA BitsStart ==
    ASSUME BitSetInit
    PROVE  BitsHold
<1>1. bits = [words |-> <<{}>>, wordsInUse |-> 0] /\ features = {}
  BY DEF BitSetInit, New
<1>2. WordsOf(<<{}>>, features) /\ InUse(features) = 0
  BY <1>1 DEF WordsOf, InUse
<1> QED BY <1>1, <1>2 DEF BitsHold, Holds

LEMMA BitsStep ==
    ASSUME BitsHold, [BitSetNext]_bitVars
    PROVE  BitsHold'
<1>1. FeatureIds \subseteq Ids
  BY FeaturesAssumption DEF Ids
<1>2. CASE SetFeature
  <2>1. PICK i \in FeatureIds : bits' = Set(bits, i) /\ features' = features \cup {i}
    BY <1>2 DEF SetFeature
  <2>2. Holds(Set(bits, i), features \cup {i})
    BY <1>1, FeatureSet DEF BitsHold
  <2> QED BY <2>1, <2>2 DEF BitsHold
<1>3. CASE ClearFeature
  <2>1. PICK i \in FeatureIds : bits' = Clear(bits, i) /\ features' = features \ {i}
    BY <1>3 DEF ClearFeature
  <2>2. Holds(Clear(bits, i), features \ {i})
    BY <1>1, FeatureCleared DEF BitsHold
  <2> QED BY <2>1, <2>2 DEF BitsHold
<1>4. CASE MaskReceived
  <2>1. PICK S \in SUBSET FeatureIds, excess \in 0 .. MaxExcess :
            bits' = FromBytes(NodeMask(S) \o [i \in 1 .. excess |-> {}]) /\ features' = S
    BY <1>4 DEF MaskReceived
  <2>2. excess \in Nat /\ S \subseteq Ids
    BY <1>1, FeaturesAssumption
  <2>3. BytesOf(NodeMask(S) \o [i \in 1 .. excess |-> {}], S)
    BY <2>2, NodeBytes
  <2>4. PICK data : data = NodeMask(S) \o [i \in 1 .. excess |-> {}]
    OBVIOUS
  <2>5. Holds(FromBytes(data), S)
    BY <2>2, <2>3, <2>4, BytesAreRead
  <2> QED BY <2>1, <2>4, <2>5 DEF BitsHold
<1>5. CASE UNCHANGED bitVars
  BY <1>5 DEF bitVars, BitsHold
<1> QED BY <1>2, <1>3, <1>4, <1>5 DEF BitSetNext

LEMMA BitsMean ==
    ASSUME BitsHold
    PROVE  FeaturesKept
<1>1. features \subseteq Ids
  BY FeaturesAssumption DEF BitsHold, Ids
<1>2. Members(bits, 0 .. WordBits - 1) = features
  BY TestedAre DEF BitsHold, Ids
<1>3. BytesOf(Bytes(bits), features)
  BY OwnBytes DEF BitsHold
<1>4. BytesOf(NodeMask(features), features)
  BY <1>1, MaskBytes
<1>5. Holds(FromBytes(Bytes(bits)), features) /\ Holds(FromBytes(NodeMask(features)), features)
  BY <1>1, <1>3, <1>4, BytesAreRead
<1>6. NodeReads(Bytes(bits)) = features
  BY <1>1, <1>3, NodeReadsThem
<1> QED BY <1>2, <1>5, <1>6, SameAreEqual DEF FeaturesKept, BitsHold

(* The client and the node agree on the features, whatever features there   *)
(* are, in whatever order they are set, cleared and received, and however   *)
(* many empty bytes a node sends behind its mask.                           *)
THEOREM FeaturesAreKept == BitSetSpec => []FeaturesKept
<1>1. BitSetInit => BitsHold
  BY BitsStart
<1>2. BitsHold /\ [BitSetNext]_bitVars => BitsHold'
  BY BitsStep
<1>3. BitsHold => FeaturesKept
  BY BitsMean
<1> QED BY <1>1, <1>2, <1>3, PTL DEF BitSetSpec
=============================================================================
