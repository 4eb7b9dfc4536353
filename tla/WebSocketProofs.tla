--------------------------- MODULE WebSocketProofs --------------------------
(***************************************************************************)
(* The websocket stream for any requests, lengths and number of messages.  *)
(* The header codec of WebSocketFrame: what is written is what is read,    *)
(* and has the size that was computed for it.  The connection of           *)
(* WebSocketStream: its types, and how often callbacks are called.         *)
(***************************************************************************)
EXTENDS WebSocketStream, SequenceTheorems, TLAPS

(* The four bytes of a 32-bit length, and its value put together again.    *)
LEMMA Division ==
  ASSUME NEW n \in Nat, IsUint32(n)
  PROVE  /\ Byte0(n) \in Byte /\ Byte1(n) \in Byte /\ Byte2(n) \in Byte /\ Byte3(n) \in Byte
         /\ n = 256 * (256 * (256 * Byte3(n) + Byte2(n)) + Byte1(n)) + Byte0(n)
         /\ n <= 32767 => n = 256 * Byte1(n) + Byte0(n)
<1> DEFINE q1 == n \div 256
           q2 == n \div 65536
           q3 == n \div 16777216
<1>1. /\ q1 \in Nat /\ Byte0(n) \in 0 .. 255 /\ n = 256 * q1 + Byte0(n)
      /\ n <= 32767 => Byte1(n) = q1
  BY SMT DEF Byte0, Byte1
<1>2. q2 \in Nat /\ Byte1(n) \in 0 .. 255 /\ q1 = 256 * q2 + Byte1(n)
  BY SMT DEF Byte1
<1>3. q3 \in Nat /\ Byte2(n) \in 0 .. 255 /\ q2 = 256 * q3 + Byte2(n)
  BY SMT DEF Byte2
<1>4. Byte3(n) = q3 /\ q3 \in 0 .. 255
  <2>1. q3 \in 0 .. 255
    BY DEF IsUint32
  <2> QED BY <2>1, SMT DEF Byte3
<1> HIDE DEF q1, q2, q3
<1> QED BY <1>1, <1>2, <1>3, <1>4, SMT DEF Byte

(* Two bytes followed by a length of 16 bits.                              *)
LEMMA WithShort ==
  ASSUME NEW x \in Int, NEW y \in Int, NEW a \in Int, NEW b \in Int
  PROVE  <<x, y>> \o <<a, b>> = <<x, y, a, b>>
<1> DEFINE s == <<x, y>> \o <<a, b>>
           t == <<x, y, a, b>>
<1>1. s \in Seq(Int) /\ t \in Seq(Int) /\ Len(s) = 4 /\ Len(t) = 4
  BY SMT
<1>2. \A i \in 1 .. 4 : s[i] = t[i]
  <2> TAKE i \in 1 .. 4
  <2>1. i = 1 \/ i = 2 \/ i = 3 \/ i = 4
    BY SMT
  <2> QED BY <2>1, SMT
<1> QED BY <1>1, <1>2, SeqEqual

(* Two bytes followed by a length of 64 bits.                              *)
LEMMA WithLength ==
  ASSUME NEW x \in Int, NEW y \in Int, NEW a \in Int, NEW b \in Int, NEW c \in Int, NEW d \in Int
  PROVE  <<x, y>> \o <<0, 0, 0, 0, a, b, c, d>> = <<x, y, 0, 0, 0, 0, a, b, c, d>>
<1> DEFINE s == <<x, y>> \o <<0, 0, 0, 0, a, b, c, d>>
           t == <<x, y, 0, 0, 0, 0, a, b, c, d>>
<1>1. s \in Seq(Int) /\ t \in Seq(Int) /\ Len(s) = 10 /\ Len(t) = 10
  BY SMT
<1>2. \A i \in 1 .. 10 : s[i] = t[i]
  <2> TAKE i \in 1 .. 10
  <2>1. i = 1 \/ i = 2 \/ i = 3 \/ i = 4 \/ i = 5 \/ i = 6 \/ i = 7 \/ i = 8 \/ i = 9 \/ i = 10
    BY SMT
  <2> QED BY <2>1, SMT
<1> QED BY <1>1, <1>2, SeqEqual

-----------------------------------------------------------------------------
(* Headers of any length: a close frame has one of its own.                *)
AnyHeader == [fin : BOOLEAN, use_mask : BOOLEAN, payload_len : Nat, masking_key : MaskKeys]

LEMMA HeadersAreAny == Headers \subseteq AnyHeader
BY LengthsAssumption DEF Headers, AnyHeader

(* The first two bytes of a header.                                        *)
First(opcode, h) == (IF h.fin THEN 128 ELSE 0) + Code(opcode)
Second(h) == (IF h.use_mask THEN 128 ELSE 0) + Mark(h.payload_len)

(* The first byte gives back the flag and the kind of frame.               *)
LEMMA FirstByte ==
  ASSUME NEW opcode \in Opcodes, NEW h \in AnyHeader
  PROVE  /\ First(opcode, h) \in Byte
         /\ First(opcode, h) >= 128 <=> h.fin
         /\ OpcodeOf(First(opcode, h) % 16) =
              IF opcode \in {"undefined", "reserved_for_further"} THEN "binary_frame" ELSE opcode
<1>1. h.fin \in BOOLEAN
  BY DEF AnyHeader
<1>2. Code(opcode) \in 0 .. 10
  BY SMT DEF Code
<1>3. /\ First(opcode, h) \in Byte
      /\ First(opcode, h) >= 128 <=> h.fin
      /\ First(opcode, h) % 16 = Code(opcode)
  BY <1>1, <1>2, SMT DEF First, Byte
<1>4. OpcodeOf(Code(opcode)) =
        IF opcode \in {"undefined", "reserved_for_further"} THEN "binary_frame" ELSE opcode
  BY SMT DEF Opcodes, Code, OpcodeOf
<1> QED BY <1>3, <1>4

(* The second byte gives back the mask bit and the mark of the length.     *)
LEMMA SecondByte ==
  ASSUME NEW h \in AnyHeader
  PROVE  /\ Mark(h.payload_len) \in 0 .. 127
         /\ Second(h) \in Byte
         /\ Second(h) >= 128 <=> h.use_mask
         /\ Second(h) % 128 = Mark(h.payload_len)
<1>1. h.use_mask \in BOOLEAN /\ h.payload_len \in Nat
  BY DEF AnyHeader
<1>2. Mark(h.payload_len) \in 0 .. 127
  BY <1>1, SMT DEF Mark
<1> QED BY <1>1, <1>2, SMT DEF Second, Byte

(* A masking key is its four bytes.                                        *)
LEMMA KeyBytes ==
  ASSUME NEW k \in MaskKeys
  PROVE  \E a \in Byte, b \in Byte, c \in Byte, d \in Byte : k = <<a, b, c, d>>
<1>1. k \in [1 .. 4 -> Byte]
  BY MaskKeysAssumption
<1>2. k[1] \in Byte /\ k[2] \in Byte /\ k[3] \in Byte /\ k[4] \in Byte
  BY <1>1, SMT
<1>3. k = <<k[1], k[2], k[3], k[4]>>
  <2> DEFINE t == <<k[1], k[2], k[3], k[4]>>
  <2>1. t \in [1 .. 4 -> Byte]
    BY <1>2, SMT
  <2>2. \A i \in 1 .. 4 : k[i] = t[i]
    <3> TAKE i \in 1 .. 4
    <3>1. i = 1 \/ i = 2 \/ i = 3 \/ i = 4
      BY SMT
    <3> QED BY <3>1, SMT
  <2> HIDE DEF t
  <2>3. k = t
    BY <1>1, <2>1, <2>2
  <2> QED BY <2>3 DEF t
<1> QED BY <1>2, <1>3

(* The bytes that binary_pack writes, in the four forms a header has.      *)
LEMMA Packed ==
  ASSUME NEW opcode \in Opcodes, NEW h \in AnyHeader
  PROVE  LET n == h.payload_len
             raw == Pack(opcode, h)
         IN  /\ raw[1] = First(opcode, h) /\ raw[2] = Second(h) /\ Len(raw) = PackSize(h)
             /\ h.use_mask =>
                  PackSize(h) = 6 /\ \A i \in 1 .. 4 : raw[2 + i] = h.masking_key[i]
             /\ ~h.use_mask /\ n < 126 => PackSize(h) = 2
             /\ ~h.use_mask /\ 126 <= n /\ n <= 32767 =>
                  PackSize(h) = 4 /\ raw[3] = Byte1(n) /\ raw[4] = Byte0(n)
             /\ ~h.use_mask /\ 32767 < n =>
                  /\ PackSize(h) = 10
                  /\ raw[3] = 0 /\ raw[4] = 0 /\ raw[5] = 0 /\ raw[6] = 0
                  /\ raw[7] = Byte3(n) /\ raw[8] = Byte2(n) /\ raw[9] = Byte1(n) /\ raw[10] = Byte0(n)
<1> DEFINE n == h.payload_len
           x == First(opcode, h)
           y == Second(h)
           raw == Pack(opcode, h)
<1>1. n \in Nat /\ h.use_mask \in BOOLEAN /\ x \in Int /\ y \in Int
  <2>1. n \in Nat /\ h.use_mask \in BOOLEAN
    BY DEF AnyHeader
  <2>2. x \in Byte /\ y \in Byte
    BY FirstByte, SecondByte
  <2> QED BY <2>1, <2>2, SMT DEF Byte
<1>2. Byte0(n) \in Int /\ Byte1(n) \in Int /\ Byte2(n) \in Int /\ Byte3(n) \in Int
  BY <1>1, SMT DEF Byte0, Byte1, Byte2, Byte3
<1>3. raw = (<<x, y>> \o Extended(h.use_mask, n)) \o (IF h.use_mask THEN h.masking_key ELSE <<>>)
  BY DEF Pack, First, Second
<1> HIDE DEF n, x, y, raw
<1>4. \A s \in Seq(Int) : s \o <<>> = s
  BY ConcatEmptySeq
<1>5. <<x, y>> \in Seq(Int)
  BY <1>1, SMT
<1>6. CASE h.use_mask
  <2>1. Mark(n) - 256 \notin {126, 127} /\ MarkOfBlock(h.use_mask, Mark(n)) = Mark(n) - 256
    BY <1>1, <1>6, SMT DEF Mark, MarkOfBlock
  <2>2. Extended(h.use_mask, n) = <<>> /\ PackSize(h) = 6
    BY <2>1, <1>6, SMT DEF Extended, PackSize, n
  <2>3. PICK a \in Byte, b \in Byte, c \in Byte, d \in Byte : h.masking_key = <<a, b, c, d>>
    BY KeyBytes DEF AnyHeader
  <2>4. raw = <<x, y>> \o <<a, b, c, d>>
    BY <1>3, <1>4, <1>5, <1>6, <2>2, <2>3
  <2>5. a \in Int /\ b \in Int /\ c \in Int /\ d \in Int /\ x \in Int /\ y \in Int
    BY <1>1, SMT DEF Byte
  <2>6. /\ raw[1] = x /\ raw[2] = y /\ Len(raw) = 6
        /\ \A i \in 1 .. 4 : raw[2 + i] = <<a, b, c, d>>[i]
    <3>1. raw[1] = x /\ raw[2] = y /\ Len(raw) = 6
      BY <2>4, <2>5, SMT
    <3>2. ASSUME NEW i \in 1 .. 4
          PROVE  raw[2 + i] = <<a, b, c, d>>[i]
      <4>1. i = 1 \/ i = 2 \/ i = 3 \/ i = 4
        BY SMT
      <4> QED BY <2>4, <2>5, <4>1, SMT
    <3> QED BY <3>1, <3>2
  <2> QED BY <1>6, <2>2, <2>3, <2>6 DEF x, y, raw
<1>7. CASE ~h.use_mask /\ n < 126
  <2>1. MarkOfBlock(h.use_mask, Mark(n)) = n
    BY <1>1, <1>7, SMT DEF Mark, MarkOfBlock
  <2>2. Extended(h.use_mask, n) = <<>> /\ PackSize(h) = 2
    BY <2>1, <1>1, <1>7, SMT DEF Extended, PackSize, n
  <2>3. raw = <<x, y>>
    BY <1>3, <1>4, <1>5, <1>7, <2>2
  <2>4. raw[1] = x /\ raw[2] = y /\ Len(raw) = 2
    BY <2>3, SMT
  <2>5. ~(126 <= n) /\ ~(32767 < n)
    BY <1>1, <1>7, SMT
  <2> QED BY <1>7, <2>2, <2>4, <2>5 DEF x, y, raw, n
<1>8. CASE ~h.use_mask /\ 126 <= n /\ n <= 32767
  <2>1. MarkOfBlock(h.use_mask, Mark(n)) = 126
    BY <1>1, <1>8, SMT DEF Mark, MarkOfBlock
  <2>2. Extended(h.use_mask, n) = <<Byte1(n), Byte0(n)>> /\ PackSize(h) = 4
    BY <2>1, <1>1, <1>8, SMT DEF Extended, PackSize, n
  <2>3. raw = (<<x, y>> \o <<Byte1(n), Byte0(n)>>) \o <<>>
    BY <1>3, <1>8, <2>2
  <2>4. <<x, y>> \o <<Byte1(n), Byte0(n)>> = <<x, y, Byte1(n), Byte0(n)>>
    BY <1>1, <1>2, WithShort
  <2>5. <<x, y, Byte1(n), Byte0(n)>> \in Seq(Int)
    BY <1>1, <1>2, SMT
  <2>6. raw = <<x, y, Byte1(n), Byte0(n)>>
    BY <1>4, <2>3, <2>4, <2>5
  <2>7. raw[1] = x /\ raw[2] = y /\ Len(raw) = 4 /\ raw[3] = Byte1(n) /\ raw[4] = Byte0(n)
    BY <2>6, SMT
  <2>8. ~(n < 126) /\ ~(32767 < n)
    BY <1>1, <1>8, SMT
  <2> QED BY <1>8, <2>2, <2>7, <2>8 DEF x, y, raw, n
<1>9. CASE ~h.use_mask /\ 32767 < n
  <2>1. MarkOfBlock(h.use_mask, Mark(n)) = 127
    BY <1>1, <1>9, SMT DEF Mark, MarkOfBlock
  <2> DEFINE a == Byte3(n)
             b == Byte2(n)
             c == Byte1(n)
             d == Byte0(n)
  <2>2. Extended(h.use_mask, n) = <<0, 0, 0, 0, a, b, c, d>> /\ PackSize(h) = 10
    BY <2>1, <1>1, <1>9, SMT DEF Extended, PackSize, n
  <2>3. a \in Int /\ b \in Int /\ c \in Int /\ d \in Int
    BY <1>2
  <2>4. raw = (<<x, y>> \o <<0, 0, 0, 0, a, b, c, d>>) \o <<>>
    BY <1>3, <1>9, <2>2
  <2> HIDE DEF a, b, c, d
  <2>5. <<x, y, 0, 0, 0, 0, a, b, c, d>> \in Seq(Int)
    BY <1>1, <2>3, SMT
  <2>6. <<x, y>> \o <<0, 0, 0, 0, a, b, c, d>> = <<x, y, 0, 0, 0, 0, a, b, c, d>>
    BY <1>1, <2>3, WithLength
  <2>7. raw = <<x, y, 0, 0, 0, 0, a, b, c, d>>
    BY <1>4, <2>4, <2>5, <2>6
  <2>8. /\ raw[1] = x /\ raw[2] = y /\ Len(raw) = 10
        /\ raw[3] = 0 /\ raw[4] = 0 /\ raw[5] = 0 /\ raw[6] = 0
        /\ raw[7] = a /\ raw[8] = b /\ raw[9] = c /\ raw[10] = d
    BY <2>7, SMT
  <2>9. ~(n < 126) /\ ~(n <= 32767)
    BY <1>1, <1>9, SMT
  <2> QED BY <1>9, <2>2, <2>8, <2>9 DEF x, y, raw, n, a, b, c, d
<1>10. \/ h.use_mask \/ (~h.use_mask /\ n < 126)
       \/ (~h.use_mask /\ 126 <= n /\ n <= 32767) \/ (~h.use_mask /\ 32767 < n)
  BY <1>1, SMT
<1> QED BY <1>6, <1>7, <1>8, <1>9, <1>10 DEF n, x, y, raw

(* binary_pack_size is the number of bytes binary_pack writes              *)
(* (xwebsocket_stream_impl.cpp:485-600), for every header.                 *)
THEOREM SizeIsPacked == SizeAgrees
BY Packed, HeadersAreAny DEF SizeAgrees

(* What binary_pack writes of a header that can be sent, analyze reads.    *)
LEMMA PackedIsRead ==
  ASSUME NEW opcode \in Opcodes, NEW h \in AnyHeader, Sendable(h)
  PROVE  LET a == Analyze(Pack(opcode, h))
         IN /\ a.opcode = IF opcode \in {"undefined", "reserved_for_further"}
                          THEN "binary_frame" ELSE opcode
            /\ a.fin = h.fin
            /\ a.use_mask = h.use_mask
            /\ a.payload_len = h.payload_len
            /\ h.use_mask => a.masking_key = h.masking_key
            /\ a.payload_pos = PackSize(h)
<1> DEFINE n == h.payload_len
           raw == Pack(opcode, h)
           mark == raw[2] % 128
<1>1. /\ n \in Nat /\ IsUint32(n) /\ h.use_mask \in BOOLEAN /\ h.fin \in BOOLEAN
      /\ h.use_mask => n < 126
  BY DEF AnyHeader, Sendable
<1>2. raw[1] = First(opcode, h) /\ raw[2] = Second(h)
  BY Packed
<1>3. /\ OpcodeOf(raw[1] % 16) = IF opcode \in {"undefined", "reserved_for_further"}
                                  THEN "binary_frame" ELSE opcode
      /\ (raw[1] >= 128) = h.fin
      /\ (raw[2] >= 128) = h.use_mask
      /\ mark = Mark(n)
  BY <1>1, <1>2, FirstByte, SecondByte
<1>4. /\ LengthRead(raw, mark) = n
      /\ PackSize(h) = 2 + (IF mark = 126 THEN 2 ELSE IF mark = 127 THEN 8 ELSE 0)
                          + (IF h.use_mask THEN 4 ELSE 0)
      /\ h.use_mask => mark \notin {126, 127}
  <2>1. CASE h.use_mask \/ n < 126
    <3>1. Mark(n) = n /\ n \notin {126, 127}
      BY <1>1, <2>1, SMT DEF Mark
    <3>2. PackSize(h) = IF h.use_mask THEN 6 ELSE 2
      BY <2>1, Packed
    <3>3. LengthRead(raw, mark) = n
      BY <1>3, <3>1 DEF LengthRead
    <3> QED BY <1>1, <1>3, <3>1, <3>2, <3>3, SMT
  <2>2. CASE ~h.use_mask /\ 126 <= n /\ n <= 32767
    <3>1. Mark(n) = 126
      BY <1>1, <2>2, SMT DEF Mark
    <3>2. PackSize(h) = 4 /\ raw[3] = Byte1(n) /\ raw[4] = Byte0(n)
      BY <2>2, Packed
    <3>3. Signed16(256 * Byte1(n) + Byte0(n)) = n
      BY <1>1, <2>2, Division, SMT DEF Signed16
    <3>4. LengthRead(raw, mark) = n
      BY <1>3, <3>1, <3>2, <3>3 DEF LengthRead
    <3> QED BY <1>3, <2>2, <3>1, <3>2, <3>4, SMT
  <2>3. CASE ~h.use_mask /\ 32767 < n
    <3>1. Mark(n) = 127
      BY <1>1, <2>3, SMT DEF Mark
    <3>2. /\ PackSize(h) = 10
          /\ raw[3] = 0 /\ raw[4] = 0 /\ raw[5] = 0 /\ raw[6] = 0
          /\ raw[7] = Byte3(n) /\ raw[8] = Byte2(n) /\ raw[9] = Byte1(n) /\ raw[10] = Byte0(n)
      BY <2>3, Packed
    <3> HIDE DEF raw, mark
    <3>3. LengthRead(raw, 127) =
            256 * (256 * (256 * Byte3(n) + Byte2(n)) + Byte1(n)) + Byte0(n)
      <4>1. /\ Byte0(n) \in Nat /\ Byte1(n) \in Nat /\ Byte2(n) \in Nat /\ Byte3(n) \in Nat
        <5>1. Byte0(n) \in Byte /\ Byte1(n) \in Byte /\ Byte2(n) \in Byte /\ Byte3(n) \in Byte
          BY <1>1, Division
        <5> QED BY <5>1, SMT DEF Byte
      <4> QED BY <3>2, <4>1, SMT DEF LengthRead
    <3>4. LengthRead(raw, 127) = n
      BY <1>1, <3>3, Division
    <3> QED BY <1>3, <2>3, <3>1, <3>2, <3>4, SMT
  <2> QED BY <1>1, <2>1, <2>2, <2>3, SMT
<1>5. ASSUME h.use_mask
      PROVE  [i \in 1 .. 4 |-> raw[2 + 0 + i]] = h.masking_key
  <2>1. PICK a \in Byte, b \in Byte, c \in Byte, d \in Byte : h.masking_key = <<a, b, c, d>>
    BY KeyBytes DEF AnyHeader
  <2>2. \A i \in 1 .. 4 : raw[2 + i] = <<a, b, c, d>>[i]
    BY <1>5, <2>1, Packed
  <2> HIDE DEF raw
  <2>3. [i \in 1 .. 4 |-> raw[2 + 0 + i]] = <<a, b, c, d>>
    BY <2>2, SMT
  <2> QED BY <2>1, <2>3
<1> HIDE DEF mark
<1>6. CASE h.use_mask
  <2>1. /\ Analyze(raw).fin = (raw[1] >= 128) /\ Analyze(raw).opcode = OpcodeOf(raw[1] % 16)
        /\ Analyze(raw).use_mask = (raw[2] >= 128)
        /\ Analyze(raw).payload_len = LengthRead(raw, mark)
        /\ Analyze(raw).masking_key = [i \in 1 .. 4 |-> raw[2 + 0 + i]]
        /\ Analyze(raw).payload_pos = 2 + 0 + 4
    BY <1>3, <1>4, <1>6 DEF Analyze, mark
  <2> QED BY <1>3, <1>4, <1>5, <1>6, <2>1
<1>7. CASE ~h.use_mask
  <2>1. /\ Analyze(raw).fin = (raw[1] >= 128) /\ Analyze(raw).opcode = OpcodeOf(raw[1] % 16)
        /\ Analyze(raw).use_mask = (raw[2] >= 128)
        /\ Analyze(raw).payload_len = LengthRead(raw, mark)
        /\ Analyze(raw).payload_pos = 2 + (IF mark = 126 THEN 2 ELSE IF mark = 127 THEN 8 ELSE 0)
                                         + (IF raw[2] >= 128 THEN 4 ELSE 0)
    BY DEF Analyze, mark
  <2> QED BY <1>3, <1>4, <1>7, <2>1
<1> QED BY <1>1, <1>6, <1>7

(* analyze reads back what binary_pack has written                         *)
(* (xwebsocket_stream_impl.cpp:407-554), for every header that can be sent.*)
THEOREM WrittenIsRead == RoundTrip
BY PackedIsRead, HeadersAreAny DEF RoundTrip

(* Where the elements of two sequences are after they have been joined.    *)
LEMMA Joined ==
  ASSUME NEW s \in Seq(Int), NEW t \in Seq(Int)
  PROVE  /\ s \o t \in Seq(Int) /\ Len(s \o t) = Len(s) + Len(t)
         /\ \A i \in 1 .. Len(s) : (s \o t)[i] = s[i]
         /\ \A i \in 1 .. Len(t) : (s \o t)[Len(s) + i] = t[i]
<1> DEFINE u == s \o t
<1>1. /\ u \in Seq(Int) /\ Len(u) = Len(s) + Len(t)
      /\ \A i \in 1 .. Len(s) + Len(t) : u[i] = IF i <= Len(s) THEN s[i] ELSE t[i - Len(s)]
  BY ConcatProperties
<1>2. Len(s) \in Nat /\ Len(t) \in Nat
  OBVIOUS
<1> HIDE DEF u
<1>3. \A i \in 1 .. Len(s) : i \in 1 .. Len(s) + Len(t) /\ i <= Len(s)
  BY <1>2, SMT
<1>4. \A i \in 1 .. Len(t) :
        /\ Len(s) + i \in 1 .. Len(s) + Len(t) /\ ~(Len(s) + i <= Len(s))
        /\ (Len(s) + i) - Len(s) = i
  BY <1>2, SMT
<1> QED BY <1>1, <1>3, <1>4 DEF u

(* A header in three parts: two bytes, the extended length, the key.       *)
LEMMA InThreeParts ==
  ASSUME NEW x \in Int, NEW y \in Int, NEW ext \in Seq(Int), NEW key \in Seq(Int)
  PROVE  LET raw == (<<x, y>> \o ext) \o key
         IN  /\ raw[1] = x /\ raw[2] = y /\ Len(raw) = 2 + Len(ext) + Len(key)
             /\ \A i \in 1 .. Len(ext) : raw[2 + i] = ext[i]
             /\ \A i \in 1 .. Len(key) : raw[2 + Len(ext) + i] = key[i]
<1> DEFINE start == <<x, y>>
           front == start \o ext
<1>1. start \in Seq(Int) /\ Len(start) = 2 /\ start[1] = x /\ start[2] = y
  BY SMT
<1> HIDE DEF start
<1>2. /\ front \in Seq(Int) /\ Len(front) = 2 + Len(ext)
      /\ \A i \in 1 .. 2 : front[i] = start[i]
      /\ \A i \in 1 .. Len(ext) : front[2 + i] = ext[i]
  <2>1. /\ front \in Seq(Int) /\ Len(front) = Len(start) + Len(ext)
        /\ \A i \in 1 .. Len(start) : front[i] = start[i]
        /\ \A i \in 1 .. Len(ext) : front[Len(start) + i] = ext[i]
    BY <1>1, Joined, Zenon
  <2> QED BY <1>1, <2>1, Zenon
<1> HIDE DEF front
<1>3. /\ Len(front \o key) = Len(front) + Len(key)
      /\ \A i \in 1 .. Len(front) : (front \o key)[i] = front[i]
      /\ \A i \in 1 .. Len(key) : (front \o key)[Len(front) + i] = key[i]
  BY <1>2, Joined
<1>4. /\ Len(ext) \in Nat
      /\ 1 \in 1 .. 2 /\ 2 \in 1 .. 2
      /\ 1 \in 1 .. Len(front) /\ 2 \in 1 .. Len(front)
      /\ \A i \in 1 .. Len(ext) : 2 + i \in 1 .. Len(front)
  BY <1>2, SMT
<1>5. (front \o key)[1] = x /\ (front \o key)[2] = y
  BY <1>1, <1>2, <1>3, <1>4
<1>6. \A i \in 1 .. Len(ext) : (front \o key)[2 + i] = ext[i]
  BY <1>2, <1>3, <1>4
<1> QED BY <1>2, <1>3, <1>5, <1>6 DEF front, start

(* The two bytes of a frame of another program.                            *)
OtherSecond(h) == (IF h.use_mask THEN 128 ELSE 0) + MarkUnsigned(h.payload_len)
OtherExtended(n) ==
  IF n < 126 THEN <<>>
  ELSE IF n <= 65535 THEN <<Byte1(n), Byte0(n)>>
  ELSE <<0, 0, 0, 0, Byte3(n), Byte2(n), Byte1(n), Byte0(n)>>
OtherKey(h) == IF h.use_mask THEN h.masking_key ELSE <<>>

(* The second byte gives back the mask bit and the mark of the length.     *)
LEMMA OtherSecondByte ==
  ASSUME NEW h \in AnyHeader
  PROVE  (OtherSecond(h) >= 128 <=> h.use_mask) /\ OtherSecond(h) % 128 = MarkUnsigned(h.payload_len)
<1>1. h.use_mask \in BOOLEAN /\ h.payload_len \in Nat
  BY DEF AnyHeader
<1>2. MarkUnsigned(h.payload_len) \in 0 .. 127
  BY <1>1, SMT DEF MarkUnsigned
<1> QED BY <1>1, <1>2, SMT DEF OtherSecond

(* The parts of a header of another program.                               *)
LEMMA OtherParts ==
  ASSUME NEW opcode \in Opcodes, NEW h \in AnyHeader, IsUint32(h.payload_len)
  PROVE  LET n == h.payload_len
             raw == PackOther(opcode, h)
             size == Len(OtherExtended(n))
         IN  /\ raw[1] = First(opcode, h) /\ raw[2] = OtherSecond(h)
             /\ Len(raw) = 2 + size + (IF h.use_mask THEN 4 ELSE 0)
             /\ \A i \in 1 .. size : raw[2 + i] = OtherExtended(n)[i]
             /\ h.use_mask => \A i \in 1 .. 4 : raw[2 + size + i] = h.masking_key[i]
<1> DEFINE n == h.payload_len
           ext == OtherExtended(n)
           key == OtherKey(h)
<1>1. n \in Nat /\ h.use_mask \in BOOLEAN /\ First(opcode, h) \in Int
  <2>1. n \in Nat /\ h.use_mask \in BOOLEAN
    BY DEF AnyHeader
  <2>2. First(opcode, h) \in Byte
    BY FirstByte
  <2> QED BY <2>1, <2>2, SMT DEF Byte
<1>2. OtherSecond(h) \in Int
  BY <1>1, SMT DEF OtherSecond, MarkUnsigned
<1>3. ext \in Seq(Int)
  <2>1. Byte0(n) \in Int /\ Byte1(n) \in Int /\ Byte2(n) \in Int /\ Byte3(n) \in Int
    BY <1>1, SMT DEF Byte0, Byte1, Byte2, Byte3
  <2> HIDE DEF n
  <2>2. /\ <<>> \in Seq(Int) /\ <<Byte1(n), Byte0(n)>> \in Seq(Int)
        /\ <<0, 0, 0, 0, Byte3(n), Byte2(n), Byte1(n), Byte0(n)>> \in Seq(Int)
    BY <2>1, SMT
  <2> QED BY <2>2 DEF OtherExtended
<1>4. /\ key \in Seq(Int) /\ Len(key) = (IF h.use_mask THEN 4 ELSE 0)
  <2>1. CASE h.use_mask
    <3>1. PICK a \in Byte, b \in Byte, c \in Byte, d \in Byte : h.masking_key = <<a, b, c, d>>
      BY KeyBytes DEF AnyHeader
    <3>2. <<a, b, c, d>> \in Seq(Int) /\ Len(<<a, b, c, d>>) = 4
      BY <3>1, SMT DEF Byte
    <3> QED BY <2>1, <3>1, <3>2 DEF OtherKey
  <2>2. CASE ~h.use_mask
    BY <2>2, SMT DEF OtherKey
  <2> QED BY <2>1, <2>2
<1>5. PackOther(opcode, h) = (<<First(opcode, h), OtherSecond(h)>> \o ext) \o key
  BY DEF PackOther, First, OtherSecond, OtherExtended, OtherKey
<1>6. h.use_mask => key = h.masking_key
  BY DEF OtherKey
<1> HIDE DEF ext, key
<1>7. LET raw == (<<First(opcode, h), OtherSecond(h)>> \o ext) \o key
      IN  /\ raw[1] = First(opcode, h) /\ raw[2] = OtherSecond(h)
          /\ Len(raw) = 2 + Len(ext) + Len(key)
          /\ \A i \in 1 .. Len(ext) : raw[2 + i] = ext[i]
          /\ \A i \in 1 .. Len(key) : raw[2 + Len(ext) + i] = key[i]
  <2> DEFINE x == First(opcode, h)
             y == OtherSecond(h)
  <2>1. x \in Int /\ y \in Int
    BY <1>1, <1>2
  <2> HIDE DEF x, y
  <2>2. LET raw == (<<x, y>> \o ext) \o key
        IN  /\ raw[1] = x /\ raw[2] = y
            /\ Len(raw) = 2 + Len(ext) + Len(key)
            /\ \A i \in 1 .. Len(ext) : raw[2 + i] = ext[i]
            /\ \A i \in 1 .. Len(key) : raw[2 + Len(ext) + i] = key[i]
    <3>1. ext \in Seq(Int) /\ key \in Seq(Int)
      BY <1>3, <1>4
    <3> QED BY <2>1, <3>1, InThreeParts
  <2> QED BY <2>2 DEF x, y
<1> QED BY <1>4, <1>5, <1>6, <1>7 DEF ext, n

(* The length in a header of another program, and how it is read.          *)
LEMMA OtherLength ==
  ASSUME NEW n \in Nat, IsUint32(n), NEW raw, NEW mark, mark = MarkUnsigned(n),
         \A i \in 1 .. Len(OtherExtended(n)) : raw[2 + i] = OtherExtended(n)[i]
  PROVE  /\ Len(OtherExtended(n)) = IF mark = 126 THEN 2 ELSE IF mark = 127 THEN 8 ELSE 0
         /\ LengthRead(raw, mark) = ReadAs(n)
<1>1. CASE n < 126
  <2>1. mark = n /\ n \notin {126, 127} /\ ~(32768 <= n)
    BY <1>1, SMT DEF MarkUnsigned
  <2>2. Len(OtherExtended(n)) = 0
    BY <1>1, SMT DEF OtherExtended
  <2>3. LengthRead(raw, mark) = n
    BY <2>1, SMT DEF LengthRead
  <2>4. ReadAs(n) = n
    BY <2>1, SMT DEF ReadAs, Misread
  <2> QED BY <2>1, <2>2, <2>3, <2>4
<1>2. CASE 126 <= n /\ n <= 65535
  <2>1. mark = 126 /\ ~(n < 126)
    BY <1>2, SMT DEF MarkUnsigned
  <2>2. OtherExtended(n) = <<Byte1(n), Byte0(n)>>
    BY <1>2, <2>1, SMT DEF OtherExtended
  <2>3. Len(OtherExtended(n)) = 2 /\ raw[3] = Byte1(n) /\ raw[4] = Byte0(n)
    BY <2>2, SMT
  <2>4. n = 256 * Byte1(n) + Byte0(n)
    BY <1>2, SMT DEF Byte0, Byte1
  <2>5. LengthRead(raw, mark) = Signed16(256 * Byte1(n) + Byte0(n))
    BY <2>1, <2>3, SMT DEF LengthRead
  <2>6. Signed16(n) = ReadAs(n)
    BY <1>2, SMT DEF Signed16, ReadAs, Misread
  <2>7. LengthRead(raw, mark) = ReadAs(n)
    BY <2>4, <2>5, <2>6
  <2> QED BY <2>1, <2>3, <2>7
<1>3. CASE 65535 < n
  <2>1. mark = 127
    BY <1>3, SMT DEF MarkUnsigned
  <2>2. OtherExtended(n) = <<0, 0, 0, 0, Byte3(n), Byte2(n), Byte1(n), Byte0(n)>>
    BY <1>3, SMT DEF OtherExtended
  <2>3. /\ Len(OtherExtended(n)) = 8
        /\ raw[3] = 0 /\ raw[4] = 0 /\ raw[5] = 0 /\ raw[6] = 0
        /\ raw[7] = Byte3(n) /\ raw[8] = Byte2(n) /\ raw[9] = Byte1(n) /\ raw[10] = Byte0(n)
    BY <2>2, SMT
  <2>4. LengthRead(raw, 127) =
          256 * (256 * (256 * Byte3(n) + Byte2(n)) + Byte1(n)) + Byte0(n)
    <3>1. /\ Byte0(n) \in Nat /\ Byte1(n) \in Nat /\ Byte2(n) \in Nat /\ Byte3(n) \in Nat
      BY SMT DEF Byte0, Byte1, Byte2, Byte3
    <3> QED BY <2>3, <3>1, SMT DEF LengthRead
  <2>5. LengthRead(raw, 127) = n
    BY <2>4, Division
  <2>6. ReadAs(n) = n
    BY <1>3, SMT DEF ReadAs, Misread
  <2>7. Len(OtherExtended(n)) = IF mark = 126 THEN 2 ELSE IF mark = 127 THEN 8 ELSE 0
    BY <2>1, <2>3, SMT
  <2> QED BY <2>1, <2>5, <2>6, <2>7
<1>4. n < 126 \/ (126 <= n /\ n <= 65535) \/ 65535 < n
  BY SMT
<1> QED BY <1>1, <1>2, <1>3, <1>4

(* What another program writes, analyze reads.                             *)
LEMMA OtherIsRead ==
  ASSUME NEW opcode \in Opcodes \ {"undefined", "reserved_for_further"},
         NEW h \in AnyHeader, IsUint32(h.payload_len)
  PROVE  LET a == Analyze(PackOther(opcode, h))
         IN /\ a.opcode = opcode /\ a.fin = h.fin /\ a.use_mask = h.use_mask
            /\ a.payload_len = ReadAs(h.payload_len)
            /\ h.use_mask => a.masking_key = h.masking_key
            /\ a.payload_pos = Len(PackOther(opcode, h))
<1> DEFINE n == h.payload_len
           raw == PackOther(opcode, h)
           mark == raw[2] % 128
           size == Len(OtherExtended(n))
<1>1. n \in Nat /\ IsUint32(n) /\ h.use_mask \in BOOLEAN /\ h.fin \in BOOLEAN
  BY DEF AnyHeader
<1>2. /\ raw[1] = First(opcode, h) /\ raw[2] = OtherSecond(h)
      /\ Len(raw) = 2 + size + (IF h.use_mask THEN 4 ELSE 0)
      /\ \A i \in 1 .. size : raw[2 + i] = OtherExtended(n)[i]
      /\ h.use_mask => \A i \in 1 .. 4 : raw[2 + size + i] = h.masking_key[i]
  BY OtherParts
<1>3. OpcodeOf(raw[1] % 16) = opcode /\ (raw[1] >= 128) = h.fin
  BY <1>1, <1>2, FirstByte
<1>5. (raw[2] >= 128) = h.use_mask /\ mark = MarkUnsigned(n)
  BY <1>1, <1>2, OtherSecondByte
<1>6. /\ size = IF mark = 126 THEN 2 ELSE IF mark = 127 THEN 8 ELSE 0
      /\ LengthRead(raw, mark) = ReadAs(n)
  <2>1. mark = MarkUnsigned(n)
    BY <1>5
  <2>2. n \in Nat /\ IsUint32(n)
    BY <1>1
  <2>3. \A i \in 1 .. Len(OtherExtended(n)) : raw[2 + i] = OtherExtended(n)[i]
    BY <1>2
  <2> HIDE DEF raw, mark, n
  <2> QED BY <2>1, <2>2, <2>3, OtherLength
<1>7. h.use_mask => [i \in 1 .. 4 |-> raw[2 + size + i]] = h.masking_key
  <2> SUFFICES ASSUME h.use_mask PROVE [i \in 1 .. 4 |-> raw[2 + size + i]] = h.masking_key
    OBVIOUS
  <2>1. h.masking_key \in [1 .. 4 -> Byte]
    BY MaskKeysAssumption DEF AnyHeader
  <2>2. \A i \in 1 .. 4 : raw[2 + size + i] = h.masking_key[i]
    BY <1>2
  <2> HIDE DEF raw, size
  <2> QED BY <2>1, <2>2
<1>8. /\ Analyze(raw).fin = (raw[1] >= 128) /\ Analyze(raw).opcode = OpcodeOf(raw[1] % 16)
      /\ Analyze(raw).use_mask = (raw[2] >= 128)
      /\ Analyze(raw).payload_len = LengthRead(raw, mark)
      /\ Analyze(raw).payload_pos = 2 + size + (IF h.use_mask THEN 4 ELSE 0)
      /\ h.use_mask => Analyze(raw).masking_key = [i \in 1 .. 4 |-> raw[2 + size + i]]
  BY <1>5, <1>6 DEF Analyze, mark
<1> HIDE DEF raw, mark, size
<1>9. /\ Analyze(raw).opcode = opcode /\ Analyze(raw).fin = h.fin
      /\ Analyze(raw).use_mask = h.use_mask
      /\ Analyze(raw).payload_len = ReadAs(n)
      /\ h.use_mask => Analyze(raw).masking_key = h.masking_key
      /\ Analyze(raw).payload_pos = Len(raw)
  BY <1>2, <1>3, <1>5, <1>6, <1>7, <1>8
<1> QED BY <1>9, Zenon DEF raw

(* analyze reads the headers of other programs right, but for a length     *)
(* from 32768 to 65535 (xwebsocket_stream_impl.cpp:407-483).               *)
THEOREM OthersAreRead == ReadsOthers
BY OtherIsRead, HeadersAreAny DEF ReadsOthers

-----------------------------------------------------------------------------
(* The connection.                                                         *)

LEMMA TwoEnds == "client" \in Ends /\ "server" \in Ends
BY DEF Ends

LEMMA StreamTypeInit == Init => StreamTypeOK
BY MaxFramesAssumption, SMT DEF Init, StreamTypeOK, TcpInit

(* A read that dies, and one that goes on after a heartbeat.               *)
LEMMA Dying ==
  ASSUME StreamTypeOK, NEW e \in Ends, NEW w, Die(e, w) \/ ReadAgain(e, w)
  PROVE  /\ sock' \in [Ends -> {"none", "open", "closed"}]
         /\ phase' \in [Ends -> {"start", "waiting", "open", "failed", "gone"}]
         /\ reading' \in [Ends -> {"none", "sync", "async", "hollow"}]
         /\ reading'[e] # "sync"
         /\ \A d \in Ends : d # e => reading'[d] = reading[d]
<1>1. CASE Die(e, w)
  BY <1>1 DEF Die, Shut, StreamTypeOK
<1>2. CASE ReadAgain(e, w) /\ ~Die(e, w)
  BY <1>2 DEF ReadAgain, StreamTypeOK
<1> QED
  BY <1>1, <1>2

(* What an action changes of one end keeps the types.                      *)
LEMMA StreamTypeStep == StreamTypeOK /\ [Next]_vars => StreamTypeOK'
<1> SUFFICES ASSUME StreamTypeOK, [Next]_vars PROVE StreamTypeOK'
  OBVIOUS
<1> USE TwoEnds, MaxFramesAssumption
<1>1. CASE Connect
  BY <1>1 DEF Connect, StreamTypeOK, setupVars
<1>2. CASE AsyncConnect
  BY <1>2 DEF AsyncConnect, StreamTypeOK, setupVars
<1>3. ASSUME NEW chunk \in Chunks("client"), ClientResponse(chunk) PROVE StreamTypeOK'
  BY <1>3 DEF ClientResponse, StreamTypeOK, setupVars
<1>4. CASE ConnectFails
  BY <1>4 DEF ConnectFails, StreamTypeOK, setupVars, tcpVars
<1>5. CASE TcpAccept
  BY <1>5 DEF TcpAccept, StreamTypeOK, setupVars
<1>6. CASE HandshakeFails
  BY <1>6 DEF HandshakeFails, Reject, Shut, StreamTypeOK, setupVars
<1>7. ASSUME NEW chunk \in Chunks("server"), ServerHandshake(chunk) PROVE StreamTypeOK'
  BY <1>7 DEF ServerHandshake, Reject, Shut, StreamTypeOK, setupVars
<1>8. ASSUME NEW e \in Ends, NEW via, NEW opcode, Write(e, via, opcode) PROVE StreamTypeOK'
  <2>1. frames[e] + 1 \in 0 .. MaxFrames
    <3>1. frames["client"] \in Nat /\ frames["server"] \in Nat
          /\ frames["client"] + frames["server"] < MaxFrames
      BY <1>8, SMT DEF Write, StreamTypeOK
    <3>2. frames[e] \in Nat /\ frames[e] + 1 <= MaxFrames
      BY <3>1, SMT DEF Ends
    <3> QED
      BY <3>2, SMT
  <2> QED
    BY <1>8, <2>1 DEF Write, StreamTypeOK, setupVars
<1>9. ASSUME NEW e \in Ends, Disconnect(e) \/ Destroy(e) PROVE StreamTypeOK'
  BY <1>9 DEF Disconnect, Destroy, Shut, StreamTypeOK, setupVars
<1>10. ASSUME NEW e \in Ends, NEW how \in {"sync", "async"}, Read(e, how) PROVE StreamTypeOK'
  BY <1>10 DEF Read, StreamTypeOK, setupVars, tcpVars
<1>11. ASSUME NEW e \in Ends, EndProgress(e) PROVE StreamTypeOK'
  <2>1. ASSUME NEW chunk, SyncRead(e, chunk) PROVE StreamTypeOK'
    <3>1. /\ whole' = [whole EXCEPT ![e] = whole[e] /\ OneFrame(chunk)]
          /\ UNCHANGED <<accepted, frames, calls, length>>
      BY <2>1 DEF SyncRead, setupVars
    <3>2. whole' \in [Ends -> BOOLEAN]
      BY <3>1 DEF StreamTypeOK
    <3>3. PICK o \in Outcomes(chunk) :
            \/ /\ reading' = [reading EXCEPT ![e] = IF o.kind = "heartbeat" THEN "sync" ELSE "none"]
               /\ failed' = [failed EXCEPT ![e] = o.kind = "close"]
               /\ UNCHANGED <<sock, phase>>
            \/ Die(e, Rest(e, chunk)) /\ UNCHANGED failed
      BY <2>1 DEF SyncRead
    <3>4. CASE Die(e, Rest(e, chunk)) /\ UNCHANGED failed
      BY <3>1, <3>2, <3>4, Dying DEF StreamTypeOK
    <3>5. CASE ~(Die(e, Rest(e, chunk)) /\ UNCHANGED failed)
      BY <3>1, <3>2, <3>3, <3>5 DEF StreamTypeOK
    <3> QED
      BY <3>3, <3>4, <3>5
  <2>2. ASSUME NEW chunk, AsyncRead(e, chunk) PROVE StreamTypeOK'
    <3>1. /\ whole' = [whole EXCEPT ![e] = whole[e] /\ OneFrame(chunk)]
          /\ UNCHANGED <<accepted, frames, failed, length>>
      BY <2>2 DEF AsyncRead, setupVars
    <3>2. whole' \in [Ends -> BOOLEAN]
      BY <3>1 DEF StreamTypeOK
    <3>3. \/ /\ calls' = [calls EXCEPT ![e] = IF calls[e] = 0 THEN 1 ELSE 2]
             /\ reading' = [reading EXCEPT ![e] = "none"]
             /\ UNCHANGED <<sock, phase>>
          \/ (Die(e, Rest(e, chunk)) \/ ReadAgain(e, Rest(e, chunk))) /\ UNCHANGED calls
      BY <2>2 DEF AsyncRead
    <3>4. CASE (Die(e, Rest(e, chunk)) \/ ReadAgain(e, Rest(e, chunk))) /\ UNCHANGED calls
      BY <3>1, <3>2, <3>4, Dying DEF StreamTypeOK
    <3>5. CASE /\ calls' = [calls EXCEPT ![e] = IF calls[e] = 0 THEN 1 ELSE 2]
               /\ reading' = [reading EXCEPT ![e] = "none"]
               /\ UNCHANGED <<sock, phase>>
      BY <3>1, <3>2, <3>5 DEF StreamTypeOK
    <3> QED
      BY <3>3, <3>4, <3>5
  <2>3. CASE SyncReadFails(e)
    BY <2>3 DEF SyncReadFails, StreamTypeOK, setupVars, tcpVars
  <2>4. CASE AsyncReadFails(e)
    <3>1. failed' = [failed EXCEPT ![e] = TRUE] /\ UNCHANGED <<accepted, frames, whole, length>>
      BY <2>4 DEF AsyncReadFails, setupVars
    <3>2. calls' \in [Ends -> 0 .. 2]
      BY <2>4 DEF AsyncReadFails, StreamTypeOK
    <3>3. CASE Die(e, wire) \/ ReadAgain(e, wire)
      BY <3>1, <3>2, <3>3, Dying DEF StreamTypeOK
    <3>4. CASE ~(Die(e, wire) \/ ReadAgain(e, wire))
      BY <2>4, <3>1, <3>2, <3>4 DEF AsyncReadFails, tcpVars, StreamTypeOK
    <3> QED
      BY <3>3, <3>4
  <2>5. CASE HollowRead(e)
    BY <2>5, Dying DEF HollowRead, setupVars, StreamTypeOK
  <2> QED
    BY <1>11, <2>1, <2>2, <2>3, <2>4, <2>5 DEF EndProgress
<1>12. CASE UNCHANGED vars
  BY <1>12 DEF vars, tcpVars, setupVars, streamVars, StreamTypeOK
<1> QED
  BY <1>1, <1>2, <1>3, <1>4, <1>5, <1>6, <1>7, <1>8, <1>9, <1>10, <1>11, <1>12 DEF Next, Progress

(* Both ends and their calls stay in their types, whatever the requests,   *)
(* the lengths and the number of messages.                                 *)
THEOREM StreamTypeCorrect == Spec => []StreamTypeOK
BY StreamTypeInit, StreamTypeStep, PTL DEF Spec

(* Until a read fails, it has not called its callback while it goes on.    *)
CallsAt(e) ==
  /\ calls[e] = 2 => failed[e]
  /\ reading[e] = "sync" => calls[e] = 0
  /\ reading[e] \in {"async", "hollow"} /\ ~failed[e] => calls[e] = 0
Calling == \A e \in Ends : CallsAt(e)

LEMMA CallingStep == StreamTypeOK /\ Calling /\ [Next]_vars => Calling'
<1> SUFFICES ASSUME StreamTypeOK, Calling, [Next]_vars PROVE Calling'
  OBVIOUS
<1>1. CASE UNCHANGED <<calls, failed, reading>>
  BY <1>1 DEF Calling, CallsAt
<1>2. ASSUME NEW e \in Ends, NEW how \in {"sync", "async"}, Read(e, how) PROVE Calling'
  <2>1. \A d \in Ends : d # e => calls'[d] = calls[d] /\ failed'[d] = failed[d] /\ reading'[d] = reading[d]
    BY <1>2 DEF Read, StreamTypeOK
  <2>2. calls'[e] = 0
    BY <1>2 DEF Read, StreamTypeOK
  <2> QED
    BY <2>1, <2>2 DEF Calling, CallsAt
<1>3. ASSUME NEW e \in Ends, EndProgress(e) PROVE Calling'
  <2>1. SUFFICES /\ CallsAt(e)'
                 /\ \A d \in Ends : d # e => calls'[d] = calls[d] /\ failed'[d] = failed[d]
                                             /\ reading'[d] = reading[d]
    BY DEF Calling, CallsAt
  <2>c. CallsAt(e)
    BY DEF Calling
  <2>2. ASSUME NEW chunk, SyncRead(e, chunk)
        PROVE  /\ CallsAt(e)'
               /\ \A d \in Ends : d # e => calls'[d] = calls[d] /\ failed'[d] = failed[d]
                                           /\ reading'[d] = reading[d]
    <3>1. calls' = calls /\ calls[e] = 0
      BY <2>2, <2>c DEF SyncRead, CallsAt
    <3>2. CASE Die(e, Rest(e, chunk)) /\ UNCHANGED failed
      BY <3>1, <3>2, Dying DEF CallsAt
    <3>3. CASE ~(Die(e, Rest(e, chunk)) /\ UNCHANGED failed)
      <4>1. PICK o \in Outcomes(chunk) :
              /\ reading' = [reading EXCEPT ![e] = IF o.kind = "heartbeat" THEN "sync" ELSE "none"]
              /\ failed' = [failed EXCEPT ![e] = o.kind = "close"]
        BY <2>2, <3>3 DEF SyncRead
      <4> QED
        BY <3>1, <4>1 DEF CallsAt, StreamTypeOK
    <3> QED
      BY <3>2, <3>3
  <2>3. ASSUME NEW chunk, AsyncRead(e, chunk)
        PROVE  /\ CallsAt(e)'
               /\ \A d \in Ends : d # e => calls'[d] = calls[d] /\ failed'[d] = failed[d]
                                           /\ reading'[d] = reading[d]
    <3>1. reading[e] = "async" /\ failed' = failed
      BY <2>3 DEF AsyncRead
    <3>2. CASE (Die(e, Rest(e, chunk)) \/ ReadAgain(e, Rest(e, chunk))) /\ UNCHANGED calls
      BY <2>c, <3>1, <3>2, Dying DEF CallsAt
    <3>3. CASE ~((Die(e, Rest(e, chunk)) \/ ReadAgain(e, Rest(e, chunk))) /\ UNCHANGED calls)
      <4>1. /\ calls' = [calls EXCEPT ![e] = IF calls[e] = 0 THEN 1 ELSE 2]
            /\ reading' = [reading EXCEPT ![e] = "none"]
        BY <2>3, <3>3 DEF AsyncRead
      <4> QED
        BY <2>c, <3>1, <4>1 DEF CallsAt, StreamTypeOK
    <3> QED
      BY <3>2, <3>3
  <2>4. CASE SyncReadFails(e)
    BY <2>4, <2>c DEF SyncReadFails, CallsAt, StreamTypeOK
  <2>5. CASE AsyncReadFails(e)
    <3>1. failed' = [failed EXCEPT ![e] = TRUE] /\ failed'[e]
      BY <2>5 DEF AsyncReadFails, StreamTypeOK
    <3>2. \A d \in Ends : d # e => calls'[d] = calls[d] /\ failed'[d] = failed[d]
      BY <2>5, <3>1 DEF AsyncReadFails, StreamTypeOK
    <3>3. CASE Die(e, wire) \/ ReadAgain(e, wire)
      BY <3>1, <3>2, <3>3, Dying DEF CallsAt
    <3>4. CASE ~(Die(e, wire) \/ ReadAgain(e, wire))
      BY <2>5, <3>1, <3>2, <3>4 DEF AsyncReadFails, CallsAt, StreamTypeOK
    <3> QED
      BY <3>3, <3>4
  <2>6. CASE HollowRead(e)
    <3>1. UNCHANGED <<calls, failed>> /\ Die(e, wire) /\ reading'[e] = "none"
      BY <2>6 DEF HollowRead, Die, StreamTypeOK
    <3> QED
      BY <2>c, <3>1, Dying DEF CallsAt
  <2> QED
    BY <1>3, <2>2, <2>3, <2>4, <2>5, <2>6 DEF EndProgress
<1>4. CASE Progress \/ Connect \/ AsyncConnect
  BY <1>1, <1>4 DEF Progress, Connect, AsyncConnect, ClientResponse, ConnectFails, TcpAccept,
     HandshakeFails, ServerHandshake, Reject
<1>5. ASSUME NEW e \in Ends,
             (\E via \in {"sync", "async", "delegate"}, opcode \in Ops : Write(e, via, opcode))
               \/ Disconnect(e) \/ Destroy(e)
      PROVE  Calling'
  BY <1>1, <1>5 DEF Write, Disconnect, Destroy
<1> QED
  BY <1>1, <1>2, <1>3, <1>4, <1>5 DEF Next, vars, streamVars

(* The callback of an asynchronous read is called once unless the read     *)
(* fails (xwebsocket_stream_impl.cpp:843-899), however many heartbeats     *)
(* come, however the frames are split and whoever is at the other end.     *)
THEOREM CallbackOnce == Spec => []CalledOnce
<1>1. Init => Calling
  BY SMT DEF Init, Calling, CallsAt
<1>2. Calling => CalledOnce
  BY DEF Calling, CallsAt, CalledOnce
<1> QED
  BY <1>1, <1>2, CallingStep, StreamTypeCorrect, PTL DEF Spec
=============================================================================
