--------------------------- MODULE WebSocketFrame ---------------------------
(***************************************************************************)
(* data_frame_header (xwebsocket_stream_impl.cpp:407-600): the header of a *)
(* frame as bytes.  binary_pack writes it, binary_pack_size says how long  *)
(* it is going to be, analyze reads it back.                               *)
(*                                                                         *)
(* Widths are those of the code.  payload_len is a uint64_t that is only   *)
(* ever set from a uint32_t (_convert_to_websocket_form), so the upper     *)
(* four bytes of a 64-bit length are 0.  A negative length stands for the  *)
(* value 2^64 above it: analyze reads the length into signed integers and  *)
(* assigns those to payload_len.                                           *)
(***************************************************************************)
EXTENDS Integers, Sequences

CONSTANTS
  Lengths,   \* lengths of a payload
  MaskKeys   \* masking keys

IsUint32(n) == n \div 16777216 \in 0 .. 255
Byte == 0 .. 255
NoKey == <<0, 0, 0, 0>>          \* a value-initialised masking_key

ASSUME LengthsAssumption == Lengths \subseteq Nat
ASSUME MaskKeysAssumption == MaskKeys \subseteq [1 .. 4 -> Byte]

Opcodes == {"undefined", "continuation_frame", "text_frame", "binary_frame",
            "connnection_close", "ping", "pong", "reserved_for_further"}

\* the switch of binary_pack: what it cannot send becomes a binary frame
Code(opcode) ==
  CASE opcode = "continuation_frame" -> 0
    [] opcode = "text_frame"         -> 1
    [] opcode = "connnection_close"  -> 8
    [] opcode = "ping"               -> 9
    [] opcode = "pong"               -> 10
    [] OTHER                         -> 2

\* the switch of analyze
OpcodeOf(code) ==
  CASE code = 0  -> "continuation_frame"
    [] code = 1  -> "text_frame"
    [] code = 2  -> "binary_frame"
    [] code = 8  -> "connnection_close"
    [] code = 9  -> "ping"
    [] code = 10 -> "pong"
    [] OTHER     -> "reserved_for_further"

\* the same in other programs, and in a mutant: 16 bits taken for unsigned
MarkUnsigned(len) ==
  IF len < 126 THEN len ELSE IF len <= 65535 THEN 126 ELSE 127

\* what the seven bits of the second byte say about the length
Mark(len) == IF len < 126 THEN len ELSE IF len <= 32767 THEN 126 ELSE 127

\* mask_payload_len_block & ~0x80: the block is a signed byte, so with the
\* mask bit it is negative, and clearing bit 7 of the int it is promoted to
\* leaves the upper bits set
MarkOfBlock(masked, mark) == IF masked THEN mark - 256 ELSE mark

\* the bytes of a 32-bit number, from the lowest
Byte0(n) == n % 256
Byte1(n) == (n \div 256) % 256
Byte2(n) == (n \div 65536) % 256
Byte3(n) == (n \div 16777216) % 256

\* the extended length, in network order
Extended(masked, len) ==
  CASE MarkOfBlock(masked, Mark(len)) = 126 -> <<Byte1(len), Byte0(len)>>
    [] MarkOfBlock(masked, Mark(len)) = 127 ->
         <<0, 0, 0, 0, Byte3(len), Byte2(len), Byte1(len), Byte0(len)>>
    [] OTHER -> <<>>

\* binary_pack of the header h = [fin, use_mask, payload_len, masking_key]
Pack(opcode, h) ==
  << (IF h.fin THEN 128 ELSE 0) + Code(opcode),
     (IF h.use_mask THEN 128 ELSE 0) + Mark(h.payload_len) >>
  \o Extended(h.use_mask, h.payload_len)
  \o (IF h.use_mask THEN h.masking_key ELSE <<>>)

PackSize(h) ==
  LET mark == MarkOfBlock(h.use_mask, Mark(h.payload_len))
  IN 2 + (IF mark = 126 THEN 2 ELSE IF mark = 127 THEN 8 ELSE 0) + (IF h.use_mask THEN 4 ELSE 0)

Signed16(n) == IF n >= 32768 THEN n - 65536 ELSE n

\* the length in the bytes after the first two: a signed short, or an
\* unsigned number of eight bytes that is assigned to a signed one
LengthRead(raw, mark) ==
  IF mark = 126 THEN Signed16(256 * raw[3] + raw[4])
  ELSE IF mark = 127
       THEN 256 * (256 * (256 * (256 * (256 * (256 * (256 * raw[3] + raw[4]) + raw[5])
              + raw[6]) + raw[7]) + raw[8]) + raw[9]) + raw[10]
       ELSE mark

\* analyze, given the first bytes of the buffer
Analyze(raw) ==
  LET mark == raw[2] % 128
      ext == IF mark = 126 THEN 2 ELSE IF mark = 127 THEN 8 ELSE 0
      masked == raw[2] >= 128
  IN [fin |-> raw[1] >= 128,
      opcode |-> OpcodeOf(raw[1] % 16),
      use_mask |-> masked,
      payload_len |-> LengthRead(raw, mark),
      masking_key |-> IF masked THEN [i \in 1 .. 4 |-> raw[2 + ext + i]] ELSE NoKey,
      payload_pos |-> 2 + ext + (IF masked THEN 4 ELSE 0)]

-----------------------------------------------------------------------------
Headers ==
  [fin : BOOLEAN, use_mask : BOOLEAN, payload_len : Lengths, masking_key : MaskKeys]

\* The headers that come out as they were meant.  A masked frame with an
\* extended length is not among them: binary_pack leaves the length out.
Sendable(h) == IsUint32(h.payload_len) /\ (h.use_mask => h.payload_len < 126)

\* the header as another program writes it (RFC 6455, 5.2)
PackOther(opcode, h) ==
  LET n == h.payload_len
  IN << (IF h.fin THEN 128 ELSE 0) + Code(opcode), (IF h.use_mask THEN 128 ELSE 0) + MarkUnsigned(n) >>
     \o (IF n < 126 THEN <<>>
         ELSE IF n <= 65535 THEN <<Byte1(n), Byte0(n)>>
         ELSE <<0, 0, 0, 0, Byte3(n), Byte2(n), Byte1(n), Byte0(n)>>)
     \o (IF h.use_mask THEN h.masking_key ELSE <<>>)

(* What binary_pack writes, analyze reads back: the kind of frame (binary  *)
(* for what cannot be sent), the length whatever its width, the masking    *)
(* key and the place where the payload starts                              *)
(* (xwebsocket_stream_impl.cpp:407-554).                                   *)
RoundTrip ==
  \A opcode \in Opcodes, h \in Headers :
    Sendable(h) =>
      LET a == Analyze(Pack(opcode, h))
      IN /\ a.opcode = IF opcode \in {"undefined", "reserved_for_further"} THEN "binary_frame" ELSE opcode
         /\ a.fin = h.fin
         /\ a.use_mask = h.use_mask
         /\ a.payload_len = h.payload_len
         /\ h.use_mask => a.masking_key = h.masking_key
         /\ a.payload_pos = PackSize(h)

(* binary_pack_size is the number of bytes that binary_pack writes, for    *)
(* every header: the packet is allocated with the one and filled by the    *)
(* other (xwebsocket_stream_impl.cpp:919-921).                             *)
SizeAgrees == \A opcode \in Opcodes, h \in Headers : Len(Pack(opcode, h)) = PackSize(h)

\* the lengths of other programs that a signed short does not hold, and
\* what becomes of a length
Misread(n) == 32768 <= n /\ n <= 65535
ReadAs(n) == IF Misread(n) THEN n - 65536 ELSE n

(* The headers of other programs, masked ones among them, are read right   *)
(* but for a length from 32768 to 65535, which becomes one that is 65536   *)
(* too small, and so, as a uint64_t, near 2^64                             *)
(* (xwebsocket_stream_impl.cpp:407-483, the signed short at 447).          *)
ReadsOthers ==
  \A opcode \in Opcodes \ {"undefined", "reserved_for_further"}, h \in Headers :
    IsUint32(h.payload_len) =>
      LET a == Analyze(PackOther(opcode, h))
      IN /\ a.opcode = opcode /\ a.fin = h.fin /\ a.use_mask = h.use_mask
         /\ a.payload_len = ReadAs(h.payload_len)
         /\ h.use_mask => a.masking_key = h.masking_key
         /\ a.payload_pos = Len(PackOther(opcode, h))
=============================================================================
