---------------------------- MODULE DataPadding ----------------------------
(***************************************************************************)
(* The byte and mask arithmetic that checks the pad bits of a signal data  *)
(* payload (parser.rs), beside what it is meant to compute: the last       *)
(* pad_bit_count bits of the payload are zero.                             *)
(***************************************************************************)
EXTENDS DifiWire

\* The largest count five bits can carry.
MaxPadBits == 31

\* payload[i], a byte of the big-endian words; the byte index starts at 0.
PayloadByte(payload, i) ==
  LET half == payload[(i \div 4) + 1][((i \div 2) % 2) + 1]
  IN IF i % 2 = 0 THEN half \div 256 ELSE half % 256

\* payload[start..] and payload[i] abort outside the slice.
InSlice(i, len, e) == Expect(i \in 0..len, Panic) ?? e
InBytes(i, len, e) == Expect(i \in 0..(len - 1), Panic) ?? e

FullPadBytesRoundedUp(pad_bit_count) == (pad_bit_count + 7) \div 8   \* mutant
FullPadBytesOffByOne(pad_bit_count)  == (pad_bit_count - 1) \div 8   \* mutant
FullPadBytes(pad_bit_count) == pad_bit_count \div 8

ValidateDataPadding(payload, pad_bit_count) ==
  LET len              == WORD_BYTES * Len(payload)
      full_pad_bytes   == FullPadBytes(pad_bit_count)
      partial_pad_bits == pad_bit_count % 8
      start            == len - full_pad_bytes
      byte_index       == len - full_pad_bytes - 1
      FullBytes ==
        InSlice(start, len,
          Expect(\A i \in start..(len - 1) : PayloadByte(payload, i) = 0, "NonZeroPaddingBits"))
      PartialByte ==
        InBytes(byte_index, len,
          Expect(PayloadByte(payload, byte_index) % 2^partial_pad_bits = 0, "NonZeroPaddingBits"))
  IN IF pad_bit_count = 0
     THEN Ok
     ELSE Expect(pad_bit_count <= 8 * len, "InvalidPadding")
            ?? Expect(payload # <<>>, "InvalidPadding")
            ?? (IF full_pad_bytes # 0 THEN FullBytes ELSE Ok)
            ?? (IF partial_pad_bits # 0 THEN PartialByte ELSE Ok)

-----------------------------------------------------------------------------
(* The reference: the pad bits are the low bits of the last word.          *)

LowBitsZero(w, n) ==
  IF n <= 16
  THEN w[2] % 2^n = 0
  ELSE w[2] = 0 /\ w[1] % 2^(n - 16) = 0

PaddingIsZero(payload, pad_bit_count) ==
  pad_bit_count = 0 \/ (payload # <<>> /\ LowBitsZero(payload[Len(payload)], pad_bit_count))
=============================================================================
