------------------------------ MODULE Encoding ------------------------------
(***************************************************************************)
(* The conversions a number goes through between the two parties, their    *)
(* Java servers, the blockchain and the commitments: Crypto++ encodings,   *)
(* Java's BigInteger, and the bits of bytes.                               *)
(***************************************************************************)
EXTENDS Integers, Sequences, SequencesExt, Modular

CONSTANT ByteBits  \* bits of a byte

ASSUME EncodingAssumption == ByteBits \in Nat \ {0}

Base == Power(2)[ByteBits]
Byte == 0 .. Base - 1

\* Bytes of v, most significant first; those beyond the length are cut off.
Encode(v, len) == [k \in 1 .. len |-> (v \div Power(Base)[len - k]) % Base]

Decode(bytes) == FoldLeft(LAMBDA v, b : v * Base + b, 0, bytes)

\* The least length v is encoded in without loss; 0 has one byte.
MinEncodedSize(v) ==
    CHOOSE w \in 1 .. v + 1 : /\ v < Power(Base)[w]
                              /\ w = 1 \/ v >= Power(Base)[w - 1]

to_bytes(v) == Encode(v, MinEncodedSize(v))

\* BigInteger.toByteArray: a 0 goes before a byte whose highest bit is set.
toByteArray(v) ==
    LET b == to_bytes(v) IN IF 2 * b[1] >= Base THEN <<0>> \o b ELSE b

-----------------------------------------------------------------------------

\* The bits of each byte, lowest first; the bytes keep their order.
to_bits(bytes) ==
    [k \in 1 .. Len(bytes) * ByteBits |->
        (bytes[(k - 1) \div ByteBits + 1] \div Power(2)[(k - 1) % ByteBits]) % 2]

\* Mutant: the bits of a byte are taken highest first.
from_bits_reversed(bits) ==
    [j \in 1 .. Len(bits) \div ByteBits |->
        FoldLeft(LAMBDA v, b : 2 * v + b, 0,
                 SubSeq(bits, (j - 1) * ByteBits + 1, j * ByteBits))]

\* The byte of its bits.
Packed(bits) == FoldRight(LAMBDA b, v : 2 * v + b, bits, 0)

\* Of a whole number of bytes (for others the code throws).
from_bits(bits) ==
    [j \in 1 .. Len(bits) \div ByteBits |->
        Packed(SubSeq(bits, (j - 1) * ByteBits + 1, j * ByteBits))]

integer_to_bits(v) == to_bits(to_bytes(v))
bits_to_integer(bits) == Decode(from_bits(bits))
=============================================================================
