------------------------------ MODULE ByteCodec ------------------------------
(***************************************************************************)
(* The encodings of sylar/bytearray.cpp and sylar/endian.h: fixed-length   *)
(* integers in either byte order, variable-length integers in groups of    *)
(* all but one bit of a byte, and ZigZag for the signed ones.  A byte has  *)
(* ByteBits bits (8 in the code), so that every width stays within reach.  *)
(***************************************************************************)
EXTENDS Integers, Sequences, SequencesExt

CONSTANT ByteBits       \* bits of a byte
ASSUME ByteBitsAssumption == ByteBits \in Nat \ {0, 1}

\* 2 ^ n, which the prover has no theorems about.
TwoTo[n \in Nat] == IF n = 0 THEN 1 ELSE 2 * TwoTo[n - 1]
Base == TwoTo[ByteBits]             \* number of values of a byte
Values(n) == TwoTo[n * ByteBits]    \* and of n bytes
Group == TwoTo[ByteBits - 1]        \* 0x80: the continuation bit of a varint
Byte == 0 .. Base - 1

LITTLE == 1                         \* SYLAR_LITTLE_ENDIAN
BIG == 2                            \* SYLAR_BIG_ENDIAN

Unsigned(v, n) == IF v < 0 THEN v + Values(n) ELSE v
Signed(u, n) == IF 2 * u >= Values(n) THEN u - Values(n) ELSE u

\* The number with the given digits, the least one first.
Number(base, digits) ==
    LET n == Len(digits)
        upper[i \in 0..n] == IF i = 0 THEN 0 ELSE digits[n + 1 - i] + base * upper[i - 1]
    IN  upper[n]

\* How a host of the given byte order keeps the n-byte integer u in memory.
InMemory(order, u, n) ==
    LET little == [i \in 1..n |-> (u \div Values(i - 1)) % Base]
    IN  IF order = LITTLE THEN little ELSE Reverse(little)
FromMemory(order, bytes) ==
    Number(Base, IF order = LITTLE THEN bytes ELSE Reverse(bytes))

\* byteswap<T>
Byteswap(bytes) == Reverse(bytes)

\* writeFint8 .. writeFuint64: swapped unless the order asked for is the host's.
EncodeFixed(order, endian, v, n) ==
    LET m == InMemory(order, Unsigned(v, n), n)
    IN  IF endian # order THEN Byteswap(m) ELSE m

\* readFint8 .. readFuint64
DecodeFixed(order, endian, bytes) ==
    FromMemory(order, IF endian = order THEN bytes ELSE Byteswap(bytes))

\* EncodeZigzag32, EncodeZigzag64: the negation of the least value wraps to
\* itself, so that its code is the greatest one.
EncodeZigzag(v) == IF v < 0 THEN 2 * (-v) - 1 ELSE 2 * v
\* DecodeZigzag32, DecodeZigzag64
DecodeZigzag(u) == IF u % 2 = 1 THEN -(u \div 2) - 1 ELSE u \div 2

\* writeUint32, writeUint64
EncodeVarint[v \in Nat] ==
    IF v >= Group THEN <<(v % Group) + Group>> \o EncodeVarint[v \div Group]
    ELSE <<v>>

MaxGroups_OneLess(n) == (n * ByteBits - 1) \div (ByteBits - 1)
\* The most bytes readUint32 and readUint64 (n bytes wide) look at.
MaxGroups(n) == (n * ByteBits + ByteBits - 2) \div (ByteBits - 1)

\* How many of the bytes they take: up to the first without continuation bit.
VarintLen(bytes, n) ==
    LET ends == {i \in 1..Len(bytes) : i <= MaxGroups(n) /\ bytes[i] < Group}
    IN  IF ends = {} THEN MaxGroups(n) ELSE CHOOSE i \in ends : \A j \in ends : i <= j
DecodeVarint(bytes, n) ==
    Number(Group, [i \in 1..Len(bytes) |-> bytes[i] % Group]) % Values(n)
=============================================================================
