------------------------------ MODULE ByteArray ------------------------------
(***************************************************************************)
(* sylar/bytearray.cpp: a growing list of blocks of equal size, a cursor   *)
(* (m_position), the block the cursor is in (m_cur, a null pointer at the  *)
(* end of the last block), and every value written and read through        *)
(* write() and read().  The operations are operators on the record ba, so  *)
(* that a property can ask what an operation would do from here.           *)
(* Stream::readFixSize and writeFixSize (sylar/stream.cpp) move bytes      *)
(* between a ByteArray and a socket through the buffers it hands out.      *)
(***************************************************************************)
EXTENDS ByteCodec, FiniteSetsExt

CONSTANTS
    BaseSize,           \* m_baseSize
    SYLAR_BYTE_ORDER,   \* byte order of the host
    Numbers,            \* the numbers the program writes: [kind, n, v], see NumberBytes
    Contents,           \* the strings and payloads it writes, sequences of bytes
    MaxSize,            \* bound: bytes in the array
    Junk                \* the byte that memory holds before it is written

ASSUME BaseSizeAssumption == BaseSize \in Nat \ {0}
ASSUME OrderAssumption == SYLAR_BYTE_ORDER \in {LITTLE, BIG} /\ Junk \in Byte

\* What an argument of the types uint8_t .. uint64_t and int8_t .. int64_t can be.
InRange(x) ==
    LET half == Values(x.n) \div 2
    IN  x.v \in IF x.kind \in {"F", "V"} THEN 0 .. Values(x.n) - 1 ELSE -half .. half - 1
ASSUME ProgramAssumption ==
    /\ MaxSize \in Nat /\ Contents \subseteq Seq(Byte)
    /\ \A x \in Numbers : x.kind \in {"F", "S", "V", "Z"} /\ x.n \in {1, 2, 4, 8} /\ InRange(x)

VARIABLES
    ba,         \* the ByteArray; its field wild says that a null pointer was followed
    ret,        \* bytes the last operation consumed, wrote or showed, or OutOfRange
    io          \* the readFixSize or writeFixSize in progress: [dir, left]

vars == <<ba, ret, io>>

OutOfRange == <<-1>>                        \* the exception; no byte is negative
Undefined == <<-2>>                         \* a file written through a wild pointer
Null == 0                                   \* a block is named by its place in the list
NewNode == [o \in 0..BaseSize-1 |-> Junk]
Quiet == [dir |-> "none", left |-> 0]

\* ByteArray::ByteArray
Init ==
    /\ ba = [m_position |-> 0, m_capacity |-> BaseSize, m_size |-> 0, m_endian |-> BIG,
             nodes |-> <<NewNode>>, m_cur |-> 1, wild |-> FALSE]
    /\ ret = <<>>
    /\ io = Quiet

getReadSize(b) == b.m_size - b.m_position
getCapacity(b) == b.m_capacity - b.m_position
NextOf(last, node) == IF node \in 1..last-1 THEN node + 1 ELSE Null

-----------------------------------------------------------------------------
(* Walking the blocks *)

\* The cells of memory that len bytes from offset npos of block cur on occupy,
\* in order: the loop of write, read, getReadBuffers and getWriteBuffers.
Cells[w \in Nat \X Nat \X (0..BaseSize-1) \X Nat] ==
    LET last == w[1]
        cur  == w[2]
        npos == w[3]
        len  == w[4]
        ncap == BaseSize - npos
        piece(n) == [k \in 1..n |-> <<cur, npos + k - 1>>]
    IN  IF ncap >= len THEN piece(len)
        ELSE piece(ncap) \o Cells[<<last, NextOf(last, cur), 0, len - ncap>>]

Walk(b, len) == Cells[<<Len(b.nodes), b.m_cur, b.m_position % BaseSize, len>>]
MeetsNull(cells) == \E k \in 1..Len(cells) : cells[k][1] = Null

Gather(b, cells) == [k \in 1..Len(cells) |-> b.nodes[cells[k][1]][cells[k][2]]]
Scatter(b, cells, bytes) ==
    LET at(n, o) == {k \in 1..Len(bytes) : cells[k] = <<n, o>>}
    IN  [b EXCEPT !.nodes = [n \in 1..Len(@) |-> [o \in 0..BaseSize-1 |->
            IF at(n, o) = {} THEN @[n][o] ELSE bytes[CHOOSE k \in at(n, o) : TRUE]]]]

\* Where m_cur stands after the last cell: past a block that was used up.
After(b, cells) ==
    LET p == Last(cells) IN IF p[2] + 1 = BaseSize THEN NextOf(Len(b.nodes), p[1]) ELSE p[1]

\* addCapacity: whole blocks, as few as hold size bytes from the cursor on.
addCapacity(b, size) ==
    LET old == getCapacity(b)
        count == (size - old + BaseSize - 1) \div BaseSize
    IN  IF size = 0 \/ old >= size THEN b
        ELSE [b EXCEPT !.nodes = @ \o [i \in 1..count |-> NewNode],
                       !.m_capacity = @ + count * BaseSize,
                       !.m_cur = IF old = 0 THEN Len(b.nodes) + 1 ELSE @]

-----------------------------------------------------------------------------
(* The operations *)

write_Truncates(b, bytes) ==
    LET c == addCapacity(b, Len(bytes))
        w == Walk(c, Len(bytes))
        p == b.m_position + Len(bytes)
    IN  IF bytes = <<>> THEN b
        ELSE [Scatter(c, w, bytes) EXCEPT !.m_position = p, !.m_cur = After(c, w), !.m_size = p]
write(b, bytes) ==
    LET c == addCapacity(b, Len(bytes))
        w == Walk(c, Len(bytes))
        p == b.m_position + Len(bytes)
    IN  CASE bytes = <<>> -> b
          [] bytes # <<>> /\ MeetsNull(w) -> [b EXCEPT !.wild = TRUE]
          [] OTHER -> [Scatter(c, w, bytes) EXCEPT !.m_position = p, !.m_cur = After(c, w),
                                                   !.m_size = Max({p, @})]

\* A read gives the array it leaves and the bytes, or the exception.
Read(b, out) == [ba |-> b, out |-> out]
Fails(r) == r.out = OutOfRange
read(b, size) ==
    LET w == Walk(b, size)
        wild == b.m_cur = Null \/ MeetsNull(w)
    IN  CASE size > getReadSize(b) -> Read(b, OutOfRange)
          [] size <= getReadSize(b) /\ wild -> Read([b EXCEPT !.wild = TRUE], <<>>)
          [] size <= getReadSize(b) /\ ~wild /\ size = 0 -> Read(b, <<>>)
          [] OTHER -> Read([b EXCEPT !.m_position = @ + size, !.m_cur = After(b, w)], Gather(b, w))

\* toString, through the const read: from m_position, the cursor stays.
toString(b) == IF getReadSize(b) = 0 THEN <<>> ELSE read(b, getReadSize(b)).out

\* setPosition
setPosition(b, v) ==
    IF v > b.m_capacity THEN [ba |-> b, out |-> OutOfRange]
    ELSE LET full == v \div BaseSize        \* v > m_cur->size moves on, v == m_cur->size too
         IN  [ba |-> [b EXCEPT !.m_position = v, !.m_size = Max({v, @}),
                               !.m_cur = IF full = Len(b.nodes) THEN Null ELSE full + 1],
              out |-> <<>>]

clear_KeepsCapacity(b) == [b EXCEPT !.m_position = 0, !.m_size = 0, !.nodes = <<Head(@)>>, !.m_cur = 1]
\* clear: the first block stays with what it holds.
clear(b) == [b EXCEPT !.m_position = 0, !.m_size = 0, !.m_capacity = BaseSize,
                      !.nodes = <<Head(@)>>, !.m_cur = 1]

\* A number is [kind, n, v]: fixed length ("F", and "S" for signed; floats
\* travel as "F"), varint ("V") and ZigZag varint ("Z") of n bytes.
NumberBytes(b, x) ==
    CASE x.kind \in {"F", "S"} -> EncodeFixed(SYLAR_BYTE_ORDER, b.m_endian, x.v, x.n)
      [] x.kind = "V"          -> EncodeVarint[x.v]
      [] x.kind = "Z"          -> EncodeVarint[EncodeZigzag(x.v)]
writeNumber(b, x) == write(b, NumberBytes(b, x))

\* readUint32, readUint64 take one byte after the other.
readVarint(b, n) ==
    LET rest == toString(b)
        need == VarintLen(rest, n)
    IN  IF need > Len(rest)
        THEN Read(IF rest = <<>> THEN b ELSE read(b, Len(rest)).ba, OutOfRange)
        ELSE read(b, need)
readNumber(b, kind, n) == IF kind \in {"F", "S"} THEN read(b, n) ELSE readVarint(b, n)

NumberOf(b, kind, n, bytes) ==
    LET fixed == DecodeFixed(SYLAR_BYTE_ORDER, b.m_endian, bytes)
    IN  CASE kind = "F" -> fixed
          [] kind = "S" -> Signed(fixed, n)
          [] kind = "V" -> DecodeVarint(bytes, n)
          [] kind = "Z" -> DecodeZigzag(DecodeVarint(bytes, n))

\* The length field of a string: writeStringF16, F32, F64 and Vint.  A length
\* the field cannot hold is cut to the field's width.
LengthKinds == {<<"F", 2>>, <<"F", 4>>, <<"F", 8>>, <<"V", 8>>}
LengthField(k, str) == [kind |-> k[1], n |-> k[2], v |-> Len(str) % Values(k[2])]
writeString(b, k, str) == write(writeNumber(b, LengthField(k, str)), str)
readString(b, k) ==
    LET l == readNumber(b, k[1], k[2])
        s == read(l.ba, NumberOf(b, k[1], k[2], l.out))
    IN  IF Fails(l) THEN l
        ELSE Read(s.ba, IF Fails(s) THEN s.out ELSE l.out \o s.out)

getReadBuffers(b, len) == Walk(b, Min({len, getReadSize(b)}))
getReadBuffersAt_BlockStart(b, len, position) ==
    Cells[<<Len(b.nodes), position \div BaseSize + 1, 0, Min({len, getReadSize(b)})>>]
\* The one that takes a position finds its block from m_root.
getReadBuffersAt(b, len, position) ==
    Cells[<<Len(b.nodes), position \div BaseSize + 1, position % BaseSize, Min({len, getReadSize(b)})>>]

\* writeToFile: one round of its loop, which writes a block's part of the left
\* bytes; following a null block or a negative length is a wild cell, the last.
FileRound(last, v) ==
    LET diff == v.pos % BaseSize
        len  == Min({v.left, BaseSize}) - diff
        wild == v.cur = Null \/ len < 0
    IN  CASE v.left = 0 -> v
          [] v.left > 0 /\ wild -> [cur |-> Null, pos |-> v.pos, left |-> 0, cells |-> v.cells \o << <<Null, 0>> >>]
          [] OTHER -> [cur |-> NextOf(last, v.cur), pos |-> v.pos + len, left |-> v.left - len,
                       cells |-> v.cells \o [k \in 1..len |-> <<v.cur, diff + k - 1>>]]
\* It takes at most a round for every block and one for the null behind them.
FileCells(b) ==
    LET last == Len(b.nodes)
        loop[i \in 0..last+1] ==
            IF i = 0 THEN [cur |-> b.m_cur, pos |-> b.m_position, left |-> getReadSize(b), cells |-> <<>>]
            ELSE FileRound(last, loop[i - 1])
    IN  loop[last + 1].cells
FileContent(b) == IF MeetsNull(FileCells(b)) THEN Undefined ELSE Gather(b, FileCells(b))

\* readFromFile: write() for every block's worth of the file.
Block(bytes, i) == SubSeq(bytes, (i - 1) * BaseSize + 1, Min({i * BaseSize, Len(bytes)}))
readFromFile(b, bytes) ==
    LET rounds == (Len(bytes) + BaseSize - 1) \div BaseSize
        after[i \in 0..rounds] == IF i = 0 THEN b ELSE write(after[i - 1], Block(bytes, i))
    IN  after[rounds]

-----------------------------------------------------------------------------
(* The program: any sequence of calls *)

Ready == io = Quiet /\ ~ba.wild
Fits(n) == ba.m_position + n <= MaxSize      \* the bound of the model

WriteNumber(x) ==
    /\ Ready /\ Fits(Len(NumberBytes(ba, x)))
    /\ ba' = writeNumber(ba, x)
    /\ ret' = NumberBytes(ba, x)
    /\ UNCHANGED io

WriteString(k, str) ==
    /\ Ready /\ Fits(Len(NumberBytes(ba, LengthField(k, str)) \o str))
    /\ ba' = writeString(ba, k, str)
    /\ ret' = NumberBytes(ba, LengthField(k, str)) \o str
    /\ UNCHANGED io

\* writeStringWithoutLength, and write itself.
Write(str) ==
    /\ Ready /\ Fits(Len(str))
    /\ ba' = write(ba, str)
    /\ ret' = str
    /\ UNCHANGED io

Took(r) == ba' = r.ba /\ ret' = r.out /\ UNCHANGED io
ReadNumber(kind, n) == Ready /\ Took(readNumber(ba, kind, n))
ReadString(k) == Ready /\ Took(readString(ba, k))
SetPosition(v) == Ready /\ v <= MaxSize /\ Took(setPosition(ba, v))
Clear == Ready /\ Took(Read(clear(ba), <<>>))

SetIsLittleEndian(val) ==
    /\ Ready
    /\ ba' = [ba EXCEPT !.m_endian = IF val THEN LITTLE ELSE BIG]
    /\ UNCHANGED <<ret, io>>

\* toString and toHexString
ToStr == Ready /\ ret' = toString(ba) /\ UNCHANGED <<ba, io>>

\* The file is another program's: it holds any bytes.
ReadFromFile(bytes) ==
    /\ Ready /\ Fits(Len(bytes))
    /\ ba' = readFromFile(ba, bytes)
    /\ ret' = bytes
    /\ UNCHANGED io

\* Stream::readFixSize(ba, length) and writeFixSize(ba, length) begin.
FixSize(dir, length) ==
    /\ Ready /\ Fits(length)
    /\ io' = [dir |-> dir, left |-> length]
    /\ UNCHANGED <<ba, ret>>
Moved(n) == io' = IF n = io.left THEN Quiet ELSE [io EXCEPT !.left = @ - n]

\* SocketStream::read(ba, left): recv fills a part of the buffers.
SocketRead(bytes) ==
    LET b == addCapacity(ba, io.left)
    IN  /\ io.dir = "read" /\ Len(bytes) \in 1..io.left
        /\ ba' = setPosition(Scatter(b, Walk(b, io.left), bytes), ba.m_position + Len(bytes)).ba
        /\ ret' = bytes
        /\ Moved(Len(bytes))

\* SocketStream::write(ba, left): send takes a part of the buffers.
SocketWrite(n) ==
    LET b == getReadBuffers(ba, io.left)
    IN  /\ io.dir = "write" /\ n \in 1..Len(b)
        /\ ret' = SubSeq(Gather(ba, b), 1, n)
        /\ ba' = setPosition(ba, ba.m_position + n).ba
        /\ Moved(n)

\* The socket fails, is closed, or there is nothing to send: the loop ends.
SocketFails ==
    /\ io # Quiet
    /\ ba' = IF io.dir = "read" THEN addCapacity(ba, io.left) ELSE ba
    /\ io' = Quiet
    /\ UNCHANGED ret

Next ==
    \/ \E x \in Numbers : WriteNumber(x) \/ ReadNumber(x.kind, x.n)
    \/ \E k \in LengthKinds : (\E str \in Contents : WriteString(k, str)) \/ ReadString(k)
    \/ \E str \in Contents : Write(str) \/ ReadFromFile(str) \/ SocketRead(str)
    \/ \E v \in 0..MaxSize+1 : SetPosition(v)
    \/ \E n \in 1..MaxSize : FixSize("read", n) \/ FixSize("write", n) \/ SocketWrite(n)
    \/ \E val \in BOOLEAN : SetIsLittleEndian(val)
    \/ Clear \/ ToStr \/ SocketFails

Spec == Init /\ [][Next]_vars

-----------------------------------------------------------------------------
(* Properties *)

\* The cursor's block is cached in m_cur and moved by write, read, setPosition,
\* addCapacity and clear, each in its own way: it is always the block of
\* m_position, and null exactly at the end of the last block.
CurExact ==
    /\ 0 <= ba.m_position /\ ba.m_position <= ba.m_size /\ ba.m_size <= ba.m_capacity
    /\ ba.m_capacity = BaseSize * Len(ba.nodes)
    /\ ba.m_cur = IF ba.m_position = ba.m_capacity THEN Null ELSE ba.m_position \div BaseSize + 1

\* Whatever the alignment of the cursor, the blocks behave as one flat stream:
\* every write, read, socket transfer and seek is one of ByteStream's.
ByteAt(b, i) == b.nodes[i \div BaseSize + 1][i % BaseSize]
Flat == [i \in 1..ba.m_size |-> ByteAt(ba, i - 1)]
Stream == INSTANCE ByteStream WITH data <- Flat, pos <- ba.m_position, out <- ret
ImplementsStream == Stream!Spec

\* Numbers at the edges of their range, and strings around the limit of the
\* two-byte length field.
Edges(n) == {[kind |-> "F", n |-> n, v |-> v] : v \in {1, Values(n) - 1}}
       \cup {[kind |-> "S", n |-> n, v |-> v] : v \in {-(Values(n) \div 2), -1, Values(n) \div 2 - 1}}
       \cup {[kind |-> "V", n |-> n, v |-> v] : v \in {0, Group, Values(n) - 1}}
       \cup {[kind |-> "Z", n |-> n, v |-> v] : v \in {-(Values(n) \div 2), -1, Values(n) \div 2 - 1}}
Strings == {[i \in 1..l |-> i % Base] : l \in {0, Values(2) - 1, Values(2)}}

\* What is written anywhere is read back from there, and the cursor ends where
\* the write left it: numbers of every width at the edges of their range, in
\* either byte order and on hosts of either order, and a string exactly when
\* its length fits the length field and, if it is empty, the cursor does not
\* come to stand at the end of the last block (read() of zero bytes would
\* follow the null m_cur).
RoundTrip ==
    Ready =>
    /\ \A n \in {1, 2, 4, 8} : \A x \in Edges(n) :
         LET w == writeNumber(ba, x)
             r == readNumber(setPosition(w, ba.m_position).ba, x.kind, n)
         IN  (x.kind \in {"V", "Z"} => n >= 4) =>
                r.ba = w /\ NumberOf(ba, x.kind, n, r.out) = x.v
    /\ \A x \in Edges(2) : x.kind \in {"F", "S"} =>
         DecodeFixed(BIG, ba.m_endian, EncodeFixed(LITTLE, ba.m_endian, x.v, 2)) = Unsigned(x.v, 2)
    /\ \A k \in LengthKinds, str \in Strings :
         LET w == writeString(ba, k, str)
             r == readString(setPosition(w, ba.m_position).ba, k)
         IN  (r.ba = w /\ r.out = NumberBytes(ba, LengthField(k, str)) \o str)
                <=> /\ Len(str) < Values(k[2])
                    /\ str # <<>> \/ w.m_position < w.m_capacity

\* Everything that shows the rest of the stream shows the same bytes: the two
\* getReadBuffers (from m_cur and from m_root), toString, and, from the start
\* of a block, writeToFile.
ViewsAgree ==
    ~ba.wild =>
    /\ Gather(ba, getReadBuffers(ba, MaxSize)) = toString(ba)
    /\ getReadSize(ba) > 0 =>
         getReadBuffersAt(ba, MaxSize, ba.m_position) = getReadBuffers(ba, MaxSize)
    /\ ba.m_position % BaseSize = 0 => FileContent(ba) = toString(ba)
=============================================================================
