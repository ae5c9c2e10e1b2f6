----------------------------- MODULE MCByteArray -----------------------------
(* Bytes of two bits: F16 has 4 bits, F32 8, F64 16, a varint group has 1.  *)
EXTENDS ByteArray

MCNumbers == {[kind |-> "V", n |-> 4, v |-> 3], [kind |-> "S", n |-> 1, v |-> -1],
              [kind |-> "Z", n |-> 8, v |-> -1]}
MCContents == {<<>>, <<3>>, <<1, 3, 1>>}
=============================================================================
