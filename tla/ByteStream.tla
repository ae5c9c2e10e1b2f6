----------------------------- MODULE ByteStream -----------------------------
(***************************************************************************)
(* What a ByteArray promises: one flat sequence of bytes with a cursor.    *)
(* Nothing is said of blocks, capacity or pointers.                        *)
(***************************************************************************)
EXTENDS Integers, Sequences

VARIABLES data,     \* the bytes of the stream
          pos,      \* the cursor, 0 .. Len(data)
          out       \* the bytes the last operation handed to its caller

OutOfRange == <<-1>>     \* the exception; no byte is negative
vars == <<data, pos, out>>

Init == data = <<>> /\ pos = 0 /\ out = <<>>

\* Bytes are written at the cursor, over what is there, and nowhere else.
Put == /\ pos' > pos
       /\ Len(data') = IF pos' > Len(data) THEN pos' ELSE Len(data)
       /\ \A i \in 1..Len(data) : i \notin pos+1..pos' => data'[i] = data[i]
       /\ out' = SubSeq(data', pos + 1, pos')

\* Bytes are taken from the cursor on: exactly those that are there.
Get == /\ pos' \in pos..Len(data)
       /\ out' = SubSeq(data, pos + 1, pos')
       /\ UNCHANGED data

\* A read that asks for more than is left fails; it may have moved the cursor.
Fail == /\ pos' \in pos..Len(data)
        /\ out' = OutOfRange
        /\ UNCHANGED data

\* The cursor moves; past the end the stream grows by unspecified bytes.
Seek == /\ Len(data') = IF pos' > Len(data) THEN pos' ELSE Len(data)
        /\ SubSeq(data', 1, Len(data)) = data
        /\ out' = <<>>

\* What is left to read is shown and stays.
Show == /\ out' = SubSeq(data, pos + 1, Len(data))
        /\ UNCHANGED <<data, pos>>

Reset == data' = <<>> /\ pos' = 0 /\ out' = <<>>

Next == Put \/ Get \/ Fail \/ Seek \/ Show \/ Reset

Spec == Init /\ [][Next]_vars
=============================================================================
