------------------------------ MODULE ByteFile ------------------------------
(* What Fread, Fwrite and Fseek promise about one open file (bdos/fsfat.c, *)
(* xrw; bdos/fsopnclo.c, ixread, ixwrite, ixlseek): a file is a sequence   *)
(* of bytes with a position.  A call moves the bytes from the position on  *)
(* between the file and the caller's memory, in order, always the ones     *)
(* written last, and as many as there are, or as there is room for.        *)
EXTENDS Integers

CONSTANT Counts   \* the lengths of requests

VARIABLES
  pos, len,   \* the position and the length of the file
  room,       \* how long the file can get on this disk
  moved       \* of the last call: for each byte of the caller's memory the
              \* byte of the file

byteVars == <<pos, len, room, moved>>

Least(a, b) == IF a < b THEN a ELSE b
Run(n) == [k \in 1..n |-> pos + k - 1]

ByteInit == pos = 0 /\ moved = Run(0) /\ len <= room

Read(count) ==
  LET n == Least(count, len - pos) IN
  pos' = pos + n /\ moved' = Run(n) /\ UNCHANGED <<len, room>>
Write(count) ==
  LET n == Least(count, room - pos) IN
  /\ pos' = pos + n /\ len' = IF pos' > len THEN pos' ELSE len
  /\ moved' = Run(n) /\ UNCHANGED room
Seek ==
  moved' = Run(0) /\ pos' \in 0..len /\ UNCHANGED <<len, room>>

ByteNext == (\E n \in Counts \cup {0} : Read(n) \/ Write(n)) \/ Seek
ByteSpec == ByteInit /\ [][ByteNext]_byteVars
=============================================================================
