------------------------------- MODULE MemBuf -------------------------------
(***************************************************************************)
(* The ring buffer behind a STR_MEMBUF stream (membuf_t in                  *)
(* src/src/stream/mrtk_stream.c).  readmembuf and writemembuf hold the      *)
(* buffer's lock for the whole call, so one operation runs at a time; a     *)
(* step is one iteration of its loop.                                       *)
(***************************************************************************)
EXTENDS Integers

CONSTANTS Size,        \* bufsize
          Byte, None,  \* byte values; None: not written yet
          ReadSizes,   \* byte counts asked of strread
          WriteSizes   \* byte counts given to strwrite

ASSUME MemBufAssumption ==
    /\ Size \in Nat \ {0}
    /\ ReadSizes \subseteq Nat \ {0}
    /\ WriteSizes \subseteq Nat

VARIABLES buf, rp, wp, st,  \* buf, rp, wp, state of membuf_t
          op,               \* the call that holds the lock, or "none"
          i, left,          \* its loop index; bytes it may still move
          got               \* the byte stored last in the reader's buffer

vars == <<buf, rp, wp, st, op, i, left, got>>

TypeOK == /\ buf \in [0 .. Size - 1 -> Byte \cup {None}]
          /\ rp \in 0 .. Size /\ wp \in 0 .. Size - 1
          /\ st \in {1, -1}
          /\ op \in {"none", "read", "write"}
          /\ i \in 0 .. Size /\ left \in Nat
          /\ got \in Byte \cup {None}

\* openmembuf
Init == /\ buf = [k \in 0 .. Size - 1 |-> None]
        /\ rp = 0 /\ wp = 0 /\ st = 1
        /\ op = "none" /\ i = 0 /\ left = 0 /\ got = None

-----------------------------------------------------------------------------

Read(n) ==
    /\ op = "none"
    /\ op' = "read" /\ i' = rp /\ left' = n
    /\ UNCHANGED <<buf, rp, wp, st, got>>

\* mutants: the byte after the next one is delivered; the wrap is not tested
ReadByte_Ahead ==
    /\ op = "read" /\ i # wp /\ left > 0
    /\ LET k == IF i >= Size THEN 0 ELSE i
       IN IF i >= Size /\ wp = 0
          THEN i' = 0 /\ UNCHANGED <<left, got>>
          ELSE /\ i' = k + 1 /\ left' = left - 1
               /\ got' = buf[IF k + 1 >= Size THEN 0 ELSE k + 1]
    /\ UNCHANGED <<buf, rp, wp, st, op>>
\* an index past the end wraps to 0, where the write pointer may wait
ReadByte ==
    /\ op = "read" /\ i # wp /\ left > 0
    /\ LET k == IF i >= Size THEN 0 ELSE i
       IN IF i >= Size /\ wp = 0
          THEN i' = 0 /\ UNCHANGED <<left, got>>
          ELSE i' = k + 1 /\ left' = left - 1 /\ got' = buf[k]
    /\ UNCHANGED <<buf, rp, wp, st, op>>

ReadEnd ==
    /\ op = "read" /\ (i = wp \/ left = 0)
    /\ rp' = i
    /\ op' = "none" /\ i' = 0 /\ left' = 0
    /\ UNCHANGED <<buf, wp, st, got>>

-----------------------------------------------------------------------------
Write(n) ==
    /\ op = "none"
    /\ op' = "write" /\ i' = 0 /\ left' = n
    /\ UNCHANGED <<buf, rp, wp, st, got>>

\* a byte that makes the pointers meet ends the call in state -1
WriteByte ==
    /\ op = "write" /\ left > 0
    /\ \E b \in Byte : buf' = [buf EXCEPT ![wp] = b]
    /\ wp' = IF wp + 1 >= Size THEN 0 ELSE wp + 1
    /\ IF wp' = rp
       THEN st' = -1 /\ op' = "none" /\ left' = 0
       ELSE left' = left - 1 /\ UNCHANGED <<st, op>>
    /\ UNCHANGED <<rp, i, got>>

WriteEnd ==
    /\ op = "write" /\ left = 0
    /\ op' = "none"
    /\ UNCHANGED <<buf, rp, wp, st, i, left, got>>

Next == \/ \E n \in ReadSizes : Read(n)
        \/ ReadByte \/ ReadEnd
        \/ \E n \in WriteSizes : Write(n)
        \/ WriteByte \/ WriteEnd

Spec == Init /\ [][Next]_vars

-----------------------------------------------------------------------------
\* Where the next unread byte is, and how many there are.
Front == LET p == IF op = "read" THEN i ELSE rp IN IF p >= Size THEN 0 ELSE p
Held  == IF wp >= Front THEN wp - Front ELSE wp - Front + Size

\* Bytes leave the buffer unread only when the overflow is reported: a write
\* after which fewer bytes are held sets the state to -1.
LossIsReported == [][op = "write" /\ Held' < Held => st' = -1]_vars

\* Between calls the read pointer is a slot of the buffer, so that the test
\* wp = rp of the writer can see the buffer full.
ReadPointerInside == op # "read" => rp < Size

\* A reader that asks for a whole buffer ends because it is empty, never
\* because its own limit is reached first.
ReaderDrains == op = "read" => left > Held

\* Both, with the ranges of the fields: what makes the loss of a byte visible.
ReadInv == TypeOK /\ ReadPointerInside /\ ReaderDrains

\* The ring buffer is a queue of Size - 1 bytes.
Contents == [k \in 1 .. Held |->
               buf[IF Front + k - 1 >= Size THEN Front + k - 1 - Size ELSE Front + k - 1]]
Queue == INSTANCE Fifo WITH Capacity <- Size - 1, q <- Contents, failed <- (st = -1)
ImplementsFifo == Queue!FifoSpec
=============================================================================
