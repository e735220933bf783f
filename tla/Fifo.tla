-------------------------------- MODULE Fifo --------------------------------
(* What a memory-buffer stream promises: bytes come out in the order they    *)
(* went in, and when a byte does not fit everything held is dropped and the  *)
(* failure is remembered.                                                    *)
EXTENDS Naturals, Sequences
CONSTANTS Byte, Capacity, None
VARIABLES q,       \* bytes written and not yet read
          got,     \* the byte delivered last
          failed   \* a byte did not fit

fifoVars == <<q, got, failed>>
FifoInit == q = <<>> /\ got = None /\ failed = FALSE
Put  == /\ Len(q) < Capacity
        /\ \E b \in Byte : q' = Append(q, b)
        /\ UNCHANGED <<got, failed>>
Get  == q # <<>> /\ q' = Tail(q) /\ got' = Head(q) /\ UNCHANGED failed
Lose == Len(q) = Capacity /\ q' = <<>> /\ failed' = TRUE /\ UNCHANGED got
FifoSpec == FifoInit /\ [][Put \/ Get \/ Lose]_fifoVars
=============================================================================
