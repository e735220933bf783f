----------------------------- MODULE MCStreams -----------------------------
(* A buffer of three bytes; swaps every 8 ticks with a margin of one; two    *)
(* recordings, the first cut short before its last tag, the second with two  *)
(* tags at one place and data behind its last tag; a day of 4 ticks.         *)
EXTENDS Streams
CONSTANTS b1, b2
MCByte   == {b1, b2}
Whole    == {3, 4}       \* readers that ask for the whole buffer
MCWrites == 0 .. 4
MCTags   == << <<[tick |-> 1, fpos |-> 1], [tick |-> 3, fpos |-> 3]>>,
               <<[tick |-> 0, fpos |-> 2], [tick |-> 1, fpos |-> 2], [tick |-> 2, fpos |-> 3]>> >>
MCLength == <<2, 4>>
=============================================================================
