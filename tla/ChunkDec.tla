------------------------------- MODULE ChunkDec -------------------------------
(***************************************************************************)
(* The chunked transfer coding of src/src/stream/ntrip_chunk.h: the decoder *)
(* that NTRIP streams feed with whatever a read returned, and the encoder.  *)
(*                                                                         *)
(* A byte is [t |-> how a size line reads it, v |-> the value of a digit,   *)
(* id |-> its place in the payload, 0 if it belongs to the framing].        *)
(* Carriage returns are skipped wherever the decoder interprets bytes and   *)
(* are left out of the framing.                                             *)
(***************************************************************************)
EXTENDS Naturals, Sequences, SequencesExt

CONSTANTS
    Base,     \* 16: the digits of a size
    HdrMax,   \* CHUNK_HDR_MAX
    SizeMax   \* CHUNK_SIZE_MAX

ASSUME ChunkAssumption == Base \in Nat \ {0, 1} /\ HdrMax \in Nat \ {0} /\ SizeMax \in Nat

Digit(d)  == [t |-> "hex", v |-> d, id |-> 0]
NewLine   == [t |-> "nl", v |-> 0, id |-> 0]
Extension == [t |-> "other", v |-> 0, id |-> 0]

\* nhdr digits of value size have been read; frozen: the rest of the line is skipped
Decoders == [st : {"size", "data", "trail", "final", "done"}, remain : 0 .. SizeMax,
             nhdr : 0 .. HdrMax - 1, size : Nat, frozen : BOOLEAN, sol : BOOLEAN]

ChunkDecInit == [st |-> "size", remain |-> 0, nhdr |-> 0, size |-> 0, frozen |-> FALSE,
                 sol |-> TRUE]

Bad(r) == [r EXCEPT !.err = TRUE]

\* The end of a size line.
EndOfSize(r) ==
    LET d == [r.dec EXCEPT !.nhdr = 0, !.size = 0, !.frozen = FALSE, !.remain = r.dec.size]
    IN  IF r.dec.nhdr = 0 \/ r.dec.size > SizeMax THEN Bad(r)
        ELSE [r EXCEPT !.dec = IF r.dec.size = 0 THEN [d EXCEPT !.st = "final", !.sol = TRUE]
                               ELSE [d EXCEPT !.st = "data"]]

InSize(r, b) ==
    CASE b.t = "nl" -> EndOfSize(r)
      [] b.t # "nl" /\ r.dec.frozen -> r
      [] b.t = "hex" /\ ~r.dec.frozen ->
            IF r.dec.nhdr < HdrMax - 1
            THEN [r EXCEPT !.dec.nhdr = @ + 1, !.dec.size = Base * @ + b.v]
            ELSE Bad(r)
      [] b.t = "other" /\ ~r.dec.frozen -> [r EXCEPT !.dec.frozen = TRUE]

\* mutant: the line end after the data is taken for the next size line
InData_NoTrail(r, b) ==
    [r EXCEPT !.out = Append(@, b), !.dec.remain = @ - 1,
              !.dec.st = IF r.dec.remain = 1 THEN "size" ELSE "data"]

InData(r, b) ==
    [r EXCEPT !.out = Append(@, b), !.dec.remain = @ - 1,
              !.dec.st = IF r.dec.remain = 1 THEN "trail" ELSE "data"]

InTrail(r, b) == IF b.t = "nl" THEN [r EXCEPT !.dec.st = "size"] ELSE r

InFinal(r, b) ==
    CASE b.t = "nl" /\ r.dec.sol  -> [r EXCEPT !.dec.st = "done"]
      [] b.t = "nl" /\ ~r.dec.sol -> [r EXCEPT !.dec.sol = TRUE]
      [] b.t # "nl"               -> [r EXCEPT !.dec.sol = FALSE]

Consume(r, b) ==
    CASE r.dec.st = "size"  -> InSize(r, b)
      [] r.dec.st = "data"  -> InData(r, b)
      [] r.dec.st = "trail" -> InTrail(r, b)
      [] r.dec.st = "final" -> InFinal(r, b)

\* chunk_decode: out has at most n bytes; what is not consumed stays in rest
ChunkDecode(dec, in, n) ==
    LET Byte(r, b) == IF r.err \/ Len(r.out) >= n \/ r.dec.st = "done"
                      THEN [r EXCEPT !.rest = Append(@, b)] ELSE Consume(r, b)
        Fed[i \in 0 .. Len(in)] ==   \* the first i bytes
            IF i = 0 THEN [dec |-> dec, out |-> <<>>, rest |-> <<>>, err |-> FALSE]
                     ELSE Byte(Fed[i - 1], in[i])
    IN  Fed[Len(in)]

\* %x: a size of at most two digits (bound)
Digits(n) == IF n < Base THEN <<Digit(n)>> ELSE <<Digit(n \div Base), Digit(n % Base)>>

\* chunk_encode
ChunkEncode(data) == Digits(Len(data)) \o <<NewLine>> \o data \o <<NewLine>>
=============================================================================
