---------------------------- MODULE StreamsProofs ---------------------------
(***************************************************************************)
(* Proofs about the streams of each type: the memory buffer, the generic    *)
(* stream, the TCP client, the download, the replay and the swap of files,  *)
(* each for any values of its constants, and about their union.             *)
(***************************************************************************)
EXTENDS Streams, SequenceTheorems, WellFoundedInduction, TLAPS

-----------------------------------------------------------------------------
(* The memory buffer: any size, bytes and pattern of writes.  As long as    *)
(* every reader asks for at least bufsize bytes, no byte is lost without    *)
(* the overflow being reported.  The argument is ReadInv: such a reader     *)
(* always stops because it caught up with the writer, so it leaves rp on a  *)
(* slot of the buffer, where the writer's test wp = rp can see it.          *)

WholeReads == \A n \in ReadSizes : n >= Size

\* Every field stays in its range, whatever the readers ask for.
THEOREM TypeCorrect == Spec => []TypeOK
<1>. USE MemBufAssumption DEF TypeOK
<1>1. Init => TypeOK
  BY DEF Init
<1>2. TypeOK /\ [Next]_vars => TypeOK'
  <2>. SUFFICES ASSUME TypeOK, [Next]_vars PROVE TypeOK'
    OBVIOUS
  <2>1. ASSUME NEW n \in ReadSizes, Read(n) PROVE TypeOK'
    BY <2>1 DEF Read
  <2>2. CASE ReadByte
    BY <2>2 DEF ReadByte
  <2>3. CASE ReadEnd
    BY <2>3 DEF ReadEnd
  <2>4. ASSUME NEW n \in WriteSizes, Write(n) PROVE TypeOK'
    BY <2>4 DEF Write
  <2>5. CASE WriteByte
    BY <2>5 DEF WriteByte
  <2>6. CASE WriteEnd
    BY <2>6 DEF WriteEnd
  <2>7. CASE UNCHANGED vars
    BY <2>7 DEF vars
  <2>. QED  BY <2>1, <2>2, <2>3, <2>4, <2>5, <2>6, <2>7 DEF Next
<1>. QED  BY <1>1, <1>2, PTL DEF Spec

\* Readers that ask for the whole buffer drain it and leave rp inside it.
THEOREM ReadInvariant == ASSUME WholeReads PROVE Spec => []ReadInv
<1>. USE MemBufAssumption, WholeReads
     DEF WholeReads, TypeOK, ReadInv, ReadPointerInside, ReaderDrains, Held, Front
<1>1. Init => ReadInv
  BY DEF Init
<1>2. ReadInv /\ TypeOK' /\ [Next]_vars => ReadInv'
  <2>. SUFFICES ASSUME ReadInv, TypeOK', [Next]_vars PROVE ReadInv'
    OBVIOUS
  <2>1. ASSUME NEW n \in ReadSizes, Read(n) PROVE ReadInv'
    <3>1. Held' = Held /\ Held < Size /\ n \in Nat
      BY <2>1 DEF Read
    <3>2. left' > Held'
      <4>1. left' = n /\ n >= Size /\ Held \in Int
        BY <2>1 DEF Read
      <4>. HIDE DEF Held
      <4>. QED  BY <3>1, <4>1
    <3>. QED  BY <2>1, <3>2 DEF Read
  <2>2. CASE ReadByte
    <3>1. CASE i >= Size /\ wp = 0
      BY <2>2, <3>1 DEF ReadByte
    <3>2. CASE ~(i >= Size /\ wp = 0)
      \* one byte fewer is held, and one fewer may be read
      <4>1. Held' = Held - 1 /\ left' = left - 1
        <5>1. left' = left - 1 /\ wp' = wp /\ op = "read" /\ op' = "read" /\ i # wp
          BY <2>2, <3>2 DEF ReadByte
        <5>2. CASE i >= Size
          <6>1. i = Size /\ i' = 1 /\ wp # 0
            BY <2>2, <3>2, <5>2 DEF ReadByte
          <6>. QED  BY <5>1, <6>1
        <5>3. CASE ~(i >= Size)
          <6>1. i' = i + 1
            BY <2>2, <3>2, <5>3 DEF ReadByte
          <6>. QED  BY <5>1, <5>3, <6>1
        <5>. QED  BY <5>2, <5>3
      <4>2. left' > Held'
        <5>1. Held \in Int /\ left \in Int /\ left > Held
          BY <2>2 DEF ReadByte
        <5>. HIDE DEF Held
        <5>. QED  BY <4>1, <5>1
      <4>. QED  BY <2>2, <3>2, <4>2 DEF ReadByte
    <3>. QED  BY <3>1, <3>2
  <2>3. CASE ReadEnd
    BY <2>3 DEF ReadEnd
  <2>4. ASSUME NEW n \in WriteSizes, Write(n) PROVE ReadInv'
    BY <2>4 DEF Write
  <2>5. CASE WriteByte
    BY <2>5 DEF WriteByte
  <2>6. CASE WriteEnd
    BY <2>6 DEF WriteEnd
  <2>7. CASE UNCHANGED vars
    BY <2>7 DEF vars
  <2>. QED  BY <2>1, <2>2, <2>3, <2>4, <2>5, <2>6, <2>7 DEF Next
<1>. QED  BY <1>1, <1>2, TypeCorrect, PTL DEF Spec

\* No byte is lost unless the write that loses it reports the overflow.
THEOREM LossIsReportedHolds == ASSUME WholeReads PROVE Spec => LossIsReported
<1>1. ReadInv /\ TypeOK' /\ [Next]_vars =>
        [op = "write" /\ Held' < Held => st' = -1]_vars
  <2>. SUFFICES ASSUME ReadInv, TypeOK', Next, op = "write", st' # -1 PROVE ~(Held' < Held)
    BY DEF vars
  <2>. USE MemBufAssumption DEF TypeOK, ReadInv, ReadPointerInside, Held, Front
  <2>1. CASE WriteByte
    BY <2>1 DEF WriteByte
  <2>2. CASE WriteEnd
    BY <2>2 DEF WriteEnd
  <2>. QED  BY <2>1, <2>2 DEF Next, Read, ReadByte, ReadEnd, Write
<1>. QED  BY <1>1, ReadInvariant, TypeCorrect, PTL DEF Spec, LossIsReported

\* The slot of the k-th unread byte.
Slot(k) == IF Front + k - 1 >= Size THEN Front + k - 1 - Size ELSE Front + k - 1

\* The unread bytes are a sequence of at most Size - 1.
InRing ==
    /\ Front \in 0 .. Size - 1 /\ Held \in 0 .. Size - 1
    /\ Contents \in Seq(Byte \cup {None}) /\ Len(Contents) = Held
    /\ \A k \in 1 .. Held : Slot(k) \in 0 .. Size - 1 /\ Contents[k] = buf[Slot(k)]

LEMMA ContentsSeq == TypeOK => InRing
<1>. SUFFICES ASSUME TypeOK PROVE InRing
  OBVIOUS
<1>1. Front \in 0 .. Size - 1
  BY MemBufAssumption DEF TypeOK, Front
<1>2. Held \in 0 .. Size - 1
  BY <1>1, MemBufAssumption DEF TypeOK, Held
<1>3. \A k \in 1 .. Held : Slot(k) \in 0 .. Size - 1
  BY <1>1, <1>2, MemBufAssumption DEF Slot
<1>4. Contents = [k \in 1 .. Held |-> buf[Slot(k)]]
  BY DEF Contents, Slot
<1>5. Contents \in [1 .. Held -> Byte \cup {None}]
  BY <1>3, <1>4 DEF TypeOK
<1>6. Contents \in Seq(Byte \cup {None}) /\ Len(Contents) = Held
  BY <1>2, <1>5
<1>. QED  BY <1>1, <1>2, <1>3, <1>4, <1>6 DEF InRing

LEMMA ContentsSeqNext == TypeOK' => InRing'
  BY ContentsSeq, PTL

\* A step that leaves the bytes and both ends alone leaves the queue alone.
LEMMA SameContents ==
  ASSUME Front' = Front, wp' = wp, buf' = buf, st' = st, got' = got
  PROVE  UNCHANGED Queue!fifoVars
<1>1. Held' = Held
  BY DEF Held
<1>2. Contents' = Contents
  BY <1>1 DEF Contents
<1>. QED  BY <1>2 DEF Queue!fifoVars

\* Reading a byte takes the first one from the queue.
LEMMA ReadByteGets ==
  ASSUME ReadInv, TypeOK', ReadByte
  PROVE  Queue!Get \/ UNCHANGED Queue!fifoVars
<1>. TypeOK /\ InRing /\ InRing'
  BY ContentsSeq, ContentsSeqNext DEF ReadInv
<1>1. CASE i >= Size /\ wp = 0
  <2>1. Front' = Front
    BY <1>1, MemBufAssumption DEF ReadByte, Front, TypeOK
  <2>. QED  BY <1>1, <2>1, SameContents DEF ReadByte
<1>2. CASE ~(i >= Size /\ wp = 0)
  <2>1. /\ i' = Front + 1 /\ got' = buf[Front]
        /\ op' = "read" /\ wp' = wp /\ buf' = buf /\ st' = st
    BY <1>2 DEF ReadByte, Front
  <2>2. Front # wp
    BY <1>2, MemBufAssumption DEF ReadByte, Front, TypeOK
  <2>3. Front' = IF Front + 1 >= Size THEN 0 ELSE Front + 1
    BY <2>1 DEF Front
  <2>4. Held > 0 /\ Held' = Held - 1
    <3>1. Front \in 0 .. Size - 1 /\ wp \in 0 .. Size - 1
      BY DEF InRing, TypeOK
    <3>2. Held = (IF wp >= Front THEN wp - Front ELSE wp - Front + Size)
      BY DEF Held
    <3>3. Held' = (IF wp >= Front' THEN wp - Front' ELSE wp - Front' + Size)
      BY <2>1 DEF Held
    <3>. QED  BY <2>2, <2>3, <3>1, <3>2, <3>3, MemBufAssumption
  <2>5. Contents # <<>> /\ Slot(1) = Front
    <3>1. Slot(1) = Front
      BY MemBufAssumption DEF Slot, InRing
    <3>2. Len(Contents) # 0
      BY <2>4 DEF InRing
    <3>. QED  BY <3>1, <3>2
  <2>6. got' = Head(Contents)
    <3>1. Contents[1] = buf[Front]
      BY <2>4, <2>5 DEF InRing
    <3>2. Head(Contents) = Contents[1]
      BY <2>5 DEF InRing
    <3>. QED  BY <2>1, <3>1, <3>2
  <2>7. \A k \in 1 .. Held - 1 : Slot(k)' = Slot(k + 1)
    BY <2>3, MemBufAssumption DEF Slot, InRing
  <2>8. ASSUME NEW k \in 1 .. Held - 1 PROVE Contents'[k] = Contents[k + 1]
    <3>1. Held \in Nat /\ k + 1 \in 1 .. Held /\ k \in 1 .. Held'
      BY <2>4 DEF InRing
    <3>2. Contents'[k] = buf'[Slot(k)'] /\ Contents[k + 1] = buf[Slot(k + 1)]
      BY <3>1 DEF InRing
    <3>. QED  BY <2>1, <2>7, <3>2
  <2>9. Contents' = Tail(Contents)
    <3>1. /\ Tail(Contents) \in Seq(Byte \cup {None}) /\ Len(Tail(Contents)) = Held - 1
          /\ \A k \in 1 .. Held - 1 : Tail(Contents)[k] = Contents[k + 1]
      BY <2>5, HeadTailProperties DEF InRing
    <3>. QED  BY <2>4, <2>8, <3>1, SeqEqual DEF InRing
  <2>. QED  BY <2>1, <2>5, <2>6, <2>9 DEF Queue!Get
<1>. QED  BY <1>1, <1>2

\* Writing a byte appends it, or drops all when there is no room.
LEMMA WriteBytePuts ==
  ASSUME ReadInv, TypeOK', WriteByte
  PROVE  Queue!Put \/ Queue!Lose
<1>. TypeOK /\ InRing /\ InRing'
  BY ContentsSeq, ContentsSeqNext DEF ReadInv
<1>0. PICK b \in Byte : buf' = [buf EXCEPT ![wp] = b]
  BY DEF WriteByte
<1>1. Front = rp /\ Front' = rp /\ got' = got
  <2>1. op = "write" /\ op' \in {"write", "none"} /\ rp' = rp /\ got' = got
    BY DEF WriteByte
  <2>2. rp < Size
    BY <2>1 DEF ReadInv, ReadPointerInside
  <2>3. rp \in 0 .. Size
    BY DEF TypeOK
  <2>. QED  BY <2>1, <2>2, <2>3, MemBufAssumption DEF Front
<1>2. wp' = IF wp + 1 >= Size THEN 0 ELSE wp + 1
  BY DEF WriteByte
<1>3. CASE wp' = rp
  <2>1. Held = Size - 1 /\ Held' = 0
    BY <1>1, <1>2, <1>3, MemBufAssumption DEF Held, TypeOK, InRing
  <2>2. Contents' = <<>>
    BY <2>1 DEF Contents
  <2>3. st' = -1
    BY <1>3 DEF WriteByte
  <2>. QED  BY <1>1, <2>1, <2>2, <2>3 DEF Queue!Lose, InRing
<1>4. CASE wp' # rp
  <2>1. Held' = Held + 1 /\ Held < Size - 1
    BY <1>1, <1>2, <1>4, MemBufAssumption, SMTT(30) DEF Held, TypeOK, InRing
  <2>2. \A k \in 1 .. Held + 1 : Slot(k)' = Slot(k)
    BY <1>1 DEF Slot
  <2>3. Slot(Held + 1) = wp /\ \A k \in 1 .. Held : Slot(k) # wp
    BY <1>1, MemBufAssumption DEF Slot, Held, TypeOK, InRing
  <2>4. Contents' = [k \in 1 .. Held' |-> buf'[Slot(k)']]
    BY DEF Contents, Slot
  <2>5. \A k \in 1 .. Held + 1 : Contents'[k] = IF k = Held + 1 THEN b ELSE Contents[k]
    <3>1. Held \in Nat /\ buf \in [0 .. Size - 1 -> Byte \cup {None}] /\ wp \in 0 .. Size - 1
      BY MemBufAssumption DEF InRing, TypeOK
    <3>2. Contents'[Held + 1] = b
      BY <1>0, <2>1, <2>2, <2>3, <2>4, <3>1
    <3>3. ASSUME NEW k \in 1 .. Held PROVE Contents'[k] = Contents[k]
      <4>1. Slot(k) \in 0 .. Size - 1 /\ Contents[k] = buf[Slot(k)] /\ Slot(k) # wp
        BY <2>3 DEF InRing
      <4>2. Contents'[k] = buf'[Slot(k)]
        BY <2>1, <2>2, <2>4, <3>1
      <4>. QED  BY <1>0, <3>1, <4>1, <4>2
    <3>. QED  BY <3>1, <3>2, <3>3
  <2>6. Contents' = Append(Contents, b)
    <3>1. /\ Append(Contents, b) \in Seq(Byte \cup {None}) /\ Len(Append(Contents, b)) = Held + 1
          /\ \A k \in 1 .. Held + 1 : Append(Contents, b)[k] = IF k = Held + 1 THEN b ELSE Contents[k]
      <4>1. Contents \in Seq(Byte \cup {None}) /\ Len(Contents) = Held /\ b \in Byte \cup {None}
        BY DEF InRing
      <4>. QED  BY <4>1, AppendProperties
    <3>. QED  BY <2>1, <2>5, <3>1, SeqEqual DEF InRing
  <2>7. st' = st
    BY <1>4 DEF WriteByte
  <2>. QED  BY <1>1, <2>1, <2>6, <2>7 DEF Queue!Put, InRing
<1>. QED  BY <1>3, <1>4

\* The ring buffer is the queue it promises to be.
THEOREM ImplementsFifoHolds == ASSUME WholeReads PROVE Spec => ImplementsFifo
<1>1. Init => Queue!FifoInit
  <2>. SUFFICES ASSUME Init PROVE Queue!FifoInit
    OBVIOUS
  <2>1. Held = 0
    BY MemBufAssumption DEF Init, Held, Front
  <2>2. Contents = <<>>
    BY <2>1 DEF Contents
  <2>. QED  BY <2>2 DEF Init, Queue!FifoInit
<1>2. ReadInv /\ TypeOK' /\ [Next]_vars =>
        [Queue!Put \/ Queue!Get \/ Queue!Lose]_(Queue!fifoVars)
  <2>. SUFFICES ASSUME ReadInv, TypeOK', [Next]_vars
                PROVE  Queue!Put \/ Queue!Get \/ Queue!Lose \/ UNCHANGED Queue!fifoVars
    OBVIOUS
  <2>1. ASSUME NEW n \in ReadSizes, Read(n) PROVE UNCHANGED Queue!fifoVars
    BY <2>1, SameContents DEF Read, Front
  <2>2. CASE ReadByte
    BY <2>2, ReadByteGets
  <2>3. CASE ReadEnd
    <3>1. i = wp
      BY <2>3, ContentsSeq DEF ReadEnd, ReadInv, ReaderDrains, InRing
    <3>2. Front' = Front
      BY <2>3, <3>1 DEF ReadEnd, Front
    <3>. QED  BY <2>3, <3>2, SameContents DEF ReadEnd
  <2>4. ASSUME NEW n \in WriteSizes, Write(n) PROVE UNCHANGED Queue!fifoVars
    BY <2>4, SameContents DEF Write, Front
  <2>5. CASE WriteByte
    BY <2>5, WriteBytePuts
  <2>6. CASE WriteEnd
    BY <2>6, SameContents DEF WriteEnd, Front
  <2>7. CASE UNCHANGED vars
    BY <2>7, SameContents DEF vars, Front
  <2>. QED  BY <2>1, <2>2, <2>3, <2>4, <2>5, <2>6, <2>7 DEF Next
<1>. QED  BY <1>1, <1>2, ReadInvariant, TypeCorrect, PTL DEF Spec, ImplementsFifo, Queue!FifoSpec

-----------------------------------------------------------------------------
(* The generic stream: any number of threads and ports.                     *)

StrTypeOK == /\ type \in Types \cup {"none"} /\ port \in Ports \cup {Null}
             /\ kind \in [Ports -> Types \cup {"none"}]
             /\ lock \in Threads \cup {"none", "closer"}
             /\ at \in [Threads -> {"out", "test", "lock", "in"}]
             /\ caller \in {"idle", "typed", "cleared", "locked"}
             /\ renewed \subseteq Threads

\* The lock has one holder, and a caller that holds it has a stream to close.
LockHeld == /\ \A u \in Threads : at[u] = "in" <=> lock = u
            /\ caller = "locked" <=> lock = "closer"
            /\ caller # "idle" => type # "none"
            /\ \A u \in Threads : at[u] = "in" => type # "none"
\* While stropen is under way the stream has no port, and when it is not the
\* port is of the stream's type.
PortMatches == /\ caller \in {"typed", "cleared"} \/ type = "none" => port = Null
               /\ port # Null => kind[port] = type
\* A call that has passed its test meets a typed stream without a port only if
\* stropen began in between.
Passed == \A u \in Threads :
             (at[u] = "lock" /\ u \in Movers) \/ at[u] = "in" =>
                (type # "none" /\ port = Null => u \in renewed)

StrInv == StrTypeOK /\ LockHeld /\ PortMatches /\ Passed /\ NoPortLost

\* A stream that is not open has no port.
LEMMA StrInitInv == StrInit => StrInv
BY StreamAssumption
   DEF StrInit, StrInv, StrTypeOK, LockHeld, PortMatches, Passed, NoPortLost, Null, Ports, Threads

\* Opening and closing keep the invariant.
LEMMA OpenCloseInv ==
  ASSUME StrInv, OpenType \/ OpenClear \/ OpenPort \/ CloseLock \/ ClosePort
  PROVE  StrInv'
<1>. USE StreamAssumption
     DEF StrInv, StrTypeOK, LockHeld, PortMatches, Passed, NoPortLost, Null, Ports, Threads
<1>1. CASE OpenType
  BY <1>1 DEF OpenType
<1>2. CASE OpenClear
  BY <1>2 DEF OpenClear
<1>3. CASE OpenPort
  BY <1>3 DEF OpenPort
<1>4. CASE CloseLock
  BY <1>4 DEF CloseLock
<1>5. CASE ClosePort
  BY <1>5 DEF ClosePort
<1>. QED  BY <1>1, <1>2, <1>3, <1>4, <1>5

\* So do the steps of a call.
LEMMA CallInv ==
  ASSUME StrInv, NEW u \in Threads, Call(u) \/ Test(u) \/ Enter(u) \/ Leave(u)
  PROVE  StrInv'
<1>. USE StreamAssumption
     DEF StrInv, StrTypeOK, LockHeld, PortMatches, Passed, NoPortLost, Null, Ports, Threads
<1>1. CASE Call(u)
  BY <1>1 DEF Call
<1>2. CASE Test(u)
  BY <1>2 DEF Test
<1>3. CASE Enter(u)
  <2>0. at[u] = "lock" /\ lock = "none" /\ UNCHANGED <<type, port, kind, caller>>
    BY <1>3 DEF Enter
  <2>1. CASE type = "none" \/ (u \in Askers /\ port = Null)
    <3>1. at' = [at EXCEPT ![u] = "out"] /\ renewed' = renewed \ {u} /\ lock' = lock
      BY <1>3, <2>1 DEF Enter
    <3>2. StrTypeOK'
      BY <2>0, <3>1
    <3>3. LockHeld' /\ PortMatches' /\ NoPortLost'
      BY <2>0, <3>1
    <3>4. Passed'
      BY <2>0, <3>1
    <3>. QED  BY <3>2, <3>3, <3>4
  <2>2. CASE ~(type = "none" \/ (u \in Askers /\ port = Null))
    <3>1. at' = [at EXCEPT ![u] = "in"] /\ lock' = u /\ renewed' = renewed
      BY <1>3, <2>2 DEF Enter
    <3>2. StrTypeOK'
      BY <2>0, <3>1
    <3>3. LockHeld' /\ PortMatches' /\ NoPortLost'
      BY <2>0, <2>2, <3>1
    <3>4. Passed'
      BY <2>0, <2>2, <3>1
    <3>. QED  BY <3>2, <3>3, <3>4
  <2>. QED  BY <2>1, <2>2
<1>4. CASE Leave(u)
  BY <1>4 DEF Leave
<1>. QED  BY <1>1, <1>2, <1>3, <1>4

\* Whatever threads read, write, ask, close and open again, a port is used only while
\* it is open and as what it was opened as, and none is left without a stream.
THEOREM PortInvHolds == StrSpec => []PortInv
<1>1. StrInv /\ [StrNext]_strVars => StrInv'
  <2>1. StrInv /\ UNCHANGED strVars => StrInv'
    BY DEF StrInv, StrTypeOK, LockHeld, PortMatches, Passed, NoPortLost, strVars
  <2>. QED  BY <2>1, OpenCloseInv, CallInv DEF StrNext
<1>2. StrInv => PortInv
  BY DEF StrInv, StrTypeOK, PortMatches, Passed, LockHeld, PortInv, PortInUse
<1>. QED  BY <1>1, <1>2, StrInitInv, PTL DEF StrSpec

-----------------------------------------------------------------------------
(* The smallest of some numbers.                                            *)

\* Min of a set of naturals is what its name says.
LEMMA Smallest ==
  ASSUME NEW S \in SUBSET Nat, S # {}
  PROVE  Min(S) \in S /\ \A y \in S : Min(S) <= y
<1>1. PICK m \in S : \A y \in S : ~(<<y, m>> \in OpToRel(<, Nat))
  BY NatLessThanWellFounded, WFMin
<1>2. \A y \in S : ~(y < m)
  BY <1>1 DEF OpToRel
<1>3. \A y \in S : m <= y
  BY <1>2
<1>. QED  BY <1>3 DEF Min

-----------------------------------------------------------------------------
(* The TCP client: any descriptors, intervals and answers of the network.   *)

\* What the call under way says of the state of the stream.
StateKnown ==
    /\ tcpPc = "wait" => svrState = 0
    /\ tcpPc = "connect" => svrState = 1
    /\ tcpPc \in {"active", "io"} => svrState = 2

\* The time since the last loss is the one that consock compares.
GapKept == gap = tdis /\ (tcon = 0 => gap = TiRecon)

TcpStrong == TcpInv /\ StateKnown /\ GapKept

\* The descriptors that the stream has.
Mine == {f \in Fds : owner[f] = "tcp"}

\* The system has a free descriptor to give, if there is one.
LEMMA LowestFree == FreeFds # {} => Min(FreeFds) \in FreeFds
<1>1. FreeFds \in SUBSET Nat
  BY TcpAssumption DEF FreeFds, Fds
<1>. QED  BY <1>1, Smallest

\* The stream gets a descriptor, or the descriptor it has is closed.
LEMMA TakeIt ==
  ASSUME TcpInv, FreeFds # {}, svrState \notin {1, 2}, tcpPc # "closed"
  PROVE  /\ Min(FreeFds) \in Fds
         /\ [owner EXCEPT ![Min(FreeFds)] = "tcp"] \in [Fds -> {"free", "std", "tcp", "other"}]
         /\ {f \in Fds : [owner EXCEPT ![Min(FreeFds)] = "tcp"][f] = "tcp"} = {Min(FreeFds)}
<1>1. Min(FreeFds) \in Fds
  BY LowestFree DEF FreeFds
<1>2. owner \in [Fds -> {"free", "std", "tcp", "other"}] /\ \A f \in Fds : owner[f] # "tcp"
  BY DEF TcpInv, TcpTypeOK, SockOwned
<1>. QED  BY <1>1, <1>2

LEMMA LetGo ==
  ASSUME TcpInv, svrState \in {1, 2} \/ tcpPc = "closed" \/ tcpPc = "idle"
  PROVE  /\ Closed(sock) \in [Fds -> {"free", "std", "tcp", "other"}]
         /\ tcpPc # "closed" => \A f \in Fds : Closed(sock)[f] # "tcp"
<1>1. owner \in [Fds -> {"free", "std", "tcp", "other"}] /\ sock \in Fds
  BY DEF TcpInv, TcpTypeOK
<1>2. tcpPc # "closed" => \A f \in Fds : owner[f] = "tcp" => f = sock
  BY DEF TcpInv, SockOwned
<1>. QED  BY <1>1, <1>2 DEF Closed

\* The loss of a connection, whichever call meets it.
LEMMA DisconStrong ==
  ASSUME TcpStrong, Discon, svrState = 2, tcpPc # "closed"
  PROVE  TcpStrong'
<1>1. /\ owner' = Closed(sock) /\ svrState' = 0 /\ tcon' = TiRecon /\ tdis' = 0 /\ gap' = 0
      /\ tcpPc' = "idle" /\ sock' = sock /\ tact' = tact /\ peer' = peer
  BY DEF Discon
<1>2. owner' \in [Fds -> {"free", "std", "tcp", "other"}] /\ \A f \in Fds : owner'[f] # "tcp"
  BY <1>1, LetGo DEF TcpStrong
<1>3. TcpInv'
  BY <1>1, <1>2, TcpAssumption DEF TcpStrong, TcpInv, TcpTypeOK, SockOwned
<1>. QED  BY <1>1, <1>3, TcpAssumption DEF TcpStrong, StateKnown, GapKept

\* Every call keeps what is known of the descriptor and of the time since the loss.
LEMMA TcpStrongStep == TcpStrong /\ [TcpNext]_tcpVars => TcpStrong'
<1>. SUFFICES ASSUME TcpStrong, [TcpNext]_tcpVars PROVE TcpStrong'
  OBVIOUS
<1>. USE TcpAssumption DEF TcpStrong, StateKnown, GapKept
<1>0. TcpInv /\ TcpTypeOK /\ SockOwned
  BY DEF TcpInv
<1>1. CASE TcpCall
  BY <1>0, <1>1 DEF TcpCall, TcpInv, TcpTypeOK, SockOwned
<1>2. CASE GenSocket
  <2>1. owner' \in [Fds -> {"free", "std", "tcp", "other"}] /\ sock' \in Fds
        /\ {f \in Fds : owner'[f] = "tcp"} = {sock'}
    BY <1>0, <1>2, TakeIt DEF GenSocket
  <2>. QED  BY <1>0, <1>2, <2>1 DEF GenSocket, TcpInv, TcpTypeOK, SockOwned
<1>3. CASE GenNoHost
  <2>1. sock' \in Fds
    BY <1>3, LowestFree DEF GenNoHost, FreeFds
  <2>. QED  BY <1>0, <1>3, <2>1 DEF GenNoHost, TcpInv, TcpTypeOK, SockOwned
<1>4. CASE GenFails
  <2>1. sock' \in Fds
    BY <1>0, <1>4, LowestFree DEF GenFails, FreeFds, TcpTypeOK
  <2>. QED  BY <1>0, <1>4, <2>1 DEF GenFails, TcpInv, TcpTypeOK, SockOwned
<1>5. CASE ConnectWait
  BY <1>0, <1>5 DEF ConnectWait, TcpInv, TcpTypeOK, SockOwned
<1>6. CASE Connected
  BY <1>0, <1>6 DEF Connected, TcpInv, TcpTypeOK, SockOwned
<1>7. CASE ConnectFails
  <2>1. owner' \in [Fds -> {"free", "std", "tcp", "other"}] /\ \A f \in Fds : owner'[f] # "tcp"
    BY <1>0, <1>7, LetGo DEF ConnectFails
  <2>. QED  BY <1>0, <1>7, <2>1 DEF ConnectFails, TcpInv, TcpTypeOK, SockOwned
<1>8. CASE Inactive
  <2>1. CASE ToInact > 0 /\ tact > ToInact
    BY <1>8, <2>1, DisconStrong DEF Inactive
  <2>2. CASE ~(ToInact > 0 /\ tact > ToInact)
    BY <1>0, <1>8, <2>2 DEF Inactive, TcpInv, TcpTypeOK, SockOwned
  <2>. QED  BY <2>1, <2>2
<1>9. CASE Transfer
  <2>1. CASE Discon
    BY <1>9, <2>1, DisconStrong DEF Transfer
  <2>2. CASE tcpPc' = "idle" /\ tact' \in {0, tact} /\ UNCHANGED <<svrState, sock, tcon, tdis, owner, gap, peer>>
    BY <1>0, <1>9, <2>2 DEF Transfer, TcpInv, TcpTypeOK, SockOwned
  <2>. QED  BY <1>9, <2>1, <2>2 DEF Transfer
<1>10. CASE TcpClose
  <2>1. owner' \in [Fds -> {"free", "std", "tcp", "other"}]
    BY <1>0, <1>10, LetGo DEF TcpClose
  <2>. QED  BY <1>0, <1>10, <2>1 DEF TcpClose, TcpInv, TcpTypeOK, SockOwned
<1>11. CASE OtherOpens
  <2>1. /\ owner' = [owner EXCEPT ![Min(FreeFds)] = "other"]
        /\ UNCHANGED <<tcpPc, svrState, sock, tcon, tdis, tact, gap, peer>>
        /\ Min(FreeFds) \in Fds /\ owner[Min(FreeFds)] = "free"
    BY <1>11, LowestFree DEF OtherOpens, FreeFds
  <2>2. owner' \in [Fds -> {"free", "std", "tcp", "other"}] /\ \A f \in Fds : owner'[f] = "tcp" <=> owner[f] = "tcp"
    BY <1>0, <2>1 DEF TcpTypeOK
  <2>3. {f \in Fds : owner'[f] = "tcp"} = {f \in Fds : owner[f] = "tcp"}
    BY <2>2
  <2>. QED  BY <1>0, <2>1, <2>2, <2>3 DEF TcpInv, TcpTypeOK, SockOwned
<1>12. CASE OtherCloses
  <2>1. PICK f \in Fds : owner[f] = "other" /\ owner' = [owner EXCEPT ![f] = "free"]
    BY <1>12 DEF OtherCloses, Closed
  <2>2. owner' \in [Fds -> {"free", "std", "tcp", "other"}] /\ \A g \in Fds : owner'[g] = "tcp" <=> owner[g] = "tcp"
    BY <1>0, <2>1 DEF TcpTypeOK
  <2>3. {g \in Fds : owner'[g] = "tcp"} = {g \in Fds : owner[g] = "tcp"}
    BY <2>2
  <2>. QED  BY <1>0, <1>12, <2>2, <2>3 DEF OtherCloses, TcpInv, TcpTypeOK, SockOwned
<1>13. CASE PeerChanges
  BY <1>0, <1>13 DEF PeerChanges, TcpInv, TcpTypeOK, SockOwned
<1>14. CASE TcpTick
  BY <1>0, <1>14 DEF TcpTick, Later, TcpInv, TcpTypeOK, SockOwned
<1>15. CASE UNCHANGED tcpVars
  BY <1>0, <1>15 DEF tcpVars, TcpInv, TcpTypeOK, SockOwned
<1>. QED  BY <1>1, <1>2, <1>3, <1>4, <1>5, <1>6, <1>7, <1>8, <1>9, <1>10, <1>11, <1>12, <1>13,
             <1>14, <1>15 DEF TcpNext, TcpStep

\* So it is when the stream has been opened.
LEMMA TcpStrongInit == TcpInit => TcpStrong
  BY TcpAssumption DEF TcpInit, TcpStrong, TcpInv, TcpTypeOK, SockOwned, StateKnown, GapKept, Fds

\* Whatever else opens and closes descriptors and however the far end behaves, the stream
\* has the descriptor in sock and no other exactly while it waits or is connected.
THEOREM TcpInvHolds == TcpSpec => []TcpInv
<1>1. TcpStrong => TcpInv
  BY DEF TcpStrong
<1>. QED  BY <1>1, TcpStrongInit, TcpStrongStep, PTL DEF TcpSpec

\* After a connection was lost or a name not found, no attempt is made too early.
THEOREM AttemptsSpacedHolds == TcpSpec => AttemptsSpaced
<1>1. TcpStrong /\ [TcpNext]_tcpVars => [Connected \/ ConnectFails => gap >= TiRecon]_tcpVars
  BY TcpAssumption DEF TcpStrong, TcpInv, TcpTypeOK, GapKept, Connected, ConnectFails, ConnectDue
<1>. QED  BY <1>1, TcpStrongInit, TcpStrongStep, PTL DEF TcpSpec, AttemptsSpaced

-----------------------------------------------------------------------------
(* The download: any objects, files, times and failures.                    *)

FtpSpec == FtpInit /\ [][FtpNext]_ftpVars

Sizes == {"none", "part", "whole"}

FtpTypes ==
    /\ ftp \in Objs \cup {0} /\ flaws \subseteq {"left", "unpack"}
    /\ state \in [Objs -> 0 .. 3] /\ pc \in [Objs -> {"none", "look", "get", "unpack"}]
    /\ name \in [Objs -> Names] /\ disk \in [Names -> Sizes]

\* An open stream has its ftp_t.  So has a thread, whose download is on going; it is that of the
\* stream, unless one was left behind.
Downloading ==
    /\ ftp # 0 => ftp \in live
    /\ \A o \in Objs : pc[o] # "none" => o \in live /\ state[o] = 1 /\ ("left" \in flaws \/ o = ftp)

Fetches(o) == (pc[o] = "get" /\ ~zipped) \/ pc[o] = "unpack"

\* A part of a file is what the stream's own thread is writing, unless one was left behind.
PartsExplained ==
    "left" \notin flaws => \A n \in Names : disk[n] = "part" => ftp # 0 /\ Fetches(ftp) /\ name[ftp] = n

\* While nothing has gone wrong the file that is written, or was, is there.
FileIsThere ==
    flaws = {} /\ ftp # 0 /\ (Fetches(ftp) \/ state[ftp] = 2) => disk[name[ftp]] # "none"

FtpStrong == FtpTypes /\ Downloading /\ PartsExplained /\ FileIsThere /\ NamesWhole

\* Nothing is under way before the first opening.
LEMMA FtpStrongInit == FtpInit => FtpStrong
<1>. SUFFICES ASSUME FtpInit PROVE FtpStrong
  OBVIOUS
<1>1. /\ ftp = 0 /\ flaws = {} /\ told = "none yet"
      /\ \A o \in Objs : state[o] = 0 /\ pc[o] = "none"
      /\ \A n \in Names : disk[n] = "none"
  BY DEF FtpInit
<1>2. FtpTypes
  <2>1. state = [o \in Objs |-> 0] /\ pc = [o \in Objs |-> "none"]
    BY DEF FtpInit
  <2>3. state \in [Objs -> 0 .. 3]
    BY <2>1
  <2>4. pc \in [Objs -> {"none", "look", "get", "unpack"}]
    BY <2>1
  <2>2. name \in [Objs -> Names] /\ disk \in [Names -> Sizes]
    BY DEF FtpInit, Names, Sizes
  <2>. QED  BY <1>1, <2>2, <2>3, <2>4 DEF FtpTypes
<1>. QED  BY <1>1, <1>2 DEF FtpStrong, Downloading, PartsExplained, FileIsThere, NamesWhole

\* Every step of a reader, of a thread and of those who close the stream keeps it.
LEMMA FtpStrongStep == FtpStrong /\ [FtpNext]_ftpVars => FtpStrong'
<1>. SUFFICES ASSUME FtpStrong, [FtpNext]_ftpVars PROVE FtpStrong'
  OBVIOUS
<1>0. FtpTypes /\ Downloading /\ PartsExplained /\ FileIsThere /\ NamesWhole /\ 0 \notin Objs
  BY DEF FtpStrong, Objs
<1>. USE <1>0 DEF FtpStrong, FtpTypes, Downloading, PartsExplained, FileIsThere, NamesWhole, Fetches
<1>1. CASE Open
  <2>1. PICK o \in Objs : /\ ftp = 0 /\ pc[o] = "none" /\ ftp' = o /\ live' = live \cup {o}
                          /\ state' = [state EXCEPT ![o] = 0]
                          /\ UNCHANGED <<pc, name, disk, zipped, told, flaws>>
    BY <1>1 DEF Open
  <2>. QED  BY <2>1
<1>2. CASE Close
  BY <1>2 DEF Close
<1>3. CASE Begin
  <2>1. /\ ftp \in Objs /\ state[ftp] = 0 /\ pc[ftp] = "none"
        /\ UNCHANGED <<ftp, live, name, disk, zipped, told, flaws>>
    BY <1>3 DEF Begin
  <2>2. CASE state' = [state EXCEPT ![ftp] = 1] /\ pc' = [pc EXCEPT ![ftp] = "look"]
    <3>1. FtpTypes'
      BY <2>1, <2>2
    <3>2. ftp \in live
      BY <1>3 DEF Begin
    <3>3. PartsExplained' /\ FileIsThere' /\ NamesWhole'
      BY <2>1, <2>2
    <3>. QED  BY <2>1, <2>2, <3>1, <3>2, <3>3
  <2>3. CASE state' = [state EXCEPT ![ftp] = 3] /\ UNCHANGED pc
    BY <2>1, <2>3
  <2>. QED  BY <1>3, <2>2, <2>3 DEF Begin
<1>4. CASE TryLater
  BY <1>4 DEF TryLater
<1>5. CASE Deliver
  BY <1>5 DEF Deliver
<1>6. ASSUME NEW o \in Objs, Look(o) PROVE FtpStrong'
  BY <1>6 DEF Look, Ends, Names, Sizes
<1>7. ASSUME NEW o \in Objs, GetFails(o) PROVE FtpStrong'
  BY <1>7 DEF GetFails, Ends, Sizes
<1>8. ASSUME NEW o \in Objs, GetDone(o) PROVE FtpStrong'
  BY <1>8 DEF GetDone, Ends, Sizes, Complete
<1>9. ASSUME NEW o \in Objs, Unpack(o) PROVE FtpStrong'
  <2>. DEFINE n == name[o]
  <2>1. /\ pc[o] = "unpack" /\ state[o] = 1 /\ n \in Names /\ flaws \subseteq flaws'
        /\ state' = [state EXCEPT ![o] = 2] /\ pc' = [pc EXCEPT ![o] = "none"]
        /\ UNCHANGED <<ftp, live, name, zipped, told>>
        /\ "left" \in flaws' => "left" \in flaws
    BY <1>9 DEF Unpack, Ends
  <2>2. \/ disk' = [disk EXCEPT ![n] = Complete(disk[n])] /\ flaws' = flaws
        \/ disk' = [disk EXCEPT ![n] = "none"] /\ flaws' = flaws \cup {"unpack"}
    BY <1>9 DEF Unpack
  <2>3. \A m \in Names : m # n => disk'[m] = disk[m]
    BY <2>2
  <2>4. disk'[n] \in {"none", "whole"} /\ (flaws' = {} => disk'[n] # "none")
    BY <2>1, <2>2 DEF Complete
  <2>5. FtpTypes'
    BY <2>1, <2>2 DEF Complete, Sizes
  <2>. HIDE DEF n
  <2>6. Downloading'
    BY <2>1
  <2>7. PartsExplained'
    BY <2>1, <2>3, <2>4 DEF n
  <2>8. FileIsThere'
    BY <2>1, <2>3, <2>4 DEF n
  <2>. QED  BY <2>1, <2>5, <2>6, <2>7, <2>8
<1>10. CASE Crash
  BY <1>10 DEF Crash
<1>11. CASE Tick
  BY <1>11 DEF Tick, Names, Sizes
<1>12. CASE UNCHANGED ftpVars
  BY <1>12 DEF ftpVars
<1>. QED
  BY <1>1, <1>2, <1>3, <1>4, <1>5, <1>6, <1>7, <1>8, <1>9, <1>10, <1>11, <1>12 DEF FtpNext, ReadStep, Thread

\* A download thread has its ftp_t, and the path that is returned names a whole file, unless a
\* download was left behind or could not be unpacked, for any intervals and any number of
\* openings, crashes and files.
THEOREM FtpInvHolds == FtpSpec => []FtpInv
<1>1. FtpStrong => FtpInv
  BY DEF FtpStrong, FtpInv, ThreadHasFtp, Downloading
<1>. QED  BY <1>1, FtpStrongInit, FtpStrongStep, PTL DEF FtpSpec

-----------------------------------------------------------------------------
(* The replay: any recordings, start times and speeds.                      *)

ReplaySpec == ReplayInit /\ [][ReplayNext]_replayVars

ReplayTypes ==
    /\ clock \in Nat /\ began \in 0 .. clock /\ turn \in Files
    /\ tickF \in [Files -> Nat] /\ start \in Nat /\ speed \in Nat /\ sync \in BOOLEAN
    /\ tickMaster \in Int
    /\ tag \in [Files -> Nat] /\ \A f \in Files : tag[f] <= Len(Tags[f])
    /\ fposN \in [Files -> Nat] /\ pos \in [Files -> Nat] /\ upto \in [Files -> Int]

\* File 2 follows the time file 1 has just played.
MasterSet == turn = 2 => tickMaster = Played(began)

\* The tags that were passed are of the past.
TagsPassed == \A f \in Files : \A k \in 0 .. Len(Tags[f]) : k < tag[f] => Recorded(f, k) <= TimeOfDay(f, clock)

ReplayStrong == ReplayTypes /\ MasterSet /\ TagsPassed /\ InTime

\* Min and Max of two numbers.
LEMMA SmallerOfTwo ==
  ASSUME NEW a \in Int, NEW b \in Int
  PROVE  Min({a, b}) = IF a <= b THEN a ELSE b
<1>1. \E x \in {a, b} : \A y \in {a, b} : x <= y
  OBVIOUS
<1>2. Min({a, b}) \in {a, b} /\ \A y \in {a, b} : Min({a, b}) <= y
  BY <1>1 DEF Min
<1>. QED  BY <1>2

\* What the data file has of a record.
LEMMA GivenIs ==
  ASSUME NEW f \in Files, NEW k, End(f, k) \in Nat, Length[f] \in Nat
  PROVE  Given(f, k) \in Nat /\ Given(f, k) <= End(f, k) /\ Given(f, k) <= Length[f]
<1>1. Given(f, k) = IF End(f, k) <= Length[f] THEN End(f, k) ELSE Length[f]
  BY SmallerOfTwo DEF Given
<1>. QED  BY <1>1

LEMMA LargerOfTwo ==
  ASSUME NEW a \in Int, NEW b \in Int
  PROVE  Max({a, b}) = IF a >= b THEN a ELSE b
<1>1. \E x \in {a, b} : \A y \in {a, b} : x >= y
  OBVIOUS
<1>2. Max({a, b}) \in {a, b} /\ \A y \in {a, b} : Max({a, b}) >= y
  BY <1>1 DEF Max
<1>. QED  BY <1>2

\* Tags are in the order of their times and of their places in the file.
LEMMA TagsInOrder ==
  ASSUME NEW f \in Files
  PROVE  /\ Length[f] \in Nat /\ Len(Tags[f]) \in Nat
         /\ \A k \in 0 .. Len(Tags[f]) : TickOf(f, k) \in Nat /\ End(f, k) \in Nat
         /\ \A j, k \in 0 .. Len(Tags[f]) : j <= k => TickOf(f, j) <= TickOf(f, k) /\ End(f, j) <= End(f, k)
<1>1. Tags[f] \in Seq([tick : Nat, fpos : Nat]) /\ Length[f] \in Nat
  BY FileReplayAssumption
<1>2. Len(Tags[f]) \in Nat /\ DOMAIN Tags[f] = 1 .. Len(Tags[f])
  BY <1>1
<1>3. \A k \in 1 .. Len(Tags[f]) : Tags[f][k] \in [tick : Nat, fpos : Nat]
  BY <1>1, ElementOfSeq
<1>4. \A k \in 0 .. Len(Tags[f]) : TickOf(f, k) \in Nat /\ End(f, k) \in Nat
  BY <1>1, <1>2, <1>3 DEF TickOf, End
<1>5. ASSUME NEW j \in 0 .. Len(Tags[f]), NEW k \in 0 .. Len(Tags[f]), j <= k
      PROVE  TickOf(f, j) <= TickOf(f, k) /\ End(f, j) <= End(f, k)
  <2>1. CASE j = k
    BY <1>4, <2>1
  <2>2. CASE j = 0
    BY <1>4, <2>2 DEF TickOf, End
  <2>3. CASE j # 0 /\ j < k
    <3>1. k \in 1 .. Len(Tags[f]) /\ j \in 1 .. k - 1 /\ j \in 1 .. Len(Tags[f])
      BY <1>2, <2>3
    <3>2. Tags[f][j].tick <= Tags[f][k].tick /\ Tags[f][j].fpos <= Tags[f][k].fpos
      BY <1>2, <3>1, FileReplayAssumption
    <3>3. Tags[f][j].fpos \in Nat /\ Tags[f][k].fpos \in Nat
      BY <1>3, <3>1
    <3>. QED  BY <2>3, <3>2, <3>3 DEF TickOf, End
  <2>. QED  BY <1>2, <1>5, <2>1, <2>2, <2>3
<1>. QED  BY <1>1, <1>2, <1>4, <1>5

\* What readfile looks for: all tags up to time t are before it, as far as there are data, and
\* all data behind it are later.
LEMMA SoughtIs ==
  ASSUME ReplayTypes, NEW f \in Files, NEW t \in Int
  PROVE  /\ Sought(f, t).tag \in tag[f] .. Len(Tags[f]) /\ Sought(f, t).fpos \in Nat
         /\ \A k \in tag[f] .. Len(Tags[f]) : k < Sought(f, t).tag => TickOf(f, k) <= t
         /\ \A k \in 0 .. Len(Tags[f]) : End(f, k) < Sought(f, t).fpos => k < tag[f] \/ TickOf(f, k) <= t
         /\ \A k \in 0 .. Len(Tags[f]) : TickOf(f, k) <= t => Given(f, k) <= Sought(f, t).fpos
<1>. DEFINE last == Len(Tags[f])
            later == {k \in tag[f] .. last : TickOf(f, k) > t}
            s == Sought(f, t)
<1>1. tag[f] \in Nat /\ tag[f] <= last /\ last \in Nat /\ Length[f] \in Nat
  BY TagsInOrder DEF ReplayTypes
<1>4. /\ \A k \in 0 .. last : TickOf(f, k) \in Nat /\ End(f, k) \in Nat
      /\ \A j, k \in 0 .. last : j <= k => TickOf(f, j) <= TickOf(f, k) /\ End(f, j) <= End(f, k)
  BY TagsInOrder
<1>0. /\ \A k \in 0 .. last : TickOf(f, k) \in Nat /\ End(f, k) \in Nat /\ Given(f, k) \in Nat
                             /\ Given(f, k) <= End(f, k) /\ Given(f, k) <= Length[f]
      /\ \A j, k \in 0 .. last : j <= k => TickOf(f, j) <= TickOf(f, k) /\ End(f, j) <= End(f, k)
  BY <1>1, <1>4, GivenIs
<1>. SUFFICES /\ s.tag \in tag[f] .. last /\ s.fpos \in Nat
              /\ \A k \in tag[f] .. last : k < s.tag => TickOf(f, k) <= t
              /\ \A k \in 0 .. last : End(f, k) < s.fpos => k < tag[f] \/ TickOf(f, k) <= t
              /\ \A k \in 0 .. last : TickOf(f, k) <= t => Given(f, k) <= s.fpos
  OBVIOUS
<1>2. CASE later = {}
  <2>1. s = [tag |-> last, fpos |-> Length[f]]
    BY <1>2 DEF Sought
  <2>. HIDE DEF last, s
  <2>2. \A k \in tag[f] .. last : ~(TickOf(f, k) > t)
    BY <1>2
  <2>. HIDE DEF later
  <2>3. \A k \in tag[f] .. last : TickOf(f, k) <= t
    BY <1>0, <1>1, <2>2
  <2>4. s.tag = last /\ s.fpos = Length[f]
    BY <2>1
  <2>. QED  BY <1>0, <1>1, <2>3, <2>4
<1>3. CASE later # {}
  <2>. DEFINE m == Min(later)
  <2>1. later \in SUBSET Nat
    BY <1>1
  <2>2. m \in later /\ \A y \in later : m <= y
    BY <1>3, <2>1, Smallest
  <2>3. s = [tag |-> m, fpos |-> End(f, m)]
    BY <1>3 DEF Sought
  <2>. HIDE DEF last, m, s
  <2>4. m \in tag[f] .. last /\ TickOf(f, m) > t
    BY <2>2
  <2>5. \A k \in tag[f] .. last : ~(TickOf(f, k) > t) \/ m <= k
    BY <2>2
  <2>. HIDE DEF later
  <2>6. m \in 0 .. last /\ End(f, m) \in Nat
    BY <1>0, <1>1, <2>4
  <2>7. \A k \in tag[f] .. last : k < m => TickOf(f, k) <= t
    BY <1>0, <1>1, <2>5, <2>6
  <2>8. \A k \in 0 .. last : End(f, k) < End(f, m) => k < m
    BY <1>0, <1>1, <2>6
  <2>9. \A k \in 0 .. last : TickOf(f, k) <= t => k < m
    BY <1>0, <1>1, <2>4, <2>6
  <2>10. \A k \in 0 .. last : k < m => Given(f, k) <= End(f, m)
    BY <1>0, <1>1, <2>6
  <2>11. s.tag = m /\ s.fpos = End(f, m)
    BY <2>3
  <2>12. \A k \in 0 .. last : End(f, k) < s.fpos => k < tag[f] \/ TickOf(f, k) <= t
    BY <1>1, <2>7, <2>8, <2>11
  <2>13. \A k \in 0 .. last : TickOf(f, k) <= t => Given(f, k) <= s.fpos
    BY <2>9, <2>10, <2>11
  <2>. QED  BY <2>4, <2>6, <2>7, <2>11, <2>12, <2>13
<1>. QED  BY <1>2, <1>3

\* What a read moves the file on by.
LEMMA MovesOn ==
  ASSUME NEW p \in Nat, NEW e \in Nat, NEW n \in Nat, n # 0
  PROVE  LET nr == Max({0, Min({n, e - p})})
         IN  /\ nr \in Nat /\ (p + nr = p \/ p + nr <= e)
             /\ nr < n => p + nr >= e
<1>1. Min({n, e - p}) = IF n <= e - p THEN n ELSE e - p
  BY SmallerOfTwo
<1>2. Min({n, e - p}) \in Int
  BY <1>1
<1>3. Max({0, Min({n, e - p})}) = IF 0 >= Min({n, e - p}) THEN 0 ELSE Min({n, e - p})
  BY <1>2, LargerOfTwo
<1>. QED  BY <1>1, <1>2, <1>3

\* The clock plays forward.
LEMMA PlaysOn ==
  ASSUME ReplayTypes, NEW c \in Nat, NEW d \in Nat, c <= d
  PROVE  Played(c) \in Nat /\ Played(d) \in Nat /\ Played(c) <= Played(d)
<1>1. speed \in Nat /\ start \in Nat
  BY DEF ReplayTypes
<1>2. c * speed \in Nat /\ d * speed \in Nat /\ c * speed <= d * speed
  BY <1>1
<1>. QED  BY <1>1, <1>2 DEF Played

\* Nothing has been read when a replay begins.
LEMMA ReplayStrongInit == ReplayInit => ReplayStrong
<1>. SUFFICES ASSUME ReplayInit PROVE ReplayStrong
  OBVIOUS
<1>1. ReplayTypes
  <2>1. \A f \in Files : Len(Tags[f]) \in Nat
    BY TagsInOrder
  <2>2. tag = [f \in Files |-> 0] /\ pos = tag /\ fposN = tag /\ upto = [f \in Files |-> -1]
    BY DEF ReplayInit
  <2>3. tag \in [Files -> Nat] /\ (\A f \in Files : tag[f] = 0) /\ upto \in [Files -> Int]
    BY <2>2
  <2>4. clock = 0 /\ began = 0 /\ turn \in Files /\ tickMaster = 0 /\ sync \in BOOLEAN
    BY DEF ReplayInit, Files
  <2>5. tickF \in [Files -> Nat] /\ start \in Nat /\ speed \in Nat
    BY FileReplayAssumption DEF ReplayInit
  <2>. QED  BY <2>1, <2>2, <2>3, <2>4, <2>5 DEF ReplayTypes
<1>2. MasterSet /\ TagsPassed
  BY DEF ReplayInit, MasterSet, TagsPassed
<1>3. InTime
  <2>1. \A f \in Files : pos[f] = 0 /\ upto[f] = -1
    BY DEF ReplayInit
  <2>2. NotEarly
    BY <2>1, TagsInOrder DEF NotEarly
  <2>. QED  BY <2>1, <2>2 DEF InTime, NotLate
<1>. QED  BY <1>1, <1>2, <1>3 DEF ReplayStrong

\* The times of the two files.
LEMMA TimesTyped ==
  ASSUME ReplayTypes, NEW f \in Files
  PROVE  /\ \A c, d \in Nat : c <= d => /\ TimeOfDay(f, c) \in Nat /\ TimeOfDay(f, d) \in Nat
                                        /\ TimeOfDay(f, c) <= TimeOfDay(f, d)
         /\ \A k \in 0 .. Len(Tags[f]) : Recorded(f, k) \in Nat
<1>1. tickF[f] \in Nat /\ tickF[1] \in Nat
  BY DEF ReplayTypes, Files
<1>2. \A c, d \in Nat : c <= d => Played(c) \in Nat /\ Played(d) \in Nat /\ Played(c) <= Played(d)
  BY PlaysOn
<1>3. \A k \in 0 .. Len(Tags[f]) : TickOf(f, k) \in Nat
  BY TagsInOrder
<1>4. \A c, d \in Nat : c <= d => /\ TimeOfDay(f, c) \in Nat /\ TimeOfDay(f, d) \in Nat
                                  /\ TimeOfDay(f, c) <= TimeOfDay(f, d)
  <2>. DEFINE off == IF sync THEN tickF[1] ELSE tickF[f]
  <2>1. off \in Nat
    BY <1>1
  <2>2. \A c \in Nat : TimeOfDay(f, c) = Played(c) + off
    BY DEF TimeOfDay
  <2>. HIDE DEF off
  <2>. QED  BY <1>2, <2>1, <2>2
<1>5. \A k \in 0 .. Len(Tags[f]) : Recorded(f, k) \in Nat
  BY <1>1, <1>3 DEF Recorded
<1>. QED  BY <1>4, <1>5

\* Time that goes on makes nothing early, and what was late before is looked at by the time
\* it was due.
LEMMA TickStrong ==
  ASSUME ReplayStrong, TickOn
  PROVE  ReplayStrong'
<1>0. ReplayTypes /\ MasterSet /\ TagsPassed /\ NotEarly /\ NotLate
  BY DEF ReplayStrong, InTime
<1>1. clock' = clock + 1 /\ clock \in Nat
      /\ UNCHANGED <<tickF, start, speed, sync, tickMaster, tag, fposN, pos, turn, began, upto>>
  BY <1>0 DEF TickOn, ReplayTypes
<1>2. ReplayTypes'
  BY <1>0, <1>1 DEF ReplayTypes
<1>3. MasterSet'
  BY <1>0, <1>1 DEF MasterSet, Played
<1>4. \A f \in Files : \A k \in 0 .. Len(Tags[f]) :
        Recorded(f, k) <= TimeOfDay(f, clock) => Recorded(f, k) <= TimeOfDay(f, clock + 1)
  <2>. SUFFICES ASSUME NEW f \in Files, NEW k \in 0 .. Len(Tags[f]), Recorded(f, k) <= TimeOfDay(f, clock)
                PROVE  Recorded(f, k) <= TimeOfDay(f, clock + 1)
    OBVIOUS
  <2>1. clock + 1 \in Nat /\ clock <= clock + 1
    BY <1>1
  <2>2. TimeOfDay(f, clock) \in Nat /\ TimeOfDay(f, clock + 1) \in Nat /\ TimeOfDay(f, clock) <= TimeOfDay(f, clock + 1)
    BY <1>0, <1>1, <2>1, TimesTyped
  <2>3. Recorded(f, k) \in Nat
    BY <1>0, TimesTyped
  <2>. QED  BY <2>2, <2>3
<1>5. TagsPassed'
  BY <1>0, <1>1, <1>4 DEF TagsPassed, Recorded, TimeOfDay, Played
<1>6. NotEarly'
  BY <1>0, <1>1, <1>4 DEF NotEarly, Recorded, TimeOfDay, Played
<1>7. NotLate'
  BY <1>0, <1>1 DEF NotLate, Recorded, TimeOfDay, Played, Given
<1>. QED  BY <1>2, <1>3, <1>5, <1>6, <1>7 DEF ReplayStrong, InTime

\* A read returns data up to the first tag that is not due, and with less than was asked for
\* all up to it.
LEMMA ReadStrong ==
  ASSUME ReplayStrong, NEW n \in Asked, ReadFile(n)
  PROVE  ReplayStrong'
<1>. DEFINE f == turn
            t == IF Slave(f) THEN tickMaster + Offset ELSE Played(clock)
            s == Sought(f, t)
            there == Min({s.fpos, Length[f]})
            nr == Max({0, Min({n, there - pos[f]})})
            cycle == IF f = 1 THEN clock ELSE began
            off == IF sync THEN tickF[1] ELSE tickF[f]
<1>0. ReplayTypes /\ MasterSet /\ TagsPassed /\ NotEarly /\ NotLate
  BY DEF ReplayStrong, InTime
<1>1. /\ f \in Files /\ clock \in Nat /\ began \in Nat /\ began <= clock /\ tickF[f] \in Nat
      /\ tickF[1] \in Nat /\ tickF[2] \in Nat /\ pos[f] \in Nat /\ tag[f] \in Nat /\ tickMaster \in Int
      /\ n \in Nat /\ n # 0 /\ off \in Nat
  <2>1. turn \in Files /\ clock \in Nat /\ began \in Nat /\ began <= clock /\ tickMaster \in Int
    BY <1>0 DEF ReplayTypes
  <2>2. tickF \in [Files -> Nat] /\ pos \in [Files -> Nat] /\ tag \in [Files -> Nat] /\ {1, 2} \subseteq Files
    BY <1>0 DEF ReplayTypes, Files
  <2>3. n \in Nat /\ n # 0
    BY FileReplayAssumption
  <2>4. tickF[f] \in Nat /\ tickF[1] \in Nat /\ tickF[2] \in Nat /\ pos[f] \in Nat /\ tag[f] \in Nat
    BY <2>1, <2>2
  <2>. QED  BY <2>1, <2>3, <2>4
<1>2. /\ tickMaster' = IF Slave(f) THEN tickMaster ELSE t
      /\ tag' = [tag EXCEPT ![f] = s.tag]
      /\ fposN' = [fposN EXCEPT ![f] = s.fpos]
      /\ pos' = [pos EXCEPT ![f] = pos[f] + nr]
      /\ began' = cycle
      /\ upto' = [upto EXCEPT ![f] = IF nr < n THEN cycle ELSE upto[f]]
      /\ turn' = 3 - f
      /\ UNCHANGED <<clock, tickF, start, speed, sync>>
  BY DEF ReadFile
<1>3. Played(began) \in Nat /\ Played(clock) \in Nat /\ Played(began) <= Played(clock)
  BY <1>0, <1>1, PlaysOn
<1>4. t \in Int /\ tickF[f] + t <= Played(clock) + off /\ Played(cycle) + off <= tickF[f] + t
  <2>1. CASE Slave(f)
    <3>1. f = 2 /\ sync /\ tickMaster = Played(began) /\ t = tickMaster + (tickF[1] - tickF[2])
      BY <1>0, <2>1 DEF Slave, MasterSet, Offset
    <3>. QED  BY <1>1, <1>3, <3>1
  <2>2. CASE ~Slave(f)
    <3>1. t = Played(clock) /\ off = tickF[f]
      BY <1>1, <2>2 DEF Slave, Files
    <3>. QED  BY <1>1, <1>3, <3>1
  <2>. QED  BY <2>1, <2>2
<1>5. \A c : TimeOfDay(f, c) = Played(c) + off
  BY DEF TimeOfDay
<1>6. /\ Len(Tags[f]) \in Nat /\ \A k \in 0 .. Len(Tags[f]) : TickOf(f, k) \in Nat /\ End(f, k) \in Nat
      /\ \A k \in 0 .. Len(Tags[f]) : Recorded(f, k) = tickF[f] + TickOf(f, k)
      /\ \A k \in 0 .. Len(Tags[f]) : Given(f, k) \in Nat /\ Given(f, k) <= Length[f]
      /\ Length[f] \in Nat
  <2>1. /\ Len(Tags[f]) \in Nat /\ \A k \in 0 .. Len(Tags[f]) : TickOf(f, k) \in Nat /\ End(f, k) \in Nat
        /\ Length[f] \in Nat
    BY <1>1, TagsInOrder
  <2>2. \A k \in 0 .. Len(Tags[f]) : Given(f, k) \in Nat /\ Given(f, k) <= Length[f]
    BY <1>1, <2>1, GivenIs
  <2>. QED  BY <1>1, <2>1, <2>2 DEF Recorded
<1>7. /\ s.tag \in tag[f] .. Len(Tags[f]) /\ s.fpos \in Nat
      /\ \A k \in tag[f] .. Len(Tags[f]) : k < s.tag => TickOf(f, k) <= t
      /\ \A k \in 0 .. Len(Tags[f]) : End(f, k) < s.fpos => k < tag[f] \/ TickOf(f, k) <= t
      /\ \A k \in 0 .. Len(Tags[f]) : TickOf(f, k) <= t => Given(f, k) <= s.fpos
  BY <1>0, <1>1, <1>4, SoughtIs
<1>22. there \in Nat /\ there <= s.fpos /\ (there = s.fpos \/ there = Length[f])
  <2>1. s.fpos \in Nat /\ Length[f] \in Nat
    BY <1>6, <1>7
  <2>2. there = IF s.fpos <= Length[f] THEN s.fpos ELSE Length[f]
    <3>. HIDE DEF f, s
    <3>. QED  BY <2>1, SmallerOfTwo
  <2>. HIDE DEF f, s, there
  <2>. QED  BY <2>1, <2>2
<1>8. nr \in Nat /\ (pos[f] + nr = pos[f] \/ pos[f] + nr <= there) /\ (nr < n => pos[f] + nr >= there)
  BY <1>1, <1>22, MovesOn
<1>9. cycle \in Nat /\ cycle <= clock /\ turn' \in Files /\ (turn' = 2 => t = Played(clock) /\ cycle = clock /\ ~Slave(f))
  BY <1>1, <1>2 DEF Slave, Files
<1>. HIDE DEF f, t, s, there, nr, cycle, off
<1>10. ReplayTypes'
  <2>0. /\ s.tag \in Nat /\ s.tag <= Len(Tags[f]) /\ s.fpos \in Nat /\ pos[f] + nr \in Nat
        /\ (IF nr < n THEN cycle ELSE upto[f]) \in Int
    <3>1. s.tag \in Nat /\ s.tag <= Len(Tags[f]) /\ s.fpos \in Nat
      BY <1>1, <1>6, <1>7
    <3>2. upto[f] \in Int
      BY <1>0, <1>1 DEF ReplayTypes
    <3>. QED  BY <1>1, <1>8, <1>9, <3>1, <3>2
  <2>1. tag' \in [Files -> Nat] /\ \A g \in Files : tag'[g] <= Len(Tags[g])
    BY <1>0, <1>1, <1>2, <2>0 DEF ReplayTypes
  <2>2. fposN' \in [Files -> Nat] /\ pos' \in [Files -> Nat] /\ upto' \in [Files -> Int]
    <3>1. fposN' \in [Files -> Nat] /\ pos' \in [Files -> Nat]
      BY <1>0, <1>2, <2>0 DEF ReplayTypes
    <3>2. upto' \in [Files -> Int]
      BY <1>0, <1>2, <2>0 DEF ReplayTypes
    <3>. QED  BY <3>1, <3>2
  <2>3. tickMaster' \in Int
    BY <1>1, <1>2, <1>4
  <2>4. clock' \in Nat /\ began' \in 0 .. clock' /\ turn' \in Files
    BY <1>1, <1>2, <1>9
  <2>5. /\ tickF' \in [Files -> Nat] /\ start' \in Nat /\ speed' \in Nat /\ sync' \in BOOLEAN
    BY <1>0, <1>2 DEF ReplayTypes
  <2>. QED  BY <2>1, <2>2, <2>3, <2>4, <2>5 DEF ReplayTypes
<1>11. MasterSet'
  BY <1>1, <1>2, <1>9 DEF MasterSet, Played
<1>12. \A k \in 0 .. Len(Tags[f]) : TickOf(f, k) <= t => Recorded(f, k) <= TimeOfDay(f, clock)
  <2>. SUFFICES ASSUME NEW k \in 0 .. Len(Tags[f]), TickOf(f, k) <= t PROVE Recorded(f, k) <= TimeOfDay(f, clock)
    OBVIOUS
  <2>1. Recorded(f, k) = tickF[f] + TickOf(f, k) /\ TimeOfDay(f, clock) = Played(clock) + off /\ TickOf(f, k) \in Nat
    BY <1>5, <1>6
  <2>. QED  BY <1>1, <1>3, <1>4, <2>1
<1>13. \A k \in 0 .. Len(Tags[f]) : k < tag[f] => Recorded(f, k) <= TimeOfDay(f, clock)
  BY <1>0, <1>1 DEF TagsPassed
<1>14. /\ \A g \in Files, c \in Nat : TimeOfDay(g, c)' = TimeOfDay(g, c')
       /\ \A g \in Files, k \in Nat : Recorded(g, k)' = Recorded(g, k)
  BY <1>2 DEF TimeOfDay, Played, Recorded
<1>15. /\ tag'[f] = s.tag /\ pos'[f] = pos[f] + nr /\ upto'[f] = IF nr < n THEN cycle ELSE upto[f]
       /\ \A g \in Files : g # f => tag'[g] = tag[g] /\ pos'[g] = pos[g] /\ upto'[g] = upto[g]
  BY <1>0, <1>1, <1>2 DEF ReplayTypes
<1>16. ASSUME NEW g \in Files, NEW k \in 0 .. Len(Tags[g]), k < tag'[g]
       PROVE  Recorded(g, k) <= TimeOfDay(g, clock)
  <2>1. CASE g # f
    BY <1>0, <1>15, <1>16, <2>1 DEF TagsPassed
  <2>2. CASE g = f /\ k < tag[f]
    BY <1>13, <2>2
  <2>3. CASE g = f /\ ~(k < tag[f])
    <3>1. k \in tag[f] .. Len(Tags[f]) /\ k < s.tag
      BY <1>1, <1>6, <1>15, <1>16, <2>3
    <3>. QED  BY <1>7, <1>12, <2>3, <3>1
  <2>. QED  BY <2>1, <2>2, <2>3
<1>17. ASSUME NEW g \in Files, NEW k \in 0 .. Len(Tags[g]), pos'[g] > End(g, k)
       PROVE  Recorded(g, k) <= TimeOfDay(g, clock)
  <2>1. CASE g # f
    BY <1>0, <1>15, <1>17, <2>1 DEF NotEarly
  <2>2. CASE g = f /\ pos[f] > End(f, k)
    BY <1>0, <2>2 DEF NotEarly
  <2>3. CASE g = f /\ ~(pos[f] > End(f, k))
    <3>0. k \in 0 .. Len(Tags[f]) /\ End(f, k) \in Nat /\ pos[f] + nr > End(f, k)
      BY <1>6, <1>15, <1>17, <2>3
    <3>1. End(f, k) < s.fpos
      BY <1>1, <1>7, <1>8, <1>22, <2>3, <3>0
    <3>. QED  BY <1>7, <1>12, <1>13, <2>3, <3>1
  <2>. QED  BY <2>1, <2>2, <2>3
<1>18. ASSUME NEW g \in Files, NEW k \in 1 .. Len(Tags[g]),
              upto'[g] >= 0, Recorded(g, k) <= TimeOfDay(g, upto'[g])
       PROVE  pos'[g] >= Given(g, k)
  <2>1. CASE g # f
    BY <1>0, <1>15, <1>18, <2>1 DEF NotLate
  <2>2. CASE g = f /\ nr < n
    <3>1. k \in 0 .. Len(Tags[f])
      BY <1>6, <2>2
    <3>2. Recorded(f, k) = tickF[f] + TickOf(f, k) /\ TickOf(f, k) \in Nat /\ End(f, k) \in Nat
      BY <1>6, <3>1
    <3>3. Recorded(f, k) <= Played(cycle) + off
      BY <1>5, <1>15, <1>18, <2>2
    <3>4. Played(cycle) \in Nat
      BY <1>0, <1>9, PlaysOn
    <3>5. TickOf(f, k) <= t
      BY <1>1, <1>4, <3>2, <3>3, <3>4
    <3>6. Given(f, k) <= s.fpos /\ Given(f, k) <= Length[f] /\ Given(f, k) \in Nat /\ Length[f] \in Nat
      BY <1>6, <1>7, <3>1, <3>5
    <3>7. Given(f, k) <= there
      BY <1>22, <3>6
    <3>8. pos'[g] >= there /\ pos'[g] \in Nat
      BY <1>1, <1>8, <1>15, <2>2
    <3>. QED  BY <1>22, <2>2, <3>6, <3>7, <3>8
  <2>3. CASE g = f /\ ~(nr < n)
    <3>1. pos[f] >= Given(f, k)
      BY <1>0, <1>15, <1>18, <2>3 DEF NotLate
    <3>2. k \in 0 .. Len(Tags[f]) /\ pos'[g] = pos[f] + nr
      BY <1>6, <1>15, <2>3
    <3>3. Given(f, k) \in Nat
      BY <1>6, <3>2
    <3>. QED  BY <1>1, <1>8, <2>3, <3>1, <3>2, <3>3
  <2>. QED  BY <2>1, <2>2, <2>3
<1>19. TagsPassed'
  BY <1>2, <1>16 DEF TagsPassed, Recorded, TimeOfDay, Played
<1>20. NotEarly'
  BY <1>2, <1>17 DEF NotEarly, Recorded, TimeOfDay, Played
<1>21. NotLate'
  BY <1>2, <1>18 DEF NotLate, Recorded, TimeOfDay, Played, Given
<1>. QED  BY <1>10, <1>11, <1>19, <1>20, <1>21 DEF ReplayStrong, InTime

\* What was recorded after a record comes only when the time of that record is reached, and
\* nothing that was asked for and that the data file has comes later than it was due, for any
\* recordings: two tags at one place, a data file that is shorter or longer than its tags.
THEOREM InTimeHolds == ReplaySpec => []InTime
<1>1. ReplayStrong /\ [ReplayNext]_replayVars => ReplayStrong'
  <2>. SUFFICES ASSUME ReplayStrong, [ReplayNext]_replayVars PROVE ReplayStrong'
    OBVIOUS
  <2>1. CASE UNCHANGED replayVars
    BY <2>1 DEF replayVars, ReplayStrong, ReplayTypes, MasterSet, TagsPassed, InTime, NotEarly, NotLate,
       Recorded, TimeOfDay, Played
  <2>. QED  BY <2>1, TickStrong, ReadStrong DEF ReplayNext
<1>2. ReplayStrong => InTime
  BY DEF ReplayStrong
<1>. QED  BY <1>1, <1>2, ReplayStrongInit, PTL DEF ReplaySpec

-----------------------------------------------------------------------------
(* The swap of files: any interval, names and margin.                       *)

SwapSpec == SwapInit /\ [][SwapNext]_swapVars

\* A name covers whole intervals, and two borders with their margins are further apart than two
\* records.
SwapsFit == NameSpan % Interval = 0 /\ MaxGap + 2 * Margin < Interval

\* The period of the newest and of the oldest file that take the last record.
Newest == Name(called + Margin)
Oldest == Name(called - Margin)

\* Which files are open after writefile was called; wtime lags behind it while there is no file
\* to write to.
FilesOpen ==
    /\ file.openpath = Newest /\ file.fp \in {Newest, NoFile}
    /\ file.tmp \in {Oldest, NoFile} /\ (Newest = Oldest => file.tmp = NoFile)
    /\ file.tmp # NoFile => Oldest >= 0
    /\ IF file.fp = NoFile
       THEN Newest \in unopened /\ file.wtime <= called /\ Name(file.wtime + Margin) < Newest
       ELSE file.wtime = called /\ (file.tmp = NoFile => Oldest \in unopened \cup {-1, Newest})

SwapStrong ==
    /\ now \in 0 .. MaxTime /\ called \in 0 .. now /\ now - called <= MaxGap
    /\ file \in [wtime : Int \cup {NoFile}, fp : Int \cup {NoFile}, tmp : Int \cup {NoFile}, openpath : Int]
    /\ IF file.wtime = NoFile
       THEN called = 0 /\ file = [wtime |-> NoFile, fp |-> Name(0), tmp |-> NoFile, openpath |-> Name(0)]
       ELSE FilesOpen
    /\ into # {} => now = called /\ file.wtime = now /\ into = {file.fp, file.tmp} \ {NoFile}

-----------------------------------------------------------------------------
(* Division into periods.                                                   *)

\* The quotient and the remainder.
LEMMA Divided ==
  ASSUME NEW m \in Nat, m > 0, NEW a \in Int
  PROVE  /\ a \div m \in Int /\ a % m \in 0 .. m - 1
         /\ a = m * (a \div m) + (a % m)
<1>1. a % m = a - m * (a \div m)
  OBVIOUS
<1>2. a \div m \in Int
  OBVIOUS
<1>3. a % m \in 0 .. m - 1
  OBVIOUS
<1>4. m * (a \div m) \in Int
  BY <1>2
<1>. QED  BY <1>1, <1>2, <1>3, <1>4

\* Period n has begun by time a when its number is at most that of a.
LEMMA PeriodBegun ==
  ASSUME NEW m \in Nat, m > 0, NEW a \in Int, NEW n \in Int
  PROVE  n * m <= a <=> n <= a \div m
<1>. DEFINE q == a \div m
            r == a % m
<1>1. q \in Int /\ r \in 0 .. m - 1 /\ a = m * q + r
  BY Divided
<1>. HIDE DEF q, r
<1>2. ASSUME n <= q PROVE n * m <= a
  <2>1. PICK d \in Nat : q = n + d
    BY <1>1, <1>2
  <2>2. m * q = n * m + d * m /\ d * m \in Nat /\ n * m \in Int
    BY <2>1
  <2>. QED  BY <1>1, <2>2
<1>3. ASSUME n > q PROVE n * m > a
  <2>1. PICK d \in Nat : n = q + 1 + d
    <3>1. n - q - 1 \in Nat /\ n = q + 1 + (n - q - 1)
      BY <1>1, <1>3
    <3>. QED  BY <3>1
  <2>2. n * m = m * q + m + d * m /\ d * m \in Nat /\ m * q \in Int
    BY <1>1, <2>1
  <2>. QED  BY <1>1, <2>2
<1>4. n * m \in Int
  OBVIOUS
<1>. QED  BY <1>1, <1>2, <1>3, <1>4 DEF q

\* Later times have later periods, and the next one within the length of a period.
LEMMA PeriodsGoOn ==
  ASSUME NEW m \in Nat, m > 0, NEW a \in Int, NEW b \in Int, a <= b
  PROVE  /\ a \div m \in Int /\ b \div m \in Int /\ a \div m <= b \div m
         /\ b <= a + m => b \div m <= (a \div m) + 1
<1>1. a \div m \in Int /\ b \div m \in Int
  BY Divided
<1>. DEFINE p == a \div m
            q == b \div m
<1>2. p * m <= a
  BY <1>1, PeriodBegun
<1>3. p <= q
  <2>1. p * m <= b
    BY <1>1, <1>2
  <2>. QED  BY <1>1, <2>1, PeriodBegun
<1>4. ASSUME b <= a + m PROVE q <= p + 1
  <2>1. q * m <= b
    BY <1>1, PeriodBegun
  <2>2. (q - 1) * m = q * m - m /\ q * m \in Int
    BY <1>1
  <2>3. (q - 1) * m <= a /\ q - 1 \in Int
    BY <1>1, <1>4, <2>1, <2>2
  <2>4. q - 1 <= p
    BY <2>3, PeriodBegun
  <2>. QED  BY <1>1, <2>4
<1>. QED  BY <1>1, <1>3, <1>4

\* A border of names is a border of intervals.
LEMMA NameBorder ==
  ASSUME SwapsFit, NEW a \in Int, NEW b \in Int, Name(a) < Name(b)
  PROVE  Crosses(a, b)
<1>0. NameSpan \in Nat /\ NameSpan > 0 /\ Interval \in Nat /\ Interval > 0
  BY FileSwapAssumption
<1>. DEFINE k == NameSpan \div Interval
            p == b \div NameSpan
<1>1. k \in Int /\ NameSpan = Interval * k
  BY <1>0, Divided DEF SwapsFit
<1>2. p \in Int /\ a \div NameSpan \in Int /\ a \div Interval \in Int /\ b \div Interval \in Int
  BY <1>0, Divided
<1>3. p * NameSpan <= b /\ ~(p * NameSpan <= a)
  BY <1>0, <1>2, PeriodBegun DEF Name
<1>. HIDE DEF k, p
<1>4. p * NameSpan = (p * k) * Interval /\ p * k \in Int
  BY <1>0, <1>1, <1>2
<1>5. p * k <= b \div Interval /\ ~(p * k <= a \div Interval)
  BY <1>0, <1>3, <1>4, PeriodBegun
<1>. QED  BY <1>2, <1>4, <1>5 DEF Crosses

\* A name lasts an interval or more.
LEMMA IntervalFits ==
  ASSUME SwapsFit
  PROVE  Interval <= NameSpan
<1>0. NameSpan \in Nat /\ NameSpan > 0 /\ Interval \in Nat /\ Interval > 0
  BY FileSwapAssumption
<1>. DEFINE k == NameSpan \div Interval
<1>1. k \in Int /\ NameSpan = Interval * k
  BY <1>0, Divided DEF SwapsFit
<1>. HIDE DEF k
<1>2. k >= 1
  BY <1>0, <1>1
<1>. QED  BY <1>0, <1>1, <1>2

\* Two calls: what lies between them, and the margins of the second.
LEMMA TwoCalls ==
  ASSUME SwapsFit, NEW c \in Nat, NEW d \in Nat, c <= d, d - c <= MaxGap
  PROVE  /\ Name(c + Margin) \in Int /\ Name(c - Margin) \in Int /\ Name(d + Margin) \in Int /\ Name(d - Margin) \in Int
         /\ Name(c - Margin) <= Name(c + Margin) /\ Name(d - Margin) <= Name(d + Margin)
         /\ Name(d + Margin) <= Name(c - Margin) + 1
         /\ Name(c + Margin) <= Name(d + Margin) /\ Name(c - Margin) <= Name(d - Margin)
         /\ Name(d - Margin) < Name(d + Margin)
               => ~Crosses(c - Margin, d - Margin) /\ Name(c - Margin) = Name(d - Margin)
<1>0. /\ NameSpan \in Nat /\ NameSpan > 0 /\ Interval \in Nat /\ Interval > 0 /\ Margin \in Nat /\ MaxGap \in Nat
      /\ MaxGap + 2 * Margin < Interval
  BY FileSwapAssumption DEF SwapsFit
<1>1. Interval <= NameSpan
  BY IntervalFits
<1>. DEFINE u == c - Margin
            v == d - Margin
            x == c + Margin
            y == d + Margin
<1>2. u \in Int /\ v \in Int /\ x \in Int /\ y \in Int /\ u <= v /\ v <= y /\ u <= x /\ x <= y /\ y <= u + Interval
      /\ u <= y /\ y <= u + NameSpan
  BY <1>0, <1>1
<1>. HIDE DEF u, v, x, y
<1>3. /\ Name(u) \in Int /\ Name(v) \in Int /\ Name(x) \in Int /\ Name(y) \in Int
      /\ Name(u) <= Name(v) /\ Name(v) <= Name(y) /\ Name(u) <= Name(x) /\ Name(x) <= Name(y)
      /\ Name(y) <= Name(u) + 1
  BY <1>0, <1>2, PeriodsGoOn DEF Name
<1>4. ASSUME Name(v) < Name(y)
      PROVE  ~Crosses(u, v) /\ Name(u) = Name(v)
  <2>1. /\ u \div Interval \in Int /\ v \div Interval \in Int /\ y \div Interval \in Int
        /\ y \div Interval <= (u \div Interval) + 1
    BY <1>0, <1>2, PeriodsGoOn
  <2>2. v \div Interval < y \div Interval
    BY <1>2, <1>4, NameBorder DEF Crosses
  <2>3. ~Crosses(u, v)
    BY <2>1, <2>2 DEF Crosses
  <2>4. ~(Name(u) < Name(v))
    BY <1>2, <2>3, NameBorder
  <2>. QED  BY <1>3, <2>3, <2>4
<1>. QED  BY <1>3, <1>4 DEF u, v, x, y

-----------------------------------------------------------------------------
(* The files that are open.                                                 *)

\* What is assumed of the constants, one by one.
LEMMA SwapFacts ==
  /\ NameSpan \in Nat /\ NameSpan > 0 /\ Interval \in Nat /\ Interval > 0 /\ Margin \in Nat
  /\ MaxGap \in Nat /\ MaxTime \in Nat /\ NoFile \notin Int
BY FileSwapAssumption

\* Names are numbers, those of times since the start no negative ones.
LEMMA NameIsInt ==
  ASSUME NEW t \in Int
  PROVE  Name(t) \in Int /\ (t >= 0 => Name(t) >= 0)
<1>1. Name(t) \in Int
  BY SwapFacts, Divided DEF Name
<1>2. ASSUME t >= 0 PROVE Name(t) >= 0
  <2>1. 0 * NameSpan <= t => 0 <= t \div NameSpan
    BY SwapFacts, PeriodBegun
  <2>. QED  BY <1>1, <1>2, <2>1, SwapFacts DEF Name
<1>. QED  BY <1>1, <1>2

\* No record was written yet.
LEMMA SwapStrongInit == SwapInit => SwapStrong
<1>1. Name(0) \in Int
  BY NameIsInt
<1>. QED  BY <1>1, SwapFacts DEF SwapInit, SwapStrong

\* A call of writefile, from the files that were open at c to those at d.
Stays(ok) == /\ file' = [Swapped(file, ok) EXCEPT !.wtime = IF Swapped(file, ok).fp = NoFile THEN @ ELSE now]
             /\ unopened' = IF ok THEN unopened ELSE unopened \cup {Swapped(file, ok).openpath}

\* The first record goes to the file that openfile opened.
LEMMA FirstCall ==
  ASSUME SwapsFit, SwapStrong, NEW ok \in BOOLEAN, Stays(ok), called' = now, now' = now,
         Swapped(file, ok).openpath # file.openpath \/ ok, file.wtime = NoFile
  PROVE  file'.wtime = now /\ FilesOpen'
<1>1. called = 0 /\ now \in Nat /\ now <= MaxGap
  BY SwapFacts DEF SwapStrong
<1>2. file = [wtime |-> NoFile, fp |-> Name(0), tmp |-> NoFile, openpath |-> Name(0)]
  BY DEF SwapStrong
<1>3. Swapped(file, ok) = file
  BY <1>2 DEF Swapped
<1>4. Name(0) \in Int /\ Name(0) # NoFile
  BY NameIsInt, SwapFacts
<1>5. file' = [wtime |-> now, fp |-> Name(0), tmp |-> NoFile, openpath |-> Name(0)]
  BY <1>2, <1>3, <1>4 DEF Stays
<1>. DEFINE A == Name(now + Margin)
            B == Name(now - Margin)
<1>6. A \in Int /\ B \in Int /\ B <= A /\ A = Name(0) /\ B \in {-1, A}
  <2>1. now + Margin \in Int /\ now - Margin \in Int
    BY <1>1, SwapFacts
  <2>2. A \in Int /\ B \in Int /\ A >= 0 /\ Name(0) >= 0
    BY <1>1, <2>1, NameIsInt, SwapFacts
  <2>3. Interval <= NameSpan
    BY IntervalFits
  <2>4. (1 * NameSpan <= now + Margin <=> 1 <= A) /\ (1 * NameSpan <= 0 <=> 1 <= Name(0))
        /\ ((-1) * NameSpan <= now - Margin <=> -1 <= B)
    BY <2>1, SwapFacts, PeriodBegun DEF Name
  <2>5. A = 0 /\ Name(0) = 0 /\ B >= -1
    BY <1>1, <1>4, <2>2, <2>3, <2>4, SwapFacts DEF SwapsFit
  <2>6. B <= A
    BY <1>1, TwoCalls
  <2>. QED  BY <2>2, <2>5, <2>6
<1>. QED  BY <1>4, <1>5, <1>6 DEF FilesOpen, Newest, Oldest

\* What a later call finds: the file of the newest period, or none.
LEMMA LaterCall ==
  ASSUME SwapsFit, SwapStrong, NEW ok \in BOOLEAN, Stays(ok), called' = now, now' = now,
         Swapped(file, ok).openpath # file.openpath \/ ok, file.wtime # NoFile
  PROVE  file'.wtime \in Int /\ FilesOpen'
<1>1. FilesOpen /\ called \in Nat /\ now \in Nat /\ called <= now /\ now - called <= MaxGap /\ file.wtime \in Int
      /\ file \in [wtime : Int \cup {NoFile}, fp : Int \cup {NoFile}, tmp : Int \cup {NoFile}, openpath : Int]
  BY SwapFacts DEF SwapStrong
<1>. DEFINE A == Newest
            B == Oldest
            A2 == Name(now + Margin)
            B2 == Name(now - Margin)
            w == file.wtime
            closes == Crosses(w - Margin, now - Margin)
<1>2. /\ A \in Int /\ B \in Int /\ A2 \in Int /\ B2 \in Int
      /\ B <= A /\ B2 <= A2 /\ A2 <= B + 1 /\ A <= A2 /\ B <= B2
      /\ B2 < A2 => ~Crosses(called - Margin, now - Margin) /\ B = B2
  BY <1>1, TwoCalls DEF Newest, Oldest
<1>3. A >= 0 /\ NoFile \notin Int
  BY <1>1, SwapFacts, NameIsInt DEF Newest
<1>4. closes \in BOOLEAN /\ Swapped(file, ok).fp \in Int \cup {NoFile}
  <2>1. Name(now + Margin) \in Int
    BY <1>2
  <2>. QED  BY <1>1, <2>1 DEF Swapped, SwapFile, SwapClose, Crosses
<1>5. w + Margin \in Int /\ w - Margin \in Int /\ called - Margin \in Int /\ now - Margin \in Int /\ now + Margin \in Int
      /\ called + Margin \in Int
  BY <1>1, SwapFacts
<1>6. /\ B < B2 => Crosses(called - Margin, now - Margin)
      /\ A < A2 => Crosses(called + Margin, now + Margin)
      /\ Name(w + Margin) < A2 => Crosses(w + Margin, now + Margin)
  BY <1>5, NameBorder DEF Newest, Oldest
<1>7. Newest' = A2 /\ Oldest' = B2
  BY DEF Newest, Oldest
<1>8. CASE file.fp = NoFile
  <2>1. A \in unopened /\ w <= called /\ Name(w + Margin) < A /\ Name(w + Margin) \in Int
    BY <1>1, <1>5, <1>8, NameIsInt DEF FilesOpen
  <2>2. Crosses(w + Margin, now + Margin)
    BY <1>2, <1>6, <2>1
  <2>3. Name(w - Margin) \in Int /\ Name(w - Margin) <= B
    <3>1. w - Margin <= called - Margin
      BY <1>1, <2>1, SwapFacts
    <3>. QED  BY <1>5, <3>1, PeriodsGoOn, SwapFacts DEF Name, Oldest
  <2>4. B < B2 => closes
    BY <1>2, <1>5, <2>3, NameBorder DEF Oldest
  <2>5. CASE file.tmp # NoFile \/ A2 = A
    <3>1. A2 = A
      BY <1>1, <1>2, <2>5 DEF FilesOpen
    <3>2. Swapped(file, ok) = IF closes THEN [file EXCEPT !.tmp = NoFile] ELSE file
      BY <1>1, <2>2, <2>5, <3>1 DEF Swapped, SwapFile, SwapClose, FilesOpen
    <3>3. file' = IF closes THEN [file EXCEPT !.tmp = NoFile] ELSE file
      BY <1>1, <1>8, <3>2 DEF Stays
    <3>4. ok /\ unopened' = unopened
      BY <1>1, <3>2 DEF Stays
    <3>5. file'.tmp # NoFile => file'.tmp = B /\ B = B2 /\ B # A /\ B >= 0
      BY <1>1, <1>2, <2>4, <3>3 DEF FilesOpen
    <3>6. file'.openpath = A2 /\ file'.fp = NoFile /\ file'.wtime = w
      BY <1>1, <1>8, <3>1, <3>3 DEF FilesOpen
    <3>. QED  BY <1>1, <1>2, <1>7, <2>1, <3>1, <3>4, <3>5, <3>6 DEF FilesOpen
  <2>6. CASE file.tmp = NoFile /\ A2 # A
    <3>1. B = A /\ A < A2 /\ B2 \in {A, A2}
      BY <1>2, <2>6
    <3>2. Swapped(file, ok) = [file EXCEPT !.tmp = NoFile, !.openpath = A2, !.fp = IF ok THEN A2 ELSE NoFile]
      BY <1>1, <1>8, <2>2, <2>6 DEF Swapped, SwapFile, SwapClose, FilesOpen
    <3>3. file'.tmp = NoFile /\ file'.openpath = A2 /\ file'.fp = (IF ok THEN A2 ELSE NoFile)
          /\ file'.wtime = (IF ok THEN now ELSE w) /\ unopened' = IF ok THEN unopened ELSE unopened \cup {A2}
      BY <1>1, <1>2, <1>3, <3>2 DEF Stays
    <3>4. CASE ok
      BY <1>1, <1>2, <1>3, <1>7, <2>1, <3>1, <3>3, <3>4 DEF FilesOpen
    <3>5. CASE ~ok
      <4>1. file'.fp = NoFile /\ file'.wtime = w /\ A2 \in unopened'
        BY <3>3, <3>5
      <4>. QED  BY <1>1, <1>2, <1>3, <1>7, <2>1, <3>1, <3>3, <4>1 DEF FilesOpen
    <3>. QED  BY <3>4, <3>5
  <2>. QED  BY <2>5, <2>6
<1>9. CASE file.fp # NoFile
  <2>1. file.fp = A /\ w = called /\ (file.tmp = NoFile => B \in unopened \cup {-1, A})
    BY <1>1, <1>9 DEF FilesOpen
  <2>2. closes = Crosses(called - Margin, now - Margin)
    BY <2>1
  <2>3. CASE A2 = A
    <3>1. Swapped(file, ok) = IF closes THEN [file EXCEPT !.tmp = NoFile] ELSE file
      BY <1>1, <2>3 DEF Swapped, SwapFile, SwapClose, FilesOpen
    <3>2. file'.fp = A /\ file'.wtime = now /\ file'.openpath = A /\ file'.tmp = (IF closes THEN NoFile ELSE file.tmp)
      BY <1>1, <1>9, <2>1, <3>1 DEF Stays, FilesOpen
    <3>3. ok /\ unopened' = unopened
      BY <1>1, <3>1 DEF Stays
    <3>4. CASE closes
      BY <1>1, <1>2, <1>3, <1>7, <2>2, <2>3, <3>2, <3>3, <3>4 DEF FilesOpen
    <3>5. CASE ~closes
      <4>1. B = B2
        BY <1>2, <1>6, <2>2, <3>5
      <4>. QED  BY <1>1, <1>2, <1>3, <1>7, <2>1, <2>3, <3>2, <3>3, <3>5, <4>1 DEF FilesOpen
    <3>. QED  BY <3>4, <3>5
  <2>4. CASE A2 # A
    <3>1. B = A /\ A < A2 /\ B2 \in {A, A2} /\ file.tmp = NoFile
      BY <1>1, <1>2, <2>4 DEF FilesOpen
    <3>2. Crosses(w + Margin, now + Margin)
      BY <1>6, <2>1, <3>1
    <3>3. Swapped(file, ok) = [file EXCEPT !.tmp = IF closes THEN NoFile ELSE A, !.openpath = A2, !.fp = IF ok THEN A2 ELSE NoFile]
      BY <1>1, <2>1, <2>4, <3>1, <3>2 DEF Swapped, SwapFile, SwapClose, FilesOpen
    <3>4. file'.tmp = (IF closes THEN NoFile ELSE A) /\ file'.openpath = A2 /\ file'.fp = (IF ok THEN A2 ELSE NoFile)
          /\ file'.wtime = (IF ok THEN now ELSE w) /\ unopened' = IF ok THEN unopened ELSE unopened \cup {A2}
      BY <1>1, <1>2, <1>3, <3>3 DEF Stays
    <3>5. closes <=> B2 = A2
      BY <1>2, <1>6, <2>2, <3>1
    <3>6. CASE ok
      BY <1>1, <1>2, <1>3, <1>7, <2>1, <3>1, <3>4, <3>5, <3>6 DEF FilesOpen
    <3>7. CASE ~ok
      <4>1. file'.fp = NoFile /\ file'.wtime = w /\ A2 \in unopened' /\ Name(w + Margin) = A
        BY <2>1, <3>4, <3>7 DEF Newest
      <4>. QED  BY <1>1, <1>2, <1>3, <1>7, <2>1, <3>1, <3>4, <3>5, <4>1 DEF FilesOpen
    <3>. QED  BY <3>6, <3>7
  <2>. QED  BY <2>3, <2>4
<1>. QED  BY <1>8, <1>9

\* Calls and silences keep the files that should be open open.
LEMMA SwapStrongStep == ASSUME SwapsFit, SwapStrong, [SwapNext]_swapVars PROVE SwapStrong'
<1>1. CASE WriteFile
  <2>1. PICK ok \in BOOLEAN :
           /\ Swapped(file, ok).openpath # file.openpath \/ ok
           /\ unopened' = IF ok THEN unopened ELSE unopened \cup {Swapped(file, ok).openpath}
           /\ IF Swapped(file, ok).fp = NoFile
              THEN file' = Swapped(file, ok) /\ into' = {}
              ELSE /\ file' = [Swapped(file, ok) EXCEPT !.wtime = now]
                   /\ into' = {Swapped(file, ok).fp, Swapped(file, ok).tmp} \ {NoFile}
           /\ called' = now /\ now' = now
    BY <1>1, Zenon DEF WriteFile
  <2>2. now \in 0 .. MaxTime /\ now \in Nat
        /\ file \in [wtime : Int \cup {NoFile}, fp : Int \cup {NoFile}, tmp : Int \cup {NoFile}, openpath : Int]
    BY SwapFacts DEF SwapStrong
  <2>3. Name(now + Margin) \in Int
    BY <2>2, SwapFacts, NameIsInt
  <2>4. Swapped(file, ok) \in [wtime : Int \cup {NoFile}, fp : Int \cup {NoFile}, tmp : Int \cup {NoFile}, openpath : Int]
    BY <2>2, <2>3 DEF Swapped, SwapFile, SwapClose
  <2>. DEFINE g == Swapped(file, ok)
  <2>. HIDE DEF g
  <2>5. g \in [wtime : Int \cup {NoFile}, fp : Int \cup {NoFile}, tmp : Int \cup {NoFile}, openpath : Int]
    BY <2>4 DEF g
  <2>6. IF g.fp = NoFile THEN file' = g /\ into' = {}
        ELSE file' = [g EXCEPT !.wtime = now] /\ into' = {g.fp, g.tmp} \ {NoFile}
    BY <2>1, Zenon DEF g
  <2>7. file' = [g EXCEPT !.wtime = IF g.fp = NoFile THEN @ ELSE now]
    BY <2>5, <2>6
  <2>8. Stays(ok)
    BY <2>1, <2>7, Zenon DEF Stays, g
  <2>9. file'.wtime \in Int /\ FilesOpen'
    <3>1. CASE file.wtime = NoFile
      BY <2>1, <2>2, <2>8, <3>1, FirstCall
    <3>2. CASE file.wtime # NoFile
      BY <2>1, <2>8, <3>2, LaterCall
    <3>. QED  BY <3>1, <3>2
  <2>10. file' \in [wtime : Int \cup {NoFile}, fp : Int \cup {NoFile}, tmp : Int \cup {NoFile}, openpath : Int]
    BY <2>2, <2>5, <2>7
  <2>11. into' # {} => file'.wtime = now /\ into' = {file'.fp, file'.tmp} \ {NoFile}
    BY <2>5, <2>6
  <2>12. now' = now /\ called' = now /\ now - now <= MaxGap /\ now \in 0 .. now
    BY <2>1, <2>2, SwapFacts
  <2>. QED  BY <2>2, <2>9, <2>10, <2>11, <2>12, SwapFacts DEF SwapStrong
<1>2. CASE Wait
  <2>1. now < MaxTime /\ now - called < MaxGap /\ now' = now + 1 /\ into' = {} /\ file' = file /\ called' = called
        /\ unopened' = unopened
    BY <1>2 DEF Wait
  <2>2. FilesOpen' = FilesOpen
    BY <2>1 DEF FilesOpen, Newest, Oldest
  <2>. QED  BY <2>1, <2>2, SwapFacts DEF SwapStrong
<1>3. CASE UNCHANGED swapVars
  BY <1>3 DEF swapVars, SwapStrong, FilesOpen, Newest, Oldest
<1>. QED  BY <1>1, <1>2, <1>3 DEF SwapNext

\* The files that are open are those that should have the record.
LEMMA RightFilesAreOpen == ASSUME SwapsFit, SwapStrong PROVE RightFiles
<1>. SUFFICES ASSUME into # {}
              PROVE  into \subseteq Expected /\ (Expected \cap unopened = {} => into = Expected)
  BY DEF RightFiles
<1>1. /\ now = called /\ file.wtime = now /\ into = {file.fp, file.tmp} \ {NoFile} /\ now \in Nat /\ now <= MaxTime
      /\ file.wtime # NoFile /\ FilesOpen
  BY SwapFacts DEF SwapStrong
<1>. DEFINE A == Newest
            B == Oldest
<1>2. A \in Int /\ B \in Int /\ B <= A /\ A <= B + 1 /\ A >= 0
  <2>1. A \in Int /\ B \in Int /\ B <= A /\ A <= B + 1
    BY <1>1, TwoCalls, SwapFacts DEF Newest, Oldest
  <2>2. now + Margin \in Int /\ now + Margin >= 0
    BY <1>1, SwapFacts
  <2>3. A >= 0
    BY <1>1, <2>2, NameIsInt DEF Newest
  <2>. QED  BY <2>1, <2>3
<1>3. Expected = {n \in {A, B} : n >= 0}
  <2>. DEFINE last == Name(MaxTime + Margin)
  <2>1. last \in Int /\ A <= last
    <3>1. now + Margin \in Int /\ MaxTime + Margin \in Int /\ now + Margin <= MaxTime + Margin
      BY <1>1, SwapFacts
    <3>. QED  BY <1>1, <3>1, SwapFacts, PeriodsGoOn DEF Name, Newest
  <2>2. ASSUME NEW n \in Int
        PROVE  n * NameSpan - Margin <= now /\ now < (n + 1) * NameSpan + Margin <=> B <= n /\ n <= A
    <3>1. now + Margin \in Int /\ now - Margin \in Int /\ n + 1 \in Int
      BY <1>1, SwapFacts
    <3>2. n * NameSpan <= now + Margin <=> n <= A
      BY <1>1, <3>1, SwapFacts, PeriodBegun DEF Name, Newest
    <3>3. (n + 1) * NameSpan <= now - Margin <=> n + 1 <= B
      BY <1>1, <3>1, SwapFacts, PeriodBegun DEF Name, Oldest
    <3>4. n * NameSpan \in Int /\ (n + 1) * NameSpan \in Int
      BY SwapFacts
    <3>. HIDE DEF A, B
    <3>5. now < (n + 1) * NameSpan + Margin <=> ~(n + 1 <= B)
      BY <1>1, <3>3, <3>4, SwapFacts
    <3>6. n * NameSpan - Margin <= now <=> n <= A
      BY <1>1, <3>2, <3>4, SwapFacts
    <3>. QED  BY <1>2, <3>5, <3>6
  <2>. HIDE DEF A, B, last
  <2>3. Expected = {n \in 0 .. last : n * NameSpan - Margin <= now /\ now < (n + 1) * NameSpan + Margin}
    BY DEF Expected, last
  <2>4. Expected = {n \in 0 .. last : B <= n /\ n <= A}
    BY <2>2, <2>3
  <2>. QED  BY <1>2, <2>1, <2>4
<1>4. file.fp = A
  <2>1. CASE file.fp = NoFile
    <3>1. Name(file.wtime + Margin) < A
      BY <1>1, <2>1 DEF FilesOpen
    <3>. QED  BY <1>1, <1>2, <3>1 DEF Newest
  <2>. QED  BY <1>1, <2>1 DEF FilesOpen
<1>5. file.tmp \in {B, NoFile} /\ (file.tmp # NoFile => B >= 0 /\ B # A)
      /\ (file.tmp = NoFile => B \in unopened \cup {-1, A})
  BY <1>1, <1>2, <1>4, SwapFacts DEF FilesOpen
<1>. HIDE DEF A, B
<1>6. CASE file.tmp = NoFile
  <2>1. into = {A} /\ A \in Expected
    BY <1>1, <1>2, <1>3, <1>4, <1>6, SwapFacts
  <2>2. Expected \cap unopened = {} => Expected = {A}
    BY <1>2, <1>3, <1>5, <1>6
  <2>. QED  BY <2>1, <2>2
<1>7. CASE file.tmp # NoFile
  <2>1. into = {A, B}
    BY <1>1, <1>2, <1>4, <1>5, <1>7, SwapFacts
  <2>. QED  BY <1>2, <1>3, <1>5, <1>7, <2>1
<1>. QED  BY <1>6, <1>7

\* A record goes to the files of its time and to no other (writefile, swapfile), for any interval
\* and margin, when names change at a border of the interval and its margins do not overlap.
THEOREM RightFilesHolds == ASSUME SwapsFit PROVE SwapSpec => []RightFiles
<1>1. SwapInit => SwapStrong
  BY SwapStrongInit
<1>2. SwapStrong /\ [SwapNext]_swapVars => SwapStrong'
  BY SwapStrongStep
<1>3. SwapStrong => RightFiles
  BY RightFilesAreOpen
<1>. QED  BY <1>1, <1>2, <1>3, PTL DEF SwapSpec

-----------------------------------------------------------------------------
(* The streams together.                                                    *)

\* A behaviour of the streams is one of each of them: a step of one type is a stutter of the
\* others.
LEMMA EachStream ==
  StreamsSpec => StrSpec /\ TcpInit /\ [][TcpNext]_tcpVars /\ FtpSpec /\ ReplaySpec /\ SwapSpec
<1>1. StreamsInit => StrInit /\ TcpInit /\ FtpInit /\ ReplayInit /\ SwapInit
  BY DEF StreamsInit
<1>2. [StreamsNext]_streamVars =>
         [StrNext]_strVars /\ [TcpNext]_tcpVars /\ [FtpNext]_ftpVars /\ [ReplayNext]_replayVars /\ [SwapNext]_swapVars
  <2>1. CASE StreamsNext
    BY <2>1 DEF StreamsNext
  <2>2. CASE UNCHANGED streamVars
    BY <2>2 DEF streamVars
  <2>. QED  BY <2>1, <2>2
<1>. QED  BY <1>1, <1>2, PTL DEF StreamsSpec, StrSpec, FtpSpec, ReplaySpec, SwapSpec

\* A stream of any type, with whatever constants, keeps its descriptor, its port and its download
\* and plays and records in time: the invariants of mrtk_stream.c that the run checks.
THEOREM StreamsSafe ==
  StreamsSpec => [](PortInv /\ TcpInv /\ FtpInv /\ InTime) /\ AttemptsSpaced
BY EachStream, PortInvHolds, TcpInvHolds, FtpInvHolds, InTimeHolds, AttemptsSpacedHolds, PTL DEF TcpSpec
=============================================================================
