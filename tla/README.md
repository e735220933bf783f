# MRTKLIB: a TLA+ verification project

MRTKLIB is a C11 GNSS positioning library (RTKLIB restructured, with the
MADOCA-PPP, CLAS and Galileo HAS augmentations) and the applications built on
it: `rtkrcv` (real-time server, `mrtk run`), `str2str` (stream relay),
`rnx2rtkp` (`mrtk post`), `convbin`, `cssr2rtcm3` and small tools.  Most of its
lines are numerical (orbits, models, filters); its *control* is in the stream
layer, the two servers built on it, the console application and the
protocol decoders.  That control is what this project models, checks with TLC
and proves about with TLAPS.

## 1. Inventory

| Part | Source | State it keeps | Operations | Hard behaviour |
|---|---|---|---|---|
| RTK server | `src/stream/mrtk_rtksvr.c` | `state`, `thread`, `lock`, 8 streams, input/peek/solution buffers, `obs[][]`, `nav`, `rtk`, message counts | `rtksvrstart/stop/openstr/closestr/ostat/sstat/mark`, the server thread, `decoderaw`, `decodefile`, `update_*`, `writesol` | start/stop races, exit code against callers, a non-recursive lock, epochs dropped at `MAXOBSBUF`, corrections that arrive before the ephemeris they need |
| Stream server | `src/stream/mrtk_streamsvr.c` | `state`, `buff`, `pbuf`/`npb`, converters | `strsvrstart/stop/peek/stat`, thread, `strconv`, `periodic_cmd` | peek against the exit code, relay-back, cyclic ephemeris output |
| Streams | `src/stream/mrtk_stream.c` | per stream: type, mode, state, port, lock; per port its own state | `stropen/close/read/write/sync/stat`, `strsettimeout` | tests before the lock is taken, reconnects, time-outs, half-closed sockets, partial sends |
| - memory buffer | same, `membuf_t` | ring buffer `buf`, `rp`, `wp`, `state` | `readmembuf`, `writemembuf` | full/empty ambiguity, wrap-around |
| - TCP client, TCP server | same | socket state, `tcon`, `tdis`, `tact`; `MAXCLI` client slots and a listening socket | `wait*`, `read*`, `write*`, `discontcp`, `accsock`, `updatetcpsvr` | a refused connect, a silent peer; slots that are reused, slow clients, an accept that fails |
| - NTRIP client/server/caster | same, `ntrip_chunk.h` | `state`, `nb`, `v2_tried`, `ver_neg`, `chunked`, chunk decoder; the caster: `con[i]` beside each slot | `waitntrip`, `reqntrip_*`, `rspntrip_*`, `readntrip`, `writentrip`, `wait_ntripc`, `rsp_ntripc`, `readntripc`, `writentripc` | v1/v2 negotiation across reconnects, headers and chunks split over reads, requests in pieces, slots taken over between them |
| - file | same, `file_t` | `fp`, `fp_tmp`, tick/time tags, swap period, `fpos_n` | `openfile`, `swapfile`, `swapclose`, `readfile`, `writefile`, `syncfile` | two files open around a swap; two replayed files in step, a recording cut short |
| - FTP/HTTP download | same, `ftp_t` | `state` 0..3, `tnext`, thread | `openftp`, `readftp`, `ftpthread`, `closeftp` | the thread against close, a crash in the middle, an archive that does not unpack |
| Console application | `apps/rtkrcv/rtkrcv.c`, `vt.c` | consoles, `svr`, options, `intflg` | `accept_sock`, `con_thread`, commands, `startsvr`, `stopsvr`, `main` | several consoles on one server, console reaping, shutdown |
| RTCM 2/3 | `src/rtcm/` | message buffer, `nbyte/len`, epoch under assembly, lock times, SSR issue numbers | `input_rtcm3`, `decode_msm*`, `decode_ssr*`, `encode_msm*` | framing, epoch boundaries by the sync flag, lost messages, times that begin again |
| Receiver protocols | `src/data/rcv/`, `mrtk_rcvraw.c` | frame buffer per format, subframes | `input_raw`, `input_*` | resynchronisation, subframe assembly |
| Observations, navigation, RINEX | `src/data/` | `obs_t`, `nav_t` | `sortobs`, `uniqnav`, readers and writers | duplicates, time windows |
| Galileo HAS | `src/has/` | page sets per message, mask, corrections, Reed-Solomon | `has_input_page`, `has_decode`, `update_*` | pages in any order, message numbers used again, barred satellites |
| CLAS | `src/clas/` | L6 frames and lock per channel, CSSR state, correction banks per channel | `clas_route_l6frame`, `clas_input_cssr`, `clas_bank_get_close` | satellites interleaved and setting, observations older than the newest message, change of facility |
| MADOCA | `src/madoca/` | L6E/L6D frames, mask and corrections | `input_qzssl6e`, `decode_qzss_l6e` | mask changes (IOD), frame order |
| Positioning | `src/pos/` | `rtk_t`: states, covariances, `lock`/`outc`/`rejc`/`slip` per satellite and frequency | `rtkpos`, `relpos`, `udbias`, `ddres`, `ppp_rtk`, `pntpos`, `resamb_LAMBDA` | slips told, seen or neither; outages; processing backwards; hold/fix state |
| Post-processing | `src/pos/mrtk_postpos.c` | sorted observations, epoch indexes, two lists of solutions | `postpos`, `procpos`, `inputobs`, `nextobsf/b`, `combres` | forward and backward pass must see the same epochs; merging of lists with holes |
| Models, core, vendored | `src/models`, `src/core`, `src/tle`, `tomlc99` | tables, matrices | pure numeric functions | - |

### How the parts interact

* `rtkrcv` console threads and its main thread call `startsvr`/`stopsvr`, which
  call `rtksvrstart`/`rtksvrstop`; monitors and displays call
  `rtksvrsstat`, `rtksvrostat` and read the server under `svr->lock`.
* The RTK server thread reads three input streams and writes solution and log
  streams (`strread`, `strwrite`; each stream has its own lock), decodes with
  the RTCM and receiver decoders, and calls `rtkpos` once per rover epoch.
* The stream server thread does the same without positioning: it copies its
  input to the outputs, perhaps through `strconv`, and what outputs return back
  to the input.  `strsvrpeek` and `strsvrstat` are called from other threads.
* `strread`/`strwrite` drive the port of the stream; nobody else does.  A
  connection makes progress only when somebody reads or writes: there is no
  thread behind a TCP or NTRIP stream (there is one behind FTP/HTTP).
* An NTRIP client is a TCP client with a state of its own above it; the
  two states are not changed together.

### What makes each part correct

| Part | Correct means |
|---|---|
| RTK server, life cycle | one thread, buffers alive while it runs, every stream closed after a stop or a failed start, every call returns, no lock left behind |
| RTK server, data | epochs reach `rtkpos` in order, the missing ones are counted, no ephemeris is replaced by an older one, corrections in use belong together |
| Stream server | outputs and logs are the input in order, a peek from any thread shows a part of it in order, epochs written as RTCM end in exactly one cleared sync bit |
| Streams | a port is used only while it is open, as the type it was opened as, and no port is lost |
| Memory buffer | a queue, which reports what it drops |
| TCP client | no socket leaked or closed for somebody else, the reconnect interval and the inactivity time-out are kept, it connects again |
| TCP server, caster | data only for who is entitled, without holes, coded as announced; slot and `con` describe the same client; who sends is read (unless somebody in an earlier slot always sends), who leaves gives his slot back |
| NTRIP client | the payload and nothing else, in order; the right version for the caster; the end of a connection is noticed |
| Files | every record in the files of its time; a replay neither early nor late, two of them in step, to the end |
| Downloads | a thread never runs on freed memory, names are given to whole files, the next download comes |
| Consoles | slots come back, shutdown ends the program, the server is stopped before its memory goes |
| RTCM link | no mixture of epochs, the right time, every slip told |
| HAS, CLAS, SSR, SBAS | nothing is put together of two messages, issues, facilities or satellites; a channel finds another satellite; an alarm is obeyed, or the correction expires |
| Positioning | an old phase-bias stays in use only after a slip that nothing told the filter of |
| Post-processing | both passes give the filter the same whole epochs; the merge takes the lower status and loses only what it cannot smooth or one list has no end for |

## 2. Modules

| Module | Models | State and actions |
|---|---|---|
| `SvrLife` | what callers of an RTK server may rely on | `down`, `opening`, `up`, `closing`; the open streams |
| `RtkSvr` | `mrtk_rtksvr.c`, life cycle and locking | `pc[u]`: where caller `u` is in a call; `tpc[t]`: where server thread `t` is; `lock`, `state`, the streams' ports, the buffers. One action per section between two points where another thread can intervene |
| `RtkData` | `decoderaw`, `update_*` and the epoch loop of `rtksvrthread` | `phase` of the cycle, queued epochs per input, the two ephemeris sets per satellite, L6 bytes; one action per message type and per step of the loop |
| `SsrChain` | orbit, clock and high-rate clock of one satellite from RTCM SSR or HAS to `satpos_ssr` | the provider's issue, what is decoded, what the server has copied, the ephemerides |
| `HasPages` | `has_input_page` | the slots that collect pages, a message under way and left-over pages of the one before |
| `ClasRoute` | `clas_route_l6frame`, `clas_input_cssr` up to the decoder | lock and frames per channel; satellites that are heard, lost and set |
| `ClasBank` | `clas_bank_ctrl_t` and `clas_bank_get_close` | four rings of messages, networks served separately, facility; what came, as history |
| `Sbas` | masks, fast, long-term and mixed corrections, integrity, degradation and the ionospheric grid of `mrtk_sbas.c`, up to `satpos_sbas` and `sbsioncorr` | what each satellite sends and how it was changed since; for each place of the mask what it names and what it holds; one action per second and message |
| `PhaseBias` | the phase-biases of one satellite in `rtkpos`, `relpos`, `udbias`, `ddres` | per frequency: the bias, `outc`, `rejc`, the flags in `slip` and those `pt` hides, the code kept, the half-cycle flag; the geometry-free phase; whether the base's epoch is a new one; an action each for an epoch that is left out, one without the satellite, and one with it |
| `PostPos` | `sortobs`, `nextobsf/b`, `inputobs`, `procpos`, `combres` | the sorted observations, `iobsu`, `iobsr`, the two lists, indexes of the merge, the solution of a static receiver; what `smoother` failed on, as history |
| `Fifo` | a bounded queue that may fail | - |
| `MemBuf` | `membuf_t` | `buf`, `rp`, `wp`, `st`; a call of `Read` or `Write` and a step for each byte; refines `Fifo` |
| `Stream` | `stropen/close/read/write/stat` on one stream by several threads | type, port and lock; where each call is between its test, its lock and its use of the port |
| `FileSwap`, `FileReplay`, `FtpDl` | the file that is written, two files that are replayed, the download | `fp`/`fp_tmp`; tags and data files of their own lengths, `fpos_n`, positions and the clock; the stream's `ftp_t`, its thread, and the files on disk |
| `TcpCli` | `tcpcli_t` | `state`, `sock`, `tcon`, `tdis`, `tact`, all descriptors of the process, the far end |
| `TcpSvr`, `NtripCas` | `tcpsvr_t` and `ntripc_t` on top of it | slots, `con[i]`, the call under way with the slot it has come to; every client's connection |
| `ChunkDec` | `ntrip_chunk.h` | pure operators: a decoder step per byte, over all that a read returned |
| `NtripCli` | `ntrip_t`, type 1 | `state`, `buff`, `verNeg`, `v2Tried`, `chunked`, the decoder; the caster and the wire |
| `StrSvr` | `strsvrstart/stop/peek`, `strsvrthread` | program counters of the thread, of a controller that starts and stops, and of a console that peeks; the lock, `buff`, `pbuf` and its memory; what each output, log and return received; `torn`: the thread left in the middle of a peek |
| `StrConv`, `RtcmLink` | `write_obs`, `write_nav_cycle`, `nextsat` and the MSM packing; the messages on their way to `save_msm_obs`, `adjweek`, `adjday_glot`, `lossoflock` | time, the epoch, messages written; what is lost, the decoder's time, observations, flags and lock times |
| `Console` | consoles and `main` of `rtkrcv` | `th[i]`, `run[i]` (`con->state`) per slot, `intflg`, the server up or down |
| `Apps`, `Streams`, `Messages`, `Inputs`, `Ntrip` | compositions (below) | `of` or `end`: the part a behaviour is about |
| `*Proofs` | theorems about the module of that name | - |
| `MC*` | the instances TLC checks | values of constants |

`StrConv` and `RtcmLink` interact: the link carries the very messages the
converter writes, with the sync bit and the lock times it computed.  `NtripCas` extends
`TcpSvr` with the actions a caster adds to the server's calls.  The other
components of a composition share no state, in the model as in the code: a stream is of
one type, an epoch and a HAS page do not meet before the filter.  A composition
is therefore their disjoint union, chosen by the value `of` (or `end`) has initially,
and each of its behaviours is one of that component; it exists so
that components of one layer are checked by one run.

`RtkSvr` and `StrSvr` use streams as ports that are open or closed, `NtripCli`
uses the TCP client as a link that is up or down, and `Console` uses the RTK
server as up or down; the module of the part below says what those words hide.
Every definition that models code is listed with its lines under `map` in
`PROJECT.json`.  Operators whose name has a suffix after an underscore
(`Reap_NoJoin`) and whose comment begins with "mutant" are changed versions of
the operator that follows.  They are used by no specification; putting one in
the place of its original must break the property that `PROJECT.json` names,
which shows that the property depends on that piece of code.

## 3. Runs

Runs marked *v* end in a violation: the code does not do what the quoted line of
the repository says (section 6).

| Run | Instance | Shows |
|---|---|---|
| `rtksvr_serial` | Users=MCUsers, Threads=MCThreads, NIn=1, NSol=1, Ops=NoMark, Faults=SomeFaults, Serial=TRUE | With callers that serialise start, stop, openstr and closestr, and malloc, stropen and pthread_create failing, one server thread at most lives, it never uses freed buffers, no port is forgotten and a server that is down has every stream closed; every call returns, and the life cycle implements SvrLife (`LifeInv`, `CallsReturn`, `ImplementsLife`) |
| `rtksvr_any` | Users=MCUsers, Threads=OneServer, NIn=1, NSol=1, Ops=AnyOps, Faults=RareFaults, Serial=FALSE | Whatever uncoordinated callers and failures do, no path leaves svr->lock held behind it, and the exit code of a thread ends even when rtksvrmark holds svr->lock for ever (`NoLockLeftHeld`, `ExitCompletes`) |
| `streams` | `MCStreams`, `Streams.cfg` | Streams of one type each: the memory buffer implements a queue that reports every loss, records around a swap go to both files, two files are replayed in their time and together, to the end of what the tags tell, also when one is cut short or has two tags at one place, a download outlives its stream and names whole files, a port is used only while it is open, and a TCP client leaks no socket, waits before it connects again, drops a silent connection and connects when the far end stays up (`RightFiles`, `InTime`, `FtpInv`, `PortInv`, `TcpInv`, `ImplementsFifo`, `AttemptsSpaced`, `Replayed`, `Again`, `FollowsPeer`) |
| `inputs` | `MCInputs`, `Inputs.cfg` | With a base, an L6 stream and overloaded cycles no rover epoch is lost without being counted and rtkpos sees the epochs in order; orbits and clocks that are used belong together although issue numbers return and messages are lost; a HAS message is given back from its pages and none is put together of two; CLAS corrections of an observation's own time are found behind newer ones and never another facility's. The two passes of post-processing see the same epochs, whole and in order, and where they are merged an epoch is lost for a failure of smoother() or a NONE of the other pass only; in either direction an old phase-bias stays in use only after a slip of which no flag of the base, no code and no geometry-free phase told. An SBAS correction is used for the satellite it was sent for, whatever masks and messages are lost, and a satellite that is taken out of use stays out (`NoneMissedSilently`, `SsrBelongs`, `HasInv`, `BankInv`, `PostInv`, `BiasInv`, `SbasInv`, `EpochsInOrder`, `NoFlipFlop`) |
| `rtkdata_skip` *v* | as `inputs`, but Which={"obs"}, MaxL6=5, ObsFrom=Rover, Overload=FALSE, MinChange=3, MaxAge=2, HrAge=1, OtherPids={1, 2}, MaxMsgs=5, MaxAgeLong=2 | The rate limit drops the frames it means to put off (`NoFrameSkipped`) |
| `has_barred` *v* | as `inputs`, but Which={"ssr"}, MaxL6=3, ObsFrom=Rover, Overload=FALSE, MinChange=3, MaxAge=2, HrAge=1, OtherPids={1, 2}, MaxMsgs=5, MaxAgeLong=2 | A satellite whose HAS clock "shall not be used" stays in use (`BarredIsRejected`) |
| `flag_unheeded` *v* | as `inputs`, but Which={"phase"}, MaxL6=3, ObsFrom=Rover, Overload=FALSE, MinChange=3, MaxAge=2, HrAge=1, OtherPids={1, 2}, MaxMsgs=5, Slippery=RoverSlips, MaxAgeLong=2 | The loss of lock indicator of an observation of the rover has its phase-bias reset (`FlagsHeeded`) |
| `messages` | `MCMessages`, `Messages.cfg` | Every epoch written as MSM messages of three types due at different intervals carries every satellite once and ends once; over a link that loses messages the decoder hands out no mixture of epochs and the right time, and without losses it hears of every slip; with two ephemerides or more the cyclic output comes back to a satellite; L6 frames of several satellites never displace a satellite that is heard, and a channel passes on when its satellite has set (`LinkInv`, `SlipTold`, `EphSentAgain`, `OneSource`, `Served`) |
| `l6_handover` *v* | as `messages`, but Which={"route"}, NSub=3 | After a handover frames of two satellites are put together (`Coherent`) |
| `ntripcli_again` *v* | Base=2, HdrMax=5, SizeMax=3, Ver=0, Casters=ChunkOnly, Writing=FALSE, MaxRsp=6, Raw=4, NOut=2, NPay=1, Kinds=Plain | A caster that refused a request in HTTP is asked in version 1 from then on (`AsksV2Again`) |
| `ntrip` | `MCNtrip`, `Ntrip.cfg` | Both ends of NTRIP. A client whose casters of both versions fail, stop in the middle of a header, cut chunks anywhere and take over from each other: the caller gets the payload and nothing else, in the version the caster speaks; version 1 is fallen back to, and the end of a connection is noticed. A TCP server with more clients than slots, and a caster with a password whose clients speak both versions, ask for nothing or for what they may not have, send requests in pieces, leave, fall behind and take over slots: only who is entitled gets data, without holes and coded as announced; two clients send without end, and who sends is read, unless a client in an earlier slot always has data, and who leaves gives his slot back, also after accept has failed (`NtripInv`, `CasterInv`, `ClientServed`, `Attended`, `CallsReturn`) |
| `apps` | MaxCon=3, NPend=2, Ports={TRUE, FALSE}, Commands=AllCommands, NOut=2, Relay=2, MaxBlock=4, NBack=2, Size=2, MaxStart=2, Faults={"malloc", "stropen", "create"} | rtkrcv with local and remote consoles, users who leave in every way, all commands, shutdown and signals: no console is freed under its thread, slots come back, and with remote consoles a shutdown ends the program.  str2str beside a controller that starts and stops and another thread that peeks at any moment, with calls that fail: the outputs, the log, the peek buffer and the relayed returns carry what they should in order unless the thread leaves in the middle of a peek, a server that is down has its streams closed, and every call returns when no output returns data without end (`CopiesRight`, `FreedAfterEnd`, `SlotsReturn`, `ShutdownEnds`, `DownIsClosed`, `CallsReturn`) |

**Bounds.**  The values stand in the cfg files and `MC` modules.
`RtkSvr`: two callers cover each pair of calls that can overlap, two threads the
one a second start creates; one input, one solution and one log stream suffice because
the loops over the streams treat each alike, and three of them are enough to fail at the
first, in the middle and at the last.  With callers that coordinate nothing one
thread is enough for the two properties of `rtksvr_any`, which speak of one thread
and one lock.

`streams`: three bytes are the smallest memory buffer where full, empty and wrapped
differ.  A file interval of eight ticks with a margin of one and 36 ticks of time
give four borders, and silences of up to three ticks pass over each end of the window.
Two recordings start in either order: one with two tags whose data file ends before the place of the last,
one with three tags, two of them at one place, and bytes behind the last.  A day of four ticks holds two downloads; two `ftp_t` are the one
in use and one that was left behind.  Two ports and two types let a stream be reopened as
something else under a call.  For the TCP client an interval of three ticks and a time-out of two
let either end first; the descriptors are few enough to run out and include 0, which the
`sock` of a stream never opened holds.

`ntrip`: sizes of chunks are written in base 2, so that a chunk of two payload bytes needs
two digits; the payload may be taken for digits, and the buffers (4, 3 and 2) are smaller than
what can be sent.  Two slots: three clients come to the TCP server, two to the caster, where each of
their connections may make two different requests.  Two clients send without end, in either slot and at the same
time, so that reads which end at an earlier slot are there; `Attended` watches one of them (they are alike).

`apps`: two remote slots and the local one, two users waiting: free slots, full ones, and one
reused.  Four blocks overflow the peek buffer of two; two starts are enough to meet
what the first left behind, and to peek at the second what was asked for at the first.  What an output returns is
numbered modulo two (`NBack`), so that a block that is relayed and one that was returned after it differ, and there is no
bound on how much it returns.

`messages`: three satellites against a cell limit of two give one or two messages per type; the
types are due at intervals that do not divide each other; two systems, one of which sends the
time of day (a week of one day of six ticks; `LinkInvHolds` is about weeks of any length).  Three L6 satellites, two of one pattern with subframes that begin at different
seconds, and subframes of two frames (three in `l6_handover`).

`inputs`: `MAXOBSBUF` is 2 and up to three epochs come in one read, so the queue overflows; four
epochs put some of them in the cycle after it.  SSR issue numbers have one bit, so they return
with the second issue.  Two HAS slots for three message numbers; messages of two
or three pages out of three.  Two CLAS ring places for up to four messages of two facilities at three times.
Two SBAS satellites of which one is listened to; it changes its mask once, and the other one's mask has the issue
of its first; masks of two satellites or three grid points; two issues of fast corrections, so that they come round;
corrections that expire after one tick.
Three rover epochs and bases that are there, a little off, in between, or nowhere.
Two frequencies of which one may be out of sight; a phase of the base slips (flag, code, code undone, half-cycle,
nothing), at most once between two epochs, and in `flag_unheeded` one of the rover.  `thresdop` is 0, as by default
(`Doppler`); the proof of `BiasInv` is about any value, any phases that slip, and one frequency, too.

**Fairness.**  Threads that can run do run (weak fairness of their steps), and
who waits for a mutex that is free again and again gets it in the end (strong
fairness of the lock steps: pthread mutexes on the supported systems do not
starve a waiter for ever; it is needed because a server thread takes the lock
in every cycle).  In `RtkSvr` the epoch loop is assumed to end
(`SF` of the exit of `ThreadNext`), as the number of queued epochs is bounded by
`MAXOBSBUF`.  In `Streams` and `Ntrip` a stream is read in every cycle of
a server thread, and time passes; a name that is looked up again and again is
found in the end (`SF` of `GenSocket`), a connection that is tried again and again comes up
(`SF` of `Request` and `Response`), and the thread of a download ends, as `wget` is
given a time limit.  A TCP server is read again and again although writes take
its lock (`SF` of `CallRead`), its call goes on, and a client that has not left takes what has come for it.
In `StrSvr` no output returns data without end (`WF` of `ReturnNone`): the loop of `strsvrthread` that reads
it does not look at `svr->state`, and without this `CallsReturn` fails.  A peek gets the lock (`SF` of `PeekLocked`), as the thread does.
In `Messages` a satellite that has not set is heard again and again (`SF` of
`Frame`).  `FollowsPeer` is about a far end that stays up or stays silent, `Attended`
about a time in which nobody connects anew (accepting comes first in every call), and about clients with no one before
them who has data again and again while reads never come to them.
`ClientServed` is about a caster that is no longer replaced and does not fail
(`calm`: the world outside may calm down at any point and need not), and a response
buffer with room.  `ShutdownEnds` is about a program with remote consoles.  Nobody is
assumed to type, to hang up, to send a signal, to start, stop or peek.  Specifications of which only
safety is checked (`Inputs`) have no fairness.

**Deadlock** is checked in `rtksvr_serial` and the runs of `Messages` and
`Inputs`.  It is off where the end of the instance is a state
with nothing left to do: time, starts, payload and clients are bounded (`streams`, `ntrip`,
`ntripcli_again`, `apps`), the program has ended (`apps`), or a call never
returns (`rtksvrmark` in `rtksvr_any`).

## 4. Proofs

TLAPS proves the following for every value of the constants that their named
assumptions allow.  The proofs are in `<module>Proofs`, those of the streams in
`StreamsProofs`, of the stream server and the consoles in `AppsProofs`, of the
observation messages in `MessagesProofs`, of the corrections in `CorrectionsProofs`, and of the epochs and what the
positioning makes of them (`RtkData`, `PhaseBias`, `PostPos`) in `EpochsProofs`.  `StreamsSafe` puts the results about
streams together for the union that `streams` checks, and `InputsSafe` (in `InputsProofs`) those about the inputs for the one
that `inputs` checks: all its safety properties hold of it, for every value of the constants that satisfies the assumptions
of the parts and `OneMaskAnIssue` (see `Sbas`).

* **`RtkSvr`** (any number of callers, threads and streams).  `SerialInvariant`:
  `SerialInv` is inductive when the callers serialise the life-cycle calls.
  `LifeInv`, with `OneThread`, `BuffersLive`, `DownIsClosed`, `JoinedOnce` and
  `NoPortLeaked` in it, and `PortsUnderLock` follow from it.  None of them is inductive by itself.
  `OneThread`, say, needs that a caller past the "already started" test is the
  only one in a start (`StartAlone`), that a thread which was created but has
  not yet set `state` leaves `state` at 0 and finds no caller inside a call of the
  life cycle (`SpawnAlone`), and that the thread that stops is the
  one the handle names (`ThreadKnown`, `Joining`, `Leaving`); `BuffersLive` needs
  in addition that nobody frees before the join (`HeapThere`).  Each is a named
  conjunct, and the step lemma has one case per action.  `NoLockLeftHeldHolds`
  is proved for callers that do *not* coordinate and for every failure.
  `StepsAsLifeHolds` is the refinement: under `SerialInv` every step of the server is a
  step of `SvrLife` or leaves its phase and the set of open streams alone.  `PhaseIs` says
  which phase each control state is, so that a step is shown to keep or to change it by its
  own effects.  The fairness of `SvrLife` (the rest of `ImplementsLife`) stays with TLC.
* **`RtkData`**.  `NoneMissedSilentlyHolds`: for any number of epochs per cycle and
  any overload, every rover epoch decoded is given to `rtkpos` or counted
  in `prcout`; the strengthening `Accounted` adds the epochs still queued
  (`Outstanding`) to the balance and ties them to the phase of the cycle.
  `EpochsInOrderHolds`: `rtkpos` is given rover epochs in order and none twice, and base epochs
  that never go back.  The invariant `Ordered` says where every epoch stands: what waits in the
  buffers is newer than what is stored, which is newer than what was given.
* **`Stream`** (any threads, types and number of steps).  `PortInvHolds`: a call between its test and
  its effect knows what it tested (`PortMatches`), holds the lock from the
  moment it uses the port (`LockHeld`), and finds no port only if the stream was opened again in between
  (`Passed`).
* **`MemBuf`** (any size).  `TypeCorrect` for every pattern of calls;
  `ReadInvariant`: when readers ask for at least the whole buffer, a read leaves
  it empty with `rp` inside it (the loop is characterised by where it stops, not
  by induction over its steps); `LossIsReportedHolds` follows: with `rp` inside the
  buffer the comparison `wp = rp` cannot miss the moment it becomes full.
  `ImplementsFifoHolds`: under the same assumption the ring is a queue of `Size - 1` bytes.  `ReadByteGets` and
  `WriteBytePuts` show what a step of a pointer does to `Contents`, wherever the ring wraps.
* **`TcpCli`** (any descriptors, intervals and network).  `TcpInvHolds`: the stream holds a descriptor exactly
  while it waits or is connected (`StateKnown`: the step a call has come to says what `state` is;
  a descriptor that is taken was free).  `AttemptsSpacedHolds`: the time since the last connection ended is
  the one `tdis` gives (`GapKept`).
* **`NtripCas`** on **`TcpSvr`** (any slots, clients and requests).  `CasterInvHolds` (in `NtripProofs`): that nobody gets data with a
  hole needs what each slot is still owed of the write under way, by the place the loop over the slots has come
  to (`Owed`), and that a client who has got units before lacks exactly these (`Balance`).  The slots and the
  connections agree because a client is in one slot (`OneSlot`), one without an answer has got nothing (`Fresh`), and what is
  received of him is what he asks for (`Asked`).
* **`NtripCli`** (any casters, buffers, sizes of reads and payload; the second part of `NtripProofs`).  `NtripInvHolds`: what a connection has
  returned, what its buffer holds and what is on the wire join without a gap (`Receiving`), and they do so from the moment the
  answer is sent, wherever it is cut (`Awaited`).  For that the proof says what a stretch of bytes does to the decoder (`Runs`: a
  chain of states, one per byte): stretches can be cut and joined anywhere (`RunsCut`, `RunsCat`), every chunk the caster sends
  leads from the initial state back to it (`RunsChunk`), and `DecodeRuns` ties `ChunkDecode` to it, by induction on the
  bytes, with an output that may fill up on the way.  The theorem needs `OneCoding`: no two casters at the address serve version 2
  in different codings.  Otherwise it is false: the chunk flag and a "chunk" line in the buffer outlive their connection (section 6).
  `HdrMax > 3` holds of the code (`CHUNK_HDR_MAX` is 16); sizes of the model have at most three digits.  The constants of the run
  `ntrip` satisfy both.
* **`ClasRoute`** (any channels, satellites and timing).  `OneSourceHolds`: no two channels ever have the same satellite, and one that has a satellite
  passes to another only after a silence: the age of a lock is never above the silence of the satellite that has it.
* **`FtpDl`** (any objects, files, times and failures).  `FtpInvHolds`: who is in the middle of a download is
  the object of the stream or one that was left behind, and has its memory; a path that is known to
  be whole stays so until somebody else writes to it.
* **`FileReplay`** (any recordings, speeds and start times).  `InTimeHolds`: the position of a file is the end of the
  record of its last tag, and every earlier tag has been reached (`InTime` says nothing of
  tags, so it is not inductive); a loop of reads is characterised by the first tag whose time is still to come.
  `FileReplayAssumption` says that neither the times nor the places of the tags go back; several may name one place, and the
  data file has any length.
* **`FileSwap`** (any interval, span of names and margin).  `RightFilesHolds` needs `SwapsFit`: a name spans whole
  intervals, and the longest silence and two margins fit into an interval.  TLC refutes
  `RightFiles` without either (an interval of 6 and names of 9 ticks; a silence of an interval).
  The invariant says which file is open, by the number of the interval it was named in.
* **`StrSvr`** (any outputs, blocks and peek buffer).  `CopiesRightHolds` and `CopyDownIsClosedHolds`: what each output, log and
  peek has received is tied to the position of the thread in its cycle and the calls to come; the
  buffers are there whenever the thread is, and hold blocks only until the exit code empties them (`PeekThere`), so that a peek that
  was asked for before a stop and gets the lock after it copies nothing.
* **`Console`** (any consoles).  `FreedAfterEndHolds`: with a local console nobody else comes (`NobodyComes`), and the
  loop of the shutdown has ended the consoles before the one it has come to (`ClosedSoFar`).
* **`SsrChain`** (any issues, periods and losses).  `SsrBelongsHolds`: issue numbers come back, so equal numbers
  do not make equal issues.  The invariant bounds the age of each part from below by the issues that
  followed it (`WellKept`), and a part as old as the numbers take to return is too old to be used (`OneIssue`).
  `NoFlipFlopHolds` needs no invariant beyond the types.
* **`HasPages`** (any slots, pages, sizes and time-out).  `HasInvHolds`: no message is collected twice (`OneLive`), who was begun since
  the first page is a rival (`RivalsKept`), and while it is neither complete nor driven out the message's pages are all in one slot (`OwnKept`).
  That the slot survives when there are fewer rivals than slots is the pigeonhole principle: a full array in which no slot but this
  one is a rival's would hold as many rivals as slots.
* **`Sbas`** (any satellites, masks and ages).  `SbasInvHolds` needs `OneMaskAnIssue`: one satellite is listened to, and it uses the issue of a mask for one
  mask.  Otherwise a place may mean another satellite (section 6).  The invariant: a correction was made for the one its place named then (`FastKept`),
  and one that says that the watched satellite may be used is not younger than the word that it may not.
* **`ClasBank`** (any size of the rings, any networks, facilities and order of the messages).  `BankInvHolds`: from the next slot on a ring is
  in the order of its times (`RingTurns`), so what gives way is the oldest; a message that is missing gave way when every
  slot held one as new (`RingKeeps`), and then more messages as new as it have come than the ring has slots
  (`RoomKeeps`, by an injection of the slots into them).  So with room for it the wanted entry is in the ring, and the newest
  of the ring is the newest of all (`PicksSame`).
* **`StrConv`, `RtcmLink`** (any systems, messages, intervals, limits and losses; proofs in `MessagesProofs`, of the specification the run checks).
  `MsmCompleteHolds`: the packing of one system by the quotient, then the messages of the epoch by the smallest number of systems for
  which it would fail.  `LinkInvHolds` needs `Resolvable` (half a week, or half a day for GLONASS, is more than the first
  error and the longest silence; the comment of the code asks for it): then the first message of an epoch brings the decoder's time to the true one, and
  until the last the observations are those of the messages delivered (`Underway`).
  `SlipToldHolds` needs `EveryEpoch` (the system is in every epoch; section 6 has the slip that is not told otherwise): a slip is owed only while its
  message is still to come (`ToTell`).
* **`PhaseBias`** (any slips, outages and views).  `BiasInvHolds`: a phase-bias of an earlier arc has a flag
  of its slip still to come (`Pending`: a code other than the one kept, a flag of the base that `pt` does not hide), or the slip was never told, and
  then the geometry-free phase is of an earlier arc, too, or there was none (`Explained`).
* **`PostPos`** (any satellites, any epochs of rover and base).  `PostInvHolds`: `PostStrong` says how the array that
  `sortobs` leaves is cut into epochs (`EpochBlocks`, in the order of time), where the two indices stand in a pass (`ForwardOK`,
  `BackwardOK`: `iobsu` next to the last epoch that was given, `iobsr` at the base epoch it was given with), and that no list has an epoch twice (`Once`).
  The loops of `inputobs` over the base's epochs go on until a condition holds, so they are characterised by where they stop
  (`LoopRule`: what holds where the loop begins and is kept by its steps holds at the stop it comes to, and it comes to one because
  every step lowers a measure).  The merge follows from its two fronts: what is before
  `ci` and behind `cj` is in the output, better of both where both have it and the smoother did not fail (`Merged`), and nothing that is still to come is older (`Fronts`).
  `PostAssumption` says that the epochs of one receiver are more than `DTTOL` apart.  Closer ones are one epoch to
  `sortobs` and `nextobsf` alike, and the property, which tells epochs apart by their time, would have no meaning for them;
  `DTTOL` is 25 ms, and 5 ms in a build for receivers that give 100 epochs a second (`OBS_100HZ`).

Every invariant and action property that a passing run checks, but for the fairness of the refinement
`ImplementsLife`, has a theorem.  Only model-checked, because the prover has no means for them, are the liveness
properties (fairness, `ENABLED`): `CallsReturn`, `ExitCompletes`, `Replayed`, `Again`, `FollowsPeer`, `EphSentAgain`,
`Served`, `ClientServed`, `Attended`, `SlotsReturn`, `ShutdownEnds`.

## 5. Abstractions

* A byte is a value or a member of a small set; a message is its type and
  what the properties distinguish.  Formatting, tracing and status texts are left
  out.
* A call under a stream's own lock (`strread`, `strwrite`) is one step; a call of
  a server interface is cut at every point where it takes or releases
  `svr->lock` and where it touches shared state without it.
* Unlocked accesses that race (a peek against the exit code, which empties and frees `pbuf` without the lock; `svr->state`
  itself) are steps of separate actors, so that each order of them is explored; reads of
  an `int` that is half written are not.  A copy in `strsvrpeek` is one step after its length was taken: when the exit code comes in between,
  what is read is undefined, `torn` is set and the behaviour ends there (section 6).
* Time is a counter of ticks, compared the way the code compares it; the
  wrap of `tickget` is not modelled.
* `system`, `accept`, `connect`, `malloc` and `pthread_create` fail where the
  instance allows it and never otherwise.
* In `NtripCli` a write takes all or nothing because `send_nb` treats a
  partial send as an error; strings are searched for as tokens, so a header line
  cut by a read is a token that has not arrived, and a cut by the end of the connection leaves a
  token that matches nothing.

## 6. Where the code and its documentation differ

1. `rtkdata_skip` / `NoFrameSkipped`, src/src/stream/mrtk_rtksvr.c:596 (code): When the rate limit stops decoderaw the remaining bytes are moved to the front of the buffer and nb is set to their number, but the end of decoderaw sets nb to 0: the frames are lost; src/src/stream/mrtk_rtksvr.c:411 says "shift unconsumed bytes to start of buffer".
2. `has_barred` / `BarredIsRejected`, src/src/has/mrtk_has.c:418 (code): A HAS clock that is barred clears t0[1] of has->ssr and leaves its update flag, so decoderaw (src/src/stream/mrtk_rtksvr.c:577) does not copy the record and nav->ssr_ch keeps the clock, with which satpos_ssr goes on computing positions until it is MAXAGESSR old; src/src/has/mrtk_has.c:417 says: "shall not be used" -> clear clock so satpos_ssr rejects sat.
3. `flag_unheeded` / `FlagsHeeded`, src/src/pos/mrtk_spp.c:925 (code): pntpos stamps ssat[].pt[0] with the present epoch (mrtk_spp.c:925), and rtkpos calls it before relpos (mrtk_rtkpos.c:2747): detslp_ll then passes over every observation of the rover (mrtk_rtkpos.c:742), and detslp_dop does too (mrtk_rtkpos.c:841). Loss of lock indicators and half-cycle flags of the rover are never looked at, and a phase-bias that one of them says has slipped is used. mrtk_rtkpos.c:734 says of detslp_ll: "detect cycle slip by LLI", and mrtk_spp.c:663 of the SPP detector that pt is kept for: "kept SPP-local so PPP/RTK are untouched".
4. `l6_handover` / `Coherent`, src/src/clas/mrtk_clas.c:2914 (documentation): When a channel passes to another satellite its l6buf is left as it is, and unless the next frame has the subframe indicator clas_input_cssr appends it to the frames of the satellite before, which are decoded together; src/src/stream/mrtk_rtksvr.c:493 says "keeping each channel locked to a single active PRN so subframe assembly stays coherent across a satellite handover".
5. `ntripcli_again` / `AsksV2Again`, src/src/stream/mrtk_stream.c:1826 (code): rspntrip_c sets nb to 0 before it disconnects on an HTTP error, and v2_tried is set by the first request already, so the next request is made in version 1; src/src/stream/mrtk_stream.c:1823 says "only switch to v1 if connection dropped before any response was received. If an HTTP response was seen (nb>0), the caster supports v2 and the error is auth/mountpoint, not protocol".

Other differences were met while modelling.  The properties are stated so that
they hold of what the code does promise; the change in parentheses lets TLC
show the difference.

Servers and applications:

* `rtksvrmark` calls `saveoutbuf` inside its own critical section of a mutex that
  is not recursive, so it never returns and every later call waits behind it (add
  "mark" to the `Ops` of `rtksvr_serial`: `CallsReturn` fails).
* `rtksvrstart` returns before `svr->state` is set, which the thread does; a
  second call in between starts a second thread on the same streams and
  buffers (`Serial = FALSE`: `LifeInv` fails).  `rtkrcv` has no lock around
  `startsvr`, so two consoles can do it.
* An epoch whose processing is too long adds the epochs behind it to `prcout`, and
  the loop goes on and processes them, so `prcout` can exceed what was missed:
  `NoneMissedSilently` states only that nothing is missed without being counted.
* `navsel` 3 means the correction input, and no value but 0 means all.
* A console thread that ends because its user hung up or typed ctrl-D leaves
  `con->state` set, and its slot is not reaped (`SlotsReturn` fails when it is to
  hold from `th[i] = "ended"`, whatever `run[i]` is).  The join of a local console
  at shutdown waits for a line to be typed (`ShutdownEnds` without `port` fails).
  Remote consoles are not closed at shutdown: their commands may find `svr` freed
  (`FreedAfterEnd` without `~port` fails), or start it again after `stopsvr`.
* The exit code of `strsvrthread` sets `npb` to 0 and frees `pbuf` without `svr->lock`.  A `strsvrpeek` that has tested the
  state and is in the middle of its copy reads freed memory and leaves `npb` below 0
  (`torn`: an invariant `~torn` fails; the behaviour ends there).  The repository has no caller of `strsvrpeek`; a program that peeks from the thread that stops is safe.
* The loop that relays what an output returns (`mrtk_streamsvr.c:544`) does not look at `svr->state`: `strsvrstop` does not return while
  that output returns data in every call (`AppsSpec` without the fairness of `ReturnNone`: `CallsReturn` fails).
* `strsvrstart` leaves the log streams open when `pthread_create` fails, and the
  buffers allocated when a stream does not open.
* `nextsat` does not come back to a satellite that is the only one: its
  ephemeris is sent once (`EphSentAgain` is stated for two or more).

Streams:

* `strread` and `strwrite` test type and state before they take the lock, so a close
  and reopen in between lets a call run on a port that is not there yet; `PortInv` is
  about the ports that are.
* A reader of the memory buffer that asks for less than the whole buffer can leave
  `rp` at `bufsize`, and then a full buffer is taken for an empty one without an
  error (`ReadSizes = {1, 2, 3}`: `ImplementsFifo` fails).
* `closetcpcli` closes the descriptor of its last connection again, or 0 when
  there was none; by then the number may belong to somebody else.  A connect refused at once is
  tried again without the interval.  A socket error makes a TCP client fail for good, as
  nothing leaves state -1; with a name that cannot be resolved the lookup is repeated in every
  cycle, since the interval is waited for in state 1 only.
* In `NtripCli` the chunk flag of one connection is kept for the next (a caster
  that answers version 2 without chunks, "v2raw", in `Casters`, with line ends in its
  payload, `Kinds = {"hex", "nl"}` and `NPay = 3`: `DeliversInOrder` fails); an answer that
  fills the buffer with no end of header is never recovered from (`FallsBack` without
  `Space > 0` fails); a client that has negotiated version 2 does not fall back to 1
  (`FallsBack` without `verNeg # 2` fails).  `v2_tried = 2` has no effect, because
  `UseV2` does not distinguish it from 1.
* After an `accept` that failed a TCP server never listens again and its clients
  are abandoned; `closetcpsvr` closes the listening descriptor once more.  A client of the
  TCP server that falls behind misses data and stays; one of the caster is dropped.  A request
  that ends within what one read returned loses what follows it, and a caster answers only a request
  whose end has come.  A client that vanishes without a word keeps its slot.
* A TCP server and a caster return the data of the first slot that has some (`mrtk_stream.c:1230`), so clients in later slots
  are read only when those before them have nothing: one who always has data starves them (`Attended` without
  `[]<>Busy(p) /\ <>[]~Reached(p)` fails).
* A silence across most of the window around a border skips the swap of a file, and
  a stream opened within the margin before a border names its file by the period that ends.
  Data are lost until the next border when the new file cannot be opened (`RightFiles` allows
  it), and a restart begins the file anew.
* `tick_master` and the offset of `timeget` are global: closing any file stream sets the clock back
  while another file is replayed.  A replay returns a record one tag early when it
  is asked for more than one record's bytes; a `start` in the middle gives out the
  earlier data at once.
* `ftpthread` tests `rtk_uncompress` for not 0, so -1 counts as unpacked; a file
  that a crash or a thread left behind cut short is taken for whole (`FtpInv` speaks of
  downloads without either); the first download comes at once instead of after ten
  seconds.

Messages and corrections:

* `input_rtcm3` asks for a time right "within 1/2 week", but GLONASS MSM
  needs half a day (`TimeResolved` is about that).
* MSM4 and MSM7 lock indicators of one satellite share `rtcm->lock`, so a receiver of both types may see
  slips that were none; a slip in an epoch that is not due is never told, and lost messages can
  hide one (`SlipTold` is about a link without losses).
* If the only message of an epoch that arrives carries no satellite, the epoch before is
  returned again; more than 64 cells, or a last message that could not be generated, leave an
  epoch without an end.
* Before the rover has a time every CLAS lock is stale, so any satellite takes the channel
  (`OneSource` begins when it has one).  With two channels a third pattern is dropped
  for ever.
* `separation`, once set, keeps a network from going back to the global orbits and clocks until the
  facility changes; network biases are preferred whatever their age; a troposphere
  message exactly 30 s after the orbit counts as the newest and is refused
  afterwards (`CompleteSetUsed` is about messages without a network).
* A HAS flush (service status 3) leaves the corrections in use; a mask with no content wipes a
  good one; pages left over from a completed message begin a collection of their own, and
  may be mixed with a later message of the same number if it has the same size
  and comes in time (`quiet` in `HasInv`).
* After a new SBAS mask the places keep the corrections of the satellites that had them before, until
  they are sent anew (`Belongs` excepts a correction whose place was renamed).  Message 6 carries no mask issue: it is
  applied to the place that has the issue of fast corrections it names, so an alarm for a correction that was lost
  is not obeyed before the old one expires, and an alarm to all (issue 3) is for none.  Half a message of long-term corrections ends at the first
  place that is 0.  Ionospheric delays never expire.  With `sbassatsel` 0 the masks of all
  satellites go to the same places (`SbasSel = 0`: `SbasInv` fails).
* With a rover that is not raw (RTCM, for one) the L6 rate limit has no rover
  time to compare with.

Positioning and post-processing:

* `rejc` is cleared by a reset only, so two outliers far apart reset a phase-bias as
  well as two in a row; and `ddres` runs `niter` times and once after the filter, so one bad phase that stays bad in an epoch
  counts `niter` + 1 times, and resets the phase-bias by itself (`docs/releases/release-notes-v0.4.1.md:98` says that a single-epoch glitch does not).
* The filter is not told of a slip by a flag of the rover (finding `flag_unheeded`), by a flag of the base in an epoch that is replaced
  before the filter looks or in one in which the satellite is not common to both receivers, nor by a code or half-cycle flag that changes and
  changes back while it does not look.  The next comparison of two frequencies finds those; with one
  frequency, or when no geometry-free phase had been kept, nothing does (`BiasInv` excepts them: `lost`).
* `combres` compares the raw status, so a solution of quality 0 (none) beats a fix from the
  other direction, and the epoch is not written; single (5) beats PPP (6).  When both directions have the same status and `smoother` fails, of position or velocity,
  the epoch is left out although both solved it (`mrtk_postpos.c:889, 896 and 919`).  It stops when either list ends, so what the
  other one still has is dropped.  `PostInv` says that an epoch is lost in no other way.

## 7. Not modelled, and the plan

What is listed as `not_modelled` or `partly` in `PROJECT.json` falls into three
groups.  Numerical code (filters, models, matrices, Reed-Solomon, bit fields) is out of TLC's reach or has no control worth a
state machine.  Vendored code, tables and the tools around the library are left aside.  What has control of its own and is
left, in the order in which it would be added:

1. byte synchronisation of RTCM 3 and of the receivers, alone and at the end of a file that stops within a frame
   (the state is kept for the next one);
2. the server side of `NtripCli` (type 0) and the periodic commands of `strsvrthread`;
3. the line editor and history of `vt.c`;
4. the page assembly of MADOCA L6E and of compact SSR (only the routing and the bank of CLAS are modelled);
5. the slip and event handling of `convbin` and of the RINEX writer.

Section 4 says which invariants still lack a proof.

## 8. Running

    tlc -config RtkSvr_serial.cfg MCRtkSvr      # a run: cfg and module as in PROJECT.json
    tlapm RtkSvrProofs.tla                      # a proof module
