------------------------------- MODULE FtpDl -------------------------------
(***************************************************************************)
(* A stream that downloads a file again and again by FTP or HTTP (readftp,  *)
(* ftpthread, openftp, closeftp and nextdltime of                           *)
(* src/src/stream/mrtk_stream.c).  The download runs in a thread nobody     *)
(* joins: a stream closed meanwhile leaves it behind with its ftp_t.        *)
(***************************************************************************)
EXTENDS Integers

CONSTANTS Period,    \* bound: the day has as many ticks, and a file has its name as long
          Tint, Toff, Tret  \* topts[1..3]: download interval, offset and retry interval

ASSUME FtpAssumption == /\ {Period, Tint} \subseteq Nat \ {0} /\ {Toff, Tret} \subseteq Nat
                        /\ Period % Tint = 0 /\ (Tret > 0 => Period % Tret = 0)

Objs  == {1, 2}          \* bound: two ftp_t at a time
Names == {"cur", "old"}  \* the remote file of this period and of the last

VARIABLES phase,    \* the time, modulo Period
          wait,     \* time until tnext
          ftp,      \* the stream's ftp_t, 0: closed
          live,     \* the ftp_t that are allocated
          state,    \* ftp->state: 0 idle, 1 on going, 2 completed, 3 error
          pc, name, \* where its thread is, and the file it is after
          disk, pack,  \* the file by its name, and the compressed one: "none", "part", "whole"
          zipped, localdir,  \* the path ends in .gz or the like; there is a local directory
          told,      \* the file whose path was returned last, as it was then
          flaws     \* so far: "left", a download was left behind; "unpack", one could not be unpacked

ftpVars == <<phase, wait, ftp, live, state, pc, name, disk, pack, zipped, localdir, told, flaws>>

FtpInit == /\ phase = 0 /\ wait = 0 /\ ftp = 0 /\ told = "none yet" /\ flaws = {}
           /\ live = {} /\ state = [o \in Objs |-> 0]
           /\ pc = [o \in Objs |-> "none"] /\ name = [o \in Objs |-> "cur"]
           /\ disk = [n \in Names |-> "none"] /\ pack = disk
           /\ zipped \in BOOLEAN /\ localdir \in BOOLEAN

\* openftp: the first download time, ten seconds on by UTC, is past by GPS time
Open == \E o \in Objs :
    /\ ftp = 0 /\ pc[o] = "none"
    /\ ftp' = o /\ wait' = 0
    /\ live' = live \cup {o}
    /\ state' = [state EXCEPT ![o] = 0]
    /\ UNCHANGED <<phase, pc, name, disk, pack, zipped, localdir, told, flaws>>

\* closeftp: during a download the memory stays allocated
Close ==
    /\ ftp # 0
    /\ live' = IF state[ftp] # 1 THEN live \ {ftp} ELSE live
    /\ flaws' = IF state[ftp] = 1 THEN flaws \cup {"left"} ELSE flaws
    /\ ftp' = 0 /\ wait' = 0
    /\ UNCHANGED <<phase, state, pc, name, disk, pack, zipped, localdir, told>>

\* nextdltime
NextTime(done) ==
    LET every == IF ~done /\ Tret > 0 THEN Tret ELSE Tint
    IN every - ((phase - Toff) % every)

\* readftp, from here on
Begin ==
    /\ ftp # 0 /\ wait = 0 /\ state[ftp] = 0
    /\ \/ state' = [state EXCEPT ![ftp] = 1] /\ pc' = [pc EXCEPT ![ftp] = "look"]
       \/ state' = [state EXCEPT ![ftp] = 3] /\ UNCHANGED pc   \* no thread
    /\ UNCHANGED <<phase, wait, ftp, live, name, disk, pack, zipped, localdir, told, flaws>>

\* mutant: the state of the error stays
TryLater_Stays ==
    /\ ftp # 0 /\ wait = 0 /\ state[ftp] = 3
    /\ wait' = NextTime(FALSE)
    /\ UNCHANGED <<phase, ftp, live, state, pc, name, disk, pack, zipped, localdir, told, flaws>>

TryLater ==
    /\ ftp # 0 /\ wait = 0 /\ state[ftp] = 3
    /\ wait' = NextTime(FALSE)
    /\ state' = [state EXCEPT ![ftp] = 0]
    /\ UNCHANGED <<phase, ftp, live, pc, name, disk, pack, zipped, localdir, told, flaws>>

Deliver ==
    /\ ftp # 0 /\ wait = 0 /\ state[ftp] = 2
    /\ told' = disk[name[ftp]]
    /\ wait' = NextTime(TRUE)
    /\ state' = [state EXCEPT ![ftp] = 0]
    /\ UNCHANGED <<phase, ftp, live, pc, name, disk, pack, zipped, localdir, flaws>>

-----------------------------------------------------------------------------
\* The thread ends with a state that it sets last of all.
Ends(o, s) == state' = [state EXCEPT ![o] = s] /\ pc' = [pc EXCEPT ![o] = "none"]

\* a file there already is not downloaded again; wget creates its output
Look(o) ==
    /\ pc[o] = "look"
    /\ name' = [name EXCEPT ![o] = "cur"]
    /\ \/ ~localdir /\ Ends(o, 3) /\ UNCHANGED <<disk, pack>>
       \/ localdir /\ disk["cur"] # "none" /\ Ends(o, 2) /\ UNCHANGED <<disk, pack>>
       \/ /\ localdir /\ disk["cur"] = "none"
          /\ pc' = [pc EXCEPT ![o] = "get"]
          /\ IF zipped THEN pack' = [pack EXCEPT !["cur"] = "part"] /\ UNCHANGED disk
                       ELSE disk' = [disk EXCEPT !["cur"] = "part"] /\ UNCHANGED pack
          /\ UNCHANGED state
    /\ UNCHANGED <<phase, wait, ftp, live, zipped, localdir, told, flaws>>

Complete(s) == IF s = "none" THEN "none" ELSE "whole"  \* none: another removed it

GetFails(o) ==
    /\ pc[o] = "get" /\ Ends(o, 3)
    /\ IF zipped THEN pack' = [pack EXCEPT ![name[o]] = "none"] /\ UNCHANGED disk
                 ELSE disk' = [disk EXCEPT ![name[o]] = "none"] /\ UNCHANGED pack
    /\ UNCHANGED <<phase, wait, ftp, live, name, zipped, localdir, told, flaws>>

\* mutant: completed before it is unpacked
GetDone_Early(o) ==
    /\ pc[o] = "get"
    /\ \/ /\ ~zipped /\ disk' = [disk EXCEPT ![name[o]] = Complete(@)]
          /\ Ends(o, 2) /\ UNCHANGED pack
       \/ /\ zipped /\ pack' = [pack EXCEPT ![name[o]] = Complete(@)]
          /\ disk' = [disk EXCEPT ![name[o]] = "part"]
          /\ pc' = [pc EXCEPT ![o] = "unpack"] /\ state' = [state EXCEPT ![o] = 2]
    /\ UNCHANGED <<phase, wait, ftp, live, name, zipped, localdir, told, flaws>>

GetDone(o) ==
    /\ pc[o] = "get"
    /\ \/ /\ ~zipped /\ disk' = [disk EXCEPT ![name[o]] = Complete(@)]
          /\ Ends(o, 2) /\ UNCHANGED pack
       \/ /\ zipped /\ pack' = [pack EXCEPT ![name[o]] = Complete(@)]
          /\ disk' = [disk EXCEPT ![name[o]] = "part"]
          /\ pc' = [pc EXCEPT ![o] = "unpack"] /\ UNCHANGED state
    /\ UNCHANGED <<phase, wait, ftp, live, name, zipped, localdir, told, flaws>>

\* rtk_uncompress returns -1 when it fails, and has removed its output: the
\* thread takes any value but 0 for success
Unpack(o) ==
    /\ pc[o] = "unpack" /\ Ends(o, 2)
    /\ \/ /\ pack[name[o]] = "whole" /\ disk' = [disk EXCEPT ![name[o]] = Complete(@)]
          /\ UNCHANGED flaws
       \/ disk' = [disk EXCEPT ![name[o]] = "none"] /\ flaws' = flaws \cup {"unpack"}
    /\ pack' = [pack EXCEPT ![name[o]] = "none"]
    /\ UNCHANGED <<phase, wait, ftp, live, name, zipped, localdir, told>>

\* The program is killed and started again: the disk stays as it is.
Crash ==
    /\ ftp # 0
    /\ ftp' = 0 /\ wait' = 0 /\ live' = {} /\ pc' = [o \in Objs |-> "none"]
    /\ flaws' = IF \E o \in Objs : pc[o] # "none" THEN flaws \cup {"left"} ELSE flaws
    /\ UNCHANGED <<phase, state, name, disk, pack, zipped, localdir, told>>

\* A new period: the file has a new name.  Bound: nothing of the period before
\* the last is still downloaded or unread.
Tick ==
    /\ phase' = (phase + 1) % Period
    /\ wait' = IF wait = 0 THEN 0 ELSE wait - 1
    /\ IF phase' # 0 THEN UNCHANGED <<name, disk, pack>>
       ELSE /\ \A o \in Objs : (pc[o] # "none" \/ (ftp = o /\ state[o] = 2)) => name[o] = "cur"
            /\ name' = [o \in Objs |-> IF pc[o] # "none" \/ ftp = o THEN "old" ELSE "cur"]
            /\ disk' = [cur |-> "none", old |-> disk["cur"]]
            /\ pack' = [cur |-> "none", old |-> pack["cur"]]
    /\ UNCHANGED <<ftp, live, state, pc, zipped, localdir, told, flaws>>

ReadStep   == Begin \/ TryLater \/ Deliver
Thread(o)  == Look(o) \/ GetFails(o) \/ GetDone(o) \/ Unpack(o)
FtpNext == Open \/ Close \/ ReadStep \/ (\E o \in Objs : Thread(o)) \/ Crash \/ Tick

-----------------------------------------------------------------------------
\* A thread that runs has its ftp_t, also after the stream was closed.
ThreadHasFtp == \A o \in Objs : pc[o] # "none" => o \in live

\* The path returned names a whole file, unless it could not be unpacked, or a
\* program killed or a stream closed during a download left a part of it.
NamesWhole == /\ told = "none" => flaws # {}
              /\ told = "part" => "left" \in flaws

FtpInv == ThreadHasFtp /\ NamesWhole

\* What an open stream does again and again, whatever its downloads end with.
Idle == ftp = 0 \/ state[ftp] = 0
Busy == ftp = 0 \/ state[ftp] # 0
=============================================================================
