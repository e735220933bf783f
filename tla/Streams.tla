------------------------------ MODULE Streams ------------------------------
(***************************************************************************)
(* Streams by their type (the switches of stropen, strread and strwrite of  *)
(* src/src/stream/mrtk_stream.c): the memory buffer, the file that is       *)
(* written and the files that are replayed, the download, and, for any of   *)
(* them, the generic calls, and the TCP client.  The other types that use   *)
(* sockets have modules and instances of their own.                         *)
(***************************************************************************)
EXTENDS MemBuf, FileSwap, FileReplay, FtpDl, Stream, TcpCli

VARIABLE of  \* the type this behaviour is about

streamVars == <<vars, swapVars, replayVars, ftpVars, strVars, tcpVars, of>>

StreamsInit ==
    /\ of \in {"membuf", "swap", "replay", "ftp", "any", "tcp"}
    /\ Init /\ SwapInit /\ ReplayInit /\ FtpInit /\ StrInit /\ TcpInit
    /\ IF of = "replay" THEN TRUE
       ELSE tickF = <<0, 0>> /\ start = 0 /\ speed = 1 /\ ~sync
    /\ of # "ftp" => zipped /\ localdir

StreamsNext ==
    /\ \/ of = "membuf" /\ Next /\ UNCHANGED <<swapVars, replayVars, ftpVars, strVars, tcpVars>>
       \/ of = "swap" /\ SwapNext /\ UNCHANGED <<vars, replayVars, ftpVars, strVars, tcpVars>>
       \/ of = "replay" /\ ReplayNext /\ UNCHANGED <<vars, swapVars, ftpVars, strVars, tcpVars>>
       \/ of = "ftp" /\ FtpNext /\ UNCHANGED <<vars, swapVars, replayVars, strVars, tcpVars>>
       \/ of = "any" /\ StrNext /\ UNCHANGED <<vars, swapVars, replayVars, ftpVars, tcpVars>>
       \/ of = "tcp" /\ TcpNext /\ UNCHANGED <<vars, swapVars, replayVars, ftpVars, strVars>>
    /\ UNCHANGED of

\* A server reads its streams in every cycle, time goes on, and the thread of a
\* download ends: wget has a time limit (FTP_TIMEOUT).  A host name that is
\* looked up again and again is found in the end.
StreamsSpec ==
    /\ StreamsInit /\ [][StreamsNext]_streamVars
    /\ WF_streamVars(of = "replay" /\ (\E n \in Asked : ReadFile(n)) /\ UNCHANGED <<vars, swapVars, ftpVars, strVars, tcpVars, of>>)
    /\ WF_streamVars(of = "replay" /\ TickOn /\ UNCHANGED <<vars, swapVars, ftpVars, strVars, tcpVars, of>>)
    /\ WF_streamVars(of = "ftp" /\ ReadStep /\ UNCHANGED <<vars, swapVars, replayVars, strVars, tcpVars, of>>)
    /\ WF_streamVars(of = "ftp" /\ Tick /\ UNCHANGED <<vars, swapVars, replayVars, strVars, tcpVars, of>>)
    /\ \A o \in Objs :
          WF_streamVars(of = "ftp" /\ Thread(o) /\ UNCHANGED <<vars, swapVars, replayVars, strVars, tcpVars, of>>)
    /\ WF_streamVars(of = "tcp" /\ TcpStep /\ UNCHANGED <<vars, swapVars, replayVars, ftpVars, strVars, of>>)
    /\ SF_streamVars(of = "tcp" /\ TcpCall /\ UNCHANGED <<vars, swapVars, replayVars, ftpVars, strVars, of>>)
    /\ SF_streamVars(of = "tcp" /\ TcpTick /\ UNCHANGED <<vars, swapVars, replayVars, ftpVars, strVars, of>>)
    /\ SF_streamVars(of = "tcp" /\ GenSocket /\ UNCHANGED <<vars, swapVars, replayVars, ftpVars, strVars, of>>)

-----------------------------------------------------------------------------
\* Both files of a replay are played to their end, also the data behind the
\* last tag that a recorder left when it was stopped between the two writes.
Replayed == <>(of = "replay" => Over)

\* An open stream begins a download again and again, and ends it, whatever the
\* downloads end with and although no thread may be had.
Again == []<>(of = "ftp" => Idle) /\ []<>(of = "ftp" => Busy)
=============================================================================
