------------------------------ MODULE FileSwap ------------------------------
(***************************************************************************)
(* A file stream that is written and swapped (openfile_, swapfile,          *)
(* swapclose and writefile of src/src/stream/mrtk_stream.c).  Around the    *)
(* border of an interval the old and the new file are open together, and    *)
(* every record goes to both.  A file is named by the number of its period  *)
(* (reppath with the time); a time tag is written wherever its record is.   *)
(***************************************************************************)
EXTENDS Integers

CONSTANTS Interval,  \* swapintv
          Margin,    \* fswapmargin
          NameSpan,  \* the time between two names that reppath gives
          MaxGap,    \* bound: the longest silence between two records
          MaxTime,   \* bound on the clock
          NoFile

ASSUME FileSwapAssumption ==
    /\ Interval \in Nat \ {0} /\ NameSpan \in Nat \ {0} /\ Margin \in Nat
    /\ MaxGap \in Nat /\ MaxTime \in Nat /\ NoFile \notin Int

VARIABLES now,       \* timeget, as GPS time
          file,      \* file_t: wtime, fp, fp_tmp, openpath
          into,      \* the files the last record was written to
          called,    \* when writefile was called last
          unopened   \* the names that could not be opened

swapVars == <<now, file, into, called, unopened>>

Name(t) == t \div NameSpan

\* openfile, before any record
SwapInit == /\ now = 0 /\ into = {} /\ called = 0 /\ unopened = {}
            /\ file = [wtime |-> NoFile, fp |-> Name(0), tmp |-> NoFile, openpath |-> Name(0)]

\* a border of the interval lies between two times
Crosses(t1, t2) == t1 \div Interval < t2 \div Interval

\* mutant: the old file is closed when the new one is opened
SwapFile_NoTmp(f, t, ok) ==
    IF f.tmp # NoFile \/ Name(t) = f.openpath THEN f
    ELSE [f EXCEPT !.openpath = Name(t), !.fp = IF ok THEN Name(t) ELSE NoFile]

\* swapfile: openpath is the new name even if the file cannot be opened
SwapFile(f, t, ok) ==
    IF f.tmp # NoFile \/ Name(t) = f.openpath THEN f
    ELSE [f EXCEPT !.tmp = f.fp, !.openpath = Name(t), !.fp = IF ok THEN Name(t) ELSE NoFile]

SwapClose(f) == [f EXCEPT !.tmp = NoFile]

\* writefile, up to the write
Swapped(f, ok) ==
    LET g == IF f.wtime # NoFile /\ Crosses(f.wtime + Margin, now + Margin)
             THEN SwapFile(f, now + Margin, ok) ELSE f
    IN IF f.wtime # NoFile /\ Crosses(f.wtime - Margin, now - Margin) THEN SwapClose(g) ELSE g

\* A name that failed once fails again: ok is asked of the file, not of the call.
WriteFile == \E ok \in BOOLEAN :
    LET g == Swapped(file, ok)
    IN /\ g.openpath # file.openpath \/ ok
       /\ unopened' = IF ok THEN unopened ELSE unopened \cup {g.openpath}
       /\ IF g.fp = NoFile THEN file' = g /\ into' = {}
          ELSE file' = [g EXCEPT !.wtime = now] /\ into' = {g.fp, g.tmp} \ {NoFile}
       /\ called' = now
       /\ UNCHANGED now

\* somebody writes at least every MaxGap
Wait == /\ now < MaxTime
        /\ now - called < MaxGap
        /\ now' = now + 1 /\ into' = {}
        /\ UNCHANGED <<file, called, unopened>>

SwapNext == WriteFile \/ Wait

-----------------------------------------------------------------------------
\* The files that should hold a record of the present: those of whose period,
\* widened by the margin on both sides, it is part.
Expected == {n \in 0 .. Name(MaxTime + Margin) :
                n * NameSpan - Margin <= now /\ now < (n + 1) * NameSpan + Margin}

\* A record goes to no other file than those of its time, and to all of them
\* unless one of them could not be opened: around a border to both.
RightFiles == into # {} => /\ into \subseteq Expected
                           /\ Expected \cap unopened = {} => into = Expected
=============================================================================
