------------------------------ MODULE MCRtkSvr ------------------------------
(* RtkSvr on small instances: one input, one solution and one log stream.   *)
EXTENDS RtkSvr

CONSTANTS u1, u2, t1, t2

MCUsers   == {u1, u2}
MCThreads == {t1, t2}
OneServer == {t1}
SomeFaults == {"malloc", "stropen", "create"}
RareFaults == {"stropen", "threadmalloc"}
NoMark    == Calls \ {"mark"}
AnyOps    == Calls \ {"stat", "closestr"}
=============================================================================
