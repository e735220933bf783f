------------------------------ MODULE HasPages ------------------------------
(***************************************************************************)
(* The pages of Galileo HAS messages (has_input_page of                     *)
(* src/src/has/mrtk_has.c).  A message of ms pages is sent as more than ms  *)
(* encoded ones by several satellites, and any ms different ones give it    *)
(* back.  They are collected by message number (MID), which is used again   *)
(* for later messages, in a few slots.                                      *)
(*                                                                         *)
(* One MID is followed; pages of the others come in any order.  Times are   *)
(* counted up to the limit they are compared with.                          *)
(***************************************************************************)
EXTENDS Integers, FiniteSets, FiniteSetsExt

CONSTANTS
    Mids,      \* message numbers
    Mid,       \* the one that is followed
    Pids,      \* encoded pages of a message
    Sizes,     \* MS: pages that give a message back
    OtherPids, OtherSize,   \* the same of the messages that are not followed
    InFlight,  \* HAS_MAX_INFLIGHT
    Timeout    \* HAS_TIMEOUT

ASSUME PagesAssumption ==
    /\ IsFiniteSet(Pids) /\ Mid \in Mids /\ Sizes \subseteq 1 .. Cardinality(Pids)
    /\ OtherSize \in Nat \ {0} /\ InFlight \in Nat \ {0} /\ Timeout \in Nat

Slots == 1 .. InFlight

VARIABLES
    collect,  \* has->collect
    ms,       \* the size of the message of Mid that is sent
    came,     \* its pages that have come
    waited,   \* time since the first of them came
    rivals,   \* the other MIDs of which a page has come in that second or later
    last,     \* time waited the last page of a message of each size came
    quiet,    \* no page of an earlier message of this size was still to be expected
    told,     \* it has been given back
    garbage   \* pages of two messages were taken for one although it was quiet

pagesVars == <<collect, ms, came, waited, rivals, last, quiet, told, garbage>>

Late   == Timeout + 1
Aged(t) == IF t < Late THEN t + 1 ELSE t
\* earlier: the page is of an earlier message than the one sent now
Page   == [pid : Pids, earlier : BOOLEAN]
Idle   == [active |-> FALSE, mid |-> Mid, ms |-> 0, pages |-> {}, age |-> 0]

PagesInit ==
    /\ collect = [k \in Slots |-> Idle]
    /\ ms \in Sizes /\ came = {} /\ waited = 0 /\ rivals = {}
    /\ last = [s \in Sizes |-> Late] /\ quiet = TRUE /\ told = FALSE /\ garbage = FALSE

-----------------------------------------------------------------------------
\* mutant: the newest slot is given up
FindCollect_Newest(mid) ==
    LET mine == {k \in Slots : collect[k].active /\ collect[k].mid = mid}
        live == {k \in mine : collect[k].age <= Timeout}
        idle == {k \in Slots : ~collect[k].active} \cup (mine \ live)
        best == {k \in Slots : \A j \in Slots : collect[k].age <= collect[j].age}
    IN IF live # {} THEN Min(live) ELSE IF idle # {} THEN Min(idle) ELSE Min(best)

\* has_find_collect: the slot of this message if it is not too old, else one
\* that is free, else the oldest
FindCollect(mid) ==
    LET mine == {k \in Slots : collect[k].active /\ collect[k].mid = mid}
        live == {k \in mine : collect[k].age <= Timeout}
        idle == {k \in Slots : ~collect[k].active} \cup (mine \ live)
        best == {k \in Slots : \A j \in Slots : collect[k].age >= collect[j].age}
    IN IF live # {} THEN Min(live) ELSE IF idle # {} THEN Min(idle) ELSE Min(best)

\* The slot with page p of a message of size s: begun again when it was free,
\* too old, another message's or of another size.
Stored(mid, s, p) ==
    LET c   == collect[FindCollect(mid)]
        own == c.active /\ c.mid = mid /\ c.age <= Timeout /\ c.ms = s
    IN IF ~own THEN [active |-> TRUE, mid |-> mid, ms |-> s, pages |-> {p}, age |-> 0]
       ELSE IF \E q \in c.pages : q.pid = p.pid THEN c
       ELSE [c EXCEPT !.pages = @ \cup {p}]

Full(c) == Cardinality(c.pages) >= c.ms
Mixed(c) == \E p, q \in c.pages : p.earlier # q.earlier

\* has_input_page and has_complete, for a page of the message that is followed
InputPage(pid) ==
    LET c == Stored(Mid, ms, [pid |-> pid, earlier |-> FALSE])
    IN /\ collect' = [collect EXCEPT ![FindCollect(Mid)] = IF Full(c) THEN Idle ELSE c]
       /\ told' = (told \/ (Full(c) /\ ~Mixed(c)))
       /\ garbage' = (garbage \/ (Full(c) /\ Mixed(c) /\ quiet))
       /\ came' = came \cup {pid}
       /\ last' = [last EXCEPT ![ms] = 0]
       /\ UNCHANGED <<ms, waited, rivals, quiet>>

\* ... and for a page of another one
InputOther(mid, pid) ==
    LET c == Stored(mid, OtherSize, [pid |-> pid, earlier |-> FALSE])
    IN /\ collect' = [collect EXCEPT ![FindCollect(mid)] = IF Full(c) THEN Idle ELSE c]
       /\ rivals' = rivals \cup {mid}
       /\ UNCHANGED <<ms, came, waited, last, quiet, told, garbage>>

\* HASS = 3: the service shall not be used
Flush ==
    /\ collect' = [k \in Slots |-> Idle]
    /\ came' = {} /\ told' = FALSE
    /\ UNCHANGED <<ms, waited, rivals, last, quiet, garbage>>

\* The provider uses the number for its next message.
NextMessage ==
    /\ ms' \in Sizes /\ quiet' = (last[ms'] > Timeout)
    /\ collect' = [k \in Slots |->
         IF collect[k].mid # Mid THEN collect[k]
         ELSE [collect[k] EXCEPT !.pages = {[p EXCEPT !.earlier = TRUE] : p \in @}]]
    /\ came' = {} /\ waited' = 0 /\ told' = FALSE
    /\ UNCHANGED <<rivals, last, garbage>>

\* Rivals of a second before that of the first page do not count.
Second ==
    /\ collect' = [k \in Slots |-> [collect[k] EXCEPT !.age = IF collect[k].active THEN Aged(@) ELSE 0]]
    /\ waited' = IF came = {} THEN 0 ELSE Aged(waited)
    /\ rivals' = IF came = {} THEN {} ELSE rivals
    /\ last' = [s \in Sizes |-> Aged(last[s])]
    /\ UNCHANGED <<ms, came, quiet, told, garbage>>

PagesNext ==
    \/ \E pid \in Pids : InputPage(pid)
    \/ \E mid \in Mids \ {Mid}, pid \in OtherPids : InputOther(mid, pid)
    \/ Flush \/ NextMessage \/ Second

-----------------------------------------------------------------------------
\* A message of which enough pages have come in time is given back, as long as
\* the slots suffice for the messages that were sent meanwhile; the left-over
\* pages of messages that are complete, which are collected once more, do not
\* drive it out.
GivenBack ==
    /\ Cardinality(came) >= ms /\ waited <= Timeout /\ quiet
    /\ Cardinality(rivals) < InFlight
    => told

\* What is given back is of one message, although left-over pages of the last
\* message with this number wait in a slot, if no page of a message of this
\* size and number came in the time of a collection before it.
HasInv == GivenBack /\ ~garbage
=============================================================================
