------------------------------ MODULE MCInputs ------------------------------
(* Inputs on small instances.                                               *)
EXTENDS Inputs
CONSTANTS m1, m2, m3, pa, pb, pc, pd

MCEphs    == {[iode |-> 0, toe |-> 10], [iode |-> 1, toe |-> 20]}
Rover     == {0}
RoverBase == {0, 1}
Third     == {2}
MCNets    == {"n1"}

\* epochs of the base at those of the rover, a little off them and in between
MCBases    == {{}, {1, 3, 8}, {6}, {3, 6}}
\* both frequencies at both receivers, or one of them at the rover
MCViews    == {[r \in Recv |-> F], [r \in Recv |-> IF r = 1 THEN {1} ELSE F]}
\* two masks of one satellite, and one of another with the issue of the first
MCSatMasks  == <<<< <<pa, pb>>, <<pb, pc>> >>, << <<pc, pb>> >>>>
MCGridMasks == <<<< <<pa, pb, pc>>, <<pb, pc, pd>> >>, << <<pd, pa, pb>> >>>>
MCHalves    == {<<2>>, <<1, 0>>}
\* the receiver whose phase slips
RoverSlips == {<<1, 1>>}
BaseSlips  == {<<2, 1>>}
=============================================================================
