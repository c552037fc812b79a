-------------------------- MODULE MCStreamService --------------------------
(***************************************************************************)
(* StreamService on seven segments of one to three units, the first of     *)
(* which comes again as the third: enough for files to be evicted and for *)
(* a lap to end within MaxTime.                                            *)
(***************************************************************************)
EXTENDS StreamService

MCName == 1..6

\* A lap of 11 units, half a second each.
MCSegments == [i \in 1..7 |-> [name     |-> <<1, 2, 1, 3, 4, 5, 6>>[i],
                               duration |-> <<1, 3, 3, 1, 1, 1, 1>>[i]]]
=============================================================================
