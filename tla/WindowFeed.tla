----------------------------- MODULE WindowFeed -----------------------------
(***************************************************************************)
(* What the players behind the hub rely on, whatever lies between: the     *)
(* feed has a newest window; a viewer is shown windows no newer than that  *)
(* and, as long as the feed lives, no older than the one it was shown      *)
(* before.  A feed that dies begins again, while the viewers' pages stay   *)
(* open and remember.  The hub implements this specification (Hub!Feed).   *)
(***************************************************************************)
EXTENDS Integers

CONSTANT Viewer

VARIABLES newest,     \* the newest window of the feed, -1 before the first
          shown,      \* the last window this feed showed each viewer
          remembered  \* the last window each viewer was shown by any feed

vars == <<newest, shown, remembered>>

Init == /\ newest = -1
        /\ shown = [v \in Viewer |-> -1]
        /\ remembered = [v \in Viewer |-> -1]

Forward == /\ newest' \in Nat
           /\ newest' > newest
           /\ UNCHANGED <<shown, remembered>>

\* A viewer may miss windows, and be shown the same one again.
Show(v) == /\ \E k \in 0 .. newest :
                 /\ k >= shown[v]
                 /\ shown' = [shown EXCEPT ![v] = k]
                 /\ remembered' = [remembered EXCEPT ![v] = k]
           /\ UNCHANGED newest

Restart == /\ newest' = -1
           /\ shown' = [v \in Viewer |-> -1]
           /\ UNCHANGED remembered

Next == Forward \/ Restart \/ \E v \in Viewer : Show(v)

Spec == Init /\ [][Next]_vars

-----------------------------------------------------------------------------
(* A property of every such feed *)

\* A viewer goes back only with the first window of another feed: to take a
\* lower sequence for a restart, as the player does, is right.
NoneBack == \A v \in Viewer : remembered'[v] < remembered[v] => shown[v] = -1

BackOnlyAfterRestart == [][NoneBack]_vars

=============================================================================
