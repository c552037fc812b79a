---------------------------- MODULE LivePlaylist ----------------------------
(***************************************************************************)
(* What a live HLS media playlist promises its players (RFC 8216, 6.2.2),  *)
(* whatever produces it: from publication to publication the media         *)
(* sequence only grows, and the discontinuity sequence grows by exactly    *)
(* the number of tagged segments that left the playlist.  A player that    *)
(* fetches it gets the current one.  Who listens is told of playlists that *)
(* can be fetched already, in order: late, or not of all of them, but      *)
(* never of the same one twice.  The stream service implements this        *)
(* specification (StreamService!Abstract).                                 *)
(***************************************************************************)
EXTENDS Integers, FiniteSets

CONSTANTS Tagged,   \* the global segment numbers that carry a discontinuity tag
          Player,   \* who fetches playlists
          Listener  \* who is told of them

VARIABLES mediaSeq,  \* -1 until the first playlist is published
          discSeq,   \* 0 until then
          fetched,   \* the playlist each player fetched last
          told       \* the playlist each listener was told of last

vars == <<mediaSeq, discSeq, fetched, told>>

Init == /\ mediaSeq = -1
        /\ discSeq = 0
        /\ fetched = [p \in Player |-> -1]
        /\ told = [l \in Listener |-> -1]

\* The first playlist may start anywhere: the tags before it are counted as if
\* they had been published and removed.
First == /\ mediaSeq = -1
         /\ mediaSeq' \in Nat
         /\ discSeq' = Cardinality(Tagged \cap 0 .. mediaSeq' - 1)
         /\ UNCHANGED <<fetched, told>>

\* One or more segments leave the playlist at once.
Slide == /\ mediaSeq # -1
         /\ mediaSeq' \in Nat
         /\ mediaSeq' > mediaSeq
         /\ discSeq' = discSeq + Cardinality(Tagged \cap mediaSeq .. mediaSeq' - 1)
         /\ UNCHANGED <<fetched, told>>

Fetch(p) == /\ mediaSeq # -1
            /\ fetched' = [fetched EXCEPT ![p] = mediaSeq]
            /\ UNCHANGED <<mediaSeq, discSeq, told>>

Tell(l) == /\ \E k \in 0 .. mediaSeq : /\ k > told[l]
                                       /\ told' = [told EXCEPT ![l] = k]
           /\ UNCHANGED <<mediaSeq, discSeq, fetched>>

\* A listener begins anew.
Listen(l) == /\ told' = [told EXCEPT ![l] = -1]
             /\ UNCHANGED <<mediaSeq, discSeq, fetched>>

Next == \/ First \/ Slide
        \/ \E p \in Player : Fetch(p)
        \/ \E l \in Listener : Tell(l) \/ Listen(l)

Spec == Init /\ [][Next]_vars
=============================================================================
