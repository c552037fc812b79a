--------------------------- MODULE TimelineCheck ---------------------------
(***************************************************************************)
(* From a manifest's lines to the windows on air: the composition of       *)
(* Manifest, which parses the lines and decides whether the server starts, *)
(* with Timeline, given the segments that were parsed.  Once start-up is   *)
(* over the worker starts its epoch and the clock advances by arbitrary    *)
(* steps, a step longer than a segment being a missed tick.  The           *)
(* properties compare the code's arithmetic (division by laps, binary      *)
(* search, modulo) with definitions by summation and by counting.          *)
(***************************************************************************)
EXTENDS Manifest

CONSTANTS Second,   \* units of time in a second
          Epoch,    \* when Run starts; a clock set back shows times before it
          MaxTime,  \* bound on the clock
          MaxStep   \* longest step of the clock

ASSUME SecondAssumption == Second \in Nat \ {0}
ASSUME ClockAssumption == Epoch \in Int /\ MaxTime \in Nat /\ MaxStep \in Nat

VARIABLE now  \* the clock

T == INSTANCE Timeline WITH Segments <- segs

StartInit == /\ ParserInit
             /\ now = 0

Parse == ParserNext /\ UNCHANGED now

Advance(d) == /\ verdict = "ready"
              /\ now + d <= MaxTime
              /\ now' = now + d
              /\ UNCHANGED parser

StartNext == Parse \/ \E d \in 1..MaxStep : Advance(d)

StartSpec == StartInit /\ [][StartNext]_<<parser, now>>

-----------------------------------------------------------------------------
(* Reference definitions *)

\* When the global segment n starts, by adding up the segments before it.
StartOf[n \in Nat] == IF n = 0 THEN 0 ELSE StartOf[n - 1] + T!segment(n - 1).duration

\* The discontinuity tags carried by the global segments lo .. hi - 1.
TagsIn(lo, hi) == Cardinality({n \in lo .. hi - 1 : T!entry(n).Discontinuity})

-----------------------------------------------------------------------------
(* Properties *)

window == T!WindowAt(Epoch, now)
seq == window.MediaSequence

\* For every manifest the server starts with, the published sequence is the
\* segment on air: the first entry has started and the next tick, strictly in
\* the future (so that Run never spins), is the instant the following segment
\* starts, laps and unequal durations included.
WindowOnAir ==
    verdict = "ready" =>
        /\ StartOf[seq] <= IF now < Epoch THEN 0 ELSE now - Epoch
        /\ now < window.NextTick
        /\ window.NextTick = Epoch + StartOf[seq + 1]

\* RFC 8216, 6.2.2: EXT-X-DISCONTINUITY-SEQUENCE grows by one for each tag that
\* leaves the playlist and by nothing else, however many segments leave at
\* once; and the sequence never goes back.
DiscontinuitySequenceCountsTags ==
    [][verdict = "ready" =>
          /\ seq' >= seq
          /\ window'.DiscontinuitySequence =
                 window.DiscontinuitySequence + TagsIn(seq, seq')]_<<parser, now>>

=============================================================================
