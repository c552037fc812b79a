------------------------------ MODULE Timeline ------------------------------
(***************************************************************************)
(* internal/stream/timeline.go: the pure arithmetic of the live stream.    *)
(* A finite manifest is repeated for ever; the global segment n is the     *)
(* manifest's segment n % N of lap n / N.  Times are naturals in an        *)
(* arbitrary unit (the code's nanoseconds; int64 overflow, 292 years after *)
(* the epoch, is out of the model).                                        *)
(*                                                                         *)
(* Sequence indices are 1-based in TLA+, so starts[i] of the code is       *)
(* acc[i] here (the time before the segment Segments[i + 1]).              *)
(*                                                                         *)
(* Operators named ...Mutant... are deliberately wrong variants of the     *)
(* operator that follows them; no definition uses them.                    *)
(***************************************************************************)
EXTENDS Naturals, Sequences, FiniteSets, FiniteSetsExt

CONSTANTS Name,      \* file names
          Segments,  \* the manifest's segments, in order
          Second     \* time units in a second

WindowSize == 3

\* What NewTimeline (and ParseManifest before it) accepts.
ASSUME SegmentsAssumption ==
    /\ Segments \in Seq([name : Name, duration : Nat \ {0}])
    /\ Len(Segments) >= WindowSize

ASSUME SecondAssumption == Second \in Nat \ {0}

N == Len(Segments)

-----------------------------------------------------------------------------
(* NewTimeline *)

\* acc[i]: the duration of the first i segments of a lap.
acc[i \in 0..N] == IF i = 0 THEN 0 ELSE acc[i - 1] + Segments[i].duration

total == acc[N]

longest == Max({Segments[i].duration : i \in 1..N})

targetMutantFloor == longest \div Second
target == (longest + Second - 1) \div Second

-----------------------------------------------------------------------------
segment(n) == Segments[(n % N) + 1]

publishAt(n) == (n \div N) * total + acc[n % N]

\* The names a tick needs: grace (k-1) and window (k..k+2) are required, the
\* segment of the next tick (k+3) is a prefetch unless it repeats one of them.
requiredMutantNoGrace(k) == {segment(n).name : n \in k .. (k + WindowSize - 1)}
required(k) ==
    LET first == IF k > 0 THEN k - 1 ELSE k
    IN  {segment(n).name : n \in first .. (k + WindowSize - 1)}

prefetchMutantLate(k) == {segment(k + WindowSize + 1).name} \ required(k)
prefetch(k) == {segment(k + WindowSize).name} \ required(k)

-----------------------------------------------------------------------------
(* WindowAt *)

mediaSequenceMutantStrict(elapsed) ==
    LET rem == elapsed % total
    IN  (elapsed \div total) * N
          + Max({0} \cup {j \in 0 .. N - 1 : acc[j] < rem})
mediaSequence(elapsed) ==
    LET rem == elapsed % total
    IN  (elapsed \div total) * N + Max({j \in 0 .. N - 1 : acc[j] <= rem})

discontinuitySequenceMutantEager(k) == k \div N
discontinuitySequence(k) == IF k >= 1 THEN (k - 1) \div N ELSE 0

entry(n) == [Name          |-> segment(n).name,
             Duration      |-> segment(n).duration,
             Discontinuity |-> n > 0 /\ n % N = 0]

entries(k) == [j \in 1..WindowSize |-> entry(k + j - 1)]

WindowAt(epoch, now) ==
    LET elapsed == IF now < epoch THEN 0 ELSE now - epoch
        k       == mediaSequence(elapsed)
    IN  [MediaSequence         |-> k,
         DiscontinuitySequence |-> discontinuitySequence(k),
         Entries               |-> entries(k),
         NextTick              |-> epoch + publishAt(k + 1)]

=============================================================================
