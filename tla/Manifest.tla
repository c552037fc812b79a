------------------------------ MODULE Manifest ------------------------------
(***************************************************************************)
(* From the manifest's lines to the segments of the stream: ParseManifest  *)
(* (internal/stream/manifest.go) line by line, then VerifyFiles and        *)
(* NewTimeline as main.go calls them.                                      *)
(*                                                                         *)
(* A line is what the parser makes of it.  The value of an EXTINF is given *)
(* in fractions of the clock's unit, Fractions of them in a unit: a        *)
(* duration is truncated, like the conversion to nanoseconds.  Durations   *)
(* whose sum overflows int64 (292 years) are out of the model.             *)
(***************************************************************************)
EXTENDS Integers, Sequences, FiniteSets

CONSTANTS Name,      \* what the other lines say
          ValidName, \* the names validateName accepts
          Values,    \* the numbers of EXTINF lines
          Fractions, \* fractions in a unit of time
          Files,     \* the files in the segments' directory
          MaxLines   \* bound on the length of the manifest

ASSUME NameAssumption == ValidName \subseteq Name
ASSUME ValuesAssumption == Values \subseteq Int
ASSUME FractionsAssumption == Fractions \in Nat \ {0}
ASSUME MaxLinesAssumption == MaxLines \in Nat

WindowSize == 3

Line == [is : {"extinf"}, value : Values]
          \cup [is : {"name"}, name : Name]
          \cup [is : {"comment",    \* also an empty line
                      "malformed",  \* an EXTINF that is no finite number
                      "unreadable"}]\* the scanner fails: too long, or I/O

VARIABLES
    lines,       \* the lines scanned so far
    segs,        \* segs
    pending,     \* pending
    havePending, \* havePending
    verdict      \* where start-up is: parsing, or past it, or an error

parser == <<lines, segs, pending, havePending, verdict>>

ParserInit == /\ lines = <<>>
              /\ segs = <<>>
              /\ pending = 0
              /\ havePending = FALSE
              /\ verdict = "parsing"

-----------------------------------------------------------------------------
(* ParseManifest *)

Scan(line) ==
    /\ verdict = "parsing"
    /\ Len(lines) < MaxLines
    /\ lines' = Append(lines, line)

Reject(line) == /\ Scan(line)
                /\ verdict' = "rejected"
                /\ UNCHANGED <<segs, pending, havePending>>

Comment(line) == /\ line.is = "comment"
                 /\ Scan(line)
                 /\ UNCHANGED <<segs, pending, havePending, verdict>>

\* parseExtInf on a finite number.
Positive(v) == v > 0

ExtInf(line) ==
    /\ line.is = "extinf"
    /\ Positive(line.value)
    /\ Scan(line)
    /\ pending' = line.value \div Fractions
    /\ havePending' = TRUE
    /\ UNCHANGED <<segs, verdict>>

Segment(line) ==
    /\ line.is = "name"
    /\ havePending
    /\ line.name \in ValidName
    /\ Scan(line)
    /\ segs' = Append(segs, [name |-> line.name, duration |-> pending])
    /\ havePending' = FALSE
    /\ UNCHANGED <<pending, verdict>>

InvalidExtInf(line) ==
    /\ \/ line.is = "malformed"
       \/ line.is = "extinf" /\ ~Positive(line.value)
    /\ Reject(line)

InvalidSegment(line) ==
    /\ line.is = "name"
    /\ ~havePending \/ line.name \notin ValidName
    /\ Reject(line)

\* Mutant: the scanner's error is not looked at.
ScannerFailsMutantIgnored(line) ==
    /\ line.is = "unreadable"
    /\ Scan(line)
    /\ verdict' = IF Len(segs) < WindowSize THEN "rejected" ELSE "parsed"
    /\ UNCHANGED <<segs, pending, havePending>>

\* Scan returns false, and Err says why.
ScannerFails(line) == line.is = "unreadable" /\ Reject(line)

EndOfFile ==
    /\ verdict = "parsing"
    /\ verdict' = IF Len(segs) < WindowSize THEN "rejected" ELSE "parsed"
    /\ UNCHANGED <<lines, segs, pending, havePending>>

-----------------------------------------------------------------------------
(* main.go *)

VerifyFiles ==
    /\ verdict = "parsed"
    /\ verdict' = IF \A i \in DOMAIN segs : segs[i].name \in Files
                  THEN "verified" ELSE "rejected"
    /\ UNCHANGED <<lines, segs, pending, havePending>>

\* Mutant: durations are taken to be those ParseManifest looked at.
NewTimelineMutantTrusts ==
    /\ verdict = "verified"
    /\ verdict' = "ready"
    /\ UNCHANGED <<lines, segs, pending, havePending>>

\* A positive number may have been truncated to no duration at all.
NewTimeline ==
    /\ verdict = "verified"
    /\ verdict' = IF Len(segs) >= WindowSize /\ \A i \in DOMAIN segs : segs[i].duration > 0
                  THEN "ready" ELSE "rejected"
    /\ UNCHANGED <<lines, segs, pending, havePending>>

-----------------------------------------------------------------------------
ParserNext ==
    \/ \E line \in Line : \/ Comment(line) \/ ExtInf(line) \/ Segment(line)
                          \/ InvalidExtInf(line) \/ InvalidSegment(line)
                          \/ ScannerFails(line)
    \/ EndOfFile \/ VerifyFiles \/ NewTimeline

-----------------------------------------------------------------------------
(* What a manifest says *)

Is(i, kind) == lines[i].is = kind

\* The line that gives the duration of the name at line i: the last EXTINF,
\* if no other name has used it.
Declares(d, i) == /\ d < i
                  /\ Is(d, "extinf")
                  /\ \A j \in d + 1 .. i - 1 : ~Is(j, "extinf") /\ ~Is(j, "name")

Valid(i) == /\ ~Is(i, "malformed") /\ ~Is(i, "unreadable")
            /\ Is(i, "extinf") => lines[i].value > 0
            /\ Is(i, "name") => /\ lines[i].name \in ValidName
                                /\ \E d \in 1 .. i - 1 : Declares(d, i)

NameLines == {i \in DOMAIN lines : Is(i, "name")}

\* The place in the stream of the name at line i.
Place(i) == Cardinality({j \in NameLines : j <= i})

\* The name at line i and the duration declared for it.
Says(i, s) == /\ s.name = lines[i].name
              /\ \E d \in 1 .. i - 1 : /\ Declares(d, i)
                                       /\ s.duration = lines[d].value \div Fractions

-----------------------------------------------------------------------------
(* Properties *)

ParserTypeOK ==
    /\ lines \in Seq(Line) /\ Len(lines) <= MaxLines
    /\ segs \in Seq([name : ValidName, duration : Nat])
    /\ pending \in Nat
    /\ havePending \in BOOLEAN
    /\ verdict \in {"parsing", "parsed", "verified", "ready", "rejected"}

\* The stream is made of the whole manifest, each segment with the duration
\* declared for it, or of nothing: no line is skipped, no duration is used
\* twice, and a manifest that could only be read in part is not one.  It is
\* refused only for a line that is wrong, for being too short, or for a segment
\* that has no file or no duration.
WholeManifestOrNothing ==
    /\ verdict = "ready" => /\ \A i \in DOMAIN lines : Valid(i)
                            /\ Len(segs) = Cardinality(NameLines)
                            /\ \A i \in NameLines : Says(i, segs[Place(i)])
    /\ verdict = "rejected" =>
          \/ \E i \in DOMAIN lines : ~Valid(i)
          \/ Cardinality(NameLines) < WindowSize
          \/ \E i \in NameLines : \/ lines[i].name \notin Files
                                  \/ Says(i, [name |-> lines[i].name, duration |-> 0])

\* What the arithmetic of the stream assumes of its segments (the assumption of
\* the module Timeline) holds of all it is given: in particular no lap lasts
\* nothing, by which WindowAt divides.
ReadySegmentsMakeATimeline ==
    verdict = "ready" => /\ Len(segs) >= WindowSize
                         /\ \A i \in DOMAIN segs : /\ segs[i].duration > 0
                                                   /\ segs[i].name \in Files

=============================================================================
