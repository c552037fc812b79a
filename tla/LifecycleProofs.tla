-------------------------- MODULE LifecycleProofs --------------------------
(***************************************************************************)
(* The life of the process for every manifest and every set of             *)
(* connections.                                                            *)
(***************************************************************************)
EXTENDS TimelineCheck, Server, TLAPS, FiniteSetTheorems

-----------------------------------------------------------------------------
(* Reading the manifest: the inductive invariant *)

Reading == verdict \in {"parsing", "parsed", "verified", "ready"}

\* The segments are what the lines read so far say, in the order they say it.
SegmentsAreNames ==
    /\ Len(segs) = Cardinality(NameLines)
    /\ \A i \in NameLines : Place(i) \in DOMAIN segs /\ Says(i, segs[Place(i)])
    /\ \A n \in DOMAIN segs : \E i \in NameLines : Place(i) = n

\* A duration is pending when a name on the next line would be given one.
PendingIsDeclared ==
    /\ havePending => \E d \in DOMAIN lines : /\ Declares(d, Len(lines) + 1)
                                              /\ pending = lines[d].value \div Fractions
    /\ ~havePending => \A d \in DOMAIN lines : ~Declares(d, Len(lines) + 1)

\* Nothing is skipped: a start-up that goes on has read valid lines only.
ReadInFull ==
    /\ Reading => /\ \A i \in DOMAIN lines : Valid(i)
                  /\ SegmentsAreNames
    /\ verdict = "parsing" => PendingIsDeclared

\* What each stage of the start-up has made sure of.
StagesPassed ==
    /\ verdict \in {"parsed", "verified", "ready"} => Len(segs) >= WindowSize
    /\ verdict \in {"verified", "ready"} => \A n \in DOMAIN segs : segs[n].name \in Files
    /\ verdict = "ready" => \A n \in DOMAIN segs : segs[n].duration > 0

RejectedForCause ==
    verdict = "rejected" =>
        \/ \E i \in DOMAIN lines : ~Valid(i)
        \/ Cardinality(NameLines) < WindowSize
        \/ \E i \in NameLines : \/ lines[i].name \notin Files
                                \/ Says(i, [name |-> lines[i].name, duration |-> 0])

ManifestInv == ParserTypeOK /\ ReadInFull /\ StagesPassed /\ RejectedForCause

-----------------------------------------------------------------------------
(* One line more *)

\* What is said of the lines read so far does not change when one is appended.
LEMMA EarlierLinesKept ==
    ASSUME ParserTypeOK, NEW line \in Line, lines' = Append(lines, line)
    PROVE  /\ Len(lines) \in Nat /\ Len(lines') = Len(lines) + 1
           /\ DOMAIN lines = 1 .. Len(lines) /\ DOMAIN lines' = 1 .. Len(lines) + 1
           /\ lines'[Len(lines) + 1] = line
           /\ \A i \in 1 .. Len(lines) : lines'[i] = lines[i]
<1> QED
  BY DEF ParserTypeOK

\* Whether a line declares the duration of a name depends on the lines up to it.
LEMMA DeclaresKept ==
    ASSUME ParserTypeOK, NEW line \in Line, lines' = Append(lines, line),
           NEW i \in 1 .. Len(lines) + 1, NEW d \in 1 .. i - 1
    PROVE  Declares(d, i)' <=> Declares(d, i)
<1> QED
  BY EarlierLinesKept DEF Declares, Is

\* A valid line stays so.
LEMMA ValidKept ==
    ASSUME ParserTypeOK, NEW line \in Line, lines' = Append(lines, line),
           NEW i \in 1 .. Len(lines)
    PROVE  Valid(i)' <=> Valid(i)
<1>1. \A d \in 1 .. i - 1 : Declares(d, i)' <=> Declares(d, i)
  BY DeclaresKept, EarlierLinesKept
<1> QED
  BY <1>1, EarlierLinesKept DEF Valid, Is

\* The names read are finitely many lines.
LEMMA NameLinesFinite ==
    ASSUME ParserTypeOK
    PROVE  /\ NameLines \subseteq 1 .. Len(lines)
           /\ IsFiniteSet(NameLines)
           /\ Cardinality(NameLines) \in Nat
           /\ \A i \in NameLines : IsFiniteSet({j \in NameLines : j <= i})
<1>1. NameLines \subseteq 1 .. Len(lines) /\ Len(lines) \in Nat
  BY DEF ParserTypeOK, NameLines
<1>2. IsFiniteSet(1 .. Len(lines))
  BY <1>1, FS_Interval
<1>3. IsFiniteSet(NameLines)
  BY <1>1, <1>2, FS_Subset
<1>4. \A i \in NameLines : IsFiniteSet({j \in NameLines : j <= i})
  <2> TAKE i \in NameLines
  <2> {j \in NameLines : j <= i} \subseteq NameLines
    OBVIOUS
  <2> QED
    BY <1>3, FS_Subset
<1> QED
  BY <1>1, <1>3, <1>4, FS_CardinalityType

\* A line that is no name leaves the names where they are.
LEMMA OtherLine ==
    ASSUME ParserTypeOK, NEW line \in Line, lines' = Append(lines, line), line.is # "name"
    PROVE  /\ NameLines' = NameLines
           /\ \A i \in NameLines : Place(i)' = Place(i)
<1>1. NameLines' = NameLines
  BY EarlierLinesKept DEF NameLines, Is
<1>2. ASSUME NEW i \in NameLines PROVE Place(i)' = Place(i)
  BY <1>1 DEF Place
<1> QED
  BY <1>1, <1>2

\* A name comes last.
LEMMA NameLine ==
    ASSUME ParserTypeOK, NEW line \in Line, lines' = Append(lines, line), line.is = "name",
           NEW l \in Nat, l = Len(lines) + 1
    PROVE  /\ NameLines' = NameLines \cup {l} /\ l \notin NameLines
           /\ Cardinality(NameLines') = Cardinality(NameLines) + 1
           /\ \A i \in NameLines : Place(i)' = Place(i)
           /\ Place(l)' = Cardinality(NameLines) + 1
<1>1. NameLines' = NameLines \cup {l} /\ l \notin NameLines
  BY EarlierLinesKept DEF NameLines, Is
<1>2. Cardinality(NameLines \cup {l}) = Cardinality(NameLines) + 1
  BY <1>1, NameLinesFinite, FS_AddElement
<1>3. ASSUME NEW i \in NameLines PROVE Place(i)' = Place(i)
  <2>1. {j \in NameLines' : j <= i} = {j \in NameLines : j <= i}
    BY <1>1, EarlierLinesKept, NameLinesFinite
  <2> QED
    BY <2>1 DEF Place
<1>4. {j \in NameLines' : j <= l} = NameLines \cup {l}
  BY <1>1, EarlierLinesKept, NameLinesFinite
<1>5. Place(l)' = Cardinality(NameLines) + 1
  BY <1>2, <1>4 DEF Place
<1> QED
  BY <1>1, <1>2, <1>3, <1>5

-----------------------------------------------------------------------------
(* The invariant *)

\* What a name says is kept by the lines that follow it.
LEMMA SaysKept ==
    ASSUME ParserTypeOK, NEW line \in Line, lines' = Append(lines, line),
           NEW i \in 1 .. Len(lines), NEW s
    PROVE  Says(i, s)' <=> Says(i, s)
<1>1. \A d \in 1 .. i - 1 : /\ d \in 1 .. Len(lines)
                            /\ Declares(d, i)' <=> Declares(d, i)
  BY DeclaresKept, EarlierLinesKept
<1> QED
  BY <1>1, EarlierLinesKept DEF Says

\* A valid line that is no name leaves the segments those of the names.
LEMMA OtherLineKeepsSegments ==
    ASSUME ParserTypeOK, SegmentsAreNames, NEW line \in Line, lines' = Append(lines, line),
           line.is # "name", segs' = segs
    PROVE  SegmentsAreNames'
<1>1. \A i \in NameLines : i \in 1 .. Len(lines)
  BY NameLinesFinite
<1>2. ASSUME NEW i \in NameLines'
      PROVE  Place(i)' \in DOMAIN segs /\ Says(i, segs[Place(i)])'
  <2>1. i \in NameLines /\ Place(i)' = Place(i)
    BY OtherLine
  <2>2. Says(i, segs[Place(i)]) /\ Place(i) \in DOMAIN segs
    BY <2>1 DEF SegmentsAreNames
  <2> DEFINE s == segs[Place(i)]
  <2>3. \A t : Says(i, t) => Says(i, t)'
    BY <1>1, <2>1, SaysKept
  <2> QED
    BY <2>1, <2>2, <2>3
<1> QED
  BY <1>2, OtherLine DEF SegmentsAreNames

\* A valid line keeps the lines valid.
LEMMA OneMoreValid ==
    ASSUME ParserTypeOK, NEW line \in Line, lines' = Append(lines, line),
           \A i \in DOMAIN lines : Valid(i),
           NEW l \in Nat, l = Len(lines) + 1, Valid(l)'
    PROVE  (\A i \in DOMAIN lines : Valid(i))'
<1> QED
  BY EarlierLinesKept, ValidKept

\* The line that would declare the duration of a name on the line after next.
LEMMA DeclaresNext ==
    ASSUME ParserTypeOK, NEW line \in Line, lines' = Append(lines, line),
           NEW l \in Nat, l = Len(lines) + 1, NEW d \in 1 .. l
    PROVE  Declares(d, l + 1)' <=> \/ d = l /\ line.is = "extinf"
                                   \/ /\ d < l /\ Declares(d, l)
                                      /\ line.is \notin {"extinf", "name"}
<1>1. lines'[l] = line /\ \A i \in 1 .. Len(lines) : lines'[i] = lines[i]
  BY EarlierLinesKept
<1>2. CASE d = l
  BY <1>1, <1>2 DEF Declares, Is
<1>3. CASE d # l
  <2>1. \A j \in d + 1 .. l : j = l \/ (j \in d + 1 .. l - 1 /\ j \in 1 .. Len(lines))
    BY <1>3
  <2>2. d \in 1 .. Len(lines)
    BY <1>3, EarlierLinesKept
  <2> QED
    BY <1>1, <1>3, <2>1, <2>2 DEF Declares, Is
<1> QED
  BY <1>2, <1>3

\* Initially nothing has been read.
LEMMA ManifestInit == ParserInit => ManifestInv
<1> SUFFICES ASSUME ParserInit PROVE ManifestInv
  OBVIOUS
<1>1. ParserTypeOK
  <2>1. \A S : <<>> \in Seq(S) /\ Len(<<>>) = 0
    OBVIOUS
  <2>2. lines = <<>> /\ segs = <<>>
    BY DEF ParserInit
  <2>3. lines \in Seq(Line) /\ segs \in Seq([name : ValidName, duration : Nat])
    BY <2>1, <2>2
  <2>4. Len(lines) <= MaxLines
    BY <2>1, <2>2, MaxLinesAssumption
  <2> QED
    BY <2>3, <2>4 DEF ParserInit, ParserTypeOK
<1>2. NameLines = {}
  BY DEF ParserInit, NameLines
<1>3. Cardinality(NameLines) = 0
  BY <1>2, FS_EmptySet
<1>4. ReadInFull
  BY <1>1, <1>2, <1>3 DEF ParserInit, ReadInFull, SegmentsAreNames, PendingIsDeclared, ParserTypeOK
<1> QED
  BY <1>1, <1>4 DEF ParserInit, ManifestInv, StagesPassed, RejectedForCause

\* The type of what was read when one more line has been.
LEMMA ScanType ==
    ASSUME ParserTypeOK, NEW line \in Line, Scan(line)
    PROVE  /\ lines' = Append(lines, line)
           /\ lines' \in Seq(Line) /\ Len(lines') <= MaxLines
           /\ verdict = "parsing"
<1> QED
  BY MaxLinesAssumption DEF ParserTypeOK, Scan

\* A comment changes nothing.
LEMMA CommentKeeps ==
    ASSUME ManifestInv, NEW line \in Line, Comment(line)
    PROVE  ManifestInv'
<1> DEFINE l == Len(lines) + 1
<1>1. ParserTypeOK /\ lines' = Append(lines, line) /\ line.is = "comment" /\ verdict = "parsing"
  BY ScanType DEF ManifestInv, Comment
<1>2. ParserTypeOK'
  BY <1>1, ScanType DEF ParserTypeOK, Comment
<1>3. l \in Nat
  BY <1>1, EarlierLinesKept
<1>4. PICK m \in Nat : m = l
  BY <1>3
<1>5. Valid(m)'
  BY <1>1, <1>4, EarlierLinesKept DEF Valid, Is
<1>6. SegmentsAreNames'
  BY <1>1, OtherLineKeepsSegments DEF ManifestInv, ReadInFull, Reading, Comment
<1>7. PendingIsDeclared'
  <2>1. DOMAIN lines = 1 .. m - 1 /\ DOMAIN lines' = 1 .. m /\ Len(lines') = m
    BY <1>1, <1>4, EarlierLinesKept
  <2>2. \A d \in 1 .. m : Declares(d, m + 1)' <=> d < m /\ Declares(d, m)
    BY <1>1, <1>4, DeclaresNext
  <2>3. PendingIsDeclared
    BY <1>1 DEF ManifestInv, ReadInFull
  <2>4. \A d \in 1 .. m - 1 : lines'[d] = lines[d]
    BY <1>1, <1>4, EarlierLinesKept
  <2> QED
    BY <1>4, <2>1, <2>2, <2>3, <2>4 DEF PendingIsDeclared, Comment
<1> QED
  BY <1>1, <1>2, <1>4, <1>5, <1>6, <1>7, OneMoreValid
  DEF ManifestInv, ReadInFull, Reading, StagesPassed, RejectedForCause, Comment

\* A positive EXTINF makes its duration pending, whatever was pending before.
LEMMA ExtInfKeeps ==
    ASSUME ManifestInv, NEW line \in Line, ExtInf(line)
    PROVE  ManifestInv'
<1> DEFINE l == Len(lines) + 1
<1>1. /\ ParserTypeOK /\ lines' = Append(lines, line) /\ verdict = "parsing"
      /\ line.is = "extinf" /\ line.value > 0 /\ line.value \in Values
  BY ScanType DEF ManifestInv, ExtInf, Positive, Line
<1>2. ParserTypeOK'
  <2>1. \A n \in Nat : \A d \in Nat \ {0} : n \div d \in Nat
    OBVIOUS
  <2>2. line.value \in Nat
    <3>1. line.value \in Int
      BY <1>1, ValuesAssumption
    <3> QED
      BY <1>1, <3>1
  <2>3. line.value \div Fractions \in Nat
    BY <2>1, <2>2, FractionsAssumption
  <2> QED
    BY <1>1, <2>3, ScanType DEF ParserTypeOK, ExtInf
<1>3. PICK m \in Nat : m = l
  BY <1>1, EarlierLinesKept
<1>4. Valid(m)'
  BY <1>1, <1>3, EarlierLinesKept DEF Valid, Is
<1>5. SegmentsAreNames'
  BY <1>1, OtherLineKeepsSegments DEF ManifestInv, ReadInFull, Reading, ExtInf
<1>6. PendingIsDeclared'
  <2>1. DOMAIN lines' = 1 .. m /\ Len(lines') = m /\ lines'[m] = line /\ m \in 1 .. m
    BY <1>1, <1>3, EarlierLinesKept
  <2>2. Declares(m, m + 1)'
    BY <1>1, <1>3, <2>1, DeclaresNext
  <2> QED
    BY <2>1, <2>2 DEF PendingIsDeclared, ExtInf
<1> QED
  BY <1>1, <1>2, <1>3, <1>4, <1>5, <1>6, OneMoreValid
  DEF ManifestInv, ReadInFull, Reading, StagesPassed, RejectedForCause, ExtInf

\* A name with a duration pending becomes the last segment, and uses it up.
LEMMA SegmentKeeps ==
    ASSUME ManifestInv, NEW line \in Line, Segment(line)
    PROVE  ManifestInv'
<1> DEFINE l == Len(lines) + 1
           s == [name |-> line.name, duration |-> pending]
<1>1. /\ ParserTypeOK /\ lines' = Append(lines, line) /\ verdict = "parsing"
      /\ line.is = "name" /\ line.name \in ValidName /\ havePending
      /\ SegmentsAreNames /\ PendingIsDeclared
      /\ segs' = Append(segs, s)
  BY ScanType DEF ManifestInv, ReadInFull, Reading, Segment
<1>2. /\ Len(segs) \in Nat /\ Len(segs') = Len(segs) + 1 /\ segs'[Len(segs) + 1] = s
      /\ DOMAIN segs = 1 .. Len(segs) /\ DOMAIN segs' = 1 .. Len(segs) + 1
      /\ \A n \in DOMAIN segs : segs'[n] = segs[n]
      /\ segs' \in Seq([name : ValidName, duration : Nat])
  BY <1>1 DEF ParserTypeOK
<1>3. ParserTypeOK'
  BY <1>1, <1>2, ScanType DEF ParserTypeOK, Segment
<1>4. PICK m \in Nat : m = l
  BY <1>1, EarlierLinesKept
<1>5. /\ DOMAIN lines = 1 .. m - 1 /\ DOMAIN lines' = 1 .. m /\ Len(lines') = m
      /\ lines'[m] = line /\ \A d \in 1 .. m - 1 : lines'[d] = lines[d]
  BY <1>1, <1>4, EarlierLinesKept
<1>6. ASSUME NEW t, t = s PROVE Says(m, t)'
  <2>1. PICK d \in 1 .. m - 1 : /\ Declares(d, m)
                                /\ pending = lines[d].value \div Fractions
    BY <1>1, <1>4, <1>5 DEF PendingIsDeclared
  <2>2. Declares(d, m)'
    BY <1>1, <1>4, <2>1, DeclaresKept
  <2> QED
    BY <1>5, <1>6, <2>1, <2>2 DEF Says
<1>7. Valid(m)'
  BY <1>1, <1>5, <1>6 DEF Valid, Is, Says
<1>8. SegmentsAreNames'
  <2>1. /\ NameLines' = NameLines \cup {m}
        /\ Cardinality(NameLines') = Cardinality(NameLines) + 1
        /\ \A i \in NameLines : Place(i)' = Place(i)
        /\ Place(m)' = Len(segs) + 1
    BY <1>1, <1>4, NameLine DEF SegmentsAreNames
  <2>2. ASSUME NEW i \in NameLines
        PROVE  /\ Place(i)' \in DOMAIN segs'
               /\ \A t : t = segs'[Place(i)'] => Says(i, t)'
    <3>1. /\ Place(i)' = Place(i) /\ Place(i) \in DOMAIN segs
          /\ Says(i, segs[Place(i)]) /\ segs'[Place(i)] = segs[Place(i)]
      BY <1>1, <1>2, <2>1 DEF SegmentsAreNames
    <3>2. \A t : Says(i, t) => Says(i, t)'
      BY <1>1, SaysKept, NameLinesFinite
    <3> QED
      BY <1>2, <3>1, <3>2
  <2>3. \A t : t = segs'[Place(m)'] => Says(m, t)'
    BY <1>2, <1>6, <2>1
  <2>4. \A n \in DOMAIN segs' : \E i \in NameLines' : Place(i)' = n
    BY <1>1, <1>2, <2>1 DEF SegmentsAreNames
  <2>5. Len(segs') = Cardinality(NameLines')
    BY <1>1, <1>2, <2>1 DEF SegmentsAreNames
  <2> QED
    BY <1>2, <2>1, <2>2, <2>3, <2>4, <2>5 DEF SegmentsAreNames
<1>9. PendingIsDeclared'
  <2>1. \A d \in 1 .. m : ~Declares(d, m + 1)'
    BY <1>1, <1>4, DeclaresNext
  <2> QED
    BY <1>5, <2>1 DEF PendingIsDeclared, Segment
<1> QED
  BY <1>1, <1>3, <1>4, <1>7, <1>8, <1>9, OneMoreValid
  DEF ManifestInv, ReadInFull, Reading, StagesPassed, RejectedForCause, Segment

\* A line is refused for what it says, or for the duration it has not got.
LEMMA RejectKeeps ==
    ASSUME ManifestInv, NEW line \in Line,
           InvalidExtInf(line) \/ InvalidSegment(line) \/ ScannerFails(line)
    PROVE  ManifestInv'
<1> DEFINE l == Len(lines) + 1
<1>1. /\ ParserTypeOK /\ Reject(line) /\ Scan(line) /\ verdict = "parsing"
      /\ lines' = Append(lines, line) /\ PendingIsDeclared
  BY ScanType DEF ManifestInv, ReadInFull, InvalidExtInf, InvalidSegment, ScannerFails, Reject
<1>2. ParserTypeOK'
  BY <1>1, ScanType DEF ParserTypeOK, Reject
<1>3. PICK m \in Nat : m = l
  BY <1>1, EarlierLinesKept
<1>4. /\ DOMAIN lines = 1 .. m - 1 /\ DOMAIN lines' = 1 .. m /\ m \in 1 .. m
      /\ lines'[m] = line
  BY <1>1, <1>3, EarlierLinesKept
<1>5. ~Valid(m)'
  <2>1. CASE InvalidExtInf(line)
    BY <1>4, <2>1 DEF InvalidExtInf, Positive, Valid, Is
  <2>2. CASE InvalidSegment(line)
    <3>1. ~havePending => \A d \in 1 .. m - 1 : ~Declares(d, m)'
      BY <1>1, <1>3, <1>4, DeclaresKept DEF PendingIsDeclared
    <3> QED
      BY <1>4, <2>2, <3>1 DEF InvalidSegment, Valid, Is
  <2>3. CASE ScannerFails(line)
    BY <1>4, <2>3 DEF ScannerFails, Valid, Is
  <2> QED
    BY <2>1, <2>2, <2>3
<1> QED
  BY <1>1, <1>2, <1>4, <1>5
  DEF ManifestInv, ReadInFull, Reading, StagesPassed, RejectedForCause, Reject

\* What the lines say depends on nothing else.
LEMMA SameLines ==
    ASSUME lines' = lines
    PROVE  /\ NameLines' = NameLines
           /\ \A i : Place(i)' = Place(i)
           /\ \A i : Valid(i)' <=> Valid(i)
           /\ \A i, s : Says(i, s)' <=> Says(i, s)
           /\ \A d, i : Declares(d, i)' <=> Declares(d, i)
<1>1. NameLines' = NameLines
  BY DEF NameLines, Is
<1>2. ASSUME NEW i PROVE Place(i)' = Place(i)
  BY <1>1 DEF Place
<1>3. ASSUME NEW d, NEW i PROVE Declares(d, i)' <=> Declares(d, i)
  BY DEF Declares, Is
<1>4. ASSUME NEW i PROVE Valid(i)' <=> Valid(i)
  BY <1>3 DEF Valid, Is
<1>5. ASSUME NEW i, NEW s PROVE Says(i, s)' <=> Says(i, s)
  BY <1>3 DEF Says
<1> QED
  BY <1>1, <1>2, <1>3, <1>4, <1>5

\* The segments are still the names' when neither have changed.
LEMMA SegmentsKept ==
    ASSUME SegmentsAreNames, \A i \in DOMAIN lines : Valid(i),
           lines' = lines, segs' = segs
    PROVE  SegmentsAreNames' /\ (\A i \in DOMAIN lines : Valid(i))'
<1>1. ASSUME NEW i \in NameLines
      PROVE  Place(i)' \in DOMAIN segs /\ Says(i, segs[Place(i)])'
  <2>1. Place(i) \in DOMAIN segs /\ Says(i, segs[Place(i)]) /\ Place(i)' = Place(i)
    BY SameLines DEF SegmentsAreNames
  <2>2. \A s : Says(i, s)' <=> Says(i, s)
    BY SameLines
  <2> QED
    BY <2>1, <2>2
<1>2. SegmentsAreNames'
  BY <1>1, SameLines DEF SegmentsAreNames
<1> QED
  BY <1>2, SameLines

\* The end of the file: the names were too few, or all of them are segments.
LEMMA EndOfFileKeeps ==
    ASSUME ManifestInv, EndOfFile
    PROVE  ManifestInv'
<1>1. /\ verdict = "parsing" /\ verdict' \in {"parsed", "rejected"}
      /\ verdict' = "rejected" <=> Len(segs) < WindowSize
      /\ UNCHANGED <<lines, segs, pending, havePending>>
  BY DEF EndOfFile
<1>2. ParserTypeOK /\ Len(segs) \in Nat /\ SegmentsAreNames /\ \A i \in DOMAIN lines : Valid(i)
  BY <1>1 DEF ManifestInv, ParserTypeOK, ReadInFull, Reading
<1>3. ParserTypeOK'
  BY <1>1, <1>2 DEF ParserTypeOK
<1>4. ReadInFull'
  BY <1>1, <1>2, SegmentsKept DEF ReadInFull
<1>5. StagesPassed' /\ RejectedForCause'
  BY <1>1, <1>2, SameLines DEF StagesPassed, RejectedForCause, SegmentsAreNames, WindowSize
<1> QED
  BY <1>3, <1>4, <1>5 DEF ManifestInv

\* A segment without a file is a name without a file.
LEMMA VerifyFilesKeeps ==
    ASSUME ManifestInv, VerifyFiles
    PROVE  ManifestInv'
<1>1. /\ verdict = "parsed" /\ verdict' \in {"verified", "rejected"}
      /\ verdict' = "verified" <=> \A n \in DOMAIN segs : segs[n].name \in Files
      /\ UNCHANGED <<lines, segs, pending, havePending>>
  BY DEF VerifyFiles
<1>2. /\ ParserTypeOK /\ Len(segs) >= WindowSize
      /\ SegmentsAreNames /\ \A i \in DOMAIN lines : Valid(i)
  BY <1>1 DEF ManifestInv, StagesPassed, Reading, ReadInFull
<1>3. ParserTypeOK'
  BY <1>1, <1>2 DEF ParserTypeOK
<1>4. ReadInFull'
  BY <1>1, <1>2, SegmentsKept DEF ReadInFull
<1>5. StagesPassed'
  BY <1>1, <1>2 DEF StagesPassed
<1>6. RejectedForCause'
  <2>1. ASSUME NEW n \in DOMAIN segs, segs[n].name \notin Files
        PROVE  \E i \in NameLines : lines[i].name \notin Files
    BY <1>2, <2>1 DEF SegmentsAreNames, Says
  <2> QED
    BY <1>1, <1>2, <2>1, SameLines DEF RejectedForCause
<1> QED
  BY <1>3, <1>4, <1>5, <1>6 DEF ManifestInv

\* Sequences and their elements.
LEMMA ElementsMakeSeq ==
    ASSUME NEW S, NEW U, NEW s \in Seq(S), \A n \in DOMAIN s : s[n] \in U
    PROVE  s \in Seq(U)
<1>1. s = [n \in 1 .. Len(s) |-> s[n]] /\ Len(s) \in Nat /\ DOMAIN s = 1 .. Len(s)
  OBVIOUS
<1> QED
  BY <1>1

LEMMA ElementOf ==
    ASSUME NEW S, NEW s \in Seq(S), NEW n \in DOMAIN s
    PROVE  s[n] \in S
<1> QED
  OBVIOUS

\* A segment without a duration is a name whose EXTINF was truncated to nothing.
LEMMA NewTimelineKeeps ==
    ASSUME ManifestInv, NewTimeline
    PROVE  ManifestInv'
<1>1. /\ verdict = "verified" /\ verdict' \in {"ready", "rejected"}
      /\ verdict' = "ready" <=> /\ Len(segs) >= WindowSize
                                /\ \A n \in DOMAIN segs : segs[n].duration > 0
      /\ UNCHANGED <<lines, segs, pending, havePending>>
  BY DEF NewTimeline
<1>2. /\ ParserTypeOK /\ Len(segs) >= WindowSize
      /\ SegmentsAreNames /\ \A i \in DOMAIN lines : Valid(i)
      /\ \A n \in DOMAIN segs : segs[n].name \in Files
  BY <1>1 DEF ManifestInv, StagesPassed, Reading, ReadInFull
<1>3. ParserTypeOK'
  BY <1>1, <1>2 DEF ParserTypeOK
<1>4. ReadInFull'
  BY <1>1, <1>2, SegmentsKept DEF ReadInFull
<1>5. StagesPassed'
  BY <1>1, <1>2 DEF StagesPassed
<1>6. RejectedForCause'
  <2>1. ASSUME NEW n \in DOMAIN segs, ~(segs[n].duration > 0)
        PROVE  \E i \in NameLines : Says(i, [name |-> lines[i].name, duration |-> 0])
    <3>1. segs[n].duration = 0
      <4>1. segs \in Seq([name : ValidName, duration : Nat])
        BY <1>2 DEF ParserTypeOK
      <4>2. segs[n] \in [name : ValidName, duration : Nat]
        BY <4>1, ElementOf
      <4> QED
        BY <2>1, <4>2
    <3>2. PICK i \in NameLines : Says(i, segs[n])
      BY <1>2 DEF SegmentsAreNames
    <3> QED
      BY <3>1, <3>2 DEF Says
  <2> QED
    BY <1>1, <1>2, <2>1, SameLines DEF RejectedForCause
<1> QED
  BY <1>3, <1>4, <1>5, <1>6 DEF ManifestInv

\* The clock changes nothing.
LEMMA UnchangedKeeps ==
    ASSUME ManifestInv, UNCHANGED parser
    PROVE  ManifestInv'
<1>1. UNCHANGED <<lines, segs, pending, havePending, verdict>>
  BY DEF parser
<1>2. ParserTypeOK' /\ StagesPassed'
  BY <1>1 DEF ManifestInv, ParserTypeOK, StagesPassed
<1>3. RejectedForCause'
  BY <1>1, SameLines DEF ManifestInv, RejectedForCause
<1>4. PendingIsDeclared => PendingIsDeclared'
  BY <1>1, SameLines DEF PendingIsDeclared
<1>5. ReadInFull'
  BY <1>1, <1>4, SegmentsKept DEF ManifestInv, ReadInFull, Reading
<1> QED
  BY <1>2, <1>3, <1>5 DEF ManifestInv

\* No step of the start-up breaks the invariant.
LEMMA ManifestNextKeeps == ManifestInv /\ [ParserNext]_parser => ManifestInv'
<1> SUFFICES ASSUME ManifestInv, [ParserNext]_parser PROVE ManifestInv'
  OBVIOUS
<1>1. CASE \E line \in Line : \/ Comment(line) \/ ExtInf(line) \/ Segment(line)
                              \/ InvalidExtInf(line) \/ InvalidSegment(line)
                              \/ ScannerFails(line)
  BY <1>1, CommentKeeps, ExtInfKeeps, SegmentKeeps, RejectKeeps
<1>2. CASE EndOfFile \/ VerifyFiles \/ NewTimeline
  BY <1>2, EndOfFileKeeps, VerifyFilesKeeps, NewTimelineKeeps
<1>3. CASE UNCHANGED parser
  BY <1>3, UnchangedKeeps
<1> QED
  BY <1>1, <1>2, <1>3 DEF ParserNext

-----------------------------------------------------------------------------
(* The start-up and the clock: the stream the server starts with *)

StartInv == ManifestInv /\ now \in Nat

\* The clock moves only when start-up is over.
LEMMA StartInvariant == StartSpec => []StartInv
<1>1. StartInit => StartInv
  BY ManifestInit DEF StartInit, StartInv
<1>2. StartInv /\ [StartNext]_<<parser, now>> => StartInv'
  <2> SUFFICES ASSUME StartInv, [StartNext]_<<parser, now>> PROVE StartInv'
    OBVIOUS
  <2>1. CASE Parse \/ UNCHANGED <<parser, now>>
    BY <2>1, ManifestNextKeeps DEF Parse, StartInv
  <2>2. CASE \E d \in 1 .. MaxStep : Advance(d)
    BY <2>2, ClockAssumption, ManifestNextKeeps DEF Advance, StartInv
  <2> QED
    BY <2>1, <2>2 DEF StartNext
<1> QED
  BY <1>1, <1>2, PTL DEF StartSpec

\* The stream is made of the whole manifest or of nothing, and a server that
\* does not start has been given a cause (ParseManifest, VerifyFiles,
\* NewTimeline), whatever the lines.
THEOREM StreamIsTheManifest == StartSpec => []WholeManifestOrNothing
<1>1. StartInv => WholeManifestOrNothing
  BY DEF StartInv, ManifestInv, ReadInFull, Reading, SegmentsAreNames,
         RejectedForCause, WholeManifestOrNothing
<1> QED
  BY <1>1, StartInvariant, PTL

\* What is ready is what Timeline assumes of its segments.
THEOREM ReadyMakesATimeline == StartSpec => []ReadySegmentsMakeATimeline
<1>1. StartInv => ReadySegmentsMakeATimeline
  BY DEF StartInv, ManifestInv, StagesPassed, ReadySegmentsMakeATimeline
<1> QED
  BY <1>1, StartInvariant, PTL

-----------------------------------------------------------------------------
(* The windows on air *)

L == INSTANCE TimelineProofs WITH Segments <- segs

Ready == StartInv /\ verdict = "ready"

\* The assumption of Timeline on its segments is what the start-up establishes.
LEMMA ReadySegments ==
    ASSUME Ready
    PROVE  L!SegmentsAssumption
<1>1. /\ segs \in Seq([name : ValidName, duration : Nat]) /\ Len(segs) >= WindowSize
      /\ \A n \in DOMAIN segs : segs[n].duration > 0
  BY DEF Ready, StartInv, ManifestInv, ParserTypeOK, StagesPassed
<1>2. ASSUME NEW n \in DOMAIN segs
      PROVE  segs[n] \in [name : Name, duration : Nat \ {0}]
  <2>1. segs[n] \in [name : ValidName, duration : Nat] /\ segs[n].duration > 0
    BY <1>1, ElementOf
  <2> QED
    BY <2>1, NameAssumption
<1>3. segs \in Seq([name : Name, duration : Nat \ {0}])
  BY <1>1, <1>2, ElementsMakeSeq
<1> QED
  BY <1>1, <1>3 DEF L!SegmentsAssumption, L!WindowSize, WindowSize

\* The assumption of Timeline, on which every theorem about the stream rests,
\* holds of the segments of any stream that is ready (NewTimeline).
THEOREM TimelineAssumptionHolds ==
    StartSpec => [](verdict = "ready" => L!SegmentsAssumption)
<1>1. StartInv => (verdict = "ready" => L!SegmentsAssumption)
  BY ReadySegments DEF Ready
<1> QED
  BY <1>1, StartInvariant, PTL

\* The composition's arithmetic is that of the proofs.
LEMMA SameArithmetic ==
    /\ \A n : T!segment(n) = L!segment(n) /\ T!publishAt(n) = L!publishAt(n)
    /\ \A e : T!mediaSequence(e) = L!mediaSequence(e)
    /\ \A k : T!discontinuitySequence(k) = L!discontinuitySequence(k)
    /\ \A k : T!entry(k) = L!entry(k)
<1>1. T!N = L!N /\ T!acc = L!acc /\ T!total = L!total
  BY DEF T!N, L!N, T!acc, L!acc, T!total, L!total
<1>2. \A n : T!segment(n) = L!segment(n)
  BY <1>1 DEF T!segment, L!segment
<1>3. \A n : T!publishAt(n) = L!publishAt(n)
  BY <1>1 DEF T!publishAt, L!publishAt
<1>4. \A e : T!mediaSequence(e) = L!mediaSequence(e)
  BY <1>1 DEF T!mediaSequence, L!mediaSequence, T!Max, L!Max
<1>5. \A k : T!discontinuitySequence(k) = L!discontinuitySequence(k)
  BY <1>1 DEF T!discontinuitySequence, L!discontinuitySequence
<1>6. \A k : T!entry(k) = L!entry(k)
  BY <1>1, <1>2 DEF T!entry, L!entry
<1> QED
  BY <1>2, <1>3, <1>4, <1>5, <1>6

\* The instants by division are the instants by summation.
LEMMA StartOfIsPublishAt ==
    ASSUME Ready, NEW n \in Nat
    PROVE  StartOf[n] = L!publishAt(n)
<1> DEFINE Sums(f) == f = [i \in Nat |-> IF i = 0 THEN 0
                                         ELSE f[i - 1] + T!segment(i - 1).duration]
           g == [i \in Nat |-> L!publishAt(i)]
<1>1. L!SegmentsAssumption /\ L!SecondAssumption
  BY ReadySegments, SecondAssumption DEF L!SecondAssumption
<1>2. ASSUME NEW i \in Nat
      PROVE  g[i] = IF i = 0 THEN 0 ELSE g[i - 1] + T!segment(i - 1).duration
  <2>1. CASE i = 0
    BY <1>1, <2>1, L!PublishAtZero
  <2>2. CASE i # 0
    <3>1. i - 1 \in Nat /\ (i - 1) + 1 = i
      BY <2>2
    <3>2. L!publishAt((i - 1) + 1) = L!publishAt(i - 1) + L!segment(i - 1).duration
      BY <1>1, <3>1, L!PublishAtNext
    <3> QED
      BY <2>2, <3>1, <3>2, SameArithmetic
  <2> QED
    BY <2>1, <2>2
<1>3. \E f : Sums(f)
  <2>1. Sums(g)
    BY <1>2
  <2> QED
    BY <2>1
<1>4. Sums(StartOf)
  <2>1. StartOf = CHOOSE f : Sums(f)
    BY DEF StartOf
  <2> QED
    BY <1>3, <2>1
<1> DEFINE U == {i \in Nat : StartOf[i] = g[i]}
<1>5. 0 \in U
  BY <1>2, <1>4
<1>6. ASSUME NEW i \in Nat, i \in U PROVE i + 1 \in U
  <2>1. StartOf[i + 1] = StartOf[i] + T!segment(i).duration
    BY <1>4
  <2>2. g[i + 1] = g[i] + T!segment(i).duration
    BY <1>2
  <2> QED
    BY <1>6, <2>1, <2>2
<1>7. \A i \in Nat : i \in U
  <2> HIDE DEF U
  <2> QED
    BY <1>1, <1>5, <1>6, L!NatSetInduction
<1> QED
  BY <1>7

\* The time the stream has been on, and the window it is the time of.
Elapsed == IF now < Epoch THEN 0 ELSE now - Epoch

LEMMA WindowAtElapsed ==
    ASSUME Ready
    PROVE  /\ Elapsed \in Nat
           /\ seq = L!mediaSequence(Elapsed) /\ seq \in Nat
           /\ window.NextTick = Epoch + L!publishAt(seq + 1)
           /\ window.DiscontinuitySequence = L!discontinuitySequence(seq)
<1>1. Elapsed \in Nat
  BY ClockAssumption DEF Ready, StartInv, Elapsed
<1>2. L!SegmentsAssumption /\ L!SecondAssumption
  BY ReadySegments, SecondAssumption DEF L!SecondAssumption
<1>3. L!mediaSequence(Elapsed) \in Nat
  BY <1>1, <1>2, L!MediaSequenceOnAir
<1>4. window = [MediaSequence         |-> T!mediaSequence(Elapsed),
                DiscontinuitySequence |-> T!discontinuitySequence(T!mediaSequence(Elapsed)),
                Entries               |-> T!entries(T!mediaSequence(Elapsed)),
                NextTick              |-> Epoch + T!publishAt(T!mediaSequence(Elapsed) + 1)]
  BY DEF window, T!WindowAt, Elapsed
<1>5. /\ seq = T!mediaSequence(Elapsed)
      /\ window.NextTick = Epoch + T!publishAt(T!mediaSequence(Elapsed) + 1)
      /\ window.DiscontinuitySequence = T!discontinuitySequence(T!mediaSequence(Elapsed))
  BY <1>4 DEF seq
<1> QED
  BY <1>1, <1>3, <1>5, SameArithmetic

\* For every manifest the server starts with and at every instant, the first
\* entry published is the segment on air and the next tick is the start of the
\* segment after it (WindowAt), laps, unequal durations and an epoch in the
\* future included.
THEOREM PublishedIsOnAir == StartSpec => []WindowOnAir
<1>1. StartInv => WindowOnAir
  <2> SUFFICES ASSUME Ready PROVE WindowOnAir
    BY DEF Ready, WindowOnAir
  <2>1. L!SegmentsAssumption /\ L!SecondAssumption
    BY ReadySegments, SecondAssumption DEF L!SecondAssumption
  <2>2. /\ Elapsed \in Nat /\ seq = L!mediaSequence(Elapsed)
        /\ seq \in Nat /\ seq + 1 \in Nat
        /\ window.NextTick = Epoch + L!publishAt(seq + 1)
    BY WindowAtElapsed
  <2>3. L!publishAt(seq) <= Elapsed /\ Elapsed < L!publishAt(seq + 1)
    BY <2>1, <2>2, L!MediaSequenceOnAir
  <2>4. StartOf[seq] = L!publishAt(seq) /\ StartOf[seq + 1] = L!publishAt(seq + 1)
    BY <2>2, StartOfIsPublishAt
  <2>5. L!publishAt(seq + 1) \in Nat
    BY <2>1, <2>2, L!PublishAtType
  <2>6. now < window.NextTick
    BY <2>2, <2>3, <2>5, ClockAssumption DEF Elapsed, Ready, StartInv
  <2> QED
    BY <2>2, <2>3, <2>4, <2>6 DEF WindowOnAir, Elapsed
<1> QED
  BY <1>1, StartInvariant, PTL

\* The arithmetic is the same later on if the segments are.
LEMMA SameArithmeticLater ==
    ASSUME segs' = segs
    PROVE  /\ \A e : T!mediaSequence(e)' = T!mediaSequence(e)
           /\ \A k : T!discontinuitySequence(k)' = T!discontinuitySequence(k)
<1>1. T!N' = T!N
  BY DEF T!N
<1>2. T!acc' = T!acc
  BY <1>1 DEF T!acc
<1>3. T!total' = T!total
  BY <1>1, <1>2 DEF T!total
<1>4. \A e : T!mediaSequence(e)' = T!mediaSequence(e)
  BY <1>1, <1>2, <1>3 DEF T!mediaSequence, T!Max
<1>5. \A k : T!discontinuitySequence(k)' = T!discontinuitySequence(k)
  BY <1>1 DEF T!discontinuitySequence
<1> QED
  BY <1>4, <1>5

\* From one instant to a later one of the same stream.
LEMMA LaterWindow ==
    ASSUME Ready, segs' = segs, now' \in Nat, now' >= now
    PROVE  /\ seq \in Nat /\ seq' \in Nat /\ seq' >= seq
           /\ window'.DiscontinuitySequence =
                 window.DiscontinuitySequence + TagsIn(seq, seq')
<1>1. L!SegmentsAssumption /\ L!SecondAssumption
  BY ReadySegments, SecondAssumption DEF L!SecondAssumption
<1>2. /\ Elapsed \in Nat /\ seq = L!mediaSequence(Elapsed) /\ seq \in Nat
      /\ window.DiscontinuitySequence = L!discontinuitySequence(seq)
  BY WindowAtElapsed
<1>3. Elapsed' \in Nat /\ Elapsed' >= Elapsed
  <2>1. now \in Nat /\ Epoch \in Int
    BY ClockAssumption DEF Ready, StartInv
  <2>2. \A e \in Int : \A m, n \in Nat : n >= m =>
           LET f == IF m < e THEN 0 ELSE m - e
               g == IF n < e THEN 0 ELSE n - e
           IN  g \in Nat /\ g >= f
    OBVIOUS
  <2> QED
    BY <2>1, <2>2 DEF Elapsed
<1>4. PICK f \in Nat : f = Elapsed'
  BY <1>3
<1>5. seq' = T!mediaSequence(f)' /\ window'.DiscontinuitySequence = T!discontinuitySequence(seq)'
  BY <1>4 DEF seq, window, T!WindowAt, Elapsed
<1>6. seq' = L!mediaSequence(f)
  BY <1>5, SameArithmetic, SameArithmeticLater
<1>7. L!mediaSequence(f) \in Nat
  BY <1>1, L!MediaSequenceOnAir
<1>8. PICK h \in Nat : h = seq'
  BY <1>6, <1>7
<1>9. window'.DiscontinuitySequence = L!discontinuitySequence(h)
  <2>1. window'.DiscontinuitySequence = T!discontinuitySequence(h)'
    BY <1>5, <1>8
  <2> QED
    BY <2>1, SameArithmetic, SameArithmeticLater
<1>10. seq <= h
  <2>1. L!publishAt(seq) <= f
    BY <1>1, <1>2, <1>3, <1>4, L!MediaSequenceOnAir, L!PublishAtType
  <2> QED
    BY <1>1, <1>2, <1>6, <1>8, <2>1, L!MediaSequenceReaches
<1>11. L!discontinuitySequence(h) =
          L!discontinuitySequence(seq) + Cardinality(L!Tags \cap (seq .. h - 1))
  <2>1. \A S : L!Cardinality(S) = Cardinality(S)
    BY DEF L!Cardinality, Cardinality
  <2> QED
    BY <1>1, <1>2, <1>10, <2>1, L!DiscontinuityCountsTags
<1>12. L!Tags \cap (seq .. h - 1) = {n \in seq .. h - 1 : T!entry(n).Discontinuity}
  BY <1>2, SameArithmetic DEF L!Tags
<1> QED
  BY <1>2, <1>8, <1>9, <1>10, <1>11, <1>12 DEF TagsIn

\* However long a step of the clock, and however many segments and laps end in
\* it, the sequence never goes back and the discontinuity sequence grows by the
\* tags that left the playlist (WindowAt).
THEOREM DiscontinuitySequenceIsExact == StartSpec => DiscontinuitySequenceCountsTags
<1>1. StartInv /\ [StartNext]_<<parser, now>> =>
        [verdict = "ready" =>
           /\ seq' >= seq
           /\ window'.DiscontinuitySequence =
                 window.DiscontinuitySequence + TagsIn(seq, seq')]_<<parser, now>>
  <2> SUFFICES ASSUME StartInv, [StartNext]_<<parser, now>>, verdict = "ready"
               PROVE  /\ seq' >= seq
                      /\ window'.DiscontinuitySequence =
                            window.DiscontinuitySequence + TagsIn(seq, seq')
    OBVIOUS
  <2>1. ~ParserNext
    BY DEF ParserNext, Comment, ExtInf, Segment, InvalidExtInf, InvalidSegment, ScannerFails,
           Reject, Scan, EndOfFile, VerifyFiles, NewTimeline
  <2>2. segs' = segs /\ now' \in Nat /\ now' >= now
    BY <2>1, ClockAssumption DEF StartNext, Parse, Advance, parser, StartInv
  <2> QED
    BY <2>2, LaterWindow DEF Ready
<1> QED
  BY <1>1, StartInvariant, PTL DEF StartSpec, DiscontinuitySequenceCountsTags

-----------------------------------------------------------------------------
(* The process (the module Server): the inductive invariant *)

Echoes == {"canceled", "closed"}

\* Each of the two senders of errCh has sent at most once.
SentOnce == Len(errCh) <= (IF worker = "ended" THEN 1 ELSE 0)
                            + (IF http \in {"failed", "closed"} THEN 1 ELSE 0)

\* What is not a failure comes after a signal: the worker's context was done,
\* or Shutdown has been called, which only a signal leads to.
EchoMeansSignal ==
    /\ \A i \in 1..Len(errCh) : errCh[i] \in Echoes => signalled
    /\ main = "shutdown" => signalled
    /\ code = 0 => signalled

\* The goroutines start after the subscription, which lasts until run returns.
Stages ==
    /\ main \in {"go", "select", "shutdown", "unsubscribe"} => subscribed
    /\ main \in {"boot", "subscribe", "go"} => worker = "none"
    /\ http = "none" => \A c \in Connection : conn[c] = "none"
    /\ main \in {"boot", "subscribe", "go"} => http = "none"
    /\ main \in {"select", "shutdown"} => hub # "none"
    /\ http = "closed" => main \notin {"boot", "subscribe", "go", "select"}
    /\ main \notin {"unsubscribe", "close", "exited"} => code = -1 /\ ~expired

\* What Shutdown has waited for does not come back: nobody is let in.
ClosedToAll ==
    code = 0 /\ ~expired => http = "closed" /\ \A c \in Connection : conn[c] = "none"

ProcessInv == /\ TypeOK
              /\ SentOnce
              /\ EchoMeansSignal
              /\ Stages
              /\ FirstWindowReachesHub
              /\ ClosedToAll

-----------------------------------------------------------------------------
(* Lemmas *)

\* Appending to errCh keeps what is known of its elements.
LEMMA SendAppends ==
    ASSUME NEW s \in Seq({"tick", "listen", "canceled", "closed"}),
           NEW e \in {"tick", "listen", "canceled", "closed"}
    PROVE  /\ Append(s, e) \in Seq({"tick", "listen", "canceled", "closed"})
           /\ Len(Append(s, e)) = Len(s) + 1
           /\ \A i \in 1..Len(Append(s, e)) :
                 \/ Append(s, e)[i] = e
                 \/ i \in 1..Len(s) /\ Append(s, e)[i] = s[i]
<1> QED
  OBVIOUS

\* Taking the first element leaves the others.
LEMMA ReceiveTakes ==
    ASSUME NEW s \in Seq({"tick", "listen", "canceled", "closed"}), s # <<>>
    PROVE  /\ Tail(s) \in Seq({"tick", "listen", "canceled", "closed"})
           /\ Len(Tail(s)) = Len(s) - 1
           /\ \A i \in 1..Len(Tail(s)) : i + 1 \in 1..Len(s) /\ Tail(s)[i] = s[i + 1]
           /\ Head(s) = s[1] /\ 1 \in 1..Len(s)
OBVIOUS

\* Nothing runs and nothing has been sent.
LEMMA InitIInv == Init => ProcessInv
<1> SUFFICES ASSUME Init PROVE ProcessInv
    OBVIOUS
<1>1. errCh \in Seq({"tick", "listen", "canceled", "closed"}) /\ Len(errCh) = 0
    BY DEF Init
<1>2. TypeOK
  <2>1. /\ signalled \in BOOLEAN /\ subscribed \in BOOLEAN /\ events \in BOOLEAN
        /\ published \in BOOLEAN /\ expired \in BOOLEAN
    BY DEF Init
  <2>2. conn \in [Connection -> {"none", "query", "sse", "stuck", "download"}]
    BY DEF Init
  <2>3. /\ main = "boot" /\ code = -1 /\ worker = "none" /\ hub = "none"
        /\ janitor = "none" /\ http = "none"
    BY DEF Init
  <2> QED
    BY <1>1, <2>1, <2>2, <2>3 DEF TypeOK
<1>3. SentOnce /\ EchoMeansSignal
    BY <1>1 DEF Init, SentOnce, EchoMeansSignal
<1>4. Stages /\ FirstWindowReachesHub /\ ClosedToAll
    BY DEF Init, Stages, FirstWindowReachesHub, ClosedToAll
<1> QED
    BY <1>2, <1>3, <1>4 DEF ProcessInv

-----------------------------------------------------------------------------
(* run *)

\* The start-up goes on or fails before any goroutine exists.
LEMMA BootKeeps == ProcessInv /\ Boot => ProcessInv'
BY DEF Boot, ProcessInv, TypeOK, SentOnce, EchoMeansSignal, Echoes, Stages,
       FirstWindowReachesHub, ClosedToAll, goroutines

\* The subscription precedes the goroutines.
LEMMA SubscribeKeeps == ProcessInv /\ Subscribe => ProcessInv'
BY DEF Subscribe, ProcessInv, TypeOK, SentOnce, EchoMeansSignal, Echoes, Stages,
       FirstWindowReachesHub, ClosedToAll, goroutines

\* Four goroutines start, none of which has sent.
LEMMA GoKeeps == ProcessInv /\ Go => ProcessInv'
<1> SUFFICES ASSUME ProcessInv, Go PROVE ProcessInv'
    OBVIOUS
<1>1. TypeOK'
    BY DEF ProcessInv, TypeOK, Go, goroutines
<1>2. SentOnce'
    BY DEF ProcessInv, TypeOK, SentOnce, Stages, Go, goroutines
<1>3. EchoMeansSignal'
    BY DEF ProcessInv, EchoMeansSignal, Go, goroutines
<1>4. Stages' /\ FirstWindowReachesHub' /\ ClosedToAll'
    BY DEF ProcessInv, TypeOK, Stages, FirstWindowReachesHub, ClosedToAll, Go,
       goroutines
<1> QED
    BY <1>1, <1>2, <1>3, <1>4 DEF ProcessInv

\* Shutdown begins because of a signal.
LEMMA OnSignalKeeps == ProcessInv /\ OnSignal => ProcessInv'
BY DEF OnSignal, ProcessInv, TypeOK, SentOnce, EchoMeansSignal, Echoes, Stages,
       FirstWindowReachesHub, ClosedToAll, goroutines

\* What is received is a failure, or the echo of a signal.
LEMMA OnErrorKeeps == ProcessInv /\ OnError => ProcessInv'
<1> SUFFICES ASSUME ProcessInv, OnError PROVE ProcessInv'
    OBVIOUS
<1>1. /\ errCh' \in Seq({"tick", "listen", "canceled", "closed"})
      /\ Len(errCh') = Len(errCh) - 1
      /\ \A i \in 1..Len(errCh') : i + 1 \in 1..Len(errCh) /\ errCh'[i] = errCh[i + 1]
      /\ Head(errCh) = errCh[1] /\ 1 \in 1..Len(errCh)
      /\ Len(errCh) \in Nat
  <2>1. errCh \in Seq({"tick", "listen", "canceled", "closed"}) /\ errCh # <<>>
    BY DEF ProcessInv, TypeOK, OnError
  <2> QED
    BY <2>1, ReceiveTakes DEF OnError
<1>2. Head(errCh) \in Failures \/ signalled
    BY <1>1 DEF ProcessInv, TypeOK, EchoMeansSignal, Echoes, Failures
<1>3. SentOnce'
    BY <1>1 DEF ProcessInv, SentOnce, TypeOK, OnError, goroutines
<1>4. EchoMeansSignal'
    BY <1>1, <1>2 DEF ProcessInv, EchoMeansSignal, Stages, TypeOK, OnError,
       goroutines
<1>5. TypeOK'
    BY <1>1 DEF ProcessInv, TypeOK, OnError, goroutines
<1>6. Stages' /\ FirstWindowReachesHub' /\ ClosedToAll'
    BY DEF ProcessInv, TypeOK, Stages, FirstWindowReachesHub, ClosedToAll,
       OnError, goroutines
<1> QED
    BY <1>3, <1>4, <1>5, <1>6 DEF ProcessInv

\* ListenAndServe returns because of Shutdown, unless it had failed.
LEMMA CloseListenerKeeps == ProcessInv /\ CloseListener => ProcessInv'
<1> SUFFICES ASSUME ProcessInv, CloseListener PROVE ProcessInv'
    OBVIOUS
<1>1. \/ errCh' = errCh
      \/ errCh' = Append(errCh, "closed") /\ signalled
    BY DEF CloseListener, Send, ProcessInv, EchoMeansSignal
<1>2. /\ errCh' \in Seq({"tick", "listen", "canceled", "closed"})
      /\ Len(errCh') = Len(errCh) \/ Len(errCh') = Len(errCh) + 1
      /\ \A i \in 1..Len(errCh') : errCh'[i] \in Echoes => signalled
      /\ Len(errCh) \in Nat
    BY <1>1, SendAppends DEF ProcessInv, TypeOK, EchoMeansSignal, Echoes
<1>3. SentOnce'
    BY <1>1, <1>2, SendAppends DEF ProcessInv, SentOnce, TypeOK, CloseListener
<1>4. EchoMeansSignal'
    BY <1>2 DEF ProcessInv, EchoMeansSignal, CloseListener
<1>5. TypeOK'
    BY <1>2, <1>3 DEF ProcessInv, TypeOK, SentOnce, CloseListener
<1>6. Stages' /\ FirstWindowReachesHub' /\ ClosedToAll'
    BY DEF ProcessInv, TypeOK, Stages, FirstWindowReachesHub, ClosedToAll,
       CloseListener
<1> QED
    BY <1>3, <1>4, <1>5, <1>6 DEF ProcessInv

\* The listener is closed and no connection is left.
LEMMA ShutdownEndsKeeps == ProcessInv /\ ShutdownEnds => ProcessInv'
BY DEF ShutdownEnds, ProcessInv, TypeOK, SentOnce, EchoMeansSignal, Echoes, Stages,
       FirstWindowReachesHub, ClosedToAll, goroutines

\* The shutdown was forced.
LEMMA ShutdownExpiresKeeps == ProcessInv /\ ShutdownExpires => ProcessInv'
BY DEF ShutdownExpires, ProcessInv, TypeOK, SentOnce, EchoMeansSignal, Echoes,
   Stages,
       FirstWindowReachesHub, ClosedToAll, goroutines

\* The subscription ends after the select.
LEMMA UnsubscribeKeeps == ProcessInv /\ Unsubscribe => ProcessInv'
<1> SUFFICES ASSUME ProcessInv, Unsubscribe PROVE ProcessInv'
    OBVIOUS
<1>1. TypeOK'
  <2>1. subscribed' \in BOOLEAN
    BY DEF Unsubscribe
  <2>2. /\ main' = "close"
        /\ UNCHANGED <<code, signalled, errCh, events, worker, published, hub,
                       janitor, http, conn, expired>>
    BY DEF Unsubscribe, goroutines
  <2> QED
    BY <2>1, <2>2 DEF ProcessInv, TypeOK
<1>2. SentOnce'
    BY DEF ProcessInv, TypeOK, SentOnce, Stages, Unsubscribe, goroutines
<1>3. EchoMeansSignal'
    BY DEF ProcessInv, EchoMeansSignal, Unsubscribe, goroutines
<1>4. Stages' /\ FirstWindowReachesHub' /\ ClosedToAll'
    BY DEF ProcessInv, TypeOK, Stages, FirstWindowReachesHub, ClosedToAll,
       Unsubscribe, goroutines
<1> QED
    BY <1>1, <1>2, <1>3, <1>4 DEF ProcessInv

\* The process ends.
LEMMA CloseKeeps == ProcessInv /\ Close => ProcessInv'
BY DEF Close, ProcessInv, TypeOK, SentOnce, EchoMeansSignal, Echoes, Stages,
       FirstWindowReachesHub, ClosedToAll, goroutines

-----------------------------------------------------------------------------
(* The goroutines *)

\* The first window goes to whoever is subscribed.
LEMMA WorkerPublishesKeeps == ProcessInv /\ WorkerPublishes => ProcessInv'
BY DEF WorkerPublishes, Alive, ProcessInv, TypeOK, SentOnce, EchoMeansSignal,
   Echoes, Stages,
       FirstWindowReachesHub, ClosedToAll, goroutines

\* The worker sends its error once: it has ended.
LEMMA WorkerEndsKeeps == ProcessInv /\ WorkerEnds => ProcessInv'
<1> SUFFICES ASSUME ProcessInv, WorkerEnds PROVE ProcessInv'
    OBVIOUS
<1>1. \/ errCh' = errCh
      \/ errCh' = Append(errCh, "tick")
      \/ errCh' = Append(errCh, "canceled") /\ signalled
    BY DEF WorkerEnds, Send, ProcessInv, EchoMeansSignal
<1>2. /\ errCh' \in Seq({"tick", "listen", "canceled", "closed"})
      /\ Len(errCh') = Len(errCh) \/ Len(errCh') = Len(errCh) + 1
      /\ \A i \in 1..Len(errCh') : errCh'[i] \in Echoes => signalled
      /\ Len(errCh) \in Nat
    BY <1>1, SendAppends DEF ProcessInv, TypeOK, EchoMeansSignal, Echoes
<1>3. SentOnce'
    BY <1>1, <1>2, SendAppends DEF ProcessInv, SentOnce, TypeOK, WorkerEnds
<1>4. EchoMeansSignal'
    BY <1>2 DEF ProcessInv, EchoMeansSignal, WorkerEnds
<1>5. TypeOK'
    BY <1>2, <1>3 DEF ProcessInv, TypeOK, SentOnce, WorkerEnds
<1>6. Stages' /\ FirstWindowReachesHub' /\ ClosedToAll'
    BY DEF ProcessInv, TypeOK, Stages, FirstWindowReachesHub, ClosedToAll,
       WorkerEnds
<1> QED
    BY <1>3, <1>4, <1>5, <1>6 DEF ProcessInv

\* The hub ends after the signal.
LEMMA HubClosesKeeps == ProcessInv /\ HubCloses => ProcessInv'
BY DEF HubCloses, Alive, ProcessInv, TypeOK, SentOnce, EchoMeansSignal,
   Echoes, Stages,
       FirstWindowReachesHub, ClosedToAll, goroutines

\* The janitor uses the pool.
LEMMA JanitorQueriesKeeps == ProcessInv /\ JanitorQueries => ProcessInv'
BY DEF JanitorQueries, Alive, ProcessInv, TypeOK, SentOnce, EchoMeansSignal,
   Echoes, Stages,
       FirstWindowReachesHub, ClosedToAll, goroutines

\* The janitor waits or ends.
LEMMA JanitorGoesOnKeeps == ProcessInv /\ JanitorGoesOn => ProcessInv'
BY DEF JanitorGoesOn, Alive, ProcessInv, TypeOK, SentOnce, EchoMeansSignal,
   Echoes, Stages,
       FirstWindowReachesHub, ClosedToAll, goroutines

\* The HTTP server sends its error once: it has failed.
LEMMA ListenKeeps == ProcessInv /\ Listen => ProcessInv'
<1> SUFFICES ASSUME ProcessInv, Listen PROVE ProcessInv'
    OBVIOUS
<1>1. \/ errCh' = errCh
      \/ errCh' = Append(errCh, "listen")
    BY DEF Listen, Send, ProcessInv, EchoMeansSignal
<1>2. /\ errCh' \in Seq({"tick", "listen", "canceled", "closed"})
      /\ Len(errCh') = Len(errCh) \/ Len(errCh') = Len(errCh) + 1
      /\ \A i \in 1..Len(errCh') : errCh'[i] \in Echoes => signalled
      /\ Len(errCh) \in Nat
    BY <1>1, SendAppends DEF ProcessInv, TypeOK, EchoMeansSignal, Echoes
<1>3. SentOnce'
    BY <1>1, <1>2, SendAppends DEF ProcessInv, SentOnce, TypeOK, Listen
<1>4. EchoMeansSignal'
    BY <1>2 DEF ProcessInv, EchoMeansSignal, Listen
<1>5. TypeOK'
    BY <1>2, <1>3 DEF ProcessInv, TypeOK, SentOnce, Listen
<1>6. Stages' /\ FirstWindowReachesHub' /\ ClosedToAll'
    BY DEF ProcessInv, TypeOK, Stages, FirstWindowReachesHub, ClosedToAll,
       Listen
<1> QED
    BY <1>3, <1>4, <1>5, <1>6 DEF ProcessInv

\* The signal is what the invariant asks of most of what follows.
LEMMA SignalKeeps == ProcessInv /\ Signal => ProcessInv'
BY DEF Signal, Alive, ProcessInv, TypeOK, SentOnce, EchoMeansSignal, Echoes,
   Stages,
       FirstWindowReachesHub, ClosedToAll, goroutines

-----------------------------------------------------------------------------
(* Connections *)

Doing == {"none", "query", "sse", "stuck", "download"}

\* Nobody is let in but by a server that listens.
LEMMA SetConnKeeps ==
    ASSUME ProcessInv, NEW c \in Connection, NEW from \in Doing, NEW to \in Doing,
           from = "none" => http = "listening",
           SetConn(c, from, to)
    PROVE  ProcessInv'
<1>1. /\ conn' \in [Connection -> Doing]
      /\ conn[c] = from
      /\ UNCHANGED <<main, code, signalled, errCh, subscribed, events, worker,
                     published, hub, janitor, http, expired>>
    BY DEF SetConn, ProcessInv, TypeOK, Doing
<1>2. http # "none"
    BY <1>1 DEF ProcessInv, Stages
<1>3. ~(code = 0 /\ ~expired)
    BY <1>1 DEF ProcessInv, ClosedToAll
<1>4. TypeOK'
    BY <1>1 DEF ProcessInv, TypeOK, Doing
<1>5. Stages' /\ ClosedToAll'
    BY <1>1, <1>2, <1>3 DEF ProcessInv, Stages, ClosedToAll
<1>6. SentOnce' /\ EchoMeansSignal' /\ FirstWindowReachesHub'
    BY <1>1 DEF ProcessInv, SentOnce, EchoMeansSignal, FirstWindowReachesHub
<1> QED
    BY <1>4, <1>5, <1>6 DEF ProcessInv

\* Every step of a connection is one of those.
LEMMA ConnectionKeeps ==
    ASSUME ProcessInv, NEW c \in Connection,
           Accept(c) \/ Handler(c) \/ ClientStalls(c)
              \/ ClientReads(c) \/ ClientLeaves(c)
    PROVE  ProcessInv'
<1>1. CASE Accept(c)
    BY <1>1, SetConnKeeps DEF Accept, Doing
<1>2. CASE Handler(c)
    BY <1>2, SetConnKeeps DEF Handler, DatabaseAnswers, WriteEnds,
       ChannelClosed, Doing
<1>3. CASE ClientStalls(c) \/ ClientReads(c) \/ ClientLeaves(c)
    BY <1>3, SetConnKeeps DEF ClientStalls, ClientReads, ClientLeaves,
       Doing
<1> QED
    BY <1>1, <1>2, <1>3

-----------------------------------------------------------------------------
\* A process that has exited stays as it is.
LEMMA StutterKeeps == ProcessInv /\ UNCHANGED vars => ProcessInv'
BY DEF vars, ProcessInv, TypeOK, SentOnce, EchoMeansSignal, Echoes, Stages,
       FirstWindowReachesHub, ClosedToAll, goroutines

\* Every step keeps the invariant.
LEMMA NextKeeps == ProcessInv /\ [Next]_vars => ProcessInv'
<1> SUFFICES ASSUME ProcessInv, [Next]_vars PROVE ProcessInv'
    OBVIOUS
<1>1. CASE Run
    BY <1>1, BootKeeps, SubscribeKeeps, GoKeeps, OnSignalKeeps, OnErrorKeeps,
       CloseListenerKeeps, ShutdownEndsKeeps, UnsubscribeKeeps, CloseKeeps DEF Run
<1>2. CASE \/ ShutdownExpires \/ WorkerPublishes \/ WorkerEnds \/ HubCloses
             \/ JanitorQueries \/ JanitorGoesOn \/ Listen \/ Signal
    BY <1>2, ShutdownExpiresKeeps, WorkerPublishesKeeps, WorkerEndsKeeps, HubClosesKeeps,
       JanitorQueriesKeeps, JanitorGoesOnKeeps, ListenKeeps, SignalKeeps
<1>3. ASSUME NEW c \in Connection,
             Accept(c) \/ Handler(c) \/ ClientStalls(c)
                \/ ClientReads(c)
               \/ ClientLeaves(c)
      PROVE  ProcessInv'
    BY <1>3, ConnectionKeeps
<1>4. CASE Exited \/ UNCHANGED vars
    BY <1>4, StutterKeeps DEF Exited
<1> QED
    BY <1>1, <1>2, <1>3, <1>4 DEF Next

\* So it holds in every behaviour.
LEMMA Inductive == Spec => []ProcessInv
    BY InitIInv, NextKeeps, PTL DEF Spec

-----------------------------------------------------------------------------
(* The theorems *)

\* Every variable keeps its type; errCh never blocks a sender.
THEOREM TypeCorrect == Spec => []TypeOK
<1>1. ProcessInv => TypeOK
    BY DEF ProcessInv
<1> QED
    BY <1>1, Inductive, PTL

\* The hub gets the first window by contract (main.go:123).
THEOREM FirstWindow == Spec => []FirstWindowReachesHub
<1>1. ProcessInv => FirstWindowReachesHub
    BY DEF ProcessInv
<1> QED
    BY <1>1, Inductive, PTL

\* The exit status never calls a failure a success (main.go:141).
THEOREM SuccessMeansSignal == Spec => []SuccessOnlyOnSignal
<1>1. ProcessInv => SuccessOnlyOnSignal
    BY DEF ProcessInv, EchoMeansSignal, SuccessOnlyOnSignal
<1> QED
    BY <1>1, Inductive, PTL

\* Whoever was being served when Shutdown was called has been served.
THEOREM OrderlyExit == Spec => []OrderlyExitCutsNobody
<1>1. ProcessInv => OrderlyExitCutsNobody
    BY DEF ProcessInv, ClosedToAll, OrderlyExitCutsNobody
<1> QED
    BY <1>1, Inductive, PTL
=============================================================================
