------------------------------ MODULE BarFile ------------------------------
(***************************************************************************)
(* The file data source of fileplugins/DataSource.h: the bars of a range   *)
(* of times are read from a text file, whose first bar in the range is     *)
(* looked for by bisection, in bytes.                                      *)
(*                                                                         *)
(* A line of the file is a bar, a comment, or something else (a heading,   *)
(* an unfinished line).  Line i has Len bytes with its end, or its ends,   *)
(* and its bar the time 2 * i, so that an odd time is between two bars.    *)
(* A PosDateTime is the number of its line, or 0 for an empty one, whose   *)
(* position is -1 and whose time is not-a-date-time: that equals itself    *)
(* and is neither before nor after any other.                              *)
(***************************************************************************)
EXTENDS Integers, Sequences, FiniteSets, SequencesExt

CONSTANTS FileLines, \* bound: the lines of a file
          Lens      \* the lengths of a line in bytes

ASSUME FileLinesAssumption == FileLines \in Nat \ {0}
ASSUME LensAssumption == Lens \subseteq Nat \ {0, 1}

VARIABLES file,   \* the lines: kind and length
          ended,  \* the last line has its end
          range,  \* from and to, or NoRange
          pc,     \* where the data source is
          begin,  \* begin and end of findStart
          end,
          crt,    \* the line to be read next
          bars,   \* the lines whose bars were added
          startPos, \* startPos and endPos
          endPos

fileVars == <<file, ended, range, pc, begin, end, crt, bars, startPos, endPos>>
input == <<file, ended, range>>

NoRange == <<0, 0>>
Latest == 2 * FileLines + 1
Files == UNION {[1 .. n -> [kind : {"bar", "comment", "other"}, len : Lens]] :
                  n \in 1 .. FileLines}

FileInit ==
  /\ file \in Files
  /\ ended \in BOOLEAN
  /\ range \in {NoRange} \cup {<<f, t>> : f \in 1 .. Latest, t \in {Latest}}
               \cup {<<f, f + 1>> : f \in 1 .. Latest}
  /\ pc = "open"
  /\ begin = 0 /\ end = 0 /\ crt = 1
  /\ bars = <<>> /\ startPos = 0 /\ endPos = 0

-----------------------------------------------------------------------------
(* Lines and positions *)

\* where the lines begin, and where the last one ends
Starts ==
  LET s[i \in 1 .. Len(file) + 1] == IF i = 1 THEN 0 ELSE s[i - 1] + file[i - 1].len
  IN  s
Pos(line) == IF line = 0 THEN -1 ELSE Starts[line]
FileSize == Pos(Len(file) + 1) - (IF ended THEN 0 ELSE 1)

\* getCrtLine: the line that a position is in, its end included
CrtLine(place) ==
  IF place < 0 \/ place >= FileSize THEN 0
  ELSE CHOOSE i \in 1 .. Len(file) : Pos(i) <= place /\ place < Pos(i + 1)
PrevLine(line) == CrtLine(Pos(line) - 1)
NextLine(line) == IF line < Len(file) THEN line + 1 ELSE 0
LastLine == CrtLine(FileSize - 1)

IsBar(line) == line # 0 /\ file[line].kind = "bar"
Time(line) == 2 * line
Before(line, t) == IsBar(line) /\ Time(line) < t
After(line, t) == IsBar(line) /\ Time(line) > t

\* The time stamp of a line.  One that cannot be parsed has none.  The bar of a
\* comment is a null pointer, which is dereferenced in a try block that catches
\* everything: that ends the program, or not, as it was compiled.
TimeStamps(line) ==
  IF line = 0 \/ file[line].kind = "other" THEN {0}
  ELSE IF file[line].kind = "comment" THEN {0, -1} ELSE {line}

From == range[1]
To == range[2]

-----------------------------------------------------------------------------
(* findStart *)

\* Without a range the whole file is read.
OpenAll ==
  /\ pc = "open" /\ range = NoRange
  /\ startPos' = 0 /\ endPos' = FileSize
  /\ pc' = "read"
  /\ UNCHANGED <<input, begin, end, crt, bars>>

\* the first line that has a time, and the time of the last line
FirstTimeStamp ==
  /\ pc = "open" /\ range # NoRange
  /\ LET found == TimeStamps(crt) IN
     \/ -1 \in found /\ pc' = "crashed" /\ UNCHANGED <<begin, crt>>
     \/ 0 \in found /\ NextLine(crt) # 0 /\ crt' = NextLine(crt)
          /\ UNCHANGED <<begin, pc>>
     \/ 0 \in found /\ NextLine(crt) = 0 /\ pc' = "failed" /\ UNCHANGED <<begin, crt>>
     \/ crt \in found /\ begin' = crt /\ pc' = "last" /\ UNCHANGED crt
  /\ UNCHANGED <<input, end, bars, startPos, endPos>>

\* the position that the reading begins at, or -1
Found(place) ==
  IF place < 0 THEN pc' = "failed" /\ UNCHANGED <<crt, startPos>>
  ELSE pc' = "read" /\ startPos' = place /\ crt' = CrtLine(place)

LastTimeStamp ==
  /\ pc = "last"
  /\ \E last \in TimeStamps(LastLine) :
       IF last = -1 THEN pc' = "crashed" /\ UNCHANGED <<end, crt, startPos>>
       ELSE /\ end' = last
            /\ IF Time(begin) >= From THEN Found(0)
               ELSE IF Before(last, From) THEN Found(-1)
               ELSE pc' = "bisect" /\ UNCHANGED <<crt, startPos>>
  /\ UNCHANGED <<input, begin, bars, endPos>>

\* begin + (end - begin) / 2, cut off
Middle == IF Pos(end) >= 0 THEN (Pos(begin) + Pos(end)) \div 2
          ELSE IF Pos(begin) = 0 THEN 0 ELSE (Pos(begin) - 1) \div 2

\* MUTANT: when the candidate is the begin, the line after it is not looked at.
NeighboursOfEnd(candidate) ==
  IF candidate = end /\ end # 0 THEN TimeStamps(PrevLine(candidate)) ELSE {candidate}

\* a candidate that is one of the two ends gives way to its neighbour
Neighbours(candidate) ==
  IF candidate = begin THEN TimeStamps(NextLine(candidate))
  ELSE IF candidate = end /\ end # 0 THEN TimeStamps(PrevLine(candidate))
  ELSE {candidate}

\* the part of the file that is left
Halve(c) ==
  IF Before(c, From) THEN begin' = c /\ UNCHANGED <<end, pc, crt, startPos>>
  ELSE IF After(c, From) THEN end' = c /\ UNCHANGED <<begin, pc, crt, startPos>>
  ELSE Found(Pos(c)) /\ UNCHANGED <<begin, end>>

\* one turn of the loop of findStart
Bisect ==
  /\ pc = "bisect"
  /\ \E candidate \in TimeStamps(CrtLine(Middle)) :
       IF candidate = -1
       THEN pc' = "crashed" /\ UNCHANGED <<begin, end, crt, startPos>>
       ELSE \E c \in Neighbours(candidate) :
              IF c = -1 THEN pc' = "crashed" /\ UNCHANGED <<begin, end, crt, startPos>>
              ELSE IF (candidate = begin /\ c = end) \/ (candidate = end /\ c = begin)
              THEN Found(Pos(end)) /\ UNCHANGED <<begin, end>>
              ELSE Halve(c)
  /\ UNCHANGED <<input, bars, endPos>>

-----------------------------------------------------------------------------
(* parseBars *)

InRange(line) == range = NoRange \/ (From <= Time(line) /\ Time(line) <= To)

\* MUTANT: the first bar after the range is taken for the end of the bars, and
\* added.
ReadBarTooMany ==
  /\ pc = "read" /\ crt <= Len(file)
  /\ endPos' = IF range = NoRange THEN endPos ELSE Pos(crt)
  /\ IF file[crt].kind = "other" THEN pc' = "failed" /\ UNCHANGED <<crt, bars>>
     ELSE IF IsBar(crt) /\ range # NoRange /\ Time(crt) > To
     THEN pc' = "close" /\ bars' = Append(bars, crt) /\ UNCHANGED crt
     ELSE /\ bars' = IF IsBar(crt) /\ InRange(crt) THEN Append(bars, crt) ELSE bars
          /\ crt' = crt + 1 /\ UNCHANGED pc
  /\ UNCHANGED <<input, begin, end, startPos>>

\* A line is read: one that cannot be parsed ends it with an exception, a
\* comment and a bar before the range are skipped, a bar after it is the end.
ReadBarLine ==
  /\ pc = "read" /\ crt <= Len(file)
  /\ endPos' = IF range = NoRange THEN endPos ELSE Pos(crt)
  /\ IF file[crt].kind = "other" THEN pc' = "failed" /\ UNCHANGED <<crt, bars>>
     ELSE IF IsBar(crt) /\ range # NoRange /\ Time(crt) > To
     THEN pc' = "close" /\ UNCHANGED <<crt, bars>>
     ELSE /\ bars' = IF IsBar(crt) /\ InRange(crt) THEN Append(bars, crt) ELSE bars
          /\ crt' = crt + 1 /\ UNCHANGED pc
  /\ UNCHANGED <<input, begin, end, startPos>>

\* The end of the file: if its last line has its end, an empty line is read
\* after it.
ReadEnd ==
  /\ pc = "read" /\ crt > Len(file)
  /\ endPos' = IF range # NoRange /\ ended THEN FileSize ELSE endPos
  /\ pc' = "close"
  /\ UNCHANGED <<input, begin, end, crt, bars, startPos>>

\* makeBars: there must be bars
Close ==
  /\ pc = "close"
  /\ pc' = IF bars = <<>> THEN "failed" ELSE "done"
  /\ UNCHANGED <<input, begin, end, crt, bars, startPos, endPos>>

FileNext == OpenAll \/ FirstTimeStamp \/ LastTimeStamp \/ Bisect \/ ReadBarLine
            \/ ReadEnd \/ Close

-----------------------------------------------------------------------------
(* Properties *)

\* What is loaded is what the range says, whatever else the file holds, and when
\* it holds nothing but bars, all of it is found.  The location that is recorded
\* with the bars holds all of their lines, when the last line of the file has its
\* end or the range does not reach it.
BarsAreTheRange ==
  /\ pc = "done" =>
       /\ Range(bars) = {i \in 1 .. Len(file) : IsBar(i) /\ InRange(i)}
       /\ \A i, j \in DOMAIN bars : i < j => bars[i] < bars[j]
  /\ (pc = "failed" /\ \A i \in 1 .. Len(file) : IsBar(i)) =>
       \A i \in 1 .. Len(file) : ~InRange(i)
  /\ (pc = "done" /\ (ended \/ crt <= Len(file))) =>
       \A i \in 1 .. Len(bars) : startPos <= Pos(bars[i]) /\ Pos(bars[i] + 1) <= endPos

Over == pc \in {"done", "failed", "crashed"}

\* The search ends when the last line of the file is a bar.
SearchEnds == IsBar(Len(file)) => <>Over

\* findStart "returns -1 if td > end time in the file" (DataSource.h:331).
StartIsFound == <>Over

=============================================================================
