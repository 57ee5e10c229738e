------------------------------ MODULE Durations ------------------------------
(***************************************************************************)
(* The two readers of a duration (core/duration.ts), one segment at a      *)
(* time: parseLifetimeDuration reads what is typed for a launch, and       *)
(* parseDuration reads tags, extensions and delays.  A bound that is       *)
(* accepted is written to a tag by formatDuration and read back by the     *)
(* tag reader.                                                             *)
(*                                                                         *)
(* Time is in quarters of a millisecond, so that rounding shows.  A text   *)
(* is a sign, segments of a number and a unit, and what trails them.       *)
(***************************************************************************)
EXTENDS Integers, Sequences, FiniteSets, SequencesExt

CONSTANTS Segments,     \* segments typed: [form, th, unit], with the value in thousandths
          MaxSegments,  \* bound: of a text
          MaxTicks      \* the longest duration that is read

Units == {"us", "ms", "s", "m", "h", "d"}
Forms == {"4", "4.5", ".5", "4.", "4.5.6"}       \* how a number may be written
Texts == [sign : {"", "-"}, padded : BOOLEAN, tail : {"", "x"},
          segs : BoundedSeq(Segments, MaxSegments)]

ASSUME DurationConstants ==
    /\ Segments \subseteq [form : Forms, th : Nat, unit : Units \cup {""}]
    /\ {MaxSegments, MaxTicks} \subseteq Nat

\* A thousandth of each unit, in quarters of a millisecond; for small units as a fraction.
Ticks(seg) ==
    CASE seg.unit = "us" -> (seg.th * 4) \div 1000000
      [] seg.unit = "ms" -> (seg.th * 4) \div 1000
      [] seg.unit = "s"  -> seg.th * 4
      [] seg.unit = "m"  -> seg.th * 240
      [] seg.unit = "h"  -> seg.th * 14400
      [] OTHER           -> seg.th * 345600

VARIABLES text,
    typed,    \* parseLifetimeDuration: [at, n, total]; at is "reads", "refused", "read"
    tag       \* parseDuration, of the same text

durVars == <<text, typed, tag>>

\* The one text without a unit that is a duration.
IsZero == text.sign = "" /\ ~text.padded /\ text.tail = "" /\ Len(text.segs) = 1
          /\ text.segs[1].unit = "" /\ text.segs[1].form = "4" /\ text.segs[1].th = 0

Reading == [at |-> "reads", n |-> 1, total |-> 0]

DurInit == text \in Texts /\ typed = Reading /\ tag = Reading

Segment(r) == text.segs[r.n]
HasMore(r) == r.n <= Len(text.segs)
Adds(r, seg) == [r EXCEPT !.n = @ + 1, !.total = @ + Ticks(seg)]

\* A segment of a launch's duration.
TypedSegment(seg) == seg.unit # "" /\ seg.form \in {"4", "4.5", ".5", "4."}

\* parseLifetimeDuration: no sign, no blank, and never past the ceiling.
ReadTyped ==
    /\ typed.at = "reads"
    /\ typed' =
         IF IsZero THEN [typed EXCEPT !.at = "read"]
         ELSE IF text.sign # "" \/ text.padded \/ (text.segs = <<>>) THEN [typed EXCEPT !.at = "refused"]
         ELSE IF HasMore(typed)
         THEN IF TypedSegment(Segment(typed)) /\ typed.total + Ticks(Segment(typed)) <= MaxTicks
              THEN Adds(typed, Segment(typed)) ELSE [typed EXCEPT !.at = "refused"]
         ELSE [typed EXCEPT !.at = IF text.tail = "" THEN "read" ELSE "refused"]
    /\ UNCHANGED <<text, tag>>

\* /(\d+(?:\.\d+)?)(ns|us|µs|ms|s|m|h)/y
TagSegment(seg) == seg.unit \notin {"", "d"} /\ seg.form \in {"4", "4.5"}

\* parseDuration: trimmed, and signed if need be; null if anything is left over.
ReadTag ==
    /\ tag.at = "reads"
    /\ tag' =
         IF IsZero THEN [tag EXCEPT !.at = "read"]
         ELSE IF text.segs = <<>> THEN [tag EXCEPT !.at = "refused"]
         ELSE IF HasMore(tag)
         THEN IF TagSegment(Segment(tag)) THEN Adds(tag, Segment(tag)) ELSE [tag EXCEPT !.at = "refused"]
         ELSE IF text.tail # "" THEN [tag EXCEPT !.at = "refused"]
         ELSE [tag EXCEPT !.at = "read", !.total = IF text.sign = "-" THEN -@ ELSE @]
    /\ UNCHANGED <<text, typed>>

DurNext == ReadTyped \/ ReadTag
DurSpec == DurInit /\ [][DurNext]_durVars
-----------------------------------------------------------------------------
\* toFixed(3) of seconds: to the nearest millisecond, and either way from halfway.
Rounded(ticks) == {ms \in {ticks \div 4, ticks \div 4 + 1} : ms * 4 - ticks \in -2 .. 2}

\* formatDuration, for a positive time: what is written of hours, minutes, and seconds to
\* three places.
FormatDuration(ticks) ==
    LET h == ticks \div 14400000
        m == (ticks \div 240000) % 60
        sec == ticks % 240000
        units == (IF h > 0 THEN {"h"} ELSE {})
                   \cup (IF m > 0 \/ (h > 0 /\ sec > 0) THEN {"m"} ELSE {})
                   \cup (IF sec > 0 \/ (h = 0 /\ m = 0) THEN {"s"} ELSE {})
    IN  {[u \in units |-> [h |-> h, m |-> m, s |-> ms][u]] : ms \in Rounded(sec)}

\* What the tag reader makes of it, in milliseconds.
TagMs(written) ==
    LET n(u) == IF u \in DOMAIN written THEN written[u] ELSE 0
    IN  n("h") * 3600000 + n("m") * 60000 + n("s")

ReadForLaunch == typed.at = "read" /\ typed.total > 0

(***************************************************************************)
(* A bound that a launch accepts is read back from its tag to the nearest  *)
(* millisecond, and is still a bound: it has not become none, unless it    *)
(* was half a millisecond or less (duration.ts:73).                        *)
(***************************************************************************)
BoundSurvivesItsTag ==
    ReadForLaunch =>
        \A written \in FormatDuration(typed.total) :
            /\ TagMs(written) \in Rounded(typed.total)
            /\ typed.total > 2 => TagMs(written) > 0

(***************************************************************************)
(* The two readers agree: what the tag reader reads of a text that is      *)
(* neither signed nor padded a launch accepts too, for the same time; and  *)
(* what a launch accepts the tag reader reads, except for days and for     *)
(* numbers without digits on both sides of the point.  No tag is read that *)
(* Go's readers of tags, which have no days, could not (duration.ts:110).  *)
(***************************************************************************)
ReadersAgree ==
    typed.at # "reads" /\ tag.at # "reads" =>
        /\ tag.at = "read" => \A n \in DOMAIN text.segs : text.segs[n].unit # "d"
        /\ tag.at = "read" /\ text.sign = "" /\ ~text.padded /\ tag.total <= MaxTicks =>
               typed.at = "read" /\ typed.total = tag.total
        /\ typed.at = "read" =>
               \/ tag.at = "read" /\ tag.total = typed.total
               \/ \E n \in DOMAIN text.segs : text.segs[n].unit = "d" \/ text.segs[n].form \in {".5", "4."}

(***************************************************************************)
(* No text that asks for some time is accepted for a launch as none: a     *)
(* slip is refused (client.ts:610).                                        *)
(***************************************************************************)
NothingReadsAsNone ==
    typed.at = "read" /\ typed.total = 0 =>
        \/ IsZero
        \/ text.tail = "" /\ \A n \in DOMAIN text.segs : text.segs[n].unit # "" /\ Ticks(text.segs[n]) = 0

(***************************************************************************)
(* A duration that is typed, written to a tag and read back stays what it  *)
(* was, and stays a bound.                                                 *)
(***************************************************************************)
DurationsAgree == BoundSurvivesItsTag /\ ReadersAgree /\ NothingReadsAsNone
=============================================================================
