------------------------------ MODULE TimeZones ------------------------------
(***************************************************************************)
(* The time conversions of output.cpp.  Time is counted in hours; a year   *)
(* has Year of them.  An instant is a number of hours UTC, a reading is    *)
(* what a clock on the wall shows: the hours since the year began.         *)
(*                                                                         *)
(* A line of the log, and so a std::tm made of it, holds a reading without *)
(* a year; the year of the present is put in its place.  The zone is the   *)
(* same every year, so that a reading is all that has to be kept.          *)
(***************************************************************************)
EXTENDS Integers

CONSTANTS
  Year,          \* hours in a year
  Standard,      \* hours the zone is ahead of UTC in winter
  SummerBegins,  \* the instants of the year between which
  SummerEnds     \* it is one hour further ahead

ASSUME ZoneAssumption ==
  /\ Year \in Nat \ {0} /\ Standard \in -12..14
  /\ SummerBegins \in 0..Year /\ SummerEnds \in SummerBegins..Year

Readings == 0..Year - 1

\* HOURS_DIFFERENCE_UTC_EST
UtcToEst == -5

-----------------------------------------------------------------------------
\* The C library, on the zone of the machine.

IsSummer(instant) == instant % Year \in SummerBegins..SummerEnds - 1

Ahead(summer) == IF summer THEN Standard + 1 ELSE Standard

\* localtime; its result has tm_isdst = IsSummer(instant).
LocalTime(instant) == (instant + Ahead(IsSummer(instant))) % Year

\* gmtime
GmTime(instant) == instant % Year

\* mktime takes the reading at its word that it is summer time, or is not.
MkTime(reading, isdst) == reading - Ahead(isdst)

-----------------------------------------------------------------------------
\* Seeded fault: the reading is taken for winter time.
UtcInWinter(local, now) == GmTime(MkTime(local, FALSE))

\* getUTCTimeFromLocalTime fills the reading into the present's std::tm, whose
\* tm_isdst stays that of the present.
UtcTimeFromLocalTime(local, now) == GmTime(MkTime(local, IsSummer(now)))

\* getESTTimeFromUTCTime takes the UTC reading for a local one, moves the
\* instant, and reads it off the local clock again.
EstTimeFromUtcTime(utc, now) ==
  LocalTime(MkTime(utc, IsSummer(now)) + UtcToEst)

=============================================================================
