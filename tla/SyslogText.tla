------------------------------ MODULE SyslogText ------------------------------
(***************************************************************************)
(* What the regular expressions and the number conversion of usb.cpp do to *)
(* the text of a kernel line in /var/log/syslog.  Nothing here has state.  *)
(*                                                                         *)
(* A port path is a sequence of numbers: <<bus, port, port, ...>>; the     *)
(* kernel writes <<1, 4, 2>> as "1-4.2".  A day is a number in 1..31; the  *)
(* line starts with "Mmm dd hh:mm:ss", a one-digit day padded with a blank.*)
(* A vendor or product id is a 16-bit number; the kernel writes it as four *)
(* hexadecimal digits.                                                     *)
(***************************************************************************)
EXTENDS Integers, Sequences

-----------------------------------------------------------------------------
\* Port paths.

FirstDigit(n) == IF n < 10 THEN n ELSE n \div 10

\* "usb [0-9]-[0-9]" and "usb-storage [0-9]-[0-9]": a bus number of two
\* digits leaves no digit directly before the dash after "usb ".
MatchesUsb(path) == path[1] < 10

\* "usb [0-9]-[0-9]: new": the colon must follow the digit, so neither a
\* device behind a hub nor a port above 9 is ever announced as new.
MatchesNew(path) == MatchesUsb(path) /\ Len(path) = 2 /\ path[2] < 10

\* The three characters "b-p" kept as map key, here as the number bp: the
\* order of std::map<std::string, ...> on such keys is the order of numbers.
InterfaceId(path) == 10 * path[1] + FirstDigit(path[2])

InterfaceIds == 0..99

-----------------------------------------------------------------------------
\* Dates.

\* date_regex asks for a character of the class [1-31], which is '1', '2' or
\* '3', between the month and the time: only a digit of the day can be it.
DateMatches(day) == {day \div 10, day % 10} \cap {1, 2, 3} # {}

-----------------------------------------------------------------------------
\* Vendor and product ids.

HexDigits(raw) ==
  <<raw \div 4096, (raw \div 256) % 16, (raw \div 16) % 16, raw % 16>>

\* "idVendor=([0-9])*" stops at the first digit above 9.
DecimalDigits(raw) ==
  CHOOSE k \in 0..4 : /\ \A i \in 1..k : HexDigits(raw)[i] < 10
                      /\ k < 4 => HexDigits(raw)[k + 1] >= 10

\* stringToInt reads the digits kept as a decimal number.  With none kept the
\* stream is empty, the extraction stores nothing, and the caller gets an
\* uninitialised int: any value of garbage.
StringToInt(raw, garbage) ==
  LET h == HexDigits(raw)
      k == DecimalDigits(raw)
  IN  IF k = 0 THEN garbage
      ELSE {<<h[1], 10 * h[1] + h[2], 100 * h[1] + 10 * h[2] + h[3],
              1000 * h[1] + 100 * h[2] + 10 * h[3] + h[4]>>[k]}

=============================================================================
