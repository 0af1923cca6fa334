-------------------------------- MODULE Logger ------------------------------
(***************************************************************************)
(* Logger::log, as far as the size of the file goes: every line is looked  *)
(* at under the logger's mutex, and written or dropped.  The limit is      *)
(* compared with the message alone; what is written also has a time, a     *)
(* level and an end of line.                                               *)
(***************************************************************************)
EXTENDS Integers

CONSTANTS
  MaximumLogBytes,  \* maximumLogBytes
  PrefixBytes,      \* what a line has besides its message
  MessageBytes,     \* of a message, all alike
  LogWord           \* the values of std::uintmax_t

ASSUME LoggerAssumption ==
  /\ MaximumLogBytes \in Nat /\ PrefixBytes \in Nat /\ MessageBytes \in Nat
  /\ LogWord \in Nat
  /\ MaximumLogBytes + PrefixBytes + MessageBytes < LogWord

\* Past the limit the difference would wrap, and refuse nothing.
Refused(size) ==
  size >= MaximumLogBytes \/ MessageBytes > (MaximumLogBytes - size) % LogWord

LineBytes == PrefixBytes + MessageBytes

\* The size after so many lines: they are written up to the first that is refused, and
\* then so are those behind it, which are alike.
AfterLines(size, count) ==
  LET Stops(n) == n = count \/ Refused(size + n * LineBytes)
      written == CHOOSE n \in 0 .. count : Stops(n) /\ \A m \in 0 .. n - 1 : ~Stops(m)
  IN  size + written * LineBytes

=============================================================================
