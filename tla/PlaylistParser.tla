--------------------------- MODULE PlaylistParser ---------------------------
(***************************************************************************)
(* PlaylistParser::parse: which of the three forms a content has, and the  *)
(* references it yields in which order.  A content is the sequence of its  *)
(* lines that are not blank.                                               *)
(***************************************************************************)
EXTENDS Integers, FiniteSets, Sequences, SequencesExt

CONSTANTS
  Absolute,    \* references isSupportedUrl accepts
  Relative,    \* references only isSupportedReference accepts
  Unsupported, \* references neither accepts
  Numbers      \* the N of the FileN keys that occur; 0 is a key without a valid one

ASSUME ParserAssumption ==
  /\ Absolute \cap Relative = {} /\ (Absolute \cup Relative) \cap Unsupported = {}
  /\ Numbers \subseteq Int

Written == Absolute \cup Relative \cup Unsupported

\* A line after trimming: a comment, the section header, a bare reference or FileN=.
Line == [kind : {"comment", "section"}] \cup [kind : {"plain"}, value : Written]
          \cup [kind : {"file"}, number : Numbers, value : Written]

IsSupportedReference(value) == value \in Absolute \cup Relative

\* The trimmed content is one supported URL and nothing else.
IsDirectUrl(content) ==
  Len(content) = 1 /\ content[1].kind = "plain" /\ content[1].value \in Absolute

\* hasPlsHint: the name, a section header or a key beginning with File.
HasPlsHint(content, namedPls) ==
  namedPls \/ \E n \in 1 .. Len(content) : content[n].kind \in {"section", "file"}

-----------------------------------------------------------------------------

\* parseM3u: every line that is no comment is a reference, if it is a supported one.
ParseM3u(content) ==
  LET Supported(line) == line.kind = "plain" /\ IsSupportedReference(line.value)
      lines == SelectSeq(content, Supported)
  IN  [n \in 1 .. Len(lines) |-> lines[n].value]

\* plsFileIndex: digits that make a positive int.
ValidNumber(number) == number > 0

\* indexedUrls[*index] = url: the last supported line of a number wins.
Remember(indexed, line) ==
  IF line.kind = "file" /\ ValidNumber(line.number) /\ IsSupportedReference(line.value)
  THEN [n \in DOMAIN indexed \cup {line.number} |->
          IF n = line.number THEN line.value ELSE indexed[n]]
  ELSE indexed

\* A std::map is walked in the order of its keys.
InOrder(map) ==
  LET keys == SetToSortSeq(DOMAIN map, <) IN [n \in 1 .. Len(keys) |-> map[keys[n]]]

ParsePls(content) == InOrder(FoldLeft(Remember, <<>>, content))

\* PlaylistParser::parse; it succeeds when it yields a reference.
Parse(content, namedPls) ==
  IF IsDirectUrl(content) THEN <<content[1].value>>
  ELSE IF HasPlsHint(content, namedPls) THEN ParsePls(content) ELSE ParseM3u(content)

-----------------------------------------------------------------------------

\* The lines of a PLS that name a stream.
Named(content) ==
  {n \in 1 .. Len(content) : /\ content[n].kind = "file"
                             /\ content[n].number > 0
                             /\ IsSupportedReference(content[n].value)}

\* The last of the lines with the same number.
Lasting(content) ==
  {n \in Named(content) :
     \A m \in Named(content) : content[m].number = content[n].number => m <= n}

\* What a PLS yields: one reference per number, the last that is supported, by rising
\* number, whatever the order of the lines; a later unsupported line does not hide an
\* earlier good one.
PlsByNumber(content) ==
  LET lasting == Lasting(content)
      urls == ParsePls(content)
      Place(n) == Cardinality({m \in lasting : content[m].number <= content[n].number})
  IN  /\ Len(urls) = Cardinality(lasting)
      /\ \A n \in lasting : urls[Place(n)] = content[n].value

=============================================================================
