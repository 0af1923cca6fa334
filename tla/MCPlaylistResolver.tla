------------------------- MODULE MCPlaylistResolver -------------------------
(***************************************************************************)
(* A https resource without a suffix, a https .m3u and a http resource;    *)
(* playlists of up to two entries, nested two deep.  The parser's result   *)
(* is checked for every PLS of up to three lines.                          *)
(***************************************************************************)
EXTENDS PlaylistResolver

MCUrls == {"https://site", "https://list.m3u", "http://plain"}
MCSecure == {"https://site", "https://list.m3u"}
MCSuffix == [u \in MCUrls |-> IF u = "https://list.m3u" THEN "m3u" ELSE "direct"]
MCNumbers == {0, 1, 2}

M3u(list) == [n \in DOMAIN list |-> [kind |-> "plain", value |-> list[n]]]
FileLine(number, value) == [kind |-> "file", number |-> number, value |-> value]

\* One usable entry, alone or after one that is not, any two, one too many and none;
\* and PLS texts whose numbers fall, repeat or are not valid.
MCContents ==
  {M3u(list) : list \in {<<u>> : u \in MCUrls} \cup {<<Bad, u>> : u \in MCUrls}
                         \cup (MCUrls \X MCUrls) \cup {<<Bad, Bad, "https://site">>, <<>>}}
  \cup {<<FileLine(2, u), FileLine(n, v)>> : u, v \in MCUrls, n \in MCNumbers}

\* Every PLS of up to three lines over one reference of each kind and two numbers.
ASSUME PlsExact ==
  LET lines == [kind : {"comment", "section"}]
                 \cup [kind : {"file"}, number : MCNumbers,
                       value : {"https://site", Bad} \cup Unsupported]
  IN  \A n \in 0 .. 3 : \A content \in [1 .. n -> lines] : PlsByNumber(content)

=============================================================================
