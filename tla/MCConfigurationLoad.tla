------------------------ MODULE MCConfigurationLoad -------------------------
(***************************************************************************)
(* Two kinds of files.  One starts with two stations that have a url, and  *)
(* enables, disables and binds them over and over in six more lines.  The  *)
(* other starts with a station that could play, and goes on with three     *)
(* more lines of every section, good and bad.                              *)
(***************************************************************************)
EXTENDS ConfigurationLoad, TLC

Text(boolean, number, identity, url) ==
  [boolean |-> boolean, number |-> number, identity |-> identity, url |-> url]

Yes == Text(TRUE, None, None, "invalid")
No == Text(FALSE, None, None, "invalid")
Zero == Text(FALSE, 0, None, "invalid")
Number(n) == Text(None, n, None, "invalid")
Junk == Text(None, None, None, "invalid")
Rise == Text(None, None, "riseFm", "invalid")
Address == Text(None, None, None, "https")

Section(kind) == [type |-> "section", title |-> Plain(kind)]
StationSection(k) == [type |-> "section", title |-> OfStation(k)]
Pair(key, text) == [type |-> "pair", key |-> key, text |-> text]
Malformed == [type |-> "malformed"]

BindingLines ==
  {StationSection(1), StationSection(2), Pair("enabled", Yes), Pair("enabled", No),
   Pair("raw", Number(7)), Pair("raw", Number(256)), Pair("identity", Rise),
   Pair("url", Address)}

WithUrls ==
  <<StationSection(1), Pair("url", Address), StationSection(2), Pair("url", Address)>>

Playable ==
  <<StationSection(1), Pair("enabled", Yes), Pair("url", Address), Pair("raw", Number(7))>>

OptInLines ==
  {Playable[i] : i \in DOMAIN Playable}
  \cup {Section(kind) : kind \in {"general", "experimental", "research", "other"}}
  \cup {Pair("enabled", No), Pair("enabled", Junk), Pair("enabled", Zero),
        Pair("bufferMilliseconds", Zero), Pair("playlistMaximumDepth", Zero),
        Pair("playlistMaximumDepth", Number(2)), Pair("enableRadioController", Yes),
        Pair("radioControllerDryRun", No), Pair("radioStationMinimumStableFrames", Number(700)),
        Pair("futureKey", Junk), Malformed}

MCLines == BindingLines \cup OptInLines
MCStarts ==
  {[first |-> WithUrls, then |-> BindingLines, atMost |-> 6],
   [first |-> Playable, then |-> OptInLines, atMost |-> 3]}
MCMap == 7 :> "riseFm" @@ 8 :> "riseFm"

=============================================================================
