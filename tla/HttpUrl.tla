------------------------------ MODULE HttpUrl -------------------------------
(***************************************************************************)
(* parseHttpUrl and resolveHttpUrl: what a URL text is normalized to, and  *)
(* what a reference, of a redirect or of a playlist, makes of its base.    *)
(* A path is the sequence of what stands between its slashes: "/a/b/" is   *)
(* <<"a", "b", "">>, "/" is <<"">>.                                        *)
(***************************************************************************)
EXTENDS Integers, Sequences, SequencesExt

CONSTANTS
  Hosts,      \* host names, in any case
  Lower,      \* lowercase: Hosts -> Hosts
  Ports,      \* the explicit ports that occur, in range or not
  Names,      \* ordinary path segments
  Queries,    \* query strings; the empty one is None
  None,
  MaximumPath \* bound: how many segments a path of Text and Reference may have

ASSUME UrlAssumption ==
  /\ Lower \in [Hosts -> Hosts]
  /\ \A h \in Hosts : Lower[Lower[h]] = Lower[h]
  /\ Ports \subseteq Int
  /\ Names \cap {"", ".", ".."} = {}
  /\ None \notin Hosts /\ None \notin Ports /\ None \notin Queries
  /\ MaximumPath \in Nat \ {0}

Segments == Names \cup {"", ".", ".."}
Path == UNION {[1 .. n -> Segments] : n \in 1 .. MaximumPath}

\* host None is an empty host, path None an absent one; unsafe stands for a control
\* or space character, a backslash, credentials or a malformed escape.
Text ==
  [scheme : {"http", "https", "ftp"}, host : Hosts \cup {None}, port : Ports \cup {None},
   path : Path \cup {None}, query : Queries \cup {None}, unsafe : BOOLEAN]

\* What a relative reference can be besides an absolute URL.  A scheme or a drive
\* letter is the form "prefixed"; "network" is //authority; a path may be rooted.
Reference ==
  [form : {"prefixed"}] \cup [form : {"absolute"}, text : Text]
    \cup [form : {"network"}, text : Text]
    \cup [form : {"path"}, rooted : BOOLEAN, path : Path \cup {None}, query : Queries \cup {None},
          asksQuery : BOOLEAN]

DefaultPort(scheme) == IF scheme = "https" THEN 443 ELSE 80

-----------------------------------------------------------------------------

Push(kept, segment) ==
  IF segment = ".." THEN (IF kept = <<>> THEN kept ELSE Front(kept))
  ELSE IF segment \in {"", "."} THEN kept ELSE Append(kept, segment)

\* removeDotSegments: empty segments go too; a slash at the end stays.
RemoveDotSegments(path) ==
  LET kept == FoldLeft(Push, <<>>, path)
  IN  IF kept = <<>> THEN <<"">>
      ELSE IF Last(path) = "" THEN Append(kept, "") ELSE kept

\* buildNormalized writes no port that is the scheme's own.
ShownPort(scheme, port) == IF port = DefaultPort(scheme) THEN None ELSE port

BuildNormalized(scheme, host, port, path, query) ==
  [scheme |-> scheme, host |-> Lower[host], port |-> ShownPort(scheme, port),
   path |-> RemoveDotSegments(path), query |-> query]

MaximumPort == 65535

\* parsePort.
PortAccepted(port) == port = None \/ port \in 1 .. MaximumPort

Accepted(t) ==
  /\ ~t.unsafe
  /\ t.scheme \in {"http", "https"}
  /\ t.host # None
  /\ PortAccepted(t.port)

\* parseHttpUrl; None is a refusal.
ParseHttpUrl(t) ==
  IF Accepted(t)
  THEN BuildNormalized(t.scheme, t.host, t.port, IF t.path = None THEN <<"">> ELSE t.path, t.query)
  ELSE None

\* The path of a reference: the base's own, a rooted one, or one that replaces
\* what follows the last slash of the base.
ReferencePath(base, r) ==
  IF r.path = None THEN base.path
  ELSE IF r.rooted THEN r.path ELSE Front(base.path) \o r.path

\* Mutant: the query of the base is kept whenever the reference has none.
InheritQuery(base, r) == IF r.query = None THEN base.query ELSE r.query

\* A reference without path and without question mark keeps the query of its base.
ReferenceQuery(base, r) ==
  IF r.path = None /\ ~r.asksQuery THEN base.query ELSE r.query

NetworkUrl(base, t) == ParseHttpUrl([t EXCEPT !.scheme = base.scheme])

\* resolveHttpUrl.
ResolveHttpUrl(base, r) ==
  CASE r.form = "prefixed" -> None
    [] r.form = "absolute" -> ParseHttpUrl(r.text)
    [] r.form = "network" -> NetworkUrl(base, r.text)
    [] r.form = "path" ->
         BuildNormalized(base.scheme, base.host, base.port, ReferencePath(base, r),
                         ReferenceQuery(base, r))

-----------------------------------------------------------------------------

\* A path that begins with a slash is rooted, and one with two would name a host.
LeadsNowhereElse(r) == r.path[1] = "" => r.rooted /\ Len(r.path) = 1

\* Normalizing twice changes nothing: the strings kept in visitedPlaylists_ name a
\* playlist however it is reached.
NormalForm(url) ==
  BuildNormalized(url.scheme, url.host, url.port, url.path, url.query) = url

EffectivePort(t) == IF t.port = None THEN DefaultPort(t.scheme) ELSE t.port

SameResource(s, t) ==
  /\ s.scheme = t.scheme
  /\ Lower[s.host] = Lower[t.host]
  /\ EffectivePort(s) = EffectivePort(t)
  /\ s.path = t.path
  /\ s.query = t.query

\* Two accepted texts of one resource have one normal form, whatever the case of the
\* host and whether the port is written out.
OneNameForOneResource(texts) ==
  \A s, t \in {u \in texts : Accepted(u)} :
    SameResource(s, t) => ParseHttpUrl(s) = ParseHttpUrl(t)

-----------------------------------------------------------------------------

\* RFC 3986, 5.2.4, on the same representation: only "." and ".." are special, and
\* one of them at the end leaves a slash behind.
RfcRemoveDotSegments(path) ==
  LET Reduce(kept, segment) ==
        IF segment = ".." THEN (IF kept = <<>> THEN kept ELSE Front(kept))
        ELSE IF segment = "." THEN kept ELSE Append(kept, segment)
      reduced == FoldLeft(Reduce, <<>>, path)
  IN  IF Last(path) \in {".", ".."} \/ reduced = <<>> THEN Append(reduced, "") ELSE reduced

\* RFC 3986, 5.2.2: what each component of the target is taken from.
RfcResolve(base, r) ==
  CASE r.form = "network" -> ParseHttpUrl([r.text EXCEPT !.scheme = base.scheme])
    [] r.form = "absolute" -> ParseHttpUrl(r.text)
    [] r.form = "path" ->
         [base EXCEPT
            !.path = IF r.path = None THEN @
                     ELSE RfcRemoveDotSegments(IF r.rooted THEN r.path ELSE Front(@) \o r.path),
            !.query = IF r.path = None /\ ~r.asksQuery THEN @ ELSE r.query]

\* The references the code resolves otherwise: those with an empty segment before
\* the last or a dot segment at the end.
Unusual(r) ==
  /\ r.form = "path"
  /\ r.path # None
  /\ \/ \E i \in 1 .. Len(r.path) - 1 : r.path[i] = ""
     \/ Last(r.path) \in {".", ".."}

=============================================================================
