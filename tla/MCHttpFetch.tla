---------------------------- MODULE MCHttpFetch -----------------------------
(***************************************************************************)
(* A fetch of an http or an https URL, redirected up to three times over   *)
(* hosts, ports, queries and all short paths, with bodies of up to five    *)
(* blocks read up to two at a time.  What the URL functions promise apart  *)
(* from a fetch is checked over all their short inputs.                    *)
(***************************************************************************)
EXTENDS HttpFetch

MCHosts == {"radio", "RADIO", "mirror"}
MCLower == [h \in MCHosts |-> IF h = "RADIO" THEN "radio" ELSE h]
MCPorts == {0, 80, 443, 8000, 65535, 65536}
MCNames == {"a"}
MCQueries == {"token", "old"}

TextOf(scheme, host, port, path, query) ==
  [scheme |-> scheme, host |-> host, port |-> port, path |-> path, query |-> query,
   unsafe |-> FALSE]

MCTexts ==
  {TextOf("https", "RADIO", None, <<"a", "">>, "old"), TextOf("http", "radio", 8000, None, None),
   TextOf("http", "radio", 65536, None, None)}

\* Paths of up to n segments, taken to a host that is not the base's own or relative.
PathReferences(n) ==
  {r \in [form : {"path"}, rooted : BOOLEAN, path : {p \in Path : Len(p) <= n}, query : {None},
          asksQuery : {FALSE}] : LeadsNowhereElse(r)}

QueryReferences ==
  [form : {"path"}, rooted : {FALSE}, path : {None, <<"a">>}, query : {None}, asksQuery : BOOLEAN]
  \cup [form : {"path"}, rooted : {FALSE}, path : {None, <<"a">>}, query : {"token"},
        asksQuery : {TRUE}]

MCReferences ==
  {[form |-> "prefixed"],
   [form |-> "network", text |-> TextOf("http", "mirror", None, <<"a">>, None)],
   [form |-> "absolute", text |-> TextOf("https", "radio", 443, <<"a">>, None)],
   [form |-> "absolute", text |-> TextOf("http", "mirror", 80, None, "token")],
   [form |-> "absolute", text |-> TextOf("ftp", "mirror", None, None, None)]}
  \cup PathReferences(2) \cup QueryReferences

SpelledTexts ==
  [scheme : {"http", "https", "ftp"}, host : MCHosts \cup {None}, port : MCPorts \cup {None},
   path : {None, <<"a">>, <<"a", "..">>}, query : {None, "token"}, unsafe : {FALSE}]

Bases == {TextOf("http", "radio", None, p, None) : p \in Path}

\* Normal forms name a resource once and are stable, and every short reference to
\* every short base resolves as the RFC says.
ASSUME UrlsExact ==
  /\ OneNameForOneResource(SpelledTexts)
  /\ \A t \in SpelledTexts \cup Bases : ParseHttpUrl(t) # None => NormalForm(ParseHttpUrl(t))
  /\ \A t \in Bases, r \in PathReferences(3) :
       LET base == ParseHttpUrl(t)
       IN  /\ NormalForm(ResolveHttpUrl(base, r))
           /\ ~Unusual(r) => ResolveHttpUrl(base, r) = RfcResolve(base, r)

=============================================================================
