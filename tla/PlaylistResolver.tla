-------------------------- MODULE PlaylistResolver --------------------------
(***************************************************************************)
(* One resolution attempt: the recursion of resolveResource written as a   *)
(* stack of playlists, innermost last, the requests it makes and the       *)
(* verdict of each level.  The servers answer as they like, a second       *)
(* request of a URL included; what the HTTP client allows is checked again *)
(* here.  A URL of a playlist is written as the normalized URL it resolves *)
(* to (HttpUrl).                                                           *)
(***************************************************************************)
EXTENDS PlaylistParser

CONSTANTS
  Secure,         \* those that are https
  Suffix,         \* what the path of each says: "pls", "m3u" or "direct"
  Bad,            \* a reference resolveHttpUrl refuses
  None,
  Contents,       \* the playlist bodies that occur
  MaximumDepth,   \* options.maximumDepth
  MaximumEntries  \* options.maximumEntries

ASSUME ResolverAssumption ==
  /\ Relative = {Bad}
  /\ Secure \subseteq Absolute
  /\ Suffix \in [Absolute -> {"pls", "m3u", "direct"}]
  /\ None \notin Written
  /\ \A content \in Contents : content \in Seq(Line)
  /\ MaximumDepth \in Nat \ {0}
  /\ MaximumEntries \in Nat \ {0}

Urls == Absolute
References == Urls \cup {Bad}

\* What PlaylistParser::parse makes of each body, by what the playlist's type hints.
Listed == [content \in Contents |-> [type \in {"pls", "m3u"} |-> Parse(content, type = "pls")]]

\* The media types that matter; text/plain reads as m3u, anything else as media.
ContentTypes == {"pls", "m3u", "other"}

\* What a body can turn out to be, in the order the code finds out.
Bodies ==
  [kind : {"oversized", "notUtf8", "hls"}] \cup [kind : {"text"}, content : Contents]

Errors == {"invalid", "nesting", "request", "cancelled", "refused", "cycle", "HLS", "unusable"}

\* A ResolvedStream: playlist is finalPlaylistUrl, None when it is empty.
Selection ==
  [configured : References, media : Urls, playlist : Urls \cup {None},
   type : {"pls", "m3u", "direct"}, contentType : ContentTypes,
   index : 0 .. MaximumEntries, entries : 0 .. MaximumEntries]

\* A result on its way up.
Result == [ok : {FALSE}, error : Errors] \cup [ok : {TRUE}, selection : Selection]

\* The entry of a playlist that led somewhere.
Origin == [playlist : Urls, entries : Seq(References), index : Nat]

\* The parser yields references, and None is no origin.
ASSUME ListedAssumption ==
  /\ \A content \in Contents, type \in {"pls", "m3u"} : Listed[content][type] \in Seq(References)
  /\ None \notin Origin

Frame == [url : Urls, type : {"pls", "m3u"}, contentType : ContentTypes,
          entries : Seq(References), index : Nat]

VARIABLES
  allowHttp,  \* options.allowHttpStreams
  configured, \* configuredUrl_
  pc,         \* the code of resolveResource the innermost call is at
  resource,   \* the URL it resolves
  hint,       \* signal, before the response: what the path says
  readBody,   \* the request in flight asks for the body
  frames,     \* the playlists being searched
  visited,    \* visitedPlaylists_
  outcome,    \* the result on its way up: an error, a selection or None
  origin      \* history: the entry that led to the media URL, None without one

vars == <<allowHttp, configured, pc, resource, hint, readBody, frames, visited, outcome, origin>>

Failed(error) == [ok |-> FALSE, error |-> error]
Selected(selection) == [ok |-> TRUE, selection |-> selection]

TypeOK ==
  /\ allowHttp \in BOOLEAN
  /\ configured \in References
  /\ pc \in {"resolve", "request", "next", "return", "done"}
  /\ resource \in References
  /\ hint \in {"pls", "m3u", "direct"}
  /\ readBody \in BOOLEAN
  /\ frames \in Seq(Frame)
  /\ visited \subseteq Urls
  /\ outcome \in Result \cup {None}
  /\ origin \in Origin \cup {None}

Init ==
  /\ allowHttp \in BOOLEAN
  /\ configured \in References
  /\ pc = "resolve"
  /\ resource = configured
  /\ hint = "direct"
  /\ readBody = FALSE
  /\ frames = <<>>
  /\ visited = {}
  /\ outcome = None
  /\ origin = None

Depth == Len(frames)
Given == <<allowHttp, configured>>

Return(result) == pc' = "return" /\ outcome' = result

-----------------------------------------------------------------------------

\* detectPlaylist: the path wins over the media type.
DetectPlaylist(url, contentType) ==
  IF Suffix[url] # "direct" THEN Suffix[url]
  ELSE IF contentType # "other" THEN contentType ELSE "direct"

TooDeep == Depth >= MaximumDepth

\* The head of resolveResource: the first request asks for a body only when the
\* path already promises a playlist.
Resolve ==
  /\ pc = "resolve"
  /\ IF resource = Bad THEN Return(Failed("invalid")) /\ UNCHANGED <<hint, readBody>>
     ELSE IF Suffix[resource] # "direct" /\ TooDeep
     THEN Return(Failed("nesting")) /\ UNCHANGED <<hint, readBody>>
     ELSE /\ pc' = "request"
          /\ hint' = Suffix[resource]
          /\ readBody' = (Suffix[resource] # "direct")
          /\ UNCHANGED outcome
  /\ UNCHANGED <<Given, resource, frames, visited, origin>>

\* request: no final URL, one that does not parse or one that left https is refused.
FinalUrlAccepted(final) == final \in Urls /\ (resource \in Secure => final \in Secure)

\* No usable answer, or the client saw the caller's flag (HttpFetch).
RequestFails ==
  /\ pc = "request"
  /\ \/ Return(Failed("request"))
     \/ Return(Failed("cancelled"))
     \/ \E final \in References :
          /\ ~FinalUrlAccepted(final)
          /\ Return(Failed("request"))
  /\ UNCHANGED <<Given, resource, hint, readBody, frames, visited, origin>>

\* directResult.  Its caller fills in which entry of which playlist led here.
DirectResult(final, contentType) ==
  /\ Return(Selected([configured |-> configured, media |-> final, playlist |-> None,
                      type |-> "direct", contentType |-> contentType,
                      index |-> 0, entries |-> 0]))
  /\ origin' = IF frames = <<>> THEN None
               ELSE [playlist |-> Last(frames).url, entries |-> Last(frames).entries,
                     index |-> Last(frames).index - 1]

\* The headers show a playlist after all: the same URL is asked again, with its body.
HeadersAnswered ==
  /\ pc = "request"
  /\ ~readBody
  /\ \E final \in Urls, contentType \in ContentTypes :
       /\ FinalUrlAccepted(final)
       /\ IF DetectPlaylist(final, contentType) = "direct"
          THEN DirectResult(final, contentType) /\ UNCHANGED readBody
          ELSE readBody' = TRUE /\ UNCHANGED <<pc, outcome, origin>>
  /\ UNCHANGED <<Given, resource, hint, frames, visited>>

\* Mutant: a playlist is not remembered.
VisitNothing(final) == visited' = visited

Visit(final) == visited' = visited \cup {final}

TooManyEntries(entries) == Len(entries) > MaximumEntries

Search(frame) == frames' = Append(frames, frame) /\ pc' = "next" /\ UNCHANGED outcome

\* The checks of a playlist's body, in the order of the code: a playlist counts as
\* visited before its contents are looked at.
ReadPlaylist(final, type, contentType, body) ==
  IF TooDeep THEN Return(Failed("nesting")) /\ UNCHANGED <<frames, visited, origin>>
  ELSE IF body.kind \in {"oversized", "notUtf8"}
  THEN Return(Failed("refused")) /\ UNCHANGED <<frames, visited, origin>>
  ELSE IF final \in visited
  THEN Return(Failed("cycle")) /\ UNCHANGED <<frames, visited, origin>>
  ELSE /\ Visit(final)
       /\ UNCHANGED origin
       /\ IF body.kind = "hls" THEN Return(Failed("HLS")) /\ UNCHANGED frames
          ELSE LET entries == Listed[body.content][type]
               IN  IF entries = <<>> \/ TooManyEntries(entries)
                   THEN Return(Failed("refused")) /\ UNCHANGED frames
                   ELSE Search([url |-> final, type |-> type, contentType |-> contentType,
                                entries |-> entries, index |-> 1])

\* An answer with its body.  A path that promised a playlist keeps its promise
\* unless the response names another kind; a second request promises nothing, and
\* may turn out to be media.
BodyAnswered ==
  /\ pc = "request"
  /\ readBody
  /\ \E final \in Urls, contentType \in ContentTypes :
       LET detected == DetectPlaylist(final, contentType)
           signal == IF detected = "direct" THEN hint ELSE detected
       IN  /\ FinalUrlAccepted(final)
           /\ IF signal = "direct"
              THEN DirectResult(final, contentType) /\ UNCHANGED <<frames, visited>>
              ELSE \E body \in Bodies : ReadPlaylist(final, signal, contentType, body)
  /\ UNCHANGED <<Given, resource, hint, readBody>>

\* Mutant: an http entry of an https playlist is never blocked.
BlockNone(playlist, entry) == entry = Bad

\* An entry that does not resolve, or one the station's policy forbids.
Blocked(playlist, entry) ==
  \/ entry = Bad
  \/ playlist \in Secure /\ entry \notin Secure /\ ~allowHttp

\* Mutant: the failed entry is tried again.
KeepEntry == frames' = frames

SkipEntry == frames' = [frames EXCEPT ![Depth].index = @ + 1]

\* The loop over the entries of the innermost playlist.
TryEntry ==
  /\ pc = "next"
  /\ LET top == Last(frames)
     IN  IF top.index > Len(top.entries)
         THEN /\ frames' = Front(frames)
              /\ Return(Failed("unusable"))
              /\ UNCHANGED resource
         ELSE IF Blocked(top.url, top.entries[top.index])
         THEN SkipEntry /\ UNCHANGED <<pc, outcome, resource>>
         ELSE /\ resource' = top.entries[top.index]
              /\ pc' = "resolve"
              /\ UNCHANGED <<frames, outcome>>
  /\ UNCHANGED <<Given, hint, readBody, visited, origin>>

\* Mutant: every level writes its own playlist into the selection.
DescribeAlways(selection, top) ==
  [selection EXCEPT !.playlist = top.url, !.type = top.type, !.contentType = top.contentType,
                    !.index = top.index - 1, !.entries = Len(top.entries)]

\* Only the innermost playlist describes the selection.
Describe(selection, top) ==
  IF selection.playlist # None THEN selection
  ELSE [selection EXCEPT !.playlist = top.url, !.type = top.type,
                         !.contentType = top.contentType,
                         !.index = top.index - 1, !.entries = Len(top.entries)]

\* The errors that end the whole attempt; every other one is the entry's own.
Aborts(error) == error \in {"cycle", "nesting", "cancelled", "HLS"}

\* A result reaches the playlist that asked for it.
Unwind ==
  /\ pc = "return"
  /\ frames # <<>>
  /\ IF outcome.ok
     THEN /\ outcome' = Selected(Describe(outcome.selection, Last(frames)))
          /\ frames' = Front(frames)
          /\ UNCHANGED pc
     ELSE IF Aborts(outcome.error)
     THEN frames' = Front(frames) /\ UNCHANGED <<pc, outcome>>
     ELSE SkipEntry /\ pc' = "next" /\ outcome' = None
  /\ UNCHANGED <<Given, resource, hint, readBody, visited, origin>>

Finish ==
  /\ pc = "return"
  /\ frames = <<>>
  /\ pc' = "done"
  /\ UNCHANGED <<Given, resource, hint, readBody, frames, visited, outcome, origin>>

-----------------------------------------------------------------------------

Next ==
  \/ Resolve \/ RequestFails \/ HeadersAnswered \/ BodyAnswered
  \/ TryEntry \/ Unwind \/ Finish

\* The client answers every request (HttpFetch) and the recursion never waits.
Spec == Init /\ [][Next]_vars /\ WF_vars(Next)

-----------------------------------------------------------------------------

\* A station configured with https and without AllowHttp never reaches an http URL,
\* neither as a request nor as the selection: through redirects, nested playlists
\* and second requests (the checks of request and of the entry loop together).
StaysSecure ==
  (configured \in Secure /\ ~allowHttp) =>
    /\ pc = "request" => resource \in Secure
    /\ (outcome # None /\ outcome.ok) => outcome.selection.media \in Secure

\* The playlists being searched never exceed the depth, none is inside itself, and
\* none is longer than allowed: the recursion is bounded whatever the servers send.
SearchBounded ==
  /\ Depth <= MaximumDepth
  /\ IsInjective([i \in 1 .. Depth |-> frames[i].url])
  /\ \A i \in 1 .. Depth : Len(frames[i].entries) <= MaximumEntries

\* The metadata of a selection is about the playlist and the entry that led to the
\* media URL, the innermost ones, at every depth.
SelectionDescribed ==
  (pc = "done" /\ outcome.ok) =>
    IF origin = None THEN outcome.selection.playlist = None
    ELSE /\ outcome.selection.playlist = origin.playlist
         /\ outcome.selection.index = origin.index
         /\ outcome.selection.entries = Len(origin.entries)
         /\ outcome.selection.index < outcome.selection.entries

\* An attempt ends, however the playlists refer to one another.
ResolutionEnds == <>(pc = "done")

=============================================================================
