----------------------- MODULE PlaylistResolver_proofs -----------------------
(***************************************************************************)
(* A resolution attempt for every set of URLs and playlist contents, every *)
(* depth and number of entries, and servers that answer as they like: the  *)
(* policy for http holds, the search stays within its bounds, and what is  *)
(* selected is described by the entry that led to it.                      *)
(*                                                                         *)
(* The invariant has one part for the playlists being searched (FrameInv), *)
(* one for the scheme (SecureInv) and one for the metadata on its way up   *)
(* (DescribedInv); the first is what the others stand on.                  *)
(***************************************************************************)
EXTENDS PlaylistResolver, SequenceTheorems, TLAPS

Returned == pc \in {"return", "done"}

\* Where a call stands.
ControlInv ==
  /\ Returned => outcome \in Result
  /\ ~Returned => outcome = None
  /\ pc = "next" => frames # <<>>
  /\ pc = "done" => frames = <<>>

\* A playlist being searched: one entry of it is being tried, or at the innermost the
\* next one may not exist any more.
LevelInv(level, last) ==
  /\ Len(level.entries) <= MaximumEntries
  /\ level.index \in 1 .. Len(level.entries) + 1
  /\ last \/ level.index <= Len(level.entries)

FrameInv ==
  /\ frames \in Seq(Frame)
  /\ Len(frames) <= MaximumDepth
  /\ \A i \in 1 .. Len(frames) :
       /\ frames[i].url \in visited
       /\ LevelInv(frames[i], i = Len(frames) /\ pc = "next")
  /\ \A i, j \in 1 .. Len(frames) : frames[i].url = frames[j].url => i = j

\* Nothing of a station that insists on https has left it.
SecureInv ==
  configured \in Secure /\ ~allowHttp =>
    /\ pc \in {"resolve", "request"} => resource \in Secure
    /\ \A i \in 1 .. Len(frames) : frames[i].url \in Secure
    /\ Returned /\ outcome.ok => outcome.selection.media \in Secure

OriginOf(level) ==
  [playlist |-> level.url, entries |-> level.entries, index |-> level.index - 1]

\* A selection is described already, or the playlist above it is the one to do so.
DescribedInv ==
  Returned /\ outcome.ok =>
    \/ /\ outcome.selection.playlist = None
       /\ origin = IF frames = <<>> THEN None ELSE OriginOf(frames[Len(frames)])
    \/ /\ origin \in Origin
       /\ outcome.selection.playlist = origin.playlist
       /\ outcome.selection.index = origin.index
       /\ outcome.selection.entries = Len(origin.entries)
       /\ outcome.selection.index < outcome.selection.entries

IInv == TypeOK /\ ControlInv /\ FrameInv /\ SecureInv /\ DescribedInv

-----------------------------------------------------------------------------
(* Sequences of playlists                                                  *)

LEMMA FrameFields ==
  ASSUME NEW level \in Frame
  PROVE  /\ level.url \in Urls /\ level.type \in {"pls", "m3u"}
         /\ level.contentType \in ContentTypes
         /\ level.entries \in Seq(References) /\ level.index \in Nat
         /\ Len(level.entries) \in Nat
<1>1. level.entries \in Seq(References)
  BY DEF Frame
<1>2. Len(level.entries) \in Nat
  BY <1>1, LenProperties
<1> QED BY <1>1, <1>2 DEF Frame

LEMMA FrontKeeps ==
  ASSUME NEW S, NEW s \in Seq(S), s # <<>>
  PROVE  /\ Len(s) \in Nat \ {0} /\ Last(s) = s[Len(s)] /\ s[Len(s)] \in S
         /\ Front(s) \in Seq(S) /\ Len(Front(s)) = Len(s) - 1
         /\ \A i \in 1 .. Len(s) - 1 : Front(s)[i] = s[i]
<1>1. Len(s) \in Nat \ {0}
  BY LenProperties, EmptySeq
<1>2. Last(s) = s[Len(s)] /\ s[Len(s)] \in S
  BY <1>1, ElementOfSeq DEF Last
<1>3. Front(s) = SubSeq(s, 1, Len(s) - 1)
  BY DEF Front
<1>4. \A i \in 1 .. Len(s) - 1 : s[i] \in S
  BY <1>1, ElementOfSeq
<1>5. /\ SubSeq(s, 1, Len(s) - 1) \in Seq(S)
      /\ Len(SubSeq(s, 1, Len(s) - 1)) = IF 1 <= Len(s) - 1 THEN Len(s) - 1 - 1 + 1 ELSE 0
      /\ \A i \in 1 .. Len(s) - 1 - 1 + 1 : SubSeq(s, 1, Len(s) - 1)[i] = s[1 + i - 1]
  <2>1. Len(s) - 1 \in Int
    BY <1>1
  <2> QED BY <1>4, <2>1, SubSeqProperties
<1>6. Len(SubSeq(s, 1, Len(s) - 1)) = Len(s) - 1
  <2> DEFINE n == Len(s)
             m == Len(SubSeq(s, 1, Len(s) - 1))
  <2>1. n \in Nat \ {0} /\ m = IF 1 <= n - 1 THEN n - 1 - 1 + 1 ELSE 0
    BY <1>1, <1>5
  <2> HIDE DEF n, m
  <2>2. m = n - 1
    BY <2>1
  <2> QED BY <2>2 DEF n, m
<1>7. \A i \in 1 .. Len(s) - 1 : SubSeq(s, 1, Len(s) - 1)[i] = s[i]
  <2> TAKE i \in 1 .. Len(s) - 1
  <2>1. i \in 1 .. Len(s) - 1 - 1 + 1 /\ 1 + i - 1 = i
    BY <1>1
  <2>2. SubSeq(s, 1, Len(s) - 1)[i] = s[1 + i - 1]
    BY <1>5, <2>1
  <2> QED BY <2>1, <2>2
<1> QED BY <1>1, <1>2, <1>3, <1>5, <1>6, <1>7

LEMMA NextEntry ==
  ASSUME NEW level \in Frame, NEW next, next = [level EXCEPT !.index = @ + 1]
  PROVE  /\ next \in Frame /\ next.url = level.url /\ next.entries = level.entries
         /\ next.index = level.index + 1
<1>1. level.index + 1 \in Nat
  BY FrameFields
<1>2. /\ next.url = level.url /\ next.entries = level.entries /\ next.index = level.index + 1
  BY DEF Frame
<1>3. next \in Frame
  BY <1>1 DEF Frame
<1> QED BY <1>2, <1>3

\* Going on to the next entry changes the index of the innermost playlist alone.
LEMMA SkipKeeps ==
  ASSUME frames \in Seq(Frame), frames # <<>>, SkipEntry
  PROVE  /\ frames' \in Seq(Frame) /\ Len(frames') = Len(frames)
         /\ \A i \in 1 .. Len(frames) - 1 : frames'[i] = frames[i]
         /\ frames'[Len(frames)].url = frames[Len(frames)].url
         /\ frames'[Len(frames)].entries = frames[Len(frames)].entries
         /\ frames'[Len(frames)].index = frames[Len(frames)].index + 1
<1> DEFINE n == Len(frames)
           top == frames[n]
           next == [top EXCEPT !.index = @ + 1]
<1>1. n \in Nat \ {0} /\ top \in Frame /\ n \in 1 .. Len(frames)
  BY FrontKeeps
<1>2. frames' = [frames EXCEPT ![n] = next]
  BY DEF SkipEntry, Depth
<1>3. next \in Frame /\ next.url = top.url /\ next.entries = top.entries
      /\ next.index = top.index + 1
  BY <1>1, NextEntry
<1>4. DOMAIN frames = 1 .. n
  BY LenProperties
<1> HIDE DEF next, n
<1>5. frames' \in Seq(Frame) /\ Len(frames') = Len(frames)
  BY <1>1, <1>2, <1>3, ExceptSeq
<1>6. frames'[n] = next
  BY <1>1, <1>2, <1>4
<1>7. \A i \in 1 .. n - 1 : frames'[i] = frames[i]
  BY <1>1, <1>2, <1>4
<1> QED BY <1>3, <1>5, <1>6, <1>7 DEF n

-----------------------------------------------------------------------------
(* The playlists being searched: what a step may do to them                *)

\* Outside the loop every playlist has an entry that is being tried.
EntryInHand ==
  \A i \in 1 .. Len(frames) : frames[i].index <= Len(frames[i].entries)

LEMMA OutsideLoop ==
  ASSUME FrameInv, pc # "next"
  PROVE  EntryInHand
BY DEF FrameInv, LevelInv, EntryInHand

LEMMA FramesSame ==
  ASSUME FrameInv, EntryInHand, frames' = frames, visited \subseteq visited'
  PROVE  FrameInv'
<1>1. Len(frames') = Len(frames)
  OBVIOUS
<1>2. \A i \in 1 .. Len(frames) : LevelInv(frames[i], FALSE)
  BY DEF FrameInv, LevelInv, EntryInHand
<1> QED BY <1>1, <1>2 DEF FrameInv, LevelInv

LEMMA FramesPop ==
  ASSUME FrameInv, frames # <<>>, frames' = Front(frames), visited' = visited
  PROVE  FrameInv'
<1>1. /\ frames' \in Seq(Frame) /\ Len(frames') = Len(frames) - 1 /\ Len(frames) \in Nat \ {0}
      /\ \A i \in 1 .. Len(frames) - 1 : frames'[i] = frames[i]
  BY FrontKeeps DEF FrameInv
<1> DEFINE n == Len(frames)
<1>2. /\ Len(frames) <= MaximumDepth
      /\ \A i \in 1 .. n : frames[i].url \in visited
      /\ \A i, j \in 1 .. n : frames[i].url = frames[j].url => i = j
  BY DEF FrameInv
<1>3. \A i \in 1 .. n - 1 : LevelInv(frames[i], FALSE)
  <2> TAKE i \in 1 .. n - 1
  <2>1. i \in 1 .. n /\ i # n
    BY <1>1
  <2> QED BY <2>1 DEF FrameInv, LevelInv
<1>4. MaximumDepth \in Nat
  BY ResolverAssumption
<1> HIDE DEF n
<1>5. Len(frames') = n - 1 /\ n \in Nat \ {0} /\ n <= MaximumDepth
  BY <1>1, <1>2 DEF n
<1>6. Len(frames') <= MaximumDepth
  BY <1>4, <1>5
<1>7. \A i \in 1 .. n - 1 : i \in 1 .. n
  BY <1>5
<1>8. \A i \in 1 .. Len(frames') : /\ frames'[i].url \in visited'
                                  /\ LevelInv(frames'[i], i = Len(frames') /\ pc' = "next")
  BY <1>1, <1>2, <1>3, <1>5, <1>7 DEF LevelInv, n
<1>9. \A i, j \in 1 .. Len(frames') : frames'[i].url = frames'[j].url => i = j
  BY <1>1, <1>2, <1>5, <1>7 DEF n
<1> QED BY <1>1, <1>6, <1>8, <1>9 DEF FrameInv

LEMMA FramesSkip ==
  ASSUME FrameInv, frames # <<>>, EntryInHand, SkipEntry, visited' = visited, pc' = "next"
  PROVE  FrameInv'
<1> DEFINE n == Len(frames)
<1>1. /\ frames' \in Seq(Frame) /\ Len(frames') = n
      /\ \A i \in 1 .. n - 1 : frames'[i] = frames[i]
      /\ frames'[n].url = frames[n].url /\ frames'[n].entries = frames[n].entries
      /\ frames'[n].index = frames[n].index + 1
  BY SkipKeeps DEF FrameInv
<1>2. n \in Nat \ {0} /\ frames[n] \in Frame
  BY FrontKeeps DEF FrameInv
<1>3. Len(frames[n].entries) \in Nat /\ frames[n].index \in Nat
  BY <1>2, FrameFields
<1>4. /\ n <= MaximumDepth
      /\ \A i \in 1 .. n : frames[i].url \in visited /\ LevelInv(frames[i], FALSE)
      /\ \A i, j \in 1 .. n : frames[i].url = frames[j].url => i = j
  BY DEF FrameInv, LevelInv, EntryInHand
<1> HIDE DEF n
<1>5. n \in 1 .. n /\ \A i \in 1 .. n : i \in 1 .. n - 1 \/ i = n
  BY <1>2
<1>6. LevelInv(frames'[n], TRUE)
  BY <1>1, <1>3, <1>4, <1>5 DEF LevelInv
<1>7. \A i \in 1 .. n : frames'[i].url = frames[i].url
  BY <1>1, <1>5
<1>8. \A i \in 1 .. n : LevelInv(frames'[i], i = n /\ pc' = "next")
  BY <1>1, <1>4, <1>5, <1>6 DEF LevelInv
<1> QED BY <1>1, <1>4, <1>7, <1>8 DEF FrameInv

LEMMA FramesPush ==
  ASSUME FrameInv, EntryInHand, NEW level \in Frame, level.index = 1, level.entries # <<>>,
         Len(level.entries) <= MaximumEntries, level.url \notin visited,
         Len(frames) < MaximumDepth, frames' = Append(frames, level),
         visited' = visited \cup {level.url}
  PROVE  FrameInv'
<1> DEFINE n == Len(frames)
<1>1. /\ n \in Nat /\ frames' \in Seq(Frame) /\ Len(frames') = n + 1
      /\ \A i \in 1 .. n : frames'[i] = frames[i]
      /\ frames'[n + 1] = level
  BY AppendProperties, LenProperties DEF FrameInv
<1>2. Len(level.entries) \in Nat \ {0}
  BY FrameFields, EmptySeq
<1>3. LevelInv(level, FALSE)
  BY <1>2 DEF LevelInv
<1>4. /\ n < MaximumDepth /\ MaximumDepth \in Nat
      /\ \A i \in 1 .. n : frames[i].url \in visited /\ LevelInv(frames[i], FALSE)
      /\ \A i, j \in 1 .. n : frames[i].url = frames[j].url => i = j
  BY ResolverAssumption DEF FrameInv, LevelInv, EntryInHand
<1> HIDE DEF n
<1>5. \A i \in 1 .. n + 1 : i \in 1 .. n \/ i = n + 1
  BY <1>1
<1>6. \A i \in 1 .. n + 1 : LevelInv(frames'[i], FALSE) /\ frames'[i].url \in visited'
  BY <1>1, <1>3, <1>4, <1>5
<1>7. \A i, j \in 1 .. n + 1 : frames'[i].url = frames'[j].url => i = j
  <2> TAKE i, j \in 1 .. n + 1
  <2>1. \A k \in 1 .. n : frames'[k].url = frames[k].url /\ frames'[k].url # level.url
    BY <1>1, <1>4
  <2>2. CASE i \in 1 .. n /\ j \in 1 .. n
    BY <1>4, <2>1, <2>2
  <2>3. CASE i = n + 1 \/ j = n + 1
    BY <1>1, <1>5, <2>1, <2>3
  <2> QED BY <1>5, <2>2, <2>3
<1>8. n + 1 <= MaximumDepth
  BY <1>1, <1>4
<1> QED BY <1>1, <1>6, <1>7, <1>8 DEF FrameInv, LevelInv

-----------------------------------------------------------------------------
(* Results                                                                 *)

LEMMA FailedIsResult ==
  ASSUME NEW error \in Errors
  PROVE  Failed(error) \in Result /\ Failed(error).ok = FALSE
BY DEF Failed, Result

LEMMA SelectedIsResult ==
  ASSUME NEW selection \in Selection
  PROVE  /\ Selected(selection) \in Result /\ Selected(selection).ok = TRUE
         /\ Selected(selection).selection = selection
BY DEF Selected, Result

LEMMA ResultFields ==
  ASSUME NEW result \in Result
  PROVE  /\ result.ok \in BOOLEAN
         /\ result.ok => result.selection \in Selection
         /\ ~result.ok => result.error \in Errors
BY DEF Result

LEMMA Detected ==
  ASSUME NEW url \in Urls, NEW contentType \in ContentTypes
  PROVE  DetectPlaylist(url, contentType) \in {"pls", "m3u", "direct"}
BY ResolverAssumption DEF DetectPlaylist, Urls, ContentTypes

LEMMA NoneIsNoUrl == None \notin Urls
BY ResolverAssumption DEF Urls, Written

\* A step keeps what was given, and the types of what its request is about.
Otherwise ==
  /\ UNCHANGED Given
  /\ hint' \in {"pls", "m3u", "direct"} /\ readBody' \in BOOLEAN

LEMMA ReturnFailed ==
  ASSUME IInv, ~Returned, pc # "next", NEW error \in Errors, Return(Failed(error)), Otherwise,
         resource' = resource, frames' = frames, origin' = origin,
         visited \subseteq visited', visited' \subseteq Urls
  PROVE  IInv'
<1>1. FrameInv'
  BY OutsideLoop, FramesSame DEF IInv
<1>2. outcome' \in Result /\ outcome'.ok = FALSE /\ pc' = "return"
  BY FailedIsResult DEF Return
<1>3. TypeOK'
  BY <1>1, <1>2 DEF IInv, TypeOK, Otherwise, Given, FrameInv
<1>4. ControlInv'
  BY <1>2 DEF ControlInv, Returned
<1>5. SecureInv'
  BY <1>2 DEF IInv, SecureInv, Otherwise, Given, Returned
<1>6. DescribedInv'
  BY <1>2 DEF DescribedInv
<1> QED BY <1>1, <1>3, <1>4, <1>5, <1>6 DEF IInv

LEMMA ReturnDirect ==
  ASSUME IInv, pc = "request", NEW final \in Urls, NEW contentType \in ContentTypes,
         FinalUrlAccepted(final), DirectResult(final, contentType), Otherwise,
         resource' = resource, frames' = frames, visited' = visited
  PROVE  IInv'
<1> DEFINE selection == [configured |-> configured, media |-> final, playlist |-> None,
                         type |-> "direct", contentType |-> contentType,
                         index |-> 0, entries |-> 0]
<1>1. FrameInv'
  BY OutsideLoop, FramesSame DEF IInv
<1>2. selection \in Selection
  BY ResolverAssumption DEF IInv, TypeOK, Selection
<1>3. outcome' = Selected(selection) /\ pc' = "return"
  BY DEF DirectResult, Return
<1>4. origin' = IF frames = <<>> THEN None
                ELSE [playlist |-> Last(frames).url, entries |-> Last(frames).entries,
                      index |-> Last(frames).index - 1]
  BY DEF DirectResult
<1>5. selection.playlist = None /\ selection.media = final
  OBVIOUS
<1> HIDE DEF selection
<1>6. /\ outcome' \in Result /\ outcome'.ok = TRUE /\ outcome'.selection = selection
  BY <1>2, <1>3, SelectedIsResult
<1>7. origin' = IF frames = <<>> THEN None ELSE OriginOf(frames[Len(frames)])
  BY <1>4, FrontKeeps DEF IInv, FrameInv, OriginOf
<1>8. origin' \in Origin \cup {None}
  <2>1. CASE frames = <<>>
    BY <1>7, <2>1
  <2>2. CASE frames # <<>>
    <3> DEFINE top == frames[Len(frames)]
    <3>1. top \in Frame /\ Len(frames) \in 1 .. Len(frames)
      BY <2>2, FrontKeeps DEF IInv, FrameInv
    <3>2. LevelInv(top, FALSE)
      BY <3>1, OutsideLoop DEF IInv, FrameInv, LevelInv, EntryInHand
    <3> HIDE DEF top
    <3>3. top.url \in Urls /\ top.entries \in Seq(References) /\ top.index - 1 \in Nat
      BY <3>1, <3>2, FrameFields DEF LevelInv
    <3>4. OriginOf(top) \in Origin
      BY <3>3 DEF OriginOf, Origin
    <3> QED BY <1>7, <2>2, <3>4 DEF top
  <2> QED BY <2>1, <2>2
<1>9. TypeOK'
  BY <1>1, <1>3, <1>6, <1>8 DEF IInv, TypeOK, Otherwise, Given, FrameInv
<1>10. ControlInv'
  BY <1>3, <1>6 DEF ControlInv, Returned
<1>11. SecureInv'
  BY <1>3, <1>5, <1>6 DEF IInv, SecureInv, Otherwise, Given, Returned, FinalUrlAccepted
<1>12. DescribedInv'
  BY <1>5, <1>6, <1>7 DEF DescribedInv
<1> QED BY <1>1, <1>9, <1>10, <1>11, <1>12 DEF IInv

-----------------------------------------------------------------------------
(* The steps of an attempt                                                 *)

LEMMA ResolveStep ==
  ASSUME IInv, Resolve
  PROVE  IInv'
<1>1. /\ pc = "resolve" /\ UNCHANGED Given /\ resource' = resource /\ frames' = frames
      /\ visited' = visited /\ origin' = origin
  BY DEF Resolve
<1>2. hint \in {"pls", "m3u", "direct"} /\ readBody \in BOOLEAN /\ visited \subseteq Urls
      /\ resource \in References
  BY DEF IInv, TypeOK
<1>3. ASSUME NEW error \in Errors, Return(Failed(error)), UNCHANGED <<hint, readBody>>
      PROVE  IInv'
  <2>1. Otherwise /\ ~Returned /\ pc # "next"
    BY <1>1, <1>2, <1>3 DEF Otherwise, Returned
  <2> QED BY <1>1, <1>2, <1>3, <2>1, ReturnFailed
<1>4. CASE resource = Bad
  <2>1. Return(Failed("invalid")) /\ UNCHANGED <<hint, readBody>> /\ "invalid" \in Errors
    BY <1>4 DEF Resolve, Errors
  <2> QED BY <1>3, <2>1
<1>5. CASE resource # Bad /\ Suffix[resource] # "direct" /\ TooDeep
  <2>1. Return(Failed("nesting")) /\ UNCHANGED <<hint, readBody>> /\ "nesting" \in Errors
    BY <1>5 DEF Resolve, Errors
  <2> QED BY <1>3, <2>1
<1>6. CASE resource # Bad /\ ~(Suffix[resource] # "direct" /\ TooDeep)
  <2>1. /\ pc' = "request" /\ hint' = Suffix[resource]
        /\ readBody' = (Suffix[resource] # "direct") /\ outcome' = outcome
    BY <1>6 DEF Resolve
  <2>2. resource \in Urls /\ hint' \in {"pls", "m3u", "direct"} /\ readBody' \in BOOLEAN
    BY <1>2, <1>6, <2>1, ResolverAssumption DEF References, Urls
  <2>3. FrameInv'
    BY <1>1, OutsideLoop, FramesSame DEF IInv
  <2>4. TypeOK'
    BY <1>1, <2>1, <2>2 DEF IInv, TypeOK, Given
  <2>5. ControlInv'
    BY <1>1, <2>1 DEF IInv, ControlInv, Returned
  <2>6. SecureInv' /\ DescribedInv'
    BY <1>1, <2>1 DEF IInv, SecureInv, DescribedInv, Given, Returned
  <2> QED BY <2>3, <2>4, <2>5, <2>6 DEF IInv
<1> QED BY <1>4, <1>5, <1>6

LEMMA RequestFailsStep ==
  ASSUME IInv, RequestFails
  PROVE  IInv'
<1>1. PICK error \in {"request", "cancelled"} : Return(Failed(error))
  BY DEF RequestFails
<1>2. /\ Otherwise /\ ~Returned /\ pc # "next" /\ resource' = resource /\ frames' = frames
      /\ origin' = origin /\ visited' = visited /\ visited \subseteq Urls
  BY DEF RequestFails, IInv, TypeOK, Otherwise, Returned
<1>3. error \in Errors
  BY DEF Errors
<1> QED BY <1>1, <1>2, <1>3, ReturnFailed

LEMMA HeadersStep ==
  ASSUME IInv, HeadersAnswered
  PROVE  IInv'
<1>1. PICK final \in Urls, contentType \in ContentTypes :
        /\ FinalUrlAccepted(final)
        /\ IF DetectPlaylist(final, contentType) = "direct"
           THEN DirectResult(final, contentType) /\ UNCHANGED readBody
           ELSE readBody' = TRUE /\ UNCHANGED <<pc, outcome, origin>>
  BY DEF HeadersAnswered
<1>2. /\ pc = "request" /\ Otherwise /\ resource' = resource /\ frames' = frames
      /\ visited' = visited
  BY <1>1 DEF HeadersAnswered, IInv, TypeOK, Otherwise
<1>3. CASE DetectPlaylist(final, contentType) = "direct"
  BY <1>1, <1>2, <1>3, ReturnDirect
<1>4. CASE DetectPlaylist(final, contentType) # "direct"
  <2>1. readBody' = TRUE /\ pc' = pc /\ outcome' = outcome /\ origin' = origin
    BY <1>1, <1>4
  <2>2. FrameInv'
    BY <1>2, OutsideLoop, FramesSame DEF IInv
  <2>3. TypeOK'
    BY <1>2, <2>1 DEF IInv, TypeOK, Otherwise, Given
  <2>4. ControlInv' /\ DescribedInv'
    BY <1>2, <2>1 DEF IInv, ControlInv, DescribedInv, Returned
  <2>5. SecureInv'
    BY <1>2, <2>1 DEF IInv, SecureInv, Otherwise, Given, Returned
  <2> QED BY <2>2, <2>3, <2>4, <2>5 DEF IInv
<1> QED BY <1>3, <1>4

\* A body that is a playlist is searched, or refused for the first reason there is.
LEMMA ReadStep ==
  ASSUME IInv, pc = "request", NEW final \in Urls, NEW type \in {"pls", "m3u"},
         NEW contentType \in ContentTypes, NEW body \in Bodies, FinalUrlAccepted(final),
         ReadPlaylist(final, type, contentType, body), Otherwise, resource' = resource
  PROVE  IInv'
<1>1. ~Returned /\ pc # "next" /\ visited \subseteq Urls /\ visited \cup {final} \subseteq Urls
  BY DEF IInv, TypeOK, Returned
<1>2. /\ "nesting" \in Errors /\ "refused" \in Errors /\ "cycle" \in Errors /\ "HLS" \in Errors
  BY DEF Errors
<1>3. ASSUME NEW error \in Errors, Return(Failed(error)), frames' = frames, origin' = origin,
             visited' \in {visited, visited \cup {final}}
      PROVE  IInv'
  BY <1>1, <1>3, ReturnFailed
<1>4. CASE TooDeep
  BY <1>2, <1>3, <1>4 DEF ReadPlaylist
<1>5. CASE ~TooDeep /\ body.kind \in {"oversized", "notUtf8"}
  BY <1>2, <1>3, <1>5 DEF ReadPlaylist
<1>6. CASE ~TooDeep /\ body.kind \notin {"oversized", "notUtf8"} /\ final \in visited
  BY <1>2, <1>3, <1>6 DEF ReadPlaylist
<1>7. CASE ~TooDeep /\ body.kind \notin {"oversized", "notUtf8"} /\ final \notin visited
  <2> DEFINE entries == Listed[body.content][type]
             level == [url |-> final, type |-> type, contentType |-> contentType,
                       entries |-> entries, index |-> 1]
  <2>1. /\ visited' = visited \cup {final} /\ origin' = origin
        /\ IF body.kind = "hls" THEN Return(Failed("HLS")) /\ UNCHANGED frames
           ELSE IF entries = <<>> \/ TooManyEntries(entries)
                THEN Return(Failed("refused")) /\ UNCHANGED frames
                ELSE Search(level)
    BY <1>7 DEF ReadPlaylist, Visit
  <2> HIDE DEF entries, level
  <2>2. CASE body.kind = "hls"
    BY <1>2, <1>3, <2>1, <2>2
  <2>3. CASE body.kind # "hls" /\ (entries = <<>> \/ TooManyEntries(entries))
    BY <1>2, <1>3, <2>1, <2>3
  <2>4. CASE body.kind # "hls" /\ entries # <<>> /\ ~TooManyEntries(entries)
    <3>1. frames' = Append(frames, level) /\ pc' = "next" /\ outcome' = outcome
      BY <2>1, <2>4 DEF Search
    <3>2. body.content \in Contents
      BY <1>7, <2>4 DEF Bodies
    <3>3. entries \in Seq(References) /\ Len(entries) \in Nat
      BY <3>2, ListedAssumption, LenProperties DEF entries
    <3>4. Len(entries) <= MaximumEntries
      BY <2>4, <3>3, ResolverAssumption DEF TooManyEntries
    <3>5. /\ level \in Frame /\ level.url = final /\ level.index = 1
          /\ level.entries = entries
      BY <3>3 DEF level, Frame
    <3>6. frames \in Seq(Frame) /\ Len(frames) \in Nat
      BY LenProperties DEF IInv, FrameInv
    <3>7. Len(frames) < MaximumDepth
      BY <1>7, <3>6, ResolverAssumption DEF TooDeep, Depth
    <3>8. EntryInHand /\ FrameInv
      BY <1>1, OutsideLoop DEF IInv
    <3>9. FrameInv'
      BY <1>7, <2>1, <2>4, <3>1, <3>4, <3>5, <3>7, <3>8, FramesPush
    <3>10. frames' \in Seq(Frame) /\ frames' # <<>>
      BY <3>1, <3>5, <3>6, AppendProperties
    <3>11. TypeOK'
      BY <1>1, <2>1, <3>1, <3>10 DEF IInv, TypeOK, Otherwise, Given
    <3>12. ControlInv' /\ DescribedInv'
      BY <1>1, <3>1, <3>10 DEF IInv, ControlInv, DescribedInv, Returned
    <3>13. SecureInv'
      <4>1. SUFFICES ASSUME configured \in Secure, ~allowHttp
                     PROVE  \A i \in 1 .. Len(frames') : frames'[i].url \in Secure
        BY <3>1 DEF SecureInv, Otherwise, Given, Returned
      <4>2. final \in Secure
        BY <4>1 DEF IInv, SecureInv, FinalUrlAccepted
      <4>3. \A i \in 1 .. Len(frames) : frames[i].url \in Secure
        BY <4>1 DEF IInv, SecureInv
      <4>4. /\ Len(frames') = Len(frames) + 1 /\ frames'[Len(frames) + 1] = level
            /\ \A i \in 1 .. Len(frames) : frames'[i] = frames[i]
        BY <3>1, <3>5, <3>6, AppendProperties
      <4>5. \A i \in 1 .. Len(frames) + 1 : i \in 1 .. Len(frames) \/ i = Len(frames) + 1
        BY <3>6
      <4> QED BY <3>5, <4>2, <4>3, <4>4, <4>5
    <3> QED BY <3>9, <3>11, <3>12, <3>13 DEF IInv
  <2> QED BY <2>2, <2>3, <2>4
<1> QED BY <1>4, <1>5, <1>6, <1>7

LEMMA BodyStep ==
  ASSUME IInv, BodyAnswered
  PROVE  IInv'
<1>1. PICK final \in Urls, contentType \in ContentTypes :
        LET detected == DetectPlaylist(final, contentType)
            signal == IF detected = "direct" THEN hint ELSE detected
        IN  /\ FinalUrlAccepted(final)
            /\ IF signal = "direct"
               THEN DirectResult(final, contentType) /\ UNCHANGED <<frames, visited>>
               ELSE \E body \in Bodies : ReadPlaylist(final, signal, contentType, body)
  BY DEF BodyAnswered
<1>2. pc = "request" /\ Otherwise /\ resource' = resource /\ hint \in {"pls", "m3u", "direct"}
  BY DEF BodyAnswered, IInv, TypeOK, Otherwise
<1> DEFINE detected == DetectPlaylist(final, contentType)
           signal == IF detected = "direct" THEN hint ELSE detected
<1>3. signal \in {"pls", "m3u", "direct"}
  BY <1>2, Detected
<1>4. FinalUrlAccepted(final)
  BY <1>1
<1>5. CASE signal = "direct"
  <2>1. DirectResult(final, contentType) /\ frames' = frames /\ visited' = visited
    BY <1>1, <1>5
  <2> QED BY <1>2, <1>4, <2>1, ReturnDirect
<1>6. CASE signal # "direct"
  <2>1. \E body \in Bodies : ReadPlaylist(final, signal, contentType, body)
    BY <1>1, <1>6
  <2>2. signal \in {"pls", "m3u"}
    BY <1>3, <1>6
  <2> HIDE DEF signal
  <2> QED BY <1>2, <1>4, <2>1, <2>2, ReadStep
<1> QED BY <1>5, <1>6

\* The scheme of the playlists does not depend on how far they have been searched.
LEMMA SameUrls ==
  ASSUME IInv, UNCHANGED Given, Len(frames') \in Nat, Len(frames') <= Len(frames),
         \A i \in 1 .. Len(frames') : frames'[i].url = frames[i].url,
         configured \in Secure /\ ~allowHttp /\ pc' \in {"resolve", "request"} =>
           resource' \in Secure,
         configured \in Secure /\ ~allowHttp /\ Returned' /\ outcome'.ok =>
           outcome'.selection.media \in Secure
  PROVE  SecureInv'
<1>1. Len(frames) \in Nat
  BY LenProperties DEF IInv, FrameInv
<1>2. \A i \in 1 .. Len(frames') : i \in 1 .. Len(frames)
  BY <1>1
<1> QED BY <1>2 DEF IInv, SecureInv, Given

LEMMA TryStep ==
  ASSUME IInv, TryEntry
  PROVE  IInv'
<1> DEFINE top == frames[Len(frames)]
<1>1. /\ pc = "next" /\ frames # <<>> /\ frames \in Seq(Frame) /\ Last(frames) = top
      /\ top \in Frame /\ Len(frames) \in Nat \ {0} /\ Len(frames) \in 1 .. Len(frames)
      /\ hint' = hint /\ readBody' = readBody /\ visited' = visited /\ origin' = origin
      /\ UNCHANGED Given /\ outcome = None
  <2>1. pc = "next" /\ frames # <<>> /\ frames \in Seq(Frame) /\ outcome = None
    BY DEF TryEntry, IInv, ControlInv, FrameInv, Returned
  <2> QED BY <2>1, FrontKeeps DEF TryEntry
<1>2. /\ Len(top.entries) \in Nat /\ top.index \in Nat \ {0} /\ top.url \in Urls
      /\ top.entries \in Seq(References)
  BY <1>1, FrameFields DEF IInv, FrameInv, LevelInv
<1>3. IF top.index > Len(top.entries)
      THEN frames' = Front(frames) /\ Return(Failed("unusable")) /\ resource' = resource
      ELSE IF Blocked(top.url, top.entries[top.index])
      THEN SkipEntry /\ UNCHANGED <<pc, outcome, resource>>
      ELSE /\ resource' = top.entries[top.index] /\ pc' = "resolve"
           /\ UNCHANGED <<frames, outcome>>
  BY <1>1 DEF TryEntry
<1>4. Len(frames) \in Nat /\ \A i \in 1 .. Len(frames) : i < Len(frames) \/ i = Len(frames)
  BY <1>1
<1> HIDE DEF top
<1>5. top.index <= Len(top.entries) => EntryInHand
  BY <1>4 DEF IInv, FrameInv, LevelInv, EntryInHand, top
<1>6. CASE top.index > Len(top.entries)
  <2>1. frames' = Front(frames) /\ pc' = "return" /\ outcome' = Failed("unusable")
        /\ resource' = resource
    BY <1>3, <1>6 DEF Return
  <2>2. outcome' \in Result /\ outcome'.ok = FALSE
    BY <2>1, FailedIsResult DEF Errors
  <2>3. FrameInv'
    BY <1>1, <2>1, FramesPop DEF IInv
  <2>4. /\ frames' \in Seq(Frame) /\ Len(frames') = Len(frames) - 1
        /\ \A i \in 1 .. Len(frames) - 1 : frames'[i] = frames[i]
    BY <1>1, <2>1, FrontKeeps
  <2>5. TypeOK'
    BY <1>1, <2>1, <2>2, <2>4 DEF IInv, TypeOK, Given
  <2>6. ControlInv' /\ DescribedInv'
    BY <2>1, <2>2 DEF ControlInv, DescribedInv, Returned
  <2>7. SecureInv'
    BY <1>1, <1>4, <2>1, <2>2, <2>4, SameUrls
  <2> QED BY <2>3, <2>5, <2>6, <2>7 DEF IInv
<1>7. CASE ~(top.index > Len(top.entries)) /\ Blocked(top.url, top.entries[top.index])
  <2>1. SkipEntry /\ pc' = pc /\ outcome' = outcome /\ resource' = resource
    BY <1>3, <1>7
  <2>2. EntryInHand
    BY <1>2, <1>5, <1>7
  <2>3. FrameInv'
    BY <1>1, <2>1, <2>2, FramesSkip DEF IInv
  <2>4. /\ frames' \in Seq(Frame) /\ Len(frames') = Len(frames)
        /\ \A i \in 1 .. Len(frames) - 1 : frames'[i] = frames[i]
        /\ frames'[Len(frames)].url = frames[Len(frames)].url
    BY <1>1, <2>1, SkipKeeps
  <2>5. \A i \in 1 .. Len(frames) : frames'[i].url = frames[i].url
    BY <1>1, <2>4
  <2>6. frames' # <<>>
    BY <1>1, <2>4, EmptySeq
  <2>7. TypeOK'
    BY <1>1, <2>1, <2>4 DEF IInv, TypeOK, Given
  <2>8. ControlInv' /\ DescribedInv'
    BY <1>1, <2>1, <2>6 DEF ControlInv, DescribedInv, Returned
  <2>9. SecureInv'
    BY <1>1, <1>4, <2>1, <2>4, <2>5, SameUrls DEF Returned
  <2> QED BY <2>3, <2>7, <2>8, <2>9 DEF IInv
<1>8. CASE ~(top.index > Len(top.entries)) /\ ~Blocked(top.url, top.entries[top.index])
  <2>1. /\ resource' = top.entries[top.index] /\ pc' = "resolve" /\ frames' = frames
        /\ outcome' = outcome
    BY <1>3, <1>8
  <2>2. EntryInHand
    BY <1>2, <1>5, <1>8
  <2>3. FrameInv'
    BY <1>1, <2>1, <2>2, FramesSame DEF IInv
  <2>4. top.index \in 1 .. Len(top.entries)
    BY <1>2, <1>8
  <2>5. resource' \in References
    BY <1>2, <2>1, <2>4, ElementOfSeq
  <2>6. TypeOK'
    BY <1>1, <2>1, <2>5 DEF IInv, TypeOK, Given
  <2>7. ControlInv' /\ DescribedInv'
    BY <1>1, <2>1 DEF ControlInv, DescribedInv, Returned
  <2>8. configured \in Secure /\ ~allowHttp => resource' \in Secure
    <3>1. configured \in Secure /\ ~allowHttp => top.url \in Secure
      BY <1>1 DEF IInv, SecureInv, top
    <3> QED BY <1>8, <2>1, <3>1 DEF Blocked
  <2>9. SecureInv'
    BY <1>1, <1>4, <2>1, <2>8, SameUrls DEF Returned
  <2> QED BY <2>3, <2>6, <2>7, <2>9 DEF IInv
<1> QED BY <1>6, <1>7, <1>8

\* A selection that meets the playlist above it is described, or has been.
LEMMA DescribeStep ==
  ASSUME IInv, pc = "return", outcome.ok, frames # <<>>,
         NEW described, described = Describe(outcome.selection, Last(frames))
  PROVE  /\ described \in Selection /\ described.media = outcome.selection.media
         /\ origin \in Origin
         /\ described.playlist = origin.playlist /\ described.index = origin.index
         /\ described.entries = Len(origin.entries) /\ described.index < described.entries
<1> DEFINE top == frames[Len(frames)]
           selection == outcome.selection
<1>1. outcome \in Result /\ selection \in Selection
  BY ResultFields DEF IInv, ControlInv, Returned
<1>2. Last(frames) = top /\ top \in Frame /\ Len(frames) \in 1 .. Len(frames)
  BY FrontKeeps DEF IInv, FrameInv
<1>3. EntryInHand
  BY OutsideLoop DEF IInv
<1>4. /\ top.url \in Urls /\ top.type \in {"pls", "m3u"} /\ top.contentType \in ContentTypes
      /\ top.entries \in Seq(References) /\ Len(top.entries) \in 0 .. MaximumEntries
      /\ top.index \in 1 .. Len(top.entries)
  BY <1>2, <1>3, FrameFields, ResolverAssumption DEF IInv, FrameInv, LevelInv, EntryInHand
<1>5. \/ selection.playlist = None /\ origin = OriginOf(top)
      \/ /\ origin \in Origin /\ selection.playlist = origin.playlist
         /\ selection.index = origin.index /\ selection.entries = Len(origin.entries)
         /\ selection.index < selection.entries
  BY DEF IInv, DescribedInv, Returned
<1>6. described = IF selection.playlist # None THEN selection
                  ELSE [selection EXCEPT !.playlist = top.url, !.type = top.type,
                                         !.contentType = top.contentType,
                                         !.index = top.index - 1,
                                         !.entries = Len(top.entries)]
  BY <1>2 DEF Describe
<1> HIDE DEF top, selection
<1>7. CASE selection.playlist # None
  <2>1. described = selection
    BY <1>6, <1>7
  <2> QED BY <1>1, <1>5, <1>7, <2>1 DEF selection
<1>8. CASE selection.playlist = None
  <2>1. origin = OriginOf(top)
    BY <1>5, <1>8, NoneIsNoUrl DEF Origin
  <2>2. top.index - 1 \in 0 .. MaximumEntries /\ top.index - 1 < Len(top.entries)
        /\ top.index - 1 \in Nat
    BY <1>4, ResolverAssumption
  <2>3. origin \in Origin /\ origin.playlist = top.url /\ origin.index = top.index - 1
        /\ origin.entries = top.entries
    BY <1>4, <2>1, <2>2 DEF OriginOf, Origin
  <2>4. /\ described = [selection EXCEPT !.playlist = top.url, !.type = top.type,
                                         !.contentType = top.contentType,
                                         !.index = top.index - 1,
                                         !.entries = Len(top.entries)]
    BY <1>6, <1>8
  <2>5. /\ described.playlist = top.url /\ described.index = top.index - 1
        /\ described.entries = Len(top.entries) /\ described.media = selection.media
    BY <1>1, <2>4 DEF Selection
  <2>6. described \in Selection
    BY <1>1, <1>4, <2>2, <2>4 DEF Selection
  <2> QED BY <2>2, <2>3, <2>5, <2>6 DEF selection
<1> QED BY <1>7, <1>8

LEMMA UnwindStep ==
  ASSUME IInv, Unwind
  PROVE  IInv'
<1>1. /\ pc = "return" /\ frames # <<>> /\ frames \in Seq(Frame) /\ Len(frames) \in Nat \ {0}
      /\ hint' = hint /\ readBody' = readBody /\ visited' = visited /\ origin' = origin
      /\ UNCHANGED Given /\ resource' = resource /\ outcome \in Result
  <2>1. pc = "return" /\ frames # <<>> /\ frames \in Seq(Frame) /\ outcome \in Result
    BY DEF Unwind, IInv, ControlInv, FrameInv, Returned
  <2>2. Len(frames) \in Nat \ {0}
    BY <2>1, FrontKeeps
  <2>3. /\ hint' = hint /\ readBody' = readBody /\ visited' = visited /\ origin' = origin
        /\ UNCHANGED Given /\ resource' = resource
    BY DEF Unwind
  <2> QED BY <2>1, <2>2, <2>3
<1>2. IF outcome.ok
      THEN /\ outcome' = Selected(Describe(outcome.selection, Last(frames)))
           /\ frames' = Front(frames) /\ pc' = pc
      ELSE IF Aborts(outcome.error)
      THEN frames' = Front(frames) /\ pc' = pc /\ outcome' = outcome
      ELSE SkipEntry /\ pc' = "next" /\ outcome' = None
  BY DEF Unwind
<1>3. outcome.ok \in BOOLEAN
  BY <1>1, ResultFields
<1>4. ASSUME frames' = Front(frames)
      PROVE  /\ FrameInv' /\ frames' \in Seq(Frame) /\ Len(frames') \in Nat
             /\ Len(frames') <= Len(frames)
             /\ \A i \in 1 .. Len(frames') : frames'[i].url = frames[i].url
  <2>1. FrameInv'
    BY <1>1, <1>4, FramesPop DEF IInv
  <2>2. /\ frames' \in Seq(Frame) /\ Len(frames') = Len(frames) - 1
        /\ \A i \in 1 .. Len(frames) - 1 : frames'[i] = frames[i]
    BY <1>1, <1>4, FrontKeeps
  <2> QED BY <1>1, <2>1, <2>2
<1>5. CASE outcome.ok
  <2> DEFINE described == Describe(outcome.selection, Last(frames))
  <2>1. outcome' = Selected(described) /\ frames' = Front(frames) /\ pc' = "return"
    BY <1>1, <1>2, <1>5
  <2>2. /\ described \in Selection /\ described.media = outcome.selection.media
        /\ origin \in Origin
        /\ described.playlist = origin.playlist /\ described.index = origin.index
        /\ described.entries = Len(origin.entries) /\ described.index < described.entries
    BY <1>1, <1>5, DescribeStep
  <2> HIDE DEF described
  <2>3. outcome' \in Result /\ outcome'.ok = TRUE /\ outcome'.selection = described
    BY <2>1, <2>2, SelectedIsResult
  <2>4. TypeOK'
    BY <1>1, <1>4, <2>1, <2>3 DEF IInv, TypeOK, Given
  <2>5. ControlInv'
    BY <2>1, <2>3 DEF ControlInv, Returned
  <2>6. DescribedInv'
    BY <1>1, <2>2, <2>3 DEF DescribedInv
  <2>7. configured \in Secure /\ ~allowHttp => outcome.selection.media \in Secure
    BY <1>1, <1>5 DEF IInv, SecureInv, Returned
  <2>8. SecureInv'
    BY <1>1, <1>4, <2>1, <2>2, <2>3, <2>7, SameUrls
  <2> QED BY <1>4, <2>1, <2>4, <2>5, <2>6, <2>8 DEF IInv
<1>6. CASE ~outcome.ok /\ Aborts(outcome.error)
  <2>1. outcome' = outcome /\ frames' = Front(frames) /\ pc' = "return" /\ ~outcome'.ok
    BY <1>1, <1>2, <1>6
  <2>2. TypeOK'
    BY <1>1, <1>4, <2>1 DEF IInv, TypeOK, Given
  <2>3. ControlInv' /\ DescribedInv'
    BY <1>1, <2>1 DEF ControlInv, DescribedInv, Returned
  <2>4. SecureInv'
    BY <1>1, <1>4, <2>1, SameUrls
  <2> QED BY <1>4, <2>1, <2>2, <2>3, <2>4 DEF IInv
<1>7. CASE ~outcome.ok /\ ~Aborts(outcome.error)
  <2>1. SkipEntry /\ pc' = "next" /\ outcome' = None
    BY <1>2, <1>7
  <2>2. EntryInHand
    BY <1>1, OutsideLoop DEF IInv
  <2>3. FrameInv'
    BY <1>1, <2>1, <2>2, FramesSkip DEF IInv
  <2>4. /\ frames' \in Seq(Frame) /\ Len(frames') = Len(frames)
        /\ \A i \in 1 .. Len(frames) - 1 : frames'[i] = frames[i]
        /\ frames'[Len(frames)].url = frames[Len(frames)].url
    BY <1>1, <2>1, SkipKeeps
  <2>5. \A i \in 1 .. Len(frames) : frames'[i].url = frames[i].url
    <3>1. \A i \in 1 .. Len(frames) : i \in 1 .. Len(frames) - 1 \/ i = Len(frames)
      BY <1>1
    <3> QED BY <2>4, <3>1
  <2>6. frames' # <<>>
    BY <1>1, <2>4, EmptySeq
  <2>7. TypeOK'
    BY <1>1, <2>1, <2>4 DEF IInv, TypeOK, Given
  <2>8. ControlInv' /\ DescribedInv'
    BY <1>1, <2>1, <2>6 DEF ControlInv, DescribedInv, Returned
  <2>9. SecureInv'
    BY <1>1, <2>1, <2>4, <2>5, SameUrls DEF Returned
  <2> QED BY <2>3, <2>7, <2>8, <2>9 DEF IInv
<1> QED BY <1>3, <1>5, <1>6, <1>7

LEMMA FinishStep ==
  ASSUME IInv, Finish
  PROVE  IInv'
<1>1. /\ pc = "return" /\ frames = <<>> /\ pc' = "done" /\ frames' = frames
      /\ UNCHANGED <<Given, resource, hint, readBody, visited, outcome, origin>>
  BY DEF Finish
<1>2. FrameInv'
  BY <1>1, OutsideLoop, FramesSame DEF IInv
<1>3. TypeOK'
  BY <1>1 DEF IInv, TypeOK, Given
<1>4. ControlInv' /\ DescribedInv'
  BY <1>1 DEF IInv, ControlInv, DescribedInv, Returned
<1>5. SecureInv'
  BY <1>1 DEF IInv, SecureInv, Given, Returned
<1> QED BY <1>2, <1>3, <1>4, <1>5 DEF IInv

-----------------------------------------------------------------------------
(* The invariant and what follows from it                                  *)

LEMMA InitHolds ==
  ASSUME Init
  PROVE  IInv
<1>1. <<>> \in Seq(Frame) /\ Len(<<>>) = 0
  BY EmptySeq
<1>2. TypeOK
  BY <1>1 DEF Init, TypeOK
<1>3. ControlInv /\ DescribedInv
  BY DEF Init, ControlInv, DescribedInv, Returned
<1>4. FrameInv
  BY <1>1, ResolverAssumption DEF Init, FrameInv
<1>5. SecureInv
  BY <1>1 DEF Init, SecureInv, Returned
<1> QED BY <1>2, <1>3, <1>4, <1>5 DEF IInv

LEMMA Stutter ==
  ASSUME IInv, UNCHANGED vars
  PROVE  IInv'
<1> USE DEF vars
<1>1. TypeOK'
  BY DEF IInv, TypeOK
<1>2. ControlInv' /\ DescribedInv'
  BY DEF IInv, ControlInv, DescribedInv, Returned
<1>3. FrameInv'
  BY DEF IInv, FrameInv
<1>4. SecureInv'
  BY DEF IInv, SecureInv, Returned
<1> QED BY <1>1, <1>2, <1>3, <1>4 DEF IInv

LEMMA Invariance == Spec => []IInv
<1>1. Init => IInv
  BY InitHolds
<1>2. IInv /\ [Next]_vars => IInv'
  <2> SUFFICES ASSUME IInv, [Next]_vars
               PROVE  IInv'
    OBVIOUS
  <2>1. CASE Resolve
    BY <2>1, ResolveStep
  <2>2. CASE RequestFails
    BY <2>2, RequestFailsStep
  <2>3. CASE HeadersAnswered
    BY <2>3, HeadersStep
  <2>4. CASE BodyAnswered
    BY <2>4, BodyStep
  <2>5. CASE TryEntry
    BY <2>5, TryStep
  <2>6. CASE Unwind
    BY <2>6, UnwindStep
  <2>7. CASE Finish
    BY <2>7, FinishStep
  <2>8. CASE UNCHANGED vars
    BY <2>8, Stutter
  <2> QED BY <2>1, <2>2, <2>3, <2>4, <2>5, <2>6, <2>7, <2>8 DEF Next
<1> QED BY <1>1, <1>2, PTL DEF Spec

\* The variables of a resolution keep their types; the result on its way up is an
\* error or a complete selection.
THEOREM TypeCorrect == Spec => []TypeOK
<1>1. IInv => TypeOK
  BY DEF IInv
<1> QED BY <1>1, Invariance, PTL

\* A station configured with https and without AllowHttp reaches no http URL, through
\* redirects, second requests and playlists at any depth (the checks of request and of
\* the entry loop of resolveResource together).
THEOREM HttpPolicyHolds == Spec => []StaysSecure
<1>1. IInv => StaysSecure
  <2> SUFFICES ASSUME IInv, configured \in Secure, ~allowHttp
               PROVE  /\ pc = "request" => resource \in Secure
                      /\ (outcome # None /\ outcome.ok) => outcome.selection.media \in Secure
    BY DEF StaysSecure
  <2>1. pc = "request" => resource \in Secure
    BY DEF IInv, SecureInv
  <2>2. outcome # None => Returned
    BY DEF IInv, ControlInv
  <2> QED BY <2>1, <2>2 DEF IInv, SecureInv
<1> QED BY <1>1, Invariance, PTL

\* However the servers answer, the playlists being searched are no more than
\* maximumDepth, none is inside itself and none is longer than maximumEntries
\* (resolvePlaylist's checks and visitedPlaylists_).
THEOREM SearchIsBounded == Spec => []SearchBounded
<1>1. IInv => SearchBounded
  BY DEF IInv, FrameInv, LevelInv, SearchBounded, Depth, IsInjective
<1> QED BY <1>1, Invariance, PTL

\* The metadata of a finished selection is about the innermost playlist and the entry
\* of it that led to the media URL, whatever was tried before (resolvePlaylist fills in
\* what is still empty).
THEOREM SelectionIsDescribed == Spec => []SelectionDescribed
<1>1. IInv => SelectionDescribed
  <2> SUFFICES ASSUME IInv, pc = "done", outcome.ok
               PROVE  IF origin = None THEN outcome.selection.playlist = None
                      ELSE /\ outcome.selection.playlist = origin.playlist
                           /\ outcome.selection.index = origin.index
                           /\ outcome.selection.entries = Len(origin.entries)
                           /\ outcome.selection.index < outcome.selection.entries
    BY DEF SelectionDescribed
  <2>1. frames = <<>>
    BY DEF IInv, ControlInv
  <2>2. None \notin Origin
    BY ListedAssumption
  <2> QED BY <2>1, <2>2 DEF IInv, DescribedInv, Returned
<1> QED BY <1>1, Invariance, PTL

-----------------------------------------------------------------------------
(* Progress                                                                *)

\* How far the search is at each depth: the entry in hand, nothing where no playlist
\* has been entered, or past every entry when a result is on its way up from there.
Place(depth) ==
  IF depth <= Depth THEN frames[depth].index
  ELSE IF Returned THEN MaximumEntries + 2 ELSE 0

\* Where a call stands; the second request of a resource follows the first.
Position ==
  CASE pc = "next"    -> 1
    [] pc = "resolve" -> 2
    [] pc = "request" -> IF readBody THEN 4 ELSE 3
    [] pc = "return"  -> 5
    [] pc = "done"    -> 6

Levels == 1 .. MaximumDepth + 1

\* Further at some depth with nothing changed above it, or at the same place further on.
Advances ==
  \/ \E depth \in Levels :
       /\ Place(depth)' > Place(depth)
       /\ \A above \in 1 .. depth - 1 : Place(above)' = Place(above)
  \/ /\ \A depth \in Levels : Place(depth)' = Place(depth)
     /\ Position' > Position

PlacesBounded == \A depth \in Levels : Place(depth) \in 0 .. MaximumEntries + 2

LEMMA BoundedPlaces ==
  ASSUME IInv
  PROVE  PlacesBounded
<1> SUFFICES ASSUME NEW depth \in Levels PROVE Place(depth) \in 0 .. MaximumEntries + 2
  BY DEF PlacesBounded
<1>1. MaximumEntries \in Nat /\ MaximumDepth \in Nat /\ Depth \in Nat
  BY ResolverAssumption, LenProperties DEF IInv, FrameInv, Depth
<1>2. CASE depth <= Depth
  <2>1. depth \in 1 .. Len(frames)
    BY <1>1, <1>2 DEF Levels, Depth
  <2>2. frames[depth] \in Frame /\ LevelInv(frames[depth], depth = Len(frames) /\ pc = "next")
    BY <2>1, ElementOfSeq DEF IInv, FrameInv
  <2>3. Len(frames[depth].entries) \in Nat
    BY <2>2, FrameFields
  <2>4. frames[depth].index \in 0 .. MaximumEntries + 2
    BY <1>1, <2>2, <2>3 DEF LevelInv
  <2> QED BY <1>2, <2>4 DEF Place
<1>3. CASE ~(depth <= Depth)
  BY <1>1, <1>3 DEF Place
<1> QED BY <1>2, <1>3

\* The search stays where it is, and the call goes on.
LEMMA StayAdvances ==
  ASSUME frames' = frames, Returned' = Returned, Position' > Position
  PROVE  Advances
BY DEF Advances, Place, Depth

\* A result comes back from a resource under the innermost playlist.
LEMMA ReturnAdvances ==
  ASSUME IInv, ~Returned, Returned', frames' = frames
  PROVE  Advances
<1>1. MaximumEntries \in Nat /\ MaximumDepth \in Nat /\ Depth \in Nat /\ Depth <= MaximumDepth
  BY ResolverAssumption, LenProperties DEF IInv, FrameInv, Depth
<1>2. Depth' = Depth
  BY DEF Depth
<1>3. Depth + 1 \in Levels /\ ~(Depth + 1 <= Depth)
      /\ \A above \in 1 .. (Depth + 1) - 1 : above <= Depth
  BY <1>1 DEF Levels
<1>4. Place(Depth + 1) = 0
  BY <1>3 DEF Place
<1>5. \A depth : Place(depth)' = IF depth <= Depth THEN frames[depth].index
                                 ELSE MaximumEntries + 2
  BY <1>2 DEF Place
<1>6. \A above \in 1 .. (Depth + 1) - 1 : Place(above)' = Place(above)
  BY <1>3, <1>5 DEF Place
<1> QED BY <1>1, <1>3, <1>4, <1>5, <1>6 DEF Advances

\* A result leaves the innermost playlist.
LEMMA PopAdvances ==
  ASSUME IInv, frames # <<>>, frames' = Front(frames), Returned'
  PROVE  Advances
<1> DEFINE n == Len(frames)
<1>1. /\ n \in Nat \ {0} /\ Len(frames') = n - 1
      /\ \A i \in 1 .. n - 1 : frames'[i] = frames[i]
  BY FrontKeeps DEF IInv, FrameInv
<1>2. n <= MaximumDepth /\ MaximumDepth \in Nat /\ MaximumEntries \in Nat
  BY ResolverAssumption DEF IInv, FrameInv
<1>3. frames[n].index \in Nat /\ frames[n].index <= MaximumEntries + 1
  <2>1. n \in 1 .. Len(frames)
    BY <1>1
  <2>2. frames[n] \in Frame /\ LevelInv(frames[n], n = Len(frames) /\ pc = "next")
    BY <2>1, ElementOfSeq DEF IInv, FrameInv
  <2>3. Len(frames[n].entries) \in Nat
    BY <2>2, FrameFields
  <2> QED BY <1>2, <2>2, <2>3 DEF LevelInv
<1>4. Depth = n /\ Depth' = n - 1
  BY <1>1 DEF Depth
<1> HIDE DEF n
<1>5. n \in Levels /\ n <= n /\ ~(n <= n - 1)
  BY <1>1, <1>2 DEF Levels
<1>6. Place(n) = frames[n].index
  BY <1>4, <1>5 DEF Place
<1>7. \A depth : Place(depth)' = IF depth <= n - 1 THEN frames'[depth].index
                                 ELSE MaximumEntries + 2
  BY <1>4 DEF Place
<1>8. \A above \in 1 .. n - 1 : Place(above)' = Place(above)
  <2> TAKE above \in 1 .. n - 1
  <2>1. above <= n - 1 /\ above <= n
    BY <1>1
  <2> QED BY <1>1, <1>4, <1>7, <2>1 DEF Place
<1> QED BY <1>2, <1>3, <1>5, <1>6, <1>7, <1>8 DEF Advances

\* The innermost playlist goes on to its next entry.
LEMMA SkipAdvances ==
  ASSUME IInv, frames # <<>>, SkipEntry
  PROVE  Advances
<1> DEFINE n == Len(frames)
<1>1. /\ n \in Nat \ {0} /\ Len(frames') = n /\ frames[n] \in Frame
      /\ \A i \in 1 .. n - 1 : frames'[i] = frames[i]
      /\ frames'[n].index = frames[n].index + 1
  BY FrontKeeps, SkipKeeps DEF IInv, FrameInv
<1>2. n <= MaximumDepth /\ MaximumDepth \in Nat /\ frames[n].index \in Nat
  BY <1>1, FrameFields, ResolverAssumption DEF IInv, FrameInv
<1>3. Depth = n /\ Depth' = n
  BY <1>1 DEF Depth
<1> HIDE DEF n
<1>4. n \in Levels /\ n <= n /\ \A above \in 1 .. n - 1 : above <= n
  BY <1>1, <1>2 DEF Levels
<1>5. \A depth : depth <= n => Place(depth) = frames[depth].index
                              /\ Place(depth)' = frames'[depth].index
  BY <1>3 DEF Place
<1>6. \A above \in 1 .. n - 1 : Place(above)' = Place(above)
  BY <1>1, <1>4, <1>5
<1> QED BY <1>1, <1>2, <1>4, <1>5, <1>6 DEF Advances

\* A further playlist is entered.
LEMMA PushAdvances ==
  ASSUME IInv, ~Returned, ~TooDeep, NEW level \in Frame, level.index = 1,
         frames' = Append(frames, level)
  PROVE  Advances
<1> DEFINE n == Len(frames)
<1>1. /\ n \in Nat /\ Len(frames') = n + 1 /\ frames'[n + 1] = level
      /\ \A i \in 1 .. n : frames'[i] = frames[i]
  BY AppendProperties, LenProperties DEF IInv, FrameInv
<1>2. n < MaximumDepth /\ MaximumDepth \in Nat
  BY <1>1, ResolverAssumption DEF TooDeep, Depth
<1>3. Depth = n /\ Depth' = n + 1
  BY <1>1 DEF Depth
<1> HIDE DEF n
<1>4. /\ n + 1 \in Levels /\ ~(n + 1 <= n) /\ n + 1 <= n + 1
      /\ \A above \in 1 .. (n + 1) - 1 : above \in 1 .. n /\ above <= n /\ above <= n + 1
  BY <1>1, <1>2 DEF Levels
<1>5. Place(n + 1) = 0
  BY <1>3, <1>4 DEF Place
<1>6. \A depth : depth <= n + 1 => Place(depth)' = frames'[depth].index
  BY <1>3 DEF Place
<1>7. \A above \in 1 .. (n + 1) - 1 : Place(above)' = Place(above)
  BY <1>1, <1>3, <1>4, <1>6 DEF Place
<1> QED BY <1>1, <1>4, <1>5, <1>6, <1>7 DEF Advances

LEMMA ReadAdvances ==
  ASSUME IInv, pc = "request", NEW final \in Urls, NEW type \in {"pls", "m3u"},
         NEW contentType \in ContentTypes, NEW body \in Bodies,
         ReadPlaylist(final, type, contentType, body)
  PROVE  Advances
<1>1. ~Returned
  BY DEF Returned
<1>2. ASSUME NEW error, Return(Failed(error)), frames' = frames PROVE Advances
  <2>1. Returned'
    BY <1>2 DEF Return, Returned
  <2> QED BY <1>1, <1>2, <2>1, ReturnAdvances
<1>3. CASE TooDeep \/ body.kind \in {"oversized", "notUtf8"} \/ final \in visited
  BY <1>2, <1>3 DEF ReadPlaylist
<1>4. CASE ~(TooDeep \/ body.kind \in {"oversized", "notUtf8"} \/ final \in visited)
  <2> DEFINE entries == Listed[body.content][type]
             level == [url |-> final, type |-> type, contentType |-> contentType,
                       entries |-> entries, index |-> 1]
  <2>1. IF body.kind = "hls" THEN Return(Failed("HLS")) /\ UNCHANGED frames
        ELSE IF entries = <<>> \/ TooManyEntries(entries)
             THEN Return(Failed("refused")) /\ UNCHANGED frames
             ELSE Search(level)
    BY <1>4 DEF ReadPlaylist
  <2> HIDE DEF entries, level
  <2>2. CASE body.kind = "hls" \/ entries = <<>> \/ TooManyEntries(entries)
    BY <1>2, <2>1, <2>2
  <2>3. CASE ~(body.kind = "hls" \/ entries = <<>> \/ TooManyEntries(entries))
    <3>1. frames' = Append(frames, level)
      BY <2>1, <2>3 DEF Search
    <3>2. body.content \in Contents
      BY <1>4, <2>3 DEF Bodies
    <3>3. entries \in Seq(References)
      BY <3>2, ListedAssumption DEF entries
    <3>4. level \in Frame /\ level.index = 1
      BY <3>3 DEF level, Frame
    <3> QED BY <1>1, <1>4, <3>1, <3>4, PushAdvances
  <2> QED BY <2>2, <2>3
<1> QED BY <1>3, <1>4

LEMMA ResolveAdvances ==
  ASSUME IInv, Resolve PROVE Advances
<1>1. pc = "resolve" /\ frames' = frames /\ ~Returned
  BY DEF Resolve, Returned
<1>2. CASE pc' = "return"
  BY <1>1, <1>2, ReturnAdvances DEF Returned
<1>3. CASE pc' = "request"
  BY <1>1, <1>3, StayAdvances DEF Position, Returned
<1> QED BY <1>2, <1>3 DEF Resolve, Return

LEMMA HeadersAdvance ==
  ASSUME IInv, HeadersAnswered PROVE Advances
<1>1. pc = "request" /\ ~readBody /\ frames' = frames /\ ~Returned
  BY DEF HeadersAnswered, Returned
<1>2. CASE pc' = "return"
  BY <1>1, <1>2, ReturnAdvances DEF Returned
<1>3. CASE pc' = pc /\ readBody'
  BY <1>1, <1>3, StayAdvances DEF Position, Returned
<1> QED BY <1>2, <1>3 DEF HeadersAnswered, DirectResult, Return

LEMMA BodyAdvances ==
  ASSUME IInv, BodyAnswered PROVE Advances
<1>1. PICK final \in Urls, contentType \in ContentTypes :
        LET detected == DetectPlaylist(final, contentType)
            signal == IF detected = "direct" THEN hint ELSE detected
        IN  /\ FinalUrlAccepted(final)
            /\ IF signal = "direct"
               THEN DirectResult(final, contentType) /\ UNCHANGED <<frames, visited>>
               ELSE \E body \in Bodies : ReadPlaylist(final, signal, contentType, body)
  BY DEF BodyAnswered
<1>2. pc = "request" /\ ~Returned /\ hint \in {"pls", "m3u", "direct"}
  BY DEF BodyAnswered, IInv, TypeOK, Returned
<1> DEFINE detected == DetectPlaylist(final, contentType)
           signal == IF detected = "direct" THEN hint ELSE detected
<1>3. signal \in {"pls", "m3u", "direct"}
  BY <1>2, Detected
<1>4. CASE signal = "direct"
  <2>1. frames' = frames /\ pc' = "return"
    BY <1>1, <1>4 DEF DirectResult, Return
  <2> QED BY <1>2, <2>1, ReturnAdvances DEF Returned
<1>5. CASE signal # "direct"
  <2>1. \E body \in Bodies : ReadPlaylist(final, signal, contentType, body)
    BY <1>1, <1>5
  <2>2. signal \in {"pls", "m3u"}
    BY <1>3, <1>5
  <2> HIDE DEF signal
  <2> QED BY <1>2, <2>1, <2>2, ReadAdvances
<1> QED BY <1>4, <1>5

LEMMA TryAdvances ==
  ASSUME IInv, TryEntry PROVE Advances
<1>1. pc = "next" /\ frames # <<>> /\ ~Returned
  BY DEF TryEntry, IInv, ControlInv, Returned
<1>2. CASE frames' = Front(frames) /\ pc' = "return"
  BY <1>1, <1>2, PopAdvances DEF Returned
<1>3. CASE SkipEntry
  BY <1>1, <1>3, SkipAdvances
<1>4. CASE frames' = frames /\ pc' = "resolve"
  BY <1>1, <1>4, StayAdvances DEF Position, Returned
<1> QED BY <1>2, <1>3, <1>4 DEF TryEntry, Return

LEMMA UnwindAdvances ==
  ASSUME IInv, Unwind PROVE Advances
<1>1. pc = "return" /\ frames # <<>>
  BY DEF Unwind
<1>2. CASE frames' = Front(frames) /\ pc' = pc
  BY <1>1, <1>2, PopAdvances DEF Returned
<1>3. CASE SkipEntry
  BY <1>1, <1>3, SkipAdvances
<1> QED BY <1>2, <1>3 DEF Unwind

\* No step of a resolution takes it back (the recursion of resolveResource): it goes on
\* at some depth with nothing changed at the levels above, or goes on in the call it is
\* in.  There are finitely many places (PlacesBounded), so an attempt is made of finitely
\* many steps, whatever the servers answer and however the playlists refer to one another.
THEOREM ResolutionAdvances == Spec => []PlacesBounded /\ [][Advances]_vars
<1>1. IInv => PlacesBounded
  BY BoundedPlaces
<1>2. IInv /\ Next => Advances
  <2> SUFFICES ASSUME IInv, Next PROVE Advances
    OBVIOUS
  <2>1. CASE RequestFails
    BY <2>1, ReturnAdvances DEF RequestFails, Return, Returned
  <2>2. CASE Finish
    BY <2>2, StayAdvances DEF Finish, Position, Returned
  <2> QED BY <2>1, <2>2, ResolveAdvances, HeadersAdvance, BodyAdvances, TryAdvances,
             UnwindAdvances DEF Next
<1> QED BY <1>1, <1>2, Invariance, PTL DEF Spec

=============================================================================
