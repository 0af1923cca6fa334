-------------------------- MODULE HttpFetch_proofs --------------------------
(***************************************************************************)
(* What a fetch promises for every caller, every server and every limit:   *)
(* https is never left, redirects and bodies stay within their bounds, and *)
(* a cancel costs one request or one read.  See HttpFetch.                 *)
(***************************************************************************)
EXTENDS HttpFetch, TLAPS

\* What is normalized has a supported scheme and a port in range.
UrlOK(u) == u # None => u.scheme \in {"http", "https"} /\ PortAccepted(u.port)

\* A URL the call goes on with was accepted, and the body fits its limit.
UnderWay == {"prepare", "ready", "sending", "receiving", "reading", "awaiting"}

BoundInv ==
  /\ phase \in UnderWay => url # None
  /\ body <= options.limit

\* The hops of a call that has used https have not left it.
SecureInv ==
  /\ phase = "called" => ~wasSecure
  /\ phase \in UnderWay /\ wasSecure => url.scheme = "https"

\* Where a call may be once it has begun to block under a raised flag.  Between a send and
\* its receive there is no look at the flag; behind either and behind a read there is.
CancelInv ==
  /\ lateCalls <= 2 /\ lateReads <= 1
  /\ lateCalls = 0 \/ lateReads = 0
  /\ lateCalls > 0 => cancelled /\ phase \in {"receiving", "prepare", "reading", "done"}
  /\ lateCalls = 2 => phase # "receiving"
  /\ lateReads > 0 => cancelled /\ phase \in {"reading", "done"}

\* A normalized URL keeps the scheme it was built with.
LEMMA NormalizedOK ==
  ASSUME NEW scheme \in {"http", "https"}, NEW host, NEW port, NEW path, NEW query,
         PortAccepted(port)
  PROVE  UrlOK(BuildNormalized(scheme, host, port, path, query))
<1>1. PortAccepted(None)
  BY DEF PortAccepted
<1>2. PortAccepted(ShownPort(scheme, port))
  BY <1>1 DEF ShownPort
<1> QED BY <1>2 DEF BuildNormalized, UrlOK

LEMMA ParsedOK ==
  ASSUME NEW t PROVE UrlOK(ParseHttpUrl(t))
<1>1. CASE Accepted(t)
  <2>1. t.scheme \in {"http", "https"} /\ PortAccepted(t.port)
    BY <1>1 DEF Accepted
  <2>2. \A path : UrlOK(BuildNormalized(t.scheme, t.host, t.port, path, t.query))
    BY <2>1, NormalizedOK
  <2> QED BY <1>1, <2>2 DEF ParseHttpUrl
<1>2. CASE ~Accepted(t)
  BY <1>2 DEF ParseHttpUrl, UrlOK
<1> QED BY <1>1, <1>2

LEMMA ResolvedOK ==
  ASSUME NEW base, NEW r \in Reference, base # None, UrlOK(base)
  PROVE  UrlOK(ResolveHttpUrl(base, r))
<1>1. CASE r.form = "prefixed"
  BY <1>1 DEF ResolveHttpUrl, UrlOK
<1>2. CASE r.form = "absolute"
  <2>1. ResolveHttpUrl(base, r) = ParseHttpUrl(r.text)
    BY <1>2 DEF ResolveHttpUrl
  <2> QED BY <2>1, ParsedOK
<1>3. CASE r.form = "network"
  <2>1. ResolveHttpUrl(base, r) = ParseHttpUrl([r.text EXCEPT !.scheme = base.scheme])
    BY <1>3 DEF ResolveHttpUrl, NetworkUrl
  <2> QED BY <2>1, ParsedOK
<1>4. CASE r.form = "path"
  <2>1. ResolveHttpUrl(base, r)
          = BuildNormalized(base.scheme, base.host, base.port, ReferencePath(base, r),
                            ReferenceQuery(base, r))
    BY <1>4 DEF ResolveHttpUrl
  <2>2. base.scheme \in {"http", "https"} /\ PortAccepted(base.port)
    BY DEF UrlOK
  <2>3. UrlOK(BuildNormalized(base.scheme, base.host, base.port, ReferencePath(base, r),
                              ReferenceQuery(base, r)))
    BY <2>2, NormalizedOK
  <2> QED BY <2>1, <2>3
<1>5. r.form \in {"prefixed", "absolute", "network", "path"}
  BY DEF Reference
<1> QED BY <1>1, <1>2, <1>3, <1>4, <1>5

-----------------------------------------------------------------------------

IInv == TypeOK /\ BoundInv

LEMMA InitIInv == Init => IInv /\ SecureInv /\ CancelInv
<1> SUFFICES ASSUME Init PROVE IInv /\ SecureInv /\ CancelInv
  OBVIOUS
<1>1. UrlOK(url)
  BY ParsedOK DEF Init
<1>2. TypeOK
  <2>1. hop \in 0 .. MaximumRedirects /\ body \in 0 .. MaximumBytes 
        /\ lateCalls \in 0 .. LateBound /\ lateReads \in 0 .. LateBound
    BY FetchAssumption DEF Init, LateBound
  <2>2. url # None => url.scheme \in {"http", "https"} /\ PortAccepted(url.port)
    BY <1>1 DEF UrlOK
  <2> QED BY <2>1, <2>2 DEF Init, TypeOK
<1>3. BoundInv
  BY FetchAssumption DEF Init, BoundInv, UnderWay
<1>4. SecureInv /\ CancelInv
  BY DEF Init, SecureInv, CancelInv, UnderWay
<1> QED BY <1>2, <1>3, <1>4 DEF IInv

\* What every step has to keep of the type, conjunct by conjunct.
LEMMA Counted == ASSUME NEW count \in 0 .. LateBound PROVE IfLate(count) \in 0 .. LateBound
BY DEF IfLate, LateBound

LEMMA StepType ==
  ASSUME IInv, [Next]_vars
  PROVE  IInv'
<1> USE DEF IInv, TypeOK, BoundInv, UnderWay
<1>1. CASE Cancel
  BY <1>1 DEF Cancel, Hop, History
<1>2. CASE Get
  BY <1>2 DEF Get, Finish, Continue, Asked, Hop, History
<1>3. CASE Prepare
  BY <1>3 DEF Prepare, Finish, Continue, Asked, Hop, History
<1>4. CASE LookAgain
  BY <1>4 DEF LookAgain, Finish, Continue, Asked, Hop, History
<1>5. CASE Send
  <2>1. lateCalls' \in 0 .. LateBound /\ wasSecure' \in BOOLEAN
    BY <1>5, Counted DEF Send
  <2> QED BY <1>5, <2>1 DEF Send, Finish, Continue, Asked, Hop
<1>6. CASE Redirected
  <2>1. /\ lateCalls' \in 0 .. LateBound
        /\ UNCHANGED <<options, cancelled, wasSecure, lateReads>>
    BY <1>6, Counted DEF Redirected, Received, Asked
  <2>2. phase = "receiving" /\ url # None
    BY <1>6 DEF Redirected, Received
  <2>3. PICK r \in References \cup {None} :
          IF TooManyRedirects \/ LocationRefused(NextUrl(r))
          THEN Finish("failed") /\ UNCHANGED Hop
          ELSE Follow(r)
    BY <1>6 DEF Redirected
  <2>4. CASE TooManyRedirects \/ LocationRefused(NextUrl(r))
    BY <2>1, <2>2, <2>3, <2>4 DEF Finish, Hop
  <2>5. CASE ~(TooManyRedirects \/ LocationRefused(NextUrl(r)))
    <3>1. NextUrl(r) # None /\ hop < MaximumRedirects
      BY <2>5, FetchAssumption DEF TooManyRedirects, LocationRefused
    <3>2. r # None /\ r \in References /\ NextUrl(r) = ResolveHttpUrl(url, r)
      BY <3>1 DEF NextUrl
    <3>3. UrlOK(NextUrl(r))
      BY <2>2, <3>2, ResolvedOK, FetchAssumption DEF UrlOK
    <3>4. Follow(r)
      BY <2>3, <2>5
    <3>5. /\ url' = NextUrl(r) /\ location' = r /\ hop' = hop + 1 /\ body' = body
          /\ phase' = "prepare" /\ outcome' = outcome
      BY <3>4 DEF Follow, Continue
    <3> QED BY <2>1, <3>1, <3>2, <3>3, <3>5, FetchAssumption DEF UrlOK
  <2> QED BY <2>4, <2>5
<1>7. CASE ReceiveFails \/ Answered
  <2>1. /\ lateCalls' \in 0 .. LateBound
        /\ UNCHANGED <<options, cancelled, wasSecure, lateReads>>
    BY <1>7, Counted DEF ReceiveFails, Answered, Received, Asked
  <2> QED BY <1>7, <2>1 DEF ReceiveFails, Answered, Received, Finish, Continue, Hop
<1>8. CASE LookWhileReading
  BY <1>8 DEF LookWhileReading, LookBeforeRead, Finish, Continue, Asked, Hop, History
<1>9. CASE Read
  <2>1. /\ lateReads' \in 0 .. LateBound /\ phase = "awaiting"
        /\ UNCHANGED <<options, cancelled, wasSecure, lateCalls>>
    BY <1>9, Counted DEF Read, Asked
  <2>2. CASE phase' = "done" /\ outcome' \in {"ok", "failed"} /\ UNCHANGED Hop
    BY <2>1, <2>2 DEF Hop
  <2>3. ASSUME NEW read \in 1 .. MaximumRead, ~BodyTooLarge(read), body' = body + read,
               UNCHANGED <<url, location, hop>>, Continue("reading")
        PROVE  IInv'
    <3>1. body + read <= options.limit /\ options.limit \in {0, MaximumBytes}
          /\ body \in Int /\ read \in Int /\ body >= 0 /\ read >= 1 /\ MaximumBytes \in Int
      BY <2>3, FetchAssumption DEF BodyTooLarge
    <3>2. body' \in 0 .. MaximumBytes /\ body' <= options'.limit
      BY <2>1, <2>3, <3>1, FetchAssumption
    <3> QED BY <2>1, <2>3, <3>2 DEF Continue
  <2> QED BY <1>9, <2>2, <2>3 DEF Read, Finish
<1>10. CASE UNCHANGED vars
  BY <1>10 DEF vars
<1> QED BY <1>1, <1>2, <1>3, <1>4, <1>5, <1>6, <1>7, <1>8, <1>9, <1>10 DEF Next, Step

\* A call is made of at most MaximumRedirects + 1 requests and never keeps more of a
\* body than its caller allowed; every hop has a URL that was accepted (the recursion
\* of performGet and its read loop).
THEOREM TypeCorrect == Spec => [](TypeOK /\ BoundInv)
<1>1. Init => IInv
  BY InitIInv
<1>2. IInv /\ [Next]_vars => IInv'
  BY StepType
<1> QED BY <1>1, <1>2, PTL DEF Spec, IInv

\* https is never left: each hop is only compared with the one before it, and that is
\* enough for the whole chain, whatever the redirects alternate.
THEOREM HttpsNeverLeft == Spec => []SecureStaysSecure
<1>1. Init => SecureInv
  BY InitIInv
<1>2. SecureInv /\ [Next]_vars => SecureInv'
  <2> SUFFICES ASSUME SecureInv, [Next]_vars PROVE SecureInv'
    OBVIOUS
  <2> USE DEF SecureInv, UnderWay
  <2>1. CASE Redirected
    <3>1. phase = "receiving" /\ wasSecure' = wasSecure
      BY <2>1 DEF Redirected, Received
    <3>2. PICK r \in References \cup {None} :
            IF TooManyRedirects \/ LocationRefused(NextUrl(r))
            THEN Finish("failed") /\ UNCHANGED Hop
            ELSE Follow(r)
      BY <2>1 DEF Redirected
    <3>3. CASE TooManyRedirects \/ LocationRefused(NextUrl(r))
      BY <3>2, <3>3 DEF Finish
    <3>4. CASE ~(TooManyRedirects \/ LocationRefused(NextUrl(r)))
      <4>1. /\ url' = NextUrl(r) /\ phase' = "prepare"
            /\ url.scheme = "https" => NextUrl(r).scheme = "https"
        BY <3>2, <3>4 DEF Follow, LocationRefused, Continue
      <4> QED BY <3>1, <4>1
    <3> QED BY <3>3, <3>4
  <2>2. CASE Get \/ Prepare \/ LookAgain \/ LookWhileReading
    <3>1. UNCHANGED <<url, wasSecure>> /\ phase' # "called"
      BY <2>2 DEF Get, Prepare, LookAgain, LookWhileReading, LookBeforeRead, Finish, Continue,
                  Hop, History
    <3>2. phase \in UnderWay \/ phase = "called"
      BY <2>2 DEF Get, Prepare, LookAgain, LookWhileReading
    <3> QED BY <3>1, <3>2
  <2>3. CASE Send
    <3>1. /\ phase = "sending" /\ phase' # "called" /\ url' = url
          /\ wasSecure' = (wasSecure \/ url.scheme = "https")
      BY <2>3 DEF Send, Finish, Continue, Hop
    <3> QED BY <3>1
  <2>4. CASE ReceiveFails \/ Answered
    <3>1. phase = "receiving" /\ phase' # "called" /\ UNCHANGED <<url, wasSecure>>
      BY <2>4 DEF ReceiveFails, Answered, Received, Finish, Continue, Hop
    <3> QED BY <3>1
  <2>5. CASE Read
    BY <2>5 DEF Read, Finish, Continue, Hop
  <2>6. CASE Cancel \/ UNCHANGED vars
    BY <2>6 DEF Cancel, vars, Hop, History
  <2> QED BY <2>1, <2>2, <2>3, <2>4, <2>5, <2>6 DEF Next, Step
<1>3. SecureInv => SecureStaysSecure
  BY DEF SecureInv, SecureStaysSecure, UnderWay
<1> QED BY <1>1, <1>2, <1>3, PTL DEF Spec

\* A flag raised at the worst moment costs the send and the receive of one request or one
\* read, whatever was under way: behind a receive and behind a read stands a look at the
\* flag, whichever way the call goes on.
THEOREM CancelIsPrompt == Spec => []CancelCostsOneExchange
<1>1. Init => CancelInv
  BY InitIInv
<1>2. IInv /\ CancelInv /\ [Next]_vars => CancelInv'
  <2> SUFFICES ASSUME IInv, CancelInv, [Next]_vars PROVE CancelInv'
    OBVIOUS
  <2>0. lateCalls \in 0 .. 3 /\ lateReads \in 0 .. 3 /\ cancelled \in BOOLEAN
    BY DEF IInv, TypeOK, LateBound
  <2> USE DEF CancelInv
  <2>1. CASE Send
    <3>1. lateCalls = 0 /\ lateReads = 0
      BY <2>0, <2>1 DEF Send
    <3>2. /\ lateCalls' \in {0, 1} /\ lateReads' = 0 /\ (lateCalls' = 1 => cancelled)
          /\ cancelled' = cancelled /\ phase' \in {"receiving", "done"}
      BY <3>1, <2>1 DEF Send, IfLate, Finish, Continue, Asked
    <3> QED BY <3>2
  <2>2. CASE ReceiveFails \/ Redirected \/ Answered
    <3>1. lateCalls \in {0, 1} /\ lateReads = 0 /\ Received
      BY <2>0, <2>2 DEF ReceiveFails, Redirected, Answered, Received
    <3>2. /\ lateCalls' \in {0, 1, 2} /\ lateReads' = 0 /\ (lateCalls' > 0 => cancelled)
          /\ cancelled' = cancelled
      BY <3>1, <2>0 DEF Received, IfLate, LateBound, Asked
    <3>3. phase' \in {"prepare", "reading", "done"}
      BY <2>2 DEF ReceiveFails, Redirected, Answered, Follow, Finish, Continue
    <3> QED BY <3>2, <3>3
  <2>3. CASE Read
    <3>1. lateCalls = 0 /\ lateReads = 0
      BY <2>0, <2>3 DEF Read
    <3>2. /\ lateReads' \in {0, 1} /\ lateCalls' = 0 /\ (lateReads' = 1 => cancelled)
          /\ cancelled' = cancelled
      BY <3>1, <2>3 DEF Read, IfLate, Asked
    <3>3. phase' \in {"reading", "done"}
      BY <2>3 DEF Read, Finish, Continue
    <3> QED BY <3>2, <3>3
  <2>4. CASE Get \/ Prepare \/ LookAgain \/ LookWhileReading
    BY <2>0, <2>4 DEF Get, Prepare, LookAgain, LookWhileReading, LookBeforeRead, Finish,
                      Continue, Asked, History
  <2>5. CASE Cancel \/ UNCHANGED vars
    BY <2>0, <2>5 DEF Cancel, vars, History
  <2> QED BY <2>1, <2>2, <2>3, <2>4, <2>5 DEF Next, Step
<1>3. IInv /\ CancelInv => CancelCostsOneExchange
  BY DEF CancelInv, CancelCostsOneExchange, IInv, TypeOK, LateBound
<1>4. Init => IInv
  BY InitIInv
<1>5. IInv /\ [Next]_vars => IInv'
  BY StepType
<1> QED BY <1>1, <1>2, <1>3, <1>4, <1>5, PTL DEF Spec

-----------------------------------------------------------------------------

\* Where in a hop a phase stands; reading a block goes back to "reading".
Position ==
  CASE phase = "called"    -> 1
    [] phase = "prepare"   -> 2
    [] phase = "ready"     -> 3
    [] phase = "sending"   -> 4
    [] phase = "receiving" -> 5
    [] phase = "reading"   -> 6
    [] phase = "awaiting"  -> 7
    [] phase = "done"      -> 8

\* A further hop, a longer body, or the same of both further on.
Advances ==
  \/ hop' > hop
  \/ hop' = hop /\ body' > body
  \/ hop' = hop /\ body' = body /\ Position' > Position

\* No step of a call (Step, the recursion of performGet and its read loop) takes it back:
\* it goes on to a further hop, to a longer body, or to a later place in its hop.  With the
\* bounds of TypeCorrect a call is made of finitely many steps, whatever the servers send
\* and however often they redirect to where the call has been; that it ends needs only
\* that WinHTTP's calls return.
THEOREM CallAdvances == Spec => [][Cancel \/ Advances]_vars
<1>1. ASSUME IInv, Next PROVE Cancel \/ Advances
  <2> USE DEF Advances, Position
  <2>0. hop \in Int /\ body \in Int
    BY <1>1, FetchAssumption DEF IInv, TypeOK
  <2>1. CASE Get \/ Prepare \/ LookAgain
    BY <2>0, <2>1 DEF Get, Prepare, LookAgain, Finish, Continue, Hop
  <2>2. CASE Send \/ ReceiveFails \/ Answered
    BY <2>0, <2>2 DEF Send, ReceiveFails, Answered, Received, Finish, Continue, Hop
  <2>3. CASE Redirected
    <3>1. PICK r \in References \cup {None} :
            IF TooManyRedirects \/ LocationRefused(NextUrl(r))
            THEN Finish("failed") /\ UNCHANGED Hop
            ELSE Follow(r)
      BY <2>3 DEF Redirected
    <3>2. CASE TooManyRedirects \/ LocationRefused(NextUrl(r))
      BY <2>0, <2>3, <3>1, <3>2 DEF Redirected, Received, Finish, Hop
    <3>3. CASE ~(TooManyRedirects \/ LocationRefused(NextUrl(r)))
      <4>1. hop' = hop + 1
        BY <3>1, <3>3 DEF Follow
      <4> QED BY <2>0, <4>1
    <3> QED BY <3>2, <3>3
  <2>4. CASE LookWhileReading
    BY <2>0, <2>4 DEF LookWhileReading, LookBeforeRead, Finish, Continue, Hop
  <2>5. CASE Read
    <3>1. CASE phase' = "done" /\ UNCHANGED Hop
      BY <2>0, <2>5, <3>1 DEF Read, Hop
    <3>2. ASSUME NEW read \in 1 .. MaximumRead, body' = body + read, hop' = hop
          PROVE  Advances
      BY <2>0, <3>2, FetchAssumption
    <3> QED BY <2>5, <3>1, <3>2 DEF Read, Finish
  <2> QED BY <1>1, <2>1, <2>2, <2>3, <2>4, <2>5 DEF Next, Step
<1>2. Init => IInv
  BY InitIInv
<1>3. IInv /\ [Next]_vars => IInv'
  BY StepType
<1> QED BY <1>1, <1>2, <1>3, PTL DEF Spec
=============================================================================
