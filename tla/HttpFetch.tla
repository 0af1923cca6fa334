----------------------------- MODULE HttpFetch ------------------------------
(***************************************************************************)
(* One call of WinHttpClient::get: the checks of the call, then one hop of *)
(* performGet after another.  Redirects are followed here, not by WinHTTP, *)
(* each Location resolved against the URL of its hop, and the caller may   *)
(* set its cancel flag at any moment; the flag is looked at before a       *)
(* request and before a read, and not between the two blocking calls that  *)
(* send a request and wait for its answer.                                 *)
(***************************************************************************)
EXTENDS HttpUrl

CONSTANTS
  Texts,            \* the URLs callers ask for
  References,       \* the Location headers servers send; None is none or an empty one
  MaximumRedirects, \* options.maximumRedirects
  MaximumBytes,     \* options.maximumResponseBytes, in units of a read
  MaximumRead       \* the largest single read

ASSUME FetchAssumption ==
  /\ Texts \subseteq Text
  /\ References \subseteq Reference
  /\ \A r \in References :
       r.form = "path" => /\ r.query # None => r.asksQuery
                          /\ r.path # None => LeadsNowhereElse(r)
  /\ MaximumRedirects \in Nat
  /\ MaximumBytes \in Nat \ {0}
  /\ MaximumRead \in Nat \ {0}

VARIABLES
  options,   \* what the caller asked: body or not, its limits
  cancelled, \* *options.cancelRequested
  phase,     \* where the call is
  url,       \* the normalized URL of this hop, None when it was refused
  location,  \* the Location that led to this hop, None on the first
  hop,       \* redirectCount
  body,      \* response.body.size()
  outcome,   \* the result; "none" while the call runs
  wasSecure, \* history: some request of the call was sent over https
  lateCalls, \* history: sends and receives begun after the flag was set
  lateReads  \* history: reads begun after the flag was set

vars == <<options, cancelled, phase, url, location, hop, body, outcome,
          wasSecure, lateCalls, lateReads>>

LateBound == 3   \* bound: how far the two histories count

TypeOK ==
  /\ options \in [readBody : BOOLEAN, limit : {0, MaximumBytes}, timeouts : BOOLEAN]
  /\ cancelled \in BOOLEAN
  /\ phase \in {"called", "prepare", "ready", "sending", "receiving",
             "reading", "awaiting", "done"}
  /\ url # None => url.scheme \in {"http", "https"} /\ PortAccepted(url.port)
  /\ location \in References \cup {None}
  /\ hop \in 0 .. MaximumRedirects
  /\ body \in 0 .. MaximumBytes
  /\ outcome \in {"none", "ok", "cancelled", "failed"}
  /\ wasSecure \in BOOLEAN
  /\ lateCalls \in 0 .. LateBound /\ lateReads \in 0 .. LateBound

Init ==
  /\ options \in [readBody : BOOLEAN, limit : {0, MaximumBytes}, timeouts : BOOLEAN]
  /\ cancelled \in BOOLEAN
  /\ phase = "called"
  /\ url \in {ParseHttpUrl(t) : t \in Texts}
  /\ location = None
  /\ hop = 0
  /\ body = 0
  /\ outcome = "none"
  /\ wasSecure = FALSE
  /\ lateCalls = 0 /\ lateReads = 0

Asked == <<options, cancelled>>
Hop == <<url, location, hop, body>>
History == <<wasSecure, lateCalls, lateReads>>

Finish(with) == phase' = "done" /\ outcome' = with
Continue(next) == phase' = next /\ UNCHANGED outcome

-----------------------------------------------------------------------------

\* The caller raises its flag.
Cancel ==
  /\ phase # "done"
  /\ ~cancelled
  /\ cancelled' = TRUE
  /\ UNCHANGED <<options, phase, Hop, outcome, History>>

\* get: the flag, the limits and the URL, in this order.
Get ==
  /\ phase = "called"
  /\ IF cancelled THEN Finish("cancelled")
     ELSE IF \/ ~options.timeouts
             \/ options.readBody /\ options.limit = 0
             \/ url = None
          THEN Finish("failed")
          ELSE Continue("prepare")
  /\ UNCHANGED <<Asked, Hop, History>>

\* The head of performGet, up to the second look at the flag.
Prepare ==
  /\ phase = "prepare"
  /\ IF cancelled THEN Finish("cancelled")
     ELSE Finish("failed") \/ Continue("ready")
  /\ UNCHANGED <<Asked, Hop, History>>

\* The second look, just before the request is sent.
LookAgain ==
  /\ phase = "ready"
  /\ IF cancelled THEN Finish("cancelled") ELSE Continue("sending")
  /\ UNCHANGED <<Asked, Hop, History>>

IfLate(count) == IF cancelled /\ count < LateBound THEN count + 1 ELSE count

\* WinHttpSendRequest: it resolves the name, connects and sends, and returns.
Send ==
  /\ phase = "sending"
  /\ wasSecure' = (wasSecure \/ url.scheme = "https")
  /\ lateCalls' = IfLate(lateCalls)
  /\ Finish("failed") \/ Continue("receiving")
  /\ UNCHANGED <<Asked, Hop, lateReads>>

\* WinHttpReceiveResponse blocks once more, without a look at the flag before it.
Received ==
  /\ phase = "receiving"
  /\ lateCalls' = IfLate(lateCalls)
  /\ UNCHANGED <<Asked, wasSecure, lateReads>>

TooManyRedirects == hop >= MaximumRedirects

\* The URL a Location leads to; None without a usable one.
NextUrl(r) == IF r = None THEN None ELSE ResolveHttpUrl(url, r)

\* Mutant: the redirect may leave https.
AnyLocation(next) == next = None

\* No Location, one that does not resolve, or one that leaves https.
LocationRefused(next) ==
  \/ next = None
  \/ url.scheme = "https" /\ next.scheme # "https"

\* Mutant: the recursive call passes redirectCount on as it is.
FollowUncounted(r) ==
  url' = NextUrl(r) /\ location' = r /\ UNCHANGED <<hop, body>> /\ Continue("prepare")

Follow(r) ==
  /\ url' = NextUrl(r)
  /\ location' = r
  /\ hop' = hop + 1
  /\ UNCHANGED body
  /\ Continue("prepare")

\* No answer comes, or one whose status or headers cannot be had.
ReceiveFails ==
  /\ Received
  /\ Finish("failed")
  /\ UNCHANGED Hop

Redirected ==
  /\ Received
  /\ \E r \in References \cup {None} :
       IF TooManyRedirects \/ LocationRefused(NextUrl(r))
       THEN Finish("failed") /\ UNCHANGED Hop
       ELSE Follow(r)

\* Any other status is an answer.  A declared length over the limit ends the
\* call before a byte is read.
Answered ==
  /\ Received
  /\ IF ~options.readBody THEN Finish("ok")
     ELSE Continue("reading") \/ Finish("failed")
  /\ UNCHANGED Hop

\* Mutant: the read loop never looks at the flag.
KeepReading == Continue("awaiting")

LookBeforeRead == IF cancelled THEN Finish("cancelled") ELSE Continue("awaiting")

LookWhileReading ==
  /\ phase = "reading"
  /\ LookBeforeRead
  /\ UNCHANGED <<Asked, Hop, History>>

BodyTooLarge(read) == read > options.limit - body

Read ==
  /\ phase = "awaiting"
  /\ lateReads' = IfLate(lateReads)
  /\ \/ Finish("failed") /\ UNCHANGED Hop
     \/ Finish("ok") /\ UNCHANGED Hop
     \/ \E read \in 1 .. MaximumRead :
          IF BodyTooLarge(read) THEN Finish("failed") /\ UNCHANGED Hop
          ELSE body' = body + read /\ UNCHANGED <<url, location, hop>> /\ Continue("reading")
  /\ UNCHANGED <<Asked, wasSecure, lateCalls>>

-----------------------------------------------------------------------------

Step ==
  \/ Get \/ Prepare \/ LookAgain \/ Send \/ ReceiveFails \/ Redirected
  \/ Answered \/ LookWhileReading \/ Read

Next == Cancel \/ Step

\* Every WinHTTP call returns: WinHttpSetTimeouts bounds each of them.
Spec == Init /\ [][Next]_vars /\ WF_vars(Step)

-----------------------------------------------------------------------------

\* Once a request of the call went over https, none follows in the clear, however
\* the redirects alternate (the check of each Location against its own hop).
SecureStaysSecure == (phase = "sending" /\ wasSecure) => url.scheme = "https"

\* Every redirect leads where RFC 3986 says, from the URL the hops before it led to:
\* no port, host or query of the base leaks into it or is lost (resolveHttpUrl starts
\* from a copy of its base).  Unusual references are left out.
RedirectsResolveLikeRfc ==
  [][(url' # url /\ ~Unusual(location')) => url' = RfcResolve(url, location')]_vars

\* A flag raised at the worst moment costs one request or one read, never one after the
\* other and never a second of either: the send and the wait for its answer, two blocking
\* calls without a look at the flag between them, or a read.  Each is followed by a look,
\* whether the answer is a redirect, which starts a new hop, or a body, which is read.
CancelCostsOneExchange ==
  \/ lateReads = 0 /\ lateCalls <= 2
  \/ lateReads <= 1 /\ lateCalls = 0

\* A call ends, whatever redirects and bodies the servers send.
FetchEnds == <>(phase = "done")

=============================================================================
