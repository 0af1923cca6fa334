------------------------- MODULE MCStationEvidence --------------------------
(***************************************************************************)
(* Files of one observation from two sessions, of two sources and of none, *)
(* of two observations that agree, contradict each other or break a rule,  *)
(* and files that break one rule of the reader each.                       *)
(* Three files reach every level and a dispute after each.                 *)
(***************************************************************************)
EXTENDS StationEvidence, TLC

MCKinds ==
  [t \in Identities \cup ProfileIds \cup {"unknown", "", "s1", "s2", "a", "b", "RISE", "LIPS"} |-> {}]
  @@ ("Rise FM" :> {"space"}) @@ ("Lips quoted" :> {"quote"}) @@ ("a b" :> {"space"})
  @@ ("two lines" :> {"newline", "space"}) @@ ("bell" :> {"control"}) @@ ("C:/" :> {"separator"})

Observation(ordinal, raw, identity, label) ==
  [ordinal |-> ordinal, raw |-> raw, sequence |-> 7, frames |-> 120, inVehicle |-> TRUE,
   identity |-> identity, label |-> label]

Report(session, source, observations) ==
  Serialize([schemaVersion |-> 1, profile |-> "classic", session |-> session, source |-> source,
             observations |-> observations])

Pairs ==
  {<<Observation(1, 3, "riseFm", "RISE"), Observation(2, 4, "lips106", "LIPS")>>,
   <<Observation(1, 3, "riseFm", "RISE"), Observation(2, 10, None, None)>>,
   <<Observation(1, 3, "riseFm", "RISE"), Observation(2, 3, "lips106", "RISE")>>,
   <<Observation(1, 3, "riseFm", "RISE"), Observation(2, 4, "lips106", "RISE")>>,
   <<Observation(1, 3, "riseFm", "RISE"), Observation(1, 4, "lips106", "LIPS")>>}

\* The member key of an object holds another value.
With(object, key, value) == Object((key :> value) @@ object.members)
Without(object, key) == Object(Restrict(object.members, DOMAIN object.members \ {key}))

Unescaped(text) == [type |-> "string", text |-> text, raw |-> Kinds[text]]
Escaped(text) == [type |-> "string", text |-> text, raw |-> {}]

Lips(label) == Observation(1, 3, "lips106", label)
Good == Report("s1", "a", <<Lips("LIPS")>>)
Noted(value) == With(Good, "observations", Array(<<value>>))
Item == ObservationJson(Lips("LIPS"))

Single ==
  {Report(from[1], from[2], <<Observation(1, 3, "riseFm", "RISE")>>) :
     from \in {<<"s1", "a">>, <<"s2", "a">>, <<"s2", "b">>, <<"s1", "">>}}
  \cup {With(Report(from[1], from[2], <<>>), "observations",
             Array(<<With(Item, "visibleLabel", Escaped("Lips quoted"))>>)) :
          from \in {<<"s1", "a">>, <<"s2", "b">>}}
  \cup {Report("s2", "b", <<Observation(1, 3, "riseFm", "Rise FM")>>),
        Report("s2", "b", <<Observation(1, 3, "lips106", "RISE")>>),
        Report("s2", "b", <<Observation(1, 3, "unknown", "RISE")>>),
        Report("s2", "a", <<Observation(1, 3, None, None)>>),
        Report("s2", "a", <<Observation(1, 4, "lips106", "LIPS")>>)}

\* Accepted, although the source is a number, the sequence is missing and a key is unknown.
Lenient ==
  {With(With(Good, "note", Escaped("two lines")), "sourceId", Number(1)),
   Noted(Without(Item, "snapshotSequence"))}

Refused ==
  {Noted(Without(Item, "visibleLabel")), Noted(With(Item, "ordinal", Number(0))),
   Noted(With(Item, "raw", Number(256))), Noted(With(Item, "playerInVehicle", Boolean(FALSE))),
   Noted(With(Item, "visibleLabel", Escaped("bell"))), Noted(With(Item, "visibleLabel", Escaped("C:/"))),
   Noted(With(Item, "visibleLabel", Unescaped("two lines"))), Noted(With(Item, "identity", Escaped("RISE"))),
   Noted(With(Item, "Address", Number(0))), Noted(With(Item, "stableFrames", Number(LongMax + 1))),
   Noted(Number(1)), With(Good, "schemaVersion", Number(0)), With(Good, "sessionId", Escaped("a b"))}

\* Each file breaks one rule, and is refused.
ASSUME \A file \in Refused : ParseEvidence(file) = {}
ASSUME \A file \in Lenient \cup {Good} : ParseEvidence(file) # {}

MCFiles ==
  Single \cup {Report("s1", "a", pair) : pair \in Pairs} \cup Lenient
  \cup {Noted(With(Item, "raw", Number(256))), Noted(With(Item, "Address", Number(0))),
        With(Good, "executableProfile", Escaped("us10")), Broken}

=============================================================================
