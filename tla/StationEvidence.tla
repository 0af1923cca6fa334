--------------------------- MODULE StationEvidence --------------------------
(***************************************************************************)
(* The evidence of radio stations: files are read as JSON, validated,      *)
(* compared, rewritten by the radio map tool, and put together into the    *)
(* station map of one executable profile, which the registry hands to the  *)
(* resolver if it is valid as a whole.                                     *)
(*                                                                         *)
(* A text stands for the characters in it that somebody looks at: Kinds    *)
(* says which of "quote" (what JSON escapes and a label may have),         *)
(* "newline" (escaped too), "control", "separator" (slashes and "://"),    *)
(* "space" and "long" it has. A string of a file also says which of them   *)
(* stand in it as they are. A label or an identity is None where the file  *)
(* has none, and an identity may be "unknown".                             *)
(***************************************************************************)
EXTENDS RadioDecision, Sequences, FiniteSets, Functions

CONSTANTS
  ProfileIds,    \* executable profiles, "unsupported" among them
  Kinds,         \* the kinds of characters each text has
  SensitiveKeys, \* keys no document may have, in every spelling
  Uint32Max,     \* the largest ordinal and number of frames
  LongMax,       \* the largest number the reader takes
  Files,         \* the files there may be
  MaxFiles,      \* bound: files in the archive
  Mapped         \* the profile the map is made for

ASSUME EvidenceAssumption ==
  /\ "unknown" \notin Identities
  /\ Mapped \in ProfileIds \ {"unsupported"}
  /\ Uint32Max \in Nat /\ LongMax \in Nat /\ 255 < Uint32Max /\ Uint32Max < LongMax
  /\ Identities \cup ProfileIds \cup {"unknown"} \subseteq {t \in DOMAIN Kinds : Kinds[t] = {}}
  /\ "" \in DOMAIN Kinds /\ Kinds[""] = {}
  /\ SensitiveKeys \cap {"schemaVersion", "executableProfile", "sessionId", "sourceId",
                        "observations", "ordinal", "raw", "snapshotSequence", "stableFrames",
                        "playerInVehicle", "visibleLabel", "identity"} = {}
  /\ MaxFiles \in Nat

-----------------------------------------------------------------------------
(* The file.                                                               *)

Number(n) == [type |-> "number", number |-> n]
Boolean(b) == [type |-> "boolean", boolean |-> b]
Object(members) == [type |-> "object", members |-> members]  \* a function of its keys
Array(elements) == [type |-> "array", elements |-> elements]

\* What is no JSON: an object with a key twice, or what a write that failed left of a file.
Broken == [type |-> "broken"]

EscapeJson(text) == [type |-> "string", text |-> text, raw |-> Kinds[text] \ {"quote", "newline"}]

Children(value) ==
  IF value.type = "object" THEN Range(value.members)
  ELSE IF value.type = "array" THEN Range(value.elements)
  ELSE {}

\* The values of a file. A document nests three levels of them: its members, the
\* observations and their members. Bound: no file goes deeper (NestingAssumption).
Nested(file) ==
  LET Unfold(values) == values \cup UNION {Children(value) : value \in values}
  IN  Unfold(Unfold(Unfold({file})))

ASSUME NestingAssumption ==
  \A file \in Files : \A value \in Nested(file) :
    /\ Children(value) \subseteq Nested(file)
    /\ value.type = "array" => value.elements \in Seq(Range(value.elements))

\* JsonParser::parse
Readable(file) ==
  \A value \in Nested(file) :
    CASE value.type = "string" -> value.raw \cap {"quote", "newline", "control"} = {}
      [] value.type = "number" -> value.number \in -LongMax .. LongMax
      [] OTHER -> value.type \in {"boolean", "null", "object", "array"}

HasSensitiveField(file) ==
  \E value \in Nested(file) :
    value.type = "object" /\ DOMAIN value.members \cap SensitiveKeys # {}

Member(object, key) == object.members[key]
Lacks(object, key) == key \notin DOMAIN object.members
Has(object, key, type) == ~Lacks(object, key) /\ Member(object, key).type = type
HasNumber(object, key, bound) == Has(object, key, "number") /\ Member(object, key).number \in 0 .. bound
HasText(object, key, texts) == Has(object, key, "string") /\ Member(object, key).text \in texts
TextOr(object, key, absent) == IF Has(object, key, "string") THEN Member(object, key).text ELSE absent

\* parseObservation: whether it takes the value, and what it makes of it.
TakesObservation(value) ==
  /\ value.type = "object"
  /\ HasNumber(value, "ordinal", Uint32Max)
  /\ HasNumber(value, "raw", 255)
  /\ Lacks(value, "snapshotSequence") \/ HasNumber(value, "snapshotSequence", LongMax)
  /\ HasNumber(value, "stableFrames", Uint32Max)
  /\ Has(value, "playerInVehicle", "boolean")
  /\ Lacks(value, "visibleLabel") \/ Has(value, "visibleLabel", "string")
  /\ Lacks(value, "identity") \/ HasText(value, "identity", Identities \cup {"unknown"})

ParseObservation(value) ==
  [ordinal |-> Member(value, "ordinal").number, raw |-> Member(value, "raw").number,
   sequence |-> IF Has(value, "snapshotSequence", "number")
                THEN Member(value, "snapshotSequence").number ELSE 0,
   frames |-> Member(value, "stableFrames").number,
   inVehicle |-> Member(value, "playerInVehicle").boolean,
   label |-> TextOr(value, "visibleLabel", None), identity |-> TextOr(value, "identity", None)]

Known(o) == o.identity \in Identities
Labelled(o) == o.label \notin {None, ""}

IsSafeIdentifier(text) == text # "" /\ Kinds[text] = {}
IsSafeVisibleLabel(text) == text # "" /\ Kinds[text] \subseteq {"quote", "space"}

\* validateRadioStationEvidence
Valid(d) ==
  LET o == d.observations
  IN  /\ d.schemaVersion = 1 /\ d.profile # "unsupported"
      /\ IsSafeIdentifier(d.session)
      /\ d.source = "" \/ IsSafeIdentifier(d.source)
      /\ \A i \in DOMAIN o :
           /\ o[i].ordinal # 0 /\ o[i].raw \in RawRange
           /\ o[i].frames # 0 /\ o[i].inVehicle
           /\ o[i].label = None \/ IsSafeVisibleLabel(o[i].label)
           /\ Known(o[i]) => Labelled(o[i])
      /\ \A i, j \in DOMAIN o :
           /\ i # j => o[i].ordinal # o[j].ordinal
           /\ o[i].raw = o[j].raw /\ Known(o[i]) /\ Known(o[j])
                => o[i].identity = o[j].identity
           /\ Labelled(o[i]) /\ Labelled(o[j])
                => (o[i].raw = o[j].raw <=> o[i].label = o[j].label)

\* parseRadioStationEvidenceJson: the documents a file yields, one or none. A source that
\* is no string is none; one observation that is not taken refuses the document.
ParseEvidence(file) ==
  IF /\ Readable(file) /\ file.type = "object" /\ ~HasSensitiveField(file)
     /\ HasNumber(file, "schemaVersion", 1)
     /\ HasText(file, "executableProfile", ProfileIds)
     /\ Has(file, "sessionId", "string")
     /\ Has(file, "observations", "array")
     /\ LET elements == Member(file, "observations").elements
        IN  \A i \in DOMAIN elements : TakesObservation(elements[i])
  THEN LET elements == Member(file, "observations").elements
           document ==
             [schemaVersion |-> Member(file, "schemaVersion").number,
              profile |-> Member(file, "executableProfile").text,
              session |-> Member(file, "sessionId").text, source |-> TextOr(file, "sourceId", ""),
              observations |-> [i \in DOMAIN elements |-> ParseObservation(elements[i])]]
       IN  {d \in {document} : Valid(d)}
  ELSE {}

\* appendObservationJson: a label and an identity only where there is one.
ObservationJson(o) ==
  LET keys == {"ordinal", "raw", "snapshotSequence", "stableFrames", "playerInVehicle"}
                \cup {key \in {"visibleLabel"} : o.label # None}
                \cup {key \in {"identity"} : o.identity # None}
  IN  Object([key \in keys |->
                CASE key = "ordinal" -> Number(o.ordinal)
                  [] key = "raw" -> Number(o.raw)
                  [] key = "snapshotSequence" -> Number(o.sequence)
                  [] key = "stableFrames" -> Number(o.frames)
                  [] key = "playerInVehicle" -> Boolean(o.inVehicle)
                  [] key = "visibleLabel" -> EscapeJson(o.label)
                  [] key = "identity" -> EscapeJson(o.identity)])

\* serializeRadioStationEvidenceJson
Serialize(d) ==
  Object([schemaVersion |-> Number(d.schemaVersion), executableProfile |-> EscapeJson(d.profile),
          sessionId |-> EscapeJson(d.session), sourceId |-> EscapeJson(d.source),
          observations |->
            Array([i \in DOMAIN d.observations |-> ObservationJson(d.observations[i])])])

-----------------------------------------------------------------------------
(* The comparison and the map.                                             *)

Annotated(d) == {d.observations[i].raw : i \in {j \in DOMAIN d.observations : Known(d.observations[j])}}

\* What collect keeps of a raw value: its last annotation.
Annotation(d, raw) ==
  LET at == {i \in DOMAIN d.observations : d.observations[i].raw = raw /\ Known(d.observations[i])}
      o == d.observations[CHOOSE i \in at : \A j \in at : j <= i]
  IN  <<o.identity, o.label>>

\* compareRadioStationEvidence: result.equivalent
Equivalent(first, second) ==
  /\ Valid(first) /\ Valid(second)
  /\ first.profile = second.profile
  /\ \A raw \in Annotated(first) \cap Annotated(second) :
       Annotation(first, raw) = Annotation(second, raw)

\* The aggregates of buildRadioStationMap: every observation of the documents that
\* count, with the session and the source it comes from.
Evidence(documents) ==
  UNION {{[session |-> d.session, source |-> d.source, raw |-> d.observations[i].raw,
           identity |-> d.observations[i].identity, label |-> d.observations[i].label]
            : i \in DOMAIN d.observations}
         : d \in {c \in documents : c.profile = Mapped /\ Valid(c)}}

IdentitiesOf(entry) == {e.identity : e \in {f \in entry : Known(f)}}
LabelsOf(entry) == {e.label : e \in {f \in entry : Labelled(f)}}

\* Mutant: labels that disagree do not matter.
IdentityByAnnotation(entry) ==
  IF Cardinality(IdentitiesOf(entry)) = 1 THEN CHOOSE i \in IdentitiesOf(entry) : TRUE ELSE "unknown"

Identity(entry) ==
  IF Cardinality(IdentitiesOf(entry)) = 1 /\ Cardinality(LabelsOf(entry)) <= 1
  THEN CHOOSE i \in IdentitiesOf(entry) : TRUE ELSE "unknown"

Levels == <<"unverified", "observedOnce", "locallyReproduced", "independentlyReproduced">>
Rank(level) == CHOOSE i \in DOMAIN Levels : Levels[i] = level

Level(entry) ==
  IF Identity(entry) = "unknown" THEN "unverified"
  ELSE IF Cardinality({e.source : e \in entry} \ {""}) >= 2 THEN "independentlyReproduced"
  ELSE IF Cardinality({e.session : e \in entry}) >= 2 THEN "locallyReproduced"
  ELSE "observedOnce"

\* Mutant: the labels of every station are counted together.
BuildMapByAllLabels(documents) ==
  LET evidence == Evidence(documents)
      Of(raw) == {e \in evidence : e.raw = raw /\ Cardinality(LabelsOf(evidence)) <= 1}
  IN  [raw \in {e.raw : e \in evidence} |-> [identity |-> Identity(Of(raw)), level |-> Level(Of(raw))]]

\* buildRadioStationMap. The sessions, sources, identities and labels it counts are sets,
\* so that the documents may be one.
BuildMap(documents) ==
  LET evidence == Evidence(documents)
      Of(raw) == {e \in evidence : e.raw = raw}
  IN  [raw \in {e.raw : e \in evidence} |-> [identity |-> Identity(Of(raw)), level |-> Level(Of(raw))]]

\* isRadioStationMapProfileValid: one unknown entry refuses the whole map.
MapValid(map) ==
  /\ DOMAIN map # {}
  /\ \A raw \in DOMAIN map :
       /\ raw \in RawRange
       /\ map[raw].identity # "unknown"
       /\ map[raw].level # "unverified"

\* RadioStationMapRegistry::find, as Resolve of RadioDecision takes it.
RegistryFind(map) ==
  IF MapValid(map) THEN [raw \in DOMAIN map |-> map[raw].identity] ELSE None

-----------------------------------------------------------------------------
(* The archive. --validate, --compare and --summarize of the tool only read *)
(* it.                                                                     *)

VARIABLE archive  \* the files collected so far

ArchiveInit == archive = <<>>

AddFile ==
  /\ Len(archive) < MaxFiles
  /\ \E file \in Files : archive' = Append(archive, file)

\* --redact of a file that is accepted, over the file or into a new one. The output is
\* truncated when it is opened; a write that fails leaves less than the document.
Redact ==
  \E i \in DOMAIN archive :
    \E d \in ParseEvidence(archive[i]), written \in {"all", "less"} :
      LET output == IF written = "all" THEN Serialize(d) ELSE Broken
      IN  \/ archive' = [archive EXCEPT ![i] = output]
          \/ Len(archive) < MaxFiles /\ archive' = Append(archive, output)

ArchiveNext == AddFile \/ Redact

ArchiveSpec == ArchiveInit /\ [][ArchiveNext]_archive

-----------------------------------------------------------------------------

Documents == UNION {ParseEvidence(archive[i]) : i \in DOMAIN archive}
StationMap == BuildMap(Documents)

Counted(documents) == {d \in documents : d.profile = Mapped}

\* What a document says of a raw value.
Says(d, raw) ==
  {d.observations[i] : i \in {j \in DOMAIN d.observations : d.observations[j].raw = raw}}

\* Two observations of a raw value name two stations or show two labels.
Disputed(documents, raw) ==
  \E first, second \in documents : \E o \in Says(first, raw), p \in Says(second, raw) :
    \/ Known(o) /\ Known(p) /\ o.identity # p.identity
    \/ Labelled(o) /\ Labelled(p) /\ o.label # p.label

\* The entry of a raw value, if the map has one.
EntryOf(map, raw) == {map[r] : r \in DOMAIN map \cap {raw}}
Identified(map, raw) == raw \in DOMAIN map /\ map[raw].identity # "unknown"

\* From one set of documents to the next: a raw value that no document which came or
\* went speaks of keeps its entry; a disputed one is unknown; one that was known, has lost
\* no document and is not disputed is as well known as before; and none becomes another.
Keeps(old, new, before, after, raw) ==
  /\ (\A d \in (old \ new) \cup (new \ old) : Says(d, raw) = {})
       => EntryOf(after, raw) = EntryOf(before, raw)
  /\ Disputed(new, raw) => ~Identified(after, raw)
  /\ /\ Identified(before, raw) /\ ~Disputed(new, raw)
     /\ \A d \in old \ new : Says(d, raw) = {}
     => Identified(after, raw) /\ Rank(after[raw].level) >= Rank(before[raw].level)
  /\ Identified(before, raw) /\ Identified(after, raw)
       => after[raw].identity = before[raw].identity

Damages == \E i \in DOMAIN archive : archive'[i] = Broken /\ archive[i] # Broken

\* A file that is added takes evidence only from stations it disputes, and a write that
\* fails over a file only from those the file spoke of; a dispute lasts while both sides
\* are on file, and no station ever becomes another one. The same report handed in again
\* changes nothing, since two copies are no reproduction; and what the tool redacts, into
\* a copy or in place, is accepted again and says what the file said, unless its write
\* fails (buildRadioStationMap, --redact).
EvidenceNeverErodes ==
  [][\E documents \in {Documents}, further \in {Documents'} :
     \E old \in {Counted(documents)}, new \in {Counted(further)},
        before \in {BuildMap(documents)}, after \in {BuildMap(further)} :
       /\ \A raw \in DOMAIN before \cup DOMAIN after : Keeps(old, new, before, after, raw)
       /\ ~Damages /\ (Redact \/ archive'[Len(archive')] \in Range(archive))
            => after = before]_archive

\* The comparison of two sessions, the map they are both put into and the resolver
\* agree: what the comparison calls a conflict is unknown in the map, and what the
\* resolver says of a raw value is what every document that knows the station says.
MapAgreesWithComparison ==
  \E documents \in {Documents} : \E counted \in {Counted(documents)} :
  \E map \in {BuildMap(documents)} : \E found \in {RegistryFind(map)} :
    /\ \A first, second \in counted :
         \/ Equivalent(first, second)
         \/ \E raw \in Annotated(first) \cap Annotated(second) : map[raw].identity = "unknown"
    /\ \A raw \in RawRange :
         Resolve(found, raw).status = "resolved" =>
           /\ Resolve(found, raw).identity \in Identities
           /\ \A d \in counted :
                raw \in Annotated(d) => Annotation(d, raw)[1] = Resolve(found, raw).identity

=============================================================================
