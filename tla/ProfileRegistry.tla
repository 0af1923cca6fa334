--------------------------- MODULE ProfileRegistry --------------------------
(***************************************************************************)
(* ExecutableProfileRegistry::match of a fingerprint against the profiles  *)
(* of a build.  The seven metadata fields of a profile are compared        *)
(* together and stand as one.                                              *)
(***************************************************************************)
EXTENDS Fingerprint

CONSTANTS
  Ids,        \* registered ExecutableProfileId values
  Registries  \* the registries that occur: sequences of profiles

Verifications == {"candidate", "locallyReproduced", "independentlyReproduced", "verified"}

\* usable: isUsableProfile, which needs every field.
ASSUME RegistryAssumption ==
  /\ "unsupported" \notin Ids
  /\ \A registry \in Registries : DOMAIN registry \subseteq Nat
  /\ \A registry \in Registries : \A i \in DOMAIN registry :
       /\ DOMAIN registry[i] = {"id", "usable", "verification", "file", "text", "metadata"}
       /\ registry[i].id \in Ids /\ registry[i].usable \in BOOLEAN
       /\ registry[i].verification \in Verifications

NoMatch ==
  [kind |-> "none", id |-> "unsupported", verification |-> Unset,
   file |-> FALSE, text |-> FALSE, metadata |-> FALSE]

-----------------------------------------------------------------------------

Compare(profile, fingerprint) ==
  LET sameFile == profile.file = fingerprint.file
      sameText == profile.text = fingerprint.text
      sameMetadata == profile.metadata = fingerprint.metadata
  IN  [kind |-> IF sameFile /\ sameText /\ sameMetadata THEN "exact"
                ELSE IF sameMetadata THEN "candidateStructural" ELSE "none",
       id |-> profile.id, verification |-> profile.verification,
       file |-> sameFile, text |-> sameText, metadata |-> sameMetadata]

MatchScore(m) ==
  (IF m.metadata THEN 4 ELSE 0) + (IF m.file THEN 2 ELSE 0) + (IF m.text THEN 1 ELSE 0)

\* What is no structural match has no name; what agrees with it is still reported.
Reported(best) ==
  IF best.kind = "candidateStructural" THEN best
  ELSE [best EXCEPT !.id = "unsupported", !.verification = Unset]

\* The profiles that agree most, of those that agree in anything.
Best(compared) ==
  {i \in DOMAIN compared :
     /\ MatchScore(compared[i]) > 0
     /\ \A j \in DOMAIN compared : MatchScore(compared[j]) <= MatchScore(compared[i])}

FirstOf(places) == CHOOSE i \in places : \A j \in places : i <= j

\* match: a profile that is not usable is skipped, an exact one returns at once, and of the
\* others the first of the best ones is kept.
Match(profiles, fingerprint) ==
  LET usable == {i \in DOMAIN profiles : profiles[i].usable}
      compared == [i \in usable |-> Compare(profiles[i], fingerprint)]
      exact == {i \in usable : compared[i].kind = "exact"}
  IN  IF exact # {} THEN compared[FirstOf(exact)]
      ELSE IF Best(compared) = {} THEN NoMatch
      ELSE Reported(compared[FirstOf(Best(compared))])

-----------------------------------------------------------------------------

Agrees(profile, fingerprint) ==
  /\ profile.file = fingerprint.file
  /\ profile.text = fingerprint.text
  /\ profile.metadata = fingerprint.metadata

\* docs/EXECUTABLE_FINGERPRINTS.md:74-78: exact, structural and no match are told apart
\* by what the registry holds, whatever the order of its profiles and however many
\* agree in part.
KindAsDocumented(profiles, fingerprint) ==
  LET usable == {profiles[i] : i \in {j \in DOMAIN profiles : profiles[j].usable}}
      exact == \E p \in usable : Agrees(p, fingerprint)
      kind == Match(profiles, fingerprint).kind
  IN  /\ kind = "exact" <=> exact
      /\ kind = "candidateStructural" <=>
           ~exact /\ \E p \in usable : p.metadata = fingerprint.metadata

=============================================================================
