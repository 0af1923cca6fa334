------------------------------ MODULE MCPlugin ------------------------------
(***************************************************************************)
(* The plugin started with the settings and the builds that differ in what *)
(* is put in place, over an executable whose file is replaced once while   *)
(* it is identified, and then run over four snapshots.                     *)
(*                                                                         *)
(* The versions of the file differ in one thing each from the first: the   *)
(* bytes of .text, those of the other section, the headers, and a section  *)
(* table that cuts the same bytes elsewhere; a smaller file; and three     *)
(* that are no image: a section that covers .text in the file or where it  *)
(* is loaded, and one whose end passes the word.  Profiles agree with a    *)
(* version in all, in part or not at all.  The matching is checked for all *)
(* registries of up to two profiles.                                       *)
(***************************************************************************)
EXTENDS Plugin, TLC

Entry(name, address, raw, size) ==
  [name |-> name, virtualAddress |-> address, virtualSize |-> 1, rawOffset |-> raw,
   rawSize |-> size]
File(sizeOfImage, table, data) ==
  [headers |-> [fileSize |-> Len(data), peOffset |-> 1, sectionCount |-> 2, optionalSize |-> 0,
                sizeOfImage |-> sizeOfImage, sizeOfHeaders |-> 3, wellFormed |-> TRUE],
   table |-> table, data |-> data]

Table == <<Entry(".text", 1, 3, 2), Entry("other", 3, 5, 1)>>
Moved == <<Entry(".text", 1, 3, 1), Entry("other", 2, 4, 2)>>
Short == <<Entry(".text", 1, 3, 1), Entry("other", 2, 4, 0)>>
CoversInFile == <<Entry(".text", 1, 4, 1), Entry("other", 2, 3, 2)>>
CoversInImage == <<Entry(".text", 2, 3, 1), Entry("other", 1, 4, 2)>>
Wraps == <<Entry(".text", 1, 3, 2), Entry("other", 3, 7, 1)>>

Data == <<0, 0, 0, 1, 2, 3>>
Original == File(4, Table, Data)
OtherText == File(4, Table, [Data EXCEPT ![5] = 4])
OtherHeaders == File(5, Table, Data)

Images ==
  {Original, OtherText, OtherHeaders, File(4, Table, [Data EXCEPT ![6] = 5]),
   File(4, Moved, Data), File(3, Short, SubSeq(Data, 1, 4))}

MCFiles ==
  Images \cup
  {File(4, CoversInFile, Data), File(4, CoversInImage, Data), File(4, Wraps, Data)}

\* The profile of a file, and one with its metadata and another one's digests.
ProfileOf(id, f, digests, usable, verification) ==
  [id |-> id, usable |-> usable, verification |-> verification, file |-> digests,
   text |-> FingerprintOf(digests).text, metadata |-> FingerprintOf(f).metadata]

Local(id, f, digests) == ProfileOf(id, f, digests, TRUE, "locallyReproduced")

Classic == Local("classic", Original, Original)
Profiles ==
  {Classic, [Classic EXCEPT !.usable = FALSE], Local("us10", Original, OtherText),
   Local("us10", OtherHeaders, Original), Local("us10", OtherHeaders, OtherHeaders)}

ASSUME MatchesExact ==
  \A profiles \in {<<>>} \cup {<<p>> : p \in Profiles} \cup (Profiles \X Profiles), f \in Images :
    KindAsDocumented(profiles, FingerprintOf(f))

MCRegistries ==
  {<<Local("us10", Original, OtherText), Classic>>,
   <<Local("us10", OtherHeaders, Original), [Classic EXCEPT !.usable = FALSE]>>,
   <<[Classic EXCEPT !.verification = "candidate"]>>,
   <<Local("us10", OtherHeaders, OtherHeaders), Classic>>}

-----------------------------------------------------------------------------

Observing == [Defaults EXCEPT !.enableGameObserver = TRUE, !.observerDryRun = FALSE]
Deciding == [Observing EXCEPT !.enableRadioController = TRUE, !.logStateTransitions = FALSE]
Playing == [Deciding EXCEPT !.enableGameplayAudioExecutor = TRUE, !.muteOriginalRadio = TRUE,
                            !.logRadioDecisions = FALSE]
Recording == [Observing EXCEPT !.enableRecorder = TRUE, !.logStateTransitions = FALSE]

MCConfigurable ==
  {Observing, Deciding, Playing, Recording, [Playing EXCEPT !.observerDryRun = TRUE],
   [Recording EXCEPT !.enableGameObserver = FALSE]}

Full == [fingerprinting |-> TRUE, observer |-> TRUE, controller |-> TRUE, executor |-> TRUE,
         suppression |-> TRUE]
MCBuilds ==
  {Full, [Full EXCEPT !.executor = FALSE, !.suppression = FALSE],
   [b \in DOMAIN Full |-> b = "fingerprinting"]}

-----------------------------------------------------------------------------

MCConfiguration ==
  [enabled |-> TRUE, controllerEnabled |-> TRUE, controllerDryRun |-> TRUE,
   volumeMultiplier |-> 100, profileMap |-> None,
   stations |-> [k \in {7, 8} |-> [enabled |-> TRUE, url |-> "https", allowHttp |-> FALSE,
                                   raw |-> k, identity |-> None]]]

Driving(raw, paused) ==
  [sequence |-> 0, observerAvailable |-> TRUE, gameReady |-> TRUE, pauseMenuActive |-> paused,
   playerInVehicle |-> "yes", radioStationRaw |-> raw, radioVolume |-> 50]

MCFrames ==
  {Driving(7, "no"), Driving(8, "no"), Driving(7, "yes"),
   [Driving(None, "no") EXCEPT !.playerInVehicle = "no"]}

=============================================================================
