-------------------------- MODULE ConfigurationLoad -------------------------
(***************************************************************************)
(* Configuration::load and the choice Main makes of its result.  The file  *)
(* is read a line at a time into the result; the bindings of the stations  *)
(* are validated at the end.                                               *)
(*                                                                         *)
(* A text stands for what each of the parsers makes of it: None where a    *)
(* parser refuses it.  The title of a section stands for its kind: a title *)
(* that starts with "Station." exactly names a station, the others are     *)
(* compared in lower case, and what is neither is "other".  Blank lines,   *)
(* comments, the log level and the names of stations are left out.         *)
(***************************************************************************)
EXTENDS RadioDecision, Sequences

CONSTANTS
  Lines,      \* the lines a file is made of
  Starts,     \* bounds: how files begin, and which lines, at most how many, follow
  ProfileMap  \* the reviewed station map of the running executable, or None

Titles == [kind : {"none", "general", "experimental", "research", "other"}, station : {None}]
            \cup [kind : {"station"}, station : Stations]

NoSection == [kind |-> "none", station |-> None]

\* What each parser makes of a text.
Texts ==
  [boolean : BOOLEAN \cup {None}, number : Nat \cup {None}, identity : Identities \cup {None},
   url : {"empty", "invalid", "http", "https"}]

ASSUME ConfigurationAssumption ==
  /\ \A line \in Lines : line.type \in {"section", "pair", "malformed"}
  /\ \A line \in Lines : line.type = "section" => line.title \in Titles
  /\ \A line \in Lines : line.type = "pair" => line.text \in Texts
  /\ \A start \in Starts : /\ start.first \in Seq(Lines)
                           /\ start.then \subseteq Lines
                           /\ start.atMost \in Nat
  /\ \/ ProfileMap = None
     \/ \A raw \in DOMAIN ProfileMap : ProfileMap[raw] \in Identities
  /\ None \notin BOOLEAN

\* The parser of each key.
GeneralParsers ==
  [enabled |-> "boolean", bufferMilliseconds |-> "unsigned", reconnect |-> "boolean",
   reconnectDelayMilliseconds |-> "unsigned", resolveRemotePlaylists |-> "boolean",
   playlistConnectTimeoutMilliseconds |-> "positive",
   playlistReceiveTimeoutMilliseconds |-> "positive", playlistMaximumBytes |-> "positive",
   playlistMaximumEntries |-> "positive", playlistMaximumRedirects |-> "positive",
   playlistMaximumDepth |-> "positive", volumeMultiplier |-> "unsigned"]

ExperimentalParsers ==
  [enableGameObserver |-> "boolean", observerDryRun |-> "boolean",
   logStateTransitions |-> "boolean", enableRadioController |-> "boolean",
   radioControllerDryRun |-> "forced", logRadioDecisions |-> "boolean",
   enableGameplayAudioExecutor |-> "boolean",
   muteOriginalRadioDuringGameplayAudio |-> "boolean"]

ResearchParsers ==
  [enableRadioStationMapRecorder |-> "boolean", logRadioStationObservations |-> "boolean",
   radioStationMinimumStableFrames |-> "frames"]

StationParsers ==
  [enabled |-> "boolean", url |-> "url", allowHttp |-> "boolean", raw |-> "byte",
   identity |-> "identity"]

Parsers(kind) ==
  CASE kind = "general" -> GeneralParsers
    [] kind = "experimental" -> ExperimentalParsers
    [] kind = "research" -> ResearchParsers
    [] kind = "station" -> StationParsers

\* What the parser of a key makes of a text, None where it is an error.  A request to
\* leave the dry run is read, and refused.
Parse(parser, text) ==
  LET within(limits) == IF text.number \in limits THEN text.number ELSE None
  IN  CASE parser = "boolean" -> text.boolean
        [] parser = "forced" -> IF text.boolean = None THEN None ELSE TRUE
        [] parser = "unsigned" -> text.number
        [] parser = "positive" -> IF text.number = 0 THEN None ELSE text.number
        [] parser = "frames" -> within(1 .. 600)
        [] parser = "byte" -> within(RawRange)
        [] parser = "identity" -> text.identity
        [] parser = "url" -> text.url

Defaults ==
  [general |->
     [enabled |-> TRUE, bufferMilliseconds |-> 3000, reconnect |-> TRUE,
      reconnectDelayMilliseconds |-> 5000, resolveRemotePlaylists |-> TRUE,
      playlistConnectTimeoutMilliseconds |-> 5000,
      playlistReceiveTimeoutMilliseconds |-> 10000, playlistMaximumBytes |-> 262144,
      playlistMaximumEntries |-> 128, playlistMaximumRedirects |-> 5,
      playlistMaximumDepth |-> 3, volumeMultiplier |-> 100],
   experimental |->
     [enableGameObserver |-> FALSE, observerDryRun |-> TRUE, logStateTransitions |-> TRUE,
      enableRadioController |-> FALSE, radioControllerDryRun |-> TRUE,
      logRadioDecisions |-> TRUE, enableGameplayAudioExecutor |-> FALSE,
      muteOriginalRadioDuringGameplayAudio |-> FALSE],
   research |->
     [enableRadioStationMapRecorder |-> FALSE, logRadioStationObservations |-> FALSE,
      radioStationMinimumStableFrames |-> 15],
   stations |-> [k \in {} |-> None]]

DefaultStation ==
  [enabled |-> FALSE, url |-> "empty", allowHttp |-> FALSE, raw |-> None, identity |-> None]

VARIABLES
  at,       \* "reading", "loaded" or "missing"
  file,     \* the lines read so far
  section,  \* currentSection
  value,    \* result.value
  errors    \* result.errors: the lines and the stations they are about

vars == <<at, file, section, value, errors>>

Init ==
  /\ at = "reading"
  /\ file = <<>>
  /\ section = NoSection
  /\ value = Defaults
  /\ errors = {}

-----------------------------------------------------------------------------

\* assignGeneralValue, assignExperimentalValue, assignResearchValue: a known key.
Assign(kind, key, text) ==
  LET parsed == Parse(Parsers(kind)[key], text)
  IN  IF parsed = None THEN value ELSE [value EXCEPT ![kind][key] = parsed]

\* assignStationValue: the entry of the station is there from its first key on, an
\* unknown one included.
AssignStation(station, key, text) ==
  LET before == IF station \in DOMAIN value.stations THEN value.stations[station]
                ELSE DefaultStation
      parsed == IF key \in DOMAIN StationParsers THEN Parse(StationParsers[key], text) ELSE None
      after == IF parsed = None THEN before ELSE [before EXCEPT ![key] = parsed]
  IN  [value EXCEPT !.stations =
         [k \in DOMAIN value.stations \cup {station} |->
            IF k = station THEN after ELSE value.stations[k]]]

\* A pair that is an error: before any section, or with a value its key refuses; the
\* values of [Experimental] are parsed before their key is looked at.
PairFails(title, key, text) ==
  \/ title.kind = "none"
  \/ title.kind = "experimental" /\ text.boolean = None
  \/ /\ title.kind \notin {"none", "other"}
     /\ key \in DOMAIN Parsers(title.kind)
     /\ Parse(Parsers(title.kind)[key], text) = None

Lineno == Len(file) + 1

\* What the file may go on with.
GoesOn(line) ==
  \E start \in Starts :
    LET first == start.first
    IN  IF Len(file) < Len(first)
        THEN file = SubSeq(first, 1, Len(file)) /\ line = first[Lineno]
        ELSE /\ first = SubSeq(file, 1, Len(first))
             /\ line \in start.then
             /\ Len(file) < Len(first) + start.atMost

NextLine(line) ==
  /\ at = "reading"
  /\ GoesOn(line)
  /\ file' = Append(file, line)

ReadSection(line) ==
  /\ NextLine(line)
  /\ line.type = "section"
  /\ section' = line.title
  /\ UNCHANGED <<at, value, errors>>

ReadMalformed(line) ==
  /\ NextLine(line)
  /\ line.type = "malformed"
  /\ errors' = errors \cup {<<"line", Lineno>>}
  /\ UNCHANGED <<at, section, value>>

ReadPair(line) ==
  /\ NextLine(line)
  /\ line.type = "pair"
  /\ value' = IF section.kind = "station"
                THEN AssignStation(section.station, line.key, line.text)
              ELSE IF section.kind \in {"general", "experimental", "research"}
                      /\ line.key \in DOMAIN Parsers(section.kind)
                THEN Assign(section.kind, line.key, line.text)
              ELSE value
  /\ errors' = IF PairFails(section, line.key, line.text)
               THEN errors \cup {<<"line", Lineno>>} ELSE errors
  /\ UNCHANGED <<at, section>>

\* Mutant: only raw values are counted.
RawConflicts(stations) ==
  {<<"raw", stations[k].raw>> : k \in {j \in DOMAIN stations :
      \E other \in DOMAIN stations \ {j} :
        /\ stations[j].enabled /\ stations[other].enabled
        /\ stations[j].raw # None /\ stations[j].raw = stations[other].raw}}

\* validateStationBindings: both bindings in one station, enabled or not, and the same
\* binding in two enabled ones.
BindingConflicts(stations) ==
  LET enabled == {k \in DOMAIN stations : stations[k].enabled}
      shared(field) == {k \in enabled : /\ stations[k][field] # None
                                        /\ \E other \in enabled \ {k} :
                                             stations[other][field] = stations[k][field]}
  IN  {<<"both", k>> : k \in {j \in DOMAIN stations :
          stations[j].raw # None /\ stations[j].identity # None}}
      \cup {<<"raw", stations[k].raw>> : k \in shared("raw")}
      \cup {<<"identity", stations[k].identity>> : k \in shared("identity")}

EndOfFile ==
  /\ at = "reading"
  /\ at' = "loaded"
  /\ errors' = errors \cup BindingConflicts(value.stations)
  /\ UNCHANGED <<file, section, value>>

\* The file cannot be opened.
FileMissing ==
  /\ at = "reading" /\ file = <<>>
  /\ at' = "missing"
  /\ errors' = {<<"line", 0>>}
  /\ UNCHANGED <<file, section, value>>

Success == at = "loaded" /\ errors = {}

\* Mutant: what could be read of a file with errors is used.
WhatCouldBeRead == value

\* Main: a file with any error at all is not used.
RuntimeConfiguration == IF Success THEN value ELSE Defaults

Next ==
  \/ \E line \in Lines : ReadSection(line) \/ ReadMalformed(line) \/ ReadPair(line)
  \/ EndOfFile
  \/ FileMissing

Spec == Init /\ [][Next]_vars

-----------------------------------------------------------------------------
(* What a file means, line by line and whatever order it is read in.       *)

\* The section line i is in.
TitleAt(i) ==
  LET titles == {j \in 1 .. i : file[j].type = "section"}
  IN  IF titles = {} THEN NoSection
      ELSE file[CHOOSE j \in titles : \A other \in titles : other <= j].title

ValidAssignments(title, key) ==
  {i \in DOMAIN file : /\ file[i].type = "pair" /\ TitleAt(i) = title /\ file[i].key = key
                       /\ Parse(Parsers(title.kind)[key], file[i].text) # None}

Meaning(title, key, default) ==
  LET valid == ValidAssignments(title, key)
  IN  IF valid = {} THEN default
      ELSE Parse(Parsers(title.kind)[key],
                 file[CHOOSE i \in valid : \A other \in valid : other <= i].text)

Plain(kind) == [kind |-> kind, station |-> None]
OfStation(k) == [kind |-> "station", station |-> k]

BadLines ==
  {i \in DOMAIN file : \/ file[i].type = "malformed"
                       \/ /\ file[i].type = "pair"
                          /\ PairFails(TitleAt(i), file[i].key, file[i].text)}

-----------------------------------------------------------------------------

TypeOK ==
  /\ at \in {"reading", "loaded", "missing"}
  /\ file \in Seq(Lines)
  /\ section \in Titles
  /\ \A k \in DOMAIN GeneralParsers :
       value.general[k] \in IF GeneralParsers[k] = "boolean" THEN BOOLEAN ELSE Nat
  /\ \A k \in DOMAIN ExperimentalParsers : value.experimental[k] \in BOOLEAN
  /\ value.experimental.radioControllerDryRun
  /\ value.research.radioStationMinimumStableFrames \in 1 .. 600
  /\ \A k \in DOMAIN value.stations :
       /\ value.stations[k] \in StationConfiguration
       /\ value.stations[k].raw \in RawRange \cup {None}

\* The raw values a station is bound to or the map knows, and one that is neither: no
\* other selects a station.
Heard ==
  LET known == ({value.stations[k].raw : k \in DOMAIN value.stations} \ {None})
                 \cup (IF ProfileMap = None THEN {} ELSE DOMAIN ProfileMap)
  IN  known \cup {CHOOSE raw \in RawRange : raw \notin known}

\* In a configuration that loads, the order of the keys decides for no snapshot which
\* station plays: no other enabled station has the binding of the one selected.
OrderNeverDecides ==
  Success =>
    \A raw \in Heard :
      LET choice == SelectStation([stations |-> value.stations, profileMap |-> ProfileMap], raw)
      IN  choice.station # None =>
            \A k \in DOMAIN value.stations \ {choice.station} :
              value.stations[k].enabled =>
                IF choice.kind = "raw" THEN value.stations[k].raw # raw
                ELSE value.stations[k].identity # choice.identity

\* The snapshot of a player who sits in a vehicle and hears a station.
Driving(raw) ==
  [sequence |-> 1, observerAvailable |-> TRUE, gameReady |-> TRUE, pauseMenuActive |-> "no",
   playerInVehicle |-> "yes", radioStationRaw |-> raw, radioVolume |-> 100]

Decision(raw) ==
  LET runtime == RuntimeConfiguration
  IN  Evaluate(Driving(raw),
               [enabled |-> runtime.general.enabled,
                controllerEnabled |-> runtime.experimental.enableRadioController,
                controllerDryRun |-> runtime.experimental.radioControllerDryRun,
                volumeMultiplier |-> runtime.general.volumeMultiplier,
                stations |-> runtime.stations, profileMap |-> ProfileMap],
               InitialRadioState)

\* Nothing starts unless a file without a single error asks for it: the controller
\* switched on, the plugin not switched off and the station enabled, with a url.
StartNeedsOptIn ==
  at \in {"loaded", "missing"} =>
    \A raw \in Heard :
      LET plan == Decision(raw)
      IN  plan.action = "wouldStart" =>
            /\ at = "loaded" /\ BadLines = {}
            /\ Meaning(Plain("experimental"), "enableRadioController", FALSE)
            /\ Meaning(Plain("general"), "enabled", TRUE)
            /\ Meaning(OfStation(plan.selected), "enabled", FALSE)
            /\ Meaning(OfStation(plan.selected), "url", "empty") # "empty"

=============================================================================
