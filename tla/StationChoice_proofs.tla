--------------------------- MODULE StationChoice_proofs ---------------------------
(***************************************************************************)
(* Which station a snapshot selects: the configuration that is loaded, and *)
(* the map that is made of evidence.                                       *)
(*                                                                         *)
(* What a configuration that is loaded says: for any file, the values are  *)
(* those of the last valid line of each key in its sections, and the       *)
(* errors are the bad lines and the bindings in conflict.  From that: the  *)
(* order of the keys selects no station, and nothing starts that the file  *)
(* does not ask for.                                                       *)
(*                                                                         *)
(* The reader keeps only the section and the values so far; the invariant  *)
(* says what these stand for in the lines that are behind.                 *)
(*                                                                         *)
(* What an archive of evidence says: every document in it is one that a    *)
(* file of the start said, because what is written for an accepted         *)
(* document is read as that document again.  From that: the map agrees     *)
(* with every document that counts, and no further file erodes it.         *)
(***************************************************************************)
EXTENDS ConfigurationLoad, StationEvidence, SequenceTheorems, FiniteSetTheorems,
        WellFoundedInduction, TLAPS

-----------------------------------------------------------------------------
(* First and last numbers.                                                 *)

LEMMA LeastNatural ==
  ASSUME NEW S \in SUBSET Nat, S # {}
  PROVE  \E n \in S : \A m \in S : n <= m
<1> DEFINE Below(n) == 0 .. n - 1
           Belows == {Below(n) : n \in S}
<1>1. Belows \subseteq FiniteSubsetsOf(Nat)
  <2>1. ASSUME NEW n \in S PROVE Below(n) \in SUBSET Nat /\ IsFiniteSet(Below(n))
    <3>1. n - 1 \in Int /\ 0 \in Int
      OBVIOUS
    <3> QED BY <3>1, FS_Interval
  <2> QED BY <2>1 DEF FiniteSubsetsOf
<1>2. PICK low \in Belows : \A other \in Belows : <<other, low>> \notin StrictSubsetOrdering(Nat)
  <2>1. Belows # {}
    OBVIOUS
  <2> QED BY <1>1, <2>1, WFMin, FS_StrictSubsetOrderingWellFounded
<1>3. PICK n \in S : low = Below(n)
  BY <1>2
<1>4. ASSUME NEW m \in S PROVE n <= m
  <2>1. SUFFICES ASSUME m < n PROVE FALSE
    OBVIOUS
  <2>2. Below(m) \subseteq Below(n) /\ m \in Below(n) /\ m \notin Below(m)
    BY <2>1
  <2>3. Below(m) \in SUBSET Nat /\ Below(n) \in SUBSET Nat /\ Below(m) \in Belows
    OBVIOUS
  <2> QED BY <1>2, <1>3, <2>2, <2>3 DEF StrictSubsetOrdering
<1> QED BY <1>4

\* Of some places in a file, one is the last.
LEMMA LastPlace ==
  ASSUME NEW n \in Nat, NEW S \in SUBSET (1 .. n), S # {}
  PROVE  (CHOOSE i \in S : \A other \in S : other <= i) \in S
<1> DEFINE bounds == {m \in Nat : \A i \in S : i <= m}
<1>1. bounds \in SUBSET Nat /\ n \in bounds
  OBVIOUS
<1>2. PICK least \in bounds : \A m \in bounds : least <= m
  BY <1>1, LeastNatural
<1>3. least \in S
  <2> SUFFICES ASSUME least \notin S PROVE FALSE
    OBVIOUS
  <2>1. PICK i \in S : TRUE
    OBVIOUS
  <2>2. least \in Nat /\ \A j \in S : j \in Nat /\ j <= least /\ j # least
    BY <1>2
  <2>3. least - 1 \in Nat /\ \A j \in S : j <= least - 1
    BY <2>1, <2>2
  <2>4. least - 1 \in bounds
    BY <2>3
  <2> QED BY <1>2, <2>2, <2>4
<1>4. \E i \in S : \A other \in S : other <= i
  BY <1>2, <1>3
<1> QED BY <1>4

\* The greatest of a set is the one that is.
LEMMA LastIs ==
  ASSUME NEW S \in SUBSET Nat, NEW n \in S, \A i \in S : i <= n
  PROVE  (CHOOSE i \in S : \A other \in S : other <= i) = n
<1> DEFINE last == CHOOSE i \in S : \A other \in S : other <= i
<1>1. last \in S /\ \A other \in S : other <= last
  OBVIOUS
<1> HIDE DEF last
<1>2. last <= n /\ n <= last /\ last \in Nat /\ n \in Nat
  BY <1>1
<1>3. last = n
  BY <1>2
<1> QED BY <1>3 DEF last

\* The first of some stations is one of them.
LEMMA FirstMember ==
  ASSUME NEW keys \in SUBSET Stations, keys # {}
  PROVE  First(keys) \in keys
<1>1. \E k \in keys : \A other \in keys : k <= other
  <2>1. keys \in SUBSET Nat
    BY RadioDecisionAssumption
  <2> QED BY <2>1, LeastNatural
<1> QED BY <1>1 DEF First

-----------------------------------------------------------------------------
(* One more line.                                                          *)

\* Nothing changes behind it, and it is in its own section or in the one it starts.
LEMMA TitleGrows ==
  ASSUME file \in Seq(Lines), NEW line \in Lines, file' = Append(file, line),
         NEW n \in Nat, n = Len(file) + 1
  PROVE  /\ \A i \in 0 .. n - 1 : TitleAt(i)' = TitleAt(i)
         /\ TitleAt(n)' = IF line.type = "section" THEN line.title ELSE TitleAt(n - 1)
<1>1. /\ DOMAIN file = 1 .. n - 1 /\ file' \in Seq(Lines)
      /\ \A j \in 1 .. n - 1 : file'[j] = file[j]
      /\ file'[n] = line /\ DOMAIN file' = 1 .. n
  OBVIOUS
<1> DEFINE Titled(i) == {j \in 1 .. i : file[j].type = "section"}
           Last(places) == CHOOSE j \in places : \A other \in places : other <= j
<1>2. ASSUME NEW i \in 0 .. n - 1 PROVE TitleAt(i)' = TitleAt(i) /\ Titled(i)' = Titled(i)
  <2>1. Titled(i)' = Titled(i)
    BY <1>1
  <2>2. CASE Titled(i) = {}
    BY <2>1, <2>2 DEF TitleAt
  <2>3. CASE Titled(i) # {}
    <3>1. Titled(i) \in SUBSET (1 .. i) /\ i \in Nat
      OBVIOUS
    <3>2. Last(Titled(i)) \in Titled(i)
      <4> HIDE DEF Titled
      <4> QED BY <2>3, <3>1, LastPlace
    <3>3. TitleAt(i) = file[Last(Titled(i))].title
      BY <2>3 DEF TitleAt
    <3>4. TitleAt(i)' = file'[Last(Titled(i))].title
      BY <2>1, <2>3 DEF TitleAt
    <3>5. Last(Titled(i)) \in 1 .. n - 1
      BY <3>2
    <3> HIDE DEF Last, Titled
    <3> QED BY <1>1, <2>1, <3>3, <3>4, <3>5
  <2> QED BY <2>1, <2>2, <2>3
<1>3. CASE line.type = "section"
  <2>1. n \in Titled(n)' /\ Titled(n)' \in SUBSET Nat /\ \A j \in Titled(n)' : j <= n
    BY <1>1, <1>3
  <2>2. Last(Titled(n)') = n
    <3> HIDE DEF Titled
    <3> QED BY <2>1, LastIs
  <2>3. TitleAt(n)' = file'[Last(Titled(n)')].title
    BY <2>1 DEF TitleAt
  <2> HIDE DEF Last, Titled
  <2> QED BY <1>1, <1>2, <1>3, <2>2, <2>3
<1>4. CASE line.type # "section"
  <2>1. Titled(n)' = Titled(n - 1)'
    BY <1>1, <1>4
  <2>2. TitleAt(n)' = TitleAt(n - 1)'
    <3>1. \A i \in {n, n - 1} : TitleAt(i)' = IF Titled(i)' = {} THEN NoSection
                                            ELSE file'[Last(Titled(i)')].title
      BY DEF TitleAt
    <3> HIDE DEF Titled, Last
    <3> QED BY <2>1, <3>1
  <2>3. n - 1 \in 0 .. n - 1
    OBVIOUS
  <2> QED BY <1>2, <1>4, <2>2, <2>3
<1> QED BY <1>2, <1>3, <1>4

\* A line that gives a key of a section a value.
Gives(line, title, key) ==
  /\ line.type = "pair" /\ line.key = key
  /\ Parse(Parsers(title.kind)[key], line.text) # None

\* It is the last one of its kind, and the value is that of the last one.
LEMMA MeaningGrows ==
  ASSUME file \in Seq(Lines), NEW line \in Lines, file' = Append(file, line),
         NEW title, NEW key, NEW default
  PROVE  Meaning(title, key, default)' =
           IF Gives(line, title, key) /\ TitleAt(Len(file)) = title
           THEN Parse(Parsers(title.kind)[key], line.text)
           ELSE Meaning(title, key, default)
<1>1. PICK n \in Nat : n = Len(file) + 1
  OBVIOUS
<1>2. /\ DOMAIN file = 1 .. n - 1 /\ file' \in Seq(Lines)
      /\ \A j \in 1 .. n - 1 : file'[j] = file[j]
      /\ file'[n] = line /\ DOMAIN file' = 1 .. n
  BY <1>1
<1>3. /\ \A i \in 0 .. n - 1 : TitleAt(i)' = TitleAt(i)
      /\ TitleAt(n)' = IF line.type = "section" THEN line.title ELSE TitleAt(n - 1)
  BY <1>1, TitleGrows
<1> DEFINE valid == ValidAssignments(title, key)
           given == Gives(line, title, key) /\ TitleAt(n - 1) = title
           Last(places) == CHOOSE j \in places : \A other \in places : other <= j
<1>4. valid' = IF given THEN valid \cup {n} ELSE valid
  <2>1. ASSUME NEW i \in 1 .. n - 1 PROVE i \in valid' <=> i \in valid
    <3>1. TitleAt(i)' = TitleAt(i) /\ file'[i] = file[i] /\ i \in DOMAIN file /\ i \in DOMAIN file'
      BY <1>2, <1>3, <2>1
    <3> QED BY <3>1 DEF ValidAssignments
  <2>2. n \in valid' <=> given
    <3>1. n \in DOMAIN file' /\ file'[n] = line
      BY <1>2
    <3> QED BY <1>3, <3>1 DEF ValidAssignments, Gives
  <2>3. valid \subseteq 1 .. n - 1 /\ valid' \subseteq 1 .. n
    BY <1>2 DEF ValidAssignments
  <2>4. n \notin 1 .. n - 1 /\ 1 .. n = (1 .. n - 1) \cup {n}
    BY <1>1
  <2> HIDE DEF valid, given
  <2>5. CASE given
    BY <2>1, <2>2, <2>3, <2>4, <2>5
  <2>6. CASE ~given
    <3>1. n \notin valid' /\ valid' \subseteq 1 .. n - 1
      BY <2>2, <2>3, <2>4, <2>6
    <3>2. valid' = valid
      BY <2>1, <2>3, <3>1
    <3> QED BY <2>6, <3>2
  <2> QED BY <2>5, <2>6
<1>5. valid \in SUBSET (1 .. n - 1) /\ n - 1 \in Nat
  BY <1>1, <1>2 DEF ValidAssignments
<1>6. Meaning(title, key, default)' =
        IF valid' = {} THEN default
        ELSE Parse(Parsers(title.kind)[key], file'[Last(valid')].text)
  BY DEF Meaning
<1>7. Meaning(title, key, default) =
        IF valid = {} THEN default
        ELSE Parse(Parsers(title.kind)[key], file[Last(valid)].text)
  BY DEF Meaning
<1> HIDE DEF valid
<1>8. CASE given
  <2>1. valid' = valid \cup {n} /\ valid' \in SUBSET Nat /\ n \in valid' /\ \A i \in valid' : i <= n
    BY <1>4, <1>5, <1>8
  <2>2. Last(valid') = n
    BY <2>1, LastIs
  <2> HIDE DEF Last
  <2> QED BY <1>1, <1>2, <1>6, <1>8, <2>1, <2>2
<1>9. CASE ~given
  <2>1. valid' = valid
    BY <1>4, <1>9
  <2>2. valid # {} => Last(valid) \in 1 .. n - 1
    BY <1>5, LastPlace
  <2> HIDE DEF Last
  <2>3. Meaning(title, key, default)' = Meaning(title, key, default)
    BY <1>2, <1>6, <1>7, <2>1, <2>2
  <2> QED BY <1>1, <1>9, <2>3
<1> QED BY <1>8, <1>9

-----------------------------------------------------------------------------
(* What a whole file says.                                                 *)

PlainKinds == {"general", "experimental", "research"}

\* A section of settings, as the last valid line of each key has it.
Written(kind) ==
  [key \in DOMAIN Parsers(kind) |-> Meaning(Plain(kind), key, Defaults[kind][key])]

WrittenStation(k) ==
  [key \in DOMAIN StationParsers |-> Meaning(OfStation(k), key, DefaultStation[key])]

\* The stations with a key, if only an unknown one.
Named ==
  {k \in Stations : \E i \in DOMAIN file : file[i].type = "pair" /\ TitleAt(i) = OfStation(k)}

ValuesAsWritten ==
  value = [part \in PlainKinds \cup {"stations"} |->
             IF part = "stations" THEN [k \in Named |-> WrittenStation(k)] ELSE Written(part)]

ErrorsAsWritten ==
  at # "missing" =>
    errors = {<<"line", i>> : i \in BadLines}
               \cup (IF at = "loaded" THEN BindingConflicts(value.stations) ELSE {})

\* The reader knows the section it is in.
ReaderInv ==
  /\ at \in {"reading", "loaded", "missing"}
  /\ file \in Seq(Lines)
  /\ section \in Titles /\ section = TitleAt(Len(file))
  /\ at = "missing" => errors # {}

LoadInv == ReaderInv /\ ValuesAsWritten /\ ErrorsAsWritten

LEMMA WrittenGrows ==
  ASSUME file \in Seq(Lines), NEW line \in Lines, file' = Append(file, line),
         NEW kind \in PlainKinds
  PROVE  Written(kind)' =
           IF /\ line.type = "pair" /\ TitleAt(Len(file)) = Plain(kind)
              /\ line.key \in DOMAIN Parsers(kind)
              /\ Parse(Parsers(kind)[line.key], line.text) # None
           THEN [Written(kind) EXCEPT ![line.key] = Parse(Parsers(kind)[line.key], line.text)]
           ELSE Written(kind)
<1> DEFINE keys == DOMAIN Parsers(kind)
           here == TitleAt(Len(file)) = Plain(kind)
           parsed(key) == Parse(Parsers(kind)[key], line.text)
           before(key) == Meaning(Plain(kind), key, Defaults[kind][key])
           after == Written(kind)'
<1>1. ASSUME NEW key
      PROVE  before(key)' = IF line.type = "pair" /\ line.key = key /\ parsed(key) # None /\ here
                            THEN parsed(key) ELSE before(key)
  <2>1. Plain(kind).kind = kind
    BY DEF Plain
  <2> QED BY <2>1, MeaningGrows DEF Gives
<1>2. Written(kind) = [key \in keys |-> before(key)]
  BY DEF Written
<1>3. after = [key \in keys |-> IF line.type = "pair" /\ line.key = key /\ parsed(key) # None /\ here
                                THEN parsed(key) ELSE before(key)]
  <2>1. after = [key \in keys |-> before(key)']
    BY DEF Written
  <2> HIDE DEF before, after, parsed, here, keys
  <2> QED BY <1>1, <2>1
<1> HIDE DEF before, after, parsed, here, keys
<1>4. CASE line.type = "pair" /\ here /\ line.key \in keys /\ parsed(line.key) # None
  <2>1. after = [Written(kind) EXCEPT ![line.key] = parsed(line.key)]
    BY <1>2, <1>3, <1>4
  <2> QED BY <1>4, <2>1 DEF after, parsed, here, keys
<1>5. CASE ~(line.type = "pair" /\ here /\ line.key \in keys /\ parsed(line.key) # None)
  <2>1. after = Written(kind)
    BY <1>2, <1>3, <1>5
  <2> QED BY <1>5, <2>1 DEF after, parsed, here, keys
<1> QED BY <1>4, <1>5

LEMMA StationGrows ==
  ASSUME file \in Seq(Lines), NEW line \in Lines, file' = Append(file, line), NEW k
  PROVE  WrittenStation(k)' =
           IF /\ line.type = "pair" /\ TitleAt(Len(file)) = OfStation(k)
              /\ line.key \in DOMAIN StationParsers
              /\ Parse(StationParsers[line.key], line.text) # None
           THEN [WrittenStation(k) EXCEPT ![line.key] = Parse(StationParsers[line.key], line.text)]
           ELSE WrittenStation(k)
<1> DEFINE keys == DOMAIN StationParsers
           here == TitleAt(Len(file)) = OfStation(k)
           parsed(key) == Parse(StationParsers[key], line.text)
           before(key) == Meaning(OfStation(k), key, DefaultStation[key])
           after == WrittenStation(k)'
<1>1. ASSUME NEW key
      PROVE  before(key)' = IF line.type = "pair" /\ line.key = key /\ parsed(key) # None /\ here
                            THEN parsed(key) ELSE before(key)
  <2>1. Parsers(OfStation(k).kind) = StationParsers
    BY DEF OfStation, Parsers
  <2> QED BY <2>1, MeaningGrows DEF Gives
<1>2. WrittenStation(k) = [key \in keys |-> before(key)]
  BY DEF WrittenStation
<1>3. after = [key \in keys |-> IF line.type = "pair" /\ line.key = key /\ parsed(key) # None /\ here
                                THEN parsed(key) ELSE before(key)]
  <2>1. after = [key \in keys |-> before(key)']
    BY DEF WrittenStation
  <2> HIDE DEF before, after, parsed, here, keys
  <2> QED BY <1>1, <2>1
<1> HIDE DEF before, after, parsed, here, keys
<1>4. CASE line.type = "pair" /\ here /\ line.key \in keys /\ parsed(line.key) # None
  <2>1. after = [WrittenStation(k) EXCEPT ![line.key] = parsed(line.key)]
    BY <1>2, <1>3, <1>4
  <2> QED BY <1>4, <2>1 DEF after, parsed, here, keys
<1>5. CASE ~(line.type = "pair" /\ here /\ line.key \in keys /\ parsed(line.key) # None)
  <2>1. after = WrittenStation(k)
    BY <1>2, <1>3, <1>5
  <2> QED BY <1>5, <2>1 DEF after, parsed, here, keys
<1> QED BY <1>4, <1>5

\* A station no line is about has its default values.
LEMMA UnnamedDefault ==
  ASSUME NEW k \in Stations \ Named
  PROVE  WrittenStation(k) = DefaultStation
<1>1. ASSUME NEW key PROVE Meaning(OfStation(k), key, DefaultStation[key]) = DefaultStation[key]
  <2>1. ValidAssignments(OfStation(k), key) = {}
    BY DEF ValidAssignments, Named
  <2> QED BY <2>1 DEF Meaning
<1>2. DefaultStation = [key \in DOMAIN StationParsers |-> DefaultStation[key]]
  BY DEF DefaultStation, StationParsers
<1>3. WrittenStation(k) = [key \in DOMAIN StationParsers |-> DefaultStation[key]]
  BY <1>1 DEF WrittenStation
<1> QED BY <1>2, <1>3

LEMMA NamedGrows ==
  ASSUME file \in Seq(Lines), NEW line \in Lines, file' = Append(file, line),
         TitleAt(Len(file)) \in Titles
  PROVE  Named' = IF line.type = "pair" /\ TitleAt(Len(file)).kind = "station"
                  THEN Named \cup {TitleAt(Len(file)).station} ELSE Named
<1>1. PICK n \in Nat : n = Len(file) + 1
  OBVIOUS
<1>2. /\ DOMAIN file = 1 .. n - 1
      /\ \A j \in 1 .. n - 1 : file'[j] = file[j]
      /\ file'[n] = line /\ DOMAIN file' = (1 .. n - 1) \cup {n}
  BY <1>1
<1>3. /\ \A i \in 0 .. n - 1 : TitleAt(i)' = TitleAt(i)
      /\ TitleAt(n)' = IF line.type = "section" THEN line.title ELSE TitleAt(n - 1)
  BY <1>1, TitleGrows
<1> DEFINE title == TitleAt(Len(file))
<1>4. ASSUME NEW k \in Stations
      PROVE  k \in Named' <=> k \in Named \/ (line.type = "pair" /\ title = OfStation(k))
  <2>1. \A i \in 1 .. n - 1 : TitleAt(i)' = TitleAt(i)
    BY <1>1, <1>3
  <2>2. line.type = "pair" => TitleAt(n)' = title
    BY <1>1, <1>3
  <2>3. k \in Named' <=> \E i \in (1 .. n - 1) \cup {n} :
                           file'[i].type = "pair" /\ TitleAt(i)' = OfStation(k)
    BY <1>2 DEF Named
  <2>4. k \in Named <=> \E i \in 1 .. n - 1 : file[i].type = "pair" /\ TitleAt(i) = OfStation(k)
    BY <1>2 DEF Named
  <2> HIDE DEF title
  <2> QED BY <1>2, <2>1, <2>2, <2>3, <2>4
<1>5. \A k : title = OfStation(k) <=> title.kind = "station" /\ title.station = k
  BY DEF Titles, OfStation
<1>6. title.kind = "station" => title.station \in Stations
  BY DEF Titles
<1>7. Named \subseteq Stations /\ Named' \subseteq Stations
  BY DEF Named
<1> HIDE DEF title
<1>8. CASE line.type = "pair" /\ title.kind = "station"
  <2>1. Named' = Named \cup {title.station}
    BY <1>4, <1>5, <1>6, <1>7, <1>8
  <2> QED BY <1>8, <2>1 DEF title
<1>9. CASE ~(line.type = "pair" /\ title.kind = "station")
  <2>1. Named' = Named
    BY <1>4, <1>5, <1>7, <1>9
  <2> QED BY <1>9, <2>1 DEF title
<1> QED BY <1>8, <1>9

\* A bad line is bad whatever comes behind it.
LEMMA BadGrows ==
  ASSUME file \in Seq(Lines), NEW line \in Lines, file' = Append(file, line)
  PROVE  BadLines' =
           IF \/ line.type = "malformed"
              \/ line.type = "pair" /\ PairFails(TitleAt(Len(file)), line.key, line.text)
           THEN BadLines \cup {Len(file) + 1} ELSE BadLines
<1>1. PICK n \in Nat : n = Len(file) + 1
  OBVIOUS
<1>2. /\ DOMAIN file = 1 .. n - 1
      /\ \A j \in 1 .. n - 1 : file'[j] = file[j]
      /\ file'[n] = line /\ DOMAIN file' = (1 .. n - 1) \cup {n}
  BY <1>1
<1>3. /\ \A i \in 1 .. n - 1 : TitleAt(i)' = TitleAt(i)
      /\ line.type = "pair" => TitleAt(n)' = TitleAt(n - 1)
  BY <1>1, TitleGrows
<1> DEFINE bad == \/ line.type = "malformed"
                  \/ line.type = "pair" /\ PairFails(TitleAt(n - 1), line.key, line.text)
<1>4. ASSUME NEW i \in 1 .. n - 1 PROVE i \in BadLines' <=> i \in BadLines
  BY <1>2, <1>3 DEF BadLines
<1>5. n \in BadLines' <=> bad
  BY <1>2, <1>3 DEF BadLines
<1>6. BadLines \subseteq 1 .. n - 1 /\ BadLines' \subseteq (1 .. n - 1) \cup {n}
  BY <1>2 DEF BadLines
<1>7. n - 1 = Len(file)
  BY <1>1
<1> HIDE DEF bad
<1>8. CASE bad
  <2>1. BadLines' = BadLines \cup {n}
    BY <1>4, <1>5, <1>6, <1>8
  <2> QED BY <1>1, <1>7, <1>8, <2>1 DEF bad
<1>9. CASE ~bad
  <2>1. BadLines' = BadLines
    BY <1>4, <1>5, <1>6, <1>9
  <2> QED BY <1>1, <1>7, <1>9, <2>1 DEF bad
<1> QED BY <1>8, <1>9

-----------------------------------------------------------------------------
(* Every step of the reader keeps to it.                                   *)

LEMMA LoadInit == Init => LoadInv
<1> SUFFICES ASSUME Init PROVE LoadInv
  OBVIOUS
<1>1. file = <<>> /\ Len(file) = 0 /\ DOMAIN file = {} /\ section = NoSection /\ at = "reading"
      /\ value = Defaults /\ errors = {}
  BY DEF Init
<1>2. TitleAt(0) = NoSection
  BY DEF TitleAt
<1>3. ReaderInv
  <2>1. file \in Seq(Lines) /\ NoSection \in Titles
    BY <1>1 DEF NoSection, Titles
  <2> QED BY <1>1, <1>2, <2>1 DEF ReaderInv
<1>4. Named = {} /\ BadLines = {}
  BY <1>1 DEF Named, BadLines
<1>5. ASSUME NEW kind \in PlainKinds PROVE Written(kind) = Defaults[kind]
  <2>1. \A key : Meaning(Plain(kind), key, Defaults[kind][key]) = Defaults[kind][key]
    BY <1>1 DEF Meaning, ValidAssignments
  <2>2. Written(kind) = [key \in DOMAIN Parsers(kind) |-> Defaults[kind][key]]
    BY <2>1 DEF Written
  <2>3. CASE kind = "general"
    <3>1. Defaults.general = [key \in DOMAIN GeneralParsers |-> Defaults.general[key]]
      BY DEF Defaults, GeneralParsers
    <3> QED BY <2>2, <2>3, <3>1 DEF Parsers
  <2>4. CASE kind = "experimental"
    <3>1. Defaults.experimental = [key \in DOMAIN ExperimentalParsers |-> Defaults.experimental[key]]
      BY DEF Defaults, ExperimentalParsers
    <3> QED BY <2>2, <2>4, <3>1 DEF Parsers
  <2>5. CASE kind = "research"
    <3>1. Defaults.research = [key \in DOMAIN ResearchParsers |-> Defaults.research[key]]
      BY DEF Defaults, ResearchParsers
    <3> QED BY <2>2, <2>5, <3>1 DEF Parsers
  <2> QED BY <2>3, <2>4, <2>5 DEF PlainKinds
<1>6. ValuesAsWritten
  <2>1. Defaults = [part \in PlainKinds \cup {"stations"} |-> Defaults[part]]
    BY DEF Defaults, PlainKinds
  <2>2. Defaults["stations"] = [k \in {} |-> None]
    BY DEF Defaults
  <2>3. [k \in Named |-> WrittenStation(k)] = [k \in {} |-> None]
    BY <1>4
  <2> QED BY <1>1, <1>5, <2>1, <2>2, <2>3 DEF ValuesAsWritten
<1>7. ErrorsAsWritten
  BY <1>1, <1>4 DEF ErrorsAsWritten
<1> QED BY <1>3, <1>6, <1>7 DEF LoadInv

\* What every line does to the reader.
LEMMA LineRead ==
  ASSUME LoadInv, NEW line \in Lines, NextLine(line), at' = at,
         section' = IF line.type = "section" THEN line.title ELSE section,
         errors' = IF \/ line.type = "malformed"
                      \/ line.type = "pair" /\ PairFails(section, line.key, line.text)
                   THEN errors \cup {<<"line", Lineno>>} ELSE errors
  PROVE  /\ ReaderInv' /\ ErrorsAsWritten'
         /\ file \in Seq(Lines) /\ file' = Append(file, line)
         /\ section \in Titles /\ section = TitleAt(Len(file))
<1>1. /\ file \in Seq(Lines) /\ file' = Append(file, line) /\ at = "reading"
      /\ section \in Titles /\ section = TitleAt(Len(file))
  BY DEF LoadInv, ReaderInv, NextLine
<1>2. PICK n \in Nat : n = Len(file) + 1
  BY <1>1
<1>3. file' \in Seq(Lines) /\ Len(file') = n
  BY <1>1, <1>2
<1>4. TitleAt(n)' = section'
  <2>1. TitleAt(n)' = IF line.type = "section" THEN line.title ELSE TitleAt(n - 1)
    BY <1>1, <1>2, TitleGrows
  <2>2. TitleAt(n - 1) = section
    BY <1>1, <1>2
  <2> QED BY <2>1, <2>2
<1>5. section' = TitleAt(Len(file))'
  BY <1>3, <1>4 DEF TitleAt
<1>6. ReaderInv'
  <2>1. section' \in Titles
    BY <1>1, ConfigurationAssumption
  <2> QED BY <1>1, <1>3, <1>5, <2>1 DEF ReaderInv
<1>7. ErrorsAsWritten'
  <2> DEFINE bad == \/ line.type = "malformed"
                    \/ line.type = "pair" /\ PairFails(section, line.key, line.text)
  <2>1. BadLines' = IF bad THEN BadLines \cup {Len(file) + 1} ELSE BadLines
    BY <1>1, BadGrows
  <2>2. errors' = IF bad THEN errors \cup {<<"line", Len(file) + 1>>} ELSE errors
    BY DEF Lineno
  <2>3. errors = {<<"line", i>> : i \in BadLines}
    BY <1>1 DEF LoadInv, ErrorsAsWritten
  <2>4. at' = "reading"
    BY <1>1
  <2> HIDE DEF bad
  <2>5. errors' = {<<"line", i>> : i \in BadLines'}
    BY <2>1, <2>2, <2>3
  <2> QED BY <2>4, <2>5 DEF ErrorsAsWritten
<1> QED BY <1>1, <1>6, <1>7

\* A line that is no pair gives no value.
LEMMA NoPair ==
  ASSUME LoadInv, NEW line \in Lines, line.type # "pair", file' = Append(file, line), value' = value
  PROVE  ValuesAsWritten'
<1>1. file \in Seq(Lines) /\ TitleAt(Len(file)) \in Titles
  BY DEF LoadInv, ReaderInv
<1>2. \A kind \in PlainKinds : Written(kind)' = Written(kind)
  BY <1>1, WrittenGrows
<1>3. \A k : WrittenStation(k)' = WrittenStation(k)
  BY <1>1, StationGrows
<1>4. Named' = Named
  BY <1>1, NamedGrows
<1> QED BY <1>2, <1>3, <1>4 DEF LoadInv, ValuesAsWritten

LEMMA Sections ==
  ASSUME LoadInv, NEW line \in Lines, ReadSection(line) \/ ReadMalformed(line)
  PROVE  LoadInv'
<1>1. /\ NextLine(line) /\ at' = at /\ value' = value /\ line.type # "pair"
      /\ section' = IF line.type = "section" THEN line.title ELSE section
      /\ errors' = IF line.type = "malformed" THEN errors \cup {<<"line", Lineno>>} ELSE errors
  BY DEF ReadSection, ReadMalformed
<1>2. ReaderInv' /\ ErrorsAsWritten' /\ file' = Append(file, line)
  BY <1>1, LineRead
<1>3. ValuesAsWritten'
  BY <1>1, <1>2, NoPair
<1> QED BY <1>2, <1>3 DEF LoadInv

\* The keys of a station, the first one included.
LEMMA StationPair ==
  ASSUME LoadInv, NEW line \in Lines, line.type = "pair", file' = Append(file, line),
         section.kind = "station",
         value' = AssignStation(section.station, line.key, line.text)
  PROVE  ValuesAsWritten'
<1> DEFINE st == section.station
<1>1. file \in Seq(Lines) /\ section = TitleAt(Len(file)) /\ section \in Titles
  BY DEF LoadInv, ReaderInv
<1>2. st \in Stations /\ section = OfStation(st) /\ \A k : section = OfStation(k) <=> k = st
  BY <1>1 DEF Titles, OfStation
<1>3. /\ DOMAIN value.stations = Named
      /\ \A k \in Named : value.stations[k] = WrittenStation(k)
      /\ value = [part \in PlainKinds \cup {"stations"} |-> value[part]]
      /\ \A kind \in PlainKinds : value[kind] = Written(kind)
  <2>1. value.stations = [k \in Named |-> WrittenStation(k)]
    BY DEF LoadInv, ValuesAsWritten
  <2>2. "stations" \notin PlainKinds
    BY DEF PlainKinds
  <2> QED BY <2>1, <2>2 DEF LoadInv, ValuesAsWritten
<1>4. \A kind \in PlainKinds : Written(kind)' = Written(kind)
  <2>1. \A kind \in PlainKinds : section # Plain(kind)
    BY DEF Plain, PlainKinds
  <2> QED BY <1>1, <2>1, WrittenGrows
<1>5. Named' = Named \cup {st}
  BY <1>1, NamedGrows
<1>6. \A k : k # st => WrittenStation(k)' = WrittenStation(k)
  BY <1>1, <1>2, StationGrows
<1> DEFINE before == IF st \in DOMAIN value.stations THEN value.stations[st] ELSE DefaultStation
           parsed == IF line.key \in DOMAIN StationParsers
                     THEN Parse(StationParsers[line.key], line.text) ELSE None
           after == IF parsed = None THEN before ELSE [before EXCEPT ![line.key] = parsed]
           stations == [k \in DOMAIN value.stations \cup {st} |->
                          IF k = st THEN after ELSE value.stations[k]]
<1>7. before = WrittenStation(st)
  BY <1>2, <1>3, UnnamedDefault
<1>8. PICK k \in Stations : k = st
  BY <1>2
<1>9. WrittenStation(k)' = after
  <2>1. WrittenStation(k)' =
          IF line.key \in DOMAIN StationParsers /\ Parse(StationParsers[line.key], line.text) # None
          THEN [WrittenStation(k) EXCEPT ![line.key] = Parse(StationParsers[line.key], line.text)]
          ELSE WrittenStation(k)
    BY <1>1, <1>2, <1>8, StationGrows
  <2> HIDE DEF before
  <2> QED BY <1>7, <1>8, <2>1
<1>10. value' = [value EXCEPT !.stations = stations]
  BY DEF AssignStation
<1> HIDE DEF before, after, st
<1>11. stations = [j \in Named' |-> WrittenStation(j)']
  BY <1>3, <1>5, <1>6, <1>8, <1>9
<1> HIDE DEF stations
<1>12. value' = [part \in PlainKinds \cup {"stations"} |->
                   IF part = "stations" THEN [j \in Named' |-> WrittenStation(j)']
                   ELSE Written(part)']
  <2>1. value' = [part \in PlainKinds \cup {"stations"} |->
                    IF part = "stations" THEN stations ELSE value[part]]
    BY <1>3, <1>10
  <2>2. ASSUME NEW part \in PlainKinds \cup {"stations"}, part # "stations"
        PROVE  value[part] = Written(part)'
    BY <1>3, <1>4, <2>2
  <2> QED BY <1>11, <2>1, <2>2
<1> QED BY <1>12 DEF ValuesAsWritten

\* A key of the settings; an unknown one changes nothing.
LEMMA SettingPair ==
  ASSUME LoadInv, NEW line \in Lines, line.type = "pair", file' = Append(file, line),
         NEW kind \in PlainKinds, section.kind = kind,
         value' = IF line.key \in DOMAIN Parsers(kind) THEN Assign(kind, line.key, line.text)
                  ELSE value
  PROVE  ValuesAsWritten'
<1>1. file \in Seq(Lines) /\ section = TitleAt(Len(file)) /\ section \in Titles
  BY DEF LoadInv, ReaderInv
<1>2. section = Plain(kind) /\ \A other \in PlainKinds : section = Plain(other) <=> other = kind
  BY <1>1 DEF Titles, Plain, PlainKinds
<1>3. /\ value = [part \in PlainKinds \cup {"stations"} |-> value[part]]
      /\ \A other \in PlainKinds : value[other] = Written(other)
      /\ value["stations"] = [k \in Named |-> WrittenStation(k)]
  <2>1. "stations" \notin PlainKinds
    BY DEF PlainKinds
  <2> QED BY <2>1 DEF LoadInv, ValuesAsWritten
<1>4. Named' = Named
  BY <1>1, NamedGrows DEF PlainKinds
<1>5. \A k : WrittenStation(k)' = WrittenStation(k)
  <2>1. \A k : section # OfStation(k)
    BY DEF OfStation, PlainKinds
  <2> QED BY <1>1, <2>1, StationGrows
<1>6. \A other \in PlainKinds : other # kind => Written(other)' = Written(other)
  BY <1>1, <1>2, WrittenGrows
<1> DEFINE parsed == Parse(Parsers(kind)[line.key], line.text)
           known == line.key \in DOMAIN Parsers(kind)
<1>7. Written(kind)' = IF known /\ parsed # None THEN [Written(kind) EXCEPT ![line.key] = parsed]
                       ELSE Written(kind)
  BY <1>1, <1>2, WrittenGrows
<1>8. value' = IF known /\ parsed # None THEN [value EXCEPT ![kind][line.key] = parsed] ELSE value
  BY DEF Assign
<1> HIDE DEF parsed, known
<1>9. value' = [part \in PlainKinds \cup {"stations"} |->
                  IF part = kind THEN Written(kind)' ELSE value[part]]
  <2>1. CASE known /\ parsed # None
    <3>1. value' = [value EXCEPT ![kind] = [value[kind] EXCEPT ![line.key] = parsed]]
      BY <1>8, <2>1
    <3> QED BY <1>3, <1>7, <2>1, <3>1
  <2>2. CASE ~(known /\ parsed # None)
    <3>1. value' = value /\ value[kind] = Written(kind)'
      BY <1>3, <1>7, <1>8, <2>2
    <3> QED BY <1>3, <3>1
  <2> QED BY <2>1, <2>2
<1>10. "stations" # kind
  BY DEF PlainKinds
<1>11. ASSUME NEW part \in PlainKinds \cup {"stations"}
       PROVE  (IF part = kind THEN Written(kind)' ELSE value[part]) =
              (IF part = "stations" THEN [k \in Named' |-> WrittenStation(k)'] ELSE Written(part)')
  BY <1>3, <1>4, <1>5, <1>6, <1>10
<1>12. value' = [part \in PlainKinds \cup {"stations"} |->
                  IF part = "stations" THEN [k \in Named' |-> WrittenStation(k)'] ELSE Written(part)']
  BY <1>9, <1>11
<1> QED BY <1>12 DEF ValuesAsWritten

LEMMA Pairs ==
  ASSUME LoadInv, NEW line \in Lines, ReadPair(line)
  PROVE  LoadInv'
<1>1. /\ NextLine(line) /\ line.type = "pair" /\ at' = at /\ section' = section
      /\ errors' = IF PairFails(section, line.key, line.text)
                   THEN errors \cup {<<"line", Lineno>>} ELSE errors
  BY DEF ReadPair
<1>2. /\ ReaderInv' /\ ErrorsAsWritten' /\ file' = Append(file, line)
      /\ file \in Seq(Lines) /\ section \in Titles /\ section = TitleAt(Len(file))
  BY <1>1, LineRead
<1>3. CASE section.kind = "station"
  <2>1. value' = AssignStation(section.station, line.key, line.text)
    BY <1>3 DEF ReadPair
  <2>2. ValuesAsWritten'
    BY <1>1, <1>2, <1>3, <2>1, StationPair
  <2> QED BY <1>2, <2>2 DEF LoadInv
<1>4. CASE section.kind \in PlainKinds
  <2>1. PICK kind \in PlainKinds : kind = section.kind
    BY <1>4
  <2>2. value' = IF line.key \in DOMAIN Parsers(kind) THEN Assign(kind, line.key, line.text)
                 ELSE value
    BY <2>1 DEF ReadPair, PlainKinds
  <2>3. ValuesAsWritten'
    BY <1>1, <1>2, <2>1, <2>2, SettingPair
  <2> QED BY <1>2, <2>3 DEF LoadInv
<1>5. CASE section.kind \notin PlainKinds \cup {"station"}
  <2>1. value' = value
    BY <1>5 DEF ReadPair, PlainKinds
  <2>2. \A kind \in PlainKinds : section # Plain(kind)
    BY <1>5 DEF Plain
  <2>3. \A k : section # OfStation(k)
    BY <1>5 DEF OfStation
  <2>4. \A kind \in PlainKinds : Written(kind)' = Written(kind)
    BY <1>2, <2>2, WrittenGrows
  <2>5. \A k : WrittenStation(k)' = WrittenStation(k)
    BY <1>2, <2>3, StationGrows
  <2>6. Named' = Named
    BY <1>2, <1>5, NamedGrows
  <2>7. ValuesAsWritten'
    BY <2>1, <2>4, <2>5, <2>6 DEF LoadInv, ValuesAsWritten
  <2> QED BY <1>2, <2>7 DEF LoadInv
<1> QED BY <1>3, <1>4, <1>5

LEMMA LoadNext == LoadInv /\ [Next]_vars => LoadInv'
<1> SUFFICES ASSUME LoadInv, [Next]_vars PROVE LoadInv'
  OBVIOUS
<1>1. CASE UNCHANGED <<file, section, value>> /\ (EndOfFile \/ FileMissing \/ UNCHANGED vars)
  <2>1. /\ UNCHANGED <<Named, BadLines>> /\ \A kind : Written(kind)' = Written(kind)
        /\ \A k : WrittenStation(k)' = WrittenStation(k)
        /\ TitleAt(Len(file))' = TitleAt(Len(file))
    BY <1>1 DEF Named, BadLines, Written, WrittenStation, Meaning, ValidAssignments, TitleAt
  <2>2. ValuesAsWritten'
    BY <1>1, <2>1 DEF LoadInv, ValuesAsWritten
  <2>3. ReaderInv'
    BY <1>1, <2>1 DEF LoadInv, ReaderInv, EndOfFile, FileMissing, vars
  <2>4. ErrorsAsWritten'
    <3>1. CASE EndOfFile
      BY <1>1, <2>1, <3>1 DEF LoadInv, ErrorsAsWritten, EndOfFile
    <3>2. CASE FileMissing
      BY <3>2 DEF ErrorsAsWritten, FileMissing
    <3>3. CASE UNCHANGED vars
      BY <1>1, <2>1, <3>3 DEF LoadInv, ErrorsAsWritten, vars
    <3> QED BY <1>1, <3>1, <3>2, <3>3
  <2> QED BY <2>2, <2>3, <2>4 DEF LoadInv
<1>2. CASE \E line \in Lines : ReadSection(line) \/ ReadMalformed(line) \/ ReadPair(line)
  BY <1>2, Sections, Pairs
<1> QED BY <1>1, <1>2 DEF Next, EndOfFile, FileMissing, vars

\* However the lines are ordered, repeated and mixed with bad ones, the result of a load
\* is what they say one by one: each key has the value of its last valid line in its
\* sections, and the errors are the bad lines and the conflicts (Configuration::load).
THEOREM LoadedAsWritten == Spec => [](ValuesAsWritten /\ ErrorsAsWritten)
<1>1. LoadInv => ValuesAsWritten /\ ErrorsAsWritten
  BY DEF LoadInv
<1> QED BY <1>1, LoadInit, LoadNext, PTL DEF Spec

-----------------------------------------------------------------------------
(* What is loaded has its type.                                            *)

\* What each parser yields.
Values(parser) ==
  CASE parser = "boolean" -> BOOLEAN
    [] parser = "forced" -> {TRUE}
    [] parser \in {"unsigned", "positive"} -> Nat
    [] parser = "frames" -> 1 .. 600
    [] parser = "byte" -> RawRange
    [] parser = "identity" -> Identities
    [] parser = "url" -> {"empty", "invalid", "http", "https"}

AllParsers ==
  {"boolean", "forced", "unsigned", "positive", "frames", "byte", "identity", "url"}

LEMMA ParseTyped ==
  ASSUME NEW text \in Texts, NEW parser \in AllParsers, Parse(parser, text) # None
  PROVE  Parse(parser, text) \in Values(parser)
<1>1. /\ text.boolean \in BOOLEAN \cup {None} /\ text.number \in Nat \cup {None}
      /\ text.identity \in Identities \cup {None}
      /\ text.url \in {"empty", "invalid", "http", "https"}
  BY DEF Texts
<1>2. parser = "boolean" => Parse(parser, text) = text.boolean
  BY DEF Parse
<1>3. parser = "forced" => Parse(parser, text) = IF text.boolean = None THEN None ELSE TRUE
  BY DEF Parse
<1>4. parser = "unsigned" => Parse(parser, text) = text.number
  BY DEF Parse
<1>5. parser = "positive" => Parse(parser, text) = IF text.number = 0 THEN None ELSE text.number
  BY DEF Parse
<1>6. parser = "frames" =>
        Parse(parser, text) = IF text.number \in 1 .. 600 THEN text.number ELSE None
  BY DEF Parse
<1>7. parser = "byte" =>
        Parse(parser, text) = IF text.number \in RawRange THEN text.number ELSE None
  BY DEF Parse
<1>8. parser = "identity" => Parse(parser, text) = text.identity
  BY DEF Parse
<1>9. parser = "url" => Parse(parser, text) = text.url
  BY DEF Parse
<1>10. CASE parser = "boolean"
  BY <1>1, <1>2, <1>10 DEF Values
<1>11. CASE parser = "forced"
  BY <1>3, <1>11 DEF Values
<1>12. CASE parser \in {"unsigned", "positive"}
  BY <1>1, <1>4, <1>5, <1>12 DEF Values
<1>13. CASE parser = "frames"
  <2>1. Values(parser) = 1 .. 600
    BY <1>13 DEF Values
  <2>2. text.number \in 1 .. 600 /\ Parse(parser, text) = text.number
    BY <1>6, <1>13
  <2> QED BY <2>1, <2>2
<1>14. CASE parser = "byte"
  <2>1. Values(parser) = RawRange
    BY <1>14 DEF Values
  <2>2. text.number \in RawRange /\ Parse(parser, text) = text.number
    BY <1>7, <1>14
  <2> QED BY <2>1, <2>2
<1>15. CASE parser = "identity"
  <2>1. Values(parser) = Identities
    BY <1>15 DEF Values
  <2> QED BY <1>1, <1>8, <1>15, <2>1
<1>16. CASE parser = "url"
  <2>1. Values(parser) = {"empty", "invalid", "http", "https"}
    BY <1>16 DEF Values
  <2> QED BY <1>1, <1>9, <1>16, <2>1
<1> QED BY <1>10, <1>11, <1>12, <1>13, <1>14, <1>15, <1>16 DEF AllParsers

\* A meaning is the default or what a line gives.
LEMMA MeaningFrom ==
  ASSUME file \in Seq(Lines), NEW title, NEW key, NEW default,
         Parsers(title.kind)[key] \in AllParsers
  PROVE  \/ Meaning(title, key, default) = default
         \/ Meaning(title, key, default) \in Values(Parsers(title.kind)[key])
<1> DEFINE valid == ValidAssignments(title, key)
           last == CHOOSE i \in valid : \A other \in valid : other <= i
<1>1. valid \in SUBSET (1 .. Len(file)) /\ Len(file) \in Nat
  BY DEF ValidAssignments
<1>2. CASE valid = {}
  BY <1>2 DEF Meaning
<1>3. CASE valid # {}
  <2>1. Meaning(title, key, default) = Parse(Parsers(title.kind)[key], file[last].text)
    BY <1>3 DEF Meaning
  <2>2. last \in valid
    <3> HIDE DEF valid
    <3> QED BY <1>1, <1>3, LastPlace
  <2>3. /\ last \in DOMAIN file /\ file[last].type = "pair" /\ file[last].key = key
        /\ Parse(Parsers(title.kind)[key], file[last].text) # None
    <3> HIDE DEF last
    <3> QED BY <2>2 DEF ValidAssignments
  <2>4. file[last] \in Lines
    BY <2>3
  <2>5. file[last].text \in Texts
    BY <2>3, <2>4, ConfigurationAssumption
  <2> HIDE DEF last
  <2> QED BY <2>1, <2>3, <2>5, ParseTyped
<1> QED BY <1>2, <1>3

\* For each setting, its default's type and its parser's are one.
LEMMA LoadTyped == LoadInv => TypeOK
<1> SUFFICES ASSUME LoadInv PROVE TypeOK
  OBVIOUS
<1>1. /\ at \in {"reading", "loaded", "missing"} /\ file \in Seq(Lines) /\ section \in Titles
  BY DEF LoadInv, ReaderInv
<1>2. /\ value.general = Written("general") /\ value.experimental = Written("experimental")
      /\ value.research = Written("research")
      /\ value.stations = [k \in Named |-> WrittenStation(k)]
  BY DEF LoadInv, ValuesAsWritten, PlainKinds
<1>3. ASSUME NEW kind \in PlainKinds, NEW key \in DOMAIN Parsers(kind), Parsers(kind)[key] \in AllParsers
      PROVE  \/ Written(kind)[key] = Defaults[kind][key]
             \/ Written(kind)[key] \in Values(Parsers(kind)[key])
  <2>1. Plain(kind).kind = kind /\ Written(kind)[key] = Meaning(Plain(kind), key, Defaults[kind][key])
    BY DEF Plain, Written
  <2> QED BY <1>1, <1>3, <2>1, MeaningFrom
<1>4. ASSUME NEW k \in DOMAIN GeneralParsers
      PROVE  value.general[k] \in IF GeneralParsers[k] = "boolean" THEN BOOLEAN ELSE Nat
  <2> DEFINE switches == {"enabled", "reconnect", "resolveRemotePlaylists"}
             default == Defaults.general[k]
  <2>1. GeneralParsers[k] \in IF k \in switches THEN {"boolean"} ELSE {"unsigned", "positive"}
    BY DEF GeneralParsers
  <2>2. value.general[k] = default \/ value.general[k] \in Values(GeneralParsers[k])
    <3>1. Parsers("general") = GeneralParsers /\ GeneralParsers[k] \in AllParsers
      BY <2>1 DEF Parsers, AllParsers
    <3> QED BY <1>2, <1>3, <3>1 DEF PlainKinds
  <2>3. CASE k \in switches
    <3>1. /\ Defaults.general["enabled"] = TRUE /\ Defaults.general["reconnect"] = TRUE
          /\ Defaults.general["resolveRemotePlaylists"] = TRUE
      BY DEF Defaults
    <3>2. default = TRUE
      BY <2>3, <3>1
    <3>3. GeneralParsers[k] = "boolean" /\ Values(GeneralParsers[k]) = BOOLEAN
      BY <2>1, <2>3 DEF Values
    <3> HIDE DEF default
    <3> QED BY <2>2, <3>2, <3>3
  <2>4. CASE k \notin switches
    <3>1. default \in Nat
      BY <2>4 DEF Defaults, GeneralParsers
    <3>2. GeneralParsers[k] # "boolean" /\ Values(GeneralParsers[k]) = Nat
      BY <2>1, <2>4 DEF Values
    <3> HIDE DEF default
    <3> QED BY <2>2, <3>1, <3>2
  <2> QED BY <2>3, <2>4
<1>5. ASSUME NEW k \in DOMAIN ExperimentalParsers
      PROVE  value.experimental[k] \in BOOLEAN
             /\ (k = "radioControllerDryRun" => value.experimental[k] = TRUE)
  <2> DEFINE on == {"observerDryRun", "logStateTransitions", "radioControllerDryRun",
                    "logRadioDecisions"}
             off == {"enableGameObserver", "enableRadioController",
                     "enableGameplayAudioExecutor", "muteOriginalRadioDuringGameplayAudio"}
             default(key) == Defaults.experimental[key]
  <2>1. ExperimentalParsers[k] = IF k = "radioControllerDryRun" THEN "forced" ELSE "boolean"
    BY DEF ExperimentalParsers
  <2>2. default(k) \in BOOLEAN /\ (k = "radioControllerDryRun" => default(k) = TRUE)
    <3>1. \A key \in on : default(key) = TRUE
      BY DEF Defaults
    <3>2. \A key \in off : default(key) = FALSE
      BY DEF Defaults
    <3>3. k \in on \cup off /\ (k = "radioControllerDryRun" => k \in on)
      BY DEF ExperimentalParsers
    <3> HIDE DEF on, off, default
    <3> QED BY <3>1, <3>2, <3>3
  <2>3. value.experimental[k] = default(k) \/ value.experimental[k] \in Values(ExperimentalParsers[k])
    <3>1. Parsers("experimental") = ExperimentalParsers /\ ExperimentalParsers[k] \in AllParsers
      BY <2>1 DEF Parsers, AllParsers
    <3> QED BY <1>2, <1>3, <3>1 DEF PlainKinds
  <2>4. Values(ExperimentalParsers[k]) = IF k = "radioControllerDryRun" THEN {TRUE} ELSE BOOLEAN
    BY <2>1 DEF Values
  <2> HIDE DEF default
  <2>5. CASE k = "radioControllerDryRun"
    <3>1. default(k) = TRUE /\ Values(ExperimentalParsers[k]) = {TRUE}
      BY <2>2, <2>4, <2>5
    <3>2. value.experimental[k] = TRUE
      BY <2>3, <3>1
    <3> QED BY <3>2
  <2>6. CASE k # "radioControllerDryRun"
    <3>1. Values(ExperimentalParsers[k]) = BOOLEAN
      BY <2>4, <2>6
    <3>2. value.experimental[k] \in BOOLEAN
      BY <2>2, <2>3, <3>1
    <3> QED BY <2>6, <3>2
  <2> QED BY <2>5, <2>6
<1>6. value.research.radioStationMinimumStableFrames \in 1 .. 600
  <2> DEFINE key == "radioStationMinimumStableFrames"
  <2>1. key \in DOMAIN ResearchParsers /\ ResearchParsers[key] = "frames"
    BY DEF ResearchParsers
  <2>2. Defaults.research[key] \in 1 .. 600
    BY DEF Defaults
  <2>3. value.research[key] = Defaults.research[key] \/ value.research[key] \in Values("frames")
    BY <1>2, <1>3, <2>1 DEF PlainKinds, Parsers, AllParsers
  <2>4. value.research[key] \in 1 .. 600
    BY <2>2, <2>3 DEF Values
  <2> QED BY <2>4
<1>7. ASSUME NEW k \in DOMAIN value.stations
      PROVE  /\ value.stations[k] \in StationConfiguration
             /\ value.stations[k].raw \in RawRange \cup {None}
  <2> DEFINE entry == value.stations[k]
  <2>1. entry = WrittenStation(k)
    BY <1>2
  <2>2. ASSUME NEW key \in DOMAIN StationParsers
        PROVE  entry[key] = DefaultStation[key] \/ entry[key] \in Values(StationParsers[key])
    <3>1. /\ Parsers(OfStation(k).kind) = StationParsers
          /\ entry[key] = Meaning(OfStation(k), key, DefaultStation[key])
      BY <2>1 DEF OfStation, Parsers, WrittenStation
    <3>2. StationParsers[key] \in AllParsers
      BY DEF StationParsers, AllParsers
    <3> QED BY <1>1, <3>1, <3>2, MeaningFrom
  <2>3. entry = [enabled |-> entry["enabled"], url |-> entry["url"],
                 allowHttp |-> entry["allowHttp"], raw |-> entry["raw"],
                 identity |-> entry["identity"]]
    BY <2>1 DEF WrittenStation, StationParsers
  <2> HIDE DEF entry
  <2>4. /\ DOMAIN StationParsers = {"enabled", "url", "allowHttp", "raw", "identity"}
        /\ StationParsers["enabled"] = "boolean" /\ StationParsers["url"] = "url"
        /\ StationParsers["allowHttp"] = "boolean" /\ StationParsers["raw"] = "byte"
        /\ StationParsers["identity"] = "identity"
    BY DEF StationParsers
  <2>5. entry["enabled"] \in BOOLEAN /\ entry["allowHttp"] \in BOOLEAN
    <3>1. Values("boolean") = BOOLEAN
      BY DEF Values
    <3>2. DefaultStation["enabled"] = FALSE /\ DefaultStation["allowHttp"] = FALSE
      BY DEF DefaultStation
    <3>3. entry["enabled"] = DefaultStation["enabled"] \/ entry["enabled"] \in BOOLEAN
      BY <2>2, <2>4, <3>1
    <3>4. entry["allowHttp"] = DefaultStation["allowHttp"] \/ entry["allowHttp"] \in BOOLEAN
      BY <2>2, <2>4, <3>1
    <3> QED BY <3>2, <3>3, <3>4
  <2>6. entry["url"] \in {"empty", "invalid", "http", "https"}
    BY <2>2, <2>4 DEF DefaultStation, Values
  <2>7. entry["raw"] \in RawRange \cup {None}
    BY <2>2, <2>4 DEF DefaultStation, Values
  <2>8. entry["identity"] \in Identities \cup {None}
    BY <2>2, <2>4 DEF DefaultStation, Values
  <2>9. entry["raw"] \in Int \cup {None} /\ entry.raw = entry["raw"]
    BY <2>7 DEF RawRange
  <2>10. entry \in StationConfiguration
    BY <2>3, <2>5, <2>6, <2>8, <2>9 DEF StationConfiguration
  <2> QED BY <2>7, <2>9, <2>10 DEF entry
<1>8. value.experimental.radioControllerDryRun
  <2>1. "radioControllerDryRun" \in DOMAIN ExperimentalParsers
    BY DEF ExperimentalParsers
  <2> QED BY <1>5, <2>1
<1> QED BY <1>1, <1>4, <1>5, <1>6, <1>7, <1>8 DEF TypeOK

\* Whatever a file says, what is loaded is a configuration: the numbers are in their
\* ranges and the radio controller is never taken out of its dry run.
THEOREM TypeCorrect == Spec => []TypeOK
<1> QED BY LoadInit, LoadNext, LoadTyped, PTL DEF Spec

-----------------------------------------------------------------------------
(* Which station plays, and whether one does.                              *)

\* A choice that has a station is an enabled one with the binding that was asked for.
Chosen(stations, raw, choice) ==
  choice.station # None =>
    /\ choice.station \in DOMAIN stations
    /\ stations[choice.station].enabled /\ stations[choice.station].url # "empty"
    /\ \/ choice.kind = "raw" /\ raw \in RawRange /\ stations[choice.station].raw = raw
       \/ /\ choice.kind = "identity" /\ choice.identity \in Identities
          /\ stations[choice.station].identity = choice.identity

LEMMA Preferred ==
  ASSUME NEW stations, DOMAIN stations \subseteq Stations,
         NEW candidates \in SUBSET (DOMAIN stations)
  PROVE  PreferEnabled(stations, candidates) \in candidates \cup {None}
<1> DEFINE enabled == {k \in candidates : stations[k].enabled}
<1>1. enabled # {} => First(enabled) \in enabled
  BY FirstMember
<1>2. candidates # {} => First(candidates) \in candidates
  BY FirstMember
<1> QED BY <1>1, <1>2 DEF PreferEnabled

LEMMA Selected ==
  ASSUME NEW stations, DOMAIN stations \subseteq Stations, NEW raw
  PROVE  LET choice == SelectStation([stations |-> stations, profileMap |-> ProfileMap], raw)
         IN  Chosen(stations, raw, choice) /\ (choice.reason = "ready" => choice.station # None)
<1> DEFINE configuration == [stations |-> stations, profileMap |-> ProfileMap]
           choice == SelectStation(configuration, raw)
           rawStation == FindRawStationBinding(stations, raw)
           resolution == Resolve(ProfileMap, raw)
           Good(c) == Chosen(stations, raw, c) /\ (c.reason = "ready" => c.station # None)
<1>1. \A reason, kind, identity :
        reason # "ready" => Good(Unusable(reason, kind, identity))
  BY DEF Unusable, Chosen
<1>2. None \notin Stations
  <2>1. Stations \subseteq Int
    BY RadioDecisionAssumption
  <2> QED BY <2>1, RadioDecisionAssumption
<1>3. ASSUME NEW station \in DOMAIN stations, NEW kind, NEW identity,
             \/ kind = "raw" /\ raw \in RawRange /\ stations[station].raw = raw
             \/ kind = "identity" /\ identity \in Identities /\ stations[station].identity = identity
      PROVE  Good(UsableBinding(stations, station, kind, identity))
  <2>1. CASE ~stations[station].enabled
    BY <1>1, <2>1 DEF UsableBinding
  <2>2. CASE stations[station].enabled /\ stations[station].url = "empty"
    BY <1>1, <2>2 DEF UsableBinding
  <2>3. CASE stations[station].enabled /\ stations[station].url # "empty"
    <3>1. UsableBinding(stations, station, kind, identity) =
            [reason |-> "ready", kind |-> kind, identity |-> identity, station |-> station]
      BY <2>3 DEF UsableBinding
    <3> QED BY <1>2, <1>3, <2>3, <3>1 DEF Chosen
  <2> QED BY <2>1, <2>2, <2>3
<1>4. rawStation # None => rawStation \in DOMAIN stations /\ stations[rawStation].raw = raw
  <2> DEFINE candidates == {k \in DOMAIN stations : stations[k].raw = raw}
  <2>1. PreferEnabled(stations, candidates) \in candidates \cup {None}
    BY Preferred
  <2> QED BY <2>1 DEF FindRawStationBinding
<1>5. ASSUME NEW identity \in Identities PROVE Good(IdentityBinding(configuration, identity))
  <2> DEFINE candidates == {k \in DOMAIN stations : stations[k].identity = identity}
             station == FindIdentityStationBinding(stations, identity)
  <2>1. PreferEnabled(stations, candidates) \in candidates \cup {None}
    BY Preferred
  <2>2. station # None => station \in DOMAIN stations /\ stations[station].identity = identity
    BY <2>1 DEF FindIdentityStationBinding
  <2>3. IdentityBinding(configuration, identity) =
          IF station = None THEN Unusable("stationIdentityNotBound", "none", identity)
          ELSE UsableBinding(stations, station, "identity", identity)
    BY DEF IdentityBinding
  <2> HIDE DEF station, configuration, Good
  <2> QED BY <1>1, <1>3, <2>2, <2>3
<1>6. resolution.status \notin {"invalidRaw", "unsupportedProfile", "unknownRaw"} =>
        resolution.identity \in Identities
  BY ConfigurationAssumption DEF Resolve
<1>7. raw \in RawRange => resolution.status # "invalidRaw"
  BY DEF Resolve
<1>8. choice = IF raw \notin RawRange THEN Unusable("stationRawInvalid", "none", None)
               ELSE IF rawStation # None THEN UsableBinding(stations, rawStation, "raw", None)
               ELSE IF resolution.status = "unsupportedProfile"
                 THEN Unusable("stationProfileUnsupported", "none", None)
               ELSE IF resolution.status = "unknownRaw"
                 THEN Unusable("stationIdentityUnknown", "none", None)
               ELSE IdentityBinding(configuration, resolution.identity)
  BY DEF SelectStation
<1> HIDE DEF choice, rawStation, resolution, Good, configuration
<1>9. Good(choice)
  BY <1>1, <1>3, <1>4, <1>5, <1>6, <1>7, <1>8
<1> QED BY <1>9 DEF Good, choice, configuration

\* What a file that loads leaves out.
LEMMA SuccessMeans ==
  ASSUME LoadInv, Success
  PROVE  at = "loaded" /\ BadLines = {} /\ BindingConflicts(value.stations) = {}
<1>1. errors = {<<"line", i>> : i \in BadLines} \cup BindingConflicts(value.stations)
      /\ errors = {} /\ at = "loaded"
  BY DEF LoadInv, ErrorsAsWritten, Success
<1> QED BY <1>1

\* Two enabled stations never have the same binding.
LEMMA NoneShared ==
  ASSUME NEW stations, BindingConflicts(stations) = {},
         NEW j \in DOMAIN stations, NEW k \in DOMAIN stations, j # k,
         stations[j].enabled, stations[k].enabled
  PROVE  /\ stations[j].raw # None => stations[k].raw # stations[j].raw
         /\ stations[j].identity # None => stations[k].identity # stations[j].identity
<1> DEFINE enabled == {i \in DOMAIN stations : stations[i].enabled}
           raws == {i \in enabled : /\ stations[i].raw # None
                                    /\ \E other \in enabled \ {i} :
                                         stations[other].raw = stations[i].raw}
           identities == {i \in enabled : /\ stations[i].identity # None
                                          /\ \E other \in enabled \ {i} :
                                               stations[other].identity = stations[i].identity}
<1>1. {<<"raw", stations[i].raw>> : i \in raws} = {}
  BY DEF BindingConflicts
<1>2. {<<"identity", stations[i].identity>> : i \in identities} = {}
  BY DEF BindingConflicts
<1>3. raws = {} /\ identities = {}
  <2> HIDE DEF raws, identities
  <2> QED BY <1>1, <1>2
<1> QED BY <1>3

\* No snapshot's station depends on the order of the keys, for any file that loads: a
\* station that shares its binding with another enabled one is an error, whichever of
\* the two lines came first and whatever the lines between them changed.
THEOREM OrderIrrelevant == Spec => []OrderNeverDecides
<1>1. LoadInv => OrderNeverDecides
  <2> SUFFICES ASSUME LoadInv, Success, NEW raw \in Heard,
                      NEW choice,
                      choice = SelectStation([stations |-> value.stations, profileMap |-> ProfileMap],
                                             raw),
                      choice.station # None,
                      NEW k \in DOMAIN value.stations \ {choice.station},
                      value.stations[k].enabled
               PROVE  IF choice.kind = "raw" THEN value.stations[k].raw # raw
                      ELSE value.stations[k].identity # choice.identity
    BY DEF OrderNeverDecides
  <2>1. DOMAIN value.stations = Named /\ Named \subseteq Stations
    BY DEF LoadInv, ValuesAsWritten, PlainKinds, Named
  <2>2. Chosen(value.stations, raw, choice)
    BY <2>1, Selected
  <2>3. BindingConflicts(value.stations) = {}
    BY SuccessMeans
  <2>4. /\ value.stations[choice.station].raw # None =>
             value.stations[k].raw # value.stations[choice.station].raw
        /\ value.stations[choice.station].identity # None =>
             value.stations[k].identity # value.stations[choice.station].identity
    BY <2>2, <2>3, NoneShared DEF Chosen
  <2>5. raw \in RawRange => raw # None
    BY RadioDecisionAssumption DEF RawRange
  <2>6. choice.identity \in Identities => choice.identity # None
    BY RadioDecisionAssumption
  <2> QED BY <2>2, <2>4, <2>5, <2>6 DEF Chosen
<1> QED BY <1>1, LoadInit, LoadNext, PTL DEF Spec

\* A start is only planned where all the gates of the engine are open.
LEMMA StartIsAsked ==
  ASSUME NEW raw, Decision(raw).action = "wouldStart",
         LoadInv
  PROVE  /\ Success
         /\ value.general.enabled /\ value.experimental.enableRadioController
         /\ Decision(raw).selected \in DOMAIN value.stations
         /\ value.stations[Decision(raw).selected].enabled
         /\ value.stations[Decision(raw).selected].url # "empty"
<1> DEFINE runtime == RuntimeConfiguration
           configuration ==
             [enabled |-> runtime.general.enabled,
              controllerEnabled |-> runtime.experimental.enableRadioController,
              controllerDryRun |-> runtime.experimental.radioControllerDryRun,
              volumeMultiplier |-> runtime.general.volumeMultiplier,
              stations |-> runtime.stations, profileMap |-> ProfileMap]
           snapshot == Driving(raw)
           gate == GateReason(snapshot, configuration)
           choice == SelectStation(configuration, raw)
           plan == Decision(raw)
<1>1. plan = Evaluate(snapshot, configuration, InitialRadioState)
  BY DEF Decision
<1>2. snapshot.radioStationRaw = raw /\ snapshot.radioVolume = 100 /\ snapshot.sequence = 1
  BY DEF Driving
<1>3. InitialRadioState.last = 0 /\ ~InitialRadioState.active
  BY DEF InitialRadioState
<1> HIDE DEF configuration, snapshot
<1>4. ~OutOfOrder(snapshot.sequence, InitialRadioState)
  BY <1>3 DEF OutOfOrder
<1>5. \A reason, binding :
        InactivePlan(snapshot, InitialRadioState, reason, binding).action = "none"
  BY <1>3 DEF InactivePlan
<1>6. gate = "ready" /\ choice.reason = "ready"
      /\ plan = ActivePlan(snapshot, configuration, InitialRadioState, choice)
  <2> HIDE DEF gate
  <2>1. plan = IF gate # "ready" THEN InactivePlan(snapshot, InitialRadioState, gate, Unbound)
               ELSE IF choice.reason # "ready"
                 THEN InactivePlan(snapshot, InitialRadioState, choice.reason,
                        [kind |-> choice.kind, raw |-> raw, identity |-> choice.identity, key |-> None])
               ELSE IF snapshot.radioVolume = None
                 THEN InactivePlan(snapshot, InitialRadioState, "volumeUnavailable",
                        [kind |-> choice.kind, raw |-> raw, identity |-> choice.identity, key |-> None])
               ELSE ActivePlan(snapshot, configuration, InitialRadioState, choice)
    BY <1>1, <1>2, <1>4 DEF Evaluate, gate
  <2> HIDE DEF plan, choice
  <2>2. plan.action # "none"
    BY DEF plan
  <2> QED BY <1>5, <2>1, <2>2
<1>7. plan.selected = choice.station
  BY <1>6 DEF ActivePlan
<1>8. configuration.enabled /\ configuration.controllerEnabled
  BY <1>6 DEF GateReason
<1>9. runtime.general.enabled /\ runtime.experimental.enableRadioController
  BY <1>8 DEF configuration
<1>10. Success /\ runtime = value
  <2>1. ~Defaults.experimental.enableRadioController
    BY DEF Defaults
  <2> QED BY <1>9, <2>1 DEF RuntimeConfiguration
<1>11. choice = SelectStation([stations |-> value.stations, profileMap |-> ProfileMap], raw)
  <2>1. configuration.stations = value.stations /\ configuration.profileMap = ProfileMap
    BY <1>10 DEF configuration
  <2> QED BY <2>1 DEF SelectStation, IdentityBinding
<1>12. DOMAIN value.stations \subseteq Stations
  BY DEF LoadInv, ValuesAsWritten, PlainKinds, Named
<1>13. Chosen(value.stations, raw, choice) /\ choice.station # None
  <2> HIDE DEF choice
  <2> QED BY <1>6, <1>11, <1>12, Selected
<1> HIDE DEF choice, plan
<1>14. /\ plan.selected \in DOMAIN value.stations /\ value.stations[plan.selected].enabled
       /\ value.stations[plan.selected].url # "empty"
  BY <1>7, <1>13 DEF Chosen
<1> QED BY <1>9, <1>10, <1>14 DEF plan

\* Nothing starts without being asked for: for any file, also one cut short, mixed up or
\* with a single bad line anywhere, a plan to start means that the file is good and that
\* its last word on each of the four switches is yes (Configuration::load and Main).
THEOREM OptInNeeded == Spec => []StartNeedsOptIn
<1>1. LoadInv => StartNeedsOptIn
  <2> SUFFICES ASSUME LoadInv, NEW raw \in Heard, Decision(raw).action = "wouldStart"
               PROVE  /\ at = "loaded" /\ BadLines = {}
                      /\ Meaning(Plain("experimental"), "enableRadioController", FALSE)
                      /\ Meaning(Plain("general"), "enabled", TRUE)
                      /\ Meaning(OfStation(Decision(raw).selected), "enabled", FALSE)
                      /\ Meaning(OfStation(Decision(raw).selected), "url", "empty") # "empty"
    BY DEF StartNeedsOptIn
  <2> DEFINE k == Decision(raw).selected
  <2>1. /\ Success /\ value.general.enabled /\ value.experimental.enableRadioController
        /\ k \in DOMAIN value.stations
        /\ value.stations[k].enabled /\ value.stations[k].url # "empty"
    BY StartIsAsked
  <2>2. at = "loaded" /\ BadLines = {}
    BY <2>1, SuccessMeans
  <2> HIDE DEF k
  <2>3. value.general = Written("general") /\ value.experimental = Written("experimental")
        /\ value.stations[k] = WrittenStation(k)
    BY <2>1 DEF LoadInv, ValuesAsWritten, PlainKinds
  <2>4. value.general.enabled = Meaning(Plain("general"), "enabled", TRUE)
    <3>1. "enabled" \in DOMAIN Parsers("general") /\ Defaults["general"]["enabled"] = TRUE
      BY DEF Parsers, GeneralParsers, Defaults
    <3> QED BY <2>3, <3>1 DEF Written
  <2>5. value.experimental.enableRadioController =
          Meaning(Plain("experimental"), "enableRadioController", FALSE)
    <3>1. /\ "enableRadioController" \in DOMAIN Parsers("experimental")
          /\ Defaults["experimental"]["enableRadioController"] = FALSE
      BY DEF Parsers, ExperimentalParsers, Defaults
    <3> QED BY <2>3, <3>1 DEF Written
  <2>6. /\ value.stations[k].enabled = Meaning(OfStation(k), "enabled", FALSE)
        /\ value.stations[k].url = Meaning(OfStation(k), "url", "empty")
    <3>1. "enabled" \in DOMAIN StationParsers /\ "url" \in DOMAIN StationParsers
          /\ DefaultStation["enabled"] = FALSE /\ DefaultStation["url"] = "empty"
      BY DEF StationParsers, DefaultStation
    <3> QED BY <2>3, <3>1 DEF WrittenStation
  <2> QED BY <2>1, <2>2, <2>4, <2>5, <2>6 DEF k
<1> QED BY <1>1, LoadInit, LoadNext, PTL DEF Spec

-----------------------------------------------------------------------------
(* Counting.                                                               *)

LEMMA ImageFinite ==
  ASSUME NEW S, IsFiniteSet(S), NEW f
  PROVE  IsFiniteSet({f[x] : x \in S})
<1> DEFINE T == {f[x] : x \in S}
           g == [x \in S |-> f[x]]
<1>1. g \in Surjection(S, T)
  BY DEF Surjection
<1> QED BY <1>1, FS_Surjection

LEMMA SmallSets ==
  ASSUME NEW S, IsFiniteSet(S)
  PROVE  /\ Cardinality(S) \in Nat
         /\ Cardinality(S) = 1 => \E x : S = {x}
         /\ Cardinality(S) <= 1 => \A x, y \in S : x = y
<1>1. Cardinality(S) \in Nat
  BY FS_CardinalityType
<1>2. Cardinality(S) = 1 => \E x : S = {x}
  BY FS_Singleton
<1>3. Cardinality(S) = 0 => S = {}
  BY FS_EmptySet
<1> QED BY <1>1, <1>2, <1>3

-----------------------------------------------------------------------------
(* What documents say of a raw value.                                      *)

\* A valid document with a list of observations.
Documented(d) == Valid(d) /\ \E n \in Nat : DOMAIN d.observations = 1 .. n

Record(d, i) ==
  [session |-> d.session, source |-> d.source, raw |-> d.observations[i].raw,
   identity |-> d.observations[i].identity, label |-> d.observations[i].label]

Entry(documents, raw) == {e \in Evidence(documents) : e.raw = raw}
SessionsOf(entry) == {e.session : e \in entry}
SourcesOf(entry) == {e.source : e \in entry} \ {""}

LEMMA EvidenceIs ==
  ASSUME NEW documents
  PROVE  /\ \A e \in Evidence(documents) :
              \E d \in documents : \E i \in DOMAIN d.observations :
                 d.profile = Mapped /\ Valid(d) /\ e = Record(d, i)
         /\ \A d \in documents : \A i \in DOMAIN d.observations :
              d.profile = Mapped /\ Valid(d) => Record(d, i) \in Evidence(documents)
BY DEF Evidence, Record

\* The annotation of a raw value is one of its records, with a label.
LEMMA AnnotationIsRecorded ==
  ASSUME NEW d, Documented(d), NEW raw \in Annotated(d)
  PROVE  \E i \in DOMAIN d.observations :
           /\ d.observations[i].raw = raw
           /\ Known(d.observations[i]) /\ Labelled(d.observations[i])
           /\ Annotation(d, raw) = <<d.observations[i].identity, d.observations[i].label>>
<1> DEFINE places == {i \in DOMAIN d.observations :
                        d.observations[i].raw = raw /\ Known(d.observations[i])}
           last == CHOOSE i \in places : \A j \in places : j <= i
<1>1. PICK n \in Nat : DOMAIN d.observations = 1 .. n
  BY DEF Documented
<1>2. places \in SUBSET (1 .. n) /\ places # {}
  BY <1>1 DEF Annotated
<1>3. last \in places
  <2> HIDE DEF places
  <2> QED BY <1>2, LastPlace
<1>4. Annotation(d, raw) = <<d.observations[last].identity, d.observations[last].label>>
  BY DEF Annotation
<1> HIDE DEF last
<1>5. Labelled(d.observations[last])
  BY <1>3 DEF Documented, Valid
<1> QED BY <1>3, <1>4, <1>5

LEMMA EntryFinite ==
  ASSUME NEW documents, IsFiniteSet(documents), \A d \in documents : Documented(d), NEW raw
  PROVE  /\ IsFiniteSet(Entry(documents, raw))
         /\ IsFiniteSet(IdentitiesOf(Entry(documents, raw)))
         /\ IsFiniteSet(LabelsOf(Entry(documents, raw)))
         /\ IsFiniteSet(SessionsOf(Entry(documents, raw)))
         /\ IsFiniteSet(SourcesOf(Entry(documents, raw)))
<1> DEFINE counting == {c \in documents : c.profile = Mapped /\ Valid(c)}
           said == [d \in counting |-> {Record(d, i) : i \in DOMAIN d.observations}]
           sets == {said[d] : d \in counting}
           entry == Entry(documents, raw)
<1>1. IsFiniteSet(counting)
  BY FS_Subset
<1>2. IsFiniteSet(sets)
  <2> HIDE DEF counting, said
  <2> QED BY <1>1, ImageFinite
<1>3. ASSUME NEW d \in counting PROVE IsFiniteSet(said[d])
  <2>1. PICK n \in Nat : DOMAIN d.observations = 1 .. n
    BY DEF Documented
  <2> DEFINE records == [i \in 1 .. n |-> Record(d, i)]
  <2>2. IsFiniteSet(1 .. n)
    BY FS_Interval
  <2>3. IsFiniteSet({records[i] : i \in 1 .. n})
    <3> HIDE DEF records
    <3> QED BY <2>2, ImageFinite
  <2> QED BY <2>1, <2>3
<1>4. IsFiniteSet(UNION sets)
  <2>1. \A T \in sets : IsFiniteSet(T)
    BY <1>3
  <2> HIDE DEF sets
  <2> QED BY <1>2, <2>1, FS_UNION
<1>5. Evidence(documents) = UNION sets
  <2> DEFINE bags == {{Record(d, i) : i \in DOMAIN d.observations} : d \in counting}
  <2>1. Evidence(documents) = UNION bags
    BY DEF Evidence, Record
  <2>2. \A d \in counting : said[d] = {Record(d, i) : i \in DOMAIN d.observations}
    OBVIOUS
  <2>3. sets = bags
    <3>1. sets \subseteq bags /\ bags \subseteq sets
      <4> HIDE DEF said, counting
      <4> QED BY <2>2
    <3> HIDE DEF sets, bags
    <3> QED BY <3>1
  <2> QED BY <2>1, <2>3
<1>6. IsFiniteSet(entry)
  <2>1. entry \in SUBSET (UNION sets)
    BY <1>5 DEF Entry
  <2> HIDE DEF entry, sets
  <2> QED BY <1>4, <2>1, FS_Subset
<1> HIDE DEF entry
<1> DEFINE identities == [e \in entry |-> e.identity]
           labels == [e \in entry |-> e.label]
           sessions == [e \in entry |-> e.session]
           sources == [e \in entry |-> e.source]
<1>7. /\ IsFiniteSet({identities[e] : e \in entry}) /\ IsFiniteSet({labels[e] : e \in entry})
      /\ IsFiniteSet({sessions[e] : e \in entry}) /\ IsFiniteSet({sources[e] : e \in entry})
  <2> HIDE DEF identities, labels, sessions, sources
  <2> QED BY <1>6, ImageFinite
<1>8. /\ IdentitiesOf(entry) \in SUBSET {identities[e] : e \in entry}
      /\ LabelsOf(entry) \in SUBSET {labels[e] : e \in entry}
      /\ SessionsOf(entry) \in SUBSET {sessions[e] : e \in entry}
      /\ SourcesOf(entry) \in SUBSET {sources[e] : e \in entry}
  BY DEF IdentitiesOf, LabelsOf, SessionsOf, SourcesOf
<1> HIDE DEF identities, labels, sessions, sources
<1>9. /\ IsFiniteSet(IdentitiesOf(entry)) /\ IsFiniteSet(LabelsOf(entry))
      /\ IsFiniteSet(SessionsOf(entry)) /\ IsFiniteSet(SourcesOf(entry))
  BY <1>7, <1>8, FS_Subset
<1> QED BY <1>6, <1>9 DEF entry

\* The map at a raw value.
LEMMA MapAt ==
  ASSUME NEW documents
  PROVE  /\ DOMAIN BuildMap(documents) = {e.raw : e \in Evidence(documents)}
         /\ \A raw \in DOMAIN BuildMap(documents) :
              /\ BuildMap(documents)[raw].identity = Identity(Entry(documents, raw))
              /\ BuildMap(documents)[raw].level = Level(Entry(documents, raw))
BY DEF BuildMap, Entry

\* An identity of the map is the one identity of its evidence.
LEMMA IdentityIs ==
  ASSUME NEW entry, IsFiniteSet(IdentitiesOf(entry)), IsFiniteSet(LabelsOf(entry)),
         Identity(entry) # "unknown"
  PROVE  /\ IdentitiesOf(entry) = {Identity(entry)}
         /\ Cardinality(LabelsOf(entry)) <= 1
         /\ \A x, y \in LabelsOf(entry) : x = y
<1>1. Cardinality(IdentitiesOf(entry)) = 1 /\ Cardinality(LabelsOf(entry)) <= 1
  BY DEF Identity
<1>2. Identity(entry) = CHOOSE i \in IdentitiesOf(entry) : TRUE
  BY DEF Identity
<1>3. PICK x : IdentitiesOf(entry) = {x}
  BY <1>1, SmallSets
<1>4. Identity(entry) = x
  BY <1>2, <1>3
<1> QED BY <1>1, <1>3, <1>4, SmallSets

LEMMA KnownIdentities ==
  ASSUME NEW entry
  PROVE  IdentitiesOf(entry) \subseteq Identities /\ "unknown" \notin IdentitiesOf(entry)
BY EvidenceAssumption DEF IdentitiesOf, Known

\* What the map says is what each document says that annotates it.
LEMMA MapIsUnanimous ==
  ASSUME NEW documents, IsFiniteSet(documents), \A d \in documents : Documented(d),
         NEW d \in Counted(documents), NEW raw \in Annotated(d),
         BuildMap(documents)[raw].identity # "unknown"
  PROVE  /\ raw \in DOMAIN BuildMap(documents)
         /\ IdentitiesOf(Entry(documents, raw)) = {Annotation(d, raw)[1]}
         /\ BuildMap(documents)[raw].identity = Annotation(d, raw)[1]
         /\ Annotation(d, raw)[2] \in LabelsOf(Entry(documents, raw))
         /\ \A x, y \in LabelsOf(Entry(documents, raw)) : x = y
<1>1. d \in documents /\ d.profile = Mapped /\ Documented(d) /\ Valid(d)
  BY DEF Counted, Documented
<1>2. PICK i \in DOMAIN d.observations :
        /\ d.observations[i].raw = raw
        /\ Known(d.observations[i]) /\ Labelled(d.observations[i])
        /\ Annotation(d, raw) = <<d.observations[i].identity, d.observations[i].label>>
  BY <1>1, AnnotationIsRecorded
<1>3. Record(d, i) \in Entry(documents, raw)
  BY <1>1, <1>2, EvidenceIs DEF Entry, Record
<1>4. /\ Record(d, i).identity = d.observations[i].identity
      /\ Record(d, i).label = d.observations[i].label
      /\ Record(d, i).raw = raw
  BY <1>2 DEF Record
<1>5. /\ Annotation(d, raw)[1] \in IdentitiesOf(Entry(documents, raw))
      /\ Annotation(d, raw)[2] \in LabelsOf(Entry(documents, raw))
  <2>1. Known(Record(d, i)) /\ Labelled(Record(d, i))
    BY <1>2, <1>4 DEF Known, Labelled
  <2>2. /\ Record(d, i).identity \in IdentitiesOf(Entry(documents, raw))
        /\ Record(d, i).label \in LabelsOf(Entry(documents, raw))
    BY <1>3, <2>1 DEF IdentitiesOf, LabelsOf
  <2>3. /\ Annotation(d, raw)[1] = Record(d, i).identity
        /\ Annotation(d, raw)[2] = Record(d, i).label
    BY <1>2, <1>4
  <2> QED BY <2>2, <2>3
<1>6. raw \in DOMAIN BuildMap(documents)
  BY <1>3, <1>4, MapAt DEF Entry
<1>7. BuildMap(documents)[raw].identity = Identity(Entry(documents, raw))
  BY <1>6, MapAt
<1>8. /\ IdentitiesOf(Entry(documents, raw)) = {Identity(Entry(documents, raw))}
      /\ \A x, y \in LabelsOf(Entry(documents, raw)) : x = y
  BY <1>7, EntryFinite, IdentityIs
<1> QED BY <1>5, <1>6, <1>7, <1>8

\* The registry resolves what the map knows.
LEMMA ResolvedInMap ==
  ASSUME NEW documents, NEW raw \in RawRange,
         Resolve(RegistryFind(BuildMap(documents)), raw).status = "resolved"
  PROVE  /\ raw \in DOMAIN BuildMap(documents)
         /\ BuildMap(documents)[raw].identity # "unknown"
         /\ Resolve(RegistryFind(BuildMap(documents)), raw).identity
              = BuildMap(documents)[raw].identity
<1> DEFINE map == BuildMap(documents)
           found == RegistryFind(map)
<1>1. found # None /\ raw \in DOMAIN found
  BY DEF Resolve
<1>2. Resolve(found, raw).identity = found[raw]
  BY <1>1 DEF Resolve
<1>3. MapValid(map) /\ found = [r \in DOMAIN map |-> map[r].identity]
  BY <1>1 DEF RegistryFind
<1> QED BY <1>1, <1>2, <1>3 DEF MapValid

\* What the comparison calls a conflict is unknown in the map.
LEMMA ConflictIsUnknown ==
  ASSUME NEW documents, IsFiniteSet(documents), \A d \in documents : Documented(d),
         NEW first \in Counted(documents), NEW second \in Counted(documents)
  PROVE  \/ Equivalent(first, second)
         \/ \E raw \in Annotated(first) \cap Annotated(second) :
              BuildMap(documents)[raw].identity = "unknown"
<1> SUFFICES ASSUME ~Equivalent(first, second),
                    \A raw \in Annotated(first) \cap Annotated(second) :
                      BuildMap(documents)[raw].identity # "unknown"
             PROVE  FALSE
  OBVIOUS
<1>1. Valid(first) /\ Valid(second) /\ first.profile = second.profile
  BY DEF Counted, Documented
<1>2. PICK raw \in Annotated(first) \cap Annotated(second) :
        Annotation(first, raw) # Annotation(second, raw)
  BY <1>1 DEF Equivalent
<1>3. /\ IdentitiesOf(Entry(documents, raw)) = {Annotation(first, raw)[1]}
      /\ IdentitiesOf(Entry(documents, raw)) = {Annotation(second, raw)[1]}
      /\ Annotation(first, raw)[2] = Annotation(second, raw)[2]
  BY <1>2, MapIsUnanimous
<1>4. /\ Annotation(first, raw) = <<Annotation(first, raw)[1], Annotation(first, raw)[2]>>
      /\ Annotation(second, raw) = <<Annotation(second, raw)[1], Annotation(second, raw)[2]>>
  BY DEF Annotation
<1>5. Annotation(first, raw)[1] = Annotation(second, raw)[1]
  BY <1>3
<1> QED BY <1>2, <1>3, <1>4, <1>5

LEMMA MapAgrees ==
  ASSUME IsFiniteSet(Documents), \A d \in Documents : Documented(d)
  PROVE  MapAgreesWithComparison
<1> DEFINE counted == Counted(Documents)
           map == BuildMap(Documents)
           found == RegistryFind(map)
<1>1. \A first, second \in counted :
        \/ Equivalent(first, second)
        \/ \E raw \in Annotated(first) \cap Annotated(second) : map[raw].identity = "unknown"
  BY ConflictIsUnknown
<1>2. ASSUME NEW raw \in RawRange, Resolve(found, raw).status = "resolved"
      PROVE  /\ Resolve(found, raw).identity \in Identities
             /\ \A d \in counted :
                  raw \in Annotated(d) => Annotation(d, raw)[1] = Resolve(found, raw).identity
  <2>1. /\ raw \in DOMAIN map /\ map[raw].identity # "unknown"
        /\ Resolve(found, raw).identity = map[raw].identity
    BY <1>2, ResolvedInMap
  <2>2. map[raw].identity = Identity(Entry(Documents, raw))
    BY <2>1, MapAt
  <2>3. map[raw].identity \in IdentitiesOf(Entry(Documents, raw))
    BY <2>1, <2>2, EntryFinite, IdentityIs
  <2>4. map[raw].identity \in Identities
    BY <2>3, KnownIdentities
  <2>5. \A d \in counted : raw \in Annotated(d) => Annotation(d, raw)[1] = map[raw].identity
    BY <2>1, MapIsUnanimous
  <2> QED BY <2>1, <2>4, <2>5
<1> HIDE DEF counted, map, found
<1>3. \E documents \in {Documents} : \E c \in {Counted(documents)} :
      \E m \in {BuildMap(documents)} : \E f \in {RegistryFind(m)} :
        c = counted /\ m = map /\ f = found
  BY DEF counted, map, found
<1> QED BY <1>1, <1>2, <1>3 DEF MapAgreesWithComparison
-----------------------------------------------------------------------------
(* Further evidence.                                                       *)

LEMMA RankIs ==
  /\ Rank("unverified") = 1 /\ Rank("observedOnce") = 2
  /\ Rank("locallyReproduced") = 3 /\ Rank("independentlyReproduced") = 4
<1>1. /\ DOMAIN Levels = 1 .. 4
      /\ Levels[1] = "unverified" /\ Levels[2] = "observedOnce"
      /\ Levels[3] = "locallyReproduced" /\ Levels[4] = "independentlyReproduced"
  BY DEF Levels
<1>2. \A i \in DOMAIN Levels : i = 1 \/ i = 2 \/ i = 3 \/ i = 4
  BY <1>1
<1>3. Rank("unverified") = 1
  <2>1. \A i \in DOMAIN Levels : Levels[i] = "unverified" <=> i = 1
    BY <1>1, <1>2
  <2> QED BY <1>1, <2>1 DEF Rank
<1>4. Rank("observedOnce") = 2
  <2>1. \A i \in DOMAIN Levels : Levels[i] = "observedOnce" <=> i = 2
    BY <1>1, <1>2
  <2> QED BY <1>1, <2>1 DEF Rank
<1>5. Rank("locallyReproduced") = 3
  <2>1. \A i \in DOMAIN Levels : Levels[i] = "locallyReproduced" <=> i = 3
    BY <1>1, <1>2
  <2> QED BY <1>1, <2>1 DEF Rank
<1>6. Rank("independentlyReproduced") = 4
  <2>1. \A i \in DOMAIN Levels : Levels[i] = "independentlyReproduced" <=> i = 4
    BY <1>1, <1>2
  <2> QED BY <1>1, <2>1 DEF Rank
<1> QED BY <1>3, <1>4, <1>5, <1>6

\* Of a station that is known, the level is what its sources and sessions amount to.
LEMMA LevelIs ==
  ASSUME NEW entry, Identity(entry) # "unknown"
  PROVE  Level(entry) = IF Cardinality(SourcesOf(entry)) >= 2 THEN "independentlyReproduced"
                        ELSE IF Cardinality(SessionsOf(entry)) >= 2 THEN "locallyReproduced"
                        ELSE "observedOnce"
BY DEF Level, SourcesOf, SessionsOf

\* The evidence of a raw value is what the documents that count say of it.
LEMMA EntryIsSaid ==
  ASSUME NEW documents, \A d \in documents : Documented(d), NEW raw
  PROVE  /\ \A e \in Entry(documents, raw) : \E d \in Counted(documents) : \E o \in Says(d, raw) :
              /\ e.identity = o.identity /\ e.label = o.label
              /\ Known(e) <=> Known(o)
              /\ Labelled(e) <=> Labelled(o)
         /\ \A d \in Counted(documents) : \A o \in Says(d, raw) : \E e \in Entry(documents, raw) :
              /\ e.identity = o.identity /\ e.label = o.label
              /\ Known(e) <=> Known(o)
              /\ Labelled(e) <=> Labelled(o)
<1>1. ASSUME NEW e \in Entry(documents, raw)
      PROVE  \E d \in Counted(documents) : \E o \in Says(d, raw) :
               e.identity = o.identity /\ e.label = o.label
  <2>1. PICK d \in documents : \E i \in DOMAIN d.observations :
          d.profile = Mapped /\ e = Record(d, i) /\ e.raw = raw
    BY EvidenceIs DEF Entry
  <2>2. PICK i \in DOMAIN d.observations : d.profile = Mapped /\ e = Record(d, i) /\ e.raw = raw
    BY <2>1
  <2>3. d \in Counted(documents)
    BY <2>2 DEF Counted
  <2>4. d.observations[i] \in Says(d, raw)
    BY <2>2 DEF Says, Record
  <2> QED BY <2>2, <2>3, <2>4 DEF Record
<1>2. ASSUME NEW d \in Counted(documents), NEW o \in Says(d, raw)
      PROVE  \E e \in Entry(documents, raw) : e.identity = o.identity /\ e.label = o.label
  <2>1. PICK i \in DOMAIN d.observations : d.observations[i].raw = raw /\ o = d.observations[i]
    BY DEF Says
  <2>2. d \in documents /\ d.profile = Mapped /\ Valid(d)
    BY DEF Counted, Documented
  <2>3. Record(d, i) \in Evidence(documents)
    BY <2>1, <2>2, EvidenceIs
  <2>4. Record(d, i).raw = raw
    BY <2>1 DEF Record
  <2>5. Record(d, i) \in Entry(documents, raw)
    BY <2>3, <2>4 DEF Entry
  <2> QED BY <2>1, <2>5 DEF Record
<1> QED BY <1>1, <1>2 DEF Known, Labelled

\* A raw value has an entry where it has evidence.
LEMMA MapHas ==
  ASSUME NEW documents, NEW raw
  PROVE  /\ raw \in DOMAIN BuildMap(documents) <=> Entry(documents, raw) # {}
         /\ Identified(BuildMap(documents), raw)
              <=> Entry(documents, raw) # {} /\ Identity(Entry(documents, raw)) # "unknown"
<1>1. raw \in DOMAIN BuildMap(documents) <=> Entry(documents, raw) # {}
  <2>1. raw \in DOMAIN BuildMap(documents) <=> \E e \in Evidence(documents) : raw = e.raw
    <3>1. raw \in {e.raw : e \in Evidence(documents)} <=> \E e \in Evidence(documents) : raw = e.raw
      OBVIOUS
    <3> QED BY <3>1, MapAt
  <2> QED BY <2>1 DEF Entry
<1> QED BY <1>1, MapAt DEF Identified

\* A station that is disputed is unknown.
LEMMA DisputedIsUnknown ==
  ASSUME NEW documents, IsFiniteSet(documents), \A d \in documents : Documented(d), NEW raw,
         Disputed(Counted(documents), raw)
  PROVE  ~Identified(BuildMap(documents), raw)
<1> DEFINE entry == Entry(documents, raw)
<1>1. PICK first \in Counted(documents), second \in Counted(documents) :
        \E o \in Says(first, raw), p \in Says(second, raw) :
          \/ Known(o) /\ Known(p) /\ o.identity # p.identity
          \/ Labelled(o) /\ Labelled(p) /\ o.label # p.label
  BY DEF Disputed
<1>2. PICK o \in Says(first, raw), p \in Says(second, raw) :
          \/ Known(o) /\ Known(p) /\ o.identity # p.identity
          \/ Labelled(o) /\ Labelled(p) /\ o.label # p.label
  BY <1>1
<1>3. PICK e \in entry : /\ e.identity = o.identity /\ e.label = o.label
                         /\ Known(e) <=> Known(o)
                         /\ Labelled(e) <=> Labelled(o)
  BY EntryIsSaid
<1>4. PICK f \in entry : /\ f.identity = p.identity /\ f.label = p.label
                         /\ Known(f) <=> Known(p)
                         /\ Labelled(f) <=> Labelled(p)
  BY EntryIsSaid
<1>5. /\ Known(o) /\ Known(p) => o.identity \in IdentitiesOf(entry) /\ p.identity \in IdentitiesOf(entry)
      /\ Labelled(o) /\ Labelled(p) => o.label \in LabelsOf(entry) /\ p.label \in LabelsOf(entry)
  <2> HIDE DEF entry
  <2> QED BY <1>3, <1>4 DEF IdentitiesOf, LabelsOf
<1>6. ASSUME Identity(entry) # "unknown" PROVE FALSE
  <2>1. /\ IdentitiesOf(entry) = {Identity(entry)}
        /\ \A x, y \in LabelsOf(entry) : x = y
    BY <1>6, EntryFinite, IdentityIs
  <2> HIDE DEF entry
  <2> QED BY <1>2, <1>5, <2>1
<1> QED BY <1>6, MapHas

\* A station that is not disputed has one identity and one label, if any.
LEMMA UndisputedAgree ==
  ASSUME NEW documents, \A d \in documents : Documented(d), NEW raw,
         ~Disputed(Counted(documents), raw)
  PROVE  /\ \A x, y \in IdentitiesOf(Entry(documents, raw)) : x = y
         /\ \A x, y \in LabelsOf(Entry(documents, raw)) : x = y
<1> DEFINE entry == Entry(documents, raw)
<1>1. ASSUME NEW e \in entry, NEW f \in entry
      PROVE  /\ Known(e) /\ Known(f) => e.identity = f.identity
             /\ Labelled(e) /\ Labelled(f) => e.label = f.label
  <2>1. PICK first \in Counted(documents) : \E o \in Says(first, raw) :
              /\ e.identity = o.identity /\ e.label = o.label
              /\ Known(e) <=> Known(o)
              /\ Labelled(e) <=> Labelled(o)
    BY EntryIsSaid
  <2>2. PICK second \in Counted(documents) : \E o \in Says(second, raw) :
              /\ f.identity = o.identity /\ f.label = o.label
              /\ Known(f) <=> Known(o)
              /\ Labelled(f) <=> Labelled(o)
    BY EntryIsSaid
  <2> QED BY <2>1, <2>2 DEF Disputed
<1> HIDE DEF entry
<1>2. \A x, y \in IdentitiesOf(entry) : x = y
  BY <1>1 DEF IdentitiesOf
<1>3. \A x, y \in LabelsOf(entry) : x = y
  BY <1>1 DEF LabelsOf
<1> QED BY <1>2, <1>3 DEF entry

\* One identity and at most one label is enough.
LEMMA OneIsKnown ==
  ASSUME NEW entry, NEW identity \in IdentitiesOf(entry),
         \A x, y \in IdentitiesOf(entry) : x = y,
         \A x, y \in LabelsOf(entry) : x = y
  PROVE  Identity(entry) = identity /\ Identity(entry) # "unknown"
<1>1. IdentitiesOf(entry) = {identity}
  OBVIOUS
<1>2. Cardinality(IdentitiesOf(entry)) = 1
  BY <1>1, FS_Singleton
<1>3. Cardinality(LabelsOf(entry)) <= 1
  <2>1. CASE LabelsOf(entry) = {}
    BY <2>1, FS_EmptySet
  <2>2. CASE LabelsOf(entry) # {}
    <3>1. PICK x \in LabelsOf(entry) : TRUE
      BY <2>2
    <3>2. LabelsOf(entry) = {x}
      BY <3>1
    <3> QED BY <3>2, FS_Singleton
  <2> QED BY <2>1, <2>2
<1>4. Identity(entry) = CHOOSE i \in IdentitiesOf(entry) : TRUE
  BY <1>2, <1>3 DEF Identity
<1>5. Identity(entry) = identity
  BY <1>1, <1>4
<1> QED BY <1>5, KnownIdentities

\* More evidence that names the same station is no lower level.
LEMMA MoreIsNoLess ==
  ASSUME NEW more, NEW less \in SUBSET more, IsFiniteSet(more),
         Identity(less) # "unknown", Identity(more) # "unknown"
  PROVE  Rank(Level(more)) >= Rank(Level(less))
<1> DEFINE sessions == [e \in more |-> e.session]
           sources == [e \in more |-> e.source]
<1>1. IsFiniteSet({sessions[e] : e \in more}) /\ IsFiniteSet({sources[e] : e \in more})
  <2> HIDE DEF sessions, sources
  <2> QED BY ImageFinite
<1>2. /\ SessionsOf(more) \in SUBSET {sessions[e] : e \in more}
      /\ SourcesOf(more) \in SUBSET {sources[e] : e \in more}
  BY DEF SessionsOf, SourcesOf
<1>3. IsFiniteSet(SessionsOf(more)) /\ IsFiniteSet(SourcesOf(more))
  <2> HIDE DEF sessions, sources
  <2> QED BY <1>1, <1>2, FS_Subset
<1>4. SessionsOf(less) \in SUBSET SessionsOf(more) /\ SourcesOf(less) \in SUBSET SourcesOf(more)
  BY DEF SessionsOf, SourcesOf
<1>5. /\ Cardinality(SessionsOf(less)) <= Cardinality(SessionsOf(more))
      /\ Cardinality(SourcesOf(less)) <= Cardinality(SourcesOf(more))
      /\ IsFiniteSet(SessionsOf(less)) /\ IsFiniteSet(SourcesOf(less))
  BY <1>3, <1>4, FS_Subset
<1>6. /\ Cardinality(SessionsOf(less)) \in Nat /\ Cardinality(SessionsOf(more)) \in Nat
      /\ Cardinality(SourcesOf(less)) \in Nat /\ Cardinality(SourcesOf(more)) \in Nat
  BY <1>3, <1>5, SmallSets
<1>7. /\ Level(less) = IF Cardinality(SourcesOf(less)) >= 2 THEN "independentlyReproduced"
                       ELSE IF Cardinality(SessionsOf(less)) >= 2 THEN "locallyReproduced"
                       ELSE "observedOnce"
      /\ Level(more) = IF Cardinality(SourcesOf(more)) >= 2 THEN "independentlyReproduced"
                       ELSE IF Cardinality(SessionsOf(more)) >= 2 THEN "locallyReproduced"
                       ELSE "observedOnce"
  BY LevelIs
<1> QED BY <1>5, <1>6, <1>7, RankIs

\* Of a raw value that no document which went speaks of, no evidence is lost.
LEMMA UnspokenStays ==
  ASSUME NEW documents, NEW further, \A d \in documents \cup further : Documented(d), NEW raw,
         \A d \in Counted(documents) \ Counted(further) : Says(d, raw) = {}
  PROVE  Entry(documents, raw) \subseteq Entry(further, raw)
<1> SUFFICES ASSUME NEW e \in Entry(documents, raw) PROVE e \in Entry(further, raw)
  OBVIOUS
<1>1. PICK d \in documents : \E i \in DOMAIN d.observations :
        d.profile = Mapped /\ Valid(d) /\ e = Record(d, i) /\ e.raw = raw
  BY EvidenceIs DEF Entry
<1>2. PICK i \in DOMAIN d.observations :
        d.profile = Mapped /\ Valid(d) /\ e = Record(d, i) /\ e.raw = raw
  BY <1>1
<1>3. d.observations[i] \in Says(d, raw)
  BY <1>2 DEF Says, Record
<1>4. d \in further
  BY <1>2, <1>3 DEF Counted
<1>5. e \in Evidence(further)
  BY <1>2, <1>4, EvidenceIs
<1> QED BY <1>2, <1>5 DEF Entry

\* One set of documents and a larger or a smaller one.
LEMMA MapKeeps ==
  ASSUME NEW documents, IsFiniteSet(documents), \A d \in documents : Documented(d),
         NEW further, IsFiniteSet(further), \A d \in further : Documented(d),
         documents \subseteq further \/ further \subseteq documents, NEW raw
  PROVE  Keeps(Counted(documents), Counted(further), BuildMap(documents), BuildMap(further), raw)
<1> DEFINE old == Counted(documents)
           new == Counted(further)
           before == BuildMap(documents)
           after == BuildMap(further)
           less == Entry(documents, raw)
           more == Entry(further, raw)
<1>1. \A d \in documents \cup further : Documented(d)
  OBVIOUS
<1>2. /\ IsFiniteSet(less) /\ IsFiniteSet(IdentitiesOf(less)) /\ IsFiniteSet(LabelsOf(less))
      /\ IsFiniteSet(more) /\ IsFiniteSet(IdentitiesOf(more)) /\ IsFiniteSet(LabelsOf(more))
  BY EntryFinite
<1>3. /\ raw \in DOMAIN before =>
           before[raw].identity = Identity(less) /\ before[raw].level = Level(less)
      /\ raw \in DOMAIN after =>
           after[raw].identity = Identity(more) /\ after[raw].level = Level(more)
  BY MapAt
<1>4. /\ raw \in DOMAIN before <=> less # {}
      /\ raw \in DOMAIN after <=> more # {}
      /\ Identified(before, raw) <=> less # {} /\ Identity(less) # "unknown"
      /\ Identified(after, raw) <=> more # {} /\ Identity(more) # "unknown"
  BY MapHas
<1>5. ASSUME \A d \in (old \ new) \cup (new \ old) : Says(d, raw) = {}
      PROVE  EntryOf(after, raw) = EntryOf(before, raw)
  <2>1. less = more
    <3>1. less \subseteq more
      BY <1>1, <1>5, UnspokenStays
    <3>2. more \subseteq less
      BY <1>1, <1>5, UnspokenStays
    <3> QED BY <3>1, <3>2
  <2>2. CASE less = {}
    <3>1. raw \notin DOMAIN before /\ raw \notin DOMAIN after
      BY <1>4, <2>1, <2>2
    <3> HIDE DEF before, after
    <3> QED BY <3>1 DEF EntryOf
  <2>3. CASE less # {}
    <3>1. raw \in DOMAIN before /\ raw \in DOMAIN after
      BY <1>4, <2>1, <2>3
    <3>2. before[raw] = [identity |-> Identity(less), level |-> Level(less)]
      BY <3>1 DEF BuildMap, Entry
    <3>3. after[raw] = [identity |-> Identity(more), level |-> Level(more)]
      BY <3>1 DEF BuildMap, Entry
    <3>4. before[raw] = after[raw]
      BY <2>1, <3>2, <3>3
    <3> HIDE DEF before, after
    <3> QED BY <3>1, <3>4 DEF EntryOf
  <2> QED BY <2>2, <2>3
<1>6. Disputed(new, raw) => ~Identified(after, raw)
  BY DisputedIsUnknown
<1>7. ASSUME Identified(before, raw), ~Disputed(new, raw), \A d \in old \ new : Says(d, raw) = {}
      PROVE  Identified(after, raw) /\ Rank(after[raw].level) >= Rank(before[raw].level)
  <2>1. less \subseteq more
    BY <1>1, <1>7, UnspokenStays
  <2>2. less # {} /\ more # {} /\ Identity(less) # "unknown"
    BY <1>4, <1>7, <2>1
  <2>3. IdentitiesOf(less) = {Identity(less)}
    BY <1>2, <2>2, IdentityIs
  <2>4. Identity(less) \in IdentitiesOf(more)
    <3> HIDE DEF less, more
    <3>1. IdentitiesOf(less) \subseteq IdentitiesOf(more)
      BY <2>1 DEF IdentitiesOf
    <3> QED BY <2>3, <3>1
  <2>5. /\ \A x, y \in IdentitiesOf(more) : x = y
        /\ \A x, y \in LabelsOf(more) : x = y
    BY <1>7, UndisputedAgree
  <2>6. Identity(more) # "unknown"
    <3> HIDE DEF less, more
    <3> QED BY <2>4, <2>5, OneIsKnown
  <2>7. Rank(Level(more)) >= Rank(Level(less))
    <3> HIDE DEF less, more
    <3> QED BY <1>2, <2>1, <2>2, <2>6, MoreIsNoLess
  <2> QED BY <1>3, <1>4, <2>2, <2>6, <2>7
<1>8. ASSUME Identified(before, raw), Identified(after, raw)
      PROVE  after[raw].identity = before[raw].identity
  <2>1. less \subseteq more \/ more \subseteq less
    <3>1. documents \subseteq further => Evidence(documents) \subseteq Evidence(further)
      BY DEF Evidence
    <3>2. further \subseteq documents => Evidence(further) \subseteq Evidence(documents)
      BY DEF Evidence
    <3> QED BY <3>1, <3>2 DEF Entry
  <2>2. IdentitiesOf(less) = {Identity(less)} /\ IdentitiesOf(more) = {Identity(more)}
    BY <1>2, <1>4, <1>8, IdentityIs
  <2>3. IdentitiesOf(less) \subseteq IdentitiesOf(more) \/ IdentitiesOf(more) \subseteq IdentitiesOf(less)
    <3> HIDE DEF less, more
    <3> QED BY <2>1 DEF IdentitiesOf
  <2>4. Identity(less) = Identity(more)
    BY <2>2, <2>3
  <2> QED BY <1>3, <1>8, <2>4 DEF Identified
<1> HIDE DEF old, new, before, after
<1>9. Keeps(old, new, before, after, raw)
  BY <1>5, <1>6, <1>7, <1>8 DEF Keeps
<1> QED BY <1>9 DEF old, new, before, after

-----------------------------------------------------------------------------
(* What is written can be read.                                            *)

Texted(o) ==
  /\ o.label = None \/ IsSafeVisibleLabel(o.label)
  /\ o.identity \in Identities \cup {"unknown", None}

\* An observation of an accepted document.
Observed(o) ==
  /\ o = [ordinal |-> o.ordinal, raw |-> o.raw, sequence |-> o.sequence, frames |-> o.frames,
          inVehicle |-> o.inVehicle, label |-> o.label, identity |-> o.identity]
  /\ o.ordinal \in 0 .. Uint32Max /\ o.raw \in 0 .. 255 /\ o.sequence \in 0 .. LongMax
  /\ o.frames \in 0 .. Uint32Max
  /\ Texted(o)

\* An accepted document.
Accepted(d) ==
  /\ Documented(d)
  /\ d = [schemaVersion |-> 1, profile |-> d.profile, session |-> d.session,
          source |-> d.source, observations |-> d.observations]
  /\ d.observations = [i \in DOMAIN d.observations |-> d.observations[i]]
  /\ d.profile \in ProfileIds
  /\ \A i \in DOMAIN d.observations : Observed(d.observations[i])

LEMMA TextsOfObservation ==
  ASSUME NEW element, TakesObservation(element)
  PROVE  ParseObservation(element).identity \in Identities \cup {"unknown", None}
<1>1. ParseObservation(element).identity = TextOr(element, "identity", None)
  BY DEF ParseObservation
<1>2. CASE Lacks(element, "identity")
  BY <1>1, <1>2 DEF TextOr, Has
<1>3. CASE HasText(element, "identity", Identities \cup {"unknown"})
  BY <1>1, <1>3 DEF TextOr, HasText
<1> QED BY <1>2, <1>3 DEF TakesObservation

LEMMA ReadIsAccepted ==
  ASSUME NEW paper, NEW d \in ParseEvidence(paper),
         Has(paper, "observations", "array") =>
           \E n \in Nat : DOMAIN Member(paper, "observations").elements = 1 .. n
  PROVE  Accepted(d)
<1> DEFINE elements == Member(paper, "observations").elements
           said == [i \in DOMAIN elements |-> ParseObservation(elements[i])]
           document ==
             [schemaVersion |-> Member(paper, "schemaVersion").number,
              profile |-> Member(paper, "executableProfile").text,
              session |-> Member(paper, "sessionId").text, source |-> TextOr(paper, "sourceId", ""),
              observations |-> said]
<1>1. /\ HasNumber(paper, "schemaVersion", 1) /\ HasText(paper, "executableProfile", ProfileIds)
      /\ Has(paper, "observations", "array")
      /\ \A i \in DOMAIN elements : TakesObservation(elements[i])
      /\ d = document /\ Valid(d)
  BY DEF ParseEvidence
<1>2. PICK n \in Nat : DOMAIN elements = 1 .. n
  BY <1>1
<1>3. d.observations = said /\ DOMAIN said = DOMAIN elements
  BY <1>1
<1>4. Documented(d)
  BY <1>1, <1>2, <1>3 DEF Documented
<1>5. d.schemaVersion = 1 /\ d.profile \in ProfileIds
  BY <1>1 DEF Valid, HasText
<1>6. d = [schemaVersion |-> 1, profile |-> d.profile, session |-> d.session,
           source |-> d.source, observations |-> d.observations]
  BY <1>1, <1>5
<1>7. ASSUME NEW i \in DOMAIN d.observations PROVE Observed(d.observations[i])
  <2> DEFINE element == elements[i]
             o == d.observations[i]
  <2>1. o = ParseObservation(element) /\ TakesObservation(element)
    BY <1>1, <1>3
  <2>2. o.ordinal \in 0 .. Uint32Max /\ o.raw \in 0 .. 255 /\ o.frames \in 0 .. Uint32Max
    <3>1. /\ o.ordinal = Member(element, "ordinal").number
          /\ o.raw = Member(element, "raw").number
          /\ o.frames = Member(element, "stableFrames").number
      BY <2>1 DEF ParseObservation
    <3>2. /\ HasNumber(element, "ordinal", Uint32Max) /\ HasNumber(element, "raw", 255)
          /\ HasNumber(element, "stableFrames", Uint32Max)
      BY <2>1 DEF TakesObservation
    <3> HIDE DEF o, element
    <3> QED BY <3>1, <3>2 DEF HasNumber
  <2>3. o.sequence \in 0 .. LongMax
    <3>1. o.sequence = IF Has(element, "snapshotSequence", "number")
                       THEN Member(element, "snapshotSequence").number ELSE 0
      BY <2>1 DEF ParseObservation
    <3>2. Lacks(element, "snapshotSequence") \/ HasNumber(element, "snapshotSequence", LongMax)
      BY <2>1 DEF TakesObservation
    <3>3. 0 \in 0 .. LongMax
      <4>1. LongMax \in Nat
        BY EvidenceAssumption
      <4> QED BY <4>1
    <3> HIDE DEF o, element
    <3> QED BY <3>1, <3>2, <3>3 DEF HasNumber, Has
  <2>4. o.label = None \/ IsSafeVisibleLabel(o.label)
    <3>1. \A j \in DOMAIN d.observations :
            d.observations[j].label = None \/ IsSafeVisibleLabel(d.observations[j].label)
      <4>1. Valid(d)
        BY <1>1
      <4> HIDE DEF said, document
      <4> QED BY <4>1 DEF Valid
    <3> QED BY <3>1
  <2>5. o.identity \in Identities \cup {"unknown", None}
    BY <2>1, TextsOfObservation
  <2>6. o = [ordinal |-> o.ordinal, raw |-> o.raw, sequence |-> o.sequence, frames |-> o.frames,
             inVehicle |-> o.inVehicle, label |-> o.label, identity |-> o.identity]
    BY <2>1 DEF ParseObservation
  <2> HIDE DEF o
  <2>7. Observed(o)
    BY <2>2, <2>3, <2>4, <2>5, <2>6 DEF Observed, Texted
  <2> QED BY <2>7 DEF o
<1>8. d.observations = [i \in DOMAIN d.observations |-> d.observations[i]]
  BY <1>3
<1> QED BY <1>4, <1>5, <1>6, <1>7, <1>8 DEF Accepted

-----------------------------------------------------------------------------
(* An observation.                                                         *)

\* The members of what is written for one.
LEMMA WrittenMembers ==
  ASSUME NEW o
  PROVE  /\ ObservationJson(o).type = "object"
         /\ DOMAIN ObservationJson(o).members =
              {"ordinal", "raw", "snapshotSequence", "stableFrames", "playerInVehicle"}
                \cup {key \in {"visibleLabel"} : o.label # None}
                \cup {key \in {"identity"} : o.identity # None}
         /\ ObservationJson(o).members["ordinal"] = Number(o.ordinal)
         /\ ObservationJson(o).members["raw"] = Number(o.raw)
         /\ ObservationJson(o).members["snapshotSequence"] = Number(o.sequence)
         /\ ObservationJson(o).members["stableFrames"] = Number(o.frames)
         /\ ObservationJson(o).members["playerInVehicle"] = Boolean(o.inVehicle)
         /\ o.label # None => ObservationJson(o).members["visibleLabel"] = EscapeJson(o.label)
         /\ o.identity # None => ObservationJson(o).members["identity"] = EscapeJson(o.identity)
<1> DEFINE keys == {"ordinal", "raw", "snapshotSequence", "stableFrames", "playerInVehicle"}
                     \cup {key \in {"visibleLabel"} : o.label # None}
                     \cup {key \in {"identity"} : o.identity # None}
           what(key) ==
             CASE key = "ordinal" -> Number(o.ordinal)
               [] key = "raw" -> Number(o.raw)
               [] key = "snapshotSequence" -> Number(o.sequence)
               [] key = "stableFrames" -> Number(o.frames)
               [] key = "playerInVehicle" -> Boolean(o.inVehicle)
               [] key = "visibleLabel" -> EscapeJson(o.label)
               [] key = "identity" -> EscapeJson(o.identity)
           written == [key \in keys |-> what(key)]
<1>1. ObservationJson(o) = Object(written)
  BY DEF ObservationJson
<1>2. ObservationJson(o).type = "object" /\ ObservationJson(o).members = written
  <2> HIDE DEF written
  <2> QED BY <1>1 DEF Object
<1>3. /\ what("ordinal") = Number(o.ordinal) /\ what("raw") = Number(o.raw)
      /\ what("snapshotSequence") = Number(o.sequence)
      /\ what("stableFrames") = Number(o.frames)
      /\ what("playerInVehicle") = Boolean(o.inVehicle)
      /\ what("visibleLabel") = EscapeJson(o.label)
      /\ what("identity") = EscapeJson(o.identity)
  OBVIOUS
<1> HIDE DEF what
<1> QED BY <1>2, <1>3

LEMMA ObservationRead ==
  ASSUME NEW o, Observed(o)
  PROVE  TakesObservation(ObservationJson(o)) /\ ParseObservation(ObservationJson(o)) = o
<1> DEFINE json == ObservationJson(o)
<1>1. /\ json.type = "object"
      /\ DOMAIN json.members =
           {"ordinal", "raw", "snapshotSequence", "stableFrames", "playerInVehicle"}
             \cup {key \in {"visibleLabel"} : o.label # None}
             \cup {key \in {"identity"} : o.identity # None}
      /\ json.members["ordinal"] = Number(o.ordinal)
      /\ json.members["raw"] = Number(o.raw)
      /\ json.members["snapshotSequence"] = Number(o.sequence)
      /\ json.members["stableFrames"] = Number(o.frames)
      /\ json.members["playerInVehicle"] = Boolean(o.inVehicle)
      /\ o.label # None => json.members["visibleLabel"] = EscapeJson(o.label)
      /\ o.identity # None => json.members["identity"] = EscapeJson(o.identity)
  BY WrittenMembers
<1> HIDE DEF json
<1>2. /\ ~Lacks(json, "ordinal") /\ ~Lacks(json, "raw") /\ ~Lacks(json, "snapshotSequence")
      /\ ~Lacks(json, "stableFrames") /\ ~Lacks(json, "playerInVehicle")
      /\ Lacks(json, "visibleLabel") <=> o.label = None
      /\ Lacks(json, "identity") <=> o.identity = None
  BY <1>1 DEF Lacks
<1>3. /\ Member(json, "ordinal") = Number(o.ordinal) /\ Member(json, "raw") = Number(o.raw)
      /\ Member(json, "snapshotSequence") = Number(o.sequence)
      /\ Member(json, "stableFrames") = Number(o.frames)
      /\ Member(json, "playerInVehicle") = Boolean(o.inVehicle)
      /\ o.label # None => Member(json, "visibleLabel") = EscapeJson(o.label)
      /\ o.identity # None => Member(json, "identity") = EscapeJson(o.identity)
  BY <1>1 DEF Member
<1>4. /\ HasNumber(json, "ordinal", Uint32Max) /\ HasNumber(json, "raw", 255)
      /\ HasNumber(json, "snapshotSequence", LongMax) /\ HasNumber(json, "stableFrames", Uint32Max)
      /\ Has(json, "playerInVehicle", "boolean")
  BY <1>2, <1>3 DEF HasNumber, Has, Number, Boolean, Observed
<1>5. o.label # None => Has(json, "visibleLabel", "string")
  BY <1>2, <1>3 DEF Has, EscapeJson
<1>6. o.identity # None => HasText(json, "identity", Identities \cup {"unknown"})
  BY <1>2, <1>3 DEF HasText, Has, EscapeJson, Observed, Texted
<1>7. TakesObservation(json)
  BY <1>1, <1>2, <1>4, <1>5, <1>6 DEF TakesObservation
<1>8. TextOr(json, "visibleLabel", None) = o.label /\ TextOr(json, "identity", None) = o.identity
  BY <1>2, <1>3, <1>5, <1>6 DEF TextOr, HasText, Has, EscapeJson
<1>9. ParseObservation(json) = o
  <2>1. /\ Member(json, "ordinal").number = o.ordinal /\ Member(json, "raw").number = o.raw
        /\ Member(json, "snapshotSequence").number = o.sequence
        /\ Member(json, "stableFrames").number = o.frames
        /\ Member(json, "playerInVehicle").boolean = o.inVehicle
    BY <1>3 DEF Number, Boolean
  <2>2. Has(json, "snapshotSequence", "number")
    BY <1>4 DEF HasNumber
  <2>3. ParseObservation(json) =
          [ordinal |-> o.ordinal, raw |-> o.raw, sequence |-> o.sequence, frames |-> o.frames,
           inVehicle |-> o.inVehicle, label |-> o.label, identity |-> o.identity]
    BY <1>8, <2>1, <2>2 DEF ParseObservation
  <2> QED BY <2>3 DEF Observed
<1> QED BY <1>7, <1>9 DEF json

-----------------------------------------------------------------------------
(* A document.                                                             *)

LEMMA WrittenDocument ==
  ASSUME NEW d
  PROVE  /\ Serialize(d).type = "object"
         /\ DOMAIN Serialize(d).members =
              {"schemaVersion", "executableProfile", "sessionId", "sourceId", "observations"}
         /\ Member(Serialize(d), "schemaVersion") = Number(d.schemaVersion)
         /\ Member(Serialize(d), "executableProfile") = EscapeJson(d.profile)
         /\ Member(Serialize(d), "sessionId") = EscapeJson(d.session)
         /\ Member(Serialize(d), "sourceId") = EscapeJson(d.source)
         /\ Member(Serialize(d), "observations")
              = Array([i \in DOMAIN d.observations |-> ObservationJson(d.observations[i])])
BY DEF Serialize, Object, Member

\* What is read as text, a number or a Boolean value.
Leaf(json) ==
  \/ json.type = "number" /\ json.number \in -LongMax .. LongMax
  \/ json.type = "boolean"
  \/ json.type = "string" /\ json.raw \cap {"quote", "newline", "control"} = {}

\* The values of a file that is written for an accepted document.
Serialized(d, json) ==
  \/ json = Serialize(d)
  \/ json = Member(Serialize(d), "observations")
  \/ \E i \in DOMAIN d.observations : json = ObservationJson(d.observations[i])
  \/ Leaf(json)

LEMMA LeavesWritten ==
  /\ \A n \in 0 .. LongMax : Leaf(Number(n))
  /\ \A n \in 0 .. 255 : Leaf(Number(n))
  /\ \A n \in 0 .. Uint32Max : Leaf(Number(n))
  /\ \A b : Leaf(Boolean(b))
  /\ \A t : Kinds[t] \subseteq {"quote", "space"} => Leaf(EscapeJson(t))
<1>1. LongMax \in Nat /\ Uint32Max \in Nat /\ 255 < Uint32Max /\ Uint32Max < LongMax
  BY EvidenceAssumption
<1>2. \A n \in 0 .. LongMax : Leaf(Number(n))
  BY <1>1 DEF Leaf, Number
<1>3. /\ \A n \in 0 .. 255 : n \in 0 .. LongMax
      /\ \A n \in 0 .. Uint32Max : n \in 0 .. LongMax
  BY <1>1
<1>4. \A b : Leaf(Boolean(b))
  BY DEF Leaf, Boolean
<1>5. \A t : Kinds[t] \subseteq {"quote", "space"} => Leaf(EscapeJson(t))
  BY DEF Leaf, EscapeJson
<1> QED BY <1>2, <1>3, <1>4, <1>5

LEMMA PlainTexts ==
  /\ \A t \in Identities \cup ProfileIds \cup {"unknown", ""} : Kinds[t] \subseteq {"quote", "space"}
  /\ \A t : IsSafeIdentifier(t) \/ IsSafeVisibleLabel(t) => Kinds[t] \subseteq {"quote", "space"}
<1>1. \A t \in Identities \cup ProfileIds \cup {"unknown", ""} : Kinds[t] = {}
  BY EvidenceAssumption
<1>2. \A t : IsSafeIdentifier(t) => Kinds[t] = {}
  BY DEF IsSafeIdentifier
<1>3. \A t : IsSafeVisibleLabel(t) => Kinds[t] \subseteq {"quote", "space"}
  BY DEF IsSafeVisibleLabel
<1> QED BY <1>1, <1>2, <1>3

LEMMA WrittenClosed ==
  ASSUME NEW d, Accepted(d), NEW json, Serialized(d, json), NEW child \in Children(json)
  PROVE  Serialized(d, child)
<1> DEFINE o(i) == d.observations[i]
<1>1. CASE json = Serialize(d)
  <2>1. PICK key \in DOMAIN json.members : child = Member(json, key)
    BY <1>1, WrittenDocument DEF Children, Range, Member
  <2>2. /\ Kinds[d.profile] \subseteq {"quote", "space"}
        /\ Kinds[d.session] \subseteq {"quote", "space"}
        /\ Kinds[d.source] \subseteq {"quote", "space"}
    <3>1. d.profile \in ProfileIds /\ Valid(d)
      BY DEF Accepted, Documented
    <3>2. IsSafeIdentifier(d.session) /\ (d.source = "" \/ IsSafeIdentifier(d.source))
      BY <3>1 DEF Valid
    <3> QED BY <3>1, <3>2, PlainTexts
  <2>3. d.schemaVersion = 1
    BY DEF Accepted
  <2>4. CASE key = "schemaVersion"
    <3>1. child = Number(d.schemaVersion)
      BY <1>1, <2>1, <2>4, WrittenDocument
    <3>2. 1 \in 0 .. 255
      OBVIOUS
    <3> QED BY <2>3, <3>1, <3>2, LeavesWritten DEF Serialized
  <2>5. CASE key = "executableProfile"
    BY <1>1, <2>1, <2>2, <2>5, WrittenDocument, LeavesWritten DEF Serialized
  <2>6. CASE key = "sessionId"
    BY <1>1, <2>1, <2>2, <2>6, WrittenDocument, LeavesWritten DEF Serialized
  <2>7. CASE key = "sourceId"
    BY <1>1, <2>1, <2>2, <2>7, WrittenDocument, LeavesWritten DEF Serialized
  <2>8. CASE key = "observations"
    BY <1>1, <2>1, <2>8 DEF Serialized
  <2>9. key \in {"schemaVersion", "executableProfile", "sessionId", "sourceId", "observations"}
    BY <1>1, <2>1, WrittenDocument
  <2> QED BY <2>4, <2>5, <2>6, <2>7, <2>8, <2>9
<1>2. CASE json = Member(Serialize(d), "observations")
  <2>1. json = Array([i \in DOMAIN d.observations |-> ObservationJson(o(i))])
    BY <1>2, WrittenDocument
  <2>2. PICK i \in DOMAIN d.observations : child = ObservationJson(o(i))
    BY <2>1 DEF Children, Range, Array
  <2> QED BY <2>2 DEF Serialized
<1>3. ASSUME NEW i \in DOMAIN d.observations, json = ObservationJson(o(i))
      PROVE  Serialized(d, child)
  <2>1. Observed(o(i))
    BY DEF Accepted
  <2>2. PICK key \in DOMAIN json.members : child = json.members[key]
    BY <1>3, WrittenMembers DEF Children, Range
  <2>3. key \in {"ordinal", "raw", "snapshotSequence", "stableFrames", "playerInVehicle"}
                  \cup {k \in {"visibleLabel"} : o(i).label # None}
                  \cup {k \in {"identity"} : o(i).identity # None}
    BY <1>3, <2>2, WrittenMembers
  <2>4. /\ o(i).ordinal \in 0 .. Uint32Max /\ o(i).raw \in 0 .. 255
        /\ o(i).sequence \in 0 .. LongMax /\ o(i).frames \in 0 .. Uint32Max
        /\ o(i).label # None => Kinds[o(i).label] \subseteq {"quote", "space"}
        /\ o(i).identity # None => Kinds[o(i).identity] \subseteq {"quote", "space"}
    BY <2>1, PlainTexts DEF Observed, Texted
  <2> HIDE DEF o
  <2>5. Leaf(child)
    <3>1. CASE key = "ordinal"
      <4>1. child = Number(o(i).ordinal)
        BY <1>3, <2>2, <3>1, WrittenMembers
      <4> QED BY <2>4, <4>1, LeavesWritten
    <3>2. CASE key = "raw"
      <4>1. child = Number(o(i).raw)
        BY <1>3, <2>2, <3>2, WrittenMembers
      <4> QED BY <2>4, <4>1, LeavesWritten
    <3>3. CASE key = "snapshotSequence"
      <4>1. child = Number(o(i).sequence)
        BY <1>3, <2>2, <3>3, WrittenMembers
      <4> QED BY <2>4, <4>1, LeavesWritten
    <3>4. CASE key = "stableFrames"
      <4>1. child = Number(o(i).frames)
        BY <1>3, <2>2, <3>4, WrittenMembers
      <4> QED BY <2>4, <4>1, LeavesWritten
    <3>5. CASE key = "playerInVehicle"
      <4>1. child = Boolean(o(i).inVehicle)
        BY <1>3, <2>2, <3>5, WrittenMembers
      <4> QED BY <4>1, LeavesWritten
    <3>6. CASE key = "visibleLabel" /\ o(i).label # None
      <4>1. child = EscapeJson(o(i).label)
        BY <1>3, <2>2, <3>6, WrittenMembers
      <4>2. Kinds[o(i).label] \subseteq {"quote", "space"}
        BY <2>4, <3>6
      <4> QED BY <4>1, <4>2, LeavesWritten
    <3>7. CASE key = "identity" /\ o(i).identity # None
      <4>1. child = EscapeJson(o(i).identity)
        BY <1>3, <2>2, <3>7, WrittenMembers
      <4>2. Kinds[o(i).identity] \subseteq {"quote", "space"}
        BY <2>4, <3>7
      <4> QED BY <4>1, <4>2, LeavesWritten
    <3> QED BY <2>3, <3>1, <3>2, <3>3, <3>4, <3>5, <3>6, <3>7
  <2> QED BY <2>5 DEF Serialized
<1>4. CASE Leaf(json)
  BY <1>4 DEF Leaf, Children
<1> QED BY <1>1, <1>2, <1>3, <1>4 DEF Serialized

LEMMA NestedWritten ==
  ASSUME NEW d, Accepted(d)
  PROVE  \A json \in Nested(Serialize(d)) : Serialized(d, json)
<1> DEFINE Unfold(values) == values \cup UNION {Children(json) : json \in values}
           one == Unfold({Serialize(d)})
           two == Unfold(one)
<1>1. ASSUME NEW values, \A json \in values : Serialized(d, json)
      PROVE  \A json \in Unfold(values) : Serialized(d, json)
  BY <1>1, WrittenClosed
<1>2. Nested(Serialize(d)) = Unfold(two)
  BY DEF Nested
<1>3. \A json \in {Serialize(d)} : Serialized(d, json)
  BY DEF Serialized
<1> HIDE DEF Unfold
<1>4. \A json \in one : Serialized(d, json)
  BY <1>1, <1>3
<1> HIDE DEF one
<1>5. \A json \in two : Serialized(d, json)
  BY <1>1, <1>4
<1> HIDE DEF two
<1>6. \A json \in Unfold(two) : Serialized(d, json)
  BY <1>1, <1>5
<1> QED BY <1>2, <1>6

\* No text, and no number, of what is written is refused, and no key of it is sensitive.
LEMMA WrittenReadable ==
  ASSUME NEW d, Accepted(d)
  PROVE  Readable(Serialize(d)) /\ ~HasSensitiveField(Serialize(d))
<1>1. ASSUME NEW json, Serialized(d, json)
      PROVE  /\ \/ Leaf(json)
                \/ json.type \in {"object", "array"}
             /\ json.type = "object" => DOMAIN json.members \cap SensitiveKeys = {}
  <2>1. CASE json = Serialize(d)
    BY <2>1, WrittenDocument, EvidenceAssumption
  <2>2. CASE json = Member(Serialize(d), "observations")
    <3>1. json = Array([i \in DOMAIN d.observations |-> ObservationJson(d.observations[i])])
      BY <2>2, WrittenDocument
    <3>2. json.type = "array"
      BY <3>1 DEF Array
    <3> QED BY <3>2
  <2>3. ASSUME NEW i \in DOMAIN d.observations, json = ObservationJson(d.observations[i])
        PROVE  json.type = "object" /\ DOMAIN json.members \cap SensitiveKeys = {}
    <3> DEFINE keys == {"ordinal", "raw", "snapshotSequence", "stableFrames", "playerInVehicle",
                        "visibleLabel", "identity"}
    <3>1. json.type = "object"
      BY <2>3, WrittenMembers
    <3>2. DOMAIN json.members \subseteq keys
      BY <2>3, WrittenMembers
    <3>3. keys \cap SensitiveKeys = {}
      BY EvidenceAssumption
    <3> HIDE DEF keys
    <3> QED BY <3>1, <3>2, <3>3
  <2>4. CASE Leaf(json)
    BY <2>4 DEF Leaf
  <2> QED BY <1>1, <2>1, <2>2, <2>3, <2>4 DEF Serialized
<1>2. ASSUME NEW json, Leaf(json) \/ json.type \in {"object", "array"}
      PROVE  CASE json.type = "string" -> json.raw \cap {"quote", "newline", "control"} = {}
               [] json.type = "number" -> json.number \in -LongMax .. LongMax
               [] OTHER -> json.type \in {"boolean", "null", "object", "array"}
  BY <1>2 DEF Leaf
<1>3. Readable(Serialize(d))
  BY <1>1, <1>2, NestedWritten DEF Readable
<1>4. ~HasSensitiveField(Serialize(d))
  BY <1>1, NestedWritten DEF HasSensitiveField
<1> QED BY <1>3, <1>4

\* What serializeRadioStationEvidenceJson writes for a document parseRadioStationEvidenceJson
\* accepted is read as that very document, with every station, label and identifier of it:
\* a redaction, which does both, can be redacted again and compared with its original.
THEOREM RoundTrip ==
  ASSUME NEW d, Accepted(d)
  PROVE  ParseEvidence(Serialize(d)) = {d}
<1> DEFINE json == Serialize(d)
           said == [i \in DOMAIN d.observations |-> ObservationJson(d.observations[i])]
           elements == Member(json, "observations").elements
           parsed == [i \in DOMAIN elements |-> ParseObservation(elements[i])]
           document ==
             [schemaVersion |-> Member(json, "schemaVersion").number,
              profile |-> Member(json, "executableProfile").text,
              session |-> Member(json, "sessionId").text, source |-> TextOr(json, "sourceId", ""),
              observations |-> parsed]
<1>1. Readable(json) /\ ~HasSensitiveField(json)
  BY WrittenReadable
<1>2. /\ json.type = "object"
      /\ ~Lacks(json, "schemaVersion") /\ ~Lacks(json, "executableProfile")
      /\ ~Lacks(json, "sessionId") /\ ~Lacks(json, "sourceId") /\ ~Lacks(json, "observations")
      /\ Member(json, "schemaVersion") = Number(d.schemaVersion)
      /\ Member(json, "executableProfile") = EscapeJson(d.profile)
      /\ Member(json, "sessionId") = EscapeJson(d.session)
      /\ Member(json, "sourceId") = EscapeJson(d.source)
      /\ Member(json, "observations") = Array(said)
  BY WrittenDocument DEF Lacks
<1> HIDE DEF json
<1>3. d.schemaVersion = 1 /\ d.profile \in ProfileIds /\ Valid(d)
  BY DEF Accepted, Documented, Valid
<1>4. /\ HasNumber(json, "schemaVersion", 1) /\ HasText(json, "executableProfile", ProfileIds)
      /\ Has(json, "sessionId", "string") /\ Has(json, "sourceId", "string")
      /\ Has(json, "observations", "array")
  <2> HIDE DEF said
  <2> QED BY <1>2, <1>3 DEF HasNumber, HasText, Has, Number, EscapeJson, Array
<1>5. elements = said
  <2> HIDE DEF said
  <2> QED BY <1>2 DEF Array
<1>6. \A i \in DOMAIN elements : elements[i] = ObservationJson(d.observations[i])
  BY <1>5
<1>7. DOMAIN elements = DOMAIN d.observations
  BY <1>5
<1> HIDE DEF elements
<1>8. \A i \in DOMAIN elements : /\ TakesObservation(elements[i])
                                 /\ ParseObservation(elements[i]) = d.observations[i]
  BY <1>6, <1>7, ObservationRead DEF Accepted
<1>9. parsed = d.observations
  <2>1. d.observations = [i \in DOMAIN d.observations |-> d.observations[i]]
    BY DEF Accepted
  <2> QED BY <1>7, <1>8, <2>1
<1>10. /\ Member(json, "schemaVersion").number = 1
       /\ Member(json, "executableProfile").text = d.profile
       /\ Member(json, "sessionId").text = d.session
       /\ TextOr(json, "sourceId", "") = d.source
  BY <1>2, <1>3, <1>4 DEF Number, EscapeJson, TextOr
<1> HIDE DEF parsed
<1>11. document = d
  BY <1>9, <1>10 DEF Accepted
<1>12. ParseEvidence(json) = {x \in {document} : Valid(x)}
  BY <1>1, <1>2, <1>4, <1>8 DEF ParseEvidence, elements, parsed
<1> HIDE DEF document
<1>13. ParseEvidence(json) = {d}
  BY <1>3, <1>11, <1>12
<1> QED BY <1>13 DEF json

-----------------------------------------------------------------------------
(* The archive.                                                            *)

\* What the files of the start say. Redaction adds nothing to it.
Originals == UNION {ParseEvidence(paper) : paper \in Files}

\* What a file of the archive may be.
Papers == Files \cup {Broken} \cup {Serialize(d) : d \in Originals}

ArchiveInv == archive \in Seq(Papers)

\* A file says one thing, or nothing.
LEMMA OneDocument ==
  ASSUME NEW paper
  PROVE  \A c, d \in ParseEvidence(paper) : c = d
BY DEF ParseEvidence

LEMMA BrokenSaysNothing == ParseEvidence(Broken) = {}
BY DEF ParseEvidence, Broken

LEMMA OriginalsAccepted ==
  ASSUME NEW d \in Originals
  PROVE  Accepted(d)
<1>1. PICK paper \in Files : d \in ParseEvidence(paper)
  BY DEF Originals
<1>2. ASSUME Has(paper, "observations", "array")
      PROVE  \E n \in Nat : DOMAIN Member(paper, "observations").elements = 1 .. n
  <2> DEFINE list == Member(paper, "observations")
  <2>1. paper.type = "object"
    BY <1>1 DEF ParseEvidence
  <2>2. list \in Children(paper)
    BY <1>2, <2>1 DEF Has, Lacks, Member, Children, Range
  <2>3. list \in Nested(paper)
    <3> DEFINE Unfold(values) == values \cup UNION {Children(json) : json \in values}
    <3>1. list \in Unfold({paper})
      BY <2>2
    <3>2. Nested(paper) = Unfold(Unfold(Unfold({paper})))
      BY DEF Nested
    <3>3. Unfold({paper}) \subseteq Nested(paper)
      <4>1. \A values : values \subseteq Unfold(values)
        OBVIOUS
      <4> HIDE DEF Unfold
      <4> QED BY <3>2, <4>1
    <3> HIDE DEF Unfold
    <3> QED BY <3>1, <3>3
  <2>4. list.elements \in Seq(Range(list.elements))
    BY <1>2, <2>3, NestingAssumption DEF Has
  <2>5. DOMAIN list.elements = 1 .. Len(list.elements) /\ Len(list.elements) \in Nat
    BY <2>4
  <2> QED BY <2>5
<1> QED BY <1>1, <1>2, ReadIsAccepted

LEMMA PapersSay ==
  ASSUME NEW paper \in Papers
  PROVE  ParseEvidence(paper) \subseteq Originals
<1>1. CASE paper \in Files
  BY <1>1 DEF Originals
<1>2. CASE paper = Broken
  BY <1>2, BrokenSaysNothing
<1>3. ASSUME NEW d \in Originals, paper = Serialize(d)
      PROVE  ParseEvidence(paper) \subseteq Originals
  BY <1>3, OriginalsAccepted, RoundTrip
<1> QED BY <1>1, <1>2, <1>3 DEF Papers

LEMMA ArchiveIsOfPapers == ArchiveSpec => []ArchiveInv
<1>1. ArchiveInit => ArchiveInv
  BY DEF ArchiveInit, ArchiveInv
<1>2. ASSUME ArchiveInv, [ArchiveNext]_archive PROVE ArchiveInv'
  <2>1. ASSUME AddFile PROVE ArchiveInv'
    BY <1>2, <2>1 DEF AddFile, ArchiveInv, Papers
  <2>2. ASSUME Redact PROVE ArchiveInv'
    <3>1. PICK i \in DOMAIN archive : \E d \in ParseEvidence(archive[i]) :
            \E written \in {"all", "less"} : \E output \in {Serialize(d), Broken} :
              \/ archive' = [archive EXCEPT ![i] = output]
              \/ archive' = Append(archive, output)
      BY <2>2 DEF Redact
    <3>2. PICK d \in ParseEvidence(archive[i]) : \E output \in {Serialize(d), Broken} :
              \/ archive' = [archive EXCEPT ![i] = output]
              \/ archive' = Append(archive, output)
      BY <3>1
    <3>3. archive[i] \in Papers
      BY <1>2 DEF ArchiveInv
    <3>4. Serialize(d) \in Papers /\ Broken \in Papers
      BY <3>2, <3>3, PapersSay DEF Papers
    <3> QED BY <1>2, <3>2, <3>4 DEF ArchiveInv
  <2>3. CASE UNCHANGED archive
    BY <1>2, <2>3 DEF ArchiveInv
  <2> QED BY <1>2, <2>1, <2>2, <2>3 DEF ArchiveNext
<1> QED BY <1>1, <1>2, PTL DEF ArchiveSpec

\* Of the files there are, finitely many documents are read.
LEMMA DocumentsAccepted ==
  ASSUME ArchiveInv
  PROVE  /\ IsFiniteSet(Documents)
         /\ \A d \in Documents : Accepted(d) /\ Documented(d)
<1> DEFINE said == [i \in DOMAIN archive |-> ParseEvidence(archive[i])]
           sets == {said[i] : i \in DOMAIN archive}
<1>1. PICK n \in Nat : DOMAIN archive = 1 .. n
  BY DEF ArchiveInv
<1>2. IsFiniteSet(sets)
  <2>1. IsFiniteSet(1 .. n)
    BY FS_Interval
  <2> HIDE DEF said
  <2> QED BY <1>1, <2>1, ImageFinite
<1>3. ASSUME NEW i \in DOMAIN archive PROVE IsFiniteSet(said[i])
  <2>1. CASE said[i] = {}
    BY <2>1, FS_EmptySet
  <2>2. CASE said[i] # {}
    <3>1. PICK d \in said[i] : TRUE
      BY <2>2
    <3>2. said[i] = {d}
      BY <3>1, OneDocument
    <3> HIDE DEF said
    <3> QED BY <3>2, FS_Singleton
  <2> QED BY <2>1, <2>2
<1>4. Documents = UNION sets
  <2>1. sets = {ParseEvidence(archive[i]) : i \in DOMAIN archive}
    OBVIOUS
  <2> HIDE DEF sets
  <2> QED BY <2>1 DEF Documents
<1>5. IsFiniteSet(UNION sets)
  <2>1. \A T \in sets : IsFiniteSet(T)
    BY <1>3
  <2> HIDE DEF sets
  <2> QED BY <1>2, <2>1, FS_UNION
<1>6. ASSUME NEW d \in Documents PROVE Accepted(d)
  <2>1. PICK i \in DOMAIN archive : d \in ParseEvidence(archive[i])
    BY DEF Documents
  <2>2. archive[i] \in Papers
    BY <2>1 DEF ArchiveInv
  <2> QED BY <2>1, <2>2, PapersSay, OriginalsAccepted
<1> QED BY <1>4, <1>5, <1>6 DEF Accepted

DocumentsInv == IsFiniteSet(Documents) /\ \A d \in Documents : Documented(d)

LEMMA DocumentsSound == ArchiveSpec => []DocumentsInv
<1>1. ArchiveInv => DocumentsInv
  BY DocumentsAccepted DEF DocumentsInv
<1> QED BY <1>1, ArchiveIsOfPapers, PTL

\* The comparison of two sessions, the map both are put into and the resolver agree,
\* for any files, however often they are rewritten and whatever writes fail.
THEOREM MapAgreesAlways == ArchiveSpec => []MapAgreesWithComparison
<1>1. ArchiveInv => MapAgreesWithComparison
  BY DocumentsAccepted, MapAgrees
<1> QED BY <1>1, ArchiveIsOfPapers, PTL

\* What the registry finds in the map of an archive is what ConfigurationAssumption
\* takes for the map of a profile: identities only, for each raw value it has.
THEOREM FoundMapFits ==
  ArchiveSpec => [](\/ RegistryFind(StationMap) = None
                    \/ \A raw \in DOMAIN RegistryFind(StationMap) :
                         RegistryFind(StationMap)[raw] \in Identities)
<1>1. DocumentsInv => \/ RegistryFind(StationMap) = None
                      \/ \A raw \in DOMAIN RegistryFind(StationMap) :
                           RegistryFind(StationMap)[raw] \in Identities
  <2> SUFFICES ASSUME DocumentsInv, RegistryFind(StationMap) # None,
                      NEW raw \in DOMAIN RegistryFind(StationMap)
               PROVE  RegistryFind(StationMap)[raw] \in Identities
    OBVIOUS
  <2> DEFINE map == BuildMap(Documents)
             found == RegistryFind(map)
  <2>1. MapValid(map) /\ found = [r \in DOMAIN map |-> map[r].identity]
    BY DEF RegistryFind, StationMap
  <2>2. /\ raw \in DOMAIN map /\ found[raw] = map[raw].identity
        /\ map[raw].identity # "unknown"
    BY <2>1 DEF StationMap, MapValid
  <2>3. map[raw].identity = Identity(Entry(Documents, raw))
    BY <2>2, MapAt
  <2>4. map[raw].identity \in IdentitiesOf(Entry(Documents, raw))
    BY <2>2, <2>3, EntryFinite, IdentityIs DEF DocumentsInv
  <2> QED BY <2>2, <2>4, KnownIdentities DEF StationMap
<1> QED BY <1>1, DocumentsSound, PTL

-----------------------------------------------------------------------------
(* Steps.                                                                  *)

\* What a redaction writes and reads back is what it has read, or nothing.
LEMMA RedactedSaysTheSame ==
  ASSUME ArchiveInv, ArchiveInv', Redact
  PROVE  Documents' \subseteq Documents /\ (~Damages => Documents' = Documents)
<1>1. PICK i \in DOMAIN archive : \E d \in ParseEvidence(archive[i]) :
        \E output \in {Serialize(d), Broken} :
          \/ archive' = [archive EXCEPT ![i] = output]
          \/ archive' = Append(archive, output)
  BY DEF Redact
<1>2. PICK d \in ParseEvidence(archive[i]) : \E output \in {Serialize(d), Broken} :
        \/ archive' = [archive EXCEPT ![i] = output]
        \/ archive' = Append(archive, output)
  BY <1>1
<1>3. PICK output \in {Serialize(d), Broken} :
        \/ archive' = [archive EXCEPT ![i] = output]
        \/ archive' = Append(archive, output)
  BY <1>2
<1>4. ParseEvidence(archive[i]) = {d} /\ ParseEvidence(Serialize(d)) = {d}
  <2>1. ParseEvidence(archive[i]) = {d}
    BY <1>2, OneDocument
  <2>2. archive[i] \in Papers
    BY DEF ArchiveInv
  <2>3. Accepted(d)
    BY <1>2, <2>2, PapersSay, OriginalsAccepted
  <2> QED BY <2>1, <2>3, RoundTrip
<1>5. archive[i] # Broken
  BY <1>4, BrokenSaysNothing
<1>6. d \in Documents
  BY <1>4 DEF Documents
<1>7. PICK n \in Nat : DOMAIN archive = 1 .. n /\ n = Len(archive)
  BY DEF ArchiveInv
<1>8. CASE archive' = [archive EXCEPT ![i] = output]
  <2>1. /\ DOMAIN archive' = DOMAIN archive
        /\ archive'[i] = output
        /\ \A j \in DOMAIN archive : j # i => archive'[j] = archive[j]
    BY <1>8
  <2>2. \A j \in DOMAIN archive : ParseEvidence(archive'[j]) \subseteq ParseEvidence(archive[j])
    BY <1>3, <1>4, <2>1, BrokenSaysNothing
  <2>3. ASSUME ~Damages
        PROVE  \A j \in DOMAIN archive : ParseEvidence(archive'[j]) = ParseEvidence(archive[j])
    <3>1. output = Serialize(d)
      BY <1>3, <1>5, <2>1, <2>3 DEF Damages
    <3> QED BY <1>4, <2>1, <3>1
  <2> QED BY <2>1, <2>2, <2>3 DEF Documents
<1>9. CASE archive' = Append(archive, output)
  <2>1. /\ DOMAIN archive' = 1 .. n + 1
        /\ archive'[n + 1] = output
        /\ \A j \in DOMAIN archive : archive'[j] = archive[j]
    BY <1>7, <1>9 DEF ArchiveInv
  <2>2. ParseEvidence(output) \subseteq {d}
    BY <1>3, <1>4, BrokenSaysNothing
  <2>3. Documents \subseteq Documents'
    BY <1>7, <2>1 DEF Documents
  <2>4. Documents' \subseteq Documents
    BY <1>6, <1>7, <2>1, <2>2 DEF Documents
  <2> QED BY <2>3, <2>4
<1> QED BY <1>3, <1>8, <1>9

\* A file more says more, and one there was already says nothing new.
LEMMA AddedSaysMore ==
  ASSUME ArchiveInv, AddFile
  PROVE  /\ Documents \subseteq Documents'
         /\ archive'[Len(archive')] \in Range(archive) => Documents' = Documents
<1>1. PICK paper \in Files : archive' = Append(archive, paper)
  BY DEF AddFile
<1>2. PICK n \in Nat : DOMAIN archive = 1 .. n /\ n = Len(archive)
  BY DEF ArchiveInv
<1>3. /\ DOMAIN archive' = 1 .. n + 1 /\ Len(archive') = n + 1
      /\ archive'[n + 1] = paper
      /\ \A j \in DOMAIN archive : archive'[j] = archive[j]
  BY <1>1, <1>2 DEF ArchiveInv
<1>4. Documents \subseteq Documents'
  BY <1>2, <1>3 DEF Documents
<1>5. ASSUME archive'[Len(archive')] \in Range(archive) PROVE Documents' \subseteq Documents
  <2>1. PICK i \in DOMAIN archive : archive[i] = paper
    BY <1>3, <1>5 DEF Range
  <2> QED BY <1>2, <1>3, <2>1 DEF Documents
<1> QED BY <1>4, <1>5

\* For any files and however many: a file takes evidence only from the stations it
\* disputes, a failed write only from those its file spoke of, no station becomes another
\* one, and a copy or a redaction that is written out changes nothing.
THEOREM EvidenceLasts == ArchiveSpec => EvidenceNeverErodes
<1> DEFINE Lasts ==
      \E documents \in {Documents}, further \in {Documents'} :
      \E old \in {Counted(documents)}, new \in {Counted(further)},
         before \in {BuildMap(documents)}, after \in {BuildMap(further)} :
        /\ \A raw \in DOMAIN before \cup DOMAIN after : Keeps(old, new, before, after, raw)
        /\ ~Damages /\ (Redact \/ archive'[Len(archive')] \in Range(archive)) => after = before
<1>1. ASSUME ArchiveInv, ArchiveInv', DocumentsInv, DocumentsInv', ArchiveNext PROVE Lasts
  <2>1. /\ IsFiniteSet(Documents) /\ \A d \in Documents : Documented(d)
        /\ IsFiniteSet(Documents') /\ \A d \in Documents' : Documented(d)
    BY <1>1 DEF DocumentsInv
  <2>2. Documents \subseteq Documents' \/ Documents' \subseteq Documents
    BY <1>1, RedactedSaysTheSame, AddedSaysMore DEF ArchiveNext
  <2>3. ~Damages /\ (Redact \/ archive'[Len(archive')] \in Range(archive)) => Documents' = Documents
    BY <1>1, RedactedSaysTheSame, AddedSaysMore DEF ArchiveNext
  <2>4. \A raw : Keeps(Counted(Documents), Counted(Documents'),
                       BuildMap(Documents), BuildMap(Documents'), raw)
    BY <2>1, <2>2, MapKeeps
  <2> HIDE DEF Keeps, Redact, Damages, Documents
  <2> QED BY <2>3, <2>4
<1>2. ASSUME ArchiveInv, ArchiveInv', DocumentsInv, DocumentsInv', [ArchiveNext]_archive
      PROVE  [Lasts]_archive
  <2> HIDE DEF Lasts
  <2> QED BY <1>1, <1>2
<1> QED BY <1>2, ArchiveIsOfPapers, DocumentsSound, PTL DEF ArchiveSpec, EvidenceNeverErodes

=============================================================================
